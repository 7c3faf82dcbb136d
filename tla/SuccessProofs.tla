--------------------------- MODULE SuccessProofs ---------------------------
(***************************************************************************)
(* What a run that exits 0 leaves behind when nobody else changed anything  *)
(* since it started: an apply, what is declared; a destroy, nothing of it;  *)
(* and a repeated apply, nothing to do.                                    *)
(*                                                                         *)
(* All of that is about a server that does not replay answers.  One that   *)
(* honours Idempotency-Key answers a create by the uuid of an object that  *)
(* may have been deleted since, and a delete by the success of an earlier  *)
(* delete of the same path, and the run takes either for done.             *)
(*                                                                         *)
(* The last section is about any server: runs that come one after another, *)
(* lose no answer and are not killed make no second object of a key, which *)
(* the promises of a destroy and of a repeated apply rest on.              *)
(***************************************************************************)
EXTENDS ScopeProofs

-----------------------------------------------------------------------------
(* The inductive invariant of an apply.                                    *)

\* Uuid u is that of a live object of key k.
Stands(u, k) == \E o \in remote : o.uuid = u /\ KeyOf(o) = k

\* ... that is resource x, on its server.
Halfway(u, x) ==
  \E o \in remote :
    o.uuid = u /\ KeyOf(o) = KeyOf(x) /\ (x.kind \in Diffed => o.server = x.server)

\* ... without a difference a PATCH removes.
Right(u, x) ==
  \E o \in remote :
    /\ o.uuid = u /\ KeyOf(o) = KeyOf(x)
    /\ x.kind \in Diffed => o.spec # "drift" /\ o.server = x.server

Unplanned == {"idle", "projects", "envs", "apps", "services", "databases"}

\* A run that has not started knows nothing, one that still lists plans nothing;
\* one that waits for an answer has a connection, to what it has resolved.
PreparedRun(r) ==
  /\ phase[r] = "idle" => \A k \in Keys : resolved[r][k] = None
  /\ phase[r] \in Unplanned => plan[r] = {} /\ comparing[r] = {}
  /\ phase[r] = "sent" => waiting[r] # {}
  /\ \A m \in waiting[r] :
       /\ m.verb \in {"update", "envs"} => m.at = resolved[r][KeyOf(m.res)]
       /\ m.verb = "delete" =>
            m.at = resolved[r][IF m.res.kind = "Environment" THEN ProjectKey(m.res.project)
                               ELSE KeyOf(m.res)]

Prepared == \A r \in Runs : PreparedRun(r)

\* What run r knows is there.
StandsOK(r) == \A k \in Keys : \A u \in Uuids : resolved[r][k] = u => Stands(u, k)

\* What its answers say is so.
AnswersOK(r) ==
  \A m \in waiting[r] : \A u :
    /\ reply[r].status = "ok" /\ reply[r].uuid = u /\ m.verb = "create" => Right(u, m.res)
    /\ reply[r].status = "ok" /\ m.verb = "update" => Right(m.at, m.res)
    /\ m.verb = "envs" => Right(m.at, m.res)

\* What it has done stays done.
DoneOK(r) ==
  \A op \in Ops : \A u \in Uuids \cup {None} :
    /\ (op \in audited[r] \/ (phase[r] = "audit" /\ op \in cur[r]))
       /\ resolved[r][KeyOf(op.res)] = u => Right(u, op.res)
    /\ op \in plan[r] /\ op.verb = "update" /\ resolved[r][KeyOf(op.res)] = u
         => Halfway(u, op.res)

\* Past its listings, everything it wants is to be compared, planned or right.
CoversOK(r) ==
  /\ \A x \in comparing[r] : resolved[r][KeyOf(x)] # None
  /\ phase[r] \in {"confirm", "done"} \cup Executing => comparing[r] = {}
  /\ phase[r] \in {"diff", "confirm", "done"} \cup Executing =>
       \A x \in Wanted(cmd[r]) : \A u \in Uuids \cup {None} :
         \/ x \in comparing[r]
         \/ \E op \in plan[r] : op.res = x
         \/ resolved[r][KeyOf(x)] = u => Right(u, x)

ApplyOK(r) == StandsOK(r) /\ AnswersOK(r) /\ DoneOK(r) /\ CoversOK(r)

Applies(r) == cmd[r].mode = "apply" /\ ~foreign[r] /\ phase[r] # "idle"

Applied == \A r \in Runs : Applies(r) => ApplyOK(r)

-----------------------------------------------------------------------------
(* What a run may rely on while nobody else changes anything: objects stay, *)
(* and differences only go.                                                *)

Kept ==
  \A o \in remote : \E p \in remote' :
    SameFace(o, p) /\ (o.spec # "drift" => p.spec = o.spec)

LEMMA KeptFacts ==
  ASSUME Kept, NEW u
  PROVE  /\ \A k : Stands(u, k) => Stands(u, k)'
         /\ \A x : Halfway(u, x) => Halfway(u, x)'
         /\ \A x : Right(u, x) => Right(u, x)'
<1>1. \A k : Stands(u, k) => Stands(u, k)'
  BY FaceKey DEF Kept, Stands, SameFace
<1>2. \A x : Halfway(u, x) => Halfway(u, x)'
  BY FaceKey DEF Kept, Halfway, SameFace
<1>3. \A x : Right(u, x) => Right(u, x)'
  <2> SUFFICES ASSUME NEW x, Right(u, x) PROVE Right(u, x)'
    OBVIOUS
  <2>1. PICK o \in remote :
          /\ o.uuid = u /\ KeyOf(o) = KeyOf(x)
          /\ x.kind \in Diffed => o.spec # "drift" /\ o.server = x.server
    BY DEF Right
  <2>2. PICK p \in remote' : SameFace(o, p) /\ (o.spec # "drift" => p.spec = o.spec)
    BY DEF Kept
  <2>3. p.uuid = u /\ KeyOf(p) = KeyOf(x) /\ p.server = o.server
    BY <2>1, <2>2, FaceKey DEF SameFace
  <2> QED BY <2>1, <2>2, <2>3 DEF Right
<1> QED BY <1>1, <1>2, <1>3

LEMMA RightFacts ==
  \A u, x : /\ Right(u, x) => Halfway(u, x)
            /\ Right(u, x) => Stands(u, KeyOf(x))
BY DEF Right, Halfway, Stands

\* A request whose handling leaves run r alone does not change anything, or is
\* its own.
LEMMA ForeignOrOwn ==
  ASSUME TypeOK, NEW m \in net, Handle(m), NEW r \in Runs, ~foreign'[r]
  PROVE  /\ ~foreign[r]
         /\ m.run # r => remote' = remote
BY DEF Handle, CreateObject, ChangeObject, RemoveObject, AlreadyGone, ReplayAnswer,
       RefuseRequest, Disturb

\* A request that creates or changes takes nothing away.
LEMMA AddsOrChanges ==
  ASSUME TypeOK, NEW m \in net, Handle(m), m.verb # "delete"
  PROVE  Kept
<1>1. CASE CreateObject(m)
  BY <1>1 DEF CreateObject, Kept, SameFace
<1>2. CASE ChangeObject(m)
  <2>1. PICK o \in Addressed(m) : remote' = (remote \ {o}) \cup {Changed(m, o)}
    BY <1>2 DEF ChangeObject
  <2>2. o \in remote
    BY <2>1 DEF Addressed
  <2>3. SameFace(o, Changed(m, o)) /\ (o.spec # "drift" => Changed(m, o).spec = o.spec)
    BY <2>2 DEF SameFace, Changed, TypeOK, CoolifyTypeOK, Objects
  <2>4. PICK c : c = Changed(m, o)
    OBVIOUS
  <2>5. remote' = (remote \ {o}) \cup {c} /\ SameFace(o, c) /\ (o.spec # "drift" => c.spec = o.spec)
    BY <2>1, <2>3, <2>4
  <2> QED BY <2>5 DEF Kept, SameFace
<1>3. CASE AlreadyGone(m) \/ ReplayAnswer(m) \/ RefuseRequest(m)
  BY <1>3 DEF AlreadyGone, ReplayAnswer, RefuseRequest, Kept, SameFace
<1>4. ~RemoveObject(m)
  BY DEF RemoveObject
<1> QED BY <1>1, <1>2, <1>3, <1>4 DEF Handle

\* An apply that is left alone sends nothing that deletes.
LEMMA LeftAlone ==
  ASSUME Inv, NEW m \in net, Handle(m), NEW r \in Runs, Applies(r)',
         UNCHANGED runVars
  PROVE  Applies(r) /\ Kept
<1>1. Applies(r) /\ ~foreign'[r] /\ TypeOK
  BY ForeignOrOwn DEF Applies, runVars, Inv
<1>2. CASE m.run # r
  <2>1. remote' = remote
    BY <1>1, <1>2, ForeignOrOwn
  <2> QED BY <1>1, <2>1 DEF Kept, SameFace
<1>3. CASE m.run = r
  <2>1. OpOf(m) \in plan[r]
    BY <1>3 DEF Inv, Accounted, OneAtATime
  <2>2. OpOf(m).verb # "delete"
    BY <1>1, <2>1 DEF Inv, Asked, Applies
  <2>3. m.verb # "delete"
    BY <2>2 DEF OpOf
  <2> QED BY <1>1, <2>3, AddsOrChanges
<1> QED BY <1>2, <1>3

-----------------------------------------------------------------------------
(* A run's connection.                                                     *)

\* What a step of run r leaves alone.
LEMMA OthersKeep ==
  ASSUME Inv, NEW r \in Runs, Start(r) \/ Proceed(r) \/ Answers(r) \/ Crash(r),
         NEW q \in Runs \ {r}
  PROVE  /\ phase'[q] = phase[q] /\ exit'[q] = exit[q] /\ resolved'[q] = resolved[q]
         /\ listing'[q] = listing[q] /\ envRefs'[q] = envRefs[q] /\ scanning'[q] = scanning[q]
         /\ comparing'[q] = comparing[q] /\ plan'[q] = plan[q] /\ cur'[q] = cur[q]
         /\ audited'[q] = audited[q] /\ waiting'[q] = waiting[q] /\ reply'[q] = reply[q]
         /\ foreign'[q] = foreign[q]
<1> USE DEF Skip, Return, Goto, serverVars, progressVars, engineVars
<1> TypeOK
  BY DEF Inv
<1>0. \A objs \in SUBSET remote : Learn(r, objs) => resolved'[q] = resolved[q]
  BY LearnFacts
<1>1. CASE Start(r) \/ RefuseMove(r) \/ ReadFails(r) \/ Planned(r) \/ Answers(r) \/ Finish(r)
           \/ Record(r) \/ RecordFails(r)
  BY <1>1 DEF Start, RefuseMove, ReadFails, Planned, Answers, Finish, Record, RecordFails,
              TypeOK, CoolifyTypeOK
<1>2. CASE ListProjects(r) \/ ListEnvironments(r) \/ ListServers(r)
  <2>1. resolved'[q] = resolved[q]
    BY <1>0, <1>2 DEF ListProjects, ListEnvironments, ListServers
  <2> QED BY <1>2, <2>1 DEF ListProjects, ListEnvironments, ListServers, TypeOK
<1>3. CASE ListApplications(r) \/ ListServices(r) \/ ScanServer(r)
  <2>1. resolved'[q] = resolved[q]
    BY <1>0, <1>3 DEF ListApplications, ListServices, ListChildren, ScanServer
  <2> QED BY <1>3, <2>1 DEF ListApplications, ListServices, ListChildren, ScanServer, TypeOK
<1>4. CASE Load(r) \/ Compare(r)
  BY <1>4 DEF Load, Compare, TypeOK
<1>5. CASE Begin(r) \/ Unresolvable(r)
  BY <1>5 DEF Begin, Unresolvable, Send, FirstTry, TypeOK, CoolifyTypeOK
<1>8. CASE Retry(r)
  <2>1. PICK m \in waiting[r] : Send([m EXCEPT !.try = @ + 1])
    BY <1>8 DEF Retry
  <2>2. m \in Requests /\ m.run = r
    BY <2>1 DEF Inv, Accounted, TypeOK, CoolifyTypeOK
  <2>3. [m EXCEPT !.try = @ + 1].run = r
    BY <2>2 DEF Requests
  <2> QED BY <1>8, <2>1, <2>3 DEF Retry, Send, runVars, TypeOK, CoolifyTypeOK
<1>6. CASE Acknowledge(r) \/ SendVariables(r)
  <2>1. resolved'[q] = resolved[q]
    BY <1>6 DEF Acknowledge, SendVariables, LearnCreated, TypeOK
  <2> QED BY <1>6, <2>1 DEF Acknowledge, SendVariables, Send, FirstTry, HangUp, TypeOK, CoolifyTypeOK
<1>7. CASE Rejected(r) \/ GiveUp(r) \/ Crash(r)
  BY <1>7 DEF Rejected, GiveUp, Crash, HangUp, TypeOK, CoolifyTypeOK
<1> QED BY <1>1, <1>2, <1>3, <1>4, <1>5, <1>6, <1>7, <1>8 DEF Proceed

\* Steps that leave a run without a connection.
LEMMA Unconnected ==
  ASSUME NEW r \in Runs, PreparedRun(r), waiting'[r] = {}, phase'[r] \notin {"idle", "sent"},
         phase'[r] \in Unplanned =>
           phase[r] \in Unplanned /\ plan'[r] = plan[r] /\ comparing'[r] = comparing[r]
  PROVE  PreparedRun(r)'
BY DEF PreparedRun

\* A run that is not waiting keeps no connection.
LEMMA NotSent ==
  ASSUME Inv, NEW r \in Runs, phase[r] # "sent"
  PROVE  waiting[r] = {} /\ reply[r].status # "ok"
BY DEF Inv, Accounted

\* Where the steps of a run that wait for no answer lead.
LEMMA ReadingSteps ==
  ASSUME Inv, NEW r \in Runs,
         \/ Start(r) \/ ListProjects(r) \/ ListEnvironments(r) \/ ListServers(r)
         \/ ListApplications(r) \/ ListServices(r) \/ ScanServer(r)
         \/ Load(r) \/ Compare(r) \/ RefuseMove(r) \/ ReadFails(r) \/ Planned(r) \/ Answers(r)
         \/ Unresolvable(r) \/ Record(r) \/ RecordFails(r) \/ Finish(r)
  PROVE  /\ phase[r] # "sent" /\ phase'[r] \notin {"idle", "sent"}
         /\ UNCHANGED <<net, waiting, reply>>
         /\ waiting'[r] = {}
         /\ phase'[r] \in Unplanned =>
              phase[r] \in Unplanned /\ plan'[r] = plan[r] /\ comparing'[r] = comparing[r]
<1> USE DEF Goto, Skip, Return, serverVars, progressVars, engineVars, Unplanned
<1> TypeOK
  BY DEF Inv
<1>1. CASE Start(r) \/ Answers(r) \/ RefuseMove(r) \/ Planned(r) \/ Finish(r) \/ Unresolvable(r)
  BY <1>1, NotSent DEF Start, Answers, RefuseMove, Planned, Finish, Unresolvable, TypeOK
<1>2. CASE Record(r) \/ RecordFails(r) \/ ReadFails(r) \/ Load(r) \/ Compare(r)
  BY <1>2, NotSent DEF Record, RecordFails, ReadFails, Load, Compare, Reading, TypeOK
<1>3. CASE ListProjects(r) \/ ListEnvironments(r) \/ ListServers(r)
           \/ ListApplications(r) \/ ListServices(r) \/ ScanServer(r)
  BY <1>3, NotSent DEF ListProjects, ListEnvironments, ListServers, ListApplications,
                       ListServices, ListChildren, ScanServer, TypeOK
<1> QED BY <1>1, <1>2, <1>3

\* Where those that hang up lead.
LEMMA HangUpSteps ==
  ASSUME Inv, NEW r \in Runs, Acknowledge(r) \/ Rejected(r) \/ GiveUp(r) \/ Crash(r)
  PROVE  /\ phase'[r] \in {"audit", "done", "skipped"} /\ net' = net
         /\ waiting'[r] = {} /\ reply'[r] = NoReply
BY DEF Acknowledge, Rejected, GiveUp, Crash, HangUp, Goto, Return, Skip, Inv, TypeOK, CoolifyTypeOK

\* And those that open a connection.
LEMMA SendSteps ==
  ASSUME Inv, NEW r \in Runs, NEW m, m.run = r, Send(m)
  PROVE  waiting'[r] = {m} /\ reply'[r] = NoReply /\ net' = net \cup {m}
BY DEF Send, Inv, TypeOK, CoolifyTypeOK

\* A retry repeats the request.
LEMMA RetrySends ==
  ASSUME Inv, NEW r \in Runs, Retry(r)
  PROVE  \E m \in waiting[r] : \E n :
           /\ n.run = r /\ n.verb = m.verb /\ n.res = m.res /\ n.at = m.at /\ Send(n)
<1>1. PICK m \in waiting[r] : Send([m EXCEPT !.try = @ + 1])
  BY DEF Retry
<1>2. m \in Requests /\ m.run = r
  BY <1>1 DEF Inv, Accounted, TypeOK, CoolifyTypeOK
<1>3. PICK n : n = [m EXCEPT !.try = @ + 1]
  OBVIOUS
<1>4. n.run = r /\ n.verb = m.verb /\ n.res = m.res /\ n.at = m.at
  BY <1>2, <1>3 DEF Requests
<1> QED BY <1>1, <1>3, <1>4

\* What the engine begins with, and where it sends it.
LEMMA BeginSends ==
  ASSUME Inv, Aimed, NEW r \in Runs, Begin(r)
  PROVE  \E op \in plan[r] : \E m :
           /\ op \notin audited[r] /\ cur'[r] = {op}
           /\ m.run = r /\ m.verb = op.verb /\ m.res = op.res /\ Send(m)
           /\ op.verb = "update" => m.at = resolved[r][KeyOf(op.res)]
           /\ op.verb = "delete" =>
                m.at = resolved[r][IF op.res.kind = "Environment" THEN ProjectKey(op.res.project)
                                   ELSE KeyOf(op.res)]
<1>1. PICK op \in plan[r] \ audited[r] :
        /\ cur' = [cur EXCEPT ![r] = {op}]
        /\ Send(FirstTry(r, op, op.verb, At(r, op)))
  BY DEF Begin, Foremost
<1>2. PICK m : m = FirstTry(r, op, op.verb, At(r, op))
  OBVIOUS
<1>3. m.run = r /\ m.verb = op.verb /\ m.res = op.res /\ m.at = At(r, op)
  BY <1>2 DEF FirstTry
<1>4. op.verb = "update" => op.res.kind # "Environment"
  BY DEF Aimed, AimedRun, UpdatesOK, Diffed
<1>5. op.verb = "update" => At(r, op) = resolved[r][KeyOf(op.res)]
  BY <1>4 DEF At
<1>6. op.verb = "delete" =>
        At(r, op) = resolved[r][IF op.res.kind = "Environment" THEN ProjectKey(op.res.project)
                                ELSE KeyOf(op.res)]
  BY DEF At
<1>7. cur'[r] = {op}
  BY <1>1 DEF Inv, TypeOK
<1> QED BY <1>1, <1>2, <1>3, <1>5, <1>6, <1>7

\* The connection of a run is about its current operation.
LEMMA ConnectionCur ==
  ASSUME Inv, NEW r \in Runs, NEW m \in waiting[r]
  PROVE  /\ m \in Requests /\ m.run = r /\ OpOf(m) \in cur[r] /\ OpOf(m) \in plan[r]
         /\ \A op \in cur[r] : op = OpOf(m) /\ op.res = m.res
<1>1. m \in Requests /\ m.run = r /\ OpOf(m) \in cur[r]
  BY DEF Inv, Accounted, TypeOK, CoolifyTypeOK
<1>2. \A op \in cur[r] : op = OpOf(m)
  BY <1>1 DEF Inv, OneAtATime
<1>3. OpOf(m) \in plan[r] /\ OpOf(m).res = m.res
  BY <1>1 DEF Inv, OneAtATime, OpOf
<1> QED BY <1>1, <1>2, <1>3

\* What a run learns from an answer: the uuid of what it created.
LEMMA LearnCreatedFacts ==
  ASSUME Inv, Aimed, NEW r \in Runs, NEW m \in waiting[r], LearnCreated(r)
  PROVE  /\ m.verb # "create" => resolved' = resolved
         /\ m.verb = "create" => \A k \in Keys :
              resolved'[r][k] = IF k = KeyOf(m.res) THEN reply[r].uuid ELSE resolved[r][k]
<1>1. \A n \in waiting[r] : n = m
  BY DEF Aimed, AimedRun, PathsOK
<1>2. CASE m.verb # "create"
  BY <1>1, <1>2 DEF LearnCreated
<1>3. CASE m.verb = "create"
  <2>1. resolved' = [resolved EXCEPT ![r] = [k \in Keys |->
          IF \E op \in cur[r] : k = KeyOf(op.res) THEN reply[r].uuid ELSE resolved[r][k]]]
    BY <1>3 DEF LearnCreated, Inv, TypeOK
  <2>2. \A k : (\E op \in cur[r] : k = KeyOf(op.res)) <=> k = KeyOf(m.res)
    BY ConnectionCur
  <2> QED BY <1>3, <2>1, <2>2 DEF Inv, TypeOK
<1> QED BY <1>2, <1>3

\* The second call of a service's creation.
LEMMA VariablesSends ==
  ASSUME Inv, NEW r \in Runs, SendVariables(r)
  PROVE  \E m \in waiting[r] : \E n :
           /\ m.verb = "create" /\ Send(n)
           /\ n.run = r /\ n.verb = "envs" /\ n.res = m.res /\ n.at = reply[r].uuid
<1>1. PICK op \in cur[r] : Send(FirstTry(r, op, "envs", reply[r].uuid))
  BY DEF SendVariables
<1>2. PICK m \in waiting[r] : m.verb = "create"
  BY DEF SendVariables, NeedsVariables
<1>3. op.res = m.res
  BY <1>1, <1>2, ConnectionCur
<1>4. PICK n : n = FirstTry(r, op, "envs", reply[r].uuid)
  OBVIOUS
<1>5. n.run = r /\ n.verb = "envs" /\ n.res = m.res /\ n.at = reply[r].uuid
  BY <1>3, <1>4 DEF FirstTry
<1> QED BY <1>1, <1>2, <1>4, <1>5

LEMMA PreparedOwn ==
  ASSUME Inv, Aimed, Prepared, NEW r \in Runs, Start(r) \/ Proceed(r) \/ Answers(r) \/ Crash(r)
  PROVE  PreparedRun(r)'
<1> TypeOK /\ PreparedRun(r)
  BY DEF Inv, Prepared
<1>1. CASE \/ Start(r) \/ ListProjects(r) \/ ListEnvironments(r) \/ ListServers(r)
           \/ ListApplications(r) \/ ListServices(r) \/ ScanServer(r)
           \/ Load(r) \/ Compare(r) \/ RefuseMove(r) \/ ReadFails(r) \/ Planned(r) \/ Answers(r)
           \/ Unresolvable(r) \/ Record(r) \/ RecordFails(r) \/ Finish(r)
  BY <1>1, ReadingSteps, Unconnected
<1>2. CASE Acknowledge(r) \/ Rejected(r) \/ GiveUp(r) \/ Crash(r)
  BY <1>2, HangUpSteps, Unconnected DEF Unplanned
<1>3. CASE Begin(r)
  <2>1. PICK op, m :
          /\ op \in plan[r]
          /\ m.run = r /\ m.verb = op.verb /\ m.res = op.res /\ Send(m)
          /\ op.verb = "update" => m.at = resolved[r][KeyOf(op.res)]
          /\ op.verb = "delete" =>
               m.at = resolved[r][IF op.res.kind = "Environment" THEN ProjectKey(op.res.project)
                                  ELSE KeyOf(op.res)]
    BY <1>3, BeginSends
  <2>2. op.verb \in {"create", "update", "delete"}
    BY <2>1 DEF TypeOK, Ops
  <2>3. waiting'[r] = {m} /\ resolved' = resolved /\ phase'[r] = "sent"
    BY <1>3, <2>1, SendSteps DEF Begin, Goto, progressVars, TypeOK
  <2> QED BY <2>1, <2>2, <2>3 DEF PreparedRun, Unplanned
<1>4. CASE Retry(r)
  <2>1. PICK m, n :
          /\ m \in waiting[r]
          /\ n.run = r /\ n.verb = m.verb /\ n.res = m.res /\ n.at = m.at /\ Send(n)
    BY <1>4, RetrySends
  <2>2. waiting'[r] = {n} /\ resolved' = resolved /\ phase'[r] = "sent"
    BY <1>4, <2>1, SendSteps DEF Retry, runVars, progressVars
  <2> QED BY <2>1, <2>2 DEF Prepared, PreparedRun, Unplanned
<1>5. CASE SendVariables(r)
  <2>1. PICK m, n :
          /\ m \in waiting[r]
          /\ m.verb = "create" /\ Send(n)
          /\ n.run = r /\ n.verb = "envs" /\ n.res = m.res /\ n.at = reply[r].uuid
    BY <1>5, VariablesSends
  <2>2. waiting'[r] = {n} /\ phase'[r] = "sent"
    BY <1>5, <2>1, SendSteps DEF SendVariables
  <2>3. KeyOf(m.res) \in Keys
    BY <2>1, ConnectionCur, KeysCover DEF Requests
  <2>4. resolved'[r][KeyOf(m.res)] = reply[r].uuid
    BY <1>5, <2>1, <2>3, LearnCreatedFacts DEF SendVariables
  <2> QED BY <2>1, <2>2, <2>4 DEF PreparedRun, Unplanned
<1> QED BY <1>1, <1>2, <1>3, <1>4, <1>5 DEF Proceed

LEMMA PreparedSame ==
  ASSUME NEW q \in Runs, PreparedRun(q), phase'[q] = phase[q], plan'[q] = plan[q],
         comparing'[q] = comparing[q], resolved'[q] = resolved[q], waiting'[q] = waiting[q]
  PROVE  PreparedRun(q)'
BY DEF PreparedRun

LEMMA NextPrepared ==
  ASSUME Inv, Aimed, Prepared, [Next]_vars
  PROVE  Prepared'
<1> SUFFICES ASSUME NEW q \in Runs PROVE PreparedRun(q)'
  BY DEF Prepared
<1>1. PreparedRun(q)
  BY DEF Prepared
<1>2. CASE UNCHANGED vars
  BY <1>1, <1>2, PreparedSame DEF vars, serverVars, runVars, progressVars, engineVars
<1>3. CASE Serve /\ UNCHANGED runVars
  <2>1. waiting' = waiting
    BY <1>3, HandleSteady DEF Serve, Inv, Aimed
  <2> QED BY <1>1, <1>3, <2>1, PreparedSame DEF runVars, progressVars, engineVars
<1>4. CASE Dashboard /\ UNCHANGED runVars
  BY <1>1, <1>4, PreparedSame DEF Dashboard, runVars, progressVars, engineVars
<1>5. ASSUME NEW r \in Runs, Start(r) \/ Proceed(r) \/ Answers(r) \/ Crash(r)
      PROVE  PreparedRun(q)'
  <2>1. CASE q = r
    BY <1>5, <2>1, PreparedOwn
  <2>2. CASE q # r
    BY <1>1, <1>5, <2>2, OthersKeep, PreparedSame
  <2> QED BY <2>1, <2>2
<1> QED BY <1>2, <1>3, <1>4, <1>5 DEF Next

LEMMA InitPrepared == Init => Prepared
BY DEF Init, CoolifyInit, Prepared, PreparedRun

-----------------------------------------------------------------------------
(* The apply, while the server and the dashboard move.                     *)

\* A create that is answered has created what it is about.
LEMMA CreateRight ==
  ASSUME TypeOK, NEW m \in net, m \in waiting[m.run], CreateObject(m),
         NEW u, reply'[m.run].uuid = u
  PROVE  Right(u, m.res)'
<1>1. PICK p \in Parents(m) : remote' = remote \cup {Created(m, issued + 1, p)}
  BY DEF CreateObject
<1>2. PICK n : n = Created(m, issued + 1, p)
  OBVIOUS
<1>3. /\ n \in remote' /\ n.uuid = issued + 1 /\ KeyOf(n) = KeyOf(m.res)
      /\ n.spec = "ok" /\ n.server = m.res.server
  BY <1>1, <1>2 DEF Created, KeyOf
<1>4. u = issued + 1
  <2>1. PICK i : i = issued + 1 /\ Succeed(m, i)
    BY DEF CreateObject
  <2>2. reply'[m.run] = [status |-> "ok", uuid |-> i]
    BY <2>1, SucceedLeaves
  <2> QED BY <2>1, <2>2
<1> QED BY <1>3, <1>4 DEF Right

\* An update that is answered has removed the difference.
LEMMA UpdateRight ==
  ASSUME TypeOK, Numbered, NEW m \in net, m.verb = "update", ChangeObject(m),
         Halfway(m.at, m.res)
  PROVE  Right(m.at, m.res)'
<1>1. PICK o \in Addressed(m) : remote' = (remote \ {o}) \cup {Changed(m, o)}
  BY DEF ChangeObject
<1>2. o \in remote /\ o.uuid = m.at
  BY <1>1 DEF Addressed
<1>3. PICK h \in remote :
        /\ h.uuid = m.at /\ KeyOf(h) = KeyOf(m.res)
        /\ m.res.kind \in Diffed => h.server = m.res.server
  BY DEF Halfway
<1>4. h = o
  BY <1>2, <1>3 DEF Numbered
<1>5. PICK c : c = Changed(m, o)
  OBVIOUS
<1>6. SameFace(o, c) /\ c.spec # "drift"
  BY <1>2, <1>5 DEF SameFace, Changed, TypeOK, CoolifyTypeOK, Objects
<1>7. c \in remote'
  BY <1>1, <1>5
<1>8. KeyOf(c) = KeyOf(m.res) /\ c.uuid = m.at /\ c.server = o.server
  BY <1>2, <1>3, <1>4, <1>6, FaceKey DEF SameFace
<1> QED BY <1>3, <1>4, <1>6, <1>7, <1>8 DEF Right

\* What an apply knows and has done stays so while others leave it alone.
LEMMA KeptRun ==
  ASSUME Kept, NEW r \in Runs, ApplyOK(r), UNCHANGED runVars
  PROVE  StandsOK(r)' /\ DoneOK(r)' /\ CoversOK(r)'
<1>1. UNCHANGED <<phase, cmd, resolved, comparing, plan, cur, audited>>
  BY DEF runVars, progressVars, engineVars
<1>2. StandsOK(r)'
  BY <1>1, KeptFacts DEF ApplyOK, StandsOK
<1>3. DoneOK(r)'
  BY <1>1, KeptFacts DEF ApplyOK, DoneOK
<1>4. CoversOK(r)'
  BY <1>1, KeptFacts DEF ApplyOK, CoversOK
<1> QED BY <1>2, <1>3, <1>4

LEMMA ServeApplied ==
  ASSUME ~HonoursKey, Inv, Aimed, Prepared, Applied, Serve, UNCHANGED runVars
  PROVE  Applied'
<1> SUFFICES ASSUME NEW r \in Runs, Applies(r)' PROVE ApplyOK(r)'
  BY DEF Applied
<1>0. TypeOK /\ Numbered /\ RememberedOK
  BY DEF Inv, Aimed
<1>1. PICK m \in net : Handle(m)
  BY DEF Serve
<1>2. Applies(r) /\ Kept
  BY <1>1, LeftAlone
<1>3. ApplyOK(r)
  BY <1>2 DEF Applied
<1>4. StandsOK(r)' /\ DoneOK(r)' /\ CoversOK(r)'
  BY <1>2, <1>3, KeptRun
<1>5. waiting' = waiting
  BY <1>0, <1>1, HandleSteady
<1>6. AnswersOK(r)'
  <2> SUFFICES ASSUME NEW n \in waiting[r], NEW u
               PROVE  /\ reply'[r].status = "ok" /\ reply'[r].uuid = u /\ n.verb = "create"
                           => Right(u, n.res)'
                      /\ reply'[r].status = "ok" /\ n.verb = "update" => Right(n.at, n.res)'
                      /\ n.verb = "envs" => Right(n.at, n.res)'
    BY <1>5 DEF AnswersOK
  <2>1. /\ reply[r].status = "ok" /\ reply[r].uuid = u /\ n.verb = "create" => Right(u, n.res)
        /\ reply[r].status = "ok" /\ n.verb = "update" => Right(n.at, n.res)
        /\ n.verb = "envs" => Right(n.at, n.res)
    BY <1>3 DEF ApplyOK, AnswersOK
  <2>2. CASE reply'[r] = reply[r]
    BY <1>2, <2>1, <2>2, KeptFacts
  <2>3. CASE reply'[r] # reply[r]
    <3>1. r = m.run /\ m \in waiting[r] /\ n = m
      BY <1>0, <1>1, <2>3, HandleSteady DEF Aimed, AimedRun, PathsOK
    <3>2. n.verb = "envs" => Right(n.at, n.res)'
      BY <1>2, <2>1, KeptFacts
    <3>3. ASSUME reply'[r].status = "ok", reply'[r].uuid = u, n.verb = "create"
          PROVE  Right(u, n.res)'
      <4>1. CreateObject(m)
        BY <1>0, <1>1, <3>1, <3>3 DEF Handle, ChangeObject, RemoveObject, AlreadyGone, ReplayAnswer,
           RefuseRequest, Answer, TypeOK, CoolifyTypeOK
      <4> QED BY <1>0, <3>1, <3>3, <4>1, CreateRight
    <3>4. ASSUME reply'[r].status = "ok", n.verb = "update"
          PROVE  Right(n.at, n.res)'
      <4>1. ChangeObject(m)
        BY <1>0, <1>1, <3>1, <3>4 DEF Handle, CreateObject, RemoveObject, AlreadyGone, ReplayAnswer,
           RefuseRequest, Answer, TypeOK, CoolifyTypeOK
      <4>2. /\ OpOf(m) \in plan[r] /\ OpOf(m) \in Ops /\ OpOf(m).verb = "update" /\ OpOf(m).res = m.res
            /\ m.at \in Uuids \cup {None}
        BY <1>0, <3>1, <3>4, ConnectionCur, OpOfType DEF OpOf, Requests
      <4>3. resolved[r][KeyOf(m.res)] = m.at
        BY <3>1, <3>4 DEF Prepared, PreparedRun
      <4>4. Halfway(m.at, m.res)
        BY <1>3, <4>2, <4>3 DEF ApplyOK, DoneOK
      <4> QED BY <1>0, <3>1, <3>4, <4>1, <4>4, UpdateRight
    <3> QED BY <3>2, <3>3, <3>4
  <2> QED BY <2>2, <2>3
<1> QED BY <1>4, <1>6 DEF ApplyOK

LEMMA DashboardApplied == Dashboard => Applied'
BY DEF Dashboard, Applied, Applies

-----------------------------------------------------------------------------
(* The steps of an apply.                                                  *)

\* A step of run r that changes no object, seen by the other runs.
LEMMA OthersApplied ==
  ASSUME Inv, Applied, NEW r \in Runs, Start(r) \/ Proceed(r) \/ Answers(r) \/ Crash(r),
         NEW q \in Runs \ {r}, Applies(q)'
  PROVE  ApplyOK(q)'
<1>1. UNCHANGED <<remote, cmd>>
  BY RunsOnlyAsk
<1>2. /\ phase'[q] = phase[q] /\ resolved'[q] = resolved[q]
      /\ comparing'[q] = comparing[q] /\ plan'[q] = plan[q] /\ cur'[q] = cur[q]
      /\ audited'[q] = audited[q] /\ waiting'[q] = waiting[q] /\ reply'[q] = reply[q]
      /\ foreign'[q] = foreign[q]
  BY OthersKeep
<1>3. ApplyOK(q)
  BY <1>1, <1>2 DEF Applied, Applies
<1>4. Kept
  BY <1>1 DEF Kept, SameFace
<1>5. StandsOK(q)'
  BY <1>2, <1>3, <1>4, KeptFacts DEF ApplyOK, StandsOK
<1>6. AnswersOK(q)'
  BY <1>2, <1>3, <1>4, KeptFacts DEF ApplyOK, AnswersOK
<1>7. DoneOK(q)'
  BY <1>2, <1>3, <1>4, KeptFacts DEF ApplyOK, DoneOK
<1>8. CoversOK(q)'
  BY <1>1, <1>2, <1>3, <1>4, KeptFacts DEF ApplyOK, CoversOK
<1> QED BY <1>5, <1>6, <1>7, <1>8 DEF ApplyOK

\* What is kept by a step of the run that does not concern it.
LEMMA ApplyParts ==
  ASSUME Inv, NEW r \in Runs, ApplyOK(r), UNCHANGED <<remote, cmd>>
  PROVE  /\ \A u, x : (Right(u, x)' <=> Right(u, x)) /\ (Halfway(u, x)' <=> Halfway(u, x))
                      /\ (Stands(u, x)' <=> Stands(u, x))
         /\ resolved'[r] = resolved[r] => StandsOK(r)'
         /\ waiting'[r] = {} => AnswersOK(r)'
         /\ resolved'[r] = resolved[r] /\ plan'[r] = plan[r] /\ audited'[r] = audited[r]
            /\ phase'[r] # "audit" => DoneOK(r)'
         /\ resolved'[r] = resolved[r] /\ plan'[r] = plan[r] /\ comparing'[r] = comparing[r]
            /\ (phase[r] \in {"confirm", "done"} \cup Executing \/ phase'[r] \notin {"confirm", "done"} \cup Executing
                \/ comparing[r] = {})
            /\ (phase[r] \in {"diff", "confirm", "done"} \cup Executing
                \/ phase'[r] \notin {"diff", "confirm", "done"} \cup Executing)
            => CoversOK(r)'
<1>1. \A u, x : (Right(u, x)' <=> Right(u, x)) /\ (Halfway(u, x)' <=> Halfway(u, x))
                /\ (Stands(u, x)' <=> Stands(u, x))
  BY DEF Right, Halfway, Stands
<1>2. resolved'[r] = resolved[r] => StandsOK(r)'
  BY <1>1 DEF ApplyOK, StandsOK
<1>3. waiting'[r] = {} => AnswersOK(r)'
  BY DEF AnswersOK
<1>4. resolved'[r] = resolved[r] /\ plan'[r] = plan[r] /\ audited'[r] = audited[r]
      /\ phase'[r] # "audit" => DoneOK(r)'
  BY <1>1 DEF ApplyOK, DoneOK
<1>5. ASSUME resolved'[r] = resolved[r], plan'[r] = plan[r], comparing'[r] = comparing[r],
             phase[r] \in {"confirm", "done"} \cup Executing
               \/ phase'[r] \notin {"confirm", "done"} \cup Executing \/ comparing[r] = {},
             phase[r] \in {"diff", "confirm", "done"} \cup Executing
               \/ phase'[r] \notin {"diff", "confirm", "done"} \cup Executing
      PROVE  CoversOK(r)'
  BY <1>1, <1>5 DEF ApplyOK, CoversOK
<1> QED BY <1>1, <1>2, <1>3, <1>4, <1>5

\* A run that is asked to apply has said so before.
LEMMA AppliesBefore ==
  ASSUME Inv, Applied, NEW r \in Runs, Proceed(r) \/ Answers(r) \/ Crash(r), Applies(r)'
  PROVE  ApplyOK(r) /\ Applies(r) /\ phase[r] # "idle"
<1>1. phase[r] # "idle"
  BY DEF Proceed, Answers, Crash, Active, Reading, Executing,
         ListProjects, ListEnvironments, ListServers, ListApplications, ListServices,
         ListChildren, ScanServer, Load, Compare, RefuseMove, ReadFails, Planned, Begin,
         Unresolvable, Acknowledge, SendVariables, Rejected, Retry, GiveUp, Record, RecordFails,
         Finish
<1>2. UNCHANGED <<foreign, cmd>>
  BY DEF Proceed, Answers, Crash, serverVars, runVars,
         ListProjects, ListEnvironments, ListServers, ListApplications, ListServices,
         ListChildren, ScanServer, Load, Compare, RefuseMove, ReadFails, Planned, Begin,
         Unresolvable, Acknowledge, SendVariables, Rejected, Retry, GiveUp, Record, RecordFails,
         Finish
<1> QED BY <1>1, <1>2 DEF Applied, Applies

LEMMA StartApplied ==
  ASSUME Inv, Prepared, NEW r \in Runs, Start(r)
  PROVE  ApplyOK(r)'
<1>1. /\ TypeOK /\ phase[r] = "idle" /\ UNCHANGED <<remote, cmd, resolved, comparing, plan, cur, audited>>
  BY DEF Inv, Start, progressVars, engineVars
<1>2. phase'[r] \in {"projects", "databases", "skipped"}
  BY <1>1 DEF Start, Skip, Goto, TypeOK
<1>3. /\ plan[r] = {} /\ comparing[r] = {} /\ audited[r] = {} /\ \A k \in Keys : resolved[r][k] = None
  BY <1>1 DEF Prepared, PreparedRun, Unplanned, Inv, OneAtATime, Executing
<1>4. StandsOK(r)'
  BY <1>1, <1>3 DEF StandsOK, Uuids, None
<1>5. AnswersOK(r)'
  BY ReadingSteps DEF AnswersOK
<1> QED BY <1>1, <1>2, <1>3, <1>4, <1>5 DEF ApplyOK, DoneOK, CoversOK, Executing

\* What is listed is there.
LEMMA ListingApplied ==
  ASSUME Inv, Prepared, NEW r \in Runs, ApplyOK(r),
         \/ ListProjects(r) \/ ListEnvironments(r) \/ ListServers(r)
         \/ ListApplications(r) \/ ListServices(r) \/ ScanServer(r)
  PROVE  ApplyOK(r)'
<1>0. TypeOK /\ phase[r] \in Unplanned \ {"idle"} /\ phase'[r] \in Unplanned
      /\ UNCHANGED <<remote, cmd, comparing, plan, audited>>
  BY DEF ListProjects, ListEnvironments, ListServers, ListApplications, ListServices,
         ListChildren, ScanServer, Goto, Inv, TypeOK, Unplanned, serverVars, engineVars
<1>1. resolved' = resolved \/ \E objs \in SUBSET remote : Learn(r, objs)
  BY DEF ListProjects, ListEnvironments, ListServers, ListApplications, ListServices,
         ListChildren, ScanServer
<1>2. StandsOK(r)'
  <2> SUFFICES ASSUME NEW k \in Keys, NEW u \in Uuids, resolved'[r][k] = u PROVE Stands(u, k)'
    BY DEF StandsOK
  <2>1. resolved[r][k] = u \/ \E o \in remote : KeyOf(o) = k /\ o.uuid = u
    BY <1>0, <1>1, LearnFacts
  <2> QED BY <1>0, <2>1 DEF ApplyOK, StandsOK, Stands
<1>3. AnswersOK(r)'
  BY ReadingSteps DEF AnswersOK
<1>4. plan[r] = {} /\ comparing[r] = {} /\ audited[r] = {}
  BY <1>0 DEF Prepared, PreparedRun, Unplanned, Inv, OneAtATime, Executing
<1> QED BY <1>0, <1>2, <1>3, <1>4 DEF ApplyOK, DoneOK, CoversOK, Unplanned, Executing

\* What is not resolved is planned, what can differ is compared, and the rest is
\* right because it is there.
LEMMA LoadApplied ==
  ASSUME Inv, Prepared, NEW r \in Runs, ApplyOK(r), cmd[r].mode = "apply", Load(r)
  PROVE  ApplyOK(r)'
<1>0. TypeOK /\ phase[r] = "databases" /\ UNCHANGED <<remote, cmd, resolved, audited>>
  BY DEF Inv, Load, serverVars
<1>1. audited[r] = {} /\ plan[r] = {} /\ comparing[r] = {}
  BY <1>0 DEF Prepared, PreparedRun, Unplanned, Inv, OneAtATime, Executing
<1>2. StandsOK(r)' /\ AnswersOK(r)'
  BY <1>0, ApplyParts, ReadingSteps
<1>3. CASE InvalidSelection(cmd[r])
  <2>1. phase'[r] = "skipped" /\ plan' = plan /\ comparing' = comparing
    BY <1>0, <1>3 DEF Load, Skip, TypeOK
  <2> QED BY <1>0, <1>1, <1>2, <2>1 DEF ApplyOK, DoneOK, CoversOK, Executing
<1>4. CASE ~InvalidSelection(cmd[r])
  <2>1. /\ phase'[r] = "diff" /\ plan'[r] = Creations(r)
        /\ comparing'[r] = {x \in Wanted(cmd[r]) : x.kind \in Diffed /\ Resolved(r, x)}
    BY <1>0, <1>4 DEF Load, Goto, TypeOK
  <2>2. DoneOK(r)'
    BY <1>0, <1>1, <2>1 DEF DoneOK, Creations
  <2>3. ASSUME NEW x \in Wanted(cmd[r]), NEW u \in Uuids \cup {None},
               resolved[r][KeyOf(x)] = u, x \notin comparing'[r],
               ~ \E op \in plan'[r] : op.res = x
        PROVE  Right(u, x)
    <3>1. KeyOf(x) \in Keys
      BY KeysCover, WantedType
    <3>2. Resolved(r, x)
      <4>1. ~Resolved(r, x) => [verb |-> "create", res |-> x] \in plan'[r]
        BY <2>1 DEF Creations
      <4> QED BY <2>3, <4>1
    <3>3. x.kind \notin Diffed
      BY <2>1, <2>3, <3>2
    <3>4. Stands(u, KeyOf(x))
      BY <2>3, <3>1, <3>2 DEF ApplyOK, StandsOK, Resolved
    <3> QED BY <3>3, <3>4 DEF Stands, Right
  <2>4. \A u, x : Right(u, x)' <=> Right(u, x)
    BY <1>0, ApplyParts
  <2>5. CoversOK(r)'
    BY <1>0, <2>1, <2>3, <2>4 DEF CoversOK, Executing, Resolved
  <2> QED BY <1>2, <2>2, <2>5 DEF ApplyOK
<1> QED BY <1>3, <1>4

\* What is found without a difference is right; what differs is planned.
LEMMA CompareApplied ==
  ASSUME Inv, Aimed, Prepared, NEW r \in Runs, ApplyOK(r), Compare(r)
  PROVE  ApplyOK(r)'
<1>0. TypeOK /\ Numbered /\ phase[r] = "diff" /\ UNCHANGED <<remote, phase, cmd, resolved, audited>>
  BY DEF Inv, Aimed, Compare, serverVars
<1>1. PICK x \in comparing[r], o \in remote :
        /\ o.uuid = resolved[r][KeyOf(x)] /\ o.server = x.server
        /\ plan' = [plan EXCEPT ![r] =
             @ \cup (IF o.spec = "ok" THEN {} ELSE {[verb |-> "update", res |-> x]})]
        /\ comparing' = [comparing EXCEPT ![r] = @ \ {x}]
  BY DEF Compare
<1>2. PICK S : S = (IF o.spec = "ok" THEN {} ELSE {[verb |-> "update", res |-> x]})
  OBVIOUS
<1>3. plan' = [plan EXCEPT ![r] = @ \cup S]
  BY <1>1, <1>2
<1>4. plan'[r] = plan[r] \cup S /\ comparing'[r] = comparing[r] \ {x}
  BY <1>0, <1>1, <1>3 DEF TypeOK
<1>5. audited[r] = {}
  BY <1>0 DEF Inv, OneAtATime, Executing
<1>6. StandsOK(r)' /\ AnswersOK(r)'
  BY <1>0, ApplyParts, ReadingSteps
<1>7. x \in Targets /\ KeyOf(x) \in Keys /\ o.uuid \in Uuids
  BY <1>0, KeysCover DEF TypeOK, CoolifyTypeOK, Objects
<1>8. KeyOf(o) = KeyOf(x)
  <2>1. Stands(o.uuid, KeyOf(x))
    BY <1>1, <1>7 DEF ApplyOK, StandsOK
  <2>2. PICK h \in remote : h.uuid = o.uuid /\ KeyOf(h) = KeyOf(x)
    BY <2>1 DEF Stands
  <2> QED BY <1>0, <2>2 DEF Numbered
<1>9. \A u : resolved[r][KeyOf(x)] = u => Halfway(u, x) /\ (o.spec = "ok" => Right(u, x))
  BY <1>1, <1>8 DEF Halfway, Right
<1>10. \A u, y : (Right(u, y)' <=> Right(u, y)) /\ (Halfway(u, y)' <=> Halfway(u, y))
  BY <1>0, ApplyParts
<1>11. DoneOK(r)'
  <2>1. \A op \in S : op.res = x
    BY <1>2
  <2> QED BY <1>0, <1>4, <1>5, <1>9, <1>10, <2>1 DEF ApplyOK, DoneOK
<1>12. CoversOK(r)'
  <2> SUFFICES ASSUME NEW y \in Wanted(cmd[r]), NEW u \in Uuids \cup {None}, resolved[r][KeyOf(y)] = u,
                      y \notin comparing'[r], ~ \E op \in plan'[r] : op.res = y
               PROVE  Right(u, y)
    BY <1>0, <1>4, <1>10 DEF ApplyOK, CoversOK, Executing
  <2>1. CASE y # x
    BY <1>0, <1>4, <2>1 DEF ApplyOK, CoversOK
  <2>2. CASE y = x
    <3>1. o.spec # "ok" => [verb |-> "update", res |-> x] \in plan'[r]
      BY <1>2, <1>4
    <3>2. o.spec = "ok"
      BY <2>2, <3>1
    <3> QED BY <1>9, <2>2, <3>2
  <2> QED BY <2>1, <2>2
<1> QED BY <1>6, <1>11, <1>12 DEF ApplyOK

\* Steps that learn nothing and do nothing.
LEMMA QuietApplied ==
  ASSUME Inv, NEW r \in Runs, ApplyOK(r),
         \/ RefuseMove(r) \/ ReadFails(r) \/ Planned(r) \/ Answers(r) \/ Unresolvable(r)
         \/ Rejected(r) \/ GiveUp(r) \/ RecordFails(r) \/ Finish(r) \/ Crash(r)
  PROVE  ApplyOK(r)'
<1>1. UNCHANGED <<remote, cmd, resolved, comparing, plan, audited>>
  BY DEF RefuseMove, ReadFails, Planned, Answers, Unresolvable, Rejected, GiveUp,
         RecordFails, Finish, Crash, serverVars, progressVars, engineVars
<1>2. waiting'[r] = {}
  BY ReadingSteps, HangUpSteps
<1>3. PICK to \in {"skipped", "done", "engine", "confirm"} : phase' = [phase EXCEPT ![r] = to]
  BY DEF RefuseMove, ReadFails, Planned, Answers, Unresolvable, Rejected, GiveUp,
         RecordFails, Finish, Crash, Skip, Return, Goto
<1>4. phase'[r] = to
  BY <1>3 DEF Inv, TypeOK
<1>5. to = "skipped" \/ phase[r] \in {"confirm", "done"} \cup Executing
      \/ (phase[r] = "diff" /\ comparing[r] = {})
  <2>1. CASE RefuseMove(r) \/ ReadFails(r)
    BY <1>4, <2>1 DEF RefuseMove, ReadFails, Skip, Inv, TypeOK
  <2>2. CASE ~(RefuseMove(r) \/ ReadFails(r)) /\ ~Crash(r)
    BY <2>2 DEF Planned, Answers, Unresolvable, Rejected, GiveUp, RecordFails, Finish, Executing
  <2>3. CASE Crash(r)
    BY <1>4, <2>3 DEF Crash, Skip, Return, Executing, Inv, TypeOK
  <2> QED BY <2>1, <2>2, <2>3
<1>6. CoversOK(r)' /\ DoneOK(r)'
  BY <1>1, <1>4, <1>5, ApplyParts DEF Executing
<1> QED BY <1>1, <1>2, <1>6, ApplyParts DEF ApplyOK

\* What is right stays right when an answer replaces what the run had resolved.
LEMMA LearnRight ==
  ASSUME DistinctKeys, Inv, Aimed, Prepared, NEW r \in Runs, ApplyOK(r), cmd[r].mode = "apply",
         reply[r].status = "ok", LearnCreated(r), NEW m \in waiting[r]
  PROVE  /\ \A v : resolved'[r][KeyOf(m.res)] = v => Right(v, m.res)
         /\ \A x \in Targets : \A u, v : resolved[r][KeyOf(x)] = u /\ resolved'[r][KeyOf(x)] = v =>
              /\ Right(u, x) => Right(v, x)
              /\ Halfway(u, x) => Halfway(v, x)
         /\ \A k \in Keys, v \in Uuids : resolved'[r][k] = v => Stands(v, k)
<1>1. m \in Requests /\ OpOf(m) \in plan[r] /\ m.res \in Targets /\ KeyOf(m.res) \in Keys
  BY ConnectionCur, KeysCover DEF Requests
<1>2. m.verb \in {"create", "update", "envs"}
  <2>1. OpOf(m).verb # "delete"
    BY <1>1 DEF Inv, Asked
  <2> QED BY <1>1, <2>1 DEF OpOf, Requests
<1>3. \A u : /\ reply[r].uuid = u /\ m.verb = "create" => Right(u, m.res)
             /\ m.verb \in {"update", "envs"} => Right(m.at, m.res)
  BY DEF ApplyOK, AnswersOK
<1>4. CASE m.verb = "create"
  <2>1. \A k \in Keys :
          resolved'[r][k] = IF k = KeyOf(m.res) THEN reply[r].uuid ELSE resolved[r][k]
    BY <1>4, LearnCreatedFacts
  <2>2. \A v : resolved'[r][KeyOf(m.res)] = v => Right(v, m.res)
    BY <1>1, <1>3, <1>4, <2>1
  <2>3. ASSUME NEW x \in Targets, NEW u, NEW v, resolved[r][KeyOf(x)] = u, resolved'[r][KeyOf(x)] = v
        PROVE  /\ Right(u, x) => Right(v, x)
               /\ Halfway(u, x) => Halfway(v, x)
    <3>1. CASE KeyOf(x) = KeyOf(m.res)
      <4>1. x = m.res
        BY <1>1, <3>1 DEF DistinctKeys
      <4> QED BY <2>2, <2>3, <4>1, RightFacts
    <3>2. CASE KeyOf(x) # KeyOf(m.res)
      BY <2>1, <2>3, <3>2, KeysCover
    <3> QED BY <3>1, <3>2
  <2>4. ASSUME NEW k \in Keys, NEW v \in Uuids, resolved'[r][k] = v PROVE Stands(v, k)
    <3>1. CASE k = KeyOf(m.res)
      BY <2>2, <2>4, <3>1, RightFacts
    <3>2. CASE k # KeyOf(m.res)
      BY <2>1, <2>4, <3>2 DEF ApplyOK, StandsOK
    <3> QED BY <3>1, <3>2
  <2> QED BY <2>2, <2>3, <2>4
<1>5. CASE m.verb # "create"
  <2>1. resolved' = resolved
    BY <1>5, LearnCreatedFacts
  <2>2. \A v : resolved'[r][KeyOf(m.res)] = v => Right(v, m.res)
    BY <1>2, <1>3, <1>5, <2>1 DEF Prepared, PreparedRun
  <2> QED BY <2>1, <2>2 DEF ApplyOK, StandsOK
<1> QED BY <1>4, <1>5

LEMMA AnsweredApplied ==
  ASSUME DistinctKeys, Inv, Aimed, Prepared, NEW r \in Runs, ApplyOK(r), cmd[r].mode = "apply",
         Acknowledge(r) \/ SendVariables(r)
  PROVE  ApplyOK(r)'
<1>0. /\ TypeOK /\ phase[r] = "sent" /\ reply[r].status = "ok" /\ LearnCreated(r)
      /\ UNCHANGED <<remote, cmd, comparing, plan, cur, audited>>
  BY DEF Inv, Acknowledge, SendVariables, engineVars
<1>1. PICK m \in waiting[r] : TRUE
  BY <1>0 DEF Prepared, PreparedRun
<1>2. /\ \A v : resolved'[r][KeyOf(m.res)] = v => Right(v, m.res)
      /\ \A x \in Targets : \A u, v : resolved[r][KeyOf(x)] = u /\ resolved'[r][KeyOf(x)] = v =>
           /\ Right(u, x) => Right(v, x)
           /\ Halfway(u, x) => Halfway(v, x)
      /\ \A k \in Keys, v \in Uuids : resolved'[r][k] = v => Stands(v, k)
  BY <1>0, LearnRight
<1>3. \A u, x : (Right(u, x)' <=> Right(u, x)) /\ (Halfway(u, x)' <=> Halfway(u, x))
                /\ (Stands(u, x)' <=> Stands(u, x))
  BY <1>0, ApplyParts
<1>4. StandsOK(r)'
  BY <1>2, <1>3 DEF StandsOK
<1>5. \A op \in cur[r] : op.res = m.res
  BY ConnectionCur
<1>6. phase[r] # "audit" /\ phase'[r] \in {"audit", "sent"}
  BY <1>0 DEF Acknowledge, SendVariables, Goto, TypeOK
<1>7. DoneOK(r)'
  <2> SUFFICES ASSUME NEW op \in Ops, NEW v \in Uuids \cup {None}, resolved'[r][KeyOf(op.res)] = v
               PROVE  /\ op \in audited[r] \/ op \in cur[r] => Right(v, op.res)
                      /\ op \in plan[r] /\ op.verb = "update" => Halfway(v, op.res)
    BY <1>0, <1>3 DEF DoneOK
  <2>1. op.res \in Targets /\ KeyOf(op.res) \in Keys
    BY KeysCover DEF Ops
  <2>2. PICK u \in Uuids \cup {None} : u = resolved[r][KeyOf(op.res)]
    BY <1>0, <2>1 DEF TypeOK
  <2>3. /\ op \in audited[r] => Right(u, op.res)
        /\ op \in plan[r] /\ op.verb = "update" => Halfway(u, op.res)
    BY <2>2 DEF ApplyOK, DoneOK
  <2>4. /\ Right(u, op.res) => Right(v, op.res)
        /\ Halfway(u, op.res) => Halfway(v, op.res)
    BY <1>2, <2>1, <2>2
  <2>5. op \in cur[r] => Right(v, op.res)
    BY <1>2, <1>5
  <2> QED BY <2>3, <2>4, <2>5
<1>8. CoversOK(r)'
  <2>1. comparing[r] = {}
    BY <1>0 DEF ApplyOK, CoversOK, Executing
  <2> SUFFICES ASSUME NEW x \in Wanted(cmd[r]), NEW v \in Uuids \cup {None}, resolved'[r][KeyOf(x)] = v,
                      ~ \E op \in plan[r] : op.res = x
               PROVE  Right(v, x)
    BY <1>0, <1>3, <2>1 DEF CoversOK
  <2>2. x \in Targets /\ KeyOf(x) \in Keys
    BY KeysCover, WantedType
  <2>3. PICK u \in Uuids \cup {None} : u = resolved[r][KeyOf(x)]
    BY <1>0, <2>2 DEF TypeOK
  <2>4. Right(u, x)
    BY <1>0, <2>1, <2>3 DEF ApplyOK, CoversOK, Executing
  <2> QED BY <1>2, <2>2, <2>3, <2>4
<1>9. AnswersOK(r)'
  <2>1. CASE Acknowledge(r)
    BY <2>1, HangUpSteps DEF AnswersOK
  <2>2. CASE SendVariables(r)
    <3>1. PICK w, n :
            /\ w \in waiting[r]
            /\ w.verb = "create" /\ Send(n)
            /\ n.run = r /\ n.verb = "envs" /\ n.res = w.res /\ n.at = reply[r].uuid
      BY <2>2, VariablesSends
    <3>2. Right(n.at, n.res)
      BY <1>0, <3>1 DEF ApplyOK, AnswersOK
    <3>3. waiting'[r] = {n} /\ reply'[r] = NoReply
      BY <3>1, SendSteps
    <3> QED BY <1>3, <3>1, <3>2, <3>3 DEF AnswersOK, NoReply
  <2> QED BY <2>1, <2>2
<1> QED BY <1>4, <1>7, <1>8, <1>9 DEF ApplyOK

LEMMA RecordApplied ==
  ASSUME Inv, NEW r \in Runs, ApplyOK(r), Record(r)
  PROVE  ApplyOK(r)'
<1>0. /\ TypeOK /\ phase[r] = "audit" /\ UNCHANGED <<remote, cmd, resolved, comparing, plan>>
  BY DEF Inv, Record, serverVars, progressVars
<1>1. phase'[r] = "engine" /\ audited'[r] = audited[r] \cup cur[r]
  BY <1>0 DEF Record, Goto, TypeOK
<1>2. DoneOK(r)'
  BY <1>0, <1>1, ApplyParts DEF ApplyOK, DoneOK
<1>3. CoversOK(r)' /\ StandsOK(r)' /\ AnswersOK(r)'
  BY <1>0, <1>1, ApplyParts, ReadingSteps DEF Executing
<1> QED BY <1>2, <1>3 DEF ApplyOK

\* A request that is sent or repeated.
LEMMA SentApplied ==
  ASSUME Inv, Aimed, NEW r \in Runs, ApplyOK(r), Begin(r) \/ Retry(r)
  PROVE  ApplyOK(r)'
<1>0. /\ TypeOK /\ phase[r] \in {"engine", "sent"}
      /\ UNCHANGED <<remote, cmd, resolved, comparing, plan, audited>>
  BY DEF Inv, Begin, Retry, progressVars, runVars, engineVars
<1>1. phase'[r] = "sent"
  BY <1>0 DEF Begin, Retry, Goto, runVars, TypeOK
<1>2. DoneOK(r)' /\ CoversOK(r)' /\ StandsOK(r)'
  BY <1>0, <1>1, ApplyParts DEF Executing
<1>3. \A u, x : Right(u, x)' <=> Right(u, x)
  BY <1>0, ApplyParts
<1>4. AnswersOK(r)'
  <2>1. CASE Begin(r)
    <3>1. PICK op, m :
            /\ op \in plan[r]
            /\ m.run = r /\ m.verb = op.verb /\ Send(m)
      BY <2>1, BeginSends
    <3>2. m.verb # "envs"
      BY <1>0, <3>1 DEF TypeOK, Ops
    <3>3. waiting'[r] = {m} /\ reply'[r] = NoReply
      BY <3>1, SendSteps
    <3> QED BY <3>2, <3>3 DEF AnswersOK, NoReply
  <2>2. CASE Retry(r)
    <3>1. PICK m, n :
            /\ m \in waiting[r]
            /\ n.run = r /\ n.verb = m.verb /\ n.res = m.res /\ n.at = m.at /\ Send(n)
      BY <2>2, RetrySends
    <3>2. n.verb = "envs" => Right(n.at, n.res)
      BY <3>1 DEF ApplyOK, AnswersOK
    <3>3. waiting'[r] = {n} /\ reply'[r] = NoReply
      BY <3>1, SendSteps
    <3> QED BY <1>3, <3>2, <3>3 DEF AnswersOK, NoReply
  <2> QED BY <2>1, <2>2
<1> QED BY <1>2, <1>4 DEF ApplyOK

LEMMA OwnApplied ==
  ASSUME DistinctKeys, Inv, Aimed, Prepared, Applied, NEW r \in Runs,
         Start(r) \/ Proceed(r) \/ Answers(r) \/ Crash(r), Applies(r)'
  PROVE  ApplyOK(r)'
<1>1. CASE Start(r)
  BY <1>1, StartApplied
<1>2. CASE Proceed(r) \/ Answers(r) \/ Crash(r)
  <2>1. ApplyOK(r) /\ cmd[r].mode = "apply"
    BY <1>2, AppliesBefore DEF Applies
  <2> QED BY <1>2, <2>1, ListingApplied, LoadApplied, CompareApplied, QuietApplied,
             AnsweredApplied, RecordApplied, SentApplied DEF Proceed
<1> QED BY <1>1, <1>2

LEMMA NextApplied ==
  ASSUME ~HonoursKey, DistinctKeys, Inv, Aimed, Prepared, Applied, [Next]_vars
  PROVE  Applied'
<1>1. CASE Serve /\ UNCHANGED runVars
  BY <1>1, ServeApplied
<1>2. CASE Dashboard /\ UNCHANGED runVars
  BY <1>2, DashboardApplied
<1>3. CASE UNCHANGED vars
  <2> SUFFICES ASSUME NEW r \in Runs, Applies(r)' PROVE ApplyOK(r)'
    BY DEF Applied
  <2>1. UNCHANGED <<remote, foreign, waiting, reply>> /\ UNCHANGED runVars
    BY <1>3 DEF vars, serverVars
  <2>2. UNCHANGED <<cmd, phase>>
    BY <2>1 DEF runVars
  <2>3. ApplyOK(r)
    BY <2>1, <2>2 DEF Applied, Applies
  <2>4. Kept
    BY <2>1 DEF Kept, SameFace
  <2>5. StandsOK(r)' /\ DoneOK(r)' /\ CoversOK(r)'
    BY <2>1, <2>3, <2>4, KeptRun
  <2>6. AnswersOK(r)'
    BY <2>1, <2>3, <2>4, KeptFacts DEF ApplyOK, AnswersOK
  <2> QED BY <2>5, <2>6 DEF ApplyOK
<1>4. ASSUME NEW r \in Runs, Start(r) \/ Proceed(r) \/ Answers(r) \/ Crash(r)
      PROVE  Applied'
  BY <1>4, OwnApplied, OthersApplied DEF Applied
<1> QED BY <1>1, <1>2, <1>3, <1>4 DEF Next

LEMMA InitApplied == Init => Applied
BY DEF Init, Applied, Applies

\* A run succeeds when its plan is audited.
LEMMA SucceedsFinishes ==
  ASSUME Inv, [Next]_vars, NEW r \in Runs, Succeeds(r)
  PROVE  Finish(r)
<1>0. TypeOK /\ phase[r] = "engine" /\ phase'[r] = "done" /\ exit'[r] = 0
  BY DEF Inv, Succeeds
<1>1. PICK q \in Runs : Start(q) \/ Proceed(q) \/ Answers(q) \/ Crash(q)
  BY <1>0 DEF Next, vars, runVars
<1>2. q = r
  <2>1. phase'[r] # phase[r]
    BY <1>0
  <2> QED BY <1>1, <2>1, OthersKeep
<1>3. ~Start(r) /\ ~Answers(r)
  BY <1>0 DEF Start, Answers
<1>4. ~Crash(r)
  BY <1>0 DEF Crash, Return, Killed, Executing, TypeOK
<1>5. ~Unresolvable(r)
  BY <1>0 DEF Unresolvable, Return, FailureCode, TypeOK
<1>6. ~Begin(r)
  BY <1>0 DEF Begin, Goto, TypeOK
<1>7. ~ReadFails(r)
  BY <1>0 DEF ReadFails, Skip, TypeOK
<1> QED BY <1>0, <1>1, <1>2, <1>3, <1>4, <1>5, <1>6, <1>7
        DEF Proceed, ListProjects, ListEnvironments, ListServers, ListApplications, ListServices,
            ListChildren, ScanServer, Load, Compare, RefuseMove, Planned, Acknowledge,
            SendVariables, Rejected, Retry, GiveUp, Record, RecordFails

LEMMA StepConverged ==
  ASSUME Inv, Applied, [Next]_vars, NEW r \in Runs, Succeeds(r), cmd[r].mode = "apply",
         NEW x \in Wanted(cmd[r])
  PROVE  Converged(r, x)
<1>1. phase[r] = "engine" /\ plan[r] = audited[r] /\ ApplyOK(r) /\ TypeOK
  BY SucceedsFinishes DEF Finish, Applied, Applies, Succeeds, Inv
<1>2. KeyOf(x) \in Keys
  BY KeysCover, WantedType
<1>3. PICK u \in Uuids \cup {None} : u = resolved[r][KeyOf(x)]
  BY <1>1, <1>2 DEF TypeOK
<1>4. comparing[r] = {}
  BY <1>1 DEF ApplyOK, CoversOK, Executing
<1>5. Right(u, x)
  <2>1. CASE \E op \in plan[r] : op.res = x
    <3>1. PICK op \in plan[r] : op.res = x
      BY <2>1
    <3>2. op \in audited[r] /\ op \in Ops
      BY <1>1, <3>1 DEF TypeOK
    <3> QED BY <1>1, <1>3, <3>1, <3>2 DEF ApplyOK, DoneOK
  <2>2. CASE ~\E op \in plan[r] : op.res = x
    BY <1>1, <1>3, <1>4, <2>2 DEF ApplyOK, CoversOK, Executing
  <2> QED BY <2>1, <2>2
<1> QED BY <1>3, <1>5 DEF Right, Converged

\* An apply that exits 0, and during which nobody else changed anything, leaves
\* every resource it was asked for live, applications and databases on their
\* server and without a difference a PATCH removes: whichever of its requests
\* were retried, and whichever earlier attempt the server carried out
\* (Engine.Apply, buildOperations).
THEOREM AppliesWhatIsDeclared ==
  ASSUME ~HonoursKey, DistinctKeys, NumberedSeeds
  PROVE  Spec => ConvergedOnSuccess
<1>1. Init => Aimed /\ Prepared /\ Applied
  BY InitAimed, InitPrepared, InitApplied
<1>2. Inv /\ Aimed /\ Prepared /\ Applied /\ [Next]_vars => (Aimed /\ Prepared /\ Applied)'
  BY NextAimed, NextPrepared, NextApplied
<1>3. Inv /\ Applied /\ [Next]_vars
        => [\A r \in Runs : Succeeds(r) /\ cmd[r].mode = "apply" =>
              \A x \in Wanted(cmd[r]) : Converged(r, x)]_vars
  BY StepConverged
<1> QED BY <1>1, <1>2, <1>3, Invariance, PTL DEF Spec, ConvergedOnSuccess

-----------------------------------------------------------------------------
(* The objects lie where their coordinates say: at a server without the     *)
(* memory of keys too, where there may be two of a key.                    *)

InPlace == InGoodOrder(remote, issued)

\* Objects change without moving, or go when nothing lies in them.
LEMMA PlaceShrinks ==
  ASSUME InPlace, Numbered',
         \A o \in remote' : \E q \in remote : SameFace(q, o),
         \A o \in remote', q \in remote : o.parent = q.uuid =>
            \E p \in remote' : SameFace(q, p)
  PROVE  InPlace'
<1> SUFFICES ASSUME NEW o \in remote' PROVE Placed(o, remote')
  BY DEF InPlace, InGoodOrder, Numbered
<1>1. PICK q \in remote : SameFace(q, o)
  OBVIOUS
<1>2. Placed(q, remote)
  BY DEF InPlace, InGoodOrder
<1>3. ASSUME o.kind = "Environment"
      PROVE  \E p \in remote' : p.kind = "Project" /\ p.uuid = o.parent /\ p.name = o.project
  <2>1. PICK p \in remote : p.kind = "Project" /\ p.uuid = q.parent /\ p.name = q.project
    BY <1>1, <1>2, <1>3 DEF Placed, SameFace
  <2>2. PICK p2 \in remote' : SameFace(p, p2)
    BY <1>1, <2>1 DEF SameFace
  <2> QED BY <1>1, <2>1, <2>2 DEF SameFace
<1>4. ASSUME o.kind \notin {"Project", "Environment"}
      PROVE  \E e \in remote' : /\ e.kind = "Environment" /\ e.uuid = o.parent
                                /\ e.project = o.project /\ e.name = o.environment
  <2>1. PICK e \in remote : /\ e.kind = "Environment" /\ e.uuid = q.parent
                            /\ e.project = q.project /\ e.name = q.environment
    BY <1>1, <1>2, <1>4 DEF Placed, SameFace
  <2>2. PICK e2 \in remote' : SameFace(e, e2)
    BY <1>1, <2>1 DEF SameFace
  <2> QED BY <1>1, <2>1, <2>2 DEF SameFace
<1> QED BY <1>1, <1>2, <1>3, <1>4 DEF Placed, SameFace

LEMMA CreatePlaced ==
  ASSUME PlainCoordinates, TypeOK, Numbered', InPlace, NEW m \in net, PathOK(m), CreateObject(m)
  PROVE  InPlace'
<1>1. PICK p \in Parents(m) : remote' = remote \cup {Created(m, issued + 1, p)}
  BY DEF CreateObject
<1>2. PICK n : n = Created(m, issued + 1, p)
  OBVIOUS
<1>3. /\ remote' = remote \cup {n} /\ m.res \in Targets /\ m.verb = "create"
      /\ n.kind = m.res.kind /\ n.project = m.res.project /\ n.name = m.res.name
      /\ n.environment = m.res.environment /\ n.server = m.res.server /\ n.parent = p
  BY <1>1, <1>2 DEF Created, CreateObject, TypeOK, CoolifyTypeOK, Requests
<1>4. \A o \in remote : Placed(o, remote')
  <2>1. \A o \in remote : Placed(o, remote)
    BY DEF InPlace, InGoodOrder
  <2> QED BY <1>3, <2>1, PlacedGrows
<1>5. \A q \in remote : q.uuid = m.at /\ m.res.kind # "Project" => q.kind = "Project" /\ q.name = m.res.project
  BY <1>3 DEF PathOK, Names, KeyOf, Key, ProjectKey
<1>6. Placed(n, remote')
  <2>1. CASE m.res.kind = "Project"
    BY <1>3, <2>1 DEF Parents, PlainCoordinates, Placed
  <2>2. CASE m.res.kind = "Environment"
    <3>1. PICK x \in remote : x.kind = "Project" /\ x.uuid = m.at /\ p = x.uuid
      BY <2>2 DEF Parents
    <3>2. x.name = m.res.project /\ m.res.environment = ""
      BY <1>3, <1>5, <2>2, <3>1 DEF PlainCoordinates
    <3> QED BY <1>3, <2>2, <3>1, <3>2 DEF Placed
  <2>3. CASE m.res.kind \notin {"Project", "Environment"}
    <3>1. PICK e \in remote : /\ e.kind = "Environment" /\ e.parent = m.at /\ p = e.uuid
                              /\ e.name = m.res.environment
      BY <2>3 DEF Parents
    <3>2. PICK q \in remote : q.kind = "Project" /\ q.uuid = e.parent /\ q.name = e.project
      BY <3>1 DEF InPlace, InGoodOrder, Placed
    <3>3. e.project = m.res.project
      BY <1>5, <2>3, <3>1, <3>2
    <3>4. m.res.kind = "Database" => m.res.server \in Servers
      BY <1>3 DEF PathOK
    <3> QED BY <1>3, <2>3, <3>1, <3>3, <3>4 DEF Placed
  <2> QED BY <2>1, <2>2, <2>3
<1> QED BY <1>3, <1>4, <1>6 DEF InPlace, InGoodOrder, Numbered

LEMMA InitPlaced == ASSUME Init, GoodSeeds PROVE InPlace
BY DEF Init, CoolifyInit, GoodSeeds, InPlace

LEMMA NextPlaced ==
  ASSUME PlainCoordinates, Inv, Aimed, Aimed', InPlace, [Next]_vars
  PROVE  InPlace'
<1>0. TypeOK /\ Numbered /\ Numbered'
  BY DEF Inv, Aimed
<1>1. CASE UNCHANGED <<remote, issued>>
  BY <1>1 DEF InPlace, InGoodOrder, Placed
<1>2. CASE Dashboard
  <2>1. PICK o \in remote : DashboardDelete(o) \/ DashboardEdit(o)
    BY <1>2 DEF Dashboard
  <2>2. CASE DashboardDelete(o)
    BY <1>0, <2>2, PlaceShrinks DEF DashboardDelete, Children, SameFace
  <2>3. CASE DashboardEdit(o)
    <3>1. PICK s \in {"drift", "stuck"} : remote' = (remote \ {o}) \cup {[o EXCEPT !.spec = s]}
      BY <2>3 DEF DashboardEdit
    <3>2. SameFace(o, [o EXCEPT !.spec = s])
      BY <1>0 DEF SameFace, TypeOK, CoolifyTypeOK, Objects
    <3>3. PICK c : c = [o EXCEPT !.spec = s]
      OBVIOUS
    <3>4. remote' = (remote \ {o}) \cup {c} /\ SameFace(o, c)
      BY <3>1, <3>2, <3>3
    <3> QED BY <1>0, <3>4, PlaceShrinks DEF SameFace
  <2> QED BY <2>1, <2>2, <2>3
<1>3. CASE Serve
  <2>1. PICK m \in net : Handle(m)
    BY <1>3 DEF Serve
  <2>2. CASE CreateObject(m)
    BY <1>0, <2>2, CreatePlaced DEF Aimed
  <2>3. CASE AlreadyGone(m) \/ ReplayAnswer(m) \/ RefuseRequest(m)
    BY <1>1, <2>3 DEF AlreadyGone, ReplayAnswer, RefuseRequest
  <2>4. CASE RemoveObject(m)
    <3>1. PICK o \in Addressed(m) : Children(o) = {} /\ remote' = remote \ {o}
      BY <2>4 DEF RemoveObject
    <3> QED BY <1>0, <3>1, PlaceShrinks DEF SameFace, Children, Addressed
  <2>5. CASE ChangeObject(m)
    <3>1. PICK o \in Addressed(m) : remote' = (remote \ {o}) \cup {Changed(m, o)}
      BY <2>5 DEF ChangeObject
    <3>2. o \in remote
      BY <3>1 DEF Addressed
    <3>3. SameFace(o, Changed(m, o))
      BY <1>0, <3>2 DEF SameFace, Changed, TypeOK, CoolifyTypeOK, Objects
    <3>4. PICK c : c = Changed(m, o)
      OBVIOUS
    <3>5. remote' = (remote \ {o}) \cup {c} /\ SameFace(o, c)
      BY <3>1, <3>3, <3>4
    <3> QED BY <1>0, <3>2, <3>5, PlaceShrinks DEF SameFace
  <2> QED BY <2>1, <2>2, <2>3, <2>4, <2>5 DEF Handle
<1>4. ASSUME NEW r \in Runs, Start(r) \/ Proceed(r) \/ Answers(r) \/ Crash(r) PROVE InPlace'
  BY <1>1, <1>4, RunsOnlyAsk
<1> QED BY <1>1, <1>2, <1>3, <1>4 DEF Next, vars, serverVars

-----------------------------------------------------------------------------
(* What a run lists is all there is, as long as nobody makes more of it and  *)
(* every object has a key of its own.                                       *)

\* Run r knows every object by its uuid, or will list it yet.
KnowsAll(r) ==
  \A o \in remote :
    /\ KeyOf(o) \in Keys => resolved[r][KeyOf(o)] = o.uuid \/ Ahead(r, o)
    /\ o.kind = "Environment" /\ phase[r] \in Reading => o.uuid \in envRefs[r] \/ Ahead(r, o)

\* Nobody makes more.
LEMMA KnowsFewer ==
  ASSUME NEW r, KnowsAll(r), \A o \in remote' : \E q \in remote : SameFace(q, o),
         phase'[r] = phase[r], resolved'[r] = resolved[r], listing'[r] = listing[r],
         envRefs'[r] = envRefs[r], scanning'[r] = scanning[r]
  PROVE  KnowsAll(r)'
<1> SUFFICES ASSUME NEW o \in remote'
             PROVE  /\ KeyOf(o) \in Keys => resolved[r][KeyOf(o)] = o.uuid \/ Ahead(r, o)'
                    /\ o.kind = "Environment" /\ phase[r] \in Reading =>
                         o.uuid \in envRefs[r] \/ Ahead(r, o)'
  BY DEF KnowsAll
<1>1. PICK q \in remote : SameFace(q, o)
  OBVIOUS
<1>2. Ahead(r, o)' <=> Ahead(r, q)
  BY <1>1 DEF Ahead, Stored, SameFace
<1> QED BY <1>1, <1>2, FaceKey DEF KnowsAll, SameFace

\* A listing teaches the uuid of what is listed, and of nothing else.
LEMMA LearnExact ==
  ASSUME TypeOK, NoDuplicates, NEW r \in Runs, NEW objs \in SUBSET remote, Learn(r, objs),
         NEW o \in remote, KeyOf(o) \in Keys
  PROVE  /\ o \in objs => resolved'[r][KeyOf(o)] = o.uuid
         /\ o \notin objs => resolved'[r][KeyOf(o)] = resolved[r][KeyOf(o)]
<1>1. PICK k \in Keys : k = KeyOf(o)
  OBVIOUS
<1>2. \/ resolved'[r][k] = resolved[r][k] /\ \A p \in objs : KeyOf(p) # k
      \/ \E p \in objs : KeyOf(p) = k /\ resolved'[r][k] = p.uuid
  BY LearnFacts
<1>3. \A p \in objs : KeyOf(p) = k => p = o
  BY <1>1 DEF NoDuplicates
<1> QED BY <1>1, <1>2, <1>3

LEMMA StartKnows ==
  ASSUME Inv, NEW r \in Runs, phase'[r] = "projects"
  PROVE  KnowsAll(r)'
BY DEF KnowsAll, Ahead

LEMMA ListProjectsKnows ==
  ASSUME Inv, InPlace, NoDuplicates, NEW r \in Runs, KnowsAll(r), ListProjects(r)
  PROVE  KnowsAll(r)'
<1> DEFINE projects == {o \in remote : o.kind = "Project"}
<1>0. /\ TypeOK /\ phase[r] = "projects" /\ remote' = remote
      /\ Learn(r, projects) /\ projects \in SUBSET remote
  BY DEF Inv, ListProjects, serverVars
<1>1. phase'[r] = "envs" /\ listing'[r] = {o.uuid : o \in projects}
  BY <1>0 DEF ListProjects, Goto, TypeOK
<1> SUFFICES ASSUME NEW o \in remote
             PROVE  /\ KeyOf(o) \in Keys => resolved'[r][KeyOf(o)] = o.uuid \/ Ahead(r, o)'
                    /\ o.kind = "Environment" => o.uuid \in envRefs'[r] \/ Ahead(r, o)'
  BY <1>0 DEF KnowsAll
<1>2. CASE o.kind = "Project"
  BY <1>0, <1>2, LearnExact
<1>3. CASE o.kind = "Environment"
  <2>1. PICK q \in remote : q.kind = "Project" /\ q.uuid = o.parent
    BY <1>3 DEF InPlace, InGoodOrder, Placed
  <2>2. o.parent \in listing'[r]
    BY <1>1, <2>1
  <2> QED BY <1>1, <1>3, <2>2 DEF Ahead
<1>4. CASE o.kind \notin {"Project", "Environment"}
  BY <1>1, <1>4 DEF Ahead
<1> QED BY <1>2, <1>3, <1>4

LEMMA ListEnvironmentsKnows ==
  ASSUME Inv, NoDuplicates, NEW r \in Runs, KnowsAll(r), ListEnvironments(r)
  PROVE  KnowsAll(r)'
<1>0. TypeOK /\ phase[r] = "envs" /\ phase[r] \in Reading /\ UNCHANGED <<remote, phase>>
  BY DEF Inv, ListEnvironments, serverVars, Reading
<1>1. PICK p \in listing[r] :
        /\ Learn(r, {o \in remote : o.kind = "Environment" /\ o.parent = p})
        /\ envRefs' = [envRefs EXCEPT ![r] = @ \cup
             {o.uuid : o \in {x \in remote : x.kind = "Environment" /\ x.parent = p}}]
        /\ listing' = [listing EXCEPT ![r] = @ \ {p}]
  BY DEF ListEnvironments
<1> DEFINE envs == {o \in remote : o.kind = "Environment" /\ o.parent = p}
<1>2. Learn(r, envs) /\ envs \in SUBSET remote
  BY <1>1
<1>3. envRefs'[r] = envRefs[r] \cup {o.uuid : o \in envs} /\ listing'[r] = listing[r] \ {p}
  BY <1>0, <1>1 DEF TypeOK
<1> SUFFICES ASSUME NEW o \in remote
             PROVE  /\ KeyOf(o) \in Keys => resolved'[r][KeyOf(o)] = o.uuid \/ Ahead(r, o)'
                    /\ o.kind = "Environment" => o.uuid \in envRefs'[r] \/ Ahead(r, o)'
  BY <1>0 DEF KnowsAll
<1>4. /\ KeyOf(o) \in Keys => resolved[r][KeyOf(o)] = o.uuid \/ Ahead(r, o)
      /\ o.kind = "Environment" => o.uuid \in envRefs[r] \/ Ahead(r, o)
  BY <1>0 DEF KnowsAll
<1>5. CASE o \in envs
  BY <1>0, <1>2, <1>3, <1>5, LearnExact
<1>6. CASE o \notin envs
  <2>1. Ahead(r, o) => Ahead(r, o)'
    BY <1>0, <1>3, <1>6 DEF Ahead
  <2>2. KeyOf(o) \in Keys => resolved'[r][KeyOf(o)] = resolved[r][KeyOf(o)]
    BY <1>0, <1>2, <1>6, LearnExact
  <2> QED BY <1>3, <1>4, <2>1, <2>2
<1> QED BY <1>5, <1>6

LEMMA ListServersKnows ==
  ASSUME Inv, InPlace, NEW r \in Runs, KnowsAll(r), ListServers(r)
  PROVE  KnowsAll(r)'
<1>0. /\ TypeOK /\ phase[r] = "envs" /\ phase[r] \in Reading /\ listing[r] = {}
      /\ UNCHANGED <<remote, resolved, envRefs>>
  BY DEF Inv, ListServers, serverVars, Reading
<1>1. phase'[r] = "apps" /\ scanning'[r] = Servers
  BY <1>0 DEF ListServers, Goto, TypeOK
<1>2. ASSUME NEW o \in remote, Ahead(r, o) PROVE Ahead(r, o)' /\ o.kind # "Environment"
  <2>1. o.kind \in Kinds \ {"Project", "Environment"}
    BY <1>0, <1>2 DEF Ahead, TypeOK, CoolifyTypeOK, Objects
  <2>2. o.kind = "Database" => o.server \in Servers
    BY DEF InPlace, InGoodOrder, Placed
  <2> QED BY <1>1, <2>1, <2>2 DEF Ahead, Stored, Kinds
<1> SUFFICES ASSUME NEW o \in remote
             PROVE  /\ KeyOf(o) \in Keys => resolved[r][KeyOf(o)] = o.uuid \/ Ahead(r, o)'
                    /\ o.kind = "Environment" => o.uuid \in envRefs[r] \/ Ahead(r, o)'
  BY <1>0 DEF KnowsAll
<1> QED BY <1>0, <1>2 DEF KnowsAll

LEMMA ListChildrenKnows ==
  ASSUME Inv, InPlace, NoDuplicates, NEW r \in Runs, KnowsAll(r),
         ListApplications(r) \/ ListServices(r)
  PROVE  KnowsAll(r)'
<1>0. PICK from, kind, to :
        /\ ListChildren(r, from, kind, to)
        /\ \/ from = "apps" /\ kind = "Application" /\ to = "services"
           \/ from = "services" /\ kind = "Service" /\ to = "databases"
  BY DEF ListApplications, ListServices
<1> DEFINE objs == {o \in remote : o.kind = kind /\ o.parent \in envRefs[r]}
<1>1. /\ TypeOK /\ phase[r] = from /\ phase[r] \in Reading
      /\ UNCHANGED <<remote, envRefs, scanning>>
      /\ Learn(r, objs) /\ objs \in SUBSET remote
  BY <1>0 DEF Inv, ListChildren, serverVars, Reading
<1>2. phase'[r] = to
  BY <1>0, <1>1 DEF ListChildren, Goto, TypeOK
<1> SUFFICES ASSUME NEW o \in remote
             PROVE  /\ KeyOf(o) \in Keys => resolved'[r][KeyOf(o)] = o.uuid \/ Ahead(r, o)'
                    /\ o.kind = "Environment" => o.uuid \in envRefs[r] \/ Ahead(r, o)'
  BY <1>1 DEF KnowsAll
<1>3. /\ KeyOf(o) \in Keys => resolved[r][KeyOf(o)] = o.uuid \/ Ahead(r, o)
      /\ o.kind = "Environment" => o.uuid \in envRefs[r] \/ Ahead(r, o)
  BY <1>1 DEF KnowsAll
<1>4. CASE o.kind = kind
  <2>1. PICK e \in remote : e.kind = "Environment" /\ e.uuid = o.parent
    BY <1>0, <1>4 DEF InPlace, InGoodOrder, Placed
  <2>2. e.uuid \in envRefs[r] \/ Ahead(r, e)
    BY <1>1, <2>1 DEF KnowsAll
  <2>3. ~Ahead(r, e)
    BY <1>0, <1>1, <2>1 DEF Ahead, Stored
  <2>4. o \in objs
    BY <1>4, <2>1, <2>2, <2>3
  <2> QED BY <1>0, <1>1, <1>4, <2>4, LearnExact
<1>5. CASE o.kind # kind
  <2>1. Ahead(r, o) => Ahead(r, o)' /\ o.kind # "Environment"
    BY <1>0, <1>1, <1>2, <1>5 DEF Ahead, Stored
  <2>2. KeyOf(o) \in Keys => resolved'[r][KeyOf(o)] = resolved[r][KeyOf(o)]
    BY <1>1, <1>5, LearnExact
  <2> QED BY <1>3, <2>1, <2>2
<1> QED BY <1>4, <1>5

LEMMA ScanServerKnows ==
  ASSUME Inv, NoDuplicates, NEW r \in Runs, KnowsAll(r), ScanServer(r)
  PROVE  KnowsAll(r)'
<1>0. TypeOK /\ phase[r] = "databases" /\ phase[r] \in Reading /\ UNCHANGED <<remote, phase, envRefs>>
  BY DEF Inv, ScanServer, serverVars, Reading
<1>1. PICK s \in scanning[r] :
        /\ Learn(r, {o \in remote : o.kind = "Database" /\ o.server = s})
        /\ scanning' = [scanning EXCEPT ![r] = @ \ {s}]
  BY DEF ScanServer
<1> DEFINE objs == {o \in remote : o.kind = "Database" /\ o.server = s}
<1>2. Learn(r, objs) /\ objs \in SUBSET remote /\ scanning'[r] = scanning[r] \ {s}
  BY <1>0, <1>1 DEF TypeOK
<1> SUFFICES ASSUME NEW o \in remote
             PROVE  /\ KeyOf(o) \in Keys => resolved'[r][KeyOf(o)] = o.uuid \/ Ahead(r, o)'
                    /\ o.kind = "Environment" => o.uuid \in envRefs[r] \/ Ahead(r, o)'
  BY <1>0 DEF KnowsAll
<1>3. /\ KeyOf(o) \in Keys => resolved[r][KeyOf(o)] = o.uuid \/ Ahead(r, o)
      /\ o.kind = "Environment" => o.uuid \in envRefs[r] \/ Ahead(r, o)
  BY <1>0 DEF KnowsAll
<1>4. CASE o \in objs
  BY <1>0, <1>2, <1>3, <1>4, LearnExact DEF Ahead, Stored
<1>5. CASE o \notin objs
  <2>1. Ahead(r, o) => Ahead(r, o)'
    BY <1>0, <1>2, <1>5 DEF Ahead, Stored
  <2>2. KeyOf(o) \in Keys => resolved'[r][KeyOf(o)] = resolved[r][KeyOf(o)]
    BY <1>0, <1>2, <1>5, LearnExact
  <2> QED BY <1>3, <2>1, <2>2
<1> QED BY <1>4, <1>5

LEMMA ListingKnows ==
  ASSUME Inv, InPlace, NoDuplicates, NEW r \in Runs, KnowsAll(r),
         \/ ListProjects(r) \/ ListEnvironments(r) \/ ListServers(r)
         \/ ListApplications(r) \/ ListServices(r) \/ ScanServer(r)
  PROVE  KnowsAll(r)'
BY ListProjectsKnows, ListEnvironmentsKnows, ListServersKnows, ListChildrenKnows, ScanServerKnows

\* What a run has not resolved when it has listed everything is not there.
LEMMA ListedAll ==
  ASSUME NEW r \in Runs, KnowsAll(r), phase[r] \notin {"projects", "envs", "apps", "services"},
         phase[r] = "databases" => scanning[r] = {}, NEW o \in remote, KeyOf(o) \in Keys
  PROVE  resolved[r][KeyOf(o)] = o.uuid
BY DEF KnowsAll, Ahead, Stored

\* Past its listings a run keeps what it knows.
LEMMA PastListing ==
  ASSUME NEW r \in Runs, KnowsAll(r), phase[r] \notin {"projects", "envs", "apps", "services"},
         phase[r] = "databases" => scanning[r] = {}, remote' = remote, resolved'[r] = resolved[r],
         phase'[r] \in Phases \ (Reading \cup {"idle"}) \/ (envRefs'[r] = envRefs[r] /\ phase[r] \in Reading)
  PROVE  KnowsAll(r)'
BY DEF KnowsAll, Ahead, Stored

-----------------------------------------------------------------------------
(* The inductive invariant of a destroy.                                   *)

\* Nothing of x's key is left.
GoneKey(x) == \A o \in remote : KeyOf(o) # KeyOf(x)

Deleting(r) == \A m \in waiting[r] : reply[r].status = "ok" => GoneKey(m.res)

Deleted(r) ==
  \A op \in Ops : op \in audited[r] \/ (phase[r] = "audit" /\ op \in cur[r]) => GoneKey(op.res)

\* Past its listings, everything it wants is planned or gone.
ToDelete(r) ==
  phase[r] \in {"diff", "confirm", "done"} \cup Executing =>
    \A x \in Wanted(cmd[r]) : (\E op \in plan[r] : op.res = x) \/ GoneKey(x)

DestroyOK(r) == KnowsAll(r) /\ Deleting(r) /\ Deleted(r) /\ ToDelete(r)

Destroys(r) ==
  cmd[r].mode = "destroy" /\ cmd[r].online /\ ~foreign[r] /\ phase[r] \notin {"idle", "skipped"}

Destroyed == \A r \in Runs : Destroys(r) => DestroyOK(r)

\* A destroy that is left alone sees objects go and nothing else.
LEMMA OnlyGoes ==
  ASSUME Inv, NEW m \in net, Handle(m), NEW r \in Runs, Destroys(r)', UNCHANGED runVars
  PROVE  Destroys(r) /\ remote' \subseteq remote
<1>1. Destroys(r) /\ ~foreign'[r] /\ TypeOK
  BY ForeignOrOwn DEF Destroys, runVars, Inv
<1>2. CASE m.run # r
  BY <1>1, <1>2, ForeignOrOwn
<1>3. CASE m.run = r
  <2>1. OpOf(m) \in plan[r]
    BY <1>3 DEF Inv, Accounted, OneAtATime
  <2>2. OpOf(m).verb = "delete"
    BY <1>1, <2>1 DEF Inv, Asked, Destroys
  <2>3. m.verb = "delete"
    BY <2>2 DEF OpOf
  <2> QED BY <1>1, <2>3 DEF Handle, CreateObject, ChangeObject, RemoveObject, AlreadyGone,
             ReplayAnswer, RefuseRequest
<1> QED BY <1>2, <1>3

LEMMA EnvironmentPlaced ==
  ASSUME InPlace, NEW o \in remote, o.kind = "Environment"
  PROVE  /\ o.environment = ""
         /\ \E q \in remote : q.uuid = o.parent /\ q.name = o.project /\ KeyOf(q) = ProjectKey(o.project)
<1>1. \A x \in remote : Placed(x, remote)
  BY DEF InPlace, InGoodOrder
<1>2. PICK q \in remote : q.kind = "Project" /\ q.uuid = o.parent /\ q.name = o.project
  BY <1>1 DEF Placed
<1>3. q.project = "" /\ q.environment = ""
  BY <1>1, <1>2 DEF Placed
<1>4. KeyOf(q) = ProjectKey(o.project)
  BY <1>2, <1>3 DEF KeyOf, ProjectKey
<1> QED BY <1>1, <1>2, <1>4 DEF Placed

\* What has the key of what is to be deleted is what the request addresses.
LEMMA KeyAddressed ==
  ASSUME Inv, Prepared, InPlace, NEW r \in Runs, KnowsAll(r), phase[r] = "sent",
         NEW m \in waiting[r], m.verb = "delete", NEW p \in remote, KeyOf(p) = KeyOf(m.res)
  PROVE  p \in Addressed(m) /\ p.kind = m.res.kind
<1>1. m.res \in Targets
  BY ConnectionCur DEF Requests
<1>2. p.kind = m.res.kind
  BY DEF KeyOf, Key
<1>3. \A o \in remote : KeyOf(o) \in Keys => resolved[r][KeyOf(o)] = o.uuid
  BY ListedAll
<1>4. CASE m.res.kind # "Environment"
  <2>1. m.at = resolved[r][KeyOf(m.res)]
    BY <1>4 DEF Prepared, PreparedRun
  <2> QED BY <1>1, <1>2, <1>3, <1>4, <2>1, KeysCover DEF Addressed
<1>5. CASE m.res.kind = "Environment"
  <2>1. m.at = resolved[r][ProjectKey(m.res.project)]
    BY <1>5 DEF Prepared, PreparedRun
  <2>2. p.project = m.res.project /\ p.name = m.res.name
    BY <1>2, <1>5 DEF KeyOf, Key
  <2>3. PICK q \in remote :
          q.uuid = p.parent /\ q.name = p.project /\ KeyOf(q) = ProjectKey(p.project)
    BY <1>2, <1>5, EnvironmentPlaced
  <2>6. q.uuid = m.at
    BY <1>1, <1>3, <2>1, <2>2, <2>3, KeysCover
  <2> QED BY <1>2, <1>5, <2>2, <2>3, <2>6 DEF Addressed
<1> QED BY <1>4, <1>5

LEMMA EnvironmentsMeet ==
  ASSUME InPlace, NEW o \in remote, NEW p \in remote, o.kind = "Environment",
         p.kind = "Environment", o.parent = p.parent, o.name = p.name
  PROVE  KeyOf(o) = KeyOf(p)
<1>1. PICK a \in remote : a.uuid = o.parent /\ a.name = o.project
  BY EnvironmentPlaced
<1>2. PICK b \in remote : b.uuid = p.parent /\ b.name = p.project
  BY EnvironmentPlaced
<1>3. a = b
  BY <1>1, <1>2 DEF InPlace, InGoodOrder
<1>4. o.environment = "" /\ p.environment = ""
  BY EnvironmentPlaced
<1> QED BY <1>1, <1>2, <1>3, <1>4 DEF KeyOf

\* A delete that is answered leaves nothing of the key.
LEMMA DeleteGone ==
  ASSUME Inv, Prepared, InPlace, NoDuplicates, NEW r \in Runs, KnowsAll(r), phase[r] = "sent",
         NEW m \in waiting[r], m.verb = "delete", RemoveObject(m) \/ AlreadyGone(m)
  PROVE  GoneKey(m.res)'
<1>1. \A p \in remote : KeyOf(p) = KeyOf(m.res) => p \in Addressed(m) /\ p.kind = m.res.kind
  BY KeyAddressed
<1>2. CASE AlreadyGone(m)
  BY <1>1, <1>2 DEF AlreadyGone, GoneKey
<1>3. CASE RemoveObject(m)
  <2>1. PICK o \in Addressed(m) : remote' = remote \ {o}
    BY <1>3 DEF RemoveObject
  <2> SUFFICES ASSUME NEW p \in remote, p # o, KeyOf(p) = KeyOf(m.res) PROVE FALSE
    BY <2>1 DEF GoneKey
  <2>2. p \in Addressed(m) /\ p.kind = m.res.kind /\ o \in remote
    BY <1>1 DEF Addressed
  <2>3. CASE m.res.kind # "Environment"
    BY <2>2, <2>3 DEF Addressed, InPlace, InGoodOrder
  <2>4. CASE m.res.kind = "Environment"
    <3>1. /\ o.kind = "Environment" /\ o.parent = m.at /\ o.name = m.res.name
          /\ p.kind = "Environment" /\ p.parent = m.at /\ p.name = m.res.name
      BY <2>2, <2>4 DEF Addressed
    <3>2. KeyOf(o) = KeyOf(p)
      BY <2>2, <3>1, EnvironmentsMeet
    <3> QED BY <2>2, <3>2 DEF NoDuplicates
  <2> QED BY <2>3, <2>4
<1> QED BY <1>2, <1>3

LEMMA ServeDestroyed ==
  ASSUME ~HonoursKey, Inv, Aimed, Prepared, InPlace, NoDuplicates, Destroyed,
         Serve, UNCHANGED runVars
  PROVE  Destroyed'
<1> SUFFICES ASSUME NEW r \in Runs, Destroys(r)' PROVE DestroyOK(r)'
  BY DEF Destroyed
<1>0. /\ TypeOK /\ Numbered /\ RememberedOK
      /\ UNCHANGED <<phase, cmd, resolved, listing, envRefs, scanning, plan, cur, audited>>
  BY DEF Inv, Aimed, runVars, progressVars, engineVars
<1>1. PICK m \in net : Handle(m)
  BY DEF Serve
<1>2. Destroys(r) /\ remote' \subseteq remote
  BY <1>1, OnlyGoes
<1>3. DestroyOK(r)
  BY <1>2 DEF Destroyed
<1>4. \A x : GoneKey(x) => GoneKey(x)'
  BY <1>2 DEF GoneKey
<1>5. KnowsAll(r)'
  BY <1>0, <1>2, <1>3, KnowsFewer DEF DestroyOK, SameFace
<1>6. Deleted(r)' /\ ToDelete(r)'
  BY <1>0, <1>3, <1>4 DEF DestroyOK, Deleted, ToDelete
<1>7. Deleting(r)'
  <2>1. waiting' = waiting
    BY <1>0, <1>1, HandleSteady
  <2> SUFFICES ASSUME NEW n \in waiting[r], reply'[r].status = "ok" PROVE GoneKey(n.res)'
    BY <2>1 DEF Deleting
  <2>2. CASE reply'[r] = reply[r]
    BY <1>3, <1>4, <2>2 DEF DestroyOK, Deleting
  <2>3. CASE reply'[r] # reply[r]
    <3>1. r = m.run /\ m \in waiting[r] /\ n = m
      BY <1>0, <1>1, <2>3, HandleSteady DEF Aimed, AimedRun, PathsOK
    <3>2. phase[r] = "sent"
      BY <3>1, NotSent
    <3>3. OpOf(m).verb = "delete"
      BY <1>2, <3>1, ConnectionCur DEF Inv, Asked, Destroys
    <3>4. m.verb = "delete"
      BY <3>3 DEF OpOf
    <3>5. RemoveObject(m) \/ AlreadyGone(m)
      BY <1>0, <1>1, <3>1, <3>4 DEF Handle, CreateObject, ChangeObject, ReplayAnswer,
         RefuseRequest, Answer, TypeOK, CoolifyTypeOK
    <3> QED BY <1>3, <3>1, <3>2, <3>4, <3>5, DeleteGone DEF DestroyOK
  <2> QED BY <2>2, <2>3
<1> QED BY <1>5, <1>6, <1>7 DEF DestroyOK

LEMMA DashboardDestroyed == Dashboard => Destroyed'
BY DEF Dashboard, Destroyed, Destroys

LEMMA OthersDestroyed ==
  ASSUME Inv, Destroyed, NEW r \in Runs, Start(r) \/ Proceed(r) \/ Answers(r) \/ Crash(r),
         NEW q \in Runs \ {r}, Destroys(q)'
  PROVE  DestroyOK(q)'
<1>1. UNCHANGED <<remote, cmd>>
  BY RunsOnlyAsk
<1>2. /\ phase'[q] = phase[q] /\ resolved'[q] = resolved[q]
      /\ listing'[q] = listing[q] /\ envRefs'[q] = envRefs[q] /\ scanning'[q] = scanning[q]
      /\ plan'[q] = plan[q] /\ cur'[q] = cur[q]
      /\ audited'[q] = audited[q] /\ waiting'[q] = waiting[q] /\ reply'[q] = reply[q]
      /\ foreign'[q] = foreign[q]
  BY OthersKeep
<1>3. DestroyOK(q)
  BY <1>1, <1>2 DEF Destroyed, Destroys
<1>4. \A x : GoneKey(x)' <=> GoneKey(x)
  BY <1>1 DEF GoneKey
<1>5. KnowsAll(q)'
  BY <1>1, <1>2, <1>3, KnowsFewer DEF DestroyOK, SameFace
<1>6. Deleting(q)'
  BY <1>2, <1>3, <1>4 DEF DestroyOK, Deleting
<1>7. Deleted(q)' /\ ToDelete(q)'
  BY <1>1, <1>2, <1>3, <1>4 DEF DestroyOK, Deleted, ToDelete
<1> QED BY <1>5, <1>6, <1>7 DEF DestroyOK

\* A run that has started has been told what to do.
LEMMA DestroysBefore ==
  ASSUME NEW r \in Runs, Proceed(r) \/ Answers(r) \/ Crash(r), Destroys(r)'
  PROVE  Destroys(r)
<1>1. phase[r] \notin {"idle", "skipped"}
  BY DEF Proceed, Answers, Crash, Active, Reading, Executing,
         ListProjects, ListEnvironments, ListServers, ListApplications, ListServices,
         ListChildren, ScanServer, Load, Compare, RefuseMove, ReadFails, Planned, Begin,
         Unresolvable, Acknowledge, SendVariables, Rejected, Retry, GiveUp, Record, RecordFails,
         Finish
<1>2. UNCHANGED <<foreign, cmd>>
  BY DEF Proceed, Answers, Crash, serverVars, runVars,
         ListProjects, ListEnvironments, ListServers, ListApplications, ListServices,
         ListChildren, ScanServer, Load, Compare, RefuseMove, ReadFails, Planned, Begin,
         Unresolvable, Acknowledge, SendVariables, Rejected, Retry, GiveUp, Record, RecordFails,
         Finish
<1> QED BY <1>1, <1>2 DEF Destroys

\* What is kept by a step of the run that does not concern it.
LEMMA DestroyParts ==
  ASSUME NEW r \in Runs, DestroyOK(r), UNCHANGED <<remote, cmd>>
  PROVE  /\ \A x : GoneKey(x)' <=> GoneKey(x)
         /\ waiting'[r] = {} \/ reply'[r] = NoReply => Deleting(r)'
         /\ audited'[r] = audited[r] /\ phase'[r] # "audit" => Deleted(r)'
         /\ plan'[r] = plan[r]
            /\ (phase[r] \in {"diff", "confirm", "done"} \cup Executing
                \/ phase'[r] \notin {"diff", "confirm", "done"} \cup Executing)
            => ToDelete(r)'
<1>1. \A x : GoneKey(x)' <=> GoneKey(x)
  BY DEF GoneKey
<1>2. waiting'[r] = {} \/ reply'[r] = NoReply => Deleting(r)'
  BY DEF Deleting, NoReply
<1>3. audited'[r] = audited[r] /\ phase'[r] # "audit" => Deleted(r)'
  BY <1>1 DEF DestroyOK, Deleted
<1>4. ASSUME plan'[r] = plan[r],
             phase[r] \in {"diff", "confirm", "done"} \cup Executing
               \/ phase'[r] \notin {"diff", "confirm", "done"} \cup Executing
      PROVE  ToDelete(r)'
  BY <1>1, <1>4 DEF DestroyOK, ToDelete
<1> QED BY <1>1, <1>2, <1>3, <1>4

LEMMA StartDestroyed ==
  ASSUME Inv, Prepared, NEW r \in Runs, Start(r), Destroys(r)'
  PROVE  DestroyOK(r)'
<1>1. TypeOK /\ phase[r] = "idle" /\ UNCHANGED <<remote, cmd, plan, cur, audited>>
  BY DEF Inv, Start, engineVars
<1>2. phase'[r] = "projects"
  BY <1>1 DEF Start, Skip, Goto, TypeOK, Destroys
<1>3. plan[r] = {} /\ audited[r] = {}
  BY <1>1 DEF Prepared, PreparedRun, Unplanned, Inv, OneAtATime, Executing
<1>4. KnowsAll(r)'
  BY <1>2, StartKnows
<1>5. Deleting(r)'
  BY ReadingSteps DEF Deleting
<1> QED BY <1>1, <1>2, <1>3, <1>4, <1>5 DEF DestroyOK, Deleted, ToDelete, Executing

LEMMA ListingDestroyed ==
  ASSUME Inv, InPlace, NoDuplicates, Prepared, NEW r \in Runs, DestroyOK(r),
         \/ ListProjects(r) \/ ListEnvironments(r) \/ ListServers(r)
         \/ ListApplications(r) \/ ListServices(r) \/ ScanServer(r)
  PROVE  DestroyOK(r)'
<1>0. TypeOK /\ phase[r] \in Unplanned \ {"idle"} /\ phase'[r] \in Unplanned
      /\ UNCHANGED <<remote, cmd, plan, audited>>
  BY DEF ListProjects, ListEnvironments, ListServers, ListApplications, ListServices,
         ListChildren, ScanServer, Goto, Inv, TypeOK, Unplanned, serverVars, engineVars
<1>1. KnowsAll(r)'
  BY ListingKnows DEF DestroyOK
<1>2. Deleting(r)'
  BY ReadingSteps DEF Deleting
<1>3. Deleted(r)' /\ ToDelete(r)'
  BY <1>0, DestroyParts DEF Unplanned, Executing
<1> QED BY <1>1, <1>2, <1>3 DEF DestroyOK

\* What is not resolved is gone, and the rest is planned.
LEMMA LoadDestroyed ==
  ASSUME Inv, NEW r \in Runs, DestroyOK(r), Load(r), Destroys(r)'
  PROVE  DestroyOK(r)'
<1>0. /\ TypeOK /\ phase[r] = "databases" /\ scanning[r] = {}
      /\ UNCHANGED <<remote, cmd, resolved, envRefs, audited>>
  BY DEF Inv, Load, serverVars
<1>1. cmd[r].mode = "destroy" /\ phase'[r] = "diff" /\ plan'[r] = Deletions(r)
  BY <1>0 DEF Load, Goto, Skip, TypeOK, Destroys
<1>2. KnowsAll(r)'
  BY <1>0, <1>1, PastListing DEF DestroyOK, Reading
<1>3. Deleting(r)' /\ Deleted(r)'
  BY <1>0, <1>1, DestroyParts, ReadingSteps
<1>4. ASSUME NEW x \in Wanted(cmd[r]), ~ \E op \in plan'[r] : op.res = x
      PROVE  GoneKey(x)
  <2>1. KeyOf(x) \in Keys
    BY KeysCover, WantedType
  <2>2. Resolved(r, x) => [verb |-> "delete", res |-> x] \in plan'[r]
    BY <1>1 DEF Deletions
  <2>3. resolved[r][KeyOf(x)] = None
    BY <1>4, <2>2 DEF Resolved
  <2>4. \A o \in remote : KeyOf(o) \in Keys => resolved[r][KeyOf(o)] = o.uuid
    BY <1>0, ListedAll DEF DestroyOK
  <2>5. \A o \in remote : o.uuid # None
    BY <1>0 DEF TypeOK, CoolifyTypeOK, Objects, Uuids, None
  <2> QED BY <2>1, <2>3, <2>4, <2>5 DEF GoneKey
<1>5. ToDelete(r)'
  BY <1>0, <1>4, DestroyParts DEF ToDelete
<1> QED BY <1>2, <1>3, <1>5 DEF DestroyOK

LEMMA QuietDestroyed ==
  ASSUME Inv, NEW r \in Runs, DestroyOK(r), Destroys(r)',
         \/ RefuseMove(r) \/ ReadFails(r) \/ Planned(r) \/ Answers(r) \/ Unresolvable(r)
         \/ Rejected(r) \/ GiveUp(r) \/ RecordFails(r) \/ Finish(r) \/ Crash(r)
  PROVE  DestroyOK(r)'
<1>1. UNCHANGED <<remote, cmd, resolved, plan, audited>>
  BY DEF RefuseMove, ReadFails, Planned, Answers, Unresolvable, Rejected, GiveUp,
         RecordFails, Finish, Crash, serverVars, progressVars, engineVars
<1>2. waiting'[r] = {}
  BY ReadingSteps, HangUpSteps
<1>3. PICK to \in {"skipped", "done", "engine", "confirm"} : phase' = [phase EXCEPT ![r] = to]
  BY DEF RefuseMove, ReadFails, Planned, Answers, Unresolvable, Rejected, GiveUp,
         RecordFails, Finish, Crash, Skip, Return, Goto
<1>4. phase'[r] = to /\ to # "skipped"
  BY <1>3 DEF Inv, TypeOK, Destroys
<1>5. phase[r] \in {"diff", "confirm"} \cup Executing
  <2>1. ~RefuseMove(r) /\ ~ReadFails(r)
    BY <1>4 DEF RefuseMove, ReadFails, Skip, Inv, TypeOK
  <2>2. CASE ~Crash(r)
    BY <2>1, <2>2 DEF Planned, Answers, Unresolvable, Rejected, GiveUp, RecordFails, Finish, Executing
  <2>3. CASE Crash(r)
    BY <1>4, <2>3 DEF Crash, Skip, Return, Executing, Inv, TypeOK
  <2> QED BY <2>2, <2>3
<1>6. KnowsAll(r)'
  BY <1>1, <1>4, <1>5, PastListing DEF DestroyOK, Executing, Phases, Active, Ended, Reading
<1>7. Deleting(r)' /\ Deleted(r)' /\ ToDelete(r)'
  BY <1>1, <1>2, <1>4, <1>5, DestroyParts DEF Executing
<1> QED BY <1>6, <1>7 DEF DestroyOK

LEMMA AcknowledgeDestroyed ==
  ASSUME Inv, Aimed, Prepared, NEW r \in Runs, DestroyOK(r), cmd[r].mode = "destroy",
         Acknowledge(r) \/ SendVariables(r)
  PROVE  DestroyOK(r)'
<1>0. /\ TypeOK /\ phase[r] = "sent" /\ reply[r].status = "ok" /\ LearnCreated(r)
      /\ UNCHANGED <<remote, cmd, envRefs, plan, cur, audited>>
  BY DEF Inv, Acknowledge, SendVariables, engineVars
<1>1. PICK m \in waiting[r] : TRUE
  BY <1>0 DEF Prepared, PreparedRun
<1>2. OpOf(m).verb = "delete"
  BY ConnectionCur DEF Inv, Asked
<1>3. m.verb = "delete" /\ \A n \in waiting[r] : n = m
  BY <1>2 DEF OpOf, Aimed, AimedRun, PathsOK
<1>4. Acknowledge(r) /\ resolved' = resolved
  BY <1>0, <1>3, LearnCreatedFacts DEF SendVariables, NeedsVariables
<1>5. phase'[r] = "audit" /\ waiting'[r] = {}
  BY <1>0, <1>4, HangUpSteps DEF Acknowledge, Goto, TypeOK
<1>6. KnowsAll(r)'
  BY <1>0, <1>4, <1>5, PastListing DEF DestroyOK, Phases, Active, Executing, Reading
<1>7. Deleting(r)' /\ ToDelete(r)'
  BY <1>0, <1>5, DestroyParts DEF Executing
<1>8. Deleted(r)'
  <2>1. GoneKey(m.res)
    BY <1>0 DEF DestroyOK, Deleting
  <2>2. \A op \in cur[r] : op.res = m.res
    BY ConnectionCur
  <2>3. \A x : GoneKey(x)' <=> GoneKey(x)
    BY <1>0, DestroyParts
  <2> QED BY <1>0, <2>1, <2>2, <2>3 DEF DestroyOK, Deleted
<1> QED BY <1>6, <1>7, <1>8 DEF DestroyOK

LEMMA RecordDestroyed ==
  ASSUME Inv, NEW r \in Runs, DestroyOK(r), Record(r)
  PROVE  DestroyOK(r)'
<1>0. /\ TypeOK /\ phase[r] = "audit" /\ UNCHANGED <<remote, cmd, resolved, envRefs, plan>>
  BY DEF Inv, Record, serverVars, progressVars
<1>1. phase'[r] = "engine" /\ audited'[r] = audited[r] \cup cur[r]
  BY <1>0 DEF Record, Goto, TypeOK
<1>2. KnowsAll(r)'
  BY <1>0, <1>1, PastListing DEF DestroyOK, Phases, Active, Executing, Reading
<1>3. Deleted(r)'
  BY <1>0, <1>1, DestroyParts DEF DestroyOK, Deleted
<1>4. Deleting(r)' /\ ToDelete(r)'
  BY <1>0, <1>1, DestroyParts, ReadingSteps DEF Executing
<1> QED BY <1>2, <1>3, <1>4 DEF DestroyOK

LEMMA SentDestroyed ==
  ASSUME Inv, Aimed, NEW r \in Runs, DestroyOK(r), Begin(r) \/ Retry(r)
  PROVE  DestroyOK(r)'
<1>0. /\ TypeOK /\ phase[r] \in {"engine", "sent"}
      /\ UNCHANGED <<remote, cmd, resolved, envRefs, plan, audited>>
  BY DEF Inv, Begin, Retry, progressVars, runVars, engineVars
<1>1. phase'[r] = "sent"
  BY <1>0 DEF Begin, Retry, Goto, runVars, TypeOK
<1>2. KnowsAll(r)'
  BY <1>0, <1>1, PastListing DEF DestroyOK, Phases, Active, Executing, Reading
<1>3. reply'[r] = NoReply
  <2>1. CASE Begin(r)
    <3>1. \E m : m.run = r /\ Send(m)
      BY <2>1, BeginSends
    <3> QED BY <3>1, SendSteps
  <2>2. CASE Retry(r)
    <3>1. \E m : m.run = r /\ Send(m)
      BY <2>2, RetrySends
    <3> QED BY <3>1, SendSteps
  <2> QED BY <2>1, <2>2
<1>4. Deleting(r)' /\ Deleted(r)' /\ ToDelete(r)'
  BY <1>0, <1>1, <1>3, DestroyParts DEF Executing
<1> QED BY <1>2, <1>4 DEF DestroyOK

LEMMA OwnDestroyed ==
  ASSUME Inv, Aimed, Prepared, InPlace, NoDuplicates, Destroyed, NEW r \in Runs,
         Start(r) \/ Proceed(r) \/ Answers(r) \/ Crash(r), Destroys(r)'
  PROVE  DestroyOK(r)'
<1>1. CASE Start(r)
  BY <1>1, StartDestroyed
<1>2. CASE Proceed(r) \/ Answers(r) \/ Crash(r)
  <2>1. DestroyOK(r) /\ cmd[r].mode = "destroy"
    BY <1>2, DestroysBefore DEF Destroyed, Destroys
  <2>2. ~Compare(r)
    BY <2>1 DEF Compare, Inv, Asked
  <2> QED BY <1>2, <2>1, <2>2, ListingDestroyed, LoadDestroyed, QuietDestroyed,
             AcknowledgeDestroyed, RecordDestroyed, SentDestroyed DEF Proceed
<1> QED BY <1>1, <1>2

LEMMA NextDestroyed ==
  ASSUME ~HonoursKey, Inv, Aimed, Prepared, InPlace, NoDuplicates, Destroyed, [Next]_vars
  PROVE  Destroyed'
<1>1. CASE Serve /\ UNCHANGED runVars
  BY <1>1, ServeDestroyed
<1>2. CASE Dashboard /\ UNCHANGED runVars
  BY <1>2, DashboardDestroyed
<1>3. CASE UNCHANGED vars
  <2>1. /\ UNCHANGED <<remote, foreign, waiting, reply>>
        /\ UNCHANGED <<phase, cmd, resolved, listing, envRefs, scanning, plan, cur, audited>>
    BY <1>3 DEF vars, serverVars, runVars, progressVars, engineVars
  <2> QED BY <2>1 DEF Destroyed, Destroys, DestroyOK, KnowsAll, Ahead, Stored, Deleting, Deleted,
                      ToDelete, GoneKey
<1>4. ASSUME NEW r \in Runs, Start(r) \/ Proceed(r) \/ Answers(r) \/ Crash(r)
      PROVE  Destroyed'
  BY <1>4, OwnDestroyed, OthersDestroyed DEF Destroyed
<1> QED BY <1>1, <1>2, <1>3, <1>4 DEF Next

LEMMA InitDestroyed == Init => Destroyed
BY DEF Init, Destroyed, Destroys

LEMMA StepGone ==
  ASSUME AsWritten, Inv, Destroyed, [Next]_vars, NEW r \in Runs, Succeeds(r), cmd[r].mode = "destroy",
         NEW x \in Selected(cmd[r]), NEW o \in remote
  PROVE  KeyOf(o) # KeyOf(Bound(x))
<1>1. TypeOK /\ phase[r] = "engine" /\ plan[r] = audited[r] /\ ~foreign[r]
  BY SucceedsFinishes DEF Finish, Succeeds, Inv
<1>2. cmd[r].online
  BY <1>1 DEF Inv, Asked, Refused, Executing
<1>3. DestroyOK(r)
  BY <1>1, <1>2 DEF Destroyed, Destroys
<1>4. x \in Wanted(cmd[r]) /\ x \in Declared
  BY DEF Wanted, Selected
<1>5. GoneKey(x)
  <2>1. CASE \E op \in plan[r] : op.res = x
    <3>1. PICK op \in plan[r] : op.res = x
      BY <2>1
    <3>2. op \in audited[r] /\ op \in Ops
      BY <1>1, <3>1 DEF TypeOK
    <3> QED BY <1>3, <3>1, <3>2 DEF DestroyOK, Deleted
  <2>2. CASE ~\E op \in plan[r] : op.res = x
    BY <1>1, <1>3, <1>4, <2>2 DEF DestroyOK, ToDelete, Executing
  <2> QED BY <2>1, <2>2
<1> QED BY <1>4, <1>5 DEF GoneKey, AsWritten

LEMMA SeedsNumbered == GoodSeeds => NumberedSeeds
BY DEF GoodSeeds, InGoodOrder, NumberedSeeds

\* After a destroy that exits 0, and during which nobody else changed anything,
\* nothing is left of what was selected, though its requests were retried and a
\* 404 counts as deleted: as long as no two objects share a key, of which the
\* run would know only one (Engine.Apply, loadDeleteInput, ignoreNotFound).
THEOREM DestroysWhatIsSelected ==
  ASSUME ~HonoursKey, AsWritten, PlainCoordinates, GoodSeeds
  PROVE  Spec /\ []NoDuplicates => GoneOnSuccess
<1>1. Init => Aimed /\ Prepared /\ InPlace /\ Destroyed
  BY InitAimed, InitPrepared, InitPlaced, InitDestroyed, SeedsNumbered
<1>2. /\ Inv /\ Aimed /\ Prepared /\ InPlace /\ Destroyed /\ NoDuplicates /\ [Next]_vars
      => (Aimed /\ Prepared /\ InPlace /\ Destroyed)'
  BY NextAimed, NextPrepared, NextPlaced, NextDestroyed
<1>3. Inv /\ Destroyed /\ [Next]_vars
        => [\A r \in Runs : Succeeds(r) /\ cmd[r].mode = "destroy" =>
              \A x \in Selected(cmd[r]), o \in remote : KeyOf(o) # KeyOf(Bound(x))]_vars
  BY StepGone
<1> QED BY <1>1, <1>2, <1>3, Invariance, PTL DEF Spec, GoneOnSuccess

-----------------------------------------------------------------------------
(* A second apply.  Its requests and the late ones of the first meet the    *)
(* same objects, so no two runs are active at a time.                      *)

Alone == \A a, b \in Runs : phase[a] \in Active /\ phase[b] \in Active => a = b

\* Run q is on its way to repeat the apply r, and nobody else changed anything
\* since r began.
Follows(q, r) ==
  /\ phase[r] = "done" /\ exit[r] = 0 /\ ~foreign[r]
  /\ q # r /\ cmd[q] = cmd[r] /\ cmd[r].mode = "apply"
  /\ phase[q] \in Active

\* An object of x's key differs in a way no PATCH removes.
Stuck(x) == \E o \in remote : KeyOf(o) = KeyOf(x) /\ o.spec = "stuck"

FollowsOK(q) ==
  /\ phase[q] \in Reading => KnowsAll(q)
  /\ \A op \in plan[q] : op.verb # "create" /\ Stuck(op.res)

Followed == \A q, r \in Runs : Follows(q, r) => FollowsOK(q)

\* A run that moves is active, or starts.
LEMMA MovesActive ==
  ASSUME NEW r \in Runs, Proceed(r) \/ Answers(r) \/ Crash(r)
  PROVE  phase[r] \in Active
BY DEF Proceed, Answers, Crash, Active, Reading, Executing,
       ListProjects, ListEnvironments, ListServers, ListApplications, ListServices,
       ListChildren, ScanServer, Load, Compare, RefuseMove, ReadFails, Planned, Begin,
       Unresolvable, Acknowledge, SendVariables, Rejected, Retry, GiveUp, Record, RecordFails,
       Finish

LEMMA NextAlone ==
  ASSUME ~Overlap, Inv, Alone, [Next]_vars
  PROVE  Alone'
<1>1. CASE UNCHANGED phase
  BY <1>1 DEF Alone
<1>2. ASSUME NEW r \in Runs, Start(r) \/ Proceed(r) \/ Answers(r) \/ Crash(r) PROVE Alone'
  <2>1. \A q \in Runs \ {r} : phase'[q] = phase[q]
    BY <1>2, OthersKeep
  <2>2. CASE Start(r)
    BY <2>1, <2>2 DEF Start, Alone
  <2>3. CASE Proceed(r) \/ Answers(r) \/ Crash(r)
    BY <2>1, <2>3, MovesActive DEF Alone
  <2> QED BY <1>2, <2>2, <2>3
<1> QED BY <1>1, <1>2 DEF Next, vars, runVars

LEMMA InitAlone == Init => Alone
BY DEF Init, Alone, Active, Reading, Executing

\* What a run that exited 0 was asked for is right.
LEMMA DoneRight ==
  ASSUME Inv, NEW r \in Runs, ApplyOK(r), phase[r] = "done", exit[r] = 0,
         NEW x \in Wanted(cmd[r])
  PROVE  \E o \in remote : KeyOf(o) = KeyOf(x) /\ (x.kind \in Diffed => o.spec # "drift")
<1>1. TypeOK /\ plan[r] = audited[r] /\ comparing[r] = {}
  BY DEF Inv, ExitCodeTold, ApplyOK, CoversOK
<1>2. KeyOf(x) \in Keys
  BY KeysCover, WantedType
<1>3. PICK u \in Uuids \cup {None} : u = resolved[r][KeyOf(x)]
  BY <1>1, <1>2 DEF TypeOK
<1>4. Right(u, x)
  <2>1. CASE \E op \in plan[r] : op.res = x
    <3>1. PICK op \in plan[r] : op.res = x
      BY <2>1
    <3>2. op \in audited[r] /\ op \in Ops
      BY <1>1, <3>1 DEF TypeOK
    <3> QED BY <1>3, <3>1, <3>2 DEF ApplyOK, DoneOK
  <2>2. CASE ~\E op \in plan[r] : op.res = x
    BY <1>1, <1>3, <2>2 DEF ApplyOK, CoversOK
  <2> QED BY <2>1, <2>2
<1> QED BY <1>4 DEF Right

\* A late request of a run that exited 0 creates nothing: its object would be a
\* second one of its key.
LEMMA LateCreatesNothing ==
  ASSUME Inv, Numbered, NoDuplicates', NEW r \in Runs, ApplyOK(r), phase[r] = "done", exit[r] = 0,
         NEW m \in net, m.run = r, CreateObject(m)
  PROVE  FALSE
<1>1. PICK p \in Parents(m) : remote' = remote \cup {Created(m, issued + 1, p)}
  BY DEF CreateObject
<1>2. PICK n : n = Created(m, issued + 1, p)
  OBVIOUS
<1>3. n \in remote' /\ KeyOf(n) = KeyOf(m.res) /\ n.uuid = issued + 1 /\ remote \subseteq remote'
  BY <1>1, <1>2 DEF Created, KeyOf
<1>4. OpOf(m) \in plan[r] /\ OpOf(m).res = m.res
  BY DEF Inv, Accounted, OneAtATime, OpOf
<1>5. m.res \in Wanted(cmd[r])
  BY <1>4 DEF Inv, Asked
<1>6. PICK o \in remote : KeyOf(o) = KeyOf(m.res)
  BY <1>5, DoneRight
<1>7. o = n
  BY <1>3, <1>6 DEF NoDuplicates
<1> QED BY <1>3, <1>6, <1>7, NumberedUuids DEF Inv

LEMMA ServeFollowed ==
  ASSUME Inv, Aimed, Applied, Followed, NoDuplicates', Serve, UNCHANGED runVars
  PROVE  Followed'
<1> SUFFICES ASSUME NEW q \in Runs, NEW r \in Runs, Follows(q, r)' PROVE FollowsOK(q)'
  BY DEF Followed
<1>0. /\ TypeOK /\ Numbered
      /\ UNCHANGED <<phase, cmd, exit, resolved, listing, envRefs, scanning, plan>>
  BY DEF Inv, Aimed, runVars, progressVars, engineVars
<1>1. PICK m \in net : Handle(m)
  BY DEF Serve
<1>2. Applies(r)'
  BY DEF Follows, Applies
<1>3. Applies(r) /\ Kept
  BY <1>1, <1>2, LeftAlone
<1>4. Follows(q, r) /\ FollowsOK(q) /\ ApplyOK(r)
  BY <1>0, <1>3 DEF Follows, Applies, Followed, Applied
<1>5. \A o \in remote' : \E p \in remote : SameFace(p, o)
  <2>1. CASE m.run # r
    <3>1. remote' = remote
      BY <1>0, <1>1, <2>1, ForeignOrOwn DEF Follows
    <3> QED BY <3>1 DEF SameFace
  <2>2. CASE m.run = r
    <3>1. ~CreateObject(m)
      BY <1>0, <1>4, <2>2, LateCreatesNothing DEF Follows
    <3>2. CASE ChangeObject(m)
      <4>1. PICK o \in Addressed(m) : remote' = (remote \ {o}) \cup {Changed(m, o)}
        BY <3>2 DEF ChangeObject
      <4>2. o \in remote
        BY <4>1 DEF Addressed
      <4>3. SameFace(o, Changed(m, o))
        BY <1>0, <4>2 DEF SameFace, Changed, TypeOK, CoolifyTypeOK, Objects
      <4>4. PICK c : c = Changed(m, o)
        OBVIOUS
      <4>5. remote' = (remote \ {o}) \cup {c} /\ SameFace(o, c)
        BY <4>1, <4>3, <4>4
      <4> QED BY <4>2, <4>5 DEF SameFace
    <3>3. CASE RemoveObject(m) \/ AlreadyGone(m) \/ ReplayAnswer(m) \/ RefuseRequest(m)
      BY <3>3 DEF RemoveObject, AlreadyGone, ReplayAnswer, RefuseRequest, SameFace
    <3> QED BY <1>1, <3>1, <3>2, <3>3 DEF Handle
  <2> QED BY <2>1, <2>2
<1>6. KnowsAll(q) => KnowsAll(q)'
  BY <1>0, <1>5, KnowsFewer
<1>7. \A x : Stuck(x) => Stuck(x)'
  <2> SUFFICES ASSUME NEW x, Stuck(x) PROVE Stuck(x)'
    OBVIOUS
  <2>1. PICK o \in remote : KeyOf(o) = KeyOf(x) /\ o.spec = "stuck"
    BY DEF Stuck
  <2>2. PICK p \in remote' : SameFace(o, p) /\ (o.spec # "drift" => p.spec = o.spec)
    BY <1>3 DEF Kept
  <2> QED BY <2>1, <2>2, FaceKey DEF Stuck
<1> QED BY <1>0, <1>4, <1>6, <1>7 DEF FollowsOK

LEMMA DashboardFollowed == Dashboard => Followed'
BY DEF Dashboard, Followed, Follows

\* The run that follows moves.
LEMMA FollowerMoves ==
  ASSUME Inv, Aimed, Prepared, InPlace, NoDuplicates, Applied, Followed, NEW q \in Runs,
         Start(q) \/ Proceed(q) \/ Answers(q) \/ Crash(q), NEW r \in Runs, Follows(q, r)'
  PROVE  FollowsOK(q)'
<1>0. /\ TypeOK /\ Numbered /\ q \in Runs \ {r} /\ r \in Runs \ {q}
      /\ UNCHANGED <<remote, cmd>>
  BY RunsOnlyAsk DEF Inv, Aimed, Follows
<1>1. phase'[r] = phase[r] /\ exit'[r] = exit[r] /\ foreign'[r] = foreign[r]
  BY <1>0, OthersKeep
<1>2. /\ phase[r] = "done" /\ exit[r] = 0 /\ ~foreign[r] /\ cmd[q] = cmd[r]
      /\ cmd[r].mode = "apply" /\ phase'[q] \in Active
  BY <1>0, <1>1 DEF Follows
<1>3. ApplyOK(r)
  BY <1>2 DEF Applied, Applies
<1>4. \A x \in Wanted(cmd[q]) :
        \E o \in remote : KeyOf(o) = KeyOf(x) /\ (x.kind \in Diffed => o.spec # "drift")
  BY <1>2, <1>3, DoneRight
<1>5. \A x : Stuck(x)' <=> Stuck(x)
  BY <1>0 DEF Stuck
<1>6. CASE Start(q)
  <2>1. cmd[q].online
    BY <1>2 DEF Inv, Asked, Refused, Executing
  <2>2. phase[q] = "idle" /\ phase'[q] = "projects" /\ plan' = plan
    BY <1>0, <1>2, <1>6, <2>1 DEF Start, Goto, Skip, TypeOK, Active, Reading, Executing, engineVars
  <2>3. plan'[q] = {} /\ KnowsAll(q)'
    BY <2>2, StartKnows DEF Prepared, PreparedRun, Unplanned
  <2> QED BY <2>3 DEF FollowsOK
<1>7. ASSUME ~Start(q)
      PROVE  FollowsOK(q)'
  <2>1. Follows(q, r) /\ FollowsOK(q)
    BY <1>0, <1>2, <1>7, MovesActive DEF Follows, Followed
  <2>2. CASE \/ ListProjects(q) \/ ListEnvironments(q) \/ ListServers(q)
             \/ ListApplications(q) \/ ListServices(q) \/ ScanServer(q)
    <3>1. phase[q] \in Reading /\ plan' = plan
      BY <2>2 DEF ListProjects, ListEnvironments, ListServers, ListApplications, ListServices,
                  ListChildren, ScanServer, Reading, engineVars
    <3>2. KnowsAll(q)'
      BY <2>1, <2>2, <3>1, ListingKnows DEF FollowsOK
    <3> QED BY <1>5, <2>1, <3>1, <3>2 DEF FollowsOK
  <2>3. CASE Load(q)
    <3>1. /\ phase[q] = "databases" /\ scanning[q] = {} /\ UNCHANGED <<resolved, envRefs>>
          /\ KnowsAll(q)
      BY <2>1, <2>3 DEF Load, FollowsOK, Reading
    <3>2. phase'[q] = "diff" /\ plan'[q] = Creations(q)
      BY <1>0, <1>2, <2>3 DEF Load, Goto, Skip, TypeOK, Active, Reading, Executing
    <3>3. KnowsAll(q)'
      BY <1>0, <3>1, <3>2, PastListing DEF Reading
    <3>4. ASSUME NEW x \in Wanted(cmd[q]), ~Resolved(q, x) PROVE FALSE
      <4>1. PICK o \in remote : KeyOf(o) = KeyOf(x)
        BY <1>4, <3>4
      <4>2. KeyOf(o) \in Keys
        BY <4>1, KeysCover, WantedType
      <4>3. resolved[q][KeyOf(x)] = o.uuid
        BY <3>1, <4>1, <4>2, ListedAll
      <4> QED BY <1>0, <3>4, <4>3 DEF Resolved, TypeOK, CoolifyTypeOK, Objects, Uuids, None
    <3>5. plan'[q] = {}
      BY <3>2, <3>4 DEF Creations
    <3> QED BY <3>3, <3>5 DEF FollowsOK
  <2>4. CASE Compare(q)
    <3>1. PICK x \in comparing[q], o \in remote :
            /\ o.uuid = resolved[q][KeyOf(x)]
            /\ plan' = [plan EXCEPT ![q] =
                 @ \cup (IF o.spec = "ok" THEN {} ELSE {[verb |-> "update", res |-> x]})]
      BY <2>4 DEF Compare
    <3>2. PICK S : S = (IF o.spec = "ok" THEN {} ELSE {[verb |-> "update", res |-> x]})
      OBVIOUS
    <3>3. plan'[q] = plan[q] \cup S
      BY <1>0, <3>1, <3>2 DEF TypeOK
    <3>4. /\ phase[q] = "diff" /\ phase' = phase /\ resolved' = resolved /\ envRefs' = envRefs
          /\ KnowsAll(q)
      BY <2>1, <2>4 DEF Compare, FollowsOK, Reading
    <3>5. KnowsAll(q)'
      BY <1>0, <3>4, PastListing DEF Reading
    <3>6. x \in Wanted(cmd[q]) /\ x.kind \in Diffed
      BY <3>1 DEF Inv, Asked, Aimed, AimedRun, UpdatesOK
    <3>7. PICK h \in remote : KeyOf(h) = KeyOf(x) /\ h.spec # "drift"
      BY <1>4, <3>6
    <3>8. h = o
      <4>1. KeyOf(h) \in Keys
        BY <3>6, <3>7, KeysCover, WantedType
      <4>2. resolved[q][KeyOf(h)] = h.uuid
        BY <3>4, <4>1, ListedAll
      <4> QED BY <1>0, <3>1, <3>7, <4>2 DEF Numbered
    <3>9. o.spec # "ok" => Stuck(x)
      BY <1>0, <3>7, <3>8 DEF Stuck, TypeOK, CoolifyTypeOK, Objects
    <3>10. \A op \in S : op.verb # "create" /\ Stuck(op.res)
      BY <3>2, <3>9
    <3> QED BY <1>5, <2>1, <3>3, <3>5, <3>10 DEF FollowsOK
  <2>5. CASE ~Load(q) /\ ~Compare(q)
             /\ ~(\/ ListProjects(q) \/ ListEnvironments(q) \/ ListServers(q)
                  \/ ListApplications(q) \/ ListServices(q) \/ ScanServer(q))
    <3>1. plan' = plan
      BY <1>7, <2>5 DEF Proceed, Answers, Crash, RefuseMove, ReadFails, Planned, Begin, Unresolvable,
         Acknowledge, SendVariables, Rejected, Retry, GiveUp, Record, RecordFails, Finish,
         engineVars, runVars
    <3>2. phase'[q] \notin Reading
      BY <1>0, <1>2, <1>7, <2>5 DEF Proceed, Answers, Crash, RefuseMove, ReadFails, Planned, Begin,
         Unresolvable, Acknowledge, SendVariables, Rejected, Retry, GiveUp, Record, RecordFails,
         Finish, Goto, Skip, Return, runVars, TypeOK, Active, Reading, Executing
    <3> QED BY <1>5, <2>1, <3>1, <3>2 DEF FollowsOK
  <2> QED BY <2>2, <2>3, <2>4, <2>5
<1> QED BY <1>6, <1>7

\* Another run moves.
LEMMA OthersFollowed ==
  ASSUME Inv, Alone, Followed, NEW s \in Runs, Start(s) \/ Proceed(s) \/ Answers(s) \/ Crash(s),
         NEW q \in Runs \ {s}, NEW r \in Runs, Follows(q, r)'
  PROVE  FollowsOK(q)'
<1>0. UNCHANGED <<remote, cmd>>
  BY RunsOnlyAsk
<1>1. /\ phase'[q] = phase[q] /\ resolved'[q] = resolved[q] /\ listing'[q] = listing[q]
      /\ envRefs'[q] = envRefs[q] /\ scanning'[q] = scanning[q] /\ plan'[q] = plan[q]
  BY OthersKeep
<1>2. s # r
  <2> SUFFICES ASSUME s = r PROVE FALSE
    OBVIOUS
  <2>1. ~Start(s)
    BY DEF Follows, Start, Goto, Skip, Inv, TypeOK
  <2>2. phase[s] \in Active /\ phase[q] \in Active
    BY <1>1, <2>1, MovesActive DEF Follows
  <2> QED BY <2>2 DEF Alone
<1>3. phase'[r] = phase[r] /\ exit'[r] = exit[r] /\ foreign'[r] = foreign[r]
  BY <1>2, OthersKeep
<1>4. FollowsOK(q)
  BY <1>0, <1>1, <1>3 DEF Followed, Follows
<1>5. KnowsAll(q) => KnowsAll(q)'
  BY <1>0, <1>1, KnowsFewer DEF SameFace
<1> QED BY <1>0, <1>1, <1>4, <1>5 DEF FollowsOK, Stuck

LEMMA NextFollowed ==
  ASSUME Inv, Aimed, Prepared, InPlace, Alone, NoDuplicates, NoDuplicates', Applied, Followed,
         [Next]_vars
  PROVE  Followed'
<1>1. CASE Serve /\ UNCHANGED runVars
  BY <1>1, ServeFollowed
<1>2. CASE Dashboard /\ UNCHANGED runVars
  BY <1>2, DashboardFollowed
<1>3. CASE UNCHANGED vars
  <2>1. UNCHANGED <<remote, foreign, phase, exit, cmd, resolved, listing, envRefs, scanning, plan>>
    BY <1>3 DEF vars, serverVars, runVars, progressVars, engineVars
  <2> QED BY <2>1 DEF Followed, Follows, FollowsOK, KnowsAll, Ahead, Stored, Stuck
<1>4. ASSUME NEW s \in Runs, Start(s) \/ Proceed(s) \/ Answers(s) \/ Crash(s)
      PROVE  Followed'
  BY <1>4, FollowerMoves, OthersFollowed DEF Followed
<1> QED BY <1>1, <1>2, <1>3, <1>4 DEF Next

LEMMA InitFollowed == Init => Followed
BY DEF Init, Followed, Follows

\* An apply repeated after one that exited 0 plans nothing, although requests of
\* the first are still on their way, unless an object differs in a way no PATCH
\* removes: when runs do not overlap and no two objects share a key
\* (buildOperations, Resolve).
THEOREM RepeatPlansNothing ==
  ASSUME ~HonoursKey, ~Overlap, DistinctKeys, PlainCoordinates, GoodSeeds
  PROVE  Spec /\ []NoDuplicates => []SecondApplyIsNoOp
<1>1. Init => Aimed /\ Prepared /\ InPlace /\ Alone /\ Applied /\ Followed
  BY InitAimed, InitPrepared, InitPlaced, InitAlone, InitApplied, InitFollowed, SeedsNumbered
<1>2. /\ Inv /\ Aimed /\ Prepared /\ InPlace /\ Alone /\ Applied /\ Followed
      /\ NoDuplicates /\ NoDuplicates' /\ [Next]_vars
      => (Aimed /\ Prepared /\ InPlace /\ Alone /\ Applied /\ Followed)'
  BY NextAimed, NextPrepared, NextPlaced, NextAlone, NextApplied, NextFollowed
<1>3. Followed => SecondApplyIsNoOp
  <2> SUFFICES ASSUME Followed, NEW r \in Runs, NEW q \in Runs, Repeats(q, r),
                      \A o \in remote : o.spec # "stuck"
               PROVE  plan[q] = {}
    BY DEF SecondApplyIsNoOp
  <2>1. FollowsOK(q)
    BY DEF Followed, Follows, Repeats, Active
  <2> QED BY <2>1 DEF FollowsOK, Stuck
<1> QED BY <1>1, <1>2, <1>3, Invariance, PTL DEF Spec

-----------------------------------------------------------------------------
(* No two objects share a key either when no answer is lost and nobody dies *)
(* while runs do not overlap: then a run knows every object but the one it  *)
(* has just made.  This is the case in which the two theorems above need no *)
(* condition on what happens.                                              *)

\* Object o is what the create of run r made, and its answer is under way.
JustMade(r, o) ==
  /\ reply[r].status = "ok" /\ reply[r].uuid = o.uuid
  /\ \E m \in waiting[r] : m.verb = "create" /\ KeyOf(m.res) = KeyOf(o)

\* What is planned and not made yet is not resolved.
Unmade(r) ==
  \A op \in plan[r] \ audited[r] :
    op.verb = "create" /\ (op \in cur[r] => \E m \in waiting[r] : m.verb = "create")
      => resolved[r][KeyOf(op.res)] = None

TidyRun(r) ==
  /\ phase[r] # "sent" => KnowsAll(r)
  /\ phase[r] = "sent" =>
       \A o \in remote : KeyOf(o) \in Keys => resolved[r][KeyOf(o)] = o.uuid \/ JustMade(r, o)
  /\ Unmade(r)

\* Every request in flight is waited for.
Direct == \A m \in net : m \in waiting[m.run] /\ reply[m.run].status = "none"

Tidy ==
  /\ Direct /\ NoDuplicates
  /\ \A r \in Runs : phase[r] \in Active /\ cmd[r].online => TidyRun(r)

\* The create of a run finds nothing of the key.
LEMMA CreateFresh ==
  ASSUME Inv, Direct, NEW r \in Runs, TidyRun(r), NEW m \in net, m.run = r, m.verb = "create",
         NEW o \in remote
  PROVE  KeyOf(o) # KeyOf(m.res)
<1> SUFFICES ASSUME KeyOf(o) = KeyOf(m.res) PROVE FALSE
  OBVIOUS
<1>1. m \in waiting[r] /\ reply[r].status = "none"
  BY DEF Direct
<1>2. phase[r] = "sent"
  BY <1>1, NotSent
<1>3. /\ m.res \in Targets /\ OpOf(m) \in cur[r] /\ OpOf(m) \in plan[r]
      /\ OpOf(m).verb = "create" /\ OpOf(m).res = m.res
  BY <1>1, ConnectionCur DEF Requests, OpOf
<1>4. OpOf(m) \notin audited[r]
  BY <1>2, <1>3 DEF Inv, OneAtATime
<1>5. resolved[r][KeyOf(m.res)] = None
  BY <1>1, <1>3, <1>4 DEF TidyRun, Unmade
<1>6. resolved[r][KeyOf(o)] = o.uuid
  BY <1>1, <1>2, <1>3, KeysCover DEF TidyRun, JustMade
<1> QED BY <1>5, <1>6 DEF Inv, TypeOK, CoolifyTypeOK, Objects, Uuids, None

\* Objects go or change, and answers arrive.
LEMMA TidyKeeps ==
  ASSUME NEW r \in Runs, TidyRun(r), \A o \in remote' : \E q \in remote : SameFace(q, o),
         UNCHANGED runVars, waiting' = waiting, reply'[r] = reply[r] \/ reply[r].status = "none"
  PROVE  TidyRun(r)'
<1>0. UNCHANGED <<phase, cmd, resolved, listing, envRefs, scanning, plan, cur, audited>>
  BY DEF runVars, progressVars, engineVars
<1>1. Unmade(r)'
  BY <1>0 DEF TidyRun, Unmade
<1>2. phase[r] # "sent" => KnowsAll(r)'
  BY <1>0, KnowsFewer DEF TidyRun
<1>3. ASSUME phase[r] = "sent", NEW o \in remote', KeyOf(o) \in Keys
      PROVE  resolved[r][KeyOf(o)] = o.uuid \/ JustMade(r, o)'
  <2>1. PICK q \in remote : SameFace(q, o)
    OBVIOUS
  <2>2. KeyOf(q) = KeyOf(o) /\ q.uuid = o.uuid
    BY <2>1, FaceKey DEF SameFace
  <2>3. resolved[r][KeyOf(q)] = q.uuid \/ JustMade(r, q)
    BY <1>3, <2>2 DEF TidyRun
  <2> QED BY <2>2, <2>3 DEF JustMade
<1> QED BY <1>0, <1>1, <1>2, <1>3 DEF TidyRun

LEMMA CreateTidy ==
  ASSUME Inv, Aimed, Tidy, NEW m \in net, CreateObject(m), UNCHANGED runVars, NEW r \in Runs,
         r = m.run, TidyRun(r)
  PROVE  NoDuplicates' /\ TidyRun(r)'
<1>0. /\ m \in waiting[r] /\ reply[r].status = "none" /\ waiting' = waiting
      /\ m.verb = "create" /\ TypeOK
  BY DEF Tidy, Direct, CreateObject, Inv
<1>1. PICK p \in Parents(m) : remote' = remote \cup {Created(m, issued + 1, p)}
  BY DEF CreateObject
<1>2. PICK n : n = Created(m, issued + 1, p)
  OBVIOUS
<1>3. remote' = remote \cup {n} /\ KeyOf(n) = KeyOf(m.res) /\ n.uuid = issued + 1
  BY <1>1, <1>2 DEF Created, KeyOf
<1>4. \A o \in remote : KeyOf(o) # KeyOf(n)
  BY <1>0, <1>3, CreateFresh DEF Tidy
<1>5. NoDuplicates'
  BY <1>3, <1>4 DEF Tidy, NoDuplicates
<1>6. JustMade(r, n)'
  <2>1. PICK i : i = issued + 1 /\ Succeed(m, i)
    BY DEF CreateObject
  <2>2. reply'[r] = [status |-> "ok", uuid |-> i]
    BY <1>0, <2>1, SucceedLeaves
  <2> QED BY <1>0, <1>3, <2>1, <2>2 DEF JustMade
<1>7. /\ UNCHANGED <<phase, resolved, plan, cur, audited>>
      /\ phase[r] = "sent"
  BY <1>0, NotSent DEF runVars, progressVars, engineVars
<1>8. Unmade(r)'
  BY <1>0, <1>7 DEF TidyRun, Unmade
<1>9. \A o \in remote : KeyOf(o) \in Keys => resolved[r][KeyOf(o)] = o.uuid
  BY <1>0, <1>7 DEF TidyRun, JustMade
<1> QED BY <1>3, <1>5, <1>6, <1>7, <1>8, <1>9 DEF TidyRun

\* The requests of a run that is not created for leave what is there.
LEMMA HandleShrinks ==
  ASSUME TypeOK, NEW m \in net, Handle(m), ~CreateObject(m)
  PROVE  \A o \in remote' : \E q \in remote : SameFace(q, o)
<1>1. CASE ChangeObject(m)
  <2>1. PICK o \in Addressed(m) : remote' = (remote \ {o}) \cup {Changed(m, o)}
    BY <1>1 DEF ChangeObject
  <2>2. o \in remote
    BY <2>1 DEF Addressed
  <2>3. SameFace(o, Changed(m, o))
    BY <2>2 DEF SameFace, Changed, TypeOK, CoolifyTypeOK, Objects
  <2>4. PICK c : c = Changed(m, o)
    OBVIOUS
  <2>5. remote' = (remote \ {o}) \cup {c} /\ SameFace(o, c)
    BY <2>1, <2>3, <2>4
  <2> QED BY <2>2, <2>5 DEF SameFace
<1>2. CASE RemoveObject(m) \/ AlreadyGone(m) \/ ReplayAnswer(m) \/ RefuseRequest(m)
  BY <1>2 DEF RemoveObject, AlreadyGone, ReplayAnswer, RefuseRequest, SameFace
<1> QED BY <1>1, <1>2 DEF Handle

\* Fewer objects, or changed ones, still have keys of their own.
LEMMA FewerKeys ==
  ASSUME NoDuplicates, Numbered', \A o \in remote' : \E q \in remote : SameFace(q, o)
  PROVE  NoDuplicates'
BY FaceKey DEF NoDuplicates, Numbered, SameFace

LEMMA ServeTidy ==
  ASSUME Inv, Aimed, Aimed', Alone, Tidy, Serve, UNCHANGED runVars
  PROVE  Tidy'
<1>0. TypeOK /\ Numbered /\ RememberedOK /\ Numbered' /\ UNCHANGED <<phase, cmd>>
  BY DEF Inv, Aimed, runVars
<1>1. PICK m \in net : Handle(m)
  BY DEF Serve
<1>2. /\ waiting' = waiting /\ net' = net \ {m}
      /\ \A q \in Runs \ {m.run} : reply'[q] = reply[q]
      /\ m.run \in Runs
  BY <1>0, <1>1, HandleSteady DEF TypeOK, CoolifyTypeOK, Requests
<1>3. m \in waiting[m.run] /\ reply[m.run].status = "none" /\ phase[m.run] = "sent"
  BY <1>2, NotSent DEF Tidy, Direct
<1>4. Direct'
  <2> SUFFICES ASSUME NEW n \in net, n # m
               PROVE  n \in waiting[n.run] /\ reply'[n.run].status = "none"
    BY <1>2 DEF Direct
  <2>1. n \in waiting[n.run] /\ reply[n.run].status = "none" /\ n.run \in Runs
    BY <1>0 DEF Tidy, Direct, TypeOK, CoolifyTypeOK, Requests
  <2>2. n.run # m.run
    BY <1>2, <1>3, <2>1 DEF Aimed, AimedRun, PathsOK
  <2> QED BY <1>2, <2>1, <2>2
<1>5. /\ ~cmd[m.run].dry /\ ~Refused(cmd[m.run])
  BY <1>2, <1>3 DEF Inv, Asked, Executing
<1>6. cmd[m.run].online /\ phase[m.run] \in Active
  BY <1>3, <1>5 DEF Refused, Active, Executing
<1>7. TidyRun(m.run)
  BY <1>2, <1>6 DEF Tidy
<1>8. NoDuplicates' /\ TidyRun(m.run)'
  <2>1. CASE CreateObject(m)
    BY <1>2, <1>7, <2>1, CreateTidy
  <2>2. CASE ~CreateObject(m)
    <3>1. \A o \in remote' : \E q \in remote : SameFace(q, o)
      BY <1>0, <1>1, <2>2, HandleShrinks
    <3>2. NoDuplicates'
      BY <1>0, <3>1, FewerKeys DEF Tidy
    <3> QED BY <1>2, <1>3, <1>7, <3>1, <3>2, TidyKeeps
  <2> QED BY <2>1, <2>2
<1>9. \A r \in Runs : phase'[r] \in Active => r = m.run
  BY <1>0, <1>2, <1>6 DEF Alone
<1> QED BY <1>4, <1>8, <1>9 DEF Tidy

LEMMA DashboardTidy ==
  ASSUME Inv, Aimed', Tidy, Dashboard, UNCHANGED runVars
  PROVE  Tidy'
<1>0. TypeOK /\ Numbered' /\ UNCHANGED <<phase, cmd, net, waiting, reply>>
  BY DEF Inv, Aimed, runVars, Dashboard
<1>1. PICK o \in remote : DashboardDelete(o) \/ DashboardEdit(o)
  BY DEF Dashboard
<1>2. \A x \in remote' : \E q \in remote : SameFace(q, x)
  <2>1. CASE DashboardDelete(o)
    BY <2>1 DEF DashboardDelete, SameFace
  <2>2. CASE DashboardEdit(o)
    <3>1. PICK s \in {"drift", "stuck"} : remote' = (remote \ {o}) \cup {[o EXCEPT !.spec = s]}
      BY <2>2 DEF DashboardEdit
    <3>2. SameFace(o, [o EXCEPT !.spec = s])
      BY <1>0 DEF SameFace, TypeOK, CoolifyTypeOK, Objects
    <3>3. PICK c : c = [o EXCEPT !.spec = s]
      OBVIOUS
    <3>4. remote' = (remote \ {o}) \cup {c} /\ SameFace(o, c)
      BY <3>1, <3>2, <3>3
    <3> QED BY <3>4 DEF SameFace
  <2> QED BY <1>1, <2>1, <2>2
<1>3. NoDuplicates'
  BY <1>0, <1>2, FewerKeys DEF Tidy
<1>4. Direct'
  BY <1>0 DEF Tidy, Direct
<1>5. ASSUME NEW r \in Runs, phase[r] \in Active, cmd[r].online PROVE TidyRun(r)'
  BY <1>0, <1>2, <1>5, TidyKeeps DEF Tidy
<1> QED BY <1>0, <1>3, <1>4, <1>5 DEF Tidy

\* What is unmade stays so while nothing is learned.
LEMMA UnmadeStays ==
  ASSUME Inv, NEW r \in Runs, Unmade(r), resolved'[r] = resolved[r],
         \A op \in plan'[r] : op \in plan[r] \/ op.verb # "create",
         audited[r] \subseteq audited'[r],
         \A op \in cur[r] \ audited'[r] : op \in cur'[r],
         \A op \in (cur[r] \ audited'[r]) : op.verb = "create" /\ (\E m \in waiting'[r] : m.verb = "create")
           => \E m \in waiting[r] : m.verb = "create"
  PROVE  Unmade(r)'
BY DEF Unmade

LEMMA ReadingTidy ==
  ASSUME Inv, InPlace, Prepared, NoDuplicates, NEW r \in Runs, TidyRun(r),
         \/ ListProjects(r) \/ ListEnvironments(r) \/ ListServers(r)
         \/ ListApplications(r) \/ ListServices(r) \/ ScanServer(r)
  PROVE  TidyRun(r)'
<1>1. phase[r] # "sent" /\ phase'[r] # "sent" /\ phase[r] \in Unplanned
      /\ plan' = plan
  BY ReadingSteps DEF ListProjects, ListEnvironments, ListServers, ListApplications, ListServices,
         ListChildren, ScanServer, Unplanned, engineVars
<1>2. KnowsAll(r)'
  BY <1>1, ListingKnows DEF TidyRun
<1>3. plan'[r] = {}
  BY <1>1 DEF Prepared, PreparedRun
<1> QED BY <1>1, <1>2, <1>3 DEF TidyRun, Unmade

LEMMA LoadTidy ==
  ASSUME Inv, Prepared, NEW r \in Runs, TidyRun(r), Load(r), phase'[r] \in Active
  PROVE  TidyRun(r)'
<1>0. /\ TypeOK /\ phase[r] = "databases" /\ scanning[r] = {} /\ KnowsAll(r)
      /\ UNCHANGED <<remote, resolved, envRefs>>
  BY DEF Inv, Load, serverVars, TidyRun
<1>1. phase'[r] = "diff" /\ plan'[r] \in {Deletions(r), Creations(r)}
  BY <1>0 DEF Load, Goto, Skip, TypeOK, Active, Reading, Executing
<1>2. KnowsAll(r)'
  BY <1>0, <1>1, PastListing DEF Reading
<1>3. \A op \in plan'[r] : op.verb = "create" => resolved[r][KeyOf(op.res)] = None
  BY <1>1 DEF Deletions, Creations, Resolved
<1> QED BY <1>0, <1>1, <1>2, <1>3 DEF TidyRun, Unmade

\* Steps between the listings and the engine's first request, and its return to
\* the next one.
LEMMA QuietTidy ==
  ASSUME Inv, NEW r \in Runs, TidyRun(r), phase'[r] \in Active,
         Compare(r) \/ Planned(r) \/ Answers(r) \/ Record(r)
  PROVE  TidyRun(r)'
<1>0. /\ TypeOK /\ phase[r] \in {"diff", "confirm", "audit"}
      /\ UNCHANGED <<remote, resolved, envRefs, cur>>
      /\ waiting[r] = {} /\ waiting'[r] = {}
  BY ReadingSteps, NotSent DEF Inv, Compare, Planned, Answers, Record, serverVars, progressVars, engineVars
<1>1. phase'[r] \in {"diff", "confirm", "engine"}
  BY <1>0 DEF Compare, Planned, Answers, Record, Goto, Skip, TypeOK, Active, Reading, Executing
<1>2. KnowsAll(r)'
  <2>1. KnowsAll(r)
    BY <1>0 DEF TidyRun
  <2>2. phase'[r] \in Phases \ (Reading \cup {"idle"}) \/ phase[r] \in Reading
    <3>1. CASE phase'[r] = "diff"
      BY <1>0, <3>1 DEF Compare, Planned, Answers, Record, Goto, Skip, TypeOK, Reading
    <3>2. CASE phase'[r] # "diff"
      BY <1>1, <3>2 DEF Phases, Active, Executing, Reading
    <3> QED BY <3>1, <3>2
  <2> QED BY <1>0, <2>1, <2>2, PastListing
<1>3. CASE Compare(r)
  <2>1. PICK x, S : plan' = [plan EXCEPT ![r] = @ \cup S] /\ \A op \in S : op.verb = "update"
    <3>1. PICK x \in comparing[r], o \in remote :
            plan' = [plan EXCEPT ![r] =
              @ \cup (IF o.spec = "ok" THEN {} ELSE {[verb |-> "update", res |-> x]})]
      BY <1>3 DEF Compare
    <3>2. PICK S : S = (IF o.spec = "ok" THEN {} ELSE {[verb |-> "update", res |-> x]})
      OBVIOUS
    <3>3. \A op \in S : op.verb = "update"
      BY <3>2
    <3>4. plan' = [plan EXCEPT ![r] = @ \cup S]
      BY <3>1, <3>2
    <3> QED BY <3>3, <3>4
  <2>2. plan'[r] = plan[r] \cup S
    BY <1>0, <2>1 DEF TypeOK
  <2>3. audited' = audited
    BY <1>3 DEF Compare
  <2>4. Unmade(r)'
    BY <1>0, <2>1, <2>2, <2>3, UnmadeStays DEF TidyRun
  <2> QED BY <1>1, <1>2, <2>4 DEF TidyRun
<1>4. CASE Planned(r) \/ Answers(r) \/ Record(r)
  <2>1. plan' = plan /\ audited[r] \subseteq audited'[r]
    BY <1>0, <1>4 DEF Planned, Answers, Record, engineVars, TypeOK
  <2>2. Unmade(r)'
    BY <1>0, <2>1, UnmadeStays DEF TidyRun
  <2> QED BY <1>1, <1>2, <2>2 DEF TidyRun
<1> QED BY <1>3, <1>4

LEMMA BeginTidy ==
  ASSUME Inv, Aimed, NEW r \in Runs, TidyRun(r), Begin(r)
  PROVE  TidyRun(r)'
<1>0. /\ TypeOK /\ phase[r] = "engine" /\ cur[r] \subseteq audited[r]
      /\ UNCHANGED <<remote, resolved, plan, audited>>
  BY DEF Inv, OneAtATime, Begin, progressVars
<1>1. phase'[r] = "sent"
  BY <1>0 DEF Begin, Goto, TypeOK
<1>2. \A o \in remote : KeyOf(o) \in Keys => resolved[r][KeyOf(o)] = o.uuid
  BY <1>0, ListedAll DEF TidyRun
<1>3. Unmade(r)'
  BY <1>0 DEF TidyRun, Unmade
<1> QED BY <1>0, <1>1, <1>2, <1>3 DEF TidyRun

LEMMA AnsweredTidy ==
  ASSUME DistinctKeys, Inv, Aimed, Prepared, NoDuplicates, NEW r \in Runs, TidyRun(r),
         Acknowledge(r) \/ SendVariables(r)
  PROVE  TidyRun(r)'
<1>0. /\ TypeOK /\ phase[r] = "sent" /\ reply[r].status = "ok" /\ LearnCreated(r)
      /\ UNCHANGED <<remote, envRefs, plan, cur, audited>>
  BY DEF Inv, Acknowledge, SendVariables, engineVars
<1>1. PICK m \in waiting[r] : TRUE
  BY <1>0 DEF Prepared, PreparedRun
<1>2. /\ m \in Requests /\ m.res \in Targets /\ OpOf(m) \in cur[r] /\ OpOf(m) \in plan[r]
      /\ \A op \in cur[r] : op = OpOf(m) /\ op.res = m.res
      /\ \A n \in waiting[r] : n = m
  BY ConnectionCur DEF Requests, Aimed, AimedRun, PathsOK
<1>3. /\ m.verb # "create" => resolved' = resolved
      /\ m.verb = "create" => \A k \in Keys :
           resolved'[r][k] = IF k = KeyOf(m.res) THEN reply[r].uuid ELSE resolved[r][k]
  BY <1>0, LearnCreatedFacts
<1>4. \A o \in remote : KeyOf(o) \in Keys => resolved'[r][KeyOf(o)] = o.uuid
  <2> SUFFICES ASSUME NEW o \in remote, KeyOf(o) \in Keys PROVE resolved'[r][KeyOf(o)] = o.uuid
    OBVIOUS
  <2>1. resolved[r][KeyOf(o)] = o.uuid \/ JustMade(r, o)
    BY <1>0 DEF TidyRun
  <2>2. CASE JustMade(r, o)
    BY <1>2, <1>3, <2>2 DEF JustMade
  <2>3. CASE ~JustMade(r, o) /\ m.verb = "create" /\ KeyOf(o) = KeyOf(m.res)
    <3>1. OpOf(m).verb = "create" /\ OpOf(m).res = m.res
      BY <2>3 DEF OpOf
    <3>2. OpOf(m) \notin audited[r]
      BY <1>0, <1>2 DEF Inv, OneAtATime
    <3>3. resolved[r][KeyOf(m.res)] = None
      BY <1>2, <2>3, <3>1, <3>2 DEF TidyRun, Unmade
    <3> QED BY <1>0, <2>1, <2>3, <3>3 DEF TypeOK, CoolifyTypeOK, Objects, Uuids, None
  <2>4. CASE ~JustMade(r, o) /\ ~(m.verb = "create" /\ KeyOf(o) = KeyOf(m.res))
    BY <1>3, <2>1, <2>4
  <2> QED BY <2>2, <2>3, <2>4
<1>5. Unmade(r)'
  <2> SUFFICES ASSUME NEW op \in plan[r], op \notin audited[r], op.verb = "create",
                      op \in cur[r] => \E n \in waiting'[r] : n.verb = "create"
               PROVE  resolved'[r][KeyOf(op.res)] = None
    BY <1>0 DEF Unmade
  <2>1. ~ \E n \in waiting'[r] : n.verb = "create"
    <3>1. CASE Acknowledge(r)
      BY <3>1, HangUpSteps
    <3>2. CASE SendVariables(r)
      <4>1. PICK n : Send(n) /\ n.run = r /\ n.verb = "envs"
        BY <3>2, VariablesSends
      <4> QED BY <4>1, SendSteps
    <3> QED BY <3>1, <3>2
  <2>2. op \notin cur[r]
    BY <2>1
  <2>3. resolved[r][KeyOf(op.res)] = None /\ op.res \in Targets
    BY <1>0, <2>2 DEF TidyRun, Unmade, TypeOK, Ops
  <2>4. CASE m.verb # "create"
    BY <1>3, <2>3, <2>4
  <2>5. CASE m.verb = "create"
    <3>1. op.res # m.res
      <4>1. op # OpOf(m) /\ OpOf(m) = [verb |-> "create", res |-> m.res]
        BY <1>2, <2>2, <2>5 DEF OpOf
      <4>2. op = [verb |-> op.verb, res |-> op.res]
        BY <1>0 DEF TypeOK, Ops
      <4> QED BY <4>1, <4>2
    <3>2. KeyOf(op.res) # KeyOf(m.res)
      BY <1>2, <2>3, <3>1 DEF DistinctKeys
    <3> QED BY <1>3, <2>3, <2>5, <3>2, KeysCover
  <2> QED BY <2>4, <2>5
<1>6. \/ KnowsAll(r)' /\ phase'[r] = "audit"
     \/ phase'[r] = "sent"
  <2>1. CASE Acknowledge(r)
    <3>1. phase'[r] = "audit"
      BY <1>0, <2>1 DEF Acknowledge, Goto, TypeOK
    <3> QED BY <1>0, <1>4, <3>1 DEF KnowsAll, Reading
  <2>2. CASE SendVariables(r)
    BY <1>0, <2>2 DEF SendVariables
  <2> QED BY <2>1, <2>2
<1> QED BY <1>0, <1>4, <1>5, <1>6 DEF TidyRun

\* The run that moves.
LEMMA OwnTidy ==
  ASSUME Undisturbed, DistinctKeys, Inv, Aimed, Prepared, InPlace, Tidy, NEW r \in Runs,
         Start(r) \/ Proceed(r) \/ Answers(r) \/ Crash(r), phase'[r] \in Active, cmd[r].online
  PROVE  TidyRun(r)'
<1>0. TypeOK /\ NoDuplicates
  BY DEF Inv, Tidy
<1>1. CASE Start(r)
  <2>1. phase'[r] = "projects" /\ phase[r] = "idle" /\ plan' = plan
    BY <1>0, <1>1 DEF Start, Goto, Skip, TypeOK, Active, Reading, Executing, engineVars
  <2>2. KnowsAll(r)' /\ plan'[r] = {}
    BY <2>1, StartKnows DEF Prepared, PreparedRun, Unplanned
  <2> QED BY <2>1, <2>2 DEF TidyRun, Unmade
<1>2. CASE Proceed(r) \/ Answers(r) \/ Crash(r)
  <2>1. TidyRun(r)
    BY <1>2, MovesActive DEF Tidy
  <2>2. ~Crash(r) /\ ~Retry(r) /\ ~GiveUp(r)
    BY DEF Undisturbed, Crash, Retry, GiveUp
  <2>3. ~RefuseMove(r) /\ ~ReadFails(r) /\ ~Unresolvable(r) /\ ~Rejected(r) /\ ~RecordFails(r) /\ ~Finish(r)
    BY <1>0 DEF RefuseMove, ReadFails, Unresolvable, Rejected, RecordFails, Finish, Skip, Return,
                TypeOK, Active, Reading, Executing
  <2> QED BY <1>0, <1>2, <2>1, <2>2, <2>3, ReadingTidy, LoadTidy, QuietTidy, BeginTidy,
             AnsweredTidy DEF Proceed
<1> QED BY <1>1, <1>2

\* No request is left behind.
LEMMA OwnDirect ==
  ASSUME Undisturbed, Inv, Aimed, Direct, NEW r \in Runs,
         Start(r) \/ Proceed(r) \/ Answers(r) \/ Crash(r)
  PROVE  Direct'
<1>0. TypeOK /\ \A n \in net : n.run \in Runs
  BY DEF Inv, TypeOK, CoolifyTypeOK, Requests
<1>1. \A q \in Runs \ {r} : waiting'[q] = waiting[q] /\ reply'[q] = reply[q]
  BY OthersKeep
<1>2. ~Crash(r) /\ ~Retry(r) /\ ~GiveUp(r)
  BY DEF Undisturbed, Crash, Retry, GiveUp
<1>3. CASE \/ Start(r) \/ ListProjects(r) \/ ListEnvironments(r) \/ ListServers(r)
           \/ ListApplications(r) \/ ListServices(r) \/ ScanServer(r)
           \/ Load(r) \/ Compare(r) \/ RefuseMove(r) \/ ReadFails(r) \/ Planned(r) \/ Answers(r)
           \/ Unresolvable(r) \/ Record(r) \/ RecordFails(r) \/ Finish(r)
  BY <1>3, ReadingSteps DEF Direct
<1>4. CASE Acknowledge(r) \/ Rejected(r)
  <2>1. \A n \in net : n.run # r
    BY <1>4 DEF Direct, Acknowledge, Rejected
  <2> QED BY <1>0, <1>1, <1>4, <2>1, HangUpSteps DEF Direct
<1>5. CASE Begin(r)
  <2>1. PICK n : n.run = r /\ Send(n)
    BY <1>5, BeginSends
  <2>2. \A x \in net : x.run # r
    BY <1>5, NotSent DEF Direct, Begin
  <2> QED BY <1>0, <1>1, <2>1, <2>2, SendSteps DEF Direct, NoReply
<1>6. CASE SendVariables(r)
  <2>1. PICK n : n.run = r /\ Send(n)
    BY <1>6, VariablesSends
  <2>2. \A x \in net : x.run # r
    BY <1>6 DEF Direct, SendVariables
  <2> QED BY <1>0, <1>1, <2>1, <2>2, SendSteps DEF Direct, NoReply
<1> QED BY <1>2, <1>3, <1>4, <1>5, <1>6 DEF Proceed

LEMMA NextTidy ==
  ASSUME ~Overlap, Undisturbed, DistinctKeys, Inv, Aimed, Aimed', Prepared, InPlace, Alone,
         Alone', Tidy, [Next]_vars
  PROVE  Tidy'
<1>1. CASE Serve /\ UNCHANGED runVars
  BY <1>1, ServeTidy
<1>2. CASE Dashboard /\ UNCHANGED runVars
  BY <1>2, DashboardTidy
<1>3. CASE UNCHANGED vars
  <2>1. /\ UNCHANGED <<remote, net, waiting, reply>> /\ UNCHANGED runVars
        /\ UNCHANGED <<phase, cmd>>
    BY <1>3 DEF vars, serverVars, runVars
  <2>2. Direct' /\ NoDuplicates'
    BY <2>1 DEF Tidy, Direct, NoDuplicates
  <2>3. ASSUME NEW r \in Runs, phase[r] \in Active, cmd[r].online PROVE TidyRun(r)'
    BY <2>1, <2>3, TidyKeeps DEF Tidy, SameFace
  <2> QED BY <2>1, <2>2, <2>3 DEF Tidy
<1>4. ASSUME NEW r \in Runs, Start(r) \/ Proceed(r) \/ Answers(r) \/ Crash(r)
      PROVE  Tidy'
  <2>1. Direct' /\ NoDuplicates' /\ cmd' = cmd
    BY <1>4, OwnDirect, RunsOnlyAsk DEF Tidy, NoDuplicates
  <2>2. ASSUME NEW q \in Runs, phase'[q] \in Active, cmd[q].online PROVE TidyRun(q)'
    <3>1. q = r
      <4>1. CASE Start(r)
        BY <2>2, <4>1, OthersKeep DEF Start
      <4>2. CASE Proceed(r) \/ Answers(r) \/ Crash(r)
        BY <2>2, <4>2, OthersKeep, MovesActive DEF Alone
      <4> QED BY <1>4, <4>1, <4>2
    <3> QED BY <1>4, <2>2, <3>1, OwnTidy
  <2> QED BY <2>1, <2>2 DEF Tidy
<1> QED BY <1>1, <1>2, <1>3, <1>4 DEF Next

LEMMA InitTidy == ASSUME Init, GoodSeeds PROVE Tidy
BY DEF Init, CoolifyInit, GoodSeeds, Tidy, Direct, NoDuplicates, Active, Reading, Executing

\* Runs that do not overlap, lose no answer and are not killed make no second
\* object of a key, whether or not the server honours Idempotency-Key: each
\* knows what is there before it creates (Resolve, buildOperations).
THEOREM NothingTwiceAlone ==
  ASSUME ~Overlap, Undisturbed, DistinctKeys, PlainCoordinates, GoodSeeds
  PROVE  Spec => []NoDuplicates
<1>1. Init => Aimed /\ Prepared /\ InPlace /\ Alone /\ Tidy
  BY InitAimed, InitPrepared, InitPlaced, InitAlone, InitTidy, SeedsNumbered
<1>2. Inv /\ Aimed /\ Prepared /\ InPlace /\ Alone /\ Tidy /\ [Next]_vars
        => (Aimed /\ Prepared /\ InPlace /\ Alone /\ Tidy)'
  BY NextAimed, NextPrepared, NextPlaced, NextAlone, NextTidy
<1>3. Tidy => NoDuplicates
  BY DEF Tidy
<1> QED BY <1>1, <1>2, <1>3, Invariance, PTL DEF Spec

\* So for such runs a destroy that exits 0 leaves nothing of what was selected, and
\* an apply repeated after one that exited 0 plans nothing that a PATCH could change,
\* whatever is live (loadDeleteInput, buildOperations, Engine.Apply).
THEOREM KeptAlone ==
  ASSUME ~HonoursKey, ~Overlap, Undisturbed, AsWritten, DistinctKeys, PlainCoordinates, GoodSeeds
  PROVE  Spec => GoneOnSuccess /\ []SecondApplyIsNoOp
BY NothingTwiceAlone, DestroysWhatIsSelected, RepeatPlansNothing, PTL
=============================================================================
