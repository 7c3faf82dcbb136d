-------------------------- MODULE ReconcilerProofs --------------------------
(***************************************************************************)
(* Proofs about Reconciler for every manifest, every set of runs and every *)
(* behaviour of the server the model allows.                               *)
(***************************************************************************)
EXTENDS ReconcilerProps, FiniteSetTheorems, TLAPS

-----------------------------------------------------------------------------
(* Types of the operators.                                                 *)

\* Binding references keeps a manifest a manifest.
LEMMA TargetsType == Targets \subseteq Resources
<1>1. \A s \in STRING : Value(s) \in STRING
  BY EnvType DEF Value
<1>2. \A x \in Resources : Bound(x) \in Resources
  BY <1>1 DEF Bound, Resources
<1> QED BY <1>2, DeclaredType DEF Targets

\* A run looks up only keys its map has, and operations are records of Ops.
LEMMA KeysCover ==
  \A x \in Targets : KeyOf(x) \in Keys /\ ProjectKey(x.project) \in Keys
BY DEF Keys

\* What a listing teaches keeps the resolved map a map.
LEMMA LearnType ==
  ASSUME TypeOK, NEW r \in Runs, NEW objs \in SUBSET remote, Learn(r, objs)
  PROVE  resolved' \in [Runs -> [Keys -> Uuids \cup {None}]]
<1> DEFINE found == {KeyOf(o) : o \in objs} \cap Keys
<1>1. PICK pick \in [found -> {o.uuid : o \in objs}] :
        resolved' = [resolved EXCEPT ![r] =
          [k \in Keys |-> IF k \in found THEN pick[k] ELSE resolved[r][k]]]
  BY DEF Learn, TypeOK
<1>2. {o.uuid : o \in objs} \subseteq Uuids
  BY DEF TypeOK, CoolifyTypeOK, Objects
<1>3. [k \in Keys |-> IF k \in found THEN pick[k] ELSE resolved[r][k]]
        \in [Keys -> Uuids \cup {None}]
  BY <1>1, <1>2 DEF TypeOK
<1> QED BY <1>1, <1>3 DEF TypeOK

\* The operation of a request is one of the model's operations.
LEMMA OpOfType == \A m \in Requests : OpOf(m) \in Ops
BY DEF Requests, OpOf, Ops

LEMMA IdempotencyKeyType == \A m \in Requests : IdempotencyKey(m) \in IdKeys
<1> SUFFICES ASSUME NEW m \in Requests PROVE IdempotencyKey(m) \in IdKeys
  OBVIOUS
<1>1. m.res \in Targets /\ m.res \in Resources
  BY TargetsType DEF Requests
<1>2. [kind |-> m.res.kind, name |-> m.res.name] \in [kind : Kinds, name : STRING]
  BY <1>1 DEF Resources
<1> QED BY <1>1, <1>2 DEF IdempotencyKey, IdKeys, Requests

\* A successful answer keeps the types of the server's bookkeeping.
LEMMA SucceedType ==
  ASSUME CoolifyTypeOK, NEW m \in net, NEW u \in Uuids \cup {None}, Succeed(m, u)
  PROVE  /\ net' \subseteq Requests
         /\ reply' \in [Runs -> Replies]
         /\ effects' \in [Runs -> SUBSET Ops]
         /\ seen' \subseteq [key : IdKeys, uuid : Uuids \cup {None}]
<1>1. m \in Requests /\ m.run \in Runs
  BY DEF CoolifyTypeOK, Requests
<1>2. [status |-> "ok", uuid |-> u] \in Replies
  BY DEF Replies
<1>3. net' \subseteq Requests /\ reply' \in [Runs -> Replies]
  BY <1>1, <1>2 DEF Succeed, Answer, CoolifyTypeOK
<1>4. effects' \in [Runs -> SUBSET Ops]
  BY <1>1, OpOfType DEF Succeed, CoolifyTypeOK
<1>5. seen' \subseteq [key : IdKeys, uuid : Uuids \cup {None}]
  BY <1>1, IdempotencyKeyType DEF Succeed, CoolifyTypeOK
<1> QED BY <1>3, <1>4, <1>5

LEMMA DisturbType == \A r : Disturb(r) /\ CoolifyTypeOK => foreign' \in [Runs -> BOOLEAN]
BY DEF Disturb, CoolifyTypeOK

\* The server keeps its types, whatever request it handles.
LEMMA HandleType ==
  ASSUME CoolifyTypeOK, NEW m \in net, Handle(m)
  PROVE  CoolifyTypeOK'
<1> USE CoolifyType
<1>0. m \in Requests /\ m.run \in Runs /\ m.res \in Resources
  BY TargetsType DEF CoolifyTypeOK, Requests
<1>1. CASE CreateObject(m)
  <2>1. issued + 1 \in Uuids /\ issued' \in 0 .. MaxObjects
    BY <1>1 DEF CreateObject, CoolifyTypeOK, Uuids
  <2>2. Parents(m) \subseteq Uuids \cup {None}
    BY DEF Parents, CoolifyTypeOK, Objects
  <2>3. \A q \in Uuids \cup {None} : Created(m, issued + 1, q) \in Objects
    BY <2>1, <1>0 DEF Created, Objects, Resources
  <2>4. remote' \subseteq Objects
    BY <1>1, <2>2, <2>3 DEF CreateObject, CoolifyTypeOK
  <2> QED BY <1>1, <2>1, <2>4, SucceedType, DisturbType DEF CreateObject, CoolifyTypeOK
<1>2. CASE ChangeObject(m)
  <2>1. \A o \in Objects : Changed(m, o) \in Objects
    BY DEF Changed, Objects
  <2>2. remote' \subseteq Objects
    BY <1>2, <2>1 DEF ChangeObject, Addressed, CoolifyTypeOK
  <2> QED BY <1>2, <2>2, SucceedType, DisturbType DEF ChangeObject, CoolifyTypeOK
<1>3. CASE RemoveObject(m)
  BY <1>3, SucceedType, DisturbType DEF RemoveObject, CoolifyTypeOK
<1>4. CASE AlreadyGone(m)
  BY <1>4, SucceedType DEF AlreadyGone, CoolifyTypeOK
<1>5. CASE ReplayAnswer(m)
  <2>1. \A s \in seen : s.uuid \in Uuids \cup {None}
    BY DEF CoolifyTypeOK
  <2> QED BY <1>5, <2>1, SucceedType DEF ReplayAnswer, CoolifyTypeOK
<1>6. CASE RefuseRequest(m)
  <2>1. [status |-> "refused", uuid |-> None] \in Replies
    BY DEF Replies
  <2> QED BY <1>6, <1>0, <2>1 DEF RefuseRequest, Answer, CoolifyTypeOK
<1> QED BY <1>1, <1>2, <1>3, <1>4, <1>5, <1>6 DEF Handle

\* Nobody at the dashboard makes an object the API could not list.
LEMMA DashboardType == CoolifyTypeOK /\ Dashboard => CoolifyTypeOK'
<1> SUFFICES ASSUME CoolifyTypeOK, Dashboard PROVE CoolifyTypeOK'
  OBVIOUS
<1>1. PICK o \in remote : DashboardDelete(o) \/ DashboardEdit(o)
  BY DEF Dashboard
<1>2. \A s \in {"drift", "stuck"} : [o EXCEPT !.spec = s] \in Objects
  BY DEF CoolifyTypeOK, Objects
<1>3. remote' \subseteq Objects
  BY <1>1, <1>2 DEF DashboardDelete, DashboardEdit, CoolifyTypeOK
<1>4. dash' \in 0 .. MaxDashboard
  BY CoolifyType DEF Dashboard, CoolifyTypeOK
<1> QED BY <1>3, <1>4 DEF Dashboard, CoolifyTypeOK

\* Sending a request and closing a connection keep the types.
LEMMA SendType ==
  ASSUME CoolifyTypeOK, NEW m \in Requests, Send(m)
  PROVE  /\ net' \subseteq Requests
         /\ waiting' \in [Runs -> SUBSET Requests]
         /\ reply' \in [Runs -> Replies]
BY DEF Send, CoolifyTypeOK, NoReply, Replies, Requests

LEMMA HangUpType ==
  ASSUME CoolifyTypeOK, NEW r \in Runs, HangUp(r)
  PROVE  waiting' \in [Runs -> SUBSET Requests] /\ reply' \in [Runs -> Replies]
BY DEF HangUp, CoolifyTypeOK, NoReply, Replies

\* A first try is a request.
LEMMA FirstTryType ==
  ASSUME TypeOK, NEW r \in Runs, NEW op \in Ops,
         NEW verb \in {"create", "update", "delete", "envs"},
         NEW at \in Uuids \cup {None}
  PROVE  FirstTry(r, op, verb, at) \in Requests
BY CoolifyType DEF FirstTry, Requests, Ops

\* The uuid a request needs is a uuid.
LEMMA AtType ==
  ASSUME TypeOK, NEW r \in Runs, NEW op \in Ops
  PROVE  At(r, op) \in Uuids \cup {None}
BY KeysCover DEF At, TypeOK, Ops

LEMMA LearnCreatedType ==
  ASSUME TypeOK, NEW r \in Runs, LearnCreated(r)
  PROVE  resolved' \in [Runs -> [Keys -> Uuids \cup {None}]]
<1>1. reply[r].uuid \in Uuids \cup {None}
  BY DEF TypeOK, CoolifyTypeOK, Replies
<1> QED BY <1>1 DEF LearnCreated, TypeOK

\* The steps that move a run on.
LEMMA GotoType ==
  ASSUME TypeOK, NEW r \in Runs, NEW to \in Active, Goto(r, to)
  PROVE  phase' \in [Runs -> Phases] /\ exit' \in [Runs -> 0 .. NoExit]
BY DEF TypeOK, Goto, Phases

LEMMA EndType ==
  ASSUME TypeOK, NEW r \in Runs, NEW code \in 0 .. 3, Skip(r, code) \/ Return(r, code)
  PROVE  phase' \in [Runs -> Phases] /\ exit' \in [Runs -> 0 .. NoExit]
<1>1. code \in 0 .. NoExit
  BY DEF NoExit
<1>2. "done" \in Phases /\ "skipped" \in Phases
  BY DEF Phases, Ended
<1> QED BY <1>1, <1>2 DEF TypeOK, Skip, Return, Phases

LEMMA FailureCodeType == \A r \in Runs : FailureCode(r) \in 0 .. 3
BY DEF FailureCode

-----------------------------------------------------------------------------
(* Type correctness.                                                       *)

\* Resolving keeps the types.
LEMMA ResolvingType ==
  ASSUME TypeOK, NEW r \in Runs,
         \/ ListProjects(r) \/ ListEnvironments(r) \/ ListServers(r)
         \/ ListApplications(r) \/ ListServices(r) \/ ScanServer(r)
  PROVE  TypeOK'
<1> DEFINE Uuid(objs) == {o.uuid : o \in objs}
<1>0. \A objs \in SUBSET remote : Uuid(objs) \subseteq Uuids
  BY DEF TypeOK, CoolifyTypeOK, Objects
<1>1. CASE ListProjects(r)
  <2> DEFINE projects == {o \in remote : o.kind = "Project"}
  <2>1. Learn(r, projects) /\ listing' = [listing EXCEPT ![r] = Uuid(projects)]
        /\ Goto(r, "envs")
    BY <1>1 DEF ListProjects
  <2>2. listing' \in [Runs -> SUBSET Uuids]
    BY <2>1, <1>0 DEF TypeOK
  <2>3. phase' \in [Runs -> Phases] /\ exit' \in [Runs -> 0 .. NoExit]
    BY <2>1, GotoType DEF Active, Reading
  <2>4. resolved' \in [Runs -> [Keys -> Uuids \cup {None}]]
    BY <2>1, LearnType
  <2> QED BY <1>1, <2>2, <2>3, <2>4 DEF ListProjects, TypeOK, CoolifyTypeOK, serverVars, engineVars
<1>2. CASE ListEnvironments(r)
  <2>1. PICK p \in listing[r] :
          /\ Learn(r, {o \in remote : o.kind = "Environment" /\ o.parent = p})
          /\ envRefs' = [envRefs EXCEPT ![r] =
               @ \cup Uuid({o \in remote : o.kind = "Environment" /\ o.parent = p})]
          /\ listing' = [listing EXCEPT ![r] = @ \ {p}]
    BY <1>2 DEF ListEnvironments
  <2> DEFINE envs == {o \in remote : o.kind = "Environment" /\ o.parent = p}
  <2>2. Uuid(envs) \subseteq Uuids
    BY <1>0
  <2> HIDE DEF Uuid
  <2>5. envRefs[r] \cup Uuid(envs) \in SUBSET Uuids
    BY <2>2 DEF TypeOK
  <2>6. envRefs' \in [Runs -> SUBSET Uuids]
    BY <2>1, <2>5 DEF TypeOK
  <2>4. listing' \in [Runs -> SUBSET Uuids]
    BY <2>1 DEF TypeOK
  <2>3. resolved' \in [Runs -> [Keys -> Uuids \cup {None}]]
    BY <2>1, LearnType
  <2> QED BY <1>2, <2>3, <2>4, <2>6 DEF ListEnvironments, TypeOK, CoolifyTypeOK, serverVars, engineVars
<1>3. CASE ListServers(r)
  <2>1. phase' \in [Runs -> Phases] /\ exit' \in [Runs -> 0 .. NoExit]
    BY <1>3, GotoType DEF ListServers, Active, Reading
  <2> QED BY <1>3, <2>1 DEF ListServers, TypeOK, CoolifyTypeOK, serverVars, engineVars
<1>4. CASE ListApplications(r) \/ ListServices(r)
  <2>1. PICK from \in {"apps", "services"}, kind \in Kinds, to \in {"services", "databases"} :
          ListChildren(r, from, kind, to)
    BY <1>4 DEF ListApplications, ListServices, Kinds
  <2>2. phase' \in [Runs -> Phases] /\ exit' \in [Runs -> 0 .. NoExit]
    BY <2>1, GotoType DEF ListChildren, Active, Reading
  <2>3. resolved' \in [Runs -> [Keys -> Uuids \cup {None}]]
    BY <2>1, LearnType DEF ListChildren
  <2> QED BY <2>1, <2>2, <2>3 DEF ListChildren, TypeOK, CoolifyTypeOK, serverVars, engineVars
<1>5. CASE ScanServer(r)
  <2>1. resolved' \in [Runs -> [Keys -> Uuids \cup {None}]]
    BY <1>5, LearnType DEF ScanServer
  <2> QED BY <1>5, <2>1 DEF ScanServer, TypeOK, CoolifyTypeOK, serverVars, engineVars
<1> QED BY <1>1, <1>2, <1>3, <1>4, <1>5

\* What a command wants is a set of targets.
LEMMA WantedType == \A c : Wanted(c) \subseteq Targets
<1>1. \A c : Selected(c) \subseteq Declared
  BY DEF Selected
<1>2. \A x \in Declared : x \in Targets /\ Bound(x) \in Targets
  BY DEF Targets
<1> QED BY <1>1, <1>2 DEF Wanted

\* Starting, planning and prompting keep the types.
LEMMA PlanningType ==
  ASSUME TypeOK, NEW r \in Runs,
         \/ Start(r) \/ Load(r) \/ Compare(r) \/ RefuseMove(r) \/ ReadFails(r)
         \/ Planned(r) \/ Answers(r)
  PROVE  TypeOK'
<1>1. CASE Start(r)
  <2>1. phase' \in [Runs -> Phases] /\ exit' \in [Runs -> 0 .. NoExit]
    BY <1>1, GotoType, EndType DEF Start, Active, Reading
  <2> QED BY <1>1, <2>1 DEF Start, TypeOK, CoolifyTypeOK, progressVars, engineVars
<1>2. CASE Load(r)
  <2>1. phase' \in [Runs -> Phases] /\ exit' \in [Runs -> 0 .. NoExit]
    BY <1>2, GotoType, EndType DEF Load, Active, Reading
  <2>2. Deletions(r) \subseteq Ops /\ Creations(r) \subseteq Ops
    BY WantedType DEF Deletions, Creations, Ops
  <2> DEFINE diffed == {x \in Wanted(cmd[r]) : x.kind \in Diffed /\ Resolved(r, x)}
  <2>4. diffed \subseteq Targets
    BY WantedType
  <2>3. plan' \in [Runs -> SUBSET Ops] /\ comparing' \in [Runs -> SUBSET Targets]
    <3>1. CASE InvalidSelection(cmd[r])
      BY <1>2, <3>1 DEF Load, TypeOK
    <3>2. CASE ~InvalidSelection(cmd[r])
      <4>1. plan' = [plan EXCEPT ![r] =
              IF cmd[r].mode = "destroy" THEN Deletions(r) ELSE Creations(r)]
        BY <1>2, <3>2 DEF Load
      <4>2. comparing' = [comparing EXCEPT ![r] =
              IF cmd[r].mode = "destroy" THEN {} ELSE diffed]
        BY <1>2, <3>2 DEF Load
      <4> HIDE DEF diffed
      <4>3. plan' \in [Runs -> SUBSET Ops]
        BY <4>1, <2>2 DEF TypeOK
      <4>4. comparing' \in [Runs -> SUBSET Targets]
        BY <4>2, <2>4 DEF TypeOK
      <4> QED BY <4>3, <4>4
    <3> QED BY <3>1, <3>2
  <2> QED BY <1>2, <2>1, <2>3 DEF Load, TypeOK, CoolifyTypeOK, serverVars
<1>3. CASE Compare(r)
  <2>1. \A x \in Targets : [verb |-> "update", res |-> x] \in Ops
    BY DEF Ops
  <2>2. plan' \in [Runs -> SUBSET Ops] /\ comparing' \in [Runs -> SUBSET Targets]
    BY <1>3, <2>1 DEF Compare, TypeOK
  <2> QED BY <1>3, <2>2 DEF Compare, TypeOK, CoolifyTypeOK, serverVars
<1>4. CASE RefuseMove(r) \/ ReadFails(r)
  <2>1. phase' \in [Runs -> Phases] /\ exit' \in [Runs -> 0 .. NoExit]
    BY <1>4, EndType DEF RefuseMove, ReadFails
  <2> QED BY <1>4, <2>1
      DEF RefuseMove, ReadFails, TypeOK, CoolifyTypeOK, serverVars, progressVars, engineVars
<1>5. CASE Planned(r) \/ Answers(r)
  <2>1. phase' \in [Runs -> Phases] /\ exit' \in [Runs -> 0 .. NoExit]
    BY <1>5, GotoType, EndType DEF Planned, Answers, Active, Executing
  <2> QED BY <1>5, <2>1
      DEF Planned, Answers, TypeOK, CoolifyTypeOK, serverVars, progressVars, engineVars
<1> QED BY <1>1, <1>2, <1>3, <1>4, <1>5

\* The engine keeps the types.
LEMMA EngineType ==
  ASSUME TypeOK, NEW r \in Runs,
         \/ Begin(r) \/ Unresolvable(r) \/ Acknowledge(r) \/ SendVariables(r)
         \/ Rejected(r) \/ Retry(r) \/ GiveUp(r) \/ Record(r) \/ RecordFails(r)
         \/ Finish(r) \/ Crash(r)
  PROVE  TypeOK'
<1>0. CoolifyTypeOK
  BY DEF TypeOK
<1>1. CASE Begin(r)
  <2>1. PICK op \in plan[r] \ audited[r] :
          cur' = [cur EXCEPT ![r] = {op}] /\ Send(FirstTry(r, op, op.verb, At(r, op)))
    BY <1>1 DEF Begin, Foremost
  <2>2. op \in Ops /\ op.verb \in {"create", "update", "delete", "envs"}
    BY DEF TypeOK, Ops
  <2>3. FirstTry(r, op, op.verb, At(r, op)) \in Requests
    BY <2>2, AtType, FirstTryType
  <2>4. cur' \in [Runs -> SUBSET Ops]
    BY <2>1, <2>2 DEF TypeOK
  <2>5. phase' \in [Runs -> Phases] /\ exit' \in [Runs -> 0 .. NoExit]
    BY <1>1, GotoType DEF Begin, Active, Executing
  <2> QED BY <1>0, <1>1, <2>1, <2>3, <2>4, <2>5, SendType
      DEF Begin, TypeOK, CoolifyTypeOK, progressVars
<1>2. CASE Unresolvable(r)
  <2>1. cur' \in [Runs -> SUBSET Ops]
    BY <1>2 DEF Unresolvable, Foremost, TypeOK
  <2>2. phase' \in [Runs -> Phases] /\ exit' \in [Runs -> 0 .. NoExit]
    BY <1>2, EndType, FailureCodeType DEF Unresolvable
  <2> QED BY <1>2, <2>1, <2>2 DEF Unresolvable, TypeOK, CoolifyTypeOK, serverVars, progressVars
<1>3. CASE Acknowledge(r)
  <2>1. phase' \in [Runs -> Phases] /\ exit' \in [Runs -> 0 .. NoExit]
    BY <1>3, GotoType DEF Acknowledge, Active, Executing
  <2> QED BY <1>0, <1>3, <2>1, HangUpType, LearnCreatedType
      DEF Acknowledge, TypeOK, CoolifyTypeOK, engineVars
<1>4. CASE SendVariables(r)
  <2>1. PICK op \in cur[r] : Send(FirstTry(r, op, "envs", reply[r].uuid))
    BY <1>4 DEF SendVariables
  <2>2. op \in Ops /\ reply[r].uuid \in Uuids \cup {None}
    BY DEF TypeOK, CoolifyTypeOK, Replies
  <2>3. FirstTry(r, op, "envs", reply[r].uuid) \in Requests
    BY <2>2, FirstTryType
  <2> QED BY <1>0, <1>4, <2>1, <2>3, SendType, LearnCreatedType
      DEF SendVariables, TypeOK, CoolifyTypeOK, engineVars
<1>5. CASE Rejected(r) \/ GiveUp(r)
  <2>1. phase' \in [Runs -> Phases] /\ exit' \in [Runs -> 0 .. NoExit]
    BY <1>5, EndType, FailureCodeType DEF Rejected, GiveUp
  <2> QED BY <1>0, <1>5, <2>1, HangUpType
      DEF Rejected, GiveUp, TypeOK, CoolifyTypeOK, progressVars, engineVars
<1>6. CASE Retry(r)
  <2>1. PICK m \in waiting[r] : m.try < MaxTries /\ Send([m EXCEPT !.try = @ + 1])
    BY <1>6 DEF Retry
  <2>2. [m EXCEPT !.try = @ + 1] \in Requests
    BY <1>0, <2>1, CoolifyType DEF CoolifyTypeOK, Requests
  <2> QED BY <1>0, <1>6, <2>1, <2>2, SendType
      DEF Retry, TypeOK, CoolifyTypeOK, runVars, progressVars, engineVars
<1>7. CASE Record(r)
  <2>1. phase' \in [Runs -> Phases] /\ exit' \in [Runs -> 0 .. NoExit]
    BY <1>7, GotoType DEF Record, Active, Executing
  <2>2. audited' \in [Runs -> SUBSET Ops]
    BY <1>7 DEF Record, TypeOK
  <2> QED BY <1>7, <2>1, <2>2 DEF Record, TypeOK, CoolifyTypeOK, serverVars, progressVars
<1>8. CASE RecordFails(r) \/ Finish(r)
  <2>1. phase' \in [Runs -> Phases] /\ exit' \in [Runs -> 0 .. NoExit]
    BY <1>8, EndType, FailureCodeType DEF RecordFails, Finish
  <2> QED BY <1>8, <2>1
      DEF RecordFails, Finish, TypeOK, CoolifyTypeOK, serverVars, progressVars, engineVars
<1>9. CASE Crash(r)
  <2>1. phase' \in [Runs -> Phases] /\ exit' \in [Runs -> 0 .. NoExit]
    BY <1>9, EndType DEF Crash, Killed
  <2> QED BY <1>0, <1>9, <2>1, HangUpType
      DEF Crash, TypeOK, CoolifyTypeOK, progressVars, engineVars
<1> QED BY <1>1, <1>2, <1>3, <1>4, <1>5, <1>6, <1>7, <1>8, <1>9

\* The initial state has the types.
LEMMA InitType == Init => TypeOK
<1> SUFFICES ASSUME Init PROVE TypeOK
  OBVIOUS
<1>1. remote \subseteq Objects /\ issued \in 0 .. MaxObjects
  <2>1. IsFiniteSet(remote) /\ Cardinality(remote) <= MaxObjects /\ issued = Cardinality(remote)
        /\ remote \subseteq Objects
    BY SeedsType DEF Init, CoolifyInit
  <2>2. Cardinality(remote) \in Nat
    BY <2>1, FS_CardinalityType
  <2> QED BY <2>1, <2>2, CoolifyType
<1>2. NoReply \in Replies
  BY DEF NoReply, Replies
<1>3. CoolifyTypeOK
  BY <1>1, <1>2, CoolifyType DEF Init, CoolifyInit, CoolifyTypeOK
<1> QED BY <1>3, ScriptsType DEF Init, TypeOK, Phases, NoExit

\* Every step keeps the types.
LEMMA NextType == TypeOK /\ [Next]_vars => TypeOK'
<1> SUFFICES ASSUME TypeOK, [Next]_vars PROVE TypeOK'
  OBVIOUS
<1>1. CASE Next
  <2>1. ASSUME NEW r \in Runs, Start(r) \/ Proceed(r) \/ Answers(r) \/ Crash(r)
        PROVE  TypeOK'
    BY <2>1, ResolvingType, PlanningType, EngineType DEF Proceed
  <2>2. CASE Serve /\ UNCHANGED runVars
    <3>1. CoolifyTypeOK'
      BY <2>2, HandleType DEF Serve, TypeOK
    <3> QED BY <2>2, <3>1 DEF TypeOK, runVars, progressVars, engineVars
  <2>3. CASE Dashboard /\ UNCHANGED runVars
    <3>1. CoolifyTypeOK'
      BY <2>3, DashboardType DEF TypeOK
    <3> QED BY <2>3, <3>1 DEF TypeOK, runVars, progressVars, engineVars
  <2> QED BY <1>1, <2>1, <2>2, <2>3 DEF Next
<1>2. CASE UNCHANGED vars
  BY <1>2 DEF vars, TypeOK, CoolifyTypeOK, serverVars, runVars, progressVars, engineVars
<1> QED BY <1>1, <1>2

\* In every reachable state every variable has its type: the requests a run
\* sends, the uuids it learns and the plan it builds are of the kinds the API
\* knows, whatever the manifest.
THEOREM TypeCorrect == Spec => []TypeOK
BY InitType, NextType, PTL DEF Spec
-----------------------------------------------------------------------------
(* The inductive invariant.                                                *)

\* A resource stands after what it depends on in the order of node ids.
LEMMA DependsRank ==
  \A x, y \in Targets : DependsOn(x, y) =>
    /\ Position(y.kind) \in Nat /\ Position(x.kind) \in Nat
    /\ Position(y.kind) < Position(x.kind)
<1> SUFFICES ASSUME NEW x \in Targets, NEW y \in Targets, DependsOn(x, y)
             PROVE  /\ Position(y.kind) \in Nat /\ Position(x.kind) \in Nat
                    /\ Position(y.kind) < Position(x.kind)
  OBVIOUS
<1>1. x.kind \in Kinds /\ y.kind \in Kinds
  BY TargetsType DEF Resources
<1> QED BY <1>1 DEF DependsOn, Position, KindRank, Kinds

\* orderOps never starts an operation while one that precedes it is left.
LEMMA ForemostFirst ==
  ASSUME NEW S \in SUBSET Ops, NEW op \in Foremost(S), NEW q \in S
  PROVE  ~Precedes(q, op)
<1>1. op \in Ops /\ op.res \in Targets /\ q.res \in Targets
  BY DEF Foremost, Ops
<1>2. CASE op.verb = "delete"
  <2>1. Position(q.res.kind) <= Position(op.res.kind)
    BY <1>2 DEF Foremost
  <2> QED BY <1>1, <1>2, <2>1, DependsRank DEF Precedes
<1>3. CASE op.verb # "delete"
  <2>1. Position(op.res.kind) <= Position(q.res.kind)
    BY <1>3 DEF Foremost
  <2> QED BY <1>1, <1>3, <2>1, DependsRank DEF Precedes
<1> QED BY <1>2, <1>3

LEMMA InitInv == Init => Inv
<1> SUFFICES ASSUME Init PROVE Inv
  OBVIOUS
<1>1. TypeOK
  BY InitType
<1>2. OneAtATime /\ Accounted /\ InOrder /\ ExitCodeTold /\ Asked
  BY DEF Init, CoolifyInit, NoReply, OneAtATime, Accounted, InOrder, ExitCodeTold, Asked, Executing
<1> QED BY <1>1, <1>2 DEF Inv

\* Steps before the engine: the run has started nothing, and starts nothing.
LEMMA PlanningFrame ==
  ASSUME TypeOK, NEW r \in Runs,
         \/ Start(r) \/ ListProjects(r) \/ ListEnvironments(r) \/ ListServers(r)
         \/ ListApplications(r) \/ ListServices(r) \/ ScanServer(r)
         \/ Load(r) \/ Compare(r) \/ RefuseMove(r) \/ ReadFails(r)
         \/ Planned(r) \/ Answers(r)
  PROVE  /\ UNCHANGED <<net, waiting, reply, effects, cmd, cur, audited>>
         /\ \A q \in Runs \ {r} : /\ phase'[q] = phase[q] /\ exit'[q] = exit[q]
                                  /\ plan'[q] = plan[q] /\ comparing'[q] = comparing[q]
         /\ phase[r] \notin Executing \cup Ended
         /\ phase'[r] \in Phases \ {"sent", "audit", "done"}
<1> USE DEF TypeOK, Goto, Skip, Phases, Active, Reading, Executing, Ended,
            serverVars, progressVars, engineVars
<1>1. CASE Start(r)
  BY <1>1 DEF Start
<1>2. CASE \/ ListProjects(r) \/ ListEnvironments(r) \/ ListServers(r) \/ ScanServer(r)
  BY <1>2 DEF ListProjects, ListEnvironments, ListServers, ScanServer
<1>3. CASE ListApplications(r) \/ ListServices(r)
  BY <1>3 DEF ListApplications, ListServices, ListChildren
<1>4. CASE Load(r)
  BY <1>4 DEF Load
<1>5. CASE Compare(r)
  BY <1>5 DEF Compare
<1>6. CASE RefuseMove(r) \/ ReadFails(r)
  BY <1>6 DEF RefuseMove, ReadFails
<1>7. CASE Planned(r) \/ Answers(r)
  BY <1>7 DEF Planned, Answers
<1> QED BY <1>1, <1>2, <1>3, <1>4, <1>5, <1>6, <1>7

\* The plan a run builds is about what it was asked to do.
LEMMA PlanningAsked ==
  ASSUME TypeOK, Asked, NEW r \in Runs,
         \/ Start(r) \/ ListProjects(r) \/ ListEnvironments(r) \/ ListServers(r)
         \/ ListApplications(r) \/ ListServices(r) \/ ScanServer(r)
         \/ Load(r) \/ Compare(r) \/ RefuseMove(r) \/ ReadFails(r)
         \/ Planned(r) \/ Answers(r)
  PROVE  Asked'
<1> DEFINE About(S) ==
      \A op \in S : op.res \in Wanted(cmd[r]) /\ (op.verb = "delete" <=> cmd[r].mode = "destroy")
<1>0. /\ UNCHANGED cmd
      /\ \A q \in Runs \ {r} : /\ phase'[q] = phase[q]
                               /\ plan'[q] = plan[q] /\ comparing'[q] = comparing[q]
  BY PlanningFrame
<1>1. /\ phase'[r] \notin {"idle", "skipped"} => ~Refused(cmd[r])
      /\ phase'[r] \in Executing \cup {"done", "confirm"} => ~cmd[r].dry
  <2> USE DEF TypeOK, Asked, Goto, Skip, Phases, Active, Reading, Executing, Ended
  <2>1. CASE Start(r)
    BY <2>1 DEF Start
  <2>2. CASE \/ ListProjects(r) \/ ListEnvironments(r) \/ ListServers(r) \/ ScanServer(r)
    BY <2>2 DEF ListProjects, ListEnvironments, ListServers, ScanServer
  <2>3. CASE ListApplications(r) \/ ListServices(r)
    BY <2>3 DEF ListApplications, ListServices, ListChildren
  <2>4. CASE Load(r)
    BY <2>4 DEF Load
  <2>5. CASE Compare(r)
    BY <2>5 DEF Compare
  <2>6. CASE RefuseMove(r) \/ ReadFails(r)
    BY <2>6 DEF RefuseMove, ReadFails
  <2>7. CASE Planned(r) \/ Answers(r)
    BY <2>7 DEF Planned, Answers
  <2> QED BY <2>1, <2>2, <2>3, <2>4, <2>5, <2>6, <2>7
<1>2. /\ comparing'[r] \subseteq Wanted(cmd[r])
      /\ comparing'[r] # {} => cmd[r].mode # "destroy"
      /\ About(plan'[r])
  <2>0. /\ comparing[r] \subseteq Wanted(cmd[r]) /\ About(plan[r])
        /\ comparing[r] # {} => cmd[r].mode # "destroy"
    BY DEF Asked
  <2>1. CASE Load(r)
    <3>1. CASE InvalidSelection(cmd[r])
      BY <2>0, <2>1, <3>1 DEF Load
    <3>2. CASE ~InvalidSelection(cmd[r]) /\ cmd[r].mode = "destroy"
      <4>1. plan'[r] = Deletions(r) /\ comparing'[r] = {}
        BY <2>1, <3>2 DEF Load, TypeOK
      <4> QED BY <3>2, <4>1 DEF Deletions
    <3>3. CASE ~InvalidSelection(cmd[r]) /\ cmd[r].mode # "destroy"
      <4>1. plan'[r] = Creations(r)
        BY <2>1, <3>3 DEF Load, TypeOK
      <4>2. comparing'[r] = {x \in Wanted(cmd[r]) : x.kind \in Diffed /\ Resolved(r, x)}
        BY <2>1, <3>3 DEF Load, TypeOK
      <4> QED BY <3>3, <4>1, <4>2 DEF Creations
    <3> QED BY <3>1, <3>2, <3>3
  <2>2. CASE Compare(r)
    <3>1. PICK x \in comparing[r] :
            /\ plan'[r] \subseteq plan[r] \cup {[verb |-> "update", res |-> x]}
            /\ comparing'[r] = comparing[r] \ {x}
      BY <2>2 DEF Compare, TypeOK
    <3> QED BY <2>0, <3>1
  <2>3. CASE UNCHANGED <<plan, comparing>>
    BY <2>0, <2>3
  <2>4. CASE ~Load(r) /\ ~Compare(r)
    BY <2>3, <2>4 DEF Start, ListProjects, ListEnvironments, ListServers, ScanServer,
       ListApplications, ListServices, ListChildren, RefuseMove, ReadFails, Planned, Answers,
       progressVars, engineVars
  <2> QED BY <2>1, <2>2, <2>4
<1> HIDE DEF About
<1>3. ASSUME NEW q \in Runs
      PROVE  /\ phase'[q] \notin {"idle", "skipped"} => ~Refused(cmd[q])
             /\ phase'[q] \in Executing \cup {"done", "confirm"} => ~cmd[q].dry
             /\ comparing'[q] \subseteq Wanted(cmd[q])
             /\ comparing'[q] # {} => cmd[q].mode # "destroy"
             /\ \A op \in plan'[q] :
                  op.res \in Wanted(cmd[q]) /\ (op.verb = "delete" <=> cmd[q].mode = "destroy")
  <2>1. CASE q = r
    BY <1>1, <1>2, <2>1 DEF About
  <2>2. CASE q # r
    BY <1>0, <2>2 DEF Asked
  <2> QED BY <2>1, <2>2
<1> QED BY <1>0, <1>3 DEF Asked

\* Steps before the engine keep the invariant.
LEMMA PlanningInv ==
  ASSUME Inv, TypeOK', NEW r \in Runs,
         \/ Start(r) \/ ListProjects(r) \/ ListEnvironments(r) \/ ListServers(r)
         \/ ListApplications(r) \/ ListServices(r) \/ ScanServer(r)
         \/ Load(r) \/ Compare(r) \/ RefuseMove(r) \/ ReadFails(r)
         \/ Planned(r) \/ Answers(r)
  PROVE  Inv'
<1>0. TypeOK
  BY DEF Inv
<1>1. /\ UNCHANGED <<net, waiting, reply, effects, cmd, cur, audited>>
      /\ \A q \in Runs \ {r} : /\ phase'[q] = phase[q] /\ exit'[q] = exit[q]
                               /\ plan'[q] = plan[q] /\ comparing'[q] = comparing[q]
      /\ phase[r] \notin Executing \cup Ended
      /\ phase'[r] \in Phases \ {"sent", "audit", "done"}
  BY <1>0, PlanningFrame
<1>2. cur[r] = {} /\ audited[r] = {} /\ phase[r] \notin {"sent", "audit", "done"}
  BY <1>1 DEF Inv, OneAtATime, Executing, Ended
<1>3. OneAtATime'
  BY <1>1, <1>2 DEF Inv, OneAtATime
<1>4. Accounted'
  BY <1>1, <1>2 DEF Inv, Accounted
<1>5. InOrder'
  BY <1>1, <1>2 DEF Inv, InOrder
<1>6. ExitCodeTold'
  BY <1>1 DEF Inv, ExitCodeTold
<1>7. Asked'
  BY <1>0, PlanningAsked DEF Inv
<1> QED BY <1>3, <1>4, <1>5, <1>6, <1>7 DEF Inv

\* What handling a request does to the bookkeeping: at most the operation of
\* the request is carried out, and a success is told only after it.
LEMMA HandleFrame ==
  ASSUME TypeOK, NEW m \in net, Handle(m)
  PROVE  /\ m.run \in Runs /\ OpOf(m) \in Ops
         /\ net' \subseteq net
         /\ UNCHANGED waiting
         /\ \A q \in Runs : effects[q] \subseteq effects'[q]
         /\ \A q \in Runs : effects'[q] \subseteq effects[q] \cup {OpOf(m)}
         /\ \A q \in Runs \ {m.run} : effects'[q] = effects[q] /\ reply'[q] = reply[q]
         /\ m \notin waiting[m.run] => reply'[m.run] = reply[m.run]
         /\ reply'[m.run].status = "ok" =>
              reply'[m.run] = reply[m.run] \/ OpOf(m) \in effects'[m.run]
<1>0. m \in Requests /\ m.run \in Runs /\ OpOf(m) \in Ops
  BY OpOfType DEF TypeOK, CoolifyTypeOK, Requests
<1>1. CASE \E u \in Uuids \cup {None} : Succeed(m, u) /\ UNCHANGED waiting
  BY <1>0, <1>1 DEF Succeed, Answer, TypeOK, CoolifyTypeOK
<1>2. CASE RefuseRequest(m)
  BY <1>0, <1>2 DEF RefuseRequest, Answer, TypeOK, CoolifyTypeOK
<1>3. CASE CreateObject(m)
  <2>1. issued + 1 \in Uuids
    BY <1>3, CoolifyType DEF CreateObject, TypeOK, CoolifyTypeOK, Uuids
  <2> QED BY <1>1, <1>3, <2>1 DEF CreateObject
<1>4. CASE ChangeObject(m) \/ RemoveObject(m) \/ AlreadyGone(m)
  BY <1>1, <1>4 DEF ChangeObject, RemoveObject, AlreadyGone
<1>5. CASE ReplayAnswer(m)
  <2>1. \A s \in seen : s.uuid \in Uuids \cup {None}
    BY DEF TypeOK, CoolifyTypeOK
  <2> QED BY <1>1, <1>5, <2>1 DEF ReplayAnswer
<1> QED BY <1>2, <1>3, <1>4, <1>5 DEF Handle

\* The server keeps the invariant, whatever request it handles and however
\* late: it is the request of an operation that is audited or current.
LEMMA ServeInv ==
  ASSUME Inv, TypeOK', Serve, UNCHANGED runVars
  PROVE  Inv'
<1>1. PICK m \in net : Handle(m)
  BY DEF Serve
<1>2. /\ m.run \in Runs /\ OpOf(m) \in Ops
      /\ net' \subseteq net
      /\ UNCHANGED waiting
      /\ \A q \in Runs : effects[q] \subseteq effects'[q]
      /\ \A q \in Runs : effects'[q] \subseteq effects[q] \cup {OpOf(m)}
      /\ \A q \in Runs \ {m.run} : effects'[q] = effects[q] /\ reply'[q] = reply[q]
      /\ m \notin waiting[m.run] => reply'[m.run] = reply[m.run]
      /\ reply'[m.run].status = "ok" =>
           reply'[m.run] = reply[m.run] \/ OpOf(m) \in effects'[m.run]
  BY <1>1, HandleFrame DEF Inv
<1>3. UNCHANGED <<phase, cmd, comparing, plan, cur, audited, exit>>
  BY DEF runVars, progressVars, engineVars
<1>4. OneAtATime' /\ InOrder' /\ ExitCodeTold' /\ Asked'
  BY <1>3 DEF Inv, OneAtATime, InOrder, ExitCodeTold, Asked
<1>5. Accounted'
  <2>1. \A n \in net' : OpOf(n) \in audited[n.run] \cup cur[n.run]
    BY <1>2 DEF Inv, Accounted
  <2>2. ASSUME NEW q \in Runs
        PROVE  /\ \A n \in waiting[q] : n.run = q /\ OpOf(n) \in cur[q]
               /\ effects'[q] \subseteq audited[q] \cup cur[q]
               /\ audited[q] \subseteq effects'[q]
               /\ phase[q] # "sent" => waiting[q] = {} /\ reply'[q].status # "ok"
               /\ phase[q] = "audit" \/ reply'[q].status = "ok" => cur[q] \subseteq effects'[q]
    <3>1. \A n \in waiting[q] : n.run = q /\ OpOf(n) \in cur[q]
      BY DEF Inv, Accounted
    <3>2. effects'[q] \subseteq audited[q] \cup cur[q]
      BY <1>1, <1>2 DEF Inv, Accounted
    <3>3. audited[q] \subseteq effects'[q]
      BY <1>2 DEF Inv, Accounted
    <3>4. phase[q] # "sent" => waiting[q] = {} /\ reply'[q].status # "ok"
      BY <1>2 DEF Inv, Accounted
    <3>5. phase[q] = "audit" \/ reply'[q].status = "ok" => cur[q] \subseteq effects'[q]
      <4>1. CASE reply'[q] = reply[q]
        BY <1>2, <4>1 DEF Inv, Accounted
      <4>2. CASE reply'[q] # reply[q]
        <5>1. q = m.run /\ m \in waiting[q]
          BY <1>2, <4>2
        <5>2. OpOf(m) \in cur[q] /\ \A a \in cur[q] : a = OpOf(m)
          BY <3>1, <5>1 DEF Inv, OneAtATime
        <5>3. phase[q] # "audit"
          BY <5>1 DEF Inv, Accounted
        <5> QED BY <1>2, <4>2, <5>1, <5>2, <5>3
      <4> QED BY <4>1, <4>2
    <3> QED BY <3>1, <3>2, <3>3, <3>4, <3>5
  <2> QED BY <1>2, <1>3, <2>1, <2>2 DEF Accounted
<1> QED BY <1>4, <1>5 DEF Inv

\* Changes made at the dashboard leave the bookkeeping alone.
LEMMA StutterInv ==
  ASSUME Inv, TypeOK',
         UNCHANGED <<phase, cmd, comparing, plan, cur, audited, exit,
                     net, waiting, reply, effects>>
  PROVE  Inv'
BY DEF Inv, OneAtATime, Accounted, InOrder, ExitCodeTold, Asked

\* The engine starts an operation: one that is planned, not audited, and
\* preceded by nothing that is left.
LEMMA BeginInv ==
  ASSUME Inv, TypeOK', NEW r \in Runs, Begin(r)
  PROVE  Inv'
<1>1. PICK op \in Foremost(plan[r] \ audited[r]) :
        cur' = [cur EXCEPT ![r] = {op}] /\ Send(FirstTry(r, op, op.verb, At(r, op)))
  BY DEF Begin
<1> DEFINE m == FirstTry(r, op, op.verb, At(r, op))
<1>2. op \in plan[r] \ audited[r] /\ op \in Ops
  BY <1>1 DEF Foremost, Inv, TypeOK
<1>3. m.run = r /\ OpOf(m) = op
  BY <1>2 DEF FirstTry, OpOf, Ops
<1>4. /\ net' = net \cup {m} /\ waiting' = [waiting EXCEPT ![r] = {m}]
      /\ reply' = [reply EXCEPT ![r] = NoReply]
  BY <1>1, <1>3 DEF Send
<1>5. /\ phase[r] = "engine" /\ phase' = [phase EXCEPT ![r] = "sent"]
      /\ UNCHANGED <<effects, cmd, comparing, plan, audited, exit>>
  BY DEF Begin, Goto, progressVars
<1> HIDE DEF m
<1>6. cur[r] \subseteq audited[r]
  BY <1>5 DEF Inv, OneAtATime
<1>7. OneAtATime'
  BY <1>1, <1>2, <1>5 DEF Inv, OneAtATime, TypeOK, Executing
<1>8. Accounted'
  <2>1. \A n \in net' : OpOf(n) \in audited'[n.run] \cup cur'[n.run]
    <3>1. OpOf(m) \in cur'[m.run]
      BY <1>1, <1>3 DEF Inv, TypeOK
    <3>2. ASSUME NEW n \in net PROVE OpOf(n) \in audited'[n.run] \cup cur'[n.run]
      BY <1>1, <1>5, <1>6 DEF Inv, Accounted, TypeOK, CoolifyTypeOK
    <3> QED BY <1>4, <3>1, <3>2
  <2>2. ASSUME NEW q \in Runs
        PROVE  /\ \A n \in waiting'[q] : n.run = q /\ OpOf(n) \in cur'[q]
               /\ effects'[q] \subseteq audited'[q] \cup cur'[q]
               /\ audited'[q] \subseteq effects'[q]
               /\ phase'[q] # "sent" => waiting'[q] = {} /\ reply'[q].status # "ok"
               /\ phase'[q] = "audit" \/ reply'[q].status = "ok" => cur'[q] \subseteq effects'[q]
    <3>1. CASE q = r
      BY <1>1, <1>3, <1>4, <1>5, <1>6, <3>1
         DEF Inv, Accounted, TypeOK, CoolifyTypeOK, NoReply
    <3>2. CASE q # r
      BY <1>1, <1>4, <1>5, <3>2 DEF Inv, Accounted, TypeOK, CoolifyTypeOK
    <3> QED BY <3>1, <3>2
  <2> QED BY <2>1, <2>2 DEF Accounted
<1>9. InOrder'
  <2>1. plan[r] \ audited[r] \in SUBSET Ops
    BY DEF Inv, TypeOK
  <2>2. \A p \in plan[r] : Precedes(p, op) => p \in audited[r]
    BY <1>1, <2>1, ForemostFirst
  <2>3. \A a \in cur'[r] : a = op
    BY <1>1 DEF Inv, TypeOK
  <2>4. \A q \in Runs : q # r => cur'[q] = cur[q]
    BY <1>1 DEF Inv, TypeOK
  <2> QED BY <1>5, <2>2, <2>3, <2>4 DEF Inv, InOrder
<1>10. ExitCodeTold' /\ Asked'
  BY <1>5 DEF Inv, ExitCodeTold, Asked, TypeOK, Executing
<1> QED BY <1>7, <1>8, <1>9, <1>10 DEF Inv

\* The engine stops at an operation it cannot send.
LEMMA UnresolvableInv ==
  ASSUME Inv, TypeOK', NEW r \in Runs, Unresolvable(r)
  PROVE  Inv'
<1>1. PICK op \in Foremost(plan[r] \ audited[r]) : cur' = [cur EXCEPT ![r] = {op}]
  BY DEF Unresolvable
<1>2. op \in plan[r] \ audited[r]
  BY <1>1 DEF Foremost
<1>3. /\ phase[r] = "engine" /\ phase' = [phase EXCEPT ![r] = "done"]
      /\ exit' = [exit EXCEPT ![r] = FailureCode(r)]
      /\ UNCHANGED <<net, waiting, reply, effects, cmd, comparing, plan, audited>>
  BY DEF Unresolvable, Return, serverVars, progressVars
<1>4. cur[r] \subseteq audited[r]
  BY <1>3 DEF Inv, OneAtATime
<1>5. OneAtATime'
  BY <1>1, <1>2, <1>3 DEF Inv, OneAtATime, TypeOK, Executing
<1>6. Accounted'
  BY <1>1, <1>3, <1>4 DEF Inv, Accounted, TypeOK, CoolifyTypeOK
<1>7. InOrder'
  <2>1. plan[r] \ audited[r] \in SUBSET Ops
    BY DEF Inv, TypeOK
  <2>2. \A p \in plan[r] : Precedes(p, op) => p \in audited[r]
    BY <1>1, <2>1, ForemostFirst
  <2> QED BY <1>1, <1>3, <2>2 DEF Inv, InOrder, TypeOK
<1>8. ExitCodeTold'
  BY <1>2, <1>3 DEF Inv, ExitCodeTold, FailureCode, TypeOK
<1>9. Asked'
  BY <1>3 DEF Inv, Asked, TypeOK, Executing
<1> QED BY <1>5, <1>6, <1>7, <1>8, <1>9 DEF Inv

\* An operation the engine is at is planned and not audited.
LEMMA CurrentPending ==
  ASSUME Inv, NEW r \in Runs, phase[r] \in {"sent", "audit"}
  PROVE  plan[r] # {} /\ audited[r] # plan[r]
BY DEF Inv, OneAtATime

\* The engine returns an error while it is at an operation.
LEMMA FailInv ==
  ASSUME Inv, TypeOK', NEW r \in Runs, Rejected(r) \/ GiveUp(r) \/ RecordFails(r)
  PROVE  Inv'
<1>1. /\ phase[r] \in {"sent", "audit"}
      /\ phase' = [phase EXCEPT ![r] = "done"]
      /\ exit' = [exit EXCEPT ![r] = FailureCode(r)]
      /\ UNCHANGED <<net, effects, cmd, comparing, plan, cur, audited>>
  BY DEF Rejected, GiveUp, RecordFails, Return, serverVars, progressVars, engineVars
<1>2. HangUp(r) \/ (phase[r] = "audit" /\ UNCHANGED <<waiting, reply>>)
  BY DEF Rejected, GiveUp, RecordFails, serverVars
<1>3. /\ waiting'[r] = {} /\ reply'[r].status # "ok"
      /\ \A q \in Runs \ {r} : waiting'[q] = waiting[q] /\ reply'[q] = reply[q]
  BY <1>2 DEF HangUp, NoReply, Inv, Accounted, TypeOK, CoolifyTypeOK
<1>4. OneAtATime' /\ InOrder'
  BY <1>1 DEF Inv, OneAtATime, InOrder, TypeOK, Executing
<1>5. Accounted'
  <2>1. ASSUME NEW q \in Runs
        PROVE  /\ \A n \in waiting'[q] : n.run = q /\ OpOf(n) \in cur[q]
               /\ phase'[q] # "sent" => waiting'[q] = {} /\ reply'[q].status # "ok"
               /\ phase'[q] = "audit" \/ reply'[q].status = "ok" => cur[q] \subseteq effects[q]
    <3>1. CASE q = r
      BY <1>1, <1>3, <3>1 DEF Inv, TypeOK
    <3>2. CASE q # r
      BY <1>1, <1>3, <3>2 DEF Inv, Accounted, TypeOK
    <3> QED BY <3>1, <3>2
  <2> QED BY <1>1, <2>1 DEF Inv, Accounted
<1>6. ExitCodeTold'
  <2>1. plan[r] # {} /\ audited[r] # plan[r]
    BY <1>1, CurrentPending
  <2> QED BY <1>1, <2>1 DEF Inv, ExitCodeTold, FailureCode, TypeOK
<1>7. Asked'
  BY <1>1 DEF Inv, Asked, TypeOK, Executing
<1> QED BY <1>4, <1>5, <1>6, <1>7 DEF Inv

\* Sending opens one connection and puts one request on the network.
LEMMA SendFrame ==
  ASSUME TypeOK, NEW r \in Runs, NEW m, m.run = r, Send(m)
  PROVE  /\ net' = net \cup {m} /\ waiting'[r] = {m} /\ reply'[r].status # "ok"
         /\ \A q \in Runs \ {r} : waiting'[q] = waiting[q] /\ reply'[q] = reply[q]
BY DEF Send, NoReply, TypeOK, CoolifyTypeOK

\* The server's answer is taken, or a second call is sent, for the same operation.
LEMMA AnsweredInv ==
  ASSUME Inv, TypeOK', NEW r \in Runs,
         Acknowledge(r) \/ SendVariables(r) \/ Retry(r)
  PROVE  Inv'
<1>1. /\ phase[r] = "sent" /\ phase' \in {phase, [phase EXCEPT ![r] = "audit"]}
      /\ UNCHANGED <<exit, effects, cmd, comparing, plan, cur, audited>>
  BY DEF Acknowledge, SendVariables, Retry, Goto, runVars, progressVars, engineVars
<1>2. /\ \A n \in net' \ net : n.run = r /\ OpOf(n) \in cur[r]
      /\ \A n \in waiting'[r] : n.run = r /\ OpOf(n) \in cur[r]
      /\ reply'[r].status # "ok"
      /\ \A q \in Runs \ {r} : waiting'[q] = waiting[q] /\ reply'[q] = reply[q]
      /\ phase'[r] = "sent" \/ (waiting'[r] = {} /\ cur[r] \subseteq effects[r])
  <2>0. \A n \in waiting[r] : n.run = r /\ OpOf(n) \in cur[r] /\ n \in Requests
    BY DEF Inv, Accounted, TypeOK, CoolifyTypeOK
  <2>1. CASE Acknowledge(r)
    <3>1. cur[r] \subseteq effects[r]
      BY <2>1 DEF Acknowledge, Inv, Accounted
    <3> QED BY <2>1, <3>1 DEF Acknowledge, HangUp, NoReply, Inv, TypeOK, CoolifyTypeOK
  <2>2. CASE SendVariables(r)
    <3>1. PICK op \in cur[r] : Send(FirstTry(r, op, "envs", reply[r].uuid))
      BY <2>2 DEF SendVariables
    <3>2. PICK n \in waiting[r] : n.verb = "create"
      BY <2>2 DEF SendVariables, NeedsVariables
    <3>3. OpOf(n) = op /\ op \in Ops
      BY <2>0, <3>1 DEF Inv, OneAtATime, TypeOK
    <3>4. op.verb = "create"
      BY <3>2, <3>3 DEF OpOf
    <3> DEFINE m == FirstTry(r, op, "envs", reply[r].uuid)
    <3>5. m.run = r /\ OpOf(m) = op
      BY <3>3, <3>4 DEF FirstTry, OpOf, Ops
    <3>6. Send(m)
      BY <3>1
    <3> HIDE DEF m
    <3>7. phase'[r] = "sent"
      BY <2>2 DEF SendVariables
    <3> QED BY <3>1, <3>5, <3>6, <3>7, SendFrame DEF Inv
  <2>3. CASE Retry(r)
    <3>1. PICK n \in waiting[r] : Send([n EXCEPT !.try = @ + 1])
      BY <2>3 DEF Retry
    <3> DEFINE m == [n EXCEPT !.try = @ + 1]
    <3>2. m.run = r /\ OpOf(m) \in cur[r]
      <4>1. m.run = n.run /\ m.verb = n.verb /\ m.res = n.res
        <5>1. n \in Requests
          BY <2>0
        <5> QED BY <5>1 DEF Requests
      <4>2. OpOf(m) = OpOf(n)
        BY <4>1 DEF OpOf
      <4> QED BY <2>0, <4>1, <4>2
    <3>3. Send(m)
      BY <3>1
    <3> HIDE DEF m
    <3>4. phase'[r] = "sent"
      BY <2>3 DEF Retry, runVars
    <3> QED BY <3>2, <3>3, <3>4, SendFrame DEF Inv
  <2> QED BY <2>1, <2>2, <2>3
<1>3. \A q \in Runs : q # r => phase'[q] = phase[q]
  BY <1>1 DEF Inv, TypeOK
<1>4. phase'[r] \in {"sent", "audit"}
  BY <1>1 DEF Inv, TypeOK
<1>5. OneAtATime' /\ InOrder' /\ ExitCodeTold'
  BY <1>1, <1>3, <1>4 DEF Inv, OneAtATime, InOrder, ExitCodeTold, Executing
<1>6. Accounted'
  <2>1. \A n \in net' : OpOf(n) \in audited[n.run] \cup cur[n.run]
    BY <1>2 DEF Inv, Accounted
  <2>2. ASSUME NEW q \in Runs
        PROVE  /\ \A n \in waiting'[q] : n.run = q /\ OpOf(n) \in cur[q]
               /\ phase'[q] # "sent" => waiting'[q] = {} /\ reply'[q].status # "ok"
               /\ phase'[q] = "audit" \/ reply'[q].status = "ok" => cur[q] \subseteq effects[q]
    <3>1. CASE q = r
      BY <1>2, <1>4, <3>1
    <3>2. CASE q # r
      BY <1>2, <1>3, <3>2 DEF Inv, Accounted
    <3> QED BY <3>1, <3>2
  <2> QED BY <1>1, <2>1, <2>2 DEF Inv, Accounted
<1>7. Asked'
  BY <1>1, <1>3, <1>4 DEF Inv, Asked, Executing
<1> QED BY <1>5, <1>6, <1>7 DEF Inv

\* The operation is audited, and counted.
LEMMA RecordInv ==
  ASSUME Inv, TypeOK', NEW r \in Runs, Record(r)
  PROVE  Inv'
<1>1. /\ phase[r] = "audit" /\ phase' = [phase EXCEPT ![r] = "engine"]
      /\ audited' = [audited EXCEPT ![r] = audited[r] \cup cur[r]]
      /\ UNCHANGED <<net, waiting, reply, effects, cmd, comparing, plan, cur, exit>>
  BY DEF Record, Goto, serverVars, progressVars
<1>2. cur[r] \subseteq effects[r]
  BY <1>1 DEF Inv, Accounted
<1>3. OneAtATime'
  BY <1>1 DEF Inv, OneAtATime, TypeOK, Executing
<1>4. Accounted'
  BY <1>1, <1>2 DEF Inv, Accounted, TypeOK, CoolifyTypeOK
<1>5. InOrder'
  BY <1>1 DEF Inv, InOrder, TypeOK
<1>6. ExitCodeTold' /\ Asked'
  BY <1>1 DEF Inv, ExitCodeTold, Asked, TypeOK, Executing
<1> QED BY <1>3, <1>4, <1>5, <1>6 DEF Inv

\* Everything planned is audited and the engine returns no error.
LEMMA FinishInv ==
  ASSUME Inv, TypeOK', NEW r \in Runs, Finish(r)
  PROVE  Inv'
<1>1. /\ phase[r] = "engine" /\ phase' = [phase EXCEPT ![r] = "done"]
      /\ plan[r] = audited[r] /\ exit' = [exit EXCEPT ![r] = 0]
      /\ UNCHANGED <<net, waiting, reply, effects, cmd, comparing, plan, cur, audited>>
  BY DEF Finish, Return, serverVars, progressVars, engineVars
<1>2. OneAtATime' /\ InOrder'
  BY <1>1 DEF Inv, OneAtATime, InOrder, TypeOK, Executing
<1>3. Accounted'
  BY <1>1 DEF Inv, Accounted, TypeOK
<1>4. ExitCodeTold' /\ Asked'
  BY <1>1 DEF Inv, ExitCodeTold, Asked, TypeOK, Executing
<1> QED BY <1>2, <1>3, <1>4 DEF Inv

\* The process dies, wherever it is.
LEMMA CrashInv ==
  ASSUME Inv, TypeOK', NEW r \in Runs, Crash(r)
  PROVE  Inv'
<1>1. /\ phase[r] \in Active
      /\ phase' = [phase EXCEPT ![r] = IF phase[r] \in Executing THEN "done" ELSE "skipped"]
      /\ exit' = [exit EXCEPT ![r] = 3]
      /\ waiting' = [waiting EXCEPT ![r] = {}]
      /\ reply' = [reply EXCEPT ![r] = NoReply]
      /\ UNCHANGED <<net, effects, cmd, comparing, plan, cur, audited>>
  BY DEF Crash, Return, Skip, Killed, HangUp, progressVars, engineVars
<1>2. phase[r] \notin {"idle", "done", "skipped"}
  BY <1>1 DEF Active, Reading, Executing
<1>3. OneAtATime' /\ InOrder'
  BY <1>1, <1>2 DEF Inv, OneAtATime, InOrder, TypeOK, Executing
<1>4. Accounted'
  BY <1>1, <1>2 DEF Inv, Accounted, TypeOK, CoolifyTypeOK, NoReply
<1>5. ExitCodeTold' /\ Asked'
  BY <1>1, <1>2 DEF Inv, ExitCodeTold, Asked, TypeOK, Executing
<1> QED BY <1>3, <1>4, <1>5 DEF Inv

\* The engine keeps the invariant.
LEMMA EngineInv ==
  ASSUME Inv, TypeOK', NEW r \in Runs,
         \/ Begin(r) \/ Unresolvable(r) \/ Acknowledge(r) \/ SendVariables(r)
         \/ Rejected(r) \/ Retry(r) \/ GiveUp(r) \/ Record(r) \/ RecordFails(r)
         \/ Finish(r) \/ Crash(r)
  PROVE  Inv'
<1>1. CASE Begin(r) \/ Unresolvable(r)
  BY <1>1, BeginInv, UnresolvableInv
<1>2. CASE Acknowledge(r) \/ SendVariables(r) \/ Retry(r)
  BY <1>2, AnsweredInv
<1>3. CASE Rejected(r) \/ GiveUp(r) \/ RecordFails(r)
  BY <1>3, FailInv
<1>4. CASE Record(r) \/ Finish(r) \/ Crash(r)
  BY <1>4, RecordInv, FinishInv, CrashInv
<1> QED BY <1>1, <1>2, <1>3, <1>4

\* The invariant is inductive.
LEMMA NextInv == Inv /\ [Next]_vars => Inv'
<1> SUFFICES ASSUME Inv, [Next]_vars PROVE Inv'
  OBVIOUS
<1>0. TypeOK'
  BY NextType DEF Inv
<1>1. ASSUME NEW r \in Runs, Start(r) \/ Proceed(r) \/ Answers(r) \/ Crash(r)
      PROVE  Inv'
  BY <1>0, <1>1, PlanningInv, EngineInv DEF Proceed
<1>2. CASE Serve /\ UNCHANGED runVars
  BY <1>0, <1>2, ServeInv
<1>3. CASE (Dashboard /\ UNCHANGED runVars) \/ UNCHANGED vars
  BY <1>0, <1>3, StutterInv
     DEF Dashboard, vars, runVars, serverVars, progressVars, engineVars
<1> QED BY <1>1, <1>2, <1>3 DEF Next

LEMMA Invariance == Spec => []Inv
BY InitInv, NextInv, PTL DEF Spec

-----------------------------------------------------------------------------
(* The safety properties.                                                  *)

\* However a run ends and however late its requests are handled, the audit log
\* misses at most one of the operations the server carried out for it.
THEOREM LogMissesAtMostOne == Spec => []UnauditedAtMostOne
<1>1. Inv => UnauditedAtMostOne
  BY DEF Inv, OneAtATime, Accounted, UnauditedAtMostOne
<1> QED BY <1>1, Invariance, PTL

\* Nothing is audited that the server did not carry out.
THEOREM LogIsSound == Spec => []AuditSound
<1>1. Inv => AuditSound
  BY DEF Inv, Accounted, AuditSound
<1> QED BY <1>1, Invariance, PTL

\* The server carries out the operations of a plan in its order, for every
\* manifest: retried and late requests never overtake a dependency.
THEOREM OrderIsKept == Spec => []DependencyOrder
<1>1. Inv => DependencyOrder
  BY DEF Inv, Accounted, InOrder, DependencyOrder
<1> QED BY <1>1, Invariance, PTL

\* Only an approved run with access changes anything, and only what it was
\* asked for.
THEOREM OnlyApprovedChanges == Spec => []ChangesAreApproved
<1>1. Inv => ChangesAreApproved
  <2> SUFFICES ASSUME Inv, NEW r \in Runs, effects[r] # {}
               PROVE  /\ ~cmd[r].dry /\ cmd[r].online /\ (cmd[r].approve \/ cmd[r].tty)
                      /\ phase[r] \in Executing \cup {"done"}
                      /\ \A op \in effects[r] :
                           /\ op.res \in Wanted(cmd[r])
                           /\ op.verb = "delete" <=> cmd[r].mode = "destroy"
    BY DEF ChangesAreApproved
  <2>1. effects[r] \subseteq plan[r] /\ phase[r] \in Executing \cup {"done"}
    BY DEF Inv, OneAtATime, Accounted
  <2>2. ~Refused(cmd[r]) /\ ~cmd[r].dry
    BY <2>1 DEF Inv, Asked, Executing
  <2>3. cmd[r].online \in BOOLEAN /\ cmd[r].approve \in BOOLEAN /\ cmd[r].tty \in BOOLEAN
    BY DEF Inv, TypeOK, CommandLines
  <2>4. cmd[r].online /\ (cmd[r].approve \/ cmd[r].tty)
    BY <2>2, <2>3 DEF Refused
  <2> QED BY <2>1, <2>2, <2>4 DEF Inv, Asked
<1> QED BY <1>1, Invariance, PTL

\* The exit code bounds what the server carried out for the run, late requests
\* included: all of the plan, some of it, or at most one operation (runApply,
\* runDestroy).
THEOREM ExitCodeIsABound == Spec => []ExitCodeBounds
<1>1. Inv => ExitCodeBounds
  <2> SUFFICES ASSUME Inv, NEW r \in Runs, phase[r] = "done"
               PROVE  /\ exit[r] = 0 => plan[r] = effects[r]
                      /\ exit[r] = 2 => effects[r] # {} /\ audited[r] # plan[r]
                      /\ exit[r] = 1 => plan[r] # {} /\ \A a, b \in effects[r] : a = b
    BY DEF ExitCodeBounds
  <2>1. audited[r] \subseteq effects[r] /\ effects[r] \subseteq audited[r] \cup cur[r]
    BY DEF Inv, Accounted
  <2>2. cur[r] \subseteq plan[r] /\ \A a, b \in cur[r] : a = b
    BY DEF Inv, OneAtATime
  <2> QED BY <2>1, <2>2 DEF Inv, ExitCodeTold
<1> QED BY <1>1, Invariance, PTL

-----------------------------------------------------------------------------
(* Refinement.                                                             *)

\* A step that leaves what is seen of a run alone.
LEMMA Unseen ==
  ASSUME NEW q \in Runs, phase'[q] = phase[q], exit'[q] = exit[q],
         plan'[q] = plan[q], audited'[q] = audited[q]
  PROVE  UNCHANGED Execution(q)!vars
BY DEF Execution!vars, Committed, Status

LEMMA InitOrdered == Init => \A r \in Runs : Execution(r)!Init
BY DEF Init, Execution!Init, Committed, Status, Executing

\* Before the engine a run commits, skips, or is not seen to move.
LEMMA PlanningOrdered ==
  ASSUME Inv, TypeOK', NEW r \in Runs, NEW q \in Runs,
         \/ Start(r) \/ ListProjects(r) \/ ListEnvironments(r) \/ ListServers(r)
         \/ ListApplications(r) \/ ListServices(r) \/ ScanServer(r)
         \/ Load(r) \/ Compare(r) \/ RefuseMove(r) \/ ReadFails(r)
         \/ Planned(r) \/ Answers(r)
  PROVE  Execution(q)!Next \/ UNCHANGED Execution(q)!vars
<1>1. /\ UNCHANGED audited
      /\ \A p \in Runs \ {r} : phase'[p] = phase[p] /\ exit'[p] = exit[p] /\ plan'[p] = plan[p]
      /\ phase[r] \notin Executing \cup Ended
      /\ phase'[r] \in Phases \ {"sent", "audit", "done"}
  BY PlanningFrame DEF Inv
<1>2. CASE q # r
  BY <1>1, <1>2, Unseen
<1>3. CASE q = r
  <2>1. Committed(q) = {} /\ Status(q) = "planning"
    BY <1>1, <1>3 DEF Committed, Status, Ended
  <2>2. CASE phase'[r] = "engine"
    <3>1. Committed(q)' = plan'[q] /\ Status(q)' = "running" /\ plan'[q] \in SUBSET Ops
      BY <1>3, <2>2 DEF Committed, Status, Executing, TypeOK
    <3>2. Execution(q)!Commit
      BY <1>1, <2>1, <3>1 DEF Execution!Commit
    <3> QED BY <3>2 DEF Execution!Next
  <2>3. CASE phase'[r] = "skipped"
    <3>1. Committed(q)' = {} /\ Status(q)' = "skipped"
      BY <1>3, <2>3 DEF Committed, Status, Executing
    <3>2. Execution(q)!Skip
      BY <1>1, <2>1, <3>1 DEF Execution!Skip
    <3> QED BY <3>2 DEF Execution!Next
  <2>4. CASE phase'[r] \notin {"engine", "skipped"}
    <3>1. Committed(q)' = {} /\ Status(q)' = "planning"
      BY <1>1, <1>3, <2>4 DEF Committed, Status, Executing
    <3> QED BY <1>1, <2>1, <3>1 DEF Execution!vars
  <2> QED BY <2>2, <2>3, <2>4
<1> QED BY <1>2, <1>3

\* The engine's step at the server, or between two of them, is not seen.
LEMMA CallsOrdered ==
  ASSUME Inv, NEW r \in Runs, NEW q \in Runs,
         Begin(r) \/ Acknowledge(r) \/ SendVariables(r) \/ Retry(r)
  PROVE  UNCHANGED Execution(q)!vars
<1>1. /\ phase[r] \in Executing /\ phase'[r] \in Executing
      /\ \A p \in Runs \ {r} : phase'[p] = phase[p]
      /\ UNCHANGED <<exit, plan, audited>>
  BY DEF Begin, Acknowledge, SendVariables, Retry, Goto, Executing, runVars, progressVars,
         engineVars, Inv, TypeOK
<1>2. CASE q # r
  BY <1>1, <1>2, Unseen
<1>3. CASE q = r
  <2>1. Committed(q) = plan[q] /\ Status(q) = "running"
    BY <1>1, <1>3 DEF Committed, Status, Executing
  <2>2. Committed(q)' = plan'[q] /\ Status(q)' = "running"
    BY <1>1, <1>3 DEF Committed, Status, Executing
  <2> QED BY <1>1, <2>1, <2>2 DEF Execution!vars
<1> QED BY <1>2, <1>3

\* Recording completes the operation the engine is at.
LEMMA RecordOrdered ==
  ASSUME Inv, NEW r \in Runs, NEW q \in Runs, Record(r)
  PROVE  Execution(q)!Next \/ UNCHANGED Execution(q)!vars
<1>1. /\ phase[r] = "audit" /\ phase' = [phase EXCEPT ![r] = "engine"]
      /\ audited' = [audited EXCEPT ![r] = audited[r] \cup cur[r]]
      /\ UNCHANGED <<plan, exit>>
  BY DEF Record, Goto
<1>2. CASE q # r
  BY <1>1, <1>2, Unseen DEF Inv, TypeOK
<1>3. CASE q = r
  <2>1. PICK op \in cur[q] : \A a \in cur[q] : a = op
    BY <1>1, <1>3 DEF Inv, OneAtATime
  <2>2. op \in plan[q] \ audited[q] /\ op \in Ops
    BY <1>1, <1>3 DEF Inv, OneAtATime, TypeOK
  <2>3. \A p \in plan[q] : Precedes(p, op) => p \in audited[q]
    BY DEF Inv, InOrder
  <2>4. audited'[q] = audited[q] \cup {op}
    BY <1>1, <1>3, <2>1 DEF Inv, TypeOK
  <2>5. /\ Committed(q) = plan[q] /\ Committed(q)' = plan[q]
        /\ Status(q) = "running" /\ Status(q)' = "running"
    BY <1>1, <1>3 DEF Committed, Status, Executing, Inv, TypeOK
  <2>6. Execution(q)!Complete(op)
    BY <2>2, <2>3, <2>4, <2>5 DEF Execution!Complete
  <2> QED BY <2>2, <2>6 DEF Execution!Next
<1> QED BY <1>2, <1>3

\* The engine returns, or the process dies.
LEMMA EndOrdered ==
  ASSUME Inv, NEW r \in Runs, NEW q \in Runs,
         \/ Unresolvable(r) \/ Rejected(r) \/ GiveUp(r) \/ RecordFails(r)
         \/ Finish(r) \/ Crash(r)
  PROVE  Execution(q)!Next \/ UNCHANGED Execution(q)!vars
<1>1. /\ UNCHANGED <<plan, audited>>
      /\ \A p \in Runs \ {r} : phase'[p] = phase[p] /\ exit'[p] = exit[p]
  BY DEF Unresolvable, Rejected, GiveUp, RecordFails, Finish, Crash, Return, Skip,
         engineVars, Inv, TypeOK
<1>2. CASE q # r
  BY <1>1, <1>2, Unseen
<1>3. CASE q = r
  <2>1. CASE Finish(r)
    <3>1. /\ Committed(q) = plan[q] /\ Committed(q)' = plan[q] /\ plan[q] = audited[q]
          /\ Status(q) = "running" /\ Status(q)' = "complete"
      BY <1>3, <2>1 DEF Finish, Return, engineVars, Committed, Status, Executing, Inv, TypeOK
    <3>2. Execution(q)!Succeed
      BY <1>1, <3>1 DEF Execution!Succeed
    <3> QED BY <3>2 DEF Execution!Next
  <2>2. CASE phase[r] \in Executing /\ ~Finish(r)
    <3>1. /\ phase' = [phase EXCEPT ![r] = "done"]
          /\ exit' \in {[exit EXCEPT ![r] = FailureCode(r)], [exit EXCEPT ![r] = 3]}
      BY <2>2 DEF Unresolvable, Rejected, GiveUp, RecordFails, Crash, Return, Killed
    <3>2. phase'[q] = "done" /\ exit'[q] # 0
      BY <1>3, <3>1 DEF FailureCode, Inv, TypeOK
    <3>3. /\ Committed(q) = plan[q] /\ Committed(q)' = plan[q]
          /\ Status(q) = "running" /\ Status(q)' = "stopped"
      BY <1>1, <1>3, <2>2, <3>2 DEF Committed, Status, Executing
    <3>4. Execution(q)!Stop
      BY <1>1, <3>3 DEF Execution!Stop
    <3> QED BY <3>4 DEF Execution!Next
  <2>3. CASE phase[r] \notin Executing
    <3>1. Crash(r)
      BY <2>3 DEF Unresolvable, Rejected, GiveUp, RecordFails, Finish, Executing
    <3>2. phase[q] \in Active \ Executing /\ phase'[q] = "skipped"
      BY <1>3, <2>3, <3>1 DEF Crash, Skip, Inv, TypeOK
    <3>3. Committed(q) = {} /\ Status(q) = "planning" /\ Committed(q)' = {} /\ Status(q)' = "skipped"
      BY <3>2 DEF Committed, Status, Active, Reading, Executing
    <3>4. Execution(q)!Skip
      BY <1>1, <3>3 DEF Execution!Skip
    <3> QED BY <3>4 DEF Execution!Next
  <2> QED BY <2>1, <2>2, <2>3
<1> QED BY <1>2, <1>3

\* Every step of the system is a step of each run's abstract execution, or is
\* not seen of it.
LEMMA NextOrdered ==
  ASSUME Inv, TypeOK', [Next]_vars, NEW q \in Runs
  PROVE  Execution(q)!Next \/ UNCHANGED Execution(q)!vars
<1>1. CASE \E r \in Runs : Start(r) \/ Proceed(r) \/ Answers(r) \/ Crash(r)
  BY <1>1, PlanningOrdered, CallsOrdered, RecordOrdered, EndOrdered DEF Proceed
<1>2. CASE UNCHANGED runVars
  BY <1>2, Unseen DEF runVars, engineVars
<1> QED BY <1>1, <1>2 DEF Next, vars

\* Runs implement OrderedExecution: a plan is fixed once, its operations are
\* completed one at a time and in order, and success is reported only for a
\* complete plan, whatever crashes, retries and other runs do.
THEOREM RunsImplementExecution == Spec => RunsAreOrdered
<1>1. Init => \A r \in Runs : Execution(r)!Init
  BY InitOrdered
<1>2. Inv /\ Inv' /\ [Next]_vars =>
        [\A r \in Runs : Execution(r)!Next \/ UNCHANGED Execution(r)!vars]_vars
  BY NextOrdered DEF Inv
<1> QED BY <1>1, <1>2, Invariance, PTL DEF Spec, RunsAreOrdered
=============================================================================
