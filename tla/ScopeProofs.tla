---------------------------- MODULE ScopeProofs ----------------------------
(***************************************************************************)
(* A run with --env changes and deletes only objects of those environments, *)
(* whatever else happens on the instance: a proof for every manifest in     *)
(* which databases of one name are in environments of one name.            *)
(*                                                                         *)
(* A request names an object by its uuid, or an environment by its name.    *)
(* Aimed says that the uuid is that of an object with the key of the        *)
(* request's resource, from the listing or the answer it was learned from   *)
(* until the request is handled, however late.                             *)
(***************************************************************************)
EXTENDS DuplicateProofs

-----------------------------------------------------------------------------
(* The inductive invariant.                                                *)

\* Uuid u is that of an object of key k, while it is alive.
Names(u, k) == u \in 1 .. issued /\ \A o \in remote : o.uuid = u => KeyOf(o) = k

\* The path of a request is that of what it is about.
PathOK(m) ==
  /\ m.verb = "create" =>
       /\ m.res.kind = "Project" => m.at = None
       /\ m.res.kind # "Project" => Names(m.at, ProjectKey(m.res.project))
       /\ m.res.kind = "Database" => m.res.server \in Servers
  /\ m.verb # "create" /\ (m.verb = "delete" => m.res.kind # "Environment") /\ m.at # None =>
       Names(m.at, KeyOf(m.res))

Numbered ==
  \A o \in remote : o.uuid <= issued /\ \A q \in remote : o.uuid = q.uuid => o = q

\* What the server remembers of a create is what it created.
RememberedOK == \A s \in seen : s.key.verb = "create" => Names(s.uuid, KeyOf(s.key.about))

\* The open connection of run r, and the answer on its way.
PathsOK(r) ==
  /\ \A m, n \in waiting[r] : m = n
  /\ \A m \in waiting[r] :
       /\ PathOK(m)
       /\ \A u : reply[r].status = "ok" /\ reply[r].uuid = u /\ m.verb = "create" =>
            Names(u, KeyOf(m.res))

\* What run r has resolved.
ResolvedOK(r) == \A k \in Keys : \A u \in Uuids : resolved[r][k] = u => Names(u, k)

\* Only applications and databases are updated.
UpdatesOK(r) ==
  /\ \A x \in comparing[r] : x.kind \in Diffed
  /\ \A op \in plan[r] : op.verb = "update" => op.res.kind \in Diffed

AimedRun(r) == PathsOK(r) /\ ResolvedOK(r) /\ UpdatesOK(r)

Aimed ==
  /\ Numbered
  /\ RememberedOK
  /\ \A m \in net : PathOK(m)
  /\ \A r \in Runs : AimedRun(r)

-----------------------------------------------------------------------------
(* What everybody may rely on: uuids are not used twice, and objects keep   *)
(* their place.                                                            *)

Steady ==
  /\ issued \in Nat /\ issued' \in Nat /\ issued <= issued'
  /\ \A o \in remote' : o.uuid > issued \/ \E q \in remote : SameFace(q, o)

LEMMA SteadyNames ==
  ASSUME Steady, NEW u, NEW k, Names(u, k)
  PROVE  Names(u, k)'
<1>1. u \in 1 .. issued'
  BY DEF Steady, Names
<1>2. ASSUME NEW o \in remote', o.uuid = u PROVE KeyOf(o) = k
  <2>1. ~(o.uuid > issued)
    BY <1>2 DEF Names, Steady
  <2>2. PICK q \in remote : SameFace(q, o)
    BY <2>1 DEF Steady
  <2>3. q.uuid = u
    BY <1>2, <2>2 DEF SameFace
  <2>4. KeyOf(q) = k
    BY <2>3 DEF Names
  <2> QED BY <2>2, <2>4, FaceKey
<1> QED BY <1>1, <1>2 DEF Names

LEMMA SteadyPath ==
  ASSUME Steady, NEW m, PathOK(m)
  PROVE  PathOK(m)'
<1>1. \A u, k : Names(u, k) => Names(u, k)'
  BY SteadyNames
<1> QED BY <1>1 DEF PathOK

\* What is true of a run stays true while others move.
LEMMA SteadyRun ==
  ASSUME Steady, NEW r \in Runs, AimedRun(r),
         resolved'[r] = resolved[r], waiting'[r] = waiting[r],
         comparing'[r] = comparing[r], plan'[r] = plan[r],
         \/ reply'[r] = reply[r]
         \/ \A m \in waiting[r] : \A u : reply'[r].status = "ok" /\ reply'[r].uuid = u /\ m.verb = "create" =>
              Names(u, KeyOf(m.res))'
  PROVE  AimedRun(r)'
<1>1. PathsOK(r)'
  <2>1. \A m \in waiting[r] : PathOK(m)'
    BY SteadyPath DEF AimedRun, PathsOK
  <2>2. \A m \in waiting[r] : \A u :
          reply'[r].status = "ok" /\ reply'[r].uuid = u /\ m.verb = "create" =>
          Names(u, KeyOf(m.res))'
    BY SteadyNames DEF AimedRun, PathsOK
  <2> QED BY <2>1, <2>2 DEF AimedRun, PathsOK
<1>2. ResolvedOK(r)'
  BY SteadyNames DEF AimedRun, ResolvedOK
<1>3. UpdatesOK(r)'
  BY DEF AimedRun, UpdatesOK
<1> QED BY <1>1, <1>2, <1>3 DEF AimedRun

-----------------------------------------------------------------------------
(* The server and the dashboard.                                           *)

\* What an answered request leaves in the server's memory and on its connection.
LEMMA SucceedLeaves ==
  ASSUME TypeOK, NEW m \in net, NEW u, Succeed(m, u)
  PROVE  /\ seen \subseteq seen'
         /\ \A s \in seen' \ seen :
              s.uuid = u /\ s.key.verb = m.verb /\ (m.verb = "create" => s.key.about = m.res)
         /\ m \in waiting[m.run] => reply'[m.run] = [status |-> "ok", uuid |-> u]
BY DEF Succeed, IdempotencyKey, Answer, TypeOK, CoolifyTypeOK, Requests

LEMMA NumberedUuids ==
  ASSUME TypeOK, Numbered
  PROVE  issued \in Nat /\ \A o \in remote : o.uuid \in 1 .. issued
BY CoolifyType DEF TypeOK, CoolifyTypeOK, Numbered, Objects, Uuids

\* What is created is new; its answer names it.
LEMMA CreateSteady ==
  ASSUME TypeOK, Numbered, NEW m \in net, CreateObject(m)
  PROVE  /\ Steady /\ Numbered'
         /\ \E u : Succeed(m, u) /\ Names(u, KeyOf(m.res))'
<1>0. Succeed(m, issued + 1) /\ issued' = issued + 1
  BY DEF CreateObject
<1>1. PICK p \in Parents(m) : remote' = remote \cup {Created(m, issued + 1, p)}
  BY DEF CreateObject
<1>2. PICK n : n = Created(m, issued + 1, p)
  OBVIOUS
<1>3. remote' = remote \cup {n} /\ n.uuid = issued + 1 /\ KeyOf(n) = KeyOf(m.res)
  BY <1>1, <1>2 DEF Created, KeyOf
<1>4. issued \in Nat /\ \A o \in remote : o.uuid \in 1 .. issued
  BY NumberedUuids
<1>5. Steady
  BY <1>0, <1>3, <1>4 DEF Steady, SameFace
<1>6. Numbered'
  BY <1>0, <1>3, <1>4 DEF Numbered
<1>7. PICK u : u = issued + 1
  OBVIOUS
<1>8. u \in 1 .. issued' /\ \A o \in remote' : o.uuid = u => o = n
  BY <1>0, <1>3, <1>4, <1>7
<1>9. Succeed(m, u) /\ Names(u, KeyOf(m.res))'
  BY <1>0, <1>3, <1>7, <1>8 DEF Names
<1> QED BY <1>5, <1>6, <1>9

\* Objects change without moving, or go.
LEMMA ShrinkSteady ==
  ASSUME TypeOK, Numbered, issued' = issued,
         \A o \in remote' : \E q \in remote : SameFace(q, o),
         \A a, b \in remote' : a.uuid = b.uuid => a = b
  PROVE  Steady /\ Numbered'
BY DEF TypeOK, CoolifyTypeOK, Steady, Numbered, SameFace

LEMMA TameSteady ==
  ASSUME TypeOK, Numbered, NEW m \in net,
         \/ ChangeObject(m) \/ RemoveObject(m) \/ AlreadyGone(m)
         \/ ReplayAnswer(m) \/ RefuseRequest(m)
  PROVE  Steady /\ Numbered'
<1>0. issued' = issued /\ \A a, b \in remote : a.uuid = b.uuid => a = b
  BY DEF ChangeObject, RemoveObject, AlreadyGone, ReplayAnswer, RefuseRequest, Numbered
<1>1. CASE AlreadyGone(m) \/ ReplayAnswer(m) \/ RefuseRequest(m)
  <2>1. remote' = remote
    BY <1>1 DEF AlreadyGone, ReplayAnswer, RefuseRequest
  <2> QED BY <1>0, <2>1, ShrinkSteady DEF SameFace
<1>2. CASE RemoveObject(m)
  <2>1. PICK o : remote' = remote \ {o}
    BY <1>2 DEF RemoveObject
  <2> QED BY <1>0, <2>1, ShrinkSteady DEF SameFace
<1>3. CASE ChangeObject(m)
  <2>1. PICK o \in Addressed(m) : remote' = (remote \ {o}) \cup {Changed(m, o)}
    BY <1>3 DEF ChangeObject
  <2>2. o \in remote
    BY <2>1 DEF Addressed
  <2>3. SameFace(o, Changed(m, o))
    BY <2>2 DEF SameFace, Changed, TypeOK, CoolifyTypeOK, Objects
  <2>4. PICK c : c = Changed(m, o)
    OBVIOUS
  <2>5. remote' = (remote \ {o}) \cup {c} /\ SameFace(o, c)
    BY <2>1, <2>3, <2>4
  <2> QED BY <1>0, <2>2, <2>5, ShrinkSteady DEF SameFace
<1> QED BY <1>1, <1>2, <1>3

LEMMA DashboardSteady ==
  ASSUME TypeOK, Numbered, Dashboard
  PROVE  Steady /\ Numbered'
<1>1. PICK o \in remote : DashboardDelete(o) \/ DashboardEdit(o)
  BY DEF Dashboard
<1>2. issued' = issued /\ \A a, b \in remote : a.uuid = b.uuid => a = b
  BY DEF Dashboard, Numbered
<1>3. CASE DashboardDelete(o)
  BY <1>2, <1>3, ShrinkSteady DEF DashboardDelete, SameFace
<1>4. CASE DashboardEdit(o)
  <2>1. PICK s \in {"drift", "stuck"} : remote' = (remote \ {o}) \cup {[o EXCEPT !.spec = s]}
    BY <1>4 DEF DashboardEdit
  <2>2. SameFace(o, [o EXCEPT !.spec = s])
    BY DEF SameFace, TypeOK, CoolifyTypeOK, Objects
  <2>3. PICK c : c = [o EXCEPT !.spec = s]
    OBVIOUS
  <2>4. remote' = (remote \ {o}) \cup {c} /\ SameFace(o, c)
    BY <2>1, <2>2, <2>3
  <2> QED BY <1>2, <2>4, ShrinkSteady DEF SameFace
<1> QED BY <1>1, <1>3, <1>4

\* The server, whatever request it handles: the answer to a create names what
\* was created, now or when the request first came.
LEMMA HandleSteady ==
  ASSUME TypeOK, Numbered, RememberedOK, NEW m \in net, Handle(m)
  PROVE  /\ Steady /\ Numbered' /\ RememberedOK'
         /\ waiting' = waiting /\ net' = net \ {m}
         /\ \/ ~(m \in waiting[m.run]) /\ reply' = reply
            \/ /\ m \in waiting[m.run]
               /\ \A q \in Runs \ {m.run} : reply'[q] = reply[q]
               /\ reply'[m.run].status = "ok" /\ m.verb = "create" =>
                    \A u : reply'[m.run].uuid = u => Names(u, KeyOf(m.res))'
<1>0. m.run \in Runs
  BY DEF TypeOK, CoolifyTypeOK, Requests
<1>1. Steady /\ Numbered'
  BY CreateSteady, TameSteady DEF Handle
<1>2. waiting' = waiting
  BY DEF Handle, CreateObject, ChangeObject, RemoveObject, AlreadyGone, ReplayAnswer, RefuseRequest
<1>3. \A u, k : Names(u, k) => Names(u, k)'
  BY <1>1, SteadyNames
<1>4. CASE RefuseRequest(m)
  <2>1. seen' = seen /\ Answer(m, "refused", None)
    BY <1>4 DEF RefuseRequest
  <2>2. RememberedOK'
    BY <1>3, <2>1 DEF RememberedOK
  <2> QED BY <1>0, <1>1, <1>2, <2>1, <2>2 DEF Answer, TypeOK, CoolifyTypeOK
<1>5. CASE ~RefuseRequest(m)
  <2>1. PICK u : Succeed(m, u) /\ (m.verb = "create" => Names(u, KeyOf(m.res))')
    <3>1. CASE CreateObject(m)
      BY <3>1, CreateSteady
    <3>2. CASE ReplayAnswer(m)
      <4>1. PICK s \in seen : s.key = IdempotencyKey(m) /\ Succeed(m, s.uuid)
        BY <3>2 DEF ReplayAnswer
      <4>2. m.verb = "create" => Names(s.uuid, KeyOf(m.res))
        BY <4>1 DEF RememberedOK, IdempotencyKey
      <4> QED BY <1>3, <4>1, <4>2
    <3>3. CASE ChangeObject(m) \/ RemoveObject(m) \/ AlreadyGone(m)
      BY <3>3 DEF ChangeObject, RemoveObject, AlreadyGone
    <3> QED BY <1>5, <3>1, <3>2, <3>3 DEF Handle
  <2>2. /\ \A s \in seen' : s \in seen \/
              (s.uuid = u /\ s.key.verb = m.verb /\ (m.verb = "create" => s.key.about = m.res))
        /\ m \in waiting[m.run] => reply'[m.run] = [status |-> "ok", uuid |-> u]
    BY <2>1, SucceedLeaves
  <2>3. RememberedOK'
    BY <1>3, <2>1, <2>2 DEF RememberedOK
  <2>4. /\ net' = net \ {m}
        /\ m \notin waiting[m.run] => reply' = reply
        /\ \A q \in Runs \ {m.run} : reply'[q] = reply[q]
    BY <1>0, <2>1 DEF Succeed, Answer, TypeOK, CoolifyTypeOK
  <2> QED BY <1>1, <1>2, <2>1, <2>2, <2>3, <2>4
<1> QED BY <1>4, <1>5

LEMMA ServeAimed ==
  ASSUME Inv, Aimed, Serve, UNCHANGED runVars
  PROVE  Aimed'
<1>0. TypeOK /\ Numbered /\ RememberedOK
  BY DEF Inv, Aimed
<1>1. PICK m \in net : Handle(m)
  BY DEF Serve
<1>2. /\ Steady /\ Numbered' /\ RememberedOK'
      /\ waiting' = waiting /\ net' = net \ {m}
      /\ \/ ~(m \in waiting[m.run]) /\ reply' = reply
         \/ /\ m \in waiting[m.run]
            /\ \A q \in Runs \ {m.run} : reply'[q] = reply[q]
            /\ reply'[m.run].status = "ok" /\ m.verb = "create" =>
                 \A u : reply'[m.run].uuid = u => Names(u, KeyOf(m.res))'
  BY <1>0, <1>1, HandleSteady
<1>3. \A n \in net' : PathOK(n)'
  BY <1>2, SteadyPath DEF Aimed
<1>4. ASSUME NEW q \in Runs PROVE AimedRun(q)'
  <2>1. AimedRun(q) /\ \A a, b \in waiting[q] : a = b
    BY DEF Aimed, AimedRun, PathsOK
  <2>2. \/ reply'[q] = reply[q]
        \/ \A n \in waiting[q] : \A u :
             reply'[q].status = "ok" /\ reply'[q].uuid = u /\ n.verb = "create" =>
               Names(u, KeyOf(n.res))'
    <3>1. CASE reply'[q] = reply[q]
      BY <3>1
    <3>2. CASE reply'[q] # reply[q]
      <4>1. q = m.run /\ m \in waiting[q]
        BY <1>2, <3>2
      <4>2. \A n \in waiting[q] : n = m
        BY <2>1, <4>1
      <4> QED BY <1>2, <4>1, <4>2
    <3> QED BY <3>1, <3>2
  <2> QED BY <1>2, <2>1, <2>2, SteadyRun DEF runVars, progressVars, engineVars
<1> QED BY <1>2, <1>3, <1>4 DEF Aimed

\* When only the dashboard moves, or nothing does.
LEMMA OthersAimed ==
  ASSUME Aimed, Steady, Numbered',
         UNCHANGED <<net, seen, waiting, reply, resolved, comparing, plan>>
  PROVE  Aimed'
<1>1. \A u, k : Names(u, k) => Names(u, k)'
  BY SteadyNames
<1>2. RememberedOK'
  BY <1>1 DEF Aimed, RememberedOK
<1>3. \A n \in net' : PathOK(n)'
  BY SteadyPath DEF Aimed
<1>4. \A q \in Runs : AimedRun(q)'
  BY SteadyRun DEF Aimed
<1> QED BY <1>2, <1>3, <1>4 DEF Aimed

LEMMA DashboardAimed ==
  ASSUME Inv, Aimed, Dashboard, UNCHANGED runVars
  PROVE  Aimed'
<1>1. Steady /\ Numbered'
  BY DashboardSteady DEF Inv, Aimed
<1> QED BY <1>1, OthersAimed DEF Dashboard, runVars, progressVars, engineVars

-----------------------------------------------------------------------------
(* The runs.                                                               *)

LEMMA StillSteady ==
  ASSUME TypeOK, Numbered, UNCHANGED <<remote, issued>>
  PROVE  Steady /\ Numbered'
BY DEF TypeOK, CoolifyTypeOK, Steady, Numbered, SameFace

LEMMA StutterAimed == Inv /\ Aimed /\ UNCHANGED vars => Aimed'
<1> SUFFICES ASSUME Inv, Aimed, UNCHANGED vars PROVE Aimed'
  OBVIOUS
<1>1. UNCHANGED <<remote, issued, net, seen, waiting, reply, resolved, comparing, plan>>
  BY DEF vars, serverVars, runVars, progressVars, engineVars
<1>2. Steady /\ Numbered'
  BY <1>1, StillSteady DEF Inv, Aimed
<1> QED BY <1>1, <1>2, OthersAimed

\* A step of run r that leaves the server's objects alone.
LEMMA OwnAimed ==
  ASSUME Inv, Aimed, NEW r \in Runs, UNCHANGED <<remote, issued, seen>>,
         \A m \in net' : m \in net \/ PathOK(m),
         \A q \in Runs \ {r} :
           /\ resolved'[q] = resolved[q] /\ waiting'[q] = waiting[q] /\ reply'[q] = reply[q]
           /\ comparing'[q] = comparing[q] /\ plan'[q] = plan[q],
         AimedRun(r)'
  PROVE  Aimed'
<1>1. Steady /\ Numbered'
  BY StillSteady DEF Inv, Aimed
<1>2. \A u, k : Names(u, k) => Names(u, k)'
  BY <1>1, SteadyNames
<1>3. RememberedOK'
  BY <1>2 DEF Aimed, RememberedOK
<1>4. \A m \in net' : PathOK(m)'
  BY <1>1, SteadyPath DEF Aimed
<1>5. \A q \in Runs \ {r} : AimedRun(q)'
  BY <1>1, SteadyRun DEF Aimed
<1> QED BY <1>1, <1>3, <1>4, <1>5 DEF Aimed

\* The parts of AimedRun that a step which does not concern them keeps.
LEMMA AimedParts ==
  ASSUME Inv, Aimed, NEW r \in Runs, UNCHANGED <<remote, issued>>
  PROVE  /\ \A u, k : Names(u, k)' <=> Names(u, k)
         /\ \A m : PathOK(m)' <=> PathOK(m)
         /\ waiting'[r] = waiting[r] /\ reply'[r] = reply[r] => PathsOK(r)'
         /\ waiting'[r] = {} => PathsOK(r)'
         /\ resolved'[r] = resolved[r] => ResolvedOK(r)'
         /\ comparing'[r] = comparing[r] /\ plan'[r] = plan[r] => UpdatesOK(r)'
<1>0. PathsOK(r) /\ ResolvedOK(r) /\ UpdatesOK(r)
  BY DEF Aimed, AimedRun
<1>1. \A u, k : Names(u, k)' <=> Names(u, k)
  BY DEF Names
<1>2. \A m : PathOK(m)' <=> PathOK(m)
  BY <1>1 DEF PathOK
<1>3. waiting'[r] = waiting[r] /\ reply'[r] = reply[r] => PathsOK(r)'
  BY <1>0, <1>1, <1>2 DEF PathsOK
<1>4. waiting'[r] = {} => PathsOK(r)'
  BY DEF PathsOK
<1>5. resolved'[r] = resolved[r] => ResolvedOK(r)'
  BY <1>0, <1>1 DEF ResolvedOK
<1>6. comparing'[r] = comparing[r] /\ plan'[r] = plan[r] => UpdatesOK(r)'
  BY <1>0 DEF UpdatesOK
<1> QED BY <1>1, <1>2, <1>3, <1>4, <1>5, <1>6

\* What a listing teaches names what was listed.
LEMMA LearnAimed ==
  ASSUME Inv, Aimed, NEW r \in Runs, NEW objs \in SUBSET remote, Learn(r, objs),
         UNCHANGED <<remote, issued>>
  PROVE  ResolvedOK(r)' /\ \A q \in Runs \ {r} : resolved'[q] = resolved[q]
<1>0. TypeOK /\ Numbered /\ ResolvedOK(r)
  BY DEF Inv, Aimed, AimedRun
<1>1. \A u, k : Names(u, k)' <=> Names(u, k)
  BY AimedParts
<1> SUFFICES ASSUME NEW k \in Keys, NEW u \in Uuids, resolved'[r][k] = u
             PROVE  Names(u, k)
  BY <1>0, <1>1, LearnFacts DEF ResolvedOK
<1>2. CASE resolved'[r][k] = resolved[r][k]
  BY <1>0, <1>2 DEF ResolvedOK
<1>3. CASE \E o \in objs : KeyOf(o) = k /\ resolved'[r][k] = o.uuid
  <2>1. PICK o \in objs : KeyOf(o) = k /\ u = o.uuid
    BY <1>3
  <2>2. o.uuid \in 1 .. issued /\ \A q \in remote : o.uuid = q.uuid => o = q
    BY <1>0, NumberedUuids DEF Numbered
  <2> QED BY <2>1, <2>2 DEF Names
<1> QED BY <1>0, <1>2, <1>3, LearnFacts

LEMMA ListingAimed ==
  ASSUME Inv, Aimed, NEW r \in Runs,
         \/ ListProjects(r) \/ ListEnvironments(r) \/ ListServers(r)
         \/ ListApplications(r) \/ ListServices(r) \/ ScanServer(r)
  PROVE  Aimed'
<1>1. UNCHANGED <<serverVars, comparing, plan>>
  BY DEF ListProjects, ListEnvironments, ListServers, ListApplications, ListServices,
         ListChildren, ScanServer, engineVars
<1>2. resolved' = resolved \/ \E objs \in SUBSET remote : Learn(r, objs)
  BY DEF ListProjects, ListEnvironments, ListServers, ListApplications, ListServices,
         ListChildren, ScanServer
<1>3. ResolvedOK(r)' /\ \A q \in Runs \ {r} : resolved'[q] = resolved[q]
  BY <1>1, <1>2, AimedParts, LearnAimed DEF serverVars
<1>4. AimedRun(r)'
  BY <1>1, <1>3, AimedParts DEF AimedRun, serverVars
<1> QED BY <1>1, <1>3, <1>4, OwnAimed DEF serverVars

\* A plan updates applications and databases only.
LEMMA PlanningAimed ==
  ASSUME Inv, Aimed, NEW r \in Runs, Load(r) \/ Compare(r)
  PROVE  Aimed'
<1>0. TypeOK /\ UpdatesOK(r) /\ UNCHANGED <<serverVars, resolved>>
  BY DEF Inv, Aimed, AimedRun, Load, Compare
<1>1. UpdatesOK(r)' /\ \A q \in Runs \ {r} : comparing'[q] = comparing[q] /\ plan'[q] = plan[q]
  <2>1. CASE Load(r) /\ UNCHANGED <<plan, comparing>>
    BY <1>0, <2>1 DEF UpdatesOK
  <2>2. CASE Load(r) /\ ~UNCHANGED <<plan, comparing>>
    <3>1. PICK P \in {Deletions(r), Creations(r)}, C \in SUBSET {x \in Wanted(cmd[r]) : x.kind \in Diffed} :
            plan' = [plan EXCEPT ![r] = P] /\ comparing' = [comparing EXCEPT ![r] = C]
      BY <2>2 DEF Load
    <3>2. /\ plan'[r] = P /\ comparing'[r] = C
          /\ \A q \in Runs \ {r} : comparing'[q] = comparing[q] /\ plan'[q] = plan[q]
      BY <1>0, <3>1 DEF TypeOK
    <3> QED BY <3>1, <3>2 DEF UpdatesOK, Deletions, Creations
  <2>3. CASE Compare(r)
    <3>1. PICK x \in comparing[r], o \in remote :
            /\ plan' = [plan EXCEPT ![r] =
                 @ \cup (IF o.spec = "ok" THEN {} ELSE {[verb |-> "update", res |-> x]})]
            /\ comparing' = [comparing EXCEPT ![r] = @ \ {x}]
      BY <2>3 DEF Compare
    <3>2. PICK S : S = (IF o.spec = "ok" THEN {} ELSE {[verb |-> "update", res |-> x]})
      OBVIOUS
    <3>3. plan' = [plan EXCEPT ![r] = @ \cup S] /\ \A op \in S : op.res = x
      BY <3>1, <3>2
    <3>4. /\ plan'[r] = plan[r] \cup S /\ comparing'[r] = comparing[r] \ {x}
          /\ \A q \in Runs \ {r} : comparing'[q] = comparing[q] /\ plan'[q] = plan[q]
      BY <1>0, <3>1, <3>3 DEF TypeOK
    <3> QED BY <1>0, <3>1, <3>3, <3>4 DEF UpdatesOK
  <2> QED BY <2>1, <2>2, <2>3
<1>2. AimedRun(r)'
  BY <1>0, <1>1, AimedParts DEF AimedRun, serverVars
<1> QED BY <1>0, <1>1, <1>2, OwnAimed DEF serverVars

\* Steps that send nothing and learn nothing.
LEMMA EndAimed ==
  ASSUME Inv, Aimed, NEW r \in Runs,
         \/ Start(r) \/ RefuseMove(r) \/ ReadFails(r) \/ Planned(r) \/ Answers(r)
         \/ Unresolvable(r) \/ Rejected(r) \/ GiveUp(r) \/ Record(r) \/ RecordFails(r)
         \/ Finish(r) \/ Crash(r)
  PROVE  Aimed'
<1>1. /\ UNCHANGED <<remote, issued, seen, net, resolved, comparing, plan>>
      /\ UNCHANGED <<waiting, reply>> \/ HangUp(r)
  BY DEF Start, RefuseMove, ReadFails, Planned, Answers, Unresolvable, Rejected, GiveUp, Record,
         RecordFails, Finish, Crash, serverVars, progressVars, engineVars
<1>2. /\ waiting'[r] = {} \/ (waiting'[r] = waiting[r] /\ reply'[r] = reply[r])
      /\ \A q \in Runs \ {r} : waiting'[q] = waiting[q] /\ reply'[q] = reply[q]
  BY <1>1 DEF HangUp, Inv, TypeOK, CoolifyTypeOK
<1>3. AimedRun(r)'
  BY <1>1, <1>2, AimedParts DEF AimedRun
<1> QED BY <1>1, <1>2, <1>3, OwnAimed

\* A request over a new connection.
LEMMA SendAimed ==
  ASSUME Inv, Aimed, NEW r \in Runs, NEW m, m.run = r, PathOK(m), Send(m),
         UNCHANGED <<remote, issued, seen, comparing, plan>>,
         ResolvedOK(r)', \A q \in Runs \ {r} : resolved'[q] = resolved[q]
  PROVE  Aimed'
<1>1. /\ net' = net \cup {m} /\ waiting' = [waiting EXCEPT ![r] = {m}]
      /\ reply' = [reply EXCEPT ![r] = NoReply]
  BY DEF Send
<1>2. /\ waiting'[r] = {m} /\ reply'[r] = NoReply
      /\ \A q \in Runs \ {r} : waiting'[q] = waiting[q] /\ reply'[q] = reply[q]
  BY <1>1 DEF Inv, TypeOK, CoolifyTypeOK
<1>3. PathsOK(r)'
  <2>1. PathOK(m)'
    BY AimedParts
  <2> QED BY <1>2, <2>1 DEF PathsOK, NoReply
<1>4. AimedRun(r)'
  BY <1>3, AimedParts DEF AimedRun
<1> QED BY <1>1, <1>2, <1>4, OwnAimed

\* The engine takes the path of a request from what the run has resolved.
LEMMA BeginAimed ==
  ASSUME Inv, Aimed, NEW r \in Runs, Begin(r)
  PROVE  Aimed'
<1>0. /\ TypeOK /\ ResolvedOK(r) /\ UpdatesOK(r)
      /\ UNCHANGED <<remote, issued, seen, resolved, comparing, plan>>
  BY DEF Inv, Aimed, AimedRun, Begin, progressVars
<1>1. PICK op \in plan[r] :
        Sendable(r, op) /\ Send(FirstTry(r, op, op.verb, At(r, op)))
  BY DEF Begin, Foremost
<1>2. op \in Ops /\ op.res \in Targets /\ op.verb \in {"create", "update", "delete"}
  BY <1>0 DEF TypeOK, Ops
<1>3. PICK m : m = FirstTry(r, op, op.verb, At(r, op))
  OBVIOUS
<1>4. m.run = r /\ m.verb = op.verb /\ m.res = op.res /\ m.at = At(r, op)
  BY <1>3 DEF FirstTry
<1>5. \A k \in Keys : resolved[r][k] # None => Names(resolved[r][k], k)
  BY <1>0 DEF ResolvedOK, TypeOK
<1>6. KeyOf(op.res) \in Keys /\ ProjectKey(op.res.project) \in Keys
  BY <1>2, KeysCover
<1>7. PathOK(m)
  <2>1. CASE op.verb = "create" /\ op.res.kind = "Project"
    <3>1. At(r, op) = None
      BY <2>1 DEF At
    <3> QED BY <1>4, <2>1, <3>1 DEF PathOK
  <2>2. CASE op.verb = "create" /\ op.res.kind # "Project"
    <3>1. At(r, op) = resolved[r][ProjectKey(op.res.project)]
      BY <2>2 DEF At
    <3>2. At(r, op) # None /\ (op.res.kind # "Environment" => op.res.server \in Servers)
      BY <1>1, <2>2 DEF Sendable
    <3> QED BY <1>4, <1>5, <1>6, <2>2, <3>1, <3>2 DEF PathOK
  <2>3. CASE op.verb # "create" /\ op.res.kind # "Environment"
    <3>1. At(r, op) = resolved[r][KeyOf(op.res)]
      BY <2>3 DEF At
    <3> QED BY <1>4, <1>5, <1>6, <2>3, <3>1 DEF PathOK
  <2>4. CASE op.verb # "create" /\ op.res.kind = "Environment"
    <3>1. op.verb = "delete"
      BY <1>0, <1>1, <1>2, <2>4 DEF UpdatesOK, Diffed
    <3> QED BY <1>4, <2>4, <3>1 DEF PathOK
  <2> QED BY <2>1, <2>2, <2>3, <2>4
<1>8. ResolvedOK(r)'
  BY <1>0, AimedParts
<1> QED BY <1>0, <1>1, <1>3, <1>4, <1>7, <1>8, SendAimed

\* A retry repeats the request.
LEMMA RetryAimed ==
  ASSUME Inv, Aimed, NEW r \in Runs, Retry(r)
  PROVE  Aimed'
<1>0. /\ PathsOK(r) /\ UNCHANGED <<remote, issued, seen, resolved, comparing, plan>>
  BY DEF Aimed, AimedRun, Retry, runVars, progressVars, engineVars
<1>1. PICK m \in waiting[r] : Send([m EXCEPT !.try = @ + 1])
  BY DEF Retry
<1>2. m \in Requests /\ m.run = r /\ PathOK(m)
  BY <1>0 DEF Inv, Accounted, TypeOK, CoolifyTypeOK, PathsOK
<1>3. PICK n : n = [m EXCEPT !.try = @ + 1]
  OBVIOUS
<1>4. n.run = r /\ n.verb = m.verb /\ n.res = m.res /\ n.at = m.at
  BY <1>2, <1>3 DEF Requests
<1>5. PathOK(n)
  BY <1>2, <1>4 DEF PathOK
<1>6. ResolvedOK(r)'
  BY <1>0, AimedParts
<1> QED BY <1>0, <1>1, <1>3, <1>4, <1>5, <1>6, SendAimed

\* The answer to a create names what the run takes it for.
LEMMA AnswerAimed ==
  ASSUME Inv, Aimed, NEW r \in Runs, phase[r] = "sent", reply[r].status = "ok",
         LearnCreated(r), UNCHANGED <<remote, issued>>
  PROVE  ResolvedOK(r)' /\ \A q \in Runs \ {r} : resolved'[q] = resolved[q]
<1>0. TypeOK /\ PathsOK(r) /\ ResolvedOK(r)
  BY DEF Inv, Aimed, AimedRun
<1>1. CASE ~\E m \in waiting[r] : m.verb = "create"
  <2>1. resolved' = resolved
    BY <1>1 DEF LearnCreated
  <2> QED BY <2>1, AimedParts
<1>2. CASE \E m \in waiting[r] : m.verb = "create"
  <2>1. PICK m \in waiting[r] : m.verb = "create"
    BY <1>2
  <2>2. resolved' = [resolved EXCEPT ![r] = [k \in Keys |->
          IF \E op \in cur[r] : k = KeyOf(op.res) THEN reply[r].uuid ELSE resolved[r][k]]]
    BY <1>0, <1>2 DEF LearnCreated, TypeOK
  <2>3. /\ \A q \in Runs \ {r} : resolved'[q] = resolved[q]
        /\ \A k \in Keys : resolved'[r][k] =
             IF \E op \in cur[r] : k = KeyOf(op.res) THEN reply[r].uuid ELSE resolved[r][k]
    BY <1>0, <2>2 DEF TypeOK
  <2>4. \A op \in cur[r] : op.res = m.res
    <3>1. OpOf(m) \in cur[r] /\ OpOf(m).res = m.res
      BY <2>1 DEF Inv, Accounted, OpOf
    <3>2. \A a, b \in cur[r] : a = b
      BY DEF Inv, OneAtATime
    <3> QED BY <3>1, <3>2
  <2>5. \A u : reply[r].uuid = u => Names(u, KeyOf(m.res))
    BY <1>0, <2>1 DEF PathsOK
  <2>6. \A u, k : Names(u, k)' <=> Names(u, k)
    BY AimedParts
  <2> SUFFICES ASSUME NEW k \in Keys, NEW u \in Uuids, resolved'[r][k] = u
               PROVE  Names(u, k)
    BY <2>3, <2>6 DEF ResolvedOK
  <2>7. CASE \E op \in cur[r] : k = KeyOf(op.res)
    BY <2>3, <2>4, <2>5, <2>7
  <2>8. CASE ~\E op \in cur[r] : k = KeyOf(op.res)
    BY <1>0, <2>3, <2>8 DEF ResolvedOK
  <2> QED BY <2>7, <2>8
<1> QED BY <1>1, <1>2

LEMMA AnsweredAimed ==
  ASSUME Inv, Aimed, NEW r \in Runs, Acknowledge(r) \/ SendVariables(r)
  PROVE  Aimed'
<1>0. /\ TypeOK /\ PathsOK(r) /\ phase[r] = "sent" /\ reply[r].status = "ok" /\ LearnCreated(r)
      /\ UNCHANGED <<remote, issued, seen, comparing, plan>>
  BY DEF Inv, Aimed, AimedRun, Acknowledge, SendVariables, engineVars
<1>1. ResolvedOK(r)' /\ \A q \in Runs \ {r} : resolved'[q] = resolved[q]
  BY <1>0, AnswerAimed
<1>2. CASE Acknowledge(r)
  <2>1. net' = net /\ HangUp(r)
    BY <1>2 DEF Acknowledge
  <2>2. waiting'[r] = {} /\ \A q \in Runs \ {r} : waiting'[q] = waiting[q] /\ reply'[q] = reply[q]
    BY <1>0, <2>1 DEF HangUp, TypeOK, CoolifyTypeOK
  <2>3. AimedRun(r)'
    BY <1>0, <1>1, <2>2, AimedParts DEF AimedRun
  <2> QED BY <1>0, <1>1, <2>1, <2>2, <2>3, OwnAimed
<1>3. CASE SendVariables(r)
  <2>1. PICK op \in cur[r] : Send(FirstTry(r, op, "envs", reply[r].uuid))
    BY <1>3 DEF SendVariables
  <2>2. PICK m \in waiting[r] : m.verb = "create"
    BY <1>3 DEF SendVariables, NeedsVariables
  <2>3. op.res = m.res
    <3>1. OpOf(m) \in cur[r] /\ OpOf(m).res = m.res
      BY <2>2 DEF Inv, Accounted, OpOf
    <3>2. \A a, b \in cur[r] : a = b
      BY DEF Inv, OneAtATime
    <3> QED BY <2>1, <3>1, <3>2
  <2>4. PICK n : n = FirstTry(r, op, "envs", reply[r].uuid)
    OBVIOUS
  <2>5. n.run = r /\ n.verb = "envs" /\ n.res = m.res /\ n.at = reply[r].uuid
    BY <2>3, <2>4 DEF FirstTry
  <2>6. PathOK(n)
    <3>1. Names(n.at, KeyOf(n.res))
      BY <1>0, <2>2, <2>5 DEF PathsOK
    <3> QED BY <2>5, <3>1 DEF PathOK
  <2> QED BY <1>0, <1>1, <2>1, <2>4, <2>5, <2>6, SendAimed
<1> QED BY <1>2, <1>3

LEMMA InitAimed ==
  ASSUME Init, NumberedSeeds
  PROVE  Aimed
<1>1. remote \in Seeds /\ issued = Cardinality(remote) /\ seen = {} /\ net = {}
  BY DEF Init, CoolifyInit
<1>2. Numbered
  BY <1>1 DEF NumberedSeeds, Numbered
<1>3. ASSUME NEW r \in Runs PROVE AimedRun(r)
  <2>1. /\ waiting[r] = {} /\ comparing[r] = {} /\ plan[r] = {}
        /\ resolved[r] = [k \in Keys |-> None]
    BY DEF Init, CoolifyInit
  <2>2. ResolvedOK(r)
    BY <2>1 DEF ResolvedOK, Uuids, None
  <2> QED BY <2>1, <2>2 DEF AimedRun, PathsOK, UpdatesOK
<1> QED BY <1>1, <1>2, <1>3 DEF Aimed, RememberedOK

LEMMA NextAimed ==
  ASSUME Inv, Aimed, [Next]_vars
  PROVE  Aimed'
<1>1. CASE UNCHANGED vars
  BY <1>1, StutterAimed
<1>2. CASE Serve /\ UNCHANGED runVars
  BY <1>2, ServeAimed
<1>3. CASE Dashboard /\ UNCHANGED runVars
  BY <1>3, DashboardAimed
<1>4. ASSUME NEW r \in Runs, Start(r) \/ Proceed(r) \/ Answers(r) \/ Crash(r)
      PROVE  Aimed'
  BY <1>4, ListingAimed, PlanningAimed, BeginAimed, RetryAimed, AnsweredAimed, EndAimed DEF Proceed
<1> QED BY <1>1, <1>2, <1>3, <1>4 DEF Next

-----------------------------------------------------------------------------
(* Where objects come from, and who is asked to change them.               *)

\* An object was there from the start, or some declared resource describes it.
Origins ==
  \A o \in remote : \E x \in Targets \cup UNION Seeds :
    x.kind = o.kind /\ x.name = o.name /\ x.environment = o.environment

\* A run's steps leave the objects alone and recall no request.
LEMMA RunsOnlyAsk ==
  ASSUME NEW r \in Runs, Start(r) \/ Proceed(r) \/ Answers(r) \/ Crash(r)
  PROVE  UNCHANGED <<remote, issued, cmd>> /\ net \subseteq net'
<1>1. CASE Start(r) \/ Answers(r) \/ Crash(r)
  BY <1>1 DEF Start, Answers, Crash, serverVars
<1>2. CASE ListProjects(r) \/ ListEnvironments(r) \/ ListServers(r)
           \/ ListApplications(r) \/ ListServices(r) \/ ScanServer(r)
  BY <1>2 DEF ListProjects, ListEnvironments, ListServers, ListApplications, ListServices,
              ListChildren, ScanServer, serverVars
<1>3. CASE Load(r) \/ Compare(r) \/ RefuseMove(r) \/ ReadFails(r) \/ Planned(r)
           \/ Unresolvable(r) \/ Record(r) \/ RecordFails(r) \/ Finish(r)
  BY <1>3 DEF Load, Compare, RefuseMove, ReadFails, Planned, Unresolvable, Record, RecordFails,
              Finish, serverVars
<1>4. CASE Begin(r) \/ Acknowledge(r) \/ SendVariables(r) \/ Rejected(r) \/ Retry(r) \/ GiveUp(r)
  BY <1>4 DEF Begin, Acknowledge, SendVariables, Rejected, Retry, GiveUp, Send, runVars
<1> QED BY <1>1, <1>2, <1>3, <1>4 DEF Proceed

LEMMA InitOrigins == Init => Origins
BY DEF Init, CoolifyInit, Origins

LEMMA NextOrigins ==
  ASSUME Inv, Aimed, Origins, [Next]_vars
  PROVE  Origins'
<1>1. CASE UNCHANGED remote
  BY <1>1 DEF Origins
<1>2. ASSUME Steady, \A o \in remote' : ~(o.uuid > issued) PROVE Origins'
  <2> SUFFICES ASSUME NEW o \in remote'
               PROVE  \E x \in Targets \cup UNION Seeds :
                        x.kind = o.kind /\ x.name = o.name /\ x.environment = o.environment
    BY DEF Origins
  <2>1. PICK q \in remote : SameFace(q, o)
    BY <1>2 DEF Steady
  <2> QED BY <2>1 DEF Origins, SameFace
<1>3. CASE Dashboard
  <2>1. Steady /\ Numbered' /\ issued' = issued /\ issued \in Nat
    BY <1>3, DashboardSteady DEF Inv, Aimed, Dashboard, TypeOK, CoolifyTypeOK
  <2>2. TypeOK'
    BY NextType DEF Inv
  <2>3. \A o \in remote' : ~(o.uuid > issued)
    BY <2>1, <2>2, CoolifyType DEF Numbered, TypeOK, CoolifyTypeOK, Objects, Uuids
  <2> QED BY <1>2, <2>1, <2>3
<1>4. CASE Serve
  <2>1. PICK m \in net : Handle(m)
    BY <1>4 DEF Serve
  <2>2. CASE CreateObject(m)
    <3>1. PICK p \in Parents(m) : remote' = remote \cup {Created(m, issued + 1, p)}
      BY <2>2 DEF CreateObject
    <3>2. PICK n : n = Created(m, issued + 1, p)
      OBVIOUS
    <3>3. /\ remote' = remote \cup {n} /\ m.res \in Targets
          /\ n.kind = m.res.kind /\ n.name = m.res.name /\ n.environment = m.res.environment
      BY <3>1, <3>2 DEF Created, Inv, TypeOK, CoolifyTypeOK, Requests
    <3> QED BY <3>3 DEF Origins
  <2>3. CASE ~CreateObject(m)
    <3>1. Steady /\ Numbered' /\ issued' = issued /\ issued \in Nat
      BY <2>1, <2>3, TameSteady DEF Inv, Aimed, Handle, ChangeObject, RemoveObject, AlreadyGone,
         ReplayAnswer, RefuseRequest, TypeOK, CoolifyTypeOK
    <3>2. TypeOK'
      BY NextType DEF Inv
    <3>3. \A o \in remote' : ~(o.uuid > issued)
      BY <3>1, <3>2, CoolifyType DEF Numbered, TypeOK, CoolifyTypeOK, Objects, Uuids
    <3> QED BY <1>2, <3>1, <3>3
  <2> QED BY <2>2, <2>3
<1>5. ASSUME NEW r \in Runs, Start(r) \/ Proceed(r) \/ Answers(r) \/ Crash(r) PROVE Origins'
  BY <1>1, <1>5, RunsOnlyAsk
<1> QED BY <1>1, <1>3, <1>4, <1>5 DEF Next, vars, serverVars

\* What a run works on is in its scope, also once it is bound.
LEMMA WantedInScope ==
  ASSUME PlainSelections, cmd \in Scripts, NEW r \in Runs, NEW x \in Wanted(cmd[r])
  PROVE  InScope(x, cmd[r])
<1>1. CASE x \in Selected(cmd[r])
  BY <1>1 DEF Selected
<1>2. CASE x \notin Selected(cmd[r])
  <2>1. PICK y \in Selected(cmd[r]) : x = Bound(y)
    BY <1>2 DEF Wanted
  <2>2. InScope(y, cmd[r]) /\ y \in Resources
    BY DeclaredType DEF Selected
  <2>3. y.environment \in cmd[r].envs => Value(y.environment) = y.environment
    BY DEF PlainSelections, Value
  <2> QED BY <2>1, <2>2, <2>3 DEF Bound, InScope, MatchesEnv, EnvOf, Resources
<1> QED BY <1>1, <1>2

\* A request is about something its run works on.
LEMMA AskedFor ==
  ASSUME Inv, NEW m \in net
  PROVE  m.run \in Runs /\ m.res \in Wanted(cmd[m.run]) /\ m.res \in Targets
<1>1. m.run \in Runs /\ m.res \in Targets
  BY DEF Inv, TypeOK, CoolifyTypeOK, Requests
<1>2. OpOf(m) \in plan[m.run]
  BY <1>1 DEF Inv, Accounted, OneAtATime
<1> QED BY <1>1, <1>2 DEF Inv, Asked, OpOf

\* What a request that changes or deletes something reaches is in scope.
LEMMA ReachesInScope ==
  ASSUME Inv, Aimed, Origins, PlainSelections, DatabasesApart, cmd \in Scripts,
         NEW m \in net, m.verb # "create", NEW o \in Addressed(m)
  PROVE  InScope(o, cmd[m.run])
<1>1. m.run \in Runs /\ m.res \in Targets /\ InScope(m.res, cmd[m.run])
  BY AskedFor, WantedInScope
<1>2. CASE m.verb = "delete" /\ m.res.kind = "Environment"
  <2>1. o.kind = "Environment" /\ o.name = m.res.name
    BY <1>2 DEF Addressed
  <2> QED BY <1>1, <1>2, <2>1 DEF InScope, EnvOf
<1>3. CASE ~(m.verb = "delete" /\ m.res.kind = "Environment")
  <2>1. o \in remote /\ o.uuid = m.at
    BY <1>3 DEF Addressed
  <2>2. m.at # None
    BY <2>1, NumberedUuids DEF Inv, Aimed, None
  <2>3. KeyOf(o) = KeyOf(m.res)
    BY <1>3, <2>1, <2>2 DEF Aimed, PathOK, Names
  <2>4. o.kind = m.res.kind /\ o.name = m.res.name
    BY <2>3 DEF KeyOf, Key
  <2>5. CASE o.kind # "Database"
    <3>1. o.environment = m.res.environment
      BY <2>3, <2>4, <2>5 DEF KeyOf, Key
    <3> QED BY <1>1, <2>4, <3>1 DEF InScope, EnvOf
  <2>6. CASE o.kind = "Database"
    <3>1. PICK x \in Targets \cup UNION Seeds :
            x.kind = o.kind /\ x.name = o.name /\ x.environment = o.environment
      BY <2>1 DEF Origins
    <3>2. x.environment = m.res.environment
      BY <1>1, <2>4, <2>6, <3>1 DEF DatabasesApart
    <3> QED BY <1>1, <2>4, <2>6, <3>1, <3>2 DEF InScope, EnvOf
  <2> QED BY <2>5, <2>6
<1> QED BY <1>2, <1>3

LEMMA StepInScope ==
  ASSUME Inv, Aimed, Origins, PlainSelections, DatabasesApart, cmd \in Scripts, [Next]_vars
  PROVE  \A m \in net \ net', o \in remote \ remote' : InScope(o, cmd[m.run])
<1> SUFFICES ASSUME NEW m \in net \ net', NEW o \in remote \ remote'
             PROVE  InScope(o, cmd[m.run])
  OBVIOUS
<1>1. Serve
  <2>1. net' # net /\ remote' # remote
    OBVIOUS
  <2> QED BY <2>1, RunsOnlyAsk DEF Next, vars, serverVars, Dashboard
<1>2. PICK k \in net : Handle(k)
  BY <1>1 DEF Serve
<1>3. net' = net \ {k}
  BY <1>2, HandleSteady DEF Inv, Aimed
<1>4. m = k
  BY <1>3
<1>5. m.verb # "create" /\ o \in Addressed(m)
  BY <1>2, <1>4 DEF Handle, CreateObject, ChangeObject, RemoveObject, AlreadyGone,
     ReplayAnswer, RefuseRequest
<1> QED BY <1>5, ReachesInScope

\* A run never changes or deletes an object outside its --env, however late a
\* request of it is handled, whatever other runs, the dashboard and the network
\* do meanwhile, and whether or not the server honours Idempotency-Key
\* (filterByEnv, ResourceKey, Engine.Apply).
THEOREM StaysInScope ==
  ASSUME NumberedSeeds, PlainSelections, DatabasesApart
  PROVE  Spec => ChangesStayInScope
<1>1. Init => Aimed /\ Origins /\ cmd \in Scripts
  BY InitAimed, InitOrigins DEF Init
<1>2. Inv /\ Aimed /\ Origins /\ cmd \in Scripts /\ [Next]_vars
        => (Aimed /\ Origins /\ cmd \in Scripts)'
  <2> SUFFICES ASSUME Inv, Aimed, Origins, cmd \in Scripts, [Next]_vars
               PROVE  (Aimed /\ Origins /\ cmd \in Scripts)'
    OBVIOUS
  <2>1. cmd' = cmd
    BY RunsOnlyAsk DEF Next, vars, runVars
  <2> QED BY <2>1, NextAimed, NextOrigins
<1>3. Inv /\ Aimed /\ Origins /\ cmd \in Scripts /\ [Next]_vars
        => [\A m \in net \ net', o \in remote \ remote' : InScope(o, cmd[m.run])]_vars
  BY StepInScope
<1> QED BY <1>1, <1>2, <1>3, Invariance, PTL DEF Spec, ChangesStayInScope
=============================================================================
