-------------------------- MODULE DuplicateProofs --------------------------
(***************************************************************************)
(* No two objects of one key: a proof for every manifest whose resources   *)
(* have different keys, every instance in good order, any number of runs   *)
(* at a time and any mix of retries, late requests, lost answers, crashes   *)
(* and changes at the dashboard, at a server that honours Idempotency-Key. *)
(*                                                                         *)
(* A key is created once by requests, because the second request for it    *)
(* repeats a key of the server's: the body is the resource, and the path    *)
(* names the same project as long as the first object is alive.  And it is *)
(* not created by a request when the instance had it from the start: the   *)
(* run that plans to create it has listed everything, and what a run lists *)
(* is all there was and more.                                              *)
(***************************************************************************)
EXTENDS ReconcilerProofs

-----------------------------------------------------------------------------
(* The inductive invariant.                                                *)

\* A request has created o.
Made(o) == \E s \in seen : s.key.verb = "create" /\ s.uuid = o.uuid

\* o was created in the project with uuid at.
Under(o, at) ==
  /\ o.kind = "Project" => at = None
  /\ o.kind = "Environment" => o.parent = at
  /\ o.kind \notin {"Project", "Environment"} =>
       \E q \in remote : q.kind = "Environment" /\ q.uuid = o.parent /\ q.parent = at

\* An answer the server remembers is about the object it created.
SeenOK(s) ==
  s.key.verb = "create" =>
    /\ s.uuid \in 1 .. issued
    /\ s.key.about \in Targets
    /\ \A o \in remote : o.uuid = s.uuid =>
         /\ KeyOf(o) = KeyOf(s.key.about)
         /\ o.project = s.key.about.project
         /\ Under(o, s.key.at)

World ==
  /\ NoDuplicates
  /\ InGoodOrder(remote, issued)
  /\ \A s \in seen : SeenOK(s)
  /\ \A o, q \in remote : o.parent = q.uuid /\ Made(q) => Made(o)

\* Uuid u is that of the project of this name, while it is alive.
ProjectAt(u, name) ==
  /\ u \in 1 .. issued
  /\ \A o \in remote : o.uuid = u => o.kind = "Project" /\ o.name = name

\* Nothing but a request can have created x.
Fresh(x) == \A o \in remote : KeyOf(o) = KeyOf(x) => Made(o)

RequestOK(m) ==
  m.verb = "create" =>
    /\ Fresh(m.res)
    /\ m.res.kind = "Project" => m.at = None
    /\ m.res.kind # "Project" => ProjectAt(m.at, m.res.project)
    /\ m.res.kind = "Database" => m.res.server \in Servers

\* The open connection of run r, and the answer on its way.
ConnectionOK(r) ==
  /\ \A m, n \in waiting[r] : m = n
  /\ \A m \in waiting[r] :
       /\ RequestOK(m)
       /\ reply[r].status = "ok" /\ m.verb = "create" =>
            [key |-> IdempotencyKey(m), uuid |-> reply[r].uuid] \in seen

\* The projects run r knows are the ones they are known for.
KnowsOK(r) ==
  \A x \in Targets :
    LET u == resolved[r][ProjectKey(x.project)]
    IN u # None => ProjectAt(u, x.project)

\* What run r will still list.
Stored(r, o) == o.kind = "Database" /\ o.server \in scanning[r]

Ahead(r, o) ==
  CASE phase[r] = "projects" -> TRUE
    [] phase[r] = "envs" ->
         o.kind \notin {"Project", "Environment"} \/ (o.kind = "Environment" /\ o.parent \in listing[r])
    [] phase[r] = "apps" -> o.kind \in {"Application", "Service"} \/ Stored(r, o)
    [] phase[r] = "services" -> o.kind = "Service" \/ Stored(r, o)
    [] phase[r] = "databases" -> Stored(r, o)
    [] OTHER -> FALSE

\* Whatever no request created is known to a run that reads, or still ahead of it.
ListsOK(r) ==
  cmd[r].online /\ phase[r] \in Reading =>
    \A o \in remote : ~Made(o) =>
      /\ KeyOf(o) \in Keys => resolved[r][KeyOf(o)] # None \/ Ahead(r, o)
      /\ o.kind = "Environment" => o.uuid \in envRefs[r] \/ Ahead(r, o)

PlanOK(r) ==
  cmd[r].online => \A op \in plan[r] : op.verb = "create" => Fresh(op.res)

RunOK(r) == ConnectionOK(r) /\ KnowsOK(r) /\ ListsOK(r) /\ PlanOK(r)

Once == World /\ (\A m \in net : RequestOK(m)) /\ \A r \in Runs : RunOK(r)

-----------------------------------------------------------------------------
(* What everybody may rely on: nothing appears but what a request made, and *)
(* what stays keeps its place.                                             *)

SameFace(a, b) ==
  /\ a.uuid = b.uuid /\ a.kind = b.kind /\ a.parent = b.parent /\ a.server = b.server
  /\ a.project = b.project /\ a.environment = b.environment /\ a.name = b.name

Calm ==
  /\ issued \in Nat /\ issued' \in Nat /\ issued <= issued'
  /\ seen \subseteq seen'
  /\ \A o \in remote' : \/ Made(o)' /\ o.uuid > issued
                        \/ \E q \in remote : SameFace(q, o)

LEMMA FaceKey == \A a, b : SameFace(a, b) => KeyOf(a) = KeyOf(b)
BY DEF SameFace, KeyOf

\* What was not made by a request was there before, and not made by one either.
LEMMA CalmOld ==
  ASSUME Calm, NEW o \in remote', ~Made(o)'
  PROVE  \E q \in remote : SameFace(q, o) /\ ~Made(q)
<1>1. PICK q \in remote : SameFace(q, o)
  BY DEF Calm
<1>2. ~Made(q)
  BY <1>1 DEF Calm, Made, SameFace
<1> QED BY <1>1, <1>2

LEMMA CalmFresh ==
  ASSUME Calm, NEW x, Fresh(x)
  PROVE  Fresh(x)'
<1> SUFFICES ASSUME NEW o \in remote', KeyOf(o) = KeyOf(x), ~Made(o)' PROVE FALSE
  BY DEF Fresh
<1>1. PICK q \in remote : SameFace(q, o) /\ ~Made(q)
  BY CalmOld
<1> QED BY <1>1, FaceKey DEF Fresh

LEMMA CalmProject ==
  ASSUME Calm, NEW u, NEW name, ProjectAt(u, name)
  PROVE  ProjectAt(u, name)'
<1>1. u \in 1 .. issued'
  BY DEF Calm, ProjectAt
<1>2. ASSUME NEW o \in remote', o.uuid = u
      PROVE  o.kind = "Project" /\ o.name = name
  <2>1. ~(o.uuid > issued)
    BY <1>2 DEF ProjectAt, Calm
  <2>2. PICK q \in remote : SameFace(q, o)
    BY <2>1 DEF Calm
  <2> QED BY <1>2, <2>2 DEF ProjectAt, SameFace
<1> QED BY <1>1, <1>2 DEF ProjectAt

LEMMA CalmRequest ==
  ASSUME Calm, NEW m, RequestOK(m)
  PROVE  RequestOK(m)'
<1> SUFFICES ASSUME m.verb = "create" PROVE RequestOK(m)'
  BY DEF RequestOK
<1>1. Fresh(m.res)'
  BY CalmFresh DEF RequestOK
<1>2. m.res.kind # "Project" => ProjectAt(m.at, m.res.project)'
  BY CalmProject DEF RequestOK
<1> QED BY <1>1, <1>2 DEF RequestOK

\* What a run knows stays true while others move.
LEMMA CalmRun ==
  ASSUME Calm, NEW r \in Runs, RunOK(r),
         cmd'[r] = cmd[r], phase'[r] = phase[r], resolved'[r] = resolved[r],
         listing'[r] = listing[r], envRefs'[r] = envRefs[r], scanning'[r] = scanning[r],
         plan'[r] = plan[r], waiting'[r] = waiting[r],
         \/ reply'[r] = reply[r]
         \/ \A m \in waiting[r] : reply'[r].status = "ok" /\ m.verb = "create" =>
              [key |-> IdempotencyKey(m), uuid |-> reply'[r].uuid] \in seen'
  PROVE  RunOK(r)'
<1>1. ConnectionOK(r)'
  <2>1. \A m \in waiting[r] : RequestOK(m)'
    BY CalmRequest DEF RunOK, ConnectionOK
  <2>2. \A m \in waiting[r] : reply'[r].status = "ok" /\ m.verb = "create" =>
          [key |-> IdempotencyKey(m), uuid |-> reply'[r].uuid] \in seen'
    BY DEF RunOK, ConnectionOK, Calm
  <2> QED BY <2>1, <2>2 DEF RunOK, ConnectionOK
<1>2. KnowsOK(r)'
  <2> SUFFICES ASSUME NEW x \in Targets, resolved'[r][ProjectKey(x.project)] # None
               PROVE  ProjectAt(resolved[r][ProjectKey(x.project)], x.project)'
    BY DEF KnowsOK
  <2>1. PICK u : u = resolved[r][ProjectKey(x.project)]
    OBVIOUS
  <2>2. ProjectAt(u, x.project)
    BY <2>1 DEF RunOK, KnowsOK
  <2>3. ProjectAt(u, x.project)'
    BY <2>2, CalmProject
  <2> QED BY <2>1, <2>3 DEF ProjectAt
<1>3. ListsOK(r)'
  <2> SUFFICES ASSUME cmd[r].online, phase[r] \in Reading, NEW o \in remote', ~Made(o)'
               PROVE  /\ KeyOf(o) \in Keys => resolved[r][KeyOf(o)] # None \/ Ahead(r, o)'
                      /\ o.kind = "Environment" => o.uuid \in envRefs[r] \/ Ahead(r, o)'
    BY DEF ListsOK
  <2>1. PICK q \in remote : SameFace(q, o) /\ ~Made(q)
    BY CalmOld
  <2>2. Ahead(r, o)' <=> Ahead(r, q)
    BY <2>1 DEF Ahead, Stored, SameFace
  <2> QED BY <2>1, <2>2, FaceKey DEF RunOK, ListsOK, SameFace
<1>4. PlanOK(r)'
  <2>1. \A op \in plan[r] : Fresh(op.res) => Fresh(op.res)'
    BY CalmFresh
  <2> QED BY <2>1 DEF RunOK, PlanOK
<1> QED BY <1>1, <1>2, <1>3, <1>4 DEF RunOK

-----------------------------------------------------------------------------
(* The world.                                                              *)

\* Objects change without moving, or go when nothing lies in them.
LEMMA WorldShrinks ==
  ASSUME TypeOK, TypeOK', World, issued' = issued, seen \subseteq seen',
         \A s \in seen' \ seen : s.key.verb # "create",
         \A o \in remote' : \E q \in remote : SameFace(q, o),
         \A a, b \in remote' : a.uuid = b.uuid => a = b,
         \A o \in remote', q \in remote : o.parent = q.uuid =>
            \E p \in remote' : SameFace(q, p)
  PROVE  World' /\ Calm
<1>1. issued \in Nat
  BY DEF TypeOK, CoolifyTypeOK
<1>2. Calm
  BY <1>1 DEF Calm
<1>3. NoDuplicates'
  <2> SUFFICES ASSUME NEW a \in remote', NEW b \in remote', KeyOf(a) = KeyOf(b)
               PROVE  a = b
    BY DEF NoDuplicates
  <2>1. PICK c \in remote : SameFace(c, a)
    OBVIOUS
  <2>2. PICK d \in remote : SameFace(d, b)
    OBVIOUS
  <2>3. c = d
    BY <2>1, <2>2, FaceKey DEF World, NoDuplicates
  <2> QED BY <2>1, <2>2, <2>3 DEF SameFace
<1>4. InGoodOrder(remote, issued)'
  <2> SUFFICES ASSUME NEW o \in remote' PROVE o.uuid <= issued /\ Placed(o, remote')
    BY DEF InGoodOrder
  <2>1. PICK q \in remote : SameFace(q, o)
    OBVIOUS
  <2>2. q.uuid <= issued /\ Placed(q, remote)
    BY DEF World, InGoodOrder
  <2>3. ASSUME o.kind = "Environment"
        PROVE  \E p \in remote' : p.kind = "Project" /\ p.uuid = o.parent /\ p.name = o.project
    <3>1. PICK p \in remote : p.kind = "Project" /\ p.uuid = q.parent /\ p.name = q.project
      BY <2>1, <2>2, <2>3 DEF Placed, SameFace
    <3>2. PICK p2 \in remote' : SameFace(p, p2)
      BY <2>1, <3>1 DEF SameFace
    <3> QED BY <2>1, <3>1, <3>2 DEF SameFace
  <2>4. ASSUME o.kind \notin {"Project", "Environment"}
        PROVE  \E e \in remote' : /\ e.kind = "Environment" /\ e.uuid = o.parent
                                  /\ e.project = o.project /\ e.name = o.environment
    <3>1. PICK e \in remote : /\ e.kind = "Environment" /\ e.uuid = q.parent
                              /\ e.project = q.project /\ e.name = q.environment
      BY <2>1, <2>2, <2>4 DEF Placed, SameFace
    <3>2. PICK e2 \in remote' : SameFace(e, e2)
      BY <2>1, <3>1 DEF SameFace
    <3> QED BY <2>1, <3>1, <3>2 DEF SameFace
  <2> QED BY <2>1, <2>2, <2>3, <2>4 DEF Placed, SameFace
<1>5. ASSUME NEW s \in seen' PROVE SeenOK(s)'
  <2> SUFFICES ASSUME s.key.verb = "create" PROVE SeenOK(s)'
    BY DEF SeenOK
  <2>1. s \in seen /\ SeenOK(s)
    BY DEF World
  <2>2. ASSUME NEW o \in remote', o.uuid = s.uuid
        PROVE  /\ KeyOf(o) = KeyOf(s.key.about) /\ o.project = s.key.about.project
               /\ Under(o, s.key.at)'
    <3>1. PICK q \in remote : SameFace(q, o)
      OBVIOUS
    <3>2. /\ KeyOf(q) = KeyOf(s.key.about) /\ q.project = s.key.about.project
          /\ Under(q, s.key.at)
      BY <2>1, <2>2, <3>1 DEF SeenOK, SameFace
    <3>3. ASSUME o.kind \notin {"Project", "Environment"}
          PROVE  \E e \in remote' : e.kind = "Environment" /\ e.uuid = o.parent /\ e.parent = s.key.at
      <4>1. PICK e \in remote : e.kind = "Environment" /\ e.uuid = q.parent /\ e.parent = s.key.at
        BY <3>1, <3>2, <3>3 DEF Under, SameFace
      <4>2. PICK e2 \in remote' : SameFace(e, e2)
        BY <3>1, <4>1 DEF SameFace
      <4> QED BY <3>1, <4>1, <4>2 DEF SameFace
    <3>4. Under(o, s.key.at)'
      BY <3>1, <3>2, <3>3 DEF Under, SameFace
    <3>5. KeyOf(o) = KeyOf(q)
      BY <3>1, FaceKey
    <3>6. o.project = q.project
      BY <3>1 DEF SameFace
    <3> QED BY <3>2, <3>4, <3>5, <3>6
  <2> QED BY <2>1, <2>2 DEF SeenOK
<1>6. ASSUME NEW o \in remote', NEW e \in remote', o.parent = e.uuid, Made(e)'
      PROVE  Made(o)'
  <2>1. PICK c \in remote : SameFace(c, o)
    OBVIOUS
  <2>2. PICK d \in remote : SameFace(d, e)
    OBVIOUS
  <2>3. Made(d)
    BY <1>6, <2>2 DEF Made, SameFace
  <2>4. Made(c)
    BY <1>6, <2>1, <2>2, <2>3 DEF World, SameFace
  <2> QED BY <2>1, <2>4 DEF Made, SameFace
<1> QED BY <1>2, <1>3, <1>4, <1>5, <1>6 DEF World

LEMMA WorldSame ==
  ASSUME TypeOK, World, UNCHANGED <<remote, issued, seen>>
  PROVE  World' /\ Calm
<1>1. Calm
  BY DEF TypeOK, CoolifyTypeOK, Calm, SameFace
<1>2. (\A o \in remote : Made(o)' <=> Made(o)) /\ \A s \in seen : SeenOK(s)' <=> SeenOK(s)
  BY DEF SeenOK, Under, Made
<1>3. World'
  BY <1>2 DEF World, NoDuplicates, InGoodOrder, Placed
<1> QED BY <1>1, <1>3

LEMMA DashboardWorld ==
  ASSUME TypeOK, TypeOK', World, Dashboard
  PROVE  World' /\ Calm
<1>1. PICK o \in remote : DashboardDelete(o) \/ DashboardEdit(o)
  BY DEF Dashboard
<1>2. issued' = issued /\ seen' = seen
  BY DEF Dashboard
<1>3. \A a, b \in remote : a.uuid = b.uuid => a = b
  BY DEF World, InGoodOrder
<1>4. CASE DashboardDelete(o)
  BY <1>2, <1>3, <1>4, WorldShrinks DEF DashboardDelete, Children, SameFace
<1>5. CASE DashboardEdit(o)
  <2>1. PICK s \in {"drift", "stuck"} : remote' = (remote \ {o}) \cup {[o EXCEPT !.spec = s]}
    BY <1>5 DEF DashboardEdit
  <2>2. SameFace(o, [o EXCEPT !.spec = s])
    BY DEF SameFace, TypeOK, CoolifyTypeOK, Objects
  <2>3. PICK c : c = [o EXCEPT !.spec = s]
    OBVIOUS
  <2>4. remote' = (remote \ {o}) \cup {c} /\ SameFace(o, c)
    BY <2>1, <2>2, <2>3
  <2> QED BY <1>2, <1>3, <2>4, WorldShrinks DEF SameFace
<1> QED BY <1>1, <1>4, <1>5

\* A request that succeeded leaves its key behind.
LEMMA SucceedSeen ==
  ASSUME TypeOK, NEW m \in net, NEW u, Succeed(m, u), HonoursKey
  PROVE  /\ seen' = seen \cup {[key |-> IdempotencyKey(m), uuid |-> u]}
         /\ IdempotencyKey(m).verb = m.verb /\ IdempotencyKey(m).at = m.at
         /\ m.verb = "create" => IdempotencyKey(m).about = m.res
         /\ m \in waiting[m.run] => reply'[m.run] = [status |-> "ok", uuid |-> u]
BY DEF Succeed, IdempotencyKey, Answer, TypeOK, CoolifyTypeOK, Requests

\* A change, a deletion and an answer that changes nothing.
LEMMA TameWorld ==
  ASSUME TypeOK, TypeOK', World, HonoursKey, NEW m \in net,
         \/ ChangeObject(m) \/ RemoveObject(m) \/ AlreadyGone(m)
         \/ ReplayAnswer(m) \/ RefuseRequest(m)
  PROVE  World' /\ Calm
<1>1. \A a, b \in remote : a.uuid = b.uuid => a = b
  BY DEF World, InGoodOrder
<1>2. CASE ReplayAnswer(m) \/ RefuseRequest(m)
  <2>1. UNCHANGED <<remote, issued, seen>>
    <3>1. CASE RefuseRequest(m)
      BY <3>1 DEF RefuseRequest
    <3>2. CASE ReplayAnswer(m)
      <4>1. PICK s \in seen : s.key = IdempotencyKey(m) /\ Succeed(m, s.uuid)
        BY <3>2 DEF ReplayAnswer
      <4>2. s = [key |-> IdempotencyKey(m), uuid |-> s.uuid]
        BY <4>1 DEF TypeOK, CoolifyTypeOK
      <4>3. seen' = seen \cup {[key |-> IdempotencyKey(m), uuid |-> s.uuid]}
        BY <4>1, SucceedSeen
      <4>4. seen' = seen
        BY <4>2, <4>3
      <4> QED BY <3>2, <4>4 DEF ReplayAnswer
    <3> QED BY <1>2, <3>1, <3>2
  <2> QED BY <2>1, WorldSame
<1>3. CASE ChangeObject(m) \/ RemoveObject(m) \/ AlreadyGone(m)
  <2>1. m.verb # "create" /\ issued' = issued /\ Succeed(m, None)
    BY <1>3 DEF ChangeObject, RemoveObject, AlreadyGone
  <2>2. seen \subseteq seen' /\ \A s \in seen' \ seen : s.key.verb # "create"
    <3>1. /\ seen' = seen \cup {[key |-> IdempotencyKey(m), uuid |-> None]}
          /\ IdempotencyKey(m).verb = m.verb
      BY <2>1, SucceedSeen
    <3> QED BY <2>1, <3>1
  <2>3. CASE AlreadyGone(m)
    <3>1. remote' = remote
      BY <2>3 DEF AlreadyGone
    <3> QED BY <1>1, <2>1, <2>2, <3>1, WorldShrinks DEF SameFace
  <2>4. CASE RemoveObject(m)
    <3>1. PICK o \in Addressed(m) : Children(o) = {} /\ remote' = remote \ {o}
      BY <2>4 DEF RemoveObject
    <3>2. o \in remote /\ \A x \in remote : x.parent # o.uuid
      BY <3>1 DEF Addressed, Children
    <3> QED BY <1>1, <2>1, <2>2, <3>1, <3>2, WorldShrinks DEF SameFace
  <2>5. CASE ChangeObject(m)
    <3>1. PICK o \in Addressed(m) : remote' = (remote \ {o}) \cup {Changed(m, o)}
      BY <2>5 DEF ChangeObject
    <3>2. o \in remote
      BY <3>1 DEF Addressed
    <3>3. SameFace(o, Changed(m, o))
      BY <3>2 DEF SameFace, Changed, TypeOK, CoolifyTypeOK, Objects
    <3>4. PICK c : c = Changed(m, o)
      OBVIOUS
    <3>5. remote' = (remote \ {o}) \cup {c} /\ SameFace(o, c)
      BY <3>1, <3>3, <3>4
    <3> QED BY <1>1, <2>1, <2>2, <3>2, <3>5, WorldShrinks DEF SameFace
  <2> QED BY <1>3, <2>3, <2>4, <2>5
<1> QED BY <1>2, <1>3

\* Where the objects lie.
LEMMA ProjectInPlace ==
  World => \A o \in remote : o.kind = "Project" =>
    o.parent = None /\ o.project = "" /\ o.environment = ""
BY DEF World, InGoodOrder, Placed

LEMMA EnvironmentInPlace ==
  World => \A o \in remote : o.kind = "Environment" =>
    /\ o.environment = ""
    /\ \E q \in remote : q.kind = "Project" /\ q.uuid = o.parent /\ q.name = o.project
BY DEF World, InGoodOrder, Placed

LEMMA LeafInPlace ==
  World => \A o \in remote : o.kind \notin {"Project", "Environment"} =>
    \E q \in remote : /\ q.kind = "Environment" /\ q.uuid = o.parent
                     /\ q.project = o.project /\ q.name = o.environment
BY DEF World, InGoodOrder, Placed

LEMMA OneUuid == World => \A a, b \in remote : a.uuid = b.uuid => a = b
BY DEF World, InGoodOrder

\* What is there in the name of a resource whose creation was not answered yet:
\* nothing.  Whoever made it would have made it in the same project.
LEMMA NothingThere ==
  ASSUME TypeOK, World, DistinctKeys, NEW m \in net, RequestOK(m), m.verb = "create",
         \A s \in seen : s.key # IdempotencyKey(m), Parents(m) # {},
         NEW o \in remote
  PROVE  KeyOf(o) # KeyOf(m.res)
<1> SUFFICES ASSUME KeyOf(o) = KeyOf(m.res) PROVE FALSE
  OBVIOUS
<1>0. m \in Requests /\ m.res \in Targets /\ m.res \in Resources
  BY TargetsType DEF TypeOK, CoolifyTypeOK, Requests
<1>1. Made(o)
  BY DEF RequestOK, Fresh
<1>2. PICK s \in seen : s.key.verb = "create" /\ s.uuid = o.uuid
  BY <1>1 DEF Made
<1>3. /\ s.key.about \in Targets /\ KeyOf(s.key.about) = KeyOf(m.res)
      /\ o.project = s.key.about.project /\ Under(o, s.key.at)
  BY <1>2 DEF World, SeenOK
<1>4. s.key.about = m.res
  BY <1>0, <1>3 DEF DistinctKeys
<1>5. s.key.at # m.at
  <2>1. s.key \in IdKeys
    BY DEF TypeOK, CoolifyTypeOK
  <2>2. IdempotencyKey(m) = [verb |-> "create", at |-> m.at, about |-> m.res]
    BY DEF IdempotencyKey
  <2>3. s.key = [verb |-> s.key.verb, about |-> s.key.about, at |-> s.key.at]
    BY <2>1 DEF IdKeys
  <2> QED BY <1>2, <1>4, <2>2, <2>3
<1>6. o.kind = m.res.kind
  BY DEF KeyOf, Key
<1>7. CASE m.res.kind = "Project"
  BY <1>3, <1>5, <1>6, <1>7 DEF Under, RequestOK
<1>8. CASE m.res.kind # "Project"
  <2>1. PICK p \in remote : p.kind = "Project" /\ p.uuid = m.at
    <3>1. CASE m.res.kind = "Environment"
      BY <3>1 DEF Parents
    <3>2. CASE m.res.kind # "Environment"
      <4>1. PICK e \in remote : e.kind = "Environment" /\ e.parent = m.at
        BY <1>8, <3>2 DEF Parents
      <4>2. \E q \in remote : q.kind = "Project" /\ q.uuid = e.parent /\ q.name = e.project
        BY <4>1, EnvironmentInPlace
      <4> QED BY <4>1, <4>2
    <3> QED BY <3>1, <3>2
  <2>2. p.name = m.res.project
    BY <1>8, <2>1 DEF RequestOK, ProjectAt
  <2>3. PICK q \in remote : q.kind = "Project" /\ q.uuid = s.key.at /\ q.name = o.project
    <3>1. CASE o.kind = "Environment"
      <4>1. o.parent = s.key.at
        BY <1>3, <3>1 DEF Under
      <4>2. \E q \in remote : q.kind = "Project" /\ q.uuid = o.parent /\ q.name = o.project
        BY <3>1, EnvironmentInPlace
      <4> QED BY <4>1, <4>2
    <3>2. CASE o.kind # "Environment"
      <4>1. PICK e \in remote : e.kind = "Environment" /\ e.uuid = o.parent /\ e.parent = s.key.at
        BY <1>3, <1>6, <1>8, <3>2 DEF Under
      <4>2. PICK d \in remote : d.kind = "Environment" /\ d.uuid = o.parent /\ d.project = o.project
        BY <1>6, <1>8, <3>2, LeafInPlace
      <4>3. d = e
        BY <4>1, <4>2, OneUuid
      <4>4. \E q \in remote : q.kind = "Project" /\ q.uuid = e.parent /\ q.name = e.project
        BY <4>1, EnvironmentInPlace
      <4> QED BY <4>1, <4>2, <4>3, <4>4
    <3> QED BY <3>1, <3>2
  <2>4. p.name = q.name
    BY <1>3, <1>4, <2>2, <2>3
  <2>5. p.project = q.project /\ p.environment = q.environment
    BY <2>1, <2>3, ProjectInPlace
  <2>6. KeyOf(p) = KeyOf(q)
    BY <2>1, <2>3, <2>4, <2>5 DEF KeyOf
  <2>7. p = q
    BY <2>6 DEF World, NoDuplicates
  <2> QED BY <1>5, <2>1, <2>3, <2>7
<1> QED BY <1>7, <1>8

\* A parent lies among the objects handed out.
LEMMA ParentOld ==
  ASSUME TypeOK, World, NEW o \in remote
  PROVE  o.parent <= issued /\ o.uuid <= issued
<1>1. \A q \in remote : q.uuid <= issued
  BY DEF World, InGoodOrder
<1>2. CASE o.kind = "Project"
  <2>1. o.parent = None
    BY <1>2, ProjectInPlace
  <2> QED BY <1>1, <2>1 DEF None, TypeOK, CoolifyTypeOK
<1>3. CASE o.kind = "Environment"
  <2>1. \E q \in remote : q.kind = "Project" /\ q.uuid = o.parent /\ q.name = o.project
    BY <1>3, EnvironmentInPlace
  <2> QED BY <1>1, <2>1
<1>4. CASE o.kind \notin {"Project", "Environment"}
  <2>1. \E q \in remote : /\ q.kind = "Environment" /\ q.uuid = o.parent
                          /\ q.project = o.project /\ q.name = o.environment
    BY <1>4, LeafInPlace
  <2> QED BY <1>1, <2>1
<1> QED BY <1>2, <1>3, <1>4

\* More objects put no object out of place.
LEMMA PlacedGrows ==
  ASSUME NEW S, NEW T, S \subseteq T, NEW o, Placed(o, S)
  PROVE  Placed(o, T)
BY DEF Placed

\* Where a request puts what it creates.
LEMMA NewPlaced ==
  ASSUME TypeOK, World, PlainCoordinates, NEW m \in net, RequestOK(m), m.verb = "create",
         NEW p \in Parents(m), NEW n, n = Created(m, issued + 1, p),
         remote' = remote \cup {n}
  PROVE  Placed(n, remote') /\ Under(n, m.at)'
<1>0. m.res \in Targets
  BY DEF TypeOK, CoolifyTypeOK, Requests
<1>1. /\ n.kind = m.res.kind /\ n.project = m.res.project /\ n.name = m.res.name
      /\ n.environment = m.res.environment /\ n.server = m.res.server /\ n.parent = p
  BY DEF Created
<1>2. CASE m.res.kind = "Project"
  <2>1. p = None /\ m.at = None
    BY <1>2 DEF Parents, RequestOK
  <2>2. m.res.project = "" /\ m.res.environment = ""
    BY <1>0, <1>2 DEF PlainCoordinates
  <2> QED BY <1>1, <1>2, <2>1, <2>2 DEF Placed, Under
<1>3. CASE m.res.kind = "Environment"
  <2>1. PICK x \in remote : x.kind = "Project" /\ x.uuid = m.at /\ p = x.uuid
    BY <1>3 DEF Parents
  <2>2. x.name = m.res.project
    BY <1>3, <2>1 DEF RequestOK, ProjectAt
  <2>3. m.res.environment = ""
    BY <1>0, <1>3 DEF PlainCoordinates
  <2> QED BY <1>1, <1>3, <2>1, <2>2, <2>3 DEF Placed, Under
<1>4. CASE m.res.kind \notin {"Project", "Environment"}
  <2>1. PICK e \in remote : /\ e.kind = "Environment" /\ e.parent = m.at /\ p = e.uuid
                            /\ e.name = m.res.environment
    BY <1>4 DEF Parents
  <2>2. PICK q \in remote : q.kind = "Project" /\ q.uuid = e.parent /\ q.name = e.project
    BY <2>1, EnvironmentInPlace
  <2>3. q.name = m.res.project
    BY <1>4, <2>1, <2>2 DEF RequestOK, ProjectAt
  <2>4. m.res.kind = "Database" => m.res.server \in Servers
    BY DEF RequestOK
  <2>5. \E d \in remote' : /\ d.kind = "Environment" /\ d.uuid = n.parent
                           /\ d.project = n.project /\ d.name = n.environment
    BY <1>1, <2>1, <2>2, <2>3
  <2>6. Placed(n, remote')
    BY <1>1, <1>4, <2>4, <2>5 DEF Placed
  <2>7. Under(n, m.at)'
    BY <1>1, <1>4, <2>1 DEF Under
  <2> QED BY <2>6, <2>7
<1> QED BY <1>2, <1>3, <1>4

\* A request that creates.
LEMMA CreateWorld ==
  ASSUME TypeOK, World, HonoursKey, DistinctKeys, PlainCoordinates,
         NEW m \in net, RequestOK(m), CreateObject(m)
  PROVE  World' /\ Calm
<1>0. m.verb = "create" /\ Succeed(m, issued + 1) /\ issued' = issued + 1
  BY DEF CreateObject
<1>1. PICK p \in Parents(m) : remote' = remote \cup {Created(m, issued + 1, p)}
  BY DEF CreateObject
<1>2. PICK n : n = Created(m, issued + 1, p)
  OBVIOUS
<1>3. remote' = remote \cup {n} /\ n.uuid = issued + 1
  BY <1>1, <1>2 DEF Created
<1>4. PICK w : w = [key |-> IdempotencyKey(m), uuid |-> issued + 1]
  OBVIOUS
<1>5. /\ seen' = seen \cup {w} /\ w.uuid = issued + 1
      /\ w.key.verb = "create" /\ w.key.at = m.at /\ w.key.about = m.res
  BY <1>0, <1>4, SucceedSeen
<1>6. issued \in Nat /\ \A o \in remote : o.uuid <= issued /\ o.uuid \in Nat
  BY CoolifyType DEF World, InGoodOrder, TypeOK, CoolifyTypeOK, Objects, Uuids
<1>7. m.res \in Targets
  BY DEF TypeOK, CoolifyTypeOK, Requests
<1>8. KeyOf(n) = KeyOf(m.res)
  BY <1>2 DEF Created, KeyOf
<1>9. Placed(n, remote') /\ Under(n, m.at)'
  BY <1>0, <1>2, <1>3, NewPlaced
<1>10. Made(n)' /\ \A o \in remote : Made(o)' <=> Made(o)
  BY <1>3, <1>5, <1>6 DEF Made
<1>11. NoDuplicates'
  <2>1. \A s \in seen : s.key # IdempotencyKey(m)
    BY DEF CreateObject, Answered
  <2>2. \A o \in remote : KeyOf(o) # KeyOf(m.res)
    BY <1>0, <2>1, NothingThere
  <2> QED BY <1>3, <1>8, <2>2 DEF World, NoDuplicates
<1>12. InGoodOrder(remote, issued)'
  <2>1. \A o \in remote : Placed(o, remote')
    <3>1. \A o \in remote : Placed(o, remote)
      BY DEF World, InGoodOrder
    <3>2. remote \subseteq remote'
      BY <1>3
    <3> QED BY <3>1, <3>2, PlacedGrows
  <2>2. \A a, b \in remote' : a.uuid = b.uuid => a = b
    BY <1>3, <1>6 DEF World, InGoodOrder
  <2>3. \A o \in remote' : o.uuid <= issued'
    BY <1>0, <1>3, <1>6
  <2> QED BY <1>3, <1>9, <2>1, <2>2, <2>3 DEF InGoodOrder
<1>13. ASSUME NEW s \in seen' PROVE SeenOK(s)'
  <2>1. CASE s = w
    <3>1. s.uuid \in 1 .. issued'
      BY <1>0, <1>5, <1>6, <2>1
    <3>2. \A o \in remote' : o.uuid = s.uuid => o = n
      BY <1>3, <1>5, <1>6, <2>1
    <3>3. s.key.about = m.res /\ s.key.at = m.at /\ n.project = m.res.project
      BY <1>2, <1>5, <2>1 DEF Created
    <3> QED BY <1>7, <1>8, <1>9, <3>1, <3>2, <3>3 DEF SeenOK
  <2>2. CASE s \in seen
    <3> SUFFICES ASSUME s.key.verb = "create" PROVE SeenOK(s)'
      BY DEF SeenOK
    <3>1. SeenOK(s)
      BY <2>2 DEF World
    <3>2. s.uuid \in 1 .. issued /\ s.uuid \in 1 .. issued' /\ s.key.about \in Targets
      BY <1>0, <1>6, <3>1 DEF SeenOK
    <3>3. \A o \in remote' : o.uuid = s.uuid => o \in remote
      BY <1>3, <1>6, <3>2
    <3>4. ASSUME NEW o \in remote, o.uuid = s.uuid
          PROVE  /\ KeyOf(o) = KeyOf(s.key.about) /\ o.project = s.key.about.project
                 /\ Under(o, s.key.at)'
      <4>1. /\ KeyOf(o) = KeyOf(s.key.about) /\ o.project = s.key.about.project
            /\ Under(o, s.key.at)
        BY <3>1, <3>4 DEF SeenOK
      <4>2. Under(o, s.key.at)'
        BY <1>3, <4>1 DEF Under
      <4> QED BY <4>1, <4>2
    <3> QED BY <3>2, <3>3, <3>4 DEF SeenOK
  <2> QED BY <1>5, <2>1, <2>2
<1>14. ASSUME NEW o \in remote', NEW q \in remote', o.parent = q.uuid, Made(q)'
       PROVE  Made(o)'
  <2>1. CASE o = n
    BY <1>10, <2>1
  <2>2. CASE o \in remote /\ q \in remote
    BY <1>10, <1>14, <2>2 DEF World
  <2>3. CASE o \in remote /\ q = n
    <3>1. o.parent <= issued
      BY <2>3, ParentOld
    <3> QED BY <1>3, <1>6, <1>14, <2>3, <3>1
  <2> QED BY <1>3, <2>1, <2>2, <2>3
<1>15. Calm
  <2>1. \A o \in remote : SameFace(o, o)
    BY DEF SameFace
  <2> QED BY <1>0, <1>3, <1>5, <1>6, <1>10, <2>1 DEF Calm
<1> QED BY <1>11, <1>12, <1>13, <1>14, <1>15 DEF World

\* The server, whatever request it handles.
LEMMA HandleWorld ==
  ASSUME TypeOK, TypeOK', World, HonoursKey, DistinctKeys, PlainCoordinates,
         NEW m \in net, RequestOK(m), Handle(m)
  PROVE  World' /\ Calm
<1>1. CASE CreateObject(m)
  BY <1>1, CreateWorld
<1>2. CASE ~CreateObject(m)
  BY <1>2, TameWorld DEF Handle
<1> QED BY <1>1, <1>2

\* An answer of success to a create names what the server remembers.
LEMMA HandleReply ==
  ASSUME Inv, HonoursKey, NEW m \in net, Handle(m), NEW q \in Runs, ConnectionOK(q)
  PROVE  /\ waiting' = waiting /\ net' \subseteq net
         /\ \/ reply'[q] = reply[q]
            \/ \A n \in waiting[q] : reply'[q].status = "ok" /\ n.verb = "create" =>
                 [key |-> IdempotencyKey(n), uuid |-> reply'[q].uuid] \in seen'
<1>0. TypeOK /\ m \in Requests /\ m.run \in Runs /\ reply \in [Runs -> Replies]
  BY DEF Inv, TypeOK, CoolifyTypeOK, Requests
<1>1. waiting' = waiting
  BY DEF Handle, CreateObject, ChangeObject, RemoveObject, AlreadyGone, ReplayAnswer, RefuseRequest
<1>2. CASE RefuseRequest(m)
  BY <1>0, <1>1, <1>2 DEF RefuseRequest, Answer
<1>3. CASE ~RefuseRequest(m)
  <2>1. PICK u : Succeed(m, u)
    BY <1>3 DEF Handle, CreateObject, ChangeObject, RemoveObject, AlreadyGone, ReplayAnswer
  <2>2. net' \subseteq net
    BY <2>1 DEF Succeed, Answer
  <2>3. /\ seen' = seen \cup {[key |-> IdempotencyKey(m), uuid |-> u]}
        /\ m \in waiting[m.run] => reply'[m.run] = [status |-> "ok", uuid |-> u]
    BY <1>0, <2>1, SucceedSeen
  <2>4. CASE m \in waiting[q]
    <3>1. m.run = q
      BY <2>4 DEF Inv, Accounted
    <3>2. \A n \in waiting[q] : n = m
      BY <2>4 DEF ConnectionOK
    <3>3. reply'[q].uuid = u
      BY <2>3, <2>4, <3>1
    <3> QED BY <1>1, <2>2, <2>3, <3>2, <3>3
  <2>5. CASE m \notin waiting[q]
    <3>1. reply'[q] = reply[q]
      BY <1>0, <2>1, <2>5 DEF Succeed, Answer
    <3> QED BY <1>1, <2>2, <3>1
  <2> QED BY <2>4, <2>5
<1> QED BY <1>2, <1>3

LEMMA ServeOnce ==
  ASSUME Inv, Inv', Once, HonoursKey, DistinctKeys, PlainCoordinates, Serve, UNCHANGED runVars
  PROVE  Once'
<1>1. PICK m \in net : Handle(m)
  BY DEF Serve
<1>2. TypeOK /\ TypeOK' /\ World /\ RequestOK(m)
  BY DEF Inv, Once
<1>3. World' /\ Calm
  BY <1>1, <1>2, HandleWorld
<1>4. ASSUME NEW q \in Runs PROVE RunOK(q)' /\ net' \subseteq net
  <2>1. RunOK(q) /\ ConnectionOK(q)
    BY DEF Once, RunOK
  <2>2. /\ waiting' = waiting /\ net' \subseteq net
        /\ \/ reply'[q] = reply[q]
           \/ \A n \in waiting[q] : reply'[q].status = "ok" /\ n.verb = "create" =>
                [key |-> IdempotencyKey(n), uuid |-> reply'[q].uuid] \in seen'
    BY <1>1, <2>1, HandleReply
  <2>3. RunOK(q)'
    BY <1>3, <2>1, <2>2, CalmRun DEF runVars, progressVars, engineVars
  <2> QED BY <2>2, <2>3
<1>5. net' \subseteq net
  <2>1. m.run \in Runs
    BY <1>2 DEF TypeOK, CoolifyTypeOK, Requests
  <2> QED BY <1>4, <2>1
<1>6. \A n \in net' : RequestOK(n)'
  BY <1>3, <1>5, CalmRequest DEF Once
<1> QED BY <1>3, <1>4, <1>6 DEF Once

LEMMA DashboardOnce ==
  ASSUME Inv, Inv', Once, Dashboard, UNCHANGED runVars
  PROVE  Once'
<1>1. TypeOK /\ TypeOK' /\ World
  BY DEF Inv, Once
<1>2. World' /\ Calm
  BY <1>1, DashboardWorld
<1>3. net' = net /\ waiting' = waiting /\ reply' = reply
  BY DEF Dashboard
<1>4. ASSUME NEW q \in Runs PROVE RunOK(q)'
  <2>1. RunOK(q)
    BY DEF Once
  <2> QED BY <1>2, <1>3, <2>1, CalmRun DEF runVars, progressVars, engineVars
<1>5. \A n \in net' : RequestOK(n)'
  BY <1>2, <1>3, CalmRequest DEF Once
<1> QED BY <1>2, <1>4, <1>5 DEF Once

-----------------------------------------------------------------------------
(* The runs.                                                               *)

\* A step of run r that leaves the server's objects alone.
LEMMA OwnStep ==
  ASSUME Inv, Once, NEW r \in Runs, UNCHANGED <<remote, issued, seen>>,
         \A m \in net' : m \in net \/ RequestOK(m),
         \A q \in Runs \ {r} :
           /\ cmd'[q] = cmd[q] /\ phase'[q] = phase[q] /\ resolved'[q] = resolved[q]
           /\ listing'[q] = listing[q] /\ envRefs'[q] = envRefs[q]
           /\ scanning'[q] = scanning[q] /\ plan'[q] = plan[q]
           /\ waiting'[q] = waiting[q] /\ reply'[q] = reply[q],
         RunOK(r)'
  PROVE  Once'
<1>1. TypeOK /\ World
  BY DEF Inv, Once
<1>2. World' /\ Calm
  BY <1>1, WorldSame
<1>3. ASSUME NEW q \in Runs, q # r PROVE RunOK(q)'
  <2>1. RunOK(q)
    BY DEF Once
  <2> QED BY <1>2, <1>3, <2>1, CalmRun
<1>4. \A m \in net' : RequestOK(m)'
  <2>1. \A m \in net' : RequestOK(m)
    BY DEF Once
  <2> QED BY <1>2, <2>1, CalmRequest
<1> QED BY <1>2, <1>3, <1>4 DEF Once

\* The parts of RunOK that a step which does not concern them keeps.
LEMMA PartsKept ==
  ASSUME Inv, Once, NEW r \in Runs, UNCHANGED <<remote, issued, seen, cmd>>
  PROVE  /\ \A u, name : ProjectAt(u, name)' <=> ProjectAt(u, name)
         /\ \A x : Fresh(x)' <=> Fresh(x)
         /\ \A o : Made(o)' <=> Made(o)
         /\ waiting'[r] = waiting[r] /\ reply'[r] = reply[r] => ConnectionOK(r)'
         /\ waiting'[r] = {} => ConnectionOK(r)'
         /\ resolved'[r] = resolved[r] => KnowsOK(r)'
         /\ plan'[r] = plan[r] => PlanOK(r)'
         /\ phase'[r] \notin Reading => ListsOK(r)'
<1>0. ConnectionOK(r) /\ KnowsOK(r) /\ PlanOK(r)
  BY DEF Once, RunOK
<1>1. \A u, name : ProjectAt(u, name)' <=> ProjectAt(u, name)
  BY DEF ProjectAt
<1>2. \A o : Made(o)' <=> Made(o)
  BY DEF Made
<1>3. \A x : Fresh(x)' <=> Fresh(x)
  BY <1>2 DEF Fresh
<1>4. waiting'[r] = waiting[r] /\ reply'[r] = reply[r] => ConnectionOK(r)'
  BY <1>0, <1>1, <1>3 DEF ConnectionOK, RequestOK
<1>5. waiting'[r] = {} => ConnectionOK(r)'
  BY DEF ConnectionOK
<1>6. resolved'[r] = resolved[r] => KnowsOK(r)'
  BY <1>0, <1>1 DEF KnowsOK
<1>7. plan'[r] = plan[r] => PlanOK(r)'
  BY <1>0, <1>3 DEF PlanOK
<1>8. phase'[r] \notin Reading => ListsOK(r)'
  BY DEF ListsOK
<1> QED BY <1>1, <1>2, <1>3, <1>4, <1>5, <1>6, <1>7, <1>8

\* What a listing teaches: the uuid of something listed, for every key listed.
LEMMA LearnFacts ==
  ASSUME TypeOK, NEW r \in Runs, NEW objs \in SUBSET remote, Learn(r, objs)
  PROVE  /\ \A q \in Runs \ {r} : resolved'[q] = resolved[q]
         /\ \A k \in Keys :
              \/ resolved'[r][k] = resolved[r][k] /\ \A o \in objs : KeyOf(o) # k
              \/ \E o \in objs : KeyOf(o) = k /\ resolved'[r][k] = o.uuid
<1> DEFINE found == {KeyOf(o) : o \in objs} \cap Keys
<1>1. PICK pick \in [found -> {o.uuid : o \in objs}] :
        /\ \A k \in found : \E o \in objs : KeyOf(o) = k /\ pick[k] = o.uuid
        /\ resolved' = [resolved EXCEPT ![r] =
             [k \in Keys |-> IF k \in found THEN pick[k] ELSE resolved[r][k]]]
  BY DEF Learn, TypeOK
<1>2. \A q \in Runs \ {r} : resolved'[q] = resolved[q]
  BY <1>1 DEF TypeOK
<1>3. \A k \in Keys : resolved'[r][k] = IF k \in found THEN pick[k] ELSE resolved[r][k]
  BY <1>1 DEF TypeOK
<1>4. ASSUME NEW k \in Keys
      PROVE  \/ resolved'[r][k] = resolved[r][k] /\ \A o \in objs : KeyOf(o) # k
             \/ \E o \in objs : KeyOf(o) = k /\ resolved'[r][k] = o.uuid
  BY <1>1, <1>3
<1> QED BY <1>2, <1>4

\* What is listed is known from then on, and nothing known is forgotten.
LEMMA LearnKeeps ==
  ASSUME TypeOK, NEW r \in Runs, NEW objs \in SUBSET remote, Learn(r, objs)
  PROVE  /\ \A k \in Keys : resolved[r][k] # None => resolved'[r][k] # None
         /\ \A o \in objs : KeyOf(o) \in Keys => resolved'[r][KeyOf(o)] # None
<1>1. \A o \in remote : o.uuid # None
  BY CoolifyType DEF TypeOK, CoolifyTypeOK, Objects, Uuids, None
<1> QED BY <1>1, LearnFacts

\* A listed project is the project of its name.
LEMMA LearnKnows ==
  ASSUME Inv, Once, NEW r \in Runs, NEW objs \in SUBSET remote, Learn(r, objs),
         UNCHANGED <<remote, issued, seen, cmd>>
  PROVE  KnowsOK(r)'
<1>1. TypeOK /\ World /\ KnowsOK(r)
  BY DEF Inv, Once, RunOK
<1>2. \A u, name : ProjectAt(u, name)' <=> ProjectAt(u, name)
  BY PartsKept
<1> SUFFICES ASSUME NEW x \in Targets, resolved'[r][ProjectKey(x.project)] # None
             PROVE  ProjectAt(resolved'[r][ProjectKey(x.project)], x.project)
  BY <1>2 DEF KnowsOK
<1>3. ProjectKey(x.project) \in Keys
  BY KeysCover
<1>4. CASE resolved'[r][ProjectKey(x.project)] = resolved[r][ProjectKey(x.project)]
  BY <1>1, <1>4 DEF KnowsOK
<1>5. CASE \E o \in objs : /\ KeyOf(o) = ProjectKey(x.project)
                           /\ resolved'[r][ProjectKey(x.project)] = o.uuid
  <2>1. PICK o \in objs : /\ KeyOf(o) = ProjectKey(x.project)
                          /\ resolved'[r][ProjectKey(x.project)] = o.uuid
    BY <1>5
  <2>2. o.kind = "Project" /\ o.name = x.project
    BY <2>1 DEF KeyOf, Key, ProjectKey
  <2>3. o.uuid \in 1 .. issued
    BY <1>1, CoolifyType DEF World, InGoodOrder, TypeOK, CoolifyTypeOK, Objects, Uuids
  <2>4. \A a \in remote : a.uuid = o.uuid => a = o
    BY <1>1, OneUuid
  <2>5. ProjectAt(o.uuid, x.project)
    BY <2>2, <2>3, <2>4 DEF ProjectAt
  <2> QED BY <2>1, <2>5
<1> QED BY <1>1, <1>3, <1>4, <1>5, LearnFacts

\* Listing the projects.
LEMMA ListProjectsOnce ==
  ASSUME Inv, Once, NEW r \in Runs, ListProjects(r)
  PROVE  Once'
<1>0. TypeOK /\ World /\ phase[r] = "projects" /\ UNCHANGED <<serverVars, cmd>>
  BY DEF Inv, Once, ListProjects
<1> DEFINE projects == {o \in remote : o.kind = "Project"}
<1>1. Learn(r, projects) /\ projects \in SUBSET remote
  BY DEF ListProjects
<1>2. /\ phase' = [phase EXCEPT ![r] = "envs"]
      /\ listing' = [listing EXCEPT ![r] = {o.uuid : o \in projects}]
      /\ UNCHANGED <<envRefs, scanning, plan>>
  BY DEF ListProjects, Goto, engineVars
<1>3. phase'[r] = "envs" /\ listing'[r] = {o.uuid : o \in projects}
  BY <1>0, <1>2 DEF TypeOK
<1>4. ListsOK(r)'
  <2> SUFFICES ASSUME NEW o \in remote
               PROVE  /\ KeyOf(o) \in Keys => resolved'[r][KeyOf(o)] # None \/ Ahead(r, o)'
                      /\ o.kind = "Environment" => o.uuid \in envRefs'[r] \/ Ahead(r, o)'
    BY <1>0 DEF ListsOK, serverVars
  <2>1. CASE o.kind = "Project"
    BY <1>0, <1>1, <2>1, LearnKeeps
  <2>2. CASE o.kind = "Environment"
    <3>1. PICK q \in remote : q.kind = "Project" /\ q.uuid = o.parent /\ q.name = o.project
      BY <1>0, <2>2, EnvironmentInPlace
    <3>2. o.parent \in listing'[r]
      BY <1>3, <3>1
    <3> QED BY <1>3, <2>2, <3>2 DEF Ahead
  <2>3. CASE o.kind \notin {"Project", "Environment"}
    BY <1>3, <2>3 DEF Ahead
  <2> QED BY <2>1, <2>2, <2>3
<1>5. RunOK(r)'
  BY <1>0, <1>1, <1>2, <1>4, LearnKnows, PartsKept DEF RunOK, serverVars
<1>6. \A q \in Runs \ {r} :
        phase'[q] = phase[q] /\ resolved'[q] = resolved[q] /\ listing'[q] = listing[q]
  BY <1>0, <1>1, <1>2, LearnFacts DEF TypeOK
<1> QED BY <1>0, <1>2, <1>5, <1>6, OwnStep DEF serverVars

\* What a reading run knew of an object no request made.
LEMMA Listed ==
  ASSUME Once, NEW r \in Runs, cmd[r].online, phase[r] \in Reading,
         NEW o \in remote, ~Made(o)
  PROVE  /\ KeyOf(o) \in Keys => resolved[r][KeyOf(o)] # None \/ Ahead(r, o)
         /\ o.kind = "Environment" => o.uuid \in envRefs[r] \/ Ahead(r, o)
BY DEF Once, RunOK, ListsOK

\* Listing the environments of one project.
LEMMA ListEnvironmentsOnce ==
  ASSUME Inv, Once, NEW r \in Runs, ListEnvironments(r)
  PROVE  Once'
<1>0. /\ TypeOK /\ World /\ phase[r] = "envs" /\ phase[r] \in Reading
      /\ UNCHANGED <<serverVars, cmd, phase, scanning, plan>>
  BY DEF Inv, Once, ListEnvironments, Reading, engineVars
<1>1. PICK p \in listing[r] :
        /\ Learn(r, {o \in remote : o.kind = "Environment" /\ o.parent = p})
        /\ envRefs' = [envRefs EXCEPT ![r] = @ \cup
             {o.uuid : o \in {x \in remote : x.kind = "Environment" /\ x.parent = p}}]
        /\ listing' = [listing EXCEPT ![r] = @ \ {p}]
  BY DEF ListEnvironments
<1> DEFINE envs == {o \in remote : o.kind = "Environment" /\ o.parent = p}
<1>2. Learn(r, envs) /\ envs \in SUBSET remote
  BY <1>1
<1>3. /\ envRefs'[r] = envRefs[r] \cup {o.uuid : o \in envs}
      /\ listing'[r] = listing[r] \ {p}
  BY <1>0, <1>1 DEF TypeOK
<1>4. ListsOK(r)'
  <2> SUFFICES ASSUME cmd[r].online, NEW o \in remote, ~Made(o)
               PROVE  /\ KeyOf(o) \in Keys => resolved'[r][KeyOf(o)] # None \/ Ahead(r, o)'
                      /\ o.kind = "Environment" => o.uuid \in envRefs'[r] \/ Ahead(r, o)'
    BY <1>0 DEF ListsOK, serverVars, Made
  <2>1. /\ KeyOf(o) \in Keys => resolved[r][KeyOf(o)] # None \/ Ahead(r, o)
        /\ o.kind = "Environment" => o.uuid \in envRefs[r] \/ Ahead(r, o)
    BY <1>0, Listed
  <2>2. CASE Ahead(r, o) /\ ~(o \in envs)
    <3>1. Ahead(r, o)'
      BY <1>0, <1>3, <2>2 DEF Ahead
    <3> QED BY <3>1
  <2>3. CASE o \in envs
    BY <1>0, <1>2, <1>3, <2>3, LearnKeeps
  <2>4. CASE ~Ahead(r, o)
    BY <1>0, <1>2, <1>3, <2>1, <2>4, LearnKeeps
  <2> QED BY <2>2, <2>3, <2>4
<1>5. RunOK(r)'
  BY <1>0, <1>2, <1>4, LearnKnows, PartsKept DEF RunOK, serverVars
<1>6. \A q \in Runs \ {r} :
        envRefs'[q] = envRefs[q] /\ resolved'[q] = resolved[q] /\ listing'[q] = listing[q]
  BY <1>0, <1>1, <1>2, LearnFacts DEF TypeOK
<1> QED BY <1>0, <1>5, <1>6, OwnStep DEF serverVars

\* Servers do not come and go.
LEMMA ListServersOnce ==
  ASSUME Inv, Once, NEW r \in Runs, ListServers(r)
  PROVE  Once'
<1>0. /\ TypeOK /\ World /\ phase[r] = "envs" /\ phase[r] \in Reading /\ listing[r] = {}
      /\ UNCHANGED <<serverVars, cmd, resolved, listing, envRefs, plan>>
  BY DEF Inv, Once, ListServers, Reading, engineVars
<1>1. /\ phase' = [phase EXCEPT ![r] = "apps"]
      /\ scanning' = [scanning EXCEPT ![r] = Servers]
  BY DEF ListServers, Goto
<1>2. phase'[r] = "apps" /\ scanning'[r] = Servers
  BY <1>0, <1>1 DEF TypeOK
<1>3. ListsOK(r)'
  <2> SUFFICES ASSUME cmd[r].online, NEW o \in remote, ~Made(o)
               PROVE  /\ KeyOf(o) \in Keys => resolved[r][KeyOf(o)] # None \/ Ahead(r, o)'
                      /\ o.kind = "Environment" => o.uuid \in envRefs[r] \/ Ahead(r, o)'
    BY <1>0 DEF ListsOK, serverVars, Made
  <2>1. /\ KeyOf(o) \in Keys => resolved[r][KeyOf(o)] # None \/ Ahead(r, o)
        /\ o.kind = "Environment" => o.uuid \in envRefs[r] \/ Ahead(r, o)
    BY <1>0, Listed
  <2>2. CASE Ahead(r, o)
    <3>1. o.kind \in Kinds \ {"Project", "Environment"}
      BY <1>0, <2>2 DEF Ahead, TypeOK, CoolifyTypeOK, Objects
    <3>2. o.kind = "Database" => o.server \in Servers
      BY <1>0 DEF World, InGoodOrder, Placed
    <3>3. Ahead(r, o)'
      BY <1>2, <3>1, <3>2 DEF Ahead, Stored, Kinds
    <3> QED BY <3>1, <3>3
  <2> QED BY <2>1, <2>2
<1>4. RunOK(r)'
  BY <1>0, <1>3, PartsKept DEF RunOK, serverVars
<1>5. \A q \in Runs \ {r} : phase'[q] = phase[q] /\ scanning'[q] = scanning[q]
  BY <1>0, <1>1 DEF TypeOK
<1> QED BY <1>0, <1>4, <1>5, OwnStep DEF serverVars

\* An environment no request made was listed, and so is what lies in it.
LEMMA ListChildrenOnce ==
  ASSUME Inv, Once, NEW r \in Runs, ListApplications(r) \/ ListServices(r)
  PROVE  Once'
<1>0. PICK from, kind, to :
        /\ ListChildren(r, from, kind, to)
        /\ \/ from = "apps" /\ kind = "Application" /\ to = "services"
           \/ from = "services" /\ kind = "Service" /\ to = "databases"
  BY DEF ListApplications, ListServices
<1> DEFINE objs == {o \in remote : o.kind = kind /\ o.parent \in envRefs[r]}
<1>1. /\ TypeOK /\ World /\ phase[r] = from /\ phase[r] \in Reading
      /\ UNCHANGED <<serverVars, cmd, listing, envRefs, scanning, plan>>
      /\ phase' = [phase EXCEPT ![r] = to]
      /\ Learn(r, objs) /\ objs \in SUBSET remote
  BY <1>0 DEF Inv, Once, ListChildren, Goto, Reading, engineVars
<1>2. phase'[r] = to
  BY <1>1 DEF TypeOK
<1>3. ListsOK(r)'
  <2> SUFFICES ASSUME cmd[r].online, NEW o \in remote, ~Made(o)
               PROVE  /\ KeyOf(o) \in Keys => resolved'[r][KeyOf(o)] # None \/ Ahead(r, o)'
                      /\ o.kind = "Environment" => o.uuid \in envRefs[r] \/ Ahead(r, o)'
    BY <1>1 DEF ListsOK, serverVars, Made
  <2>1. /\ KeyOf(o) \in Keys => resolved[r][KeyOf(o)] # None \/ Ahead(r, o)
        /\ o.kind = "Environment" => o.uuid \in envRefs[r] \/ Ahead(r, o)
    BY <1>1, Listed
  <2>2. CASE ~Ahead(r, o)
    BY <1>1, <2>1, <2>2, LearnKeeps
  <2>3. CASE Ahead(r, o) /\ o.kind # kind
    <3>1. Ahead(r, o)' /\ o.kind # "Environment"
      BY <1>0, <1>1, <1>2, <2>3 DEF Ahead, Stored
    <3> QED BY <3>1
  <2>4. CASE o.kind = kind
    <3>1. o.kind \notin {"Project", "Environment"}
      BY <1>0, <2>4
    <3>2. PICK e \in remote : /\ e.kind = "Environment" /\ e.uuid = o.parent
                              /\ e.project = o.project /\ e.name = o.environment
      BY <1>1, <3>1, LeafInPlace
    <3>3. ~Made(e)
      BY <1>1, <3>2 DEF World
    <3>4. e.uuid \in envRefs[r] \/ Ahead(r, e)
      BY <1>1, <3>2, <3>3, Listed
    <3>5. ~Ahead(r, e)
      BY <1>0, <1>1, <3>2 DEF Ahead, Stored
    <3>6. o \in objs
      BY <2>4, <3>2, <3>4, <3>5
    <3> QED BY <1>1, <3>1, <3>6, LearnKeeps
  <2> QED BY <2>2, <2>3, <2>4
<1>4. RunOK(r)'
  BY <1>1, <1>3, LearnKnows, PartsKept DEF RunOK, serverVars
<1>5. \A q \in Runs \ {r} : phase'[q] = phase[q] /\ resolved'[q] = resolved[q]
  BY <1>1, LearnFacts DEF TypeOK
<1> QED BY <1>1, <1>4, <1>5, OwnStep DEF serverVars

\* The databases of one server.
LEMMA ScanServerOnce ==
  ASSUME Inv, Once, NEW r \in Runs, ScanServer(r)
  PROVE  Once'
<1>0. /\ TypeOK /\ World /\ phase[r] = "databases" /\ phase[r] \in Reading
      /\ UNCHANGED <<serverVars, cmd, phase, listing, envRefs, plan>>
  BY DEF Inv, Once, ScanServer, Reading, engineVars
<1>1. PICK s \in scanning[r] :
        /\ Learn(r, {o \in remote : o.kind = "Database" /\ o.server = s})
        /\ scanning' = [scanning EXCEPT ![r] = @ \ {s}]
  BY DEF ScanServer
<1> DEFINE objs == {o \in remote : o.kind = "Database" /\ o.server = s}
<1>2. Learn(r, objs) /\ objs \in SUBSET remote
  BY <1>1
<1>3. scanning'[r] = scanning[r] \ {s}
  BY <1>0, <1>1 DEF TypeOK
<1>4. ListsOK(r)'
  <2> SUFFICES ASSUME cmd[r].online, NEW o \in remote, ~Made(o)
               PROVE  /\ KeyOf(o) \in Keys => resolved'[r][KeyOf(o)] # None \/ Ahead(r, o)'
                      /\ o.kind = "Environment" => o.uuid \in envRefs[r] \/ Ahead(r, o)'
    BY <1>0 DEF ListsOK, serverVars, Made
  <2>1. /\ KeyOf(o) \in Keys => resolved[r][KeyOf(o)] # None \/ Ahead(r, o)
        /\ o.kind = "Environment" => o.uuid \in envRefs[r] \/ Ahead(r, o)
    BY <1>0, Listed
  <2>2. CASE Ahead(r, o) /\ ~(o \in objs)
    <3>1. Ahead(r, o)'
      BY <1>0, <1>3, <2>2 DEF Ahead, Stored
    <3> QED BY <3>1
  <2>3. CASE o \in objs
    BY <1>0, <1>2, <2>3, LearnKeeps
  <2>4. CASE ~Ahead(r, o)
    BY <1>0, <1>2, <2>1, <2>4, LearnKeeps
  <2> QED BY <2>2, <2>3, <2>4
<1>5. RunOK(r)'
  BY <1>0, <1>2, <1>4, LearnKnows, PartsKept DEF RunOK, serverVars
<1>6. \A q \in Runs \ {r} : scanning'[q] = scanning[q] /\ resolved'[q] = resolved[q]
  BY <1>0, <1>1, <1>2, LearnFacts DEF TypeOK
<1> QED BY <1>0, <1>5, <1>6, OwnStep DEF serverVars

\* A run that starts has everything ahead of it.
LEMMA StartOnce ==
  ASSUME Inv, Once, NEW r \in Runs, Start(r)
  PROVE  Once'
<1>0. /\ TypeOK /\ UNCHANGED <<remote, issued, seen, net, waiting, reply>>
      /\ UNCHANGED <<cmd, resolved, listing, envRefs, scanning, plan>>
  BY DEF Inv, Start, progressVars, engineVars
<1>1. PICK to : phase' = [phase EXCEPT ![r] = to] /\ (cmd[r].online => to \in {"projects", "skipped"})
  BY DEF Start, Skip, Goto
<1>2. phase'[r] = to /\ \A q \in Runs \ {r} : phase'[q] = phase[q]
  BY <1>0, <1>1 DEF TypeOK
<1>3. ListsOK(r)'
  BY <1>0, <1>1, <1>2 DEF ListsOK, Ahead, Reading
<1>4. RunOK(r)'
  BY <1>0, <1>3, PartsKept DEF RunOK
<1> QED BY <1>0, <1>2, <1>4, OwnStep

\* What is not resolved when everything was listed is fresh.
LEMMA LoadOnce ==
  ASSUME Inv, Once, NEW r \in Runs, Load(r)
  PROVE  Once'
<1>0. /\ TypeOK /\ phase[r] = "databases" /\ phase[r] \in Reading /\ scanning[r] = {}
      /\ UNCHANGED <<serverVars, cmd, resolved, listing, envRefs, scanning>>
  BY DEF Inv, Load, Reading
<1>1. PICK to \in {"skipped", "diff"} : phase' = [phase EXCEPT ![r] = to]
  BY DEF Load, Skip, Goto
<1>2. phase'[r] = to /\ \A q \in Runs \ {r} : phase'[q] = phase[q]
  BY <1>0, <1>1 DEF TypeOK
<1>3. \A o : ~Ahead(r, o)
  BY <1>0 DEF Ahead, Stored
<1>4. ListsOK(r)'
  <2> SUFFICES ASSUME cmd[r].online, NEW o \in remote, ~Made(o)
               PROVE  /\ KeyOf(o) \in Keys => resolved[r][KeyOf(o)] # None
                      /\ o.kind = "Environment" => o.uuid \in envRefs[r]
    BY <1>0 DEF ListsOK, serverVars, Made
  <2> QED BY <1>0, <1>3, Listed
<1>5. PlanOK(r)' /\ \A q \in Runs \ {r} : plan'[q] = plan[q]
  <2>1. CASE UNCHANGED plan
    BY <1>0, <2>1, PartsKept DEF serverVars
  <2>2. CASE ~UNCHANGED plan
    <3>1. plan' = [plan EXCEPT ![r] =
            IF cmd[r].mode = "destroy" THEN Deletions(r) ELSE Creations(r)]
      BY <2>2 DEF Load
    <3>2. plan'[r] = (IF cmd[r].mode = "destroy" THEN Deletions(r) ELSE Creations(r))
          /\ \A q \in Runs \ {r} : plan'[q] = plan[q]
      BY <1>0, <3>1 DEF TypeOK
    <3>3. ASSUME cmd[r].online, NEW op \in plan'[r], op.verb = "create"
          PROVE  Fresh(op.res)
      <4>1. op \in Creations(r)
        BY <3>2, <3>3 DEF Deletions
      <4>2. op.res \in Wanted(cmd[r]) /\ ~Resolved(r, op.res)
        BY <4>1 DEF Creations
      <4>3. resolved[r][KeyOf(op.res)] = None /\ KeyOf(op.res) \in Keys
        BY <4>2, KeysCover, WantedType DEF Resolved
      <4> SUFFICES ASSUME NEW o \in remote, KeyOf(o) = KeyOf(op.res), ~Made(o) PROVE FALSE
        BY DEF Fresh
      <4>4. KeyOf(o) \in Keys => resolved[r][KeyOf(o)] # None
        BY <1>0, <1>3, <3>3, Listed
      <4> QED BY <4>3, <4>4
    <3>4. \A x : Fresh(x)' <=> Fresh(x)
      BY <1>0, PartsKept DEF serverVars
    <3> QED BY <1>0, <3>2, <3>3, <3>4 DEF PlanOK
  <2> QED BY <2>1, <2>2
<1>6. RunOK(r)'
  BY <1>0, <1>4, <1>5, PartsKept DEF RunOK, serverVars
<1> QED BY <1>0, <1>2, <1>5, <1>6, OwnStep DEF serverVars

\* A difference is no reason to create.
LEMMA CompareOnce ==
  ASSUME Inv, Once, NEW r \in Runs, Compare(r)
  PROVE  Once'
<1>0. /\ TypeOK /\ phase[r] = "diff"
      /\ UNCHANGED <<serverVars, cmd, phase, resolved, listing, envRefs, scanning>>
  BY DEF Inv, Compare
<1>1. PICK new : /\ plan' = [plan EXCEPT ![r] = @ \cup new]
                 /\ \A op \in new : op.verb = "update"
  <2>1. PICK x \in comparing[r], o \in remote :
          plan' = [plan EXCEPT ![r] =
            @ \cup (IF o.spec = "ok" THEN {} ELSE {[verb |-> "update", res |-> x]})]
    BY DEF Compare
  <2>2. PICK S : S = (IF o.spec = "ok" THEN {} ELSE {[verb |-> "update", res |-> x]})
    OBVIOUS
  <2>3. plan' = [plan EXCEPT ![r] = @ \cup S] /\ \A op \in S : op.verb = "update"
    BY <2>1, <2>2
  <2> QED BY <2>3
<1>2. plan'[r] = plan[r] \cup new /\ \A q \in Runs \ {r} : plan'[q] = plan[q]
  BY <1>0, <1>1 DEF TypeOK
<1>3. PlanOK(r)'
  <2>1. PlanOK(r)
    BY DEF Once, RunOK
  <2>2. \A x : Fresh(x)' <=> Fresh(x)
    BY <1>0, PartsKept DEF serverVars
  <2> QED BY <1>0, <1>1, <1>2, <2>1, <2>2 DEF PlanOK
<1>4. ListsOK(r)'
  <2>1. ListsOK(r)
    BY DEF Once, RunOK
  <2> QED BY <1>0, <2>1 DEF ListsOK, Ahead, serverVars, Made
<1>5. RunOK(r)'
  BY <1>0, <1>3, <1>4, PartsKept DEF RunOK, serverVars
<1> QED BY <1>0, <1>2, <1>5, OwnStep DEF serverVars

\* Steps after which a run reads nothing any more, and sends nothing new.
LEMMA LeaveOnce ==
  ASSUME Inv, Once, NEW r \in Runs, UNCHANGED <<remote, issued, seen, net, cmd>>,
         UNCHANGED <<resolved, listing, envRefs, scanning, plan>>,
         NEW to, to \notin Reading, phase' = [phase EXCEPT ![r] = to],
         UNCHANGED <<waiting, reply>> \/ HangUp(r)
  PROVE  Once'
<1>0. TypeOK /\ phase'[r] = to /\ \A q \in Runs \ {r} : phase'[q] = phase[q]
  BY DEF Inv, TypeOK
<1>1. /\ waiting'[r] = {} \/ (waiting'[r] = waiting[r] /\ reply'[r] = reply[r])
      /\ \A q \in Runs \ {r} : waiting'[q] = waiting[q] /\ reply'[q] = reply[q]
  BY <1>0 DEF HangUp, TypeOK, CoolifyTypeOK
<1>2. RunOK(r)'
  BY <1>0, <1>1, PartsKept DEF RunOK
<1> QED BY <1>0, <1>1, <1>2, OwnStep

LEMMA EndOnce ==
  ASSUME Inv, Once, NEW r \in Runs,
         \/ RefuseMove(r) \/ ReadFails(r) \/ Planned(r) \/ Answers(r) \/ Unresolvable(r)
         \/ Rejected(r) \/ GiveUp(r) \/ Record(r) \/ RecordFails(r) \/ Finish(r) \/ Crash(r)
  PROVE  Once'
<1>1. /\ UNCHANGED <<remote, issued, seen, net, cmd>>
      /\ UNCHANGED <<resolved, listing, envRefs, scanning, plan>>
      /\ UNCHANGED <<waiting, reply>> \/ HangUp(r)
  BY DEF RefuseMove, ReadFails, Planned, Answers, Unresolvable, Rejected, GiveUp, Record,
         RecordFails, Finish, Crash, serverVars, progressVars, engineVars
<1>2. PICK to \in {"skipped", "done", "engine", "confirm"} : phase' = [phase EXCEPT ![r] = to]
  BY DEF RefuseMove, ReadFails, Planned, Answers, Unresolvable, Rejected, GiveUp, Record,
         RecordFails, Finish, Crash, Skip, Return, Goto
<1>3. to \notin Reading
  BY DEF Reading
<1> QED BY <1>1, <1>2, <1>3, LeaveOnce

\* What the engine sends to create is fresh, and goes under its own project.
LEMMA BeginOnce ==
  ASSUME Inv, Once, NEW r \in Runs, Begin(r)
  PROVE  Once'
<1>0. /\ TypeOK /\ phase[r] = "engine" /\ KnowsOK(r) /\ PlanOK(r)
      /\ phase' = [phase EXCEPT ![r] = "sent"]
      /\ UNCHANGED <<remote, issued, seen, cmd, resolved, listing, envRefs, scanning, plan>>
  BY DEF Inv, Once, RunOK, Begin, Goto, progressVars
<1>1. PICK op \in plan[r] :
        Sendable(r, op) /\ Send(FirstTry(r, op, op.verb, At(r, op)))
  BY DEF Begin, Foremost
<1>2. op \in Ops /\ op.res \in Targets
  BY <1>0 DEF TypeOK, Ops
<1>3. PICK m : m = FirstTry(r, op, op.verb, At(r, op))
  OBVIOUS
<1>4. m.run = r /\ m.verb = op.verb /\ m.res = op.res /\ m.at = At(r, op)
  BY <1>3 DEF FirstTry
<1>5. RequestOK(m)
  <2> SUFFICES ASSUME op.verb = "create" PROVE RequestOK(m)
    BY <1>4 DEF RequestOK
  <2>1. cmd[r].online
    <3>1. ~Refused(cmd[r]) /\ ~cmd[r].dry
      BY <1>0 DEF Inv, Asked, Executing
    <3> QED BY <3>1 DEF Refused
  <2>2. Fresh(op.res)
    BY <1>1, <2>1, <1>0 DEF PlanOK
  <2>3. CASE op.res.kind = "Project"
    <3>1. At(r, op) = None
      BY <2>3 DEF At
    <3> QED BY <1>4, <2>2, <2>3, <3>1 DEF RequestOK
  <2>4. CASE op.res.kind # "Project"
    <3>1. At(r, op) = resolved[r][ProjectKey(op.res.project)]
      BY <2>4 DEF At
    <3>2. At(r, op) # None /\ (op.res.kind # "Environment" => op.res.server \in Servers)
      BY <1>1, <2>4 DEF Sendable
    <3>3. ProjectAt(At(r, op), op.res.project)
      BY <1>0, <1>2, <3>1, <3>2 DEF KnowsOK
    <3> QED BY <1>4, <2>2, <2>4, <3>2, <3>3 DEF RequestOK
  <2> QED BY <2>3, <2>4
<1>6. /\ net' = net \cup {m} /\ waiting' = [waiting EXCEPT ![r] = {m}]
      /\ reply' = [reply EXCEPT ![r] = NoReply]
  BY <1>1, <1>3, <1>4 DEF Send
<1>7. /\ phase'[r] = "sent" /\ waiting'[r] = {m} /\ reply'[r] = NoReply
      /\ \A q \in Runs \ {r} :
           phase'[q] = phase[q] /\ waiting'[q] = waiting[q] /\ reply'[q] = reply[q]
  BY <1>0, <1>6 DEF TypeOK, CoolifyTypeOK
<1>8. ConnectionOK(r)'
  <2>1. RequestOK(m)'
    BY <1>0, <1>5, PartsKept DEF RequestOK
  <2> QED BY <1>7, <2>1 DEF ConnectionOK, NoReply
<1>9. RunOK(r)'
  BY <1>0, <1>7, <1>8, PartsKept DEF RunOK, Reading
<1> QED BY <1>0, <1>5, <1>6, <1>7, <1>9, OwnStep

\* Only verb, resource and path of a request matter here.
LEMMA RequestSame ==
  ASSUME NEW m, NEW n, m.verb = n.verb, m.res = n.res, m.at = n.at, RequestOK(m)
  PROVE  RequestOK(n)
BY DEF RequestOK

\* A retry repeats the request.
LEMMA RetryOnce ==
  ASSUME Inv, Once, NEW r \in Runs, Retry(r)
  PROVE  Once'
<1>0. /\ TypeOK /\ phase[r] = "sent" /\ ConnectionOK(r)
      /\ UNCHANGED <<remote, issued, seen, cmd, phase, resolved, listing, envRefs, scanning, plan>>
  BY DEF Inv, Once, RunOK, Retry, runVars, progressVars, engineVars
<1>1. PICK m \in waiting[r] : Send([m EXCEPT !.try = @ + 1])
  BY DEF Retry
<1>2. m \in Requests /\ m.run = r /\ RequestOK(m)
  BY <1>0 DEF Inv, Accounted, TypeOK, CoolifyTypeOK, ConnectionOK
<1>3. PICK n : n = [m EXCEPT !.try = @ + 1]
  OBVIOUS
<1>4. n.run = r /\ n.verb = m.verb /\ n.res = m.res /\ n.at = m.at
  BY <1>2, <1>3 DEF Requests
<1>5. RequestOK(n)
  BY <1>2, <1>4, RequestSame
<1>6. /\ net' = net \cup {n} /\ waiting' = [waiting EXCEPT ![r] = {n}]
      /\ reply' = [reply EXCEPT ![r] = NoReply]
  BY <1>1, <1>3, <1>4 DEF Send
<1>7. /\ waiting'[r] = {n} /\ reply'[r] = NoReply
      /\ \A q \in Runs \ {r} : waiting'[q] = waiting[q] /\ reply'[q] = reply[q]
  BY <1>0, <1>6 DEF TypeOK, CoolifyTypeOK
<1>8. ConnectionOK(r)'
  <2>1. RequestOK(n)'
    BY <1>0, <1>5, PartsKept DEF RequestOK
  <2> QED BY <1>7, <2>1 DEF ConnectionOK, NoReply
<1>9. RunOK(r)'
  BY <1>0, <1>8, PartsKept DEF RunOK, Reading
<1> QED BY <1>0, <1>5, <1>6, <1>7, <1>9, OwnStep

\* The uuid a run learns from an answer is that of what it created.
LEMMA AnswerKnows ==
  ASSUME Inv, Once, NEW r \in Runs, phase[r] = "sent", reply[r].status = "ok",
         LearnCreated(r), UNCHANGED <<remote, issued, seen, cmd>>
  PROVE  KnowsOK(r)' /\ \A q \in Runs \ {r} : resolved'[q] = resolved[q]
<1>0. TypeOK /\ World /\ KnowsOK(r) /\ ConnectionOK(r)
  BY DEF Inv, Once, RunOK
<1>1. CASE ~\E m \in waiting[r] : m.verb = "create"
  <2>1. resolved' = resolved
    BY <1>1 DEF LearnCreated
  <2> QED BY <2>1, PartsKept
<1>2. CASE \E m \in waiting[r] : m.verb = "create"
  <2>1. PICK m \in waiting[r] : m.verb = "create"
    BY <1>2
  <2>2. resolved' = [resolved EXCEPT ![r] = [k \in Keys |->
          IF \E op \in cur[r] : k = KeyOf(op.res) THEN reply[r].uuid ELSE resolved[r][k]]]
    BY <1>0, <1>2 DEF LearnCreated, TypeOK
  <2>3. /\ \A q \in Runs \ {r} : resolved'[q] = resolved[q]
        /\ \A k \in Keys : resolved'[r][k] =
             IF \E op \in cur[r] : k = KeyOf(op.res) THEN reply[r].uuid ELSE resolved[r][k]
    BY <1>0, <2>2 DEF TypeOK
  <2>4. \A op \in cur[r] : op.res = m.res
    <3>1. OpOf(m) \in cur[r] /\ OpOf(m).res = m.res
      BY <2>1 DEF Inv, Accounted, OpOf
    <3>2. \A a, b \in cur[r] : a = b
      BY DEF Inv, OneAtATime
    <3> QED BY <3>1, <3>2
  <2>5. PICK s \in seen : s.key = IdempotencyKey(m) /\ s.uuid = reply[r].uuid
    <3>1. [key |-> IdempotencyKey(m), uuid |-> reply[r].uuid] \in seen
      BY <1>0, <2>1 DEF ConnectionOK
    <3> QED BY <3>1
  <2>6. s.key.verb = "create" /\ s.key.about = m.res
    BY <2>1, <2>5 DEF IdempotencyKey
  <2>7. /\ reply[r].uuid \in 1 .. issued
        /\ \A o \in remote : o.uuid = reply[r].uuid => KeyOf(o) = KeyOf(m.res)
    BY <1>0, <2>5, <2>6 DEF World, SeenOK
  <2> SUFFICES ASSUME NEW x \in Targets, resolved'[r][ProjectKey(x.project)] # None
               PROVE  ProjectAt(resolved'[r][ProjectKey(x.project)], x.project)
    BY <2>3, PartsKept DEF KnowsOK
  <2>8. ProjectKey(x.project) \in Keys
    BY KeysCover
  <2>9. CASE \E op \in cur[r] : ProjectKey(x.project) = KeyOf(op.res)
    <3>1. KeyOf(m.res) = ProjectKey(x.project)
      BY <2>4, <2>9
    <3>2. resolved'[r][ProjectKey(x.project)] = reply[r].uuid
      BY <2>3, <2>8, <2>9
    <3>3. \A o \in remote : o.uuid = reply[r].uuid => o.kind = "Project" /\ o.name = x.project
      BY <2>7, <3>1 DEF KeyOf, Key, ProjectKey
    <3> QED BY <2>7, <3>2, <3>3 DEF ProjectAt
  <2>10. CASE ~\E op \in cur[r] : ProjectKey(x.project) = KeyOf(op.res)
    <3>1. resolved'[r][ProjectKey(x.project)] = resolved[r][ProjectKey(x.project)]
      BY <2>3, <2>8, <2>10
    <3> QED BY <1>0, <3>1 DEF KnowsOK
  <2> QED BY <2>9, <2>10
<1> QED BY <1>1, <1>2

LEMMA AnsweredOnce ==
  ASSUME Inv, Once, NEW r \in Runs, Acknowledge(r) \/ SendVariables(r)
  PROVE  Once'
<1>0. /\ TypeOK /\ phase[r] = "sent" /\ reply[r].status = "ok" /\ LearnCreated(r)
      /\ UNCHANGED <<remote, issued, seen, cmd, listing, envRefs, scanning, plan>>
  BY DEF Inv, Acknowledge, SendVariables, engineVars
<1>1. KnowsOK(r)' /\ \A q \in Runs \ {r} : resolved'[q] = resolved[q]
  BY <1>0, AnswerKnows
<1>2. CASE Acknowledge(r)
  <2>1. net' = net /\ HangUp(r) /\ phase' = [phase EXCEPT ![r] = "audit"]
    BY <1>2 DEF Acknowledge, Goto
  <2>2. /\ phase'[r] = "audit" /\ waiting'[r] = {}
        /\ \A q \in Runs \ {r} :
             phase'[q] = phase[q] /\ waiting'[q] = waiting[q] /\ reply'[q] = reply[q]
    BY <1>0, <2>1 DEF HangUp, TypeOK, CoolifyTypeOK
  <2>3. RunOK(r)'
    BY <1>0, <1>1, <2>2, PartsKept DEF RunOK, Reading
  <2> QED BY <1>0, <1>1, <2>1, <2>2, <2>3, OwnStep
<1>3. CASE SendVariables(r)
  <2>1. PICK op \in cur[r] : Send(FirstTry(r, op, "envs", reply[r].uuid))
    BY <1>3 DEF SendVariables
  <2>2. PICK m : m = FirstTry(r, op, "envs", reply[r].uuid)
    OBVIOUS
  <2>3. m.run = r /\ m.verb = "envs"
    BY <2>2 DEF FirstTry
  <2>4. /\ phase' = phase /\ net' = net \cup {m} /\ waiting' = [waiting EXCEPT ![r] = {m}]
        /\ reply' = [reply EXCEPT ![r] = NoReply]
    BY <1>3, <2>1, <2>2, <2>3 DEF SendVariables, Send
  <2>5. /\ waiting'[r] = {m} /\ reply'[r] = NoReply
        /\ \A q \in Runs \ {r} : waiting'[q] = waiting[q] /\ reply'[q] = reply[q]
    BY <1>0, <2>4 DEF TypeOK, CoolifyTypeOK
  <2>6. RequestOK(m) /\ ConnectionOK(r)'
    BY <2>3, <2>5 DEF ConnectionOK, RequestOK
  <2>7. RunOK(r)'
    BY <1>0, <1>1, <2>4, <2>6, PartsKept DEF RunOK, Reading
  <2> QED BY <1>0, <1>1, <2>4, <2>5, <2>6, <2>7, OwnStep
<1> QED BY <1>2, <1>3

-----------------------------------------------------------------------------
(* The theorem.                                                            *)

LEMMA InitOnce ==
  ASSUME Init, GoodSeeds
  PROVE  Once
<1>1. /\ remote \in Seeds /\ issued = Cardinality(remote) /\ seen = {} /\ net = {}
  BY DEF Init, CoolifyInit
<1>2. World
  <2>1. \A o : ~Made(o)
    BY <1>1 DEF Made
  <2>2. InGoodOrder(remote, issued) /\ NoDuplicates
    BY <1>1 DEF GoodSeeds, NoDuplicates
  <2> QED BY <1>1, <2>1, <2>2 DEF World
<1>3. ASSUME NEW r \in Runs PROVE RunOK(r)
  <2>1. /\ waiting[r] = {} /\ phase[r] = "idle" /\ plan[r] = {}
        /\ resolved[r] = [k \in Keys |-> None]
    BY DEF Init, CoolifyInit
  <2>2. KnowsOK(r)
    BY <2>1, KeysCover DEF KnowsOK
  <2> QED BY <2>1, <2>2 DEF RunOK, ConnectionOK, ListsOK, PlanOK, Reading
<1> QED BY <1>1, <1>2, <1>3 DEF Once

LEMMA StutterOnce == Inv /\ Once /\ UNCHANGED vars => Once'
<1> SUFFICES ASSUME Inv, Once, UNCHANGED vars PROVE Once'
  OBVIOUS
<1>1. TypeOK /\ World
  BY DEF Inv, Once
<1>2. World' /\ Calm
  BY <1>1, WorldSame DEF vars, serverVars
<1>3. ASSUME NEW q \in Runs PROVE RunOK(q)'
  <2>1. RunOK(q)
    BY DEF Once
  <2> QED BY <1>2, <2>1, CalmRun DEF vars, serverVars, runVars, progressVars, engineVars
<1>4. \A n \in net' : RequestOK(n)'
  BY <1>2, CalmRequest DEF Once, vars, serverVars
<1> QED BY <1>2, <1>3, <1>4 DEF Once

LEMMA NextOnce ==
  ASSUME HonoursKey, DistinctKeys, PlainCoordinates, Inv, Inv', Once, [Next]_vars
  PROVE  Once'
<1>1. CASE UNCHANGED vars
  BY <1>1, StutterOnce
<1>2. CASE Serve /\ UNCHANGED runVars
  BY <1>2, ServeOnce
<1>3. CASE Dashboard /\ UNCHANGED runVars
  BY <1>3, DashboardOnce
<1>4. ASSUME NEW r \in Runs, Start(r) \/ Proceed(r) \/ Answers(r) \/ Crash(r)
      PROVE  Once'
  <2>1. CASE ListProjects(r) \/ ListEnvironments(r) \/ ListServers(r)
             \/ ListApplications(r) \/ ListServices(r) \/ ScanServer(r)
    BY <2>1, ListProjectsOnce, ListEnvironmentsOnce, ListServersOnce, ListChildrenOnce,
       ScanServerOnce
  <2>2. CASE Start(r) \/ Load(r) \/ Compare(r) \/ Begin(r) \/ Retry(r)
    BY <2>2, StartOnce, LoadOnce, CompareOnce, BeginOnce, RetryOnce
  <2>3. CASE Acknowledge(r) \/ SendVariables(r)
    BY <2>3, AnsweredOnce
  <2>4. CASE \/ RefuseMove(r) \/ ReadFails(r) \/ Planned(r) \/ Answers(r) \/ Unresolvable(r)
             \/ Rejected(r) \/ GiveUp(r) \/ Record(r) \/ RecordFails(r) \/ Finish(r) \/ Crash(r)
    BY <2>4, EndOnce
  <2> QED BY <1>4, <2>1, <2>2, <2>3, <2>4 DEF Proceed
<1> QED BY <1>1, <1>2, <1>3, <1>4 DEF Next

\* At a server that honours Idempotency-Key, no two objects ever share a key:
\* not after a retry of a request the server had carried out, not when a
\* request arrives after its run gave up, crashed or was repeated, and not when
\* several runs apply the same manifests at once (requests.go, Engine.Apply).
THEOREM NothingTwice ==
  ASSUME HonoursKey, DistinctKeys, PlainCoordinates, GoodSeeds
  PROVE  Spec => []NoDuplicates
<1>1. Init => Once
  BY InitOnce
<1>2. Inv /\ Inv' /\ Once /\ [Next]_vars => Once'
  BY NextOnce
<1>3. Once => NoDuplicates
  BY DEF Once, World
<1> QED BY <1>1, <1>2, <1>3, Invariance, PTL DEF Spec
=============================================================================
