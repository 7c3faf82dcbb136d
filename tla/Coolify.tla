------------------------------ MODULE Coolify -------------------------------
(***************************************************************************)
(* The Coolify instance as internal/coolify's client and its tests use it: *)
(* a set of objects, requests in flight, and the answers.  The server      *)
(* itself is not part of the repository, so its actions are external.      *)
(*                                                                         *)
(* A request may be handled long after its sender gave it up: a client     *)
(* timeout closes the connection, it does not recall the request.          *)
(***************************************************************************)
EXTENDS Manifest

CONSTANTS
  Runs,         \* runs of the program against this instance
  Seeds,        \* the sets of objects the instance may start with
  MaxObjects,   \* bound on the objects ever created
  MaxTries,     \* attempts per call: 1 + RetryMax of NewClient
  MaxDashboard, \* bound on changes made outside the program
  HonoursKey,   \* the server replays the answer to a repeated Idempotency-Key
  Faults        \* what may go wrong: see FaultKinds

FaultKinds == {"timeout", "crash", "unreachable", "refuse", "audit"}

None == 0
Uuids == 1 .. MaxObjects

\* An object the API lists: parent is a project's uuid for an environment and
\* an environment's id for the rest.  spec says how the live fields compare
\* with the manifest: equal, different in a field a PATCH carries ("drift"),
\* or different in one it never carries ("stuck").  envs: its variables are set.
Objects == [uuid : Uuids, kind : Kinds, project : STRING, environment : STRING,
            name : STRING, parent : Uuids \cup {None}, server : STRING,
            spec : {"ok", "drift", "stuck"}, envs : BOOLEAN]

\* at: the uuid in the path of the request, or the project uuid in its body.
Requests == [run : Runs, verb : {"create", "update", "delete", "envs"},
             res : Targets, at : Uuids \cup {None}, try : 1 .. MaxTries]

\* What idempotencyKey hashes, method, path and body: a DELETE has no body,
\* so its key is the path alone.
IdKeys == [verb : {"create", "update", "delete", "envs"},
           about : Targets \cup [kind : Kinds, name : STRING],
           at : Uuids \cup {None}]

\* Mutant of IdempotencyKey: a fresh key for every attempt.
IdempotencyKeyPerTry(m) == [verb |-> m.verb, at |-> m.at, about |-> m]

IdempotencyKey(m) ==
  [verb |-> m.verb, at |-> m.at,
   about |-> IF m.verb = "delete" THEN [kind |-> m.res.kind, name |-> m.res.name]
             ELSE m.res]

ASSUME CoolifyType ==
  /\ MaxObjects \in Nat
  /\ MaxTries \in Nat \ {0}
  /\ MaxDashboard \in Nat
  /\ HonoursKey \in BOOLEAN
  /\ Faults \subseteq FaultKinds
ASSUME SeedsType ==
  \A S \in Seeds :
    S \subseteq Objects /\ IsFiniteSet(S) /\ Cardinality(S) <= MaxObjects

VARIABLES
  remote,   \* the live objects
  issued,   \* uuids handed out so far: 1 .. issued
  net,      \* requests sent and not handled yet
  seen,     \* idempotency keys answered, with the uuid of the answer
  waiting,  \* the request a run's open connection carries, if any
  reply,    \* the answer on its way over that connection
  effects,  \* history: the operations of each run the server carried out
  foreign,  \* history: someone else changed an object since the run started
  dash      \* changes made outside the program so far

serverVars == <<remote, issued, net, seen, waiting, reply, effects, foreign, dash>>

NoReply == [status |-> "none", uuid |-> None]
Replies == [status : {"none", "ok", "refused"}, uuid : Uuids \cup {None}]

CoolifyTypeOK ==
  /\ remote \subseteq Objects
  /\ issued \in 0 .. MaxObjects
  /\ net \subseteq Requests
  /\ seen \subseteq [key : IdKeys, uuid : Uuids \cup {None}]
  /\ waiting \in [Runs -> SUBSET Requests]
  /\ reply \in [Runs -> Replies]
  /\ effects \in [Runs -> SUBSET Ops]
  /\ foreign \in [Runs -> BOOLEAN]
  /\ dash \in 0 .. MaxDashboard

CoolifyInit ==
  /\ remote \in Seeds
  /\ issued = Cardinality(remote)
  /\ net = {}
  /\ seen = {}
  /\ waiting = [r \in Runs |-> {}]
  /\ reply = [r \in Runs |-> NoReply]
  /\ effects = [r \in Runs |-> {}]
  /\ foreign = [r \in Runs |-> FALSE]
  /\ dash = 0

-----------------------------------------------------------------------------
(* The client side of the connection.                                      *)

\* The run opens a connection for m; a late answer to an earlier one is lost.
Send(m) ==
  /\ net' = net \cup {m}
  /\ waiting' = [waiting EXCEPT ![m.run] = {m}]
  /\ reply' = [reply EXCEPT ![m.run] = NoReply]

\* The run's connection is closed; its request may still be in flight.
HangUp(r) ==
  /\ waiting' = [waiting EXCEPT ![r] = {}]
  /\ reply' = [reply EXCEPT ![r] = NoReply]

-----------------------------------------------------------------------------
(* The server side.                                                        *)

Live(u) == \E o \in remote : o.uuid = u

Children(o) == {x \in remote : x.parent = o.uuid}

\* The operation a request belongs to: a service's variables are set by a
\* second call of its create.
OpOf(m) == [verb |-> IF m.verb = "envs" THEN "create" ELSE m.verb, res |-> m.res]

\* What the request addresses: an environment by project and name, anything
\* else by uuid.
Addressed(m) ==
  IF m.verb = "delete" /\ m.res.kind = "Environment"
    THEN {o \in remote : o.kind = "Environment" /\ o.parent = m.at /\ o.name = m.res.name}
    ELSE {o \in remote : o.uuid = m.at}

\* What a created object goes under: nothing, the project, or the environment
\* of that name in the project.  An environment's name is unique in a project,
\* a database's on a server.
Parents(m) ==
  CASE m.res.kind = "Project" -> {None}
    [] m.res.kind = "Environment" ->
         {o.uuid : o \in {x \in remote :
            /\ x.kind = "Project"
            /\ x.uuid = m.at
            /\ \A y \in Children(x) : y.name # m.res.name}}
    [] OTHER ->
         {o.uuid : o \in {x \in remote :
            /\ x.kind = "Environment"
            /\ x.parent = m.at
            /\ x.name = m.res.environment
            /\ m.res.kind = "Database" =>
                 \A y \in remote : y.kind = "Database" /\ y.server = m.res.server
                                    => y.name # m.res.name}}

Created(m, u, parent) ==
  [uuid |-> u, kind |-> m.res.kind, project |-> m.res.project,
   environment |-> m.res.environment, name |-> m.res.name, parent |-> parent,
   server |-> m.res.server, spec |-> "ok", envs |-> FALSE]

Changed(m, o) ==
  IF m.verb = "envs" THEN [o EXCEPT !.envs = TRUE]
  ELSE [o EXCEPT !.spec = IF @ = "drift" THEN "ok" ELSE @]

Answered(m) == HonoursKey /\ \E s \in seen : s.key = IdempotencyKey(m)

\* m is taken off the network and answered over its connection, if still open.
Answer(m, status, uuid) ==
  /\ net' = net \ {m}
  /\ reply' = IF m \in waiting[m.run]
               THEN [reply EXCEPT ![m.run] = [status |-> status, uuid |-> uuid]]
               ELSE reply

\* A request that did what it asked for, and what it leaves behind.
Succeed(m, uuid) ==
  /\ Answer(m, "ok", uuid)
  /\ effects' = [effects EXCEPT ![m.run] = @ \cup {OpOf(m)}]
  /\ seen' = IF HonoursKey
              THEN seen \cup {[key |-> IdempotencyKey(m), uuid |-> uuid]}
              ELSE seen

\* Every run but r (every run, when r is none of them) sees remote change.
Disturb(r) == foreign' = [q \in Runs |-> foreign[q] \/ q # r]

CreateObject(m) ==
  /\ m.verb = "create" /\ ~Answered(m) /\ issued < MaxObjects
  /\ \E p \in Parents(m) : remote' = remote \cup {Created(m, issued + 1, p)}
  /\ issued' = issued + 1
  /\ Succeed(m, issued + 1)
  /\ Disturb(m.run)
  /\ UNCHANGED <<waiting, dash>>

ChangeObject(m) ==
  /\ m.verb \in {"update", "envs"} /\ ~Answered(m)
  /\ \E o \in Addressed(m) : remote' = (remote \ {o}) \cup {Changed(m, o)}
  /\ Succeed(m, None)
  /\ Disturb(m.run)
  /\ UNCHANGED <<issued, waiting, dash>>

\* A project or environment that is not empty is not deleted.
RemoveObject(m) ==
  /\ m.verb = "delete" /\ ~Answered(m)
  /\ \E o \in Addressed(m) : Children(o) = {} /\ remote' = remote \ {o}
  /\ Succeed(m, None)
  /\ Disturb(m.run)
  /\ UNCHANGED <<issued, waiting, dash>>

\* ignoreNotFound: the client takes a 404 on a delete for success.
AlreadyGone(m) ==
  /\ m.verb = "delete" /\ ~Answered(m) /\ Addressed(m) = {}
  /\ Succeed(m, None)
  /\ UNCHANGED <<remote, issued, waiting, foreign, dash>>

\* A repeated Idempotency-Key: the first answer again, and nothing done.
ReplayAnswer(m) ==
  /\ HonoursKey
  /\ \E s \in seen : s.key = IdempotencyKey(m) /\ Succeed(m, s.uuid)
  /\ UNCHANGED <<remote, issued, waiting, foreign, dash>>

Possible(m) ==
  CASE m.verb = "create" -> Parents(m) # {} /\ issued < MaxObjects
    [] m.verb = "delete" -> \A o \in Addressed(m) : Children(o) = {}
    [] OTHER -> Addressed(m) # {}

\* A 4xx, which retryablehttp does not retry (a 5xx it does: see Timeout).
RefuseRequest(m) ==
  /\ ~Answered(m)
  /\ (~Possible(m) \/ "refuse" \in Faults)
  /\ Answer(m, "refused", None)
  /\ UNCHANGED <<remote, issued, seen, waiting, effects, foreign, dash>>

Handle(m) ==
  \/ CreateObject(m)
  \/ ChangeObject(m)
  \/ RemoveObject(m)
  \/ AlreadyGone(m)
  \/ ReplayAnswer(m)
  \/ RefuseRequest(m)

-----------------------------------------------------------------------------
(* Someone at the dashboard.                                               *)

DashboardDelete(o) ==
  /\ Children(o) = {}
  /\ remote' = remote \ {o}

DashboardEdit(o) ==
  /\ o.kind \in {"Application", "Database"}
  /\ \E s \in {"drift", "stuck"} \ {o.spec} : remote' = (remote \ {o}) \cup {[o EXCEPT !.spec = s]}

Dashboard ==
  /\ dash < MaxDashboard
  /\ \E o \in remote : DashboardDelete(o) \/ DashboardEdit(o)
  /\ dash' = dash + 1
  /\ foreign' = [q \in Runs |-> TRUE]
  /\ UNCHANGED <<issued, net, seen, waiting, reply, effects>>
=============================================================================
