-------------------------- MODULE ReconcilerProps --------------------------
(***************************************************************************)
(* What runs of "apply" and "destroy" guarantee, and what they do not.     *)
(***************************************************************************)
EXTENDS Reconciler

\* Every variable keeps its type, and a run's bookkeeping stays consistent:
\* it audits planned operations only and works on one operation at a time.
TypeOK ==
  /\ CoolifyTypeOK
  /\ phase \in [Runs -> Phases]
  /\ cmd \in [Runs -> CommandLines]
  /\ resolved \in [Runs -> [Keys -> Uuids \cup {None}]]
  /\ listing \in [Runs -> SUBSET Uuids]
  /\ envRefs \in [Runs -> SUBSET Uuids]
  /\ scanning \in [Runs -> SUBSET Servers]
  /\ comparing \in [Runs -> SUBSET Targets]
  /\ plan \in [Runs -> SUBSET Ops]
  /\ cur \in [Runs -> SUBSET Ops]
  /\ audited \in [Runs -> SUBSET Ops]
  /\ exit \in [Runs -> 0 .. NoExit]

-----------------------------------------------------------------------------
(* Safety of one run, whatever the server, the other runs and the network   *)
(* do.                                                                     *)

\* The audit log misses at most one operation the server carried out for a
\* run, however the run ends and however late its requests arrive: there is
\* one thing to look up before reconciling by hand (Engine.Apply).
UnauditedAtMostOne ==
  \A r \in Runs : \A a, b \in effects[r] \ audited[r] : a = b

\* What is audited was carried out: no entry is written on the strength of a
\* request that was only sent, retried or answered by an error.
AuditSound == \A r \in Runs : audited[r] \subseteq effects[r]

\* The server carries out no operation before everything the plan puts before
\* it is carried out and audited: parents first when creating, last when
\* deleting, late and repeated requests included (orderOps, Engine.Apply).
DependencyOrder ==
  \A r \in Runs : \A op \in effects[r], p \in plan[r] :
    Precedes(p, op) => p \in audited[r]

\* A dry-run, a run that was not approved and one that ended early change
\* nothing, and a run stays within the kind of change it announced.
ChangesAreApproved ==
  \A r \in Runs : effects[r] # {} =>
    /\ ~cmd[r].dry /\ cmd[r].online /\ (cmd[r].approve \/ cmd[r].tty)
    /\ phase[r] \in Executing \cup {"done"}
    /\ \A op \in effects[r] :
         op.res \in Wanted(cmd[r]) /\ (op.verb = "delete" <=> cmd[r].mode = "destroy")

\* The exit code bounds what the server carried out, however late: 0, the whole
\* plan; 2, some of it, with something left to be recorded; 1, at most the one
\* operation the engine stopped at (runApply, runDestroy).  That it may leave that
\* one contradicts the documentation: PartialIsTwo.
ExitCodeBounds ==
  \A r \in Runs : phase[r] = "done" =>
    /\ exit[r] = 0 => plan[r] = effects[r]
    /\ exit[r] = 2 => effects[r] # {} /\ audited[r] # plan[r]
    /\ exit[r] = 1 => plan[r] # {} /\ \A a, b \in effects[r] : a = b

-----------------------------------------------------------------------------
(* What a successful run leaves behind, when nobody else changed anything   *)
(* since it started.                                                       *)

Succeeds(r) ==
  phase[r] = "engine" /\ phase'[r] = "done" /\ exit'[r] = 0 /\ ~foreign[r]

\* The object a resource's key stands for is live and as declared.
Converged(r, x) ==
  \E o \in remote :
    /\ o.uuid = resolved[r][KeyOf(x)]
    /\ KeyOf(o) = KeyOf(x)
    /\ x.kind \in Diffed => o.spec # "drift" /\ o.server = x.server

\* After an apply that exits 0 every selected resource exists, applications
\* and databases on their server and without a difference a PATCH can remove.
ConvergedOnSuccess ==
  [][\A r \in Runs : Succeeds(r) /\ cmd[r].mode = "apply" =>
       \A x \in Wanted(cmd[r]) : Converged(r, x)]_vars

\* After a destroy that exits 0 nothing is left that an apply of the same
\* selection would have created.
GoneOnSuccess ==
  [][\A r \in Runs : Succeeds(r) /\ cmd[r].mode = "destroy" =>
       \A x \in Selected(cmd[r]), o \in remote : KeyOf(o) # KeyOf(Bound(x))]_vars

\* A run with --env changes and deletes only objects of those environments.
ChangesStayInScope ==
  [][\A m \in net \ net', o \in remote \ remote' : InScope(o, cmd[m.run])]_vars

\* Run q repeats the apply r, which exited 0, and nobody else changed anything
\* since r began.
Repeats(q, r) ==
  /\ phase[r] = "done" /\ exit[r] = 0 /\ ~foreign[r]
  /\ q # r /\ cmd[q] = cmd[r] /\ cmd[r].mode = "apply"
  /\ phase[q] \in Executing

\* A second apply has nothing to do, unless an object differs in a way no
\* PATCH of the program removes (updateRequestFromChanges, omitempty).
SecondApplyIsNoOp ==
  \A r, q \in Runs :
    Repeats(q, r) /\ (\A o \in remote : o.spec # "stuck") => plan[q] = {}

\* No two objects share a key, however often requests are retried and runs
\* are repeated.
NoDuplicates ==
  \A a, b \in remote : KeyOf(a) = KeyOf(b) => a = b

-----------------------------------------------------------------------------
(* What the theorems about objects assume of the manifests, the command     *)
(* lines and the instance.                                                 *)

\* The uuids of the objects the instance starts with are those issued.
NumberedSeeds ==
  \A S \in Seeds :
    /\ \A a, b \in S : a.uuid = b.uuid => a = b
    /\ \A o \in S : o.uuid <= Cardinality(S)

\* Nobody gives a reference as an --env.
PlainSelections == \A script \in Scripts, r \in Runs : script[r].envs \cap DOMAIN Env = {}

\* Databases of one name, declared or live from the start, are in environments
\* of one name.
DatabasesApart ==
  \A a, b \in Targets \cup UNION Seeds :
    a.kind = "Database" /\ b.kind = "Database" /\ a.name = b.name
      => a.environment = b.environment

\* No coordinate that is part of a key holds a reference.
AsWritten == \A x \in Declared : KeyOf(Bound(x)) = KeyOf(x)

\* No two declared resources have one key, in the form written or bound.
DistinctKeys == \A x, y \in Targets : KeyOf(x) = KeyOf(y) => x = y

\* A project declares only a name, an environment a project and a name.
PlainCoordinates ==
  \A x \in Targets :
    /\ x.kind = "Project" => x.project = "" /\ x.environment = ""
    /\ x.kind = "Environment" => x.environment = ""

\* Object o lies where its coordinates say, among the objects S.
Placed(o, S) ==
  /\ o.kind = "Project" => o.parent = None /\ o.project = "" /\ o.environment = ""
  /\ o.kind = "Environment" =>
       /\ o.environment = ""
       /\ \E q \in S : q.kind = "Project" /\ q.uuid = o.parent /\ q.name = o.project
  /\ o.kind \notin {"Project", "Environment"} =>
       \E q \in S : /\ q.kind = "Environment" /\ q.uuid = o.parent
                    /\ q.project = o.project /\ q.name = o.environment
  /\ o.kind = "Database" => o.server \in Servers

InGoodOrder(S, last) ==
  /\ \A a, b \in S : a.uuid = b.uuid => a = b
  /\ \A o \in S : o.uuid <= last /\ Placed(o, S)

GoodSeeds ==
  \A S \in Seeds :
    /\ InGoodOrder(S, Cardinality(S))
    /\ \A a, b \in S : KeyOf(a) = KeyOf(b) => a = b

\* No answer is lost and no run is killed.
Undisturbed == "timeout" \notin Faults /\ "crash" \notin Faults

-----------------------------------------------------------------------------
(* What the documentation says of the program and the program does not do.  *)

\* "2 (partial: some resources changed before a failure)": a run that exits 1 has
\* changed nothing (Engine.Apply, runApply).
PartialIsTwo ==
  \A r \in Runs : phase[r] = "done" /\ exit[r] = 1 => effects[r] = {}

-----------------------------------------------------------------------------
(* Progress and refinement.                                                *)

\* A started run ends, or waits for its user at the prompt.
RunsEnd ==
  \A r \in Runs : phase[r] \in Active ~> phase[r] \in Ended \cup {"confirm"}

\* A run seen from outside: the plan it committed to, and how far it is.
Committed(r) == IF phase[r] \in Executing \cup {"done"} THEN plan[r] ELSE {}

Status(r) ==
  CASE phase[r] \in Executing -> "running"
    [] phase[r] = "done" -> IF exit[r] = 0 THEN "complete" ELSE "stopped"
    [] phase[r] = "skipped" -> "skipped"
    [] OTHER -> "planning"

Execution(r) == INSTANCE OrderedExecution WITH
  Op <- Ops,
  Before <- {pair \in Ops \X Ops : Precedes(pair[1], pair[2])},
  todo <- Committed(r),
  done <- audited[r],
  status <- Status(r)

\* Every run implements OrderedExecution: it starts as one, and every step of
\* the system is a step of it or leaves it alone.
RunsAreOrdered ==
  /\ \A r \in Runs : Execution(r)!Init
  /\ [][\A r \in Runs : Execution(r)!Next \/ UNCHANGED Execution(r)!vars]_vars

-----------------------------------------------------------------------------
(* The inductive invariant behind the safety properties.                   *)

\* The engine works on one planned operation at a time, and has started
\* nothing before it was entered.
OneAtATime ==
  \A r \in Runs :
    /\ audited[r] \subseteq plan[r]
    /\ cur[r] \subseteq plan[r]
    /\ \A a, b \in cur[r] : a = b
    /\ phase[r] = "engine" => cur[r] \subseteq audited[r]
    /\ phase[r] \in {"sent", "audit"} => cur[r] # {} /\ cur[r] \cap audited[r] = {}
    /\ phase[r] \notin Executing \cup {"done"} => cur[r] = {} /\ audited[r] = {}

\* Whatever is in flight or done at the server belongs to an operation the
\* run has audited or is at; an answer of success is never ahead of the server.
Accounted ==
  /\ \A m \in net : OpOf(m) \in audited[m.run] \cup cur[m.run]
  /\ \A r \in Runs :
       /\ \A m \in waiting[r] : m.run = r /\ OpOf(m) \in cur[r]
       /\ effects[r] \subseteq audited[r] \cup cur[r]
       /\ audited[r] \subseteq effects[r]
       /\ phase[r] # "sent" => waiting[r] = {} /\ reply[r].status # "ok"
       /\ phase[r] = "audit" \/ reply[r].status = "ok" => cur[r] \subseteq effects[r]

\* What the plan puts before a started operation is audited.
InOrder ==
  \A r \in Runs : \A op \in audited[r] \cup cur[r], p \in plan[r] :
    Precedes(p, op) => p \in audited[r]

\* Only a run that may make changes gets past its prompt, and its plan is
\* about what it was asked to do.
Asked ==
  \A r \in Runs :
    /\ phase[r] \notin {"idle", "skipped"} => ~Refused(cmd[r])
    /\ phase[r] \in Executing \cup {"done", "confirm"} => ~cmd[r].dry
    /\ comparing[r] \subseteq Wanted(cmd[r])
    /\ comparing[r] # {} => cmd[r].mode # "destroy"
    /\ \A op \in plan[r] :
         op.res \in Wanted(cmd[r]) /\ (op.verb = "delete" <=> cmd[r].mode = "destroy")

\* The exit code of the engine agrees with the audit log.
ExitCodeTold ==
  \A r \in Runs : phase[r] = "done" =>
    /\ exit[r] = 0 => audited[r] = plan[r]
    /\ exit[r] = 1 => audited[r] = {} /\ plan[r] # {}
    /\ exit[r] = 2 => audited[r] # {} /\ audited[r] # plan[r]

Inv == TypeOK /\ OneAtATime /\ Accounted /\ InOrder /\ ExitCodeTold /\ Asked
=============================================================================
