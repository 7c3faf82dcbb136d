----------------------------- MODULE Reconciler -----------------------------
(***************************************************************************)
(* Runs of "apply" and "destroy" against one Coolify instance: resolving    *)
(* the live state, building the plan, and the engine that carries it out.   *)
(*                                                                         *)
(* A run goes through the phases                                           *)
(*   idle -> projects -> envs -> apps -> services -> databases    (Resolve) *)
(*        -> diff -> confirm                     (buildOperations, prompt)  *)
(*        -> engine <-> sent <-> audit                      (Engine.Apply)  *)
(* and ends in "done" when it entered the engine, in "skipped" otherwise.  *)
(* Every listing is one call, so the instance may change between two.       *)
(***************************************************************************)
EXTENDS Coolify

CONSTANTS
  Scripts,   \* the command lines the runs may be started with: [Runs -> commands]
  Overlap    \* runs may be active at the same time

Killed == 3  \* exit of a run that crashed
NoExit == 4  \* exit of a run that has not ended

CommandLines ==
  [mode : {"apply", "destroy"}, only : STRING, envs : SUBSET STRING,
   approve : BOOLEAN, dry : BOOLEAN, tty : BOOLEAN, online : BOOLEAN]

ASSUME ScriptsType == Scripts \subseteq [Runs -> CommandLines]
ASSUME OverlapType == Overlap \in BOOLEAN

VARIABLES
  phase,     \* where each run stands
  cmd,       \* its command line; never changes
  resolved,  \* state.Map: [Keys -> uuid], None when not resolved
  listing,   \* projects whose environments are still to be listed
  envRefs,   \* ids of the environments listed (envByID)
  scanning,  \* servers whose resources are still to be listed
  comparing, \* resolved applications and databases still to be diffed
  plan,      \* the operations the run decided on
  cur,       \* the operation the engine is at: at most one
  audited,   \* operations recorded in the audit log, which are those counted
             \* in Summary.Applied
  exit       \* the exit code

progressVars == <<resolved, listing, envRefs, scanning, comparing>>
engineVars == <<plan, cur, audited>>
runVars == <<phase, cmd, progressVars, engineVars, exit>>
vars == <<serverVars, runVars>>

Reading == {"projects", "envs", "apps", "services", "databases", "diff"}
Executing == {"engine", "sent", "audit"}
Ended == {"done", "skipped"}
Active == Reading \cup Executing \cup {"confirm"}
Phases == {"idle"} \cup Active \cup Ended

Init ==
  /\ CoolifyInit
  /\ phase = [r \in Runs |-> "idle"]
  /\ cmd \in Scripts
  /\ resolved = [r \in Runs |-> [k \in Keys |-> None]]
  /\ listing = [r \in Runs |-> {}]
  /\ envRefs = [r \in Runs |-> {}]
  /\ scanning = [r \in Runs |-> {}]
  /\ comparing = [r \in Runs |-> {}]
  /\ plan = [r \in Runs |-> {}]
  /\ cur = [r \in Runs |-> {}]
  /\ audited = [r \in Runs |-> {}]
  /\ exit = [r \in Runs |-> NoExit]

-----------------------------------------------------------------------------
(* Steps shared by the actions.                                            *)

Goto(r, p) ==
  /\ phase' = [phase EXCEPT ![r] = p]
  /\ exit' = exit

\* The run ends before it reached the engine.
Skip(r, code) ==
  /\ phase' = [phase EXCEPT ![r] = "skipped"]
  /\ exit' = [exit EXCEPT ![r] = code]

\* The engine returns.
Return(r, code) ==
  /\ phase' = [phase EXCEPT ![r] = "done"]
  /\ exit' = [exit EXCEPT ![r] = code]

\* Mutant of FailureCode: a partial failure is not told apart.
FailureCodeAlwaysOne(r) == 1

\* The exit code of a failed engine: 2 when Summary.Applied > 0.
FailureCode(r) == IF audited[r] = {} THEN 1 ELSE 2

Resolved(r, x) == resolved[r][KeyOf(x)] # None

-----------------------------------------------------------------------------
(* Starting.                                                               *)

\* Mutant of Refused: a run without a terminal is asked as well.
RefusedOfflineOnly(c) == ~c.dry /\ ~c.online

\* A non-interactive run without --auto-approve, and an offline run that is
\* no dry-run, are refused.
Refused(c) == ~c.dry /\ (c.online => ~c.approve /\ ~c.tty)

\* An offline dry-run reads nothing: every listing stays empty.
Start(r) ==
  /\ phase[r] = "idle"
  /\ ~Overlap => \A q \in Runs : phase[q] \notin Active
  /\ IF Refused(cmd[r]) THEN Skip(r, 1)
     ELSE Goto(r, IF cmd[r].online THEN "projects" ELSE "databases")
  /\ foreign' = [foreign EXCEPT ![r] = FALSE]
  /\ UNCHANGED <<cmd, progressVars, engineVars>>
  /\ UNCHANGED <<remote, issued, net, seen, waiting, reply, effects, dash>>

-----------------------------------------------------------------------------
(* Resolve.  Later entries of a listing overwrite earlier ones of the same  *)
(* key, and a listing has no promised order: any of them may win.          *)

Learn(r, objs) ==
  LET found == {KeyOf(o) : o \in objs} \cap Keys
  IN \E pick \in [found -> {o.uuid : o \in objs}] :
       /\ \A k \in found : \E o \in objs : KeyOf(o) = k /\ pick[k] = o.uuid
       /\ resolved' = [resolved EXCEPT ![r] =
            [k \in Keys |-> IF k \in found THEN pick[k] ELSE @[k]]]

ListProjects(r) ==
  /\ phase[r] = "projects"
  /\ LET projects == {o \in remote : o.kind = "Project"}
     IN /\ Learn(r, projects)
        /\ listing' = [listing EXCEPT ![r] = {o.uuid : o \in projects}]
  /\ Goto(r, "envs")
  /\ UNCHANGED <<serverVars, cmd, envRefs, scanning, comparing, engineVars>>

\* Mutant of ListEnvironments: the environments' ids are not kept.
ListEnvironmentsUnindexed(r) ==
  /\ phase[r] = "envs"
  /\ \E p \in listing[r] :
       /\ Live(p)
       /\ Learn(r, {o \in remote : o.kind = "Environment" /\ o.parent = p})
       /\ listing' = [listing EXCEPT ![r] = @ \ {p}]
  /\ UNCHANGED <<serverVars, phase, exit, cmd, envRefs, scanning, comparing, engineVars>>

\* The environments of one project: a 404 when it has been deleted since.
ListEnvironments(r) ==
  /\ phase[r] = "envs"
  /\ \E p \in listing[r] :
       LET envs == {o \in remote : o.kind = "Environment" /\ o.parent = p}
       IN /\ Live(p)
          /\ Learn(r, envs)
          /\ envRefs' = [envRefs EXCEPT ![r] = @ \cup {o.uuid : o \in envs}]
          /\ listing' = [listing EXCEPT ![r] = @ \ {p}]
  /\ UNCHANGED <<serverVars, phase, exit, cmd, scanning, comparing, engineVars>>

\* Servers are neither created nor deleted by anyone here.
ListServers(r) ==
  /\ phase[r] = "envs" /\ listing[r] = {}
  /\ scanning' = [scanning EXCEPT ![r] = Servers]
  /\ Goto(r, "apps")
  /\ UNCHANGED <<serverVars, cmd, resolved, listing, envRefs, comparing, engineVars>>

\* mapChild drops what belongs to an environment not listed before.
ListChildren(r, from, kind, to) ==
  /\ phase[r] = from
  /\ Learn(r, {o \in remote : o.kind = kind /\ o.parent \in envRefs[r]})
  /\ Goto(r, to)
  /\ UNCHANGED <<serverVars, cmd, listing, envRefs, scanning, comparing, engineVars>>

ListApplications(r) == ListChildren(r, "apps", "Application", "services")
ListServices(r) == ListChildren(r, "services", "Service", "databases")

\* resolveDatabases: one server, whatever project its databases belong to.
ScanServer(r) ==
  /\ phase[r] = "databases"
  /\ \E s \in scanning[r] :
       /\ Learn(r, {o \in remote : o.kind = "Database" /\ o.server = s})
       /\ scanning' = [scanning EXCEPT ![r] = @ \ {s}]
  /\ UNCHANGED <<serverVars, phase, exit, cmd, listing, envRefs, comparing, engineVars>>

-----------------------------------------------------------------------------
(* buildOperations and loadDeleteInput: from the manifests to a plan.      *)

Diffed == {"Application", "Database"}

\* What is declared, selected and not resolved is created.
Creations(r) ==
  {[verb |-> "create", res |-> x] : x \in {y \in Wanted(cmd[r]) : ~Resolved(r, y)}}

\* Mutant of Deletions: projects are left out.
DeletionsKeepProjects(r) ==
  {[verb |-> "delete", res |-> x] :
     x \in {y \in Wanted(cmd[r]) : y.kind # "Project" /\ (Resolved(r, y) \/ ~cmd[r].online)}}

\* What is declared, selected and resolved is deleted; an offline preview
\* assumes that everything exists.
Deletions(r) ==
  {[verb |-> "delete", res |-> x] :
     x \in {y \in Wanted(cmd[r]) : Resolved(r, y) \/ ~cmd[r].online}}

\* The manifests are read once everything is resolved.
Load(r) ==
  /\ phase[r] = "databases" /\ scanning[r] = {}
  /\ IF InvalidSelection(cmd[r])
       THEN Skip(r, 2) /\ UNCHANGED <<plan, comparing>>
       ELSE /\ Goto(r, "diff")
            /\ plan' = [plan EXCEPT ![r] =
                 IF cmd[r].mode = "destroy" THEN Deletions(r) ELSE Creations(r)]
            /\ comparing' = [comparing EXCEPT ![r] =
                 IF cmd[r].mode = "destroy" THEN {}
                 ELSE {x \in Wanted(cmd[r]) : x.kind \in Diffed /\ Resolved(r, x)}]
  /\ UNCHANGED <<serverVars, cmd, resolved, listing, envRefs, scanning, cur, audited>>

\* Mutant of Compare: a resource on another server is not refused.
CompareAnyServer(r) ==
  /\ phase[r] = "diff"
  /\ \E x \in comparing[r], o \in remote :
       /\ o.uuid = resolved[r][KeyOf(x)]
       /\ plan' = [plan EXCEPT ![r] =
            @ \cup (IF o.spec = "ok" THEN {} ELSE {[verb |-> "update", res |-> x]})]
       /\ comparing' = [comparing EXCEPT ![r] = @ \ {x}]
  /\ UNCHANGED <<serverVars, phase, exit, cmd, resolved, listing, envRefs, scanning,
                 cur, audited>>

\* One GET: applications and databases that differ are updated.
Compare(r) ==
  /\ phase[r] = "diff"
  /\ \E x \in comparing[r], o \in remote :
       /\ o.uuid = resolved[r][KeyOf(x)]
       /\ o.server = x.server
       /\ plan' = [plan EXCEPT ![r] =
            @ \cup (IF o.spec = "ok" THEN {} ELSE {[verb |-> "update", res |-> x]})]
       /\ comparing' = [comparing EXCEPT ![r] = @ \ {x}]
  /\ UNCHANGED <<serverVars, phase, exit, cmd, resolved, listing, envRefs, scanning,
                 cur, audited>>

\* destinationMoveError: a resource on another server than declared.
RefuseMove(r) ==
  /\ phase[r] = "diff"
  /\ \E x \in comparing[r], o \in remote :
       o.uuid = resolved[r][KeyOf(x)] /\ o.server # x.server
  /\ Skip(r, 1)
  /\ UNCHANGED <<serverVars, cmd, progressVars, engineVars>>

\* A read is answered by an error: with 404 when its object is gone, and at
\* any point when Coolify cannot be reached, a manifest does not parse or a
\* ${env:} reference is unset.
ReadFails(r) ==
  /\ \/ /\ phase[r] \in Reading
        /\ "unreachable" \in Faults
     \/ /\ phase[r] = "envs"
        /\ \E p \in listing[r] : ~Live(p)
     \/ /\ phase[r] = "diff"
        /\ \E x \in comparing[r] : ~Live(resolved[r][KeyOf(x)])
  /\ Skip(r, 1)
  /\ UNCHANGED <<serverVars, cmd, progressVars, engineVars>>

\* The plan is complete: it is previewed, carried out, or asked about.
Planned(r) ==
  /\ phase[r] = "diff" /\ comparing[r] = {}
  /\ IF cmd[r].dry THEN Skip(r, 0)
     ELSE Goto(r, IF cmd[r].approve THEN "engine" ELSE "confirm")
  /\ UNCHANGED <<serverVars, cmd, progressVars, engineVars>>

\* The user answers the prompt; anything but yes cancels.
Answers(r) ==
  /\ phase[r] = "confirm"
  /\ (Goto(r, "engine") \/ Skip(r, 0))
  /\ UNCHANGED <<serverVars, cmd, progressVars, engineVars>>

-----------------------------------------------------------------------------
(* Engine.Apply.                                                           *)

\* The uuid a request needs: the project's to create under it or to delete an
\* environment of it, the resource's own otherwise.
At(r, op) ==
  CASE op.res.kind = "Project" /\ op.verb = "create" -> None
    [] op.res.kind = "Environment" \/ (op.res.kind # "Project" /\ op.verb = "create") ->
         resolved[r][ProjectKey(op.res.project)]
    [] OTHER -> resolved[r][KeyOf(op.res)]

\* A create fails without a call when its project or its server is unknown.
\* What is updated or deleted was resolved when the plan was made, and a run
\* forgets nothing: the branches for the contrary cannot be reached.
Sendable(r, op) ==
  op.verb = "create" /\ op.res.kind # "Project" =>
    /\ At(r, op) # None
    /\ op.res.kind # "Environment" => op.res.server \in Servers

FirstTry(r, op, verb, at) ==
  [run |-> r, verb |-> verb, res |-> op.res, at |-> at, try |-> 1]

Begin(r) ==
  /\ phase[r] = "engine"
  /\ \E op \in Foremost(plan[r] \ audited[r]) :
       /\ Sendable(r, op)
       /\ cur' = [cur EXCEPT ![r] = {op}]
       /\ Send(FirstTry(r, op, op.verb, At(r, op)))
  /\ Goto(r, "sent")
  /\ UNCHANGED <<remote, issued, seen, effects, foreign, dash>>
  /\ UNCHANGED <<cmd, progressVars, plan, audited>>

Unresolvable(r) ==
  /\ phase[r] = "engine"
  /\ \E op \in Foremost(plan[r] \ audited[r]) :
       ~Sendable(r, op) /\ cur' = [cur EXCEPT ![r] = {op}]
  /\ Return(r, FailureCode(r))
  /\ UNCHANGED <<serverVars, cmd, progressVars, plan, audited>>

\* The answer to a create teaches the run the new uuid.
LearnCreated(r) ==
  resolved' = IF \E m \in waiting[r] : m.verb = "create"
              THEN [resolved EXCEPT ![r] = [k \in Keys |->
                      IF \E op \in cur[r] : k = KeyOf(op.res) THEN reply[r].uuid ELSE @[k]]]
              ELSE resolved

\* applyServiceEnvs: a created service's variables take a second call.
NeedsVariables(r) ==
  \E m \in waiting[r] : m.verb = "create" /\ m.res.kind = "Service" /\ m.res.envs

\* Mutant of Acknowledge: the answer's status is not checked.
AcknowledgeAnyStatus(r) ==
  /\ phase[r] = "sent" /\ reply[r].status # "none"
  /\ LearnCreated(r)
  /\ HangUp(r)
  /\ Goto(r, "audit")
  /\ UNCHANGED <<remote, issued, net, seen, effects, foreign, dash>>
  /\ UNCHANGED <<cmd, listing, envRefs, scanning, comparing, engineVars>>

Acknowledge(r) ==
  /\ phase[r] = "sent" /\ reply[r].status = "ok" /\ ~NeedsVariables(r)
  /\ LearnCreated(r)
  /\ HangUp(r)
  /\ Goto(r, "audit")
  /\ UNCHANGED <<remote, issued, net, seen, effects, foreign, dash>>
  /\ UNCHANGED <<cmd, listing, envRefs, scanning, comparing, engineVars>>

SendVariables(r) ==
  /\ phase[r] = "sent" /\ reply[r].status = "ok" /\ NeedsVariables(r)
  /\ LearnCreated(r)
  /\ \E op \in cur[r] : Send(FirstTry(r, op, "envs", reply[r].uuid))
  /\ UNCHANGED <<remote, issued, seen, effects, foreign, dash>>
  /\ UNCHANGED <<phase, exit, cmd, listing, envRefs, scanning, comparing, engineVars>>

Rejected(r) ==
  /\ phase[r] = "sent" /\ reply[r].status = "refused"
  /\ HangUp(r)
  /\ Return(r, FailureCode(r))
  /\ UNCHANGED <<remote, issued, net, seen, effects, foreign, dash>>
  /\ UNCHANGED <<cmd, progressVars, engineVars>>

\* Mutant of Retry: attempts are not counted.
RetryForever(r) ==
  /\ phase[r] = "sent" /\ "timeout" \in Faults
  /\ \E m \in waiting[r] : Send([m EXCEPT !.try = @ + 1])
  /\ UNCHANGED <<remote, issued, seen, effects, foreign, dash>>
  /\ UNCHANGED runVars

\* retryablehttp: no answer within the timeout, a broken connection, a 429 or
\* a 5xx; whether the server carried the request out is unknown.
Retry(r) ==
  /\ phase[r] = "sent" /\ "timeout" \in Faults
  /\ \E m \in waiting[r] : m.try < MaxTries /\ Send([m EXCEPT !.try = @ + 1])
  /\ UNCHANGED <<remote, issued, seen, effects, foreign, dash>>
  /\ UNCHANGED runVars

\* Mutant of GiveUp: a request that ran out of attempts counts as done.
GiveUpAsDone(r) ==
  /\ phase[r] = "sent" /\ "timeout" \in Faults
  /\ \E m \in waiting[r] : m.try = MaxTries
  /\ HangUp(r)
  /\ Goto(r, "audit")
  /\ UNCHANGED <<remote, issued, net, seen, effects, foreign, dash>>
  /\ UNCHANGED <<cmd, progressVars, engineVars>>

\* Mutant of GiveUp: the engine goes on after a request without an answer.
GiveUpContinues(r) ==
  /\ phase[r] = "sent" /\ "timeout" \in Faults
  /\ \E m \in waiting[r] : m.try = MaxTries
  /\ HangUp(r)
  /\ Goto(r, "engine")
  /\ UNCHANGED <<remote, issued, net, seen, effects, foreign, dash>>
  /\ UNCHANGED <<cmd, progressVars, engineVars>>

\* Mutant of GiveUp: one attempt too many is waited for.
GiveUpNever(r) ==
  /\ phase[r] = "sent" /\ "timeout" \in Faults
  /\ \E m \in waiting[r] : m.try > MaxTries
  /\ HangUp(r)
  /\ Return(r, FailureCode(r))
  /\ UNCHANGED <<remote, issued, net, seen, effects, foreign, dash>>
  /\ UNCHANGED <<cmd, progressVars, engineVars>>

GiveUp(r) ==
  /\ phase[r] = "sent" /\ "timeout" \in Faults
  /\ \E m \in waiting[r] : m.try = MaxTries
  /\ HangUp(r)
  /\ Return(r, FailureCode(r))
  /\ UNCHANGED <<remote, issued, net, seen, effects, foreign, dash>>
  /\ UNCHANGED <<cmd, progressVars, engineVars>>

\* Auditor.Record, and Summary.Applied counts the operation.
Record(r) ==
  /\ phase[r] = "audit"
  /\ audited' = [audited EXCEPT ![r] = @ \cup cur[r]]
  /\ Goto(r, "engine")
  /\ UNCHANGED <<serverVars, cmd, progressVars, plan, cur>>

\* The log cannot be written: Apply returns before it counts the operation.
RecordFails(r) ==
  /\ phase[r] = "audit" /\ "audit" \in Faults
  /\ Return(r, FailureCode(r))
  /\ UNCHANGED <<serverVars, cmd, progressVars, engineVars>>

\* Mutant of Finish: the engine may return before its plan is carried out.
FinishEarly(r) ==
  /\ phase[r] = "engine"
  /\ Return(r, 0)
  /\ UNCHANGED <<serverVars, cmd, progressVars, engineVars>>

Finish(r) ==
  /\ phase[r] = "engine" /\ plan[r] = audited[r]
  /\ Return(r, 0)
  /\ UNCHANGED <<serverVars, cmd, progressVars, engineVars>>

\* The process dies; what it sent may still arrive.
Crash(r) ==
  /\ "crash" \in Faults /\ phase[r] \in Active
  /\ IF phase[r] \in Executing THEN Return(r, Killed) ELSE Skip(r, Killed)
  /\ HangUp(r)
  /\ UNCHANGED <<remote, issued, net, seen, effects, foreign, dash>>
  /\ UNCHANGED <<cmd, progressVars, engineVars>>

-----------------------------------------------------------------------------
\* What a run does by itself once started, and in bounded time.
Proceed(r) ==
  \/ ListProjects(r) \/ ListEnvironments(r) \/ ListServers(r)
  \/ ListApplications(r) \/ ListServices(r) \/ ScanServer(r)
  \/ Load(r) \/ Compare(r) \/ RefuseMove(r) \/ ReadFails(r) \/ Planned(r)
  \/ Begin(r) \/ Unresolvable(r)
  \/ Acknowledge(r) \/ SendVariables(r) \/ Rejected(r) \/ Retry(r) \/ GiveUp(r)
  \/ Record(r) \/ RecordFails(r) \/ Finish(r)

Serve == \E m \in net : Handle(m)

Next ==
  \/ \E r \in Runs : Start(r) \/ Proceed(r) \/ Answers(r) \/ Crash(r)
  \/ (Serve /\ UNCHANGED runVars)
  \/ (Dashboard /\ UNCHANGED runVars)

Spec == Init /\ [][Next]_vars

\* Every call of the client has a timeout and a bounded number of retries, so
\* a started run moves on.  Nothing is assumed of the server or of the user.
FairSpec == Spec /\ \A r \in Runs : WF_vars(Proceed(r))
=============================================================================
