------------------------------ MODULE Workspace ------------------------------
(***************************************************************************)
(* The program at work on a directory of manifests and a Coolify instance:  *)
(* import, plan and apply, and the write-back of the explorer, by several   *)
(* processes, while people edit manifests and live objects.                *)
(*                                                                         *)
(* A process works through its script, one command at a time:               *)
(*   import  collect -> root -> fill -> write -> temp -> rename             *)
(*   save    open -> write -> temp -> rename                               *)
(*   plan    load Application -> resolve -> load Database -> diff          *)
(*   apply   resolve -> load Application -> load Database -> bind -> diff   *)
(*           -> engine                                                     *)
(* Requests take effect when they are answered: what becomes of a lost one, *)
(* or of two applies at a time, is Reconciler's subject.                    *)
(***************************************************************************)
EXTENDS ManifestFiles, Sequences

CONSTANTS
  NoObject,   \* the resource is not live
  Scenarios,  \* what is on disk and live at first, scripts, and what people may do
  Drafts,     \* manifests a person may write by hand
  Knobs,      \* <<field, text>> a person may set at the dashboard
  Faults      \* what may go wrong

FaultKinds == {"crash", "io", "api"}
Imports == {"import", "import --force"}
Plans == {"plan", "plan offline"}
Commands == Imports \cup Plans \cup {"save", "apply"}

ASSUME FaultsType == Faults \subseteq FaultKinds
ASSUME NoObjectType == \A kind \in {"Application", "Database"} : NoObject \notin Objects(kind)

\* People write references for passwords, as the documentation tells them to.
Clean(m) == m.of.kind = "Database" => m.spec["password"] \in Refs \cup {""}

ASSUME DraftsType == \A m \in Drafts : m \in Manifests /\ Clean(m)

\* At the dashboard they type no references and do not move what runs.
ASSUME KnobsType == \A k \in Knobs :
  /\ k[1] \notin Destination \cup {"host"}
  /\ k[2] \in Text \ Refs
  /\ k[1] = "public" => k[2] \in {"true", "false"}

ASSUME ScenariosType == \A s \in Scenarios :
  /\ s.disk \in [Paths -> Manifests \cup {NoFile, Garbage}]
  /\ \A path \in Paths : s.disk[path] \in Manifests =>
       PathOf(s.disk[path].of) = path /\ Clean(s.disk[path])
  /\ s.root \in {"absent", "whole"}
  /\ DOMAIN s.live = Resources
  /\ \A r \in Resources : s.live[r] # NoObject =>
       s.live[r] \in Objects(r.kind) /\ \A f \in Known(r.kind) : s.live[r][f] \notin Refs
  /\ s.edits \in [disk : Nat, live : Nat]
  /\ s.script \in [Procs -> Seq(Commands)]

VARIABLES
  live,    \* the live object of each resource, or NoObject
  edits,   \* edits people may still make, to manifests and to live objects
  calm,    \* history: resources nobody else changed since a process's command began
  script,  \* the commands a process has yet to begin
  cmd,     \* the command it is at
  pc,      \* where that stands
  job      \* what it works with

worldVars == <<live, edits, calm>>
vars == <<filesVars, worldVars, script, cmd, pc, job>>

\* What a command works with.  todo: resources an import has still to fetch.
\* loading: the kind whose manifests are being loaded; files: paths its walk has
\* not come to; found: paths to be read.  have: the manifests mapped or loaded; left: those still to be written, diffed or carried out; cur: the one
\* being written.  resolved: resources the process knows the uuid of.
\* announced: the changes of a plan, or the operations of an apply.
Idle == [todo |-> {}, loading |-> "Application", files |-> {}, found |-> {},
         have |-> {}, left |-> {}, cur |-> {}, resolved |-> {}, announced |-> {}]

Ended == {"done", "failed", "killed"}
Active == {"collect", "root", "fill", "open", "write", "temp", "rename",
           "resolve", "load", "bind", "diff", "engine"}

Init ==
  /\ \E s \in Scenarios :
       /\ disk = s.disk
       /\ root = s.root
       /\ live = s.live
       /\ edits = s.edits
       /\ script = s.script
  /\ temp = [p \in Procs |-> NoFile]
  /\ steady = [p \in Procs |-> Paths]
  /\ calm = [p \in Procs |-> Resources]
  /\ cmd = [p \in Procs |-> "plan"]
  /\ pc = [p \in Procs |-> "idle"]
  /\ job = [p \in Procs |-> Idle]

-----------------------------------------------------------------------------
(* Steps shared by the actions.                                            *)

Live == {r \in Resources : live[r] # NoObject}

\* Everybody but p (everybody, when p is none of them) sees r change.
Touch(p, r, o) ==
  /\ live' = [live EXCEPT ![r] = o]
  /\ calm' = [q \in Procs |-> IF q = p THEN calm[q] ELSE calm[q] \ {r}]
  /\ edits' = edits

\* The command of p goes on at l with j.
Go(p, l, j) ==
  /\ pc' = [pc EXCEPT ![p] = l]
  /\ job' = [job EXCEPT ![p] = j]
  /\ UNCHANGED <<script, cmd>>

Fail(p) == Go(p, "failed", job[p])

\* Files of another kind are peeked at and passed over.
OfKind(kind) == {path \in Paths : KindAt(path) = kind}

Entry(c) ==
  CASE c \in Imports -> "collect"
    [] c = "save" -> "open"
    [] c \in Plans -> "load"
    [] c = "apply" -> "resolve"

\* An import begins with what is live (buildEnvIndex, enumerate).
Begin(p) ==
  /\ pc[p] \notin Active
  /\ script[p] # <<>>
  /\ LET c == Head(script[p]) IN
       /\ c = "apply" => \A q \in Procs : cmd[q] = "apply" => pc[q] \notin Active
       /\ cmd' = [cmd EXCEPT ![p] = c]
       /\ pc' = [pc EXCEPT ![p] = Entry(c)]
       /\ job' = [job EXCEPT ![p] =
                    [Idle EXCEPT !.files = IF c \in Plans \cup {"apply"}
                                              THEN OfKind("Application") ELSE {},
                                 !.todo = IF c \in Imports THEN Live ELSE {}]]
  /\ script' = [script EXCEPT ![p] = Tail(@)]
  /\ steady' = [steady EXCEPT ![p] = Paths]
  /\ calm' = [calm EXCEPT ![p] = Resources]
  /\ UNCHANGED <<disk, root, temp, live, edits>>

\* A temporary file stays behind; no walk sees it, as it does not end in .yaml.
Crash(p) ==
  /\ "crash" \in Faults
  /\ pc[p] \in Active
  /\ Go(p, "killed", job[p])
  /\ UNCHANGED <<filesVars, worldVars>>

\* A call to Coolify fails while a process reads.
ReadFails(p) ==
  /\ "api" \in Faults
  /\ pc[p] \in {"collect", "resolve"} \/ (pc[p] = "diff" /\ job[p].left # {})
  /\ cmd[p] # "plan offline"
  /\ Fail(p)
  /\ UNCHANGED <<filesVars, worldVars>>

-----------------------------------------------------------------------------
(* import (importer.Run, commitFiles).                                     *)

\* collect: one GET and its mapping, in the order of the listing.
Collect(p) ==
  /\ pc[p] = "collect"
  /\ job[p].todo # {}
  /\ LET r == CHOOSE x \in job[p].todo : TRUE IN
       Go(p, "collect", [job[p] EXCEPT !.todo = @ \ {r}, !.have = @ \cup {Map(r, live[r])}])
  /\ UNCHANGED <<filesVars, worldVars>>

\* Mutant of InTheWay: only the root manifest is looked for.
InTheWayRootOnly(p) == root # "absent"

\* existingPaths
InTheWay(p) == root # "absent" \/ \E m \in job[p].have : Exists(PathOf(m.of))

\* Before anything is written.
Check(p) ==
  /\ pc[p] = "collect"
  /\ job[p].todo = {}
  /\ IF cmd[p] = "import" /\ InTheWay(p) THEN Fail(p)
     ELSE Go(p, "root", [job[p] EXCEPT !.left = job[p].have])
  /\ UNCHANGED <<filesVars, worldVars>>

\* writeRootManifest, in place.
TruncateRoot(p) ==
  /\ pc[p] = "root"
  /\ WriteRoot("torn")
  /\ Go(p, "fill", job[p])
  /\ UNCHANGED worldVars

FillRoot(p) ==
  /\ pc[p] = "fill"
  /\ WriteRoot("whole")
  /\ Go(p, "write", job[p])
  /\ UNCHANGED worldVars

-----------------------------------------------------------------------------
(* save: the explorer writes back an application it loaded before.  The      *)
(* variables it edits are not among the fields; they are Explorer's subject. *)

\* LoadApplicationFiles, at once: one manifest that is not valid fails them all.
Open(p) ==
  /\ pc[p] = "open"
  /\ LET apps == {disk[path] : path \in {x \in OfKind("Application") : disk[x] \in Manifests}} IN
       IF apps # {} /\ \A m \in apps : Valid(m)
         THEN \E m \in apps : Go(p, "write", [job[p] EXCEPT !.have = {m}, !.left = {m}])
         ELSE Fail(p)
  /\ UNCHANGED <<filesVars, worldVars>>

-----------------------------------------------------------------------------
(* atomicWrite, for import and save.                                       *)

\* Mutant of StartFile: the manifest is truncated to be written in place.
StartFileInPlace(p) ==
  /\ pc[p] = "write"
  /\ \E m \in job[p].left :
       /\ Rewrite(p, PathOf(m.of), Torn)
       /\ Go(p, "temp", [job[p] EXCEPT !.cur = {m}])
  /\ temp' = [temp EXCEPT ![p] = Torn]
  /\ root' = root
  /\ UNCHANGED worldVars

StartFile(p) ==
  /\ pc[p] = "write"
  /\ \E m \in job[p].left : Go(p, "temp", [job[p] EXCEPT !.cur = {m}])
  /\ CreateTemp(p)
  /\ UNCHANGED worldVars

FillFile(p) ==
  /\ pc[p] = "temp"
  /\ \E m \in job[p].cur : FillTemp(p, m)
  /\ Go(p, "rename", job[p])
  /\ UNCHANGED worldVars

RenameFile(p) ==
  /\ pc[p] = "rename"
  /\ \E m \in job[p].cur :
       /\ RenameTemp(p, PathOf(m.of))
       /\ Go(p, "write", [job[p] EXCEPT !.left = @ \ {m}, !.cur = {}])
  /\ UNCHANGED worldVars

\* Mutant of WriteFails: an import goes on with the next file.
WriteFailsQuietly(p) ==
  /\ "io" \in Faults
  /\ pc[p] \in {"temp", "rename"}
  /\ RemoveTemp(p)
  /\ Go(p, "write", [job[p] EXCEPT !.left = @ \ job[p].cur, !.cur = {}])
  /\ UNCHANGED worldVars

\* Mutant of WriteFails: the file is tried again.
WriteFailsAgain(p) ==
  /\ "io" \in Faults
  /\ pc[p] \in {"temp", "rename"}
  /\ RemoveTemp(p)
  /\ Go(p, "write", [job[p] EXCEPT !.cur = {}])
  /\ UNCHANGED worldVars

\* The disk is full, or may not be written: what was written stays.
WriteFails(p) ==
  /\ "io" \in Faults
  /\ \/ pc[p] \in {"temp", "rename"} /\ RemoveTemp(p)
     \/ /\ pc[p] \in {"root", "fill"} \/ (pc[p] = "write" /\ job[p].left # {})
        /\ UNCHANGED filesVars
  /\ Fail(p)
  /\ UNCHANGED worldVars

Written(p) ==
  /\ pc[p] = "write"
  /\ job[p].left = {}
  /\ Go(p, "done", job[p])
  /\ UNCHANGED <<filesVars, worldVars>>

-----------------------------------------------------------------------------
(* Loading the manifests of one kind (LoadApplications, LoadDatabases).     *)

\* collectFiles comes to a path; WalkDir has a fixed order.
Walk(p) ==
  /\ pc[p] = "load"
  /\ job[p].files # {}
  /\ LET path == CHOOSE x \in job[p].files : TRUE IN
       Go(p, "load",
          [job[p] EXCEPT !.files = @ \ {path},
                         !.found = IF PeekKind(path) = job[p].loading
                                     THEN @ \cup {path} ELSE @])
  /\ UNCHANGED <<filesVars, worldVars>>

\* It is still there, parses and is valid.
Loadable(path) == disk[path] \in Manifests /\ Valid(disk[path])

\* Mutant of Read: a manifest that is not valid is passed over.
ReadLeniently(p) ==
  /\ pc[p] = "load"
  /\ job[p].files = {}
  /\ job[p].found # {}
  /\ LET path == CHOOSE x \in job[p].found : TRUE IN
       Go(p, "load", [job[p] EXCEPT !.found = @ \ {path},
                                    !.have = IF Loadable(path) THEN @ \cup {disk[path]} ELSE @])
  /\ UNCHANGED <<filesVars, worldVars>>

Read(p) ==
  /\ pc[p] = "load"
  /\ job[p].files = {}
  /\ job[p].found # {}
  /\ LET path == CHOOSE x \in job[p].found : TRUE IN
       IF Loadable(path)
         THEN Go(p, "load", [job[p] EXCEPT !.found = @ \ {path}, !.have = @ \cup {disk[path]}])
         ELSE Fail(p)
  /\ UNCHANGED <<filesVars, worldVars>>

\* The next thing to do: a plan resolves between the two kinds, an apply before.
Loaded(p) ==
  /\ pc[p] = "load"
  /\ job[p].files = {} /\ job[p].found = {}
  /\ IF job[p].loading = "Application"
       THEN Go(p, IF cmd[p] = "apply" THEN "load" ELSE "resolve",
               [job[p] EXCEPT !.loading = "Database", !.files = OfKind("Database")])
       ELSE Go(p, IF cmd[p] = "apply" THEN "bind" ELSE "diff",
               [job[p] EXCEPT !.left = job[p].have])
  /\ UNCHANGED <<filesVars, worldVars>>

\* state.Resolve; without credentials there is no client and nothing is known.
Resolve(p) ==
  /\ pc[p] = "resolve"
  /\ Go(p, "load", [job[p] EXCEPT !.resolved = IF cmd[p] = "plan offline" THEN {} ELSE Live])
  /\ UNCHANGED <<filesVars, worldVars>>

-----------------------------------------------------------------------------
(* plan and apply.                                                         *)

\* config.ResolveSecrets, before any resource is compared.
BindAll(p) ==
  /\ pc[p] = "bind"
  /\ LET bound == {Bind(m) : m \in job[p].have} IN
       IF \A m \in job[p].have : CanBind(m)
         THEN Go(p, "diff", [job[p] EXCEPT !.have = bound, !.left = bound])
         ELSE Fail(p)
  /\ UNCHANGED <<filesVars, worldVars>>

\* The changes p sees for m, by a GET if it knows m's resource.
Changes(p, m) ==
  IF m.of \in job[p].resolved
    THEN Diff(Desired(m), Actual(m.of.kind, live[m.of]))
    ELSE Additions(Desired(m))

Operation(p, m) ==
  [of |-> m.of, verb |-> IF m.of \in job[p].resolved THEN "update" ELSE "create",
   changes |-> Changes(p, m)]

\* Plan.Add; applicationOp and databaseOp, which leave out what is up to date.
Compare(p) ==
  /\ pc[p] = "diff"
  /\ job[p].left # {}
  /\ LET m == CHOOSE x \in job[p].left : TRUE
         op == Operation(p, m)
         empty == op.verb = "update" /\ DOMAIN op.changes = {}
     IN IF cmd[p] = "apply" /\ op.verb = "update" /\ Moves(op.changes)
            THEN Fail(p)
            ELSE Go(p, "diff",
                    [job[p] EXCEPT !.left = @ \ {m},
                                   !.announced = IF cmd[p] = "apply" /\ empty
                                                   THEN @ ELSE @ \cup {op}])
  /\ UNCHANGED <<filesVars, worldVars>>

Compared(p) ==
  /\ pc[p] = "diff"
  /\ job[p].left = {}
  /\ IF cmd[p] = "apply"
       THEN Go(p, "engine",
               [job[p] EXCEPT !.left =
                  {m \in job[p].have : \E op \in job[p].announced : op.of = m.of}])
       ELSE Go(p, "done", job[p])
  /\ UNCHANGED <<filesVars, worldVars>>

\* Engine.Apply, one operation that Coolify carries out.
Execute(p) ==
  /\ pc[p] = "engine"
  /\ \E m \in job[p].left, op \in job[p].announced :
       /\ op.of = m.of
       /\ Touch(p, m.of, IF op.verb = "create" THEN Created(m)
                         ELSE Patched(m, live[m.of], op.changes))
       /\ Go(p, "engine", [job[p] EXCEPT !.left = @ \ {m}])
  /\ UNCHANGED filesVars

\* One that it refuses ends the run.
Refused(p) ==
  /\ "api" \in Faults
  /\ pc[p] = "engine"
  /\ job[p].left # {}
  /\ Fail(p)
  /\ UNCHANGED <<filesVars, worldVars>>

Applied(p) ==
  /\ pc[p] = "engine"
  /\ job[p].left = {}
  /\ Go(p, "done", job[p])
  /\ UNCHANGED <<filesVars, worldVars>>

-----------------------------------------------------------------------------
(* People.                                                                 *)

Somebody == "somebody"

ASSUME SomebodyElse == Somebody \notin Procs

\* A manifest is written, spoilt or removed by hand.
HandEdit(path) ==
  /\ edits.disk > 0
  /\ \E c \in {m \in Drafts : PathOf(m.of) = path} \cup {Garbage, NoFile} :
       /\ c # disk[path]
       /\ Rewrite(Somebody, path, c)
  /\ edits' = [edits EXCEPT !.disk = @ - 1]
  /\ UNCHANGED <<root, temp, live, calm, script, cmd, pc, job>>

\* A field of a live object is set at the dashboard.
DashboardEdit(r) ==
  /\ edits.live > 0
  /\ \E k \in Knobs :
       /\ k[1] \in DOMAIN live[r]
       /\ live[r][k[1]] # k[2]
       /\ live' = [live EXCEPT ![r] = [@ EXCEPT ![k[1]] = k[2]]]
  /\ calm' = [q \in Procs |-> calm[q] \ {r}]
  /\ edits' = [edits EXCEPT !.live = @ - 1]
  /\ UNCHANGED <<filesVars, script, cmd, pc, job>>

-----------------------------------------------------------------------------

Step(p) ==
  \/ Collect(p) \/ Check(p) \/ TruncateRoot(p) \/ FillRoot(p)
  \/ Open(p)
  \/ StartFile(p) \/ FillFile(p) \/ RenameFile(p) \/ Written(p)
  \/ Walk(p) \/ Read(p) \/ Loaded(p) \/ Resolve(p)
  \/ BindAll(p) \/ Compare(p) \/ Compared(p) \/ Execute(p) \/ Applied(p)

Goes(p) == Step(p) \/ ReadFails(p) \/ WriteFails(p) \/ Refused(p)

Next ==
  \/ \E p \in Procs : Begin(p) \/ Goes(p) \/ Crash(p)
  \/ \E path \in Paths : HandEdit(path)
  \/ \E r \in Live : DashboardEdit(r)

Spec == Init /\ [][Next]_vars

\* A process that is not killed does its next step, or fails at it.
FairSpec == Spec /\ \A p \in Procs : WF_vars(Goes(p))
=============================================================================
