# Verification of iac-coolify

`iac-coolify` keeps a [Coolify](https://coolify.io) instance in line with a
directory of YAML manifests. `apply` creates and updates what is declared,
`destroy` deletes it, `plan` previews, `import` writes manifests from what is
live, `explore` is a terminal UI. This directory holds TLA+ models of the parts
that change a Coolify instance or the manifests, TLC runs that check them on
small instances, and TLAPS proofs of what matters most for every instance.

Tools: `tlc -config X.cfg M.tla` checks a run (module and cfg of each are in
`PROJECT.json`), `tlapm M.tla` a proof module. `PROJECT.json` lists runs, mutants, the lines of code behind every
definition, hazards, findings and theorems.

## 1. The system

| Component | State it keeps | Operations | Talks to |
|---|---|---|---|
| configuration (`internal/config`) | none (files on disk) | load a tree, parse, interpolate `${env:}`, validate, write atomically | commands, importer, explorer |
| resource types (`internal/resource`) | none | validate, schemas | configuration, plan |
| dependency order (`internal/apply/dag.go`) | maps of one call: in-degrees, ready queue, output | `orderOps`, `topoSort` | engine |
| apply engine (`internal/apply`) | `Summary`, the live `state.Map`, the audit log file | `Apply`: one handler per kind, `record` | client, resolver's map, audit log |
| apply and destroy commands (`cmd/iac-coolify`) | flags, the selection, the list of operations | refuse, resolve, validate selection, diff, preview, prompt, execute, exit code | everything below |
| selection (`--target`, `--env`) | none | `filterByEnv`, `filterByName`, `envScope.validate` | commands |
| resolver (`internal/state`) | `Map`: logical key -> uuid; an optional cache file | `Resolve`: projects, environments, servers, applications, services, databases, one call each | client |
| client (`internal/coolify`) | an HTTP client with timeout, retries and derived `Idempotency-Key` | reads, creates, updates, deletes, bulk variables, start/stop/restart | Coolify |
| Coolify (external) | objects, idempotency keys | answers requests, also late ones | clients, a person at the dashboard |
| diff (`internal/plan`) | none | compare a manifest with a live object, secrets as states | commands |
| secrets (`internal/secrets`) | the state of one value | parse references, redact, detect | configuration, diff, importer |
| explorer (`internal/tui`) | the Bubble Tea model: cursor, panes, staged edits, the loaded manifests, one prompt | keys and results of commands, one at a time; commands run concurrently | client, configuration, importer, audit log |
| importer (`internal/importer`) | none | read live, map, mask secrets, write files | client, configuration |
| remaining commands, docs generator | none | text in, text out | - |

What is hard here:

- **Several calls, no transaction.** A plan is built from six kinds of listing
  and one GET per application and database; others may change Coolify between
  any two of them and between the plan and its execution.
- **A call whose answer is lost.** The client times out and retries; the request
  may have been carried out, or may be carried out later, even after the run has
  ended. Keys are sent with every write; whether Coolify honours them is not
  known from the repository (the pinned OpenAPI document never mentions them).
- **Two records of one fact.** An operation is done at Coolify, then written to
  the audit log. A crash, or an error of the log, can fall between the two.
- **One operation of several fails**; the exit code must say how far the run got.
- **Order.** Parents first, in reverse for a destroy, also with duplicates and
  cycles in the input of the sort.
- **Two runs at a time** (two pipelines), without any lock.
- **Results that arrive late.** In the explorer, commands finish in any order,
  while the user has moved on, edited more, answered a prompt or left the menu.
- **Copies of copies.** The pane shows a copy of the loaded manifest with the
  staged edits over it; the loaded manifest is a copy of the file.
- **One directory, several writers.** Imports, write-backs and editors share the
  manifests without a lock; a walk, a read and a write are separate moments, and
  a process may die, or its disk be full, at any of them.
- **Fields written down four times.** The diff, the requests and the importer
  each list the fields by hand, with their own rules for what counts as unset.

Per component, what makes it correct:

- *dependency order*: dependencies first, every operation exactly once, an error
  exactly for cyclic input, termination;
- *engine*: order kept at the server, log and server agree up to one operation,
  nothing logged that did not happen;
- *commands*: nothing changes without approval, exit codes tell how far a run got, success
  means the declared state, a second apply has nothing to do, a destroy leaves
  nothing, `--env` confines;
- *client and server*: retries and repeated runs do not duplicate objects if the
  server honours keys;
- *explorer*: no confirmed edit is lost, a save writes what is shown, a discard shows what is on disk, no
  manifest is overwritten unasked, and neither the menu nor a pane is stuck
  whatever fails;
- *files*: a manifest is whole or absent at every instant, whoever writes it; an
  import replaces nothing unasked and leaves on disk what it reports; a load
  passes over nothing that parses;
- *diff, requests and mapping*: the same field takes four ways (into the diff
  from both sides, into a PATCH, into a create, into an imported manifest) that
  must agree: what was applied or imported is equal afterwards, a plan announces
  what an apply does, only what was announced is sent, and neither a reference
  nor a password ends up where it should not.

## 2. Modules

```
TopoSort          <- MCTopoSort, TopoSortProofs
Manifest <- Coolify <- Reconciler <- ReconcilerProps <- MCReconciler, ReconcilerProofs
            ReconcilerProofs <- DuplicateProofs <- ScopeProofs <- SuccessProofs
OrderedExecution  <- instantiated by ReconcilerProps (refinement)
Fields <- ManifestFiles <- Workspace <- WorkspaceProps <- MCWorkspace, WorkspaceProofs
Explorer <- ExplorerProps <- MCExplorer <- UnsavedEdits
            ExplorerProps <- ExplorerProofs
```

**TopoSort** is `orderOps` and `topoSort`. `nodes`, `deps`, `indeg`, `ready`,
`out` are the maps and slices of the code; `Pop` is one iteration of the Kahn
loop, `Finish` the comparison of lengths after it. The queue is a bag of ids,
because the code sorts it after every insertion: its head is the lexically first
id (`IsHead`). The list of ids is a list, and may hold an id twice, as in the
code, while everything else is keyed by id.

**Manifest** has no state: the declared resources, their logical keys
(`state.ResourceKey`), `dependsOn`, what `--target` and `--env` select, which
coordinates are interpolated. A resource is its coordinates, plus whether it
declares variables; the fields of its spec appear only as "equal / different in
a field a PATCH carries / different in one it never carries".

**Coolify** is the instance as the client uses it: a set of live objects,
requests in flight (`net`), at most one open connection per run (`waiting`,
`reply`). `Handle` has one action per way the server can take a request;
`Dashboard` is somebody else. It is marked external in the map, except for what
the client contributes: the idempotency key, the 404 of a delete that counts as
success, the parameters of each call. `effects` and `foreign` are history
variables: what the server carried out for each run, and whether anybody else
changed something since the run started.

**Reconciler** is one process per run of `apply` or `destroy`, from the command
line to the exit code, with a phase per place where it waits for a call:

| phase | code | actions |
|---|---|---|
| `idle` | `runApply`, `runDestroy`: refusals | `Start` |
| `projects` ... `databases` | `Resolver.Resolve` | `ListProjects`, `ListEnvironments`, `ListServers`, `ListApplications`, `ListServices`, `ScanServer`, `ReadFails` |
| `databases` -> `diff` | `loadApplyInput` / `loadDeleteInput`, `validateSelection` | `Load` |
| `diff` | `buildOperations`, `destinationMoveError` | `Compare`, `RefuseMove`, `Planned`, `ReadFails` |
| `confirm` | the prompt | `Answers` |
| `engine` | the loop of `Engine.Apply` | `Begin`, `Unresolvable`, `Finish` |
| `sent` | a handler waiting for its call | `Acknowledge`, `SendVariables`, `Rejected`, `Retry`, `GiveUp` |
| `audit` | `record` | `Record`, `RecordFails` |
| any active | - | `Crash` |

The engine's next operation is any in `Foremost`: `orderOps`' answer sorted by
rank and kind, the order of names within a kind left open. Sets replace maps and
lists wherever the code does not depend on an order; listings have no promised
order, so of two objects with one key either may win in `Learn`.

**ReconcilerProps** states the properties and the inductive invariant.
**OrderedExecution** is the abstract specification of a run: fix a plan, complete
its operations one at a time in order, stop for good, report success only for a
complete plan. Each run refines it under the mapping `Committed`, `audited`,
`Status`.

`Reconciler` looks at calls and keeps a resource opaque; `Workspace` looks into
the fields and takes an operation as one step. The two meet in "drift" and
"stuck": `ApplySettles` says which differences an update leaves, and those are
the "stuck" ones of `Coolify`.

**Fields** has no state: an application or a database as a function from its
fields to texts, and the functions of the code on it. `Desired` and `Actual` are
the projections of `internal/plan/project.go`, `Diff` and `Moves` the comparison,
`Patched` and `Created` the object after the requests of `internal/apply` (with
`omitempty`, see `Omitted`), `Bind` is `ResolveSecrets`, `Valid` the checks of
the two kinds, `Map` the importer's mapping. A number is its decimal text, "0"
being the zero of a field that is left out.

**ManifestFiles** is the directory: `disk` per path, `coolify.yaml` (`root`), one
temporary file per process, and the moments of `atomicWrite` and
`writeRootManifest` as steps of their own. `steady` is a history: which paths
nobody else touched since a process's command began.

**Workspace** is processes of the program on one directory and one instance, each
with a script of commands, and people who edit manifests and live objects:

| command | code | actions, in order |
|---|---|---|
| `import`, `import --force` | `importer.Run`, `collect`, `commitFiles` | `Collect` (one GET and its mapping), `Check` (`existingPaths`), `TruncateRoot`, `FillRoot`, then per file `StartFile`, `FillFile`, `RenameFile`, at last `Written` |
| `save` | the explorer's write-back | `Open`, then as above for one file |
| `plan`, `plan offline` | `buildPlan` | `Walk`, `Read`, `Loaded` for applications, `Resolve`, the same for databases, `Compare` per manifest, `Compared` |
| `apply` | `loadApplyInput`, `ResolveSecrets`, `buildOperations`, `Engine.Apply` | `Resolve`, `Walk`, `Read`, `Loaded` for both kinds, `BindAll`, `Compare`, `Compared`, `Execute` per operation, `Applied` |
| any | a call, a write or the process fails | `ReadFails`, `Refused`, `WriteFails`, `Crash` |
| people | an editor, the dashboard | `HandEdit`, `DashboardEdit` |

Only one apply is at work at a time here; overlapping ones are `Reconciler`'s.
`calm` is the history of `steady` for live objects. Where the code goes through a
list whose order no property depends on, the model takes an order of its own
(`CHOOSE`); where it goes through what is being written, any order.

**WorkspaceProps** states what all this promises.

**Explorer** is one session: the Bubble Tea model, the commands in flight, the
application manifests on disk. Each variable is a field of `Model`
(`menu` is `onboarding`, `pane` is `detail`, `index` is `desired`), except
`commands`, `disk`, `root` (does `coolify.yaml` exist) and three histories. A
command is a record in one of `InFlight` slots: what it is about, how far it
got, what it carries. `Work(s)` is a step of a command: one call, one file read
(`Reads`) or one file written (`SyncWrites`), so that two commands interleave
file by file. `Deliver(s)` is `Update` on its result, one action per message
type. `Key` has one action per key that does something, guarded by who gets the
keys: a prompt before an edit, an edit before the menu, the menu before the
browser (`AtPrompt`, `AtEdit`, `AtMenu`, `AtBrowser`). A key that starts a
command waits for a free slot, which only bounds the model.

| code | actions |
|---|---|
| `handleConfirm` | `Yes`, `No` |
| `handleEdit` | `Enter`, `Escape` |
| `handleOnboarding` | `MenuSync`, `MenuInit`, `MenuBrowse`, `MenuQuit` |
| browser keys | `Quit`, `StartEdit`, `Save`, `Discard`, `Lifecycle`, `ToggleDrift`, `Back`, `Move`, `Open` |
| `Update` on results | `ResolvedMsg`, `DesiredLoadedMsg`, `DetailMsg`, `SavedMsg`, `DriftMsg`, `MutationDoneMsg`, `SyncDoneMsg`, `InitDoneMsg` |
| `importer.Run`, `ScaffoldRoot`, `WriteApplication`, `LoadApplicationFiles` | `SyncChecks`, `SyncWritesRoot`, `SyncWrites`, `SyncCompletes`, `SyncFails`, `Scaffolds`, `Saves`, `Collects`, `Reads`, `LoadFails` |

Left out are the log pane, masking, the filter, the report and the status line,
which nothing else reads; the connection wizard, which ends before a session
begins; changes of the files by other programs; work that goes on after a quit.
A live object is not modelled here, only whether the call for it succeeds.

**ExplorerProps** states what a session promises. **UnsavedEdits** adds a history
of what the user wants on disk, in order to say what a quit may forget.

Operators called "Mutant of X" are plausible mistakes in the code behind X. Each
property comes with one that makes TLC find it violated; the specifications do
not use them.

## 3. Runs

| Run | Bounds | Shows |
|---|---|---|
| `sort_graphs` | 3 ids, every graph on them (self-loops and cycles included), every list of up to 4 ids (an id listed up to four times), both directions | `DepsFirst` (for ranked ids also with duplicates); for lists without duplicates `EveryOpOnce`, `ErrorOnlyOnCycle`, `CycleIsReported`, `Terminates` |
| `one_run` | one run, 5 resources of 4 kinds, an empty, a half and a complete instance, every combination of flags, every fault, 2 attempts per call | log and approvals are true, the exit code bounds what was done, the run ends, it refines `OrderedExecution`, `--env` confines it (without databases) |
| `overlapping_runs` | two runs at once (apply or destroy each), 3 resources, 2 attempts, late requests, keys honoured, one change at the dashboard | order at the server and soundness of the log do not depend on the other run; no object is created twice |
| `runs_in_turn` | two runs one after another, 4 resources with a database, two servers, crash, refusal, log error, one change at the dashboard | success means what it says, second apply is empty, destroy leaves nothing |
| `workspace` | one process with an application or a database in every state and scripts of up to four commands, or two processes on two files; every fault; one edit by hand or at the dashboard | the files stay whole, an import keeps and delivers files, a load skips nothing, plan and apply agree and settle, references and passwords stay where they belong, every command ends |
| `explorer_session` | a session in the browser or on the menu, one application of one variable, two values of which one is typed, every set of files on disk, 2 commands in flight, every command failing or not at every step | a save takes to the disk what the pane shows; an edit leaves the staging only by a discard or by a successful save; no manifest is overwritten without consent; the placeholder and the sync end |

Bounds. Three ids hold every shape a step of the sort can meet: a released and
an unreleased child, a cycle with and without a tail. The manifests have a
parent, a grandparent and two kinds of leaf, so each order constraint occurs.
Two attempts tell the first try, a retry and giving up apart; more attempts
repeat the second. `MaxObjects` leaves room for every declared object plus two;
a create beyond it is refused like a 4xx. One change at the dashboard is enough
because `foreign` is monotone: a second only widens what the properties already
exempt. Two runs are the fewest that interleave. In the explorer, every step
reads or changes the result of one command, so two in flight hold every pair
that can race (save and save, import and import, a load and a save); a third
waits. One application is what liveness can be checked with; that no result, edit or
save of another one interferes is proved in `ExplorerProofs`, for any number. A
variable has a value from the file and one that is typed.

The scenarios of `workspace` (`MCWorkspace`) come in two families. `Rich` has one
process, one resource, contents that meet every branch of `Fields` (built from an
image, from git, inline; references that are set, unset and in fields that are
not bound; limits at, above and without Coolify's default; a payload without
destination; several ports; public and private), and the scripts import - plan -
plan offline - apply, apply - apply, apply - import --force. The fields of two
resources never meet in the code, so one at a time is enough. `Poor` has two
processes on two paths (two applications of two projects that share one path, or
an application and a database), every pair of commands that reads or writes what
the other writes, and one edit by hand; the contents do not matter there. Two
processes are the fewest that interleave; a second edit by hand could be a
second step of the other process.

Deadlock is not checked: a system in which every run has ended stops, and so
does one whose session is quit.

Fairness is weak fairness of `Proceed(r)` for each run: every call has a timeout
and a bounded number of retries (`NewClient`), everything else a run does is
local. Nothing is assumed of the server, the user or the dashboard, so `RunsEnd`
also holds against a server that never answers. It ends at the prompt when
there is one. `TopoSort` has weak fairness of its only loop. In `Explorer` it
is weak fairness of `Work(s)` and `Deliver(s)` for each slot: a command runs on a
goroutine of its own and ends by the same timeouts, and the update loop makes no
call. Nothing is assumed of the keyboard. In `Workspace` it is weak fairness of
`Goes(p)`: the next step of a command happens or fails, by the same timeouts; a
crash is no part of it, and nothing is assumed of people.

### Where the code and what is said of it differ

Each is a run TLC refutes, with the line it contradicts in `PROJECT.json`.

| Run | What happens |
|---|---|
| `database_of_other_environment` | Databases are keyed by name alone: `destroy --env e` deletes the one of environment `f`. |
| `exit_code_of_first_change` | The first operation is carried out and its audit record fails: exit 1, although a resource changed; 2 stands for a partial success. |
| `destroy_of_references` | `apply` binds references in coordinates and `destroy` does not: it misses what `apply` created. |
| `discard_restores_old_values` | A save does not refresh the loaded manifests: the rows after it, every discard and the document of the next save start from the values before it, so the next save writes an old value back. |
| `quit_drops_edit` | An edit confirmed while the save of an earlier one is in flight is purged with it when that save succeeds: the next quit does not ask, and the edit is nowhere. |
| `second_apply_of_git_application` | An application built from git is compared by `spec.port`, which its manifest does not have: every apply sends its port as `"0"`, and the next one has an update again. |

Others are in the models without a run of their own:

- two operations with one id are reported as a dependency cycle when they have a
  parent in the list, because the length of the output is compared with that of a
  list that counts them twice (`Finish`). Without a parent they are queued as
  often as they are listed, and the later of the two is carried out twice
  (`ById`). This is why `ErrorOnlyOnCycle` and `EveryOpOnce` are about lists
  without duplicates;
- an application's variables are accepted, bound and never sent, although
  `docs/how-to/ci-integration.md:57` says that apply pushes them (`NeedsVariables`);
- a difference in a field that no PATCH carries is "applied" by every apply again
  (`"stuck"` in `Coolify`);
- a service whose variables call fails is left without them by the next apply,
  which finds it and plans nothing (`SendVariables`, `Rejected`);
- a misspelled `--env` is rejected after the live state was read, although the
  comment at `cmd/iac-coolify/apply.go:203` says before any call (`Load`);
- a pane that is opened before the manifests are loaded has no desired section
  until it is opened again (`DesiredLoadedMsg` does not refresh it);
- an overwrite prompt takes the keys from an open edit (`SyncDoneMsg`), and a
  detail that arrives late reopens a pane that was closed (`DetailMsg`);
- two applications of one name and environment in two projects have one path:
  an import writes both there and reports both (`PathOf`, `ReportedIsOnDisk`);
- the description of an application, and every field of a database but its
  password, reach Coolify as the text of their reference, although the how-to on
  interpolation allows references in any visible string (`Bindable`,
  `NoReferenceIsSent`);
- a create never sends the network, so after a create on another network every
  later apply refuses to move the resource (`Requested`, `Moves`);
- `cpu_shares: 1024` in a manifest never settles, because 1024 counts as unset on
  the live side only (`Unlimited`);
- the version a database manifest asks for is read by nobody, and an import that
  fails halfway keeps the files it wrote, although `scaffold.go:98` calls the
  commit all-or-nothing (`WriteFails`);
- `--target` alone that matches nothing exits 0 (`envfilter.go:97`), and the name
  filter is asked before and after references are bound (`apply.go:176`).

## 4. Proofs

`TopoSortProofs`, for every finite set of ids, every list and every graph:

- `TypeCorrect`;
- `DependenciesFirst`: emitted ids come after their dependencies, for every graph
  when no id is listed twice, and for every list when ids are ranked by name, as
  `nodeID` makes them;
- `CycleErrorIsReal`: an error means a cycle;
- `CyclesAreReported`: and a cycle means an error;
- `EveryOperationOnce`: a success has lost and repeated nothing.

The last three are for lists without duplicates, and false with them. They and the
first half of `DependenciesFirst` follow from `LoopInvariant`: an id's in-degree is the number of its dependencies
not yet emitted, an id is queued exactly when that number is zero and it is not
yet emitted, nothing is emitted twice. From these, what is left when the queue is
empty is a set in which everybody waits for a member (`BlockedWaits`): a cycle
when there is something left, and nothing lost when there is not (`AllEmitted`).
Conversely a set that waits for itself is never entered, because the first of its
members to be emitted would need another one before it.

With duplicates an in-degree may go below zero, and an id may be queued before its
last dependency is out. `RankedInv` keeps what is left: an in-degree is never too
large (`NotTooLarge`), and an id with none missing was emitted or is queued
(`NoneForgotten`). So the first unemitted id in lexical order is always queued
(`FirstUnemitted`), and the head of a sorted queue, which comes no later, waits
for nothing. That is the argument behind the comment on `nodeID`.

`ReconcilerProofs`, for every set of manifests, servers and runs, every number of
attempts and objects, every combination of faults, keys honoured or not, runs
overlapping or not:

- `TypeCorrect`, `LogMissesAtMostOne`, `LogIsSound`, `OrderIsKept`,
  `OnlyApprovedChanges`, `ExitCodeIsABound`;
- `RunsImplementExecution`: the refinement of `OrderedExecution`, initial states
  and steps.

They rest on one inductive invariant, `Inv`:

- `OneAtATime`: the engine is at one planned operation, audited or not according
  to its phase;
- `Accounted`: every request in flight, late ones included, belongs to an
  operation that is audited or current, and an answer of success is never ahead
  of the server. This is what makes the log sound with lost answers: a request
  given up stays in flight, but its run stops, so the operation stays current
  for good, and no other can become unaudited beside it;
- `InOrder`: what must precede a started operation is audited;
- `ExitCodeTold`, `Asked`: the exit code against the log, the plan against the
  command line.

None of the safety properties is inductive alone: `AuditSound`, say, survives
`Record` only because the current operation was acknowledged, which only
`Accounted` remembers. There is one lemma per group of actions
(`PlanningInv`, `ServeInv`, `BeginInv`, `AnsweredInv`, `FailInv`, `RecordInv`,
`FinishInv`, `CrashInv`), joined in `NextInv`.

`DuplicateProofs`, for the same, at a server that honours `Idempotency-Key`:

- `NothingTwice` (`NoDuplicates`), under three hypotheses that `ReconcilerProps`
  states and TLC evaluates for the instances that check the property: declared
  resources have different keys, written or bound (`DistinctKeys`: not two databases
  of one name, and no resource whose only reference is its server); a project
  declares no more than a name, an environment a project and a name
  (`PlainCoordinates`); the instance starts without duplicates and with every
  object under its parent (`GoodSeeds`).

There are two ways to a second object of a key, and `Once` excludes both. The
instance may have had the first from the start: but a run plans to create only
what it did not find, and `ListsOK` says that whatever no request made is known to
a run that reads, or lies ahead of it, through all six listings, while others
change the instance (`Fresh`). Or a request made it: then its key is remembered
(`SeenOK`) and the second request repeats that key, because its body is the same
resource and its path the same project. The latter holds because a run's uuid of
a project is that of the project of this name as long as it is alive
(`ProjectAt`), and nobody deletes a project with something in it. A second
request whose project was deleted and created again has another key, but then
the first object is gone (`NothingThere`). What runs may rely on while
others move is `Calm`.

`ScopeProofs`, for the same, whether or not keys are honoured:

- `StaysInScope` (`ChangesStayInScope`), when databases of one name are in
  environments of one name (`DatabasesApart`), the seeds are numbered as issued
  (`NumberedSeeds`) and nobody passes a reference as an `--env` (`PlainSelections`).

The selection is by environment, a request by uuid, and the two are far apart: in
between lie the listings, the prompt, retries, and a server that may handle the
request after the run is dead. `Aimed` bridges them: a uuid, wherever a run,
a request or the server's memory holds it, is that of an object with the key of the
request's resource as long as that object is alive (`Names`), because uuids are not
issued twice and objects keep their coordinates (`Steady`). A key holds the
environment, except that of a database. `Origins` covers those: a live database is
one of the seeds or a declared one, so `DatabasesApart` decides its environment.
Without that hypothesis `database_of_other_environment` refutes the property.

`SuccessProofs`, for what an exit code of 0 promises when nobody else touched
anything in the meantime:

- `AppliesWhatIsDeclared` (`ConvergedOnSuccess`), under `DistinctKeys` and
  `NumberedSeeds`;
- `DestroysWhatIsSelected` (`GoneOnSuccess`), under `AsWritten` (no reference in a
  coordinate), `PlainCoordinates` and `GoodSeeds`, as long as `NoDuplicates` holds;
- `RepeatPlansNothing` (`SecondApplyIsNoOp`), for runs that do not overlap, under
  `DistinctKeys`, `PlainCoordinates` and `GoodSeeds`, as long as `NoDuplicates` holds;
- `NothingTwiceAlone` (`NoDuplicates`): it does hold, keys honoured or not, for runs
  that do not overlap, lose no answer and are not killed (`Undisturbed`);
- `KeptAlone`: for those runs the second and the third promise are unconditional.

All but `NothingTwiceAlone` are about a server that does not replay answers. One
that honours `Idempotency-Key` answers a create by the uuid of an object that may
have been deleted since, and a delete by the success of an earlier delete of the
same path (a key holds path and name only), and the run takes either for done.

Each promise has an invariant about the run it is made by, that says where
everything it wants is: still to be compared, planned, or as it should be.
`ApplyOK`: what the run has resolved stands (`StandsOK`), an answer under way tells
the truth (`AnswersOK`), what is done or audited stays right (`DoneOK`), and past the
listings nothing wanted is forgotten (`CoversOK`). At the end the plan is audited
and nothing is left to compare, which leaves "right". `DestroyOK` is its
counterpart; it needs that a destroy knows every object it will have to delete
(`KnowsAll`), through all six listings. It knows one object of a key and deletes
one, so a second would stay: hence the condition `NoDuplicates`. `Follows` carries
the first apply over to the second: what is right stays right while the next run
lists, and the first run's requests that are still under way, its retries among
them, change nothing (`LateCreatesNothing`). The condition is not idle:
with crashes in `runs_in_turn`, a run is killed while its create is on its way, the
next one lists the instance, finds nothing and creates, and then the late create
arrives; `NoDuplicates` fails. A lost answer does the same. Where neither happens,
no request outlives its run (`Direct`), and what a run plans to create is absent
until it creates it (`Unmade`, `JustMade`): that is `Tidy`, and proves
`NothingTwiceAlone`.

`WorkspaceProofs`, for every set of resources, texts, references and processes,
every environment and defaults of Coolify, every scenario and script, any number
of edits and every combination of faults:

- `TypeCorrect`;
- files: `WritesAreAtomic` (`ManifestsAreWhole`), `ImportReplacesNothing`
  (`ImportKeepsFiles`), `ImportDelivers` (`ReportedIsOnDisk`),
  `NothingIsPassedOver` (`EveryManifestCounts`), `NoPasswordOnDisk`
  (`PasswordsStayReferences`);
- fields: `ApplyConverges` (`ApplySettles`), `PlanIsHonest` (`PlanForetells`),
  `ApplySendsOnlyChanges` (`OthersEditsSurvive`), `ImportRoundTrips`
  (`ImportedPlansClean`), `ReferencesAreBound` (`NoReferenceIsSent`).

The inductive invariant `IInv` has a part about the world (`TypeOK`, `OnDisk`: a
manifest lies at its own path and holds no password in clear, `NoReferenceIsSent`,
`OneApply`) and three about each process: `Files` (what its temporary file holds,
and what an import has written so far), `Loads` (every steady manifest is still
to be walked, found, or loaded) and `Applies` (what was announced, done and left,
for every resource that is calm). The last three mention files and objects other
processes change. They hold because they speak only of steady paths and calm
resources, which a change by anybody else takes out of the sets; so the proof is
in the style of rely and guarantee: `RelyProc` shows that a process's part
survives every step that respects `Rely`, one lemma per action shows that the
step of a process keeps its own part, and that it respects the `Rely` of the
others. What the fields do is in lemmas on `Fields`: after `Patched` or `Created`
only stubborn changes are left (`PatchSettles`, `CreateSettles`), binding only
removes changes a plan could not see (`PlanLemma`), a mapped object differs from
its origin only by what is lost (`ImportLemma`).

`ExplorerProofs`, for every set of applications, variables and values, every way
a session may start, every set of files on disk and any number of commands in
flight:

- `TypeCorrect`, `PaneIsTruthful` (`SavesWhatIsShown`), `EditsAreKept`
  (`EditsLeaveWhenSaved`), `NothingOverwrittenUnasked` (`OverwriteNeedsConsent`).

A session is one process with many late answers, so its invariant `IInv` is about
what is in flight and what an answer may find when it lands:

- `CommandsOK`: a command is about an application of the session; a manifest that
  was read or is being saved is on disk, for good; an import that may overwrite
  was consented to;
- `ScreenOK`: the question on screen carries a command that may be run, and a
  pane, an edit or a row is about an application;
- `RowsOK`: a browsing session loads its manifests once, before there are rows,
  so no manifest arrives behind an open pane, and the rows are the loaded manifest
  with the staged edits over it. `SavesWhatIsShown` needs it;
- `SyncsOK`: an import nobody consented to is, from its check for conflicts until
  it ends, the only import, with nothing in its way, and none can be prompted
  for. `OverwriteNeedsConsent` needs it: the check and the writes are many steps
  apart, and `init`, saves and the prompt run between them.

Assumptions are those on the constants, which TLC evaluates on every run:
`DeclaredType`, `EnvType`, `CoolifyType`, `SeedsType`, `ScriptsType`,
`OverlapType`; `IdFinite`, `LexInjective`, `InputsType`, `GraphsType`;
`ResourcesType`, `TextType`, `EnvValueType`, `FirstPortType`, `DefaultsType`,
`Contents`, `FaultsType`, `NoObjectType`, `DraftsType`, `KnobsType`,
`ScenariosType`, `SomebodyElse`; `NamesType`, `StartsType`, `FilesType`,
`InFlightType`. Of these, two say something of people: they write
references for passwords (`DraftsType`, `ScenariosType`), and they type no
references at the dashboard and do not move what runs (`KnobsType`). The others
say what kind of value a constant is.

`MCReconciler` lets TLC evaluate the hypotheses of these theorems: the instances that
check a property satisfy those on manifests and seeds, the instances that refute one
do not satisfy the hypothesis it is about.

Only model-checked: liveness (`RunsEnd`, `Terminates`, `LoadingEnds`, `SyncEnds`,
`CommandsEnd`), which the prover does not do under fairness. Every other property
of a passing run is stated by a theorem, those about objects under the hypotheses
above. `runs_in_turn` goes beyond them in one respect: it has crashes, so duplicates,
and `GoneOnSuccess` and `SecondApplyIsNoOp` hold there nevertheless: the second run is
the one that makes the duplicates, and there is no third for them to mislead. The five properties of the violation runs
are refuted, not proved.

## 5. Not modelled

- Strict decoding and the formats of names, detection and redaction of secrets,
  SOPS decryption, output formats, schemas and documentation: pure functions of
  one text. `diffSecret` has no caller with a secret in it: the projections leave
  secrets out.
- `--parallelism`: the flag is read and never used.
- The cache written by `Map.Save`: no command reads it back.
- In the importer: `--env`, services (which it skips), the variables of an
  application (each becomes a reference), the report's wording.
- In applications and databases: health checks, previews, and the passwords of
  engines other than PostgreSQL (MongoDB's is bound and never sent).
- The explorer's rendering and connection wizard.
- The HTTP layer below a call: back-off times, TLS, redirects.

## 6. Plan

Done: `TopoSort`, `Manifest`, `Coolify`, `Reconciler`, `Explorer`, `Fields`,
`ManifestFiles`, `Workspace`, their runs, and the proofs above. Next, in this
order:

1. `Explorer`'s `Saves` and `SyncWrites` shown to implement the steps of
   `ManifestFiles`.
2. The connection wizard: what a failed attempt leaves behind for the next one.
