------------------------------ MODULE Explorer ------------------------------
(***************************************************************************)
(* A session of "explore": the Bubble Tea model of internal/tui, the        *)
(* commands its update loop has in flight, and the manifests on disk.       *)
(*                                                                         *)
(* Keys and results of commands reach Update one at a time; commands run    *)
(* concurrently with it and with each other, and are delivered in any       *)
(* order.  What only changes the rendering (log pane, mask, filter, report, *)
(* status line, window size) is left out.  A quit is immediate.             *)
(***************************************************************************)
EXTENDS Integers, FiniteSets

CONSTANTS
  Apps,      \* applications of the instance, as (environment, name)
  Others,    \* its databases and services
  Vars,      \* the variables an application's manifest declares
  Values,    \* the values of variables
  Typed,     \* those the user types into an edit
  Starts,    \* how the session may start: in the browser, on the menu
  Stored,    \* the manifests that may be on disk at the start
  Imported,  \* the manifest an import writes for an application
  InFlight,  \* bound on the commands in flight
  Absent,    \* no manifest
  None       \* nothing: no node, no prompt, no edit, no command

Slots == 1..InFlight
Nodes == Apps \cup Others

Manifests == [Vars -> Values]
Edits == UNION {[S -> Values] : S \in SUBSET Vars}
NoEdits == [v \in {} |-> None]

ASSUME NamesType == /\ Apps \cap Others = {}
                    /\ None \notin Nodes
                    /\ Absent \notin Manifests
ASSUME StartsType == Starts \subseteq {"browse", "menu"}
ASSUME FilesType == Typed \subseteq Values /\ Stored \subseteq Manifests /\ Imported \in Manifests
ASSUME InFlightType == InFlight \in Nat \ {0}

VARIABLES
  start,      \* how the session was started; never changes
  menu,       \* m.onboarding: the no-manifests menu is up
  syncing,    \* m.syncing
  resolved,   \* the tree is built
  configured, \* m.configPath is not empty
  cursor,     \* the leaf under the tree's cursor, None on a container
  pane,       \* m.detail
  drift,      \* what the drift pane shows, None when closed
  confirm,    \* m.confirm: the command that y runs
  editing,    \* m.editing
  staged,     \* m.staged: unsaved edits of each application
  index,      \* m.desired
  commands,   \* the commands in flight
  disk,       \* the application manifests
  root,       \* coolify.yaml exists
  quit,       \* history: how the session ended
  consent     \* history: an overwrite prompt was answered with y

screenVars == <<menu, syncing, resolved, configured, cursor, pane, drift>>
promptVars == <<confirm, editing>>
editVars == <<staged, index>>
fileVars == <<disk, root>>
endVars == <<start, quit, consent>>
vars == <<screenVars, promptVars, editVars, fileVars, commands, endVars>>

-----------------------------------------------------------------------------
(* Commands and panes.                                                     *)

CommandKinds == {"resolve", "desired", "detail", "save", "drift",
                 "lifecycle", "sync", "init", "quit"}
Finished == {"ok", "bare", "error", "conflict"}

\* at: how far it got, or its outcome.  doc: what a save writes.  todo: files
\* still to be read or written.  found: the manifests a load has read.
Commands == [kind : CommandKinds, about : Nodes \cup {None}, force : BOOLEAN,
             at : {"begun", "checked", "busy"} \cup Finished,
             doc : Manifests \cup {Absent}, todo : SUBSET Apps,
             found : [Apps -> Manifests \cup {Absent}]]

NoManifests == [a \in Apps |-> Absent]

Command(kind, about) ==
  [kind |-> kind, about |-> about, force |-> FALSE, at |-> "begun",
   doc |-> Absent, todo |-> {}, found |-> NoManifests]

ForcedSync == [Command("sync", None) EXCEPT !.force = TRUE]
QuitCommand == Command("quit", None)

\* loadDesiredCmd.  Without a config path it has nothing to read.
LoadDesired(path) ==
  IF path THEN Command("desired", None)
  ELSE [Command("desired", None) EXCEPT !.at = "ok"]

Panes == [kind : {"closed", "loading", "detail"}, node : Nodes \cup {None},
          rows : Manifests \cup {Absent}, remote : BOOLEAN]

Closed == [kind |-> "closed", node |-> None, rows |-> Absent, remote |-> FALSE]
Loading(n) == [Closed EXCEPT !.kind = "loading", !.node = n]

\* patchApplication, and equally desiredEnvRowsWithEdits.
Overlay(manifest, edits) ==
  [v \in Vars |-> IF v \in DOMAIN edits THEN edits[v] ELSE manifest[v]]

Rows(a, edits) == IF index[a] = Absent THEN Absent ELSE Overlay(index[a], edits)

\* A detail as it is built: attachDesired gives an application its rows.
Detail(n, remote) ==
  [kind |-> "detail", node |-> n, remote |-> remote,
   rows |-> IF n \in Apps THEN Rows(n, staged[n]) ELSE Absent]

\* refreshDesired: the pane with the rows its application now has.
Refreshed(edits) ==
  IF pane.kind = "detail" /\ pane.node \in Apps /\ index[pane.node] # Absent
    THEN [pane EXCEPT !.rows = Overlay(index[pane.node], edits[pane.node])]
    ELSE pane

\* Mutant of ClearLoading: an error leaves the placeholder.
ClearLoadingNever == pane' = pane

\* clearLoadingDetail
ClearLoading == pane' = IF pane.kind = "loading" THEN Closed ELSE pane

Free == {s \in Slots : commands[s] = None}

\* In the first free slot.
Launch(c) ==
  \E s \in Free : /\ \A t \in Free : s <= t
                 /\ commands' = [commands EXCEPT ![s] = c]

\* The result in slot s is consumed, and c (None for nothing) is run next.
Then(s, c) == commands' = [commands EXCEPT ![s] = c]

Running(s, kind) == commands[s] # None /\ commands[s].kind = kind

-----------------------------------------------------------------------------
(* The start: on the menu when there are no manifests, with a config path   *)
(* or without.                                                             *)

Init ==
  /\ start \in Starts
  /\ menu = (start = "menu")
  /\ disk \in {d \in [Apps -> Stored \cup {Absent}] :
                 menu => d = NoManifests}
  /\ root \in BOOLEAN
  /\ configured \in BOOLEAN
  /\ syncing = FALSE
  /\ resolved = FALSE
  /\ cursor = None
  /\ pane = Closed
  /\ drift = None
  /\ confirm = None
  /\ editing = None
  /\ staged = [a \in Apps |-> NoEdits]
  /\ index = NoManifests
  /\ commands = [s \in Slots |-> IF s = 1 THEN Command("resolve", None) ELSE None]
  /\ quit = "no"
  /\ consent = FALSE

-----------------------------------------------------------------------------
(* Commands at work.                                                       *)

Reach(s, where) == commands' = [commands EXCEPT ![s].at = where]

\* Commands that read the instance, or change it, in calls that may fail.  An
\* application comes with its live variables or without ("bare").
Calls(s) ==
  /\ commands[s] # None
  /\ commands[s].at = "begun"
  /\ \/ /\ commands[s].kind \in {"resolve", "drift", "lifecycle"}
        /\ Reach(s, "ok") \/ Reach(s, "error")
     \/ /\ commands[s].kind = "detail"
        /\ \/ Reach(s, "bare")
           \/ Reach(s, "error")
           \/ commands[s].about \in Apps /\ Reach(s, "ok")
  /\ UNCHANGED fileVars

\* LoadApplicationFiles: list the files, read one after the other, give up at
\* the first that is not valid.
Collects(s) ==
  /\ Running(s, "desired")
  /\ commands[s].at = "begun"
  /\ LET files == {a \in Apps : disk[a] # Absent}
     IN commands' = [commands EXCEPT ![s].todo = files,
                                     ![s].at = IF files = {} THEN "ok" ELSE "busy"]
  /\ UNCHANGED fileVars

Reads(s, a) ==
  /\ Running(s, "desired")
  /\ commands[s].at = "busy"
  /\ a \in commands[s].todo
  /\ commands' = [commands EXCEPT
       ![s].found[a] = disk[a],
       ![s].todo = @ \ {a},
       ![s].at = IF commands[s].todo = {a} THEN "ok" ELSE "busy"]
  /\ UNCHANGED fileVars

LoadFails(s) ==
  /\ Running(s, "desired")
  /\ commands[s].at \in {"begun", "busy"}
  /\ Reach(s, "error")
  /\ UNCHANGED fileVars

\* WriteApplication: the file is replaced at once, or left alone.
Saves(s) ==
  /\ Running(s, "save")
  /\ commands[s].at = "begun"
  /\ \/ Reach(s, "ok") /\ disk' = [disk EXCEPT ![commands[s].about] = commands[s].doc]
     \/ Reach(s, "error") /\ disk' = disk
  /\ root' = root

\* Mutant of Collides: existing files are not looked for.
CollidesNever == FALSE

\* existingPaths
Collides == root \/ \E a \in Apps : disk[a] # Absent

\* importer.Run reads the whole instance, then looks for files in its way
\* before it writes the first.
SyncChecks(s) ==
  /\ Running(s, "sync")
  /\ commands[s].at = "begun"
  /\ \/ Reach(s, "error")
     \/ ~commands[s].force /\ Collides /\ Reach(s, "conflict")
     \/ (commands[s].force \/ ~Collides) /\ Reach(s, "checked")
  /\ UNCHANGED fileVars

\* commitFiles writes the root and then every manifest, and stops at the first
\* error.
SyncWritesRoot(s) ==
  /\ Running(s, "sync")
  /\ commands[s].at = "checked"
  /\ commands' = [commands EXCEPT ![s].at = "busy", ![s].todo = Apps]
  /\ root' = TRUE
  /\ disk' = disk

SyncWrites(s, a) ==
  /\ Running(s, "sync")
  /\ commands[s].at = "busy"
  /\ a \in commands[s].todo
  /\ commands' = [commands EXCEPT ![s].todo = @ \ {a}]
  /\ disk' = [disk EXCEPT ![a] = Imported]
  /\ root' = root

\* The databases, which come in between, are taken to be written last.
SyncCompletes(s) ==
  /\ Running(s, "sync")
  /\ commands[s].at = "busy"
  /\ commands[s].todo = {}
  /\ Reach(s, "ok")
  /\ UNCHANGED fileVars

SyncFails(s) ==
  /\ Running(s, "sync")
  /\ commands[s].at \in {"checked", "busy"}
  /\ Reach(s, "error")
  /\ UNCHANGED fileVars

\* ScaffoldRoot leaves a root that exists.
Scaffolds(s) ==
  /\ Running(s, "init")
  /\ commands[s].at = "begun"
  /\ \/ Reach(s, "ok") /\ root' = TRUE
     \/ Reach(s, "error") /\ root' = root
  /\ disk' = disk

\* One step of the command in slot s.
Work(s) ==
  /\ quit = "no"
  /\ \/ Calls(s) \/ Collects(s) \/ LoadFails(s) \/ Saves(s)
     \/ SyncChecks(s) \/ SyncWritesRoot(s) \/ SyncCompletes(s)
     \/ SyncFails(s) \/ Scaffolds(s)
     \/ \E a \in Apps : Reads(s, a) \/ SyncWrites(s, a)
  /\ UNCHANGED <<screenVars, promptVars, editVars, endVars>>

-----------------------------------------------------------------------------
(* Results delivered to Update.                                            *)

Result(s, kind) == Running(s, kind) /\ commands[s].at \in Finished
Good(s) == commands[s].at \in {"ok", "bare"}

\* errMsg
ShowsError(s) ==
  /\ Then(s, None)
  /\ ClearLoading
  /\ UNCHANGED <<menu, syncing, resolved, configured, cursor, drift>>
  /\ UNCHANGED <<promptVars, editVars>>

ResolvedMsg(s) ==
  /\ Result(s, "resolve")
  /\ IF Good(s)
       THEN /\ resolved' = TRUE
            /\ Then(s, LoadDesired(configured))
            /\ UNCHANGED <<menu, syncing, configured, cursor, pane, drift>>
            /\ UNCHANGED <<promptVars, editVars>>
       ELSE ShowsError(s)

DesiredLoadedMsg(s) ==
  /\ Result(s, "desired")
  /\ index' = IF Good(s) THEN commands[s].found ELSE index
  /\ Then(s, None)
  /\ UNCHANGED <<screenVars, promptVars, staged>>

DetailMsg(s) ==
  /\ Result(s, "detail")
  /\ IF Good(s)
       THEN /\ pane' = Detail(commands[s].about, commands[s].at = "ok")
            /\ Then(s, None)
            /\ UNCHANGED <<menu, syncing, resolved, configured, cursor, drift>>
            /\ UNCHANGED <<promptVars, editVars>>
       ELSE ShowsError(s)

\* Mutant of SavedMsg: the edits are purged whatever came of the save.
SavedMsgPurging(s) ==
  /\ Result(s, "save")
  /\ staged' = [staged EXCEPT ![commands[s].about] = NoEdits]
  /\ pane' = Refreshed(staged')
  /\ Then(s, None)
  /\ UNCHANGED <<menu, syncing, resolved, configured, cursor, drift>>
  /\ UNCHANGED <<promptVars, index>>

\* applySaved purges every edit of the application; a failure keeps them.
SavedMsg(s) ==
  /\ Result(s, "save")
  /\ staged' = IF Good(s) THEN [staged EXCEPT ![commands[s].about] = NoEdits] ELSE staged
  /\ pane' = IF Good(s) THEN Refreshed(staged') ELSE pane
  /\ Then(s, None)
  /\ UNCHANGED <<menu, syncing, resolved, configured, cursor, drift>>
  /\ UNCHANGED <<promptVars, index>>

DriftMsg(s) ==
  /\ Result(s, "drift")
  /\ IF Good(s)
       THEN /\ drift' = commands[s].about
            /\ Then(s, None)
            /\ UNCHANGED <<menu, syncing, resolved, configured, cursor, pane>>
            /\ UNCHANGED <<promptVars, editVars>>
       ELSE ShowsError(s)

MutationDoneMsg(s) ==
  /\ Result(s, "lifecycle")
  /\ Then(s, None)
  /\ UNCHANGED <<screenVars, promptVars, editVars>>

\* Leaving the menu for the directory it was about.
LeaveMenu(s) ==
  /\ menu' = FALSE
  /\ configured' = TRUE
  /\ Then(s, LoadDesired(TRUE))

\* Mutant of SyncDoneMsg: only a success ends the sync.
SyncDoneMsgOnSuccess(s) ==
  /\ Result(s, "sync")
  /\ syncing' = ~Good(s)
  /\ confirm' = IF commands[s].at = "conflict" THEN ForcedSync ELSE confirm
  /\ IF Good(s) THEN LeaveMenu(s) ELSE Then(s, None) /\ UNCHANGED <<menu, configured>>
  /\ UNCHANGED <<resolved, cursor, pane, drift, editing, editVars>>

\* applySyncDone: a conflict arms the overwrite prompt, whatever is open.
SyncDoneMsg(s) ==
  /\ Result(s, "sync")
  /\ syncing' = FALSE
  /\ confirm' = IF commands[s].at = "conflict" THEN ForcedSync ELSE confirm
  /\ IF Good(s) THEN LeaveMenu(s) ELSE Then(s, None) /\ UNCHANGED <<menu, configured>>
  /\ UNCHANGED <<resolved, cursor, pane, drift, editing, editVars>>

InitDoneMsg(s) ==
  /\ Result(s, "init")
  /\ IF Good(s) THEN LeaveMenu(s) ELSE Then(s, None) /\ UNCHANGED <<menu, configured>>
  /\ UNCHANGED <<syncing, resolved, cursor, pane, drift>>
  /\ UNCHANGED <<promptVars, editVars>>

Deliver(s) ==
  /\ quit = "no"
  /\ \/ ResolvedMsg(s) \/ DesiredLoadedMsg(s) \/ DetailMsg(s) \/ SavedMsg(s)
     \/ DriftMsg(s) \/ MutationDoneMsg(s) \/ SyncDoneMsg(s) \/ InitDoneMsg(s)
  /\ UNCHANGED <<fileVars, endVars>>

-----------------------------------------------------------------------------
(* Keys.  A prompt captures them before an edit, an edit before the menu,   *)
(* the menu before the browser (handleKey).                                *)

AtPrompt == quit = "no" /\ confirm # None
AtEdit == quit = "no" /\ confirm = None /\ editing # None
AtMenu == quit = "no" /\ confirm = None /\ editing = None /\ menu
AtBrowser == quit = "no" /\ confirm = None /\ editing = None /\ ~menu

\* handleConfirm
Yes ==
  /\ AtPrompt
  /\ confirm' = None
  /\ IF confirm = QuitCommand
       THEN quit' = "asked" /\ UNCHANGED <<commands, consent>>
       ELSE /\ Launch(confirm)
            /\ consent' = (consent \/ confirm = ForcedSync)
            /\ quit' = quit
  /\ UNCHANGED <<start, screenVars, editing, editVars, fileVars>>

No ==
  /\ AtPrompt
  /\ confirm' = None
  /\ UNCHANGED <<screenVars, editing, editVars, fileVars, commands, endVars>>

\* stageEdit
Stage(x) ==
  staged' = [staged EXCEPT ![editing.app] =
               [v \in DOMAIN @ \cup {editing.var} |->
                  IF v = editing.var THEN x ELSE @[v]]]

\* Mutant of Enter: the rows are not refreshed.
EnterUnrefreshed(x) ==
  /\ AtEdit
  /\ Stage(x)
  /\ editing' = None
  /\ UNCHANGED <<screenVars, confirm, index>>
  /\ UNCHANGED <<fileVars, commands, endVars>>

\* handleEdit on enter, with an input that is valid; any other keeps the input
\* open.
Enter(x) ==
  /\ AtEdit
  /\ Stage(x)
  /\ pane' = Refreshed(staged')
  /\ editing' = None
  /\ UNCHANGED <<menu, syncing, resolved, configured, cursor, drift, confirm, index>>
  /\ UNCHANGED <<fileVars, commands, endVars>>

Escape ==
  /\ AtEdit
  /\ editing' = None
  /\ UNCHANGED <<screenVars, confirm, editVars, fileVars, commands, endVars>>

\* handleOnboarding: every key is swallowed while a sync it started runs.
MenuSync ==
  /\ AtMenu /\ ~syncing
  /\ syncing' = TRUE
  /\ Launch(Command("sync", None))
  /\ UNCHANGED <<menu, resolved, configured, cursor, pane, drift>>
  /\ UNCHANGED <<promptVars, editVars, fileVars, endVars>>

MenuInit ==
  /\ AtMenu /\ ~syncing
  /\ Launch(Command("init", None))
  /\ UNCHANGED <<screenVars, promptVars, editVars, fileVars, endVars>>

MenuBrowse ==
  /\ AtMenu /\ ~syncing
  /\ menu' = FALSE
  /\ UNCHANGED <<syncing, resolved, configured, cursor, pane, drift>>
  /\ UNCHANGED <<promptVars, editVars, fileVars, commands, endVars>>

MenuQuit ==
  /\ AtMenu /\ ~syncing
  /\ quit' = "unasked"
  /\ UNCHANGED <<start, consent>>
  /\ UNCHANGED <<screenVars, promptVars, editVars, fileVars, commands>>

\* hasPendingEdits
Pending == \E a \in Apps : staged[a] # NoEdits

Quit ==
  /\ AtBrowser
  /\ IF Pending THEN confirm' = QuitCommand /\ quit' = quit
     ELSE quit' = "unasked" /\ confirm' = confirm
  /\ UNCHANGED <<start, consent>>
  /\ UNCHANGED <<screenVars, editing, editVars, fileVars, commands>>

HasRows == pane.rows # Absent

\* Mutant of StartEdit: it does not ask for a detail with rows.
StartEditAnywhere(v) ==
  /\ AtBrowser
  /\ editing' = [app |-> pane.node, var |-> v]
  /\ UNCHANGED <<screenVars, confirm, editVars, fileVars, commands, endVars>>

StartEdit(v) ==
  /\ AtBrowser /\ HasRows
  /\ editing' = [app |-> pane.node, var |-> v]
  /\ UNCHANGED <<screenVars, confirm, editVars, fileVars, commands, endVars>>

\* startSave builds the document at once and leaves the write to a command.
Save ==
  /\ AtBrowser /\ HasRows
  /\ staged[pane.node] # NoEdits
  /\ index[pane.node] # Absent
  /\ Launch([Command("save", pane.node) EXCEPT
               !.doc = Overlay(index[pane.node], staged[pane.node])])
  /\ UNCHANGED <<screenVars, promptVars, editVars, fileVars, endVars>>

Discard ==
  /\ AtBrowser /\ HasRows
  /\ staged[pane.node] # NoEdits
  /\ staged' = [staged EXCEPT ![pane.node] = NoEdits]
  /\ pane' = Refreshed(staged')
  /\ UNCHANGED <<menu, syncing, resolved, configured, cursor, drift>>
  /\ UNCHANGED <<promptVars, index, fileVars, commands, endVars>>

\* startLifecycle: restart, stop or start what the cursor is on.
Lifecycle ==
  /\ AtBrowser
  /\ cursor \in Apps
  /\ confirm' = Command("lifecycle", cursor)
  /\ UNCHANGED <<screenVars, editing, editVars, fileVars, commands, endVars>>

ToggleDrift ==
  /\ AtBrowser
  /\ \/ drift # None /\ drift' = None /\ commands' = commands
     \/ /\ drift = None
        /\ cursor \in Apps
        /\ drift' = drift
        /\ Launch(Command("drift", cursor))
  /\ UNCHANGED <<menu, syncing, resolved, configured, cursor, pane>>
  /\ UNCHANGED <<promptVars, editVars, fileVars, endVars>>

\* handleBack closes the drift pane before the detail.  With neither open it
\* is a move in the tree.
Back ==
  /\ AtBrowser
  /\ \/ drift # None /\ drift' = None /\ pane' = pane
     \/ drift = None /\ pane # Closed /\ pane' = Closed /\ drift' = drift
  /\ UNCHANGED <<menu, syncing, resolved, configured, cursor>>
  /\ UNCHANGED <<promptVars, editVars, fileVars, commands, endVars>>

\* handleNav: with variables in the pane, the arrows move among them.
InTree == AtBrowser /\ resolved /\ ~HasRows /\ ~pane.remote

Move(n) ==
  /\ InTree
  /\ n # cursor
  /\ cursor' = n
  /\ UNCHANGED <<menu, syncing, resolved, configured, pane, drift>>
  /\ UNCHANGED <<promptVars, editVars, fileVars, commands, endVars>>

Open ==
  /\ InTree
  /\ cursor # None
  /\ pane' = Loading(cursor)
  /\ Launch(Command("detail", cursor))
  /\ UNCHANGED <<menu, syncing, resolved, configured, cursor, drift>>
  /\ UNCHANGED <<promptVars, editVars, fileVars, endVars>>

Key ==
  \/ Yes \/ No \/ Escape
  \/ MenuSync \/ MenuInit \/ MenuBrowse \/ MenuQuit
  \/ Quit \/ Save \/ Discard \/ Lifecycle \/ ToggleDrift \/ Back \/ Open
  \/ \E x \in Typed : Enter(x)
  \/ \E v \in Vars : StartEdit(v)
  \/ \E n \in Nodes \cup {None} : Move(n)

-----------------------------------------------------------------------------
Next == Key \/ \E s \in Slots : Work(s) \/ Deliver(s)

Spec == Init /\ [][Next]_vars

\* Commands end, by the client's timeouts and bounded retries, and the update
\* loop never blocks.  Nothing is assumed of the keyboard.
Fairness == \A s \in Slots : WF_vars(Work(s)) /\ WF_vars(Deliver(s))

FairSpec == Spec /\ Fairness
=============================================================================
