---------------------------- MODULE ExplorerProps ----------------------------
(* What a session of Explorer promises.                                    *)
EXTENDS Explorer

\* Every variable has its type; in particular the model state of
\* internal/tui/model.go never holds an edit without its application.
TypeOK ==
  /\ start \in {"browse", "menu"}
  /\ menu \in BOOLEAN /\ syncing \in BOOLEAN
  /\ resolved \in BOOLEAN /\ configured \in BOOLEAN
  /\ cursor \in Nodes \cup {None}
  /\ pane \in Panes
  /\ drift \in Apps \cup {None}
  /\ confirm \in Commands \cup {None}
  /\ editing \in [app : Apps, var : Vars] \cup {None}
  /\ staged \in [Apps -> Edits]
  /\ index \in [Apps -> Manifests \cup {Absent}]
  /\ commands \in [Slots -> Commands \cup {None}]
  /\ disk \in [Apps -> Manifests \cup {Absent}]
  /\ root \in BOOLEAN
  /\ quit \in {"no", "asked", "unasked"}
  /\ consent \in BOOLEAN

\* In a session that starts in the browser, what a save takes to the disk is what
\* the user saw when he pressed the key.  The rows on screen are one copy and the
\* document is made of two others, the loaded manifest and the staged edits:
\* staging, discarding and every result of a save have to keep the rows abreast
\* (refreshDesired, startSave).
SavesWhatIsShown ==
  [][\A s \in Slots :
       start = "browse" /\ commands[s] = None /\ commands'[s] # None
         /\ commands'[s].kind = "save"
       => commands'[s].about = pane.node /\ commands'[s].doc = pane.rows]_vars

\* "d discards the staged edits and restores the on-disk values": when no save of
\* the application is on its way, the rows after a discard are what its file
\* holds (discardEdits).
DiscardRestoresDisk ==
  [][Discard /\ (\A s \in Slots : Running(s, "save") => commands[s].about # pane.node)
       => pane'.rows = disk[pane.node]]_vars

\* The result of a save of n that succeeded is delivered in this step.
SaveDelivered(n) ==
  \E s \in Slots : /\ Running(s, "save")
                  /\ commands[s].about = n
                  /\ commands[s].at = "ok"
                  /\ commands'[s] = None

\* An edit leaves the staging only by a discard or when a save of its
\* application succeeded: neither a failed write, nor a quit that is declined,
\* nor a result for another application drops it (applySaved).
EditsLeaveWhenSaved ==
  [][\A n \in Apps :
       \/ DOMAIN staged[n] \subseteq DOMAIN staged'[n]
       \/ Discard /\ pane.node = n
       \/ SaveDelivered(n)]_vars

\* A manifest that exists is replaced only by the save of that application or
\* by an import whose overwrite prompt was answered with y, however syncs,
\* inits, prompts and saves interleave (commitFiles, applySyncDone).
OverwriteNeedsConsent ==
  [][\A a \in Apps : disk[a] # Absent /\ disk'[a] # disk[a] =>
       \E s \in Slots :
         \/ Running(s, "save") /\ commands[s].about = a /\ commands[s].doc = disk'[a]
         \/ Running(s, "sync") /\ commands[s].force /\ consent]_vars

\* The pane never sticks on "(loading...)": a result, or an error of whatever
\* command, takes the placeholder away (clearLoadingDetail).
LoadingEnds == pane.kind = "loading" ~> pane.kind # "loading" \/ quit # "no"

\* While syncing, the menu swallows every key, also the one that quits: it must
\* end whatever becomes of the import (applySyncDone).
SyncEnds == syncing ~> ~syncing \/ quit # "no"
=============================================================================
