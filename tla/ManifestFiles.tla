---------------------------- MODULE ManifestFiles ----------------------------
(***************************************************************************)
(* The manifests on disk, one per path, and how the program and people      *)
(* change them: config.WriteApplication and WriteDatabase replace a file by *)
(* renaming a temporary one, the importer truncates and fills the root      *)
(* manifest in place, an editor does as it likes.                          *)
(***************************************************************************)
EXTENDS Fields, FiniteSets

CONSTANTS
  Procs,    \* processes of the program that share the directory
  NoFile,   \* there is no such file
  Garbage,  \* a file that is not YAML
  Torn      \* a file of which only a part is written

ASSUME Contents ==
  /\ Torn \notin Manifests \cup {NoFile, Garbage}
  /\ NoFile \notin Manifests /\ Garbage \notin Manifests

\* applicationPath and databasePath: the project is not part of a path.
PathOf(r) == <<r.environment, r.kind, r.name>>

Paths == {PathOf(r) : r \in Resources}

KindAt(path) == path[2]

VARIABLES
  disk,   \* what is at each path
  root,   \* coolify.yaml: "absent", "torn" or "whole"
  temp,   \* the temporary file of each process, NoFile when it has none
  steady  \* history: paths nobody else changed since a process's command began

filesVars == <<disk, root, temp, steady>>

Exists(path) == disk[path] # NoFile

\* PeekKind: no kind can be read from what does not parse.
PeekKind(path) == IF disk[path] \in Manifests THEN KindAt(path) ELSE ""

-----------------------------------------------------------------------------

\* Everybody but p (everybody, when p is none of them) sees path change.
Rewrite(p, path, content) ==
  /\ disk' = [disk EXCEPT ![path] = content]
  /\ steady' = [q \in Procs |-> IF q = p THEN steady[q] ELSE steady[q] \ {path}]

\* os.CreateTemp, Write and Rename of atomicWrite.
CreateTemp(p) ==
  /\ temp' = [temp EXCEPT ![p] = Torn]
  /\ UNCHANGED <<disk, root, steady>>

FillTemp(p, m) ==
  /\ temp' = [temp EXCEPT ![p] = m]
  /\ UNCHANGED <<disk, root, steady>>

RenameTemp(p, path) ==
  /\ Rewrite(p, path, temp[p])
  /\ temp' = [temp EXCEPT ![p] = NoFile]
  /\ root' = root

\* The deferred os.Remove, when a write fails.
RemoveTemp(p) ==
  /\ temp' = [temp EXCEPT ![p] = NoFile]
  /\ UNCHANGED <<disk, root, steady>>

\* The two moments of os.WriteFile in writeRootManifest.
WriteRoot(to) ==
  /\ root' = to
  /\ UNCHANGED <<disk, temp, steady>>
=============================================================================
