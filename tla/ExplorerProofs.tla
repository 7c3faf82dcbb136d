--------------------------- MODULE ExplorerProofs ---------------------------
(***************************************************************************)
(* Theorems about a session of the explorer, for every set of              *)
(* applications, variables and values, every way to start, and any number  *)
(* of commands in flight.                                                  *)
(***************************************************************************)
EXTENDS ExplorerProps, TLAPS

-----------------------------------------------------------------------------
(* Edits, rows and commands.                                               *)

LEMMA NoEditsType == NoEdits \in Edits
<1>1. NoEdits \in [{} -> Values]
  BY DEF NoEdits
<1>2. {} \in SUBSET Vars
  OBVIOUS
<1>3. QED
  BY <1>1, <1>2 DEF Edits

LEMMA EditsFacts ==
  ASSUME NEW e \in Edits
  PROVE  DOMAIN e \subseteq Vars /\ \A v \in DOMAIN e : e[v] \in Values
BY DEF Edits

\* Rows are a manifest.
LEMMA OverlayType ==
  ASSUME NEW m \in Manifests, NEW e \in Edits
  PROVE  Overlay(m, e) \in Manifests
<1>1. ASSUME NEW v \in Vars
      PROVE  (IF v \in DOMAIN e THEN e[v] ELSE m[v]) \in Values
  BY <1>1, EditsFacts DEF Manifests
<1>2. QED
  BY <1>1 DEF Overlay, Manifests

LEMMA RowsType ==
  ASSUME TypeOK, NEW a \in Apps, NEW e \in Edits
  PROVE  Rows(a, e) \in Manifests \cup {Absent}
BY OverlayType DEF TypeOK, Rows

\* A command that was not at work yet.
LEMMA CommandFacts ==
  ASSUME NEW k \in CommandKinds, NEW n \in Nodes \cup {None}
  PROVE  /\ Command(k, n) \in Commands
         /\ Command(k, n).kind = k
         /\ Command(k, n).about = n
         /\ Command(k, n).force = FALSE
         /\ Command(k, n).at = "begun"
         /\ Command(k, n).found = NoManifests
BY DEF Command, Commands, NoManifests

LEMMA SpecialCommands ==
  /\ ForcedSync \in Commands /\ ForcedSync.kind = "sync" /\ ForcedSync.force
  /\ ForcedSync.at = "begun" /\ ForcedSync.found = NoManifests
  /\ QuitCommand \in Commands /\ QuitCommand.kind = "quit"
  /\ \A path \in BOOLEAN : /\ LoadDesired(path) \in Commands
                           /\ LoadDesired(path).kind = "desired"
                           /\ LoadDesired(path).found = NoManifests
BY DEF ForcedSync, QuitCommand, LoadDesired, Command, Commands, CommandKinds, Finished,
       NoManifests

-----------------------------------------------------------------------------
(* The inductive invariant.                                                *)

OnDisk(n) == disk[n] # Absent
Flying(s) == commands[s] # None
Prompting == confirm # None /\ confirm.kind = "sync"

\* What each command in flight is about.  A manifest it has read, or was built
\* from, is on disk for good; an import that overwrites was consented to.
CommandOK(c) ==
  /\ c.kind \in {"drift", "save"} => c.about \in Apps
  /\ c.kind = "save" => c.doc \in Manifests /\ c.at # "bare" /\ OnDisk(c.about)
  /\ \A n \in Apps : c.found[n] # Absent => OnDisk(n)
  /\ c.kind = "sync" /\ c.force => consent
  /\ start = "browse" => c.kind \notin {"sync", "init"}

CommandsOK == \A s \in Slots : Flying(s) => CommandOK(commands[s])

ScreenOK ==
  /\ confirm # None => /\ confirm.kind \in {"sync", "quit", "lifecycle"}
                       /\ confirm.kind = "sync" => confirm = ForcedSync
                       /\ \A n \in Apps : confirm.found[n] = Absent
  /\ \A n \in Apps : index[n] # Absent => OnDisk(n)
  /\ HasRows => pane.kind = "detail" /\ pane.node \in Apps
  /\ start = "browse" => ~menu /\ ~Prompting

\* In the browser the manifests are loaded once, before there are rows.
Loads(s) == Flying(s) /\ commands[s].kind \in {"resolve", "desired"}

RowsOK ==
  start = "browse" =>
    /\ \A s, t \in Slots : Loads(s) /\ Loads(t) => s = t
    /\ \A s \in Slots : Loads(s) => index = NoManifests /\ ~HasRows
    /\ HasRows => /\ index[pane.node] # Absent
                  /\ pane.rows = Overlay(index[pane.node], staged[pane.node])

\* An import that nobody consented to is the only one, from its check on: no
\* other is in flight, none can be started, and none is prompted for.  Nobody
\* else brings a manifest into its way.
IsSync(s) == Flying(s) /\ commands[s].kind = "sync"
Writing(s) == IsSync(s) /\ ~commands[s].force /\ commands[s].at \in {"checked", "busy"}
Alone(s) == syncing /\ ~Prompting /\ \A t \in Slots : IsSync(t) => t = s

SyncsOK ==
  /\ ~Collides =>
       /\ ~Prompting
       /\ \A s \in Slots : IsSync(s) =>
            Alone(s) /\ ~commands[s].force /\ commands[s].at # "conflict"
  /\ \A s \in Slots : Writing(s) =>
       /\ Alone(s)
       /\ \A n \in Apps : commands[s].at = "checked" \/ n \in commands[s].todo => ~OnDisk(n)

IInv == TypeOK /\ CommandsOK /\ ScreenOK /\ RowsOK /\ SyncsOK

LEMMA InitIInv == ASSUME Init PROVE IInv
<1>1. TypeOK
  <2>1. /\ start \in {"browse", "menu"} /\ menu \in BOOLEAN /\ syncing \in BOOLEAN
        /\ resolved \in BOOLEAN /\ configured \in BOOLEAN /\ cursor = None
        /\ drift = None /\ confirm = None /\ editing = None /\ root \in BOOLEAN
        /\ quit = "no" /\ consent = FALSE
    BY StartsType DEF Init
  <2>2. pane \in Panes
    BY DEF Init, Closed, Panes
  <2>3. staged \in [Apps -> Edits]
    BY NoEditsType DEF Init
  <2>4. index \in [Apps -> Manifests \cup {Absent}]
    BY DEF Init, NoManifests
  <2>5. commands \in [Slots -> Commands \cup {None}]
    BY CommandFacts DEF Init, CommandKinds
  <2>6. disk \in [Apps -> Manifests \cup {Absent}]
    BY FilesType DEF Init
  <2>7. QED
    BY <2>1, <2>2, <2>3, <2>4, <2>5, <2>6 DEF TypeOK
<1>2. \A s \in Slots : Flying(s) =>
        commands[s].kind = "resolve" /\ commands[s].found = NoManifests /\ s = 1
  BY CommandFacts DEF Init, Flying, CommandKinds
<1>3. CommandsOK
  BY <1>2 DEF CommandsOK, CommandOK, NoManifests
<1>4. ~HasRows
  BY DEF Init, HasRows, Closed
<1>5. ScreenOK
  BY <1>4 DEF Init, ScreenOK, Prompting, NoManifests
<1>6. RowsOK
  BY <1>2, <1>4 DEF RowsOK, Loads, Init
<1>7. SyncsOK
  BY <1>2 DEF SyncsOK, IsSync, Writing, Prompting, Init
<1>8. QED
  BY <1>1, <1>3, <1>5, <1>6, <1>7 DEF IInv

-----------------------------------------------------------------------------
(* Steps.                                                                  *)

\* Nothing that is on disk goes, nor a consent that was given.
Grows ==
  /\ start' = start
  /\ consent => consent'
  /\ root => root'
  /\ \A n \in Apps : OnDisk(n) => OnDisk(n)'

LEMMA CommandKept ==
  ASSUME Grows, NEW c \in Commands, CommandOK(c)
  PROVE  CommandOK(c)'
BY DEF Grows, CommandOK, Commands, OnDisk

\* A step changes one slot.
LEMMA OneSlot ==
  ASSUME IInv, Grows, NEW s \in Slots, NEW c \in Commands \cup {None},
         commands' = [commands EXCEPT ![s] = c],
         c # None => CommandOK(c)'
  PROVE  /\ commands' \in [Slots -> Commands \cup {None}]
         /\ CommandsOK'
         /\ \A t \in Slots : commands'[t] = IF t = s THEN c ELSE commands[t]
<1>1. commands \in [Slots -> Commands \cup {None}]
  BY DEF IInv, TypeOK
<1>2. commands' \in [Slots -> Commands \cup {None}]
  BY <1>1
<1>3. \A t \in Slots : commands'[t] = IF t = s THEN c ELSE commands[t]
  BY <1>1
<1>4. ASSUME NEW t \in Slots, commands'[t] # None
      PROVE  CommandOK(commands[t])'
  <2>1. CASE t = s
    BY <2>1, <1>3, <1>4 DEF CommandOK, OnDisk
  <2>2. CASE t # s
    <3>1. PICK d \in Commands : d = commands[t] /\ d = commands'[t]
      BY <2>2, <1>1, <1>3, <1>4
    <3>2. CommandOK(d)
      BY <3>1, <1>4 DEF IInv, CommandsOK, Flying
    <3>3. CommandOK(d)'
      BY <3>2, CommandKept
    <3>4. QED
      BY <3>1, <3>3 DEF CommandOK, OnDisk
  <2>3. QED
    BY <2>1, <2>2
<1>5. QED
  BY <1>2, <1>3, <1>4 DEF CommandsOK, Flying

\* A step that changes no slot.
LEMMA NoSlot ==
  ASSUME IInv, Grows, commands' = commands
  PROVE  commands' \in [Slots -> Commands \cup {None}] /\ CommandsOK'
<1>1. commands \in [Slots -> Commands \cup {None}]
  BY DEF IInv, TypeOK
<1>2. ASSUME NEW t \in Slots, commands'[t] # None
      PROVE  CommandOK(commands[t])'
  <2>1. PICK d \in Commands : d = commands[t] /\ d = commands'[t]
    BY <1>1, <1>2
  <2>2. CommandOK(d)
    BY <2>1, <1>2 DEF IInv, CommandsOK, Flying
  <2>3. CommandOK(d)'
    BY <2>2, CommandKept
  <2>4. QED
    BY <2>1, <2>3 DEF CommandOK, OnDisk
<1>3. QED
  BY <1>1, <1>2 DEF CommandsOK, Flying

\* A step that neither starts an import nor moves one on, nor creates a manifest.
LEMMA SyncsKept ==
  ASSUME IInv, Grows,
         \A t \in Slots : IsSync(t)' => IsSync(t) /\ commands'[t] = commands[t],
         syncing' = syncing,
         Prompting' => Prompting,
         \A n \in Apps : OnDisk(n)' => OnDisk(n)
  PROVE  SyncsOK'
<1>1. Collides => Collides'
  BY DEF Collides, Grows, OnDisk
<1>2. ASSUME NEW s \in Slots, IsSync(s)', Alone(s)
      PROVE  Alone(s)'
  BY <1>2 DEF Alone
<1>3. ~Collides' =>
        /\ ~Prompting'
        /\ \A s \in Slots : IsSync(s)' =>
             Alone(s)' /\ ~commands'[s].force /\ commands'[s].at # "conflict"
  BY <1>1, <1>2 DEF IInv, SyncsOK
<1>4. ASSUME NEW s \in Slots, Writing(s)'
      PROVE  /\ Alone(s)'
             /\ \A n \in Apps : commands'[s].at = "checked" \/ n \in commands'[s].todo
                                 => ~OnDisk(n)'
  <2>1. IsSync(s)' /\ IsSync(s) /\ Writing(s) /\ commands'[s] = commands[s]
    BY <1>4 DEF Writing
  <2>2. QED
    BY <2>1, <1>2 DEF IInv, SyncsOK
<1>5. QED
  BY <1>3, <1>4 DEF SyncsOK

\* A step that starts no load: the pane is as it was, refreshed, a new detail, or
\* without rows.
LEMMA RowsKept ==
  ASSUME IInv, start' = start, index' = index,
         start = "browse" => \A t \in Slots : Loads(t)' => Loads(t),
         staged' \in [Apps -> Edits],
         \/ pane' = pane /\ staged' = staged
         \/ pane' = Refreshed(staged')
         \/ staged' = staged /\ \E n \in Nodes \cup {None}, r \in BOOLEAN : pane' = Detail(n, r)
         \/ pane' \in Panes /\ ~HasRows'
  PROVE  /\ pane' \in Panes
         /\ RowsOK'
         /\ HasRows' => pane'.kind = "detail" /\ pane'.node \in Apps
<1> DEFINE PaneFits ==
      /\ pane' \in Panes
      /\ HasRows' => pane'.kind = "detail" /\ pane'.node \in Apps
      /\ start = "browse" /\ HasRows' =>
           /\ index[pane'.node] # Absent
           /\ pane'.rows = Overlay(index[pane'.node], staged'[pane'.node])
<1>1. PaneFits
  <2>0. pane \in Panes /\ index \in [Apps -> Manifests \cup {Absent}]
    BY DEF IInv, TypeOK
  <2>1. CASE pane' = pane /\ staged' = staged
    BY <2>1, <2>0 DEF IInv, ScreenOK, RowsOK, HasRows
  <2>2. CASE pane' = Refreshed(staged')
    <3>1. CASE pane.kind = "detail" /\ pane.node \in Apps /\ index[pane.node] # Absent
      <4>1. Overlay(index[pane.node], staged'[pane.node]) \in Manifests
        BY <3>1, <2>0, OverlayType
      <4>2. pane' = [pane EXCEPT !.rows = Overlay(index[pane.node], staged'[pane.node])]
        BY <2>2, <3>1 DEF Refreshed
      <4>3. pane' \in Panes /\ pane'.kind = "detail" /\ pane'.node = pane.node
            /\ pane'.rows = Overlay(index[pane.node], staged'[pane.node])
        BY <4>1, <4>2, <3>1, <2>0 DEF Panes
      <4>4. QED
        BY <4>3, <3>1
    <3>2. CASE ~(pane.kind = "detail" /\ pane.node \in Apps /\ index[pane.node] # Absent)
      <4>1. pane' = pane
        BY <2>2, <3>2 DEF Refreshed
      <4>2. start = "browse" => ~HasRows
        BY <3>2 DEF IInv, ScreenOK, RowsOK
      <4>3. QED
        BY <4>1, <4>2, <2>0 DEF HasRows, IInv, ScreenOK
    <3>3. QED
      BY <3>1, <3>2
  <2>3. ASSUME staged' = staged, NEW n \in Nodes \cup {None}, NEW r \in BOOLEAN,
               pane' = Detail(n, r)
        PROVE  PaneFits
    <3>1. /\ pane'.kind = "detail" /\ pane'.node = n /\ pane'.remote = r
          /\ pane'.rows = IF n \in Apps THEN Rows(n, staged[n]) ELSE Absent
      BY <2>3 DEF Detail
    <3>2. n \in Apps => staged[n] \in Edits
      BY DEF IInv, TypeOK
    <3>3. n \in Apps => Rows(n, staged[n]) \in Manifests \cup {Absent}
      BY <3>2, RowsType DEF IInv
    <3>4. pane' \in Panes
      BY <2>3, <3>3 DEF Detail, Panes
    <3>5. HasRows' => n \in Apps /\ index[n] # Absent
                      /\ pane'.rows = Overlay(index[n], staged[n])
      BY <3>1, <3>3 DEF HasRows, Rows
    <3>6. QED
      BY <3>1, <3>4, <3>5, <2>3
  <2>4. CASE pane' \in Panes /\ ~HasRows'
    BY <2>4
  <2>5. QED
    BY <2>1, <2>2, <2>3, <2>4
<1>2. ASSUME start = "browse", NEW t \in Slots, Loads(t)
      PROVE  ~HasRows'
  <2>1. index = NoManifests /\ ~HasRows
    BY <1>2 DEF IInv, RowsOK
  <2>2. \A n \in Apps : index[n] = Absent
    BY <2>1 DEF NoManifests
  <2>3. QED
    BY <1>1, <1>2, <2>2
<1>3. RowsOK'
  BY <1>1, <1>2 DEF RowsOK, IInv
<1>4. QED
  BY <1>1, <1>3

-----------------------------------------------------------------------------
(* Commands at work.                                                       *)

\* What a step of the command in slot s leaves: c is the command after it.
LEMMA WorkStep ==
  ASSUME IInv, Grows, UNCHANGED <<screenVars, promptVars, editVars, endVars>>,
         NEW s \in Slots, NEW c \in Commands, Flying(s), c.kind = commands[s].kind,
         CommandOK(c)', commands' = [commands EXCEPT ![s] = c],
         disk' \in [Apps -> Manifests \cup {Absent}], root' \in BOOLEAN
  PROVE  /\ TypeOK' /\ CommandsOK' /\ ScreenOK' /\ RowsOK'
         /\ \A t \in Slots : commands'[t] = IF t = s THEN c ELSE commands[t]
         /\ SyncsOK' => IInv'
<1>1. /\ commands' \in [Slots -> Commands \cup {None}]
      /\ CommandsOK'
      /\ \A t \in Slots : commands'[t] = IF t = s THEN c ELSE commands[t]
  BY OneSlot
<1>2. TypeOK'
  BY <1>1 DEF IInv, TypeOK, screenVars, promptVars, editVars, endVars
<1>3. ScreenOK'
  BY DEF IInv, ScreenOK, Grows, OnDisk, HasRows, Prompting,
         screenVars, promptVars, editVars, endVars
<1>4. \A t \in Slots : Loads(t)' => Loads(t)
  BY <1>1 DEF Loads, Flying
<1>5. RowsOK'
  <2>1. start' = start /\ index' = index /\ pane' = pane /\ staged' = staged
    BY DEF screenVars, editVars, endVars
  <2>2. staged' \in [Apps -> Edits]
    BY <1>2 DEF TypeOK
  <2>3. QED
    BY <1>4, <2>1, <2>2, RowsKept
<1>6. QED
  BY <1>1, <1>2, <1>3, <1>5 DEF IInv

\* A step of a command that is no import.
LEMMA OtherWork ==
  ASSUME IInv, Grows, UNCHANGED <<screenVars, promptVars, editVars, endVars>>,
         NEW s \in Slots, NEW c \in Commands, Flying(s), c.kind = commands[s].kind,
         c.kind # "sync",
         CommandOK(c)', commands' = [commands EXCEPT ![s] = c],
         disk' \in [Apps -> Manifests \cup {Absent}], root' \in BOOLEAN,
         \A n \in Apps : OnDisk(n)' => OnDisk(n)
  PROVE  IInv'
<1>1. /\ SyncsOK' => IInv'
      /\ \A t \in Slots : commands'[t] = IF t = s THEN c ELSE commands[t]
  BY WorkStep
<1>2. \A t \in Slots : IsSync(t)' => IsSync(t) /\ commands'[t] = commands[t]
  BY <1>1 DEF IsSync, Flying
<1>3. syncing' = syncing /\ (Prompting' => Prompting)
  BY DEF screenVars, promptVars, Prompting
<1>4. QED
  BY <1>1, <1>2, <1>3, SyncsKept

LEMMA FlyingFacts ==
  ASSUME IInv, NEW s \in Slots, Flying(s)
  PROVE  commands[s] \in Commands /\ CommandOK(commands[s])
BY DEF IInv, TypeOK, CommandsOK, Flying

\* A command that gets further.
LEMMA ReachFacts ==
  ASSUME IInv, NEW s \in Slots, Flying(s), Grows,
         NEW x \in {"begun", "checked", "busy"} \cup Finished,
         commands[s].kind = "save" => x # "bare"
  PROVE  \E c \in Commands :
           /\ c = [commands[s] EXCEPT !.at = x]
           /\ c.kind = commands[s].kind /\ c.at = x /\ c.force = commands[s].force
           /\ c.todo = commands[s].todo
           /\ CommandOK(c)'
<1>1. commands[s] \in Commands /\ CommandOK(commands[s])
  BY FlyingFacts
<1>2. PICK d \in Commands : d = commands[s]
  BY <1>1
<1>3. PICK c \in Commands : c = [d EXCEPT !.at = x]
  BY DEF Commands
<1>4. /\ c.kind = d.kind /\ c.about = d.about /\ c.force = d.force /\ c.doc = d.doc
      /\ c.todo = d.todo /\ c.found = d.found /\ c.at = x
  BY <1>3 DEF Commands
<1>5. CommandOK(c)
  BY <1>1, <1>2, <1>4 DEF CommandOK
<1>6. CommandOK(c)'
  BY <1>5, CommandKept
<1>7. QED
  BY <1>2, <1>3, <1>4, <1>6

LEMMA SameFiles ==
  ASSUME UNCHANGED fileVars, UNCHANGED endVars, IInv
  PROVE  /\ Grows /\ disk' \in [Apps -> Manifests \cup {Absent}] /\ root' \in BOOLEAN
         /\ \A n \in Apps : OnDisk(n)' => OnDisk(n)
BY DEF fileVars, endVars, Grows, OnDisk, IInv, TypeOK

LEMMA CallsInv ==
  ASSUME IInv, UNCHANGED <<screenVars, promptVars, editVars, endVars>>,
         NEW s \in Slots, Calls(s) \/ LoadFails(s)
  PROVE  IInv'
<1>1. Flying(s) /\ commands[s].kind \notin {"sync", "save"} /\ UNCHANGED fileVars
  BY DEF Calls, LoadFails, Running, Flying
<1>2. PICK x \in {"ok", "bare", "error"} : Reach(s, x)
  BY DEF Calls, LoadFails
<1>3. PICK c \in Commands : /\ c = [commands[s] EXCEPT !.at = x]
                            /\ c.kind = commands[s].kind
                            /\ CommandOK(c)'
  BY <1>1, SameFiles, ReachFacts DEF Finished
<1>4. commands' = [commands EXCEPT ![s] = c]
  BY <1>2, <1>3 DEF Reach
<1>5. QED
  BY <1>1, <1>3, <1>4, SameFiles, OtherWork

LEMMA CollectsInv ==
  ASSUME IInv, UNCHANGED <<screenVars, promptVars, editVars, endVars>>,
         NEW s \in Slots, Collects(s)
  PROVE  IInv'
<1>1. Flying(s) /\ commands[s].kind = "desired" /\ UNCHANGED fileVars
  BY DEF Collects, Running, Flying
<1>2. PICK d \in Commands : d = commands[s] /\ CommandOK(d)
  BY <1>1, FlyingFacts
<1>3. PICK S \in SUBSET Apps, x \in {"ok", "busy"} :
        commands' = [commands EXCEPT ![s].todo = S, ![s].at = x]
  <2>1. {a \in Apps : disk[a] # Absent} \in SUBSET Apps
    OBVIOUS
  <2>2. QED
    BY <2>1 DEF Collects
<1>4. PICK c \in Commands : c = [d EXCEPT !.todo = S, !.at = x]
  BY DEF Commands, Finished
<1>5. /\ c.kind = d.kind /\ c.about = d.about /\ c.force = d.force /\ c.doc = d.doc
      /\ c.found = d.found /\ c.at = x
  BY <1>4 DEF Commands
<1>6. CommandOK(c)
  BY <1>1, <1>2, <1>5 DEF CommandOK
<1>7. CommandOK(c)'
  BY <1>1, <1>6, SameFiles, CommandKept
<1>8. commands' = [commands EXCEPT ![s] = c]
  BY <1>2, <1>3, <1>4 DEF IInv, TypeOK
<1>9. QED
  BY <1>1, <1>2, <1>5, <1>7, <1>8, SameFiles, OtherWork

LEMMA ReadsInv ==
  ASSUME IInv, UNCHANGED <<screenVars, promptVars, editVars, endVars>>,
         NEW s \in Slots, NEW a \in Apps, Reads(s, a)
  PROVE  IInv'
<1>1. Flying(s) /\ commands[s].kind = "desired" /\ UNCHANGED fileVars
  BY DEF Reads, Running, Flying
<1>2. PICK d \in Commands : d = commands[s] /\ CommandOK(d)
  BY <1>1, FlyingFacts
<1>3. PICK x \in {"ok", "busy"}, m \in Manifests \cup {Absent} :
        /\ m = disk[a]
        /\ commands' = [commands EXCEPT ![s].found[a] = m, ![s].todo = @ \ {a}, ![s].at = x]
  <2>1. disk[a] \in Manifests \cup {Absent}
    BY DEF IInv, TypeOK
  <2>2. QED
    BY <2>1 DEF Reads
<1>4. PICK c \in Commands : c = [d EXCEPT !.found[a] = m, !.todo = @ \ {a}, !.at = x]
  BY DEF Commands, Finished
<1>5. /\ c.kind = d.kind /\ c.about = d.about /\ c.force = d.force /\ c.doc = d.doc
      /\ c.found = [d.found EXCEPT ![a] = m] /\ c.at = x
  BY <1>4 DEF Commands
<1>6. \A n \in Apps : c.found[n] # Absent => OnDisk(n)
  <2>1. d.found \in [Apps -> Manifests \cup {Absent}]
    BY DEF Commands
  <2>2. \A n \in Apps : c.found[n] = IF n = a THEN m ELSE d.found[n]
    BY <1>5, <2>1
  <2>3. QED
    BY <2>2, <1>2, <1>3 DEF CommandOK, OnDisk
<1>7. CommandOK(c)
  BY <1>1, <1>2, <1>5, <1>6 DEF CommandOK
<1>8. CommandOK(c)'
  BY <1>1, <1>7, SameFiles, CommandKept
<1>9. commands' = [commands EXCEPT ![s] = c]
  BY <1>2, <1>3, <1>4 DEF IInv, TypeOK
<1>10. QED
  BY <1>1, <1>2, <1>5, <1>8, <1>9, SameFiles, OtherWork

\* A save writes where a manifest is.
LEMMA SavesInv ==
  ASSUME IInv, UNCHANGED <<screenVars, promptVars, editVars, endVars>>,
         NEW s \in Slots, Saves(s)
  PROVE  IInv'
<1>1. Flying(s) /\ commands[s].kind = "save" /\ root' = root
  BY DEF Saves, Running, Flying
<1>2. PICK x \in {"ok", "error"} : Reach(s, x)
  BY DEF Saves
<1>3. /\ commands[s].about \in Apps /\ commands[s].doc \in Manifests
      /\ OnDisk(commands[s].about)
  BY <1>1, FlyingFacts DEF CommandOK
<1>4. disk \in [Apps -> Manifests \cup {Absent}] /\ root \in BOOLEAN
  BY DEF IInv, TypeOK
<1>5. disk' = disk \/ disk' = [disk EXCEPT ![commands[s].about] = commands[s].doc]
  BY DEF Saves
<1>6. /\ disk' \in [Apps -> Manifests \cup {Absent}] /\ root' \in BOOLEAN
      /\ \A n \in Apps : OnDisk(n)' <=> OnDisk(n)
  BY <1>1, <1>3, <1>4, <1>5, NamesType DEF OnDisk
<1>7. Grows
  BY <1>1, <1>6 DEF Grows, endVars
<1>8. PICK c \in Commands : /\ c = [commands[s] EXCEPT !.at = x]
                            /\ c.kind = commands[s].kind
                            /\ CommandOK(c)'
  BY <1>1, <1>7, ReachFacts DEF Finished
<1>9. commands' = [commands EXCEPT ![s] = c]
  BY <1>2, <1>8 DEF Reach
<1>10. QED
  BY <1>1, <1>6, <1>7, <1>8, <1>9, OtherWork

LEMMA ScaffoldsInv ==
  ASSUME IInv, UNCHANGED <<screenVars, promptVars, editVars, endVars>>,
         NEW s \in Slots, Scaffolds(s)
  PROVE  IInv'
<1>1. Flying(s) /\ commands[s].kind = "init" /\ disk' = disk
  BY DEF Scaffolds, Running, Flying
<1>2. PICK x \in {"ok", "error"} : Reach(s, x)
  BY DEF Scaffolds
<1>3. root' \in BOOLEAN /\ (root => root')
  <2>1. root \in BOOLEAN
    BY DEF IInv, TypeOK
  <2>2. root' = TRUE \/ root' = root
    BY DEF Scaffolds
  <2>3. CASE root' = TRUE
    BY <2>3
  <2>4. CASE root' = root
    BY <2>1, <2>4
  <2>5. QED
    BY <2>2, <2>3, <2>4
<1>4. Grows
  BY <1>1, <1>3 DEF Grows, endVars, OnDisk
<1>5. PICK c \in Commands : /\ c = [commands[s] EXCEPT !.at = x]
                            /\ c.kind = commands[s].kind
                            /\ CommandOK(c)'
  BY <1>1, <1>4, ReachFacts DEF Finished
<1>6. commands' = [commands EXCEPT ![s] = c]
  BY <1>2, <1>5 DEF Reach
<1>7. disk' \in [Apps -> Manifests \cup {Absent}] /\ \A n \in Apps : OnDisk(n)' => OnDisk(n)
  BY <1>1 DEF IInv, TypeOK, OnDisk
<1>8. QED
  BY <1>1, <1>3, <1>4, <1>5, <1>6, <1>7, OtherWork

\* A step of an import.  No other import is writing unasked, since this one would
\* not be there.
LEMMA SyncStep ==
  ASSUME IInv, Grows, UNCHANGED <<screenVars, promptVars, editVars, endVars>>,
         NEW s \in Slots, NEW c \in Commands, IsSync(s), c.kind = "sync",
         c.force = commands[s].force,
         CommandOK(c)', commands' = [commands EXCEPT ![s] = c],
         disk' \in [Apps -> Manifests \cup {Absent}], root' \in BOOLEAN,
         ~Collides' => c.at # "conflict",
         ~c.force /\ c.at \in {"checked", "busy"} =>
           Alone(s) /\ \A n \in Apps : c.at = "checked" \/ n \in c.todo => ~OnDisk(n)'
  PROVE  IInv'
<1>1. /\ SyncsOK' => IInv'
      /\ \A t \in Slots : commands'[t] = IF t = s THEN c ELSE commands[t]
  BY WorkStep DEF IsSync
<1>2. syncing' = syncing /\ (Prompting' => Prompting)
  BY DEF screenVars, promptVars, Prompting
<1>3. ASSUME NEW t \in Slots, IsSync(t)'
      PROVE  IsSync(t)
  BY <1>1, <1>3 DEF IsSync, Flying
<1>4. ASSUME NEW t \in Slots, Alone(t)
      PROVE  Alone(t)'
  BY <1>2, <1>3, <1>4 DEF Alone
<1>5. Collides => Collides'
  BY DEF Collides, Grows, OnDisk
<1>6. ASSUME ~Collides'
      PROVE  /\ ~Prompting'
             /\ \A t \in Slots : IsSync(t)' =>
                  Alone(t)' /\ ~commands'[t].force /\ commands'[t].at # "conflict"
  <2>1. ~Prompting /\ \A t \in Slots : IsSync(t) =>
          Alone(t) /\ ~commands[t].force /\ commands[t].at # "conflict"
    BY <1>5, <1>6 DEF IInv, SyncsOK
  <2>2. QED
    BY <2>1, <1>1, <1>2, <1>3, <1>4, <1>6
<1>7. ASSUME NEW t \in Slots, Writing(t)'
      PROVE  /\ Alone(t)'
             /\ \A n \in Apps : commands'[t].at = "checked" \/ n \in commands'[t].todo
                                 => ~OnDisk(n)'
  <2>1. CASE t = s
    <3>1. commands'[t] = c
      BY <2>1, <1>1
    <3>2. ~c.force /\ c.at \in {"checked", "busy"}
      BY <3>1, <1>7 DEF Writing
    <3>3. QED
      BY <2>1, <3>1, <3>2, <1>4
  <2>2. CASE t # s
    <3>1. commands'[t] = commands[t]
      BY <2>2, <1>1
    <3>2. Writing(t)
      BY <3>1, <1>3, <1>7 DEF Writing
    <3>3. Alone(t)
      BY <3>2 DEF IInv, SyncsOK
    <3>4. QED
      BY <2>2, <3>3 DEF Alone
  <2>3. QED
    BY <2>1, <2>2
<1>8. QED
  BY <1>1, <1>6, <1>7 DEF SyncsOK

LEMMA SyncChecksInv ==
  ASSUME IInv, UNCHANGED <<screenVars, promptVars, editVars, endVars>>,
         NEW s \in Slots, SyncChecks(s)
  PROVE  IInv'
<1>1. IsSync(s) /\ Flying(s) /\ commands[s].kind = "sync" /\ UNCHANGED fileVars
  BY DEF SyncChecks, Running, IsSync, Flying
<1>2. PICK x \in {"error", "conflict", "checked"} :
        /\ Reach(s, x)
        /\ x = "conflict" => Collides
        /\ x = "checked" => commands[s].force \/ ~Collides
  BY DEF SyncChecks
<1>3. PICK c \in Commands : /\ c = [commands[s] EXCEPT !.at = x]
                            /\ c.kind = commands[s].kind /\ c.at = x
                            /\ c.force = commands[s].force
                            /\ CommandOK(c)'
  BY <1>1, SameFiles, ReachFacts DEF Finished
<1>4. commands' = [commands EXCEPT ![s] = c]
  BY <1>2, <1>3 DEF Reach
<1>5. Collides' <=> Collides
  BY <1>1 DEF Collides, fileVars
<1>6. ASSUME ~c.force, c.at \in {"checked", "busy"}
      PROVE  Alone(s) /\ \A n \in Apps : ~OnDisk(n)'
  <2>1. ~Collides
    BY <1>2, <1>3, <1>6
  <2>2. Alone(s)
    BY <2>1, <1>1 DEF IInv, SyncsOK
  <2>3. \A n \in Apps : ~OnDisk(n)'
    BY <2>1, <1>1 DEF Collides, OnDisk, fileVars
  <2>4. QED
    BY <2>2, <2>3
<1>7. ~Collides' => c.at # "conflict"
  BY <1>2, <1>3, <1>5
<1>8. QED
  BY <1>1, <1>3, <1>4, <1>6, <1>7, SameFiles, SyncStep

LEMMA SyncEndsInv ==
  ASSUME IInv, UNCHANGED <<screenVars, promptVars, editVars, endVars>>,
         NEW s \in Slots, SyncCompletes(s) \/ SyncFails(s)
  PROVE  IInv'
<1>1. IsSync(s) /\ Flying(s) /\ commands[s].kind = "sync" /\ UNCHANGED fileVars
  BY DEF SyncCompletes, SyncFails, Running, IsSync, Flying
<1>2. PICK x \in {"error", "ok"} : Reach(s, x)
  BY DEF SyncCompletes, SyncFails
<1>3. PICK c \in Commands : /\ c = [commands[s] EXCEPT !.at = x]
                            /\ c.kind = commands[s].kind /\ c.at = x
                            /\ c.force = commands[s].force
                            /\ CommandOK(c)'
  BY <1>1, SameFiles, ReachFacts DEF Finished
<1>4. commands' = [commands EXCEPT ![s] = c]
  BY <1>2, <1>3 DEF Reach
<1>5. QED
  BY <1>1, <1>3, <1>4, SameFiles, SyncStep

LEMMA SyncWritesRootInv ==
  ASSUME IInv, UNCHANGED <<screenVars, promptVars, editVars, endVars>>,
         NEW s \in Slots, SyncWritesRoot(s)
  PROVE  IInv'
<1>1. /\ IsSync(s) /\ Flying(s) /\ commands[s].kind = "sync" /\ commands[s].at = "checked"
      /\ root' = TRUE /\ disk' = disk
      /\ commands' = [commands EXCEPT ![s].at = "busy", ![s].todo = Apps]
  BY DEF SyncWritesRoot, Running, IsSync, Flying
<1>2. PICK d \in Commands : d = commands[s] /\ CommandOK(d)
  BY <1>1, FlyingFacts
<1>3. PICK c \in Commands : c = [d EXCEPT !.at = "busy", !.todo = Apps]
  BY DEF Commands
<1>4. /\ c.kind = d.kind /\ c.about = d.about /\ c.force = d.force /\ c.doc = d.doc
      /\ c.found = d.found /\ c.at = "busy"
  BY <1>3 DEF Commands
<1>5. Grows
  BY <1>1 DEF Grows, OnDisk, endVars
<1>6. CommandOK(c)
  BY <1>1, <1>2, <1>4 DEF CommandOK
<1>7. CommandOK(c)'
  BY <1>5, <1>6, CommandKept
<1>8. commands' = [commands EXCEPT ![s] = c]
  BY <1>1, <1>2, <1>3 DEF IInv, TypeOK
<1>9. ~c.force => Alone(s) /\ \A n \in Apps : ~OnDisk(n)'
  <2>1. ~c.force => Writing(s)
    BY <1>1, <1>2, <1>4 DEF Writing
  <2>2. ~c.force => Alone(s) /\ \A n \in Apps : ~OnDisk(n)
    BY <2>1, <1>1 DEF IInv, SyncsOK
  <2>3. QED
    BY <2>2, <1>1 DEF OnDisk
<1>10. disk' \in [Apps -> Manifests \cup {Absent}] /\ root' \in BOOLEAN
  BY <1>1 DEF IInv, TypeOK
<1>11. QED
  BY <1>1, <1>2, <1>4, <1>5, <1>7, <1>8, <1>9, <1>10, SyncStep

LEMMA SyncWritesInv ==
  ASSUME IInv, UNCHANGED <<screenVars, promptVars, editVars, endVars>>,
         NEW s \in Slots, NEW a \in Apps, SyncWrites(s, a)
  PROVE  IInv'
<1>1. /\ IsSync(s) /\ Flying(s) /\ commands[s].kind = "sync" /\ commands[s].at = "busy"
      /\ root' = root /\ disk' = [disk EXCEPT ![a] = Imported]
      /\ commands' = [commands EXCEPT ![s].todo = @ \ {a}]
  BY DEF SyncWrites, Running, IsSync, Flying
<1>2. PICK d \in Commands : d = commands[s] /\ CommandOK(d)
  BY <1>1, FlyingFacts
<1>3. PICK c \in Commands : c = [d EXCEPT !.todo = @ \ {a}]
  BY DEF Commands
<1>4. /\ c.kind = d.kind /\ c.about = d.about /\ c.force = d.force /\ c.doc = d.doc
      /\ c.found = d.found /\ c.at = d.at /\ c.todo = d.todo \ {a}
  BY <1>3 DEF Commands
<1>5. disk \in [Apps -> Manifests \cup {Absent}] /\ Imported \in Manifests /\ Imported # Absent
  BY NamesType, FilesType DEF IInv, TypeOK
<1>6. /\ disk' \in [Apps -> Manifests \cup {Absent}]
      /\ \A n \in Apps : disk'[n] = IF n = a THEN Imported ELSE disk[n]
  BY <1>1, <1>5
<1>7. Grows
  BY <1>1, <1>5, <1>6 DEF Grows, OnDisk, endVars
<1>8. CommandOK(c)
  BY <1>1, <1>2, <1>4 DEF CommandOK
<1>9. CommandOK(c)'
  BY <1>7, <1>8, CommandKept
<1>10. commands' = [commands EXCEPT ![s] = c]
  BY <1>1, <1>2, <1>3 DEF IInv, TypeOK
<1>11. ~c.force => Alone(s) /\ \A n \in Apps : n \in c.todo => ~OnDisk(n)'
  <2>1. ~c.force => Writing(s)
    BY <1>1, <1>2, <1>4 DEF Writing
  <2>2. ~c.force => Alone(s) /\ \A n \in Apps : n \in d.todo => ~OnDisk(n)
    BY <2>1, <1>2 DEF IInv, SyncsOK
  <2>3. QED
    BY <2>2, <1>4, <1>6 DEF OnDisk
<1>12. root' \in BOOLEAN
  BY <1>1 DEF IInv, TypeOK
<1>13. QED
  BY <1>1, <1>2, <1>4, <1>6, <1>7, <1>9, <1>10, <1>11, <1>12, SyncStep

LEMMA WorkInv ==
  ASSUME IInv, NEW s \in Slots, Work(s)
  PROVE  IInv'
<1>1. UNCHANGED <<screenVars, promptVars, editVars, endVars>>
  BY DEF Work
<1>2. CASE Calls(s) \/ LoadFails(s) \/ Collects(s) \/ Saves(s) \/ Scaffolds(s)
  BY <1>1, <1>2, CallsInv, CollectsInv, SavesInv, ScaffoldsInv
<1>3. CASE SyncChecks(s) \/ SyncWritesRoot(s) \/ SyncCompletes(s) \/ SyncFails(s)
  BY <1>1, <1>3, SyncChecksInv, SyncWritesRootInv, SyncEndsInv
<1>4. CASE \E a \in Apps : Reads(s, a) \/ SyncWrites(s, a)
  BY <1>1, <1>4, ReadsInv, SyncWritesInv
<1>5. QED
  BY <1>2, <1>3, <1>4 DEF Work

-----------------------------------------------------------------------------
(* Results and keys.                                                       *)

\* A step of the update loop that leaves imports and the loaded manifests alone.
LEMMA QuietStep ==
  ASSUME IInv, UNCHANGED fileVars, start' = start, consent => consent',
         consent' \in BOOLEAN, quit' \in {"no", "asked", "unasked"},
         commands' \in [Slots -> Commands \cup {None}], CommandsOK',
         \A t \in Slots : IsSync(t)' => IsSync(t) /\ commands'[t] = commands[t],
         start = "browse" => \A t \in Slots : Loads(t)' => Loads(t),
         syncing' = syncing, index' = index,
         menu' \in BOOLEAN, menu' => menu, resolved' \in BOOLEAN, configured' \in BOOLEAN,
         cursor' \in Nodes \cup {None}, drift' \in Apps \cup {None},
         editing' \in [app : Apps, var : Vars] \cup {None},
         \/ confirm' = confirm \/ confirm' = None
         \/ /\ confirm' \in Commands /\ confirm'.kind \in {"quit", "lifecycle"}
            /\ \A n \in Apps : confirm'.found[n] = Absent,
         staged' \in [Apps -> Edits],
         \/ pane' = pane /\ staged' = staged
         \/ pane' = Refreshed(staged')
         \/ staged' = staged /\ \E n \in Nodes \cup {None}, r \in BOOLEAN : pane' = Detail(n, r)
         \/ pane' \in Panes /\ ~HasRows'
  PROVE  IInv'
<1>1. Grows /\ \A n \in Apps : OnDisk(n)' <=> OnDisk(n)
  BY DEF Grows, fileVars, OnDisk
<1>2. /\ pane' \in Panes /\ RowsOK'
      /\ HasRows' => pane'.kind = "detail" /\ pane'.node \in Apps
  BY RowsKept
<1>3. confirm' \in Commands \cup {None}
  BY DEF IInv, TypeOK
<1>4. TypeOK'
  BY <1>2, <1>3 DEF IInv, TypeOK, fileVars
<1>5. Prompting' => Prompting
  BY DEF Prompting
<1>6. /\ confirm' # None =>
           /\ confirm'.kind \in {"sync", "quit", "lifecycle"}
           /\ confirm'.kind = "sync" => confirm' = ForcedSync
           /\ \A n \in Apps : confirm'.found[n] = Absent
  BY DEF IInv, ScreenOK
<1>7. start' = "browse" => ~menu' /\ ~Prompting'
  BY <1>5 DEF IInv, ScreenOK
<1>8. \A n \in Apps : index'[n] # Absent => OnDisk(n)'
  BY <1>1 DEF IInv, ScreenOK
<1>9. ScreenOK'
  BY <1>2, <1>6, <1>7, <1>8 DEF ScreenOK
<1>10. SyncsOK'
  BY <1>1, <1>5, SyncsKept
<1>11. QED
  BY <1>2, <1>4, <1>9, <1>10 DEF IInv

LEMMA ScreenFacts ==
  ASSUME IInv
  PROVE  /\ menu \in BOOLEAN /\ resolved \in BOOLEAN /\ configured \in BOOLEAN
         /\ syncing \in BOOLEAN
         /\ cursor \in Nodes \cup {None} /\ drift \in Apps \cup {None}
         /\ editing \in [app : Apps, var : Vars] \cup {None}
         /\ staged \in [Apps -> Edits] /\ pane \in Panes
         /\ consent \in BOOLEAN /\ quit \in {"no", "asked", "unasked"}
         /\ confirm \in Commands \cup {None}
BY DEF IInv, TypeOK

\* What a consumed result leaves: nothing, or the load of the manifests.
LEMMA ThenFacts ==
  ASSUME IInv, UNCHANGED <<fileVars, endVars>>, NEW s \in Slots, Flying(s),
         NEW c, Then(s, c), c = None \/ \E path \in BOOLEAN : c = LoadDesired(path)
  PROVE  /\ commands' \in [Slots -> Commands \cup {None}] /\ CommandsOK'
         /\ \A t \in Slots : commands'[t] = IF t = s THEN c ELSE commands[t]
         /\ \A t \in Slots : IsSync(t)' => IsSync(t) /\ commands'[t] = commands[t]
         /\ c = None => \A t \in Slots : Loads(t)' => Loads(t)
<1>1. c # None => c \in Commands /\ c.kind = "desired" /\ c.found = NoManifests
  BY SpecialCommands
<1>2. c # None => CommandOK(c)'
  BY <1>1 DEF CommandOK, NoManifests
<1>3. Grows
  BY SameFiles
<1>4. commands' = [commands EXCEPT ![s] = c]
  BY DEF Then
<1>5. c \in Commands \cup {None}
  BY <1>1
<1>6. /\ commands' \in [Slots -> Commands \cup {None}] /\ CommandsOK'
      /\ \A t \in Slots : commands'[t] = IF t = s THEN c ELSE commands[t]
  BY <1>2, <1>3, <1>4, <1>5, OneSlot
<1>7. QED
  BY <1>1, <1>6 DEF IsSync, Loads, Flying

LEMMA Placeholders ==
  /\ Closed \in Panes /\ Closed.rows = Absent
  /\ \A n \in Nodes \cup {None} : Loading(n) \in Panes /\ Loading(n).rows = Absent
BY DEF Closed, Loading, Panes

LEMMA ShowsErrorInv ==
  ASSUME IInv, UNCHANGED <<fileVars, endVars>>, NEW s \in Slots, Flying(s), ShowsError(s)
  PROVE  IInv'
<1>1. /\ commands' \in [Slots -> Commands \cup {None}] /\ CommandsOK'
      /\ \A t \in Slots : IsSync(t)' => IsSync(t) /\ commands'[t] = commands[t]
      /\ \A t \in Slots : Loads(t)' => Loads(t)
  BY ThenFacts DEF ShowsError
<1>2. pane' = pane \/ (pane' \in Panes /\ ~HasRows')
  BY Placeholders DEF ShowsError, ClearLoading, HasRows
<1>3. /\ menu' = menu /\ syncing' = syncing /\ resolved' = resolved /\ cursor' = cursor
      /\ configured' = configured /\ drift' = drift /\ confirm' = confirm
      /\ editing' = editing /\ staged' = staged /\ index' = index
      /\ start' = start /\ consent' = consent /\ quit' = quit
  BY DEF ShowsError, promptVars, editVars, endVars
<1>4. QED
  BY <1>1, <1>2, <1>3, ScreenFacts, QuietStep

LEMMA ResultFlying ==
  ASSUME NEW s \in Slots, NEW k \in CommandKinds, Result(s, k)
  PROVE  Flying(s) /\ commands[s].kind = k /\ commands[s].at \in Finished
BY DEF Result, Running, Flying

LEMMA ResolvedMsgInv ==
  ASSUME IInv, UNCHANGED <<fileVars, endVars>>, NEW s \in Slots, ResolvedMsg(s)
  PROVE  IInv'
<1>1. Flying(s) /\ commands[s].kind = "resolve"
  BY ResultFlying DEF ResolvedMsg, CommandKinds
<1>2. CASE ~Good(s)
  BY <1>1, <1>2, ShowsErrorInv DEF ResolvedMsg
<1>3. CASE Good(s)
  <2>1. /\ menu' = menu /\ syncing' = syncing /\ resolved' = TRUE /\ cursor' = cursor
        /\ configured' = configured /\ drift' = drift /\ confirm' = confirm
        /\ editing' = editing /\ staged' = staged /\ index' = index /\ pane' = pane
        /\ start' = start /\ consent' = consent /\ quit' = quit
        /\ Then(s, LoadDesired(configured))
    BY <1>3 DEF ResolvedMsg, promptVars, editVars, endVars
  <2>2. /\ commands' \in [Slots -> Commands \cup {None}] /\ CommandsOK'
        /\ \A t \in Slots : IsSync(t)' => IsSync(t) /\ commands'[t] = commands[t]
        /\ \A t \in Slots : commands'[t] = IF t = s THEN LoadDesired(configured) ELSE commands[t]
    BY <1>1, <2>1, ScreenFacts, ThenFacts
  <2>3. \A t \in Slots : Loads(t)' => Loads(t)
    BY <1>1, <2>2 DEF Loads, Flying
  <2>4. QED
    BY <2>1, <2>2, <2>3, ScreenFacts, QuietStep
<1>4. QED
  BY <1>2, <1>3

LEMMA DetailMsgInv ==
  ASSUME IInv, UNCHANGED <<fileVars, endVars>>, NEW s \in Slots, DetailMsg(s)
  PROVE  IInv'
<1>1. Flying(s) /\ commands[s].kind = "detail"
  BY ResultFlying DEF DetailMsg, CommandKinds
<1>2. CASE ~Good(s)
  BY <1>1, <1>2, ShowsErrorInv DEF DetailMsg
<1>3. CASE Good(s)
  <2>1. /\ menu' = menu /\ syncing' = syncing /\ resolved' = resolved /\ cursor' = cursor
        /\ configured' = configured /\ drift' = drift /\ confirm' = confirm
        /\ editing' = editing /\ staged' = staged /\ index' = index
        /\ pane' = Detail(commands[s].about, commands[s].at = "ok")
        /\ start' = start /\ consent' = consent /\ quit' = quit
        /\ Then(s, None)
    BY <1>3 DEF DetailMsg, promptVars, editVars, endVars
  <2>2. /\ commands' \in [Slots -> Commands \cup {None}] /\ CommandsOK'
        /\ \A t \in Slots : IsSync(t)' => IsSync(t) /\ commands'[t] = commands[t]
        /\ \A t \in Slots : Loads(t)' => Loads(t)
    BY <1>1, <2>1, ThenFacts
  <2>3. commands[s].about \in Nodes \cup {None}
    BY <1>1, FlyingFacts DEF Commands
  <2>4. \E n \in Nodes \cup {None}, r \in BOOLEAN : pane' = Detail(n, r)
    BY <2>1, <2>3
  <2>5. QED
    BY <2>1, <2>2, <2>4, ScreenFacts, QuietStep
<1>4. QED
  BY <1>2, <1>3

LEMMA SavedMsgInv ==
  ASSUME IInv, UNCHANGED <<fileVars, endVars>>, NEW s \in Slots, SavedMsg(s)
  PROVE  IInv'
<1>1. Flying(s) /\ commands[s].kind = "save"
  BY ResultFlying DEF SavedMsg, CommandKinds
<1>2. /\ menu' = menu /\ syncing' = syncing /\ resolved' = resolved /\ cursor' = cursor
      /\ configured' = configured /\ drift' = drift /\ confirm' = confirm
      /\ editing' = editing /\ index' = index
      /\ start' = start /\ consent' = consent /\ quit' = quit
      /\ Then(s, None)
  BY DEF SavedMsg, promptVars, endVars
<1>3. /\ commands' \in [Slots -> Commands \cup {None}] /\ CommandsOK'
      /\ \A t \in Slots : IsSync(t)' => IsSync(t) /\ commands'[t] = commands[t]
      /\ \A t \in Slots : Loads(t)' => Loads(t)
  BY <1>1, <1>2, ThenFacts
<1>4. staged' \in [Apps -> Edits]
  BY ScreenFacts, NoEditsType DEF SavedMsg
<1>5. (pane' = pane /\ staged' = staged) \/ pane' = Refreshed(staged')
  BY DEF SavedMsg
<1>6. QED
  BY <1>2, <1>3, <1>4, <1>5, ScreenFacts, QuietStep

LEMMA DriftMsgInv ==
  ASSUME IInv, UNCHANGED <<fileVars, endVars>>, NEW s \in Slots, DriftMsg(s)
  PROVE  IInv'
<1>1. Flying(s) /\ commands[s].kind = "drift"
  BY ResultFlying DEF DriftMsg, CommandKinds
<1>2. CASE ~Good(s)
  BY <1>1, <1>2, ShowsErrorInv DEF DriftMsg
<1>3. CASE Good(s)
  <2>1. /\ menu' = menu /\ syncing' = syncing /\ resolved' = resolved /\ cursor' = cursor
        /\ configured' = configured /\ drift' = commands[s].about /\ confirm' = confirm
        /\ editing' = editing /\ staged' = staged /\ index' = index /\ pane' = pane
        /\ start' = start /\ consent' = consent /\ quit' = quit
        /\ Then(s, None)
    BY <1>3 DEF DriftMsg, promptVars, editVars, endVars
  <2>2. /\ commands' \in [Slots -> Commands \cup {None}] /\ CommandsOK'
        /\ \A t \in Slots : IsSync(t)' => IsSync(t) /\ commands'[t] = commands[t]
        /\ \A t \in Slots : Loads(t)' => Loads(t)
    BY <1>1, <2>1, ThenFacts
  <2>3. commands[s].about \in Apps
    BY <1>1, FlyingFacts DEF CommandOK
  <2>4. QED
    BY <2>1, <2>2, <2>3, ScreenFacts, QuietStep
<1>4. QED
  BY <1>2, <1>3

LEMMA MutationDoneMsgInv ==
  ASSUME IInv, UNCHANGED <<fileVars, endVars>>, NEW s \in Slots, MutationDoneMsg(s)
  PROVE  IInv'
<1>1. Flying(s)
  BY ResultFlying DEF MutationDoneMsg, CommandKinds
<1>2. /\ menu' = menu /\ syncing' = syncing /\ resolved' = resolved /\ cursor' = cursor
      /\ configured' = configured /\ drift' = drift /\ confirm' = confirm
      /\ editing' = editing /\ staged' = staged /\ index' = index /\ pane' = pane
      /\ start' = start /\ consent' = consent /\ quit' = quit
      /\ Then(s, None)
  BY DEF MutationDoneMsg, screenVars, promptVars, editVars, endVars
<1>3. /\ commands' \in [Slots -> Commands \cup {None}] /\ CommandsOK'
      /\ \A t \in Slots : IsSync(t)' => IsSync(t) /\ commands'[t] = commands[t]
      /\ \A t \in Slots : Loads(t)' => Loads(t)
  BY <1>1, <1>2, ThenFacts
<1>4. QED
  BY <1>2, <1>3, ScreenFacts, QuietStep

\* The manifests are loaded: from now on there may be rows.
LEMMA DesiredLoadedMsgInv ==
  ASSUME IInv, UNCHANGED <<fileVars, endVars>>, NEW s \in Slots, DesiredLoadedMsg(s)
  PROVE  IInv'
<1>1. Flying(s) /\ commands[s].kind = "desired" /\ Loads(s)
  BY ResultFlying DEF DesiredLoadedMsg, CommandKinds, Loads
<1>2. Then(s, None) /\ UNCHANGED <<screenVars, promptVars, staged>>
  BY DEF DesiredLoadedMsg
<1>3. /\ commands' \in [Slots -> Commands \cup {None}] /\ CommandsOK'
      /\ \A t \in Slots : IsSync(t)' => IsSync(t) /\ commands'[t] = commands[t]
      /\ \A t \in Slots : commands'[t] = IF t = s THEN None ELSE commands[t]
  BY <1>1, <1>2, ThenFacts
<1>4. Grows /\ \A n \in Apps : OnDisk(n)' <=> OnDisk(n)
  BY DEF Grows, fileVars, endVars, OnDisk
<1>5. /\ index' \in [Apps -> Manifests \cup {Absent}]
      /\ \A n \in Apps : index'[n] # Absent => OnDisk(n)
  <2>1. commands[s] \in Commands /\ CommandOK(commands[s])
    BY <1>1, FlyingFacts
  <2>2. commands[s].found \in [Apps -> Manifests \cup {Absent}]
    BY <2>1 DEF Commands
  <2>3. index' = index \/ index' = commands[s].found
    BY DEF DesiredLoadedMsg
  <2>4. QED
    BY <2>1, <2>2, <2>3 DEF CommandOK, IInv, TypeOK, ScreenOK
<1>6. TypeOK'
  BY <1>2, <1>3, <1>5 DEF IInv, TypeOK, fileVars, endVars, screenVars, promptVars
<1>7. ScreenOK'
  BY <1>2, <1>4, <1>5 DEF IInv, ScreenOK, HasRows, Prompting, screenVars, promptVars, endVars
<1>8. RowsOK'
  <2>1. SUFFICES ASSUME start' = "browse" PROVE RowsOK'
    BY DEF RowsOK
  <2>2. start = "browse" /\ ~HasRows /\ \A t \in Slots : Loads(t) => t = s
    BY <1>1, <2>1 DEF endVars, IInv, RowsOK
  <2>3. \A t \in Slots : ~Loads(t)'
    BY <2>2, <1>3 DEF Loads, Flying
  <2>4. ~HasRows'
    BY <1>2, <2>2 DEF HasRows, screenVars
  <2>5. QED
    BY <2>3, <2>4 DEF RowsOK
<1>9. syncing' = syncing /\ (Prompting' => Prompting)
  BY <1>2 DEF screenVars, promptVars, Prompting
<1>10. SyncsOK'
  BY <1>3, <1>4, <1>9, SyncsKept
<1>11. QED
  BY <1>3, <1>6, <1>7, <1>8, <1>10 DEF IInv

\* Only on the menu are there imports and inits.
LEMMA MenuOnly ==
  ASSUME IInv, NEW s \in Slots, Flying(s), commands[s].kind \in {"sync", "init"}
  PROVE  start # "browse"
BY FlyingFacts DEF CommandOK

LEMMA InitDoneMsgInv ==
  ASSUME IInv, UNCHANGED <<fileVars, endVars>>, NEW s \in Slots, InitDoneMsg(s)
  PROVE  IInv'
<1>1. Flying(s) /\ commands[s].kind = "init"
  BY ResultFlying DEF InitDoneMsg, CommandKinds
<1>2. start # "browse"
  BY <1>1, MenuOnly
<1>3. /\ syncing' = syncing /\ resolved' = resolved /\ cursor' = cursor
      /\ drift' = drift /\ confirm' = confirm
      /\ editing' = editing /\ staged' = staged /\ index' = index /\ pane' = pane
      /\ start' = start /\ consent' = consent /\ quit' = quit
  BY DEF InitDoneMsg, promptVars, editVars, endVars
<1>4. \/ menu' = FALSE /\ configured' = TRUE /\ Then(s, LoadDesired(TRUE))
      \/ menu' = menu /\ configured' = configured /\ Then(s, None)
  BY DEF InitDoneMsg, LeaveMenu
<1>5. /\ commands' \in [Slots -> Commands \cup {None}] /\ CommandsOK'
      /\ \A t \in Slots : IsSync(t)' => IsSync(t) /\ commands'[t] = commands[t]
  BY <1>1, <1>4, ThenFacts
<1>6. menu' \in BOOLEAN /\ configured' \in BOOLEAN /\ (menu' => menu)
  <2>1. CASE menu' = FALSE /\ configured' = TRUE
    BY <2>1
  <2>2. CASE menu' = menu /\ configured' = configured
    BY <2>2, ScreenFacts
  <2>3. QED
    BY <1>4, <2>1, <2>2
<1>7. QED
  BY <1>2, <1>3, <1>5, <1>6, ScreenFacts, QuietStep

\* The end of an import.  A conflict arms the prompt, but only when something is
\* in the way.
LEMMA SyncDoneMsgInv ==
  ASSUME IInv, UNCHANGED <<fileVars, endVars>>, NEW s \in Slots, SyncDoneMsg(s)
  PROVE  IInv'
<1>1. Flying(s) /\ commands[s].kind = "sync" /\ commands[s].at \in Finished /\ IsSync(s)
  BY ResultFlying DEF SyncDoneMsg, CommandKinds, IsSync
<1>2. start # "browse"
  BY <1>1, MenuOnly
<1>3. /\ syncing' = FALSE /\ resolved' = resolved /\ cursor' = cursor /\ drift' = drift
      /\ editing' = editing /\ staged' = staged /\ index' = index /\ pane' = pane
      /\ start' = start /\ consent' = consent /\ quit' = quit
      /\ disk' = disk /\ root' = root
      /\ confirm' = IF commands[s].at = "conflict" THEN ForcedSync ELSE confirm
  BY DEF SyncDoneMsg, editVars, endVars, fileVars
<1>4. \/ menu' = FALSE /\ configured' = TRUE /\ Then(s, LoadDesired(TRUE))
      \/ menu' = menu /\ configured' = configured /\ Then(s, None)
  BY DEF SyncDoneMsg, LeaveMenu
<1>5. PICK c \in {LoadDesired(TRUE), None} : Then(s, c)
  BY <1>4
<1>6. /\ commands' \in [Slots -> Commands \cup {None}] /\ CommandsOK'
      /\ \A t \in Slots : IsSync(t)' => IsSync(t) /\ commands'[t] = commands[t]
      /\ \A t \in Slots : commands'[t] = IF t = s THEN c ELSE commands[t]
  BY <1>1, <1>5, ThenFacts
<1>7. menu' \in BOOLEAN /\ configured' \in BOOLEAN
  <2>1. CASE menu' = FALSE /\ configured' = TRUE
    BY <2>1
  <2>2. CASE menu' = menu /\ configured' = configured
    BY <2>2, ScreenFacts
  <2>3. QED
    BY <1>4, <2>1, <2>2
<1>8. confirm' \in Commands \cup {None}
  BY <1>3, ScreenFacts, SpecialCommands
<1>9. TypeOK'
  BY <1>3, <1>6, <1>7, <1>8 DEF IInv, TypeOK
<1>10. ScreenOK'
  <2>1. confirm' # None =>
          /\ confirm'.kind \in {"sync", "quit", "lifecycle"}
          /\ confirm'.kind = "sync" => confirm' = ForcedSync
          /\ \A n \in Apps : confirm'.found[n] = Absent
    BY <1>3, SpecialCommands DEF IInv, ScreenOK, NoManifests
  <2>2. HasRows' => pane'.kind = "detail" /\ pane'.node \in Apps
    BY <1>3 DEF IInv, ScreenOK, HasRows
  <2>3. \A n \in Apps : index'[n] # Absent => OnDisk(n)'
    BY <1>3 DEF IInv, ScreenOK, OnDisk
  <2>4. start' # "browse"
    BY <1>2, <1>3
  <2>5. QED
    BY <2>1, <2>2, <2>3, <2>4 DEF ScreenOK
<1>11. RowsOK'
  BY <1>2, <1>3 DEF RowsOK
<1>12. \A t \in Slots : IsSync(t)' => t # s
  <2>1. c # None => c.kind = "desired"
    BY SpecialCommands
  <2>2. QED
    BY <1>6, <2>1 DEF IsSync, Flying
<1>13. SyncsOK'
  <2>1. ASSUME ~Collides'
        PROVE  ~Prompting' /\ \A t \in Slots : ~IsSync(t)'
    <3>1. ~Collides
      BY <1>3, <2>1 DEF Collides
    <3>2. Alone(s) /\ commands[s].at # "conflict" /\ ~Prompting
      BY <1>1, <3>1 DEF IInv, SyncsOK
    <3>3. ~Prompting'
      BY <1>3, <3>2 DEF Prompting
    <3>4. QED
      BY <1>6, <1>12, <3>2, <3>3 DEF Alone
  <2>2. \A t \in Slots : ~Writing(t)'
    <3>1. SUFFICES ASSUME NEW t \in Slots, Writing(t)' PROVE FALSE
      OBVIOUS
    <3>2. IsSync(t) /\ commands'[t] = commands[t] /\ t # s
      BY <1>6, <1>12, <3>1 DEF Writing
    <3>3. Writing(t)
      BY <3>1, <3>2 DEF Writing
    <3>4. Alone(t)
      BY <3>3 DEF IInv, SyncsOK
    <3>5. QED
      BY <1>1, <3>2, <3>4 DEF Alone
  <2>3. QED
    BY <2>1, <2>2 DEF SyncsOK
<1>14. QED
  BY <1>6, <1>9, <1>10, <1>11, <1>13 DEF IInv

LEMMA DeliverInv ==
  ASSUME IInv, NEW s \in Slots, Deliver(s)
  PROVE  IInv'
<1>1. UNCHANGED <<fileVars, endVars>>
  BY DEF Deliver
<1>2. QED
  BY <1>1, ResolvedMsgInv, DesiredLoadedMsgInv, DetailMsgInv, SavedMsgInv, DriftMsgInv,
     MutationDoneMsgInv, SyncDoneMsgInv, InitDoneMsgInv DEF Deliver

\* A key that starts a command: c is in the first free slot.
LEMMA LaunchFacts ==
  ASSUME IInv, UNCHANGED fileVars, start' = start, consent => consent',
         NEW c \in Commands, CommandOK(c)', Launch(c)
  PROVE  \E s \in Slots :
           /\ commands[s] = None
           /\ commands' \in [Slots -> Commands \cup {None}] /\ CommandsOK'
           /\ \A t \in Slots : commands'[t] = IF t = s THEN c ELSE commands[t]
<1>1. Grows
  BY DEF Grows, fileVars, OnDisk
<1>2. PICK s \in Slots : commands[s] = None /\ commands' = [commands EXCEPT ![s] = c]
  BY DEF Launch, Free
<1>3. QED
  BY <1>1, <1>2, OneSlot

\* One that is neither an import nor a load.
LEMMA PlainLaunch ==
  ASSUME IInv, UNCHANGED fileVars, start' = start, consent => consent',
         NEW c \in Commands, CommandOK(c)', Launch(c),
         c.kind \notin {"sync", "resolve", "desired"}
  PROVE  /\ commands' \in [Slots -> Commands \cup {None}] /\ CommandsOK'
         /\ \A t \in Slots : IsSync(t)' => IsSync(t) /\ commands'[t] = commands[t]
         /\ \A t \in Slots : Loads(t)' => Loads(t)
<1>1. PICK s \in Slots :
        /\ commands' \in [Slots -> Commands \cup {None}] /\ CommandsOK'
        /\ \A t \in Slots : commands'[t] = IF t = s THEN c ELSE commands[t]
  BY LaunchFacts
<1>2. QED
  BY <1>1 DEF IsSync, Loads, Flying

\* A key that starts none.
LEMMA NoLaunch ==
  ASSUME IInv, UNCHANGED fileVars, start' = start, consent => consent', commands' = commands
  PROVE  /\ commands' \in [Slots -> Commands \cup {None}] /\ CommandsOK'
         /\ \A t \in Slots : IsSync(t)' => IsSync(t) /\ commands'[t] = commands[t]
         /\ \A t \in Slots : Loads(t)' => Loads(t)
<1>1. Grows
  BY DEF Grows, fileVars, OnDisk
<1>2. QED
  BY <1>1, NoSlot DEF IsSync, Loads, Flying

\* Keys that only change a prompt, an open edit, the cursor or how it ends.
LEMMA SmallKeysInv ==
  ASSUME IInv, No \/ Escape \/ MenuBrowse \/ MenuQuit \/ Quit \/ Lifecycle \/ Back
               \/ (\E v \in Vars : StartEdit(v)) \/ (\E n \in Nodes \cup {None} : Move(n))
  PROVE  IInv'
<1>1. /\ UNCHANGED fileVars /\ commands' = commands /\ start' = start
      /\ consent' = consent /\ staged' = staged /\ index' = index /\ syncing' = syncing
      /\ resolved' = resolved /\ configured' = configured
  BY DEF No, Escape, MenuBrowse, MenuQuit, Quit, Lifecycle, Back, StartEdit, Move,
         screenVars, promptVars, editVars, endVars
<1>2. /\ commands' \in [Slots -> Commands \cup {None}] /\ CommandsOK'
      /\ \A t \in Slots : IsSync(t)' => IsSync(t) /\ commands'[t] = commands[t]
      /\ \A t \in Slots : Loads(t)' => Loads(t)
  BY <1>1, NoLaunch
<1>3. quit' \in {"no", "asked", "unasked"}
  BY ScreenFacts DEF No, Escape, MenuBrowse, MenuQuit, Quit, Lifecycle, Back, StartEdit,
         Move, screenVars, promptVars, editVars, endVars
<1>4. menu' = menu \/ menu' = FALSE
  BY DEF No, Escape, MenuBrowse, MenuQuit, Quit, Lifecycle, Back, StartEdit, Move,
         screenVars
<1>5. menu' \in BOOLEAN /\ (menu' => menu)
  <2>1. CASE menu' = menu
    BY <2>1, ScreenFacts
  <2>2. CASE menu' = FALSE
    BY <2>2
  <2>3. QED
    BY <1>4, <2>1, <2>2
<1>6. cursor' \in Nodes \cup {None} /\ drift' \in Apps \cup {None}
  BY ScreenFacts DEF No, Escape, MenuBrowse, MenuQuit, Quit, Lifecycle, Back, StartEdit,
         Move, screenVars
<1>7. pane' = pane \/ (pane' \in Panes /\ ~HasRows')
  BY Placeholders DEF No, Escape, MenuBrowse, MenuQuit, Quit, Lifecycle, Back, StartEdit,
         Move, screenVars, HasRows
<1>8. editing' \in [app : Apps, var : Vars] \cup {None}
  <2>1. ASSUME NEW v \in Vars, StartEdit(v)
        PROVE  editing' \in [app : Apps, var : Vars]
    BY <2>1 DEF StartEdit, IInv, ScreenOK
  <2>2. CASE ~\E v \in Vars : StartEdit(v)
    BY <2>2, ScreenFacts DEF No, Escape, MenuBrowse, MenuQuit, Quit, Lifecycle, Back, Move,
           promptVars
  <2>3. QED
    BY <2>1, <2>2
<1>9. \/ confirm' = confirm \/ confirm' = None
      \/ /\ confirm' \in Commands /\ confirm'.kind \in {"quit", "lifecycle"}
         /\ \A n \in Apps : confirm'.found[n] = Absent
  <2>1. CASE Quit
    <3>1. QuitCommand.found = NoManifests
      BY DEF QuitCommand, Command
    <3>2. QED
      BY <2>1, <3>1, SpecialCommands DEF Quit, NoManifests
  <2>2. CASE Lifecycle
    <3>1. PICK n \in Nodes \cup {None} : confirm' = Command("lifecycle", n)
      BY <2>2 DEF Lifecycle, Nodes
    <3>2. "lifecycle" \in CommandKinds
      BY DEF CommandKinds
    <3> DEFINE lifecycle == Command("lifecycle", n)
    <3>0. lifecycle \in Commands /\ lifecycle.kind = "lifecycle" /\ lifecycle.found = NoManifests
      BY <3>2, CommandFacts
    <3>3. PICK c \in Commands : /\ c = lifecycle
                                /\ c.kind = "lifecycle" /\ c.found = NoManifests
      BY <3>0
    <3>4. confirm' = c
      BY <3>1, <3>3
    <3>5. \A a \in Apps : c.found[a] = Absent
      BY <3>3 DEF NoManifests
    <3>6. QED
      BY <3>3, <3>4, <3>5
  <2>3. CASE ~Quit /\ ~Lifecycle
    BY <2>3 DEF No, Escape, MenuBrowse, MenuQuit, Back, StartEdit, Move, promptVars
  <2>4. QED
    BY <2>1, <2>2, <2>3
<1>10. QED
  BY <1>1, <1>2, <1>3, <1>5, <1>6, <1>7, <1>8, <1>9, ScreenFacts, QuietStep

LEMMA EnterInv ==
  ASSUME IInv, NEW x \in Typed, Enter(x)
  PROVE  IInv'
<1>1. /\ UNCHANGED fileVars /\ commands' = commands /\ start' = start /\ quit' = quit
      /\ consent' = consent /\ index' = index /\ syncing' = syncing /\ menu' = menu
      /\ resolved' = resolved /\ configured' = configured /\ cursor' = cursor
      /\ drift' = drift /\ confirm' = confirm /\ editing' = None
      /\ pane' = Refreshed(staged')
  BY DEF Enter, endVars
<1>2. /\ commands' \in [Slots -> Commands \cup {None}] /\ CommandsOK'
      /\ \A t \in Slots : IsSync(t)' => IsSync(t) /\ commands'[t] = commands[t]
      /\ \A t \in Slots : Loads(t)' => Loads(t)
  BY <1>1, NoLaunch
<1>3. editing \in [app : Apps, var : Vars]
  BY ScreenFacts DEF Enter, AtEdit
<1>4. PICK e \in Edits : e = staged[editing.app]
  BY <1>3, ScreenFacts
<1>5. DOMAIN e \subseteq Vars /\ \A v \in DOMAIN e : e[v] \in Values
  BY EditsFacts
<1>6. PICK f : f = [v \in DOMAIN e \cup {editing.var} |-> IF v = editing.var THEN x ELSE e[v]]
  OBVIOUS
<1>7. f \in [DOMAIN e \cup {editing.var} -> Values]
  BY <1>3, <1>5, <1>6, FilesType
<1>8. DOMAIN e \cup {editing.var} \in SUBSET Vars
  BY <1>3, <1>5
<1>9. f \in Edits
  BY <1>7, <1>8 DEF Edits
<1>10. staged' = [staged EXCEPT ![editing.app] = f]
  BY <1>3, <1>4, <1>6, ScreenFacts DEF Enter, Stage
<1>11. staged' \in [Apps -> Edits]
  BY <1>9, <1>10, ScreenFacts
<1>12. QED
  BY <1>1, <1>2, <1>11, ScreenFacts, QuietStep

LEMMA DiscardInv ==
  ASSUME IInv, Discard
  PROVE  IInv'
<1>1. /\ UNCHANGED fileVars /\ commands' = commands /\ start' = start /\ quit' = quit
      /\ consent' = consent /\ index' = index /\ syncing' = syncing /\ menu' = menu
      /\ resolved' = resolved /\ configured' = configured /\ cursor' = cursor
      /\ drift' = drift /\ confirm' = confirm /\ editing' = editing
      /\ pane' = Refreshed(staged')
  BY DEF Discard, endVars, promptVars
<1>2. /\ commands' \in [Slots -> Commands \cup {None}] /\ CommandsOK'
      /\ \A t \in Slots : IsSync(t)' => IsSync(t) /\ commands'[t] = commands[t]
      /\ \A t \in Slots : Loads(t)' => Loads(t)
  BY <1>1, NoLaunch
<1>3. staged' \in [Apps -> Edits]
  BY ScreenFacts, NoEditsType DEF Discard
<1>4. QED
  BY <1>1, <1>2, <1>3, ScreenFacts, QuietStep

\* What a save carries is a manifest, and there is one to replace.
LEMMA SaveInv ==
  ASSUME IInv, Save
  PROVE  IInv'
<1>1. /\ UNCHANGED fileVars /\ start' = start /\ quit' = quit
      /\ consent' = consent /\ index' = index /\ syncing' = syncing /\ menu' = menu
      /\ resolved' = resolved /\ configured' = configured /\ cursor' = cursor
      /\ drift' = drift /\ confirm' = confirm /\ editing' = editing
      /\ pane' = pane /\ staged' = staged
  BY DEF Save, endVars, promptVars, screenVars, editVars
<1>2. PICK n \in Apps : n = pane.node /\ index[n] # Absent
  BY DEF Save, IInv, ScreenOK
<1>3. index[n] \in Manifests /\ staged[n] \in Edits /\ OnDisk(n)
  BY <1>2 DEF IInv, TypeOK, ScreenOK
<1>4. PICK m \in Manifests : m = Overlay(index[n], staged[n])
  BY <1>3, OverlayType
<1>5. "save" \in CommandKinds /\ n \in Nodes \cup {None}
  BY DEF CommandKinds, Nodes
<1>6. PICK d \in Commands : /\ d = Command("save", n)
                            /\ d.kind = "save" /\ d.about = n /\ d.at = "begun"
                            /\ d.found = NoManifests
  BY <1>5, CommandFacts
<1>7. PICK c \in Commands : c = [d EXCEPT !.doc = m]
  BY DEF Commands
<1>8. /\ c.kind = "save" /\ c.about = n /\ c.at = "begun" /\ c.doc = m
      /\ c.found = NoManifests
  BY <1>6, <1>7 DEF Commands
<1>9. OnDisk(n)'
  BY <1>1, <1>3 DEF fileVars, OnDisk
<1>10. CommandOK(c)'
  BY <1>8, <1>9 DEF CommandOK, NoManifests
<1>11. Launch(c)
  BY <1>2, <1>4, <1>6, <1>7 DEF Save
<1>12. /\ commands' \in [Slots -> Commands \cup {None}] /\ CommandsOK'
       /\ \A t \in Slots : IsSync(t)' => IsSync(t) /\ commands'[t] = commands[t]
       /\ \A t \in Slots : Loads(t)' => Loads(t)
  BY <1>1, <1>8, <1>10, <1>11, PlainLaunch
<1>13. QED
  BY <1>1, <1>12, ScreenFacts, QuietStep

\* Commands about nothing that is on disk.
LEMMA PlainCommand ==
  ASSUME NEW k \in CommandKinds, NEW n \in Nodes \cup {None},
         k \notin {"save", "sync"}, k = "drift" => n \in Apps,
         start' = "browse" => k # "init"
  PROVE  \E c \in Commands : c = Command(k, n) /\ c.kind = k /\ CommandOK(c)'
<1>0. /\ Command(k, n) \in Commands /\ Command(k, n).kind = k /\ Command(k, n).about = n
      /\ Command(k, n).found = NoManifests
  BY CommandFacts
<1>1. PICK c \in Commands : c = Command(k, n) /\ c.kind = k /\ c.about = n
                            /\ c.found = NoManifests
  BY <1>0
<1>2. CommandOK(c)'
  BY <1>1 DEF CommandOK, NoManifests
<1>3. QED
  BY <1>1, <1>2

LEMMA LaunchingKeysInv ==
  ASSUME IInv, MenuInit \/ ToggleDrift \/ Open
  PROVE  IInv'
<1>1. /\ UNCHANGED fileVars /\ start' = start /\ quit' = quit
      /\ consent' = consent /\ index' = index /\ syncing' = syncing /\ menu' = menu
      /\ resolved' = resolved /\ configured' = configured /\ cursor' = cursor
      /\ confirm' = confirm /\ editing' = editing /\ staged' = staged
  BY DEF MenuInit, ToggleDrift, Open, endVars, promptVars, screenVars, editVars
<1>2. drift' = drift \/ drift' = None
  BY DEF MenuInit, ToggleDrift, Open, screenVars
<1>3. pane' = pane \/ (pane' \in Panes /\ ~HasRows')
  BY Placeholders, ScreenFacts DEF MenuInit, ToggleDrift, Open, screenVars, HasRows
<1>4. \/ commands' = commands
      \/ \E c \in Commands : /\ Launch(c) /\ CommandOK(c)'
                             /\ c.kind \in {"init", "drift", "detail"}
  <2>1. ASSUME MenuInit PROVE <1>4!2
    <3>1. start' # "browse"
      BY <1>1, <2>1 DEF MenuInit, AtMenu, IInv, ScreenOK
    <3>2. PICK c \in Commands : c = Command("init", None) /\ c.kind = "init" /\ CommandOK(c)'
      BY <3>1, PlainCommand DEF CommandKinds
    <3>3. QED
      BY <2>1, <3>2 DEF MenuInit
  <2>2. ASSUME ToggleDrift, commands' # commands PROVE <1>4!2
    <3>1. cursor \in Apps /\ Launch(Command("drift", cursor))
      BY <2>2 DEF ToggleDrift
    <3>2. PICK c \in Commands : c = Command("drift", cursor) /\ c.kind = "drift" /\ CommandOK(c)'
      BY <3>1, PlainCommand DEF CommandKinds, Nodes
    <3>3. QED
      BY <3>1, <3>2
  <2>3. ASSUME Open PROVE <1>4!2
    <3>1. Launch(Command("detail", cursor)) /\ cursor \in Nodes \cup {None}
      BY <2>3, ScreenFacts DEF Open
    <3>2. PICK c \in Commands : c = Command("detail", cursor) /\ c.kind = "detail" /\ CommandOK(c)'
      BY <3>1, PlainCommand DEF CommandKinds
    <3>3. QED
      BY <3>1, <3>2
  <2>4. QED
    BY <2>1, <2>2, <2>3
<1>5. /\ commands' \in [Slots -> Commands \cup {None}] /\ CommandsOK'
      /\ \A t \in Slots : IsSync(t)' => IsSync(t) /\ commands'[t] = commands[t]
      /\ \A t \in Slots : Loads(t)' => Loads(t)
  <2>1. CASE commands' = commands
    BY <1>1, <2>1, NoLaunch
  <2>2. ASSUME NEW c \in Commands, Launch(c), CommandOK(c)', c.kind \in {"init", "drift", "detail"}
        PROVE  <1>5
    BY <1>1, <2>2, PlainLaunch
  <2>3. QED
    BY <1>4, <2>1, <2>2
<1>6. QED
  BY <1>1, <1>2, <1>3, <1>5, ScreenFacts, QuietStep

\* The first import: no other is in flight, since none sets syncing back before it
\* ends.
LEMMA MenuSyncInv ==
  ASSUME IInv, MenuSync
  PROVE  IInv'
<1>1. /\ UNCHANGED fileVars /\ start' = start /\ quit' = quit
      /\ consent' = consent /\ index' = index /\ syncing' = TRUE /\ ~syncing
      /\ menu' = menu /\ menu
      /\ resolved' = resolved /\ configured' = configured /\ cursor' = cursor
      /\ confirm' = confirm /\ confirm = None /\ editing' = editing /\ staged' = staged
      /\ pane' = pane /\ drift' = drift /\ Launch(Command("sync", None))
  BY DEF MenuSync, AtMenu, endVars, promptVars, editVars
<1>2. start # "browse"
  BY <1>1 DEF IInv, ScreenOK
<1>3. "sync" \in CommandKinds /\ None \in Nodes \cup {None}
  BY DEF CommandKinds
<1> DEFINE sync == Command("sync", None)
<1>0. /\ sync \in Commands /\ sync.kind = "sync" /\ sync.force = FALSE /\ sync.at = "begun"
      /\ sync.found = NoManifests
  BY <1>3, CommandFacts
<1>4. PICK c \in Commands : /\ c = sync /\ c.kind = "sync" /\ ~c.force
                            /\ c.at = "begun" /\ c.found = NoManifests
  BY <1>0
<1>5. CommandOK(c)'
  BY <1>1, <1>2, <1>4 DEF CommandOK, NoManifests
<1>6. PICK s \in Slots :
        /\ commands[s] = None
        /\ commands' \in [Slots -> Commands \cup {None}] /\ CommandsOK'
        /\ \A t \in Slots : commands'[t] = IF t = s THEN c ELSE commands[t]
  BY <1>1, <1>4, <1>5, LaunchFacts
<1>7. TypeOK'
  BY <1>1, <1>6 DEF IInv, TypeOK, fileVars
<1>8. ScreenOK'
  BY <1>1, <1>2 DEF IInv, ScreenOK, HasRows, OnDisk, fileVars
<1>9. RowsOK'
  BY <1>1, <1>2 DEF RowsOK
<1>10. \A t \in Slots : ~Writing(t)
  BY <1>1 DEF IInv, SyncsOK, Alone
<1>11. ~Prompting'
  BY <1>1 DEF Prompting
<1>12. ASSUME ~Collides'
       PROVE  \A t \in Slots : IsSync(t)' =>
                Alone(t)' /\ ~commands'[t].force /\ commands'[t].at # "conflict"
  <2>1. ~Collides
    BY <1>1, <1>12 DEF Collides, fileVars
  <2>2. \A t \in Slots : ~IsSync(t)
    BY <2>1, <1>1 DEF IInv, SyncsOK, Alone
  <2>3. \A t \in Slots : IsSync(t)' => t = s
    BY <2>2, <1>6 DEF IsSync, Flying
  <2>4. QED
    BY <2>3, <1>1, <1>4, <1>6, <1>11 DEF Alone
<1>13. \A t \in Slots : ~Writing(t)'
  BY <1>4, <1>6, <1>10 DEF Writing, IsSync, Flying
<1>14. QED
  BY <1>6, <1>7, <1>8, <1>9, <1>11, <1>12, <1>13 DEF IInv, SyncsOK

\* The prompt answered: an import that overwrites is prompted for only when there
\* is something to overwrite.
LEMMA YesInv ==
  ASSUME IInv, Yes
  PROVE  IInv'
<1>1. /\ UNCHANGED fileVars /\ start' = start
      /\ index' = index /\ syncing' = syncing /\ menu' = menu
      /\ resolved' = resolved /\ configured' = configured /\ cursor' = cursor
      /\ confirm' = None /\ confirm # None /\ editing' = editing /\ staged' = staged
      /\ pane' = pane /\ drift' = drift
  BY DEF Yes, AtPrompt, screenVars, editVars
<1>2. CASE confirm = QuitCommand
  <2>1. commands' = commands /\ consent' = consent /\ quit' = "asked"
    BY <1>2 DEF Yes
  <2>2. /\ commands' \in [Slots -> Commands \cup {None}] /\ CommandsOK'
        /\ \A t \in Slots : IsSync(t)' => IsSync(t) /\ commands'[t] = commands[t]
        /\ \A t \in Slots : Loads(t)' => Loads(t)
    BY <1>1, <2>1, NoLaunch
  <2>3. QED
    BY <1>1, <2>1, <2>2, ScreenFacts, QuietStep
<1>3. CASE confirm # QuitCommand
  <2>1. /\ Launch(confirm) /\ quit' = quit
        /\ consent' = (consent \/ confirm = ForcedSync)
    BY <1>3 DEF Yes
  <2>2. PICK c \in Commands : /\ c = confirm /\ c.kind \in {"sync", "quit", "lifecycle"}
                              /\ c.kind = "sync" => c = ForcedSync
                              /\ \A n \in Apps : c.found[n] = Absent
    BY <1>1, ScreenFacts DEF IInv, ScreenOK
  <2>3. consent' \in BOOLEAN /\ (consent => consent') /\ (c.kind = "sync" => consent')
    <3>1. consent \in BOOLEAN
      BY ScreenFacts
    <3>2. consent' \in BOOLEAN /\ (consent => consent')
      BY <2>1, <3>1
    <3>3. c.kind = "sync" => consent'
      BY <2>1, <2>2
    <3>4. QED
      BY <3>2, <3>3
  <2>4. c.kind = "sync" => start # "browse"
    BY <1>1, <2>2 DEF IInv, ScreenOK, Prompting
  <2>5. CommandOK(c)'
    BY <1>1, <2>2, <2>3, <2>4 DEF CommandOK
  <2>6. CASE c.kind # "sync"
    <3>1. /\ commands' \in [Slots -> Commands \cup {None}] /\ CommandsOK'
          /\ \A t \in Slots : IsSync(t)' => IsSync(t) /\ commands'[t] = commands[t]
          /\ \A t \in Slots : Loads(t)' => Loads(t)
      BY <1>1, <2>1, <2>2, <2>3, <2>5, <2>6, PlainLaunch
    <3>2. QED
      BY <1>1, <2>1, <2>3, <3>1, ScreenFacts, QuietStep
  <2>7. CASE c.kind = "sync"
    <3>1. start # "browse" /\ c.force /\ c.at = "begun" /\ Prompting
      BY <1>1, <2>2, <2>4, <2>7, SpecialCommands DEF Prompting
    <3>2. PICK s \in Slots :
            /\ commands[s] = None
            /\ commands' \in [Slots -> Commands \cup {None}] /\ CommandsOK'
            /\ \A t \in Slots : commands'[t] = IF t = s THEN c ELSE commands[t]
      BY <1>1, <2>1, <2>2, <2>3, <2>5, LaunchFacts
    <3>3. TypeOK'
      BY <1>1, <2>1, <2>3, <3>2 DEF IInv, TypeOK, fileVars
    <3>4. ScreenOK'
      BY <1>1, <3>1 DEF IInv, ScreenOK, HasRows, OnDisk, fileVars
    <3>5. RowsOK'
      BY <1>1, <3>1 DEF RowsOK
    <3>6. Collides
      BY <3>1 DEF IInv, SyncsOK
    <3>7. Collides'
      BY <1>1, <3>6 DEF Collides, fileVars
    <3>8. \A t \in Slots : ~Writing(t)
      BY <3>1 DEF IInv, SyncsOK, Alone
    <3>9. \A t \in Slots : ~Writing(t)'
      BY <3>1, <3>2, <3>8 DEF Writing, IsSync, Flying
    <3>10. QED
      BY <3>2, <3>3, <3>4, <3>5, <3>7, <3>9 DEF IInv, SyncsOK
  <2>8. QED
    BY <2>6, <2>7
<1>4. QED
  BY <1>2, <1>3

LEMMA KeyInv ==
  ASSUME IInv, Key
  PROVE  IInv'
<1>1. CASE Yes \/ MenuSync \/ Save \/ Discard \/ \E x \in Typed : Enter(x)
  BY <1>1, YesInv, MenuSyncInv, SaveInv, DiscardInv, EnterInv
<1>2. CASE MenuInit \/ ToggleDrift \/ Open
  BY <1>2, LaunchingKeysInv
<1>3. CASE No \/ Escape \/ MenuBrowse \/ MenuQuit \/ Quit \/ Lifecycle \/ Back
           \/ (\E v \in Vars : StartEdit(v)) \/ (\E n \in Nodes \cup {None} : Move(n))
  BY <1>3, SmallKeysInv
<1>4. QED
  BY <1>1, <1>2, <1>3 DEF Key

LEMMA NextInv ==
  ASSUME IInv, [Next]_vars
  PROVE  IInv'
<1>1. CASE Key
  BY <1>1, KeyInv
<1>2. CASE \E s \in Slots : Work(s) \/ Deliver(s)
  BY <1>2, WorkInv, DeliverInv
<1>3. CASE UNCHANGED vars
  <2>1. UNCHANGED fileVars /\ UNCHANGED <<screenVars, promptVars, editVars, endVars>>
        /\ commands' = commands
    BY <1>3 DEF vars
  <2>2. /\ menu' = menu /\ syncing' = syncing /\ resolved' = resolved /\ cursor' = cursor
        /\ configured' = configured /\ drift' = drift /\ confirm' = confirm
        /\ editing' = editing /\ staged' = staged /\ index' = index /\ pane' = pane
        /\ start' = start /\ consent' = consent /\ quit' = quit
    BY <2>1 DEF screenVars, promptVars, editVars, endVars
  <2>3. /\ commands' \in [Slots -> Commands \cup {None}] /\ CommandsOK'
        /\ \A t \in Slots : IsSync(t)' => IsSync(t) /\ commands'[t] = commands[t]
        /\ \A t \in Slots : Loads(t)' => Loads(t)
    BY <2>1, <2>2, NoLaunch
  <2>4. QED
    BY <2>1, <2>2, <2>3, ScreenFacts, QuietStep
<1>4. QED
  BY <1>1, <1>2, <1>3 DEF Next

\* The invariant holds in every state of a session: see IInv.
THEOREM Invariant == Spec => []IInv
<1>1. Init => IInv
  BY InitIInv
<1>2. IInv /\ [Next]_vars => IInv'
  BY NextInv
<1>3. QED
  BY <1>1, <1>2, PTL DEF Spec

-----------------------------------------------------------------------------
(* The theorems.                                                           *)

\* Every variable holds what it is meant to; no edit is open, and no save in
\* flight, without its application.
THEOREM TypeCorrect == Spec => []TypeOK
<1>1. IInv => TypeOK
  BY DEF IInv
<1>2. QED
  BY <1>1, Invariant, PTL

\* Only the key launches a save.
LEMMA SaveStep ==
  ASSUME IInv, [Next]_vars, start = "browse", NEW s \in Slots,
         commands[s] = None, commands'[s] # None, commands'[s].kind = "save"
  PROVE  commands'[s].about = pane.node /\ commands'[s].doc = pane.rows
<1>1. CASE \E t \in Slots : Work(t) \/ Deliver(t)
  <2>1. PICK t \in Slots : Work(t) \/ Deliver(t)
    BY <1>1
  <2>2. commands \in [Slots -> Commands \cup {None}]
    BY DEF IInv, TypeOK
  <2>3. CASE Work(t)
    <3>1. commands[t] # None
      BY <2>3 DEF Work, Calls, Collects, Reads, LoadFails, Saves, SyncChecks, SyncWritesRoot,
         SyncWrites, SyncCompletes, SyncFails, Scaffolds, Running
    <3>2. s # t => commands'[s] = commands[s]
      BY <2>2, <2>3 DEF Work, Calls, Collects, Reads, LoadFails, Saves, SyncChecks,
         SyncWritesRoot, SyncWrites, SyncCompletes, SyncFails, Scaffolds, Reach
    <3>3. QED
      BY <3>1, <3>2
  <2>4. CASE Deliver(t)
    <3>1. commands[t] # None
      BY <2>4 DEF Deliver, ResolvedMsg, DesiredLoadedMsg, DetailMsg, SavedMsg, DriftMsg,
         MutationDoneMsg, SyncDoneMsg, InitDoneMsg, Result, Running
    <3>2. s # t => commands'[s] = commands[s]
      BY <2>2, <2>4 DEF Deliver, ResolvedMsg, DesiredLoadedMsg, DetailMsg, SavedMsg, DriftMsg,
         MutationDoneMsg, SyncDoneMsg, InitDoneMsg, ShowsError, LeaveMenu, Then
    <3>3. QED
      BY <3>1, <3>2
  <2>5. QED
    BY <2>1, <2>3, <2>4
<1>2. CASE Save
  <2>1. commands \in [Slots -> Commands \cup {None}]
    BY DEF IInv, TypeOK
  <2>2. PICK n \in Apps : n = pane.node /\ index[n] \in Manifests /\ staged[n] \in Edits
    BY <1>2 DEF Save, IInv, ScreenOK, TypeOK
  <2>3. PICK m \in Manifests : m = Overlay(index[n], staged[n])
    BY <2>2, OverlayType
  <2>4. m = pane.rows
    BY <1>2, <2>2, <2>3 DEF Save, IInv, RowsOK
  <2>5. "save" \in CommandKinds /\ n \in Nodes \cup {None}
    BY DEF CommandKinds, Nodes
  <2>6. PICK d \in Commands : d = Command("save", n) /\ d.about = n
    BY <2>5, CommandFacts
  <2>7. Launch([d EXCEPT !.doc = m])
    BY <1>2, <2>2, <2>3, <2>6 DEF Save
  <2>8. commands'[s] = [d EXCEPT !.doc = m]
    BY <2>1, <2>7 DEF Launch, Free
  <2>9. QED
    BY <2>2, <2>4, <2>6, <2>8 DEF Commands
<1>3. CASE Yes
  <2>1. commands \in [Slots -> Commands \cup {None}]
    BY DEF IInv, TypeOK
  <2>2. Launch(confirm) /\ confirm # None
    BY <1>3 DEF Yes, AtPrompt
  <2>3. commands'[s] = confirm
    BY <2>1, <2>2 DEF Launch, Free
  <2>4. QED
    BY <2>2, <2>3 DEF IInv, ScreenOK
<1>4. CASE ToggleDrift \/ Open \/ MenuSync \/ MenuInit
  <2>1. commands \in [Slots -> Commands \cup {None}]
    BY DEF IInv, TypeOK
  <2>2. PICK k, n : k \in {"drift", "detail", "sync", "init"} /\ Launch(Command(k, n))
    BY <1>4 DEF ToggleDrift, Open, MenuSync, MenuInit
  <2>3. commands'[s] = Command(k, n)
    BY <2>1, <2>2 DEF Launch, Free
  <2>4. QED
    BY <2>2, <2>3 DEF Command
<1>5. CASE ~\E t \in Slots : Work(t) \/ Deliver(t)
  <2>1. commands' # commands
    OBVIOUS
  <2>2. QED
    BY <1>2, <1>3, <1>4, <1>5, <2>1 DEF Next, Key, vars, No, Escape, MenuBrowse, MenuQuit,
       Quit, Discard, Lifecycle, Back, Enter, StartEdit, Move
<1>6. QED
  BY <1>1, <1>5

\* In a session that starts in the browser, a save takes to the disk what the pane
\* showed, whatever finishes in whatever order (refreshDesired, startSave).
THEOREM PaneIsTruthful == Spec => SavesWhatIsShown
<1>1. IInv /\ [Next]_vars =>
        [\A s \in Slots :
           start = "browse" /\ commands[s] = None /\ commands'[s] # None
             /\ commands'[s].kind = "save"
           => commands'[s].about = pane.node /\ commands'[s].doc = pane.rows]_vars
  BY SaveStep
<1>2. QED
  BY <1>1, Invariant, PTL DEF Spec, SavesWhatIsShown

LEMMA EditsStep ==
  ASSUME IInv, [Next]_vars, NEW n \in Apps,
         ~(DOMAIN staged[n] \subseteq DOMAIN staged'[n])
  PROVE  (Discard /\ pane.node = n) \/ SaveDelivered(n)
<1>1. staged \in [Apps -> Edits]
  BY DEF IInv, TypeOK
<1>2. staged' # staged
  OBVIOUS
<1>3. CASE Key
  <2>1. CASE \E x \in Typed : Enter(x)
    <3>1. PICK x \in Typed : Enter(x)
      BY <2>1
    <3>2. editing \in [app : Apps, var : Vars]
      BY <3>1 DEF IInv, TypeOK, Enter, AtEdit
    <3>3. n # editing.app => staged'[n] = staged[n]
      BY <1>1, <3>1, <3>2 DEF Enter, Stage
    <3>4. n = editing.app => DOMAIN staged'[n] = DOMAIN staged[n] \cup {editing.var}
      BY <1>1, <3>1, <3>2 DEF Enter, Stage
    <3>5. QED
      BY <3>3, <3>4
  <2>2. CASE Discard
    BY <1>1, <1>2, <2>2 DEF Discard
  <2>3. CASE ~Discard /\ ~\E x \in Typed : Enter(x)
    BY <1>2, <1>3, <2>3 DEF Key, Yes, No, Escape, MenuSync, MenuInit, MenuBrowse, MenuQuit,
       Quit, Save, Lifecycle, ToggleDrift, Back, Open, StartEdit, Move, editVars
  <2>4. QED
    BY <2>1, <2>2, <2>3
<1>4. ASSUME NEW s \in Slots, Deliver(s)
      PROVE  SaveDelivered(n)
  <2>1. SavedMsg(s)
    BY <1>2, <1>4 DEF Deliver, ResolvedMsg, DesiredLoadedMsg, DetailMsg, DriftMsg,
       MutationDoneMsg, SyncDoneMsg, InitDoneMsg, ShowsError, editVars
  <2>2. Running(s, "save") /\ Flying(s) /\ commands[s].kind = "save" /\ Then(s, None)
    BY <2>1 DEF SavedMsg, Result, Running, Flying
  <2>3. Good(s) /\ staged' = [staged EXCEPT ![commands[s].about] = NoEdits]
    BY <1>2, <2>1 DEF SavedMsg
  <2>4. commands[s].about = n
    BY <1>1, <2>3
  <2>5. commands[s].at = "ok"
    BY <2>2, <2>3, FlyingFacts DEF Good, CommandOK
  <2>6. commands'[s] = None
    BY <2>2 DEF Then, IInv, TypeOK
  <2>7. QED
    BY <2>2, <2>4, <2>5, <2>6 DEF SaveDelivered
<1>5. CASE \E s \in Slots : Work(s)
  BY <1>2, <1>5 DEF Work, editVars
<1>6. CASE UNCHANGED vars
  BY <1>2, <1>6 DEF vars, editVars
<1>7. QED
  BY <1>3, <1>4, <1>5, <1>6 DEF Next

\* An edit that was confirmed stays staged until its application is saved or its
\* edits are discarded (applySaved, handleEdit).
THEOREM EditsAreKept == Spec => EditsLeaveWhenSaved
<1>1. IInv /\ [Next]_vars =>
        [\A n \in Apps : \/ DOMAIN staged[n] \subseteq DOMAIN staged'[n]
                         \/ Discard /\ pane.node = n
                         \/ SaveDelivered(n)]_vars
  BY EditsStep
<1>2. QED
  BY <1>1, Invariant, PTL DEF Spec, EditsLeaveWhenSaved

LEMMA DiskStep ==
  ASSUME IInv, [Next]_vars, NEW a \in Apps, disk[a] # Absent, disk'[a] # disk[a]
  PROVE  \E s \in Slots :
           \/ Running(s, "save") /\ commands[s].about = a /\ commands[s].doc = disk'[a]
           \/ Running(s, "sync") /\ commands[s].force /\ consent
<1>1. disk \in [Apps -> Manifests \cup {Absent}] /\ disk' # disk
  BY DEF IInv, TypeOK
<1>2. ~Key
  BY <1>1 DEF Key, Yes, No, Escape, MenuSync, MenuInit, MenuBrowse, MenuQuit, Quit, Save,
     Discard, Lifecycle, ToggleDrift, Back, Open, Enter, StartEdit, Move, fileVars
<1>3. PICK s \in Slots : Work(s)
  BY <1>1, <1>2 DEF Next, Deliver, fileVars, vars
<1>4. CASE Saves(s)
  <2>1. Running(s, "save") /\ Flying(s) /\ commands[s].kind = "save"
    BY <1>4 DEF Saves, Running, Flying
  <2>2. disk' = [disk EXCEPT ![commands[s].about] = commands[s].doc]
    BY <1>1, <1>4 DEF Saves
  <2>3. QED
    BY <1>1, <2>1, <2>2
<1>5. ASSUME NEW b \in Apps, SyncWrites(s, b)
      PROVE  Running(s, "sync") /\ commands[s].force /\ consent
  <2>1. /\ Running(s, "sync") /\ IsSync(s) /\ Flying(s) /\ commands[s].kind = "sync"
        /\ commands[s].at = "busy" /\ b \in commands[s].todo
        /\ disk' = [disk EXCEPT ![b] = Imported]
    BY <1>5 DEF SyncWrites, Running, IsSync, Flying
  <2>2. a = b
    BY <1>1, <2>1
  <2>3. ~Writing(s)
    BY <2>1, <2>2 DEF IInv, SyncsOK, OnDisk
  <2>4. commands[s].force
    BY <2>1, <2>3 DEF Writing
  <2>5. QED
    BY <2>1, <2>4, FlyingFacts DEF CommandOK
<1>6. CASE ~Saves(s) /\ ~\E b \in Apps : SyncWrites(s, b)
  BY <1>1, <1>3, <1>6 DEF Work, Calls, LoadFails, Collects, Reads, SyncChecks, SyncWritesRoot,
     SyncCompletes, SyncFails, Scaffolds, fileVars
<1>7. QED
  BY <1>4, <1>5, <1>6

\* However imports, saves, inits and prompts interleave, a manifest is replaced only
\* by the save of its application, or after the question was answered with y.
THEOREM NothingOverwrittenUnasked == Spec => OverwriteNeedsConsent
<1>1. IInv /\ [Next]_vars =>
        [\A a \in Apps : disk[a] # Absent /\ disk'[a] # disk[a] =>
           \E s \in Slots :
             \/ Running(s, "save") /\ commands[s].about = a /\ commands[s].doc = disk'[a]
             \/ Running(s, "sync") /\ commands[s].force /\ consent]_vars
  BY DiskStep
<1>2. QED
  BY <1>1, Invariant, PTL DEF Spec, OverwriteNeedsConsent
=============================================================================
