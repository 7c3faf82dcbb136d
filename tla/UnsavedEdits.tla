---------------------------- MODULE UnsavedEdits ----------------------------
(* Explorer with a history of what the user wants on disk.                 *)
EXTENDS MCExplorer

VARIABLE intent   \* of each application, the last edit of each variable that
                  \* was confirmed and not discarded

Remember(n) ==
  LET kept == IF Discard THEN DOMAIN intent[n] \ DOMAIN staged[n] ELSE DOMAIN intent[n]
  IN [x \in kept \cup DOMAIN staged'[n] |->
        IF x \in DOMAIN staged'[n] THEN staged'[n][x] ELSE intent[n][x]]

HistorySpec ==
  /\ Init /\ intent = staged
  /\ [][Next /\ intent' = [n \in Apps |-> Remember(n)]]_<<vars, intent>>

\* "Quitting with unsaved edits asks for confirmation first": who is not asked
\* has every edit he confirmed and did not discard on disk (handleQuit).
QuitAsksFirst ==
  quit = "unasked" =>
    \A n \in Apps : \A x \in DOMAIN intent[n] : disk[n][x] = intent[n][x]
=============================================================================
