-------------------------- MODULE OrderedExecution --------------------------
(***************************************************************************)
(* What one run of "apply" or "destroy" promises: it fixes a plan once,    *)
(* completes operations one at a time, each after those that must precede  *)
(* it, and stops for good; it reports success only for a complete plan.    *)
(***************************************************************************)
CONSTANTS
  Op,     \* operations
  Before  \* the pairs <<a, b>> where a must be done before b

VARIABLES
  todo,    \* the plan, fixed when the run commits to it
  done,    \* the operations completed
  status   \* "planning", "running", "complete", "stopped" or "skipped"

vars == <<todo, done, status>>

TypeOK ==
  /\ todo \subseteq Op
  /\ done \subseteq todo
  /\ status \in {"planning", "running", "complete", "stopped", "skipped"}

Init == todo = {} /\ done = {} /\ status = "planning"

Commit ==
  /\ status = "planning" /\ status' = "running"
  /\ todo' \in SUBSET Op
  /\ UNCHANGED done

Complete(op) ==
  /\ status = "running"
  /\ op \in todo \ done
  /\ \A p \in todo : <<p, op>> \in Before => p \in done
  /\ done' = done \cup {op}
  /\ UNCHANGED <<todo, status>>

Succeed ==
  /\ status = "running" /\ done = todo
  /\ status' = "complete"
  /\ UNCHANGED <<todo, done>>

Stop ==
  /\ status = "running"
  /\ status' = "stopped"
  /\ UNCHANGED <<todo, done>>

Skip ==
  /\ status = "planning"
  /\ status' = "skipped"
  /\ UNCHANGED <<todo, done>>

Next == Commit \/ (\E op \in Op : Complete(op)) \/ Succeed \/ Stop \/ Skip

Spec == Init /\ [][Next]_vars
=============================================================================
