------------------------------ MODULE TopoSort ------------------------------
(***************************************************************************)
(* The dependency order of internal/apply/dag.go: orderOps and the Kahn    *)
(* loop of topoSort, one action per iteration of the loop.                 *)
(*                                                                         *)
(* An input is a list of operations given by their node ids, in the order  *)
(* the callers built them.  Two manifests that declare the same resource   *)
(* give two operations with one id: the maps of orderOps and topoSort are  *)
(* keyed by id while the node list is not, so the list may hold an id      *)
(* twice.  The graph is any graph over the ids, cyclic ones included,      *)
(* although dependsOn only builds project -> environment -> leaf edges.    *)
(***************************************************************************)
EXTENDS Integers, Sequences, FiniteSets, SequencesExt

CONSTANTS
  Id,       \* node ids
  Lex,      \* [Id -> Nat]: position of an id in the order of sort.Strings
  Inputs,   \* the lists of node ids orderOps may be given
  Graphs    \* the dependency functions [Id -> SUBSET Id] it may be given

ASSUME IdFinite == IsFiniteSet(Id)
ASSUME LexInjective ==
  /\ Lex \in [Id -> Nat]
  /\ \A a, b \in Id : Lex[a] = Lex[b] => a = b
ASSUME InputsType == Inputs \subseteq Seq(Id)
ASSUME GraphsType == Graphs \subseteq [Id -> SUBSET Id]

VARIABLES
  nodes,    \* the input list; never changes
  deps,     \* what each id requires to already exist; never changes
  reverse,  \* OrderDelete (TRUE) or OrderApply (FALSE); never changes
  indeg,    \* [Id -> Int]: dependencies of an id not yet emitted
  ready,    \* [Id -> Nat]: how often an id is queued
  out,      \* the ids emitted so far
  status    \* "sorting", "sorted" or "cycle"

vars == <<nodes, deps, reverse, indeg, ready, out, status>>

-----------------------------------------------------------------------------
(* The graph the sort sees. *)

\* The ids of the input.
Present == {nodes[i] : i \in DOMAIN nodes}

\* Mutant of PresentDeps: a dependency that is not in the input is waited for.
PresentDepsUnfiltered(n) == deps[n]

\* Dependencies on ids absent from the input are ignored.
PresentDeps(n) == deps[n] \cap Present

\* deps is keyed by id: a child is recorded once however often it is listed.
Children(n) == {c \in Present : n \in PresentDeps(c)}

\* How often id n is listed in the input.
Listed(n) == Cardinality({i \in DOMAIN nodes : nodes[i] = n})

Emitted == {out[i] : i \in DOMAIN out}

-----------------------------------------------------------------------------
(* orderOps fills the maps; topoSort counts in-degrees and queues the roots,*)
(* each as often as the input lists it.                                    *)
Init ==
  /\ nodes \in Inputs
  /\ deps \in Graphs
  /\ reverse \in BOOLEAN
  /\ indeg = [n \in Id |-> IF n \in Present THEN Cardinality(PresentDeps(n)) ELSE 0]
  /\ ready = [n \in Id |-> IF n \in Present /\ PresentDeps(n) = {}
                           THEN Listed(n) ELSE 0]
  /\ out = <<>>
  /\ status = "sorting"

\* Mutant of Queued: the loop does not stop at an empty queue.
QueuedWhenEmpty == {n \in Id : ready[n] >= 0}

Queued == {n \in Id : ready[n] > 0}

\* Mutant of IsHead: the queue is not sorted again after it has grown.
IsHeadUnsorted(n) == n \in Queued

\* ready is kept sorted, so its head is the lexically first queued id.
IsHead(n) == n \in Queued /\ \A m \in Queued : Lex[n] <= Lex[m]

\* Mutant of Released: a child is queued when its first dependency is emitted.
ReleasedEarly(n) == Children(n)

\* The children that n was the last missing dependency of.
Released(n) == {m \in Children(n) : indeg[m] = 1}

(* One iteration: emit the head, release the children it was the last       *)
(* missing dependency of.                                                  *)
Pop ==
  \E n \in Id :
    /\ status = "sorting"
    /\ IsHead(n)
    /\ out' = Append(out, n)
    /\ indeg' = [m \in Id |-> IF m \in Children(n) THEN indeg[m] - 1 ELSE indeg[m]]
    /\ ready' = [m \in Id |->
                   ready[m] + (IF m \in Released(n) THEN 1 ELSE 0)
                            - (IF m = n THEN 1 ELSE 0)]
    /\ UNCHANGED <<nodes, deps, reverse, status>>

\* Mutant of Finish: the output's length is not checked.
FinishUnchecked ==
  /\ status = "sorting"
  /\ Queued = {}
  /\ status' = "sorted"
  /\ UNCHANGED <<nodes, deps, reverse, indeg, ready, out>>

\* Mutant of Finish: the loop waits for every node to be emitted.
FinishWhenComplete ==
  /\ status = "sorting"
  /\ Queued = {}
  /\ Len(out) = Len(nodes)
  /\ status' = "sorted"
  /\ UNCHANGED <<nodes, deps, reverse, indeg, ready, out>>

(* The queue is empty: an output shorter than the input is reported as a   *)
(* dependency cycle.                                                       *)
Finish ==
  /\ status = "sorting"
  /\ Queued = {}
  /\ status' = IF Len(out) = Len(nodes) THEN "sorted" ELSE "cycle"
  /\ UNCHANGED <<nodes, deps, reverse, indeg, ready, out>>

Next == Pop \/ Finish

Spec == Init /\ [][Next]_vars
FairSpec == Spec /\ WF_vars(Next)

-----------------------------------------------------------------------------
(* What orderOps returns: the emitted ids, reversed for a delete, each      *)
(* looked up in byID, where a later operation replaced an earlier one.     *)

ById(n) == CHOOSE i \in DOMAIN nodes :
             nodes[i] = n /\ \A j \in DOMAIN nodes : nodes[j] = n => j <= i

Ordered ==
  LET ids == IF reverse THEN Reverse(out) ELSE out
  IN  [i \in DOMAIN ids |-> ById(ids[i])]

-----------------------------------------------------------------------------
(* Properties. *)

TypeOK ==
  /\ nodes \in Seq(Id)
  /\ deps \in [Id -> SUBSET Id]
  /\ reverse \in BOOLEAN
  /\ indeg \in [Id -> Int]
  /\ ready \in [Id -> Nat]
  /\ out \in Seq(Id)
  /\ status \in {"sorting", "sorted", "cycle"}

NoDuplicates == \A i, j \in DOMAIN nodes : nodes[i] = nodes[j] => i = j

\* Every id sorts after what it depends on, as the leading rank of nodeID sees
\* to for the edges dependsOn builds.
RankedByName == \A n \in Id : \A d \in deps[n] : Lex[d] < Lex[n]

\* Every id is emitted after each of its dependencies that is in the input.
OrderKept ==
  \A i \in DOMAIN out : \A d \in PresentDeps(out[i]) :
    \E j \in 1 .. (i - 1) : out[j] = d

\* The order is kept (topoSort: "a node after every node it depends on") for
\* every graph when no id is listed twice, and for every list when the ids are
\* ranked (nodeID: "makes a lexical sort of node IDs respect the kind
\* hierarchy"): an id counted below zero, or released too early by a dependency
\* that is listed twice, still comes after its dependencies in the queue.
DepsFirst == NoDuplicates \/ RankedByName => OrderKept

\* Every operation given to orderOps comes back exactly once, none is
\* dropped and none is run twice, when no resource is declared twice.
EveryOpOnce ==
  NoDuplicates /\ status = "sorted" =>
    /\ Len(Ordered) = Len(nodes)
    /\ \A k \in DOMAIN nodes : \E i \in DOMAIN Ordered : Ordered[i] = k

\* A set of ids in which each one waits for another member.
Blocked(S) == S # {} /\ S \subseteq Present /\ \A n \in S : PresentDeps(n) \cap S # {}

\* Unless a resource is declared twice, the error is only ever reported for a
\* graph that has a cycle (topoSort: "It errors when a cycle leaves nodes
\* unprocessable").
ErrorOnlyOnCycle ==
  NoDuplicates /\ status = "cycle" => \E S \in SUBSET Present : Blocked(S)

\* Unless a resource is declared twice, a graph with a cycle is never reported as
\* sorted.
CycleIsReported ==
  NoDuplicates /\ status = "sorted" => ~ \E S \in SUBSET Present : Blocked(S)

\* The sort always comes to an answer, whatever the graph.
Terminates == <>(status # "sorting")
=============================================================================
