--------------------------- MODULE TopoSortProofs ---------------------------
(***************************************************************************)
(* Theorems about the dependency order, for every set of ids and graph.    *)
(***************************************************************************)
EXTENDS TopoSort, FiniteSetTheorems, WellFoundedInduction, TLAPS

(* What holds at every iteration for an input that lists no id twice.      *)
(* indeg counts the dependencies still missing, an id is queued exactly    *)
(* when it has none left and was not emitted yet, and nothing is emitted   *)
(* twice.                                                                  *)
IndegInv ==
  \A n \in Present : indeg[n] = Cardinality(PresentDeps(n) \ Emitted)
ReadyInv ==
  \A n \in Id :
    /\ ready[n] \in {0, 1}
    /\ ready[n] = 1 <=> /\ n \in Present
                        /\ n \notin Emitted
                        /\ PresentDeps(n) \subseteq Emitted
OutInv ==
  /\ Emitted \subseteq Present
  /\ Len(out) = Cardinality(Emitted)
AnswerInv ==
  status # "sorting" =>
    /\ Queued = {}
    /\ status = "sorted" <=> Len(out) = Len(nodes)

IInv == IndegInv /\ ReadyInv /\ OutInv /\ OrderKept /\ AnswerInv

-----------------------------------------------------------------------------
(* Types. *)

LEMMA PresentType ==
  ASSUME TypeOK
  PROVE  /\ Present \subseteq Id
         /\ IsFiniteSet(Present)
         /\ Emitted \subseteq Id
         /\ IsFiniteSet(Emitted)
         /\ \A n \in Id : /\ PresentDeps(n) \subseteq Present
                          /\ IsFiniteSet(PresentDeps(n))
                          /\ IsFiniteSet(PresentDeps(n) \ Emitted)
<1>1. Present \subseteq Id /\ Emitted \subseteq Id
  BY DEF TypeOK, Present, Emitted
<1>2. IsFiniteSet(Present) /\ IsFiniteSet(Emitted)
  BY <1>1, IdFinite, FS_Subset
<1>3. ASSUME NEW n \in Id
      PROVE  /\ PresentDeps(n) \subseteq Present
             /\ IsFiniteSet(PresentDeps(n))
             /\ IsFiniteSet(PresentDeps(n) \ Emitted)
  <2>1. PresentDeps(n) \subseteq Present
    BY DEF PresentDeps
  <2>2. IsFiniteSet(PresentDeps(n))
    BY <2>1, <1>2, FS_Subset
  <2>3. PresentDeps(n) \ Emitted \in SUBSET PresentDeps(n)
    OBVIOUS
  <2>4. QED
    BY <2>1, <2>2, <2>3, FS_Subset
<1>4. QED
  BY <1>1, <1>2, <1>3

\* Every variable keeps its type.
THEOREM TypeCorrect == Spec => []TypeOK
<1>1. Init => TypeOK
  <2> SUFFICES ASSUME Init PROVE TypeOK
    OBVIOUS
  <2>1. nodes \in Seq(Id) /\ deps \in [Id -> SUBSET Id] /\ reverse \in BOOLEAN
    BY InputsType, GraphsType DEF Init
  <2>2. IsFiniteSet(Present)
    <3>1. Present \subseteq Id
      BY <2>1 DEF Present
    <3>2. QED
      BY <3>1, IdFinite, FS_Subset
  <2>3. \A n \in Id : Cardinality(PresentDeps(n)) \in Nat
    <3> SUFFICES ASSUME NEW n \in Id PROVE Cardinality(PresentDeps(n)) \in Nat
      OBVIOUS
    <3>1. PresentDeps(n) \in SUBSET Present
      BY DEF PresentDeps
    <3>2. QED
      BY <3>1, <2>2, FS_Subset, FS_CardinalityType
  <2>4. \A n \in Id : Listed(n) \in Nat
    <3> SUFFICES ASSUME NEW n \in Id PROVE Listed(n) \in Nat
      OBVIOUS
    <3> DEFINE At == {i \in DOMAIN nodes : nodes[i] = n}
    <3>1. DOMAIN nodes = 1 .. Len(nodes) /\ Len(nodes) \in Nat
      BY <2>1
    <3>2. IsFiniteSet(DOMAIN nodes)
      BY <3>1, FS_Interval
    <3>3. IsFiniteSet(At)
      BY <3>2, FS_Subset
    <3>4. QED
      BY <3>3, FS_CardinalityType DEF Listed
  <2>5. QED
    BY <2>1, <2>3, <2>4 DEF Init, TypeOK
<1>2. TypeOK /\ [Next]_vars => TypeOK'
  <2> SUFFICES ASSUME TypeOK, [Next]_vars PROVE TypeOK'
    OBVIOUS
  <2>1. CASE Pop
    <3>1. PICK n \in Id : Pop!(n)
      BY <2>1 DEF Pop
    <3>2. ready[n] > 0
      BY <3>1 DEF IsHead, Queued
    <3>3. ready' \in [Id -> Nat]
      BY <3>1, <3>2 DEF TypeOK
    <3>4. QED
      BY <3>1, <3>3 DEF TypeOK
  <2>2. CASE Finish
    BY <2>2 DEF Finish, TypeOK
  <2>3. CASE UNCHANGED vars
    BY <2>3 DEF vars, TypeOK
  <2>4. QED
    BY <2>1, <2>2, <2>3 DEF Next
<1>3. QED
  BY <1>1, <1>2, PTL DEF Spec

-----------------------------------------------------------------------------
(* Initially every id is listed once, so each root is queued once.         *)

LEMMA ListedOnce ==
  ASSUME TypeOK, NoDuplicates, NEW n \in Present
  PROVE  Listed(n) = 1
<1>1. PICK k \in DOMAIN nodes : nodes[k] = n
  BY DEF Present
<1>2. {i \in DOMAIN nodes : nodes[i] = n} = {k}
  BY <1>1 DEF NoDuplicates
<1>3. QED
  BY <1>2, FS_Singleton DEF Listed

LEMMA ListedAtLeastOnce ==
  ASSUME TypeOK, NEW n \in Present
  PROVE  Listed(n) > 0
<1> DEFINE At == {i \in DOMAIN nodes : nodes[i] = n}
<1>1. At # {} /\ At \subseteq DOMAIN nodes
  BY DEF Present
<1>2. IsFiniteSet(DOMAIN nodes)
  BY FS_Interval DEF TypeOK
<1>3. IsFiniteSet(At)
  BY <1>1, <1>2, FS_Subset
<1>4. Cardinality(At) \in Nat /\ Cardinality(At) # 0
  BY <1>1, <1>3, FS_CardinalityType, FS_EmptySet
<1>5. QED
  BY <1>4 DEF Listed

LEMMA InitIInv ==
  ASSUME TypeOK, NoDuplicates, Init
  PROVE  IInv
<1>1. out = <<>> /\ Emitted = {} /\ Len(out) = 0
  BY DEF Init, Emitted
<1>2. IndegInv
  <2> SUFFICES ASSUME NEW n \in Present
               PROVE  indeg[n] = Cardinality(PresentDeps(n) \ Emitted)
    BY DEF IndegInv
  <2>1. PresentDeps(n) \ Emitted = PresentDeps(n)
    BY <1>1
  <2>2. QED
    BY <2>1, PresentType DEF Init
<1>3. ReadyInv
  <2> SUFFICES ASSUME NEW n \in Id
               PROVE  /\ ready[n] \in {0, 1}
                      /\ ready[n] = 1 <=> /\ n \in Present
                                          /\ n \notin Emitted
                                          /\ PresentDeps(n) \subseteq Emitted
    BY DEF ReadyInv
  <2>1. ready[n] = IF n \in Present /\ PresentDeps(n) = {} THEN Listed(n) ELSE 0
    BY DEF Init
  <2>2. CASE n \in Present
    BY <2>1, <2>2, <1>1, ListedOnce
  <2>3. CASE n \notin Present
    BY <2>1, <2>3
  <2>4. QED
    BY <2>2, <2>3
<1>4. OutInv
  BY <1>1, FS_EmptySet DEF OutInv
<1>5. OrderKept
  BY <1>1 DEF OrderKept
<1>6. AnswerInv
  BY DEF AnswerInv, Init
<1>7. QED
  BY <1>2, <1>3, <1>4, <1>5, <1>6 DEF IInv

-----------------------------------------------------------------------------
(* One iteration preserves the invariant.                                  *)

LEMMA AppendKeepsOrder ==
  ASSUME TypeOK, OrderKept, NEW n \in Id, UNCHANGED <<nodes, deps>>,
         out' = Append(out, n), PresentDeps(n) \subseteq Emitted
  PROVE  OrderKept'
<1>1. /\ \A i \in 1 .. Len(out) : out'[i] = out[i]
      /\ out'[Len(out) + 1] = n
      /\ Len(out) \in Nat /\ DOMAIN out = 1 .. Len(out)
      /\ DOMAIN out' = 1 .. (Len(out) + 1)
  BY DEF TypeOK
<1>2. \A m \in Id : PresentDeps(m)' = PresentDeps(m)
  BY DEF Present, PresentDeps
<1> SUFFICES ASSUME NEW i \in DOMAIN out', NEW d \in PresentDeps(out[i])'
             PROVE  \E j \in 1 .. (i - 1) : out'[j] = d
  BY DEF OrderKept
<1>3. CASE i = Len(out) + 1
  <2>1. d \in PresentDeps(n)
    BY <1>3, <1>1, <1>2 DEF PresentDeps, Present
  <2>2. PICK j \in DOMAIN out : out[j] = d
    BY <2>1 DEF Emitted
  <2>3. QED
    BY <2>2, <1>3, <1>1
<1>4. CASE i \in 1 .. Len(out)
  <2>1. out'[i] = out[i] /\ out[i] \in Id
    BY <1>4, <1>1 DEF TypeOK
  <2>2. d \in PresentDeps(out[i])
    BY <2>1, <1>2 DEF PresentDeps, Present
  <2>3. PICK j \in 1 .. (i - 1) : out[j] = d
    BY <2>2, <1>4, <1>1 DEF OrderKept
  <2>4. QED
    BY <2>3, <1>4, <1>1
<1>5. QED
  BY <1>3, <1>4, <1>1

LEMMA PopIInv ==
  ASSUME TypeOK, TypeOK', NoDuplicates, IInv, Pop
  PROVE  IInv'
<1>1. PICK n \in Id : Pop!(n)
  BY DEF Pop
<1>2. /\ nodes' = nodes /\ deps' = deps /\ status' = status /\ status = "sorting"
      /\ out' = Append(out, n)
      /\ ready[n] > 0
  BY <1>1 DEF IsHead, Queued
<1>3. /\ n \in Present /\ n \notin Emitted /\ PresentDeps(n) \subseteq Emitted
      /\ ready[n] = 1
  BY <1>2 DEF IInv, ReadyInv
<1>4. Present' = Present /\ \A m \in Id : PresentDeps(m)' = PresentDeps(m)
  BY <1>2 DEF Present, PresentDeps
<1>5. /\ Len(out') = Len(out) + 1
      /\ out'[Len(out) + 1] = n
      /\ \A i \in 1 .. Len(out) : out'[i] = out[i]
      /\ Len(out) \in Nat
      /\ DOMAIN out = 1 .. Len(out)
      /\ DOMAIN out' = 1 .. (Len(out) + 1)
  BY <1>2 DEF TypeOK
<1>6. Emitted' = Emitted \cup {n}
  BY <1>5 DEF Emitted
<1>7. \A m \in Present : m \in Children(n) <=> n \in PresentDeps(m)
  BY DEF Children
<1>8. ASSUME NEW m \in Present
      PROVE  /\ Cardinality(PresentDeps(m) \ Emitted) \in Nat
             /\ indeg'[m] = Cardinality(PresentDeps(m)' \ Emitted')
             /\ indeg[m] = 1 /\ n \in PresentDeps(m)
                  <=> n \in PresentDeps(m) /\ PresentDeps(m) \subseteq Emitted'
  <2> DEFINE D == PresentDeps(m) \ Emitted
  <2>1. m \in Id /\ IsFiniteSet(D) /\ Cardinality(D) \in Nat
    BY PresentType, FS_CardinalityType
  <2>2. PresentDeps(m)' \ Emitted' = D \ {n}
    BY <1>4, <1>6, <2>1
  <2>3. indeg[m] = Cardinality(D)
    BY DEF IInv, IndegInv
  <2>4. n \in D <=> n \in PresentDeps(m)
    BY <1>3
  <2>5. indeg'[m] = IF n \in PresentDeps(m) THEN indeg[m] - 1 ELSE indeg[m]
    BY <1>1, <1>7, <2>1
  <2>6. Cardinality(D \ {n}) = IF n \in D THEN Cardinality(D) - 1 ELSE Cardinality(D)
    BY <2>1, FS_RemoveElement
  <2>7. IsFiniteSet(D \ {n}) /\ (Cardinality(D \ {n}) = 0 <=> D \ {n} = {})
    BY <2>1, FS_RemoveElement, FS_EmptySet
  <2>8. D \ {n} = {} <=> PresentDeps(m) \subseteq Emitted'
    BY <1>6
  <2>9. QED
    <3>1. indeg'[m] = Cardinality(PresentDeps(m)' \ Emitted')
      BY <2>2, <2>3, <2>4, <2>5, <2>6
    <3>2. indeg[m] = 1 /\ n \in PresentDeps(m)
             <=> n \in PresentDeps(m) /\ PresentDeps(m) \subseteq Emitted'
      <4>1. n \in PresentDeps(m) => Cardinality(D \ {n}) = Cardinality(D) - 1
        BY <2>4, <2>6
      <4> HIDE DEF D
      <4>2. QED
        BY <4>1, <2>1, <2>3, <2>7, <2>8
    <3>3. QED
      BY <3>1, <3>2, <2>1
<1>9. IndegInv'
  BY <1>8, <1>4 DEF IndegInv
<1>10. ReadyInv'
  <2> SUFFICES ASSUME NEW m \in Id
               PROVE  /\ ready'[m] \in {0, 1}
                      /\ ready'[m] = 1 <=> /\ m \in Present'
                                           /\ m \notin Emitted'
                                           /\ PresentDeps(m)' \subseteq Emitted'
    BY DEF ReadyInv
  <2>1. ready'[m] = ready[m] + (IF m \in Children(n) /\ indeg[m] = 1 THEN 1 ELSE 0)
                             - (IF m = n THEN 1 ELSE 0)
    BY <1>1 DEF Released
  <2>2. /\ ready[m] \in {0, 1}
        /\ ready[m] = 1 <=> /\ m \in Present
                            /\ m \notin Emitted
                            /\ PresentDeps(m) \subseteq Emitted
    BY DEF IInv, ReadyInv
  <2>3. m \in Children(n) => m \in Present /\ n \in PresentDeps(m)
    BY DEF Children
  <2>4. CASE m = n
    <3>1. n \notin PresentDeps(n)
      BY <1>3
    <3>2. m \notin Children(n)
      BY <3>1, <2>3, <2>4
    <3>3. ready'[m] = 0
      BY <3>2, <2>1, <2>4, <1>3
    <3>4. m \in Emitted'
      BY <2>4, <1>6
    <3>5. QED
      BY <3>3, <3>4
  <2>5. CASE m # n /\ m \in Children(n) /\ indeg[m] = 1
    <3>1. n \in PresentDeps(m) /\ m \in Present
      BY <2>5, <2>3
    <3>2. PresentDeps(m) \subseteq Emitted'
      BY <3>1, <2>5, <1>8
    <3>3. ready[m] = 0
      BY <3>1, <1>3, <2>2
    <3>4. m \notin Emitted
      <4>1. SUFFICES ASSUME m \in Emitted PROVE FALSE
        OBVIOUS
      <4>2. PICK i \in DOMAIN out : out[i] = m
        BY <4>1 DEF Emitted
      <4>3. PICK j \in 1 .. (i - 1) : out[j] = n
        BY <4>2, <3>1 DEF IInv, OrderKept
      <4>4. n \in Emitted
        BY <4>2, <4>3, <1>5 DEF Emitted
      <4>5. QED
        BY <4>4, <1>3
    <3>5. ready'[m] = 1
      BY <3>3, <2>1, <2>5
    <3>6. QED
      BY <3>1, <3>2, <3>4, <3>5, <1>4, <1>6, <2>5
  <2>6. CASE m # n /\ ~(m \in Children(n) /\ indeg[m] = 1)
    <3>1. ready'[m] = ready[m]
      BY <2>1, <2>2, <2>6
    <3>2. m \in Emitted' <=> m \in Emitted
      BY <1>6, <2>6
    <3>3. ASSUME m \in Present
          PROVE  PresentDeps(m)' \subseteq Emitted' <=> PresentDeps(m) \subseteq Emitted
      <4>1. CASE n \in PresentDeps(m)
        BY <4>1, <2>6, <3>3, <1>3, <1>4, <1>7, <1>8
      <4>2. CASE n \notin PresentDeps(m)
        BY <4>2, <1>4, <1>6
      <4>3. QED
        BY <4>1, <4>2
    <3>4. QED
      BY <3>1, <3>2, <3>3, <2>2, <1>4
  <2>7. QED
    BY <2>4, <2>5, <2>6
<1>11. OutInv'
  <2>1. IsFiniteSet(Emitted)
    BY PresentType
  <2>2. Cardinality(Emitted \cup {n}) = Cardinality(Emitted) + 1
    BY <2>1, <1>3, FS_AddElement
  <2>3. QED
    BY <2>2, <1>3, <1>4, <1>5, <1>6 DEF IInv, OutInv
<1>12. OrderKept'
  BY <1>1, <1>3, AppendKeepsOrder DEF IInv
<1>13. AnswerInv'
  BY <1>2 DEF AnswerInv
<1>14. QED
  BY <1>9, <1>10, <1>11, <1>12, <1>13 DEF IInv

\* Only the answer is left to look at when the queues and the output stay.
LEMMA SameDataIInv ==
  ASSUME IInv, UNCHANGED <<nodes, deps, indeg, ready, out>>
  PROVE  IndegInv' /\ ReadyInv' /\ OutInv' /\ OrderKept'
<1>1. Present' = Present /\ Emitted' = Emitted
  BY DEF Present, Emitted
<1>2. IndegInv'
  BY <1>1 DEF IInv, IndegInv, PresentDeps
<1>3. ReadyInv'
  BY <1>1 DEF IInv, ReadyInv, PresentDeps
<1>4. OutInv'
  BY <1>1 DEF IInv, OutInv
<1>5. OrderKept'
  BY <1>1 DEF IInv, OrderKept, PresentDeps
<1>6. QED
  BY <1>2, <1>3, <1>4, <1>5

LEMMA NextIInv ==
  ASSUME TypeOK, TypeOK', NoDuplicates, IInv, [Next]_vars
  PROVE  IInv'
<1>1. CASE Pop
  BY <1>1, PopIInv
<1>2. CASE Finish
  <2>1. /\ UNCHANGED <<nodes, deps, indeg, ready, out>>
        /\ status' = IF Len(out) = Len(nodes) THEN "sorted" ELSE "cycle"
        /\ Queued = {}
    BY <1>2 DEF Finish
  <2>2. AnswerInv'
    BY <2>1 DEF AnswerInv, Queued
  <2>3. QED
    BY <2>1, <2>2, SameDataIInv DEF IInv
<1>3. CASE UNCHANGED vars
  <2>1. UNCHANGED <<nodes, deps, indeg, ready, out>> /\ status' = status
    BY <1>3 DEF vars
  <2>2. AnswerInv'
    BY <2>1 DEF IInv, AnswerInv, Queued
  <2>3. QED
    BY <2>1, <2>2, SameDataIInv DEF IInv
<1>4. QED
  BY <1>1, <1>2, <1>3 DEF Next

\* The invariant of the loop, for every duplicate-free input and every graph.
THEOREM LoopInvariant == Spec => [](NoDuplicates => IInv)
<1>1. TypeOK /\ Init => (NoDuplicates => IInv)
  BY InitIInv
<1>2. /\ TypeOK /\ TypeOK'
      /\ (NoDuplicates => IInv)
      /\ [Next]_vars
      => (NoDuplicates => IInv)'
  <2> SUFFICES ASSUME TypeOK, TypeOK', NoDuplicates => IInv, [Next]_vars, NoDuplicates'
               PROVE  IInv'
    OBVIOUS
  <2>1. nodes' = nodes
    BY DEF Next, Pop, Finish, vars
  <2>2. NoDuplicates
    BY <2>1 DEF NoDuplicates
  <2>3. QED
    BY <2>2, NextIInv
<1>3. QED
  BY <1>1, <1>2, TypeCorrect, PTL DEF Spec

-----------------------------------------------------------------------------
(* A list that names resources twice, over ids that sort after what they    *)
(* depend on.  What indeg says is no longer exact, but it is never too      *)
(* large, and an id that is down to none missing is queued or was emitted:  *)
(* an id whose dependencies are all out is somewhere in the queue or behind *)
(* it.  So the first unemitted id in lexical order is queued, and the head  *)
(* of the queue, which sorts no later, waits for nothing.                   *)

NotTooLarge == \A n \in Present : indeg[n] <= Cardinality(PresentDeps(n) \ Emitted)
NoneForgotten == \A n \in Present : indeg[n] > 0 \/ n \in Emitted \/ ready[n] > 0
OnlyListed == Emitted \subseteq Present /\ \A n \in Id : ready[n] > 0 => n \in Present

RankedInv == NotTooLarge /\ NoneForgotten /\ OnlyListed /\ OrderKept

LEMMA LeastElement ==
  ASSUME NEW S \in SUBSET Nat, S # {}
  PROVE  \E x \in S : \A y \in S : x <= y
<1> DEFINE R == {ss \in Nat \X Nat : ss[1] < ss[2]}
<1>1. IsWellFoundedOn(R, Nat)
  BY NatLessThanWellFounded DEF OpToRel
<1>2. \A x, y \in Nat : <<y, x>> \notin R => x <= y
  OBVIOUS
<1> HIDE DEF R
<1>3. PICK x \in S : \A y \in S : <<y, x>> \notin R
  BY <1>1, WFMin
<1>4. QED
  BY <1>2, <1>3

LEMMA FirstUnemitted ==
  ASSUME TypeOK, NEW d \in Present, d \notin Emitted
  PROVE  \E m \in Present : /\ m \notin Emitted /\ Lex[m] <= Lex[d]
                            /\ \A k \in Present : Lex[k] < Lex[m] => k \in Emitted
<1> DEFINE S == {Lex[k] : k \in Present \ Emitted}
<1>1. Present \subseteq Id
  BY PresentType
<1>2. S \in SUBSET Nat /\ Lex[d] \in S
  BY <1>1, LexInjective
<1>3. PICK x \in S : \A y \in S : x <= y
  <2> HIDE DEF S
  <2> QED
    BY <1>2, LeastElement
<1>4. PICK m \in Present \ Emitted : Lex[m] = x
  OBVIOUS
<1>5. ASSUME NEW k \in Present, Lex[k] < Lex[m], k \notin Emitted
      PROVE  FALSE
  <2>1. Lex[k] \in S /\ Lex[k] \in Nat /\ Lex[m] \in Nat
    BY <1>1, <1>5, LexInjective
  <2>2. QED
    BY <1>3, <1>4, <1>5, <2>1
<1>6. QED
  BY <1>2, <1>3, <1>4, <1>5

LEMMA PopRanked ==
  ASSUME TypeOK, TypeOK', RankedByName, RankedInv, Pop
  PROVE  RankedInv'
<1>1. PICK h \in Id : Pop!(h)
  BY DEF Pop
<1>2. /\ nodes' = nodes /\ deps' = deps
      /\ out' = Append(out, h)
      /\ h \in Present /\ ready[h] > 0
  BY <1>1 DEF IsHead, Queued, RankedInv, OnlyListed
<1>3. Present' = Present /\ \A m \in Id : PresentDeps(m)' = PresentDeps(m)
  BY <1>2 DEF Present, PresentDeps
<1>4. /\ \A i \in 1 .. Len(out) : out'[i] = out[i]
      /\ out'[Len(out) + 1] = h
      /\ Len(out) \in Nat /\ DOMAIN out = 1 .. Len(out)
      /\ DOMAIN out' = 1 .. (Len(out) + 1)
  BY <1>2 DEF TypeOK
<1>5. Emitted' = Emitted \cup {h}
  BY <1>4 DEF Emitted
<1>6. ASSUME NEW d \in PresentDeps(h), d \notin Emitted
      PROVE  FALSE
  <2>1. d \in Present /\ Lex[d] < Lex[h]
    BY <1>6 DEF PresentDeps, RankedByName
  <2>2. PICK m \in Present : /\ m \notin Emitted /\ Lex[m] <= Lex[d]
                            /\ \A k \in Present : Lex[k] < Lex[m] => k \in Emitted
    BY <1>6, <2>1, FirstUnemitted
  <2>3. m \in Id /\ d \in Id
    BY <2>1, PresentType
  <2>4. PresentDeps(m) \ Emitted = {}
    BY <2>2, <2>3 DEF PresentDeps, RankedByName
  <2>5. indeg[m] <= 0 /\ indeg[m] \in Int
    BY <2>3, <2>4, FS_EmptySet DEF RankedInv, NotTooLarge, TypeOK
  <2>6. m \in Queued
    BY <2>2, <2>3, <2>5 DEF RankedInv, NoneForgotten, Queued
  <2>7. Lex[h] <= Lex[m]
    BY <1>1, <2>6 DEF IsHead
  <2>8. Lex[h] \in Nat /\ Lex[m] \in Nat /\ Lex[d] \in Nat
    BY <2>3, LexInjective
  <2>9. QED
    BY <2>1, <2>2, <2>7, <2>8
<1>7. \A m \in Present : m \in Children(h) <=> h \in PresentDeps(m)
  BY DEF Children
<1>8. NotTooLarge'
  <2> SUFFICES ASSUME NEW m \in Present
               PROVE  indeg'[m] <= Cardinality(PresentDeps(m)' \ Emitted')
    BY <1>3 DEF NotTooLarge
  <2> DEFINE D == PresentDeps(m) \ Emitted
  <2>1. m \in Id /\ IsFiniteSet(D) /\ Cardinality(D) \in Nat
    BY PresentType, FS_CardinalityType
  <2>2. PresentDeps(m)' \ Emitted' = D \ {h}
    BY <1>3, <1>5, <2>1
  <2>3. indeg[m] <= Cardinality(D) /\ indeg[m] \in Int
    BY <2>1 DEF RankedInv, NotTooLarge, TypeOK
  <2>4. indeg'[m] = IF h \in PresentDeps(m) THEN indeg[m] - 1 ELSE indeg[m]
    BY <1>1, <1>7, <2>1
  <2>5. Cardinality(D \ {h}) = IF h \in D THEN Cardinality(D) - 1 ELSE Cardinality(D)
    BY <2>1, FS_RemoveElement
  <2>6. indeg'[m] <= Cardinality(D \ {h})
    <3>1. h \in D => h \in PresentDeps(m)
      OBVIOUS
    <3>2. PICK k \in Nat : k = Cardinality(D)
      BY <2>1
    <3> HIDE DEF D
    <3>3. QED
      BY <3>1, <3>2, <2>3, <2>4, <2>5
  <2>7. QED
    BY <2>2, <2>6
<1>9. ASSUME NEW m \in Id
      PROVE  /\ ready'[m] = ready[m] + (IF m \in Released(h) THEN 1 ELSE 0)
                                    - (IF m = h THEN 1 ELSE 0)
             /\ ready[m] \in Nat /\ indeg[m] \in Int
             /\ indeg'[m] = IF m \in Children(h) THEN indeg[m] - 1 ELSE indeg[m]
             /\ m \in Released(h) => m \in Present
             /\ m \in Children(h) /\ indeg[m] = 1 => m \in Released(h)
  BY <1>1 DEF TypeOK, Released, Children
<1>10. NoneForgotten'
  <2> SUFFICES ASSUME NEW m \in Present
               PROVE  indeg'[m] > 0 \/ m \in Emitted' \/ ready'[m] > 0
    BY <1>3 DEF NoneForgotten
  <2>1. m \in Id
    BY PresentType
  <2>2. indeg[m] > 0 \/ m \in Emitted \/ ready[m] > 0
    BY DEF RankedInv, NoneForgotten
  <2>3. CASE m = h \/ m \in Emitted
    BY <2>3, <1>5
  <2>4. CASE m # h /\ m \notin Emitted
    BY <2>1, <2>2, <2>4, <1>9
  <2>5. QED
    BY <2>3, <2>4
<1>11. OnlyListed'
  <2>1. Emitted' \subseteq Present'
    BY <1>2, <1>3, <1>5 DEF RankedInv, OnlyListed
  <2>2. ASSUME NEW m \in Id, ready'[m] > 0
        PROVE  m \in Present'
    <3>1. m \in Released(h) \/ ready[m] > 0
      BY <2>2, <1>9
    <3>2. QED
      BY <3>1, <1>3, <1>9 DEF RankedInv, OnlyListed
  <2>3. QED
    BY <2>1, <2>2 DEF OnlyListed
<1>12. OrderKept'
  <2>1. PresentDeps(h) \subseteq Emitted
    BY <1>6
  <2>2. QED
    BY <1>2, <2>1, AppendKeepsOrder DEF RankedInv
<1>13. QED
  BY <1>8, <1>10, <1>11, <1>12 DEF RankedInv

THEOREM RankedInvariant == Spec => [](RankedByName => RankedInv)
<1>1. TypeOK /\ Init => RankedInv
  <2> SUFFICES ASSUME TypeOK, Init PROVE RankedInv
    OBVIOUS
  <2>1. Emitted = {} /\ out = <<>>
    BY DEF Init, Emitted
  <2>2. \A n \in Present : /\ n \in Id /\ PresentDeps(n) \ Emitted = PresentDeps(n)
                           /\ IsFiniteSet(PresentDeps(n))
    BY <2>1, PresentType
  <2>3. NotTooLarge
    <3> SUFFICES ASSUME NEW n \in Present
                 PROVE  indeg[n] <= Cardinality(PresentDeps(n) \ Emitted)
      BY DEF NotTooLarge
    <3>1. Cardinality(PresentDeps(n)) \in Nat
      BY <2>2, FS_CardinalityType
    <3>2. indeg[n] = Cardinality(PresentDeps(n))
      BY <2>2 DEF Init
    <3>3. QED
      BY <3>1, <3>2, <2>2
  <2>4. ASSUME NEW n \in Present
        PROVE  indeg[n] > 0 \/ ready[n] > 0
    <3>1. CASE PresentDeps(n) = {}
      <4>1. Listed(n) > 0
        BY ListedAtLeastOnce
      <4>2. QED
        BY <3>1, <4>1, <2>2 DEF Init
    <3>2. CASE PresentDeps(n) # {}
      <4>1. Cardinality(PresentDeps(n)) \in Nat /\ Cardinality(PresentDeps(n)) # 0
        BY <2>2, <3>2, FS_CardinalityType, FS_EmptySet
      <4>2. QED
        BY <4>1, <2>2 DEF Init
    <3>3. QED
      BY <3>1, <3>2
  <2>5. OnlyListed
    BY <2>1 DEF Init, OnlyListed
  <2>6. OrderKept
    BY <2>1 DEF OrderKept
  <2>7. QED
    BY <2>3, <2>4, <2>5, <2>6 DEF RankedInv, NoneForgotten
<1>2. TypeOK /\ TypeOK' /\ (RankedByName => RankedInv) /\ [Next]_vars
      => (RankedByName => RankedInv)'
  <2> SUFFICES ASSUME TypeOK, TypeOK', RankedByName => RankedInv, [Next]_vars, RankedByName'
               PROVE  RankedInv'
    OBVIOUS
  <2>1. deps' = deps
    BY DEF Next, Pop, Finish, vars
  <2>2. RankedByName
    BY <2>1 DEF RankedByName
  <2>3. CASE Pop
    BY <2>2, <2>3, PopRanked
  <2>4. CASE Finish \/ UNCHANGED vars
    <3>1. UNCHANGED <<nodes, deps, indeg, ready, out>>
      BY <2>4 DEF Finish, vars
    <3>2. Present' = Present /\ Emitted' = Emitted
      BY <3>1 DEF Present, Emitted
    <3>3. QED
      BY <2>2, <3>1, <3>2
      DEF RankedInv, NotTooLarge, NoneForgotten, OnlyListed, OrderKept, PresentDeps
  <2>5. QED
    BY <2>3, <2>4 DEF Next
<1>3. QED
  BY <1>1, <1>2, TypeCorrect, PTL DEF Spec

\* OrderApply emits every id after its dependencies: for every graph when each
\* resource is listed once, and for every list when the ids are ranked.
THEOREM DependenciesFirst == Spec => []DepsFirst
<1>1. (NoDuplicates => IInv) /\ (RankedByName => RankedInv) => DepsFirst
  BY DEF IInv, RankedInv, DepsFirst
<1>2. QED
  BY <1>1, LoopInvariant, RankedInvariant, PTL

-----------------------------------------------------------------------------
(* The length test that stands for "something was left over".              *)

LEMMA LengthOfInput ==
  ASSUME TypeOK, NoDuplicates
  PROVE  Len(nodes) = Cardinality(Present)
<1>1. Len(nodes) \in Nat /\ DOMAIN nodes = 1 .. Len(nodes)
  BY DEF TypeOK
<1>2. nodes \in Bijection(1 .. Len(nodes), Present)
  <2>1. nodes \in [1 .. Len(nodes) -> Present]
    BY <1>1 DEF TypeOK, Present
  <2>2. QED
    BY <2>1, <1>1 DEF Bijection, Injection, IsInjective, Surjection, NoDuplicates, Present
<1>3. ExistsBijection(1 .. Len(nodes), Present)
  BY <1>2 DEF ExistsBijection
<1>4. QED
  BY <1>1, <1>3, FS_CountingElements

\* A duplicate-free input is only refused when the graph really has a cycle:
\* the ids left over block one another.
THEOREM CycleErrorIsReal == Spec => []ErrorOnlyOnCycle
<1>1. ASSUME TypeOK, NoDuplicates => IInv
      PROVE  ErrorOnlyOnCycle
  <2> SUFFICES ASSUME NoDuplicates, status = "cycle"
               PROVE  \E S \in SUBSET Present : Blocked(S)
    BY DEF ErrorOnlyOnCycle
  <2> DEFINE Left == Present \ Emitted
  <2>1. Queued = {} /\ Len(out) # Len(nodes)
    BY <1>1 DEF IInv, AnswerInv
  <2>2. Left # {}
    <3>1. SUFFICES ASSUME Left = {} PROVE FALSE
      OBVIOUS
    <3>2. Emitted = Present
      BY <3>1, <1>1 DEF IInv, OutInv
    <3>3. QED
      BY <3>2, <2>1, <1>1, LengthOfInput DEF IInv, OutInv
  <2>3. ASSUME NEW n \in Left
        PROVE  PresentDeps(n) \cap Left # {}
    <3>1. n \in Id
      BY <1>1, PresentType
    <3>2. ready[n] # 1
      BY <3>1, <2>1 DEF Queued
    <3>3. ~(PresentDeps(n) \subseteq Emitted)
      BY <3>1, <3>2, <1>1 DEF IInv, ReadyInv
    <3>4. QED
      BY <3>1, <3>3, <1>1, PresentType
  <2>4. Blocked(Left)
    BY <2>2, <2>3 DEF Blocked
  <2>5. QED
    BY <2>4
<1>2. QED
  BY <1>1, TypeCorrect, LoopInvariant, PTL

-----------------------------------------------------------------------------
(* What a sorted answer holds.                                             *)

LEMMA AllEmitted ==
  ASSUME TypeOK, NoDuplicates, IInv, status = "sorted"
  PROVE  Emitted = Present /\ Len(out) = Len(nodes)
<1>1. Len(out) = Len(nodes)
  BY DEF IInv, AnswerInv
<1>2. Cardinality(Emitted) = Cardinality(Present)
  BY <1>1, LengthOfInput DEF IInv, OutInv
<1>3. Emitted \subseteq Present /\ IsFiniteSet(Present)
  BY PresentType DEF IInv, OutInv
<1>4. QED
  BY <1>1, <1>2, <1>3, FS_Subset

\* Nobody in a set whose members wait for one another is ever emitted: the
\* first of them would have to be emitted after another one.
BlockedWaits == \A S \in SUBSET Present : Blocked(S) => S \cap Emitted = {}

LEMMA PopKeepsBlocked ==
  ASSUME TypeOK, IInv, BlockedWaits, Pop
  PROVE  BlockedWaits'
<1>1. PICK n \in Id : Pop!(n)
  BY DEF Pop
<1>2. ready[n] > 0
  BY <1>1 DEF IsHead, Queued
<1>3. PresentDeps(n) \subseteq Emitted
  BY <1>2 DEF IInv, ReadyInv
<1>4. Present' = Present /\ \A m \in Id : PresentDeps(m)' = PresentDeps(m)
  BY <1>1 DEF Present, PresentDeps
<1>5. Emitted' = Emitted \cup {n}
  <2>1. /\ \A i \in 1 .. Len(out) : out'[i] = out[i]
        /\ out'[Len(out) + 1] = n
        /\ Len(out) \in Nat /\ DOMAIN out = 1 .. Len(out)
        /\ DOMAIN out' = 1 .. (Len(out) + 1)
    BY <1>1 DEF TypeOK
  <2>2. QED
    BY <2>1 DEF Emitted
<1>6. SUFFICES ASSUME NEW S \in SUBSET Present, Blocked(S)'
               PROVE  S \cap Emitted' = {}
  BY <1>4 DEF BlockedWaits
<1>7. Blocked(S)
  BY <1>4, <1>6, PresentType DEF Blocked
<1>8. S \cap Emitted = {}
  BY <1>7 DEF BlockedWaits
<1>9. n \notin S
  BY <1>3, <1>7, <1>8 DEF Blocked
<1>10. QED
  BY <1>5, <1>8, <1>9

\* A graph with a cycle is never reported as sorted.
THEOREM CyclesAreReported == Spec => []CycleIsReported
<1> DEFINE P == NoDuplicates => BlockedWaits
<1>1. Init => P
  BY DEF Init, BlockedWaits, Emitted
<1>2. TypeOK /\ (NoDuplicates => IInv) /\ P /\ [Next]_vars => P'
  <2> SUFFICES ASSUME TypeOK, NoDuplicates => IInv, P, [Next]_vars, NoDuplicates'
               PROVE  BlockedWaits'
    OBVIOUS
  <2>1. NoDuplicates
    BY DEF NoDuplicates, Next, Pop, Finish, vars
  <2>2. CASE Pop
    BY <2>1, <2>2, PopKeepsBlocked
  <2>3. CASE Finish \/ UNCHANGED vars
    <3>1. UNCHANGED <<nodes, deps, out>>
      BY <2>3 DEF Finish, vars
    <3>2. Present' = Present /\ Emitted' = Emitted
      BY <3>1 DEF Present, Emitted
    <3>3. \A S : Blocked(S)' <=> Blocked(S)
      BY <3>1, <3>2 DEF Blocked, PresentDeps
    <3>4. QED
      BY <2>1, <3>2, <3>3 DEF BlockedWaits
  <2>4. QED
    BY <2>2, <2>3 DEF Next
<1>3. TypeOK /\ (NoDuplicates => IInv) /\ P => CycleIsReported
  <2> SUFFICES ASSUME TypeOK, NoDuplicates, IInv, BlockedWaits, status = "sorted",
                      NEW S \in SUBSET Present, Blocked(S)
               PROVE  FALSE
    BY DEF CycleIsReported
  <2>1. S \subseteq Emitted
    BY AllEmitted
  <2>2. QED
    BY <2>1 DEF BlockedWaits, Blocked
<1>4. QED
  BY <1>1, <1>2, <1>3, TypeCorrect, LoopInvariant, PTL DEF Spec

\* Every operation of a list without duplicates comes back exactly once, in
\* either direction.
THEOREM EveryOperationOnce == Spec => []EveryOpOnce
<1>1. ASSUME TypeOK, NoDuplicates => IInv
      PROVE  EveryOpOnce
  <2> SUFFICES ASSUME NoDuplicates, status = "sorted"
               PROVE  /\ Len(Ordered) = Len(nodes)
                      /\ \A k \in DOMAIN nodes : \E i \in DOMAIN Ordered : Ordered[i] = k
    BY <1>1 DEF EveryOpOnce
  <2> DEFINE ids == IF reverse THEN Reverse(out) ELSE out
  <2>1. Emitted = Present /\ Len(out) = Len(nodes)
    BY <1>1, AllEmitted
  <2>2. /\ out \in Seq(Id) /\ Len(out) \in Nat /\ DOMAIN out = 1 .. Len(out)
        /\ DOMAIN nodes = 1 .. Len(nodes)
    BY <1>1 DEF TypeOK
  <2>3. Reverse(out) = [i \in 1 .. Len(out) |-> out[(Len(out) - i) + 1]]
    BY DEF Reverse
  <2>4. ids \in Seq(Id) /\ Len(ids) = Len(out) /\ DOMAIN ids = 1 .. Len(out)
    BY <2>2, <2>3
  <2>5. Ordered = [i \in 1 .. Len(out) |-> ById(ids[i])]
    BY <2>4 DEF Ordered
  <2>6. Len(Ordered) = Len(nodes)
    BY <2>1, <2>2, <2>5
  <2>7. ASSUME NEW k \in DOMAIN nodes
        PROVE  \E i \in DOMAIN Ordered : Ordered[i] = k
    <3>1. ById(nodes[k]) = k
      BY <1>1, <2>2 DEF ById, NoDuplicates
    <3>2. PICK j \in 1 .. Len(out) : out[j] = nodes[k]
      BY <2>1, <2>2 DEF Emitted, Present
    <3>3. PICK i \in 1 .. Len(out) : ids[i] = out[j]
      <4>1. CASE reverse
        <5>1. (Len(out) - j) + 1 \in 1 .. Len(out)
          BY <2>2
        <5>2. ids[(Len(out) - j) + 1] = out[j]
          BY <4>1, <5>1, <2>2, <2>3
        <5>3. QED
          BY <5>1, <5>2
      <4>2. CASE ~reverse
        BY <4>2
      <4>3. QED
        BY <4>1, <4>2
    <3>4. QED
      BY <2>5, <3>1, <3>2, <3>3
  <2>8. QED
    BY <2>6, <2>7
<1>2. QED
  BY <1>1, TypeCorrect, LoopInvariant, PTL
=============================================================================
