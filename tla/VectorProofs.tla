----------------------------- MODULE VectorProofs -----------------------------
(***************************************************************************)
(* Proofs about the vectors of Vectors.tla: for every arena, every set of  *)
(* vectors and of other blocks, every size of element, and every number of *)
(* elements added at a time.                                               *)
(***************************************************************************)
EXTENDS Vectors, ArenaProofs

-----------------------------------------------------------------------------
(* The inductive invariant *)

VecTypes ==
  /\ header \in [Vecs -> [len : Nat, cap : Nat]]
  /\ intact \in [Vecs -> Nat] /\ moved \in [Vecs -> Nat]

(* What a vector is worth keeping in mind for, while it has a block. *)
Sound(v) ==
  /\ header[v].len <= header[v].cap
  /\ live[v].len = Extent(header[v].cap)
  /\ intact[v] = header[v].len
  /\ moved[v] <= header[v].cap
  /\ header[v].cap <= Most(QUOSIDS_INIT_LEN, 2 * header[v].len)

Unborn(v) == header[v] = empty /\ intact[v] = 0 /\ moved[v] = 0

VInv ==
  /\ VecTypes
  /\ status = "OK" => \A v \in Vecs : IF v \in Live THEN Sound(v) ELSE Unborn(v)

-----------------------------------------------------------------------------
(* Growing *)

(* A vector that has no room gets more than it needs, at least twice what  *)
(* it had, and no more than twice what it then holds (vec.c:29-42).        *)
LEMMA GrowsEnough ==
  ASSUME NEW h \in [len : Nat, cap : Nat], NEW n \in Nat,
         h = empty \/ h.len + n > h.cap
  PROVE  /\ Grown(h, n) \in Nat
         /\ h.len + n <= Grown(h, n)
         /\ 2 * h.cap <= Grown(h, n)
         /\ Grown(h, n) <= Most(QUOSIDS_INIT_LEN, 2 * (h.len + n))
<1>1. QUOSIDS_INIT_LEN \in Nat \ {0} /\ h.len \in Nat /\ h.cap \in Nat
  BY VectorAssumption
<1>2. h.len + n > h.cap \/ h.cap = 0
  BY DEF empty
<1> QED BY <1>1, <1>2 DEF Grown, Most

(* A copy of the whole old block holds every element there was. *)
LEMMA KeepsAll ==
  ASSUME NEW old \in Nat, NEW new \in Nat, old <= new
  PROVE  (Least(Extent(new), ELEM * old + HEADER) - HEADER) \div ELEM = old
<1>1. ELEM \in Nat \ {0} /\ HEADER \in Nat \ {0}
  BY VectorAssumption
<1>2. PICK more \in Nat : new = old + more
  <2>1. new - old \in Nat /\ new = old + (new - old)
    OBVIOUS
  <2> QED BY <2>1
<1>3. ELEM * new = ELEM * old + ELEM * more /\ ELEM * old \in Nat /\ ELEM * more \in Nat
  BY <1>1, <1>2
<1>4. Least(Extent(new), ELEM * old + HEADER) - HEADER = ELEM * old
  BY <1>1, <1>3 DEF Least, Extent
<1>5. old * ELEM <= ELEM * old /\ ELEM * old < old * ELEM + ELEM
  BY <1>1, <1>3
<1>6. (ELEM * old) \div ELEM = old
  BY <1>1, <1>3, <1>5, QuotientUnique
<1> QED BY <1>4, <1>6

-----------------------------------------------------------------------------
(* What the arena's actions do to the blocks *)

(* An allocation that succeeds adds one block. *)
LEMMA AllocateAdds ==
  ASSUME NEW b, NEW n, Allocate(b, n), status' = "OK"
  PROVE  /\ status = "OK" /\ b \notin Live /\ Live' = Live \cup {b}
         /\ live'[b].len = n
         /\ \A c \in Live \ {b} : live'[c] = live[c]
BY DEF Allocate, HandOut, Ends, Live

(* Growing or shrinking one changes no other. *)
LEMMA ReallocateChanges ==
  ASSUME NEW b, NEW o, NEW n, Reallocate(b, o, n), status' = "OK"
  PROVE  /\ status = "OK" /\ b \in Live /\ Live' = Live
         /\ live'[b].len = n
         /\ \A c \in Live \ {b} : live'[c] = live[c]
BY DEF Reallocate, HandOut, Ends, Live

(* Freeing one removes it. *)
LEMMA DeallocateRemoves ==
  ASSUME NEW b, Deallocate(b)
  PROVE  /\ status = "OK" /\ status' = "OK" /\ b \in Live /\ Live' = Live \ {b}
         /\ \A c \in Live \ {b} : live'[c] = live[c]
BY DEF Deallocate, Drop, Live

-----------------------------------------------------------------------------
(* The actions *)

(* Adding elements, with or without room for them. *)
LEMMA AddKeeps ==
  ASSUME VInv, NEW v \in Vecs, NEW n \in Nat, arraddn(v, n)
  PROVE  VInv'
<1> DEFINE h == header[v]
           cap == Grown(h, n)
<1>1. /\ h \in [len : Nat, cap : Nat] /\ h.len \in Nat /\ h.cap \in Nat
      /\ intact[v] \in Nat /\ moved[v] \in Nat /\ VecTypes
  BY DEF VInv, VecTypes
<1>2. QUOSIDS_INIT_LEN \in Nat
  BY VectorAssumption
<1>3. CASE v \in Live /\ ~ h.len + n > h.cap
  <2>1. /\ status = "OK" /\ UNCHANGED <<vars, moved>>
        /\ header' = [header EXCEPT ![v].len = @ + n]
        /\ intact' = [intact EXCEPT ![v] = @ + n]
    BY <1>3 DEF arraddn
  <2>2. status' = "OK" /\ live' = live /\ Live' = Live /\ moved' = moved
    BY <2>1 DEF vars, Live
  <2>3. header'[v] = [len |-> h.len + n, cap |-> h.cap] /\ intact'[v] = intact[v] + n
    BY <1>1, <2>1 DEF VecTypes
  <2>4. VecTypes'
    BY <1>1, <2>1, <2>2 DEF VecTypes
  <2>5. Sound(v)'
    <3>1. Sound(v)
      BY <1>3, <2>1 DEF VInv
    <3>2. 2 * h.len <= 2 * (h.len + n)
      BY <1>1
    <3> QED BY <1>1, <1>2, <1>3, <2>2, <2>3, <3>1, <3>2 DEF Sound, Most, Extent
  <2>6. ASSUME NEW w \in Vecs \ {v}
        PROVE  IF w \in Live' THEN Sound(w)' ELSE Unborn(w)'
    <3>1. header'[w] = header[w] /\ intact'[w] = intact[w]
      BY <1>1, <2>1 DEF VecTypes
    <3> QED BY <2>1, <2>2, <3>1 DEF VInv, Sound, Unborn, Extent
  <2> QED BY <1>3, <2>2, <2>4, <2>5, <2>6 DEF VInv
<1>4. CASE v \notin Live \/ h.len + n > h.cap
  <2>1. arrgrowf(v, cap, n)
    BY <1>4 DEF arraddn
  <2>2. CASE status' # "OK"
    BY <1>1, <2>1, <2>2 DEF arrgrowf, vectors, VInv, VecTypes
  <2>3. CASE status' = "OK"
    <3>1. /\ status = "OK" /\ Live' = Live \cup {v}
          /\ live'[v].len = Extent(cap)
          /\ \A c \in Live \ {v} : live'[c] = live[c]
      <4>1. CASE v \in Live
        BY <2>1, <2>3, <4>1, ReallocateChanges DEF arrgrowf
      <4>2. CASE v \notin Live
        BY <2>1, <2>3, <4>2, AllocateAdds DEF arrgrowf
      <4> QED BY <4>1, <4>2
    <3>2. IF v \in Live THEN Sound(v) ELSE Unborn(v)
      BY <3>1 DEF VInv
    <3>3. /\ cap \in Nat /\ h.len + n <= cap /\ 2 * h.cap <= cap
          /\ cap <= Most(QUOSIDS_INIT_LEN, 2 * (h.len + n))
      BY <1>1, <1>4, <3>2, GrowsEnough DEF Unborn
    <3> HIDE DEF cap
    <3> DEFINE copied == live'[v].ptr # live[v].ptr
               kept == (Least(Extent(cap), OldSize(h)) - HEADER) \div ELEM
    <3>4. kept = h.cap
      BY <1>1, <3>3, KeepsAll DEF OldSize
    <3>5. /\ header' = [header EXCEPT ![v] = [len |-> h.len + n, cap |-> cap]]
          /\ intact' = [intact EXCEPT ![v] =
                          (IF v \in Live /\ copied THEN Least(@, kept) ELSE @) + n]
          /\ moved' = [moved EXCEPT ![v] = IF v \in Live /\ copied THEN @ + h.cap ELSE @]
      BY <2>1, <2>3 DEF arrgrowf
    <3> HIDE DEF copied, kept
    <3>6. /\ header'[v] = [len |-> h.len + n, cap |-> cap]
          /\ intact'[v] = (IF v \in Live /\ copied THEN Least(intact[v], kept) ELSE intact[v]) + n
          /\ moved'[v] = IF v \in Live /\ copied THEN moved[v] + h.cap ELSE moved[v]
      BY <1>1, <3>5 DEF VecTypes
    <3>7. intact[v] = h.len /\ h.len <= h.cap /\ moved[v] <= h.cap
      BY <3>2 DEF Sound, Unborn, empty
    <3>8. intact'[v] = h.len + n /\ moved'[v] <= cap /\ moved'[v] \in Nat
      BY <1>1, <3>3, <3>4, <3>6, <3>7 DEF Least
    <3>9. VecTypes'
      <4>1. [len |-> h.len + n, cap |-> cap] \in [len : Nat, cap : Nat]
        BY <1>1, <3>3
      <4>2. intact'[v] \in Nat
        BY <1>1, <3>8
      <4> QED BY <1>1, <3>5, <3>6, <3>8, <4>1, <4>2 DEF VecTypes
    <3>10. Sound(v)'
      BY <3>1, <3>3, <3>6, <3>8 DEF Sound, Extent, Most
    <3>11. ASSUME NEW w \in Vecs \ {v}
           PROVE  IF w \in Live' THEN Sound(w)' ELSE Unborn(w)'
      <4>1. header'[w] = header[w] /\ intact'[w] = intact[w] /\ moved'[w] = moved[w]
        BY <1>1, <3>5 DEF VecTypes
      <4>2. w \in Live' <=> w \in Live
        BY <3>1
      <4>3. w \in Live => live'[w] = live[w]
        BY <3>1
      <4> QED BY <3>1, <4>1, <4>2, <4>3 DEF VInv, Sound, Unborn, Extent
    <3> QED BY <3>1, <3>9, <3>10, <3>11 DEF VInv
  <2> QED BY <2>2, <2>3
<1> QED BY <1>3, <1>4

(* Freeing a vector. *)
LEMMA FreeKeeps ==
  ASSUME VInv, NEW v \in Vecs, arrfree(v)
  PROVE  VInv'
<1>1. /\ status = "OK" /\ Live' = Live \ {v}
      /\ \A c \in Live \ {v} : live'[c] = live[c]
  BY DeallocateRemoves DEF arrfree
<1>2. /\ header' = [header EXCEPT ![v] = empty]
      /\ intact' = [intact EXCEPT ![v] = 0] /\ moved' = [moved EXCEPT ![v] = 0]
  BY DEF arrfree
<1>3. VecTypes /\ VecTypes'
  BY <1>2 DEF VInv, VecTypes, empty
<1>4. Unborn(v)'
  BY <1>2, <1>3 DEF VecTypes, Unborn, empty
<1>5. ASSUME NEW w \in Vecs \ {v}
      PROVE  IF w \in Live' THEN Sound(w)' ELSE Unborn(w)'
  <2>1. header'[w] = header[w] /\ intact'[w] = intact[w] /\ moved'[w] = moved[w]
    BY <1>2, <1>3 DEF VecTypes
  <2>2. w \in Live' <=> w \in Live
    BY <1>1
  <2>3. w \in Live => live'[w] = live[w]
    BY <1>1
  <2> QED BY <1>1, <2>1, <2>2, <2>3 DEF VInv, Sound, Unborn, Extent
<1> QED BY <1>1, <1>3, <1>4, <1>5 DEF VInv

(* What becomes of other blocks is nothing to the vectors. *)
LEMMA PlainKeeps ==
  ASSUME VInv, Plain
  PROVE  VInv'
<1>1. UNCHANGED <<header, intact, moved>>
  BY DEF Plain, vectors
<1>2. VecTypes'
  BY <1>1 DEF VInv, VecTypes
<1>3. CASE status' = "OK"
  <2>1. PICK b \in Blocks \ Vecs :
          \/ \E n \in Sizes : Allocate(b, n) \/ Reallocate(b, live[b].len, n)
          \/ Deallocate(b)
    BY DEF Plain
  <2>2. /\ status = "OK"
        /\ \A c \in Vecs : c \in Live' <=> c \in Live
        /\ \A c \in Live \ {b} : live'[c] = live[c]
    BY <1>3, <2>1, AllocateAdds, ReallocateChanges, DeallocateRemoves
  <2>3. ASSUME NEW w \in Vecs
        PROVE  IF w \in Live' THEN Sound(w)' ELSE Unborn(w)'
    <3>1. (w \in Live' <=> w \in Live) /\ (w \in Live => live'[w] = live[w])
      BY <2>1, <2>2
    <3> QED BY <1>1, <2>2, <3>1 DEF VInv, Sound, Unborn, Extent
  <2> QED BY <1>2, <2>3 DEF VInv
<1> QED BY <1>2, <1>3 DEF VInv

(* A new, reset or destroyed arena has no vectors, and one that could not  *)
(* be made none that is used.                                              *)
LEMMA ForgetKeeps ==
  ASSUME Forget, Live' = {} \/ status' # "OK"
  PROVE  VInv'
BY DEF Forget, VInv, VecTypes, Unborn, empty

-----------------------------------------------------------------------------
(* The theorems *)

(* The invariant holds at first, and every step keeps it. *)
LEMMA VectorsInit == VecInit => VInv
BY DEF VecInit, Init, VInv, VecTypes, empty

LEMMA VectorsStep == VInv /\ [VecNext]_allVars => VInv'
<1> SUFFICES ASSUME VInv, [VecNext]_allVars PROVE VInv'
  OBVIOUS
<1>1. CASE UNCHANGED allVars
  BY <1>1 DEF allVars, vars, vectors, VInv, VecTypes, Sound, Unborn, Live, Extent
<1>2. ASSUME NEW v \in Vecs, arrfree(v) PROVE VInv'
  BY <1>2, FreeKeeps
<1>3. ASSUME NEW v \in Vecs, NEW n \in Adds, arraddn(v, n) PROVE VInv'
  BY <1>3, AddKeeps, VectorAssumption
<1>4. CASE Plain
  BY <1>4, PlainKeeps
<1>5. CASE (Reset \/ Destroy) /\ Forget
  BY <1>5, ForgetKeeps DEF Reset, Destroy, Live
<1>6. ASSUME NEW c \in Configs, Create(c), Forget PROVE VInv'
  BY <1>6, ForgetKeeps DEF Create, Created, Ends, Live
<1> QED BY <1>1, <1>2, <1>3, <1>4, <1>5, <1>6 DEF VecNext

LEMMA VectorsInvariant == VecSpec => []VInv
<1> QED BY VectorsInit, VectorsStep, PTL DEF VecSpec

(* A vector of an arena holds what was put in it, in a block of the size   *)
(* it remembers, wherever growth has taken it (vec.c:26-55).               *)
THEOREM VectorElements == VecSpec => []Elements
<1>1. VInv => Elements
  BY DEF VInv, Elements, Alive, Sound
<1> QED BY <1>1, VectorsInvariant, PTL

(* Fewer elements were ever copied than a vector has room for, and that is *)
(* at most twice what it holds, or the first capacity (vec.c:38-42).       *)
THEOREM VectorsAmortise == VecSpec => []Amortised
<1>1. VInv => Amortised
  BY DEF VInv, Amortised, Alive, Sound
<1> QED BY <1>1, VectorsInvariant, PTL

(* Vectors do to the arena only what its contract allows: every step of    *)
(* theirs is one of Arena.tla's, with the true size of the old block       *)
(* (vec.c:48-51).                                                          *)
THEOREM VectorsKeepContract == VecSpec => KeepsContract
<1>1. VecInit => Init
  BY DEF VecInit
<1>2. VInv /\ [VecNext]_allVars => [Next]_vars
  <2> SUFFICES ASSUME VInv, [VecNext]_allVars PROVE [Next]_vars
    OBVIOUS
  <2>1. CASE UNCHANGED allVars
    BY <2>1 DEF allVars
  <2>2. ASSUME NEW v \in Vecs, arrfree(v) PROVE Next
    BY <2>2, VectorAssumption DEF arrfree, Next
  <2>3. ASSUME NEW v \in Vecs, NEW n \in Adds, arraddn(v, n) PROVE [Next]_vars
    <3> DEFINE cap == Grown(header[v], n)
    <3>1. CASE v \in Live /\ ~ header[v].len + n > header[v].cap
      BY <2>3, <3>1 DEF arraddn
    <3>2. CASE v \notin Live \/ header[v].len + n > header[v].cap
      <4>1. arrgrowf(v, cap, n) /\ v \in Blocks
        BY <2>3, <3>2, VectorAssumption DEF arraddn
      <4> HIDE DEF cap
      <4>2. CASE v \notin Live
        BY <4>1, <4>2 DEF arrgrowf, Next
      <4>3. CASE v \in Live
        <5>1. Extent(cap) \in Sizes /\ Reallocate(v, OldSize(header[v]), Extent(cap))
          BY <4>1, <4>3 DEF arrgrowf
        <5>2. live[v].len = OldSize(header[v])
          BY <4>3, <5>1 DEF VInv, Sound, Extent, OldSize, Reallocate
        <5>3. Reallocate(v, live[v].len, Extent(cap))
          BY <5>1, <5>2
        <5> QED BY <4>1, <5>1, <5>3 DEF Next
      <4> QED BY <4>2, <4>3
    <3> QED BY <3>1, <3>2
  <2>4. CASE Plain
    BY <2>4 DEF Plain, Next
  <2>5. CASE (Reset \/ Destroy) /\ Forget
    BY <2>5 DEF Next
  <2>6. ASSUME NEW c \in Configs, Create(c) PROVE Next
    BY <2>6 DEF Next
  <2> QED BY <2>1, <2>2, <2>3, <2>4, <2>5, <2>6 DEF VecNext
<1> QED BY <1>1, <1>2, VectorsInvariant, PTL DEF VecSpec, KeepsContract, Spec

(* So no vector or block next to one ever loses what was written in it.    *)
THEOREM VectorsIntact == ResetsUnused = FALSE => (VecSpec => []Intact)
<1> SUFFICES ASSUME ResetsUnused = FALSE PROVE VecSpec => []Intact
  OBVIOUS
<1>1. VecSpec => Spec
  BY VectorsKeepContract DEF KeepsContract
<1>2. Spec => []Intact
  BY BlocksIntact
<1> QED BY <1>1, <1>2, PTL
=============================================================================
