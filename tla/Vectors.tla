------------------------------- MODULE Vectors --------------------------------
(***************************************************************************)
(* Growable vectors (src/vec.c, src/vec.h) in an arena, beside blocks of   *)
(* other kinds.                                                            *)
(*                                                                         *)
(* A vector is a block of the arena, its header and its elements; v is not *)
(* live while the program's pointer is NULL.  header is what the headers   *)
(* in memory say.  The program forgets its vectors when it resets or       *)
(* destroys the arena.  Two more variables record what happened: intact    *)
(* counts the leading elements that are still what was put there, and      *)
(* moved those ever copied from one place to another.                      *)
(*                                                                         *)
(* Definitions named X_y are X with the defect y.  The specification does  *)
(* not use them: with one in place of X, TLC finds a property violated.    *)
(***************************************************************************)
EXTENDS Arena

CONSTANTS
  Vecs,              \* the blocks that are vectors
  HEADER,            \* sizeof(quosiDynArrayHeader)
  ELEM,              \* sizeof *a
  QUOSIDS_INIT_LEN,
  Adds               \* how many elements are added at a time

ASSUME VectorAssumption ==
  /\ Vecs \subseteq Blocks
  /\ HEADER \in Nat \ {0} /\ ELEM \in Nat \ {0} /\ QUOSIDS_INIT_LEN \in Nat \ {0}
  /\ Adds \subseteq Nat

VARIABLES header, intact, moved

vectors == <<header, intact, moved>>
allVars == <<vars, vectors>>

empty == [len |-> 0, cap |-> 0]
Most(m, n) == IF m >= n THEN m ELSE n

-----------------------------------------------------------------------------
(* The bytes of a vector of capacity cap. *)
Extent(cap) == ELEM * cap + HEADER

(* What quosids_arrgrowf makes of the capacity, for n more elements. *)
Grown_exact(h, n) == Most(QUOSIDS_INIT_LEN, h.len + n)
Grown_double(h, n) == Most(QUOSIDS_INIT_LEN, 2 * h.cap)
Grown(h, n) ==
  LET min_cap == Most(QUOSIDS_INIT_LEN, h.len + n)
  IN IF min_cap < 2 * h.cap THEN 2 * h.cap ELSE min_cap

(* The size quosids_arrgrowf says the old block has. *)
OldSize_bare(h) == ELEM * h.cap
OldSize_doubled(h) == ELEM * 2 * h.cap + HEADER
OldSize(h) == ELEM * h.cap + HEADER

(* quosids_arrgrowf where it allocates, or moves or extends the block: a   *)
(* vector of capacity cap with n more elements.                            *)
arrgrowf(v, cap, n) ==
  LET h == header[v]
      copied == live'[v].ptr # live[v].ptr
      kept == (Least(Extent(cap), OldSize(h)) - HEADER) \div ELEM
  IN /\ Extent(cap) \in Sizes
     /\ IF v \in Live THEN Reallocate(v, OldSize(h), Extent(cap)) ELSE Allocate(v, Extent(cap))
     /\ IF status' # "OK" THEN UNCHANGED vectors
        ELSE /\ header' = [header EXCEPT ![v] = [len |-> h.len + n, cap |-> cap]]
             /\ intact' = [intact EXCEPT ![v] =
                             (IF v \in Live /\ copied THEN Least(@, kept) ELSE @) + n]
             /\ moved' = [moved EXCEPT ![v] = IF v \in Live /\ copied THEN @ + h.cap ELSE @]

(* quosids_arraddn, quosids_arrpush *)
arraddn(v, n) ==
  LET h == header[v]
  IN IF v \notin Live \/ h.len + n > h.cap
     THEN arrgrowf(v, Grown(h, n), n)
     ELSE /\ status = "OK"
          /\ header' = [header EXCEPT ![v].len = @ + n]
          /\ intact' = [intact EXCEPT ![v] = @ + n]
          /\ UNCHANGED <<vars, moved>>

(* quosids_arrfree *)
arrfree(v) ==
  /\ Deallocate(v)
  /\ header' = [header EXCEPT ![v] = empty]
  /\ intact' = [intact EXCEPT ![v] = 0] /\ moved' = [moved EXCEPT ![v] = 0]

Forget ==
  /\ header' = [v \in Vecs |-> empty]
  /\ intact' = [v \in Vecs |-> 0] /\ moved' = [v \in Vecs |-> 0]

-----------------------------------------------------------------------------
VecInit ==
  /\ Init
  /\ header = [v \in Vecs |-> empty]
  /\ intact = [v \in Vecs |-> 0] /\ moved = [v \in Vecs |-> 0]

Plain ==
  /\ \E b \in Blocks \ Vecs :
       \/ \E n \in Sizes : Allocate(b, n) \/ Reallocate(b, live[b].len, n)
       \/ Deallocate(b)
  /\ UNCHANGED vectors

VecNext ==
  \/ \E v \in Vecs : arrfree(v) \/ \E n \in Adds : arraddn(v, n)
  \/ Plain
  \/ (Reset \/ Destroy) /\ Forget
  \/ \E c \in Configs : Create(c) /\ Forget

VecSpec == VecInit /\ [][VecNext]_allVars

-----------------------------------------------------------------------------
Alive == {v \in Vecs : status = "OK" /\ v \in Live}

(* A vector's elements lie in its block, the size it remembers is the      *)
(* block's, and whatever was put in it is still there, through every       *)
(* growth, in place or by a move, of it and of its neighbours              *)
(* (vec.c:26-55).                                                          *)
Elements ==
  \A v \in Alive : /\ header[v].len <= header[v].cap
                   /\ live[v].len = Extent(header[v].cap)
                   /\ intact[v] = header[v].len

(* Adding elements one by one is linear: fewer elements were ever copied   *)
(* than there is room for, and that is at most twice what was added, or    *)
(* the first capacity (vec.c:38-42).                                       *)
Amortised ==
  \A v \in Alive : /\ moved[v] <= header[v].cap
                   /\ header[v].cap <= Most(QUOSIDS_INIT_LEN, 2 * header[v].len)

(* Vectors keep the contract of the arena: they give back only what they   *)
(* have, and say truly how long it is (alloc.c:154-171).                   *)
KeepsContract == Spec
=============================================================================
