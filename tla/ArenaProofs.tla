----------------------------- MODULE ArenaProofs -----------------------------
(***************************************************************************)
(* Proofs about the arena of Arena.tla, for every page size, alignment,    *)
(* configuration and set of blocks, of a client that resets only an arena  *)
(* it has allocated from.                                                  *)
(***************************************************************************)
EXTENDS Arena, TLAPS

USE DEF NULL

-----------------------------------------------------------------------------
(* Rounding *)

(* What division by a positive number gives. *)
LEMMA Quotient ==
  ASSUME NEW m \in Nat, NEW n \in Nat \ {0}
  PROVE  m \div n \in Nat /\ (m \div n) * n <= m /\ m < (m \div n) * n + n
OBVIOUS

(* ... and that nothing else does. *)
LEMMA QuotientUnique ==
  ASSUME NEW m \in Nat, NEW n \in Nat \ {0}, NEW k \in Nat,
         k * n <= m, m < k * n + n
  PROVE  m \div n = k
<1> DEFINE q == m \div n
<1>1. q \in Nat /\ q * n <= m /\ m < q * n + n
  BY Quotient
<1> HIDE DEF q
<1>2. ASSUME q < k PROVE FALSE
  <2>1. (q + 1) * n <= k * n
    BY <1>1, <1>2
  <2> QED BY <2>1, <1>1
<1>3. ASSUME k < q PROVE FALSE
  <2>1. (k + 1) * n <= q * n
    BY <1>1, <1>3
  <2> QED BY <2>1, <1>1
<1> QED BY <1>1, <1>2, <1>3 DEF q

(* ROUND rounds up, to a multiple (alloc.c:29). *)
LEMMA RoundUp ==
  ASSUME NEW x \in Nat, NEW n \in Nat \ {0}
  PROVE  /\ ROUND(x, n) \in Nat /\ x <= ROUND(x, n)
         /\ \E k \in Nat : ROUND(x, n) = k * n
<1> DEFINE k == (x + n - 1) \div n
<1>1. k \in Nat /\ x + n - 1 < k * n + n
  BY Quotient
<1>2. ROUND(x, n) = k * n
  BY DEF ROUND
<1> HIDE DEF k
<1>3. k * n \in Nat
  BY <1>1
<1> QED BY <1>1, <1>2, <1>3

(* A multiple is left as it is. *)
LEMMA RoundMultiple ==
  ASSUME NEW k \in Nat, NEW n \in Nat \ {0}
  PROVE  ROUND(k * n, n) = k * n
<1> DEFINE m == k * n + n - 1
<1>1. m \in Nat /\ k * n <= m /\ m < k * n + n
  OBVIOUS
<1>2. m \div n = k
  BY <1>1, QuotientUnique
<1> QED BY <1>2 DEF ROUND

-----------------------------------------------------------------------------
(* The inductive invariant *)

End(b) == live[b].ptr + live[b].len

(* Blocks lie below curr_ptr, apart from one another, and the block that   *)
(* last_ptr points at, which may grow or be given back, above all others.  *)
Layout ==
  /\ \A b \in Live : End(b) <= curr
  /\ \A b, c \in Live : b # c => End(b) <= live[c].ptr \/ End(c) <= live[b].ptr
  /\ last # NULL => \A b \in Live : live[b].ptr = last \/ End(b) <= last

(* Pages are committed whole, and never fewer than a reset leaves.         *)
Paged ==
  /\ \E k \in Nat : commit = k * PAGE
  /\ commit = 0 \/ blocksize <= commit

IInv ==
  /\ TypeOK
  /\ status # "FAULT"
  /\ status = "OK" => Layout /\ Paged
  /\ Intact
  /\ Accounted

-----------------------------------------------------------------------------
(* Growing *)

(* The block size is positive and a whole number of pages. *)
LEMMA BlockSize ==
  ASSUME NEW c \in Configs
  PROVE  /\ ROUND(c.initial, PAGE) \in Nat \ {0}
         /\ \E k \in Nat : ROUND(c.initial, PAGE) = k * PAGE
<1> DEFINE n == c.initial
<1>1. n \in Nat \ {0} /\ PAGE \in Nat \ {0}
  BY ArenaAssumption
<1> HIDE DEF n
<1>2. /\ ROUND(n, PAGE) \in Nat /\ n <= ROUND(n, PAGE)
      /\ \E k \in Nat : ROUND(n, PAGE) = k * PAGE
  BY <1>1, RoundUp
<1> QED BY <1>1, <1>2 DEF n

(* A room that was granted: the arena's commit has grown to hold what is   *)
(* used, by whole pages, each of which the kernel has made accessible.     *)
LEMMA RoomHolds ==
  ASSUME IInv, status = "OK", NEW used \in Nat
  PROVE  LET room == Room(used)
         IN /\ room.commit \in Nat /\ commit <= room.commit /\ used <= room.commit
            /\ \E k \in Nat : room.commit = k * PAGE
            /\ room.commit = 0 \/ blocksize <= room.commit
            /\ accessible \subseteq room.accessible /\ room.accessible \subseteq Nat
            /\ 0 .. room.commit - 1 \subseteq room.accessible
            /\ cfg.source = "PAGE" => room.accessible = 0 .. room.commit - 1
<1> DEFINE size == NewSize(commit, used)
<1>1. /\ commit \in Nat /\ accessible \subseteq Nat /\ cfg \in Configs /\ Paged
      /\ 0 .. commit - 1 \subseteq accessible
      /\ cfg.source = "PAGE" => accessible = 0 .. commit - 1
  BY DEF IInv, TypeOK, Accounted
<1>2. CASE used <= commit
  BY <1>1, <1>2 DEF Room, Paged
<1>3. CASE ~ used <= commit
  <2>1. PAGE \in Nat \ {0}
    BY ArenaAssumption
  <2>2. blocksize \in Nat \ {0} /\ \E k \in Nat : blocksize = k * PAGE
    BY <1>1, BlockSize DEF blocksize
  <2> DEFINE doubled == commit + (IF commit = 0 \/ policy = "LINEAR" THEN blocksize ELSE commit)
  <2>3. /\ doubled \in Nat /\ commit < doubled /\ blocksize <= doubled
        /\ \E k \in Nat : doubled = k * PAGE
    <3>1. PICK i \in Nat : commit = i * PAGE
      BY <1>1 DEF Paged
    <3>2. PICK j \in Nat : blocksize = j * PAGE
      BY <2>2
    <3>3. doubled \in {(i + i) * PAGE, (i + j) * PAGE}
      BY <2>1, <3>1, <3>2
    <3>4. doubled \in Nat /\ commit < doubled /\ blocksize <= doubled
      BY <1>1, <2>2 DEF Paged
    <3> QED BY <3>3, <3>4
  <2>4. size = IF used > doubled THEN ROUND(used, PAGE) ELSE doubled
    BY DEF NewSize
  <2>5. /\ ROUND(used, PAGE) \in Nat /\ used <= ROUND(used, PAGE)
        /\ \E k \in Nat : ROUND(used, PAGE) = k * PAGE
    BY <2>1, RoundUp
  <2> HIDE DEF doubled, size
  <2>6. /\ size \in Nat /\ commit < size /\ used <= size /\ blocksize <= size
        /\ \E k \in Nat : size = k * PAGE
    <3>1. CASE used > doubled
      BY <1>1, <2>2, <2>3, <2>4, <2>5, <3>1
    <3>2. CASE ~ used > doubled
      BY <1>1, <2>2, <2>3, <2>4, <3>2
    <3> QED BY <3>1, <3>2
  <2>7. ROUND(size, PAGE) = size
    BY <2>1, <2>6, RoundMultiple
  <2>8. Room(used).commit = size /\ Room(used).accessible = accessible \cup commit .. size - 1
    BY <1>3, <2>7 DEF Room, size
  <2> QED BY <1>1, <2>2, <2>6, <2>8
<1> QED BY <1>2, <1>3

-----------------------------------------------------------------------------
(* Handing out a block *)

(* A block b of len bytes is put at ptr, above every other block, in a     *)
(* room that holds it; its first bytes are copies of b's own.              *)
LEMMA HandOutKeeps ==
  ASSUME IInv, status = "OK", NEW b \in Blocks, NEW ptr \in Nat, NEW len \in Sizes,
         NEW old, NEW kept \in Nat,
         kept <= len,
         kept > 0 => b \in Live /\ old = live[b].ptr /\ kept <= live[b].len,
         \A c \in Live \ {b} : End(c) <= ptr,
         HandOut(Room(ptr + ROUND(len, ALIGN)), b, ptr, len, old, kept)
  PROVE  IInv'
<1> DEFINE used == ptr + ROUND(len, ALIGN)
           room == Room(used)
<1>1. len \in Nat \ {0} /\ ALIGN \in Nat \ {0}
  BY ArenaAssumption
<1>2. used \in Nat /\ ptr + len <= used
  <2>1. ROUND(len, ALIGN) \in Nat /\ len <= ROUND(len, ALIGN)
    BY <1>1, RoundUp
  <2> QED BY <1>1, <2>1
<1>3. /\ curr' = used /\ last' = ptr /\ commit' = room.commit
      /\ accessible' = room.accessible
      /\ live' = [c \in Live \cup {b} |->
                    IF c = b THEN [ptr |-> ptr, len |-> len] ELSE live[c]]
      /\ holds' = Written(accessible', b, ptr, len, old, kept)
      /\ status' = IF Bytes(ptr, len) \subseteq accessible' THEN "OK" ELSE "FAULT"
      /\ UNCHANGED <<cfg, policy>>
  BY DEF HandOut
<1> HIDE DEF used
<1>4. /\ room.commit \in Nat /\ used <= room.commit
      /\ \E k \in Nat : room.commit = k * PAGE
      /\ room.commit = 0 \/ blocksize <= room.commit
      /\ accessible \subseteq room.accessible /\ room.accessible \subseteq Nat
      /\ 0 .. room.commit - 1 \subseteq room.accessible
      /\ cfg.source = "PAGE" => room.accessible = 0 .. room.commit - 1
  BY <1>2, RoomHolds
<1> HIDE DEF room
<1>5. Bytes(ptr, len) \subseteq accessible'
  BY <1>1, <1>2, <1>3, <1>4 DEF Bytes
<1>6. status' = "OK"
  BY <1>3, <1>5
<1>7. /\ Live' = Live \cup {b}
      /\ live'[b] = [ptr |-> ptr, len |-> len]
      /\ \A c \in Live \ {b} : live'[c] = live[c]
  BY <1>3 DEF Live
<1>8. /\ Live \subseteq Blocks
      /\ \A c \in Live : live[c].ptr \in Nat /\ live[c].len \in Sizes
      /\ \A c \in Live : live[c].ptr \in Nat /\ live[c].len \in Nat \ {0}
      /\ \A c \in Live : live[c] \in [ptr : Nat, len : Sizes]
  BY ArenaAssumption DEF IInv, TypeOK
<1>9. TypeOK'
  <2>1. cfg' \in Configs /\ policy' \in {"STATIC", "LINEAR", "GEOMETRIC"}
    BY <1>3 DEF IInv, TypeOK
  <2>2. /\ curr' \in Nat /\ last' \in Nat \cup {NULL} /\ commit' \in Nat
        /\ accessible' \subseteq Nat
    BY <1>2, <1>3, <1>4
  <2>3. Live' \subseteq Blocks /\ \A c \in Live' : live'[c] \in [ptr : Nat, len : Sizes]
    BY <1>7, <1>8
  <2>4. holds' \in [accessible' -> Blocks \cup {Nobody}]
    <3>1. holds \in [accessible -> Blocks \cup {Nobody}]
      BY DEF IInv, TypeOK
    <3> QED BY <1>3, <3>1 DEF Written
  <2> QED BY <1>6, <2>1, <2>2, <2>3, <2>4 DEF TypeOK
<1>10. Layout'
  <2>1. \A c \in Live \ {b} : End(c)' = End(c) /\ live'[c].ptr = live[c].ptr
    BY <1>7 DEF End
  <2>2. End(b)' = ptr + len /\ live'[b].ptr = ptr
    BY <1>7 DEF End
  <2>3. \A c \in Live : End(c) \in Nat
    BY <1>8 DEF End
  <2>4. \A c \in Live' : End(c)' <= curr'
    BY <1>1, <1>2, <1>3, <1>7, <2>1, <2>2, <2>3
  <2>5. \A c, d \in Live' : c # d => End(c)' <= live'[d].ptr \/ End(d)' <= live'[c].ptr
    <3>1. \A c, d \in Live : c # d => End(c) <= live[d].ptr \/ End(d) <= live[c].ptr
      BY DEF IInv, Layout
    <3> QED BY <1>7, <2>1, <2>2, <3>1
  <2>6. \A c \in Live' : live'[c].ptr = last' \/ End(c)' <= last'
    BY <1>3, <1>7, <2>1, <2>2
  <2> QED BY <2>4, <2>5, <2>6 DEF Layout
<1>11. Paged'
  BY <1>3, <1>4 DEF Paged, blocksize
<1>12. Accounted'
  BY <1>3, <1>4 DEF Accounted
<1>13. Intact'
  <2>1. \A c \in Live : \A a \in Bytes(live[c].ptr, live[c].len) :
          a \in accessible /\ holds[a] = c
    BY DEF IInv, Intact
  <2>2. ASSUME NEW a \in Bytes(ptr, len)
        PROVE  a \in accessible' /\ holds'[a] = b
    <3>1. CASE a \in Bytes(ptr, kept)
      <4>1. old + a - ptr \in Bytes(live[b].ptr, live[b].len) /\ b \in Live
        BY <1>1, <1>8, <3>1 DEF Bytes
      <4>2. old + a - ptr \in accessible /\ holds[old + a - ptr] = b
        BY <2>1, <4>1
      <4> QED BY <1>3, <1>5, <2>2, <3>1, <4>2 DEF Written
    <3>2. CASE a \notin Bytes(ptr, kept)
      BY <1>3, <1>5, <2>2, <3>2 DEF Written
    <3> QED BY <3>1, <3>2
  <2>3. ASSUME NEW c \in Live \ {b}, NEW a \in Bytes(live[c].ptr, live[c].len)
        PROVE  a \in accessible' /\ holds'[a] = c
    <3>1. a \in accessible /\ holds[a] = c /\ a \in accessible'
      BY <1>3, <1>4, <2>1
    <3>2. a < ptr
      BY <1>8 DEF End, Bytes
    <3>3. a \notin Bytes(ptr, kept) /\ a \notin Bytes(ptr, len)
      BY <1>1, <3>2 DEF Bytes
    <3> QED BY <1>3, <3>1, <3>3 DEF Written
  <2> QED BY <1>7, <2>2, <2>3 DEF Intact
<1> QED BY <1>6, <1>9, <1>10, <1>11, <1>12, <1>13 DEF IInv

-----------------------------------------------------------------------------
(* The actions *)

(* A program that ended touches nothing. *)
LEMMA EndsKeeps ==
  ASSUME IInv, NEW o \in {"OK", "ABORT", "OVERRUN"}, Ends(o)
  PROVE  IInv'
<1>1. status' \in {"ABORT", "OVERRUN"}
      /\ UNCHANGED <<cfg, curr, last, commit, policy, accessible, live, holds>>
  BY DEF Ends, arena
<1>2. TypeOK'
  BY <1>1 DEF IInv, TypeOK, Live
<1> QED BY <1>1, <1>2 DEF IInv, Intact, Accounted

(* Growing ends in one of three ways. *)
LEMMA Outcomes ==
  ASSUME NEW used
  PROVE  Room(used).outcomes \subseteq {"OK", "ABORT", "OVERRUN"}
BY DEF Room, Grants

(* An allocation is above every block, at curr_ptr. *)
LEMMA AllocateKeeps ==
  ASSUME IInv, NEW b \in Blocks, NEW n \in Sizes, Allocate(b, n)
  PROVE  IInv'
<1>1. status = "OK" /\ b \notin Live /\ curr \in Nat
  BY DEF Allocate, IInv, TypeOK
<1>2. \A c \in Live \ {b} : End(c) <= curr
  BY <1>1 DEF IInv, Layout
<1>3. n \in Nat \ {0}
  BY ArenaAssumption
<1>4. CASE HandOut(Room(curr + ROUND(n, ALIGN)), b, curr, n, curr, 0)
  BY <1>1, <1>2, <1>3, <1>4, HandOutKeeps
<1>5. CASE \E o \in Room(curr + ROUND(n, ALIGN)).outcomes : Ends(o)
  BY <1>5, EndsKeeps, Outcomes
<1> QED BY <1>4, <1>5 DEF Allocate

(* A block that grows or shrinks does so above every other block: where it *)
(* is, if it is the latest, and at curr_ptr if not.                        *)
LEMMA ReallocateKeeps ==
  ASSUME IInv, NEW b \in Blocks, NEW n \in Sizes, Reallocate(b, live[b].len, n)
  PROVE  IInv'
<1> DEFINE ptr == IF live[b].ptr = last THEN last ELSE curr
           kept == Least(n, live[b].len)
           room == Room(ptr + ROUND(n, ALIGN))
<1>1. /\ status = "OK" /\ b \in Live /\ curr \in Nat /\ last \in Nat \cup {NULL}
      /\ \A c \in Live : live[c].ptr \in Nat /\ live[c].len \in Sizes
  BY DEF Reallocate, IInv, TypeOK
<1>2. n \in Nat \ {0} /\ \A c \in Live : live[c].len \in Nat \ {0}
  BY <1>1, ArenaAssumption
<1>3. ptr \in Nat
  BY <1>1
<1>4. \A c \in Live \ {b} : End(c) <= ptr
  <2>1. CASE live[b].ptr = last
    BY <1>1, <1>2, <2>1 DEF IInv, Layout, End
  <2>2. CASE live[b].ptr # last
    BY <1>1, <2>2 DEF IInv, Layout
  <2> QED BY <2>1, <2>2
<1>5. kept \in Nat /\ kept <= n /\ kept <= live[b].len
  BY <1>1, <1>2 DEF Least
<1>6. \/ HandOut(room, b, ptr, n, live[b].ptr, kept)
      \/ \E o \in room.outcomes : Ends(o)
  BY DEF Reallocate
<1> HIDE DEF ptr, kept
<1>7. CASE HandOut(room, b, ptr, n, live[b].ptr, kept)
  BY <1>1, <1>3, <1>4, <1>5, <1>7, HandOutKeeps
<1>8. CASE \E o \in room.outcomes : Ends(o)
  BY <1>8, EndsKeeps, Outcomes
<1> QED BY <1>6, <1>7, <1>8

(* Freeing the latest block gives back bytes that no other block has. *)
LEMMA DeallocateKeeps ==
  ASSUME IInv, NEW b \in Blocks, Deallocate(b)
  PROVE  IInv'
<1>1. /\ status = "OK" /\ status' = "OK" /\ b \in Live
      /\ UNCHANGED <<cfg, commit, policy, accessible>>
      /\ live' = [c \in Live \ {b} |-> live[c]]
      /\ holds' = [a \in accessible |-> IF holds[a] = b THEN Nobody ELSE holds[a]]
  BY DEF Deallocate, Drop
<1>2. Live' = Live \ {b} /\ \A c \in Live' : live'[c] = live[c]
  BY <1>1 DEF Live
<1>3. /\ curr \in Nat /\ last \in Nat \cup {NULL} /\ commit \in Nat
      /\ \A c \in Live : live[c].ptr \in Nat /\ live[c].len \in Nat \ {0}
  BY ArenaAssumption DEF IInv, TypeOK
<1>4. \/ live[b].ptr = last /\ curr' = last /\ last' = NULL
      \/ UNCHANGED <<curr, last>>
  BY DEF Deallocate
<1>5. curr' \in Nat /\ curr' <= curr /\ last' \in Nat \cup {NULL}
  <2>1. CASE live[b].ptr = last /\ curr' = last /\ last' = NULL
    <3>1. live[b].ptr + live[b].len <= curr
      BY <1>1 DEF IInv, Layout, End
    <3> QED BY <1>1, <1>3, <2>1, <3>1
  <2> QED BY <1>3, <1>4, <2>1
<1>6. TypeOK'
  BY <1>1, <1>2, <1>5 DEF IInv, TypeOK
<1>7. Layout'
  <2>1. Layout
    BY <1>1 DEF IInv
  <2>2. \A c \in Live' : c \in Live /\ End(c)' = End(c) /\ live'[c].ptr = live[c].ptr
    BY <1>2 DEF End
  <2>3. \A c, d \in Live' : c # d => End(c)' <= live'[d].ptr \/ End(d)' <= live'[c].ptr
    BY <2>1, <2>2 DEF Layout
  <2>4. CASE live[b].ptr = last /\ curr' = last /\ last' = NULL
    <3>1. ASSUME NEW c \in Live' PROVE End(c)' <= curr'
      <4>1. c # b /\ (End(c) <= live[b].ptr \/ End(b) <= live[c].ptr)
        BY <1>1, <1>2, <2>1 DEF Layout
      <4>2. last # NULL /\ End(b) > last /\ curr' = last
        BY <1>1, <1>3, <2>4 DEF End
      <4>3. live[c].ptr = last \/ End(c) <= last
        BY <2>1, <2>2, <4>2 DEF Layout
      <4>4. live[c].ptr # last \/ End(c) <= last
        <5>1. c \in Live
          BY <2>2
        <5>2. live[c].ptr \in Nat /\ live[c].len \in Nat
          BY <1>3, <5>1
        <5>3. End(b) \in Nat /\ End(c) \in Nat
          BY <1>1, <1>3, <5>2 DEF End
        <5> QED BY <1>3, <2>4, <4>1, <4>2, <5>2, <5>3
      <4>5. End(c) <= last
        BY <4>3, <4>4
      <4> QED BY <2>2, <4>2, <4>5
    <3> QED BY <2>3, <2>4, <3>1 DEF Layout
  <2>5. CASE UNCHANGED <<curr, last>>
    BY <2>1, <2>2, <2>3, <2>5 DEF Layout
  <2> QED BY <1>4, <2>4, <2>5
<1>8. Paged'
  BY <1>1 DEF IInv, Paged, blocksize
<1>9. Intact'
  BY <1>1, <1>2 DEF IInv, Intact
<1>10. Accounted'
  BY <1>1, <1>3, <1>5 DEF IInv, Accounted
<1> QED BY <1>1, <1>6, <1>7, <1>8, <1>9, <1>10 DEF IInv

(* A new arena has its first pages, or none yet, or they did not fit. *)
LEMMA CreateKeeps ==
  ASSUME IInv, NEW c \in Configs, Create(c)
  PROVE  IInv'
<1> DEFINE size == IF c.lazyinit THEN 0 ELSE ROUND(c.initial, PAGE)
<1>1. /\ size \in Nat /\ \E k \in Nat : size = k * PAGE
      /\ size = 0 \/ size = ROUND(c.initial, PAGE)
  <2>1. PAGE \in Nat /\ 0 = 0 * PAGE
    BY ArenaAssumption
  <2> QED BY <2>1, BlockSize
<1>2. ROUND(c.initial, PAGE) \in Nat
  BY BlockSize
<1>3. Created(c, size) \/ \E o \in Grants(c, 0, size) : Ends(o)
  BY DEF Create
<1> HIDE DEF size
<1>4. CASE \E o \in Grants(c, 0, size) : Ends(o)
  <2>1. Grants(c, 0, size) \subseteq {"OK", "ABORT", "OVERRUN"}
    BY DEF Grants
  <2> QED BY <1>4, <2>1, EndsKeeps
<1>5. CASE Created(c, size)
  <2>1. /\ commit' = size /\ accessible' = 0 .. size - 1
        /\ cfg' = c /\ policy' = "STATIC" /\ curr' = 0 /\ last' = NULL
        /\ live' = << >> /\ holds' = [a \in accessible' |-> Nobody] /\ status' = "OK"
    BY <1>5 DEF Created
  <2>2. Live' = {} /\ blocksize' = ROUND(c.initial, PAGE)
    BY <2>1 DEF Live, blocksize
  <2>3. TypeOK'
    BY <1>1, <2>1, <2>2 DEF TypeOK
  <2>4. Layout' /\ Intact'
    BY <2>1, <2>2 DEF Layout, Intact
  <2>5. Paged' /\ Accounted'
    BY <1>1, <1>2, <2>1, <2>2 DEF Paged, Accounted
  <2> QED BY <2>1, <2>3, <2>4, <2>5 DEF IInv
<1> QED BY <1>3, <1>4, <1>5

(* A reset keeps the first pages, which an arena that was used has. *)
LEMMA ResetKeeps ==
  ASSUME IInv, ResetsUnused = FALSE, Reset
  PROVE  IInv'
<1>1. /\ status = "OK" /\ status' = "OK" /\ commit > 0 /\ commit' = blocksize
      /\ accessible' = IF cfg.source = "PAGE"
                       THEN accessible \ (blocksize .. commit - 1) ELSE accessible
      /\ curr' = 0 /\ last' = NULL
      /\ live' = << >> /\ holds' = [a \in accessible' |-> Nobody]
      /\ UNCHANGED <<cfg, policy>>
  BY DEF Reset
<1>2. cfg \in Configs /\ commit \in Nat /\ accessible \subseteq Nat
  BY DEF IInv, TypeOK
<1>3. blocksize \in Nat \ {0} /\ \E k \in Nat : blocksize = k * PAGE
  BY <1>2, BlockSize DEF blocksize
<1>4. blocksize <= commit
  BY <1>1, <1>2 DEF IInv, Paged
<1>5. Live' = {} /\ blocksize' = blocksize
  BY <1>1 DEF Live, blocksize
<1>6. TypeOK'
  BY <1>1, <1>2, <1>3, <1>5 DEF IInv, TypeOK
<1>7. Layout' /\ Intact'
  BY <1>1, <1>5 DEF Layout, Intact
<1>8. Paged'
  BY <1>1, <1>3, <1>5 DEF Paged
<1>9. Accounted'
  <2>1. /\ 0 .. commit - 1 \subseteq accessible
        /\ cfg.source = "PAGE" => accessible = 0 .. commit - 1
    BY <1>1 DEF IInv, Accounted
  <2>2. curr' <= commit'
    BY <1>1, <1>3
  <2>3. 0 .. blocksize - 1 \subseteq accessible'
    BY <1>1, <1>2, <1>3, <1>4, <2>1
  <2>4. ASSUME cfg.source = "PAGE" PROVE accessible' = 0 .. blocksize - 1
    BY <1>1, <1>2, <1>3, <1>4, <2>1, <2>4
  <2> QED BY <1>1, <2>2, <2>3, <2>4 DEF Accounted
<1> QED BY <1>1, <1>6, <1>7, <1>8, <1>9 DEF IInv

(* Nothing is left of an arena that is destroyed. *)
LEMMA DestroyKeeps ==
  ASSUME IInv, Destroy
  PROVE  IInv'
<1>1. Live' = {}
  BY DEF Destroy, Live
<1>2. TypeOK'
  BY <1>1 DEF IInv, TypeOK, Destroy
<1> QED BY <1>2 DEF IInv, Destroy, Intact, Accounted

-----------------------------------------------------------------------------
(* The theorems *)

(* The initial states satisfy the invariant. *)
LEMMA ArenaInit == Init => IInv
<1> SUFFICES ASSUME Init PROVE IInv
  OBVIOUS
<1>1. Live = {}
  BY DEF Init, Live
<1>2. TypeOK
  BY <1>1 DEF Init, TypeOK
<1> QED BY <1>2 DEF Init, IInv, Intact, Accounted

(* Every step keeps it. *)
LEMMA ArenaStep ==
  ASSUME ResetsUnused = FALSE
  PROVE  IInv /\ [Next]_vars => IInv'
<1> SUFFICES ASSUME IInv, [Next]_vars PROVE IInv'
  OBVIOUS
<1>1. CASE UNCHANGED vars
  BY <1>1 DEF vars, arena, IInv, TypeOK, Layout, Paged, Intact, Accounted,
              End, Live, blocksize
<1>2. ASSUME NEW c \in Configs, Create(c) PROVE IInv'
  BY <1>2, CreateKeeps
<1>3. ASSUME NEW b \in Blocks, NEW n \in Sizes, Allocate(b, n) PROVE IInv'
  BY <1>3, AllocateKeeps
<1>4. ASSUME NEW b \in Blocks, NEW n \in Sizes, Reallocate(b, live[b].len, n) PROVE IInv'
  BY <1>4, ReallocateKeeps
<1>5. ASSUME NEW b \in Blocks, Deallocate(b) PROVE IInv'
  BY <1>5, DeallocateKeeps
<1>6. CASE Reset
  BY <1>6, ResetKeeps
<1>7. CASE Destroy
  BY <1>7, DestroyKeeps
<1> QED BY <1>1, <1>2, <1>3, <1>4, <1>5, <1>6, <1>7 DEF Next

(* In every reachable state of an arena that is not reset before it is     *)
(* used, the invariant holds.                                              *)
LEMMA ArenaInvariant ==
  ASSUME ResetsUnused = FALSE
  PROVE  Spec => []IInv
<1>1. Init => IInv
  BY ArenaInit
<1>2. IInv /\ [Next]_vars => IInv'
  BY ArenaStep
<1> QED BY <1>1, <1>2, PTL DEF Spec

(* The variables have their types, and blocks are handed out at offsets.   *)
THEOREM ArenaTypes == ResetsUnused = FALSE => (Spec => []TypeOK)
<1> SUFFICES ASSUME ResetsUnused = FALSE PROVE Spec => []TypeOK
  OBVIOUS
<1>1. IInv => TypeOK
  BY DEF IInv
<1> QED BY <1>1, ArenaInvariant, PTL

(* Blocks never overlap, and each keeps what its owner wrote in it, while  *)
(* others are allocated, grown in place or moved, freed and reused         *)
(* (alloc.c:133-174).                                                      *)
THEOREM BlocksIntact == ResetsUnused = FALSE => (Spec => []Intact)
<1> SUFFICES ASSUME ResetsUnused = FALSE PROVE Spec => []Intact
  OBVIOUS
<1>1. IInv => Intact
  BY DEF IInv
<1> QED BY <1>1, ArenaInvariant, PTL

(* What the arena believes it has committed is what the kernel has made    *)
(* accessible, through growth by doubling or by more (alloc.c:92-131).     *)
THEOREM CommitAccounted == ResetsUnused = FALSE => (Spec => []Accounted)
<1> SUFFICES ASSUME ResetsUnused = FALSE PROVE Spec => []Accounted
  OBVIOUS
<1>1. IInv => Accounted
  BY DEF IInv
<1> QED BY <1>1, ArenaInvariant, PTL

(* Every block that was handed out can be written (alloc.c:133-144).       *)
THEOREM BlocksUsable == ResetsUnused = FALSE => (Spec => []Usable)
<1> SUFFICES ASSUME ResetsUnused = FALSE PROVE Spec => []Usable
  OBVIOUS
<1>1. IInv => Usable
  BY DEF IInv, Usable
<1> QED BY <1>1, ArenaInvariant, PTL
=============================================================================
