------------------------------- MODULE Induction -------------------------------
(***************************************************************************)
(* Induction on the natural numbers, and the existence of recursively      *)
(* defined functions, with a set or a function where the library's         *)
(* theorems take an operator: the predicate proved is membership of the    *)
(* set of the numbers that satisfy it.                                     *)
(***************************************************************************)
EXTENDS Integers, TLAPS, WellFoundedInduction

(* A set that holds zero and, with a number, its successor holds them all: *)
(* a number outside it would have a least one, whose predecessor is inside.*)
LEMMA NatSetInduction ==
  ASSUME NEW S, 0 \in S, \A n \in Nat : n \in S => n + 1 \in S
  PROVE  Nat \subseteq S
<1> DEFINE R == OpToRel(<, Nat)
           Outside == Nat \ S
<1>1. SUFFICES ASSUME Outside # {} PROVE FALSE
  OBVIOUS
<1>2. IsWellFoundedOn(R, Nat)
  BY NatLessThanWellFounded
<1>3. PICK x \in Outside : \A y \in Outside : ~ (<<y, x>> \in R)
  BY <1>1, <1>2, WFMin
<1>4. x \in Nat \ {0}
  OBVIOUS
<1>5. x - 1 \in Nat /\ x - 1 < x
  BY <1>4
<1>6. <<x - 1, x>> \in R
  BY <1>4, <1>5 DEF OpToRel
<1>7. x - 1 \in Outside
  <2>1. ASSUME x - 1 \in S PROVE FALSE
    <3>1. (x - 1) + 1 \in S
      BY <2>1, <1>5
    <3> QED
      BY <3>1, <1>4
  <2> QED
    BY <2>1, <1>5
<1> QED
  BY <1>3, <1>6, <1>7

(* Of the numbers in a set one is the least.                               *)
LEMMA LeastExists ==
  ASSUME NEW S, S \subseteq Nat, S # {}
  PROVE  \E n \in S : \A k \in S : n <= k
<1> DEFINE R == OpToRel(<, Nat)
<1>1. IsWellFoundedOn(R, Nat)
  BY NatLessThanWellFounded
<1>2. PICK n \in S : \A k \in S : ~ (<<k, n>> \in R)
  BY <1>1, WFMin
<1>3. ASSUME NEW k \in S PROVE n <= k
  <2>1. n \in Nat /\ k \in Nat
    OBVIOUS
  <2>2. ~ (k < n)
    BY <1>2, <2>1 DEF OpToRel
  <2> QED
    BY <2>1, <2>2
<1> QED
  BY <1>3

(* If they have a bound, one is the greatest: the least of the bounds.     *)
LEMMA GreatestExists ==
  ASSUME NEW S, S \subseteq Nat, S # {}, NEW m \in Nat, \A k \in S : k <= m
  PROVE  \E n \in S : \A k \in S : k <= n
<1> DEFINE Bounds == {u \in Nat : \A k \in S : k <= u}
<1>1. m \in Bounds
  OBVIOUS
<1>2. Bounds \subseteq Nat
  OBVIOUS
<1>3. PICK u \in Bounds : \A v \in Bounds : u <= v
  <2> HIDE DEF Bounds
  <2> QED
    BY <1>1, <1>2, LeastExists
<1>4. u \in Nat /\ \A k \in S : k <= u
  BY <1>3
<1>5. ASSUME u \notin S PROVE FALSE
  <2>1. \A k \in S : k \in Nat /\ k <= u /\ k # u
    BY <1>4, <1>5
  <2>2. PICK k \in S : TRUE
    OBVIOUS
  <2>3. u - 1 \in Nat
    BY <1>4, <2>1, <2>2
  <2>4. \A i \in S : i <= u - 1
    BY <1>4, <2>1
  <2>5. u - 1 \in Bounds
    BY <2>3, <2>4
  <2> QED
    BY <1>3, <1>4, <2>5
<1> QED
  BY <1>4, <1>5

(* The same up to a bound. *)
LEMMA UpToInduction ==
  ASSUME NEW m \in Nat, NEW S, 0 \in S,
         \A n \in 0 .. m - 1 : n \in S => n + 1 \in S
  PROVE  0 .. m \subseteq S
<1> DEFINE T == {n \in Nat : n <= m => n \in S}
<1>1. 0 \in T
  OBVIOUS
<1>2. ASSUME NEW n \in Nat, n \in T PROVE n + 1 \in T
  BY <1>2
<1>3. Nat \subseteq T
  <2> HIDE DEF T
  <2> QED
    BY <1>1, <1>2, NatSetInduction
<1> QED
  BY <1>3

(* A function is given by its value at zero and by the step from its value *)
(* at one argument to that at the next: the solution of a recursion.       *)
Steps(m, T) == [(1 .. m) \X T -> T]
Solves(s, m, T, base, step) ==
  /\ s \in [0 .. m -> T]
  /\ s[0] = base
  /\ \A n \in 1 .. m : s[n] = step[<<n, s[n - 1]>>]

(* A recursion has a solution. *)
LEMMA RecursionExists ==
  ASSUME NEW m \in Nat, NEW T, NEW base \in T, NEW step \in Steps(m, T)
  PROVE  \E s : Solves(s, m, T, base, step)
<1> DEFINE Solvable == {k \in 0 .. m : \E s : Solves(s, k, T, base, step)}
<1>1. 0 \in Solvable
  <2>1. Solves([n \in 0 .. 0 |-> base], 0, T, base, step)
    BY DEF Solves
  <2> QED
    BY <2>1
<1>2. ASSUME NEW k \in 0 .. m - 1, k \in Solvable PROVE k + 1 \in Solvable
  <2>1. PICK s : Solves(s, k, T, base, step)
    BY <1>2
  <2> DEFINE next == step[<<k + 1, s[k]>>]
             t == [n \in 0 .. k + 1 |-> IF n = k + 1 THEN next ELSE s[n]]
  <2>2. next \in T
    BY <2>1 DEF Solves, Steps
  <2>3. t \in [0 .. k + 1 -> T]
    BY <2>1, <2>2 DEF Solves
  <2>4. t[0] = base
    BY <2>1 DEF Solves
  <2>5. ASSUME NEW n \in 1 .. k + 1 PROVE t[n] = step[<<n, t[n - 1]>>]
    <3>1. t[n - 1] = s[n - 1]
      OBVIOUS
    <3>2. CASE n = k + 1
      <4>1. t[n] = next /\ n - 1 = k
        BY <3>2
      <4> QED
        BY <3>1, <3>2, <4>1
    <3>3. CASE n \in 1 .. k
      <4>1. t[n] = s[n]
        BY <3>3
      <4> QED
        BY <2>1, <3>1, <3>3, <4>1 DEF Solves
    <3> QED
      BY <3>2, <3>3
  <2>6. Solves(t, k + 1, T, base, step)
    BY <2>3, <2>4, <2>5 DEF Solves
  <2> QED
    BY <2>6
<1>3. 0 .. m \subseteq Solvable
  <2> HIDE DEF Solvable
  <2> QED
    BY <1>1, <1>2, UpToInduction
<1> QED
  BY <1>3

(* Two solutions agree as far as both go. *)
LEMMA RecursionUnique ==
  ASSUME NEW m \in Nat, NEW k \in Nat, m <= k, NEW T, NEW base, NEW step,
         NEW r, Solves(r, m, T, base, step), NEW s, Solves(s, k, T, base, step)
  PROVE  \A n \in 0 .. m : r[n] = s[n]
<1> DEFINE Agree == {n \in 0 .. m : r[n] = s[n]}
<1>1. 0 \in Agree
  BY DEF Solves
<1>2. ASSUME NEW n \in 0 .. m - 1, n \in Agree PROVE n + 1 \in Agree
  <2>1. n + 1 \in 1 .. m /\ n + 1 \in 1 .. k /\ (n + 1) - 1 = n /\ r[n] = s[n]
    BY <1>2
  <2>2. r[n + 1] = step[<<n + 1, r[n]>>]
    BY <2>1 DEF Solves
  <2>3. s[n + 1] = step[<<n + 1, s[n]>>]
    BY <2>1 DEF Solves
  <2> QED
    BY <2>1, <2>2, <2>3
<1>3. 0 .. m \subseteq Agree
  <2> HIDE DEF Agree
  <2> QED
    BY <1>1, <1>2, UpToInduction
<1> QED
  BY <1>3

(* A recursion without a bound. *)
SolvesAll(s, T, base, step) ==
  /\ s \in [Nat -> T]
  /\ s[0] = base
  /\ \A n \in Nat \ {0} : s[n] = step[<<n, s[n - 1]>>]

LEMMA NatRecursionExists ==
  ASSUME NEW T, NEW base \in T, NEW step \in [(Nat \ {0}) \X T -> T]
  PROVE  \E s : SolvesAll(s, T, base, step)
<1> DEFINE upto(m) == [x \in (1 .. m) \X T |-> step[x]]
           part(m) == CHOOSE s : Solves(s, m, T, base, upto(m))
           whole == [m \in Nat |-> part(m)[m]]
<1>1. ASSUME NEW m \in Nat PROVE Solves(part(m), m, T, base, upto(m))
  <2>1. upto(m) \in Steps(m, T)
    BY DEF Steps
  <2> HIDE DEF upto
  <2>2. \E s : Solves(s, m, T, base, upto(m))
    BY <2>1, RecursionExists
  <2> QED
    BY <2>2
<1>2. ASSUME NEW m \in Nat PROVE part(m) \in [0 .. m -> T] /\ part(m)[0] = base
  BY <1>1 DEF Solves
<1> HIDE DEF part, upto
<1>3. whole \in [Nat -> T] /\ whole[0] = base
  <2>1. \A m \in Nat : m \in 0 .. m /\ part(m)[m] \in T
    <3> SUFFICES ASSUME NEW m \in Nat PROVE m \in 0 .. m /\ part(m)[m] \in T
      OBVIOUS
    <3>1. part(m) \in [0 .. m -> T] /\ m \in 0 .. m
      BY <1>2
    <3> QED
      BY <3>1
  <2>2. part(0)[0] = base
    BY <1>2
  <2> QED
    BY <2>1, <2>2
<1>4. ASSUME NEW n \in Nat \ {0} PROVE whole[n] = step[<<n, whole[n - 1]>>]
  <2>1. n \in Nat /\ n - 1 \in Nat /\ n - 1 <= n /\ n \in 1 .. n /\ n - 1 \in 0 .. n
    OBVIOUS
  <2>2. part(n)[n] = upto(n)[<<n, part(n)[n - 1]>>]
    BY <1>1, <2>1 DEF Solves
  <2>3. part(n)[n - 1] \in T
    BY <1>2, <2>1
  <2>4. upto(n)[<<n, part(n)[n - 1]>>] = step[<<n, part(n)[n - 1]>>]
    BY <2>1, <2>3 DEF upto
  <2>5. part(n)[n - 1] = part(n - 1)[n - 1]
    <3> DEFINE r == [i \in 0 .. n - 1 |-> part(n)[i]]
    <3>1. Solves(r, n - 1, T, base, upto(n - 1))
      <4>1. r \in [0 .. n - 1 -> T] /\ r[0] = base
        <5>1. part(n) \in [0 .. n -> T] /\ part(n)[0] = base /\ 0 \in 0 .. n - 1
          BY <1>2, <2>1
        <5>2. \A i \in 0 .. n - 1 : i \in 0 .. n
          BY <2>1
        <5> QED
          BY <5>1, <5>2
      <4>2. ASSUME NEW i \in 1 .. n - 1 PROVE r[i] = upto(n - 1)[<<i, r[i - 1]>>]
        <5>1. i \in 1 .. n /\ i \in 0 .. n - 1 /\ i - 1 \in 0 .. n - 1 /\ i - 1 \in 0 .. n
          OBVIOUS
        <5>2. part(n)[i] = upto(n)[<<i, part(n)[i - 1]>>]
          BY <1>1, <2>1, <5>1 DEF Solves
        <5>3. part(n)[i - 1] \in T
          BY <1>2, <2>1, <5>1
        <5>4. r[i] = part(n)[i] /\ r[i - 1] = part(n)[i - 1]
          BY <5>1
        <5>5. /\ <<i, part(n)[i - 1]>> \in (1 .. n) \X T
              /\ <<i, part(n)[i - 1]>> \in (1 .. n - 1) \X T
          BY <5>1, <5>3
        <5> HIDE DEF r
        <5> QED
          BY <5>2, <5>4, <5>5 DEF upto
      <4> HIDE DEF r
      <4> QED
        BY <4>1, <4>2 DEF Solves
    <3>2. Solves(part(n - 1), n - 1, T, base, upto(n - 1))
      BY <1>1, <2>1
    <3> HIDE DEF r
    <3>3. \A i \in 0 .. n - 1 : r[i] = part(n - 1)[i]
      BY <2>1, <3>1, <3>2, RecursionUnique
    <3>4. r[n - 1] = part(n)[n - 1]
      BY DEF r
    <3> QED
      BY <3>3, <3>4
  <2>6. whole[n] = part(n)[n] /\ whole[n - 1] = part(n - 1)[n - 1]
    BY <2>1
  <2> HIDE DEF whole
  <2> QED
    BY <2>2, <2>4, <2>5, <2>6
<1> HIDE DEF whole
<1>5. SolvesAll(whole, T, base, step)
  BY <1>3, <1>4 DEF SolvesAll
<1> QED
  BY <1>5
=============================================================================
