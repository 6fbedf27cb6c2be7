------------------------------- MODULE FileProofs -------------------------------
(***************************************************************************)
(* The compiled file of every program: its regions meet without a gap and  *)
(* without an overlap, each entry of its table leads to its own name and   *)
(* code, and a module that is in it is found.                              *)
(*                                                                         *)
(* The lemmas come first: what the recursively defined totals, shifts and  *)
(* numbers are for every argument (by induction, Induction.tla), what a    *)
(* copy changes and what a string in the file is.                          *)
(***************************************************************************)
EXTENDS File, Induction, SequenceTheorems

LEMMA Sizes == /\ BYTE \in Nat /\ BYTE > 1
               /\ WORDSIZE \in Nat /\ WORDSIZE > 0
               /\ HEADER \in Nat
               /\ ENTRY \in Nat /\ ENTRY > 0
BY FileAssumption DEF ENTRY

-----------------------------------------------------------------------------
(* Totals, shifts and numbers.                                             *)

(* Totals satisfies the equation it is defined by. *)
LEMMA TotalsValue ==
  ASSUME NEW lens \in Seq(Nat)
  PROVE  /\ Totals(lens) \in [0 .. Len(lens) -> Nat]
         /\ Totals(lens)[0] = 0
         /\ \A k \in 1 .. Len(lens) : Totals(lens)[k] = Totals(lens)[k - 1] + lens[k]
<1> DEFINE m == Len(lens)
           Is(t) == t = [k \in 0 .. m |-> IF k = 0 THEN 0 ELSE t[k - 1] + lens[k]]
           step == [x \in (1 .. m) \X Nat |-> x[2] + lens[x[1]]]
<1>1. m \in Nat /\ \A k \in 1 .. m : lens[k] \in Nat
  OBVIOUS
<1>2. step \in Steps(m, Nat)
  BY <1>1 DEF Steps
<1>3. PICK t : Solves(t, m, Nat, 0, step)
  <2> HIDE DEF step, m
  <2> QED
    BY <1>1, <1>2, RecursionExists
<1>4. ASSUME NEW n \in 1 .. m PROVE t[n] = t[n - 1] + lens[n]
  <2>1. t[n - 1] \in Nat
    BY <1>1, <1>3 DEF Solves
  <2>2. step[<<n, t[n - 1]>>] = t[n - 1] + lens[n]
    BY <1>1, <2>1
  <2> QED
    BY <1>3, <2>2 DEF Solves
<1>5. Is(t)
  BY <1>1, <1>3, <1>4 DEF Solves
<1>6. Totals(lens) = CHOOSE u : Is(u)
  BY DEF Totals
<1>7. Is(Totals(lens))
  <2> HIDE DEF Is
  <2> QED
    BY <1>5, <1>6
<1> DEFINE T == Totals(lens)
           Natural == {k \in 0 .. m : T[k] \in Nat}
<1> HIDE DEF T
<1>8. /\ T = [k \in 0 .. m |-> T[k]]
      /\ T[0] = 0
      /\ \A k \in 1 .. m : T[k] = T[k - 1] + lens[k]
  BY <1>1, <1>7 DEF T
<1>9. 0 .. m \subseteq Natural
  <2>1. 0 \in Natural
    BY <1>1, <1>8
  <2>2. ASSUME NEW n \in 0 .. m - 1, n \in Natural PROVE n + 1 \in Natural
    <3>1. \A k \in 1 .. m : T[k] = T[k - 1] + lens[k]
      BY <1>8
    <3>2. n + 1 \in 1 .. m /\ (n + 1) - 1 = n
      BY <1>1
    <3>3. T[n + 1] = T[n] + lens[n + 1]
      BY <3>1, <3>2
    <3> QED
      BY <1>1, <2>2, <3>2, <3>3
  <2> HIDE DEF Natural
  <2> QED
    BY <1>1, <2>1, <2>2, UpToInduction
<1> QED
  BY <1>1, <1>8, <1>9 DEF T

(* A total never decreases. *)
LEMMA TotalsMonotone ==
  ASSUME NEW lens \in Seq(Nat), NEW j \in 0 .. Len(lens), NEW k \in j .. Len(lens)
  PROVE  Totals(lens)[j] <= Totals(lens)[k]
<1> DEFINE m == Len(lens)
           T == Totals(lens)
           Above == {n \in 0 .. m : j <= n => T[j] <= T[n]}
<1>1. m \in Nat /\ \A n \in 1 .. m : lens[n] \in Nat
  OBVIOUS
<1>2. T \in [0 .. m -> Nat] /\ \A n \in 1 .. m : T[n] = T[n - 1] + lens[n]
  BY TotalsValue
<1> HIDE DEF T, m
<1>3. 0 \in Above
  BY <1>1, <1>2 DEF m
<1>4. ASSUME NEW n \in 0 .. m - 1, n \in Above PROVE n + 1 \in Above
  <2>1. T[n + 1] = T[n] + lens[n + 1]
    BY <1>1, <1>2
  <2>2. T[n] <= T[n + 1] /\ T[n] \in Nat /\ T[n + 1] \in Nat
    BY <1>1, <1>2, <2>1
  <2>3. CASE j <= n
    <3>1. T[j] <= T[n] /\ T[j] \in Nat
      BY <1>1, <1>2, <1>4, <2>3
    <3> QED
      BY <1>1, <2>2, <3>1
  <2>4. CASE j = n + 1
    BY <1>1, <2>2, <2>4
  <2> QED
    BY <1>1, <2>3, <2>4 DEF m
<1>5. 0 .. m \subseteq Above
  <2> HIDE DEF Above
  <2> QED
    BY <1>1, <1>3, <1>4, UpToInduction
<1> QED
  BY <1>1, <1>5 DEF T, m

LEMMA Division ==
  ASSUME NEW n \in Nat
  PROVE  /\ n \div BYTE \in Nat /\ n % BYTE \in Byte
         /\ n = (n \div BYTE) * BYTE + (n % BYTE)
         /\ \A k \in 0 .. n : k \div BYTE <= n \div BYTE
BY Sizes DEF Byte

(* Shifted satisfies the equation it is defined by. *)
LEMMA ShiftedValue ==
  ASSUME NEW n \in Nat
  PROVE  /\ Shifted(n) \in [0 .. WORDSIZE -> Nat]
         /\ Shifted(n)[0] = n
         /\ \A k \in 1 .. WORDSIZE : Shifted(n)[k] = Shifted(n)[k - 1] \div BYTE
<1> DEFINE Shift(v) == v \div BYTE
           Is(s) == s = [k \in 0 .. WORDSIZE |-> IF k = 0 THEN n ELSE Shift(s[k - 1])]
           step == [x \in (1 .. WORDSIZE) \X Nat |-> Shift(x[2])]
<1>1. \A v \in Nat : Shift(v) \in Nat
  BY Division
<1>2. Shifted(n) = CHOOSE t : Is(t)
  BY DEF Shifted
<1> HIDE DEF Shift
<1>3. step \in Steps(WORDSIZE, Nat)
  BY <1>1, Sizes DEF Steps
<1>4. PICK s : Solves(s, WORDSIZE, Nat, n, step)
  <2> HIDE DEF step
  <2> QED
    BY <1>3, Sizes, RecursionExists
<1>5. ASSUME NEW k \in 1 .. WORDSIZE PROVE s[k] = Shift(s[k - 1])
  <2>1. s[k - 1] \in Nat
    BY <1>4, Sizes DEF Solves
  <2>2. step[<<k, s[k - 1]>>] = Shift(s[k - 1])
    BY <2>1
  <2> QED
    BY <1>4, <2>2 DEF Solves
<1>6. Is(s)
  BY <1>4, <1>5, Sizes DEF Solves
<1>7. Is(Shifted(n))
  <2> HIDE DEF Is
  <2> QED
    BY <1>2, <1>6
<1> DEFINE S == Shifted(n)
           Natural == {k \in 0 .. WORDSIZE : S[k] \in Nat}
<1> HIDE DEF S
<1>8. /\ S = [k \in 0 .. WORDSIZE |-> S[k]]
      /\ S[0] = n
      /\ \A k \in 1 .. WORDSIZE : S[k] = Shift(S[k - 1])
  BY <1>7, Sizes DEF S
<1>9. 0 .. WORDSIZE \subseteq Natural
  <2>1. 0 \in Natural
    BY <1>8, Sizes
  <2>2. ASSUME NEW k \in 0 .. WORDSIZE - 1, k \in Natural PROVE k + 1 \in Natural
    <3>1. k + 1 \in 1 .. WORDSIZE /\ (k + 1) - 1 = k
      BY Sizes
    <3>2. \A j \in 1 .. WORDSIZE : S[j] = Shift(S[j - 1])
      BY <1>8
    <3>3. S[k + 1] = Shift(S[k])
      BY <3>1, <3>2
    <3> QED
      BY <1>1, <2>2, <3>1, <3>3
  <2> HIDE DEF Natural
  <2> QED
    BY <2>1, <2>2, Sizes, UpToInduction
<1> QED
  BY <1>8, <1>9 DEF S, Shift

(* A number below one that a word holds is held by a word. *)
LEMMA WordDownward ==
  ASSUME NEW n \in Word, NEW m \in 0 .. n
  PROVE  m \in Word
<1> DEFINE S == Shifted(n)
           R == Shifted(m)
           Below == {k \in 0 .. WORDSIZE : R[k] <= S[k]}
<1>1. n \in Nat /\ m \in Nat /\ m <= n
  BY DEF Word
<1>2. /\ S \in [0 .. WORDSIZE -> Nat] /\ R \in [0 .. WORDSIZE -> Nat]
      /\ S[0] = n /\ R[0] = m
  BY <1>1, ShiftedValue
<1>3. \A k \in 1 .. WORDSIZE : S[k] = S[k - 1] \div BYTE /\ R[k] = R[k - 1] \div BYTE
  BY <1>1, ShiftedValue
<1> HIDE DEF S, R
<1>4. 0 \in Below
  BY <1>1, <1>2, Sizes
<1>5. ASSUME NEW k \in 0 .. WORDSIZE - 1, k \in Below PROVE k + 1 \in Below
  <2>1. k + 1 \in 1 .. WORDSIZE /\ (k + 1) - 1 = k
    BY Sizes
  <2>2. S[k + 1] = S[k] \div BYTE /\ R[k + 1] = R[k] \div BYTE
    BY <1>3, <2>1
  <2>3. S[k] \in Nat /\ R[k] \in 0 .. S[k]
    BY <1>2, <1>5, <2>1, Sizes
  <2>4. R[k] \div BYTE <= S[k] \div BYTE
    BY <2>3, Division
  <2> QED
    BY <2>1, <2>2, <2>4
<1>6. 0 .. WORDSIZE \subseteq Below
  <2> HIDE DEF Below
  <2> QED
    BY <1>4, <1>5, Sizes, UpToInduction
<1>7. R[WORDSIZE] <= S[WORDSIZE] /\ R[WORDSIZE] \in Nat
  BY <1>2, <1>6, Sizes
<1>8. S[WORDSIZE] = 0
  BY DEF Word, S
<1>9. R[WORDSIZE] = 0
  BY <1>7, <1>8
<1> QED
  BY <1>1, <1>9 DEF Word, R

LEMMA BytesType ==
  ASSUME NEW n \in Nat
  PROVE  Bytes(n) \in Seq(Byte) /\ Len(Bytes(n)) = WORDSIZE
<1>1. ASSUME NEW k \in 1 .. WORDSIZE PROVE Shifted(n)[k - 1] % BYTE \in Byte
  <2>1. Shifted(n)[k - 1] \in Nat
    BY ShiftedValue, Sizes
  <2> QED
    BY <2>1, Division
<1>2. Bytes(n) \in [1 .. WORDSIZE -> Byte]
  BY <1>1 DEF Bytes
<1> QED
  BY <1>2, Sizes, SeqDef

(* A number is read back from the bytes it was stored as: the bytes from   *)
(* the highest down to the k-th make up what is left after k shifts.       *)
LEMMA NumberOfBytes ==
  ASSUME NEW n \in Word, NEW f, NEW at \in Nat,
         \A k \in 1 .. WORDSIZE : f[at + (k - 1)] = Bytes(n)[k]
  PROVE  Number(f, at) = n
<1> DEFINE W == WORDSIZE
           S == Shifted(n)
           Digit(v, k) == v * BYTE + f[at + W - k]
           Is(t) == t = [k \in 0 .. W |-> IF k = 0 THEN 0 ELSE Digit(t[k - 1], k)]
           t == [k \in 0 .. W |-> S[W - k]]
<1>1. n \in Nat
  BY DEF Word
<1>2. /\ S \in [0 .. W -> Nat] /\ S[0] = n /\ S[W] = 0
      /\ \A k \in 1 .. W : S[k] = S[k - 1] \div BYTE
  BY <1>1, ShiftedValue DEF Word
<1> HIDE DEF S
<1>3. ASSUME NEW k \in 1 .. W PROVE f[at + W - k] = S[W - k] % BYTE
  <2>1. W - k + 1 \in 1 .. W /\ at + W - k = at + ((W - k + 1) - 1)
    BY Sizes
  <2>2. f[at + W - k] = Bytes(n)[W - k + 1]
    BY <2>1
  <2>3. (W - k + 1) - 1 = W - k
    BY Sizes
  <2> QED
    BY <2>1, <2>2, <2>3 DEF Bytes, S
<1>4. ASSUME NEW k \in 1 .. W PROVE t[k] = Digit(t[k - 1], k)
  <2>1. /\ W - k \in 0 .. W /\ W - k + 1 \in 1 .. W /\ k - 1 \in 0 .. W
        /\ W - (k - 1) = W - k + 1 /\ (W - k + 1) - 1 = W - k
    BY Sizes
  <2>2. t[k] = S[W - k] /\ t[k - 1] = S[W - k + 1]
    BY <2>1
  <2>3. S[W - k + 1] = S[W - k] \div BYTE
    BY <1>2, <2>1
  <2>4. S[W - k] \in Nat
    BY <1>2, <2>1
  <2> QED
    BY <1>3, <2>2, <2>3, <2>4, Division
<1>5. t[0] = 0 /\ t[W] = n
  BY <1>2, Sizes
<1>6. Number(f, at) = (CHOOSE u : Is(u))[W]
  BY DEF Number
<1>7. t = [k \in 0 .. W |-> t[k]]
  OBVIOUS
<1> HIDE DEF Digit, t
<1>8. Is(t)
  <2>1. \A k \in 0 .. W : k = 0 \/ k \in 1 .. W
    BY Sizes
  <2> QED
    BY <1>4, <1>5, <1>7, <2>1
<1> DEFINE N == CHOOSE u : Is(u)
<1>9. Is(N)
  <2> HIDE DEF Is, t
  <2> QED
    BY <1>8
<1>10. Number(f, at) = N[W]
  BY <1>6
<1> HIDE DEF N
<1>11. N[0] = 0 /\ \A k \in 1 .. W : N[k] = Digit(N[k - 1], k)
  BY <1>9, Sizes
<1> DEFINE Same == {k \in 0 .. W : N[k] = t[k]}
<1>12. 0 \in Same
  BY <1>5, <1>11, Sizes
<1>13. ASSUME NEW k \in 0 .. W - 1, k \in Same PROVE k + 1 \in Same
  <2>1. k + 1 \in 1 .. W /\ (k + 1) - 1 = k
    BY Sizes
  <2> QED
    BY <1>4, <1>11, <1>13, <2>1
<1>14. 0 .. W \subseteq Same
  <2> HIDE DEF Same
  <2> QED
    BY <1>12, <1>13, Sizes, UpToInduction
<1> QED
  BY <1>5, <1>14, <1>10, Sizes

-----------------------------------------------------------------------------
(* What a file holds: bytes at an offset, strings and table entries.       *)

HoldsIn(f, bytes, at) ==
  \A k \in 1 .. Len(bytes) : /\ at + (k - 1) \in DOMAIN f
                             /\ f[at + (k - 1)] = bytes[k]

Blob(size) == [0 .. size - 1 -> Byte \cup {Unset}]

IsCopy(g, f, size, at, bytes) ==
  /\ g \in Blob(size)
  /\ HoldsIn(g, bytes, at)
  /\ \A a \in 0 .. size - 1 : a \notin at .. at + Len(bytes) - 1 => g[a] = f[a]

(* A copy changes the bytes it covers and no other. *)
LEMMA Copied ==
  ASSUME NEW size \in Nat, NEW f \in Blob(size),
         NEW at \in Nat, NEW bytes \in Seq(Byte), at + Len(bytes) <= size
  PROVE  IsCopy(memcpy(f, at, bytes), f, size, at, bytes)
<1> DEFINE len == Len(bytes)
           T == Byte \cup {Unset}
           g == memcpy(f, at, bytes)
<1>1. len \in Nat /\ \A k \in 1 .. len : bytes[k] \in T
  OBVIOUS
<1>2. f \in [0 .. size - 1 -> T]
  BY DEF Blob
<1> HIDE DEF T
<1>3. g = [a \in 0 .. size - 1 |-> IF a - at \in 0 .. len - 1 THEN bytes[a - at + 1] ELSE f[a]]
  BY <1>2 DEF memcpy
<1> HIDE DEF len, g
<1>4. ASSUME NEW a \in 0 .. size - 1, a - at \in 0 .. len - 1
      PROVE  g[a] = bytes[a - at + 1] /\ g[a] \in T
  <2>1. a - at + 1 \in 1 .. len
    BY <1>1, <1>4
  <2>2. g[a] = bytes[a - at + 1]
    BY <1>3, <1>4
  <2> QED
    BY <1>1, <2>1, <2>2
<1>5. ASSUME NEW a \in 0 .. size - 1, a - at \notin 0 .. len - 1
      PROVE  g[a] = f[a] /\ g[a] \in T
  BY <1>3, <1>5, <1>2
<1>6. g \in [0 .. size - 1 -> T]
  BY <1>3, <1>4, <1>5
<1>7. ASSUME NEW k \in 1 .. len PROVE at + (k - 1) \in 0 .. size - 1 /\ g[at + (k - 1)] = bytes[k]
  <2>1. /\ at + (k - 1) \in 0 .. size - 1
        /\ (at + (k - 1)) - at \in 0 .. len - 1
        /\ (at + (k - 1)) - at + 1 = k
    BY <1>1 DEF len
  <2> QED
    BY <1>4, <2>1
<1>8. ASSUME NEW a \in 0 .. size - 1, a \notin at .. at + len - 1 PROVE g[a] = f[a]
  BY <1>1, <1>5, <1>8
<1> QED
  BY <1>6, <1>7, <1>8 DEF IsCopy, HoldsIn, Blob, g, len, T

(* What is held stays, if the bytes that are set are kept. *)
LEMMA StillHeld ==
  ASSUME NEW f, NEW g, DOMAIN g = DOMAIN f,
         \A a \in DOMAIN f : f[a] # Unset => g[a] = f[a],
         NEW bytes \in Seq(Byte), NEW at, HoldsIn(f, bytes, at)
  PROVE  HoldsIn(g, bytes, at)
<1>1. \A k \in 1 .. Len(bytes) : bytes[k] \in Byte
  OBVIOUS
<1>2. Unset \notin Byte
  BY FileAssumption
<1> QED
  BY <1>1, <1>2 DEF HoldsIn

(* A slice of the length of what is held is what is held. *)
LEMMA SliceHeld ==
  ASSUME NEW f, NEW T, NEW bytes \in Seq(T), NEW at \in Nat, HoldsIn(f, bytes, at)
  PROVE  Slice(f, at, Len(bytes)) = bytes
<1>1. Len(bytes) \in Nat /\ bytes = [k \in 1 .. Len(bytes) |-> bytes[k]]
  OBVIOUS
<1>2. \A k \in 1 .. Len(bytes) : f[at + k - 1] = bytes[k]
  BY <1>1 DEF HoldsIn
<1> QED
  BY <1>1, <1>2 DEF Slice

(* The string at an offset is the name copied there with its NUL. *)
LEMMA StringHeld ==
  ASSUME NEW size \in Nat, NEW f, DOMAIN f = 0 .. size - 1,
         NEW name \in Seq(Byte \ {NUL}), NEW at \in Nat,
         HoldsIn(f, Append(name, NUL), at)
  PROVE  CString(f, at) = name
<1> DEFINE len == Len(name)
           Ends(a) == /\ a >= at /\ f[a] = NUL
                      /\ \A b \in at .. a - 1 : f[b] # NUL
<1>1. /\ len \in Nat
      /\ \A k \in 1 .. len : name[k] \in Byte \ {NUL}
      /\ Len(Append(name, NUL)) = len + 1
      /\ \A k \in 1 .. len : Append(name, NUL)[k] = name[k]
      /\ Append(name, NUL)[len + 1] = NUL
  OBVIOUS
<1> HIDE DEF len
<1>2. \A k \in 1 .. len + 1 : /\ at + (k - 1) \in DOMAIN f
                              /\ f[at + (k - 1)] = Append(name, NUL)[k]
  BY <1>1 DEF HoldsIn
<1>3. at + len \in DOMAIN f /\ f[at + len] = NUL
  <2>1. len + 1 \in 1 .. len + 1 /\ at + ((len + 1) - 1) = at + len
    BY <1>1
  <2> QED
    BY <1>1, <1>2, <2>1
<1>4. ASSUME NEW b \in at .. at + len - 1 PROVE f[b] # NUL
  <2> DEFINE k == b - at + 1
  <2>1. k \in 1 .. len /\ k \in 1 .. len + 1 /\ at + (k - 1) = b
    BY <1>1
  <2> HIDE DEF k
  <2>2. f[b] = name[k]
    BY <1>1, <1>2, <2>1
  <2> QED
    BY <1>1, <2>1, <2>2
<1>5. Ends(at + len)
  BY <1>1, <1>3, <1>4
<1>6. ASSUME NEW a \in DOMAIN f, Ends(a) PROVE a = at + len
  <2>1. CASE a < at + len
    BY <1>1, <1>4, <1>6, <2>1
  <2>2. CASE a > at + len
    BY <1>1, <1>3, <1>6, <2>2
  <2> QED
    BY <1>1, <2>1, <2>2
<1>7. (CHOOSE a \in DOMAIN f : Ends(a)) = at + len
  <2> HIDE DEF Ends
  <2> QED
    BY <1>3, <1>5, <1>6
<1>8. strlen(f, at) = len
  <2> DEFINE end == CHOOSE a \in DOMAIN f : Ends(a)
  <2>1. strlen(f, at) = end - at
    BY DEF strlen
  <2>2. end = at + len
    BY <1>7
  <2> HIDE DEF end
  <2> QED
    BY <1>1, <2>1, <2>2
<1>9. HoldsIn(f, name, at)
  BY <1>1, <1>2 DEF HoldsIn, len
<1> QED
  BY <1>8, <1>9, SliceHeld DEF CString, len

(* A string has a length wherever a NUL follows. *)
LEMMA StringEnds ==
  ASSUME NEW size \in Nat, NEW f, DOMAIN f = 0 .. size - 1, NEW at \in Nat,
         NEW end \in DOMAIN f, at <= end, f[end] = NUL
  PROVE  strlen(f, at) \in Nat
<1> DEFINE Ends(a) == /\ a >= at /\ f[a] = NUL
                      /\ \A b \in at .. a - 1 : f[b] # NUL
           NULs == {a \in DOMAIN f : a >= at /\ f[a] = NUL}
           first == CHOOSE a \in DOMAIN f : Ends(a)
<1>1. end \in NULs /\ NULs \subseteq Nat
  OBVIOUS
<1>2. PICK a \in NULs : \A b \in NULs : a <= b
  <2> HIDE DEF NULs
  <2> QED
    BY <1>1, LeastExists
<1>3. ASSUME NEW b \in at .. a - 1 PROVE f[b] # NUL
  <2>1. a \in 0 .. size - 1
    BY <1>2
  <2>2. b \in DOMAIN f /\ b >= at /\ ~ (a <= b)
    BY <2>1
  <2> QED
    BY <1>2, <2>2
<1>4. a \in DOMAIN f /\ Ends(a)
  BY <1>2, <1>3
<1>5. first \in DOMAIN f /\ Ends(first)
  <2> HIDE DEF Ends
  <2> QED
    BY <1>4
<1>6. strlen(f, at) = first - at
  BY DEF strlen
<1>7. first \in Nat /\ first >= at
  BY <1>5
<1> HIDE DEF first
<1> QED
  BY <1>6, <1>7

(* Strings that agree in some characters agree in the first. *)
LEMMA SameFirst ==
  ASSUME NEW a \in Seq(Byte \ {NUL}), NEW b \in Seq(Byte \ {NUL}), NEW n \in Nat,
         SameStart(a, b, n + 1)
  PROVE  SameStart(a, b, 1)
<1> DEFINE Length(s, m) == IF m <= Len(s) THEN m ELSE Len(s) + 1
           Start(s, m) == SubSeq(Append(s, NUL), 1, Length(s, m))
<1>1. Start(a, n + 1) = Start(b, n + 1)
  BY DEF SameStart
<1>2. ASSUME NEW s \in Seq(Byte \ {NUL})
      PROVE  /\ Start(s, n + 1)[1] = Append(s, NUL)[1]
             /\ Start(s, 1) = [j \in 1 .. 1 |-> Append(s, NUL)[1]]
  <2>1. Append(s, NUL) \in Seq(Byte) /\ Len(s) \in Nat /\ Len(Append(s, NUL)) = Len(s) + 1
    <3>1. NUL \in Byte
      BY Sizes DEF NUL, Byte
    <3>2. s \in Seq(Byte)
      OBVIOUS
    <3> QED
      BY <3>1, <3>2
  <2>2. Length(s, n + 1) \in 1 .. Len(s) + 1 /\ Length(s, 1) = 1
    BY <2>1
  <2> DEFINE t == Append(s, NUL)
             m == Length(s, n + 1)
  <2>3. t \in Seq(Byte) /\ m \in 1 .. Len(t) /\ Len(t) >= 1
    BY <2>1, <2>2
  <2> HIDE DEF t, m
  <2>4. SubSeq(t, 1, m)[1] = t[1]
    BY <2>3
  <2>5. SubSeq(t, 1, 1) = [j \in 1 .. 1 |-> t[1]]
    <3>1. SubSeq(t, 1, 1) \in Seq(Byte) /\ Len(SubSeq(t, 1, 1)) = 1
      BY <2>3
    <3>2. SubSeq(t, 1, 1)[1] = t[1]
      BY <2>3
    <3> DEFINE u == SubSeq(t, 1, 1)
    <3>3. u = [j \in 1 .. 1 |-> u[j]]
      BY <3>1
    <3> HIDE DEF u
    <3>4. \A j \in 1 .. 1 : u[j] = t[1]
      BY <3>2 DEF u
    <3> QED
      BY <3>3, <3>4 DEF u
  <2> QED
    BY <2>2, <2>4, <2>5 DEF t, m
<1>3. Append(a, NUL)[1] = Append(b, NUL)[1]
  <2>1. Start(a, n + 1)[1] = Append(a, NUL)[1] /\ Start(b, n + 1)[1] = Append(b, NUL)[1]
    BY <1>2
  <2> HIDE DEF Start
  <2> QED
    BY <1>1, <2>1
<1>4. Start(a, 1) = Start(b, 1)
  <2>1. /\ Start(a, 1) = [j \in 1 .. 1 |-> Append(a, NUL)[1]]
        /\ Start(b, 1) = [j \in 1 .. 1 |-> Append(b, NUL)[1]]
    BY <1>2
  <2> HIDE DEF Start
  <2> QED
    BY <1>3, <2>1
<1> QED
  BY <1>4 DEF SameStart

(* A table entry is four numbers, and they are read back from it. *)
Entry(a, b, c, d) == Bytes(a) \o Bytes(b) \o Bytes(c) \o Bytes(d)

LEMMA Joined ==
  ASSUME NEW s \in Seq(Byte), NEW t \in Seq(Byte)
  PROVE  /\ s \o t \in Seq(Byte)
         /\ Len(s \o t) = Len(s) + Len(t)
         /\ \A k \in 1 .. Len(s) : (s \o t)[k] = s[k]
         /\ \A k \in 1 .. Len(t) : (s \o t)[Len(s) + k] = t[k]
OBVIOUS

LEMMA EntryType ==
  ASSUME NEW a \in Nat, NEW b \in Nat, NEW c \in Nat, NEW d \in Nat
  PROVE  /\ Entry(a, b, c, d) \in Seq(Byte) /\ Len(Entry(a, b, c, d)) = ENTRY
         /\ \A k \in 1 .. WORDSIZE :
              /\ Entry(a, b, c, d)[k] = Bytes(a)[k]
              /\ Entry(a, b, c, d)[WORDSIZE + k] = Bytes(b)[k]
              /\ Entry(a, b, c, d)[2 * WORDSIZE + k] = Bytes(c)[k]
              /\ Entry(a, b, c, d)[3 * WORDSIZE + k] = Bytes(d)[k]
<1> DEFINE W == WORDSIZE
           W2 == 2 * W
           W3 == 3 * W
           A == Bytes(a)
           B == Bytes(b)
           C == Bytes(c)
           D == Bytes(d)
           AB == A \o B
           ABC == AB \o C
           E == ABC \o D
<1>1. /\ A \in Seq(Byte) /\ Len(A) = W /\ B \in Seq(Byte) /\ Len(B) = W
      /\ C \in Seq(Byte) /\ Len(C) = W /\ D \in Seq(Byte) /\ Len(D) = W
  BY BytesType
<1>2. /\ W \in Nat /\ W2 \in Nat /\ W3 \in Nat
      /\ W + W = W2 /\ W2 + W = W3 /\ W3 + W = 4 * W
  BY Sizes
<1>3. Entry(a, b, c, d) = E
  BY DEF Entry
<1> HIDE DEF A, B, C, D, E, W2, W3
<1>4. /\ AB \in Seq(Byte) /\ Len(AB) = W2
      /\ \A k \in 1 .. W : AB[k] = A[k] /\ AB[W + k] = B[k]
  <2>1. /\ AB \in Seq(Byte)
        /\ Len(AB) = Len(A) + Len(B)
        /\ \A k \in 1 .. Len(A) : AB[k] = A[k]
        /\ \A k \in 1 .. Len(B) : AB[Len(A) + k] = B[k]
    BY <1>1, Joined
  <2> HIDE DEF AB, W
  <2> QED
    BY <1>1, <1>2, <2>1
<1> HIDE DEF AB
<1>5. /\ ABC \in Seq(Byte) /\ Len(ABC) = W3
      /\ \A k \in 1 .. W2 : ABC[k] = AB[k]
      /\ \A k \in 1 .. W : ABC[W2 + k] = C[k]
  <2>1. /\ ABC \in Seq(Byte)
        /\ Len(ABC) = Len(AB) + Len(C)
        /\ \A k \in 1 .. Len(AB) : ABC[k] = AB[k]
        /\ \A k \in 1 .. Len(C) : ABC[Len(AB) + k] = C[k]
    BY <1>1, <1>4, Joined
  <2> HIDE DEF ABC, W
  <2> QED
    BY <1>1, <1>2, <1>4, <2>1
<1> HIDE DEF ABC
<1>6. /\ E \in Seq(Byte) /\ Len(E) = W3 + W
      /\ \A k \in 1 .. W3 : E[k] = ABC[k]
      /\ \A k \in 1 .. W : E[W3 + k] = D[k]
  <2>1. /\ E \in Seq(Byte)
        /\ Len(E) = Len(ABC) + Len(D)
        /\ \A k \in 1 .. Len(ABC) : E[k] = ABC[k]
        /\ \A k \in 1 .. Len(D) : E[Len(ABC) + k] = D[k]
    BY <1>1, <1>5, Joined DEF E
  <2> HIDE DEF W
  <2> QED
    BY <1>1, <1>2, <1>5, <2>1
<1>7. ASSUME NEW k \in 1 .. W
      PROVE  E[k] = A[k] /\ E[W + k] = B[k] /\ E[W2 + k] = C[k] /\ E[W3 + k] = D[k]
  <2>1. k \in 1 .. W2 /\ W + k \in 1 .. W2
    BY <1>2
  <2>2. k \in 1 .. W3 /\ W + k \in 1 .. W3 /\ W2 + k \in 1 .. W3
    BY <1>2
  <2> QED
    BY <1>4, <1>5, <1>6, <2>1, <2>2
<1> QED
  BY <1>2, <1>3, <1>6, <1>7 DEF A, B, C, D, W2, W3, ENTRY

LEMMA EntryHeld ==
  ASSUME NEW f, NEW at \in Nat,
         NEW a \in Word, NEW b \in Word, NEW c \in Word, NEW d \in Word,
         HoldsIn(f, Entry(a, b, c, d), at)
  PROVE  /\ Number(f, at) = a
         /\ Number(f, at + WORDSIZE) = b
         /\ Number(f, at + 2 * WORDSIZE) = c
         /\ Number(f, at + 3 * WORDSIZE) = d
<1> DEFINE W == WORDSIZE
           E == Entry(a, b, c, d)
<1>1. a \in Nat /\ b \in Nat /\ c \in Nat /\ d \in Nat
  BY DEF Word
<1>2. Len(E) = 4 * W
  BY <1>1, EntryType DEF ENTRY
<1>3. \A k \in 1 .. 4 * W : f[at + (k - 1)] = E[k]
  BY <1>2 DEF HoldsIn
<1>9. \A k \in 1 .. W : /\ E[k] = Bytes(a)[k] /\ E[W + k] = Bytes(b)[k]
                        /\ E[2 * W + k] = Bytes(c)[k] /\ E[3 * W + k] = Bytes(d)[k]
  BY <1>1, EntryType
<1> HIDE DEF E
<1>4. ASSUME NEW k \in 1 .. W PROVE f[at + (k - 1)] = Bytes(a)[k]
  <2>1. k \in 1 .. 4 * W
    BY Sizes
  <2> QED
    BY <1>3, <1>9, <2>1
<1>5. ASSUME NEW k \in 1 .. W PROVE f[at + W + (k - 1)] = Bytes(b)[k]
  <2>1. W + k \in 1 .. 4 * W /\ at + ((W + k) - 1) = at + W + (k - 1)
    BY Sizes
  <2> QED
    BY <1>3, <1>9, <2>1
<1>6. ASSUME NEW k \in 1 .. W PROVE f[at + 2 * W + (k - 1)] = Bytes(c)[k]
  <2>1. 2 * W + k \in 1 .. 4 * W /\ at + ((2 * W + k) - 1) = at + 2 * W + (k - 1)
    BY Sizes
  <2> QED
    BY <1>3, <1>9, <2>1
<1>7. ASSUME NEW k \in 1 .. W PROVE f[at + 3 * W + (k - 1)] = Bytes(d)[k]
  <2>1. 3 * W + k \in 1 .. 4 * W /\ at + ((3 * W + k) - 1) = at + 3 * W + (k - 1)
    BY Sizes
  <2> QED
    BY <1>3, <1>9, <2>1
<1>8. at + W \in Nat /\ at + 2 * W \in Nat /\ at + 3 * W \in Nat
  BY Sizes
<1> QED
  BY <1>4, <1>5, <1>6, <1>7, <1>8, NumberOfBytes

-----------------------------------------------------------------------------
(* The layout of a program: where each entry, code and name begins.        *)

Modules(p) == Len(p.mods)
EntryAt(k) == HEADER + (k - 1) * ENTRY
CodeAt(p, k) == Header(p).code_pos + Totals(CodeLens(p))[k - 1]
NameAt(p, k) == Header(p).strs_pos + Len(p.strs) + Totals(NameLens(p))[k - 1]
EntryOf(p, k) == Entry(NameAt(p, k), CodeAt(p, k), Len(p.mods[k].code), p.mods[k].entry)

(* The program's parts are what the assumption says. *)
LEMMA Parts ==
  ASSUME NEW p \in Programs
  PROVE  /\ Modules(p) \in Nat
         /\ p.strs \in Seq(Byte)
         /\ Header(p).nmods = Modules(p)
         /\ Header(p).fsize \in Word /\ Header(p).fsize \in Nat
         /\ DOMAIN p.mods = 1 .. Modules(p)
         /\ \A k \in 1 .. Modules(p) :
              /\ p.mods[k].name \in Seq(Byte \ {NUL})
              /\ p.mods[k].code \in Seq(Byte)
              /\ p.mods[k].entry \in Word
<1>1. p.mods \in Seq(ModData) /\ p.strs \in Seq(Byte) /\ Header(p).fsize \in Word
  BY FileAssumption
<1>2. \A k \in 1 .. Len(p.mods) : p.mods[k] \in ModData
  BY <1>1
<1>3. \A k \in 1 .. Len(p.mods) : /\ p.mods[k].name \in Seq(Byte \ {NUL})
                                  /\ p.mods[k].code \in Seq(Byte)
                                  /\ p.mods[k].entry \in Word
  BY <1>2 DEF ModData
<1>4. Header(p).fsize \in Nat
  BY <1>1 DEF Word
<1>5. Header(p).nmods = Len(p.mods)
  BY DEF Header
<1>6. Len(p.mods) \in Nat /\ DOMAIN p.mods = 1 .. Len(p.mods)
  BY <1>1
<1> QED
  BY <1>1, <1>3, <1>4, <1>5, <1>6 DEF Modules

LEMMA Product ==
  ASSUME NEW a \in Nat, NEW b \in Nat, NEW c \in Nat, a <= b
  PROVE  a * c \in Nat /\ a * c <= b * c /\ (a + 1) * c = a * c + c
OBVIOUS

(* Each region ends where the next begins, the table at the codes, the     *)
(* codes at the strings, the strings at the names and the names at the end *)
(* of the file.                                                            *)
LEMMA EntryLayout ==
  ASSUME NEW p \in Programs
  PROVE  /\ EntryAt(1) = HEADER
         /\ EntryAt(Modules(p) + 1) = Header(p).code_pos
         /\ Header(p).code_pos \in Nat
         /\ \A k \in 1 .. Modules(p) + 1 : /\ EntryAt(k) \in Nat
                                           /\ HEADER <= EntryAt(k)
                                           /\ EntryAt(k) <= Header(p).code_pos
         /\ \A k \in 1 .. Modules(p) : EntryAt(k + 1) = EntryAt(k) + ENTRY
<1> DEFINE n == Modules(p)
<1>1. n \in Nat
  BY Parts
<1>2. Header(p).code_pos = HEADER + n * ENTRY
  BY DEF Header, mods_size, Modules
<1> HIDE DEF n
<1>3. ASSUME NEW k \in 1 .. n + 1
      PROVE  EntryAt(k) \in Nat /\ HEADER <= EntryAt(k) /\ EntryAt(k) <= HEADER + n * ENTRY
  <2>1. k - 1 \in Nat /\ k - 1 <= n
    BY <1>1
  <2>2. (k - 1) * ENTRY \in Nat /\ (k - 1) * ENTRY <= n * ENTRY /\ n * ENTRY \in Nat
    BY <1>1, <2>1, Sizes, Product
  <2> QED
    BY <2>2, Sizes DEF EntryAt
<1>4. ASSUME NEW k \in 1 .. n PROVE EntryAt(k + 1) = EntryAt(k) + ENTRY
  <2>1. k - 1 \in Nat /\ (k + 1) - 1 = (k - 1) + 1
    BY <1>1
  <2>2. ((k - 1) + 1) * ENTRY = (k - 1) * ENTRY + ENTRY /\ (k - 1) * ENTRY \in Nat
    BY <2>1, Sizes, Product
  <2> QED
    BY <2>1, <2>2, Sizes DEF EntryAt
<1>5. EntryAt(1) = HEADER
  BY Sizes DEF EntryAt
<1>6. EntryAt(n + 1) = HEADER + n * ENTRY
  BY <1>1, Sizes DEF EntryAt
<1>7. HEADER + n * ENTRY \in Nat
  BY <1>1, <1>3, <1>6
<1> QED
  BY <1>2, <1>3, <1>4, <1>5, <1>6, <1>7 DEF n

LEMMA CodeLayout ==
  ASSUME NEW p \in Programs
  PROVE  /\ CodeAt(p, 1) = Header(p).code_pos
         /\ CodeAt(p, Modules(p) + 1) = Header(p).strs_pos
         /\ Header(p).strs_pos \in Nat
         /\ \A k \in 1 .. Modules(p) + 1 : /\ CodeAt(p, k) \in Nat
                                           /\ Header(p).code_pos <= CodeAt(p, k)
                                           /\ CodeAt(p, k) <= Header(p).strs_pos
         /\ \A k \in 1 .. Modules(p) :
              CodeAt(p, k + 1) = CodeAt(p, k) + Len(p.mods[k].code)
<1> DEFINE n == Modules(p)
           lens == CodeLens(p)
           T == Totals(lens)
           start == Header(p).code_pos
<1>1. n \in Nat /\ start \in Nat /\ \A k \in 1 .. n : Len(p.mods[k].code) \in Nat
  BY Parts, EntryLayout
<1>2. lens \in Seq(Nat) /\ Len(lens) = n /\ \A k \in 1 .. n : lens[k] = Len(p.mods[k].code)
  BY <1>1, SeqDef DEF CodeLens, Modules
<1>3. /\ T \in [0 .. n -> Nat] /\ T[0] = 0
      /\ \A k \in 1 .. n : T[k] = T[k - 1] + lens[k]
  BY <1>2, TotalsValue
<1>4. Header(p).strs_pos = start + T[n]
  BY DEF Header, code_size, Modules
<1>5. \A k \in 1 .. n + 1 : CodeAt(p, k) = start + T[k - 1]
  BY DEF CodeAt
<1>6. ASSUME NEW k \in 0 .. n PROVE T[k] <= T[n]
  BY <1>1, <1>2, TotalsMonotone
<1> HIDE DEF n, T, start, lens
<1>7. ASSUME NEW k \in 1 .. n + 1
      PROVE  CodeAt(p, k) \in Nat /\ start <= CodeAt(p, k) /\ CodeAt(p, k) <= start + T[n]
  <2>1. k - 1 \in 0 .. n
    BY <1>1
  <2>2. T[k - 1] \in Nat /\ T[k - 1] <= T[n] /\ T[n] \in Nat
    BY <1>1, <1>3, <1>6, <2>1
  <2> QED
    BY <1>1, <1>5, <2>2
<1>8. ASSUME NEW k \in 1 .. n PROVE CodeAt(p, k + 1) = CodeAt(p, k) + Len(p.mods[k].code)
  <2>1. k \in 1 .. n + 1 /\ k + 1 \in 1 .. n + 1 /\ (k + 1) - 1 = k /\ k - 1 \in 0 .. n
    BY <1>1
  <2>2. T[k - 1] \in Nat
    BY <1>3, <2>1
  <2>3. T[k] = T[k - 1] + Len(p.mods[k].code)
    BY <1>2, <1>3
  <2> QED
    BY <1>1, <1>5, <2>1, <2>2, <2>3
<1>9. CodeAt(p, 1) = start /\ CodeAt(p, n + 1) = start + T[n] /\ start + T[n] \in Nat
  <2>1. 1 \in 1 .. n + 1 /\ n + 1 \in 1 .. n + 1 /\ 1 - 1 = 0 /\ (n + 1) - 1 = n /\ n \in 0 .. n
    BY <1>1
  <2> QED
    BY <1>1, <1>3, <1>5, <2>1
<1> QED
  BY <1>4, <1>7, <1>8, <1>9 DEF n, start

LEMMA NameLayout ==
  ASSUME NEW p \in Programs
  PROVE  /\ NameAt(p, 1) = Header(p).strs_pos + Len(p.strs)
         /\ NameAt(p, Modules(p) + 1) = Header(p).fsize
         /\ \A k \in 1 .. Modules(p) + 1 : /\ NameAt(p, k) \in Nat
                                           /\ NameAt(p, 1) <= NameAt(p, k)
                                           /\ NameAt(p, k) <= Header(p).fsize
         /\ \A k \in 1 .. Modules(p) :
              NameAt(p, k + 1) = NameAt(p, k) + Len(p.mods[k].name) + 1
<1> DEFINE n == Modules(p)
           lens == NameLens(p)
           T == Totals(lens)
           start == Header(p).strs_pos + Len(p.strs)
<1>1. n \in Nat /\ start \in Nat /\ \A k \in 1 .. n : Len(p.mods[k].name) + 1 \in Nat
  <2>1. Header(p).strs_pos \in Nat /\ Len(p.strs) \in Nat
    BY Parts, CodeLayout
  <2>2. n \in Nat
    BY Parts
  <2>3. ASSUME NEW k \in 1 .. n PROVE Len(p.mods[k].name) + 1 \in Nat
    <3>1. p.mods[k].name \in Seq(Byte \ {NUL})
      BY Parts
    <3> QED
      BY <3>1
  <2> HIDE DEF n
  <2> QED
    BY <2>1, <2>2, <2>3
<1>2. lens \in Seq(Nat) /\ Len(lens) = n /\ \A k \in 1 .. n : lens[k] = Len(p.mods[k].name) + 1
  BY <1>1, SeqDef DEF NameLens, Modules
<1>3. /\ T \in [0 .. n -> Nat] /\ T[0] = 0
      /\ \A k \in 1 .. n : T[k] = T[k - 1] + lens[k]
  BY <1>2, TotalsValue
<1>4. Header(p).fsize = start + T[n]
  <2>1. Header(p).fsize = Header(p).strs_pos + (Len(p.strs) + T[n])
    BY DEF Header, strs_size, Modules
  <2>2. Header(p).strs_pos \in Nat /\ Len(p.strs) \in Nat /\ T[n] \in Nat
    BY <1>1, <1>3, Parts, CodeLayout
  <2> QED
    BY <2>1, <2>2
<1>5. \A k \in 1 .. n + 1 : NameAt(p, k) = start + T[k - 1]
  BY DEF NameAt
<1>6. ASSUME NEW k \in 0 .. n PROVE T[k] <= T[n]
  BY <1>1, <1>2, TotalsMonotone
<1> HIDE DEF n, T, start, lens
<1>7. NameAt(p, 1) = start /\ NameAt(p, n + 1) = start + T[n]
  <2>1. 1 \in 1 .. n + 1 /\ n + 1 \in 1 .. n + 1 /\ 1 - 1 = 0 /\ (n + 1) - 1 = n /\ n \in 0 .. n
    BY <1>1
  <2> QED
    BY <1>1, <1>3, <1>5, <2>1
<1>8. ASSUME NEW k \in 1 .. n + 1
      PROVE  NameAt(p, k) \in Nat /\ start <= NameAt(p, k) /\ NameAt(p, k) <= start + T[n]
  <2>1. k - 1 \in 0 .. n
    BY <1>1
  <2>2. T[k - 1] \in Nat /\ T[k - 1] <= T[n] /\ T[n] \in Nat
    BY <1>1, <1>3, <1>6, <2>1
  <2> QED
    BY <1>1, <1>5, <2>2
<1>9. ASSUME NEW k \in 1 .. n PROVE NameAt(p, k + 1) = NameAt(p, k) + Len(p.mods[k].name) + 1
  <2>1. k \in 1 .. n + 1 /\ k + 1 \in 1 .. n + 1 /\ (k + 1) - 1 = k /\ k - 1 \in 0 .. n
    BY <1>1
  <2>2. T[k - 1] \in Nat /\ Len(p.mods[k].name) \in Nat
    BY <1>3, <2>1, Parts DEF n
  <2>3. T[k] = T[k - 1] + (Len(p.mods[k].name) + 1)
    BY <1>2, <1>3
  <2>4. NameAt(p, k + 1) = start + T[k] /\ NameAt(p, k) = start + T[k - 1]
    BY <1>5, <2>1
  <2> QED
    BY <1>1, <2>2, <2>3, <2>4
<1> QED
  BY <1>4, <1>7, <1>8, <1>9 DEF n, start

(* Every position in a table entry is held by a word. *)
LEMMA EntryOfWords ==
  ASSUME NEW p \in Programs, NEW k \in 1 .. Modules(p)
  PROVE  /\ NameAt(p, k) \in Word /\ CodeAt(p, k) \in Word
         /\ Len(p.mods[k].code) \in Word /\ p.mods[k].entry \in Word
         /\ EntryOf(p, k) \in Seq(Byte) /\ Len(EntryOf(p, k)) = ENTRY
<1> DEFINE fsize == Header(p).fsize
           len == Len(p.mods[k].code)
<1>1. /\ k \in 1 .. Modules(p) + 1 /\ k + 1 \in 1 .. Modules(p) + 1
      /\ fsize \in Word /\ fsize \in Nat /\ len \in Nat
      /\ Modules(p) \in Nat
  BY Parts
<1>2. /\ NameAt(p, k) \in Nat /\ NameAt(p, k) <= fsize
      /\ NameAt(p, 1) \in Nat /\ NameAt(p, 1) <= fsize
      /\ NameAt(p, 1) = Header(p).strs_pos + Len(p.strs)
  <2>1. 1 \in 1 .. Modules(p) + 1
    BY <1>1
  <2> QED
    BY <1>1, <2>1, NameLayout
<1>3. /\ CodeAt(p, k) \in Nat /\ CodeAt(p, k + 1) = CodeAt(p, k) + len
      /\ CodeAt(p, k + 1) \in Nat /\ CodeAt(p, k + 1) <= Header(p).strs_pos
      /\ Header(p).strs_pos \in Nat /\ Len(p.strs) \in Nat
  BY <1>1, CodeLayout, Parts
<1> HIDE DEF fsize, len
<1>4. NameAt(p, k) \in 0 .. fsize /\ CodeAt(p, k) \in 0 .. fsize /\ len \in 0 .. fsize
  BY <1>1, <1>2, <1>3
<1>5. NameAt(p, k) \in Word /\ CodeAt(p, k) \in Word /\ len \in Word
  BY <1>1, <1>4, WordDownward
<1>6. p.mods[k].entry \in Word
  BY Parts
<1>7. NameAt(p, k) \in Nat /\ CodeAt(p, k) \in Nat /\ len \in Nat /\ p.mods[k].entry \in Nat
  BY <1>5, <1>6 DEF Word
<1>8. EntryOf(p, k) = Entry(NameAt(p, k), CodeAt(p, k), len, p.mods[k].entry)
  BY DEF EntryOf, len
<1>9. EntryOf(p, k) \in Seq(Byte) /\ Len(EntryOf(p, k)) = ENTRY
  <2> DEFINE a == NameAt(p, k)
             b == CodeAt(p, k)
             d == p.mods[k].entry
  <2>1. a \in Nat /\ b \in Nat /\ len \in Nat /\ d \in Nat
    BY <1>7
  <2>2. EntryOf(p, k) = Entry(a, b, len, d)
    BY <1>8
  <2> HIDE DEF a, b, d
  <2>3. Entry(a, b, len, d) \in Seq(Byte) /\ Len(Entry(a, b, len, d)) = ENTRY
    BY <2>1, EntryType
  <2> QED
    BY <2>2, <2>3
<1> QED
  BY <1>5, <1>6, <1>9 DEF len

-----------------------------------------------------------------------------
(* The inductive invariant.                                                *)

N == Modules(pdata)
entries == IF writing = "TABLE" THEN i ELSE N       \* entries written
codes == IF writing = "TABLE" THEN 0 ELSE IF writing = "CODE" THEN i ELSE N

TypeOK ==
  /\ pdata \in Programs /\ header = Header(pdata)
  /\ file \in Blob(header.fsize)
  /\ writing \in {"TABLE", "CODE", "NONE"}
  /\ i \in 0 .. N
  /\ module # NoName => writing = "NONE"
  /\ module = NoName => found = NotFound

(* Each cursor stands where the next entry, code or name belongs. *)
Cursors ==
  /\ writing = "TABLE" => /\ current = EntryAt(i + 1)
                          /\ code_pos = CodeAt(pdata, i + 1)
                          /\ name_pos = NameAt(pdata, i + 1)
  /\ writing = "CODE" => current = CodeAt(pdata, i + 1)
  /\ module # NoName => current = EntryAt(i + 1)

(* The bytes not written yet are those of the entries, codes, strings and  *)
(* names to come.                                                          *)
Blank(a) ==
  \/ EntryAt(entries + 1) <= a /\ a < header.code_pos
  \/ CodeAt(pdata, codes + 1) <= a /\ a < header.strs_pos
  \/ writing # "NONE" /\ header.strs_pos <= a /\ a < NameAt(pdata, 1)
  \/ NameAt(pdata, entries + 1) <= a
Blanks == \A a \in DOMAIN file : file[a] = Unset <=> Blank(a)

(* What was written is there. *)
Written ==
  /\ \A k \in 1 .. entries : /\ HoldsIn(file, EntryOf(pdata, k), EntryAt(k))
                             /\ HoldsIn(file, Append(pdata.mods[k].name, NUL), NameAt(pdata, k))
  /\ \A k \in 1 .. codes : HoldsIn(file, pdata.mods[k].code, CodeAt(pdata, k))
  /\ writing = "NONE" => HoldsIn(file, pdata.strs, header.strs_pos)

(* The search has passed no module of the name; what it found is the entry *)
(* it stopped at, whose name begins as the one looked for.                 *)
Search ==
  module # NoName =>
    /\ module \in Names
    /\ found = NotFound => \A k \in 1 .. i : pdata.mods[k].name # module
    /\ found # NotFound => /\ i > 0 /\ IsEntryOf(found, i)
                           /\ SameStart(pdata.mods[i].name, module, 1)
                           /\ \A k \in 1 .. i - 1 : pdata.mods[k].name # module

IInv == TypeOK /\ Cursors /\ Blanks /\ Written /\ Search

(* No byte that is set changes. *)
Kept == \A a \in DOMAIN file : file[a] # Unset => file'[a] = file[a]

(* The order of the regions, at the module that is next. *)
LEMMA Places ==
  ASSUME TypeOK
  PROVE  /\ N \in Nat /\ header.nmods = N /\ header.fsize \in Nat
         /\ header.code_pos \in Nat /\ header.strs_pos \in Nat
         /\ EntryAt(1) = HEADER /\ EntryAt(N + 1) = header.code_pos
         /\ HEADER <= header.code_pos
         /\ CodeAt(pdata, 1) = header.code_pos /\ CodeAt(pdata, N + 1) = header.strs_pos
         /\ header.code_pos <= header.strs_pos
         /\ NameAt(pdata, 1) = header.strs_pos + Len(pdata.strs)
         /\ Len(pdata.strs) \in Nat
         /\ NameAt(pdata, N + 1) = header.fsize
         /\ NameAt(pdata, 1) \in Nat /\ NameAt(pdata, 1) <= header.fsize
         /\ DOMAIN file = 0 .. header.fsize - 1
<1>1. /\ pdata \in Programs /\ header = Header(pdata)
      /\ DOMAIN file = 0 .. header.fsize - 1
  BY DEF TypeOK, Blob
<1>2. /\ N \in Nat /\ header.nmods = N /\ header.fsize \in Nat
      /\ pdata.strs \in Seq(Byte)
  BY <1>1, Parts DEF N
<1>3. 1 \in 1 .. N + 1 /\ Len(pdata.strs) \in Nat
  BY <1>2
<1>4. /\ EntryAt(1) = HEADER /\ EntryAt(N + 1) = header.code_pos
      /\ header.code_pos \in Nat /\ HEADER <= header.code_pos
  BY <1>1, <1>3, EntryLayout DEF N
<1>5. /\ CodeAt(pdata, 1) = header.code_pos /\ CodeAt(pdata, N + 1) = header.strs_pos
      /\ header.strs_pos \in Nat /\ header.code_pos <= header.strs_pos
  BY <1>1, <1>3, CodeLayout DEF N
<1>6. /\ NameAt(pdata, 1) = header.strs_pos + Len(pdata.strs)
      /\ NameAt(pdata, N + 1) = header.fsize
      /\ NameAt(pdata, 1) \in Nat /\ NameAt(pdata, 1) <= header.fsize
  BY <1>1, <1>3, NameLayout DEF N
<1> QED
  BY <1>1, <1>2, <1>3, <1>4, <1>5, <1>6

LEMMA NextPlaces ==
  ASSUME TypeOK, NEW k \in 1 .. N
  PROVE  /\ EntryAt(k) \in Nat /\ EntryAt(k + 1) = EntryAt(k) + ENTRY
         /\ HEADER <= EntryAt(k) /\ EntryAt(k + 1) <= header.code_pos
         /\ pdata.mods[k].code \in Seq(Byte) /\ Len(pdata.mods[k].code) \in Nat
         /\ CodeAt(pdata, k) \in Nat
         /\ CodeAt(pdata, k + 1) = CodeAt(pdata, k) + Len(pdata.mods[k].code)
         /\ header.code_pos <= CodeAt(pdata, k) /\ CodeAt(pdata, k + 1) <= header.strs_pos
         /\ pdata.mods[k].name \in Seq(Byte \ {NUL}) /\ Len(pdata.mods[k].name) \in Nat
         /\ NameAt(pdata, k) \in Nat
         /\ NameAt(pdata, k + 1) = NameAt(pdata, k) + Len(pdata.mods[k].name) + 1
         /\ NameAt(pdata, 1) <= NameAt(pdata, k) /\ NameAt(pdata, k + 1) <= header.fsize
<1>1. /\ pdata \in Programs /\ header = Header(pdata) /\ N \in Nat
  BY Places DEF TypeOK
<1>2. k \in 1 .. N + 1 /\ k + 1 \in 1 .. N + 1
  BY <1>1
<1>3. /\ pdata.mods[k].code \in Seq(Byte) /\ pdata.mods[k].name \in Seq(Byte \ {NUL})
  BY <1>1, Parts DEF N
<1>4. Len(pdata.mods[k].code) \in Nat /\ Len(pdata.mods[k].name) \in Nat
  BY <1>3
<1>5. /\ EntryAt(k) \in Nat /\ EntryAt(k + 1) = EntryAt(k) + ENTRY
      /\ HEADER <= EntryAt(k) /\ EntryAt(k + 1) <= header.code_pos
  BY <1>1, <1>2, EntryLayout DEF N
<1>6. /\ CodeAt(pdata, k) \in Nat
      /\ CodeAt(pdata, k + 1) = CodeAt(pdata, k) + Len(pdata.mods[k].code)
      /\ header.code_pos <= CodeAt(pdata, k) /\ CodeAt(pdata, k + 1) <= header.strs_pos
  BY <1>1, <1>2, CodeLayout DEF N
<1>7. /\ NameAt(pdata, k) \in Nat
      /\ NameAt(pdata, k + 1) = NameAt(pdata, k) + Len(pdata.mods[k].name) + 1
      /\ NameAt(pdata, 1) <= NameAt(pdata, k) /\ NameAt(pdata, k + 1) <= header.fsize
  BY <1>1, <1>2, NameLayout DEF N
<1> QED
  BY <1>3, <1>4, <1>5, <1>6, <1>7

-----------------------------------------------------------------------------
(* Each action keeps the invariant; the writes keep what is set.           *)

LEMMA InitIInv ==
  ASSUME Init
  PROVE  IInv
<1>1. /\ pdata \in Programs /\ header = Header(pdata) /\ writing = "TABLE" /\ i = 0
      /\ module = NoName /\ found = NotFound
  BY DEF Init
<1>2. N \in Nat /\ header.fsize \in Nat
  BY <1>1, Parts DEF N
<1>3. \A a \in DOMAIN file : file[a] = IF a < HEADER THEN NUL ELSE Unset
  BY DEF Init
<1>4. Unset \notin Byte /\ NUL \in Byte
  BY FileAssumption DEF Byte, NUL
<1>5. TypeOK
  <2>1. file = [a \in 0 .. header.fsize - 1 |-> IF a < HEADER THEN NUL ELSE Unset]
    BY DEF Init
  <2>2. file \in [0 .. header.fsize - 1 -> Byte \cup {Unset}]
    BY <1>4, <2>1
  <2> QED
    BY <1>1, <1>2, <2>2 DEF TypeOK, Blob
<1>6. Cursors
  BY <1>1, <1>5, Places DEF Cursors, Init
<1>7. Blanks
  <2>1. entries = 0 /\ codes = 0
    BY <1>1 DEF entries, codes
  <2>2. ASSUME NEW a \in DOMAIN file PROVE (a < HEADER) <=> ~Blank(a)
    <3>1. a \in Nat /\ entries + 1 = 1 /\ codes + 1 = 1 /\ HEADER \in Nat
      BY <1>5, <2>1, Places, Sizes
    <3> QED
      BY <1>1, <1>5, <3>1, Places DEF Blank
  <2>3. NUL # Unset
    BY <1>4
  <2> QED
    BY <1>3, <2>2, <2>3 DEF Blanks
<1>8. Written
  BY <1>1 DEF Written, entries, codes
<1>9. Search
  BY <1>1 DEF Search
<1> QED
  BY <1>5, <1>6, <1>7, <1>8, <1>9 DEF IInv

(* What was written before a step that keeps it is still there. *)
LEMMA WrittenKept ==
  ASSUME TypeOK, Written, Kept, UNCHANGED <<pdata, header>>, DOMAIN file' = DOMAIN file
  PROVE  /\ \A k \in 1 .. entries :
              /\ HoldsIn(file', EntryOf(pdata, k), EntryAt(k))
              /\ HoldsIn(file', Append(pdata.mods[k].name, NUL), NameAt(pdata, k))
         /\ \A k \in 1 .. codes : HoldsIn(file', pdata.mods[k].code, CodeAt(pdata, k))
         /\ writing = "NONE" => HoldsIn(file', pdata.strs, header.strs_pos)
<1>1. \A bytes \in Seq(Byte) : \A at : HoldsIn(file, bytes, at) => HoldsIn(file', bytes, at)
  BY StillHeld DEF Kept
<1>2. pdata \in Programs /\ pdata.strs \in Seq(Byte) /\ N \in Nat
  BY Places, Parts DEF TypeOK
<1>3. 1 .. entries \subseteq 1 .. N /\ 1 .. codes \subseteq 1 .. N
  BY <1>2 DEF entries, codes, TypeOK
<1>4. ASSUME NEW k \in 1 .. N
      PROVE  /\ EntryOf(pdata, k) \in Seq(Byte) /\ pdata.mods[k].code \in Seq(Byte)
             /\ Append(pdata.mods[k].name, NUL) \in Seq(Byte)
  <2>1. EntryOf(pdata, k) \in Seq(Byte)
    BY <1>2, EntryOfWords DEF N
  <2>2. pdata.mods[k].code \in Seq(Byte) /\ pdata.mods[k].name \in Seq(Byte \ {NUL})
    BY NextPlaces
  <2>3. NUL \in Byte
    BY Sizes DEF NUL, Byte
  <2> QED
    BY <2>1, <2>2, <2>3
<1> QED
  BY <1>1, <1>2, <1>3, <1>4 DEF Written

LEMMA WriteEntryIInv ==
  ASSUME IInv, WriteEntry
  PROVE  IInv' /\ Kept
<1> DEFINE k == i + 1
           e == EntryOf(pdata, k)
           name == pdata.mods[k].name
           nm == Append(name, NUL)
           size == header.fsize
           g == memcpy(file, current, e)
<1>1. /\ TypeOK /\ Cursors /\ Blanks /\ Written /\ Search
      /\ writing = "TABLE" /\ i < header.nmods
      /\ UNCHANGED <<pdata, header, writing, lookup>>
      /\ i' = i + 1 /\ current' = current + ENTRY
  BY DEF IInv, WriteEntry
<1>2. k \in 1 .. N /\ N \in Nat /\ i \in Nat
  BY <1>1, Places DEF TypeOK
<1>3. k = i + 1
  OBVIOUS
<1> HIDE DEF k
<1>4. /\ current = EntryAt(k) /\ code_pos = CodeAt(pdata, k) /\ name_pos = NameAt(pdata, k)
  BY <1>1, <1>3 DEF Cursors
<1>5. /\ e \in Seq(Byte) /\ Len(e) = ENTRY
  BY <1>1, <1>2, EntryOfWords DEF N, TypeOK
<1>6. /\ nm \in Seq(Byte) /\ Len(nm) = Len(name) + 1 /\ Len(name) \in Nat
  <2>1. name \in Seq(Byte \ {NUL})
    BY <1>1, <1>2, NextPlaces
  <2>2. NUL \in Byte
    BY Sizes DEF NUL, Byte
  <2> HIDE DEF name
  <2> QED
    BY <2>1, <2>2
<1>7. /\ file' = memcpy(g, name_pos, nm)
      /\ code_pos' = code_pos + Len(pdata.mods[k].code)
      /\ name_pos' = name_pos + Len(name) + 1
  <2>1. e = Bytes(name_pos) \o Bytes(code_pos) \o Bytes(Len(pdata.mods[k].code))
              \o Bytes(pdata.mods[k].entry)
    BY <1>4 DEF EntryOf, Entry
  <2> QED
    BY <2>1, <1>3 DEF WriteEntry
<1>8. size \in Nat /\ file \in Blob(size) /\ DOMAIN file = 0 .. size - 1
  BY <1>1, Places DEF TypeOK
<1>9. /\ EntryAt(k) \in Nat /\ EntryAt(k + 1) = EntryAt(k) + ENTRY
      /\ EntryAt(k + 1) <= header.code_pos /\ header.code_pos <= header.strs_pos
      /\ header.strs_pos <= NameAt(pdata, 1) /\ NameAt(pdata, 1) <= NameAt(pdata, k)
      /\ NameAt(pdata, k + 1) = NameAt(pdata, k) + Len(name) + 1
      /\ NameAt(pdata, k + 1) <= size /\ NameAt(pdata, k) \in Nat
      /\ header.code_pos \in Nat /\ header.strs_pos \in Nat /\ NameAt(pdata, 1) \in Nat
  BY <1>1, <1>2, Places, NextPlaces
<1>10. CodeAt(pdata, k + 1) = CodeAt(pdata, k) + Len(pdata.mods[k].code)
  BY <1>1, <1>2, NextPlaces
<1> HIDE DEF e, name, nm, size, g
<1>11. IsCopy(g, file, size, current, e)
  <2>1. current + Len(e) <= size /\ current \in Nat
    BY <1>4, <1>5, <1>6, <1>8, <1>9, Sizes
  <2> QED
    BY <1>5, <1>8, <2>1, Copied DEF g
<1>12. IsCopy(file', g, size, name_pos, nm)
  <2>1. name_pos + Len(nm) <= size /\ name_pos \in Nat
    BY <1>4, <1>6, <1>9
  <2> QED
    BY <1>6, <1>7, <1>8, <1>11, <2>1, Copied DEF IsCopy
<1>13. DOMAIN file' = 0 .. size - 1 /\ DOMAIN g = 0 .. size - 1
  BY <1>11, <1>12 DEF IsCopy, Blob
<1>14. HoldsIn(file', e, current)
  <2>1. ASSUME NEW j \in 1 .. Len(e)
        PROVE  current + (j - 1) \in 0 .. size - 1 /\ file'[current + (j - 1)] = e[j]
    <3>1. current + (j - 1) \in 0 .. size - 1 /\ g[current + (j - 1)] = e[j]
      BY <1>8, <1>13, <1>11 DEF IsCopy, HoldsIn
    <3>2. current + (j - 1) < name_pos
      BY <1>4, <1>5, <1>9, Sizes
    <3>3. current + (j - 1) \notin name_pos .. name_pos + Len(nm) - 1
      BY <1>4, <1>9, <3>1, <3>2
    <3> QED
      BY <1>12, <3>1, <3>3 DEF IsCopy
  <2> QED
    BY <1>13, <2>1 DEF HoldsIn
<1>15. \A a \in 0 .. size - 1 :
         /\ a \notin current .. current + ENTRY - 1
         /\ a \notin name_pos .. name_pos + Len(nm) - 1
         => file'[a] = file[a]
  BY <1>5, <1>11, <1>12 DEF IsCopy
<1>16. \A a \in 0 .. size - 1 :
         \/ a \in current .. current + ENTRY - 1
         \/ a \in name_pos .. name_pos + Len(nm) - 1
         => file'[a] # Unset
  <2>1. ASSUME NEW bytes \in Seq(Byte), NEW at \in Nat, HoldsIn(file', bytes, at),
               NEW a \in at .. at + Len(bytes) - 1
        PROVE  file'[a] # Unset
    <3> DEFINE j == a - at + 1
    <3>1. j \in 1 .. Len(bytes) /\ at + (j - 1) = a
      OBVIOUS
    <3> HIDE DEF j
    <3>2. file'[a] = bytes[j] /\ bytes[j] \in Byte
      BY <2>1, <3>1 DEF HoldsIn
    <3> QED
      BY <3>2, FileAssumption
  <2>2. current \in Nat /\ name_pos \in Nat
    BY <1>4, <1>9
  <2> QED
    BY <1>5, <1>6, <1>12, <1>14, <2>1, <2>2 DEF IsCopy
<1>17. ASSUME NEW a \in 0 .. size - 1
       PROVE  Blank(a) <=> \/ a \in current .. current + ENTRY - 1
                           \/ a \in name_pos .. name_pos + Len(nm) - 1
                           \/ Blank(a)'
  <2>1. entries = i /\ codes = 0 /\ entries' = i + 1 /\ codes' = 0
    BY <1>1 DEF entries, codes
  <2>2. Blank(a) <=> \/ EntryAt(k) <= a /\ a < header.code_pos
                     \/ CodeAt(pdata, 1) <= a /\ a < header.strs_pos
                     \/ header.strs_pos <= a /\ a < NameAt(pdata, 1)
                     \/ NameAt(pdata, k) <= a
    BY <1>1, <1>3, <2>1 DEF Blank
  <2>3. Blank(a)' <=> \/ EntryAt(k + 1) <= a /\ a < header.code_pos
                      \/ CodeAt(pdata, 1) <= a /\ a < header.strs_pos
                      \/ header.strs_pos <= a /\ a < NameAt(pdata, 1)
                      \/ NameAt(pdata, k + 1) <= a
    BY <1>1, <1>3, <2>1 DEF Blank
  <2> QED
    BY <1>4, <1>6, <1>9, <2>2, <2>3, Sizes DEF size
<1>18. ASSUME NEW a \in 0 .. size - 1, Blank(a)'
       PROVE  /\ a \notin current .. current + ENTRY - 1
              /\ a \notin name_pos .. name_pos + Len(nm) - 1
  <2>1. entries' = i + 1 /\ codes' = 0
    BY <1>1 DEF entries, codes
  <2>2. \/ EntryAt(k + 1) <= a /\ a < header.code_pos
        \/ CodeAt(pdata, 1) <= a /\ a < header.strs_pos
        \/ header.strs_pos <= a /\ a < NameAt(pdata, 1)
        \/ NameAt(pdata, k + 1) <= a
    BY <1>1, <1>2, <1>3, <1>18, <2>1 DEF Blank
  <2>3. CodeAt(pdata, 1) = header.code_pos
    BY <1>1, Places
  <2> QED
    BY <1>4, <1>6, <1>9, <2>2, <2>3, Sizes DEF size
<1>19. Kept
  BY <1>1, <1>8, <1>15, <1>17 DEF Kept, Blanks
<1>20. TypeOK'
  <2>1. N' = N /\ i' \in 0 .. N
    BY <1>1, <1>2, <1>3 DEF N
  <2> QED
    BY <1>1, <1>12, <2>1 DEF TypeOK, IsCopy, lookup, size
<1>21. Cursors'
  BY <1>1, <1>2, <1>4, <1>7, <1>9, <1>10, <1>3 DEF Cursors, lookup, TypeOK
<1>22. Blanks'
  <2>2. ASSUME NEW a \in 0 .. size - 1 PROVE file'[a] = Unset <=> Blank(a)'
    BY <1>1, <1>8, <1>15, <1>16, <1>17, <1>18 DEF Blanks
  <2> QED
    BY <1>13, <2>2 DEF Blanks
<1>23. Written'
  <2>1. entries = i /\ codes = 0 /\ entries' = k /\ codes' = 0 /\ writing' = "TABLE"
    BY <1>1, <1>3 DEF entries, codes
  <2>2. \A j \in 1 .. i : /\ HoldsIn(file', EntryOf(pdata, j), EntryAt(j))
                          /\ HoldsIn(file', Append(pdata.mods[j].name, NUL), NameAt(pdata, j))
    BY <1>1, <1>8, <1>13, <1>19, <2>1, WrittenKept
  <2>3. HoldsIn(file', EntryOf(pdata, k), EntryAt(k))
    BY <1>4, <1>14 DEF e
  <2>4. HoldsIn(file', Append(pdata.mods[k].name, NUL), NameAt(pdata, k))
    BY <1>4, <1>12 DEF IsCopy, nm, name
  <2>5. \A j \in 1 .. k : j = k \/ j \in 1 .. i
    BY <1>2, <1>3
  <2> QED
    BY <1>1, <2>1, <2>2, <2>3, <2>4, <2>5 DEF Written
<1>24. Search'
  BY <1>1 DEF Search, TypeOK, lookup
<1> QED
  BY <1>19, <1>20, <1>21, <1>22, <1>23, <1>24 DEF IInv

(* A step that writes one sequence of bytes where all is blank: what it    *)
(* covers is set and the rest is as it was.                                *)
LEMMA OneCopy ==
  ASSUME NEW bytes \in Seq(Byte), TypeOK, Blanks,
         NEW at \in Nat, at + Len(bytes) <= header.fsize,
         file' = memcpy(file, at, bytes),
         UNCHANGED <<pdata, header>>,
         \A a \in DOMAIN file : Blank(a) <=> a \in at .. at + Len(bytes) - 1 \/ Blank(a)',
         \A a \in DOMAIN file : Blank(a)' => a \notin at .. at + Len(bytes) - 1
  PROVE  /\ file' \in Blob(header.fsize) /\ DOMAIN file' = DOMAIN file
         /\ HoldsIn(file', bytes, at)
         /\ Kept /\ Blanks'
<1> DEFINE size == header.fsize
           covered == at .. at + Len(bytes) - 1
<1>1. size \in Nat /\ file \in Blob(size) /\ DOMAIN file = 0 .. size - 1
  BY Places DEF TypeOK
<1>2. IsCopy(file', file, size, at, bytes)
  BY <1>1, Copied
<1>3. DOMAIN file' = 0 .. size - 1
  BY <1>2 DEF IsCopy, Blob
<1>4. ASSUME NEW a \in covered PROVE file'[a] # Unset
  <2> DEFINE j == a - at + 1
  <2>1. j \in 1 .. Len(bytes) /\ at + (j - 1) = a
    OBVIOUS
  <2> HIDE DEF j
  <2>2. HoldsIn(file', bytes, at)
    BY <1>2 DEF IsCopy
  <2>3. file'[a] = bytes[j]
    BY <2>1, <2>2 DEF HoldsIn
  <2>4. bytes[j] \in Byte
    BY <2>1
  <2> QED
    BY <2>3, <2>4, FileAssumption
<1>5. \A a \in 0 .. size - 1 : a \notin covered => file'[a] = file[a]
  BY <1>2 DEF IsCopy
<1> HIDE DEF size, covered
<1>6. \A a \in 0 .. size - 1 : /\ Blank(a) <=> a \in covered \/ Blank(a)'
                               /\ Blank(a)' => a \notin covered
  BY <1>1 DEF covered
<1>7. Kept
  BY <1>1, <1>5, <1>6 DEF Kept, Blanks
<1>8. ASSUME NEW a \in 0 .. size - 1 PROVE file'[a] = Unset <=> Blank(a)'
  BY <1>1, <1>4, <1>5, <1>6 DEF Blanks
<1> QED
  BY <1>1, <1>2, <1>3, <1>7, <1>8 DEF Blanks, IsCopy, size

LEMMA EndTableIInv ==
  ASSUME IInv, EndTable
  PROVE  IInv' /\ Kept
<1>1. /\ TypeOK /\ Cursors /\ Blanks /\ Written /\ Search
      /\ writing = "TABLE" /\ i = header.nmods /\ writing' = "CODE" /\ i' = 0
      /\ current' = header.code_pos
      /\ UNCHANGED <<pdata, header, file, code_pos, name_pos, lookup>>
  BY DEF IInv, EndTable
<1>2. /\ N \in Nat /\ i = N /\ CodeAt(pdata, 1) = header.code_pos
  BY <1>1, Places
<1>3. entries = N /\ codes = 0 /\ entries' = N /\ codes' = 0 /\ N' = N
  BY <1>1, <1>2 DEF entries, codes, N
<1>4. TypeOK'
  BY <1>1, <1>2, <1>3 DEF TypeOK, lookup
<1>5. Cursors'
  BY <1>1, <1>2 DEF Cursors, TypeOK, lookup
<1>6. \A a \in DOMAIN file : Blank(a) <=> Blank(a)'
  BY <1>1, <1>3 DEF Blank
<1>7. Blanks'
  BY <1>1, <1>6 DEF Blanks
<1>8. Written'
  BY <1>1, <1>3 DEF Written
<1>9. Search'
  BY <1>1 DEF Search, TypeOK, lookup
<1> QED
  BY <1>1, <1>4, <1>5, <1>7, <1>8, <1>9 DEF IInv, Kept

LEMMA WriteCodeIInv ==
  ASSUME IInv, WriteCode
  PROVE  IInv' /\ Kept
<1> DEFINE k == i + 1
           code == pdata.mods[k].code
<1>1. /\ TypeOK /\ Cursors /\ Blanks /\ Written /\ Search
      /\ writing = "CODE" /\ i < header.nmods /\ i' = i + 1
      /\ file' = memcpy(file, current, code) /\ current' = current + Len(code)
      /\ UNCHANGED <<pdata, header, writing, code_pos, name_pos, lookup>>
  BY DEF IInv, WriteCode
<1>2. k \in 1 .. N /\ N \in Nat /\ i \in Nat
  BY <1>1, Places DEF TypeOK
<1>3. k = i + 1
  OBVIOUS
<1> HIDE DEF k
<1>4. current = CodeAt(pdata, k)
  BY <1>1, <1>3 DEF Cursors
<1>5. /\ code \in Seq(Byte) /\ Len(code) \in Nat
      /\ CodeAt(pdata, k) \in Nat /\ CodeAt(pdata, k + 1) = CodeAt(pdata, k) + Len(code)
      /\ header.code_pos <= CodeAt(pdata, k) /\ CodeAt(pdata, k + 1) <= header.strs_pos
  BY <1>1, <1>2, NextPlaces
<1>6. /\ header.fsize \in Nat /\ header.strs_pos \in Nat /\ header.code_pos \in Nat
      /\ header.strs_pos <= NameAt(pdata, 1) /\ NameAt(pdata, 1) <= header.fsize
      /\ NameAt(pdata, 1) \in Nat
      /\ EntryAt(N + 1) = header.code_pos /\ NameAt(pdata, N + 1) = header.fsize
      /\ DOMAIN file = 0 .. header.fsize - 1
  BY <1>1, Places
<1> HIDE DEF code
<1>7. entries = N /\ codes = i /\ entries' = N /\ codes' = k /\ N' = N
  BY <1>1, <1>3 DEF entries, codes, N
<1>8. \A a \in DOMAIN file : Blank(a) <=> \/ CodeAt(pdata, k) <= a /\ a < header.strs_pos
                                          \/ header.strs_pos <= a /\ a < NameAt(pdata, 1)
  BY <1>1, <1>3, <1>6, <1>7 DEF Blank
<1>9. \A a \in DOMAIN file : Blank(a)' <=> \/ CodeAt(pdata, k + 1) <= a /\ a < header.strs_pos
                                           \/ header.strs_pos <= a /\ a < NameAt(pdata, 1)
  BY <1>1, <1>6, <1>7 DEF Blank
<1>10. /\ file' \in Blob(header.fsize) /\ DOMAIN file' = DOMAIN file
       /\ HoldsIn(file', code, current)
       /\ Kept /\ Blanks'
  <2>1. current \in Nat /\ current + Len(code) <= header.fsize
    BY <1>4, <1>5, <1>6
  <2>2. ASSUME NEW a \in DOMAIN file
        PROVE  /\ Blank(a) <=> a \in current .. current + Len(code) - 1 \/ Blank(a)'
               /\ Blank(a)' => a \notin current .. current + Len(code) - 1
    BY <1>4, <1>5, <1>6, <1>8, <1>9
  <2> QED
    BY <1>1, <1>5, <2>1, <2>2, OneCopy
<1>11. TypeOK'
  BY <1>1, <1>2, <1>3, <1>7, <1>10 DEF TypeOK, lookup
<1>12. Cursors'
  BY <1>1, <1>2, <1>3, <1>4, <1>5 DEF Cursors, TypeOK, lookup
<1>13. Written'
  <2>1. \A j \in 1 .. N : /\ HoldsIn(file', EntryOf(pdata, j), EntryAt(j))
                          /\ HoldsIn(file', Append(pdata.mods[j].name, NUL), NameAt(pdata, j))
    BY <1>1, <1>7, <1>10, WrittenKept
  <2>2. \A j \in 1 .. i : HoldsIn(file', pdata.mods[j].code, CodeAt(pdata, j))
    BY <1>1, <1>7, <1>10, WrittenKept
  <2>3. HoldsIn(file', pdata.mods[k].code, CodeAt(pdata, k))
    BY <1>4, <1>10 DEF code
  <2>4. \A j \in 1 .. k : j = k \/ j \in 1 .. i
    BY <1>2, <1>3
  <2> QED
    BY <1>1, <1>7, <2>1, <2>2, <2>3, <2>4 DEF Written
<1>14. Search'
  BY <1>1 DEF Search, TypeOK, lookup
<1> QED
  BY <1>10, <1>11, <1>12, <1>13, <1>14 DEF IInv

LEMMA WriteStringsIInv ==
  ASSUME IInv, WriteStrings
  PROVE  IInv' /\ Kept
<1> DEFINE strs == pdata.strs
           at == header.strs_pos
<1>1. /\ TypeOK /\ Cursors /\ Blanks /\ Written /\ Search
      /\ writing = "CODE" /\ i = header.nmods /\ writing' = "NONE"
      /\ file' = memcpy(file, at, strs)
      /\ UNCHANGED <<pdata, header, cursors, i, lookup>>
  BY DEF IInv, WriteStrings
<1>2. /\ N \in Nat /\ i = N /\ strs \in Seq(Byte) /\ Len(strs) \in Nat /\ at \in Nat
      /\ CodeAt(pdata, N + 1) = at /\ EntryAt(N + 1) = header.code_pos
      /\ NameAt(pdata, N + 1) = header.fsize /\ NameAt(pdata, 1) = at + Len(strs)
      /\ NameAt(pdata, 1) <= header.fsize
      /\ header.fsize \in Nat /\ DOMAIN file = 0 .. header.fsize - 1
  <2>1. strs \in Seq(Byte)
    BY <1>1, Parts DEF TypeOK
  <2> QED
    BY <1>1, <2>1, Places
<1> HIDE DEF strs
<1>3. entries = N /\ codes = N /\ entries' = N /\ codes' = N /\ N' = N
  BY <1>1, <1>2 DEF entries, codes, N
<1>4. \A a \in DOMAIN file : Blank(a) <=> at <= a /\ a < NameAt(pdata, 1)
  BY <1>1, <1>2, <1>3 DEF Blank
<1>5. \A a \in DOMAIN file : ~Blank(a)'
  <2>1. ASSUME NEW a \in DOMAIN file, Blank(a)' PROVE FALSE
    <3>1. \/ EntryAt(N + 1) <= a /\ a < header.code_pos
          \/ CodeAt(pdata, N + 1) <= a /\ a < header.strs_pos
          \/ NameAt(pdata, N + 1) <= a
      BY <1>1, <1>3, <2>1 DEF Blank
    <3>2. header.code_pos \in Nat
      BY <1>1, Places
    <3> QED
      BY <1>2, <3>1, <3>2
  <2> QED
    BY <2>1
<1>6. /\ file' \in Blob(header.fsize) /\ DOMAIN file' = DOMAIN file
      /\ HoldsIn(file', strs, at)
      /\ Kept /\ Blanks'
  <2>1. at + Len(strs) <= header.fsize
    BY <1>2
  <2>2. ASSUME NEW a \in DOMAIN file
        PROVE  /\ Blank(a) <=> a \in at .. at + Len(strs) - 1 \/ Blank(a)'
               /\ Blank(a)' => a \notin at .. at + Len(strs) - 1
    BY <1>2, <1>4, <1>5
  <2> QED
    BY <1>1, <1>2, <2>1, <2>2, OneCopy
<1>7. TypeOK'
  BY <1>1, <1>3, <1>6 DEF TypeOK, lookup
<1>8. Cursors'
  BY <1>1 DEF Cursors, TypeOK, lookup
<1>9. Written'
  <2>1. /\ \A j \in 1 .. N :
             /\ HoldsIn(file', EntryOf(pdata, j), EntryAt(j))
             /\ HoldsIn(file', Append(pdata.mods[j].name, NUL), NameAt(pdata, j))
        /\ \A j \in 1 .. N : HoldsIn(file', pdata.mods[j].code, CodeAt(pdata, j))
    BY <1>1, <1>3, <1>6, WrittenKept
  <2> QED
    BY <1>1, <1>3, <1>6, <2>1 DEF Written, strs
<1>10. Search'
  BY <1>1 DEF Search, TypeOK, lookup
<1> QED
  BY <1>6, <1>7, <1>8, <1>9, <1>10 DEF IInv

(* In a complete file each entry of the table leads to its own parts. *)
LEMMA EntryLeads ==
  ASSUME IInv, writing = "NONE", NEW k \in 1 .. N
  PROVE  /\ Number(file, EntryAt(k)) = NameAt(pdata, k)
         /\ Number(file, EntryAt(k) + WORDSIZE) = CodeAt(pdata, k)
         /\ Number(file, EntryAt(k) + 2 * WORDSIZE) = Len(pdata.mods[k].code)
         /\ Number(file, EntryAt(k) + 3 * WORDSIZE) = pdata.mods[k].entry
         /\ CString(file, NameAt(pdata, k)) = pdata.mods[k].name
         /\ Slice(file, CodeAt(pdata, k), Len(pdata.mods[k].code)) = pdata.mods[k].code
<1> DEFINE a == NameAt(pdata, k)
           b == CodeAt(pdata, k)
           c == Len(pdata.mods[k].code)
           d == pdata.mods[k].entry
           at == EntryAt(k)
<1>1. TypeOK /\ Written /\ entries = N /\ codes = N
  BY DEF IInv, entries, codes
<1>2. /\ HoldsIn(file, EntryOf(pdata, k), at)
      /\ HoldsIn(file, Append(pdata.mods[k].name, NUL), a)
      /\ HoldsIn(file, pdata.mods[k].code, b)
  BY <1>1 DEF Written
<1>3. /\ at \in Nat /\ a \in Nat /\ b \in Nat
      /\ pdata.mods[k].name \in Seq(Byte \ {NUL}) /\ pdata.mods[k].code \in Seq(Byte)
  BY <1>1, NextPlaces
<1>4. a \in Word /\ b \in Word /\ c \in Word /\ d \in Word
  BY <1>1, EntryOfWords DEF TypeOK, N
<1>5. HoldsIn(file, Entry(a, b, c, d), at)
  BY <1>2 DEF EntryOf
<1>6. DOMAIN file = 0 .. header.fsize - 1 /\ header.fsize \in Nat
  BY <1>1, Places
<1>7. CString(file, a) = pdata.mods[k].name
  BY <1>2, <1>3, <1>6, StringHeld
<1>8. Slice(file, b, c) = pdata.mods[k].code
  BY <1>2, <1>3, SliceHeld
<1>9. /\ Number(file, at) = a
      /\ Number(file, at + WORDSIZE) = b
      /\ Number(file, at + 2 * WORDSIZE) = c
      /\ Number(file, at + 3 * WORDSIZE) = d
  <2> HIDE DEF a, b, c, d, at
  <2> QED
    BY <1>3, <1>4, <1>5, EntryHeld
<1> QED
  BY <1>7, <1>8, <1>9

LEMMA LookIInv ==
  ASSUME IInv, NEW name \in Names, Look(name)
  PROVE  IInv'
<1>1. /\ TypeOK /\ Cursors /\ Blanks /\ Written /\ Search
      /\ writing = "NONE" /\ module' = name /\ found' = NotFound
      /\ i' = 0 /\ current' = HEADER
      /\ UNCHANGED <<pdata, header, file, writing, code_pos, name_pos>>
  BY DEF IInv, Look
<1>2. N \in Nat /\ EntryAt(1) = HEADER /\ N' = N
  BY <1>1, Places DEF N
<1>3. entries = N /\ codes = N /\ entries' = N /\ codes' = N
  BY <1>1, <1>2 DEF entries, codes
<1>4. TypeOK'
  BY <1>1, <1>2 DEF TypeOK
<1>5. Cursors'
  BY <1>1, <1>2 DEF Cursors
<1>6. \A a \in DOMAIN file : Blank(a) <=> Blank(a)'
  BY <1>1, <1>3 DEF Blank
<1>7. Blanks'
  BY <1>1, <1>6 DEF Blanks
<1>8. Written'
  BY <1>1, <1>3 DEF Written
<1>9. Search'
  BY <1>1 DEF Search
<1> QED
  BY <1>4, <1>5, <1>7, <1>8, <1>9 DEF IInv

LEMMA ReturnIInv ==
  ASSUME IInv, Return
  PROVE  IInv'
<1>1. /\ TypeOK /\ Cursors /\ Blanks /\ Written /\ Search
      /\ module # NoName /\ module' = NoName /\ found' = NotFound
      /\ i' = 0 /\ current' = HEADER
      /\ UNCHANGED <<pdata, header, file, writing, code_pos, name_pos>>
  BY DEF IInv, Return, Done
<1>2. N \in Nat /\ N' = N /\ writing = "NONE"
  BY <1>1, Places DEF N, TypeOK
<1>3. entries = N /\ codes = N /\ entries' = N /\ codes' = N
  BY <1>1, <1>2 DEF entries, codes
<1>4. TypeOK'
  BY <1>1, <1>2 DEF TypeOK
<1>5. Cursors'
  BY <1>1, <1>2 DEF Cursors
<1>6. \A a \in DOMAIN file : Blank(a) <=> Blank(a)'
  BY <1>1, <1>3 DEF Blank
<1>7. Blanks'
  BY <1>1, <1>6 DEF Blanks
<1>8. Written'
  BY <1>1, <1>3 DEF Written
<1>9. Search'
  BY <1>1 DEF Search
<1> QED
  BY <1>4, <1>5, <1>7, <1>8, <1>9 DEF IInv

LEMMA CompareIInv ==
  ASSUME IInv, Compare
  PROVE  IInv'
<1> DEFINE k == i + 1
<1>1. /\ TypeOK /\ Cursors /\ Blanks /\ Written /\ Search
      /\ module # NoName /\ found = NotFound /\ i < header.nmods
      /\ i' = i + 1 /\ current' = current + ENTRY
      /\ UNCHANGED <<pdata, header, file, writing, code_pos, name_pos, module>>
  BY DEF IInv, Compare
<1>2. N \in Nat /\ N' = N /\ writing = "NONE" /\ k \in 1 .. N /\ i \in Nat
  BY <1>1, Places DEF N, TypeOK
<1>3. k = i + 1
  OBVIOUS
<1> HIDE DEF k
<1>4. current = EntryAt(k) /\ current' = EntryAt(k + 1)
  BY <1>1, <1>2, <1>3, NextPlaces DEF Cursors
<1>5. /\ CString(file, Number(file, current)) = pdata.mods[k].name
      /\ Number(file, current + WORDSIZE) = CodeAt(pdata, k)
  BY <1>2, <1>4, EntryLeads
<1>6. entries = N /\ codes = N /\ entries' = N /\ codes' = N
  BY <1>1, <1>2 DEF entries, codes
<1>7. CASE found' = NotFound
  <2>1. ~Matches(pdata.mods[k].name, strlen(file, current))
    <3>1. ASSUME Matches(CString(file, Number(file, current)), strlen(file, current))
          PROVE FALSE
      <4>1. found'.code = CodeAt(pdata, k)
        BY <1>5, <3>1 DEF Compare
      <4>2. /\ CodeAt(pdata, k) \in Nat /\ header.code_pos <= CodeAt(pdata, k)
            /\ EntryAt(k + 1) <= header.code_pos /\ EntryAt(k + 1) = EntryAt(k) + ENTRY
            /\ EntryAt(k) \in Nat /\ header.code_pos \in Nat
        BY <1>1, <1>2, NextPlaces, Places
      <4>3. CodeAt(pdata, k) > 0
        BY <4>2, Sizes
      <4>4. found'.code = 0
        BY <1>7 DEF NotFound
      <4> QED
        BY <4>1, <4>3, <4>4
    <3> QED
      BY <1>5, <3>1
  <2>2. pdata.mods[k].name # module
    BY <2>1 DEF Matches, SameStart
  <2>3. \A j \in 1 .. k : j = k \/ j \in 1 .. i
    BY <1>2, <1>3
  <2> QED
    BY <1>1, <1>2, <1>3, <1>4, <1>6, <1>7, <2>2, <2>3
    DEF IInv, TypeOK, Cursors, Blanks, Blank, Written, Search
<1>8. CASE found' # NotFound
  <2>1. IsEntryOf(found', k)
    BY <1>4, <1>8 DEF Compare, IsEntryOf, EntryAt
  <2>2. \A j \in 1 .. k - 1 : j \in 1 .. i
    BY <1>2, <1>3
  <2>4. SameStart(pdata.mods[k].name, module, 1)
    <3> DEFINE name == pdata.mods[k].name
               end == NameAt(pdata, k) + Len(name)
    <3>1. SameStart(name, module, strlen(file, current) + 1)
      BY <1>5, <1>8 DEF Compare, Matches
    <3>2. name \in Seq(Byte \ {NUL}) /\ module \in Seq(Byte \ {NUL})
      BY <1>1, <1>2, NextPlaces, FileAssumption DEF Search
    <3>3. HoldsIn(file, Append(name, NUL), NameAt(pdata, k))
      BY <1>1, <1>2, <1>6 DEF Written
    <3>4. /\ Len(name) \in Nat /\ NameAt(pdata, k) \in Nat
          /\ EntryAt(k) \in Nat /\ EntryAt(k) <= NameAt(pdata, k)
      <4>1. /\ Len(name) \in Nat /\ NameAt(pdata, k) \in Nat /\ EntryAt(k) \in Nat
            /\ EntryAt(k + 1) = EntryAt(k) + ENTRY /\ EntryAt(k + 1) <= header.code_pos
            /\ NameAt(pdata, 1) <= NameAt(pdata, k)
        BY <1>1, <1>2, NextPlaces
      <4>2. /\ header.code_pos \in Nat /\ header.code_pos <= header.strs_pos
            /\ header.strs_pos \in Nat
            /\ NameAt(pdata, 1) = header.strs_pos + Len(pdata.strs)
            /\ Len(pdata.strs) \in Nat
        BY <1>1, Places
      <4> HIDE DEF name
      <4> QED
        BY <4>1, <4>2, Sizes
    <3>5. /\ Len(Append(name, NUL)) = Len(name) + 1
          /\ Append(name, NUL)[Len(name) + 1] = NUL
      BY <3>2
    <3>6. end \in DOMAIN file /\ file[end] = NUL
      <4>1. Len(name) + 1 \in 1 .. Len(name) + 1
            /\ NameAt(pdata, k) + ((Len(name) + 1) - 1) = end
        BY <3>4
      <4> QED
        BY <3>3, <3>5, <4>1 DEF HoldsIn
    <3>7. current \in Nat /\ current <= end
      BY <1>4, <3>4
    <3>8. DOMAIN file = 0 .. header.fsize - 1 /\ header.fsize \in Nat
      BY <1>1, Places
    <3> HIDE DEF name, end
    <3>9. strlen(file, current) \in Nat
      BY <3>6, <3>7, <3>8, StringEnds
    <3>10. SameStart(name, module, 1)
      BY <3>1, <3>2, <3>9, SameFirst
    <3> QED
      BY <3>10 DEF name
  <2>3. Search'
    <3>1. IsEntryOf(found, i)'
      BY <1>1, <1>3, <2>1 DEF IsEntryOf
    <3>2. i' > 0 /\ \A j \in 1 .. i' - 1 : pdata.mods[j].name # module
      BY <1>1, <1>2, <1>3, <2>2 DEF Search
    <3> QED
      BY <1>1, <1>3, <1>8, <2>4, <3>1, <3>2 DEF Search
  <2> QED
    BY <1>1, <1>2, <1>3, <1>4, <1>6, <1>8, <2>3
    DEF IInv, TypeOK, Cursors, Blanks, Blank, Written
<1> QED
  BY <1>7, <1>8

LEMMA StutterIInv ==
  ASSUME IInv, UNCHANGED vars
  PROVE  IInv'
<1>1. UNCHANGED <<pdata, header, file, writing, current, code_pos, name_pos, i, module, found>>
  BY DEF vars, cursors, lookup
<1>2. N' = N /\ entries' = entries /\ codes' = codes
  BY <1>1 DEF N, entries, codes
<1>3. TypeOK' /\ Cursors' /\ Written'
  BY <1>1, <1>2 DEF IInv, TypeOK, Cursors, Written
<1>4. Blanks'
  BY <1>1, <1>2 DEF IInv, Blanks, Blank
<1>5. Search'
  BY <1>1 DEF IInv, Search, IsEntryOf
<1> QED
  BY <1>3, <1>4, <1>5 DEF IInv

LEMMA FileStep ==
  ASSUME IInv, [Next]_vars
  PROVE  IInv' /\ Kept
<1>1. ASSUME UNCHANGED file PROVE Kept
  BY <1>1 DEF Kept
<1>2. CASE WriteEntry
  BY <1>2, WriteEntryIInv
<1>3. CASE EndTable
  BY <1>3, EndTableIInv
<1>4. CASE WriteCode
  BY <1>4, WriteCodeIInv
<1>5. CASE WriteStrings
  BY <1>5, WriteStringsIInv
<1>6. ASSUME NEW name \in Names, Look(name) PROVE IInv' /\ Kept
  BY <1>1, <1>6, LookIInv DEF Look
<1>7. CASE Compare
  BY <1>1, <1>7, CompareIInv DEF Compare
<1>8. CASE Return
  BY <1>1, <1>8, ReturnIInv DEF Return
<1>9. CASE UNCHANGED vars
  BY <1>1, <1>9, StutterIInv DEF vars
<1> QED
  BY <1>2, <1>3, <1>4, <1>5, <1>6, <1>7, <1>8, <1>9 DEF Next

LEMMA FileInvariant == Spec => []IInv
BY InitIInv, FileStep, PTL DEF Spec

-----------------------------------------------------------------------------
(* The results.                                                            *)

(* The cursors of the two loops, the strings and the header never write a  *)
(* byte twice, for every program whose file a uint32_t can address         *)
(* (lib.c:66-94).                                                          *)
THEOREM FileWrittenOnce == Spec => WrittenOnce
<1>1. IInv /\ [Next]_vars => [\A a \in DOMAIN file : file[a] # Unset => file'[a] = file[a]]_vars
  BY FileStep DEF Kept
<1> QED
  BY <1>1, FileInvariant, PTL DEF Spec, WrittenOnce

(* The sizes summed up beforehand (lib.c:41-50) are those of what is       *)
(* written: no byte of a complete file is left out, and every entry leads  *)
(* to its module's own name and code, the header to the strings.           *)
THEOREM FileLaidOut == Spec => []LaidOut
<1>1. ASSUME IInv PROVE LaidOut
  <2> SUFFICES ASSUME writing = "NONE" PROVE LaidOut
    BY DEF LaidOut
  <2>1. TypeOK /\ Blanks /\ Written /\ entries = N /\ codes = N
    BY <1>1 DEF IInv, entries, codes
  <2>2. \A a \in DOMAIN file : file[a] # Unset
    <3>1. ASSUME NEW a \in DOMAIN file, Blank(a) PROVE FALSE
      <4>1. \/ header.code_pos <= a /\ a < header.code_pos
            \/ header.strs_pos <= a /\ a < header.strs_pos
            \/ header.fsize <= a
        BY <2>1, <3>1, Places DEF Blank
      <4>2. a \in 0 .. header.fsize - 1
        BY <2>1, Places
      <4> QED
        BY <2>1, <4>1, <4>2, Places
    <3> QED
      BY <2>1, <3>1 DEF Blanks
  <2>3. Slice(file, header.strs_pos, Len(pdata.strs)) = pdata.strs
    <3>1. pdata.strs \in Seq(Byte) /\ header.strs_pos \in Nat
      BY <2>1, Places, Parts DEF TypeOK
    <3>2. HoldsIn(file, pdata.strs, header.strs_pos)
      BY <2>1 DEF Written
    <3> QED
      BY <3>1, <3>2, SliceHeld
  <2>4. DOMAIN pdata.mods = 1 .. N
    BY <2>1, Parts DEF TypeOK, N
  <2> QED
    BY <1>1, <2>2, <2>3, <2>4, EntryLeads DEF LaidOut, EntryAt
<1> QED
  BY <1>1, FileInvariant, PTL

(* quosi_file_module reports no module missing that is in the file, and    *)
(* what it returns is an entry of the table, at or before the module's.    *)
THEOREM FileFoundIfPresent == Spec => []FoundIfPresent
<1>1. ASSUME IInv PROVE FoundIfPresent
  <2> SUFFICES ASSUME Done, NEW k \in DOMAIN pdata.mods, pdata.mods[k].name = module
               PROVE  \E j \in 1 .. k : IsEntryOf(found, j) /\ i = j
    BY DEF FoundIfPresent
  <2>1. TypeOK /\ Search /\ module # NoName
    BY <1>1 DEF IInv, Done
  <2>2. k \in 1 .. N /\ N \in Nat /\ i \in 0 .. N /\ header.nmods = N
    BY <2>1, Parts, Places DEF TypeOK, N
  <2>3. found # NotFound
    BY <2>1, <2>2 DEF Search, Done
  <2>4. i > 0 /\ IsEntryOf(found, i) /\ \A j \in 1 .. i - 1 : pdata.mods[j].name # module
    BY <2>1, <2>3 DEF Search
  <2>5. i \in 1 .. k
    BY <2>2, <2>4
  <2> QED
    BY <2>4, <2>5
<1> QED
  BY <1>1, FileInvariant, PTL

(* quosi_file_module compares too little of a name, but never nothing: a   *)
(* module is returned only for names that begin with its first character,  *)
(* wherever in the file the names and the code lie.                        *)
THEOREM FileBeginsAlike == Spec => []BeginsAlike
<1>1. ASSUME IInv PROVE BeginsAlike
  BY <1>1 DEF IInv, Search, Done, BeginsAlike
<1> QED
  BY <1>1, FileInvariant, PTL
=============================================================================
