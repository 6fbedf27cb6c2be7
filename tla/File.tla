--------------------------------- MODULE File ---------------------------------
(***************************************************************************)
(* The compiled file (src/lib.c): how the modules of a program are laid    *)
(* out in one blob, and how a module is found in it again by its name.     *)
(*                                                                         *)
(* A file is a function from offsets to bytes.  Code, names and strings    *)
(* are sequences of bytes; a number is stored in WORDSIZE of them, the     *)
(* lowest first.  No symbols are ever written (gen.c pushes none).         *)
(*                                                                         *)
(* Definitions named X_y are X with the defect y.  The specification does  *)
(* not use them: with one in place of X, TLC finds a property violated.    *)
(***************************************************************************)
EXTENDS Integers, Sequences

CONSTANTS
  BYTE,       \* number of values of a byte
  WORDSIZE,   \* sizeof(uint32_t)
  HEADER,     \* sizeof(quosiFileHeader)
  Programs,   \* the quosiProgramData to lay out: modules and strings
  Names,      \* the names that are looked up
  Unset       \* a byte not written yet

Byte == 0 .. BYTE - 1
NUL == 0
ENTRY == 4 * WORDSIZE

(* What is left of a number after each shift by a byte; the numbers that   *)
(* a word holds.                                                           *)
Shifted(n) ==
  LET S[k \in 0 .. WORDSIZE] == IF k = 0 THEN n ELSE S[k - 1] \div BYTE
  IN S
Word == {n \in Nat : Shifted(n)[WORDSIZE] = 0}

ModData == [name : Seq(Byte \ {NUL}), code : Seq(Byte), entry : Word]

(* The total of the first so many of a sequence of lengths. *)
Totals(lens) ==
  LET T[k \in 0 .. Len(lens)] == IF k = 0 THEN 0 ELSE T[k - 1] + lens[k]
  IN T
CodeLens(p) == [k \in 1 .. Len(p.mods) |-> Len(p.mods[k].code)]
NameLens(p) == [k \in 1 .. Len(p.mods) |-> Len(p.mods[k].name) + 1]

mods_size(p) == Len(p.mods) * ENTRY
code_size(p) == Totals(CodeLens(p))[Len(p.mods)]
strs_size(p) == Len(p.strs) + Totals(NameLens(p))[Len(p.mods)]

(* quosi_file_internal_merge_blobs: the positions in the header. *)
Header(p) ==
  [nmods |-> Len(p.mods),
   code_pos |-> HEADER + mods_size(p),
   strs_pos |-> HEADER + mods_size(p) + code_size(p),
   fsize |-> HEADER + mods_size(p) + code_size(p) + strs_size(p)]

(* No file is so large that a position in it overflows a word. *)
ASSUME FileAssumption ==
  /\ BYTE \in Nat \ {0, 1} /\ WORDSIZE \in Nat \ {0} /\ HEADER \in Nat
  /\ Unset \notin Byte
  /\ \A p \in Programs : /\ p.mods \in Seq(ModData) /\ p.strs \in Seq(Byte)
                        /\ Header(p).fsize \in Word
  /\ Names \subseteq Seq(Byte \ {NUL})

VARIABLES
  pdata,      \* the program
  header,     \* the header's positions
  file,       \* the blob
  writing,    \* "TABLE", "CODE", "STRS" or, once it is complete, "NONE"
  current,    \* offset the next table entry, or the next code, goes to
  code_pos, name_pos,
  i,          \* the loop counter: modules already written or compared
  module,     \* the name being looked for, or NoName
  found       \* what quosi_file_module returned

cursors == <<current, code_pos, name_pos>>
lookup == <<module, found>>
vars == <<pdata, header, file, writing, cursors, i, lookup>>

NoName == << >>
NotFound == [code |-> 0, len |-> 0, entry |-> 0]

-----------------------------------------------------------------------------
(* Bytes of a number, and the number that bytes at an offset make. *)
Bytes(n) == [k \in 1 .. WORDSIZE |-> Shifted(n)[k - 1] % BYTE]
Number(f, at) ==
  LET N[k \in 0 .. WORDSIZE] ==
        IF k = 0 THEN 0 ELSE N[k - 1] * BYTE + f[at + WORDSIZE - k]
  IN N[WORDSIZE]

memcpy(f, at, bytes) ==
  [a \in DOMAIN f |-> IF a - at \in 0 .. Len(bytes) - 1 THEN bytes[a - at + 1] ELSE f[a]]

Slice(f, at, len) == [k \in 1 .. len |-> f[at + k - 1]]

(* The string that begins at an offset, and its length. *)
strlen(f, at) ==
  (CHOOSE a \in DOMAIN f : /\ a >= at /\ f[a] = NUL
                           /\ \A b \in at .. a - 1 : f[b] # NUL) - at
CString(f, at) == Slice(f, at, strlen(f, at))

(* strncmp(a, b, n) = 0 *)
SameStart(a, b, n) ==
  LET Start(s) == SubSeq(Append(s, NUL), 1, IF n <= Len(s) THEN n ELSE Len(s) + 1)
  IN Start(a) = Start(b)

-----------------------------------------------------------------------------
(* quosi_file_internal_merge_blobs *)

Init ==
  /\ pdata \in Programs
  /\ header = Header(pdata)
  /\ file = [a \in 0 .. header.fsize - 1 |-> IF a < HEADER THEN NUL ELSE Unset]
  /\ writing = "TABLE"
  /\ current = HEADER
  /\ code_pos = header.code_pos
  /\ name_pos = header.strs_pos + Len(pdata.strs)
  /\ i = 0
  /\ module = NoName /\ found = NotFound

(* One turn of the first loop: a module's entry in the table and its name. *)
WriteEntry_inPlace ==
  /\ writing = "TABLE" /\ i < header.nmods
  /\ LET g == pdata.mods[i + 1]
         entry == Bytes(name_pos) \o Bytes(code_pos) \o Bytes(Len(g.code)) \o Bytes(g.entry)
     IN /\ file' = memcpy(memcpy(file, current, entry), name_pos, Append(g.name, NUL))
        /\ code_pos' = code_pos + Len(g.code)
  /\ current' = current + ENTRY
  /\ i' = i + 1
  /\ UNCHANGED <<pdata, header, writing, name_pos, lookup>>
WriteEntry ==
  /\ writing = "TABLE" /\ i < header.nmods
  /\ LET g == pdata.mods[i + 1]
         entry == Bytes(name_pos) \o Bytes(code_pos) \o Bytes(Len(g.code)) \o Bytes(g.entry)
     IN /\ file' = memcpy(memcpy(file, current, entry), name_pos, Append(g.name, NUL))
        /\ code_pos' = code_pos + Len(g.code)
        /\ name_pos' = name_pos + Len(g.name) + 1
  /\ current' = current + ENTRY
  /\ i' = i + 1
  /\ UNCHANGED <<pdata, header, writing, lookup>>

EndTable ==
  /\ writing = "TABLE" /\ i = header.nmods
  /\ writing' = "CODE" /\ i' = 0
  /\ current' = header.code_pos
  /\ UNCHANGED <<pdata, header, file, code_pos, name_pos, lookup>>

(* One turn of the second loop: a module's code. *)
WriteCode_inPlace ==
  /\ writing = "CODE" /\ i < header.nmods
  /\ file' = memcpy(file, current, pdata.mods[i + 1].code)
  /\ i' = i + 1
  /\ UNCHANGED <<pdata, header, writing, cursors, lookup>>
WriteCode ==
  /\ writing = "CODE" /\ i < header.nmods
  /\ LET g == pdata.mods[i + 1]
     IN /\ file' = memcpy(file, current, g.code)
        /\ current' = current + Len(g.code)
  /\ i' = i + 1
  /\ UNCHANGED <<pdata, header, writing, code_pos, name_pos, lookup>>

WriteStrings ==
  /\ writing = "CODE" /\ i = header.nmods
  /\ file' = memcpy(file, header.strs_pos, pdata.strs)
  /\ writing' = "NONE"
  /\ UNCHANGED <<pdata, header, cursors, i, lookup>>

-----------------------------------------------------------------------------
(* quosi_file_module: the search for a name, entry by entry.               *)

Look(name) ==
  /\ writing = "NONE" /\ module = NoName
  /\ module' = name /\ found' = NotFound
  /\ i' = 0 /\ current' = HEADER
  /\ UNCHANGED <<pdata, header, file, writing, code_pos, name_pos>>

Matches_not(name, name_len) == ~SameStart(name, module, name_len + 1)
Matches_noNUL(name, name_len) == SameStart(name, module, name_len)
Matches(name, name_len) == SameStart(name, module, name_len + 1)

(* The length compared is that of the entry's own bytes, as a string, not  *)
(* of the name the entry leads to.                                         *)
Compare ==
  /\ module # NoName /\ found = NotFound /\ i < header.nmods
  /\ found' = IF Matches(CString(file, Number(file, current)), strlen(file, current))
              THEN [code |-> Number(file, current + WORDSIZE),
                    len |-> Number(file, current + 2 * WORDSIZE),
                    entry |-> Number(file, current + 3 * WORDSIZE)]
              ELSE NotFound
  /\ i' = i + 1
  /\ current' = current + ENTRY
  /\ UNCHANGED <<pdata, header, file, writing, code_pos, name_pos, module>>

Done == module # NoName /\ (found # NotFound \/ i = header.nmods)

(* The next lookup. *)
Return ==
  /\ Done
  /\ module' = NoName /\ found' = NotFound
  /\ i' = 0 /\ current' = HEADER
  /\ UNCHANGED <<pdata, header, file, writing, code_pos, name_pos>>

Next ==
  \/ WriteEntry \/ EndTable \/ WriteCode \/ WriteStrings
  \/ \E name \in Names : Look(name)
  \/ Compare \/ Return

Spec == Init /\ [][Next]_vars

-----------------------------------------------------------------------------
(* The regions of the file do not overlap: no byte is written twice, by    *)
(* whichever cursor (lib.c:66-94).                                         *)
WrittenOnce ==
  [][\A a \in DOMAIN file : file[a] # Unset => file'[a] = file[a]]_vars

(* The size computed beforehand is that of what is written: the file has   *)
(* no gap, and every module's entry leads to its name and to its own code, *)
(* the header to the strings (lib.c:41-94, 99-148).                        *)
LaidOut ==
  writing = "NONE" =>
    /\ \A a \in DOMAIN file : file[a] # Unset
    /\ Slice(file, header.strs_pos, Len(pdata.strs)) = pdata.strs
    /\ \A k \in DOMAIN pdata.mods :
         LET at == HEADER + (k - 1) * ENTRY
             m == pdata.mods[k]
             len == Number(file, at + 2 * WORDSIZE)
         IN /\ CString(file, Number(file, at)) = m.name
            /\ Slice(file, Number(file, at + WORDSIZE), len) = m.code
            /\ Number(file, at + 3 * WORDSIZE) = m.entry

(* The module table entry, and so the code, that a module's name stands for. *)
IsEntryOf(e, k) ==
  LET at == HEADER + (k - 1) * ENTRY
  IN e = [code |-> Number(file, at + WORDSIZE), len |-> Number(file, at + 2 * WORDSIZE),
          entry |-> Number(file, at + 3 * WORDSIZE)]

(* A module that is in the file is never reported missing, and of two with *)
(* its name or a like one the first is returned (lib.c:105-118).           *)
FoundIfPresent ==
  Done => \A k \in DOMAIN pdata.mods :
            pdata.mods[k].name = module =>
              \E j \in 1 .. k : IsEntryOf(found, j) /\ i = j

(* Whatever length is compared, one character at least is: the module      *)
(* returned begins as the one asked for does (the name_len+1 of lib.c:113).*)
BeginsAlike ==
  Done /\ found # NotFound => SameStart(pdata.mods[i].name, module, 1)

(* The module returned is the one whose name was asked for. *)
FindsNamed ==
  Done /\ found # NotFound => pdata.mods[i].name = module
=============================================================================
