-------------------------------- MODULE MCPlay --------------------------------
(***************************************************************************)
(* Small graphs for Play: written out, parsed by the model of parse.c and  *)
(* compiled by that of gen.c, with signatures found by following the code, *)
(* as a verifier of compiled files would.  Dialogue plays the graphs       *)
(* themselves.                                                             *)
(***************************************************************************)
EXTENDS Play, VmVerified, MCSources
LOCAL INSTANCE TLC
LOCAL INSTANCE Functions
S == INSTANCE Spelling

MCKeys == {0}
MCSymbols == [x |-> 0]
MCSpeakers == [ann |-> 0, bob |-> 1]

-----------------------------------------------------------------------------
(* TLC keeps f[x] instead of computing it each time it is asked; and it    *)
(* keeps what a definition without parameters is, unless a .cfg names it.  *)
Kept(f) == <<>> @@ f

Programs ==
  {[graphs |-> f, file |-> quosi_file_compile_from_src(S!Spelled(Tree(f)))] : f \in Range(Files)}
Compiled ==
  UNION {{[code  |-> <<>> \o p.file.mods[i].code,
           entry |-> p.file.mods[i].entry,
           strs  |-> p.file.strs,
           graph |-> [vertices |-> p.graphs[i]]] : i \in DOMAIN p.graphs} : p \in Programs}

-----------------------------------------------------------------------------
(* Signatures.  The propositions before a PICK number the entries of its   *)
(* table, as debug.c:28-220 counts them.                                   *)
RECURSIVE Scan(_, _, _)
Scan(code, at, props) ==
  IF at >= Len(code) THEN <<>>
  ELSE LET op == code[at + 1]
           size == 1 + Operands(op) + IF op = iSWITCH THEN props ELSE 0
           after == CASE op = iPROP -> props + 1 [] op = iSWITCH -> 0 [] OTHER -> props
       IN <<[at |-> at, table |-> IF op = iSWITCH THEN props ELSE 0]>>
            \o Scan(code, at + size, after)

(* The size of the table of the choice each instruction is part of. *)
Fan(scan, at) ==
  LET ahead == {i \in DOMAIN scan : scan[i].at >= at /\ scan[i].table > 0}
  IN IF ahead = {} THEN 0 ELSE scan[CHOOSE i \in ahead : \A j \in ahead : i <= j].table

(* Where an instruction may lead: addresses, with the height of the stack  *)
(* and the number of propositions queued.                                  *)
Successors(code, scan, s) ==
  LET op == code[s.at + 1]
      next == s.at + 1 + Operands(op)
      to == CASE op = iEOF -> {}
              [] op = iJUMP -> {code[s.at + 2]}
              [] op \in {iJZ, iJNZ} -> {code[s.at + 2], next}
              [] op = iSWITCH -> {code[s.at + 1 + i] : i \in 1 .. Fan(scan, s.at)}
              [] OTHER -> {next}
  IN {[at |-> label,
       depth |-> s.depth + Growth(op) + Bit(op = iPICK),
       queued |-> CASE op = iPROP -> s.queued + 1
                    [] op \in {iPICK, iLINE, iEVENT} -> 0
                    [] OTHER -> s.queued] : label \in to \ {EXIT_LABEL}}

RECURSIVE Follow(_, _, _, _)
Follow(code, scan, new, seen) ==
  IF new = {} THEN seen
  ELSE LET more == UNION {Successors(code, scan, s) : s \in new}
       IN Follow(code, scan, more \ seen, seen \cup more)

Sign(scan, reached) ==
  LET Most(at) == CHOOSE s \in reached :
                    s.at = at /\ \A t \in reached : t.at = at => t.queued <= s.queued
  IN Kept([at \in {s.at : s \in reached} |->
             [depth |-> Most(at).depth, queued |-> Most(at).queued,
              fan |-> Fan(scan, at)]])

Start(m) == {[at |-> m.entry, depth |-> 0, queued |-> 0]}
Signature(m, scan) == Sign(scan, Follow(m.code, scan, Start(m), Start(m)))

Signed ==
  {m @@ [sig |-> Signature(m, Scan(m.code, 0, 0))] : m \in Compiled}

(* In a LET, because TLC's coverage report unfolds the body of a definition *)
(* that stands for a constant, and the parser unfolds to millions of nodes. *)
MCModules == LET modules == Signed IN modules
=============================================================================
