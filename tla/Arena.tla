-------------------------------- MODULE Arena --------------------------------
(***************************************************************************)
(* The memory arena (src/alloc.c) under a client that allocates, grows,    *)
(* shrinks and frees blocks, resets the arena and destroys it.             *)
(*                                                                         *)
(* Addresses are offsets from base_ptr.  accessible is the kernel's side   *)
(* of the arena: the offsets that may be read and written, which mprotect  *)
(* and malloc add to.  holds says which of the client's blocks each of     *)
(* those bytes was last written for.  Requests of no bytes, or to move a   *)
(* block at NULL, return NULL and change nothing.                          *)
(*                                                                         *)
(* Definitions named X_y are X with the defect y.  The specification does  *)
(* not use them: with one in place of X, TLC finds a property violated.    *)
(***************************************************************************)
EXTENDS Integers, FiniteSets

CONSTANTS
  PAGE,         \* the system's page size
  ALIGN,        \* what blocks are rounded to, 16
  Configs,      \* the quosiMemoryArenaConfig arguments of createex
  Blocks,       \* names of the client's blocks
  Nobody,       \* the owner of bytes of no block
  Sizes,        \* numbers of bytes it asks for
  ResetsUnused  \* the client may reset an arena it has not allocated from

ASSUME ArenaAssumption ==
  /\ PAGE \in Nat \ {0} /\ ALIGN \in Nat \ {0}
  /\ Sizes \subseteq Nat \ {0} /\ Nobody \notin Blocks
  /\ ResetsUnused \in BOOLEAN
  /\ \A c \in Configs :
       /\ c.initial \in Nat \ {0} /\ c.max_reserve \in Nat
       /\ c.source \in {"PAGE", "MALLOC"} /\ c.lazyinit \in BOOLEAN
       /\ c.growth_policy \in {"STATIC", "LINEAR", "GEOMETRIC"}

NULL == -1

VARIABLES
  cfg,         \* what the arena was created with; source and reserve are its
  curr, last,  \* curr_ptr and last_ptr
  commit, policy,
  accessible,  \* offsets the kernel lets the program touch
  live,        \* the client's blocks: where each is, and how long
  holds,       \* whose data each accessible byte holds
  status       \* "NONE", "OK", or how the program ended

arena == <<cfg, curr, last, commit, policy>>
vars == <<arena, accessible, live, holds, status>>

ROUND(x, n) == ((x + n - 1) \div n) * n
blocksize == ROUND(cfg.initial, PAGE)

Bytes(from, len) == from .. from + len - 1
Live == DOMAIN live
Least(m, n) == IF m <= n THEN m ELSE n

-----------------------------------------------------------------------------
(* Growing *)

(* The commit of an arena of c bytes once it has grown to hold minsize. *)
NewSize_exact(c, minsize) ==
  LET size == c + (IF c = 0 \/ policy = "LINEAR" THEN blocksize ELSE c)
  IN IF minsize > size THEN minsize ELSE size
NewSize(c, minsize) ==
  LET size == c + (IF c = 0 \/ policy = "LINEAR" THEN blocksize ELSE c)
  IN IF minsize > size THEN ROUND(minsize, PAGE) ELSE size

(* What becomes of an arena of configuration g that grows from c bytes.    *)
(* Pages beyond the reservation may be unmapped, and mprotect then fails,  *)
(* or be somebody else's.                                                  *)
Grants(g, c, size) ==
  IF g.source = "MALLOC" THEN IF c = 0 THEN {"OK"} ELSE {"ABORT"}
  ELSE IF size <= ROUND(g.max_reserve, PAGE) THEN {"OK"} ELSE {"ABORT", "OVERRUN"}

(* _arena_grow where used bytes do not fit. *)
Room(used) ==
  IF used <= commit
  THEN [outcomes |-> {"OK"}, commit |-> commit, accessible |-> accessible]
  ELSE LET size == NewSize(commit, used)
       IN [outcomes |-> Grants(cfg, commit, size), commit |-> size,
           accessible |-> accessible \cup commit .. ROUND(size, PAGE) - 1]

-----------------------------------------------------------------------------
(* The client's view: it writes every byte of the block it is given.       *)

(* What memory holds once block b is the len bytes at ptr, the first kept  *)
(* of them copied from the bytes at old.                                   *)
Written(acc, b, ptr, len, old, kept) ==
  LET Was(a) == IF a \in accessible THEN holds[a] ELSE Nobody
  IN [a \in acc |-> CASE a \in Bytes(ptr, kept) -> Was(old + a - ptr)
                      [] a \in Bytes(ptr, len) \ Bytes(ptr, kept) -> b
                      [] OTHER -> IF Was(a) = b THEN Nobody ELSE Was(a)]

(* Block b becomes len bytes at ptr, in an arena with the given room. *)
HandOut(room, b, ptr, len, old, kept) ==
  /\ curr' = ptr + ROUND(len, ALIGN)
  /\ last' = ptr
  /\ commit' = room.commit /\ accessible' = room.accessible
  /\ live' = [c \in Live \cup {b} |-> IF c = b THEN [ptr |-> ptr, len |-> len] ELSE live[c]]
  /\ holds' = Written(room.accessible, b, ptr, len, old, kept)
  /\ status' = IF Bytes(ptr, len) \subseteq room.accessible THEN "OK" ELSE "FAULT"
  /\ UNCHANGED <<cfg, policy>>

Ends(outcome) ==
  /\ outcome # "OK" /\ status' = outcome
  /\ UNCHANGED <<arena, accessible, live, holds>>

Drop(b) ==
  /\ live' = [c \in Live \ {b} |-> live[c]]
  /\ holds' = [a \in accessible |-> IF holds[a] = b THEN Nobody ELSE holds[a]]

-----------------------------------------------------------------------------
(* quosi_memory_arena_createex; growth_policy is not stored, and a policy  *)
(* of 0 is STATIC.  The reservation itself succeeds; unless it is lazy,    *)
(* the new arena grows to its first block at once, which may not fit.      *)
Created(c, size) ==
  /\ cfg' = c /\ policy' = "STATIC"
  /\ curr' = 0 /\ last' = NULL
  /\ commit' = size /\ accessible' = 0 .. size - 1
  /\ live' = << >> /\ holds' = [a \in accessible' |-> Nobody]
  /\ status' = "OK"
Create(c) ==
  /\ status = "NONE"
  /\ LET size == IF c.lazyinit THEN 0 ELSE ROUND(c.initial, PAGE)
         outcomes == Grants(c, 0, size)
     IN \/ "OK" \in outcomes /\ Created(c, size)
        \/ \E o \in outcomes : Ends(o)

(* _arena_allocate *)
Allocate(b, nbytes) ==
  /\ status = "OK" /\ b \notin Live
  /\ LET room == Room(curr + ROUND(nbytes, ALIGN))
     IN \/ "OK" \in room.outcomes /\ HandOut(room, b, curr, nbytes, curr, 0)
        \/ \E o \in room.outcomes : Ends(o)

(* _arena_deallocate: only the latest block's bytes are used again. *)
Deallocate_unchecked(b) ==
  /\ status = "OK" /\ b \in Live
  /\ curr' = last /\ last' = NULL
  /\ Drop(b)
  /\ UNCHANGED <<cfg, commit, policy, accessible, status>>
Deallocate_any(b) ==
  /\ status = "OK" /\ b \in Live
  /\ curr' = live[b].ptr /\ last' = NULL
  /\ Drop(b)
  /\ UNCHANGED <<cfg, commit, policy, accessible, status>>
Deallocate(b) ==
  /\ status = "OK" /\ b \in Live
  /\ IF live[b].ptr = last THEN curr' = last /\ last' = NULL ELSE UNCHANGED <<curr, last>>
  /\ Drop(b)
  /\ UNCHANGED <<cfg, commit, policy, accessible, status>>

(* _arena_reallocate of a block the client says has oldlen bytes: the      *)
(* latest block grows or shrinks in its place, others are copied.          *)
Reallocate(b, oldlen, newlen) ==
  /\ status = "OK" /\ b \in Live
  /\ LET old == live[b]
         inPlace == old.ptr = last
         ptr == IF inPlace THEN last ELSE curr
         room == Room(ptr + ROUND(newlen, ALIGN))
         kept == Least(newlen, IF inPlace THEN old.len ELSE oldlen)
     IN \/ "OK" \in room.outcomes /\ HandOut(room, b, ptr, newlen, old.ptr, kept)
        \/ \E o \in room.outcomes : Ends(o)

(* quosi_memory_arena_reset *)
Reset_keepsCommit ==
  /\ status = "OK" /\ (ResetsUnused \/ commit > 0)
  /\ accessible' = IF cfg.source = "PAGE"
                   THEN accessible \ (blocksize .. commit - 1) ELSE accessible
  /\ curr' = 0 /\ last' = NULL
  /\ live' = << >> /\ holds' = [a \in accessible' |-> Nobody]
  /\ UNCHANGED <<cfg, commit, policy, status>>
Reset ==
  /\ status = "OK" /\ (ResetsUnused \/ commit > 0)
  /\ accessible' = IF cfg.source = "PAGE"
                   THEN accessible \ (blocksize .. commit - 1) ELSE accessible
  /\ commit' = blocksize
  /\ curr' = 0 /\ last' = NULL
  /\ live' = << >> /\ holds' = [a \in accessible' |-> Nobody]
  /\ UNCHANGED <<cfg, policy, status>>

(* quosi_memory_arena_destroy *)
Destroy ==
  /\ status = "OK"
  /\ status' = "NONE"
  /\ curr' = 0 /\ last' = NULL /\ commit' = 0
  /\ accessible' = {} /\ live' = << >> /\ holds' = << >>
  /\ UNCHANGED <<cfg, policy>>

-----------------------------------------------------------------------------
Init ==
  /\ cfg \in Configs /\ policy = "STATIC"
  /\ curr = 0 /\ last = NULL /\ commit = 0
  /\ accessible = {} /\ live = << >> /\ holds = << >>
  /\ status = "NONE"

Next ==
  \/ \E c \in Configs : Create(c)
  \/ \E b \in Blocks, n \in Sizes : Allocate(b, n) \/ Reallocate(b, live[b].len, n)
  \/ \E b \in Blocks : Deallocate(b)
  \/ Reset \/ Destroy

Spec == Init /\ [][Next]_vars

-----------------------------------------------------------------------------
(* The arena's variables have their types, and blocks are where they fit.  *)
TypeOK ==
  /\ cfg \in Configs
  /\ policy \in {"STATIC", "LINEAR", "GEOMETRIC"}
  /\ curr \in Nat /\ last \in Nat \cup {NULL} /\ commit \in Nat
  /\ accessible \subseteq Nat
  /\ Live \subseteq Blocks /\ \A b \in Live : live[b] \in [ptr : Nat, len : Sizes]
  /\ holds \in [accessible -> Blocks \cup {Nobody}]
  /\ status \in {"NONE", "OK", "ABORT", "OVERRUN", "FAULT"}

(* No two blocks share a byte, and a block keeps what the client wrote in  *)
(* it, through every growth, move, free and reuse of the memory around it  *)
(* (alloc.c:133-174).                                                      *)
Intact ==
  status = "OK" => \A b \in Live : \A a \in Bytes(live[b].ptr, live[b].len) :
                     a \in accessible /\ holds[a] = b

(* The arena counts as committed what the kernel has made accessible, no   *)
(* less and, for pages, no more (alloc.c:92-131).                          *)
Accounted ==
  status = "OK" => /\ curr <= commit
                   /\ 0 .. commit - 1 \subseteq accessible
                   /\ cfg.source = "PAGE" => accessible = 0 .. commit - 1

(* A block that was handed out can be written: lazyinit only "defers       *)
(* initial buffer allocation to the first object allocation call"          *)
(* (quosi.h:105).                                                          *)
Usable == status # "FAULT"

(* "fixed size determined at creation time" (quosi.h:80). *)
StaticIsFixed ==
  cfg.growth_policy = "STATIC" => commit \in {0, blocksize}
=============================================================================
