# Quosi in TLA+

Quosi compiles branching dialogues, written as graphs of vertices and edges, to
bytecode, and plays them in a small virtual machine that a game embeds. These
modules model the way from the characters of a source to the lines a player sees:
lexer, parser, code generator, compiled file, machine, and the host that drives it;
and beneath it the memory arena and the vectors that grow in it. TLC checks them on
small instances. TLAPS proves what holds of the machine for every size and every code,
of the arena and its vectors for every configuration, of the lexer for every text, and of
the file for every program.

## The system

| Component | State | Operations | Interacts with |
|---|---|---|---|
| Virtual machine (`src/vm.c`) | registers PC SP TH TT A B, a stack of 128 words, a queue of 16 propositions | `quosi_vm_init`, `quosi_vm_exec`, 30 instructions, push, pop, dequeue | code and strings of a file; the host, by upcalls; the game's variables, through pointers that `quosiVmCtx` returns |
| Host (`README.md`, `test/test.c`) | the indices of the propositions it was shown | the loop around `quosi_vm_exec`; changes variables, leaves and begins conversations | the machine |
| Code generator (`src/gen.c`) | `GenContext`: code so far, labels, operands to patch, edges of the current choice | one function per node of the tree, then jump and string patching | the tree (`ast.h`), the host's symbol lookups, `vm.c` by convention only |
| Compiled file (`src/lib.c`) | one blob: header, module table, code, strings, names | `merge_blobs`, `quosi_file_module`, accessors | generator, machine |
| Memory arena (`src/alloc.c`) | base, current and latest pointers, committed bytes | create, allocate, reallocate, deallocate, reset, destroy | the kernel; vectors; every other part of the compiler |
| Growable vectors (`src/vec.c`, `vec.h`) | length and capacity before the data; the program's pointer | grow, add, push, free | allocator; the lexer's and parser's lists, the generator's code |
| Lexer (`src/lex.c`) | the place in the text, its row and column, whether the NUL was read, one peeked token | peek, next | source text, which its tokens point into; parser |
| Parser (`src/parse.c`) | the tree under construction, the token stream, the errors | one function per nonterminal | lexer, expression parser, error list, vectors, generator |
| Expression parser (`src/expr.c`) | none of its own: the stream, the errors | a recursive descent driven by binding powers | parser, error list |
| Error list (`src/error.c`) | errors, and whether one was critical | push, check | parser |
| Tree destructor (`src/ast.c`) | none | `quosi_ast_free` | the tree, the allocator it was built with |
| Disassembler (`src/debug.c`) | none | prints | file |

What is hard to get right here, and to test:

* **Nothing is checked at run time but the height of the stack.** The machine trusts
  the generator for everything: operands, jump targets, the number of values on the
  stack, the number of propositions queued, the size of a table that the code does
  not even record. The agreement of `gen.c` and `vm.c` is written nowhere.
* **The host is a third party in the middle of every turn.** Between two upcalls it
  dequeues, pushes an answer, changes its mind, changes variables, or drops the
  conversation.
* **Long conversations.** A value left on the stack by one path through one `match`
  does no harm for a hundred visits.
* **Order.** Conditions may assign; effects, events and lines of a turn interleave;
  operands are patched in several passes; the pool of strings is shared.
* **Memory that moves**, and memory whose accounting the arena shares with the kernel.
* **Errors that do not stop.** Whether a function goes on after an error depends on which
  error it was, on which of three macros its caller used, and in a few places on nobody
  having asked. A parser that goes on from a wrong place must still refuse the file.
* **The end of the text**, which every state of the lexer has to notice by itself, one
  character before it is too late, also when a character is given back.

`PROJECT.json` lists these line by line under `hazards`, with the properties that
watch over them.

## The modules

| Module | Models | Notes |
|---|---|---|
| `Bytecode` | `bc.h`, sizes of `vm.h` | Instructions, how many operands each takes, what it reads from and leaves on the stack, unsigned arithmetic modulo WORD |
| `Vm` | `vm.c` and the host | One action per instruction (those that leave one value share `Compute`) and one per call of the host |
| `VmVerified` | what `vm.c` takes for granted | A verification condition on modules, a second for the stack to be level, and the invariant that follows |
| `Codegen` | `gen.c` | Every function under its own name, taking and returning the `GenContext` |
| `Dialogue` | nothing: the promise | The meaning of a graph, with no code and no machine |
| `Play` | `quosi_file_compile_from_src`; generator, machine and host together | Refinement mapping to `Dialogue` |
| `Lexer` | `lex.c` | A state machine, one character a step |
| `Lexicon` | nothing: the promise | The tokens of a text by longest match, and the comparison |
| `Expression` | `expr.c`, its part of `error.c` | Functions from parser contexts to parser contexts; the same expressions as a grammar |
| `Parser` | `parse.c`, the EH macros of `error.h` | Every function under its own name |
| `Spelling` | nothing: the way back | How a tree is written as tokens |
| `Language` | nothing: the promise, and an author | The grammar of files; sources are written, edited by one token, and parsed |
| `Destructor` | `ast.c` | The order in which a tree's blocks are freed, and how many were allocated |
| `Arena` | `alloc.c` | With the kernel's side of it, and a client that writes what it is given |
| `Vectors` | `vec.c`, `vec.h` | Several vectors in an arena, beside other blocks |
| `File` | `lib.c` | The loops that write a file, and the one that searches it |
| `MC*` | | Instances for TLC; `MCSources` has the dialogues that several of them use |
| `VmProofs`, `VerifiedProofs`, `ArenaProofs`, `VectorProofs`, `LexerProofs`, `LexiconProofs`, `FileProofs` | | Theorems |
| `Induction` | | Induction and recursion over numbers, as theorems about sets and functions |

```
Bytecode <- Vm <- VmVerified <- VmProofs <- VerifiedProofs
Bytecode <- Codegen, Dialogue
Vm, Codegen, Dialogue, Parser <- Play <- MCPlay (with VmVerified, Spelling, MCSources)
Bytecode <- Expression <- Parser <- Spelling <- Language <- MCLanguage (with MCSources)
           (Destructor is an instance in Language)
Lexer <- Lexicon <- MCLexer            Lexer <- LexerProofs, Lexicon <- LexiconProofs
Arena <- Vectors <- MCVectors          Arena <- ArenaProofs, Vectors <- VectorProofs
File <- MCFile                         File <- FileProofs
Induction <- LexiconProofs, FileProofs
```

### Vm

`module` is the module a machine was initialised with; a cell of `module.code` is an
opcode or a whole operand. `upcall` is "NONE" while `quosi_vm_exec` runs and otherwise
what it returned. Three more values stand for ends of the program: "FAULT" for an
access outside the code, the stack or the queue (`Undefined`, `Dequeue`, `PushValue`),
"TRAP" for a division by zero on a processor that traps. On one that does not, the
quotient is 0. A push onto the full stack writes just above it; the outcome is either
"FAULT" or an intact machine that the check on `vm.c:208` then aborts. That check
compares with the literal 128, which is `QUOSI_VALUE_STACK_SIZE` unless a build
redefines it; the model is of builds that do not.

Slots above SP and above TH are kept at a fixed value where the code leaves old
contents, because each is written before it is read. `pindex` and `pushed` are the
host's, from the loop in `test/test.c`. `Write` and `Restart` are the game's: it owns
the variables, and may call `quosi_vm_init` again at any upcall.

### Codegen, Dialogue, Play

`Codegen` is a function from trees to files: `compile_ast` returns what
`quosi_compile_ast` does, and `Play`'s `quosi_file_compile_from_src` chains it to the
parser. `Dialogue` says what the same trees mean: a turn evaluates
conditions, performs effects and goes from vertex to vertex until there is something
to show, all at once. `Play` runs the compiled code in `Vm` and maps it back: while the
machine runs, `Dialogue` still stands at the beginning of the turn, with the variables
as they were (`before`), and all of the turn happens when the machine returns to the
host. `todo`, what `Dialogue` has left of the current vertex, is carried along because
nothing in the machine's state says it. `Implements` then is the abstract
specification under that mapping, checked as a property.

### Arena

`accessible` is the kernel's page table for the arena and `holds` says whose data each
byte has; the client writes every byte it is given, so that two blocks which overlap,
or a move that forgets bytes, show as a block that no longer holds its own data.
Growing past the reservation either aborts or, when other mappings follow it, succeeds
on foreign pages ("OVERRUN"); an arena that is not lazy grows once when it is created,
and so can end there. `malloc` and the reservation itself succeed.

### Vectors

A vector is a block of the arena; `header` is what the header in front of its elements
says, and a vector that is not live is a NULL pointer. `arrgrowf` allocates or
reallocates through `Arena`'s own actions and states the size of the old block, which
the arena believes when it copies. `intact` counts the leading elements that have come
through every move, `moved` what has been copied in all, which in an arena is also what
was left behind for good. A program that resets or destroys the arena drops its vectors
(`Forget`). `Plain` is its other blocks. `KeepsContract` is `Arena`'s `Spec` itself:
there the size of the old block is the true one.

### File

`merge_blobs` writes through three cursors; the lookup compares entry by entry. Bytes
are kept apart because the lookup's length depends on which bytes of an entry are zero.
`Totals` are the sums that the first loop makes, `Shifted` what `memcpy` of a number
stores byte by byte, both as functions over the number of turns.

### Lexer, Lexicon

Each case of `_impl_step` is an action on one character. `c` is the character under
`ptr`; behind the NUL nothing is known, and reading there is "OVERRUN". A token is its
type, the place and length of its value, and its span: contents are the text's.
`Lexicon` says what the tokens of a text are without states: `Spells` tells whether some
characters are a lexeme of a type, one kind of lexeme at a time, `Lexeme` takes the
longest behind what is blank, `Ends` goes on from its end; rows and columns are counted
from the text. `LexedAsWritten` compares every token returned with that.

### Expression, Parser, Spelling, Language

Each function takes the `quosiParseCtx` and returns what has become of it, with what it
filled in. `ctx.stop` stands for a return of EH_CHECK, EH_FAIL or EH_PROP, `Resume`
for a caller without EH_PROP, and `ctx.hung` for the one loop that may look at the same
token for ever: `stuck` is that loop, which EH_PROP ends if a critical error has been
raised before and not propagated.

`Readings` in `Expression` is the language of expressions said again without any of
that: a grammar, with levels in place of binding powers, that gives the set of
expressions a sequence of tokens can be read as. Every operator associates to the
right, which is what the two powers of `binding` amount to (the left is the greater), so
`a - b - c` is `a - (b - c)`; and `!` takes everything to its right, because its
operand is parsed with the weakest minimum and not with the power 8 that `binding` has
for it. `InLanguage` in `Language` does the same for files, with sets of places where a
phrase can end. What the C code lets pass although nobody would write it (a keyword
skipped at the beginning of a block, a keyword in place of `else`, a string `"if"`
after `else`) is in the grammar where it is `lax`.

`Language` is the author: it types expressions token by token, takes a file and removes,
doubles or replaces one token anywhere, and parses. `Spelled` writes a tree out again,
which is how `NothingLost` says that a tree holds everything the source does, and how
`MCPlay` gets sources for its dialogues.

### Destructor

A block is the path that leads to it from the tree, so "inside" is "begins with", and
freeing is a sequence of paths in which none may begin with an earlier one. How many
there should be is counted from the allocations of the parser.

## What TLC checks

| Run | Shows | Bounds |
|---|---|---|
| `vm` | `TypeOK`; `Contained`: SP never leaves the stack unnoticed; `AnswerOffered`: an answer comes from its own choice | twelve programs written to reach every instruction and every limit, a stack of 3, a queue of 2, words of 4 values |
| `play` | `Implements`; `Balanced`: nothing is left on the stack at a line, an event or the end; `NoFault` and the inductive invariant `IInv`; `ExecReturns` | 36 graphs, written out as tokens, parsed and compiled: every pair of eight edge blocks with four others in one choice (plain, match, match with an assignment, if, if-else, nested), and pairs of two vertex blocks; one variable of 3 values that the game changes at will; a stack of 4, a queue of 5 |
| `language` | `AcceptsTheLanguage`: a file is compiled exactly if the (lax) grammar derives it; `NothingLost`: its tree says what it says; `ReadAsWritten`: a condition, or an effect without parentheses, is compiled exactly if it is in the language, and as its only reading; `StopsAtCritical`; `FreedOnce`: a tree is freed completely, each block once and none too early | all expressions of up to five of nine tokens, chains of three operators of seven levels with `!` and parentheses inside; two files with every construct of the language, and each slip of one token of 30 anywhere in them; the dialogues of `play` |
| `lexer` | `LexedAsWritten`; `InText`; `StopsAtNUL`; `Returns`; `TypeOK` | all texts of up to three of fifteen characters, most of four, every pair of glyphs, every keyword with five continuations, longer ones with unfinished ends; the end is asked for twice |
| `arena` | of the arena `Intact`, `Accounted`, `Usable`, `TypeOK`; of the vectors in it `Elements`, `Amortised`; `KeepsContract` | pages of 4 bytes, blocks of multiples of 2, two vectors and another block, capacities of 2 to 8 elements of one byte, 0, 1 or 3 added at a time, requests of 1 to 9 bytes, a reservation of five pages, pages and malloc, lazy or not; a reservation of one page that the first block outgrows |
| `file` | `LaidOut`, `WrittenOnce`, `FoundIfPresent`; `BeginsAlike`: what is found begins as what was asked for | up to two modules with five names that share beginnings of each length; offsets of one and two bytes |
| `arena_static`, `arena_reset`, `file_lookup`, `language_parens`, `language_blocks`, `language_closed` | findings, below | `MCArena`: three blocks, a reservation of three pages; otherwise as above |

The bounds are enough for what they are for: the stack overflows and underflows, the
queue overruns, programs loop; every shape of the grammar is nested in every other that
can hold it, and every token of a file is once the wrong one; the arena doubles, leaps,
runs out of its reservation, and shrinks back; vectors grow where they are, are moved
twice over their neighbours, and grow by doubling and by more; names agree in fewer, as
many and more characters than are compared; a text ends in each state of the lexer. The
`MC` modules state theirs beside the definitions. A request that is not in `Sizes` is
not made (the guard of `arrgrowf`): the vectors stop at eight elements.

**Fairness.** Only of loops in the code: `WF_vars(Step)` in `Vm`, where
`quosi_vm_exec` takes every step it can, and `WF_vars(Scan)` in `Lexer`, where
`_impl_step` does. Nothing is assumed of their callers: the host may keep a player
waiting for ever. So the liveness properties are those of one call: it returns
(`ExecReturns`, for graphs whose silent cycles end; one of them has such a cycle,
counting a variable down; and `Returns`). Weak fairness is enough because nothing but
the loop acts while it runs.

**Deadlock** is checked in `play` and `file`. `vm` and `arena` have states where the
program has ended, `lexer` where the text has, and `language` where it is parsed.

**Mutants.** A definition `X_y` in a module is `X` with the defect y. The specification
never uses it: put in the place of `X`, it makes TLC report a property violated, which
shows that the property can fail.

## Findings

* `arena_static`: the growth policy is not stored by `createex` (`alloc.c:48`), so an
  arena configured as STATIC, of "fixed size determined at creation time"
  (`quosi.h:80`), grows. A LINEAR one doubles for the same reason.
* `arena_reset`: `reset` sets `commit` to one block whatever was committed
  (`alloc.c:106`). A lazy arena reset before its first allocation commits nothing on
  that allocation and returns memory that cannot be touched.
* `file_lookup`: `quosi_file_module` measures the length of the name in the wrong place
  (`lib.c:112`, `strlen(ptr)` for `strlen(name)`), so names are compared by their first
  one to three characters in files of usual sizes.
* `language_parens`: outside of parentheses, which means in an effect, a closing
  parenthesis ends the expression (`expr.c:112`), also when it closes a right operand.
  `x = a + (b) * c` computes `(a + b) * c`, and `x = (a) + b` is refused.
* `language_blocks`: a keyword that begins no block of a choice (a stray `then`, `true`
  or `endmod`) is neither taken nor refused by the loop of `parse_edge_if_body`
  (`parse.c:375`), which then never ends. `error.c:60` has the message for it.
* `language_closed`: the checks of a graph's names are commented out (`parse.c:94`), so
  a graph without START, with a name twice, or with an edge to nowhere is compiled
  without any of the three errors that `error.c` has messages for. It begins at
  UINT32_MAX or goes to its first vertex (`gen.c:77`, `gen.c:122`).

Seen on the way, and left without a run: `quosi_ast_free` takes the effects of a jump
for edges, because it looks through the union before it looks at the type (`ast.c:80`),
and never frees what they own (`FreedOnce` leaves such vertices out; the library itself
builds its trees in an arena and does not call it, `test/bench.c:31` does, with malloc);
`a ! b` is accepted and compiles to `!a`
(`expr.c:30`, a binding power of 0 where other tokens that are no operator have less; the
properties of `language` exempt it as `InfixNot`), and the operand it loses is not freed
(`ast.c:13`); a string or comment that is not closed
is scanned past the end of the source (`lex.c:156`, `lex.c:220`; "OVERRUN", which
`StopsAtNUL` confines to these states); `quosi.h:101` calls `max_reserve` a number of
pages where the code takes bytes.

## What is proved

All proofs are for every value of the constants that satisfies the named assumptions: of
the machine, `SizeAssumption` and `ModuleAssumption`; for verified code also
`SigAssumption` and `VerifiedAssumption`. TLC evaluates those on the constants of the
runs.

* `VmProofs`, of any code whatever: `TypeCorrect`, `StackContained`,
  `AnswersAreOffered`. `TypeOK` and `Contained` are inductive together
  (`MachineInv`): without `Contained`, SP could grow out of its type. `AnswerOffered`
  needs `ChoiceInv`, which says what the host has read so far at every moment since
  `quosi_vm_exec` emptied the queue.
* `VerifiedProofs`, of code that satisfies the verification condition:
  `SignatureHolds` and `VerifiedNeverFaults`. The condition gives every reachable
  address a stack height, a bound on the propositions queued, and the size of the
  table ahead (a *signature*); `InstructionOK` compares each instruction with its
  successors only. `IInv` says the machine agrees with the signature at the
  instruction it is to execute next, and at a choice, that every index the host may
  push is below the size of the table. `NoFault` alone is not inductive: that SWITCH
  stays inside its table depends on what was queued an arbitrary number of steps
  before, by other instructions, and passed through the host.
  The proofs about the machine go by cases on the instruction, then on the conjunct it
  can disturb; `Arrive`, `ArriveAtLabel` and `NextInstruction` are the three ways
  control moves.
* `ArenaProofs`, from `ArenaAssumption`, of a client that resets only an arena it has
  allocated from (`ResetsUnused = FALSE`; without it `arena_reset` is a
  counterexample): `ArenaTypes`, `BlocksIntact`, `CommitAccounted`, `BlocksUsable`,
  for every page size, alignment, configuration and number of blocks. `Intact` alone is
  not inductive: a block keeps its bytes only if the next one is placed above it, which
  is `Layout` (blocks lie below `curr_ptr`, apart, and the one at `last_ptr` above all
  others: so it may grow where it is, and a free may lower `curr_ptr` to it), and
  `Accounted` needs `Paged`: the commit is whole pages, because ROUND leaves a multiple
  alone (`RoundMultiple`), and no fewer than a reset leaves.
* `VectorProofs`, from `VectorAssumption` as well: `VectorElements`,
  `VectorsAmortise`, `VectorsKeepContract`, `VectorsIntact`, for every number of
  vectors, size of element and header, and first capacity. `VInv` joins `Elements` and
  `Amortised` with what holds of a vector that is NULL. It cannot be split: that all
  elements are copied needs the size stated for the old block, that needs the header to
  agree with the block, and the bound on `moved` needs the capacity at least doubled each
  time (`GrowsEnough`). With it every step of `Vectors` is one of `Arena` or a
  stutter, so that what is proved of arenas (`BlocksIntact`) holds of the vectors too.
* `LexerProofs`, from `TextAssumption`: `TypeCorrect`, `ValuesInText`, `StopsAtTheNUL`,
  `Advances`, for every text. `InText` is about tokens that were returned; that the one
  being read will satisfy it needs to be known at every character of it. `IInv` adds,
  for each state, where the token began and how much of it lies behind (`Reached`), in
  which states the place can be behind the NUL (`Ended`), and that the tokens so far lie
  before it (`Before`). A string's length is a difference of two counts, which `Reached`
  keeps from being negative.
* `LexiconProofs`, on top of these: `LongestLexemes`, which is `LexedAsWritten` for every
  text. `WInv` says what has been seen of the text since the last token (`Following`:
  only blanks, or a comment that is open, or the beginning of a lexeme of the kind that
  the state stands for) and that the tokens so far are right (`Written`). That is not
  enough by itself: a lexer that stops at the first character it cannot use returns the
  longest lexeme only if a longer one cannot begin in the same way, which is what
  `WordIs`, `NumberIs`, `StringIs`, `PairIs`, `AloneIs` and `SingleCharacterIs` say, by
  the kinds of first characters excluding each other (`KindsDiffer`) and by each kind of
  lexeme being of a shape that a longer one of its kind contains. `PlaceNext` does the
  same for rows and columns.
* `FileProofs`, from `FileAssumption`: `FileWrittenOnce`, `FileLaidOut`,
  `FileFoundIfPresent`, for every program, size of byte, word and header. The cursors
  are sums over the modules written so far (`IInv` says which), so that what each write
  touches lies between two sums, of which the later is not below the earlier; what is
  not yet written is still blank (this gives `WrittenOnce`), what is written stays
  (with it `LaidOut`), and a number read back is the one that was stored, if it
  fits: the assumption on a program is that the size of its file does. `FileBeginsAlike`
  is what is left of the lookup's promise after the finding `file_lookup`: the wrong
  length is a natural number, since a NUL follows every entry (that of its name, if no
  other), and one more than it is compared, so never nothing.
* `Induction` has what these two rest on. An induction principle with a predicate as its
  parameter is of no use to the provers here; over a set of numbers it is first-order:
  a set that contains 0 and n + 1 with n contains every number (`NatSetInduction`), and so
  is recursion, with the step as a function (`RecursionExists`, `NatRecursionExists`):
  a recursive function is the `CHOOSE` of its equation, and satisfies it because some
  function does.
* `VerifiedProofs` also has `VerifiedBalanced`, of verified code that satisfies
  `LevelAssumption`: wherever such code shows a line or an event, or leaves, the
  signature says that nothing is on the stack. `Balanced` needs `IInv` for the height of
  the stack, and `LevelGoto` for a jump to EXIT, where there is no next instruction whose
  signature could tell.

Only model-checked: `Implements`, `ExecReturns` and everything about `Language` (with
`Destructor`). The definitions of `Codegen`, `Dialogue`, `Parser`, `Expression` and
`Destructor` are recursive operators over trees and tokens, which the prover has no
means to expand; as functions over numbers, which `Induction` could deal with, they
would no longer be the functions of the source. Liveness (`Returns`, `ExecReturns`) is
beyond the prover; of `Returns`, what is no liveness is proved as `Advances`. That the
generator's code satisfies the verification condition, and is level, is checked graph by
graph in `play`, by the assumptions TLC evaluates.

## Not modelled

* Widths of operands in the code: an address counts cells. The layout of files keeps
  its bytes.
* The 32-bit wrap-around of positions in code of four gigabytes, and the wrap-around of
  an edge's index at the 257th edge of one vertex (`gen.c:367`).
* The texts of error messages and the spans of errors. Which error is raised, in which
  order, and what the parser does then is modelled.
* Lexer and parser are composed at the token: the parser's model reads tokens with the
  types that `Lexicon` checks, not characters. One token of lookahead is a peek at the
  sequence.
* Memory the parser does not fill in (`parse.c:162`). In an arena of its own, as in
  `quosi_file_compile_from_src`, it is zero, which is what the model has (`Zeros`); with
  another allocator it would be anything.
* `quosi_malloc_allocator`, which forwards to the C library, and `realloc` with it.
* `quosi_file_compile_from_ast`, which is `compile_from_src` without the parser.
* The disassembler, which only prints. The Windows branches of `alloc.c`, which do the
  same as the others.
* A host that ignores its upcalls' meaning (a value pushed that no proposition had).

## Plan

All modules of the plan exist, with their runs and the theorems above; every invariant
that a run checks is also proved. What would add most from here:

1. Expressions: `parse_expr_impl` as a function over the length of what is left of the
   tokens, so that `StopsAtCritical`, and that what is parsed is a reading, could be
   proved of every sequence of tokens.
2. An arena under a failing kernel: `mmap` and `malloc` that return nothing.
3. Errors with their spans, composed with `Lexer`'s.
4. Trees that a failed parse leaves behind, freed.
