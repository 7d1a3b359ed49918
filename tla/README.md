# Tostitos in TLA+

Tostitos is a small simulated operating system with its own language. The
repository has two halves:

* `Tostitos/` is the system: a machine (the MinChip16 CPU with its interpreter, a
  hard drive with a rotating head, pages of memory), a user-memory allocator, and
  a kernel with a scheduler that runs threads, each of which executes the syntax
  tree of a TosLang program.
* `TosLang/` is the language: lexer, parser, symbol collector, type checker, the
  SSA and control-flow builders, and optional code generators, put together by a
  compiler driver and an interpreter driver.

This directory holds TLA+ modules for the first half and for the front end of the
second (lexer, parser, tree, symbol collector, type checker, driver, and the printer
and reader of trees), TLC configurations that check them on small instances, and
TLAPS proofs of almost all of the safety properties of both halves for all values of the
constants.

## Inventory

| Component | State | Operations | What is hard |
|---|---|---|---|
| CPU, `machine/cpu.cpp` | registers, flag register, PC, SP, 64 KiB of bytes | setters with range checks, push and pop, load and store, flag computations, `Reset` | limits of stack and memory, two byte words, flags at the edge of a word |
| Interpreter, `machine/interpreter.cpp` | the CPU, the opcode table, a sticky error code | `AcquireProgram`, `AcquireROM`, `InterpretOne`, `Reset` | handlers that go on after an inner failure, error codes that survive an instruction, resets in the middle of a program |
| Instruction, `machine/instruction.cpp` | four bytes | getters, setters, predicates | setters that OR into what is there |
| Hard drive, `machine/hardDrive.cpp` | bytes of the disk, current sector | `Rotate`, `Read`, `Write` | the head is moved by a detached timer thread while the caller sleeps |
| Main memory, `machine/memory.h` | pages with bytes and validate flags | hand out a page | |
| User memory, `memory/userMemory.cpp` | one page, an offset | `requestMemory`, `invalidateMemory` | headers between the users' data, sizes read back through one byte |
| Kernel, `kernel/kernel.cpp` | owned threads, the current thread | `RunProgram`, `AddThread`, `SleepFor`, `Sync`, `Run` | a loop that reads the clock three times per round, threads scheduled while others run |
| Scheduler, `kernel/scheduler.cpp` | list of threads, current thread | `FindNextThreadToRun`, `ScheduleThread`, `TerminateThread` | erase of an unchecked `find`, a null answer |
| Threads, `threading/thread.cpp`, `threadutil.cpp` | finished, waiting, wake-up time, children, an executor | `ExecuteOne`, `Sleep`, `Barrier`, `IsSleeping`, `IsWaitingForChildren`, `Fork`, `CreateThread` | queries that change state, wall-clock time |
| Executor and call stack, `threading/executor.cpp`, `callstack.cpp` | node queues, frames, values | one dispatch per node | re-entrant evaluation over several calls |
| Host files, `communicationWithHost/` | none | read and write one file | I/O only |
| File system, `fileSystem/` | none | none | empty classes |
| Lexer, `TosLang/Parse/lexer.cpp` | buffer, position, location, literal | `Init`, `GetNextToken` | loops that must stop at the end of the file, a position past the end, lines that are not counted |
| Parser, `TosLang/Parse/parser.cpp` | current token, tree under construction | one function per construct | recovery, termination |
| Tree, `TosLang/AST/`, `Common/astvisitor.h` | nodes with children | pre-order and post-order walks | children that are null |
| Symbol table and collector, `TosLang/Sema/` | scopes, symbols, uses | `Run`, one handler per declaration and use | shadowing, scopes numbered as they open, state kept from one run to the next |
| Type checker, `TosLang/Sema/typechecker.cpp` | types of nodes, candidates of calls | `Run`, one handler per node | overload resolution in nested calls, going on after an error, statements not visited |
| Printer and reader of trees, `TosLang/Utils/` | the file, the current line | `Run` | structure told by tabs alone, lines that no branch knows, a reader used twice |
| SSA and CFG, `TosLang/SSA/`, `TosLang/CFG/` | blocks, edges, values | one handler per node | joins, loops, dangling blocks |
| Drivers, `TosLang/Execution/` | the passes | run the passes in order | errors of one pass stop the next |
| Code generation, LLVM backend | | | out of the default build |

How they meet: `Kernel::RunProgram` parses a file with TosLang's front end, makes
a main thread, and calls `Run`, which alternates between the scheduler and
`Thread::ExecuteOne`. A thread's executor calls back into the kernel through
`threadutil.h` (`CreateThread`, `SleepFor`, `Sync`). `main.cpp` drives the drive
(`Rotate`, sleep, `Read` or `Write`). The MinChip16 interpreter and the user memory
are used by their tests and by programs; they share no state with the kernel.

What makes each part correct:

* *CPU and interpreter*: the stack stays in its region, whatever address a program
  loads into SP; no instruction writes to the IO ports; a word that stays on the
  stack is not changed; an instruction that reports success did all of its work;
  the bytes implement a stack of words; flags and branches agree with arithmetic.
* *Drive*: the head is in place when the sleeper wakes up; reads and writes are
  those of a store of sectors; a request is served.
* *User memory*: blocks never overlap; a block in use stays valid; a free reaches
  its own block only.
* *Kernel*: the scheduler only erases what it holds; the run loop never uses a null
  thread; a thread is not left before it ends; the run loop ends.
* *Lexer*: it gives the parser finitely many tokens and never one after the end, and
  its line is the true one except where it is known not to be.
* *Parser*: it comes to an end, with a recursion bounded by its source; a source it
  cannot cope with is reported.
* *Collector and checker*: a program that passes has every name tied to the innermost
  declaration that can be seen, every call to a function of its name, and every
  expression in a place that asks for its type; the checker dies on no other programs
  than those that are known.
* *Printer and reader*: what is printed is read back as it was.

## Modules

| Module | Models | Notes |
|---|---|---|
| `CPU` | `machine/cpu.cpp`, the getters of `instruction.cpp` | constants and pure operators: limits, error codes, flags, fetching |
| `Interpreter` | `machine/interpreter.cpp` | the variables of the CPU, one action per handler of `InterpretOne`, the loaders and `Reset` |
| `WordStack` | | abstract stack of words: what PUSH, POP, CALL and RET promise |
| `Disk` | `machine/hardDrive.cpp`, `internalHelperFunctions.h`, `TestWrite` of `main.cpp` | a drive, its timer threads, one user |
| `SectorStore` | | abstract store: the user reads or writes one sector |
| `UserMemory` | `memory/userMemory.cpp`, `dataStructures.h` | page, offset, flags; the record of the blocks handed out is history |
| `Kernel` | `kernel/*.cpp`, `threading/thread.cpp`, `threadutil.cpp` | run loop, scheduler, threads; a thread's code is left open |
| `TokenSource` | the tokens of `lexer.h` | abstract: what the parser gets from the lexer |
| `Lexer` | `TosLang/Parse/lexer.cpp`, `Utils/sourceloc.cpp` | one step per call of `GetNextToken`, on characters |
| `Parser` | `TosLang/Parse/parser.cpp`, the assertions of `AST/expressions.h` | extends `TokenSource`; one action per parsing function, over an explicit call stack |
| `AST` | `TosLang/AST/`, `Common/astvisitor.h` | trees that the parser builds, and the walk over them |
| `SymbolTable` | `TosLang/Sema/symboltable.cpp`, `symbol.h` | symbols, look-ups, uses |
| `SymbolCollector` | `TosLang/Sema/symbolcollector.cpp` | one action per handler |
| `TypeChecker` | `TosLang/Sema/typechecker.cpp`, `Common/type.cpp` | one action per handler, and the end of `Run` |
| `FrontEnd` | `TosLang/Execution/interpreter.cpp`, `compiler.cpp` | composes the passes, on one program after another |
| `ASTFile` | `TosLang/Utils/astprinter.h`, `astreader.cpp` | a tree, its file, and the reader |
| `InterpreterProofs`, `DiskProofs`, `UserMemoryProofs`, `KernelProofs`, `LexerProofs`, `ParserProofs`, `FrontEndProofs`, `ASTFileProofs` | | theorems and their proofs |
| `MCInterpreter`, `MCStack`, `MCMoved`, `MCArithmetic`, `MCDisk`, `MCUserMemory`, `MCKernel`, `MCLexer`, `MCParser`, `MCFrontEnd`, `MCASTFile` | | instances for TLC |

### Machine

A byte is two nibbles and a word two bytes, as in the code, but a nibble has `NIB`
values: 16 in the machine, 4 in the instances. Everything that is derived (word
size, register count, opcode count, memory size) follows from `NIB`, so an instance
has the shape of the machine with 256 bytes of memory, 4 registers and 16 opcodes.
The opcode table `mOps` and the table of conditions are constants: an opcode names a
handler and, for arithmetic, an operation. Each run chooses the opcodes it needs.

An action is one call of `InterpretOne`: fetch at PC, the handler, the advance of PC,
with the error code that the code leaves behind. The handlers that do not assign
`mErrorCode` leave it as it was. `PUSHALL` and `POPALL` move as many words as go
through before the stack refuses one; each further attempt is refused too, and the
error code says so. `CALL` jumps even if the return address did not fit. Undefined
results are choices: a shift by the width of `int` or more gives any word, and a
division by zero ends in the status `"crashed"`. The product of two words is taken
modulo the word size, as the build computes it. `StepBack` has no caller and is left
out. `Reset` is the caller's: it clears the flags, PC and SP, and nothing else.

### Drive

Time is counted in rotations by one sector. `Rotate` puts a timer into `timers` and
returns the time it takes; the user sleeps for that and a margin (one second in
`main.cpp`) and then accesses the current sector. A timer may fire late, but by no
more than `LATENESS`, which is less than the margin (`TimeAssumption`); this is the
assumption that `main.cpp` makes. `hardDrive.h:40` allows one request at a time, and
the user keeps to it.

### User memory

The page is cut off in blocks behind a header of `INT_SIZE` bytes that holds the size
of header and block, lowest byte first. `invalidateMemory` reads the header's first
byte only, so that a block of 256 bytes and more loses only part of its flags; the
model keeps that. A request that does not fit is not refused by the code: the model
records `overrun` and stops there. A program's writes are confined to its blocks.

### Kernel

`pc` is where `Kernel::Run` is: before a call of `FindNextThreadToRun` (`"find"`),
before the loop test (`"test"`), before the poll after a step (`"poll"`), outside
(`"idle"`), or ended by the use of a null pointer (`"crashed"`). The clock is read
anew by every `IsSleeping`, so `Tick` may come between any two steps. `Sleep(n)` is
`n + 1` ticks because the code compares whole seconds with `>`. A thread's step is
open: it finishes when its nodes are used up, or else uses one and makes at most one
call into the kernel. That is more than today's `Executor` does:
`Executor::DispatchNode` has no `break`, so any node it dispatches falls through to
its last `assert`, and the SPAWN, SLEEP and SYNC nodes are never dispatched. The
kernel's promises should not depend on that, so the model takes the executor at its
interface.

`RunProgram` makes the main thread in a local variable and schedules
`mThreads.back()`, the youngest thread the kernel already owns; with no thread at
all that is undefined and ends the model in `"crashed"`. `unparsed` is history: it
records whether some program did not parse. Nothing calls `Thread::Fork`, so
`mChildren` is empty and a `sync` never waits; nothing calls
`Scheduler::TerminateThread`.

### Lexer

A file is any sequence of characters; those that no branch of the code tells apart
share a name. A step is one call: it skips white space, which is where `mLine` is
counted, and then one of nine branches gives a token and a new position. Reading the
character at the end of a `std::string` gives the terminating zero. Three things end a
file before its end: a character that starts no token (`BAD`, for ever), a literal that
is broken by a new line and never closed (the position is then one past the end,
`"past"`, and what follows is undefined), and a number that `std::stoi` cannot hold
(`"crashed"`; a number of exactly `MaxDigits` digits may or may not fit). What a word
says is a choice among the keywords and an identifier, since spelling decides nothing
else. Columns and the text of tokens are left out.

`TokenSource` is what the parser's model is built on; `ImplementsTokens` says that the
lexer refines it. What is checked of the parser for every source of tokens therefore
holds on every file.

### Parser

A state is the current token and the call stack. A frame has the place in its
function where it goes on, the expression it has built so far (null, an identifier,
something else) and whether that one is spawned: this is all of the tree that the
parser ever looks at. A step goes from one call (of the lexer or of a parsing
function) or return to the next. The source is not fixed beforehand: the lexer picks
any token whenever it is asked, up to `MaxTokens`, and then the end of the file for
ever, or earlier, so that one run covers every source up to that length. Tokens that no function
tells apart share a name. An `UNKNOWN` that the lexer skips (a literal, number or
comment that is not closed) and one that it does not skip (`BAD`, a character that
starts no token) are told apart, because the parser's loops differ on them.

An assertion that fails and the use of a null node end in `"crashed"`. `logged` says
whether the parser has printed an error. `ParseIfStmt` and `ParseWhileStmt` do the
same and are one action. That a file does not open is a choice at the start.

### Tree, collector, checker, driver

A tree is the sequence of its nodes in pre-order; a node's place in it stands for its
address. The tree is not fixed beforehand: the collector's walk makes it up, any node
that the parser could put there being the next one (`Takes`, `Needs`). `Sources` names
families of programs: the shapes of nodes, a bound on nodes, and a beginning that all
programs of the family share (`given`), which declares what the rest uses. Beyond the
bound a node gets only the children it cannot do without. The parser never builds an
index (see above), so there is no `INDEX_EXPR`.

The collector keeps the scopes path and the number of the last scope opened as the
code does, misfiled declarations included. The checker visits nodes in post-order; a
look-up of a type that was never noted and a failed assertion end in `"crashed"`, and
the operand types that it never writes are any two types. A call keeps its candidates
until its context, or the loop at the end of `Run`, settles it. `HandleIndexedExpr` and
`HandleSleepStmt` are left out: no tree has the first, and `DispatchNode` has no case for
the second.

`FrontEnd` runs two programs in a row on the same collector, checker and table for the
sources in `Repeated`. The second program's nodes have the places of the first's: this
is the reuse of freed addresses, which `mUseDefs`, never cleared, is exposed to.

### Printed trees

The printer writes one line per node it has a handler for, with a tab for every level.
The reader's recursion is explicit (`todo`). A line that no branch knows leaves a loop of
the reader where it is for ever, which is the status `"hung"`. `Readable` names
the trees that the format can hold: it leaves out nodes without a line (spawn, sleep,
sync, null), `scan`, an identifier as a statement, empty arrays, the number 0 (which the pattern of numbers does not
match) and strings with tabs. The reader runs twice: its second run finds the stream
still open and returns null.

## Runs

Properties are stated in the module they are about. "States" are distinct states.

| Run | Instance | Shows | States |
|---|---|---|---|
| `stack` | every loop of three of twelve stack, call and store instructions, and loops with a load, move or random number before a push; five words of stack | `ImplementsStack`: the bytes from `STACK_START` to SP are a bounded stack of words, partial PUSHALL and POPALL included | 24 thousand |
| `moved` | loops of a stack instruction and one that moves SP, calls or stores; three ROMs; two calls of a loader or of `Reset` | `TypeOK`; `StackPointerKept`: only a reset takes SP out of the stack; `IOPortsProtected`; `SavedWordsProtected`: words that stay on the stack are not changed; `SuccessIsComplete`: no error code, no missing word | 25 thousand |
| `arithmetic` | one operation, or a comparison and a branch, on all pairs of eight words around 0, the sign and the largest word | `BranchFollowsComparison` for NZ, B, AE, BE, JMC and JME; `CarryMeansInexact` for ADD, SUB, MUL and DIV | 21 thousand |
| `conditions` | the same branches with the conditions A, G, L, LE | violated: see *Divergences* | |
| `disk` | three sectors of two bytes, every content, margin 2, lateness 1 | `ArrivesInTime`, `ImplementsStore` (refinement of `SectorStore`), `RequestServed` | 39 thousand |
| `user_memory` | a page of ten bytes, headers of two bytes of four values | `BlocksApart`, `LiveBlocksValid`, `FreedBlocksInvalid` | 70 thousand |
| `kernel` | three threads of up to two steps, sleeps of 0 and 1 seconds | `TypeOK`, `CurrentIsFront`, `NeverOutOfThreads`, `RunToCompletion`, `RunReturns` | 6 thousand |
| `parser` | every source of up to eleven tokens out of all kinds of them | `DepthBounded`: after n tokens the parser is at most 2n + 2 calls deep; `CrashesAreAnnounced`: no crash without an error reported before, `spawn` and indexing apart; `Terminates`: it ends unless it meets an unknown character | 87 thousand |
| `lexer` | every file of up to five of eleven kinds of characters, numbers of up to two digits | `ImplementsTokens` (refinement of `TokenSource`), `AllRead`: every file comes to an end, `LinesCounted`: only comments of several lines and bad text lose lines | 1.3 million |
| `front_end` | all programs of blocks, variables and functions of one name up to eleven nodes, two in a row up to eight; all programs that go on for up to four nodes (and what these need) after two overloads and a function | `PassedUsesAreVisible`, `PassedUsesAreInnermost`, `PassedCallsAreResolved`, `PassedIsWellTyped` against definitions of visibility and type that do not use the passes' own tables; `CrashesAreKnown` | 3.2 million |
| `arguments` | the last of these families | violated: see *Divergences* | |
| `ast_file` | every tree of up to seven nodes of every kind, read twice | `RoundTrip`; `ReadableIsRead` | 960 thousand |

Why the bounds are enough. *Machine*: a stack of five words holds one PUSHALL of four
and not a second, so full, empty and stuck half way all occur; programs loop, so
short ones reach every depth; SP is also put at an odd address, where the last push
must fail one byte early. The operands are the values where carry, borrow, sign and
zero change. *Drive*: three sectors have a next, a previous and a same sector, and the
rotation around the end. *User memory*: sizes reach beyond what one byte of the header
can hold, and requests beyond the page. *Kernel*: one thread can sleep and spawn, two
can be left behind, a thread can finish while asleep. *Parser*: the shortest function
takes eight tokens, so eleven hold any one statement in a function; an initialized
variable leaves six for its expression, which hold arrays, calls and operators in one
another; the wrong tokens of every error path fit too. *Lexer*: five characters hold a comment
that is opened and closed with one character in it, a literal with a new line and
another token, a number with a bad suffix and its semicolon, and any two tokens with
white space around them. *Front end*:
eleven nodes hold a function with a parameter and an inner block, both declaring and
using the one name, in every order; eight hold a program that leaves uses behind for the next;
four nodes after the given functions hold an initialized variable, a condition, a return, an
assignment or an operator over a call of a call. *Printed trees*: seven nodes hold a
function with a block in a block, or an expression three levels deep with a sibling after
it. The proofs remove the bounds for all safety properties but
`BranchFollowsComparison` (of whose unsigned part `UnsignedBranches` is the core) and
`RoundTrip`.

Deadlock is checked, except where the program really stops: a trapped division, a
page that overran, a kernel whose process ended, a parser, lexer, front end or reader that
is done.

### Fairness

*Drive*: weak fairness of the environment, the timer threads and the user's wake-up:
the operating system runs a thread whose sleep is over. *Kernel*: weak fairness of
`Run` only, the process's single thread of control, which goes on while it can. The
clock and the holder of the kernel owe nothing: `RunReturns` needs no tick. *Parser*:
weak fairness of the next step: it is sequential and waits for nothing. *Lexer*: the same,
because the parser goes on asking (`Terminates`). *Reader*: the same.

### Divergences

Each of these runs ends in a counterexample and has an entry under `findings`.

* `conditions`: A is decided by the overflow flag instead of the carry flag; the signed
  conditions compare two different bits, and G wants the zero flag.
* `arguments`: where an argument is a call itself, the checker compares its possible
  types with what the candidate returns, not with its parameter
  (`typechecker.cpp:388`), so that a call passes with an argument of the wrong type.

Met while modelling, and modelled as the code has them, without a run of their own:
`CPU::Reset` sets SP to 0 and keeps the registers, where `cpu.h:133` says "Restore the
central processing unit at its pre-initialized state" (`moved` shows what still holds
then); `Kernel::Run` returns with the first thread that finishes, and threads that were
scheduled stay in the list (`kernel.cpp:65`); for a sleeping thread the scheduler answers
with the same thread, and `Run` executes it at once (`kernel.cpp:71`); for a character that
starts no token the lexer answers `UNKNOWN` without moving on (`lexer.cpp:288`), and the
parser's loops never end (`Terminates` excepts it);
`AcquireROM` uses one byte of the start address (`interpreter.cpp:129`); ADD sets the
overflow flag for any two negative operands (`cpu.cpp:248`); register shifts take the
whole register as the distance, where the machine's specification masks it
(`interpreter.cpp:565`); `Disk::Write` goes on into the next sector with longer data
(`hardDrive.cpp:80`). In the parser: `spawn f()` skips the name and calls through a null
node (`parser.cpp:266`, `431`), every index fails an assertion because its bracket is
not consumed (`parser.cpp:308`), a well-formed array parameter or result ends the
function it belongs to (`parser.cpp:124`, `159`), a brace inside a function is skipped as
if it were nothing, so that an inner right brace closes the function, where the grammar
of `docs/TosLangGrammar.txt` has nested compound statements (`parser.cpp:499`), and the
trailing part of an expression is not reported (`parser.cpp:322`). In the lexer: `/*/` is a
whole comment (`lexer.cpp:116`), and lines in comments are not counted. In the passes: a
variable declared after an inner block is filed under that block
(`symbolcollector.cpp:138`), the parameters of a function without a body are left to the
next block (`symbolcollector.cpp:115`), an identifier may be tied to a function
(`symboltable.cpp:60`), a return without a value dereferences null in a function that
returns one (`typechecker.cpp:501`), and the types of operands other than names, numbers, Booleans
and operators are read uninitialized (`typechecker.cpp:280`). In the reader: every second
run returns null (`astreader.cpp:47`), and an unknown line is never passed
(`astreader.cpp:70`).

## Proofs

All theorems are for every value of the constants that the named assumptions allow.
TLAPS knows no powers; that the powers of the base in use are positive numbers is
stated as an assumption next to the constants and evaluated by TLC.

* **Machine** (`InterpreterProofs`). The inductive invariant `IInv` is
  `TypeOK` with "SP is at most `STACK_END`". The upper bound is what survives a
  `Reset` (SP 0 is below the stack), and it is what keeps pushes off the IO ports;
  `TypeOK` alone does not bound SP. One lemma per group of handlers shows that a step
  keeps `IInv` and, if SP was in the stack, keeps it there. From it: `TypeCorrect`,
  `StackPointerSafe` (and `NeverOutOfStack` without resets). `WritesConfined` says
  where an instruction can write at all (below the stack, the two bytes a store at
  `STACK_START` reaches, the bytes SP passes going up); `IOPortsSafe` and
  `SavedWordsSafe` follow. `SuccessMovesAll` takes the error codes apart, handler by
  handler. `UnsignedBranches` and `CarryIsExact` are about the flag operators, for every
  word width. The refinement `StackIsWordStack` needs one thing more, `WholeWords`: SP is
  a whole number of words above `STACK_START`. It is for instruction tables without
  LDI SP, which makes part of the stack of whatever lies below the address it loads, and
  for programs that end below the stack (`NoStackLoad`, `LoadsBelowStack`; the run `stack`
  is such an instance). One lemma per operation of `WordStack` shows the step it maps to:
  a store can reach the oldest word only, an instruction on a full or empty stack changes
  registers at most.
* **Drive** (`DiskProofs`). The invariant: at most one timer, and while the user
  waits it is for the sector asked for and will fire before the user wakes up, or has
  fired and the head is there. It uses `LATENESS < MARGIN`. From it `HeadArrives` and the
  refinement `DriveIsStore`, whose access step needs data of at most a sector.
* **User memory** (`UserMemoryProofs`). Blocks lie in the page and below the offset, are
  apart, hold their size in their header, and have the flags their state asks for;
  no part is inductive alone, because a free reads its count from bytes that must not
  have been written by another block.
* **Kernel** (`KernelProofs`). `FrontInv`: the current thread is the front of the list,
  and is not null inside the loop; hence `EraseIsDefined` and `NoHandOver`. `ListInv`: the
  last entry is the youngest thread, and while `Run` is under way two neighbours in the
  list are equal, or it is about to return. `RunProgram` makes that pair by scheduling a
  thread that is already last; when the first of the two is erased the second is the
  same finished thread, and the loop ends with one entry left. Hence `NoNullThread`.

* **Lexer** (`LexerProofs`). `Outcome` sums up the nine branches: at the end of the file the
  end is given, a bad character stays, and every other token leaves the position behind
  where it began. The invariant `Consumed` says that the tokens given are at most the
  characters passed, and that the two tokens that are for ever are given where they are
  true. Without its last two parts the step after the end could give something else.
  Hence the refinement `LexerIsTokenSource`, for files of every length.
  `LexerCountsLines` uses the same outcomes: white space adds up its new lines, and a
  token holds none unless it is a comment that is closed or text that is no token.
* **Parser** (`ParserProofs`). The invariant goes frame by frame. A frame that is the
  h-th from the bottom has h + slack <= 2n + 2 with n tokens taken, where the slack of a
  place is the number of calls it may still make without taking a token; hence
  `RecursionIsBounded`. The depth alone would not be inductive, since several functions
  call another one on the token they were called on. The rest is for `NoSilentCrash`: a
  frame that waits knows which function it waits for, and an expression that is to be
  used is null only after a complaint or in a spawn.
* **Front end** (`FrontEndProofs`), on programs of every size and on a table that was used
  before. Four invariants on top of each other.
  `IInv`: a parent comes before its children, a node has the children it needs unless it
  is still open, the table's keys are nodes of this tree with all of its functions
  unless an error was counted, and, while the checker runs without an error, a call it
  has left is tied to a function of its name and number of arguments or has such
  functions left to choose from, an argument until its call is done. Without that last
  part a use-def pair of an earlier program, whose place comes back, could stand for the
  call. Hence `PassedCallsResolved`.
  `JInv`: what stands where a value is asked for is an expression, only functions are filed
  as functions, identifiers are tied to a symbol of their name, and the nodes that are
  certain to get a type have one once they are left. Every crash of a handler is traced
  to one of these, hence `OnlyKnownCrashes`.
  `KInv`: a type that was noted is the one that follows from the types below, and a node
  that was left without an error has what it asked for. Since `TrueType` follows the same
  equations it is the noted type, hence `PassedIsTyped`.
  `LInv`: what names mean. The open nodes lead from the one being visited up to the
  program (`PathOK`), and a function has its parameters right after it and one body at
  most (`ShapeOK`). `ScopesOK` says that some numbering of the open blocks, increasing
  with the nesting, makes up the scopes path, that only variables of an open block are
  filed under its number, and that, unless they are declared after an inner block, all of
  them are; parameters are filed under the number that the body is about to get, and
  wait for it. The numbering cannot be the blocks' own positions: numbers are given out
  in the order of opening, and a block that was left keeps its number while the next one
  takes another. With `VariablesOK` (no two variables of a name in one scope, and every
  declared variable in the table unless an error was counted) the first scope on the
  path that holds a name is the innermost block that declares it. `MeaningsOK` keeps
  this for the identifiers already tied. Hence `UsesAreVisible` and `UsesAreInnermost`.
  Since the path is never reset between programs, the proof also shows that it is back
  at its start when a pass ends.
* **Printed trees** (`ASTFileProofs`), of any shapes, size and nesting. `ReadingGivesBackTheTree`
  is `RoundTrip` for all of them. `RoundTrip` says nothing until a run is done, so the
  invariant `FInv` follows the printer and the reader node by node, by three things that
  neither of them keeps. `LevelsOK(D)`: the levels; a node is one below its parent and no
  node between the two has a lower level. This is what makes indentation enough: the first
  line with too few tabs is the first that is not under a node. `LinesOK(D, P)`: the place
  of every node's line, and what the line says. `TodoOK(todo, W, r, D)`: which node each goal
  of the reader is for, 0 for a loop. Every node not read whose parent was read has its
  goal (`Covered`), goals are for nodes deeper in the tree or earlier than those of the goals
  behind them (`OrderOK`), and what was read is a beginning of the tree (`ReadOK`); hence
  the next node of the tree is the one that the first goal reads, or the first goal is a
  loop whose node has no more children and which its tabs bring to its end. At the end of
  the file the last loop has nothing left. `TreeOK` keeps what the parser puts under a
  node; a node that is left has the children it needs. The assumption `ShapesAssumption`
  is what the parser guarantees of a node: only a function has parameters, a block has no
  name or type, and no name but a string's has a tab in it.

The library's induction theorems take an operator as a parameter and cannot be used. Where
a proof needs an induction it takes the least, or the greatest, element of a set of
counterexamples (`LeastNatural`, `FromParents`, `FromChildren`), and where the model has a
recursive function (`Ancestors`, `Operands`, `TrueType`) it first shows that the recursion
has a solution (`RecursionHasSolution`), which is what lets its equation be used.

Only model-checked: the liveness properties (`RequestServed`, `RunReturns`, `Terminates`,
`AllRead`, `ReadableIsRead`; liveness is out of the prover's reach),
and `BranchFollowsComparison` (about the programs of its run, which are written with
`Bitwise`, from which nothing can be proved).

## Plan

Modelled: every component whose code can take a step in the build. Left, in this order:

1. A generator of the documented grammar composed with `Parser`: what the grammar
   derives is parsed without an error, and statements end where the grammar ends them.
2. `Instruction` setters and the code generator, should the build take them up again, and
   the `Executor` in place of the kernel's open thread code, once it can take a step.

## Not modelled

* LLVM backend and code generation: out of the default build; their behaviour is that
  of LLVM and of a target without a loader.
* SSA and control-flow builders: nothing calls them (`compiler.cpp:29` is a comment), no
  test runs them. They run into an assertion for a function with parameters and for
  `==`, and never fill in the predecessors that their PHI nodes are made from.
* Executor and call stack: with assertions on, no executor can be made (its first frame
  copies a value of type `UNKNOWN`, `interpretedvalue.h:185`), and without them every node falls
  through the cases of `DispatchNode` into handlers of other nodes, whose casts give null.
* Instruction setters: used by the code generator only.
* The command line and the dumps of the drivers.
* File system: empty classes. Host communication: reads and writes one file.
* The life time of a `Disk` whose timer is still under way: `main.cpp` outlives its timers.
* Requests for memory that do not fit the page: undefined from there on.
