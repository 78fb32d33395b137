# sys-sandbox, verified

TLA+ models of the programs in this repository, TLC runs that check them on
small instances, and TLAPS proofs of what matters most for every instance.

The repository is a collection of small independent programs. The ones with
logic worth checking are the network tools and the shell of `2019/` (processes,
descriptors, sockets, character vectors), the C compiler of `2023/9cc` and the
modular arithmetic of `2023/montgomery-mm`. The rest are data analysis scripts,
unfinished starts and single functions; see "Not modelled".

## The parts of the system

| Part | State | Operations | Hard behaviour | Correct when |
|---|---|---|---|---|
| `2019/nc` client, server, sockbuf | two sockbufs per process (`begin`, `cur`, `end`), select() bits, kernel streams | `setup_rwset`, select loop of `handle_connection`, end of session | short reads and writes, stale bits within a round, one thread for two blocking directions, close and reset by the peer | the bytes come out as they went in; no read or write blocks; no direction starves; both ends stop together |
| `2019/rsnc` | the same, in Rust | `SockBuf::read`, `write`, loop of `handle_connection` | short writes | as above |
| `2019/multicat` | `clients[]`, `conns[]`, stdio buffers, files, the backlog | `run_server`, `add_client_to_pollfd`, `handle_connection` | a slot reused within a poll round, clients that reset even before they are accepted, a reconnect from the same port, the server being killed | the two arrays agree; read() never blocks; each file has its connections byte by byte in order, one after the other unless one was reset; closed connections are on disk |
| `2019/_sh` pipelines | descriptor tables of shell and children, pipes, `bckpip`/`fwdpip` | `ussh_repl`, `setup_pipe` | n+1 processes each closing the right ends, ^C at any time, wait() in any order, a pipe() or fork() that fails in the middle of a line | a line is the composition of its commands; the prompt returns; nothing leaks from line to line |
| `2019/_sh` parser, cells | character vectors (`buf`, `end`, capacity), the tree of commands, the parser's pointer, the arrays for execvp() | `ussh_read_line`, `parse*`, `chvec_*`, `count_ncmds`, `get_command_arr`, `tr_*` | growth of a vector, a NUL or another odd character in a line, counting twice the same | the commands are the words of the line; the pointer stays in the line; the array that was counted is the array that is filled |
| `2023/9cc` tokenizer | position in the text, token list | `tokenize` | look-ahead of keywords and symbols, a string without an end | the tokens are those of the grammar; the pointer stays in the text |
| `2023/9cc` parser, types | `CUR_TOKEN`, `LOCAL_VARS`, `GLOBAL_VARS`, `STR_LIT` | one function per rule of the grammar, `register_lvar`, `find_lvar`, `set_type` | precedence, offsets, shadowing | an expression is read back as it was written; a store changes its own variable |
| `2023/9cc` code generator | none; the state is that of the generated program | `gen` and its helpers | a stack machine over a machine stack that calls must find aligned, in a frame of fixed size that the statements climb into | the compiled program returns what C says |
| `2023/montgomery-mm` | `num` of each object, the variables of `nprime()` | `nprime`, constructor, `reduce`, `*=`, `+=`, `*`, `+`, `decrypt` | 32-bit words, a sum that stays equal to n | what an object decrypts to is its value modulo n; nothing wraps |

How they interact: two `nc` processes, or `nc` and `rsnc`, talk over one TCP
connection and each with a terminal; `multicat` serves many clients (any `nc` can
be one). In `_sh` the parser hands `setup_pipe()` an array of argument arrays that
ends with a null pointer, and `setup_pipe()` and its children share pipes and the
terminal. In 9cc,
`tokenize()` hands a list to `parse()`, which leaves `code[]`, `STR_LIT` and
`GLOBAL_VARS` to `gen()`; parser and generator meet in the offsets of locals and
in `nbytes_type()` and `set_type()`, which both call.

## The modules

### 2019/nc and 2019/rsnc

- **Relay** is `handle_connection()`. A *channel* is a kernel byte stream; `wr[c]`
  is everything ever written to it and `rd[c]` how much has been read, so the
  bytes in the kernel are `wr[c][rd[c]+1 ..]`. A sockbuf has `data` (`begin` to
  `end`) and `cur`. `Select` is one `select()` with the bits `setup_rwset()`
  asked for; `Read`, `ReadEnd`, `Write`, `WriteEnd` are the four ways a branch of
  the for loop can go, and `Turn` keeps the order of that loop. Any read or write
  may be short. `Leave` is the end of the process with what the kernel then
  does: closed streams, and RST when unread bytes are left. The other ends are
  `Type`, `EndInput`, `Drain`, `CloseOutput`.
- **Stream** is the abstract specification: what comes out is a prefix of what
  went in.
- **Rsnc** extends Relay; only the write differs, which takes the buffer from
  its start. RsncShort shows what a short write does to it, RsncProofs that it is
  Relay while there is none.
- **MCRelayPair** wires a client and a server together and states that the pair
  implements Stream in both directions; **MCRsnc** has one process and an
  arbitrary peer.

### 2019/multicat

- **Mcat** is `run_server()` with one action for each of poll(), the accept
  branch, a connection's turn and the end of the round. `revents` keeps the
  bits poll() left, because `add_client_to_pollfd()` may fill a slot in the same
  round. `txtout` is what stdio holds, `file` what is on disk; `Kill` loses the
  former. Clients connect, send, close and reset at any time; `accept()` fails
  when the client it takes has reset, and the loop goes on. `Kill` is any signal,
  the ones the program may raise itself included (SIGPIPE, or SIGSEGV when
  fopen() has failed).
  A reset does not take away what came in before it: `sent` counts the bytes that
  have come in, and read() finds the end of file or the reset behind the last of
  them (`Ended`), as Linux and BSD do. The kernel lets a port be used again when it
  has no connection with it any more, after a reset or a close (`Connect`); the
  server may then still have the old one in a slot.
- **Logs** is what a user of the server counts on: a log per port, which only
  grows, by the bytes of a connection that come next; a connection is closed only
  when all that came in is logged; a crash takes nothing from the logs. It says
  as much of the order of connections as the code gives: they follow one another,
  but when a client has reset and comes back from the same port, what is left
  unread of the first connection is logged between bytes of the second, for each
  has a slot and a FILE of its own (mcat.c:29) for as many rounds as it takes
  (mcat.c:60). `Logged` is that Mcat implements it: the files are the logs, and
  `fin` and `rst` the client's part (`Peer`). A pass with nothing to read, poll()
  and accept() are stutters.
- **McatProofs** has its proofs.

### 2019/_sh

- **Pipeline** is `ussh_repl()` and `setup_pipe()`. `fds[p]` is a process's
  descriptor table, copied by fork(); `bckpip` and `fwdpip` are arrays in each
  process's own memory. The actions are the system calls of the parent (`Fork`,
  `Parent`, `ForkDone`, `Wait`, `WaitDone`) and the child (`SetSignal`,
  `RedirectOut`, `RedirectIn`, `Exec`). The programs are external: each writes
  items of its own, copies from 0 to 1, exits. A pipe's reader sees the end of
  file only when no table holds the writing end. `Abort` is the assert() behind
  a pipe() or fork() that fails: the shell is gone and its children are not.
  `MaxCommands` bounds the commands of a line; a table has the numbers 0 to
  2 * MaxCommands + 4 and the pipes are 1 to 2 * MaxCommands + 1.
- **Shell** is the shell as seen from the terminal: a line is typed, its answer
  comes item by item, and the prompt returns with all of it, or early after ^C, or
  the shell ends. `Answered` is that Pipeline implements it, with the composition
  of the commands as the answer (`Whole`) and the program counter and the ^C as
  the stage (`Stage`); forks, redirections, pipes and waits are stutters. What is
  printed behind the prompt would be no step of Shell, so a child that outlives
  its line shows.
- **PipelineProofs** has the proofs of both.
- **Chvec** is `chvec.c`: a vector is its buffer, as long as the capacity, and
  `end`. strncpy() stops at a NUL, which the model keeps.
- **Command** is a turn of `ussh_repl()` around `setup_pipe()`: `ussh_read_line()`
  character by character (`TypeChar`, `EndLine`, `EndInput`), `parse.c` with one
  action for each thing a character can make it do, then `count_ncmds()` and
  `get_command_arr()`, and the frees. A
  character is one of a class (`Idchars`, `Spaces`, the bar, `Foreign`, NUL).
  A byte of 255 ends the input like EOF, since `c` is a char. **CommandProofs**
  has its proofs.

### 2023/9cc

- **Scanner** is `tokenize()`, one action per turn of its loop, over a text to which
  `read_file()` has added a newline. What was read is what `main()` gives to the
  parser, in **Grammar**. The search for a closing quote that does not come runs
  past the end of the text (`TakeUnclosed`); the model follows it out of the text and
  stops, since what lies there depends on the build. **ScannerProofs** has its
  proofs.
- **Locals** has the operations on `LOCAL_VARS`; **Frame** is the state machine
  of a list going through the parameters and declarations of function after
  function. `Slot` is what a variable consists of, `Changed` what gen()'s stores to
  it change, 8 bytes at the last int of an array included.
- **Ctypes** is `type.c` with `nbytes_type()` and `alignment_of()`; **Parser** is
  `parse.c`, one operator per function, from the parser's globals to the globals
  and a node. `equality()` to `mul()` are one operator over a table of levels.
- **Codegen** is `gen()`: from a tree to a sequence of instructions, jumps as
  distances; `cmp` and the `jcc` or `setcc` behind it are one instruction.
  **Compile** is `main()`: parse, generate, and what assembler and linker do to
  the text, which is to place code, globals and strings. **X86** executes the
  result: registers, memory byte by byte, stack, one action per instruction.
- **Csource** is the reference, not a model: programs of the C subset as trees,
  the tokens that write them, and their meaning in C with objects instead of
  addresses. There are two styles of writing, which differ where `parse.c` and
  `syntax.ebnf` do: `Ebnf` has the fewest parentheses the grammar needs, `Accepted`
  those `parse.c` needs behind a sign and around a sizeof. Beside the meaning it
  counts `peak`, how many values the blocks of a call pop that no statement left.
  **Grammar** runs Scanner on the text of an
  expression and then the parser on its tokens, and compares the result with the
  expression; **MCNcc** and **MCNccLimits** compare the compiled programs with
  their meaning.

### 2023/montgomery-mm

- **Montgomery** is `mod.cpp`, in words of `W` bits: `Turn` and `Return` are the loop
  of `nprime()`, `Construct`, `Multiply` and `Add` the operations on objects,
  `decrypt` an operator. Every product and sum is taken modulo 2^W as in T.
- **Residues** is what the class promises: variables that hold residues modulo n.
  `Modular` is that Montgomery implements it, with `decrypt` of each object as
  the refinement mapping. **MontgomeryProofs** proves it.

Definitions marked *Variant* are not used by any specification: each is what a
plausible slip in the code would make of the definition below it, and
`PROJECT.json` says which property finds it.

## The runs

| Run | Bounds | What it shows |
|---|---|---|
| RelayPair | two processes, 3 bytes typed at the client and 1 at the server, buffers of 2, room for 1 in each stream, with fairness | No read or write can block on a stale bit; the comments in `sockbuf.h` hold; nothing is lost, repeated or reordered; the pair implements Stream both ways, under every short read and write, close and reset; every byte that arrives is passed on or the session ends; when one leaves the other does. |
| RsncShort (violation) | 3 bytes, buffer 2, room 3 | With a short write `cur` passes `end`. |
| Mcat | 2 slots, 3 connections, the first and last from one port, 2, 1 and 1 bytes, with fairness | Arrays agree, no blocking read, closed connections saved through resets and a kill, every client heard, slots come back, and the files are the logs of Logs, one per port, under a port that comes back while its first connection is still being read. |
| Pipeline | all lines of one to three commands over echo, cat, head and a missing one; pipes of one item; any number of lines, one ^C per line, pipe() or fork() failing at any command | The shell implements Shell, so a line prints the composition of its commands; no stray writer, clean prompt, and the prompt returns, or after an abort the children still end. |
| Command | all lines of up to 6 characters out of six (two of identifiers, a space, the bar, NUL and a foreign one), vectors that start with 2 bytes | A vector keeps what is pushed through every growth, the parser stays within the line, the array fits, and the commands handed over are those of the line. |
| Frame | up to 4 variables, two names, types char, int, pointer, char[3] and arrays of 0, 2 and 3 ints | A store to a variable changes another, or the saved rbp, exactly when it is to the last element of an even number of ints; names are bound as they should be. |
| Compiled | 472 programs, each over memory full of 0 and full of 5 | Each returns what C says; stack aligned at calls; callers get their frame back; temporaries stay below the locals wherever these and the climb of the stack fit in the frame; every program ends. |
| BlockValue (violation) | one program of four statements | A block pops a value that an else-less `if` has not pushed. |
| IntStore (violation) | one program with an array of two ints | An assignment to an int changes bytes behind it. |
| Grammar | texts of up to 5 of 8 characters, with strings that end and that do not, every keyword between characters of every class; all well-typed expressions of two levels of operators over an int, a pointer, an array and a number, in both styles | Tokens cover the text with the longest symbol first; the pointer leaves the text only if its quotes do not pair up; a word is a keyword exactly when it should be; scanner and parser together read an expression back exactly when its text is the one `parse.c` needs. |
| ScannerInt (violation) | the texts again with short words that begin with `in` | `in` and a letter is taken for `int`. |
| Montgomery | every odd modulus up to 15, words of 9 bits, two objects, any sequence of operations | `nprime()` finds the inverse, no object holds more than n, and the class computes modulo n. |

Why the bounds are enough. *Relay*: what can go wrong is relative to one buffer:
a partial read, a partial write, a second read behind it, the end between them.
All occur with buffers of 2 and 3 bytes, which are larger than the room in the
kernel, so that one buffer takes several writes; one direction has more than a
buffer takes at once, and the other competes with it for the thread. *Mcat*: two slots and
three connections are the least with a refused client and a slot taken again
while its old bit is set; the connection of the same port is the case of one
file opened twice, with two bytes before the reset that may be read one by one. *Pipeline*: three commands are the least with a first, a
middle and a last one, and pipes of one item make every writer wait. Pipes are
numbered from a set of seven, and a table has eleven numbers: more than a line
of three needs, so that a leak shows; the proofs cover lines of every length. *Command*: six characters are two commands of two words, and a vector
of two bytes grows twice on the way (2, 5, 11), the second time from a capacity
that is not a power of two; the alphabet has a character of each class the parser
tells apart, and the proofs cover every line. *Montgomery*: 9 bits are the least
in which r * r fits for the moduli up to 15, so the boundary the code has at
2^32 is met here too. *Frame*: overlap is between neighbours; a fourth variable only
repeats it, 2 and 3 ints are the two remainders of a size by 8, and the proofs
cover every length. *Compiled*: the programs are
families, not samples: all pairs of binary operators in both groupings (192
programs), every statement form around every other around five kinds of
statement (245), one program per form of call, pointer, array, global and
string (30), and five with a full frame: 208 bytes of locals, or fewer and a loop
around an else-less `if` that makes the stack climb to the last word above them.
One word less in the prologue and BelowLocals breaks in these. A byte has 8
values instead of 256 (`ByteBase`) so that a word stays within TLC's integers; addresses and sizes are the real ones, and results are
compared modulo the reduced int. Two initial memories (`Junk`) show that nothing
depends on memory that was never written.

Programs outside the Compiled family on which the compiler and C disagree are
not hidden by it but listed here and as hazards: stores to an int element
(IntStore), shadowing within a function (the scope of a block never ends),
negative chars in comparisons (`movsx eax` leaves the upper half clear), `int +
pointer` (dereferences a null type), `pointer - int` (unscaled), globals of type
char (loaded as 8 bytes), and programs whose locals and climb do not fit in the
frame: more than 208 bytes of locals, of which the first push overwrites some, or
a loop of some dozen turns around an else-less `if` (BlockValue: the stack climbs 8 bytes per turn). The
condition of BelowLocals leaves these out, for they violate what it says of the
others: it states how far the frame carries, with the climb counted from the
source (`Climb`) and not from rsp.
Programs are written in the style Accepted, since the parser does not read
`sizeof x * 2`, `- -1` or `-a[0]` as the grammar does (ReadBack).

Deadlock is not checked where a system may stop by itself: a session that has
ended, a shell left by ^D or aborted, a killed server, a program that has
returned, a text or a line that has been read. Frame and Montgomery cannot stop
and are checked.

### Fairness

Only what the operating system promises. Relay: weak fairness of each process
(one thread, always runnable when select() has something) and of whoever reads
the terminal or the peer's end of the connection; nobody is obliged to type or
to close. Mcat: weak fairness of the server alone. Pipeline: weak fairness of the
shell and of each child; no line, ^C or ^D need come. X86: weak fairness of the
processor. None of the liveness properties needs strong fairness.

## What is proved

`RelayProofs` (for any set of processes, any wiring of streams to sockbufs in
which no stream is read or written by two of them, any buffer size and any
room): `TypeCorrect`, `BufferBounds` (WithinBuffer), `FaithfulRelay` (Relayed),
`NonBlocking` (NeverBlocks), and `EndToEndStream`: a relay that feeds another
implements Stream. The inductive invariant adds to these that no more is read
from a stream than was written, and that a sockbuf whose read bit is set is
empty. Without the latter a read() could fall on a buffer that is not drained,
and Relayed would not be preserved; without the former a prefix of `wr` of
length `rd` means nothing. NeverBlocks is inductive over these because between
select() and a sockbuf's turn only the sockbuf itself takes bytes from its input
or puts bytes into its output (WiringAssumption), so a ready stream stays ready.
The refinement follows from Relayed: what has left the second relay is a prefix
of what has left the first, which is a prefix of what was typed.

`RsncProofs`: `WholeWritesRefine`, that the Rust loop takes only steps of Relay as
long as each write() takes the whole buffer, and with it everything above. The
invariant AllOrNothing says why: a sockbuf that waits to be written has `cur` at
the beginning, so `buf[0..end]` is `buf[cur..end]`.

`FrameProofs` (for any names and types whose sizes are multiples of their scalars' 1, 4
or 8 bytes, any number of declarations): `TypeCorrect`, `StoresInFrame` (InFrame),
`StoresApart` (Apart), `BindingHolds` (Binding). Apart and InFrame are not inductive,
since they do not say that the newest offset is the largest; `Ordered` and
`Aligned` do. Of a variable of size n that has d bytes up to the next one, or to rbp,
d is at least n and a multiple of 8, so the 8 bytes of its last store fit unless
it is an int array with d = n (`Overrun`): then they reach the first 4 bytes of what lies above.
Binding rests on Rebound: the first position of a name in
the list, which exists because a set of naturals has a least element, moves by
one when another variable is put in front.

`McatProofs` (for any number of slots, connections and addresses, any size of the
read buffer): `TypeCorrect`, `SlotsAgreeHolds`, `NeverBlocksHolds`, `SavedHolds`, `InOrderHolds`,
and `LoggedHolds`, the refinement of Logs.
The invariant `IInv` adds what the properties do not say of the time between two
system calls: `Queue` (each waiting connection is in the backlog once), `Unread`
(nothing has been read from a connection before accept()), and `Pending` (a bit of
poll() is good until its slot's own turn, which is why a slot that is filled in
between must not be found with its predecessor's bit). NeverBlocks follows from
Pending.

A second invariant, `JInv`, is about the bytes. `Buffered` says that what stdio
holds of a connection are the last bytes read and the file has all before them,
so a write to the file brings the bytes that come next (`Grown`, `Writing`)
whatever stdio keeps back; `Closed` that of a closed connection all is there, from
which Saved follows. Bytes of two connections in one file do not disturb one
another (`GrownBytes`). Of their order, `Arrival` says that the later one came
when the earlier had been reset or was closed, and `Fresh` that nothing of a
connection is in a file before it is accepted: so bytes of a connection that was
not reset find nothing of a later one (`Turns`), and InOrder is kept.

For Logs each action of Mcat is one lemma (`StoreLogs`, `DropLogs`, `AcceptLogs`,
`ClientLogs`; the others are in `StepLogs`). A read() takes bytes and logs those
that stdio writes out, a drop logs the rest and closes (`Extending`), and Turns is
what Logs asks of the order. InOrder follows from Logged and is not run
separately; it is stated because the refinement is proved with the invariant that
carries it.

`PipelineProofs` (for any set of lines and programs, any number of commands in a
line, any capacity of the pipes and any input): `TypeCorrect`,
`NoStrayWriterHolds`, `CleanPromptHolds`, `ComposedHolds`, and `AnsweredHolds`, the
refinement of Shell. The invariant has two
parts. `Layout` names the pipes of the line, f[m] between commands m and m + 1,
and gives the whole descriptor table of every process by the stage it has come
to. pipe() returns 3 and 4, or 5 and 6, in turns (`Place`), because the shell
closes what it has passed on before it asks again; that is why no table ever
needs more numbers, whatever the length of the line. `Stages` says which
children exist, `Distinct` that no two pipes in use are the same, and that a pipe
is unused when one is needed follows by counting (`SomeUnused`). From the tables
alone: no process holds a writing end it does not write to, and the prompt finds
the terminal's three descriptors. `Flow` names what command j has printed,
out[j], and says where it is: what the program has yet to do (`Ran`, `Idle`), what
is in the pipe (`Fills`), and what a command that has ended has printed
(`Ended`: all that the composition asks for, unless its reader has gone before
it). An end of file is seen only when the writer has ended, which is the place
where Flow needs Layout. Composed follows from Flow (`FlowComposed`), and Answered
from Composed before and after a step: the only action that adds to the screen is
a write of the last command (`Printing`), one item, and what is there afterwards
is a prefix of the answer, so the item is the next one; WaitDone finds the answer
complete because Composed holds behind it (`ShellSteps`). Answered implies Composed,
which is therefore proved and not run separately.

`CommandProofs` (for any alphabet, initial capacity and line): `TypeCorrect`,
`KeptHolds` (Kept), `InBoundsHolds` (InBounds), `ParsedHolds` (Parsed). The invariant adds `Terminated` (a
line that is parsed ends with NUL, so the pointer meets one before the end) and
`Filled` (no vector in the tree is empty and every command has a word, so
`count_ncmds()` counts what `get_command_arr()` visits). Growing is the lemma about
strncpy(): it copies all bytes up to the first NUL, and the string ends there.
Parsed compares the arrays with a definition that never mentions the parser, so
the second invariant, `SInv`, says at each place of the parser what the tree has
of the characters before the pointer: word number w of a command is the w-th run
of idchars that begins in it (`Spelled`), or the command is blank and has the
empty word (`Blank`). At the beginning of a command nothing of it has begun
(`AtCommand`); within a word the vector holds the characters since the word began
(`AtWord`); behind one the pointer cannot be at the start of another while the
command is blank (`AtAfter`). At the end (`AllRead`) the pointer is at the first
NUL or foreign character, which is where the reference ends the line.

`ScannerProofs` (for any set of texts): `TypeCorrect`, `WellCutHolds` (WellCut),
`WordsHold` (Words). Each turn of the loop skips one blank, or appends one token
whose characters it covers (`Takes`), and what Words and WellCut say of a token
depends on its own place in the text only, so the three are inductive together.
That a keyword is looked for only where a word begins is `Cut`. That the pointer
passes the NUL only in a text with an odd number of quotes is `Pairs`: at the top of
the loop the quotes before the pointer make pairs, for a string takes two
(`FiniteQuotes` and `NoQuote` count them), so an opening quote without a closing one is the odd one of the text
(`UnclosedTaken`). The hypothesis
`AllSane` leaves out the texts (`HasIn`) with a word of two or three characters
that begins with `in` and is not the type's: those are read wrongly (ScannerInt).
`main` and `index` are read well. A text with such a word in a string only is left
out too. It is the same restriction as Grammar's.

`MontgomeryProofs` (for any word size and any odd modulus of which r * r fits):
`TypeCorrect`, `InverseHolds` (Inverse), `BoundedHolds` (Bounded), `ModularHolds`
(Modular, the refinement of Residues). The loop of `nprime()` keeps
`result * n + 1 = (t + 1) * i` with r = e * i; at its end t + 1 is the multiple of
r that makes np the inverse. Reduction shows that
reduce(x) is congruent to x / r and at most n for x at most n * r, and Cancel
that r may be divided out modulo n, because n is odd and r a power of two.

Assumptions are those named in Relay (ArrayAssumption, WiringAssumption,
SizeAssumption), Frame (TypeAssumption, ParamAssumption), Mcat (ConnAssumption,
SizeAssumption), Pipeline (LinesAssumption, ProgramsAssumption, PipeAssumption,
TypedAssumption), Chvec and Command (ByteAssumption, CharAssumption,
NullAssumption, CapAssumption), Scanner (TextsAssumption) and Montgomery
(PowAssumption, ModulusAssumption); TLC evaluates them in every run of those
modules. NullAssumption says that a null pointer is no buffer. ModulusAssumption is a limit of the code, not of the proof:
from r * r = 2^32 on, q is 0 and every object holds 0.

Only model-checked: all liveness (Flow, EndTogether, Heard, SlotsReturn,
Returns, Terminates), which the prover cannot do; what is built from recursive
operators (Parser, Codegen, Compile, X86, Csource, Grammar), which it cannot
reach, with what the runs Compiled and Grammar say of it (Correct, CallAligned,
BelowLocals, Restored, ReadBack). Every other invariant of a run is proved. Two
steps that look like inductions over data are made without one: the least element
of a set of naturals, from the well-founded inclusion of finite sets, and the
composition of a line, a recursive function whose first wrong place would be such
a least element.

## Where code and documentation disagree

- `2019/rsnc/src/sockbuf.rs:41`: `write()` passes `buf[0..end]`, not `buf[cur..end]`;
  after a short write bytes are sent twice and `cur` passes `end` (RsncShort),
  against the comment on the C struct it mirrors.
- `2023/9cc/codegen.c:220` pops a "statement value" that several statements do not
  leave (BlockValue).
- `2023/9cc/codegen.c:203` stores 8 bytes to an int, which has 4 by `nbytes_type()`
  and `test.sh:63` (IntStore).
- `2023/9cc/codegen.c:107` reserves 208 bytes whatever a function declares, where
  `syntax.ebnf:19` has arrays of any size; BelowLocals is stated with that limit.
- `2023/9cc/parse.c:502` parses the operand of a sign with `primary()`, where
  `syntax.ebnf:34` has a unary (ReadBack: `- -1` and `-a[0]` are not read back).
- `2023/9cc/parse.c:479` returns after a sizeof, and `unary()` has none, where
  `syntax.ebnf:35` has it as an operand like any other (ReadBack:
  `sizeof x * 2` and `2 * sizeof x` are not read back).
- `2023/9cc/tokenize.c:66` compares two letters of `int` (ScannerInt), against
  `syntax.ebnf:47`.

## Not modelled

- Setting up sockets and reading arguments in `client.c`, `server.c`, `main.rs`: once,
  in sequence, before the loops that are modelled.
- In multicat, running out of descriptors: accept() then fails in every round and
  the loop spins until a client leaves.
- In `_sh`, `tr_clone()`, `chvec_clone()` (which moves the end of the source and
  not of the clone) and `ussh_exec()`, which nothing calls; what `tr_dump()`
  prints; malloc() failing.
- `2019/rush`: one command, one fork and one wait per line, without pipes,
  descriptors or signals; what could go wrong is in Pipeline's lines of one
  command. Line 71 panics on purpose when a child dies of a signal.
- `2019/ping`, `2019/rping`: the main programs do nothing yet.
- `2021/prolog`: a lexer and a parser for generators, without an evaluator.
- `2021/elemag-simu`, `2021/pokemon`, `2022/pagerank-terastal`,
  `2022/prtera-enhanced`: floating-point numerics and data analysis, without
  states to explore.
- `2021/pyfm-example`: a list of packages.
- `2022/hills`: one pass over a word list of five lower-case letters each, which
  counts patterns in an array; a sequential script that runs once.
- `debug.c`, file reading and error messages of 9cc: output only.
- In 9cc, input it crashes on (null dereferences on malformed programs, more
  than six parameters, more than 100 definitions).

## The plan

Done, in this order: Relay with Stream, Rsnc, RelayProofs and RsncProofs; Pipeline;
Mcat; Locals, Frame and FrameProofs; Ctypes, Parser, Codegen, Compile, X86 with
Csource; Grammar; Scanner; Residues, Montgomery and MontgomeryProofs; Chvec,
Command and CommandProofs; failures of accept(), pipe() and fork(); McatProofs
with InOrder; PipelineProofs; ScannerProofs; Parsed; Logs and Shell, with the
proofs that Mcat and Pipeline implement them.

Next, by weight:

1. Block scope in Locals as an abstract specification next to what `find_lvar()`
   does.
2. Running out of descriptors in Mcat.
