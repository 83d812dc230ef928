# Floppix in TLA+

Floppix is a web-server skeleton in C99: a core (configuration, modules,
listeners, logger), a portable system layer (pools, threads, mutexes,
semaphores, files, sockets) and a few algorithms. This directory models the
parts of it that carry state, checks them with TLC and proves theorems about
them with TLAPS. The reference is the POSIX build with the default options of
`cmake/fpx_options.cmake` (thread-safe pools, no mmap, the logger a thread).

`PROJECT.json` lists the runs, the mutants, the source lines behind every
definition, the findings, the hazards and the theorems.

## Inventory

| Part | State | Operations | What is hard | Correct when |
|---|---|---|---|---|
| Logger (`core/log.c`) | ring of slots, `front`, `rear`, two semaphores, two mutexes, list of logs, `running`, the global logger | init, add log, start, log, worker, destroy | many writers, one reader, a full ring, the worker logging itself, fork after the thread was made | messages are whole, in order, once, in every log that wants them; callers return |
| Memory pool (`system/pool.c`) | lists of memory nodes by size, cleanup records (used and reserved), tree of child pools, recursive mutex, owner | create, palloc, cleanup add/run/remove, clear, destroy, sizes | records live in the memory they manage; arithmetic on sizes; the mutex is locked and unlocked unevenly | blocks are disjoint, sizes exact, nothing leaks, threads do not interfere |
| Synchronisation (`system/sync`) | semaphore value, mutex holder and depth | wait, post, lock, unlock | recursive mutexes, unlock without lock | - |
| Configuration (`core/command.c`) | list of directives with file, line, arguments; open files | read, include, check, process | includes grow the list while it is walked; wildcard includes | every directive is handled once and in order, or an error is reported |
| Value parsing (`core/parse.c`, `util/string.c`) | - | sizes, address and port, level, integers | overflow, empty and malformed input | agrees with what the text denotes, or refuses |
| Modules (`core/module.c`) | list of modules, contexts, `preinited` | add, preinit, init, fini, load, unload | modules imported while the list is walked | every module is preinitialised once, before its init |
| Server start-up (`core/main.c`, `core/server.c`) | server record, pools, process identity | parse arguments, read, preinit, process, init, daemon, cycle | order of irreversible steps; data that outlives its pool | the steps succeed with the privileges they need; nothing dangles |
| Listeners, connections (`core/listen.c`, `core/connection.c`) | descriptors, lists of connections and free connections | init, bind, open, close; get, free | cleanup on each failure path | each descriptor is closed exactly once |
| Lists (`algo/list.c`), arrays | links and a size | push, insert, remove, merge sort | size kept apart from the links | the size is the length, both directions agree, sorting orders the nodes and loses none |
| Threads, processes, files, sockets, errors, time | handles | one system call each | - | - |
| Event back ends (`system/event`) | - | - | not compiled, not called | - |

How they interact: `main` creates two pools, reads the configuration into the
temporary one, sets up the modules, whose directive handlers add logs and
listeners to the server; `fpx_core_init` binds the listeners, changes identity,
starts the logger's thread and forks into the background; `main` then makes the
logger global, after which every part of the program, the pool and the wrappers
of system calls included, logs through it. The logger, the lists of modules and
listeners, and everything read from the configuration live in pools, and files,
semaphores, mutexes and descriptors are closed by the cleanups of those pools.

The hazards this exposes the code to are listed in `PROJECT.json` at their
lines, with the properties that cover them.

## Modules

| Module | Models | Used by |
|---|---|---|
| `Sync` | semaphores, plain and recursive mutexes | `Logger`, `PoolThreads` |
| `Logger` | `core/log.c`, with the fork of the daemon and the order of start-up | `MCLogger`, `LoggerProofs` |
| `LogChannel` | what the logger promises: a bounded FIFO channel to a list of logs | `Logger` (`ImplementsChannel`) |
| `Pool` | `system/pool.c` used by one thread | `MCPool`, `PoolProofs` |
| `PoolThreads` | `system/pool.c` shared by threads | `MCPoolThreads`, `PoolThreadsProofs` |
| `List` | `algo/list.c`, links and size | `MCList`, `ListProofs` |
| `NodeSequence` | what a list promises: an ordered collection, one action per operation | `List` (`ImplementsSequence`, `OperationsRight`) |
| `ConfigText` | fetching one configuration file and cutting it into directives (`core/command.c`) | its own run, `TextProofs` |
| `Values` | sizes, addresses and ports (`core/parse.c`, `util/string.c`), the handler of sizes | its own run, `TextProofs` |
| `CommandLine` | `fpx_parse_argv`, as an operator | `Startup`, `StartupProofs` |
| `Startup` | from `main` to `fpx_server_cycle`: configuration, modules, identity | `MCStartup`, `StartupProofs` |
| `Listen` | listeners and connections over the table of descriptors | its own run, `ListenProofs` |
| `LoggerProofs`, `ListenProofs`, `PoolProofs`, `PoolThreadsProofs`, `StartupProofs`, `ListProofs`, `TextProofs` | theorems | - |
| `DataInduction` | induction over numbers, sequences and finite sets; recursive functions; what `FlattenSeq` makes; sums over finite sets | `PoolProofs`, `PoolThreadsProofs`, `StartupProofs`, `ListProofs`, `TextProofs` |

`Startup` is where the parts meet. It takes a file as the sequence of directives
that `ConfigText` shows is cut from it, a value as good or bad, which `Values`
settles, the list of directives as a sequence, which `List` implements, binding
as one step that works or fails, which `Listen` takes apart, and the start of
the logger as one step, whose threads are in `Logger`.

A definition `Name_Fault` is `Name` with a plausible fault put in. It is not
part of any specification; `PROJECT.json` pairs it with the property that fails
when it replaces `Name`.

### Logger

One action is one step between two points where another thread can run. A
program thread in `fpx_log_error` goes through `WaitEmpty`, `LockDeposit`,
`TakeSlot`, `FillStr`, `FillLevel`, `UnlockDeposit`, `PostFull`; the worker
through `WaitFull`, `LockFetch`, `Fetch`, `Format`, one `Handler` per log,
`UnlockFetch`, `PostEmpty`. Text and level of a slot are separate writes, and
the worker reads the level again for each log, as the code does. The worker is
also a thread that can be inside `fpx_log_error`: for its start-up message, and
when a write fails. A message is named by who logged it and when; its time
stamp and formatting are left out.

Start-up is `AddLog`, `Start` (which may fail after setting `running`),
`BecomeDaemon` and `SetGlobal`. The worker sleeps 1000 ms and `fpx_logger_start`
500 ms, so that as a rule the program logs before the worker wakes; nothing
but these delays orders them, and the model takes both orders.

`deposited` and `fetched` are history variables: the messages in the order they
got a slot, and how many of them the worker has taken. `ImplementsChannel` maps
the backlog between them to the queue of `LogChannel`.

### Pool

An address is a node and an offset, sizes are small numbers and `size_t`
arithmetic wraps at `Word`. Cleanup records are carved from the same nodes as
blocks. `nodes[FPX_MAX_POOL_SLOT]` is the next field of the structure,
`parent`, and is modelled so. `Destroy` chooses between the two things that
reading the freed pool can do: find it unchanged, or fault. The constants of the
runs scale a page to 16 bytes and the slots to three, keeping the order of the
real sizes (headers below a page, a cleanup record above the smallest block).
A request of 41 fills a three-page node, 70 goes to malloc, and 50 needs four
pages, one more than there are slots.

A block is in use until the pool is cleared or destroyed; `blocks` and `large`
are history variables.

### PoolThreads

Sizes are left out: a block is one unit and its address a number. What is kept
is each thread's position between reading the head of the cleanup list, locking
the mutex, the steps inside, and unlocking it. Locals of the C functions (`node`,
`prev`) are per thread; an unset `prev` is a wild pointer, and the write through
it either faults or goes astray. The threads may call anything at any time; the
history variable `careful` remembers whether every call was `Disciplined` so far:
cleanups run or removed only while no other thread is inside, and only when they
are registered.

### List

`next` and `prev` are the links inside the nodes and keep their old values when a
node is removed, as in the code; a list is `head`, `tail` and `size`. One action
is one function. `counted` remembers whether `size` can still be trusted: an
insertion in the middle does not count, and a sort leaves twice the number.
`Merge`, `Falls` and `Sorted` are the recursion of the sort, driven by the size
the caller believes in; where that walks past the end the state is `fault`.
`MergeOf`, `FallsOf` and `SortedOf` are the bodies of the three, so that a proof can
name one round of the recursion.

`NodeSequence` has one action per function of `list.c`, on a plain sequence.
`ImplementsSequence` says that whatever a program does is some of its steps;
`OperationsRight` that each function makes the step of its own name, so that no
push can stand in for the other one, or an insertion before for one after. The
abstract sort may leave any order or break the program when the list is not
counted: that is all the code keeps to.

### ConfigText

One action is one round of the loop of `fpx_config_parse`, by the class of the
character: `Blank`, `EndOfLine`, `Hash`, `Ascii`, `EndOfFile`, `SyntaxError`, and
`NoMemory` where the copy of a word fails. A word is the pair of its first and last
position. The properties compare with definitions that look at the whole text:
`LineOf` counts the ends of lines before a position, `InComment` and `InWord` say what
a position belongs to, `WordsOf` is the set of maximal runs of word characters on a
line, `Offending` the set of characters a reader must refuse. None of them goes
through the text from left to right as the code does.

### Values

The functions are operators over the bytes of a string, and the state is only
the string they are tried on, which grows by a character per step
(`EveryString`). Widths are parameters, and arithmetic wraps at
them. The reference definitions take the number as the value its digits denote.

### Startup

`phase` is where `main` is. `conf_list` holds the directives with the pool their
words were allocated from, `node` is the one at hand; `module` is the part of a
module that changes at run time. `fpx_config_process` has one disjunct per kind of
handler (`Include`, `fpx_load_module`, `Set`, `ModuleDirective`, `HandlerFails`);
`fpx_config_check` is the walk of `-t`, which runs only includes. Then come the
steps of `fpx_core_init`, one action each, because each may fail and some cannot
be undone, then the `init` of the other modules, and the end of the temporary
pool. What exists around the program is given by constants: which path denotes a
file, a directory or a mask (`Denoted`), which files break off (`Broken`), which
libraries load, which users and groups exist; `Environments` are the command
lines, identities and file contents main may start from.

### Listen

`table` is the system's table of descriptors, with who opened each and what was
done to it; the lowest free number is given out, as POSIX says, so a stale number
soon is someone else's. `fpx_core_init` is one action per system call of the bind
loop, each of which may fail; after it, connections are initialised, accepted,
closed and destroyed, other parts of the program open and close descriptors, and
the pool closes the listeners that were registered with it. The program has no
caller of `fpx_connection_accept` yet; the model assumes one that accepts into
connections that are initialised and closed.

## Runs

| Run | Shows | Size |
|---|---|---|
| `LoggerSafe` | safety and the refinement of `LogChannel`, with failing writes, both daemon modes, two logs of different levels | 440 000 states |
| `LoggerLive` | only the worker's wait for itself stops calls or messages | 147 000 |
| `LoggerDaemon` | the daemon has no worker | counterexample |
| `LoggerBlocked` | the worker's start-up message finds the ring full | counterexample |
| `PoolSafe` | disjoint blocks and records, exact sizes, no leak, over clears, node growth, large blocks, reuse of records and failing malloc | 146 000 |
| `PoolThreads` | a shared pool used in any way; what holds always, and what holds until the first careless call | 647 000 |
| `ListOps` | both directions agree, the size is exact while it can be, the links implement a sequence, each function does what its own name promises | 77 000 |
| `ConfigText` | exactly the directives of the text, refused only where the text offends | 1 170 000 |
| `Values` | sizes are exact or refused, addresses and ports are what the text denotes | 400 000 |
| `Startup` | what is read, handled, set and given up is what the files say; testing is harmless; the start-up ends | 28 000 |
| `StartupDirectory` | an included directory is not read | counterexample |
| `Listen` | descriptors are closed by their owners and none is lost; all listeners listen or the server does not start; binding ends | 64 000 |

Where the code does not keep a property, the passing runs leave the case out on
purpose or the property names it:

- The worker logs too: its start-up message (`log.c:114`) and every failed write
  (`filesys.c:228`). If it finds the ring full it waits for a slot that only it can
  free, and with it every later call. With the delays of the code the first
  needs no more than `FPX_MAX_LOG_SLOTS` messages within half a second of the
  start: `LoggerBlocked` shows it, and `CallsReturn` fails in the same way with one
  caller and a failing write. `LoggerLive`, in which both can happen, shows that
  there is no third: a call returns and a message goes through the logs, or the
  worker is in that wait (`WorkerBlocked`). Becoming a daemon is left to
  `LoggerDaemon`.
- `PoolSafe` clears only pools without cleanup records (`ClearsRecords`): the
  clear reserves records in memory it makes available again (`pool.c:143`), and
  `MemoryDisjoint` and `SizesExact` fail. Its sizes leave out the one whose page
  count is `FPX_MAX_POOL_SLOT + 1`, a request of 50 here, for which the node is
  stored over `parent` (`pool.c:286`): `SizesExact` and `NothingLeaks` fail; and
  sizes so close to `SIZE_MAX` that the sum with the node header wraps (124 here),
  for which `MemoryDisjoint` and `SizesExact` fail. `Destroy` reads the pool after
  freeing it, and a cleanup without memory is written through NULL: both end in
  the state `crashed`, about which the properties say nothing.
- `ListIntact`, `LockGivenBack` and `CallsReturn` of `PoolThreads` hold while the
  threads are `careful`. When one searches the list beside another call, the head
  it has read is stale when used (`pool.c:389`) and the list may be spoilt; when it
  searches for a cleanup that is not registered, it returns with the mutex
  (`pool.c:404`). `OneInside` and `BlocksDistinct` hold whatever they do.
- `SizeExact` and the sorting of `NodeSequence` hold until an insertion in the
  middle or a sort (`list.c:90`, `list.c:185`). Nothing in the program inserts or
  sorts, and no comment promises a size.
- `fpx_preinit_modules` stops at the first module that is preinitialised, which is
  core (`module.c:58`): the settings survive an import (`LastDirectiveWins`), but the
  `preinit` of an imported module never runs, although `fpx_handler_import` calls for
  it (`server.c:58`) and the module test1 has one, and its handlers and its `init`
  get a NULL context. No property asks for more.
- `StartupEnds` supposes that no file includes itself through whatever others.
- `DirectivesExact` counts the directives whose own allocation failed as dropped:
  the caller does not look (`command.c:167`). `FilesIncluded` likewise takes a file
  of a mask as far as it was read (`command.c:611`).

Other things the models show of the code that a reader may not expect, and that
the properties allow: the last line of a file without a line end is dropped; a
file that `read` returns only in part is accepted as if it were whole; errors in
the files of a mask are ignored; a mask of argument counts accepts the counts in
its gaps; a server started as root with both a user and a group gives up the user
first, and `setgid` is then refused unless the group is its own; a listen value
with an address and no port leaves the port unset; `-t` ends with status 0 even if
the configuration is refused, and the help text names `--test` where only
`--test-config` is known.

Bounds. Two slots and two program threads are the least with which a ring is full,
wraps and has two writers; two calls each overfill it, so every thread waits for a
slot at some point. Two logs of levels 1 and 4 make one message wanted by one and
not by the other. For the pool, three blocks of five sizes, one of them large, and
two cleanups over four nodes reach every slot, a block in a partly filled node, a
new node in a used slot and in an empty one, and a record that is reserved and
used again. Two threads with three calls each on a shared pool reach a record that
is added, run, reserved and used again by the other thread.

The four nodes of `ListOps` give a node a neighbour on both sides and one more,
with two equal keys, whose nodes are interchangeable; `SIZE_WRAP` leaves room for
the doubled size and wraps below zero. The six characters of `ConfigText` hold
three words (a name and `FPX_MAX_TAKES` arguments), or two lines with a comment,
or any offending character at any place. `Values` scales `SSIZE_MAX` to 2047,
`INT_MAX` to 127, the largest port to 41 and 1024 to 4, so that strings of five
characters overflow in the digits and in the product, with the suffix, and hold
bracketed addresses with ports. `Startup` takes 426 main files: every line alone,
every pair of lines around a listen, nested, damaged and self-including files, a
module without `preinit`, one that redefines a core directive, under four
identities and two command lines, and thirteen command lines on one file;
`MaxConf` (14) is reached only by the file that includes itself. In `Listen` three
listeners make a first, a middle and a last one, three attempts are those of the
code, three addresses one more than needed to close a number twice, and seven
descriptors are enough for everyone to meet a number that was someone else's, and
to run out.

Deadlock is checked except where the program may really stop: in `LoggerSafe` and
`LoggerLive` (the worker's wait for itself, and the fork, stop the logger) and
`PoolThreads` (a mutex that is kept), where reading, binding or the start-up ends
(`ConfigText`, `Listen`, `Startup`), at a list that followed a null pointer
(`ListOps`), at the longest string (`Values`), and in the counterexample runs.

Fairness. In the logger and the shared pool it is weak fairness of each thread's
own steps, which the scheduler gives, and of main's start-up; calls are the
program's choice and get none. Since the calls are bounded no thread can be
overtaken for ever, and weak fairness is enough for semaphores and mutexes. In
`Startup` it is weak fairness of main, one thread whose system calls return. In
`Listen` it is that of `fpx_core_init` alone: when connections come and what others
do is not assumed.

## Proofs

`LoggerProofs` proves, for every finite set of threads, every number of slots and
all bounds, that `Spec` implies `[]TypeOK`, `[]NoTornRead` and
`[]SlotsConserved`. The assumptions are those of `Logger`: the worker is not a
caller, nobody is called `NoThread`, there is a slot, the set of callers is
finite. Neither `NoTornRead` nor `SlotsConserved` is inductive. The invariant
`IInv` adds two accounts of the slots (`EmptyAccount`: every slot is a token of
`sem_empty`, claimed by a thread, or behind a message that is not retired;
`FullAccount`: every message is a token of `sem_full`, being posted, or has woken
the worker), who is in the deposit section (`DepositOwner`: exactly the holder of
its mutex, so at most one thread fills), where the pointers are (`RingDistance`
from `front` to `rear`, `FillerSlot` just behind `rear`, `WorkerSlot` just behind
`front`) and what has not happened before the logger is global (`Startup`).
`NoTornRead` follows by arithmetic: a slot being filled and the one being read
could only be equal if `Slots` messages lay between them, which the accounts
exclude. The fetch mutex is not needed for it, since there is one worker. The
cardinalities of the sets of threads change by one per step; that is a lemma of
its own, from `FiniteSetTheorems`.

Its second half follows the messages themselves: `[]BacklogIntact`, and the
refinement `ImplementsChannel`. The invariant `DataInv` adds that the k-th
accepted message has slot (k - 1) % `Slots` (`Positions`), that the thread in the
deposit section fills the slot of the message accepted last (`FillerMessage`), and
that the worker's line is the message it fetched last (`WorkerLine`). Two messages
that wait are less than `Slots` apart, by the accounts, so they have different
slots and nothing that waits is written over. The refinement is then one lemma per
action: adding a log, taking a slot, each handler and giving the slot back are
steps of the channel, every other step changes nothing of it. `LogChannel` states
no fairness; that messages are written at all is left to `LoggerLive`.

`ListenProofs` proves `[]TypeOK`, `[]HandlesTrue`, `[]NoneLost` and the action property
`AllListening` for every number of listeners, connections, descriptors, addresses
and attempts. The invariant adds the order of the loop (`Order`: the listeners
before `cur` are bound, listening and registered, those behind it untouched),
what has been done to the socket at hand (`Stage`), and that a connection that is
not initialised holds no number (`Unused`).

`PoolThreadsProofs` proves `[]OneInside`, `[]BlocksDistinct` and `[]TypeOK` of a shared
pool however it is used, for every set of threads. The invariant adds that
everything given out lies below `first_avail`, and that a thread about to advance
it has read its present value; an unlock without a lock leaves another holder's
mutex alone, so nobody else can be inside. The type invariant bounds the depth of
the mutex and the number of blocks by counting calls (`Counted`, `Depth`).
`[]ListIntact` and `[]LockGivenBack` hold while the threads are `careful`, and so
does the invariant behind them: without that the code breaks both, as said above.
The argument names the two lists as sequences of records without repetition and
without a common record (`Lists`), says where in the sequence a search stands and
that what it seeks is still ahead (`Searching`), which record is in nobody's list
(`Loose`), and that a search is alone (`Solitary`).

`PoolProofs` proves all four invariants of one pool for all sizes of words, pages,
headers and requests that `SizesAssumption` allows, and any number of nodes, blocks
and cleanups: `[]TypeOK`, `[]MemoryDisjoint`, `[]SizesExact`, `[]NothingLeaks`.
`SizesAssumption` says of the sizes what `pool.c:5-34` and the platform fix: all are
positive, the headers are aligned, the headers of the first node fit its page, a
cleanup record fits a page behind a node header, and the largest node does not
wrap. Each theorem
names what it supposes beyond that, and the code breaks the property without it,
as said under Runs:
`NoneWraps` (no requested size wraps when a node header is added; all four),
`~ClearsRecords` (`MemoryDisjoint`, `SizesExact`), `NoneAtParent` (no size asks for the
slot that is `parent`; `SizesExact`, `NothingLeaks`). `PoolSafe` satisfies all of them.
The invariant says that in every node carved and available bytes add up to its size
(`Shape`); that
blocks, records and reserved records lie below `first_avail` and apart (`Laid`),
kept because the next block is carved behind `first_avail` or in a node that no
list names yet; that every node is in a list and every large block has its
cleanup (`Accounted`); and that the available bytes and the lengths of blocks and
records sum to the memory, as the pages counted in the lists sum to what malloc
gave (`Measured`), kept because a step changes one term of each sum, adds one, or
moves one from one list to another.

The first part of `StartupProofs` proves what `fpx_parse_argv` does with any
command line: the recursion over letters, arguments and their values is well
founded, its result is a set of options, and a line that asks for a test is
refused or sets `test_config`. The second part uses it for `[]TestIsHarmless`, and
proves the type invariant and the five other invariants of `Startup` for every set
of files, paths, modules, command lines and identities. Its invariant says how far
the walk is and that everything before `node` is done (`Walk`), that the list is
the text of the included files in order (`Contents`), that the settings are those
of the last directive seen (`Configured`), from which pool each string is
(`Pools`), and who the process is at each phase (`Identity`). `PathsAssumption`
and `TextAssumption` type what exists around the program and say that every
include names a path of the model, missing ones included; `MaxConf` bounds the
walk, not the theorems.

`ListProofs` proves `[]SameBothWays`, `[]SizeExact`, the action property
`OperationsRight` and the refinement of `NodeSequence` for every finite set of
nodes and all keys. The invariant is `ListInv`: the variables have their types,
the links thread one sequence without repetition in both directions (`Thread`:
`next` of its k-th node is the next one, `prev` the one before, `head` and `tail`
its ends, NULL outside), and the size is exact while it is counted. `Chain`, the
walk the other definitions are stated with, then returns just that sequence. Each
operation gets a lemma that names the sequence its links thread afterwards, and
from that the step of `NodeSequence` it is; links of nodes that are not in the
list may be anything, and are never followed. `SameBothWays` is not inductive
alone, since it says nothing of where the links of the nodes lead. The sort is
three recursive functions, reasoned about by `RecursionFree` of `DataInduction`:
whatever size the caller believes in, a sort that does not fall returns each node
once; with the right size it does not fall and the result is ordered. The
assumptions are that the nodes are finitely many, that NULL is none of them, and
that twice their number is below `SIZE_WRAP`.

`TextProofs` proves what is read from text. For `Values`, the theorems
`[]SizeExactOrRefused` and `[]AddrPortExact` hold of strings of every length and
for all widths, since every string satisfies them; `EveryString` only supplies the
strings. The arguments: `fpx_strlen` and `fpx_strchr` stop where they should; the
cutoff test of `fpx_atosz` refuses exactly when the next value is above the
maximum, so that after every digit the number is the one denoted or the denoted
one is too large; the quotient in `SizeLimit` compares like the product; the
pointer that walks back over the digits finds the only colon behind which the rest
is a number. The digits are the six of `Digits`, with the values C gives them.

For `ConfigText`, `[]TypeOK`, `[]DirectivesExact` and `[]VerdictRight` hold for
every text and every `FPX_MAX_TAKES`. The invariant `TextInv` ties the state of
the reader to the text before its position: which line it is on and whether in a
comment (`Place`), that `begin` is the start of the word that reaches up to it
(`OpenWord`), that `words` lists exactly the words of the line that have ended
(`WordsFound`), and that nothing has happened before the file is fetched
(`Untouched`). With that, a line end saves the words of `WordsOf(line)` in their
order, and a refusal is at a character of `Offending`. The invariant was checked
with TLC over texts of five characters first.

Induction over data cannot be had from the library's schemes, whose parameter is
an operator. `DataInduction` states it for sets instead: a property is the set of
the values that have it, from the well-foundedness of the numbers. With that,
recursive functions can be reasoned about: one whose values depend only on
arguments of smaller rank exists (`RecursionFree`, with `SolutionsExist` and
`SolutionsAgree` for its initial parts), and so can `FlattenSeq` and `SumFunction` (a
value that changes, that is added, or the same values in other places).

Every invariant that a passing run checks is a theorem, and so are both
refinements, `OperationsRight` and `AllListening`. Only model-checked is what is
liveness (`CallsReturnUnlessBlocked` and `WrittenUnlessBlocked` of the logger,
`CallsReturn` of the shared pool, `StartupEnds`, `BindEnds`), which is out of the
prover's reach, as is ENABLED. The counterexample runs are TLC's alone.

## Not modelled

The win32 and darwin variants, the logger as a process, the event back ends (not
compiled), arrays (not used), the wrappers of single system calls, console
output, the conversion of addresses to text, the copying of strings. Functions
without a caller: `fpx_modules_fini`, `fpx_unload_module`, `fpx_listener_clear`
(which would leave descriptor 0 behind), sending and connecting, the socket options
other than the two the listeners set, the try operations of mutexes and
semaphores. Log levels and on/off flags are comparisons with fixed words and are
good or bad in `Startup`. So are the values of `priority`, which `fpx_handler_uint`
cuts down to an `int`: nothing reads that field, and no document says which values
it takes.

## Plan

1. Child pools (`PoolTree`): creation, clearing and destruction of a tree of
   pools that share a mutex.
2. Log files with a size limit (`LogFile`), and the shutdown of the logger while
   the worker runs.
