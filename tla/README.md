# LibDev: a TLA+ model

LibDev is the `dbgModule` library, a debugger that lives inside the program it
debugs, with the tools around it: `ccdv` (a compiler wrapper for make),
`dumpsym` (which writes the symbol file the library reads) and `term_mon` (a
second terminal). This directory models them, checks the models with TLC and
proves some of the results with TLAPS.

Every definition is translated from the source; `PROJECT.json` ("map") names the
lines of each. Paths below are relative to `src/`.

## 1. Inventory

### dbgModule

| Component | State | Operations | Why it is hard | What makes it correct |
|---|---|---|---|---|
| Signal table, `thread/signal.c`, with the handlers of `arch/exception_handler.c`, `comm/ipc_comm.c`, `thread/threadlib.c` | `_sigTbl`; the kernel's dispositions; stacks of interrupted handlers | `register_signal`, `unregister_signal`, `_signal_handler`, `get_signal_backtrace` | handlers interrupt everything; one-shot dispositions; uninitialised masks | a registered signal is always armed again; only the known window kills; children are reaped |
| Thread registry, `thread/threadlib.c` | circular list of thread-local nodes; `_task_id` | `_hook_pthread_create`, `regist_thread_info`, removal, `_show_thread`, `_find_thread_info` | shared, and not locked | every running thread is listed once; listings end and never meet a raw node |
| Region table, `thread/thread_util.c` | table of `/proc/self/maps`, recursive mutex | `getRegionEntry`, `isValidAddr`, `isValidPc` | rescanned by every lookup, from handlers too | an answer was true during the lookup; no self-deadlock |
| Menu shell, `debug/cmd_shell.c`, `debug/cmd_func.c` | recursion of `_mainMenu`, `ppMenuStack`, `_debugLevel`, print level, debug mode | command lines, F08 to F10, exceptions | recursion, global level and static stack must agree; keys and exceptions change the level under the recursion | a line moves the user where it says; leaving restores the modes |
| Keyboard and terminal, `xlibc/xlibc_input.c`, `xlibc_termios.c`, `debug/cmd_input.c` | partial key sequence, registered keys, saved termios | key decoding, function keys, line editing | sequences in pieces, timeouts | a sequence is one key; the mode is put back |
| Function hooks, `xlibc/xlibc_hooklib.c`, `xlibc_hook_func.c` | table of original and replacement functions | `xlibc_reg_hook`, the wrappers | symbols that cannot be resolved; calls before the start-up | a wrapper reaches the original, or does nothing |
| Communication, `comm/ipc_comm.c`, `term_mon/term_mon.c` | a shared memory segment | server thread, client, `^C` | two processes; segment outlives them | a request is served once; nobody uses an unmapped segment |
| Symbols, `symbol/symbol.c`, `symbol/addr2line.c` | symbol file in memory, sorted tables | `findSymByAddr`, `findSymByName`, the DWARF line program | boundaries; a file that is being written | the symbol is the one that covers the address; only whole files are used |
| Backtrace, `arch/backtrace.c`, `arch/x64`, `arch/aarch64` | one register structure for all handlers | frame walks | frames guessed from code; stacks that change meanwhile | what is printed is the calls under way, in their order |
| Kernel driver, `arch/kdriver/lgdrv` | one list of answers for all threads | ioctl (registers of a thread), lseek and read (region of an address) | callers at once, failures while loading | an answer is the caller's own; initialisation undone in reverse order |
| Commands, `debug/cmd_func.c`, with `xlibc/xlibc_util.c`, `xlibc/xlibc_output.c` | cursors of `md` and `dsm`, last count and size | arguments, options, hex dump | what one command leaves decides where the next begins | a command shows what it was asked for, nothing is skipped or shown twice |
| Demangler, `symbol/demangle.c` | position, substitutions, `last_name`; print buffer, modifiers | `local_demangle` | inside-out declarators, back references, a buffer bounded by an estimate | a symbol is shown as its declaration, or as it stands |
| Start-up, `root.c` | what has been initialised | a constructor that calls the init functions in turn | functions are called before it has run | every function works, or does nothing, at every stage |

`symbol/dyn_sym.c` is compiled out, capstone is third-party.

### Tools

| Component | State | Operations | Why it is hard | What makes it correct |
|---|---|---|---|---|
| `utils/ccdv.src/ccdv.c` | buffer, pipe, compiler's status | read, grow, wait, judge, remove the object | two processes, memory that runs out half-way | make sees every failure; no output is lost; only the object is removed |
| `utils/ccdv.src/sift-warn.c` | pattern rows, header stack, counters | classify a line, rewrite its path | order of rows, directories | errors are never suppressed; paths lead from make's directory |
| `utils/dumpsym.src` | sections, symbols, units, line tables | read ELF and DWARF, sort, merge, write | formats, boundaries, a file written in pieces | what the library answers is what the executable says |
| `term_mon` | the segment of the communication | write a name, wait | another process may reset or have switched | see Communication |

### How the parts meet

Threads register through the `pthread_create` hook and are listed by the F06 key
and the `task` command, which asks the thread for a backtrace by SIGUSR1 through
the signal table. Its handler walks the stack, and looks every address up in the
region table: in a handler, on a thread that may be in the middle of such a
lookup itself. A fault enters `_exception_handler`, which starts the menu
shell on the faulting thread and never returns. `^C` unmaps the segment the
communication thread polls.

The hazards of the code, each at its line, are listed in `PROJECT.json`
("hazards") with the properties that watch them or the reason why none does.

A trace walks frames with the region table, or with the driver's answers, to tell
addresses from data, and names them with the symbol file `dumpsym` wrote, through
the demangler. Keys reach the shell through the decoder: a function key runs on the
keyboard thread, before the line that is being read goes on. What any of this prints
goes through the hooked functions, and the print level decides whether it is seen.

## 2. Modules

### Signals (and SignalsProofs)

`handler` is `_sigTbl[].p_handler`, `disp` the kernel's disposition, `stack[t]`
the activations of thread t: a handler the kernel has pushed, or a call of
`register_signal`. `Deliver` and `Fault` are the kernel: they reset a hooked
disposition to the default (`SA_ONESHOT`) and push `_signal_handler`, or take
the default action. `Dispatch`, then `Reap`, `Backtrace` or `Exit`, then `Rearm` are
`_signal_handler` with the registered handler in the middle; the row is read twice
(`signal.c:107, 109`), so where it may be unregistered in between the second reading is
`CallHandler`;
`WriteTable`/`InstallTable` are the two assignments of `register_signal`. The
mask an installer passes is a choice out of `Garbage` where the code leaves
`sa_mask` uninitialised. `missed` remembers the children whose SIGCHLD the kernel
threw away, so that the liveness property can say what is and what is not
collected.

### ThreadRegistry (and ThreadPool, RegistryProofs)

A step is one memory access: the build is `-O0` (`config/x64/config.mk:22`), so the
statements happen in the order they are written. `LoadId` to `AssignId` are
`threadlib.c:368-371`, `Insert1` to `Insert4` the macro `LS_INS_BEFORE`, `IsEmpty` and
`Remove1` to `Remove4` the macro `LS_REMQUE`. With `Overlap` they overlap freely, as in
the code. The list is not a list then, so what it is for is stated without `Overlap`,
where registrations and removals happen one at a time (listings still overlap them): there
it implements `ThreadPool`, a sequence to which threads are appended and from which they
leave. The refinement mapping reads the sequence off the links (`Chain`) and a thread's
status off its control point: it is in the pool when `Insert3` has made it reachable, and
out of it when `Remove1` has bypassed it. A thread that ends in `pthread_exit` never gets
there and stays in the pool.

### MenuShell (and MenuTables, MenuNav, MCMenuShell, MenuProofs)

`frames` is the recursion of `_mainMenu`, with the locals that survive a call
(`do_loop`, `saveDebugEnable`, `newMenuLevel`); `level` is `_debugLevel`, `mstack` is
`ppMenuStack`. `Call` is the prologue, `Prompt` to `WildLookup` the body of the loop
by the case a line falls into, `EndLoop` and `ExitLevel0` the two ways out.
`CrashCommand` is the exception handler: a shell on top of frames that are never
returned to. MenuNav, the abstract specification, knows only the path of menus
and says where a whole line leads, word by word (`Go`); `ImplementsNav` shows that the
recursion gets there. A ".." that follows the name of a menu goes up from that menu
(`show .. test` opens the main menu's test), because the call for the rest of the line
looks for it again. Command lines are sequences of words; what a word means is in MenuTables.
What the words do not decide, history and repetition, is in CommandLine. `hasty` is
a user who also presses F10 inside menus; to that user `ImplementsNav` and the
invariants about the path promise nothing but `LevelWithinFrames`, the part of
`StackIsPath` that holds for every user, and `F10LeavesShell` what is left: an empty line
leaves all menus, unless a call for one line ("test show") is beneath the prompt. That
call still decrements the level F10 has reset (`cmd_shell.c:611`), to -1, and its caller
prompts again.

### RegionMap (and MCRegionMap, RegionProofs)

`maps` is what the kernel would print, `table`, `mapNum` and `pos` are the shared table
and the position of the stream. `calls[t]` holds the lookup of thread t and the lookup of
a handler that has interrupted it. A scan takes a step for the rewind, one for the reset
of `mapNum`, and one for every line read, stored and counted, a search one for every
probe; `truth` remembers every region that held of the address since the lookup began,
`seen` the table when the search began; `torn` and `stale` mark the answers the code
cannot vouch for.

### IpcSegment (and IpcProofs)

Servers are processes that load the library (`ipc_comm.c`), clients are runs of
`term_mon`. `name` is the file `/dbgSHM` stands for; a file is named by the server that
created it, and `sized`, `head` and `tail` are its contents. `OpenExclusive` to
`CreateThread` are `open_shm` and `init_comm`, with the exits on errors; `Check`, `Read`
and `Open` the loop of `_ipc_cmd`, with the 50 ms in which everything may happen between
the first two; `refused` are the servers whose `open` of the terminal would fail, which
the system may change at any time (`Refuse`, `Admit`): such a server keeps polling;
`Interrupt` to `Unlink` are `_sigint_handler` and `close_shm`, which run while the polling
thread goes on. `Kill` is every other end of the process. `asked` remembers who has asked
a server since it reset the name.

### Ccdv (with SiftWarn, MCCcdv, CcdvProofs)

Ccdv has the compiler, a descendant that inherits the pipe, and `ccdv` itself:
reading into a buffer that grows by `Block`, the panic path when memory runs out,
`waitpid`, the verdict and the output. Output is counted in half lines, so that a
read may end inside one. A `job` is one run: output, pattern file, options,
directories and command line. `siftWarnMain` (SiftWarn) is a function of the job and
of the lines in the buffer; a text is a sequence of words. `SlurpTitle` decides which
file ccdv takes for the one the compiler writes. In the jobs the directories of
modules are relative; "from" lines match no pattern. `gNewCcdv` is always 1, so the
raw way of printing is not reached.

### Symbols (with DumpSym, LinePack, CompUnits, LineProgram, LineRows, Bisect, MCSymbols, SymbolsProofs)

DumpSym, LinePack and CompUnits are the pure part of `dumpsym`: from the sections of
an executable to the contents of the symbol file. Symbols has what happens to the
file, the tool's steps (`Unlink` to the last `fwrite`), kills, full disks and new
runs, and the library that maps what it finds and answers. LineProgram is the
library's interpreter of packed line programs, Bisect the binary search all tables
share. LineRows is the reference: the rows of a line table as the DWARF standard
defines them. `process32.c` repeats `process64.c` but for the widths.

### Backtrace (with FrameWalk, LgDrv, MCBacktrace, BacktraceProofs)

A program is functions of six instructions with their prologues and epilogues, a stack an
interval of addresses with a guard page behind it. FrameWalk has `get_frame_size` for x64
and aarch64 as functions of the memory. Words nobody has written, and the registers a
function saves for its caller, hold `prog.old`, which may look like code or like a return
address; a function interrupted in its prologue has made only the room its instructions so
far have made. Backtrace has the loops of `backtrace.c`, one frame per step, for a
thread's own stack, from a handler (with the one register structure all handlers share),
and through the driver while the thread runs on. The driver reads the pc, then the sp of
`task_pt_regs`, the registers (`saved`) of the thread's last entry into the kernel, which
may be stale and, if it enters again in between, of two moments. Every target has its own
words of the stacks, so `Init` lays them out one by one; a call has room as long as it
ends in the region of its caller's stack. `TraceIsChain` is about a thread that stands
still, by its saved registers too, while it, its handler or another prints its calls;
`TraceKeepsToStack` about one that runs on: calls that have long returned may be printed
then, but the trace stays on that thread's stack and prints only what its calls have left
there (`pushed`), or old words. LgDrv is the driver: loading with a failure at every step,
unloading, and the list of answers between `lseek` and `read`, one access at a time, with
`LS_INIT` in two (`InitList`, `InitNext`), which comes when the device can already be
opened.

### Console (with HookTable, KeyInput, Keys, CommandLine, Commands, DbgOutput, MCConsole)

HookTable is the start-up, the table of hooked functions and the wrappers; a symbol
that cannot be resolved is a choice. Keys is the decoder of escape sequences, a
function of its statics and the next byte; KeyInput adds the wait behind an escape,
what the terminal delivers at a time, and lines with rubout. CommandLine is what
`_mainMenu` does to a line before it looks a command up: words, leading "..", the history
ring, which takes commands that are looked up but no `help`, `hist` or `x`, `!`, `!n`,
`!prefix` and repetition. Commands are `md` and `dsm`, which keep cursors,
and the options of the setting commands. Console composes them into one process, where
F8 and F10 change the print level the wrappers read. `Users` picks one kind of user per
behaviour, so that the histories of one do not multiply with those of another.

### Demangle (with DemangleParse, DemanglePrint, CxxNames, MCDemangle)

DemangleParse is the recursive descent over the mangled name, threaded through `di` as in
the code; the rules call one another by name through `Rule`. DemanglePrint prints the
tree, with the linked list of modifiers; Demangle is `local_demangle` and
`demangle_symbol`, the copy, the estimate and the caller's buffer. CxxNames is the
reference, written from the ABI and not from the code: declarations, the symbol `g++`
gives them, and how they are written. Where the code is known to print something else,
MCDemangle states it beside the declaration (`instead`). These modules hold the only
RECURSIVE operators of the project.

## 3. Runs

Every property has a mutant in `PROJECT.json`: a change to a mapped definition, of the
kind a bug would be, under which TLC finds the property violated in the same run.

| Run | Checks | Bounds, and why they are enough |
|---|---|---|
| SignalsRun | `Armed`, `OneShellPerException`, `KilledOnlyInWindow`, `ReapedUnlessMissed` | 2 threads, 2 children, 2 faults, 1 registration call, 2 nested activations: a signal inside the handler of another, two children behind one SIGCHLD, a fault on each thread |
| RegistryInsert | `WalksInitialised`, `WalkTerminates` | 3 threads, one listing, all overlaps of their assignments; no thread returns |
| RegistrySerial | `DistinctIds`, `WalkComplete`, `ImplementsPool` | 4 threads, ids that wrap at 4, so that the last thread wraps; removal at the ends and in the middle |
| MenuPath | `StackIsPath`, `ModesRestored`, `ImplementsNav`, `LineAnswered`, `F10LeavesShell` | 22 lines, 4 menus deep (64 in the code): every guard on the depth is met; a hasty user types 4 of them, one of which opens two menus, and presses F10 under at most 3 calls |
| CcdvRun | `RoomForNul`, `ErrorReachesMake`, `OutputShown`, `PathsFromTop`, `RemovesOutput`, `Ends` | outputs of up to three lines through a pipe of 3 half lines into blocks of 3, so that both fill; every pair of kinds of line under 3 pattern files; 3 directories of make and of the compiler, with names that climb past the root; 576 command lines |
| RegionRun | `AnswerWasTrue`, `Answered` | 2 threads, one interrupted; a region that appears above the first or below it, or disappears, during lookups; 2 addresses, one of them asked for by handlers too; a table with one entry more than there are regions, as the proof needs |
| IpcRun | `ConsoleWasAsked`, `NamedUnlessUnlinked`, `FaultsKnown`, `RequestAnswered` | 2 servers and 2 clients that run once each: a predecessor that crashed, a segment shared by two servers, a request in the middle of another, a terminal that cannot be opened for a while |
| SymbolsRun | `NamedByAddress`, `FoundByName`, `LinesAreRows`, `OnlyWholeFiles` | 368 executables: a plain one, every line program of two instructions in it, with and without a row in front, every one of three that move the address or the line behind a row, and one variation at a time of its sections, symbols, units and headers; every address around their symbols |
| LineFiles | `TrimmedUnused` fails | the images of SymbolsRun |
| TraceRun | `TraceIsChain`, `TraceKeepsToStack`, `AnswersAreOwn`, `GivenBackInOrder` | programs of three functions with every prologue and epilogue, stacks of 1 to 4 calls among words that look like nothing, like code, or like a return address, 2 traced and 2 tracing threads, at most 2 moves of a thread while it is traced |
| ConsoleRun | `HooksReach`, `KeysAreSequences`, `CommandIsMeant`, `CommandsAsAsked` | a history of 3 (10 in the code) and lines of 6 bytes, so that both wrap or fill; eleven lines, with help, ".." and recalls of every kind; seven kinds of user, each with the presses, calls or commands that reach what it is for |
| DemangleRun | `NamesReadBack`, `RoomIsEnough` | about 1350 declarations: functions of up to two parameters, every type that two operators build, every other construct of the grammar; room to spare, just enough, one less; cut at every length |

Bounds that are not sizes of sets are constants: `MaxNest`, `MaxFaults`,
`MaxRequests` (Signals), `MaxDepth`, `MaxFrames` (MenuShell), `PipeSize`, `Block`,
`MaxHeaders`, `MaxSources` (Ccdv), `Room` (RegionMap), `MaxSyms`, `MaxBuff`
(Symbols), `MaxMoves`, `LogDepth`, `TraceWords`, `BackLimit` (Backtrace), `LineMax`,
`NumHistory`, `MaxArgs` (Console). `Overlap` (ThreadRegistry) is described above.

The smaller numbers that stand for those of the code: `NegWords` 2 for 16 and `Svc` 2
for 8 (FrameWalk), `Room` 256 for the caller's 50 or 80 characters (Demangle), `Top`
4096 for 2^64 (Commands).

### What fails

**LineFiles.** `dumpsym` leaves out the files a line program does not use and
renumbers the others, but copies the program with the old numbers
(`utils/dumpsym.src/addr2line.c:902-925`): the library then names the wrong file, or
reads behind the table.

**Names shown otherwise than they are written.** DemangleRun compares what is shown with
the declaration. `(anonymous namespace)` is shown without its last parenthesis, for which
the length is one short (`demangle.c:755`; the literal at 732 has it). And the prefix
`_GLOBAL__I_` is read and forgotten (`demangle.c:2816-2823`): where other tools say
"global constructors keyed to f", f itself is shown. `NamesReadBack` allows these two texts,
for these names only.

### What the properties leave out

TLC shows each of these exceptions to be needed.

- `KilledOnlyInWindow`: a handler or registration of the signal that kills is under way,
  the program has unregistered it, or it is a fault where a handler blocks it.
- `ReapedUnlessMissed`: a SIGCHLD discarded in the one-shot window, or a shell that has
  stopped the reaper.
- `F10LeavesShell`: prompts above a call for one line, and levels below 0.
- `AnswerWasTrue`: a scan torn by a handler between the rewind and the reset of `mapNum`
  (it finds the file read to its end), or between a line and its count; a first entry
  copied after the mutex has been released; entries a handler's scan has replaced since
  the first entry was compared; the search that begins one entry past the last.
- `ConsoleWasAsked`: a name read while a client is writing it.
- `RequestAnswered`: the time in which the terminal cannot be opened
  (`ipc_comm.c:144`): the client sleeps on. A failure does not outlast its cause.
- `PathsFromTop`: names that ask for the parent of the root. To the kernel that is the root;
  `resolve_path` drops the leading "/" and prints a relative path (`sift-warn.c:190-222`).
- `ErrorReachesMake`: errors judged in the panic path, which waits only afterwards, and
  a compiler that is killed, whose second `waitpid` reports 0 (`ccdv.c:155`).
- `RemovesOutput`: `ar`, whose members look like sources, and a tool whose path contains
  "ld", which is taken for a linker.
- `LinesAreRows`: images whose files are renumbered (LineFiles), and those the code reads
  otherwise than the standard: a `set_file` not followed by a special opcode, sequences out
  of order, and a copy behind an instruction that moves the address without comparing it
  (`const_add_pc`, `fixed_advance_pc`, `set_address`), however far, unless one that compares
  stands in between (`NoLateCopy`). Packets of version 3 and 4 after the first are lost.
- `TraceIsChain`: traces whose shared registers another handler has overwritten, and of
  threads that have run on; aarch64 functions whose prologue subtracts. On x64 a recursion
  from one place is printed once, and the scan takes an old word that looks like code for a
  call where a function leaves it unwritten: there the calls that are printed are in order,
  but some may be missing, with old words in their place.
- `TraceKeepsToStack`: it does not promise that what is printed is still under way. The
  registers are those of the last entry into the kernel, and dead return addresses below
  the stack pointer of today are printed (`lgdrv_sp.c:77-78`).
- `AnswersAreOwn`: an answer may be lost, and the driver may fault, while two threads are
  in its list, the one in `LS_INIT` counted, or when one came before the list was initialised.
- `KeysAreSequences`: the key after a NUL byte.
- `CommandIsMeant`: lines begun with a key without a function, or ended by an arrow.
- `CommandsAsAsked`: dumps of parts of words, symbols whose names read as numbers, and
  arguments that begin with an operator.
- `NamesReadBack`: the two kinds above, and names the copy of 255 characters cuts short.
  `RoomIsEnough`: arrays, function and member pointers, conversions and literals, where
  the estimate may be too small for a name there is room for.

### Fairness

- Signals: `WF` of every thread's handler and call steps (threads are scheduled) and
  of the delivery of each pending signal (the kernel delivers to some thread that
  does not block it). Nothing obliges children to exit or users to press keys.
- ThreadRegistry: `WF` of a listing's next step. No thread is obliged to finish its
  registration.
- MenuShell: `WF` of the shell's own steps; never of keys and lines.
- Ccdv: `WF` of ccdv, and of a compiler that writes when there is room and ends when
  it has written. Not of `Killed` or `Spawn`.
- IpcSegment: `WF` of the polling thread while its process lives. No client is obliged
  to ask, no server to finish its start.
- RegionMap: `WF` of a thread's steps; `SF` of taking the mutex (a thread that asks
  again and again is granted it) and of the interrupted lookup's steps (backtraces are
  requested by hand, so a thread is not interrupted for ever).

The other modules state no liveness and no fairness: what they describe ends with its
input. Deadlock is checked in RegistryInsert, RegistrySerial and RegionRun; elsewhere
the system may stop: the processes have ended, or the input is used up.

## 4. Proofs

TLAPS proves, for every number of threads and every value of the other constants:

- `SignalsProofs!Typing`: `Spec => []TypeOK`, and `SignalsProofs!AlwaysArmed`:
  `Spec => []Armed`. `Armed` is inductive given the types: the delivery that resets a
  disposition pushes the activation that makes the signal active, and an activation
  leaves its stack only after it has installed the signal, or has found its row null.
- `SignalsProofs!KilledInWindow`: `Spec => KilledOnlyInWindow`, of the same signal.
  Besides `Armed` it needs `WindowInv`: a row is null only for SIGUSR1 or a signal the
  program unregisters (`NullRows`); only SIGUSR1 is ever pending for one thread, and only
  once it has been registered (`PendingOk`), which is why `get_signal_backtrace` registers
  before it sends; and each call of `register_signal` that is under way keeps both
  (`CallsOk`).
- `SignalsProofs!OneShell`: `Spec => []OneShellPerException`. The strengthening
  (`ShellOk`) says of each exception signal the program leaves alone that an activation
  of it enters or runs the exception handler, that there is one at most, and that while
  there is one the signal is not hooked: so its delivery finds none, and nothing pops it.
- `RegistryProofs!RegistryTyping` and `RegistryProofs!WalksAreInitialised`:
  `Spec => []WalksInitialised`, with `Overlap` too. The
  strengthening `IInv` says that links lead to usable nodes only
  (`LinksUsable`: a node is usable once its forward link is written), what each
  control point of a registration has already written (`Progress`), and that walkers
  stand on usable nodes (`WalkersUsable`). It is what the order of the four
  assignments of `LS_INS_BEFORE` is worth: the node is linked in last.
- Registrations and removals one at a time (`Overlap = FALSE`, a hypothesis of the three
  theorems; listings overlap them still). `RegistryProofs!IdsAreDistinct`: `[]DistinctIds`;
  the counter is ahead of every id given since it wrapped. `RegistryProofs!SerialListIsPool`:
  `ImplementsPool`, the refinement of ThreadPool, for finitely many threads. Its invariant
  holds the sequence the links spell as a function of positions, forwards and backwards, but
  for the one link that the operation under way is changing; the refinement mapping
  computes the same sequence, so every step of `LS_INS_BEFORE` and `LS_REMQUE` is a
  stutter but the one that links a thread in and the one that bypasses it.
  `RegistryProofs!WalksAreComplete`: `[]WalkComplete`; a walker has passed what it has shown,
  and whoever was there all along is either shown or ahead of it.
- `IpcProofs!IpcTyping`, `IpcProofs!NameLostToInterrupt` and `IpcProofs!OnlyKnownFaults`:
  `Spec => []TypeOK`, `[]NamedUnlessUnlinked`, `[]FaultsKnown`. The first and the second
  are inductive; the third needs `Sound`, what the control point of a server tells
  about its segment and `p_shmAttr`, in particular that a server which has yet to
  open the segment cannot be its creator. `IpcProofs!OnlyFreshRequests`:
  `Spec => []ConsoleWasAsked`; every name in a segment that is not being written (`Fresh`)
  is that of a client which has asked since the server reset it.
- `RegionProofs!AnswersWereTrue`: `Spec => []AnswerWasTrue`, and
  `RegionProofs!TableIsKept`: `[](TypeOK /\ Owned)`, for any threads, layouts, remappings
  and handlers. `Owned`: depth and owner of the mutex are what the control points of the
  lookups say. A scan that has got as far as p (`Scan`) has its entries in the order of
  their ends, although they come from different moments of the map; each that holds the
  address was true of it; and the address was in no region if it lies below the first
  entry that ends behind it (`Right`). At the end of the file this becomes `Whole`, on
  which the comparison with the first entry and the binary search (`SearchOk`) rest. An
  interrupted lookup shares the table with the handler's: what one of them finds is true
  for both, unless the handler came between the rewind and the reset, or between a line
  and its count. The proof brought out the exception that the search's entries may be
  replaced by a handler while it runs, which the model had not told apart before its
  search went probe by probe.
- `SymbolsProofs!FilesInUseAreWhole`: `Spec => []OnlyWholeFiles`, and
  `SymbolsProofs!FileInUseIsKept`: no step changes the contents of a file the library has
  mapped. The invariant `FilesInv` says that the file a tool is writing is its own since it
  unlinked the old name, and that a file is whole before its header says so.
- `SymbolsProofs!AddressesAreNamed` and `SymbolsProofs!NamesAreFound`:
  `Spec => []NamedByAddress` and `[]FoundByName`, for executables with any symbols in any
  order. `AnswersAreLookups` adds to `FilesInv` that every answer is a search in the tables of
  an executable dumpsym has made a file for (`LookupInv`). What the search finds rests on one
  lemma for each stage. `ImportedIs`: the table has an entry for each symbol that is wanted,
  and none twice, unless the room is used up (a fold, as in Ccdv by its least position that
  fails). `OrderIs`: sorting by rank moves every entry somewhere and orders the keys, as
  the ranks are distinct and there are as many places (by addresses for the table,
  by names for `sym_hash`). `EntriesSpread`: with the ends that symbols without a size are given,
  the entries lie one behind the other, and hold just the addresses their symbols cover.
  `HitFinds`: where the sides point to what is looked for, the binary search finds it, and
  -1 only if there is none (by the size of the smallest interval on which it would not).
- `BacktraceProofs!PartsAreGivenBack`: `Spec => []GivenBackInOrder`; what the kernel holds
  for the driver is always a prefix of the order in which it is got.
  `BacktraceProofs!ListIsKept` and `BacktraceProofs!AnswersAreRight`: `[]LookupInv` and
  `Spec => []AnswersAreOwn`. Every node is its thread's own (`OwnNode`), and while no two
  threads have been in the list at once, `LS_INIT` counting as one, its links are those of
  a list in the order of insertion (`Alone`). The lemma `RegionIs` says what the driver's
  binary search returns for every table of regions in order. That the addresses asked for
  are numbers (`AskedNumbers`) follows from the shape of the stacks (`Shapes`) and, on
  aarch64, from the record a thread leaves where it waits (`Waits`).
  `BacktraceProofs!StacksAreFollowed` and `BacktraceProofs!TracesKeepToStack`:
  `[]StackInv` and `Spec => [](prog.arch = "x64" => TraceKeepsToStack)`, for stacks whose
  unwritten words hold anything and for registers of any earlier entries into the kernel.
  What a turn prints is whatever lies ahead of it, so the invariant speaks of the whole
  stack: each code address on it was left by a call of its thread or is an old word
  (`Kept`). A call writes below its caller's stack pointer, in its own stack
  (`PushLeaves`, `StacksApart`), the return address, which `pushed` gets, stack addresses,
  which are no code, and old words. That a trace is on the stack it was asked for
  (`Follows`) needs the registers to name it: stack pointers of calls ascend within their
  stack (`Ladders`), and those saved were of some moment of it. A turn only moves up
  (`FrameIs`: a prologue is never negative) and stays below the upper end, which is that
  of the thread's stack or 0 (`OwnNode`, `RegionOfStack`). The stacks a case begins with
  have all this because nothing but calls has happened on them (`BuildIs`).
- `CcdvProofs!NulHasRoom`, `CcdvProofs!NothingLost`, `CcdvProofs!FailureReachesMake`:
  `Spec => []RoomForNul`, `[]AllAccounted`, `[]StatusKept`, for any job, pipe and block
  size. The invariant `IInv` accounts for every half line: `written` is what is in the pipe, in
  the buffer, and judged or passed on (`Accounts`); once the end of file has been seen
  nobody can write (`Ended`); which control points have waited for the compiler
  (`Collected`) and what they know of its status (`Status`). Nothing is assumed of the
  filter there but that it reports whether it aborted.
- `CcdvProofs!ErrorsReachMake`, `CcdvProofs!ErrorsAreShown`, `CcdvProofs!PathsLead`:
  `Spec => []ErrorReachesMake`, `[]OutputShown`, `[]PathsFromTop`, for any output, pattern
  file, directories and modules. `SInv` adds to `IInv` that ccdv has not judged more than
  was written (`Written`), and that its verdict is that of `siftWarnMain` on the lines it
  has judged (`Fated`). What that function computes is a fold over the lines, and
  the folds of the model (rows of the pattern file, components of a path, lines,
  arguments) are proved about as cases of one fold, `Fold`: `FoldTable` gives the
  table of its values, and a predicate on positions that holds at the start and that each
  step keeps holds at the end, because there is no least position at which it
  fails. So `ImportIs` (whatever the file says, the four built-in rows that make
  an error an error are met before any row that suppresses), `SiftIs` (each line judged is
  counted, and shown when it has to be) and `ResolvedIsTrue` (a path joined to the
  prefix leads, from the directory of make, where the file's own leads from that of the
  compiler, unless it asks for the parent of the root).
- `CcdvProofs!OutputRemoved`: `Spec => []RemovesOutput`, for any command line; `ScannedTo`
  says what the scan of the first k arguments knows of the name it keeps.
- `MenuProofs!RecursionIsThePath`: `Spec => ImplementsNav`, for lines of any length and any
  depth: every prompt, every line and every way out of the shell is a step of MenuNav, all
  other steps are hidden from it. The invariant (`NavInv`) says where on the way of its line
  the recursion is: the call that is to read the next words has its frame at the menu
  MenuNav has reached with the same words left (`Passed`); calls for help, and calls that
  return, are past the end of the line, and the path without the menus they have still to
  leave (`Left`) is the path it ends at. `WayGoes` is the equation of MenuNav's recursive
  function, by the least line for which it has no solution. The proof brought out that MenuNav
  had looked for ".." at the start of the line only, which TLC refuted once such lines
  were among those it types.
- `MenuProofs!StackIsThePath`, `MenuProofs!ModesPutBack`: `Spec => []StackIsPath`,
  `[]ModesRestored`, for any lines and any depth. The invariant says how calls rest on
  each other (`Calls`), that the level never exceeds their number (`Lags`), that for a
  user who is not hasty it equals it and the stack names their menus (`Straight`), that a
  cascade of help keeps within the stack (`HelpFits`), and where the saved modes are
  (`Modes`).

Assumptions: the `ASSUME`s of `Signals` (`SignalConstants`, `NoTargetIsNoThread`),
`ThreadRegistry` (`RegistryConstants`), `IpcSegment` (`IpcConstants`), `Ccdv`
(`CcdvConstants`), `SiftWarn` (`SiftConstants`), `MenuShell` (`ShellConstants`),
`RegionMap` (`RegionConstants`, `LayoutConstants`), `LgDrv` (`DrvConstants`), `Backtrace`
(`TraceConstants`, `CaseConstants`) and `Symbols` (`SymbolConstants`,
`TablesAreSequences`), which TLC evaluates in the runs. `LayoutConstants` says of the
kernel that it prints disjoint regions in address order, of the program that its own code
stays mapped, and of the table that it has room for all regions there are: in the code it
takes 16383 (`thread_util.c:39, 123`), and beyond them addresses are missed.
`CcdvConstants` says of a job that its directories are given by names, without "." and
".." (`IsSift`), and of its command line that the tool comes first, that there is one `-o`
at most, followed by a file that is no input, and that no input has the extension of what
is made (`IsCommand`): a compiler asked to overwrite its source would have it removed.
`TraceConstants` says that each target's stack is a region of its own, all of it mapped,
and that the tracer is none of them; `CaseConstants` that a prologue makes room and never
gives it back, and that the calls a case begins with fit on the stack. `SymbolConstants`
says of an executable that its symbols are numbers of the right kind and that its symbol
table, when it has one, has a function or an object in it: the search of an empty table
reads the entry behind it. `TablesAreSequences`, that the tables of line numbers have
lengths, holds of every executable; it is assumed because they are made by `SelectSeq`,
which the provers cannot look into.

Only model-checked:

- All liveness, being out of the prover's reach: `WalkTerminates`, `Answered`,
  `RequestAnswered`, `LineAnswered`, `F10LeavesShell`, `Ends` and `ReapedUnlessMissed`.
- What recursive definitions compute: `LinesAreRows` (the line programs),
  `TraceIsChain` (the chain of frames a program builds) and `TraceKeepsToStack` on aarch64, whose
  walk finds its way by the frame records of that chain, `KeysAreSequences` (the decoder),
  `CommandIsMeant` and `CommandsAsAsked` (words, history, cursors), `NamesReadBack` and
  `RoomIsEnough` (the demangler, whose operators are RECURSIVE).
- `HooksReach` (the function hooks), and a hasty user's way out, which is liveness.

## 5. Not modelled

- capstone and its headers, and the mips and ppc back ends: third-party or not built.
- `symbol/dyn_sym.c`: compiled out (`USE_DYM_SYMBOL` is 0, `inc/symbol/symbol.h:41`).
- `simple_dev.c`, `example/`, `sample/`: demonstrations.
- Formatting, colours, and commands that print another part's state.
- The saved termios (`xlibc_termios.c`), the cache `mReg_Cache` of `isValidPc`, which
  no lock protects, failures of `kmalloc` in the driver, and two exception shells at
  once, which share one level and one menu stack.
- Of ccdv: archives `lib(x.o)` on the command line, lines of more than 512 characters,
  more than `MAX_SIFT_ITEMS` patterns, a source read with -E from a .i file.
- Of the demangler: overflow of a substitution's number, COMPLEX and IMAGINARY types.
- Undefined behaviour is followed as far as it is one of few outcomes (`null_function`'s
  uninitialised result, the buffer read after it was freed, the uninitialised
  `sa_mask`). What happens after a write outside `ppMenuStack`, after `_dpError` has
  freed the caller's buffer, or after a null pointer was followed, is not.

What would come next: two shells at once in MenuShell; the driver method of the region
table composed with LgDrv; a proof of `HooksReach`.
