-------------------------------- MODULE Ccdv --------------------------------
(***************************************************************************)
(* utils/ccdv.src/ccdv.c: run a compiler with its output on a pipe, keep   *)
(* the output, wait for the compiler, print what is worth printing and exit*)
(* with a status make can rely on.                                         *)
(*                                                                         *)
(* The compiler may start a descendant (cc1, as, collect2) that inherits   *)
(* the write end of the pipe, and any process may be killed by a signal.   *)
(* select, read and waitpid are retried on EINTR, which is a stuttering    *)
(* step here; on this pipe they fail in no other way.                      *)
(*                                                                         *)
(* The output is counted in half lines: a line that is cut by the end of   *)
(* the output, or by a buffer that cannot grow, has only its first half.   *)
(***************************************************************************)
EXTENDS SiftWarn

-----------------------------------------------------------------------------
(* The command line (main, SlurpTitle): which file ccdv takes for the one   *)
(* the compiler writes, and removes when the output condemns it.  ccdv's own*)
(* options are fields of the job.                                           *)

NoFile == [kind |-> "none"]

(* An argument is the tool, an option or a file; base leaves the directory  *)
(* out.                                                                     *)
Tool(name, abs, ld)     == [kind |-> "tool", name |-> name, abs |-> abs, ld |-> ld]
Option(name)            == [kind |-> "option", name |-> name]
File(abs, dir, stem, e) == [kind |-> "file", abs |-> abs, dir |-> dir, stem |-> stem, ext |-> e]

Basename(file) == [file EXCEPT !.abs = FALSE, !.dir = <<>>]

(* Extensions that start like .c, .s, .i or .cpp: .so is one.               *)
SourceLike == {"c", "cc", "cpp", "s", "S", "so", "i", "ii"}
Objects    == {"o", "s", "S", "i"}

Options == [o |-> FALSE, opt |-> 0, cc |-> 0, target |-> NoFile, output |-> NoFile, path |-> NoFile,
            ar |-> FALSE, library |-> NoFile, ld |-> FALSE]

(* The operand of -o: a program, an object of the linker, or an object.     *)
Output(s, file) ==
  CASE file.ext \notin Objects       -> [s EXCEPT !.o = FALSE, !.target = Basename(file)]
    [] file.ext = "o" /\ s.ld        -> [s EXCEPT !.o = FALSE, !.target = file]
    [] OTHER -> [s EXCEPT !.o = FALSE, !.path = file, !.output = Basename(file)]

Modes == [x \in {"-c", "-E", "-S"} |-> CASE x = "-c" -> 1 [] x = "-E" -> 2 [] OTHER -> 3]

(* An absolute path is taken for an option until -c, -E or -S is seen.      *)
Skipped(s, arg) == arg.kind # "option" /\ arg.abs /\ s.opt = 0

Source(s, file) ==
  [s EXCEPT !.cc = @ + 1, !.target = Basename(file), !.path = IF @ = NoFile THEN file ELSE @]

Scan(s, arg) ==
  CASE s.o -> Output(s, arg)
    [] ~s.o /\ arg.kind = "option" ->
         CASE arg.name = "-o" -> [s EXCEPT !.o = TRUE]
           [] arg.name \in DOMAIN Modes -> [s EXCEPT !.opt = Modes[arg.name]]
           [] OTHER -> s
    [] ~s.o /\ arg.kind = "tool" ->
         [s EXCEPT !.ld = arg.ld, !.ar = ~Skipped(s, arg) /\ arg.name = "ar"]
    [] ~s.o /\ arg.kind = "file" /\ Skipped(s, arg) -> s
    [] ~s.o /\ arg.kind = "file" /\ ~Skipped(s, arg) /\ arg.ext \in SourceLike -> Source(s, arg)
    [] ~s.o /\ arg.kind = "file" /\ ~Skipped(s, arg) /\ arg.ext = "a" /\ s.library = NoFile ->
         [s EXCEPT !.library = Basename(arg)]
    [] OTHER -> s

Scanned(args) ==
  LET s == Through(Scan, Options, args)
  IN IF s.ar THEN [s EXCEPT !.target = s.library] ELSE s

Suffix(opt) == CASE opt = 1 -> "o" [] opt = 2 -> "i" [] opt = 3 -> "s" [] OTHER -> ""

(* Mutant of SlurpTitle: the suffix is put on the title only.               *)
TitleOnly(s) == s.path

(* SlurpTitle: without an output of its own the source's name is rewritten. *)
SlurpTitle(s) ==
  IF s.cc > 0 /\ s.target # NoFile /\ s.output = NoFile
  THEN [s.path EXCEPT !.ext = Suffix(s.opt)] ELSE s.path

gPathname(args) == SlurpTitle(Scanned(args))

(* The files behind -o, and those that are not.                             *)
Operands(args, o) ==
  {args[i] : i \in {i \in DOMAIN args : args[i].kind = "file" /\ (i > 1 /\ args[i - 1] = Option("-o")) = o}}

(* What a makefile gives to ccdv: the tool, options and files; one -o at    *)
(* most, whose file is no input; no input is named like an output of it.    *)
Args ==
  [kind : {"tool"}, name : STRING, abs : BOOLEAN, ld : BOOLEAN] \cup [kind : {"option"}, name : STRING]
  \cup [kind : {"file"}, abs : BOOLEAN, dir : Seq(STRING), stem : STRING, ext : STRING]

IsCommand(args) ==
  /\ args \in Seq(Args) /\ args # <<>>
  /\ \A i \in DOMAIN args : args[i].kind = "tool" <=> i = 1
  /\ \A i \in DOMAIN args : args[i] = Option("-o") =>
       /\ i < Len(args) /\ args[i + 1].kind = "file"
       /\ \A k \in DOMAIN args : args[k] = Option("-o") => k = i
  /\ Operands(args, TRUE) \cap Operands(args, FALSE) = {}
  /\ \A file \in Operands(args, FALSE), opt \in 0..3 :
       (opt = 0 \/ \E x \in DOMAIN Modes : Modes[x] = opt /\ Option(x) \in ToSet(args)) => file.ext # Suffix(opt)
-----------------------------------------------------------------------------
CONSTANTS
  Jobs,      \* the runs: command, options, directories, pattern file, output
  PipeSize,  \* capacity of the pipe
  ArgsLen,   \* strlen(gArgsStr), the command line kept in front of the output
  Block      \* TEXT_BLOCK_SIZE

(* The lines a job writes; its last one may be cut.                         *)
Units(j) == 2 * Len(j.lines) - (IF j.cut THEN 1 ELSE 0)

ASSUME CcdvConstants ==
  /\ \A j \in Jobs : IsSift(j) /\ IsCommand(j.args) /\ j.lines # <<>> /\ j.cut \in BOOLEAN
  /\ PipeSize \in Nat \ {0}
  /\ ArgsLen \in Nat /\ Block \in Nat /\ ArgsLen < Block

VARIABLES
  job,        \* what is run, and in which directory
  pc,         \* control point of ccdv
  child,      \* the compiler process
  code,       \* its exit code
  heir,       \* a descendant of it holds the write end
  left,       \* half lines still to be written to the pipe
  written,    \* half lines written to it (history)
  pipe,       \* half lines in the pipe
  used, alloc,  \* gNBufUsed, gNBufAllocated
  exitStatus, \* gExitStatus
  dumpCmd,    \* gDumpCmdArgs: print the command line
  panicked,   \* went through the panic label
  judged,     \* half lines given to siftWarnMain
  passed,     \* half lines passed on to stderr
  sift,       \* what siftWarnMain has made of them
  cmdPrinted, \* the command line has been printed
  deleted     \* the target has been unlinked

outcome == <<judged, passed, sift, cmdPrinted, deleted>>
ours  == <<used, alloc, exitStatus, dumpCmd, panicked, outcome>>
procs == <<child, code, heir, left, written, pipe>>
vars  == <<job, pc, child, code, heir, left, written, pipe, used, alloc, exitStatus, dumpCmd,
           panicked, judged, passed, sift, cmdPrinted, deleted>>

Codes == {0, 1, 99}   \* success, errors in the source, exec failed

Init ==
  /\ job \in Jobs
  /\ pc = "fork"
  /\ child = "none" /\ code = 0 /\ heir = FALSE
  /\ left = Units(job) /\ written = 0 /\ pipe = 0
  /\ used = 0 /\ alloc = 0
  /\ exitStatus = 95
  /\ dumpCmd = FALSE /\ panicked = FALSE
  /\ judged = 0 /\ passed = 0 /\ sift = Unsifted
  /\ cmdPrinted = FALSE /\ deleted = FALSE
-----------------------------------------------------------------------------
(* The compiler and its descendant.                                        *)

Write ==
  /\ child = "running" \/ heir
  /\ left > 0 /\ pipe < PipeSize
  /\ left' = left - 1
  /\ written' = written + 1
  /\ pipe' = pipe + 1
  /\ UNCHANGED <<job, pc, child, code, heir, ours>>

Spawn ==
  /\ child = "running" /\ ~heir /\ left > 0
  /\ heir' = TRUE
  /\ UNCHANGED <<job, pc, child, code, left, written, pipe, ours>>

(* A compiler ends when its output is written, or leaves the rest to a      *)
(* descendant.                                                              *)
Finish ==
  /\ child = "running"
  /\ left = 0 \/ heir
  /\ child' = "exited"
  /\ code' \in Codes
  /\ UNCHANGED <<job, pc, heir, left, written, pipe, ours>>

Killed ==
  /\ child = "running"
  /\ child' = "killed"
  /\ UNCHANGED <<job, pc, code, heir, left, written, pipe, ours>>

HeirEnds ==
  /\ heir
  /\ left = 0 \/ child = "running"
  /\ heir' = FALSE
  /\ UNCHANGED <<job, pc, child, code, left, written, pipe, ours>>
-----------------------------------------------------------------------------
(* ccdv.                                                                   *)

Fork ==
  /\ pc = "fork"
  /\ \/ pc' = "malloc" /\ child' = "running" /\ UNCHANGED exitStatus
     \/ pc' = "exit" /\ exitStatus' = 98 /\ UNCHANGED child
  /\ UNCHANGED <<job, code, heir, left, written, pipe, used, alloc, dumpCmd, panicked, outcome>>

(* Without a buffer the panic label goes on to search it, and faults.       *)
Malloc ==
  /\ pc = "malloc"
  /\ \/ pc' = "slurp" /\ used' = ArgsLen /\ alloc' = Block
     \/ pc' = "crashed" /\ UNCHANGED <<used, alloc>>
  /\ UNCHANGED <<job, procs, exitStatus, dumpCmd, panicked, outcome>>

(* SlurpProgress on a terminal, SlurpAll elsewhere: the same loop.          *)
Full == used = alloc - 1

Grow ==
  /\ pc = "slurp" /\ Full
  /\ alloc' = alloc + Block
  /\ UNCHANGED <<job, pc, procs, used, exitStatus, dumpCmd, panicked, outcome>>

Panic ==
  /\ pc = "slurp" /\ Full
  /\ panicked' = TRUE
  /\ dumpCmd' = TRUE
  /\ pc' = "dump"
  /\ UNCHANGED <<job, procs, used, alloc, exitStatus, outcome>>

(* Mutant of Read: no room is kept for the NUL.                             *)
ReadToTheBrim ==
  /\ pc = "slurp" /\ ~Full
  /\ \E n \in 1..pipe :
       /\ n <= alloc - used
       /\ used' = used + n
       /\ pipe' = pipe - n
  /\ UNCHANGED <<job, pc, child, code, heir, left, written, alloc, exitStatus, dumpCmd,
                 panicked, outcome>>

Read ==
  /\ pc = "slurp" /\ ~Full
  /\ \E n \in 1..pipe :
       /\ n <= alloc - used - 1
       /\ used' = used + n
       /\ pipe' = pipe - n
  /\ UNCHANGED <<job, pc, child, code, heir, left, written, alloc, exitStatus, dumpCmd,
                 panicked, outcome>>

EndOfFile == pipe = 0 /\ child # "running" /\ ~heir

SlurpEnd ==
  /\ pc = "slurp" /\ ~Full /\ EndOfFile
  /\ pc' = "wait"
  /\ UNCHANGED <<job, procs, ours>>

(* Wait: status is 0 again on every turn, and a status that is not one of a *)
(* normal exit is not kept.                                                 *)
Waited(status) ==
  /\ exitStatus' = status
  /\ pc' = IF panicked THEN "exit" ELSE "verdict"

Wait ==
  /\ pc = "wait"
  /\ \/ /\ child = "exited"
        /\ child' = "reaped"
        /\ Waited(code)
     \/ /\ child = "killed"
        /\ child' = "reaped"
        /\ UNCHANGED <<pc, exitStatus>>
     \/ /\ child = "reaped"   \* ECHILD
        /\ Waited(0)
        /\ UNCHANGED child
  /\ UNCHANGED <<job, code, heir, left, written, pipe, used, alloc, dumpCmd, panicked, outcome>>

Verdict ==
  /\ pc = "verdict"
  /\ dumpCmd' = (exitStatus # 0)
  /\ pc' = "dump"
  /\ UNCHANGED <<job, procs, used, alloc, exitStatus, panicked, outcome>>

(* The lines that end in the buffer, and what siftWarnMain makes of them.   *)
LinesIn(n) == n \div 2

Sifted(n, result) == \E rows \in {Import(job.patterns)} : result = siftWarnMain(job, rows, LinesIn(n))

(* Whatever condemns the output removes what the compiler has written, if   *)
(* ccdv has recognised its name.                                            *)
Judged(n, status) ==
  /\ judged' = n
  /\ Sifted(n, sift')
  /\ cmdPrinted' = (dumpCmd \/ job.verbose)
  /\ IF sift'.aborted
     THEN exitStatus' = 1 /\ UNCHANGED deleted
     ELSE /\ exitStatus' = IF Condemned(sift', job) THEN 90 ELSE status
          /\ deleted' = (exitStatus' = 90 /\ gPathname(job.args) # NoFile)

(* Mutants of Dump: the status of the compiler is forgotten; the panic path *)
(* waits before it drains.                                                  *)
DumpForgets ==
  /\ pc = "dump"
  /\ Judged(used - ArgsLen, 0)
  /\ pc' = IF sift'.aborted THEN "exit" ELSE IF panicked THEN "drain" ELSE "report"
  /\ UNCHANGED <<job, procs, used, alloc, dumpCmd, panicked, passed>>

DumpThenWait ==
  /\ pc = "dump"
  /\ Judged(used - ArgsLen, exitStatus)
  /\ pc' = IF sift'.aborted THEN "exit" ELSE IF panicked THEN "wait" ELSE "report"
  /\ UNCHANGED <<job, procs, used, alloc, dumpCmd, panicked, passed>>

(* DumpFormattedOutput.  A fatal error leaves ccdv from within siftWarnMain.*)
(* (gNewCcdv is 1 in every run: the other way of printing is not reached.)  *)
Dump ==
  /\ pc = "dump"
  /\ Judged(used - ArgsLen, exitStatus)
  /\ pc' = IF sift'.aborted THEN "exit" ELSE IF panicked THEN "drain" ELSE "report"
  /\ UNCHANGED <<job, procs, used, alloc, dumpCmd, panicked, passed>>

(* The text of the errors is kept for a script: it is read from the buffer  *)
(* Dump has freed, which may fault.                                         *)
Report ==
  /\ pc = "report"
  /\ \/ pc' = "exit"
     \/ exitStatus = 90 /\ sift.sources # <<>> /\ pc' = "crashed"
  /\ UNCHANGED <<job, procs, ours>>

(* Mutant of Drain: the rest of the output is thrown away.                  *)
DrainSilently ==
  /\ pc = "drain"
  /\ IF pipe > 0 THEN pipe' = 0 /\ UNCHANGED pc ELSE EndOfFile /\ pc' = "wait" /\ UNCHANGED pipe
  /\ UNCHANGED <<job, child, code, heir, left, written, used, alloc, exitStatus, dumpCmd,
                 panicked, outcome>>

(* The panic label passes the rest of the output on and waits.              *)
Drain ==
  /\ pc = "drain"
  /\ IF pipe > 0
     THEN passed' = passed + pipe /\ pipe' = 0 /\ UNCHANGED pc
     ELSE EndOfFile /\ pc' = "wait" /\ UNCHANGED <<passed, pipe>>
  /\ UNCHANGED <<job, child, code, heir, left, written, used, alloc, exitStatus, dumpCmd,
                 panicked, judged, sift, cmdPrinted, deleted>>
-----------------------------------------------------------------------------
Compiler == Write \/ Spawn \/ Finish \/ Killed \/ HeirEnds

Driver == Fork \/ Malloc \/ Grow \/ Panic \/ Read \/ SlurpEnd \/ Wait \/ Verdict \/ Dump \/ Report \/ Drain

Next == Compiler \/ Driver

Spec == Init /\ [][Next]_vars

(* ccdv runs whenever it can; the compiler writes when there is room and    *)
(* ends when it has written everything.                                     *)
FairSpec == Spec /\ WF_vars(Driver) /\ WF_vars(Write) /\ WF_vars(Finish) /\ WF_vars(HeirEnds)
-----------------------------------------------------------------------------
(* The terminating NUL of the buffer lies inside it (ccdv.c:222, 266, 280). *)
RoomForNul == pc = "slurp" => used < alloc

(* What the output says, read without the patterns' order: an error is one  *)
(* whatever the pattern file suppresses.                                    *)
Mentions(n, words) == \E w \in ToSet(job.lines[n].text) : w \in words

Errors == {n \in 1..LinesIn(Units(job)) : Mentions(n, {"error:", "Error:"})}

(* The status of a compiler that fails is kept, and its command is shown, in *)
(* the panic path too; a fatal error is one whatever the compiler says.     *)
StatusKept ==
  pc = "exit" /\ child # "none" =>
    /\ code # 0 /\ child = "reaped" => exitStatus # 0 /\ cmdPrinted
    /\ sift.aborted => exitStatus # 0

(* A compiler that fails makes the build fail, and its command is shown, in *)
(* the panic path too (ccdv.c:68-82, 157-158, 300, 709-715), and so does an *)
(* error in its output, which no row of the pattern file hides              *)
(* (sift-warn.c:35-38, 288-309), outside the panic path, which waits for    *)
(* the compiler only after it has judged.                                   *)
ErrorReachesMake ==
  /\ StatusKept
  /\ pc = "exit" /\ ~panicked /\ (\E n \in Errors : n <= LinesIn(judged)) => exitStatus # 0

(* Unless a fatal error ends it, ccdv exits after the end of file, has      *)
(* judged or passed on all that was written, and leaves no zombie.          *)
AllAccounted ==
  pc = "exit" /\ child # "none" /\ ~sift.aborted =>
    judged + passed = written /\ ~heir /\ child = "reaped"

(* Nothing the compiler and its descendants wrote is lost: it is judged or  *)
(* passed on, and every error of what is judged is shown (ccdv.c:266-283,   *)
(* 712-715; sift-warn.c:400-455).                                           *)
OutputShown ==
  /\ AllAccounted
  /\ pc = "exit" /\ ~sift.aborted /\ ~job.silent =>
       \A n \in Errors : n <= LinesIn(judged) => \E k \in DOMAIN sift.shown : sift.shown[k].n = n

(* Where a file really is: where the compiler has found it, or beside one   *)
(* of the modules.                                                          *)
Truths(file) ==
  LET beside == {Named(job.cwd, [file EXCEPT !.parts = m \o @]) : m \in ToSet(job.modules[1]) \cup ToSet(job.modules[2])}
  IN IF Exists(job, file) \/ beside \cap job.files = {} THEN {Named(job.cwd, file)} ELSE beside \cap job.files

(* A name that asks for the parent of the root.                             *)
PastRoot(path) ==
  \E k \in DOMAIN path.parts :
    path.parts[k] = ".." /\ Named(job.cwd, Path(FALSE, SubSeq(path.parts, 1, k - 1), FALSE)) = <<>>

Rewritten(n) ==
  /\ Resolves(job, job.lines[n].file)
  /\ ~(job.resolve = 2 /\ PastRoot(Looked(job, job.lines[n].file)))

(* A path that is printed leads from the directory make was started in to   *)
(* the file the compiler has named, and so does the path of the file an     *)
(* inclusion line says was included: the one of the line before             *)
(* (sift-warn.c:175-245, 442-450, 598-641).  The exception are names that   *)
(* ask for the parent of the root: to the kernel that is the root, but an   *)
(* absolute path loses its "/" to it (sift-warn.c:207-222).                 *)
PathsFromTop ==
  pc = "exit" =>
    \A k \in DOMAIN sift.shown :
      LET told == sift.shown[k]
      IN /\ told.what \in {"line", "info"} /\ Rewritten(told.n) /\ ~(sift.aborted /\ k = Len(sift.shown)) =>
              Named(job.top, told.path) \in Truths(job.lines[told.n].file)
         /\ told.what = "info" /\ Rewritten(sift.shown[k - 1].n) =>
              Named(job.top, told.included) \in Truths(job.lines[sift.shown[k - 1].n].file)

(* What is removed is the object -o names, if the compiler writes one, and  *)
(* never a file the compiler was given (ccdv.c:127-128, 184-189, 498-541).  *)
(* An archiver's members look like sources; a tool whose path holds "ld" is *)
(* taken for a linker.                                                      *)
RemovesOutput ==
  deleted /\ job.args[1].name # "ar" =>
    /\ gPathname(job.args) \notin Operands(job.args, FALSE)
    /\ ~job.args[1].ld => \A file \in Operands(job.args, TRUE) : file.ext \in Objects => gPathname(job.args) = file

(* ccdv ends when the compiler does: it never waits for a compiler that is  *)
(* waiting for room in the pipe (ccdv.c:275-283, 712-714).                 *)
Ends == <>(pc \in {"exit", "crashed"})
=============================================================================
