----------------------------- MODULE Backtrace -----------------------------
(***************************************************************************)
(* Backtraces: dbgModule/arch/backtrace.c and the part of                  *)
(* context_x64.c and context_aarch64.c that gives it a pc and a sp.        *)
(*                                                                         *)
(* A thread may print its own stack; a handler may print the stack of the  *)
(* thread it has interrupted, from the registers it has copied to one      *)
(* structure all threads share; and, where lgdrv is loaded, a thread may   *)
(* read, one by one, the registers the kernel saved when another entered   *)
(* it last, and which may have run on since.  Each frame is one step; the  *)
(* lookups a step makes are answered as one, but the first of a trace      *)
(* through the driver, which takes the driver's steps.                     *)
(*                                                                         *)
(* The program is data: functions of six instructions, one behind the      *)
(* other, the first two its prologue and the last its epilogue.  Words of  *)
(* the stack nobody has written, and the registers a function saves for    *)
(* its caller, hold prog.old, which may look like code.                    *)
(***************************************************************************)
EXTENDS FrameWalk, LgDrv, SequencesExt

CONSTANTS
  Cases,       \* how a behaviour begins: records prog, how, calls and off per target
  Targets,     \* threads with a stack
  Tracer,      \* the thread that asks the driver, one of Callers
  StackEnd,    \* per target: the end of its stack's region
  TraceWords,  \* the size a trace is given, in words
  LogDepth,    \* STACK_LOG_DEPTH
  MaxMoves     \* calls and returns of a target while it is traced

ASSUME TraceConstants ==
  /\ Tracer \in Callers \ Targets
  /\ \E top \in StackAddrs : \A a \in StackAddrs : a <= top
  /\ \A t \in Targets : \E v \in Range(Vmas) :
        v.end = StackEnd[t] /\ \A a \in v.beg..(v.end - 1) : a \in StackAddrs
  /\ \A t, u \in Targets : t # u => StackEnd[t] # StackEnd[u]

VARIABLES
  prog,   \* the program (never changes)
  how,    \* how traces are asked for: not at all ("load"), "self", "signal", by the
          \* "driver" while others use it, by the driver of a thread that is "running"
  mem,    \* the stacks
  stk,    \* per target: sp, pc, and the calls under way, the innermost first
  saved,  \* per target: task_pt_regs, the sp and pc it entered the kernel with last
  ctxt,   \* _ctxt: the last sp and pc a handler has copied
  tr,     \* per tracer: its trace
  pushed, \* per target: the return addresses its calls have left (history)
  raced,  \* a handler copied registers between another's copy and use, or the traced
          \* thread has called or returned since its registers were saved (history)
  moves

trcVars == <<prog, how, mem, stk, saved, ctxt, tr, pushed, raced, moves>>
vars    == <<drvVars, trcVars>>

Size       == 6
Svc        == 2     \* words below the record a svc leaves (8 in the code)
Start(f)   == Size * (f - 1) + 1
FunAt(pc)  == (pc - 1) \div Size + 1
Tracers    == Targets \cup {Tracer}
-----------------------------------------------------------------------------
(* What a call leaves on the stack when the callee has got to its           *)
(* instruction `got`: on x64 the first pushes registers, rbp before the      *)
(* others, the second makes room; words the callee does not write keep what *)
(* they held.  Less than 0: a call through a pointer that leads nowhere.    *)
Push(p, s, f, ra, got) ==
  LET g      == p.funs[f]
      pushes == IF got >= 1 THEN g.push ELSE 0
      room   == IF got >= 2 THEN g.words ELSE 0
      new    == s.sp - (IF p.arch = "x64" THEN 1 + pushes + room
                        ELSE IF g.pro = "sub" THEN 2 + g.words ELSE g.words)
      rec    == IF g.pro = "sub" THEN s.sp - 2 ELSE new
      fp     == IF s.calls = <<>> THEN 0 ELSE s.sp
  IN [mem   |-> [a \in DOMAIN s.mem |->
                  CASE p.arch = "x64" /\ a = s.sp - 1 -> ra
                    [] p.arch = "x64" /\ pushes > 0 /\ a = s.sp - 2 -> s.sp
                    [] p.arch = "x64" /\ a \in (s.sp - 1 - pushes)..(s.sp - 3) -> p.old
                    [] p.arch = "aarch64" /\ g.pro # "none" /\ a = rec -> fp
                    [] p.arch = "aarch64" /\ g.pro # "none" /\ a = rec + 1 -> ra
                    [] OTHER -> s.mem[a]],
      sp    |-> new,
      pc    |-> IF got < 0 THEN 0 ELSE Start(f) + got,
      calls |-> <<[ra |-> ra, sp |-> s.sp]>> \o s.calls]

Body == 2

(* chain: the outermost first, each with the offset it is called at; the    *)
(* innermost has got to `got`.                                             *)
Build(p, m, end, chain, got) ==
  LET b[n \in 0..Len(chain)] ==
        IF n = 0 THEN [mem |-> m, sp |-> end, pc |-> 0, calls |-> <<>>]
        ELSE LET s == b[n - 1]
             IN Push(p, s, chain[n].fun, IF n = 1 THEN 0 ELSE Start(FunAt(s.pc)) + chain[n].off,
                     IF n = Len(chain) THEN got ELSE Body)
  IN b[Len(chain)]

(* A thread of aarch64 waits in a svc, whose record names the frame.        *)
Waiting(p, s) ==
  IF p.arch = "x64" THEN s
  ELSE [s EXCEPT !.mem = [@ EXCEPT ![s.sp - 2] = s.sp, ![s.sp - 1] = s.pc],
                 !.sp = @ - 2 - Svc]

UpperEnd(sp) == IF \E i \in DOMAIN Vmas : Vmas[i].beg <= sp /\ sp < Vmas[i].end
                THEN (CHOOSE v \in Range(Vmas) : v.beg <= sp /\ sp < v.end).end ELSE 0

NoTrace == [at |-> "off", sp |-> 0, pc |-> 0, usl |-> 0, limit |-> 0, kind |-> "print",
            of |-> 0, out |-> <<>>]

Stack(c, t, m) ==
  LET s == Build(c.prog, m, StackEnd[t], c.calls[t], c.off[t])
  IN IF c.how \in {"signal", "driver", "running"} THEN Waiting(c.prog, s) ELSE s

Fresh(p) == [a \in StackAddrs |-> p.old]

(* Functions take up room, and the stacks have room for the calls.          *)
IsProgram(p) ==
  /\ DOMAIN p.funs \subseteq Nat /\ p.old \in Int
  /\ \A f \in DOMAIN p.funs : p.funs[f].push \in Nat /\ p.funs[f].words \in Nat
  /\ \A a \in 1..TextEnd : p.op[a].op \in {"sub8", "sub32"} => p.op[a].words \in Nat

ASSUME CaseConstants ==
  \A c \in Cases :
    /\ IsProgram(c.prog)
    /\ \A t \in Targets :
          /\ c.calls[t] \in Seq([fun : DOMAIN c.prog.funs, off : Nat]) /\ c.off[t] \in Int
          /\ LET sp == Stack(c, t, Fresh(c.prog)).sp IN sp = StackEnd[t] \/ UpperEnd(sp) = StackEnd[t]

(* Every target has its own words of the stacks.                           *)
Init ==
  \E c \in Cases :
    LET s == [t \in Targets |-> Stack(c, t, Fresh(c.prog))]
    IN /\ prog = c.prog /\ how = c.how
       /\ mem = [a \in StackAddrs |->
                   IF \E t \in Targets : UpperEnd(a) = StackEnd[t]
                   THEN s[CHOOSE t \in Targets : UpperEnd(a) = StackEnd[t]].mem[a] ELSE c.prog.old]
       /\ stk = [t \in Targets |-> [sp |-> s[t].sp, pc |-> s[t].pc, calls |-> s[t].calls]]
       /\ saved = [t \in Targets |-> [sp |-> s[t].sp, pc |-> s[t].pc]]
       /\ DrvInit(c.how \in {"driver", "running"})
       /\ ctxt = [sp |-> 0, pc |-> 0]
       /\ tr = [t \in Tracers |-> NoTrace]
       /\ pushed = [t \in Targets |-> {s[t].calls[i].ra : i \in DOMAIN s[t].calls}]
       /\ raced = FALSE /\ moves = 0
-----------------------------------------------------------------------------
TrAt(t, l) == tr[t].at = l
Trace(t, r) == tr' = [tr EXCEPT ![t] = r]

(* stack_trace: the upper end of the stack, a pc that leads nowhere changed  *)
(* to ra, the first line, the limit.                                       *)
Begun(r, sp, pc, ra, usl, kind, of) ==
  [r EXCEPT !.at = "walk", !.sp = sp, !.pc = IF IsPc(pc) THEN pc ELSE ra, !.usl = usl, !.kind = kind, !.of = of,
            !.limit = IF sp + TraceWords >= usl THEN usl ELSE sp + TraceWords]

(* A thread prints its own stack, or logs it.                              *)
TraceSelf(t) ==
  /\ how = "self" /\ t \in Targets /\ TrAt(t, "off")
  /\ \A u \in Targets : TrAt(u, "off")
  /\ \E kind \in {"print", "log", "list"} :
       Trace(t, [Begun(tr[t], stk[t].sp, stk[t].pc, stk[t].pc, UpperEnd(stk[t].sp), kind, t)
                   EXCEPT !.limit = IF kind = "list" THEN Max(StackAddrs) + 1 ELSE @,
                          !.usl   = IF kind = "list" THEN Max(StackAddrs) + 1 ELSE @])
  /\ UNCHANGED <<drvVars, prog, how, mem, stk, saved, ctxt, pushed, raced, moves>>

(* The SIGUSR1 handler: make_registermap copies the registers one by one,   *)
(* get_frame_sig reads them back.                                          *)
CopySp(t) ==
  /\ how = "signal" /\ t \in Targets /\ TrAt(t, "off")
  /\ ctxt' = [ctxt EXCEPT !.sp = stk[t].sp]
  /\ raced' = (raced \/ \E u \in Targets : tr[u].at \in {"pc", "frame"})
  /\ Trace(t, [tr[t] EXCEPT !.at = "pc"])
  /\ UNCHANGED <<drvVars, prog, how, mem, stk, saved, pushed, moves>>

CopyPc(t) ==
  /\ TrAt(t, "pc")
  /\ ctxt' = [ctxt EXCEPT !.pc = stk[t].pc]
  /\ Trace(t, [tr[t] EXCEPT !.at = "frame"])
  /\ UNCHANGED <<drvVars, prog, how, mem, stk, saved, pushed, raced, moves>>

(* On aarch64 what is read is not the interrupted pc and sp, but what the   *)
(* svc saved above sp.                                                     *)
FrameOf(p, m, sp, pc) ==
  IF p.arch = "x64" THEN [sp |-> sp, pc |-> pc]
  ELSE [sp |-> m[sp + Svc], pc |-> m[sp + Svc + 1]]

get_frame_sig(t) ==
  /\ TrAt(t, "frame")
  /\ LET f == FrameOf(prog, mem, ctxt.sp, ctxt.pc)
     IN Trace(t, Begun(tr[t], f.sp, f.pc, ctxt.pc, UpperEnd(f.sp), "print", t))
  /\ UNCHANGED <<drvVars, prog, how, mem, stk, saved, ctxt, pushed, raced, moves>>
-----------------------------------------------------------------------------
Current(t) == [sp |-> stk[t].sp, pc |-> stk[t].pc]

(* The ioctl, under its lock and the read lock of the task list: a thread  *)
(* that has ended is not found, and the printk reads through NULL.  Then   *)
(* build_context_frame takes the pc,                                       *)
lgdrv_ioctl(t) ==
  /\ how \in {"driver", "running"} /\ TrAt(Tracer, "off")
  /\ IF stk[t].calls = <<>> THEN Trace(Tracer, [tr[Tracer] EXCEPT !.at = "fault"])
     ELSE Trace(Tracer, [tr[Tracer] EXCEPT !.at = "regs", !.pc = saved[t].pc, !.of = t])
  /\ raced' = (raced \/ saved[t] # Current(t))
  /\ UNCHANGED <<drvVars, prog, how, mem, stk, saved, ctxt, pushed, moves>>

(* and then the sp.                                                        *)
build_context_frame ==
  /\ TrAt(Tracer, "regs")
  /\ LET f == FrameOf(prog, mem, saved[tr[Tracer].of].sp, tr[Tracer].pc)
     IN Trace(Tracer, [tr[Tracer] EXCEPT !.at = "ask", !.sp = f.sp, !.pc = f.pc])
  /\ UNCHANGED <<drvVars, prog, how, mem, stk, saved, ctxt, pushed, raced, moves>>

(* getRegionEntry of sp, by the driver.  Without it RegionMap answers.       *)
AskRegion ==
  /\ TrAt(Tracer, "ask")
  /\ lgdrv_llseek(Tracer, tr[Tracer].sp)
  /\ Trace(Tracer, [tr[Tracer] EXCEPT !.at = "asked"])
  /\ UNCHANGED <<prog, how, mem, stk, saved, ctxt, pushed, raced, moves>>

stack_trace ==
  /\ TrAt(Tracer, "asked") /\ at[Tracer] = "back"
  /\ LET r == tr[Tracer]
     IN Trace(Tracer, Begun(r, r.sp, r.pc, prog.old, answer[Tracer].end, "print", r.of))
  /\ UNCHANGED <<drvVars, prog, how, mem, stk, saved, ctxt, pushed, raced, moves>>

(* One turn of the loop of stack_trace, or of log_stack.                   *)
Walk(t) ==
  /\ TrAt(t, "walk")
  /\ LET r == tr[t]
         f == get_frame_size(prog, mem, r.sp, r.usl, r.pc)
         full == r.kind # "print" /\ Len(r.out) = LogDepth
         more == [r EXCEPT !.sp = @ + f.words, !.pc = f.ra,
                           !.out = Append(@, IF r.kind = "print" THEN f.ra ELSE r.pc),
                           !.at = IF r.sp + f.words < r.limit THEN "walk" ELSE "done"]
     IN Trace(t, IF f.words = 0 \/ full THEN [r EXCEPT !.at = "done"] ELSE more)
  /\ UNCHANGED <<drvVars, prog, how, mem, stk, saved, ctxt, pushed, raced, moves>>
-----------------------------------------------------------------------------
(* The traced thread runs: it calls, it returns, and it enters the kernel,  *)
(* for itself or for an interrupt (once its registers have been read, that *)
(* makes no difference any more).                                          *)
Runs(t) ==
  /\ how = "running" /\ prog.arch = "x64" /\ tr[Tracer].at \notin {"done", "fault"}
  /\ stk[t].calls # <<>>

MovesOn(t) ==
  /\ Runs(t) /\ moves < MaxMoves
  /\ moves' = moves + 1
  /\ raced' = (raced \/ (tr[Tracer].at # "off" /\ tr[Tracer].of = t))

TargetCalls(t, f, off) ==
  /\ MovesOn(t)
  /\ LET s == Push(prog, [mem |-> mem, sp |-> stk[t].sp, pc |-> stk[t].pc, calls |-> stk[t].calls],
                   f, Start(FunAt(stk[t].pc)) + off, Body)
     IN /\ UpperEnd(s.sp) = StackEnd[t]
        /\ mem' = s.mem
        /\ stk' = [stk EXCEPT ![t] = [sp |-> s.sp, pc |-> s.pc, calls |-> s.calls]]
        /\ pushed' = [pushed EXCEPT ![t] = @ \cup {s.calls[1].ra}]
  /\ UNCHANGED <<drvVars, prog, how, saved, ctxt, tr>>

(* The last return ends the thread.                                        *)
TargetReturns(t) ==
  /\ MovesOn(t)
  /\ stk' = [stk EXCEPT ![t] = [sp |-> Head(@.calls).sp, pc |-> Head(@.calls).ra,
                                calls |-> Tail(@.calls)]]
  /\ UNCHANGED <<drvVars, prog, how, mem, saved, ctxt, tr, pushed>>

EntersKernel(t) ==
  /\ Runs(t) /\ tr[Tracer].at \in {"off", "regs"}
  /\ saved' = [saved EXCEPT ![t] = Current(t)]
  /\ UNCHANGED <<drvVars, prog, how, mem, stk, ctxt, tr, pushed, raced, moves>>

OtherAsks == \E t \in {u \in Callers : u # Tracer \/ how = "load"}, a \in {Min(StackAddrs), Max(StackAddrs) + 1} :
               lgdrv_llseek(t, a)

Driver == ((how # "running" /\ OtherAsks) \/ \E t \in Callers : DrvStep(t)) /\ UNCHANGED trcVars

Next ==
  \/ how = "load" /\ Loading /\ UNCHANGED trcVars
  \/ how \in {"load", "driver", "running"} /\ Driver
  \/ \E t \in Targets : TraceSelf(t) \/ CopySp(t) \/ CopyPc(t) \/ get_frame_sig(t) \/ lgdrv_ioctl(t)
  \/ build_context_frame \/ AskRegion \/ stack_trace
  \/ \E t \in Tracers : Walk(t)
  \/ \E t \in Targets : TargetReturns(t) \/ EntersKernel(t)
  \/ \E t \in Targets, f \in DOMAIN prog.funs, off \in {2, 3} : TargetCalls(t, f, off)

Spec == Init /\ [][Next]_vars
-----------------------------------------------------------------------------
RealCalls(t) == LET Real(a) == a # 0
                IN SelectSeq([i \in DOMAIN stk[t].calls |-> stk[t].calls[i].ra], Real)

(* On x64 a recursion that calls itself from one place looks like one call. *)
Merged(pc, ras) ==
  LET Add(out, a) == IF a = Last(out) THEN out ELSE Append(out, a)
  IN IF prog.arch = "x64" THEN Tail(FoldLeft(Add, <<pc>>, ras)) ELSE ras

InOrder(out, ras) ==
  \E pick \in [DOMAIN out -> DOMAIN ras] :
    /\ \A i \in DOMAIN out : out[i] = ras[pick[i]]
    /\ \A i, j \in DOMAIN out : i < j => pick[i] < pick[j]

(* Functions compiled as get_frame_size expects them.                      *)
Regular(p) == \A f \in DOMAIN p.funs :
  p.funs[f].pro # "none" /\ (p.arch = "x64" => p.funs[f].push > 0) /\ (p.arch # "x64" => p.funs[f].pro = "stp")
InBody(pc) == Start(FunAt(pc)) + Body <= pc /\ pc < Start(FunAt(pc)) + Size - 1

(* Where the words the scan of x64 passes over may look like code, the      *)
(* chain is sure only while it passes over none: neither registers saved   *)
(* below rbp, nor, behind a return address it takes for the same call, the *)
(* locals of the next frame.                                               *)
NothingStale(pc, ras) ==
  IsPc(prog.old) => Merged(pc, ras) = ras /\ \A f \in DOMAIN prog.funs : prog.funs[f].push <= 2

(* A backtrace of a thread that stands still (of itself, by its handler or  *)
(* through the driver, since its registers were saved), in the body of a    *)
(* program whose functions have the prologues get_frame_size looks for,     *)
(* prints the calls under way, the innermost first (on x64 a recursion from *)
(* one place as one), up to the limit; a log has the same pcs.  Where a     *)
(* function has no prologue, or has not executed it, or stale words that    *)
(* look like code come in the way of the scan, calls may be missing, but    *)
(* none is reordered, and none invented but those stale words.              *)
TraceIsChain ==
  \A t \in Tracers : TrAt(t, "done") /\ ~raced =>
    LET r     == tr[t]
        pc    == stk[r.of].pc
        calls == RealCalls(r.of)
        ras   == Merged(pc, calls)
        log   == <<pc>> \o ras
        Fresher(a) == a # prog.old
    IN IF Regular(prog) /\ InBody(pc) /\ NothingStale(pc, calls)
       THEN IF r.kind = "print"
            THEN r.out = ras \/ (IsPrefix(r.out, ras) /\ r.sp >= r.limit)
            ELSE r.out = SubSeq(log, 1, Min({Len(ras), LogDepth}))
       ELSE \/ prog.arch # "x64" /\ \E f \in DOMAIN prog.funs : prog.funs[f].pro = "sub"
            \/ InOrder(SelectSeq(r.out, Fresher), IF r.kind = "print" THEN calls ELSE <<pc>> \o calls)

(* A trace through the driver of a thread that runs on prints calls that    *)
(* have long returned: its registers may be stale, the pc of one moment and *)
(* the sp of another, and its stack changes under the walk.  But it stays   *)
(* on the stack of the thread asked about: every address printed was left   *)
(* there by a call of that thread, or before those by code that has run on  *)
(* the stack, and is neither a saved frame pointer nor another's.           *)
TraceKeepsToStack ==
  LET r == tr[Tracer]
  IN /\ \A i \in DOMAIN r.out : r.out[i] \in pushed[r.of] \cup {prog.old}
     /\ r.at \in {"walk", "done"} => UpperEnd(r.sp) = StackEnd[r.of]

(* The driver gives a thread the region of the address that thread asked    *)
(* for, never the answer to another's question, although all answers stand  *)
(* in one list.  It finds nothing, or faults, only where two threads were   *)
(* in the unlocked list at once, the one that initialises it counted, or    *)
(* one came before the list was initialised.                               *)
AnswersAreOwn ==
  \A t \in Callers :
    /\ at[t] = "back" /\ answer[t] # NoReg => answer[t].beg <= asked[t] /\ asked[t] < answer[t].end
    /\ at[t] = "back" /\ answer[t] = NoReg =>
         mixed \/ ~\E i \in DOMAIN Vmas : Vmas[i].beg <= asked[t] /\ asked[t] < Vmas[i].end
    /\ at[t] = "fault" => mixed \/ t \in early

(* Loading that fails, and unloading, give back everything the kernel held, *)
(* and never a part before those that rest on it.                          *)
GivenBackInOrder ==
  /\ step = "out" => held = <<>>
  /\ IsPrefix(held, Parts)
=============================================================================
