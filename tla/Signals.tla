------------------------------- MODULE Signals -------------------------------
(***************************************************************************)
(* The signal table of dbgModule/thread/signal.c, the handlers the library *)
(* registers in it, and the kernel dispositions they are installed with.   *)
(*                                                                         *)
(* Every installer passes SA_ONESHOT: the kernel puts the disposition back *)
(* to the default when it delivers the signal, and _signal_handler installs*)
(* it again only after the registered handler has returned.  Most of the   *)
(* properties are about the window in between.                             *)
(*                                                                         *)
(* A thread's control is a stack of activations: a handler the kernel      *)
(* pushed, or a call of register_signal made by the application or by the  *)
(* debugger shell.  Only the top activation runs.                          *)
(***************************************************************************)
EXTENDS Naturals, Sequences, FiniteSets

CONSTANTS
  Threads,        \* threads of the process
  Main,           \* the thread group leader
  Children,       \* child processes of the application
  ExcSig,         \* the SIG_EXCEPT rows of _sigTbl: "SEGV", "BUS", ...
  MayUnregister,  \* signals the embedding program passes to (un)register_signal
  Garbage,        \* values the uninitialised sa_mask of an installer may hold
  MaxNest,        \* bound: activations on one stack
  MaxFaults,      \* bound: synchronous faults in a behaviour
  MaxRequests     \* bound: register_signal calls after start-up

Sig == ExcSig \cup {"INT", "CHLD", "USR1"}

ASSUME SignalConstants ==
  /\ Main \in Threads
  /\ ExcSig \cap {"INT", "CHLD", "USR1"} = {}
  /\ MayUnregister \subseteq Sig
  /\ Garbage \subseteq SUBSET Sig
  /\ MaxNest \in Nat /\ MaxFaults \in Nat /\ MaxRequests \in Nat

Handlers == {"null", "exc", "sigint", "reap", "bt"}

(* What init_except, init_comm, init_thread_system and the backtrace command *)
(* register for each signal.                                                 *)
HandlerOf(s) == CASE s = "INT"  -> "sigint"
                  [] s = "CHLD" -> "reap"
                  [] s = "USR1" -> "bt"
                  [] OTHER      -> "exc"

NoTarget == "no-target"

ASSUME NoTargetIsNoThread == NoTarget \notin Threads

VARIABLES
  handler,   \* _sigTbl[s].p_handler
  disp,      \* kernel disposition: hooked (else SIG_DFL) and sa_mask
  stack,     \* per thread, its activations
  tpend,     \* per thread, signals pending for that thread
  ppend,     \* signals pending for the process
  child,     \* state of each child process
  missed,    \* children whose SIGCHLD the kernel discarded (history)
  proc,      \* "run", or how the process ended
  faults,    \* faults so far (bounded)
  requests   \* register_signal calls so far (bounded)

vars == <<handler, disp, stack, tpend, ppend, child, missed, proc, faults, requests>>

Activation ==
  [kind: {"handler", "register"}, sig: Sig, h: Handlers,
   at: {"entry", "call", "body", "rearm", "write", "install", "kill"},
   mask: SUBSET Sig, target: Threads \cup {NoTarget}]

TypeOK ==
  /\ handler \in [Sig -> Handlers]
  /\ disp \in [Sig -> [hooked: BOOLEAN, mask: SUBSET Sig]]
  /\ stack \in [Threads -> Seq(Activation)]
  /\ tpend \in [Threads -> SUBSET Sig]
  /\ ppend \in SUBSET Sig
  /\ child \in [Children -> {"none", "alive", "zombie", "reaped"}]
  /\ missed \in SUBSET Children
  /\ proc \in {"run", "killed", "exited"}
  /\ faults \in Nat /\ requests \in Nat

-----------------------------------------------------------------------------
Busy(t)    == stack[t] # <<>>
Top(t)     == stack[t][Len(stack[t])]
Push(t, a) == stack' = [stack EXCEPT ![t] = Append(@, a)]
Pop(t)     == stack' = [stack EXCEPT ![t] = SubSeq(@, 1, Len(@) - 1)]
Goto(t, l) == stack' = [stack EXCEPT ![t][Len(stack[t])].at = l]
Runs(t, k, l) == proc = "run" /\ Busy(t) /\ Top(t).kind = k /\ Top(t).at = l

Blocked(t) == UNION {stack[t][i].mask : i \in DOMAIN stack[t]}

(* The sa_mask an installer passes.  The stack-switching variants fill it in *)
(* for SIGSEGV and SIGUSR1; every other installer leaves the field of its    *)
(* local struct sigaction uninitialised.                                     *)
Masks(s) == IF s \in {"SEGV", "USR1"} THEN {{s}} ELSE Garbage

Default == [hooked |-> FALSE, mask |-> {}]

Install(s) == \E m \in Masks(s) : disp' = [disp EXCEPT ![s] = [hooked |-> TRUE, mask |-> m]]

Init ==
  /\ handler = [s \in Sig |-> IF s = "USR1" THEN "null" ELSE HandlerOf(s)]
  /\ disp \in [Sig -> [hooked: BOOLEAN, mask: UNION {Masks(s) : s \in Sig} \cup {{}}]]
  /\ \A s \in Sig : IF s = "USR1" THEN disp[s] = Default
                    ELSE disp[s].hooked /\ disp[s].mask \in Masks(s)
  /\ stack = [t \in Threads |-> <<>>]
  /\ tpend = [t \in Threads |-> {}]
  /\ ppend = {}
  /\ child = [c \in Children |-> "none"]
  /\ missed = {}
  /\ proc = "run"
  /\ faults = 0
  /\ requests = 0
-----------------------------------------------------------------------------
(* The kernel.                                                             *)

HandlerActivation(s) ==
  [kind |-> "handler", sig |-> s, h |-> handler[s], at |-> "entry",
   mask |-> disp[s].mask, target |-> NoTarget]

(* Mutant of Enter: no SA_ONESHOT.                                          *)
EnterStaysHooked(t, s) ==
  /\ disp[s].hooked
  /\ Len(stack[t]) < MaxNest
  /\ Push(t, HandlerActivation(s))
  /\ UNCHANGED <<disp, proc, missed>>

(* Delivery to a hooked signal resets the disposition (SA_ONESHOT) and     *)
(* enters _signal_handler on thread t.                                     *)
Enter(t, s) ==
  /\ disp[s].hooked
  /\ Len(stack[t]) < MaxNest
  /\ disp' = [disp EXCEPT ![s] = Default]
  /\ Push(t, HandlerActivation(s))
  /\ UNCHANGED <<proc, missed>>

Zombies == {c \in Children : child[c] = "zombie"}

(* The default action: SIGCHLD is ignored, the others end the process.      *)
DefaultAction(s) ==
  /\ ~disp[s].hooked
  /\ proc' = IF s = "CHLD" THEN proc ELSE "killed"
  /\ missed' = IF s = "CHLD" THEN missed \cup Zombies ELSE missed
  /\ UNCHANGED <<disp, stack>>

Deliver(t, s) ==
  /\ proc = "run"
  /\ s \notin Blocked(t)
  /\ \/ /\ s \in tpend[t]
        /\ tpend' = [tpend EXCEPT ![t] = @ \ {s}]
        /\ UNCHANGED ppend
     \/ /\ s \in ppend
        /\ ppend' = ppend \ {s}
        /\ UNCHANGED tpend
  /\ Enter(t, s) \/ DefaultAction(s)
  /\ UNCHANGED <<handler, child, faults, requests>>

(* A synchronous fault cannot wait: a blocked or unhooked one kills.        *)
Fault(t, s) ==
  /\ proc = "run"
  /\ s \in ExcSig
  /\ faults < MaxFaults
  /\ faults' = faults + 1
  /\ \/ s \notin Blocked(t) /\ Enter(t, s)
     \/ /\ s \in Blocked(t) \/ ~disp[s].hooked
        /\ proc' = "killed"
        /\ UNCHANGED <<disp, stack, missed>>
  /\ UNCHANGED <<handler, tpend, ppend, child, requests>>

Fork(c) ==
  /\ proc = "run"
  /\ child[c] = "none"
  /\ child' = [child EXCEPT ![c] = "alive"]
  /\ UNCHANGED <<handler, disp, stack, tpend, ppend, missed, proc, faults, requests>>

(* A SIGCHLD generated while its disposition is the default one is thrown   *)
(* away, unless the group leader blocks it.                                 *)
ChildExit(c) ==
  /\ proc = "run"
  /\ child[c] = "alive"
  /\ child' = [child EXCEPT ![c] = "zombie"]
  /\ IF disp["CHLD"].hooked \/ "CHLD" \in Blocked(Main)
     THEN ppend' = ppend \cup {"CHLD"} /\ UNCHANGED missed
     ELSE missed' = missed \cup {c} /\ UNCHANGED ppend
  /\ UNCHANGED <<handler, disp, stack, tpend, proc, faults, requests>>

(* The user presses ^C. *)
Interrupt ==
  /\ proc = "run"
  /\ "INT" \notin ppend
  /\ ppend' = ppend \cup {"INT"}
  /\ UNCHANGED <<handler, disp, stack, tpend, child, missed, proc, faults, requests>>
-----------------------------------------------------------------------------
(* _signal_handler.                                                        *)

Rest == <<tpend, ppend, child, missed, proc, faults, requests>>

(* The call of p_handler, as the row has it then: _null_handler does        *)
(* nothing, and the signal is installed again like after any other.        *)
Called(t) ==
  LET h == handler[Top(t).sig]
  IN stack' = [stack EXCEPT ![t][Len(stack[t])] =
                 [Top(t) EXCEPT !.at = IF h = "null" THEN "rearm" ELSE "body", !.h = h]]

(* Find the row: a _null_handler is neither called nor installed again. The *)
(* call reads the row a second time, which is a step of its own where the   *)
(* row may change to _null_handler in between.                             *)
Dispatch(t) ==
  /\ Runs(t, "handler", "entry")
  /\ \/ handler[Top(t).sig] = "null" /\ Pop(t)
     \/ handler[Top(t).sig] # "null" /\ Top(t).sig \in MayUnregister /\ Goto(t, "call")
     \/ handler[Top(t).sig] # "null" /\ Top(t).sig \notin MayUnregister /\ Called(t)
  /\ UNCHANGED <<handler, disp>> /\ UNCHANGED Rest

CallHandler(t) ==
  /\ Runs(t, "handler", "call")
  /\ Called(t)
  /\ UNCHANGED <<handler, disp>> /\ UNCHANGED Rest

(* Mutant of Reap: a single waitpid for every SIGCHLD.                      *)
ReapOne(t) ==
  /\ Runs(t, "handler", "body")
  /\ Top(t).h = "reap"
  /\ IF Zombies = {} THEN UNCHANGED child
     ELSE \E c \in Zombies : child' = [child EXCEPT ![c] = "reaped"]
  /\ Goto(t, "rearm")
  /\ UNCHANGED <<handler, disp, tpend, ppend, missed, proc, faults, requests>>

(* _sigchld_handler: one waitpid that collects a child, or the last one.    *)
Reap(t) ==
  /\ Runs(t, "handler", "body")
  /\ Top(t).h = "reap"
  /\ \/ /\ \E c \in Zombies : child' = [child EXCEPT ![c] = "reaped"]
        /\ UNCHANGED stack
     \/ /\ Zombies = {}
        /\ Goto(t, "rearm")
        /\ UNCHANGED child
  /\ UNCHANGED <<handler, disp, tpend, ppend, missed, proc, faults, requests>>

(* _usr1_cmd_handler prints its backtrace and returns.                      *)
Backtrace(t) ==
  /\ Runs(t, "handler", "body")
  /\ Top(t).h = "bt"
  /\ Goto(t, "rearm")
  /\ UNCHANGED <<handler, disp>> /\ UNCHANGED Rest

(* _sigint_handler ends in exit(0); _exception_handler never returns.       *)
Exit(t) ==
  /\ Runs(t, "handler", "body")
  /\ Top(t).h = "sigint"
  /\ proc' = "exited"
  /\ UNCHANGED <<handler, disp, stack, tpend, ppend, child, missed, faults, requests>>

(* Mutant of Rearm: the handler is not installed again.                     *)
RearmNever(t) ==
  /\ Runs(t, "handler", "rearm")
  /\ Pop(t)
  /\ UNCHANGED <<handler, disp>> /\ UNCHANGED Rest

(* p_install after the handler has returned.                                *)
Rearm(t) ==
  /\ Runs(t, "handler", "rearm")
  /\ Install(Top(t).sig)
  /\ Pop(t)
  /\ UNCHANGED handler /\ UNCHANGED Rest
-----------------------------------------------------------------------------
(* register_signal, unregister_signal and get_signal_backtrace.            *)

(* Calls are made by ordinary code or by the shell an exception started.    *)
MayCall(t) == proc = "run" /\ (Busy(t) => (Top(t).at = "body" /\ Top(t).h = "exc"))

Call(t, s, h, target) ==
  /\ MayCall(t)
  /\ Len(stack[t]) < MaxNest
  /\ requests < MaxRequests
  /\ requests' = requests + 1
  /\ Push(t, [kind |-> "register", sig |-> s, h |-> h, at |-> "write",
              mask |-> {}, target |-> target])
  /\ UNCHANGED <<handler, disp, tpend, ppend, child, missed, proc, faults>>

RegisterSignal(t, s)   == s \in MayUnregister /\ Call(t, s, HandlerOf(s), NoTarget)
UnregisterSignal(t, s) == s \in MayUnregister /\ Call(t, s, "null", NoTarget)
GetSignalBacktrace(t, u) == t # u /\ Call(t, "USR1", "bt", u)

WriteTable(t) ==
  /\ Runs(t, "register", "write")
  /\ handler' = [handler EXCEPT ![Top(t).sig] = Top(t).h]
  /\ Goto(t, "install")
  /\ UNCHANGED disp /\ UNCHANGED Rest

(* Mutant of InstallTable: the test for the null handler is inverted.       *)
InstallInverted(t) ==
  /\ Runs(t, "register", "install")
  /\ IF handler[Top(t).sig] # "null" THEN UNCHANGED disp ELSE Install(Top(t).sig)
  /\ IF Top(t).target = NoTarget THEN Pop(t) ELSE Goto(t, "kill")
  /\ UNCHANGED handler /\ UNCHANGED Rest

InstallTable(t) ==
  /\ Runs(t, "register", "install")
  /\ IF handler[Top(t).sig] = "null" THEN UNCHANGED disp ELSE Install(Top(t).sig)
  /\ IF Top(t).target = NoTarget THEN Pop(t) ELSE Goto(t, "kill")
  /\ UNCHANGED handler /\ UNCHANGED Rest

(* pthread_kill(thId, SIGUSR1); the 50 ms that follow are not a guarantee.   *)
Kill(t) ==
  /\ Runs(t, "register", "kill")
  /\ tpend' = [tpend EXCEPT ![Top(t).target] = @ \cup {"USR1"}]
  /\ Pop(t)
  /\ UNCHANGED <<handler, disp, ppend, child, missed, proc, faults, requests>>
-----------------------------------------------------------------------------
HandlerStep(t) == Dispatch(t) \/ CallHandler(t) \/ Reap(t) \/ Backtrace(t) \/ Exit(t) \/ Rearm(t)
CallStep(t)    == WriteTable(t) \/ InstallTable(t) \/ Kill(t)

Next ==
  \/ \E t \in Threads : HandlerStep(t) \/ CallStep(t)
  \/ \E t \in Threads, s \in Sig :
       \/ Deliver(t, s) \/ Fault(t, s)
       \/ RegisterSignal(t, s) \/ UnregisterSignal(t, s)
  \/ \E t, u \in Threads : GetSignalBacktrace(t, u)
  \/ \E c \in Children : Fork(c) \/ ChildExit(c)
  \/ Interrupt

Spec == Init /\ [][Next]_vars

(* The kernel delivers a pending signal to a thread that does not block it, *)
(* and runs every thread: weak fairness of delivery and of handler steps.   *)
FairSpec ==
  /\ Spec
  /\ \A t \in Threads : WF_vars(HandlerStep(t)) /\ WF_vars(CallStep(t))
  /\ \A s \in Sig : WF_vars(\E t \in Threads : Deliver(t, s))
-----------------------------------------------------------------------------
(* A handler of s, or a register_signal call for s that has not installed   *)
(* yet, is under way.                                                       *)
Active(s) == \E t \in Threads : \E i \in DOMAIN stack[t] :
               stack[t][i].sig = s /\ stack[t][i].at # "kill"

(* The one-shot disposition is always restored: a signal with a registered  *)
(* handler is hooked, or some thread is in a handler or a register_signal   *)
(* call for it that will install it again (signal.c:107-111, 225-227).      *)
Armed ==
  \A s \in Sig : proc = "run" /\ handler[s] # "null" /\ ~Active(s) => disp[s].hooked

(* The window bites at most where it is known to: a signal, pending or a    *)
(* fault, ends the process only while a handler or a registration of that   *)
(* same signal is under way, after it was unregistered (signal.c:107 leaves *)
(* it one-shot), or, a fault, where a handler blocks it.                    *)
KilledOnlyInWindow ==
  [][proc = "run" /\ proc' = "killed" =>
       \E s \in Sig \ {"CHLD"} :
         /\ s \in ExcSig \/ s \in ppend \/ \E t \in Threads : s \in tpend[t]
         /\ \/ ~disp[s].hooked /\ (Active(s) \/ (s \in MayUnregister /\ handler[s] = "null"))
            \/ s \in ExcSig /\ \E t \in Threads : s \in Blocked(t)]_vars

(* An exception signal starts at most one debugger shell: its handler never *)
(* returns, so it is never armed again (exception_handler.c:109-114).       *)
InShell(t, i, s) == /\ i \in DOMAIN stack[t]
                    /\ stack[t][i].kind = "handler" /\ stack[t][i].sig = s

OneShellPerException ==
  \A s \in ExcSig \ MayUnregister, t, u \in Threads, i, j \in 1..MaxNest :
    InShell(t, i, s) /\ InShell(u, j, s) => t = u /\ i = j

(* A child that exits is collected, unless its SIGCHLD was discarded        *)
(* between the last waitpid of _sigchld_handler and the re-installation     *)
(* (threadlib.c:271, signal.c:109-110), or a fault has stopped a thread in  *)
(* the debugger shell for good, with the reaper perhaps below it.           *)
ShellOpen == \E t \in Threads : \E i \in DOMAIN stack[t] :
               stack[t][i].kind = "handler" /\ stack[t][i].sig \in ExcSig

ReapedUnlessMissed ==
  \A c \in Children :
    child[c] = "zombie" ~> child[c] = "reaped" \/ c \in missed \/ ShellOpen \/ proc # "run"
=============================================================================
