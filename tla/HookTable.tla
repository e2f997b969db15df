----------------------------- MODULE HookTable -----------------------------
(***************************************************************************)
(* The start-up of the library, which runs as a constructor of the process, *)
(* and the C library functions it takes over: the table of hooks, the      *)
(* wrappers that consult it once and remember what they found, and the     *)
(* print level that decides what the wrappers let through.                 *)
(***************************************************************************)
EXTENDS DbgOutput, TLC, Bisect

CONSTANTS Null, NullFunction

HookingFunc == <<"system", "puts", "vprintf", "vfprintf", "fputs", "pthread_create">>
Alphabet == <<"fputs", "pthread_create", "puts", "system", "vfprintf", "vfputs", "vprintf">>
Place(f) == IF \E i \in DOMAIN Alphabet : Alphabet[i] = f THEN CHOOSE i \in DOMAIN Alphabet : Alphabet[i] = f ELSE 0
HookMax == 30

\* Each wrapper and the entry it looks up.  The two that are checked at run
\* time and take a va_list call vfprintf, and so share its memory.
ToStdout == [printf |-> "vprintf", printf_chk |-> "vprintf", vprintf |-> "vprintf", puts |-> "puts"]
ToStream == [fprintf |-> "vfprintf", fprintf_chk |-> "vfprintf", vfprintf |-> "vfprintf",
             fputs |-> "fputs"]
Wrappers == ToStdout @@ ToStream @@ [pthread_create |-> "pthread_create"]
Checked == [vprintf_chk |-> "vfprintf", vfprintf_chk |-> "vfprintf"]
Callables == DOMAIN Wrappers \cup DOMAIN Checked
Taken == <<"vprintf", "puts", "vfprintf", "vfputs">>

VARIABLES step,       \* the start-up function that runs next
          service,    \* _hook_service_init
          table, order,
          saved,      \* the originals kept by the print hooks
          create,     \* _org_pthread_create
          found,      \* what each wrapper remembers
          stat, cout, time,
          threads,    \* names of the threads that run and are registered
          unlisted,   \* threads that run and are not
          last, calls
hookVars == <<step, service, table, order, saved, create, found, stat, cout, time, threads,
              unlisted, last, calls>>

\* calls is bounded: it counts down from what the run allows.
CountCall == calls > 0 /\ calls' = calls - 1

Libc(f) == [kind |-> "libc", fun |-> f]
New(f)  == [kind |-> "new", fun |-> f]

Entry(f) == [name |-> f, org |-> NullFunction, hook |-> Null]

\* Any subset of the C library's symbols may be missing; resolving stops at
\* the first that is.
Resolved(missing) ==
    LET n == IF Len(HookingFunc) > HookMax THEN HookMax ELSE Len(HookingFunc)
        ok(i) == \A j \in 1..i : HookingFunc[j] \notin missing
    IN  [i \in 1..n |-> IF ok(i) THEN [Entry(HookingFunc[i]) EXCEPT !.org = Libc(HookingFunc[i])]
                        ELSE Entry(HookingFunc[i])]

\* Mutant of SortTable: the table is searched in the order it was filled.
Unsorted(t) == [i \in 1..Len(t) |-> i]

SortTable(t) ==
    SortSeq([i \in 1..Len(t) |-> i], LAMBDA i, j : Place(t[i].name) < Place(t[j].name))

FindItem(t, o, f) ==
    LET Side(x) == Place(f) - Place(t[o[x + 1]].name)
        x == Hit(Len(o), Side)
    IN  IF x < 0 THEN 0 ELSE o[x + 1]

RegHook(t, o, f, p) ==
    LET i == FindItem(t, o, f) IN IF i = 0 THEN t ELSE [t EXCEPT ![i].hook = p]
OrgOf(t, o, f) == LET i == FindItem(t, o, f) IN IF i = 0 THEN Null ELSE t[i].org
HookOf(t, o, f) == LET i == FindItem(t, o, f) IN IF i = 0 THEN Null ELSE t[i].hook

HookInit ==
    /\ step = 1
    /\ service = FALSE
    /\ table = <<>>
    /\ order = <<>>
    /\ saved = [f \in {"vprintf", "puts", "vfprintf", "vfputs"} |-> Null]
    /\ create = Null
    /\ found = [w \in DOMAIN Wrappers |-> Null]
    /\ stat = LvlAll
    /\ cout = TRUE
    /\ time = FALSE
    /\ threads = {}
    /\ unlisted = 0
    /\ last = [fun |-> "none", at |-> 0, stat |-> LvlAll, effect |-> "nothing"]

StartDriver ==
    /\ step = 1
    /\ step' = 2
    /\ UNCHANGED <<service, table, order, saved, create, found, stat, cout, time, threads,
                   unlisted, last, calls>>

\* The table is filled, sorted and resolved, and the print hooks are set
\* even when the service stays down.
BackupHook(t, o) ==
    [i \in DOMAIN t |-> IF t[i].name \in {Taken[k] : k \in DOMAIN Taken}
                           /\ FindItem(t, o, t[i].name) = i
                        THEN [t[i] EXCEPT !.hook = New(t[i].name)] ELSE t[i]]

StartHooks(missing) ==
    LET t == Resolved(missing)
        o == SortTable(t)
    IN  /\ step = 2
        /\ step' = 3
        /\ order' = o
        /\ table' = BackupHook(t, o)
        /\ saved' = [f \in DOMAIN saved |-> OrgOf(t, o, f)]
        /\ service' = \A i \in DOMAIN t : t[i].org # NullFunction
        /\ UNCHANGED <<create, found, stat, cout, time, threads, unlisted, last, calls>>

StartSymbols ==
    /\ step = 3
    /\ step' = 4
    /\ UNCHANGED <<service, table, order, saved, create, found, stat, cout, time, threads,
                   unlisted, last, calls>>

StartThreads ==
    /\ step = 4
    /\ step' = 5
    /\ create' = OrgOf(table, order, "pthread_create")
    /\ table' = RegHook(table, order, "pthread_create", New("pthread_create"))
    /\ UNCHANGED <<service, order, saved, found, stat, cout, time, threads, unlisted, last, calls>>

\* pthread_create_ext goes to the saved original; the thread registers itself.
CreateNamed(name) ==
    threads' = IF create = Libc("pthread_create") THEN threads \cup {name} ELSE threads

StartDebug ==
    /\ step = 5
    /\ step' = 6
    /\ CreateNamed("keyboard")
    /\ UNCHANGED <<service, table, order, saved, create, found, stat, cout, time, unlisted, last,
                   calls>>

StartExcept ==
    /\ step = 6
    /\ step' = 7
    /\ UNCHANGED <<service, table, order, saved, create, found, stat, cout, time, threads,
                   unlisted, last, calls>>

StartComm ==
    /\ step = 7
    /\ step' = 8
    /\ CreateNamed("ipc_comm")
    /\ UNCHANGED <<service, table, order, saved, create, found, stat, cout, time, unlisted, last,
                   calls>>

StartMain ==
    /\ step = 8
    /\ step' = 9
    /\ threads' = threads \cup {"main"}
    /\ UNCHANGED <<service, table, order, saved, create, found, stat, cout, time, unlisted, last,
                   calls>>

\* Code of the application runs in the constructors before this one, and on
\* the keyboard thread and after it.
Runs == step = 1 \/ step > 5

\* What the pointer a wrapper found does.  "vfputs" is not in the table, so
\* that nothing ever stands before fputs.
Does(p) ==
    CASE p = Null                -> "nothing"
      [] p.kind = "libc"         -> IF p.fun = "pthread_create" THEN "unlisted" ELSE "printed"
      [] p = New("pthread_create") -> "listed"
      [] stat # LvlAll           -> "nothing"
      [] p = New("vprintf") /\ time -> "printed"
      [] saved[p.fun] = Libc(p.fun) -> "printed"
      [] OTHER                   -> "nothing"

Pointer(w) ==
    CASE found[w] # Null -> found[w]
      [] HookOf(table, order, Wrappers[w]) # Null -> HookOf(table, order, Wrappers[w])
      [] OTHER -> OrgOf(table, order, Wrappers[w])

\* Before the service is up every wrapper answers 0, which of pthread_create
\* means that the thread was made.
Call(f) ==
    LET w == IF f \in DOMAIN Checked THEN Checked[f] ELSE f
        effect == IF service THEN Does(Pointer(w)) ELSE "nothing"
    IN  /\ Runs
        /\ CountCall
        /\ found' = IF service THEN [found EXCEPT ![w] = Pointer(w)] ELSE found
        /\ last' = [fun |-> f, at |-> step, stat |-> stat, effect |-> effect]
        /\ threads' = IF effect = "listed" THEN threads \cup {"worker"} ELSE threads
        /\ unlisted' = IF effect = "unlisted" THEN unlisted + 1 ELSE unlisted
        /\ UNCHANGED <<step, service, table, order, saved, create, stat, cout, time>>

\* std::cout, whose buffer is exchanged when the level is set.
CallCout ==
    /\ Runs
    /\ CountCall
    /\ last' = [fun |-> "cout", at |-> step, stat |-> stat,
                effect |-> IF cout THEN "printed" ELSE "nothing"]
    /\ UNCHANGED <<step, service, table, order, saved, create, found, stat, cout, time, threads,
                   unlisted>>

\* The library's own output goes to the C library's fprintf and never through
\* a wrapper.
CallDbg(f, fmt) ==
    LET listed == "main" \in threads
        out == DbgVsprint(f, stat, fmt, listed, "main")
    IN  /\ Runs /\ step > 1
        /\ CountCall
        /\ last' = [fun |-> f, at |-> step, stat |-> stat,
                    effect |-> IF out = <<>> THEN "nothing" ELSE out[1].name]
        /\ UNCHANGED <<step, service, table, order, saved, create, found, stat, cout, time,
                       threads, unlisted>>

Clamp(n) == IF n > LvlAll THEN LvlAll ELSE IF n < LvlNon THEN LvlNon ELSE n
SetPrintStat(n) ==
    /\ step = 9 /\ CountCall
    /\ stat' = Clamp(n)
    /\ cout' = (Clamp(n) = LvlAll)
    /\ UNCHANGED <<step, service, table, order, saved, create, found, time, threads, unlisted,
                   last>>

ToggleTime ==
    /\ step = 9 /\ CountCall
    /\ time' = ~time
    /\ UNCHANGED <<step, service, table, order, saved, create, found, stat, cout, threads,
                   unlisted, last>>

HookNext ==
    \/ StartDriver \/ StartSymbols \/ StartThreads \/ StartDebug \/ StartExcept \/ StartComm
    \/ StartMain
    \/ \E m \in {{}} \cup {{HookingFunc[i]} : i \in DOMAIN HookingFunc} : StartHooks(m)
    \/ \E f \in Callables : Call(f)
    \/ CallCout
    \/ \E f \in DOMAIN Printers, fmt \in {"!", "plain", "r", "Y", "z"} : CallDbg(f, fmt)
    \/ \E n \in -1..3 : SetPrintStat(n)
    \/ ToggleTime
=============================================================================
