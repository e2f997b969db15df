---------------------------- MODULE MCBacktrace ----------------------------
(***************************************************************************)
(* The instances of Backtrace: programs of three functions for each        *)
(* architecture, with every prologue and epilogue get_frame_size knows and *)
(* with functions that have none, and stacks of up to four calls.          *)
(***************************************************************************)
EXTENDS Backtrace

Fun(pro, words, push, epi) == [pro |-> pro, words |-> words, push |-> push, epi |-> epi]

X64Programs ==
  {<<Fun("sub8", 1, 1, "leave"), Fun("sub32", 2, 2, "add8"), Fun("sub8", 1, 3, "add32")>>,
   <<Fun("sub8", 2, 1, "add8"), Fun("none", 0, 1, "leave"), Fun("add8", NegWords, 1, "leave")>>,
   <<Fun("sub8", 1, 1, "add32"), Fun("none", 0, 0, "leave"), Fun("sub32", 1, 1, "leave")>>,
   <<Fun("none", 0, 1, "leave"), Fun("none", 0, 1, "leave"), Fun("sub8", 1, 0, "leave")>>}

ArmPrograms ==
  {<<Fun("stp", 2, 0, "ret"), Fun("stp", 3, 0, "ret"), Fun("stp", 4, 0, "ret")>>,
   <<Fun("stp", 2, 0, "ret"), Fun("none", 0, 0, "ret"), Fun("sub", 2, 0, "ret")>>}

Other == [op |-> "other", words |-> 0]
\* The pushes come before the room is made; a stp does both.
PrologueAt(arch, f) == Start(f) + IF arch = "x64" THEN 1 ELSE 0
Code(arch, funs, old) ==
  [arch |-> arch, funs |-> funs, old |-> old,
   op |-> [a \in 1..TextEnd |->
            LET g == funs[FunAt(a)] IN
            CASE a = PrologueAt(arch, FunAt(a)) /\ g.pro # "none" ->
                   [op |-> g.pro, words |-> IF g.pro = "add8" THEN -g.words ELSE g.words]
              [] a = Start(FunAt(a)) + Size - 1 /\ g.epi \in {"add8", "add32", "ret"} ->
                   [op |-> g.epi, words |-> IF g.epi = "ret" THEN 0 ELSE g.words]
              [] OTHER -> Other]]

\* Words that look like nothing, like code nobody is in, like a call.
Olds    == {0, Start(3) + 4, Start(2) + 3}
Codes   == {Code("x64", f, w) : f \in X64Programs, w \in Olds}
             \cup {Code("aarch64", f, w) : f \in ArmPrograms, w \in Olds}
X64(ps) == {p \in ps : p.arch = "x64"}
Plain   == {p \in Codes : Regular(p)}
Call(f, o) == [fun |-> f, off |-> o]
Chain(n) == [1..n -> {Call(1, 2), Call(2, 2), Call(2, 3), Call(3, 2)}]
Chains  == UNION {Chain(n) : n \in 1..3} \cup {c \in Chain(4) : c[1] = Call(1, 2) /\ c[4] = Call(3, 2)}
Twos    == {<<Call(1, 2), Call(2, 2)>>}
Threes  == {<<Call(1, 2), Call(2, 3), Call(3, 2)>>, <<Call(2, 2), Call(2, 2), Call(2, 3)>>}

(* A function without a prologue, on aarch64, has no frame to return by.    *)
Sound(p, c) == p.arch = "x64" \/ \A i \in DOMAIN c : p.funs[c[i].fun].pro # "none" \/ i = Len(c)

With(p, kind, x, y, offs) ==
  {[prog |-> p, how |-> kind, calls |-> [t \in Targets |-> IF t = "x" THEN c ELSE d],
    off |-> [t \in Targets |-> IF t = "x" THEN o ELSE 2]]
     : c \in {e \in x : Sound(p, e)}, d \in y, o \in offs}

(* Where a thread may be: it prints its own stack, and on aarch64 waits,    *)
(* in the body of a function; a signal or an interrupt comes anywhere.      *)
InBodies == {2, 4}
Anywhere(p) == IF p.arch = "x64" THEN {-1, 0, 1, 2, 5} ELSE InBodies

MCCases ==
  UNION {With(p, "self", Chains, Twos, InBodies) : p \in Codes}
    \cup UNION {With(p, k, Threes \cup Twos, Twos, Anywhere(p)) : p \in Plain, k \in {"signal", "driver"}}
    \cup UNION {With(p, "running", Threes, Twos, {2}) : p \in X64(Plain)}
    \cup UNION {With(p, "load", Twos, Twos, {2}) : p \in {q \in X64(Plain) : q.old = 0}}

MCStack  == (101..128) \cup (130..157)     \* a guard page between the two
MCEnd    == [t \in Targets |-> IF t = "x" THEN 129 ELSE 158]
MCVmas   == <<[beg |-> 1, end |-> TextEnd + 1, opt |-> "rx"],
              [beg |-> 101, end |-> 129, opt |-> "rw"], [beg |-> 130, end |-> 158, opt |-> "rw"]>>
=============================================================================
