----------------------------- MODULE FrameWalk -----------------------------
(***************************************************************************)
(* How one stack frame is found without debugging information:             *)
(* get_frame_size of dbgModule/arch/x64/get_frame.c and of                 *)
(* dbgModule/arch/aarch64/get_frame.c, as functions of the memory.         *)
(*                                                                         *)
(* A program is a record: arch, and op, the instruction at each address of *)
(* its text.  Text is 1..TextEnd; a stack is an interval of word addresses *)
(* above it.  An instruction that moves the stack pointer carries the      *)
(* number of words it moves it by.                                         *)
(***************************************************************************)
EXTENDS Integers, FiniteSetsExt

CONSTANTS
  TextEnd,    \* the last address of the text
  StackAddrs, \* the addresses that are mapped as stacks
  BackLimit   \* instructions looked at behind the pc (10000 and 1000 in the code)

ASSUME WalkConstants ==
  /\ TextEnd \in Nat \ {0} /\ BackLimit \in Nat
  /\ StackAddrs \subseteq Nat /\ \A a \in StackAddrs : a > TextEnd

IsPc(a)   == a \in 1..TextEnd
IsAddr(a) == IsPc(a) \/ a \in StackAddrs

NegWords == 2                            \* add $-0x80: 16 words in the code
NoFrame  == [words |-> 0, ra |-> 0]

(* The nearest place at or before pc where the search ends: an address     *)
(* outside the text, or an instruction that decides.  -1: the limit.       *)
Behind(pc, Decides(_)) ==
  LET stops == {k \in 0..BackLimit : ~IsPc(pc - k) \/ Decides(pc - k)}
  IN IF stops = {} THEN -1 ELSE pc - Min(stops)
-----------------------------------------------------------------------------
(* x64.  A subtraction gives the frame; so does the addition of -0x80,     *)
(* while any other one-byte addition is an epilogue and is passed over.    *)
(* A four-byte addition ends the walk.                                     *)
DecidesX64(op) == op.op \in {"sub8", "sub32", "add32"} \/ (op.op = "add8" /\ op.words = -NegWords)

Prologue(p, pc) ==
  LET a == Behind(pc, LAMBDA b : DecidesX64(p.op[b]))
  IN CASE a = -1                 -> 0
       [] a # -1 /\ ~IsPc(a)     -> -1
       [] a # -1 /\ IsPc(a)      ->
            CASE p.op[a].op = "add32" -> -1
              [] p.op[a].op = "add8"  -> NegWords
              [] OTHER                -> p.op[a].words

(* Mutant: neither the frame nor the pc matters, the next code word is taken. *)
FrameX64Near(p, mem, sp, usl, pc) ==
  LET ends == {s \in (sp + 1)..(usl - 1) : ~IsAddr(s) \/ IsPc(mem[s])}
  IN IF ~IsAddr(sp) \/ ends = {} \/ ~IsAddr(Min(ends)) THEN NoFrame
     ELSE [words |-> Min(ends) - sp, ra |-> mem[Min(ends)]]
(* Mutant: any word that is an address will do.                            *)
FrameX64Any(p, mem, sp, usl, pc) ==
  LET frame == Prologue(p, pc)
      ends  == {s \in (sp + frame + 1)..(usl - 1) : ~IsAddr(s) \/ (IsAddr(mem[s]) /\ mem[s] # pc)}
      slot  == Min(ends)
  IN IF ~IsAddr(sp) \/ frame = -1 \/ ends = {} \/ ~IsAddr(slot) THEN NoFrame
     ELSE [words |-> slot - sp, ra |-> mem[slot]]
FrameX64(p, mem, sp, usl, pc) ==
  LET frame == Prologue(p, pc)
      ends  == {s \in (sp + frame + 1)..(usl - 1) :
                  ~IsAddr(s) \/ (IsPc(mem[s]) /\ mem[s] # pc)}
      slot  == Min(ends)
  IN IF ~IsAddr(sp) \/ frame = -1 \/ ends = {} \/ ~IsAddr(slot) THEN NoFrame
     ELSE [words |-> slot - sp, ra |-> mem[slot]]
-----------------------------------------------------------------------------
(* aarch64.  Behind the pc stands the end of the function before, a push of *)
(* the frame record, or a subtraction; after a subtraction the record is   *)
(* looked for below sp.                                                    *)
DecidesArm(op) == op.op \in {"ret", "stp", "sub"}

FrameArm(p, mem, sp, usl, pc) ==
  LET a      == Behind(pc, LAMBDA b : DecidesArm(p.op[b]))
      found  == IsPc(a) /\ p.op[a].op # "ret"
      frame  == IF found THEN p.op[a].words ELSE 0
      record == IF found /\ p.op[a].op = "sub" THEN sp - 2 ELSE sp
  IN IF ~IsAddr(sp) \/ (a # -1 /\ ~IsPc(a)) \/ ~IsAddr(record) THEN NoFrame
     ELSE IF IsPc(mem[record + 1]) /\ IsAddr(mem[record])
          THEN [words |-> frame, ra |-> mem[record + 1]]
          ELSE NoFrame

get_frame_size(p, mem, sp, usl, pc) ==
  IF p.arch = "x64" THEN FrameX64(p, mem, sp, usl, pc) ELSE FrameArm(p, mem, sp, usl, pc)
=============================================================================
