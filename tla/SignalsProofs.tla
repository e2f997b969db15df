---------------------------- MODULE SignalsProofs ----------------------------
(***************************************************************************)
(* For any number of threads, children and exception signals, any stack    *)
(* garbage in sa_mask and any bounds: the type invariant of Signals, Armed,*)
(* KilledOnlyInWindow and OneShellPerException.                            *)
(***************************************************************************)
EXTENDS Signals, SequenceTheorems, TLAPS

(* A nonempty sequence without its last element.                            *)
LEMMA AllButLast ==
  ASSUME NEW S, NEW s \in Seq(S), Len(s) # 0
  PROVE  /\ SubSeq(s, 1, Len(s) - 1) \in Seq(S)
         /\ Len(SubSeq(s, 1, Len(s) - 1)) = Len(s) - 1
         /\ \A i \in 1..(Len(s) - 1) : SubSeq(s, 1, Len(s) - 1)[i] = s[i]
<1> DEFINE m == Len(s) - 1
<1>1. m \in Nat /\ m \in Int /\ 1 \in Int
  OBVIOUS
<1>2. \A i \in 1..m : s[i] \in S
  OBVIOUS
<1> HIDE DEF m
<1>3. /\ SubSeq(s, 1, m) \in Seq(S)
      /\ Len(SubSeq(s, 1, m)) = IF 1 <= m THEN m - 1 + 1 ELSE 0
      /\ \A i \in 1..(m - 1 + 1) : SubSeq(s, 1, m)[i] = s[1 + i - 1]
  BY <1>1, <1>2, SubSeqProperties
<1>4. /\ SubSeq(s, 1, m) \in Seq(S)
      /\ Len(SubSeq(s, 1, m)) = m
      /\ \A i \in 1..m : SubSeq(s, 1, m)[i] = s[i]
  BY <1>1, <1>3
<1>5. QED BY <1>4 DEF m

(* What an activation stack looks like after each of the four ways the      *)
(* actions change it.                                                       *)
LEMMA TopIsActivation ==
  ASSUME TypeOK, NEW t \in Threads, Busy(t)
  PROVE  /\ Len(stack[t]) \in Nat \ {0}
         /\ stack[t] \in Seq(Activation)
         /\ Top(t) \in Activation
BY DEF TypeOK, Busy, Top

(* Push keeps the stacks well typed and every active signal active, and     *)
(* makes the signal of the pushed activation active.                        *)
LEMMA PushEffect ==
  ASSUME TypeOK, NEW t \in Threads, NEW a \in Activation, a.at # "kill", Push(t, a)
  PROVE  /\ stack' \in [Threads -> Seq(Activation)]
         /\ Active(a.sig)'
         /\ \A x \in Sig : Active(x) => Active(x)'
<1>1. stack[t] \in Seq(Activation) /\ stack \in [Threads -> Seq(Activation)]
  BY DEF TypeOK
<1>2. Append(stack[t], a) \in Seq(Activation)
  BY <1>1
<1>3. stack' = [stack EXCEPT ![t] = Append(stack[t], a)]
  BY DEF Push
<1>4. stack' \in [Threads -> Seq(Activation)]
  BY <1>1, <1>2, <1>3
<1>5. /\ stack'[t] = Append(stack[t], a)
      /\ \A u \in Threads : u # t => stack'[u] = stack[u]
  BY <1>1, <1>3
<1>6. /\ Len(stack[t]) + 1 \in DOMAIN stack'[t]
      /\ stack'[t][Len(stack[t]) + 1] = a
  BY <1>1, <1>5
<1>7. Active(a.sig)'
  BY <1>6 DEF Active
<1>8. ASSUME NEW x \in Sig, Active(x) PROVE Active(x)'
  <2>1. PICK u \in Threads : \E i \in DOMAIN stack[u] : stack[u][i].sig = x /\ stack[u][i].at # "kill"
    BY <1>8 DEF Active
  <2>2. PICK i \in DOMAIN stack[u] : stack[u][i].sig = x /\ stack[u][i].at # "kill"
    BY <2>1
  <2>3. i \in DOMAIN stack'[u] /\ stack'[u][i] = stack[u][i]
    BY <1>1, <1>5, <2>2
  <2>4. QED BY <2>2, <2>3 DEF Active
<1>9. QED BY <1>4, <1>7, <1>8

(* Pop keeps the stacks well typed; only the popped signal may cease to be  *)
(* active.                                                                  *)
LEMMA PopEffect ==
  ASSUME TypeOK, NEW t \in Threads, Busy(t), Pop(t)
  PROVE  /\ stack' \in [Threads -> Seq(Activation)]
         /\ \A x \in Sig : Active(x) => \/ Active(x)'
                                        \/ x = Top(t).sig /\ Top(t).at # "kill"
<1> DEFINE n == Len(stack[t])
<1>1. stack[t] \in Seq(Activation) /\ stack \in [Threads -> Seq(Activation)] /\ n \in Nat \ {0}
  BY TopIsActivation DEF TypeOK
<1>2. stack' = [stack EXCEPT ![t] = SubSeq(stack[t], 1, n - 1)]
  BY DEF Pop
<1>3. /\ SubSeq(stack[t], 1, n - 1) \in Seq(Activation)
      /\ Len(SubSeq(stack[t], 1, n - 1)) = n - 1
      /\ \A i \in 1..(n - 1) : SubSeq(stack[t], 1, n - 1)[i] = stack[t][i]
  BY <1>1, AllButLast
<1>4. stack' \in [Threads -> Seq(Activation)]
  BY <1>1, <1>2, <1>3
<1>5. ASSUME NEW x \in Sig, Active(x), x # Top(t).sig \/ Top(t).at = "kill"
      PROVE  Active(x)'
  <2>1. PICK u \in Threads : \E i \in DOMAIN stack[u] : stack[u][i].sig = x /\ stack[u][i].at # "kill"
    BY <1>5 DEF Active
  <2>2. PICK i \in DOMAIN stack[u] : stack[u][i].sig = x /\ stack[u][i].at # "kill"
    BY <2>1
  <2>3. CASE u = t
    <3>1. i \in 1..(n - 1)
      BY <1>1, <1>5, <2>2, <2>3 DEF Top
    <3>2. i \in DOMAIN stack'[t] /\ stack'[t][i].sig = x /\ stack'[t][i].at # "kill"
      BY <1>1, <1>2, <1>3, <2>2, <2>3, <3>1
    <3>3. QED BY <3>2 DEF Active
  <2>4. CASE u # t
    <3>1. stack'[u] = stack[u]
      BY <1>1, <1>2, <2>4
    <3>2. QED BY <2>2, <3>1 DEF Active
  <2>5. QED BY <2>3, <2>4
<1>6. QED BY <1>4, <1>5

(* Replacing the top activation by one of the same signal keeps the stacks  *)
(* well typed and every active signal active, unless the new one only has   *)
(* its pthread_kill left to do.                                             *)
LEMMA ReplaceEffect ==
  ASSUME TypeOK, NEW t \in Threads, Busy(t), NEW a \in Activation, a.sig = Top(t).sig,
         stack' = [stack EXCEPT ![t][Len(stack[t])] = a]
  PROVE  /\ stack' \in [Threads -> Seq(Activation)]
         /\ \A x \in Sig : Active(x) => \/ Active(x)'
                                        \/ x = Top(t).sig /\ a.at = "kill"
<1> DEFINE n == Len(stack[t])
<1>1. stack[t] \in Seq(Activation) /\ stack \in [Threads -> Seq(Activation)] /\ n \in Nat \ {0}
  BY TopIsActivation DEF TypeOK
<1>2. stack' = [stack EXCEPT ![t] = [stack[t] EXCEPT ![n] = a]]
  OBVIOUS
<1>3. /\ [stack[t] EXCEPT ![n] = a] \in Seq(Activation)
      /\ DOMAIN [stack[t] EXCEPT ![n] = a] = DOMAIN stack[t]
  BY <1>1
<1>4. stack' \in [Threads -> Seq(Activation)]
  BY <1>1, <1>2, <1>3
<1>5. ASSUME NEW x \in Sig, Active(x), x # Top(t).sig \/ a.at # "kill"
      PROVE  Active(x)'
  <2>1. PICK u \in Threads : \E i \in DOMAIN stack[u] : stack[u][i].sig = x /\ stack[u][i].at # "kill"
    BY <1>5 DEF Active
  <2>2. PICK i \in DOMAIN stack[u] : stack[u][i].sig = x /\ stack[u][i].at # "kill"
    BY <2>1
  <2>3. CASE u = t /\ i = n
    <3>1. x = Top(t).sig /\ a.at # "kill"
      BY <1>5, <2>2, <2>3 DEF Top
    <3>2. n \in DOMAIN stack'[t] /\ stack'[t][n] = a
      BY <1>1, <1>2, <1>3
    <3>3. QED BY <3>1, <3>2 DEF Active
  <2>4. CASE u # t \/ i # n
    <3>1. i \in DOMAIN stack'[u] /\ stack'[u][i] = stack[u][i]
      BY <1>1, <1>2, <1>3, <2>2, <2>4
    <3>2. QED BY <2>2, <3>1 DEF Active
  <2>5. QED BY <2>3, <2>4
<1>6. QED BY <1>4, <1>5

(* Goto is such a replacement.                                              *)
LEMMA GotoEffect ==
  ASSUME TypeOK, NEW t \in Threads, Busy(t),
         NEW l \in {"entry", "call", "body", "rearm", "write", "install", "kill"}, Goto(t, l)
  PROVE  /\ stack' \in [Threads -> Seq(Activation)]
         /\ \A x \in Sig : Active(x) => \/ Active(x)'
                                        \/ x = Top(t).sig /\ l = "kill"
<1> DEFINE a == [Top(t) EXCEPT !.at = l]
<1>1. Top(t) \in Activation
  BY TopIsActivation
<1>2. a \in Activation /\ a.sig = Top(t).sig /\ a.at = l
  BY <1>1 DEF Activation
<1>3. stack' = [stack EXCEPT ![t][Len(stack[t])] = a]
  BY DEF Goto, Top
<1>4. QED BY <1>2, <1>3, ReplaceEffect

(* So is the call of the handler.                                           *)
LEMMA CalledIs ==
  ASSUME TypeOK, NEW t \in Threads, Busy(t), Top(t).kind = "handler", Called(t)
  PROVE  \E a \in Activation :
           /\ a.sig = Top(t).sig /\ a.kind = "handler" /\ a.at # "kill"
           /\ a.h = handler[Top(t).sig] /\ (a.h # "null" => a.at = "body")
           /\ stack' = [stack EXCEPT ![t][Len(stack[t])] = a]
<1> DEFINE h  == handler[Top(t).sig]
           l  == IF h = "null" THEN "rearm" ELSE "body"
           a  == [Top(t) EXCEPT !.at = l, !.h = h]
<1>1. Top(t) \in Activation /\ stack' = [stack EXCEPT ![t][Len(stack[t])] = a]
  BY TopIsActivation DEF Called
<1>2. h \in Handlers /\ l \in {"rearm", "body"} /\ (h # "null" => l = "body")
  BY <1>1 DEF Activation, TypeOK
<1> HIDE DEF h, l
<1>3. /\ a \in Activation /\ a.sig = Top(t).sig /\ a.kind = "handler" /\ a.at = l
      /\ a.h = h
  BY <1>1, <1>2 DEF Activation
<1> HIDE DEF a
<1>4. QED BY <1>1, <1>2, <1>3 DEF h
-----------------------------------------------------------------------------
(* The mask an installer passes is a set of signals.                        *)
LEMMA InstallType ==
  ASSUME TypeOK, NEW s \in Sig, Install(s)
  PROVE  /\ disp' \in [Sig -> [hooked: BOOLEAN, mask: SUBSET Sig]]
         /\ disp'[s].hooked
         /\ \A x \in Sig : x # s => disp'[x] = disp[x]
<1>1. PICK m \in Masks(s) : disp' = [disp EXCEPT ![s] = [hooked |-> TRUE, mask |-> m]]
  BY DEF Install
<1>2. m \in SUBSET Sig
  BY SignalConstants DEF Masks
<1>3. [hooked |-> TRUE, mask |-> m] \in [hooked: BOOLEAN, mask: SUBSET Sig]
  BY <1>2
<1>4. QED BY <1>1, <1>3 DEF TypeOK

(* Entering a handler: the stacks stay typed, the signal is now active and  *)
(* only its own disposition is reset.                                       *)
LEMMA EnterEffect ==
  ASSUME TypeOK, NEW t \in Threads, NEW s \in Sig, Enter(t, s)
  PROVE  /\ stack' \in [Threads -> Seq(Activation)]
         /\ disp' \in [Sig -> [hooked: BOOLEAN, mask: SUBSET Sig]]
         /\ Active(s)'
         /\ \A x \in Sig : Active(x) => Active(x)'
         /\ \A x \in Sig : x # s => disp'[x] = disp[x]
         /\ proc' = proc /\ missed' = missed
<1> DEFINE a == HandlerActivation(s)
<1>1. a \in Activation /\ a.sig = s /\ a.at # "kill"
  BY DEF HandlerActivation, Activation, TypeOK
<1>2. Push(t, a) /\ disp' = [disp EXCEPT ![s] = Default] /\ proc' = proc /\ missed' = missed
  BY DEF Enter
<1>3. Default \in [hooked: BOOLEAN, mask: SUBSET Sig]
  BY DEF Default
<1>4. /\ disp' \in [Sig -> [hooked: BOOLEAN, mask: SUBSET Sig]]
      /\ \A x \in Sig : x # s => disp'[x] = disp[x]
  BY <1>2, <1>3 DEF TypeOK
<1> HIDE DEF a
<1>5. QED BY <1>1, <1>2, <1>4, PushEffect

(* Typing: TypeOK is inductive.                                             *)
LEMMA TypeInit == Init => TypeOK
<1> SUFFICES ASSUME Init PROVE TypeOK
  OBVIOUS
<1>1. \A s \in Sig : HandlerOf(s) \in Handlers
  BY DEF HandlerOf, Handlers
<1>2. handler \in [Sig -> Handlers]
  BY <1>1 DEF Init, Handlers
<1>3. UNION {Masks(s) : s \in Sig} \subseteq SUBSET Sig
  BY SignalConstants DEF Masks
<1>4. disp \in [Sig -> [hooked: BOOLEAN, mask: SUBSET Sig]]
  <2> DEFINE M == UNION {Masks(s) : s \in Sig} \cup {{}}
  <2>1. disp \in [Sig -> [hooked: BOOLEAN, mask: M]]
    BY DEF Init
  <2>2. M \subseteq SUBSET Sig
    BY <1>3
  <2> HIDE DEF M
  <2>3. QED BY <2>1, <2>2
<1>5. stack \in [Threads -> Seq(Activation)]
  BY DEF Init
<1>6. QED BY <1>2, <1>4, <1>5 DEF Init, TypeOK

LEMMA TypeStep == TypeOK /\ [Next]_vars => TypeOK'
<1> SUFFICES ASSUME TypeOK, [Next]_vars PROVE TypeOK'
  OBVIOUS
<1>1. ASSUME NEW t \in Threads, NEW s \in Sig, Deliver(t, s) PROVE TypeOK'
  <2>1. stack' \in [Threads -> Seq(Activation)] /\ disp' \in [Sig -> [hooked: BOOLEAN, mask: SUBSET Sig]]
    BY <1>1, EnterEffect DEF Deliver, DefaultAction, TypeOK
  <2>2. missed' \in SUBSET Children /\ proc' \in {"run", "killed", "exited"}
    BY <1>1, EnterEffect DEF Deliver, DefaultAction, Zombies, TypeOK
  <2>3. tpend' \in [Threads -> SUBSET Sig] /\ ppend' \in SUBSET Sig
    BY <1>1 DEF Deliver, TypeOK
  <2>4. QED BY <1>1, <2>1, <2>2, <2>3 DEF Deliver, TypeOK
<1>2. ASSUME NEW t \in Threads, NEW s \in Sig, Fault(t, s) PROVE TypeOK'
  <2>1. /\ stack' \in [Threads -> Seq(Activation)]
        /\ disp' \in [Sig -> [hooked: BOOLEAN, mask: SUBSET Sig]]
        /\ missed' \in SUBSET Children /\ proc' \in {"run", "killed", "exited"}
    BY <1>2, EnterEffect DEF Fault, TypeOK
  <2>2. QED BY <1>2, <2>1 DEF Fault, TypeOK
<1>3. ASSUME NEW c \in Children, Fork(c) PROVE TypeOK'
  BY <1>3 DEF Fork, TypeOK
<1>4. ASSUME NEW c \in Children, ChildExit(c) PROVE TypeOK'
  BY <1>4 DEF ChildExit, TypeOK, Sig
<1>5. ASSUME Interrupt PROVE TypeOK'
  BY <1>5 DEF Interrupt, TypeOK, Sig
<1>6. ASSUME NEW t \in Threads, Dispatch(t) PROVE TypeOK'
  <2>1. Busy(t) /\ Top(t).kind = "handler" /\ (Pop(t) \/ Goto(t, "call") \/ Called(t))
    BY <1>6 DEF Dispatch, Runs
  <2>2. stack' \in [Threads -> Seq(Activation)]
    BY <2>1, PopEffect, GotoEffect, CalledIs, ReplaceEffect
  <2>3. QED BY <1>6, <2>2 DEF Dispatch, Rest, TypeOK
<1>20. ASSUME NEW t \in Threads, CallHandler(t) PROVE TypeOK'
  <2>1. stack' \in [Threads -> Seq(Activation)]
    BY <1>20, CalledIs, ReplaceEffect DEF CallHandler, Runs
  <2>2. QED BY <1>20, <2>1 DEF CallHandler, Rest, TypeOK
<1>7. ASSUME NEW t \in Threads, Reap(t) PROVE TypeOK'
  BY <1>7, GotoEffect DEF Reap, Runs, Zombies, TypeOK
<1>8. ASSUME NEW t \in Threads, Backtrace(t) PROVE TypeOK'
  BY <1>8, GotoEffect DEF Backtrace, Runs, Rest, TypeOK
<1>9. ASSUME NEW t \in Threads, Exit(t) PROVE TypeOK'
  BY <1>9 DEF Exit, TypeOK
<1>10. ASSUME NEW t \in Threads, Rearm(t) PROVE TypeOK'
  <2>1. Busy(t) /\ Top(t).sig \in Sig
    BY <1>10, TopIsActivation DEF Rearm, Runs, Activation
  <2>2. stack' \in [Threads -> Seq(Activation)]
    BY <1>10, <2>1, PopEffect DEF Rearm
  <2>3. disp' \in [Sig -> [hooked: BOOLEAN, mask: SUBSET Sig]]
    BY <1>10, <2>1, InstallType DEF Rearm
  <2>4. QED BY <1>10, <2>2, <2>3 DEF Rearm, Rest, TypeOK
<1>11. ASSUME NEW t \in Threads, NEW s \in Sig, NEW h \in Handlers,
              NEW u \in Threads \cup {NoTarget}, Call(t, s, h, u)
       PROVE TypeOK'
  <2> DEFINE a == [kind |-> "register", sig |-> s, h |-> h, at |-> "write",
                   mask |-> {}, target |-> u]
  <2>1. a \in Activation /\ a.at # "kill"
    BY DEF Activation
  <2>2. Push(t, a)
    BY <1>11 DEF Call
  <2> HIDE DEF a
  <2>3. stack' \in [Threads -> Seq(Activation)]
    BY <2>1, <2>2, PushEffect
  <2>4. QED BY <1>11, <2>3 DEF Call, TypeOK
<1>12. ASSUME NEW t \in Threads, WriteTable(t) PROVE TypeOK'
  <2>1. Busy(t) /\ Top(t) \in Activation
    BY <1>12, TopIsActivation DEF WriteTable, Runs
  <2>2. handler' \in [Sig -> Handlers]
    BY <1>12, <2>1 DEF WriteTable, Activation, TypeOK
  <2>3. stack' \in [Threads -> Seq(Activation)]
    BY <1>12, <2>1, GotoEffect DEF WriteTable
  <2>4. QED BY <1>12, <2>2, <2>3 DEF WriteTable, Rest, TypeOK
<1>13. ASSUME NEW t \in Threads, InstallTable(t) PROVE TypeOK'
  <2>1. Busy(t) /\ Top(t).sig \in Sig
    BY <1>13, TopIsActivation DEF InstallTable, Runs, Activation
  <2>2. disp' \in [Sig -> [hooked: BOOLEAN, mask: SUBSET Sig]]
    BY <1>13, <2>1, InstallType DEF InstallTable, TypeOK
  <2>3. stack' \in [Threads -> Seq(Activation)]
    BY <1>13, <2>1, GotoEffect, PopEffect DEF InstallTable
  <2>4. QED BY <1>13, <2>2, <2>3 DEF InstallTable, Rest, TypeOK
<1>14. ASSUME NEW t \in Threads, Kill(t) PROVE TypeOK'
  <2>1. Busy(t)
    BY <1>14 DEF Kill, Runs
  <2>2. stack' \in [Threads -> Seq(Activation)]
    BY <1>14, <2>1, PopEffect DEF Kill
  <2>3. tpend' \in [Threads -> SUBSET Sig]
    BY <1>14 DEF Kill, TypeOK, Sig
  <2>4. QED BY <1>14, <2>2, <2>3 DEF Kill, TypeOK
<1>15. CASE UNCHANGED vars
  BY <1>15 DEF vars, TypeOK
<1>16. \A s \in Sig : HandlerOf(s) \in Handlers
  BY DEF HandlerOf, Handlers
<1>17. {"null", "bt"} \subseteq Handlers /\ "USR1" \in Sig
  BY DEF Handlers, Sig
<1>18. ASSUME NEW t \in Threads, NEW s \in Sig, RegisterSignal(t, s) \/ UnregisterSignal(t, s)
       PROVE TypeOK'
  BY <1>11, <1>16, <1>17, <1>18 DEF RegisterSignal, UnregisterSignal
<1>19. ASSUME NEW t \in Threads, NEW u \in Threads, GetSignalBacktrace(t, u) PROVE TypeOK'
  BY <1>11, <1>17, <1>19 DEF GetSignalBacktrace
<1>21. QED
  BY <1>1, <1>2, <1>3, <1>4, <1>5, <1>6, <1>7, <1>8, <1>9, <1>10, <1>12, <1>13, <1>14,
     <1>15, <1>18, <1>19, <1>20 DEF Next, HandlerStep, CallStep

(* The type invariant of the signal table, the dispositions and the stacks. *)
THEOREM Typing == Spec => []TypeOK
BY TypeInit, TypeStep, PTL DEF Spec
-----------------------------------------------------------------------------
(* Armed is inductive relative to TypeOK.                                   *)
LEMMA ArmedInit == Init => Armed
<1> SUFFICES ASSUME Init, NEW s \in Sig, handler[s] # "null" PROVE disp[s].hooked
  BY DEF Armed
<1>1. s # "USR1"
  BY DEF Init
<1>2. QED BY <1>1 DEF Init

LEMMA ArmedStep == TypeOK /\ Armed /\ [Next]_vars => Armed'
<1> SUFFICES ASSUME TypeOK, Armed, [Next]_vars,
                    NEW s \in Sig, proc' = "run", handler'[s] # "null", ~Active(s)'
             PROVE  disp'[s].hooked
  BY DEF Armed
(* A step that changes neither the table nor the dispositions and that      *)
(* deactivates nothing.                                                     *)
<1>1. ASSUME handler' = handler, disp' = disp, proc = "run", Active(s) => Active(s)'
      PROVE  disp'[s].hooked
  BY <1>1 DEF Armed
<1>2. ASSUME stack' = stack PROVE Active(s) => Active(s)'
  BY <1>2 DEF Active
<1>3. ASSUME NEW t \in Threads, NEW x \in Sig, handler' = handler, proc = "run",
             Enter(t, x)
      PROVE  disp'[s].hooked
  BY <1>3, EnterEffect DEF Armed
<1>4. ASSUME NEW t \in Threads, NEW x \in Sig, Deliver(t, x) PROVE disp'[s].hooked
  BY <1>1, <1>2, <1>3, <1>4 DEF Deliver, DefaultAction
<1>5. ASSUME NEW t \in Threads, NEW x \in Sig, Fault(t, x) PROVE disp'[s].hooked
  BY <1>1, <1>2, <1>3, <1>5 DEF Fault
<1>6. ASSUME NEW c \in Children, Fork(c) \/ ChildExit(c) PROVE disp'[s].hooked
  BY <1>1, <1>2, <1>6 DEF Fork, ChildExit
<1>7. ASSUME Interrupt PROVE disp'[s].hooked
  BY <1>1, <1>2, <1>7 DEF Interrupt
<1>8. ASSUME NEW t \in Threads, Dispatch(t) PROVE disp'[s].hooked
  <2>1. Busy(t) /\ Top(t) \in Activation /\ Top(t).sig \in Sig
    BY <1>8, TopIsActivation DEF Dispatch, Runs, Activation
  <2>2. CASE handler[Top(t).sig] = "null"
    BY <1>1, <1>8, <2>1, <2>2, PopEffect DEF Dispatch, Runs
  <2>3. CASE Goto(t, "call")
    BY <1>1, <1>8, <2>1, <2>3, GotoEffect DEF Dispatch, Runs
  <2>4. CASE Called(t)
    <3>1. Active(s) => Active(s)'
      BY <1>8, <2>1, <2>4, CalledIs, ReplaceEffect DEF Dispatch, Runs
    <3>2. QED BY <1>1, <1>8, <3>1 DEF Dispatch, Runs
  <2>5. QED BY <1>8, <2>2, <2>3, <2>4 DEF Dispatch
<1>22. ASSUME NEW t \in Threads, CallHandler(t) PROVE disp'[s].hooked
  <2>1. Active(s) => Active(s)'
    BY <1>22, CalledIs, ReplaceEffect DEF CallHandler, Runs
  <2>2. QED BY <1>1, <1>22, <2>1 DEF CallHandler, Runs
<1>9. ASSUME NEW t \in Threads, Reap(t) PROVE disp'[s].hooked
  BY <1>1, <1>2, <1>9, GotoEffect DEF Reap, Runs
<1>10. ASSUME NEW t \in Threads, Backtrace(t) PROVE disp'[s].hooked
  BY <1>1, <1>10, GotoEffect DEF Backtrace, Runs
<1>11. ASSUME NEW t \in Threads, Exit(t) PROVE disp'[s].hooked
  BY <1>11 DEF Exit
<1>12. ASSUME NEW t \in Threads, Rearm(t) PROVE disp'[s].hooked
  <2>1. Busy(t) /\ Top(t).sig \in Sig
    BY <1>12, TopIsActivation DEF Rearm, Runs, Activation
  <2>2. CASE s = Top(t).sig
    BY <1>12, <2>1, <2>2, InstallType DEF Rearm
  <2>3. CASE s # Top(t).sig
    BY <1>12, <2>1, <2>3, InstallType, PopEffect DEF Rearm, Runs, Armed
  <2>4. QED BY <2>2, <2>3
<1>13. ASSUME NEW t \in Threads, NEW x \in Sig, NEW h \in Handlers,
              NEW u \in Threads \cup {NoTarget}, Call(t, x, h, u)
       PROVE  disp'[s].hooked
  <2> DEFINE a == [kind |-> "register", sig |-> x, h |-> h, at |-> "write",
                   mask |-> {}, target |-> u]
  <2>1. a \in Activation /\ a.at # "kill"
    BY DEF Activation
  <2>2. Push(t, a)
    BY <1>13 DEF Call
  <2> HIDE DEF a
  <2>3. Active(s) => Active(s)'
    BY <2>1, <2>2, PushEffect
  <2>4. QED BY <1>1, <1>13, <2>3 DEF Call, MayCall
<1>14. ASSUME NEW t \in Threads, WriteTable(t) PROVE disp'[s].hooked
  <2>1. Busy(t) /\ Top(t).sig \in Sig /\ stack[t] \in Seq(Activation)
    BY <1>14, TopIsActivation DEF WriteTable, Runs, Activation
  <2>2. Active(Top(t).sig)
    BY <1>14, <2>1 DEF WriteTable, Runs, Active, Top, Busy
  <2>3. \A x \in Sig : Active(x) => Active(x)'
    BY <1>14, <2>1, GotoEffect DEF WriteTable
  <2>4. s # Top(t).sig
    BY <2>2, <2>3
  <2>5. handler'[s] = handler[s] /\ disp' = disp /\ proc = "run"
    BY <1>14, <2>4 DEF WriteTable, Runs, TypeOK
  <2>6. QED BY <2>3, <2>5 DEF Armed
<1>15. ASSUME NEW t \in Threads, InstallTable(t) PROVE disp'[s].hooked
  <2>1. Busy(t) /\ Top(t).sig \in Sig /\ proc = "run" /\ handler' = handler
    BY <1>15, TopIsActivation DEF InstallTable, Runs, Activation
  <2>2. CASE s = Top(t).sig
    BY <1>15, <2>1, <2>2, InstallType DEF InstallTable
  <2>3. CASE s # Top(t).sig
    <3>1. Active(s) => Active(s)'
      BY <1>15, <2>1, <2>3, GotoEffect, PopEffect DEF InstallTable
    <3>2. disp'[s] = disp[s]
      BY <1>15, <2>1, <2>3, InstallType DEF InstallTable
    <3>3. QED BY <2>1, <3>1, <3>2 DEF Armed
  <2>4. QED BY <2>2, <2>3
<1>16. ASSUME NEW t \in Threads, Kill(t) PROVE disp'[s].hooked
  <2>1. Busy(t) /\ Top(t) \in Activation
    BY <1>16, TopIsActivation DEF Kill, Runs
  <2>2. QED
    BY <1>1, <1>16, <2>1, PopEffect DEF Kill, Runs
<1>17. CASE UNCHANGED vars
  BY <1>1, <1>2, <1>17 DEF vars
<1>18. \A x \in Sig : HandlerOf(x) \in Handlers
  BY DEF HandlerOf, Handlers
<1>19. {"null", "bt"} \subseteq Handlers /\ "USR1" \in Sig
  BY DEF Handlers, Sig
<1>20. ASSUME NEW t \in Threads, NEW x \in Sig, RegisterSignal(t, x) \/ UnregisterSignal(t, x)
       PROVE  disp'[s].hooked
  BY <1>13, <1>18, <1>19, <1>20 DEF RegisterSignal, UnregisterSignal
<1>21. ASSUME NEW t \in Threads, NEW u \in Threads, GetSignalBacktrace(t, u)
       PROVE  disp'[s].hooked
  BY <1>13, <1>19, <1>21 DEF GetSignalBacktrace
<1>23. QED
  BY <1>4, <1>5, <1>6, <1>7, <1>8, <1>9, <1>10, <1>11, <1>12, <1>14, <1>15, <1>16,
     <1>17, <1>20, <1>21, <1>22 DEF Next, HandlerStep, CallStep

(* The one-shot disposition of a registered signal is always restored or    *)
(* about to be (signal.c:96-116, 213-235).                                  *)
THEOREM AlwaysArmed == Spec => []Armed
<1>1. Init => TypeOK /\ Armed
  BY TypeInit, ArmedInit
<1>2. TypeOK /\ Armed /\ [Next]_vars => TypeOK' /\ Armed'
  BY TypeStep, ArmedStep
<1>3. QED BY <1>1, <1>2, PTL DEF Spec
-----------------------------------------------------------------------------
(* Why only an unregistered signal or a window kills: which rows of the     *)
(* table may be null, and that SIGUSR1 is sent only after it has been       *)
(* registered.                                                              *)
UsrRegistered == handler["USR1"] # "null" \/ "USR1" \in MayUnregister

CallOk(a, registered) ==
  a.kind = "register" =>
    /\ a.h = "null" => a.sig \in MayUnregister
    /\ a.target # NoTarget => a.sig = "USR1"
    /\ a.at \in {"install", "kill"} /\ a.target # NoTarget => registered
    /\ a.at = "kill" => a.target # NoTarget

CallsOk == \A t \in Threads : \A i \in DOMAIN stack[t] : CallOk(stack[t][i], UsrRegistered)

NullRows == \A s \in Sig : handler[s] = "null" => s = "USR1" \/ s \in MayUnregister

PendingOk ==
  /\ ppend \subseteq {"INT", "CHLD"}
  /\ \A t \in Threads : tpend[t] \subseteq {"USR1"} /\ (tpend[t] # {} => UsrRegistered)

WindowInv == CallsOk /\ NullRows /\ PendingOk

LEMMA PushOk ==
  ASSUME TypeOK, CallsOk, UsrRegistered => UsrRegistered', NEW t \in Threads,
         NEW a \in Activation, Push(t, a), CallOk(a, UsrRegistered')
  PROVE  CallsOk'
<1> SUFFICES ASSUME NEW u \in Threads, NEW i \in DOMAIN stack'[u]
             PROVE  CallOk(stack'[u][i], UsrRegistered')
  BY DEF CallsOk
<1>1. stack \in [Threads -> Seq(Activation)] /\ stack[t] \in Seq(Activation)
  BY DEF TypeOK
<1>2. /\ stack'[t] = Append(stack[t], a)
      /\ \A x \in Threads : x # t => stack'[x] = stack[x]
  BY <1>1 DEF Push
<1>3. stack'[u][i] = a \/ (i \in DOMAIN stack[u] /\ stack'[u][i] = stack[u][i])
  BY <1>1, <1>2
<1>4. CASE i \in DOMAIN stack[u] /\ stack'[u][i] = stack[u][i]
  <2>1. CallOk(stack[u][i], UsrRegistered)
    BY <1>4 DEF CallsOk
  <2>2. QED BY <1>4, <2>1 DEF CallOk
<1>5. QED BY <1>3, <1>4

LEMMA PopOk ==
  ASSUME TypeOK, CallsOk, UsrRegistered => UsrRegistered', NEW t \in Threads, Busy(t), Pop(t)
  PROVE  CallsOk'
<1> SUFFICES ASSUME NEW u \in Threads, NEW i \in DOMAIN stack'[u]
             PROVE  CallOk(stack'[u][i], UsrRegistered')
  BY DEF CallsOk
<1>1. stack \in [Threads -> Seq(Activation)] /\ stack[t] \in Seq(Activation) /\ Len(stack[t]) # 0
  BY DEF TypeOK, Busy
<1>2. /\ stack'[t] = SubSeq(stack[t], 1, Len(stack[t]) - 1)
      /\ \A x \in Threads : x # t => stack'[x] = stack[x]
  BY <1>1 DEF Pop
<1>3. /\ stack'[t] \in Seq(Activation)
      /\ Len(stack'[t]) = Len(stack[t]) - 1
      /\ \A k \in 1..(Len(stack[t]) - 1) : stack'[t][k] = stack[t][k]
  BY <1>1, <1>2, AllButLast
<1>4. i \in DOMAIN stack[u] /\ stack'[u][i] = stack[u][i]
  BY <1>1, <1>2, <1>3
<1>5. CallOk(stack[u][i], UsrRegistered)
  BY <1>4 DEF CallsOk
<1>6. QED BY <1>4, <1>5 DEF CallOk

LEMMA ReplaceOk ==
  ASSUME TypeOK, CallsOk, UsrRegistered => UsrRegistered', NEW t \in Threads, Busy(t),
         NEW a, stack' = [stack EXCEPT ![t][Len(stack[t])] = a], CallOk(a, UsrRegistered')
  PROVE  CallsOk'
<1> SUFFICES ASSUME NEW u \in Threads, NEW i \in DOMAIN stack'[u]
             PROVE  CallOk(stack'[u][i], UsrRegistered')
  BY DEF CallsOk
<1>1. stack \in [Threads -> Seq(Activation)] /\ stack[t] \in Seq(Activation) /\ Len(stack[t]) # 0
  BY DEF TypeOK, Busy
<1>2. /\ stack'[t] = [stack[t] EXCEPT ![Len(stack[t])] = a]
      /\ \A x \in Threads : x # t => stack'[x] = stack[x]
  BY <1>1
<1>3. i \in DOMAIN stack[u] /\ (stack'[u][i] = a \/ stack'[u][i] = stack[u][i])
  BY <1>1, <1>2
<1>4. CallOk(stack[u][i], UsrRegistered)
  BY <1>3 DEF CallsOk
<1>5. QED BY <1>3, <1>4 DEF CallOk

LEMMA UnchangedOk ==
  ASSUME CallsOk, UsrRegistered => UsrRegistered', stack' = stack
  PROVE  CallsOk'
<1> SUFFICES ASSUME NEW u \in Threads, NEW i \in DOMAIN stack'[u]
             PROVE  CallOk(stack'[u][i], UsrRegistered')
  BY DEF CallsOk
<1>1. CallOk(stack[u][i], UsrRegistered)
  BY DEF CallsOk
<1>2. QED BY <1>1 DEF CallOk

LEMMA WindowInit == Init => WindowInv
<1> SUFFICES ASSUME Init PROVE WindowInv
  OBVIOUS
<1>1. CallsOk
  <2>1. \A t \in Threads : DOMAIN stack[t] = {}
    BY DEF Init
  <2>2. QED BY <2>1 DEF CallsOk
<1>2. NullRows
  BY DEF NullRows, Init, HandlerOf
<1>3. PendingOk
  BY DEF PendingOk, Init
<1>4. QED BY <1>1, <1>2, <1>3 DEF WindowInv

(* Entering a handler leaves the table alone and adds no call.              *)
LEMMA EnterOk ==
  ASSUME TypeOK, WindowInv, NEW t \in Threads, NEW s \in Sig, Enter(t, s) \/ stack' = stack,
         handler' = handler
  PROVE  CallsOk' /\ NullRows' /\ (UsrRegistered' <=> UsrRegistered)
<1>1. NullRows' /\ (UsrRegistered' <=> UsrRegistered)
  BY DEF WindowInv, NullRows, UsrRegistered
<1>2. CASE Enter(t, s)
  <2>1. HandlerActivation(s) \in Activation
    BY DEF HandlerActivation, Activation, TypeOK
  <2>2. CallOk(HandlerActivation(s), UsrRegistered')
    BY DEF CallOk, HandlerActivation
  <2>3. QED BY <1>1, <1>2, <2>1, <2>2, PushOk DEF Enter, WindowInv
<1>3. CASE stack' = stack
  BY <1>1, <1>3, UnchangedOk DEF WindowInv
<1>4. QED BY <1>1, <1>2, <1>3

(* A call of register_signal begins with the activation Call pushes.        *)
LEMMA CallBegins ==
  ASSUME TypeOK, WindowInv, NEW t \in Threads, NEW s \in Sig, NEW h \in Handlers,
         NEW u \in Threads \cup {NoTarget}, Call(t, s, h, u),
         h = "null" => s \in MayUnregister, u # NoTarget => s = "USR1"
  PROVE  WindowInv'
<1> DEFINE a == [kind |-> "register", sig |-> s, h |-> h, at |-> "write",
                 mask |-> {}, target |-> u]
<1>1. a \in Activation /\ CallOk(a, UsrRegistered')
  BY DEF Activation, CallOk
<1>2. Push(t, a) /\ UNCHANGED <<handler, tpend, ppend>>
  BY DEF Call
<1>3. UsrRegistered' <=> UsrRegistered
  BY <1>2 DEF UsrRegistered
<1>4. CallsOk'
  BY <1>1, <1>2, <1>3, PushOk DEF WindowInv
<1>5. NullRows' /\ PendingOk'
  BY <1>2, <1>3 DEF WindowInv, NullRows, PendingOk
<1>6. QED BY <1>4, <1>5 DEF WindowInv

LEMMA WindowStep == TypeOK /\ WindowInv /\ [Next]_vars => WindowInv'
<1> SUFFICES ASSUME TypeOK, WindowInv, [Next]_vars PROVE WindowInv'
  OBVIOUS
<1> USE SignalConstants, NoTargetIsNoThread
<1>1. "USR1" \in Sig /\ "INT" \in Sig /\ "CHLD" \in Sig /\ "USR1" \notin ExcSig
  BY DEF Sig
<1>2. ASSUME UNCHANGED <<handler, tpend, ppend, stack>>
      PROVE  WindowInv'
  <2>1. UsrRegistered' <=> UsrRegistered
    BY <1>2 DEF UsrRegistered
  <2>2. QED BY <1>2, <2>1, UnchangedOk DEF WindowInv, NullRows, PendingOk
<1>3. CASE UNCHANGED vars
  BY <1>2, <1>3 DEF vars
<1>4. ASSUME NEW t \in Threads, NEW s \in Sig, Deliver(t, s)
      PROVE  WindowInv'
  <2>1. handler' = handler /\ (Enter(t, s) \/ stack' = stack)
    BY <1>4 DEF Deliver, DefaultAction
  <2>2. CallsOk' /\ NullRows' /\ (UsrRegistered' <=> UsrRegistered)
    BY <2>1, EnterOk
  <2>3. /\ ppend' \subseteq ppend
        /\ \A u \in Threads : tpend'[u] \subseteq tpend[u]
    <3>1. tpend \in [Threads -> SUBSET Sig]
      BY DEF TypeOK
    <3>2. CASE tpend' = [tpend EXCEPT ![t] = tpend[t] \ {s}] /\ UNCHANGED ppend
      BY <3>1, <3>2
    <3>3. CASE ppend' = ppend \ {s} /\ UNCHANGED tpend
      BY <3>3
    <3>4. QED BY <1>4, <3>2, <3>3 DEF Deliver
  <2>4. PendingOk'
    BY <2>2, <2>3 DEF PendingOk, WindowInv
  <2>5. QED BY <2>2, <2>4 DEF WindowInv
<1>5. ASSUME NEW t \in Threads, NEW s \in Sig, Fault(t, s)
      PROVE  WindowInv'
  <2>1. UNCHANGED <<handler, tpend, ppend>> /\ (Enter(t, s) \/ stack' = stack)
    BY <1>5 DEF Fault
  <2>2. CallsOk' /\ NullRows' /\ (UsrRegistered' <=> UsrRegistered)
    BY <2>1, EnterOk
  <2>3. PendingOk'
    BY <2>1, <2>2 DEF PendingOk, WindowInv
  <2>4. QED BY <2>2, <2>3 DEF WindowInv
<1>6. ASSUME UNCHANGED <<handler, tpend, stack>>, ppend' \subseteq ppend \cup {"INT", "CHLD"}
      PROVE  WindowInv'
  <2>1. UsrRegistered' <=> UsrRegistered
    BY <1>6 DEF UsrRegistered
  <2>2. QED BY <1>6, <2>1, UnchangedOk DEF WindowInv, NullRows, PendingOk
<1>7. ASSUME NEW c \in Children, Fork(c) \/ ChildExit(c)
      PROVE  WindowInv'
  BY <1>6, <1>7 DEF Fork, ChildExit
<1>8. CASE Interrupt
  BY <1>6, <1>8 DEF Interrupt
<1>9. ASSUME NEW t \in Threads, Pop(t), Busy(t), UNCHANGED <<handler, tpend, ppend>>
      PROVE  WindowInv'
  <2>1. UsrRegistered' <=> UsrRegistered
    BY <1>9 DEF UsrRegistered
  <2>2. CallsOk'
    BY <1>9, <2>1, PopOk DEF WindowInv
  <2>3. QED BY <1>9, <2>1, <2>2 DEF WindowInv, NullRows, PendingOk
<1>10. ASSUME NEW t \in Threads, NEW l, Runs(t, "handler", l) PROVE CallOk(Top(t), UsrRegistered')
  BY <1>10 DEF Runs, CallOk
<1>11. ASSUME NEW t \in Threads, Busy(t), NEW a, a.kind = "handler",
              stack' = [stack EXCEPT ![t][Len(stack[t])] = a], UNCHANGED <<handler, tpend, ppend>>
       PROVE  WindowInv'
  <2>1. UsrRegistered' <=> UsrRegistered
    BY <1>11 DEF UsrRegistered
  <2>2. CallOk(a, UsrRegistered')
    BY <1>11 DEF CallOk
  <2>3. CallsOk'
    BY <1>11, <2>1, <2>2, ReplaceOk DEF WindowInv
  <2>4. QED BY <1>11, <2>1, <2>3 DEF WindowInv, NullRows, PendingOk
<1>12. ASSUME NEW t \in Threads, Dispatch(t)
       PROVE  WindowInv'
  <2>1. Busy(t) /\ Top(t).kind = "handler" /\ UNCHANGED <<handler, tpend, ppend>>
    BY <1>12 DEF Dispatch, Runs, Rest
  <2>2. Top(t) \in Activation
    BY <2>1, TopIsActivation
  <2>3. [Top(t) EXCEPT !.at = "call"].kind = "handler"
    BY <2>1, <2>2 DEF Activation
  <2>4. \/ Pop(t) \/ Called(t)
        \/ stack' = [stack EXCEPT ![t][Len(stack[t])] = [Top(t) EXCEPT !.at = "call"]]
    BY <1>12, <2>2 DEF Dispatch, Goto, Top, Activation
  <2>5. ASSUME Called(t) PROVE WindowInv'
    BY <1>11, <2>1, <2>5, CalledIs
  <2>6. QED BY <1>9, <1>11, <2>1, <2>3, <2>4, <2>5
<1>25. ASSUME NEW t \in Threads, CallHandler(t)
       PROVE  WindowInv'
  <2>1. UNCHANGED <<handler, tpend, ppend>>
    BY <1>25 DEF CallHandler, Rest
  <2>2. Busy(t) /\ Top(t).kind = "handler" /\ Called(t)
    BY <1>25 DEF CallHandler, Runs
  <2>3. QED BY <1>11, <2>1, <2>2, CalledIs
<1>13. ASSUME NEW t \in Threads, NEW l, Goto(t, l), Busy(t)
       PROVE  /\ stack' = [stack EXCEPT ![t][Len(stack[t])] = [Top(t) EXCEPT !.at = l]]
              /\ [Top(t) EXCEPT !.at = l].kind = Top(t).kind
              /\ [Top(t) EXCEPT !.at = l].sig = Top(t).sig
              /\ [Top(t) EXCEPT !.at = l].h = Top(t).h
              /\ [Top(t) EXCEPT !.at = l].target = Top(t).target
              /\ [Top(t) EXCEPT !.at = l].at = l
  <2>1. Top(t) \in Activation
    BY <1>13, TopIsActivation
  <2>2. QED BY <1>13, <2>1 DEF Goto, Top, Activation
<1>14. ASSUME NEW t \in Threads, Reap(t) \/ Backtrace(t)
       PROVE  WindowInv'
  <2>1. Busy(t) /\ Top(t).kind = "handler" /\ UNCHANGED <<handler, tpend, ppend>>
    BY <1>14 DEF Reap, Backtrace, Runs, Rest
  <2>2. stack' = stack \/ Goto(t, "rearm")
    BY <1>14 DEF Reap, Backtrace
  <2>3. CASE Goto(t, "rearm")
    <3> DEFINE a == [Top(t) EXCEPT !.at = "rearm"]
    <3>1. a.kind = "handler" /\ stack' = [stack EXCEPT ![t][Len(stack[t])] = a]
      BY <1>13, <2>1, <2>3
    <3> HIDE DEF a
    <3>2. QED BY <1>11, <2>1, <3>1
  <2>4. QED BY <1>2, <2>1, <2>2, <2>3
<1>15. ASSUME NEW t \in Threads, Exit(t)
       PROVE  WindowInv'
  BY <1>2, <1>15 DEF Exit
<1>16. ASSUME NEW t \in Threads, Rearm(t)
       PROVE  WindowInv'
  BY <1>9, <1>16 DEF Rearm, Runs, Rest
<1>17. ASSUME NEW t \in Threads, Busy(t), Top(t).kind = "register"
       PROVE  CallOk(Top(t), UsrRegistered)
  <2>1. Len(stack[t]) \in DOMAIN stack[t]
    BY <1>17, TopIsActivation DEF TypeOK
  <2>2. QED BY <2>1 DEF WindowInv, CallsOk, Top
<1>18. ASSUME NEW t \in Threads, WriteTable(t)
       PROVE  WindowInv'
  <2>1. /\ Busy(t) /\ Top(t).kind = "register" /\ Top(t).at = "write"
        /\ handler' = [handler EXCEPT ![Top(t).sig] = Top(t).h]
        /\ Goto(t, "install") /\ UNCHANGED <<tpend, ppend>>
    BY <1>18 DEF WriteTable, Runs, Rest
  <2>2. /\ Top(t) \in Activation /\ Top(t).sig \in Sig
        /\ Top(t).h = "null" => Top(t).sig \in MayUnregister
        /\ Top(t).target # NoTarget => Top(t).sig = "USR1"
    BY <1>17, <2>1, TopIsActivation DEF CallOk, Activation
  <2>3. handler \in [Sig -> Handlers]
    BY DEF TypeOK
  <2>4. /\ UsrRegistered => UsrRegistered'
        /\ Top(t).target # NoTarget => UsrRegistered'
    BY <1>1, <2>1, <2>2, <2>3 DEF UsrRegistered
  <2>5. CallOk([Top(t) EXCEPT !.at = "install"], UsrRegistered')
    BY <1>13, <2>1, <2>2, <2>4 DEF CallOk
  <2>6. CallsOk'
    BY <1>13, <2>1, <2>4, <2>5, ReplaceOk DEF WindowInv
  <2>7. NullRows'
    BY <2>1, <2>2, <2>3 DEF WindowInv, NullRows
  <2>8. PendingOk'
    BY <2>1, <2>4 DEF WindowInv, PendingOk
  <2>9. QED BY <2>6, <2>7, <2>8 DEF WindowInv
<1>19. ASSUME NEW t \in Threads, InstallTable(t)
       PROVE  WindowInv'
  <2>1. /\ Busy(t) /\ Top(t).kind = "register" /\ Top(t).at = "install"
        /\ UNCHANGED <<handler, tpend, ppend>>
        /\ Pop(t) \/ (Top(t).target # NoTarget /\ Goto(t, "kill"))
    BY <1>19 DEF InstallTable, Runs, Rest
  <2>2. CASE Top(t).target # NoTarget /\ Goto(t, "kill")
    <3>1. UsrRegistered /\ (UsrRegistered' <=> UsrRegistered)
      BY <1>17, <2>1, <2>2 DEF CallOk, UsrRegistered
    <3> DEFINE a == [Top(t) EXCEPT !.at = "kill"]
    <3>2. CallOk(a, UsrRegistered')
      BY <1>13, <1>17, <2>1, <2>2, <3>1 DEF CallOk
    <3>3. stack' = [stack EXCEPT ![t][Len(stack[t])] = a]
      BY <1>13, <2>1, <2>2
    <3> HIDE DEF a
    <3>4. CallsOk'
      BY <2>1, <3>1, <3>2, <3>3, ReplaceOk DEF WindowInv
    <3>5. QED BY <2>1, <3>1, <3>4 DEF WindowInv, NullRows, PendingOk
  <2>3. QED BY <1>9, <2>1, <2>2
<1>20. ASSUME NEW t \in Threads, Kill(t)
       PROVE  WindowInv'
  <2>1. /\ Busy(t) /\ Top(t).kind = "register" /\ Top(t).at = "kill"
        /\ UNCHANGED <<handler, ppend>> /\ Pop(t)
        /\ tpend' = [tpend EXCEPT ![Top(t).target] = @ \cup {"USR1"}]
    BY <1>20 DEF Kill, Runs
  <2>2. UsrRegistered /\ (UsrRegistered' <=> UsrRegistered)
    BY <1>17, <2>1 DEF CallOk, UsrRegistered
  <2>3. CallsOk'
    BY <2>1, <2>2, PopOk DEF WindowInv
  <2>4. \A u \in Threads : tpend'[u] \subseteq tpend[u] \cup {"USR1"}
    BY <2>1 DEF TypeOK
  <2>5. NullRows' /\ PendingOk'
    BY <2>1, <2>2, <2>4 DEF WindowInv, NullRows, PendingOk
  <2>6. QED BY <2>3, <2>5 DEF WindowInv
<1>21. ASSUME NEW s \in Sig PROVE HandlerOf(s) \in Handlers \ {"null"}
  BY DEF HandlerOf, Handlers
<1>22. {"null", "bt"} \subseteq Handlers
  BY DEF Handlers
<1>23. ASSUME NEW t \in Threads, NEW s \in Sig, RegisterSignal(t, s) \/ UnregisterSignal(t, s)
       PROVE  WindowInv'
  BY <1>21, <1>22, <1>23, CallBegins DEF RegisterSignal, UnregisterSignal
<1>24. ASSUME NEW t \in Threads, NEW u \in Threads, GetSignalBacktrace(t, u)
       PROVE  WindowInv'
  BY <1>1, <1>22, <1>24, CallBegins DEF GetSignalBacktrace
<1>26. QED
  BY <1>3, <1>4, <1>5, <1>7, <1>8, <1>12, <1>14, <1>15, <1>16, <1>18, <1>19, <1>20,
     <1>23, <1>24, <1>25 DEF Next, HandlerStep, CallStep

(* A step that kills the process finds a signal, pending or a fault, in its *)
(* window, unregistered, or blocked.                                        *)
Excused ==
  \E s \in Sig \ {"CHLD"} :
    /\ s \in ExcSig \/ s \in ppend \/ \E t \in Threads : s \in tpend[t]
    /\ \/ ~disp[s].hooked /\ (Active(s) \/ (s \in MayUnregister /\ handler[s] = "null"))
       \/ s \in ExcSig /\ \E t \in Threads : s \in Blocked(t)

LEMMA Unhooked ==
  ASSUME TypeOK, Armed, proc = "run", NEW s \in Sig, s # "CHLD", ~disp[s].hooked,
         handler[s] = "null" => s \in MayUnregister,
         s \in ExcSig \/ s \in ppend \/ \E t \in Threads : s \in tpend[t]
  PROVE  Excused
<1>1. CASE handler[s] = "null"
  BY <1>1 DEF Excused
<1>2. CASE handler[s] # "null"
  <2>1. Active(s)
    BY <1>2 DEF Armed
  <2>2. QED BY <2>1 DEF Excused
<1>3. QED BY <1>1, <1>2

LEMMA KillStep ==
  TypeOK /\ Armed /\ WindowInv /\ [Next]_vars =>
    (proc = "run" /\ proc' = "killed" => Excused)
<1> SUFFICES ASSUME TypeOK, Armed, WindowInv, [Next]_vars, proc = "run", proc' = "killed"
             PROVE  Excused
  OBVIOUS
<1> USE SignalConstants
<1>1. proc' # proc
  OBVIOUS
<1>2. ASSUME NEW t \in Threads, NEW s \in Sig, Deliver(t, s)
      PROVE  Excused
  <2>1. ~disp[s].hooked /\ s # "CHLD"
    BY <1>1, <1>2 DEF Deliver, Enter, DefaultAction
  <2>2. CASE s \in tpend[t]
    BY <2>1, <2>2, Unhooked DEF WindowInv, PendingOk, UsrRegistered
  <2>3. CASE s \in ppend
    BY <2>1, <2>3, Unhooked DEF WindowInv, PendingOk, NullRows
  <2>4. QED BY <1>2, <2>2, <2>3 DEF Deliver
<1>3. ASSUME NEW t \in Threads, NEW s \in Sig, Fault(t, s)
      PROVE  Excused
  <2>1. s \in ExcSig /\ s # "CHLD" /\ (s \in Blocked(t) \/ ~disp[s].hooked)
    BY <1>1, <1>3 DEF Fault, Enter
  <2>2. CASE s \in Blocked(t)
    BY <2>1, <2>2 DEF Excused
  <2>3. CASE ~disp[s].hooked
    BY <2>1, <2>3, Unhooked DEF WindowInv, NullRows
  <2>4. QED BY <2>1, <2>2, <2>3
<1>4. UNCHANGED vars => proc' = proc
  BY DEF vars
<1>5. ASSUME NEW t \in Threads, HandlerStep(t) \/ CallStep(t)
      PROVE  FALSE
  BY <1>1, <1>5 DEF HandlerStep, CallStep, Dispatch, CallHandler, Called, Reap, Backtrace, Exit, Rearm,
                    WriteTable, InstallTable, Kill, Rest
<1>6. ASSUME NEW t \in Threads, NEW s \in Sig, RegisterSignal(t, s) \/ UnregisterSignal(t, s)
      PROVE  FALSE
  BY <1>1, <1>6 DEF RegisterSignal, UnregisterSignal, Call
<1>7. ASSUME NEW t \in Threads, NEW u \in Threads, GetSignalBacktrace(t, u)
      PROVE  FALSE
  BY <1>1, <1>7 DEF GetSignalBacktrace, Call
<1>8. ASSUME Interrupt \/ (\E c \in Children : Fork(c) \/ ChildExit(c))
      PROVE  FALSE
  BY <1>1, <1>8 DEF Interrupt, Fork, ChildExit
<1>9. QED BY <1>1, <1>2, <1>3, <1>4, <1>5, <1>6, <1>7, <1>8 DEF Next

(* Outside the one-shot window and for a registered signal no signal kills  *)
(* the process (signal.c:107-111, 225-227).                                 *)
THEOREM KilledInWindow == Spec => KilledOnlyInWindow
<1>1. Init => TypeOK /\ Armed /\ WindowInv
  BY TypeInit, ArmedInit, WindowInit
<1>2. TypeOK /\ Armed /\ WindowInv /\ [Next]_vars => TypeOK' /\ Armed' /\ WindowInv'
  BY TypeStep, ArmedStep, WindowStep
<1>3. TypeOK /\ Armed /\ WindowInv /\ [Next]_vars
        => [proc = "run" /\ proc' = "killed" => Excused]_vars
  BY KillStep
<1>4. QED BY <1>1, <1>2, <1>3, PTL DEF Spec, KilledOnlyInWindow, Excused
-----------------------------------------------------------------------------
(* One shell per exception.  An activation of an exception signal the       *)
(* program never passes to register_signal enters or runs the exception     *)
(* handler, and nothing leaves that handler.                                *)
Enters(a) == a.kind = "handler" /\ a.h = "exc" /\ a.at \in {"entry", "call", "body"}

(* While there is such an activation the disposition is not hooked, so that *)
(* there will not be another.                                               *)
ShellOk(s) ==
  /\ handler[s] = "exc"
  /\ \A t \in Threads : \A i \in DOMAIN stack[t] :
       stack[t][i].sig = s => Enters(stack[t][i]) /\ ~disp[s].hooked
  /\ \A t, u \in Threads : \A i \in DOMAIN stack[t], j \in DOMAIN stack[u] :
       stack[t][i].sig = s /\ stack[u][j].sig = s => t = u /\ i = j

(* Every activation of s after the step was one before it.                  *)
Carried(s) ==
  \A u \in Threads : \A i \in DOMAIN stack'[u] :
    stack'[u][i].sig = s =>
      i \in DOMAIN stack[u] /\ stack[u][i].sig = s /\ Enters(stack'[u][i])

LEMMA ShellKept ==
  ASSUME NEW s \in Sig, ShellOk(s), Carried(s),
         handler'[s] = handler[s], disp'[s].hooked => disp[s].hooked
  PROVE  ShellOk(s)'
<1>1. ASSUME NEW t \in Threads, NEW i \in DOMAIN stack'[t], stack'[t][i].sig = s
      PROVE  Enters(stack'[t][i]) /\ ~disp'[s].hooked
  BY <1>1 DEF ShellOk, Carried
<1>2. ASSUME NEW t \in Threads, NEW u \in Threads,
             NEW i \in DOMAIN stack'[t], NEW j \in DOMAIN stack'[u],
             stack'[t][i].sig = s, stack'[u][j].sig = s
      PROVE  t = u /\ i = j
  BY <1>2 DEF ShellOk, Carried
<1>3. handler'[s] = "exc"
  BY DEF ShellOk
<1>4. QED BY <1>1, <1>2, <1>3 DEF ShellOk, Enters

LEMMA SameCarries ==
  ASSUME NEW s \in Sig, ShellOk(s), stack' = stack
  PROVE  Carried(s)
BY DEF ShellOk, Carried

LEMMA PopCarries ==
  ASSUME TypeOK, NEW s \in Sig, ShellOk(s), NEW t \in Threads, Busy(t), Pop(t)
  PROVE  Carried(s)
<1> SUFFICES ASSUME NEW u \in Threads, NEW i \in DOMAIN stack'[u], stack'[u][i].sig = s
             PROVE  i \in DOMAIN stack[u] /\ stack[u][i].sig = s /\ Enters(stack'[u][i])
  BY DEF Carried
<1> DEFINE n == Len(stack[t])
<1>1. stack[t] \in Seq(Activation) /\ stack \in [Threads -> Seq(Activation)] /\ n \in Nat \ {0}
  BY TopIsActivation DEF TypeOK
<1>2. /\ SubSeq(stack[t], 1, n - 1) \in Seq(Activation)
      /\ Len(SubSeq(stack[t], 1, n - 1)) = n - 1
      /\ \A k \in 1..(n - 1) : SubSeq(stack[t], 1, n - 1)[k] = stack[t][k]
  BY <1>1, AllButLast
<1>3. /\ stack'[t] = SubSeq(stack[t], 1, n - 1)
      /\ u # t => stack'[u] = stack[u]
  BY <1>1 DEF Pop
<1>4. i \in DOMAIN stack[u] /\ stack'[u][i] = stack[u][i]
  BY <1>1, <1>2, <1>3
<1>5. QED BY <1>4 DEF ShellOk

(* The top activation is replaced by one of the same signal.                *)
LEMMA ReplaceCarries ==
  ASSUME TypeOK, NEW s \in Sig, ShellOk(s), NEW t \in Threads, Busy(t), NEW a,
         a.sig = Top(t).sig, a.sig = s => Enters(a),
         stack' = [stack EXCEPT ![t][Len(stack[t])] = a]
  PROVE  Carried(s)
<1> SUFFICES ASSUME NEW u \in Threads, NEW i \in DOMAIN stack'[u], stack'[u][i].sig = s
             PROVE  i \in DOMAIN stack[u] /\ stack[u][i].sig = s /\ Enters(stack'[u][i])
  BY DEF Carried
<1>1. stack \in [Threads -> Seq(Activation)] /\ stack[t] \in Seq(Activation) /\ Len(stack[t]) # 0
  BY DEF TypeOK, Busy
<1>2. /\ stack'[t] = [stack[t] EXCEPT ![Len(stack[t])] = a]
      /\ u # t => stack'[u] = stack[u]
  BY <1>1
<1>3. i \in DOMAIN stack[u]
  BY <1>1, <1>2
<1>4. \/ stack'[u][i] = stack[u][i]
      \/ u = t /\ i = Len(stack[t]) /\ stack'[u][i] = a
  BY <1>1, <1>2, <1>3
<1>5. QED BY <1>3, <1>4 DEF ShellOk, Top

(* A pushed activation of another signal adds none of s.                    *)
LEMMA PushCarries ==
  ASSUME TypeOK, NEW s \in Sig, ShellOk(s), NEW t \in Threads, NEW a, a.sig # s, Push(t, a)
  PROVE  Carried(s)
<1> SUFFICES ASSUME NEW u \in Threads, NEW i \in DOMAIN stack'[u], stack'[u][i].sig = s
             PROVE  i \in DOMAIN stack[u] /\ stack[u][i].sig = s /\ Enters(stack'[u][i])
  BY DEF Carried
<1>1. stack \in [Threads -> Seq(Activation)] /\ stack[t] \in Seq(Activation)
  BY DEF TypeOK
<1>2. /\ stack'[t] = Append(stack[t], a)
      /\ u # t => stack'[u] = stack[u]
  BY <1>1 DEF Push
<1>3. i \in DOMAIN stack[u] /\ stack'[u][i] = stack[u][i]
  BY <1>1, <1>2
<1>4. QED BY <1>3 DEF ShellOk

(* The delivery of s finds it hooked, hence without an activation, and      *)
(* leaves it unhooked with one.                                             *)
LEMMA EnterShell ==
  ASSUME TypeOK, NEW s \in Sig, ShellOk(s), NEW t \in Threads, Enter(t, s), handler' = handler
  PROVE  ShellOk(s)'
<1> DEFINE a == HandlerActivation(s)
<1>1. Enters(a)
  BY DEF Enters, HandlerActivation, ShellOk
<1>2. disp[s].hooked /\ Push(t, a) /\ ~disp'[s].hooked
  BY DEF Enter, Default, TypeOK
<1>3. \A u \in Threads : \A i \in DOMAIN stack[u] : stack[u][i].sig # s
  BY <1>2 DEF ShellOk
<1> HIDE DEF a
<1>4. stack \in [Threads -> Seq(Activation)] /\ stack[t] \in Seq(Activation)
  BY DEF TypeOK
<1>5. /\ stack'[t] = Append(stack[t], a)
      /\ \A u \in Threads : u # t => stack'[u] = stack[u]
  BY <1>2, <1>4 DEF Push
<1>6. ASSUME NEW u \in Threads, NEW i \in DOMAIN stack'[u], stack'[u][i].sig = s
      PROVE  u = t /\ i = Len(stack[t]) + 1 /\ stack'[u][i] = a
  <2>1. u = t
    BY <1>3, <1>5, <1>6
  <2>2. i \in 1..Len(stack[t]) => stack'[u][i] = stack[t][i] /\ i \in DOMAIN stack[t]
    BY <1>4, <1>5, <2>1
  <2>3. i = Len(stack[t]) + 1
    BY <1>3, <1>4, <1>5, <1>6, <2>1, <2>2
  <2>4. QED BY <1>4, <1>5, <2>1, <2>3
<1>7. handler'[s] = "exc"
  BY DEF ShellOk
<1>8. QED BY <1>1, <1>2, <1>6, <1>7 DEF ShellOk, Enters

ShellsOk == \A s \in ExcSig \ MayUnregister : ShellOk(s)

LEMMA ShellsInit == Init => ShellsOk
<1> SUFFICES ASSUME Init, NEW s \in ExcSig \ MayUnregister PROVE ShellOk(s)
  BY DEF ShellsOk
<1>1. s \in Sig /\ s \notin {"INT", "CHLD", "USR1"}
  BY SignalConstants DEF Sig
<1>2. handler[s] = "exc"
  BY <1>1 DEF Init, HandlerOf
<1>3. \A t \in Threads : DOMAIN stack[t] = {}
  BY DEF Init
<1>4. QED BY <1>2, <1>3 DEF ShellOk

LEMMA ShellsStep == TypeOK /\ ShellsOk /\ [Next]_vars => ShellsOk'
<1> SUFFICES ASSUME TypeOK, [Next]_vars, NEW s \in ExcSig \ MayUnregister, ShellOk(s)
             PROVE  ShellOk(s)'
  BY DEF ShellsOk
<1>1. s \in Sig /\ s \in ExcSig /\ s \notin {"INT", "CHLD", "USR1"} /\ s \notin MayUnregister
  BY SignalConstants DEF Sig
<1>2. ASSUME UNCHANGED <<handler, disp, stack>> PROVE ShellOk(s)'
  BY <1>1, <1>2, SameCarries, ShellKept
<1>3. CASE UNCHANGED vars
  BY <1>2, <1>3 DEF vars
<1>4. ASSUME NEW t \in Threads, NEW x \in Sig, Enter(t, x), handler' = handler
      PROVE  ShellOk(s)'
  <2>1. CASE x = s
    BY <1>1, <1>4, <2>1, EnterShell
  <2>2. CASE x # s
    <3>1. Push(t, HandlerActivation(x)) /\ HandlerActivation(x).sig # s
      BY <1>4, <2>2 DEF Enter, HandlerActivation
    <3>2. disp'[s] = disp[s]
      BY <1>1, <1>4, <2>2 DEF Enter, TypeOK
    <3>3. QED BY <1>1, <1>4, <3>1, <3>2, PushCarries, ShellKept
  <2>3. QED BY <2>1, <2>2
<1>5. ASSUME NEW t \in Threads, NEW x \in Sig, Deliver(t, x) \/ Fault(t, x)
      PROVE  ShellOk(s)'
  <2>1. handler' = handler /\ (Enter(t, x) \/ UNCHANGED <<disp, stack>>)
    BY <1>5 DEF Deliver, Fault, DefaultAction
  <2>2. QED BY <1>2, <1>4, <2>1
<1>6. ASSUME Interrupt \/ \E c \in Children : Fork(c) \/ ChildExit(c)
      PROVE  ShellOk(s)'
  BY <1>2, <1>6 DEF Interrupt, Fork, ChildExit
<1>7. ASSUME NEW t \in Threads, Busy(t) PROVE Top(t).sig = s => Enters(Top(t))
  <2>1. Len(stack[t]) \in DOMAIN stack[t]
    BY <1>7, TopIsActivation
  <2>2. QED BY <2>1 DEF ShellOk, Top
<1>8. ASSUME NEW t \in Threads, Busy(t), Top(t).sig # s, NEW l, Goto(t, l)
      PROVE  Carried(s)
  <2> DEFINE a == [Top(t) EXCEPT !.at = l]
  <2>1. Top(t) \in Activation
    BY <1>8, TopIsActivation
  <2>2. a.sig = Top(t).sig /\ stack' = [stack EXCEPT ![t][Len(stack[t])] = a]
    BY <1>8, <2>1 DEF Activation, Goto, Top
  <2> HIDE DEF a
  <2>3. QED BY <1>1, <1>8, <2>2, ReplaceCarries
<1>20. ASSUME NEW t \in Threads, Busy(t), Top(t).kind = "handler", Called(t),
              UNCHANGED <<handler, disp>>
       PROVE  ShellOk(s)'
  <2>1. PICK a \in Activation :
          /\ a.sig = Top(t).sig /\ a.kind = "handler"
          /\ a.h = handler[Top(t).sig] /\ (a.h # "null" => a.at = "body")
          /\ stack' = [stack EXCEPT ![t][Len(stack[t])] = a]
    BY <1>1, <1>20, CalledIs
  <2>2. a.sig = s => Enters(a)
    BY <2>1 DEF Enters, ShellOk
  <2>3. QED BY <1>1, <1>20, <2>1, <2>2, ReplaceCarries, ShellKept
<1>9. ASSUME NEW t \in Threads, Dispatch(t) PROVE ShellOk(s)'
  <2>1. /\ Busy(t) /\ Top(t).at = "entry" /\ Top(t).kind = "handler"
        /\ UNCHANGED <<handler, disp>> /\ Top(t) \in Activation
    BY <1>9, TopIsActivation DEF Dispatch, Runs
  <2>2. CASE Pop(t)
    BY <1>1, <2>1, <2>2, PopCarries, ShellKept
  <2>3. CASE Goto(t, "call")
    <3> DEFINE a == [Top(t) EXCEPT !.at = "call"]
    <3>1. stack' = [stack EXCEPT ![t][Len(stack[t])] = a]
      BY <2>1, <2>3 DEF Goto, Top, Activation
    <3>2. a.sig = Top(t).sig /\ a.kind = "handler" /\ a.at = "call" /\ a.h = Top(t).h
      BY <2>1 DEF Activation
    <3> HIDE DEF a
    <3>3. a.sig = s => Enters(a)
      BY <1>7, <2>1, <3>2 DEF Enters
    <3>4. QED BY <1>1, <2>1, <3>1, <3>2, <3>3, ReplaceCarries, ShellKept
  <2>4. CASE Called(t)
    BY <1>20, <2>1, <2>4
  <2>5. QED BY <1>9, <2>2, <2>3, <2>4 DEF Dispatch
<1>21. ASSUME NEW t \in Threads, CallHandler(t) PROVE ShellOk(s)'
  BY <1>20, <1>21 DEF CallHandler, Runs
<1>10. ASSUME NEW t \in Threads, Reap(t) \/ Backtrace(t) PROVE ShellOk(s)'
  <2>1. /\ Busy(t) /\ Top(t).h \in {"reap", "bt"} /\ UNCHANGED <<handler, disp>>
        /\ stack' = stack \/ Goto(t, "rearm")
    BY <1>10 DEF Reap, Backtrace, Runs
  <2>2. Top(t).sig # s
    BY <1>7, <2>1 DEF Enters
  <2>3. QED BY <1>1, <1>8, <2>1, <2>2, SameCarries, ShellKept
<1>11. ASSUME NEW t \in Threads, Exit(t) PROVE ShellOk(s)'
  BY <1>2, <1>11 DEF Exit
<1>12. ASSUME NEW t \in Threads, Rearm(t) PROVE ShellOk(s)'
  <2>1. Busy(t) /\ Top(t).at = "rearm" /\ UNCHANGED handler /\ Install(Top(t).sig) /\ Pop(t)
    BY <1>12 DEF Rearm, Runs
  <2>2. Top(t).sig # s /\ Top(t).sig \in Sig
    BY <1>7, <2>1, TopIsActivation DEF Enters, Activation
  <2>3. disp'[s] = disp[s]
    BY <1>1, <2>1, <2>2, InstallType
  <2>4. QED BY <1>1, <2>1, <2>3, PopCarries, ShellKept
<1>13. ASSUME NEW t \in Threads, NEW l, Runs(t, "register", l)
       PROVE  Busy(t) /\ Top(t).sig # s /\ Top(t).sig \in Sig
  BY <1>7, <1>13, TopIsActivation DEF Runs, Enters, Activation
<1>14. ASSUME NEW t \in Threads, NEW x \in Sig, NEW h, NEW u, Call(t, x, h, u), x # s
       PROVE  ShellOk(s)'
  <2> DEFINE a == [kind |-> "register", sig |-> x, h |-> h, at |-> "write",
                   mask |-> {}, target |-> u]
  <2>1. Push(t, a) /\ a.sig # s /\ UNCHANGED <<handler, disp>>
    BY <1>14 DEF Call
  <2> HIDE DEF a
  <2>2. QED BY <1>1, <2>1, PushCarries, ShellKept
<1>15. ASSUME NEW t \in Threads, WriteTable(t) PROVE ShellOk(s)'
  <2>1. /\ Runs(t, "register", "write") /\ Goto(t, "install") /\ UNCHANGED disp
        /\ handler' = [handler EXCEPT ![Top(t).sig] = Top(t).h]
    BY <1>15 DEF WriteTable
  <2>2. Busy(t) /\ Top(t).sig # s
    BY <1>13, <2>1
  <2>3. handler'[s] = handler[s]
    BY <1>1, <2>1, <2>2 DEF TypeOK
  <2>4. QED BY <1>1, <1>8, <2>1, <2>2, <2>3, ShellKept
<1>16. ASSUME NEW t \in Threads, InstallTable(t) PROVE ShellOk(s)'
  <2>1. /\ Runs(t, "register", "install") /\ UNCHANGED handler
        /\ Pop(t) \/ Goto(t, "kill")
        /\ UNCHANGED disp \/ Install(Top(t).sig)
    BY <1>16 DEF InstallTable
  <2>2. Busy(t) /\ Top(t).sig # s /\ Top(t).sig \in Sig
    BY <1>13, <2>1
  <2>3. disp'[s] = disp[s]
    BY <1>1, <2>1, <2>2, InstallType
  <2>4. Carried(s)
    BY <1>1, <1>8, <2>1, <2>2, PopCarries
  <2>5. QED BY <1>1, <2>1, <2>3, <2>4, ShellKept
<1>17. ASSUME NEW t \in Threads, Kill(t) PROVE ShellOk(s)'
  <2>1. Runs(t, "register", "kill") /\ Pop(t) /\ UNCHANGED <<handler, disp>>
    BY <1>17 DEF Kill
  <2>2. QED BY <1>1, <1>13, <2>1, PopCarries, ShellKept
<1>18. ASSUME NEW t \in Threads, NEW x \in Sig, RegisterSignal(t, x) \/ UnregisterSignal(t, x)
       PROVE  ShellOk(s)'
  BY <1>1, <1>14, <1>18 DEF RegisterSignal, UnregisterSignal
<1>19. ASSUME NEW t \in Threads, NEW u \in Threads, GetSignalBacktrace(t, u)
       PROVE  ShellOk(s)'
  <2>1. "USR1" \in Sig /\ "USR1" # s
    BY <1>1 DEF Sig
  <2>2. QED BY <1>14, <1>19, <2>1 DEF GetSignalBacktrace
<1>22. QED
  BY <1>3, <1>5, <1>6, <1>9, <1>10, <1>11, <1>12, <1>15, <1>16, <1>17, <1>18, <1>19, <1>21
     DEF Next, HandlerStep, CallStep

(* An exception starts at most one debugger shell, whatever the threads and *)
(* the other signals do (exception_handler.c:109-114).                      *)
THEOREM OneShell == Spec => []OneShellPerException
<1>1. Init => TypeOK /\ ShellsOk
  BY TypeInit, ShellsInit
<1>2. TypeOK /\ ShellsOk /\ [Next]_vars => TypeOK' /\ ShellsOk'
  BY TypeStep, ShellsStep
<1>3. ShellsOk => OneShellPerException
  BY DEF ShellsOk, ShellOk, OneShellPerException, InShell
<1>4. QED BY <1>1, <1>2, <1>3, PTL DEF Spec
=============================================================================
