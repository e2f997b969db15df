------------------------------- MODULE LgDrv -------------------------------
(***************************************************************************)
(* The kernel driver of dbgModule/arch/kdriver/lgdrv: loading it, which    *)
(* may fail at every step, and unloading it; and the regions it looks up,  *)
(* which take the library two calls: lseek puts the answer at the end of   *)
(* one list all threads share, read searches the list for the thread's     *)
(* address, takes the node out and frees it.  Nothing locks the list.      *)
(*                                                                         *)
(* A thread has one node at a time; the node is named after the thread.    *)
(***************************************************************************)
EXTENDS Bisect, Sequences, FiniteSets

CONSTANTS
  Callers,     \* threads that look regions up
  Vmas,        \* the regions of the process, in address order: beg, end, opt
  Base, Null   \* the list head, and the null pointer

ASSUME DrvConstants ==
  /\ Base \notin Callers /\ Null \notin Callers \cup {Base}
  /\ Vmas \in Seq([beg : Nat \ {0}, end : Nat, opt : STRING])
  /\ \A i \in DOMAIN Vmas : Vmas[i].beg < Vmas[i].end
  /\ \A i, j \in DOMAIN Vmas : i < j => Vmas[i].end <= Vmas[j].beg

VARIABLES
  step,      \* where lgdrv_init or lgdrv_exit is
  held,      \* what the kernel holds for the driver, in the order it was got
  next, prev,\* the links of _regInfoList and of the nodes
  live,      \* nodes that have not been freed
  asked,     \* per thread: the address of its lookup
  at,        \* per thread: where its lookup is
  cur,       \* per thread: the node its search has reached
  node,      \* per thread's node: the address it was made for, and its region
  answer,    \* per thread: the region it was given
  early,     \* threads in the driver before the list is initialised (history)
  mixed      \* two threads were in the list at once, LS_INIT counted as one (history)

drvVars == <<step, held, next, prev, live, asked, at, cur, node, answer, early, mixed>>
lookup  == <<asked, at, cur, node, answer, early, mixed>>
list    == <<next, prev, live>>

NoReg == [beg |-> 0, end |-> 0, opt |-> "none"]
Parts == <<"region", "cdev", "class", "device">>
Nodes == Callers \cup {Base}
Inside == {"insert", "link", "tail", "find", "match", "unlink", "relink", "free"}

DrvInit(loaded) ==
  /\ step = IF loaded THEN "loaded" ELSE "load"
  /\ held = IF loaded THEN Parts ELSE <<>>
  /\ next = [n \in Nodes |-> IF loaded /\ n = Base THEN Base ELSE Null]
  /\ prev = next
  /\ live = {}
  /\ asked = [t \in Callers |-> 0] /\ at = [t \in Callers |-> "idle"]
  /\ cur = [t \in Callers |-> Base] /\ node = [t \in Callers |-> [addr |-> 0, reg |-> NoReg]]
  /\ answer = [t \in Callers |-> NoReg]
  /\ early = {} /\ mixed = FALSE
-----------------------------------------------------------------------------
(* lgdrv_init: each part is got, or the parts before it are given back.     *)
Acquire ==
  /\ step = "load"
  /\ Len(held) < Len(Parts)
  /\ \/ held' = Append(held, Parts[Len(held) + 1]) /\ UNCHANGED step
     \/ step' = "undo" /\ UNCHANGED held
  /\ UNCHANGED <<list, lookup>>

(* LS_INIT comes after device_create: by then the device can be opened.     *)
(* It is two assignments, prev's first, and threads come between them.      *)
InitList ==
  /\ step = "load" /\ held = Parts
  /\ prev' = [prev EXCEPT ![Base] = Base]
  /\ step' = "half"
  /\ mixed' = (mixed \/ \E t \in Callers : at[t] \in Inside)
  /\ UNCHANGED <<held, next, live, asked, at, cur, node, answer, early>>

InitNext ==
  /\ step = "half"
  /\ next' = [next EXCEPT ![Base] = Base]
  /\ step' = "loaded"
  /\ UNCHANGED <<held, prev, live, lookup>>

(* The labels of lgdrv_init, and lgdrv_exit: what was got last goes first.  *)
FirstBack == SubSeq(held, 2, Len(held))          \* mutant
GivenBack == SubSeq(held, 1, Len(held) - 1)

Release ==
  /\ step \in {"undo", "unload"}
  /\ IF held = <<>> THEN step' = "out" /\ UNCHANGED held
                    ELSE held' = GivenBack /\ UNCHANGED step
  /\ UNCHANGED <<list, lookup>>

(* The module is removed when nobody has the device open.                  *)
lgdrv_exit ==
  /\ step = "loaded"
  /\ \A t \in Callers : at[t] \in {"idle", "back"}
  /\ step' = "unload"
  /\ UNCHANGED <<held, list, lookup>>
-----------------------------------------------------------------------------
Enter(t) == /\ mixed' = (mixed \/ step = "half" \/ \E u \in Callers \ {t} : at[u] \in Inside)
            /\ early' = IF step = "load" THEN early \cup {t} ELSE early
Goto(t, l) == at' = [at EXCEPT ![t] = l]
Fault(t)   == Goto(t, "fault")    \* the kernel ends the thread

(* _mmap_info_update copies the regions of the process and searches them.   *)
get_region(a) ==
  LET Side(i) == SideOf(a, Vmas[i + 1].beg, Vmas[i + 1].end)
      i       == IF Vmas = <<>> THEN -1 ELSE Hit(Len(Vmas), Side)
  IN IF a = 0 \/ i = -1 THEN NoReg ELSE Vmas[i + 1]

(* lgdrv_llseek.  An address in no region is answered 0, and the library   *)
(* does not read.  A thread whose last node was lost asks no more: its next *)
(* node would need another name.                                           *)
lgdrv_llseek(t, a) ==
  /\ at[t] \in {"idle", "back"} /\ t \notin live
  /\ "device" \in {held[i] : i \in DOMAIN held} /\ step \in {"load", "half", "loaded"}
  /\ asked' = [asked EXCEPT ![t] = a] /\ answer' = [answer EXCEPT ![t] = NoReg]
  /\ node' = [node EXCEPT ![t] = [addr |-> a, reg |-> get_region(a)]]
  /\ IF get_region(a) # NoReg THEN live' = live \cup {t} /\ Goto(t, "insert") /\ Enter(t)
                     ELSE Goto(t, "back") /\ UNCHANGED <<live, early, mixed>>
  /\ UNCHANGED <<step, held, next, prev, cur>>

(* LS_INS_BEFORE: the node's own links, then its neighbours'.               *)
InsertNode(t) ==
  /\ at[t] = "insert"
  /\ prev' = [prev EXCEPT ![t] = prev[Base]] /\ next' = [next EXCEPT ![t] = Base]
  /\ Goto(t, "link")
  /\ UNCHANGED <<step, held, live, asked, cur, node, answer, early, mixed>>

LinkNode(t) ==
  /\ at[t] = "link"
  /\ IF prev[t] \in live \cup {Base}
     THEN next' = [next EXCEPT ![prev[t]] = t] /\ Goto(t, "tail")
     ELSE Fault(t) /\ UNCHANGED next
  /\ UNCHANGED <<step, held, prev, live, asked, cur, node, answer, early, mixed>>

LinkTail(t) ==
  /\ at[t] = "tail"
  /\ prev' = [prev EXCEPT ![Base] = t]
  /\ Goto(t, "sought")
  /\ UNCHANGED <<step, held, next, live, asked, cur, node, answer, early, mixed>>

(* lgdrv_read: the search, from the first node.                            *)
lgdrv_read(t) ==
  /\ at[t] = "sought"
  /\ cur' = [cur EXCEPT ![t] = next[Base]]
  /\ Goto(t, "find") /\ Enter(t)
  /\ UNCHANGED <<step, held, list, asked, node, answer>>

IsFirst(t, n) == TRUE                           \* mutant: the first node will do
IsMine(t, n) == n = t /\ node[n].addr = asked[t]  \* pid and address

Find(t) ==
  /\ at[t] = "find"
  /\ CASE cur[t] = Base                       -> Goto(t, "back") /\ UNCHANGED cur
       [] cur[t] \notin live \cup {Base}      -> Fault(t) /\ UNCHANGED cur
       [] cur[t] \in live /\ IsMine(t, cur[t])  -> Goto(t, "match") /\ UNCHANGED cur
       [] cur[t] \in live /\ ~IsMine(t, cur[t]) ->
            cur' = [cur EXCEPT ![t] = next[cur[t]]] /\ UNCHANGED at
  /\ UNCHANGED <<step, held, list, asked, node, answer, early, mixed>>

(* LS_REMQUE and kfree.                                                    *)
Unlink(t) ==
  /\ at[t] = "match"
  /\ LET n == cur[t] IN
       /\ answer' = [answer EXCEPT ![t] = node[n].reg]
       /\ IF next[n] = n THEN Goto(t, "free") /\ UNCHANGED next
          ELSE IF prev[n] \in live \cup {Base}
               THEN next' = [next EXCEPT ![prev[n]] = next[n]] /\ Goto(t, "relink")
               ELSE Fault(t) /\ UNCHANGED next
  /\ UNCHANGED <<step, held, prev, live, asked, cur, node, early, mixed>>

Relink(t) ==
  /\ at[t] = "relink"
  /\ LET n == cur[t] IN
       IF next[n] \in live \cup {Base}
       THEN prev' = [prev EXCEPT ![next[n]] = prev[n]] /\ Goto(t, "free")
       ELSE Fault(t) /\ UNCHANGED prev
  /\ UNCHANGED <<step, held, next, live, asked, cur, node, answer, early, mixed>>

FreeNode(t) ==
  /\ at[t] = "free"
  /\ live' = live \ {cur[t]}
  /\ next' = [next EXCEPT ![cur[t]] = Null] /\ prev' = [prev EXCEPT ![cur[t]] = Null]
  /\ Goto(t, "back")
  /\ UNCHANGED <<step, held, asked, cur, node, answer, early, mixed>>

DrvStep(t) ==
  InsertNode(t) \/ LinkNode(t) \/ LinkTail(t) \/ lgdrv_read(t) \/ Find(t)
    \/ Unlink(t) \/ Relink(t) \/ FreeNode(t)

Loading == Acquire \/ InitList \/ InitNext \/ Release \/ lgdrv_exit
=============================================================================
