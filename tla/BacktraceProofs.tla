--------------------------- MODULE BacktraceProofs ---------------------------
(***************************************************************************)
(* Proofs about the kernel driver as Backtrace uses it: what the kernel    *)
(* holds for it is given back in order, and a thread is answered about its *)
(* own address, although all lookups stand in one list nobody locks.  And  *)
(* about the traces that use it: that one of a thread that runs on, from   *)
(* registers that may be stale, keeps to that thread's stack.              *)
(***************************************************************************)
EXTENDS Backtrace, SequenceTheorems, WellFoundedInduction, TLAPS

-----------------------------------------------------------------------------
(* The invariant of the lookups. *)

Where == {"idle", "back", "fault", "sought"} \cup Inside

\* What a thread was asked for is in its node, and comes back as its answer.
OwnNode ==
    /\ at \in [Callers -> Where]
    /\ next \in [Nodes -> Nodes \cup {Null}] /\ prev \in [Nodes -> Nodes \cup {Null}]
    /\ live \subseteq Callers
    /\ asked = [t \in Callers |-> asked[t]] /\ cur = [t \in Callers |-> cur[t]]
    /\ answer = [t \in Callers |-> answer[t]]
    /\ node = [t \in Callers |-> [addr |-> asked[t], reg |-> get_region(asked[t])]]
    /\ \A t \in Callers : at[t] \in {"match", "relink", "free"} => cur[t] = t
    /\ \A t \in Callers : answer[t] \in {NoReg, get_region(asked[t])}

\* The nodes in the list: those linked in, forwards at least, and not yet taken out.
InList(t) == at[t] \in {"tail", "sought", "find", "match"}
Members == {t \in Callers : InList(t)}
Linked == Members \cup {Base}

\* The order of the list is that of a number the nodes were given as they came.
Rank(rank, n) == IF n = Base THEN 0 ELSE rank[n]

\* From every node the list goes on with the next one that came, and at last with
\* its head.
Forwards(rank) ==
    \A a \in Linked :
        /\ next[a] \in Linked
        /\ next[a] # Base => Rank(rank, a) < rank[next[a]]
        /\ \A c \in Members : Rank(rank, a) < rank[c] => next[a] # Base /\ rank[next[a]] <= rank[c]

\* What is behind a node leads to it, but where a thread is between the two halves
\* of an insertion or of a removal.
Halfway(b) ==
    \E t \in Callers : \/ at[t] = "tail" /\ b = Base
                       \/ at[t] = "relink" /\ b = next[t]
Backwards == \A b \in Linked : Halfway(b) \/ (prev[b] \in Linked /\ next[prev[b]] = b)

Order(rank) ==
    /\ rank \in [Callers -> Nat \ {0}]
    /\ Forwards(rank)
    /\ \A t, u \in Members : rank[t] = rank[u] => t = u
    /\ \A t \in Callers : at[t] = "find" => cur[t] \in Members /\ rank[cur[t]] <= rank[t]

\* The thread in the list, while it changes it.
Changing ==
    /\ \A t \in Callers : at[t] = "link" => prev[t] = prev[Base] \/ (prev[t] = Null /\ t \in early)
    /\ \A t \in Callers : at[t] \in {"link", "tail"} => next[t] = Base
    /\ \A t \in Callers : at[t] = "relink" =>
          next[t] \in Linked /\ prev[t] \in Linked /\ next[prev[t]] = next[t]

\* The list before LS_INIT: a thread that comes then stops at the first link.
Unready ==
    /\ next[Base] = Null /\ prev[Base] = Null
    /\ \A t \in Callers :
          /\ at[t] \in {"idle", "back", "insert", "link", "fault"}
          /\ at[t] = "insert" => t \in early
          /\ at[t] = "link" => t \in early /\ prev[t] = Null /\ next[t] = Base

\* The list between the two assignments of LS_INIT: nobody is in it.
HalfReady ==
    /\ next[Base] = Null /\ prev[Base] = Base
    /\ \A t \in Callers : at[t] \in {"idle", "back", "fault"}

\* The list once it is initialised.
Ready == (\E rank \in [Callers -> Nat \ {0}] : Order(rank)) /\ Backwards /\ Changing

ListInv ==
    /\ step # "half" => Unready \/ Ready
    /\ step = "load" => Unready
    /\ step = "half" => HalfReady
    /\ step = "loaded" => Ready

\* As long as no two threads have been in the list at once.
Alone ==
    /\ \A t, u \in Callers : at[t] \in Inside /\ at[u] \in Inside => t = u
    /\ live = {t \in Callers : at[t] \notin {"idle", "back"}}
    /\ \A t \in Callers : at[t] = "fault" => t \in early
    /\ \A t \in Callers : at[t] \in {"relink", "free", "back"} => answer[t] = get_region(asked[t])
    /\ ListInv

LookupInv == OwnNode /\ (~mixed => Alone)
-----------------------------------------------------------------------------
(* Steps of the driver. *)

Lookups == \E t \in Callers : \E a : lgdrv_llseek(t, a)
DrvNext == Loading \/ Lookups \/ \E t \in Callers : DrvStep(t)

\* What a step of Backtrace does to the driver is a step of the driver.
LEMMA DriverSteps ==
    ASSUME [Next]_vars PROVE DrvNext \/ UNCHANGED drvVars
<1>1. CASE UNCHANGED vars
  BY <1>1 DEF vars
<1>2. CASE Driver
  BY <1>2 DEF Driver, OtherAsks, DrvNext, Lookups
<1>3. CASE AskRegion
  BY <1>3, TraceConstants DEF AskRegion, DrvNext, Lookups
<1>4. CASE Loading
  BY <1>4 DEF DrvNext
<1>5. CASE build_context_frame \/ stack_trace \/ \E t \in Tracers : Walk(t)
  BY <1>5 DEF build_context_frame, stack_trace, Walk
<1>6. CASE \E t \in Targets : \/ TraceSelf(t) \/ CopySp(t) \/ CopyPc(t) \/ get_frame_sig(t)
                              \/ lgdrv_ioctl(t) \/ TargetReturns(t) \/ EntersKernel(t)
  BY <1>6 DEF TraceSelf, CopySp, CopyPc, get_frame_sig, lgdrv_ioctl, TargetReturns, EntersKernel
<1>7. CASE \E t \in Targets, f \in DOMAIN prog.funs, off \in {2, 3} : TargetCalls(t, f, off)
  BY <1>7 DEF TargetCalls
<1> QED BY <1>1, <1>2, <1>3, <1>4, <1>5, <1>6, <1>7 DEF Next

-----------------------------------------------------------------------------
(* Loading and unloading. *)

PartNames == {"region", "cdev", "class", "device"}
HeldInv ==
    /\ held \in Seq(PartNames)
    /\ Len(held) <= 4
    /\ \A i \in 1 .. Len(held) : held[i] = Parts[i]
    /\ step = "out" => held = <<>>

LEMMA PartsType == Parts \in Seq(PartNames) /\ Len(Parts) = 4
  BY DEF Parts, PartNames

LEMMA HeldInit == Init => HeldInv
<1> SUFFICES ASSUME Init PROVE HeldInv
  OBVIOUS
<1>1. \E loaded \in BOOLEAN : step = (IF loaded THEN "loaded" ELSE "load")
                               /\ held = IF loaded THEN Parts ELSE <<>>
  BY DEF Init, DrvInit
<1>2. CASE held = <<>> /\ step = "load"
  BY <1>2 DEF HeldInv
<1>3. CASE held = Parts /\ step = "loaded"
  BY <1>3, PartsType DEF HeldInv
<1> QED BY <1>1, <1>2, <1>3

LEMMA HeldStep == ASSUME HeldInv, DrvNext \/ UNCHANGED drvVars PROVE HeldInv'
<1> USE DEF HeldInv
<1>1. CASE Acquire /\ held' # held
  <2>1. /\ Len(held) < 4 /\ step = "load" /\ step' = step
        /\ held' = Append(held, Parts[Len(held) + 1])
    BY <1>1 DEF Acquire, Parts
  <2>2. Len(held) + 1 \in 1 .. 4 /\ Parts[Len(held) + 1] \in PartNames
    BY <2>1, PartsType
  <2> QED BY <2>1, <2>2
<1>2. CASE Release /\ held' # held
  <2>1. held # <<>> /\ held' = SubSeq(held, 1, Len(held) - 1) /\ step' = step /\ step # "out"
    BY <1>2 DEF Release, GivenBack
  <2>2. Len(held) \in Nat \ {0} /\ Len(held) <= 4
    BY <2>1, EmptySeq
  <2>3. /\ held' \in Seq(PartNames)
        /\ Len(held') = Len(held) - 1
        /\ \A i \in 1 .. Len(held) - 1 : held'[i] = held[i]
    <3>1. \A i \in 1 .. Len(held) - 1 : held[i] \in PartNames
      BY <2>2
    <3>2. 1 \in Int /\ Len(held) - 1 \in Int
      BY <2>2
    <3>3. /\ held' \in Seq(PartNames)
          /\ Len(held') = IF 1 <= Len(held) - 1 THEN Len(held) - 1 - 1 + 1 ELSE 0
          /\ \A i \in 1 .. Len(held) - 1 - 1 + 1 : held'[i] = held[1 + i - 1]
      BY <2>1, <3>1, <3>2, SubSeqProperties
    <3>4. \A i \in 1 .. Len(held) - 1 : i \in 1 .. Len(held) - 1 - 1 + 1 /\ 1 + i - 1 = i
      BY <2>2
    <3>5. \A n \in Nat \ {0} : (IF 1 <= n - 1 THEN n - 1 - 1 + 1 ELSE 0) = n - 1
      OBVIOUS
    <3>6. \A i \in 1 .. Len(held) - 1 : held'[i] = held[i]
      BY <3>3, <3>4
    <3> QED BY <2>2, <3>3, <3>5, <3>6
  <2> QED BY <2>1, <2>2, <2>3
<1>3. CASE held' = held /\ (step' # "out" \/ step' = step \/ held = <<>>)
  BY <1>3
<1>4. ASSUME NEW t \in Callers, DrvStep(t) PROVE UNCHANGED <<step, held>>
  BY <1>4 DEF DrvStep, InsertNode, LinkNode, LinkTail, lgdrv_read, Find, Unlink, Relink, FreeNode
<1>5. ASSUME Lookups PROVE UNCHANGED <<step, held>>
  BY <1>5 DEF Lookups, lgdrv_llseek
<1>6. ASSUME Loading PROVE \/ Acquire /\ held' # held
                           \/ Release /\ held' # held
                           \/ held' = held /\ (step' # "out" \/ step' = step \/ held = <<>>)
  BY <1>6 DEF Loading, Acquire, InitList, InitNext, Release, lgdrv_exit
<1> QED BY <1>1, <1>2, <1>3, <1>4, <1>5, <1>6 DEF DrvNext, drvVars

\* lgdrv_init, when it fails, and lgdrv_exit give everything back that the kernel
\* holds for the driver, and what was got last goes first (GivenBackInOrder).
THEOREM PartsAreGivenBack == Spec => []GivenBackInOrder
<1>1. HeldInv => GivenBackInOrder
  <2> SUFFICES ASSUME HeldInv PROVE IsPrefix(held, Parts)
    BY DEF HeldInv, GivenBackInOrder
  <2>1. Len(held) \in Nat /\ Len(held) <= 4 /\ Len(Parts) = 4 /\ Parts \in Seq(PartNames) /\ held \in Seq(PartNames)
    BY PartsType, LenProperties DEF HeldInv
  <2>2. SubSeq(held, 1, Len(held)) = SubSeq(Parts, 1, Len(held))
    <3>1. /\ SubSeq(held, 1, Len(held)) = [i \in 1 .. Len(held) |-> held[i]]
          /\ SubSeq(Parts, 1, Len(held)) = [i \in 1 .. Len(held) |-> Parts[i]]
      BY <2>1
    <3> QED BY <3>1 DEF HeldInv
  <2> QED BY <2>1, <2>2 DEF IsPrefix
<1>2. HeldInv /\ [Next]_vars => HeldInv'
  BY DriverSteps, HeldStep
<1> QED BY <1>1, <1>2, HeldInit, PTL DEF Spec
-----------------------------------------------------------------------------
(* Nodes are named after their threads. *)

LEMMA OwnInit == Init => OwnNode
<1> SUFFICES ASSUME Init PROVE OwnNode
  OBVIOUS
<1>1. PICK c \in Cases : DrvInit(c.how \in {"driver", "running"})
  BY DEF Init
<1>2. get_region(0) = NoReg
  BY DEF get_region
<1> QED BY <1>1, <1>2, DrvConstants DEF OwnNode, DrvInit, Where, Nodes

LEMMA OwnAsked ==
    ASSUME OwnNode, NEW t \in Callers, NEW a, lgdrv_llseek(t, a) PROVE OwnNode'
<1> DEFINE l == IF get_region(a) # NoReg THEN "insert" ELSE "back"
<1>1. /\ at' = [at EXCEPT ![t] = l]
      /\ asked' = [asked EXCEPT ![t] = a] /\ answer' = [answer EXCEPT ![t] = NoReg]
      /\ node' = [node EXCEPT ![t] = [addr |-> a, reg |-> get_region(a)]]
      /\ live' \in SUBSET Callers
      /\ UNCHANGED <<next, prev, cur>>
  BY DEF lgdrv_llseek, Goto, OwnNode
<1>2. l \in Where \ {"match", "relink", "free"}
  BY DEF Where, Inside
<1> HIDE DEF l
<1>3. node' = [u \in Callers |-> [addr |-> asked'[u], reg |-> get_region(asked'[u])]]
  BY <1>1 DEF OwnNode
<1> QED BY <1>1, <1>2, <1>3 DEF OwnNode

LEMMA OwnSteps ==
    ASSUME OwnNode, NEW t \in Callers, DrvStep(t) PROVE OwnNode'
<1> USE DEF OwnNode
<1>1. Base \in Nodes /\ t \in Nodes /\ UNCHANGED <<asked, node>>
  BY DEF Nodes, DrvStep, InsertNode, LinkNode, LinkTail, lgdrv_read, Find, Unlink, Relink, FreeNode
<1>2. /\ next' \in [Nodes -> Nodes \cup {Null}] /\ prev' \in [Nodes -> Nodes \cup {Null}]
      /\ live' \subseteq Callers
  <2>1. CASE InsertNode(t) \/ LinkNode(t) \/ LinkTail(t)
    BY <1>1, <2>1 DEF InsertNode, LinkNode, LinkTail
  <2>2. CASE lgdrv_read(t) \/ Find(t)
    BY <2>2 DEF lgdrv_read, Find, list
  <2>3. CASE Unlink(t) \/ Relink(t) \/ FreeNode(t)
    <3>1. cur[t] = t
      BY <2>3 DEF Unlink, Relink, FreeNode
    <3>2. next[t] \in Nodes \cup {Null} /\ prev[t] \in Nodes \cup {Null}
      BY <1>1
    <3>3. CASE Unlink(t)
      <4>1. /\ next' = next \/ next' = [next EXCEPT ![prev[t]] = next[t]]
            /\ UNCHANGED <<prev, live>>
        BY <3>1, <3>3 DEF Unlink
      <4> QED BY <3>2, <4>1
    <3>4. CASE Relink(t)
      <4>1. /\ prev' = prev \/ prev' = [prev EXCEPT ![next[t]] = prev[t]]
            /\ UNCHANGED <<next, live>>
        BY <3>1, <3>4 DEF Relink
      <4> QED BY <3>2, <4>1
    <3>5. CASE FreeNode(t)
      BY <1>1, <3>1, <3>5 DEF FreeNode
    <3> QED BY <2>3, <3>3, <3>4, <3>5
  <2> QED BY <2>1, <2>2, <2>3 DEF DrvStep
<1>3. \A u \in Callers : answer'[u] \in {NoReg, get_region(asked'[u])}
  <2>1. CASE Unlink(t)
    <3>1. answer' = [answer EXCEPT ![t] = get_region(asked[t])]
      BY <2>1 DEF Unlink
    <3> QED BY <1>1, <3>1
  <2>2. CASE UNCHANGED answer
    BY <1>1, <2>2
  <2> QED BY <2>1, <2>2 DEF DrvStep, InsertNode, LinkNode, LinkTail, lgdrv_read, Find, Relink, FreeNode
<1>4. answer' = [u \in Callers |-> answer'[u]]
  BY DEF DrvStep, InsertNode, LinkNode, LinkTail, lgdrv_read, Find, Unlink, Relink, FreeNode
<1>5. /\ at' \in [Callers -> Where] /\ cur' = [u \in Callers |-> cur'[u]]
      /\ \A u \in Callers : at'[u] \in {"match", "relink", "free"} => cur'[u] = u
  <2>1. CASE InsertNode(t) \/ LinkNode(t) \/ LinkTail(t) \/ FreeNode(t)
    BY <2>1 DEF InsertNode, LinkNode, LinkTail, FreeNode, Goto, Fault, Where, Inside
  <2>2. CASE lgdrv_read(t)
    BY <2>2 DEF lgdrv_read, Goto, Where, Inside
  <2>3. CASE Find(t)
    BY <2>3 DEF Find, IsMine, Goto, Fault, Where, Inside
  <2>4. CASE Unlink(t) \/ Relink(t)
    BY <2>4 DEF Unlink, Relink, Goto, Fault, Where, Inside
  <2> QED BY <2>1, <2>2, <2>3, <2>4 DEF DrvStep
<1> QED BY <1>1, <1>2, <1>3, <1>4, <1>5

LEMMA OwnStep == ASSUME OwnNode, DrvNext \/ UNCHANGED drvVars PROVE OwnNode'
<1>1. CASE UNCHANGED drvVars
  BY <1>1 DEF OwnNode, drvVars
<1>2. CASE Loading
  <2>1. /\ next' \in [Nodes -> Nodes \cup {Null}] /\ prev' \in [Nodes -> Nodes \cup {Null}]
        /\ UNCHANGED <<live, asked, at, cur, node, answer, early>>
    BY <1>2 DEF OwnNode, Loading, Acquire, InitList, InitNext, Release, lgdrv_exit, list, lookup, Nodes
  <2> QED BY <2>1 DEF OwnNode
<1> QED BY <1>1, <1>2, OwnAsked, OwnSteps DEF DrvNext, Lookups
-----------------------------------------------------------------------------
(* One thread at a time. *)

\* Before LS_INIT no node is linked in, and after it the list is one or the other.
LEMMA EitherList == ListInv => (Ready => ~Unready)
<1> SUFFICES ASSUME Ready, Unready PROVE FALSE
  OBVIOUS
<1>1. next[Base] \in Linked
  BY DEF Ready, Order, Forwards, Linked
<1> QED BY <1>1, DrvConstants DEF Unready, Linked, Members

LEMMA NotHalf ==
    ASSUME Alone, NEW t \in Callers, at[t] \notin {"idle", "back", "fault"}
    PROVE  step # "half" /\ (Unready \/ Ready)
BY DEF Alone, ListInv, HalfReady

LEMMA MembersLive ==
    ASSUME OwnNode, Alone
    PROVE  /\ Members \subseteq live /\ live \subseteq Callers /\ Base \notin Callers
           /\ Null \notin live \cup {Base} /\ Linked \subseteq live \cup {Base}
BY DrvConstants DEF Alone, OwnNode, Members, InList, Linked

LEMMA AloneInit == Init => Alone
<1> SUFFICES ASSUME Init PROVE Alone
  OBVIOUS
<1>1. PICK c \in Cases : DrvInit(c.how \in {"driver", "running"})
  BY DEF Init
<1>2. /\ at = [t \in Callers |-> "idle"] /\ live = {} /\ Members = {} /\ Linked = {Base}
  BY <1>1 DEF DrvInit, Members, InList, Linked
<1>3. CASE next[Base] = Null /\ prev[Base] = Null /\ step = "load"
  BY <1>2, <1>3 DEF Alone, ListInv, Unready, Inside
<1>4. CASE next[Base] = Base /\ prev[Base] = Base /\ step = "loaded"
  <2>1. Order([t \in Callers |-> 1])
    BY <1>2, <1>4 DEF Order, Forwards
  <2>2. Ready
    <3>1. [t \in Callers |-> 1] \in [Callers -> Nat \ {0}]
      OBVIOUS
    <3>2. Backwards /\ Changing
      BY <1>2, <1>4 DEF Backwards, Changing
    <3> QED BY <2>1, <3>1, <3>2 DEF Ready
  <2> QED BY <1>2, <1>4, <2>2 DEF Alone, ListInv, Inside
<1> QED BY <1>1, <1>3, <1>4 DEF DrvInit, Nodes

\* Loading and unloading: LS_INIT makes a list without nodes.
LEMMA AloneLoading ==
    ASSUME OwnNode, Alone, Loading, ~mixed' PROVE Alone'
<1> USE DEF Alone
<1>0. UNCHANGED <<asked, at, cur, node, answer, early, live>>
  BY DEF Loading, Acquire, InitList, InitNext, Release, lgdrv_exit, list, lookup
<1>1. CASE Acquire \/ Release \/ lgdrv_exit
  <2>1. /\ (step' = "load" => step = "load") /\ (step' = "loaded" => step = "loaded")
        /\ step # "half" /\ step' # "half" /\ UNCHANGED list
    BY <1>1 DEF Acquire, Release, lgdrv_exit
  <2>2. ListInv'
    BY <1>0, <2>1 DEF list, ListInv, Unready, Ready, Order, Forwards, Backwards, Halfway,
                      Changing, Members, InList, Linked, Rank
  <2> QED BY <1>0, <2>2
<1>2. CASE InitList
  <2>1. /\ prev' = [prev EXCEPT ![Base] = Base] /\ UNCHANGED next /\ step' = "half"
        /\ Unready /\ Base \in Nodes /\ \A t \in Callers : at[t] \notin Inside
    BY <1>2 DEF InitList, ListInv, Nodes
  <2>2. HalfReady'
    BY <1>0, <2>1 DEF HalfReady, Unready, Inside, OwnNode
  <2> QED BY <1>0, <2>1, <2>2 DEF ListInv
<1>3. CASE InitNext
  <2>1. /\ next' = [next EXCEPT ![Base] = Base] /\ UNCHANGED prev
        /\ step' = "loaded" /\ HalfReady /\ Base \in Nodes
    BY <1>3 DEF InitNext, ListInv, Nodes
  <2>2. Members' = {} /\ Linked' = {Base} /\ next'[Base] = Base /\ prev'[Base] = Base
    BY <1>0, <2>1 DEF HalfReady, Members, InList, Linked, OwnNode
  <2>3. Order([t \in Callers |-> 1])'
    BY <1>0, <2>1, <2>2 DEF Order, Forwards, HalfReady
  <2>4. Backwards'
    BY <2>2 DEF Backwards
  <2>5. Changing'
    BY <1>0, <2>1 DEF Changing, HalfReady
  <2>6. Ready'
    <3>1. [t \in Callers |-> 1] \in [Callers -> Nat \ {0}]
      OBVIOUS
    <3> QED BY <2>3, <2>4, <2>5, <3>1 DEF Ready
  <2>7. ListInv'
    BY <2>1, <2>6 DEF ListInv
  <2> QED BY <1>0, <2>7
<1> QED BY <1>1, <1>2, <1>3 DEF Loading

\* The list is where it was when a thread goes from one place to another outside
\* of it, and the nodes in it are the same.
LEMMA ListKept ==
    ASSUME ListInv, NEW t \in Callers, NEW l, OwnNode,
           at' = [at EXCEPT ![t] = l], ~InList(t), at[t] # "relink",
           l \in {"idle", "back", "insert", "fault"},
           l = "insert" /\ step = "load" => t \in early',
           l = "insert" => step \in {"load", "loaded"},
           early \subseteq early', UNCHANGED <<next, prev, cur, step>>
    PROVE  ListInv'
<1>1. /\ at'[t] = l /\ \A u \in Callers : u # t => at'[u] = at[u]
  BY DEF OwnNode
<1>2. Members' = Members /\ Linked' = Linked
  BY <1>1 DEF Members, InList, Linked
<1>3. Unready /\ step # "loaded" => Unready'
  BY <1>1 DEF Unready
<1>5. HalfReady /\ step = "half" => HalfReady'
  BY <1>1 DEF HalfReady
<1>4. Ready => Ready'
  <2> SUFFICES ASSUME Ready PROVE Ready'
    OBVIOUS
  <2>1. ASSUME NEW rank \in [Callers -> Nat \ {0}], Order(rank) PROVE Order(rank)'
    BY <1>1, <1>2, <2>1 DEF Order, Forwards, Rank
  <2>2. ASSUME NEW b PROVE Halfway(b) => Halfway(b)'
    BY <1>1 DEF Halfway, InList
  <2>4. Backwards'
    BY <1>1, <1>2, <2>2 DEF Ready, Backwards
  <2>3. Changing'
    BY <1>1, <1>2 DEF Ready, Changing
  <2> QED BY <2>1, <2>4, <2>3 DEF Ready
<1> QED BY <1>1, <1>3, <1>4, <1>5 DEF ListInv

\* lgdrv_llseek makes a node, or has no region for the address.
LEMMA AloneAsked ==
    ASSUME OwnNode, Alone, NEW t \in Callers, NEW a, lgdrv_llseek(t, a), ~mixed' PROVE Alone'
<1> USE DEF Alone
<1>1. /\ at[t] \in {"idle", "back"} /\ step \in {"load", "half", "loaded"}
      /\ answer' = [answer EXCEPT ![t] = NoReg] /\ asked' = [asked EXCEPT ![t] = a]
      /\ UNCHANGED <<next, prev, cur, step>>
  BY DEF lgdrv_llseek
<1>2. CASE get_region(a) # NoReg
  <2>1. /\ at' = [at EXCEPT ![t] = "insert"] /\ live' = live \cup {t} /\ step # "half"
        /\ \A u \in Callers \ {t} : at[u] \notin Inside
        /\ early' = IF step = "load" THEN early \cup {t} ELSE early
    BY <1>2 DEF lgdrv_llseek, Goto, Enter
  <2>2. ListInv'
    BY <1>1, <2>1, ListKept DEF InList
  <2>3. live' = {u \in Callers : at'[u] \notin {"idle", "back"}}
    BY <1>1, <2>1 DEF OwnNode
  <2>4. \A u \in Callers : /\ at'[u] = "fault" => u \in early'
                           /\ at'[u] \in {"relink", "free", "back"} => answer'[u] = get_region(asked'[u])
    BY <1>1, <2>1 DEF OwnNode
  <2> QED BY <2>1, <2>2, <2>3, <2>4 DEF OwnNode, Inside
<1>3. CASE get_region(a) = NoReg
  <2>1. at' = [at EXCEPT ![t] = "back"] /\ UNCHANGED <<live, early>>
    BY <1>3 DEF lgdrv_llseek, Goto
  <2>2. ListInv'
    BY <1>1, <2>1, ListKept DEF InList
  <2>3. live' = {u \in Callers : at'[u] \notin {"idle", "back"}}
    BY <1>1, <2>1 DEF OwnNode
  <2>4. \A u \in Callers : /\ at'[u] = "fault" => u \in early'
                           /\ at'[u] \in {"relink", "free", "back"} => answer'[u] = get_region(asked'[u])
    BY <1>1, <1>3, <2>1 DEF OwnNode
  <2> QED BY <2>1, <2>2, <2>3, <2>4 DEF OwnNode, Inside
<1> QED BY <1>2, <1>3

\* What goes without saying when the thread in the list takes one of its steps.
LEMMA AloneFrame ==
    ASSUME OwnNode, Alone, NEW t \in Callers, NEW l,
           at[t] \in Inside, at' = [at EXCEPT ![t] = l],
           l \notin {"idle", "back"},
           l = "fault" => t \in early,
           l \in {"relink", "free"} => answer'[t] = get_region(asked[t]),
           \A u \in Callers \ {t} : answer'[u] = answer[u],
           UNCHANGED <<live, early, asked>>, ListInv'
    PROVE  Alone'
<1> USE DEF Alone
<1>1. /\ at'[t] = l /\ \A u \in Callers \ {t} : at'[u] = at[u] /\ at[u] \notin Inside
  BY DEF OwnNode
<1>2. live' = {u \in Callers : at'[u] \notin {"idle", "back"}}
  BY <1>1 DEF Inside
<1>3. \A u, v \in Callers : at'[u] \in Inside /\ at'[v] \in Inside => u = v
  BY <1>1
<1>4. \A u \in Callers : /\ at'[u] = "fault" => u \in early'
                         /\ at'[u] \in {"relink", "free", "back"} => answer'[u] = get_region(asked'[u])
  BY <1>1
<1> QED BY <1>2, <1>3, <1>4

\* LS_INS_BEFORE: the node points to the end of the list and to its head.
LEMMA AloneInsert ==
    ASSUME OwnNode, Alone, NEW t \in Callers, InsertNode(t) PROVE Alone'
<1>1. /\ at[t] = "insert" /\ at' = [at EXCEPT ![t] = "link"]
      /\ prev' = [prev EXCEPT ![t] = prev[Base]] /\ next' = [next EXCEPT ![t] = Base]
      /\ UNCHANGED <<live, early, asked, answer, cur, step>>
  BY DEF InsertNode, Goto
<1>2. /\ t \in Nodes /\ Base \in Nodes /\ t # Base /\ t \notin Linked
      /\ at'[t] = "link" /\ \A u \in Callers \ {t} : at'[u] = at[u] /\ at[u] \notin Inside
      /\ next'[t] = Base /\ prev'[t] = prev[Base]
      /\ \A n \in Nodes \ {t} : next'[n] = next[n] /\ prev'[n] = prev[n]
  BY <1>1, DrvConstants DEF OwnNode, Alone, Nodes, Linked, Members, InList, Inside
<1>3. Members' = Members /\ Linked' = Linked /\ Linked \subseteq Nodes \ {t}
  BY <1>1, <1>2 DEF Members, InList, Linked, Nodes
<1>4. ListInv'
  <2>1. CASE Unready
    <3>1. Unready'
      BY <1>1, <1>2, <2>1 DEF Unready, Inside
    <3> QED BY <1>1, <2>1, <3>1, NotHalf, EitherList DEF Alone, ListInv
  <2>2. CASE Ready
    <3>1. ASSUME NEW rank \in [Callers -> Nat \ {0}], Order(rank) PROVE Order(rank)'
      BY <1>1, <1>2, <1>3, <3>1 DEF Order, Forwards, Rank, Inside
    <3>2. ASSUME NEW b PROVE ~Halfway(b)
      BY <1>1, <1>2 DEF Halfway, Inside
    <3>3. Backwards'
      BY <1>2, <1>3, <2>2, <3>2 DEF Ready, Backwards
    <3>4. Changing'
      BY <1>1, <1>2 DEF Changing, Inside
    <3>5. Ready'
      BY <2>2, <3>1, <3>3, <3>4 DEF Ready
    <3> QED BY <1>1, <2>2, <3>5, NotHalf, EitherList DEF Alone, ListInv
  <2> QED BY <1>1, <2>1, <2>2, NotHalf
<1> QED BY <1>1, <1>4, AloneFrame DEF Inside

\* The last node points to the new one: from here on it is in the list.
LEMMA AloneLink ==
    ASSUME OwnNode, Alone, NEW t \in Callers, LinkNode(t) PROVE Alone'
<1> DEFINE l == prev[t]
<1>1. /\ at[t] = "link" /\ UNCHANGED <<prev, live, early, asked, answer, cur, step>>
      /\ l \in live \cup {Base} => at' = [at EXCEPT ![t] = "tail"] /\ next' = [next EXCEPT ![l] = t]
      /\ l \notin live \cup {Base} => at' = [at EXCEPT ![t] = "fault"] /\ next' = next
  BY DEF LinkNode, Goto, Fault
<1>2. /\ \A u \in Callers \ {t} : at'[u] = at[u] /\ at[u] \notin Inside
      /\ t \notin Linked /\ t \in Nodes /\ Base # t /\ Members \subseteq Callers \ {t}
  BY <1>1, DrvConstants DEF OwnNode, Alone, Members, InList, Linked, Inside, Nodes
<1>3. ASSUME l = Null, t \in early PROVE Alone'
  <2>1. l \notin live \cup {Base}
    BY <1>3, MembersLive
  <2>2. ListInv'
    BY <1>1, <2>1, ListKept DEF Alone, InList
  <2> QED BY <1>1, <1>3, <2>1, <2>2, AloneFrame DEF Inside
<1>4. CASE Unready
  BY <1>1, <1>3, <1>4 DEF Unready
<1>5. CASE Ready /\ ~(l = Null /\ t \in early)
  <2>0. ASSUME NEW b PROVE ~Halfway(b)
    BY <1>1, <1>2 DEF Halfway, Inside
  <2>1. l = prev[Base] /\ next[t] = Base /\ l \in Linked /\ next[l] = Base /\ l # t
    BY <1>1, <1>2, <1>5, <2>0 DEF Ready, Changing, Backwards, Linked
  <2>2. /\ at' = [at EXCEPT ![t] = "tail"] /\ next' = [next EXCEPT ![l] = t] /\ at'[t] = "tail"
    BY <1>1, <2>1, MembersLive DEF OwnNode
  <2>3. /\ Members' = Members \cup {t} /\ Linked' = Linked \cup {t} /\ Linked \subseteq Nodes
        /\ next'[l] = t /\ \A n \in Nodes \ {l} : next'[n] = next[n]
    BY <1>2, <2>1, <2>2 DEF Members, InList, Linked, Nodes, OwnNode
  <2>4. PICK rank \in [Callers -> Nat \ {0}] : Order(rank)
    BY <1>5 DEF Ready
  <2>a. \A n \in Linked : Rank(rank, n) \in Nat /\ n # t
    BY <1>2 DEF Rank, Linked, Members
  <2>b. PICK top \in Nat \ {0} : top = Rank(rank, l) + 1
    BY <2>1, <2>a
  <2>c. PICK new \in [Callers -> Nat \ {0}] : new = [rank EXCEPT ![t] = top]
    OBVIOUS
  <2>5. /\ \A c \in Members : rank[c] < top /\ new[c] = rank[c] /\ rank[c] \in Nat \ {0}
        /\ new[t] = top /\ Rank(new, t) = top
        /\ \A n \in Linked : Rank(new, n) = Rank(rank, n) /\ Rank(rank, n) \in Nat
    <3>1. \A c \in Members : ~(Rank(rank, l) < rank[c])
      BY <2>1, <2>4 DEF Order, Forwards
    <3>2. \A c \in Members : c # t /\ rank[c] \in Nat \ {0} /\ new[c] = rank[c]
      BY <1>2, <2>c
    <3>3. new[t] = top /\ Rank(new, t) = top
      BY <1>2, <2>c DEF Rank
    <3>4. \A n \in Linked : Rank(new, n) = Rank(rank, n)
      BY <3>2 DEF Rank, Linked
    <3>5. \A c \in Members : rank[c] < top
      BY <2>1, <2>a, <2>b, <3>1, <3>2
    <3> QED BY <2>a, <3>2, <3>3, <3>4, <3>5
  <2>6. Forwards(new)'
    <3> SUFFICES ASSUME NEW a \in Linked \cup {t}
                 PROVE  /\ next'[a] \in Linked \cup {t}
                        /\ next'[a] # Base => Rank(new, a) < new[next'[a]]
                        /\ \A c \in Members \cup {t} :
                              Rank(new, a) < new[c] => next'[a] # Base /\ new[next'[a]] <= new[c]
      BY <2>3 DEF Forwards, Rank
    <3>1. CASE a = t
      <4>1. next'[a] = Base
        BY <1>2, <2>1, <2>3, <3>1
      <4>2. \A c \in Members \cup {t} : ~(top < new[c])
        BY <2>5
      <4> QED BY <2>5, <3>1, <4>1, <4>2 DEF Linked
    <3>2. CASE a = l
      <4>1. next'[a] = t /\ Rank(new, a) < top
        BY <2>1, <2>3, <2>5, <2>b, <3>2
      <4>2. \A c \in Members : ~(Rank(new, a) < new[c])
        BY <2>1, <2>5, <2>b, <3>2
      <4> QED BY <1>2, <2>5, <4>1, <4>2
    <3>3. CASE a # t /\ a # l
      <4>1. next'[a] = next[a] /\ a \in Linked /\ Rank(new, a) = Rank(rank, a)
        BY <2>3, <2>5, <3>3
      <4>2. /\ next[a] \in Linked
            /\ next[a] # Base => Rank(rank, a) < rank[next[a]]
            /\ \A c \in Members : Rank(rank, a) < rank[c] => next[a] # Base /\ rank[next[a]] <= rank[c]
        BY <2>4, <4>1 DEF Order, Forwards
      <4>3. l \in Members /\ Rank(rank, a) < rank[l]
        <5>1. l # Base
          <6> SUFFICES ASSUME l = Base PROVE FALSE
            OBVIOUS
          <6>1. a \in Members /\ rank[a] < 1 /\ rank[a] \in Nat \ {0}
            BY <2>5, <2>b, <3>3, <4>1 DEF Linked, Rank
          <6> QED BY <6>1
        <5>2. l \in Members /\ Rank(rank, l) = rank[l] /\ rank[l] \in Nat \ {0}
          BY <2>1, <2>5, <5>1 DEF Linked, Rank
        <5>3. CASE a = Base
          BY <5>2, <5>3 DEF Rank
        <5>4. CASE a # Base
          <6>1. a \in Members /\ rank[a] < rank[l] + 1 /\ rank[a] # rank[l] /\ rank[a] \in Nat
            BY <2>4, <2>5, <2>b, <3>3, <4>1, <5>2, <5>4 DEF Linked, Order
          <6> QED BY <5>2, <5>4, <6>1 DEF Rank
        <5> QED BY <5>2, <5>3, <5>4
      <4>4. next[a] # Base /\ next[a] \in Members /\ rank[next[a]] <= rank[l] /\ rank[l] < top
        BY <2>5, <4>2, <4>3 DEF Linked
      <4>5. new[next[a]] = rank[next[a]] /\ new[next[a]] <= top
        BY <2>5, <4>3, <4>4
      <4> QED BY <2>5, <4>1, <4>2, <4>4, <4>5
    <3> QED BY <3>1, <3>2, <3>3
  <2>7. Order(new)'
    <3>2. \A u, v \in Members' : new[u] = new[v] => u = v
      BY <2>3, <2>4, <2>5 DEF Order
    <3>3. \A u \in Callers : at'[u] # "find"
      BY <1>2, <2>2 DEF Inside
    <3> QED BY <2>6, <3>2, <3>3 DEF Order
  <2>8. Backwards'
    <3> SUFFICES ASSUME NEW b \in Linked', ~Halfway(b)'
                 PROVE  prev[b] \in Linked' /\ next'[prev[b]] = b
      BY <1>1 DEF Backwards
    <3>1. b # Base
      BY <2>2 DEF Halfway
    <3>2. CASE b = t
      BY <2>1, <2>3, <3>2
    <3>3. CASE b # t
      <4>1. prev[b] \in Linked /\ next[prev[b]] = b
        BY <1>5, <2>0, <2>3, <3>3 DEF Ready, Backwards
      <4> QED BY <2>1, <2>3, <3>1, <4>1
    <3> QED BY <3>2, <3>3
  <2>9. Changing'
    <3>1. next'[t] = Base
      BY <1>2, <2>1, <2>3
    <3>2. \A u \in Callers : at'[u] \in {"link", "tail", "relink"} => u = t
      BY <1>2 DEF Inside
    <3> QED BY <2>2, <3>1, <3>2 DEF Changing
  <2>10. ListInv'
    <3>1. Ready'
      BY <2>7, <2>8, <2>9 DEF Ready
    <3> QED BY <1>1, <1>5, <3>1, NotHalf, EitherList DEF Alone, ListInv
  <2> QED BY <1>1, <2>2, <2>10, AloneFrame DEF Inside
<1> QED BY <1>1, <1>3, <1>4, <1>5, NotHalf
\* What the rest of the list is when the thread in it is about to link the tail,
\* or has done so, or seeks, or takes its node out.
LEMMA OneInside ==
    ASSUME OwnNode, Alone, NEW t \in Callers, at[t] \in Inside
    PROVE  /\ \A u \in Callers \ {t} : at[u] \notin Inside
           /\ t \in Nodes /\ t # Base /\ Base \in Nodes /\ Linked \subseteq Nodes
           /\ at[t] \notin {"insert", "link"} => Ready /\ ~Unready
           /\ at[t] \notin {"tail", "relink"} => \A b : ~Halfway(b)
<1>1. t \in Nodes /\ t # Base /\ Base \in Nodes /\ Linked \subseteq Nodes
  BY DrvConstants DEF Nodes, Linked, Members
<1>2. \A u \in Callers \ {t} : at[u] \notin Inside
  BY DEF Alone
<1>3. at[t] \notin {"insert", "link"} => Ready /\ ~Unready
  BY EitherList, NotHalf DEF Alone, Unready, Inside
<1>4. at[t] \notin {"tail", "relink"} => \A b : ~Halfway(b)
  BY <1>2 DEF Halfway, Inside
<1> QED BY <1>1, <1>2, <1>3, <1>4

\* The head points back to the new node: it can be found and taken out.
LEMMA AloneTail ==
    ASSUME OwnNode, Alone, NEW t \in Callers, LinkTail(t) PROVE Alone'
<1>1. /\ at[t] = "tail" /\ at' = [at EXCEPT ![t] = "sought"]
      /\ prev' = [prev EXCEPT ![Base] = t]
      /\ UNCHANGED <<next, live, early, asked, answer, cur, step>>
  BY DEF LinkTail, Goto
<1>2. /\ \A u \in Callers \ {t} : at'[u] = at[u] /\ at[u] \notin Inside
      /\ at'[t] = "sought" /\ Ready /\ ~Unready /\ next[t] = Base
      /\ prev'[Base] = t /\ \A n \in Nodes \ {Base} : prev'[n] = prev[n]
  BY <1>1, OneInside DEF OwnNode, Inside, Ready, Changing
<1>3. Members' = Members /\ Linked' = Linked /\ t \in Linked /\ Linked \subseteq Nodes
  BY <1>1, <1>2, OneInside DEF Members, InList, Linked, Inside
<1>4. ASSUME NEW rank \in [Callers -> Nat \ {0}], Order(rank) PROVE Order(rank)'
  BY <1>1, <1>2, <1>3, <1>4 DEF Order, Forwards, Rank, Inside
<1>5. Backwards'
  <2> SUFFICES ASSUME NEW b \in Linked, b # Base PROVE prev'[b] \in Linked /\ next[prev'[b]] = b
    BY <1>1, <1>2, <1>3 DEF Backwards
  <2>1. ~Halfway(b)
    BY <1>1, <1>2 DEF Halfway, Inside
  <2> QED BY <1>2, <1>3, <2>1 DEF Ready, Backwards
<1>6. Changing'
  BY <1>2 DEF Changing, Inside
<1>7. Ready'
  BY <1>2, <1>4, <1>5, <1>6 DEF Ready
<1>8. ListInv'
  BY <1>1, <1>2, <1>7, NotHalf DEF Alone, ListInv
<1>9. at[t] \in Inside /\ \A u \in Callers \ {t} : answer'[u] = answer[u]
  BY <1>1 DEF Inside
<1> DEFINE l == "sought"
<1>10. at' = [at EXCEPT ![t] = l] /\ l \notin {"idle", "back", "fault", "relink", "free"}
  BY <1>1
<1> HIDE DEF l
<1> QED BY <1>1, <1>8, <1>9, <1>10, AloneFrame

\* lgdrv_read starts at the first node, which is not behind the thread's own.
LEMMA AloneRead ==
    ASSUME OwnNode, Alone, NEW t \in Callers, lgdrv_read(t), ~mixed' PROVE Alone'
<1>1. /\ at[t] = "sought" /\ at' = [at EXCEPT ![t] = "find"]
      /\ cur' = [cur EXCEPT ![t] = next[Base]]
      /\ early \subseteq early'
      /\ \A u \in Callers \ {t} : at[u] \notin Inside
      /\ UNCHANGED <<next, prev, live, asked, answer, step>>
  BY DEF lgdrv_read, Goto, Enter, list
<1>2. /\ at'[t] = "find" /\ cur'[t] = next[Base]
      /\ \A u \in Callers \ {t} : at'[u] = at[u] /\ at[u] \notin Inside
      /\ Ready /\ ~Unready /\ t \in Members
  BY <1>1, EitherList, NotHalf DEF OwnNode, Alone, Unready, Members, InList
<1>3. Members' = Members /\ Linked' = Linked
  BY <1>1, <1>2 DEF Members, InList, Linked
<1>4. ASSUME NEW rank \in [Callers -> Nat \ {0}], Order(rank) PROVE Order(rank)'
  <2>1. rank[t] \in Nat \ {0} /\ 0 < rank[t]
    OBVIOUS
  <2>2. next[Base] \in Members /\ rank[next[Base]] <= rank[t]
    BY <1>2, <1>4, <2>1 DEF Order, Forwards, Rank, Linked
  <2>3. \A u \in Callers : at'[u] = "find" => cur'[u] \in Members /\ rank[cur'[u]] <= rank[u]
    BY <1>2, <2>2 DEF Inside
  <2> QED BY <1>1, <1>3, <1>4, <2>3 DEF Order, Forwards, Rank
<1>5. Backwards'
  <2>1. ASSUME NEW b PROVE ~Halfway(b)
    BY <1>1, <1>2 DEF Halfway, Inside
  <2> QED BY <1>1, <1>2, <1>3, <2>1 DEF Ready, Backwards
<1>6. Changing'
  BY <1>2 DEF Changing, Inside
<1>7. Ready'
  BY <1>2, <1>4, <1>5, <1>6 DEF Ready
<1>8. ListInv'
  BY <1>1, <1>2, <1>7, NotHalf DEF Alone, ListInv
<1>9. \A u, v \in Callers : at'[u] \in Inside /\ at'[v] \in Inside => u = v
  BY <1>2
<1>10. live' = {u \in Callers : at'[u] \notin {"idle", "back"}}
  BY <1>1, <1>2 DEF Alone
<1>11. \A u \in Callers : /\ at'[u] = "fault" => u \in early'
                          /\ at'[u] \in {"relink", "free", "back"} => answer'[u] = get_region(asked'[u])
  BY <1>1, <1>2 DEF Alone
<1> QED BY <1>8, <1>9, <1>10, <1>11 DEF Alone

\* The search meets the thread's own node before it is back at the head.
LEMMA AloneFind ==
    ASSUME OwnNode, Alone, NEW t \in Callers, Find(t) PROVE Alone'
<1>1. at[t] = "find" /\ UNCHANGED <<next, prev, live, early, asked, answer, step>>
  BY DEF Find, list
<1>2. /\ \A u \in Callers \ {t} : at[u] \notin Inside
      /\ Ready /\ ~Unready /\ t \in Members /\ \A b : ~Halfway(b)
  BY <1>1, OneInside DEF Inside, Members, InList
<1>3. PICK rank \in [Callers -> Nat \ {0}] : Order(rank)
  BY <1>2 DEF Ready
<1>4. cur[t] \in Members /\ rank[cur[t]] <= rank[t]
  BY <1>1, <1>3 DEF Order
<1>5. IsMine(t, cur[t]) <=> cur[t] = t
  BY DEF IsMine, OwnNode
<1>6. \/ cur[t] = t /\ at' = [at EXCEPT ![t] = "match"] /\ cur' = cur
      \/ cur[t] # t /\ at' = at /\ cur' = [cur EXCEPT ![t] = next[cur[t]]]
  BY <1>4, <1>5, MembersLive DEF Find, Goto, Fault
<1>7. /\ \A u \in Callers \ {t} : at'[u] = at[u]
      /\ at'[t] \in {"find", "match"}
  BY <1>1, <1>6 DEF OwnNode
<1>8. Members' = Members /\ Linked' = Linked
  BY <1>1, <1>7 DEF Members, InList, Linked
<1>9. Order(rank)'
  <2>1. \A u \in Callers : at'[u] = "find" => cur'[u] \in Members /\ rank[cur'[u]] <= rank[u]
    <3>1. CASE cur[t] = t
      BY <1>2, <1>6, <1>7, <3>1 DEF Inside, OwnNode
    <3>2. CASE cur[t] # t
      <4>1. cur[t] \in Linked /\ Rank(rank, cur[t]) = rank[cur[t]] /\ rank[cur[t]] < rank[t]
        BY <1>2, <1>3, <1>4, <3>2, MembersLive DEF Order, Linked, Rank, Members
      <4>2. next[cur[t]] \in Members /\ rank[next[cur[t]]] <= rank[t]
        BY <1>2, <1>3, <4>1 DEF Order, Forwards, Linked
      <4>3. cur'[t] = next[cur[t]] /\ \A u \in Callers \ {t} : cur'[u] = cur[u]
        BY <1>6, <3>2 DEF OwnNode
      <4> QED BY <1>2, <1>7, <4>2, <4>3 DEF Inside
    <3> QED BY <3>1, <3>2
  <2> QED BY <1>1, <1>3, <1>8, <2>1 DEF Order, Forwards, Rank
<1>10. Backwards'
  BY <1>1, <1>2, <1>8 DEF Ready, Backwards
<1>11. Changing'
  BY <1>2, <1>7 DEF Changing, Inside
<1>12. ListInv'
  <2>1. Ready'
    BY <1>9, <1>10, <1>11 DEF Ready
  <2> QED BY <1>1, <1>2, <2>1, NotHalf DEF Alone, ListInv
<1>13. at' = [at EXCEPT ![t] = at'[t]]
  BY <1>6 DEF OwnNode
<1> QED BY <1>1, <1>7, <1>12, <1>13, AloneFrame DEF Inside

\* The removal leads past the node: first forwards, then backwards.
LEMMA AloneUnlink ==
    ASSUME OwnNode, Alone, NEW t \in Callers, Unlink(t) PROVE Alone'
<1> DEFINE a == prev[t]
           b == next[t]
<1>1. /\ at[t] = "match" /\ cur[t] = t
      /\ answer' = [answer EXCEPT ![t] = get_region(asked[t])]
      /\ UNCHANGED <<prev, live, early, asked, cur, step>>
  BY DEF Unlink, OwnNode
<1>2. /\ \A u \in Callers \ {t} : at[u] \notin Inside
      /\ Ready /\ ~Unready /\ t \in Members /\ \A n : ~Halfway(n)
      /\ t \in Nodes /\ t # Base /\ Linked \subseteq Nodes /\ t \in Linked
  BY <1>1, OneInside DEF Inside, Members, InList, Linked
<1>3. PICK rank \in [Callers -> Nat \ {0}] : Order(rank)
  BY <1>2 DEF Ready
<1>4. \A n \in Linked : Rank(rank, n) \in Nat /\ (n # Base => n \in Members /\ Rank(rank, n) = rank[n])
  BY DEF Linked, Members, Rank
<1>5. /\ a \in Linked /\ next[a] = t /\ b \in Linked
      /\ Rank(rank, a) < rank[t] /\ (b # Base => rank[t] < rank[b]) /\ b # t /\ a # t
  <2>1. a \in Linked /\ next[a] = t /\ b \in Linked
    BY <1>2, <1>3 DEF Ready, Backwards, Order, Forwards
  <2>2. Rank(rank, a) < rank[t] /\ (b # Base => rank[t] < rank[b])
    BY <1>2, <1>3, <1>4, <2>1 DEF Order, Forwards
  <2>3. b # t /\ a # t
    BY <1>2, <1>4, <2>1, <2>2
  <2> QED BY <2>1, <2>2, <2>3
<1>6. at' = [at EXCEPT ![t] = "relink"] /\ next' = [next EXCEPT ![a] = b]
  BY <1>1, <1>5, MembersLive DEF Unlink, Goto
<1>7. /\ at'[t] = "relink" /\ \A u \in Callers \ {t} : at'[u] = at[u]
      /\ next'[a] = b /\ \A n \in Nodes \ {a} : next'[n] = next[n]
  BY <1>2, <1>5, <1>6 DEF OwnNode
<1>8. Members' = Members \ {t} /\ Linked' = Linked \ {t}
  BY <1>2, <1>7 DEF Members, InList, Linked
<1>9. \A n \in Linked : next[n] = t => n = a
  <2> SUFFICES ASSUME NEW n \in Linked, next[n] = t, n # a PROVE FALSE
    OBVIOUS
  <2>1. Rank(rank, n) < rank[t] /\ Rank(rank, n) \in Nat /\ Rank(rank, a) \in Nat /\ rank[t] \in Nat
    BY <1>2, <1>3, <1>4 , <1>5 DEF Order, Forwards
  <2>2. CASE Rank(rank, n) < Rank(rank, a)
    <3>1. a \in Members /\ Rank(rank, a) = rank[a]
      BY <1>4, <1>5, <2>1, <2>2 DEF Rank
    <3>2. rank[next[n]] <= rank[a]
      BY <1>3, <2>2, <3>1 DEF Order, Forwards
    <3> QED BY <1>5, <2>1, <3>1, <3>2
  <2>3. CASE Rank(rank, a) < Rank(rank, n)
    <3>1. n \in Members /\ Rank(rank, n) = rank[n]
      BY <1>4, <2>1, <2>3 DEF Rank
    <3>2. rank[next[a]] <= rank[n]
      BY <1>3, <1>5, <2>3, <3>1 DEF Order, Forwards
    <3> QED BY <1>5, <2>1, <3>1, <3>2
  <2>4. CASE Rank(rank, a) = Rank(rank, n)
    <3>1. CASE n = Base \/ a = Base
      <4>1. \A m \in Members : rank[m] # 0
        BY DEF Members
      <4> QED BY <1>4, <1>5, <2>4, <3>1, <4>1 DEF Rank
    <3>2. CASE n # Base /\ a # Base
      BY <1>3, <1>4, <1>5, <2>4, <3>2 DEF Order
    <3> QED BY <3>1, <3>2
  <2> QED BY <2>1, <2>2, <2>3, <2>4
<1> HIDE DEF a, b
<1>10. Forwards(rank)'
  <2> SUFFICES ASSUME NEW n \in Linked \ {t}
               PROVE  /\ next'[n] \in Linked \ {t}
                      /\ next'[n] # Base => Rank(rank, n) < rank[next'[n]]
                      /\ \A c \in Members \ {t} :
                            Rank(rank, n) < rank[c] => next'[n] # Base /\ rank[next'[n]] <= rank[c]
    BY <1>8 DEF Forwards, Rank
  <2>0. /\ next[n] \in Linked
        /\ next[n] # Base => Rank(rank, n) < rank[next[n]]
        /\ \A c \in Members : Rank(rank, n) < rank[c] => next[n] # Base /\ rank[next[n]] <= rank[c]
    BY <1>3 DEF Order, Forwards
  <2>1. CASE n = a
    <3>1. next'[n] = b /\ b \in Linked \ {t}
      BY <1>5, <1>7, <2>1
    <3>2. b # Base => Rank(rank, n) < rank[b]
      BY <1>2, <1>4, <1>5, <2>1
    <3>3. ASSUME NEW c \in Members \ {t}, Rank(rank, n) < rank[c] PROVE b # Base /\ rank[b] <= rank[c]
      <4>1. rank[t] <= rank[c]
        BY <1>2, <1>5, <2>0, <2>1, <3>3
      <4>2. rank[t] # rank[c] /\ rank[t] \in Nat /\ rank[c] \in Nat /\ c \in Members
        BY <1>2, <1>3, <3>3 DEF Order, Members
      <4>3. Rank(rank, t) < rank[c] /\ Rank(rank, t) = rank[t]
        BY <1>2, <4>1, <4>2 DEF Rank
      <4> QED BY <1>2, <1>3, <4>2, <4>3 DEF Order, Forwards, b
    <3> QED BY <3>1, <3>2, <3>3
  <2>2. CASE n # a
    <3>1. next'[n] = next[n] /\ next[n] # t
      BY <1>2, <1>7, <1>9, <2>2
    <3> QED BY <2>0, <3>1
  <2> QED BY <2>1, <2>2
<1>11. Order(rank)'
  <2>1. \A u \in Callers : at'[u] # "find"
    BY <1>2, <1>7 DEF Inside
  <2> QED BY <1>3, <1>8, <1>10, <2>1 DEF Order
<1>12. Backwards'
  <2> SUFFICES ASSUME NEW n \in Linked \ {t}, ~Halfway(n)'
               PROVE  prev[n] \in Linked \ {t} /\ next'[prev[n]] = n
    BY <1>1, <1>8 DEF Backwards
  <2>1. next'[t] = b /\ b # n
    <3>1. next'[t] = b
      BY <1>2, <1>5, <1>7 DEF b
    <3> QED BY <1>7, <3>1 DEF Halfway
  <2>2. prev[n] \in Linked /\ next[prev[n]] = n
    BY <1>2 DEF Ready, Backwards
  <2>3. prev[n] # t /\ prev[n] # a
    BY <1>5, <2>1, <2>2 DEF b
  <2> QED BY <1>2, <1>7, <2>2, <2>3
<1>13. Changing'
  <2>1. next'[t] = b
    BY <1>2, <1>5, <1>7 DEF b
  <2>2. \A u \in Callers : at'[u] \in {"link", "tail", "relink"} => u = t
    BY <1>2, <1>7 DEF Inside
  <2> QED BY <1>1, <1>5, <1>7, <1>8, <2>1, <2>2 DEF Changing, a
<1>14. ListInv'
  <2>1. Ready'
    BY <1>11, <1>12, <1>13 DEF Ready
  <2> QED BY <1>1, <1>2, <2>1, NotHalf DEF Alone, ListInv
<1> QED BY <1>1, <1>6, <1>14, AloneFrame DEF Inside, OwnNode

LEMMA AloneRelink ==
    ASSUME OwnNode, Alone, NEW t \in Callers, Relink(t) PROVE Alone'
<1>1. at[t] = "relink" /\ cur[t] = t /\ UNCHANGED <<next, live, early, asked, answer, cur, step>>
  BY DEF Relink, OwnNode
<1>2. /\ \A u \in Callers \ {t} : at[u] \notin Inside
      /\ Ready /\ ~Unready /\ t \in Nodes /\ t # Base /\ Linked \subseteq Nodes /\ t \notin Linked
      /\ next[t] \in Linked /\ prev[t] \in Linked /\ next[prev[t]] = next[t]
  BY <1>1, OneInside DEF Inside, Members, InList, Linked, Ready, Changing
<1>3. at' = [at EXCEPT ![t] = "free"] /\ prev' = [prev EXCEPT ![next[t]] = prev[t]]
  BY <1>1, <1>2, MembersLive DEF Relink, Goto
<1>4. /\ at'[t] = "free" /\ \A u \in Callers \ {t} : at'[u] = at[u]
      /\ prev'[next[t]] = prev[t] /\ \A n \in Nodes \ {next[t]} : prev'[n] = prev[n]
  BY <1>2, <1>3 DEF OwnNode
<1>5. Members' = Members /\ Linked' = Linked
  BY <1>1, <1>4 DEF Members, InList, Linked
<1>6. ASSUME NEW rank \in [Callers -> Nat \ {0}], Order(rank) PROVE Order(rank)'
  BY <1>1, <1>2, <1>4, <1>5, <1>6 DEF Order, Forwards, Rank, Inside
<1>7. Backwards'
  <2> SUFFICES ASSUME NEW n \in Linked PROVE prev'[n] \in Linked /\ next[prev'[n]] = n
    BY <1>1, <1>5 DEF Backwards
  <2>1. CASE n = next[t]
    BY <1>2, <1>4, <2>1
  <2>2. CASE n # next[t]
    <3>1. ~Halfway(n)
      BY <1>1, <1>2, <2>2 DEF Halfway, Inside
    <3> QED BY <1>2, <1>4, <2>2, <3>1 DEF Ready, Backwards
  <2> QED BY <2>1, <2>2
<1>8. Changing'
  BY <1>2, <1>4 DEF Changing, Inside
<1>9. ListInv'
  <2>1. Ready'
    BY <1>2, <1>6, <1>7, <1>8 DEF Ready
  <2> QED BY <1>1, <1>2, <2>1, NotHalf DEF Alone, ListInv
<1> QED BY <1>1, <1>3, <1>9, AloneFrame DEF Inside, Alone

\* kfree: nothing in the list leads to the node any more.
LEMMA AloneFree ==
    ASSUME OwnNode, Alone, NEW t \in Callers, FreeNode(t) PROVE Alone'
<1>1. /\ at[t] = "free" /\ cur[t] = t /\ UNCHANGED <<early, asked, answer, cur, step>>
      /\ at' = [at EXCEPT ![t] = "back"] /\ live' = live \ {t}
      /\ next' = [next EXCEPT ![t] = Null] /\ prev' = [prev EXCEPT ![t] = Null]
  BY DEF FreeNode, OwnNode, Goto
<1>2. /\ \A u \in Callers \ {t} : at[u] \notin Inside
      /\ Ready /\ ~Unready /\ t # Base /\ Linked \subseteq Nodes \ {t} /\ \A b : ~Halfway(b)
  BY <1>1, OneInside DEF Inside, Members, InList, Linked
<1>3. /\ at'[t] = "back" /\ \A u \in Callers \ {t} : at'[u] = at[u]
      /\ \A n \in Nodes \ {t} : next'[n] = next[n] /\ prev'[n] = prev[n]
  BY <1>1 DEF OwnNode
<1>4. Members' = Members /\ Linked' = Linked
  BY <1>1, <1>3 DEF Members, InList, Linked
<1>5. ASSUME NEW rank \in [Callers -> Nat \ {0}], Order(rank) PROVE Order(rank)'
  BY <1>1, <1>2, <1>3, <1>4, <1>5 DEF Order, Forwards, Rank, Inside
<1>6. Backwards'
  BY <1>2, <1>3, <1>4 DEF Ready, Backwards
<1>7. Changing'
  BY <1>2, <1>3 DEF Changing, Inside
<1>8. ListInv'
  <2>1. Ready'
    BY <1>2, <1>5, <1>6, <1>7 DEF Ready
  <2> QED BY <1>1, <1>2, <2>1, NotHalf DEF Alone, ListInv
<1>9. live' = {u \in Callers : at'[u] \notin {"idle", "back"}}
  BY <1>1, <1>3 DEF Alone
<1>10. \A u, v \in Callers : at'[u] \in Inside /\ at'[v] \in Inside => u = v
  BY <1>2, <1>3 DEF Inside
<1>11. \A u \in Callers : /\ at'[u] = "fault" => u \in early'
                          /\ at'[u] \in {"relink", "free", "back"} => answer'[u] = get_region(asked'[u])
  BY <1>1, <1>3 DEF Alone
<1> QED BY <1>8, <1>9, <1>10, <1>11 DEF Alone
-----------------------------------------------------------------------------
(* The search for a region. *)

\* The region of an address, through the binary search: the one it lies in, and
\* NoReg when there is none.
LEMMA RegionIs ==
    ASSUME NEW a \in Int
    PROVE  /\ get_region(a) # NoReg => get_region(a).beg <= a /\ a < get_region(a).end
           /\ get_region(a) = NoReg => ~\E i \in DOMAIN Vmas : Vmas[i].beg <= a /\ a < Vmas[i].end
           /\ get_region(a) # NoReg => get_region(a) \in Range(Vmas)
<1> DEFINE n == Len(Vmas)
           Sd(i) == SideOf(a, Vmas[i + 1].beg, Vmas[i + 1].end)
           Bounds == (0 .. n) \X (-1 .. n - 1)
           T(v, l, r, x) == IF l > r THEN -1
                            ELSE CASE Sd(x) < 0 -> v[<<l, x - 1>>]
                                   [] Sd(x) = 0 -> x
                                   [] OTHER -> v[<<x + 1, r>>]
           E(v) == [b \in Bounds |-> T(v, b[1], b[2], (b[1] + b[2]) \div 2)]
           Among(l, r) == IF \E i \in l .. r : Sd(i) = 0 THEN CHOOSE i \in l .. r : Sd(i) = 0 ELSE -1
           w == [b \in Bounds |-> Among(b[1], b[2])]
           search == CHOOSE v : v = E(v)
<1>1. /\ n \in Nat /\ DOMAIN Vmas = 1 .. n
      /\ \A i \in 1 .. n : Vmas[i].beg \in Nat \ {0} /\ Vmas[i].end \in Nat /\ Vmas[i].beg < Vmas[i].end
      /\ \A i, j \in 1 .. n : i < j => Vmas[i].end <= Vmas[j].beg
  <2> DEFINE R == [beg : Nat \ {0}, end : Nat, opt : STRING]
  <2>1. n \in Nat /\ DOMAIN Vmas = 1 .. n /\ Vmas \in [1 .. n -> R]
    <3>1. Vmas \in Seq(R)
      BY DrvConstants
    <3> HIDE DEF R
    <3> QED BY <3>1, LenProperties
  <2>2. \A i \in 1 .. n : Vmas[i].beg \in Nat \ {0} /\ Vmas[i].end \in Nat
    BY <2>1
  <2> QED BY <2>1, <2>2, DrvConstants
<1>2. \A i \in 0 .. n - 1 :
         /\ i + 1 \in 1 .. n /\ Sd(i) \in {-1, 0, 1}
         /\ Sd(i) = 0 <=> (Vmas[i + 1].beg <= a /\ a < Vmas[i + 1].end)
         /\ Sd(i) = -1 <=> a < Vmas[i + 1].beg
         /\ Sd(i) = 1 <=> Vmas[i + 1].end <= a
  BY <1>1 DEF SideOf
<1>3. \A i, j \in 0 .. n - 1 : i < j => (Sd(j) # -1 => Sd(i) = 1) /\ (Sd(i) # 1 => Sd(j) = -1)
  <2> SUFFICES ASSUME NEW i \in 0 .. n - 1, NEW j \in 0 .. n - 1, i < j
               PROVE  (Sd(j) # -1 => Sd(i) = 1) /\ (Sd(i) # 1 => Sd(j) = -1)
    OBVIOUS
  <2>1. i + 1 \in 1 .. n /\ j + 1 \in 1 .. n /\ i + 1 < j + 1
    BY <1>1
  <2>2. Vmas[i + 1].end <= Vmas[j + 1].beg
    BY <1>1, <2>1
  <2> QED BY <1>1, <1>2, <2>1, <2>2
<1>4. get_region(a) =
        LET i == IF Vmas = <<>> THEN -1
                 ELSE IF n = 0 THEN (IF Sd(0) = 0 THEN 0 ELSE -1) ELSE search[<<0, n - 1>>]
        IN  IF a = 0 \/ i = -1 THEN NoReg ELSE Vmas[i + 1]
  BY DEF get_region, Hit
<1>a. \A l \in 0 .. n, r \in -1 .. n - 1 : w[<<l, r>>] = Among(l, r)
  OBVIOUS
<1> HIDE DEF Sd, w
<1>5. \A l \in 0 .. n, r \in -1 .. n - 1 : w[<<l, r>>] = T(w, l, r, (l + r) \div 2)
  <2> SUFFICES ASSUME NEW l \in 0 .. n, NEW r \in -1 .. n - 1
               PROVE  w[<<l, r>>] = T(w, l, r, (l + r) \div 2)
    OBVIOUS
  <2>2. CASE l > r
    BY <1>1, <1>a, <2>2
  <2>3. CASE l <= r
    <3>0. PICK x \in Int : x = (l + r) \div 2
      BY <1>1
    <3>1. x \in l .. r /\ x \in 0 .. n - 1 /\ x - 1 \in -1 .. n - 1 /\ x + 1 \in 0 .. n
      BY <1>1, <2>3, <3>0
    <3>i. \A i \in l .. r : i \in 0 .. n - 1
      BY <1>1
    <3>2. CASE Sd(x) = -1
      <4>1. \A i \in l .. r : Sd(i) = 0 => i < x
        BY <1>2, <1>3, <3>1, <3>2, <3>i
      <4>2. \A i : (i \in l .. r /\ Sd(i) = 0) <=> (i \in l .. x - 1 /\ Sd(i) = 0)
        BY <1>1, <3>1, <4>1
      <4>3. Among(l, r) = Among(l, x - 1)
        BY <4>2
      <4>4. T(w, l, r, x) = w[<<l, x - 1>>]
        BY <1>1, <2>3, <3>2
      <4>5. w[<<l, r>>] = Among(l, r) /\ w[<<l, x - 1>>] = Among(l, x - 1)
        BY <1>a, <3>1
      <4> HIDE DEF T, Among
      <4> QED BY <3>0, <4>3, <4>4, <4>5
    <3>3. CASE Sd(x) = 0
      <4>1. \A i \in l .. r : Sd(i) = 0 => i = x
        BY <1>2, <1>3, <3>1, <3>3, <3>i
      <4>2. Among(l, r) = x
        BY <3>1, <3>3, <4>1
      <4> QED BY <1>a, <2>3, <3>0, <3>3, <4>2
    <3>4. CASE Sd(x) = 1
      <4>1. \A i \in l .. r : Sd(i) = 0 => x < i
        BY <1>2, <1>3, <3>1, <3>4, <3>i
      <4>2. \A i : (i \in l .. r /\ Sd(i) = 0) <=> (i \in x + 1 .. r /\ Sd(i) = 0)
        BY <1>1, <3>1, <4>1
      <4>3. Among(l, r) = Among(x + 1, r)
        BY <4>2
      <4>4. T(w, l, r, x) = w[<<x + 1, r>>]
        BY <1>1, <2>3, <3>4
      <4>5. w[<<l, r>>] = Among(l, r) /\ w[<<x + 1, r>>] = Among(x + 1, r)
        BY <1>a, <3>1
      <4> HIDE DEF T, Among
      <4> QED BY <3>0, <4>3, <4>4, <4>5
    <3> QED BY <1>2, <3>1, <3>2, <3>3, <3>4
  <2> QED BY <1>1, <2>2, <2>3
<1>6. w = E(w)
  <2>1. \A b \in Bounds : w[b] = T(w, b[1], b[2], (b[1] + b[2]) \div 2)
    <3> SUFFICES ASSUME NEW b \in Bounds PROVE w[b] = T(w, b[1], b[2], (b[1] + b[2]) \div 2)
      OBVIOUS
    <3>1. b = <<b[1], b[2]>> /\ b[1] \in 0 .. n /\ b[2] \in -1 .. n - 1
      OBVIOUS
    <3> HIDE DEF T
    <3> QED BY <1>5, <3>1
  <2>2. w = [b \in Bounds |-> w[b]]
    BY DEF w
  <2> HIDE DEF T, Bounds
  <2> QED BY <2>1, <2>2
<1>7. search = E(search)
  <2> HIDE DEF E
  <2> QED BY <1>6
<1>8. \A l \in 0 .. n, r \in -1 .. n - 1 : search[<<l, r>>] = T(search, l, r, (l + r) \div 2)
  <2> SUFFICES ASSUME NEW l \in 0 .. n, NEW r \in -1 .. n - 1
               PROVE  search[<<l, r>>] = T(search, l, r, (l + r) \div 2)
    OBVIOUS
  <2> HIDE DEF search, T
  <2> QED BY <1>7
<1> HIDE DEF search
<1>9. \A l \in 0 .. n, r \in -1 .. n - 1 : search[<<l, r>>] = w[<<l, r>>]
  <2> DEFINE Bad == {k \in Nat : \E l \in 0 .. n, r \in -1 .. n - 1 :
                                    k = r - l + 1 /\ search[<<l, r>>] # w[<<l, r>>]}
  <2>1. ASSUME NEW l \in 0 .. n, NEW r \in -1 .. n - 1, search[<<l, r>>] # w[<<l, r>>]
        PROVE  r - l + 1 \in Bad /\ l <= r
    <3>1. l <= r
      <4> SUFFICES ASSUME l > r PROVE FALSE
        BY <1>1
      <4>1. /\ T(search, l, r, (l + r) \div 2) = -1
            /\ T(w, l, r, (l + r) \div 2) = -1
        OBVIOUS
      <4> HIDE DEF T
      <4> QED BY <1>5, <1>8, <2>1, <4>1
    <3>2. r - l + 1 \in Nat
      BY <1>1, <3>1
    <3> QED BY <2>1, <3>1, <3>2
  <2> SUFFICES ASSUME Bad # {} PROVE FALSE
    BY <2>1
  <2>2. PICK k \in Bad : \A j \in Bad : ~(<<j, k>> \in OpToRel(<, Nat))
    <3>1. Bad \subseteq Nat
      OBVIOUS
    <3> HIDE DEF Bad
    <3> QED BY <3>1, WFMin, NatLessThanWellFounded, Zenon
  <2>3. \A j \in Bad : ~(j < k)
    BY <2>2 DEF OpToRel
  <2>4. PICK l \in 0 .. n, r \in -1 .. n - 1 : k = r - l + 1 /\ search[<<l, r>>] # w[<<l, r>>]
    OBVIOUS
  <2>5. l <= r
    BY <2>1, <2>4
  <2>6. PICK x \in Int : x = (l + r) \div 2
    BY <1>1
  <2>7. x \in l .. r /\ x \in 0 .. n - 1 /\ x - 1 \in -1 .. n - 1 /\ x + 1 \in 0 .. n
    BY <1>1, <2>5, <2>6
  <2>8. search[<<l, x - 1>>] = w[<<l, x - 1>>]
    <3>1. CASE search[<<l, x - 1>>] # w[<<l, x - 1>>]
      <4>1. x - 1 - l + 1 \in Bad
        BY <2>1, <2>7, <3>1
      <4> HIDE DEF Bad
      <4> QED BY <1>1, <2>3, <2>4, <2>7, <4>1
    <3> QED BY <3>1
  <2>9. search[<<x + 1, r>>] = w[<<x + 1, r>>]
    <3>1. CASE search[<<x + 1, r>>] # w[<<x + 1, r>>]
      <4>1. r - (x + 1) + 1 \in Bad
        BY <2>1, <2>7, <3>1
      <4> HIDE DEF Bad
      <4> QED BY <1>1, <2>3, <2>4, <2>7, <4>1
    <3> QED BY <3>1
  <2>10. T(search, l, r, x) = T(w, l, r, x)
    BY <2>8, <2>9
  <2> HIDE DEF T, Bad
  <2> QED BY <1>5, <1>8, <2>4, <2>6, <2>10
<1>10. CASE a = 0
  BY <1>1, <1>4, <1>10
<1>11. CASE n = 0
  <2>1. Vmas = <<>>
    BY <1>1, <1>11
  <2>2. get_region(a) = NoReg
    BY <1>4, <2>1
  <2> QED BY <1>1, <1>11, <2>2
<1>12. CASE a # 0 /\ n > 0
  <2>1. Vmas # <<>>
    BY <1>12
  <2>2. 0 \in 0 .. n /\ n - 1 \in -1 .. n - 1
    BY <1>1, <1>12
  <2>3. search[<<0, n - 1>>] = Among(0, n - 1)
    BY <1>9, <1>a, <2>2
  <2>4. get_region(a) = IF Among(0, n - 1) = -1 THEN NoReg ELSE Vmas[Among(0, n - 1) + 1]
    <3> HIDE DEF Among
    <3> QED BY <1>4, <1>12, <2>1, <2>3
  <2>5. CASE \E i \in 0 .. n - 1 : Sd(i) = 0
    <3>1. Among(0, n - 1) \in 0 .. n - 1 /\ Sd(Among(0, n - 1)) = 0
      BY <2>5
    <3> HIDE DEF Among
    <3>2. /\ get_region(a) = Vmas[Among(0, n - 1) + 1]
          /\ get_region(a).beg <= a /\ a < get_region(a).end
      BY <1>1, <1>2, <2>4, <3>1
    <3>3. get_region(a) # NoReg
      BY <1>1, <1>2, <3>1, <3>2 DEF NoReg
    <3>4. Among(0, n - 1) + 1 \in DOMAIN Vmas
      BY <1>1, <3>1
    <3>5. get_region(a) \in Range(Vmas)
      BY <3>2, <3>4 DEF Range
    <3> QED BY <3>2, <3>3, <3>5
  <2>6. CASE \A i \in 0 .. n - 1 : Sd(i) # 0
    <3>1. get_region(a) = NoReg
      BY <2>4, <2>6
    <3>2. ASSUME NEW i \in 1 .. n PROVE ~(Vmas[i].beg <= a /\ a < Vmas[i].end)
      <4>1. i - 1 \in 0 .. n - 1 /\ (i - 1) + 1 = i
        BY <1>1
      <4> QED BY <1>2, <2>6, <4>1
    <3> QED BY <1>1, <3>1, <3>2
  <2> QED BY <2>5, <2>6
<1> QED BY <1>1, <1>10, <1>11, <1>12

-----------------------------------------------------------------------------
(* The invariant is kept. *)

LEMMA MixedStays == ASSUME DrvNext \/ UNCHANGED drvVars, mixed PROVE mixed'
BY DEF DrvNext, drvVars, Loading, Acquire, InitList, InitNext, Release, lgdrv_exit, lookup, Lookups,
       lgdrv_llseek, Enter, DrvStep, InsertNode, LinkNode, LinkTail, lgdrv_read, Find, Unlink,
       Relink, FreeNode

LEMMA LookupStep == ASSUME LookupInv, DrvNext \/ UNCHANGED drvVars PROVE LookupInv'
<1>1. OwnNode'
  BY OwnStep DEF LookupInv
<1>2. ASSUME ~mixed' PROVE Alone'
  <2>1. OwnNode /\ Alone
    BY <1>2, MixedStays DEF LookupInv
  <2>2. CASE UNCHANGED drvVars
    <3>1. UNCHANGED <<Members, Linked>>
      BY <2>2 DEF drvVars, Members, InList, Linked
    <3>2. (Unready => Unready') /\ (HalfReady => HalfReady') /\ (Ready => Ready')
      BY <2>2, <3>1 DEF drvVars, Unready, HalfReady, Ready, Order, Forwards, Backwards, Halfway, Changing
    <3> QED BY <2>1, <2>2, <3>2 DEF drvVars, Alone, ListInv
  <2>3. CASE Lookups
    BY <1>2, <2>1, <2>3, AloneAsked DEF Lookups
  <2>4. CASE \E t \in Callers : DrvStep(t)
    BY <1>2, <2>1, <2>4, AloneInsert, AloneLink, AloneTail, AloneRead, AloneFind, AloneUnlink,
       AloneRelink, AloneFree DEF DrvStep
  <2> QED BY <1>2, <2>1, <2>2, <2>3, <2>4, AloneLoading DEF DrvNext
<1> QED BY <1>1, <1>2 DEF LookupInv

\* The invariant of the lookups: every node is its thread's own, and as long as no
\* two threads have been in the list at once, it is in order.
THEOREM ListIsKept == Spec => []LookupInv
<1>1. Init => LookupInv
  BY OwnInit, AloneInit DEF LookupInv
<1>2. LookupInv /\ [Next]_vars => LookupInv'
  BY DriverSteps, LookupStep
<1> QED BY <1>1, <1>2, PTL DEF Spec

-----------------------------------------------------------------------------
(* Stacks and regions. *)

\* The stack of a target.
StackOf(t) == CHOOSE v \in Range(Vmas) : v.end = StackEnd[t]

\* A set of natural numbers has a least element.
LEMMA Least ==
    ASSUME NEW S \in SUBSET Nat, S # {}
    PROVE  \E m \in S : \A x \in S : m <= x
<1>1. PICK m \in S : \A x \in S : ~(<<x, m>> \in OpToRel(<, Nat))
  BY WFMin, NatLessThanWellFounded, Zenon
<1>2. \A x \in S : ~(x < m)
  BY <1>1 DEF OpToRel
<1>3. \A x \in S : m <= x
  BY <1>2
<1> QED BY <1>3

LEMMA MinIs ==
    ASSUME NEW S \in SUBSET Nat, S # {}
    PROVE  Min(S) \in S /\ \A x \in S : Min(S) <= x
BY Least DEF Min

\* The regions lie apart.
LEMMA VmasApart ==
    /\ \A v \in Range(Vmas) : v.beg \in Nat \ {0} /\ v.end \in Nat /\ v.beg < v.end
    /\ \A v, w \in Range(Vmas) : v = w \/ v.end <= w.beg \/ w.end <= v.beg
<1> DEFINE n == Len(Vmas)
           R == [beg : Nat \ {0}, end : Nat, opt : STRING]
<1>1. n \in Nat /\ DOMAIN Vmas = 1 .. n /\ Vmas \in [1 .. n -> R]
  <2>1. Vmas \in Seq(R)
    BY DrvConstants
  <2> HIDE DEF R
  <2> QED BY <2>1, LenProperties
<1>2. \A i \in 1 .. n : Vmas[i].beg \in Nat \ {0} /\ Vmas[i].end \in Nat /\ Vmas[i].beg < Vmas[i].end
  BY <1>1, DrvConstants
<1>3. \A i, j \in 1 .. n : i = j \/ Vmas[i].end <= Vmas[j].beg \/ Vmas[j].end <= Vmas[i].beg
  <2> SUFFICES ASSUME NEW i \in 1 .. n, NEW j \in 1 .. n, i # j
               PROVE  Vmas[i].end <= Vmas[j].beg \/ Vmas[j].end <= Vmas[i].beg
    OBVIOUS
  <2>1. i < j \/ j < i
    BY <1>1
  <2> QED BY <1>1, <2>1, DrvConstants
<1>4. \A v \in Range(Vmas) : \E i \in 1 .. n : v = Vmas[i]
  BY <1>1 DEF Range
<1> HIDE DEF n, R
<1> QED BY <1>2, <1>3, <1>4

LEMMA StackOfIs ==
    ASSUME NEW t \in Targets
    PROVE  /\ StackOf(t) \in Range(Vmas) /\ StackOf(t).end = StackEnd[t]
           /\ StackOf(t).beg \in Nat /\ StackEnd[t] \in Nat /\ StackOf(t).beg < StackEnd[t]
           /\ \A a \in Int : StackOf(t).beg <= a /\ a < StackEnd[t] => a \in StackAddrs
<1>1. PICK v \in Range(Vmas) : v.end = StackEnd[t] /\ \A a \in v.beg .. (v.end - 1) : a \in StackAddrs
  BY TraceConstants
<1>2. StackOf(t) \in Range(Vmas) /\ StackOf(t).end = StackEnd[t]
  BY <1>1 DEF StackOf
<1>3. StackOf(t) = v
  BY <1>1, <1>2, VmasApart
<1>4. \A a \in Int : v.beg <= a /\ a < v.end => a \in v.beg .. (v.end - 1)
  BY VmasApart
<1> QED BY <1>1, <1>2, <1>3, <1>4, VmasApart

\* The region of an address within a target's stack.
LEMMA UpperEndIs ==
    ASSUME NEW t \in Targets, NEW a \in Int
    PROVE  UpperEnd(a) = StackEnd[t] <=> StackOf(t).beg <= a /\ a < StackEnd[t]
<1> DEFINE S == {v \in Range(Vmas) : v.beg <= a /\ a < v.end}
<1>1. UpperEnd(a) = IF S # {} THEN (CHOOSE v \in Range(Vmas) : v.beg <= a /\ a < v.end).end ELSE 0
  BY DEF UpperEnd, Range
<1>2. ASSUME UpperEnd(a) = StackEnd[t] PROVE StackOf(t).beg <= a /\ a < StackEnd[t]
  <2>1. S # {}
    BY <1>1, <1>2, StackOfIs
  <2>2. PICK v \in S : v.end = UpperEnd(a)
    BY <1>1, <2>1
  <2>3. v = StackOf(t)
    BY <1>2, <2>2, StackOfIs, VmasApart
  <2> QED BY <2>2, <2>3, StackOfIs
<1>3. ASSUME StackOf(t).beg <= a, a < StackEnd[t] PROVE UpperEnd(a) = StackEnd[t]
  <2>1. StackOf(t) \in S
    BY <1>3, StackOfIs
  <2>2. PICK v \in S : v.end = UpperEnd(a)
    BY <1>1, <2>1
  <2>3. v = StackOf(t)
    BY <2>1, <2>2, VmasApart
  <2> QED BY <2>2, <2>3, StackOfIs
<1> QED BY <1>2, <1>3

LEMMA StacksApart ==
    ASSUME NEW t \in Targets, NEW u \in Targets, NEW a \in Int,
           StackOf(t).beg <= a, a < StackEnd[t], StackOf(u).beg <= a, a < StackEnd[u]
    PROVE  t = u
<1>1. StackOf(t) = StackOf(u)
  BY StackOfIs, VmasApart
<1> QED BY <1>1, StackOfIs, TraceConstants

\* The region of an address of a stack is the stack.
LEMMA RegionOfStack ==
    ASSUME NEW t \in Targets, NEW a \in Int, StackOf(t).beg <= a, a < StackEnd[t]
    PROVE  get_region(a) \in {NoReg, StackOf(t)}
BY RegionIs, StackOfIs, VmasApart

-----------------------------------------------------------------------------
(* A frame on x64. *)

\* The prologue found takes up room, or none is found.
LEMMA PrologueIs ==
    ASSUME NEW p, IsProgram(p), NEW pc \in Int
    PROVE  Prologue(p, pc) \in Nat \cup {-1}
<1> DEFINE stops == {k \in 0..BackLimit : ~IsPc(pc - k) \/ DecidesX64(p.op[pc - k])}
           a == IF stops = {} THEN -1 ELSE pc - Min(stops)
<1>1. Prologue(p, pc) =
        CASE a = -1                 -> 0
          [] a # -1 /\ ~IsPc(a)     -> -1
          [] a # -1 /\ IsPc(a)      ->
               CASE p.op[a].op = "add32" -> -1
                 [] p.op[a].op = "add8"  -> NegWords
                 [] OTHER                -> p.op[a].words
  BY DEF Prologue, Behind
<1>2. ASSUME a # -1, IsPc(a) PROVE DecidesX64(p.op[a]) /\ a \in 1 .. TextEnd
  <2>1. stops # {}
    BY <1>2
  <2>2. stops \in SUBSET Nat
    BY WalkConstants
  <2> HIDE DEF stops
  <2>3. Min(stops) \in stops
    BY <2>1, <2>2, MinIs
  <2>4. a = pc - Min(stops)
    BY <2>1
  <2> QED BY <1>2, <2>3, <2>4 DEF stops, IsPc
<1> HIDE DEF a, stops
<1>3. ASSUME a # -1, IsPc(a), p.op[a].op \notin {"add32", "add8"} PROVE p.op[a].words \in Nat
  BY <1>2, <1>3 DEF DecidesX64, IsProgram
<1>4. CASE a = -1
  BY <1>1, <1>4
<1>5. CASE a # -1 /\ ~IsPc(a)
  BY <1>1, <1>5
<1>6. CASE a # -1 /\ IsPc(a)
  <2>1. Prologue(p, pc) = CASE p.op[a].op = "add32" -> -1
                            [] p.op[a].op = "add8"  -> NegWords
                            [] OTHER                -> p.op[a].words
    BY <1>1, <1>6
  <2>2. Prologue(p, pc) \in {-1, NegWords} \/ (Prologue(p, pc) = p.op[a].words /\ p.op[a].op \notin {"add32", "add8"})
    BY <2>1
  <2>3. Prologue(p, pc) \in {-1, NegWords} \/ Prologue(p, pc) \in Nat
    BY <1>3, <1>6, <2>2
  <2> QED BY <2>3 DEF NegWords
<1> QED BY <1>4, <1>5, <1>6

\* A frame that is found ends at a word above sp and below the upper end of the
\* stack, and that word is a code address.
LEMMA FrameIs ==
    ASSUME NEW p, IsProgram(p), NEW m, NEW sp \in Int, NEW usl \in Int, NEW pc \in Int,
           sp >= TextEnd
    PROVE  LET f == FrameX64(p, m, sp, usl, pc)
           IN  \/ f = NoFrame
               \/ /\ f.words \in Nat \ {0} /\ sp + f.words < usl
                  /\ sp + f.words \in StackAddrs /\ f.ra = m[sp + f.words] /\ IsPc(f.ra)
<1> DEFINE frame == Prologue(p, pc)
           ends  == {s \in (sp + frame + 1)..(usl - 1) : ~IsAddr(s) \/ (IsPc(m[s]) /\ m[s] # pc)}
           slot  == Min(ends)
           none  == ~IsAddr(sp) \/ frame = -1 \/ ends = {} \/ ~IsAddr(slot)
           f == FrameX64(p, m, sp, usl, pc)
<1> SUFFICES \/ f = NoFrame
             \/ /\ f.words \in Nat \ {0} /\ sp + f.words < usl
                /\ sp + f.words \in StackAddrs /\ f.ra = m[sp + f.words] /\ IsPc(f.ra)
  OBVIOUS
<1>1. f = IF none THEN NoFrame ELSE [words |-> slot - sp, ra |-> m[slot]]
  BY DEF FrameX64
<1>2. CASE ~none
  <2>1. frame \in Nat /\ ends # {} /\ IsAddr(slot)
    BY <1>2, PrologueIs
  <2>2. ends \in SUBSET Nat
    <3>1. sp \in Nat
      BY WalkConstants
    <3> HIDE DEF frame
    <3> QED BY <2>1, <3>1
  <2> HIDE DEF frame, ends
  <2>3. slot \in ends
    BY <2>1, <2>2, MinIs
  <2>4. slot \in (sp + frame + 1)..(usl - 1) /\ IsPc(m[slot])
    BY <2>1, <2>3 DEF ends
  <2> HIDE DEF slot
  <2>5. slot > sp /\ slot < usl /\ slot \in Int
    BY <2>1, <2>4
  <2>6. slot \in StackAddrs
    BY <2>1, <2>5, WalkConstants DEF IsAddr, IsPc
  <2>7. f = [words |-> slot - sp, ra |-> m[slot]]
    BY <1>1, <1>2 DEF ends, frame, slot
  <2>8. f.words = slot - sp /\ f.ra = m[slot] /\ sp + f.words = slot /\ f.words \in Nat \ {0}
    <3> HIDE DEF f
    <3> QED BY <2>5, <2>7
  <2> HIDE DEF f
  <2> QED BY <2>4, <2>5, <2>6, <2>8
<1> QED BY <1>1, <1>2

-----------------------------------------------------------------------------
(* The stacks a case begins with. *)

Called == [ra : Int, sp : Int]

\* A stack as Push takes and leaves it.
IsStack(s) ==
    /\ s = [mem |-> s.mem, sp |-> s.sp, pc |-> s.pc, calls |-> s.calls]
    /\ s.mem \in [StackAddrs -> Int] /\ s.sp \in Int /\ s.pc \in Int
    /\ s.calls \in Seq(Called)

\* The stack pointers of the calls under way ascend to the end of the stack.
Ascends(s, end) ==
    /\ s.sp <= end
    /\ \A i \in 1 .. Len(s.calls) :
          /\ s.sp < s.calls[i].sp /\ s.calls[i].sp <= end
          /\ \A j \in 1 .. Len(s.calls) : i < j => s.calls[i].sp < s.calls[j].sp

\* Every code word of a stack is a return address of its calls, or was there before.
Holds(p, s) ==
    \A a \in StackAddrs : IsPc(s.mem[a]) =>
        s.mem[a] = p.old \/ \E j \in 1 .. Len(s.calls) : s.mem[a] = s.calls[j].ra

LEMMA PushType ==
    ASSUME NEW p, IsProgram(p), NEW s, IsStack(s), NEW f \in DOMAIN p.funs, NEW ra \in Int,
           NEW got \in Int
    PROVE  IsStack(Push(p, s, f, ra, got)) /\ Push(p, s, f, ra, got).sp <= s.sp
<1> DEFINE g   == p.funs[f]
           pushes == IF got >= 1 THEN g.push ELSE 0
           room   == IF got >= 2 THEN g.words ELSE 0
           new == s.sp - (IF p.arch = "x64" THEN 1 + pushes + room
                          ELSE IF g.pro = "sub" THEN 2 + g.words ELSE g.words)
           pc  == IF got < 0 THEN 0 ELSE Start(f) + got
           rec == IF g.pro = "sub" THEN s.sp - 2 ELSE new
           fp  == IF s.calls = <<>> THEN 0 ELSE s.sp
           word(a) == CASE p.arch = "x64" /\ a = s.sp - 1 -> ra
                        [] p.arch = "x64" /\ pushes > 0 /\ a = s.sp - 2 -> s.sp
                        [] p.arch = "x64" /\ a \in (s.sp - 1 - pushes)..(s.sp - 3) -> p.old
                        [] p.arch = "aarch64" /\ g.pro # "none" /\ a = rec -> fp
                        [] p.arch = "aarch64" /\ g.pro # "none" /\ a = rec + 1 -> ra
                        [] OTHER -> s.mem[a]
           q == Push(p, s, f, ra, got)
<1>1. q = [mem |-> [a \in DOMAIN s.mem |-> word(a)], sp |-> new, pc |-> pc,
           calls |-> <<[ra |-> ra, sp |-> s.sp]>> \o s.calls]
  BY DEF Push
<1>2. pushes \in Nat /\ room \in Nat /\ g.words \in Nat /\ f \in Nat /\ p.old \in Int
  BY DEF IsProgram
<1>3. new \in Int /\ new <= s.sp
  <2>1. PICK k \in Nat : new = s.sp - k
    <3> HIDE DEF pushes, room, g
    <3>1. 1 + pushes + room \in Nat /\ 2 + g.words \in Nat
      BY <1>2
    <3> QED BY <1>2, <3>1
  <2> HIDE DEF new
  <2> QED BY <2>1 DEF IsStack
<1>4. ASSUME NEW a \in StackAddrs PROVE word(a) \in Int
  <2>1. word(a) \in {ra, s.sp, p.old, fp, s.mem[a]}
    BY Zenon
  <2>2. fp \in Int /\ s.mem[a] \in Int /\ s.sp \in Int
    BY DEF IsStack
  <2> HIDE DEF word, fp
  <2> QED BY <1>2, <2>1, <2>2
<1>5. pc \in Int
  BY <1>2 DEF Start, Size
<1>6. <<[ra |-> ra, sp |-> s.sp]>> \o s.calls \in Seq(Called)
  BY DEF IsStack, Called
<1> HIDE DEF word, new, pc, q
<1>7. DOMAIN s.mem = StackAddrs
  BY DEF IsStack
<1>8. /\ q.mem = [a \in StackAddrs |-> word(a)] /\ q.sp = new /\ q.pc = pc
      /\ q.calls = <<[ra |-> ra, sp |-> s.sp]>> \o s.calls
      /\ q = [mem |-> q.mem, sp |-> q.sp, pc |-> q.pc, calls |-> q.calls]
  BY <1>1, <1>7
<1>9. q.mem \in [StackAddrs -> Int]
  BY <1>4, <1>8
<1>10. IsStack(q) /\ q.sp <= s.sp
  BY <1>3, <1>5, <1>6, <1>8, <1>9 DEF IsStack
<1> QED BY <1>10 DEF q

\* A call on x64: the return address below the old sp, words that hold the old sp or
\* registers, and the words of the frame, which keep what they held.
LEMMA PushIs ==
    ASSUME NEW p, IsProgram(p), p.arch = "x64", NEW s, IsStack(s), NEW f \in DOMAIN p.funs,
           NEW ra \in Int, NEW got \in Int
    PROVE  /\ Push(p, s, f, ra, got).sp < s.sp
           /\ Push(p, s, f, ra, got).calls = <<[ra |-> ra, sp |-> s.sp]>> \o s.calls
           /\ \A a \in StackAddrs : a >= s.sp => Push(p, s, f, ra, got).mem[a] = s.mem[a]
           /\ \A a \in StackAddrs : a < Push(p, s, f, ra, got).sp => Push(p, s, f, ra, got).mem[a] = s.mem[a]
           /\ \A a \in StackAddrs : Push(p, s, f, ra, got).mem[a] \in {ra, s.sp, p.old, s.mem[a]}
<1> DEFINE g   == p.funs[f]
           pushes == IF got >= 1 THEN g.push ELSE 0
           room   == IF got >= 2 THEN g.words ELSE 0
           new == s.sp - (1 + pushes + room)
           word(a) == CASE a = s.sp - 1 -> ra
                        [] pushes > 0 /\ a = s.sp - 2 -> s.sp
                        [] a \in (s.sp - 1 - pushes)..(s.sp - 3) -> p.old
                        [] OTHER -> s.mem[a]
           q == Push(p, s, f, ra, got)
<1> SUFFICES /\ q.sp < s.sp
             /\ q.calls = <<[ra |-> ra, sp |-> s.sp]>> \o s.calls
             /\ \A a \in StackAddrs : a >= s.sp => q.mem[a] = s.mem[a]
             /\ \A a \in StackAddrs : a < q.sp => q.mem[a] = s.mem[a]
             /\ \A a \in StackAddrs : q.mem[a] \in {ra, s.sp, p.old, s.mem[a]}
  OBVIOUS
<1>1. pushes \in Nat /\ room \in Nat /\ s.sp \in Int /\ DOMAIN s.mem = StackAddrs
  BY DEF IsProgram, IsStack
<1> DEFINE Three(a) == \/ a = s.sp - 1
                       \/ pushes > 0 /\ a = s.sp - 2
                       \/ a \in (s.sp - 1 - pushes)..(s.sp - 3)
<1>2. /\ q.sp = new /\ q.calls = <<[ra |-> ra, sp |-> s.sp]>> \o s.calls
      /\ \A a \in StackAddrs : q.mem[a] \in {ra, s.sp, p.old, s.mem[a]}
      /\ \A a \in StackAddrs : ~Three(a) => q.mem[a] = s.mem[a]
  <2>1. p.arch # "aarch64"
    OBVIOUS
  <2>2. /\ q.sp = new /\ q.calls = <<[ra |-> ra, sp |-> s.sp]>> \o s.calls
    BY DEF Push
  <2>3. q.mem = [a \in DOMAIN s.mem |->
                  CASE p.arch = "x64" /\ a = s.sp - 1 -> ra
                    [] p.arch = "x64" /\ pushes > 0 /\ a = s.sp - 2 -> s.sp
                    [] p.arch = "x64" /\ a \in (s.sp - 1 - pushes)..(s.sp - 3) -> p.old
                    [] p.arch = "aarch64" /\ g.pro # "none"
                         /\ a = (IF g.pro = "sub" THEN s.sp - 2 ELSE q.sp) -> (IF s.calls = <<>> THEN 0 ELSE s.sp)
                    [] p.arch = "aarch64" /\ g.pro # "none"
                         /\ a = (IF g.pro = "sub" THEN s.sp - 2 ELSE q.sp) + 1 -> ra
                    [] OTHER -> s.mem[a]]
    BY DEF Push
  <2> HIDE DEF q, pushes, room, g, new
  <2>4. ASSUME NEW a \in StackAddrs PROVE q.mem[a] = word(a)
    <3>1. q.mem[a] = CASE p.arch = "x64" /\ a = s.sp - 1 -> ra
                    [] p.arch = "x64" /\ pushes > 0 /\ a = s.sp - 2 -> s.sp
                    [] p.arch = "x64" /\ a \in (s.sp - 1 - pushes)..(s.sp - 3) -> p.old
                    [] p.arch = "aarch64" /\ g.pro # "none"
                         /\ a = (IF g.pro = "sub" THEN s.sp - 2 ELSE q.sp) -> (IF s.calls = <<>> THEN 0 ELSE s.sp)
                    [] p.arch = "aarch64" /\ g.pro # "none"
                         /\ a = (IF g.pro = "sub" THEN s.sp - 2 ELSE q.sp) + 1 -> ra
                    [] OTHER -> s.mem[a]
      BY <1>1, <2>3
    <3> DEFINE A == a = s.sp - 1
               B == pushes > 0 /\ a = s.sp - 2
               C == a \in (s.sp - 1 - pushes)..(s.sp - 3)
    <3>2. p.arch = "x64"
      OBVIOUS
    <3>3. q.mem[a] = CASE A -> ra [] B -> s.sp [] C -> p.old [] OTHER -> s.mem[a]
      <4>1. (p.arch = "x64" /\ a = s.sp - 1 <=> A) /\ (p.arch = "x64" /\ pushes > 0 /\ a = s.sp - 2 <=> B)
            /\ (p.arch = "x64" /\ a \in (s.sp - 1 - pushes)..(s.sp - 3) <=> C)
        BY <3>2
      <4> QED BY <2>1, <3>1, <4>1
    <3> QED BY <3>3
  <2>5. ASSUME NEW a \in StackAddrs PROVE word(a) \in {ra, s.sp, p.old, s.mem[a]}
    BY Zenon
  <2>6. ASSUME NEW a \in StackAddrs, ~Three(a) PROVE word(a) = s.mem[a]
    BY <2>6
  <2> HIDE DEF word, Three
  <2> QED BY <2>2, <2>4, <2>5, <2>6
<1> HIDE DEF q
<1>3. \A a \in StackAddrs : a \in Int
  BY WalkConstants
<1>4. new < s.sp /\ new \in Int /\ \A a \in Int : a >= s.sp \/ a < new => ~Three(a)
  <2> HIDE DEF pushes, room, g
  <2> QED BY <1>1
<1> HIDE DEF Three, new
<1>5. ASSUME NEW a \in StackAddrs, a >= s.sp \/ a < q.sp PROVE q.mem[a] = s.mem[a]
  <2>1. ~Three(a)
    BY <1>2, <1>3, <1>4, <1>5
  <2> QED BY <1>2, <2>1
<1> QED BY <1>2, <1>4, <1>5

\* The words a call does not write.
LEMMA PushLeaves ==
    ASSUME NEW p, IsProgram(p), p.arch = "x64", NEW s, IsStack(s), NEW f \in DOMAIN p.funs,
           NEW ra \in Int, NEW got \in Int, NEW a \in StackAddrs, a >= s.sp \/ a < Push(p, s, f, ra, got).sp
    PROVE  Push(p, s, f, ra, got).mem[a] = s.mem[a]
<1>1. /\ Push(p, s, f, ra, got).sp < s.sp
      /\ Push(p, s, f, ra, got).calls = <<[ra |-> ra, sp |-> s.sp]>> \o s.calls
      /\ \A b \in StackAddrs : b >= s.sp => Push(p, s, f, ra, got).mem[b] = s.mem[b]
      /\ \A b \in StackAddrs : b < Push(p, s, f, ra, got).sp => Push(p, s, f, ra, got).mem[b] = s.mem[b]
      /\ \A b \in StackAddrs : Push(p, s, f, ra, got).mem[b] \in {ra, s.sp, p.old, s.mem[b]}
  BY PushIs
<1> QED BY <1>1

\* A stack on which nothing but calls has happened.
OnlyCalls(p, s, end) ==
    /\ IsStack(s) /\ s.sp <= end
    /\ p.arch = "x64" /\ s.sp > TextEnd =>
          Ascends(s, end) /\ Holds(p, s)

LEMMA CalledType ==
    ASSUME NEW calls \in Seq(Called)
    PROVE  \A i \in 1 .. Len(calls) : calls[i] \in Called /\ calls[i].sp \in Int /\ calls[i].ra \in Int
<1>1. \A i \in 1 .. Len(calls) : calls[i] \in Called
  OBVIOUS
<1> QED BY <1>1 DEF Called

LEMMA AscendsPush ==
    ASSUME NEW p, IsProgram(p), p.arch = "x64", NEW s, IsStack(s), NEW f \in DOMAIN p.funs,
           NEW ra \in Int, NEW got \in Int, NEW end \in Int, Ascends(s, end)
    PROVE  Ascends(Push(p, s, f, ra, got), end)
<1> DEFINE q == Push(p, s, f, ra, got)
           n == Len(s.calls)
<1>1. /\ q.sp \in Int /\ q.sp < s.sp /\ s.sp \in Int /\ s.calls \in Seq(Called)
      /\ q.calls = <<[ra |-> ra, sp |-> s.sp]>> \o s.calls
  <2>1. q.sp < s.sp /\ q.calls = <<[ra |-> ra, sp |-> s.sp]>> \o s.calls
    BY PushIs
  <2>2. IsStack(q)
    BY PushType
  <2> HIDE DEF q
  <2> QED BY <2>1, <2>2 DEF IsStack
<1> HIDE DEF q
<1>2. /\ n \in Nat /\ Len(q.calls) = n + 1 /\ q.calls[1].sp = s.sp
      /\ \A i \in 2 .. n + 1 : q.calls[i] = s.calls[i - 1] /\ i - 1 \in 1 .. n
  BY <1>1
<1>3. \A i \in 1 .. n : s.calls[i].sp \in Int
  BY <1>1, CalledType
<1>4. ASSUME NEW i \in 1 .. n + 1
      PROVE  q.sp < q.calls[i].sp /\ q.calls[i].sp <= end
  <2>1. CASE i = 1
    BY <1>1, <1>2, <2>1 DEF Ascends
  <2>2. CASE i \in 2 .. n + 1
    <3>1. PICK k \in 1 .. n : k = i - 1 /\ q.calls[i].sp = s.calls[k].sp
      BY <1>2, <2>2
    <3>2. s.sp < s.calls[k].sp /\ s.calls[k].sp <= end
      BY DEF Ascends
    <3>3. q.sp \in Int /\ q.sp < s.sp /\ s.sp \in Int
      BY <1>1
    <3>4. s.calls[k].sp \in Int
      BY <1>3
    <3> QED BY <3>1, <3>2, <3>3, <3>4
  <2> QED BY <1>2, <2>1, <2>2
<1>5. ASSUME NEW i \in 1 .. n + 1, NEW j \in 1 .. n + 1, i < j
      PROVE  q.calls[i].sp < q.calls[j].sp
  <2>1. PICK l \in 1 .. n : l = j - 1 /\ q.calls[j].sp = s.calls[l].sp
    <3>1. j \in 2 .. n + 1
      BY <1>2, <1>5
    <3> QED BY <1>2, <3>1
  <2>2. CASE i = 1
    BY <1>2, <2>1, <2>2 DEF Ascends
  <2>3. CASE i \in 2 .. n + 1
    <3>1. PICK k \in 1 .. n : k = i - 1 /\ q.calls[i].sp = s.calls[k].sp
      BY <1>2, <2>3
    <3>2. k < l
      BY <1>2, <1>5, <2>1, <3>1
    <3> QED BY <2>1, <3>1, <3>2 DEF Ascends
  <2> QED BY <1>2, <2>2, <2>3
<1>6. q.sp <= end
  BY <1>1 DEF Ascends
<1>7. Ascends(q, end)
  BY <1>2, <1>4, <1>5, <1>6 DEF Ascends
<1> QED BY <1>7 DEF q

LEMMA HoldsPush ==
    ASSUME NEW p, IsProgram(p), p.arch = "x64", NEW s, IsStack(s), NEW f \in DOMAIN p.funs,
           NEW ra \in Int, NEW got \in Int, Holds(p, s), s.sp > TextEnd
    PROVE  Holds(p, Push(p, s, f, ra, got))
<1> DEFINE q == Push(p, s, f, ra, got)
           n == Len(s.calls)
<1>1. /\ s.sp \in Int /\ s.calls \in Seq(Called)
      /\ q.calls = <<[ra |-> ra, sp |-> s.sp]>> \o s.calls
      /\ \A a \in StackAddrs : q.mem[a] \in {ra, s.sp, p.old, s.mem[a]}
  <2>1. /\ q.calls = <<[ra |-> ra, sp |-> s.sp]>> \o s.calls
        /\ \A a \in StackAddrs : q.mem[a] \in {ra, s.sp, p.old, s.mem[a]}
    BY PushIs
  <2> HIDE DEF q
  <2> QED BY <2>1 DEF IsStack
<1> HIDE DEF q
<1>2. /\ n \in Nat /\ Len(q.calls) = n + 1 /\ q.calls[1] = [ra |-> ra, sp |-> s.sp]
      /\ \A i \in 1 .. n : q.calls[i + 1] = s.calls[i] /\ i + 1 \in 1 .. n + 1
      /\ 1 \in 1 .. n + 1
  BY <1>1
<1>3. ~IsPc(s.sp)
  BY <1>1, WalkConstants DEF IsPc
<1>4. ASSUME NEW a \in StackAddrs, IsPc(q.mem[a])
      PROVE  q.mem[a] = p.old \/ \E j \in 1 .. n + 1 : q.mem[a] = q.calls[j].ra
  <2>1. CASE q.mem[a] = ra
    <3>1. q.calls[1].ra = ra
      BY <1>2
    <3> QED BY <1>2, <2>1, <3>1
  <2>2. CASE q.mem[a] = s.mem[a] /\ s.mem[a] # p.old
    <3>1. PICK j \in 1 .. n : s.mem[a] = s.calls[j].ra
      BY <1>4, <2>2 DEF Holds
    <3>2. q.calls[j + 1].ra = s.calls[j].ra /\ j + 1 \in 1 .. n + 1
      BY <1>2
    <3> QED BY <2>2, <3>1, <3>2
  <2> QED BY <1>1, <1>3, <1>4, <2>1, <2>2
<1>5. Holds(p, q)
  BY <1>2, <1>4 DEF Holds
<1> QED BY <1>5 DEF q

LEMMA OnlyCallsPush ==
    ASSUME NEW p, IsProgram(p), NEW s, NEW end \in Int, OnlyCalls(p, s, end),
           NEW f \in DOMAIN p.funs, NEW ra \in Int, NEW got \in Int
    PROVE  OnlyCalls(p, Push(p, s, f, ra, got), end)
<1> DEFINE q == Push(p, s, f, ra, got)
<1>1. IsStack(s) /\ IsStack(q) /\ q.sp <= s.sp /\ s.sp <= end
  BY PushType DEF OnlyCalls
<1>2. q.sp <= end /\ q.sp \in Int /\ s.sp \in Int
  <2> HIDE DEF q
  <2> QED BY <1>1 DEF IsStack
<1>3. ASSUME p.arch = "x64", q.sp > TextEnd PROVE Ascends(q, end) /\ Holds(p, q)
  <2>1. s.sp > TextEnd
    <3> HIDE DEF q
    <3> QED BY <1>1, <1>2, <1>3, WalkConstants
  <2>2. Ascends(s, end) /\ Holds(p, s)
    BY <1>3, <2>1 DEF OnlyCalls
  <2> QED BY <1>1, <1>3, <2>1, <2>2, AscendsPush, HoldsPush
<1> HIDE DEF q
<1>4. OnlyCalls(p, q, end)
  BY <1>1, <1>2, <1>3 DEF OnlyCalls
<1> QED BY <1>4 DEF q

\* What Build's calls leave, one after the other.
LEMMA BuildIs ==
    ASSUME NEW p, IsProgram(p), NEW end \in Int, end > TextEnd,
           NEW chain \in Seq([fun : DOMAIN p.funs, off : Nat]), NEW got \in Int
    PROVE  OnlyCalls(p, Build(p, Fresh(p), end, chain, got), end)
<1> DEFINE n == Len(chain)
           s0 == [mem |-> Fresh(p), sp |-> end, pc |-> 0, calls |-> <<>>]
           Then(s, k) == Push(p, s, chain[k].fun, IF k = 1 THEN 0 ELSE Start(FunAt(s.pc)) + chain[k].off,
                              IF k = n THEN got ELSE Body)
           E(v) == [k \in 0 .. n |-> IF k = 0 THEN s0 ELSE Then(v[k - 1], k)]
           b == CHOOSE v : v = E(v)
           Staged(j, v) == \A k \in 0 .. j : v[k] = IF k = 0 THEN s0 ELSE Then(v[k - 1], k)
<1>1. Build(p, Fresh(p), end, chain, got) = b[n]
  BY DEF Build
<1>2. n \in Nat /\ \A k \in 1 .. n : chain[k].fun \in DOMAIN p.funs /\ chain[k].off \in Nat
  <2> DEFINE R == [fun : DOMAIN p.funs, off : Nat]
  <2>1. n \in Nat /\ \A k \in 1 .. n : chain[k] \in R
    <3>1. chain \in Seq(R)
      OBVIOUS
    <3> HIDE DEF R
    <3> QED BY <3>1
  <2> QED BY <2>1
<1>3. OnlyCalls(p, s0, end)
  <2>1. IsStack(s0)
    <3>1. p.old \in Int
      BY DEF IsProgram
    <3> QED BY <3>1 DEF IsStack, Fresh
  <2>2. s0.sp = end /\ s0.calls = <<>> /\ s0.mem = Fresh(p)
    OBVIOUS
  <2>3. \A a \in StackAddrs : Fresh(p)[a] = p.old
    BY DEF Fresh
  <2>4. Ascends(s0, end)
    BY <2>2 DEF Ascends
  <2>5. Holds(p, s0)
    BY <2>2, <2>3 DEF Holds
  <2> HIDE DEF s0
  <2> QED BY <2>1, <2>2, <2>3, <2>4, <2>5 DEF OnlyCalls
<1>4. ASSUME NEW s, OnlyCalls(p, s, end), NEW k \in 1 .. n PROVE OnlyCalls(p, Then(s, k), end)
  <2>1. s.pc \in Int
    BY <1>4 DEF OnlyCalls, IsStack
  <2>2. Start(FunAt(s.pc)) \in Int
    BY <2>1 DEF Start, FunAt, Size
  <2>3. (IF k = 1 THEN 0 ELSE Start(FunAt(s.pc)) + chain[k].off) \in Int
    BY <1>2, <2>2
  <2>4. (IF k = n THEN got ELSE Body) \in Int
    BY DEF Body
  <2> QED BY <1>2, <1>4, <2>3, <2>4, OnlyCallsPush
<1> HIDE DEF s0, Then
<1>5. \A j \in 0 .. n : \E v : Staged(j, v)
  <2> DEFINE Bad == {j \in 0 .. n : ~\E v : Staged(j, v)}
  <2> SUFFICES ASSUME Bad # {} PROVE FALSE
    OBVIOUS
  <2>1. PICK j \in Bad : \A x \in Bad : j <= x
    <3>1. Bad \in SUBSET Nat
      BY <1>2
    <3> HIDE DEF Bad
    <3> QED BY <3>1, Least
  <2>2. CASE j = 0
    <3>1. Staged(0, [k \in 0 .. 0 |-> s0])
      OBVIOUS
    <3> QED BY <2>2, <3>1
  <2>3. CASE j # 0
    <3>1. j \in 1 .. n /\ j - 1 \in 0 .. n /\ j - 1 \notin Bad
      <4>1. j \in 0 .. n /\ \A x \in Bad : j <= x
        BY <2>1
      <4> HIDE DEF Bad
      <4> QED BY <1>2, <2>3, <4>1
    <3>2. PICK v : Staged(j - 1, v)
      BY <3>1
    <3> DEFINE w == [k \in 0 .. j |-> IF k = j THEN Then(v[j - 1], j) ELSE v[k]]
    <3>3. ASSUME NEW k \in 0 .. j PROVE w[k] = IF k = 0 THEN s0 ELSE Then(w[k - 1], k)
      <4>1. CASE k = j
        <5>1. w[k] = Then(v[j - 1], j) /\ w[k - 1] = v[j - 1] /\ k # 0
          BY <3>1, <4>1
        <5> QED BY <4>1, <5>1
      <4>2. CASE k # j /\ k = 0
        <5>1. k \in 0 .. j - 1 /\ w[k] = v[k]
          BY <3>1, <4>2
        <5> QED BY <3>2, <4>2, <5>1
      <4>3. CASE k # j /\ k # 0
        <5>1. k \in 0 .. j - 1 /\ k - 1 \in 0 .. j /\ k - 1 # j
          BY <3>1, <4>3
        <5>2. w[k] = v[k] /\ w[k - 1] = v[k - 1]
          BY <4>3, <5>1
        <5>3. v[k] = Then(v[k - 1], k)
          BY <3>2, <4>3, <5>1
        <5> HIDE DEF w
        <5> QED BY <4>3, <5>2, <5>3
      <4> QED BY <4>1, <4>2, <4>3
    <3>4. Staged(j, w)
      <4> HIDE DEF w
      <4> QED BY <3>3
    <3> QED BY <3>4
  <2> QED BY <2>2, <2>3
<1>6. \E v : v = E(v)
  <2>1. PICK v : Staged(n, v)
    <3>1. n \in 0 .. n
      BY <1>2
    <3> HIDE DEF Staged
    <3> QED BY <1>5, <3>1
  <2> DEFINE w == [k \in 0 .. n |-> v[k]]
  <2>2. ASSUME NEW k \in 0 .. n PROVE w[k] = IF k = 0 THEN s0 ELSE Then(w[k - 1], k)
    <3>1. CASE k = 0
      BY <2>1, <3>1
    <3>2. CASE k # 0
      <4>1. k - 1 \in 0 .. n
        BY <1>2, <3>2
      <4>2. w[k] = v[k] /\ w[k - 1] = v[k - 1] /\ v[k] = Then(v[k - 1], k)
        BY <2>1, <3>2, <4>1
      <4> HIDE DEF w
      <4> QED BY <3>2, <4>2
    <3> QED BY <3>1, <3>2
  <2>3. w = [k \in 0 .. n |-> w[k]]
    OBVIOUS
  <2> HIDE DEF w
  <2>4. w = E(w)
    BY <2>2, <2>3
  <2> QED BY <2>4
<1>7. b = E(b)
  <2> HIDE DEF E
  <2> QED BY <1>6
<1> HIDE DEF b
<1>8. \A k \in 0 .. n : b[k] = IF k = 0 THEN s0 ELSE Then(b[k - 1], k)
  BY <1>7
<1>9. \A k \in 0 .. n : OnlyCalls(p, b[k], end)
  <2> DEFINE Bad == {k \in 0 .. n : ~OnlyCalls(p, b[k], end)}
  <2> SUFFICES ASSUME Bad # {} PROVE FALSE
    OBVIOUS
  <2>1. PICK k \in Bad : \A x \in Bad : k <= x
    <3>1. Bad \in SUBSET Nat
      BY <1>2
    <3> HIDE DEF Bad
    <3> QED BY <3>1, Least
  <2>2. k # 0
    BY <1>3, <1>8, <2>1
  <2>3. k \in 1 .. n /\ k - 1 \in 0 .. n /\ k - 1 \notin Bad
    BY <1>2, <2>1, <2>2
  <2>4. OnlyCalls(p, b[k - 1], end) /\ b[k] = Then(b[k - 1], k)
    BY <1>8, <2>2, <2>3
  <2> QED BY <1>4, <2>3, <2>4
<1> QED BY <1>1, <1>2, <1>9

\* The end of a stack lies above the text.
LEMMA EndIs ==
    ASSUME NEW t \in Targets
    PROVE  /\ StackEnd[t] \in Int /\ StackEnd[t] > TextEnd
           /\ StackOf(t).beg \in Int /\ StackOf(t).beg > TextEnd /\ StackOf(t).beg < StackEnd[t]
<1>1. StackOf(t).beg \in StackAddrs
  BY StackOfIs
<1> QED BY <1>1, StackOfIs, WalkConstants

\* A stack a case begins with: it has room, nothing but calls has happened on it, and
\* on aarch64 the svc has left its record where the driver looks for it.
LEMMA StackIs ==
    ASSUME NEW c \in Cases, NEW t \in Targets
    PROVE  LET q == Stack(c, t, Fresh(c.prog))
           IN  /\ IsStack(q) /\ StackOf(t).beg <= q.sp /\ q.sp <= StackEnd[t]
               /\ c.prog.arch = "x64" => Ascends(q, StackEnd[t]) /\ Holds(c.prog, q)
               /\ c.prog.arch # "x64" /\ c.how \in {"driver", "running"} =>
                     q.sp + Svc \in StackAddrs /\ q.sp + Svc + 1 \in StackAddrs
<1> DEFINE end == StackEnd[t]
           s == Build(c.prog, Fresh(c.prog), end, c.calls[t], c.off[t])
           q == Stack(c, t, Fresh(c.prog))
<1>1. /\ IsProgram(c.prog) /\ c.calls[t] \in Seq([fun : DOMAIN c.prog.funs, off : Nat])
      /\ c.off[t] \in Int /\ (q.sp = end \/ UpperEnd(q.sp) = end)
  BY CaseConstants
<1>2. end \in Int /\ end > TextEnd /\ OnlyCalls(c.prog, s, end)
  BY <1>1, EndIs, BuildIs
<1>3. q = IF c.how \in {"signal", "driver", "running"} THEN Waiting(c.prog, s) ELSE s
  BY DEF Stack
<1> HIDE DEF s
<1>6. IsStack(s) /\ s.sp <= end /\ s.sp \in Int
  BY <1>2 DEF OnlyCalls, IsStack
<1> HIDE DEF q
<1>7. CASE q = s
  <2>1. q.sp \in Int /\ q.sp = s.sp
    BY <1>6, <1>7
  <2>2. q.sp = end \/ (StackOf(t).beg <= q.sp /\ q.sp < end)
    BY <1>1, <2>1, UpperEndIs
  <2>3. StackOf(t).beg <= q.sp /\ q.sp <= end /\ q.sp > TextEnd
    BY <2>1, <2>2, EndIs, WalkConstants
  <2>4. ASSUME c.prog.arch = "x64" PROVE Ascends(q, end) /\ Holds(c.prog, q)
    BY <1>2, <1>7, <2>1, <2>3, <2>4 DEF OnlyCalls
  <2>5. ASSUME c.prog.arch # "x64", c.how \in {"driver", "running"} PROVE FALSE
    <3>1. q = Waiting(c.prog, s)
      BY <1>3, <2>5
    <3>2. q.sp = s.sp - 2 - Svc
      BY <1>6, <2>5, <3>1 DEF Waiting, IsStack
    <3> QED BY <1>6, <1>7, <2>1, <3>2 DEF Svc
  <2>6. IsStack(q)
    BY <1>6, <1>7
  <2> QED BY <2>3, <2>4, <2>5, <2>6 DEF q
<1>8. CASE q = Waiting(c.prog, s) /\ c.prog.arch # "x64"
  <2>1. q = [mem |-> [s.mem EXCEPT ![s.sp - 2] = s.sp, ![s.sp - 1] = s.pc],
             sp |-> s.sp - 2 - Svc, pc |-> s.pc, calls |-> s.calls]
    BY <1>6, <1>8 DEF Waiting, IsStack
  <2>2. /\ q = [mem |-> q.mem, sp |-> q.sp, pc |-> q.pc, calls |-> q.calls]
        /\ q.mem = [s.mem EXCEPT ![s.sp - 2] = s.sp, ![s.sp - 1] = s.pc]
        /\ q.sp = s.sp - 2 - Svc /\ q.pc = s.pc /\ q.calls = s.calls
    BY <2>1
  <2>3. IsStack(q)
    <3>1. q.mem \in [StackAddrs -> Int]
      BY <1>6, <2>2 DEF IsStack
    <3>2. q.sp \in Int
      BY <1>6, <2>2 DEF Svc
    <3> QED BY <1>6, <2>2, <3>1, <3>2 DEF IsStack
  <2>4. q.sp \in Int /\ q.sp <= end - 4
    BY <1>2, <1>6, <2>2 DEF Svc
  <2>5. StackOf(t).beg <= q.sp /\ q.sp < end
    <3>1. q.sp # end
      BY <1>2, <2>4
    <3> QED BY <1>1, <2>4, <3>1, UpperEndIs
  <2>6. q.sp + Svc \in StackAddrs /\ q.sp + Svc + 1 \in StackAddrs
    <3>1. \A k \in {2, 3} : q.sp + k \in Int /\ StackOf(t).beg <= q.sp + k /\ q.sp + k < end
      BY <1>2, <2>4, <2>5, EndIs
    <3>2. q.sp + 2 \in StackAddrs /\ q.sp + 3 \in StackAddrs
      BY <3>1, StackOfIs
    <3>3. q.sp + Svc + 1 = q.sp + 3
      BY <2>4 DEF Svc
    <3> QED BY <3>2, <3>3 DEF Svc
  <2>7. q.sp <= end
    BY <1>2, <2>4
  <2> QED BY <1>8, <2>3, <2>5, <2>6, <2>7 DEF q
<1>9. q = s \/ (q = Waiting(c.prog, s) /\ c.prog.arch # "x64")
  BY <1>3 DEF Waiting
<1> QED BY <1>7, <1>8, <1>9

\* Every address asked for is a number.
AskedNumbers == \A t \in Callers : asked[t] \in Int

-----------------------------------------------------------------------------
(* What a trace through the driver reads is numbers. *)

IsTrace(r) ==
    r = [at |-> r.at, sp |-> r.sp, pc |-> r.pc, usl |-> r.usl, limit |-> r.limit,
         kind |-> r.kind, of |-> r.of, out |-> r.out]

\* The stacks and the tracer's trace have the shape the actions give them.
Shapes ==
    /\ IsProgram(prog) /\ mem \in [StackAddrs -> Int]
    /\ stk = [t \in Targets |-> stk[t]] /\ tr = [t \in Tracers |-> tr[t]]
    /\ \A t \in Targets :
          /\ stk[t] = [sp |-> stk[t].sp, pc |-> stk[t].pc, calls |-> stk[t].calls]
          /\ stk[t].sp \in Int /\ stk[t].pc \in Int /\ stk[t].calls \in Seq(Called)
    /\ saved = [t \in Targets |-> saved[t]]
    /\ \A t \in Targets : saved[t].sp \in Int /\ saved[t].pc \in Int
    /\ IsTrace(tr[Tracer]) /\ tr[Tracer].kind = "print"

\* On aarch64 a thread the driver is asked for waits in its svc.
Waits ==
    prog.arch # "x64" /\ how \in {"driver", "running"} =>
        \A t \in Targets : saved[t].sp + Svc \in StackAddrs /\ saved[t].sp + Svc + 1 \in StackAddrs

Numbers ==
    /\ Shapes /\ Waits /\ AskedNumbers
    /\ tr[Tracer].at = "regs" =>
          tr[Tracer].of \in Targets /\ tr[Tracer].pc \in Int /\ how \in {"driver", "running"}
    /\ tr[Tracer].at = "ask" => tr[Tracer].sp \in Int

LEMMA TracerIs == Tracer \in Tracers /\ Tracer \in Callers /\ Tracer \notin Targets /\ Targets \subseteq Tracers
BY TraceConstants DEF Tracers

LEMMA EndsOfStacks == Min(StackAddrs) \in Int /\ Max(StackAddrs) + 1 \in Int
<1>1. PICK top \in StackAddrs : \A a \in StackAddrs : a <= top
  BY TraceConstants
<1>2. Min(StackAddrs) \in StackAddrs
  BY <1>1, WalkConstants, MinIs
<1>3. \A a \in StackAddrs : a \in Int /\ top >= a
  BY <1>1, WalkConstants
<1>4. Max(StackAddrs) \in StackAddrs
  BY <1>1, <1>3 DEF Max
<1> QED BY <1>2, <1>3, <1>4

LEMMA ShapesInit == Init => Numbers
<1> SUFFICES ASSUME Init PROVE Numbers
  OBVIOUS
<1>1. PICK c \in Cases :
        LET s == [t \in Targets |-> Stack(c, t, Fresh(c.prog))]
        IN  /\ prog = c.prog /\ how = c.how
            /\ mem = [a \in StackAddrs |->
                        IF \E t \in Targets : UpperEnd(a) = StackEnd[t]
                        THEN s[CHOOSE t \in Targets : UpperEnd(a) = StackEnd[t]].mem[a] ELSE c.prog.old]
            /\ stk = [t \in Targets |-> [sp |-> s[t].sp, pc |-> s[t].pc, calls |-> s[t].calls]]
            /\ saved = [t \in Targets |-> [sp |-> s[t].sp, pc |-> s[t].pc]]
            /\ DrvInit(c.how \in {"driver", "running"})
            /\ tr = [t \in Tracers |-> NoTrace]
  BY DEF Init
<1> DEFINE q(t) == Stack(c, t, Fresh(c.prog))
<1>2. \A t \in Targets : IsStack(q(t))
  BY StackIs
<1>3. /\ prog = c.prog /\ how = c.how
      /\ mem = [a \in StackAddrs |->
                  IF \E t \in Targets : UpperEnd(a) = StackEnd[t]
                  THEN q(CHOOSE t \in Targets : UpperEnd(a) = StackEnd[t]).mem[a] ELSE c.prog.old]
      /\ stk = [t \in Targets |-> [sp |-> q(t).sp, pc |-> q(t).pc, calls |-> q(t).calls]]
      /\ saved = [t \in Targets |-> [sp |-> q(t).sp, pc |-> q(t).pc]]
      /\ DrvInit(c.how \in {"driver", "running"})
      /\ tr = [t \in Tracers |-> NoTrace]
  <2>1. \A a : (\E t \in Targets : UpperEnd(a) = StackEnd[t]) =>
                  (CHOOSE t \in Targets : UpperEnd(a) = StackEnd[t]) \in Targets
    OBVIOUS
  <2> HIDE DEF q
  <2> QED BY <1>1, <2>1 DEF q
<1> HIDE DEF q
<1>4. mem \in [StackAddrs -> Int]
  <2> SUFFICES ASSUME NEW a \in StackAddrs
               PROVE  (IF \E t \in Targets : UpperEnd(a) = StackEnd[t]
                       THEN q(CHOOSE t \in Targets : UpperEnd(a) = StackEnd[t]).mem[a] ELSE c.prog.old) \in Int
    BY <1>3
  <2>1. CASE \E t \in Targets : UpperEnd(a) = StackEnd[t]
    <3>1. PICK u \in Targets : u = CHOOSE t \in Targets : UpperEnd(a) = StackEnd[t]
      BY <2>1
    <3>2. q(u).mem[a] \in Int
      BY <1>2 DEF IsStack
    <3> QED BY <2>1, <3>1, <3>2
  <2>2. c.prog.old \in Int
    BY CaseConstants DEF IsProgram
  <2> QED BY <2>1, <2>2
<1>5. /\ stk = [t \in Targets |-> stk[t]] /\ tr = [t \in Tracers |-> tr[t]]
      /\ \A t \in Targets :
            /\ stk[t] = [sp |-> stk[t].sp, pc |-> stk[t].pc, calls |-> stk[t].calls]
            /\ stk[t].sp \in Int /\ stk[t].pc \in Int /\ stk[t].calls \in Seq(Called)
      /\ saved = [t \in Targets |-> saved[t]]
      /\ \A t \in Targets : saved[t].sp = q(t).sp /\ saved[t].sp \in Int /\ saved[t].pc \in Int
  BY <1>2, <1>3 DEF IsStack
<1>6. tr[Tracer] = NoTrace
  BY <1>3, TracerIs
<1>7. IsTrace(tr[Tracer]) /\ tr[Tracer].kind = "print" /\ tr[Tracer].at = "off"
  BY <1>6 DEF IsTrace, NoTrace
<1>8. IsProgram(prog)
  BY <1>3, CaseConstants
<1>9. Waits
  <2> SUFFICES ASSUME prog.arch # "x64", how \in {"driver", "running"}, NEW t \in Targets
               PROVE  saved[t].sp + Svc \in StackAddrs /\ saved[t].sp + Svc + 1 \in StackAddrs
    BY DEF Waits
  <2>1. q(t).sp + Svc \in StackAddrs /\ q(t).sp + Svc + 1 \in StackAddrs
    BY <1>3, StackIs DEF q
  <2> QED BY <1>5, <2>1
<1>10. AskedNumbers
  BY <1>3 DEF DrvInit, AskedNumbers
<1> QED BY <1>4, <1>5, <1>7, <1>8, <1>9, <1>10 DEF Numbers, Shapes

\* The steps of a trace that is not the tracer's.
OtherTraces ==
    \E t \in Targets : TraceSelf(t) \/ CopySp(t) \/ CopyPc(t) \/ get_frame_sig(t) \/ Walk(t)

LEMMA OtherTracesLeave ==
    ASSUME Shapes, OtherTraces
    PROVE  /\ UNCHANGED <<drvVars, prog, how, mem, stk, saved, pushed>>
           /\ tr' = [t \in Tracers |-> tr'[t]] /\ tr'[Tracer] = tr[Tracer]
<1>1. PICK t \in Targets : TraceSelf(t) \/ CopySp(t) \/ CopyPc(t) \/ get_frame_sig(t) \/ Walk(t)
  BY DEF OtherTraces
<1>2. UNCHANGED <<drvVars, prog, how, mem, stk, saved, pushed>>
  BY <1>1 DEF TraceSelf, CopySp, CopyPc, get_frame_sig, Walk
<1>3. \E r : tr' = [tr EXCEPT ![t] = r]
  BY <1>1 DEF TraceSelf, CopySp, CopyPc, get_frame_sig, Walk, Trace
<1>4. t # Tracer
  BY TracerIs
<1> QED BY <1>2, <1>3, <1>4, TracerIs DEF Shapes

\* The stack a target calls from, and what the call leaves.
CallingStack(t) == [mem |-> mem, sp |-> stk[t].sp, pc |-> stk[t].pc, calls |-> stk[t].calls]
ReturnTo(t, off) == Start(FunAt(stk[t].pc)) + off

LEMMA TargetCallIs ==
    ASSUME Shapes, NEW t \in Targets, NEW f \in DOMAIN prog.funs, NEW off \in {2, 3},
           TargetCalls(t, f, off)
    PROVE  LET s == CallingStack(t)
               ra == ReturnTo(t, off)
               q == Push(prog, s, f, ra, Body)
           IN  /\ IsStack(s) /\ IsStack(q) /\ ra \in Int
               /\ prog.arch = "x64" /\ IsProgram(prog)
               /\ mem' = q.mem /\ UpperEnd(q.sp) = StackEnd[t]
               /\ stk' = [stk EXCEPT ![t] = [sp |-> q.sp, pc |-> q.pc, calls |-> q.calls]]
               /\ pushed' = [pushed EXCEPT ![t] = @ \cup {q.calls[1].ra}]
               /\ stk[t].calls # <<>> /\ UNCHANGED <<drvVars, prog, how, saved, tr>>
<1> DEFINE s == CallingStack(t)
           ra == ReturnTo(t, off)
           q == Push(prog, s, f, ra, Body)
<1>1. IsStack(s)
  BY DEF Shapes, IsStack, CallingStack
<1>2. ra \in Int
  <2>1. stk[t].pc \in Int
    BY DEF Shapes
  <2> QED BY <2>1 DEF ReturnTo, Start, FunAt, Size
<1>3. IsProgram(prog)
  BY DEF Shapes
<1>4. IsStack(q)
  BY <1>1, <1>2, <1>3, PushType DEF Body
<1>5. /\ prog.arch = "x64"
      /\ mem' = q.mem /\ UpperEnd(q.sp) = StackEnd[t]
      /\ stk' = [stk EXCEPT ![t] = [sp |-> q.sp, pc |-> q.pc, calls |-> q.calls]]
      /\ pushed' = [pushed EXCEPT ![t] = @ \cup {q.calls[1].ra}]
      /\ stk[t].calls # <<>> /\ UNCHANGED <<drvVars, prog, how, saved, tr>>
  BY DEF TargetCalls, MovesOn, Runs, CallingStack, ReturnTo
<1> HIDE DEF s, ra, q
<1>6. /\ IsStack(s) /\ IsStack(q) /\ ra \in Int
      /\ prog.arch = "x64" /\ IsProgram(prog)
      /\ mem' = q.mem /\ UpperEnd(q.sp) = StackEnd[t]
      /\ stk' = [stk EXCEPT ![t] = [sp |-> q.sp, pc |-> q.pc, calls |-> q.calls]]
      /\ pushed' = [pushed EXCEPT ![t] = @ \cup {q.calls[1].ra}]
      /\ stk[t].calls # <<>> /\ UNCHANGED <<drvVars, prog, how, saved, tr>>
  BY <1>1, <1>2, <1>3, <1>4, <1>5
<1> QED BY <1>6 DEF s, ra, q

LEMMA TargetReturnIs ==
    ASSUME Shapes, NEW t \in Targets, TargetReturns(t)
    PROVE  /\ prog.arch = "x64" /\ how = "running"
           /\ stk[t].calls # <<>> /\ Len(stk[t].calls) \in Nat \ {0}
           /\ stk' = [stk EXCEPT ![t] = stk'[t]]
           /\ stk'[t] = [sp |-> stk[t].calls[1].sp, pc |-> stk[t].calls[1].ra,
                         calls |-> Tail(stk[t].calls)]
           /\ stk[t].calls[1].sp \in Int /\ stk[t].calls[1].ra \in Int
           /\ Tail(stk[t].calls) \in Seq(Called)
           /\ UNCHANGED <<drvVars, prog, how, mem, saved, tr, pushed>>
<1> DEFINE c == stk[t].calls
<1>1. /\ prog.arch = "x64" /\ how = "running" /\ c # <<>>
      /\ stk' = [stk EXCEPT ![t] = [sp |-> Head(@.calls).sp, pc |-> Head(@.calls).ra,
                                    calls |-> Tail(@.calls)]]
      /\ UNCHANGED <<drvVars, prog, how, mem, saved, tr, pushed>>
  BY DEF TargetReturns, MovesOn, Runs
<1>2. c \in Seq(Called) /\ t \in DOMAIN stk
  BY DEF Shapes
<1>3. stk' = [stk EXCEPT ![t] = [sp |-> Head(c).sp, pc |-> Head(c).ra, calls |-> Tail(c)]]
  BY <1>1
<1> HIDE DEF c
<1>4. stk'[t] = [sp |-> Head(c).sp, pc |-> Head(c).ra, calls |-> Tail(c)]
  BY <1>2, <1>3
<1>5. Len(c) \in Nat \ {0} /\ Head(c) = c[1] /\ Tail(c) \in Seq(Called)
  BY <1>1, <1>2
<1>6. c[1].sp \in Int /\ c[1].ra \in Int
  BY <1>2, <1>5, CalledType
<1> QED BY <1>1, <1>3, <1>4, <1>5, <1>6 DEF c

\* The tracer's turn of the loop.
Turn ==
  LET r == tr[Tracer]
      f == get_frame_size(prog, mem, r.sp, r.usl, r.pc)
  IN  [r EXCEPT !.sp = @ + f.words, !.pc = f.ra, !.out = Append(@, f.ra),
                !.at = IF r.sp + f.words < r.limit THEN "walk" ELSE "done"]

LEMMA TracerWalks ==
    ASSUME Shapes, Walk(Tracer)
    PROVE  /\ tr[Tracer].at = "walk"
           /\ tr' = [tr EXCEPT ![Tracer] = tr'[Tracer]]
           /\ \/ tr'[Tracer] = [tr[Tracer] EXCEPT !.at = "done"]
              \/ /\ tr'[Tracer] = Turn
                 /\ get_frame_size(prog, mem, tr[Tracer].sp, tr[Tracer].usl, tr[Tracer].pc).words # 0
           /\ UNCHANGED <<drvVars, prog, how, mem, stk, saved, pushed>>
<1> DEFINE r == tr[Tracer]
           f == get_frame_size(prog, mem, r.sp, r.usl, r.pc)
           full == r.kind # "print" /\ Len(r.out) = LogDepth
           more == [r EXCEPT !.sp = @ + f.words, !.pc = f.ra,
                             !.out = Append(@, IF r.kind = "print" THEN f.ra ELSE r.pc),
                             !.at = IF r.sp + f.words < r.limit THEN "walk" ELSE "done"]
           n == IF f.words = 0 \/ full THEN [r EXCEPT !.at = "done"] ELSE more
<1>1. r.at = "walk" /\ tr' = [tr EXCEPT ![Tracer] = n] /\ UNCHANGED <<drvVars, prog, how, mem, stk, saved, pushed>>
  BY DEF Walk, Trace, TrAt
<1>2. r.kind = "print" /\ tr = [t \in Tracers |-> tr[t]] /\ Tracer \in Tracers
  BY TracerIs DEF Shapes
<1>3. more = Turn
  BY <1>2 DEF Turn
<1> HIDE DEF more
<1>4. n = [r EXCEPT !.at = "done"] \/ (n = Turn /\ f.words # 0)
  BY <1>3
<1> HIDE DEF n, f
<1>5. tr'[Tracer] = n
  BY <1>1, <1>2
<1>6. tr' = [tr EXCEPT ![Tracer] = tr'[Tracer]]
  BY <1>1, <1>5
<1> QED BY <1>1, <1>4, <1>5, <1>6 DEF f

LEMMA TracerAsks ==
    ASSUME Shapes, NEW t \in Targets, lgdrv_ioctl(t)
    PROVE  /\ tr[Tracer].at = "off" /\ how \in {"driver", "running"}
           /\ tr' = [tr EXCEPT ![Tracer] = tr'[Tracer]]
           /\ \/ tr'[Tracer] = [tr[Tracer] EXCEPT !.at = "fault"]
              \/ /\ stk[t].calls # <<>>
                 /\ tr'[Tracer] = [tr[Tracer] EXCEPT !.at = "regs", !.pc = saved[t].pc, !.of = t]
           /\ UNCHANGED <<drvVars, prog, how, mem, stk, saved, pushed>>
<1> DEFINE n == IF stk[t].calls = <<>> THEN [tr[Tracer] EXCEPT !.at = "fault"]
                ELSE [tr[Tracer] EXCEPT !.at = "regs", !.pc = saved[t].pc, !.of = t]
<1>1. /\ tr[Tracer].at = "off" /\ how \in {"driver", "running"}
      /\ tr' = [tr EXCEPT ![Tracer] = n] /\ UNCHANGED <<drvVars, prog, how, mem, stk, saved, pushed>>
  BY DEF lgdrv_ioctl, Trace, TrAt
<1>2. \/ n = [tr[Tracer] EXCEPT !.at = "fault"]
      \/ /\ stk[t].calls # <<>>
         /\ n = [tr[Tracer] EXCEPT !.at = "regs", !.pc = saved[t].pc, !.of = t]
  OBVIOUS
<1> HIDE DEF n
<1>3. tr = [u \in Tracers |-> tr[u]] /\ Tracer \in Tracers
  BY TracerIs DEF Shapes
<1>4. tr'[Tracer] = n /\ tr' = [tr EXCEPT ![Tracer] = tr'[Tracer]]
  BY <1>1, <1>3
<1> QED BY <1>1, <1>2, <1>4

LEMMA TracerReads ==
    ASSUME Shapes, Waits, build_context_frame,
           tr[Tracer].of \in Targets, tr[Tracer].pc \in Int, how \in {"driver", "running"}
    PROVE  /\ tr[Tracer].at = "regs"
           /\ tr' = [tr EXCEPT ![Tracer] = tr'[Tracer]]
           /\ \E sp \in Int, pc \in Int :
                /\ tr'[Tracer] = [tr[Tracer] EXCEPT !.at = "ask", !.sp = sp, !.pc = pc]
                /\ prog.arch = "x64" => sp = saved[tr[Tracer].of].sp
           /\ UNCHANGED <<drvVars, prog, how, mem, stk, saved, pushed>>
<1> DEFINE t == tr[Tracer].of
           f == FrameOf(prog, mem, saved[t].sp, tr[Tracer].pc)
           n == [tr[Tracer] EXCEPT !.at = "ask", !.sp = f.sp, !.pc = f.pc]
<1>1. /\ tr[Tracer].at = "regs"
      /\ tr' = [tr EXCEPT ![Tracer] = n] /\ UNCHANGED <<drvVars, prog, how, mem, stk, saved, pushed>>
  BY DEF build_context_frame, Trace, TrAt
<1>2. f.sp \in Int /\ f.pc \in Int /\ (prog.arch = "x64" => f.sp = saved[t].sp)
  <2>1. saved[t].sp \in Int /\ mem \in [StackAddrs -> Int]
    BY DEF Shapes
  <2>2. f = IF prog.arch = "x64" THEN [sp |-> saved[t].sp, pc |-> tr[Tracer].pc]
            ELSE [sp |-> mem[saved[t].sp + Svc], pc |-> mem[saved[t].sp + Svc + 1]]
    BY DEF FrameOf
  <2> HIDE DEF f
  <2>3. CASE prog.arch = "x64"
    BY <2>1, <2>2, <2>3
  <2>4. CASE prog.arch # "x64"
    <3>1. saved[t].sp + Svc \in StackAddrs /\ saved[t].sp + Svc + 1 \in StackAddrs
      BY <2>4 DEF Waits
    <3> QED BY <2>1, <2>2, <2>4, <3>1
  <2> QED BY <2>3, <2>4
<1> HIDE DEF f
<1>3. tr = [u \in Tracers |-> tr[u]] /\ Tracer \in Tracers
  BY TracerIs DEF Shapes
<1>4. \E sp \in Int, pc \in Int :
         /\ n = [tr[Tracer] EXCEPT !.at = "ask", !.sp = sp, !.pc = pc]
         /\ prog.arch = "x64" => sp = saved[t].sp
  BY <1>2
<1> HIDE DEF n
<1>5. tr'[Tracer] = n /\ tr' = [tr EXCEPT ![Tracer] = tr'[Tracer]]
  BY <1>1, <1>3
<1>6. \E sp \in Int, pc \in Int :
         /\ tr'[Tracer] = [tr[Tracer] EXCEPT !.at = "ask", !.sp = sp, !.pc = pc]
         /\ prog.arch = "x64" => sp = saved[t].sp
  BY <1>4, <1>5, Zenon
<1> QED BY <1>1, <1>5, <1>6

\* The shape stays when the tracer's trace alone changes, to another of its shape.
LEMMA ShapesTracer ==
    ASSUME Shapes, tr' = [tr EXCEPT ![Tracer] = tr'[Tracer]],
           IsTrace(tr'[Tracer]), tr'[Tracer].kind = "print", UNCHANGED <<prog, mem, stk, saved>>
    PROVE  Shapes'
BY TracerIs DEF Shapes, IsTrace

LEMMA NumbersStep == ASSUME Numbers, [Next]_vars PROVE Numbers'
<1> USE DEF Numbers
<1>1. CASE UNCHANGED vars
  BY <1>1 DEF vars, drvVars, trcVars, Shapes, Waits, AskedNumbers, IsTrace
<1>2. CASE UNCHANGED trcVars /\ UNCHANGED asked
  BY <1>2 DEF trcVars, Shapes, Waits, AskedNumbers, IsTrace
<1>3. CASE UNCHANGED trcVars /\ \E t \in Callers, a \in Int : lgdrv_llseek(t, a)
  <2>1. AskedNumbers'
    BY <1>3 DEF lgdrv_llseek, AskedNumbers
  <2> QED BY <1>3, <2>1 DEF trcVars, Shapes, Waits, IsTrace
<1>4. CASE OtherTraces
  <2>1. /\ UNCHANGED <<drvVars, prog, how, mem, stk, saved, pushed>>
        /\ tr' = [t \in Tracers |-> tr'[t]] /\ tr'[Tracer] = tr[Tracer]
    BY <1>4, OtherTracesLeave
  <2> QED BY <2>1 DEF drvVars, Shapes, Waits, AskedNumbers, IsTrace
<1>5. CASE \E t \in Targets : lgdrv_ioctl(t)
  <2>1. PICK t \in Targets : lgdrv_ioctl(t)
    BY <1>5
  <2>2. /\ IsTrace(tr'[Tracer]) /\ tr'[Tracer].kind = "print" /\ tr'[Tracer].at # "ask"
        /\ tr'[Tracer].at = "regs" => tr'[Tracer].of \in Targets /\ tr'[Tracer].pc \in Int
    <3>1. IsTrace(tr[Tracer]) /\ tr[Tracer].kind = "print" /\ saved[t].pc \in Int
      BY DEF Shapes
    <3>2. \/ tr'[Tracer] = [tr[Tracer] EXCEPT !.at = "fault"]
          \/ tr'[Tracer] = [tr[Tracer] EXCEPT !.at = "regs", !.pc = saved[t].pc, !.of = t]
      BY <2>1, TracerAsks
    <3> QED BY <3>1, <3>2 DEF IsTrace
  <2>3. /\ tr' = [tr EXCEPT ![Tracer] = tr'[Tracer]] /\ how \in {"driver", "running"}
        /\ UNCHANGED <<drvVars, prog, how, mem, stk, saved>>
    BY <2>1, TracerAsks
  <2>4. Shapes'
    BY <2>2, <2>3, ShapesTracer
  <2> QED BY <2>2, <2>3, <2>4 DEF drvVars, Waits, AskedNumbers
<1>14. CASE build_context_frame
  <2>1. tr[Tracer].of \in Targets /\ tr[Tracer].pc \in Int /\ how \in {"driver", "running"}
    BY <1>14 DEF build_context_frame, TrAt
  <2>2. /\ tr' = [tr EXCEPT ![Tracer] = tr'[Tracer]]
        /\ \E sp \in Int, pc \in Int : tr'[Tracer] = [tr[Tracer] EXCEPT !.at = "ask", !.sp = sp, !.pc = pc]
        /\ UNCHANGED <<drvVars, prog, how, mem, stk, saved>>
    BY <1>14, <2>1, TracerReads
  <2>3. PICK sp \in Int, pc \in Int : tr'[Tracer] = [tr[Tracer] EXCEPT !.at = "ask", !.sp = sp, !.pc = pc]
    BY <2>2
  <2>4. /\ IsTrace(tr'[Tracer]) /\ tr'[Tracer].kind = "print" /\ tr'[Tracer].at = "ask" /\ tr'[Tracer].sp \in Int
    <3>1. IsTrace(tr[Tracer]) /\ tr[Tracer].kind = "print"
      BY DEF Shapes
    <3> QED BY <2>3, <3>1 DEF IsTrace
  <2>5. Shapes'
    BY <2>2, <2>4, ShapesTracer
  <2> QED BY <2>2, <2>4, <2>5 DEF drvVars, Waits, AskedNumbers
<1>6. CASE AskRegion
  <2>1. /\ asked' = [asked EXCEPT ![Tracer] = tr[Tracer].sp] /\ tr[Tracer].sp \in Int
        /\ tr' = [tr EXCEPT ![Tracer] = [tr[Tracer] EXCEPT !.at = "asked"]]
        /\ UNCHANGED <<prog, how, mem, stk, saved>>
    BY <1>6 DEF AskRegion, TrAt, Trace, lgdrv_llseek
  <2>2. tr'[Tracer] = [tr[Tracer] EXCEPT !.at = "asked"]
    BY <2>1, TracerIs DEF Shapes
  <2>3. IsTrace(tr'[Tracer]) /\ tr'[Tracer].kind = "print" /\ tr'[Tracer].at \notin {"ask", "regs"}
    BY <2>2 DEF Shapes, IsTrace
  <2>4. Shapes'
    BY <2>1, <2>2, <2>3, ShapesTracer
  <2>5. AskedNumbers'
    BY <2>1 DEF AskedNumbers
  <2> QED BY <2>1, <2>3, <2>4, <2>5 DEF Waits
<1>7. CASE stack_trace
  <2> DEFINE r == tr[Tracer]
             n == Begun(r, r.sp, r.pc, prog.old, answer[Tracer].end, "print", r.of)
  <2>1. tr' = [tr EXCEPT ![Tracer] = n] /\ UNCHANGED <<drvVars, prog, how, mem, stk, saved>>
    BY <1>7 DEF stack_trace, Trace
  <2>2. IsTrace(n) /\ n.kind = "print" /\ n.at = "walk"
    <3> DEFINE l == IF r.sp + TraceWords >= answer[Tracer].end THEN answer[Tracer].end
                    ELSE r.sp + TraceWords
    <3> DEFINE pc == IF IsPc(r.pc) THEN r.pc ELSE prog.old
    <3>1. n = [r EXCEPT !.at = "walk", !.sp = r.sp, !.pc = pc, !.usl = answer[Tracer].end,
                        !.kind = "print", !.of = r.of, !.limit = l]
      BY DEF Begun
    <3> HIDE DEF l, pc
    <3>2. IsTrace(r)
      BY DEF Shapes
    <3> HIDE DEF r
    <3> QED BY <3>1, <3>2 DEF IsTrace
  <2> HIDE DEF n
  <2>3. tr'[Tracer] = n
    BY <2>1, TracerIs DEF Shapes
  <2>4. Shapes'
    BY <2>1, <2>2, <2>3, ShapesTracer
  <2> QED BY <2>1, <2>2, <2>3, <2>4 DEF drvVars, Waits, AskedNumbers
<1>8. CASE Walk(Tracer)
  <2>1. IsTrace(tr'[Tracer]) /\ tr'[Tracer].kind = "print" /\ tr'[Tracer].at \notin {"ask", "regs"}
    <3>1. CASE tr'[Tracer] = [tr[Tracer] EXCEPT !.at = "done"]
      BY <3>1 DEF Shapes, IsTrace
    <3>2. CASE tr'[Tracer] = Turn
      BY <3>2 DEF Shapes, IsTrace, Turn
    <3> QED BY <1>8, <3>1, <3>2, TracerWalks
  <2>2. tr' = [tr EXCEPT ![Tracer] = tr'[Tracer]] /\ UNCHANGED <<drvVars, prog, how, mem, stk, saved>>
    BY <1>8, TracerWalks
  <2>3. Shapes'
    BY <2>1, <2>2, ShapesTracer
  <2> QED BY <2>1, <2>2, <2>3 DEF drvVars, Waits, AskedNumbers
<1>9. CASE \E t \in Targets, f \in DOMAIN prog.funs, off \in {2, 3} : TargetCalls(t, f, off)
  <2>1. PICK t \in Targets, f \in DOMAIN prog.funs, off \in {2, 3} : TargetCalls(t, f, off)
    BY <1>9
  <2> DEFINE q == Push(prog, CallingStack(t), f, ReturnTo(t, off), Body)
  <2>2. /\ IsStack(q) /\ prog.arch = "x64" /\ mem' = q.mem
        /\ stk' = [stk EXCEPT ![t] = [sp |-> q.sp, pc |-> q.pc, calls |-> q.calls]]
        /\ UNCHANGED <<drvVars, prog, how, saved, tr>>
    BY <2>1, TargetCallIs
  <2> HIDE DEF q
  <2>3. q.sp \in Int /\ q.pc \in Int /\ q.calls \in Seq(Called) /\ q.mem \in [StackAddrs -> Int]
    BY <2>2 DEF IsStack
  <2>4. Shapes'
    BY <2>2, <2>3 DEF Shapes, IsTrace
  <2> QED BY <2>2, <2>4 DEF drvVars, Waits, AskedNumbers
<1>10. CASE \E t \in Targets : TargetReturns(t)
  <2>1. PICK t \in Targets : TargetReturns(t)
    BY <1>10
  <2>2. /\ prog.arch = "x64"
        /\ stk' = [stk EXCEPT ![t] = stk'[t]]
        /\ stk'[t] = [sp |-> stk[t].calls[1].sp, pc |-> stk[t].calls[1].ra,
                      calls |-> Tail(stk[t].calls)]
        /\ stk[t].calls[1].sp \in Int /\ stk[t].calls[1].ra \in Int
        /\ Tail(stk[t].calls) \in Seq(Called)
        /\ UNCHANGED <<drvVars, prog, how, mem, saved, tr, pushed>>
    BY <2>1, TargetReturnIs
  <2>3. /\ stk' = [u \in Targets |-> stk'[u]]
        /\ \A u \in Targets :
              /\ stk'[u] = [sp |-> stk'[u].sp, pc |-> stk'[u].pc, calls |-> stk'[u].calls]
              /\ stk'[u].sp \in Int /\ stk'[u].pc \in Int /\ stk'[u].calls \in Seq(Called)
    <3>1. \A u \in Targets \ {t} : stk'[u] = stk[u]
      BY <2>2 DEF Shapes
    <3>2. /\ stk'[t] = [sp |-> stk'[t].sp, pc |-> stk'[t].pc, calls |-> stk'[t].calls]
          /\ stk'[t].sp \in Int /\ stk'[t].pc \in Int /\ stk'[t].calls \in Seq(Called)
      BY <2>2
    <3>3. stk' = [u \in Targets |-> stk'[u]]
      BY <2>2 DEF Shapes
    <3> QED BY <3>1, <3>2, <3>3 DEF Shapes
  <2>4. Shapes'
    BY <2>2, <2>3 DEF Shapes, IsTrace
  <2> QED BY <2>2, <2>4 DEF drvVars, Waits, AskedNumbers
<1>15. CASE \E t \in Targets : EntersKernel(t)
  <2>1. PICK t \in Targets : EntersKernel(t)
    BY <1>15
  <2>2. /\ prog.arch = "x64" /\ saved' = [saved EXCEPT ![t] = [sp |-> stk[t].sp, pc |-> stk[t].pc]]
        /\ UNCHANGED <<drvVars, prog, how, mem, stk, tr>>
    BY <2>1 DEF EntersKernel, Runs, Current
  <2>3. Shapes'
    BY <2>2 DEF Shapes, IsTrace
  <2> QED BY <2>2, <2>3 DEF drvVars, Waits, AskedNumbers
<1>11. ASSUME Driver PROVE \/ UNCHANGED trcVars /\ UNCHANGED asked
                           \/ UNCHANGED trcVars /\ \E t \in Callers, a \in Int : lgdrv_llseek(t, a)
  <2>1. CASE OtherAsks
    BY <1>11, <2>1, EndsOfStacks DEF Driver, OtherAsks
  <2>2. CASE \E t \in Callers : DrvStep(t)
    BY <1>11, <2>2 DEF Driver, DrvStep, InsertNode, LinkNode, LinkTail, lgdrv_read, Find, Unlink,
                       Relink, FreeNode
  <2> QED BY <1>11, <2>1, <2>2 DEF Driver
<1>12. ASSUME Loading, UNCHANGED trcVars PROVE UNCHANGED asked
  BY <1>12 DEF Loading, Acquire, InitList, InitNext, Release, lgdrv_exit, lookup
<1>13. ASSUME \E t \in Tracers : Walk(t) PROVE OtherTraces \/ Walk(Tracer)
  BY <1>13 DEF Tracers, OtherTraces
<1> QED BY <1>1, <1>2, <1>3, <1>4, <1>5, <1>6, <1>7, <1>8, <1>9, <1>10, <1>11, <1>12, <1>13,
           <1>14, <1>15
        DEF Next, OtherTraces
-----------------------------------------------------------------------------
(* The driver's answers. *)

\* lgdrv answers a thread with the region of the address that thread asked for,
\* whatever other threads do to the list meanwhile; and it finds the region, and
\* does not fault, unless two threads were in the list at once or the thread came
\* before the list was initialised (AnswersAreOwn).
THEOREM AnswersAreRight == Spec => []AnswersAreOwn
<1>1. LookupInv /\ AskedNumbers => AnswersAreOwn
  <2> SUFFICES ASSUME OwnNode, ~mixed => Alone, AskedNumbers, NEW t \in Callers
               PROVE  /\ at[t] = "back" /\ answer[t] # NoReg =>
                            answer[t].beg <= asked[t] /\ asked[t] < answer[t].end
                      /\ at[t] = "back" /\ answer[t] = NoReg =>
                            mixed \/ ~\E i \in DOMAIN Vmas :
                                        Vmas[i].beg <= asked[t] /\ asked[t] < Vmas[i].end
                      /\ at[t] = "fault" => mixed \/ t \in early
    BY DEF LookupInv, AnswersAreOwn
  <2>1. asked[t] \in Int /\ answer[t] \in {NoReg, get_region(asked[t])}
    BY DEF AskedNumbers, OwnNode
  <2>2. at[t] = "back" /\ ~mixed => answer[t] = get_region(asked[t])
    BY DEF Alone
  <2>3. at[t] = "fault" => mixed \/ t \in early
    BY DEF Alone
  <2> QED BY <2>1, <2>2, <2>3, RegionIs
<1>2. Numbers => AskedNumbers
  BY DEF Numbers
<1>3. Numbers /\ [Next]_vars => Numbers'
  BY NumbersStep
<1> QED BY <1>1, <1>2, <1>3, ShapesInit, ListIsKept, PTL DEF Spec
-----------------------------------------------------------------------------
(* Where a trace through the driver leads, on x64. *)

\* The stack pointers of a target's calls ascend within its stack, and the registers
\* saved were of that stack.
Ladders ==
    \A t \in Targets :
        /\ Ascends(stk[t], StackEnd[t]) /\ StackOf(t).beg <= stk[t].sp
        /\ StackOf(t).beg <= saved[t].sp /\ saved[t].sp <= StackEnd[t]
        /\ stk[t].calls # <<>> => saved[t].sp < StackEnd[t]

\* A code word of a stack was left by a call on it, or was there before.
Kept ==
    /\ pushed = [t \in Targets |-> pushed[t]]
    /\ \A t \in Targets, a \in StackAddrs :
          StackOf(t).beg <= a /\ a < StackEnd[t] /\ IsPc(mem[a]) => mem[a] \in pushed[t] \cup {prog.old}

\* A trace is on the stack of the thread it was asked for.
Follows ==
    LET r == tr[Tracer] IN
    r.at \notin {"off", "fault"} =>
        /\ r.of \in Targets /\ r.pc \in Int /\ how \in {"driver", "running"}
        /\ r.at = "regs" => saved[r.of].sp < StackEnd[r.of]
        /\ r.at # "regs" => r.sp \in Int /\ StackOf(r.of).beg <= r.sp /\ r.sp < StackEnd[r.of]
        /\ r.at = "asked" => asked[Tracer] = r.sp
        /\ r.at \in {"walk", "done"} => r.usl \in Int /\ r.usl <= StackEnd[r.of]

Printed ==
    LET r == tr[Tracer] IN
    /\ r.out \in Seq(Int)
    /\ r.at \in {"off", "fault"} => r.out = <<>>
    /\ \A i \in DOMAIN r.out : r.out[i] \in pushed[r.of] \cup {prog.old}

Keeping == Ladders /\ Kept /\ Follows /\ Printed

StackInv == Numbers /\ (prog.arch = "x64" => Keeping)

LEMMA KeepingInit == Init => StackInv
<1> SUFFICES ASSUME Init PROVE StackInv
  OBVIOUS
<1>0. Numbers
  BY ShapesInit
<1>1. PICK c \in Cases :
        LET s == [t \in Targets |-> Stack(c, t, Fresh(c.prog))]
        IN  /\ prog = c.prog /\ how = c.how
            /\ mem = [a \in StackAddrs |->
                        IF \E t \in Targets : UpperEnd(a) = StackEnd[t]
                        THEN s[CHOOSE t \in Targets : UpperEnd(a) = StackEnd[t]].mem[a] ELSE c.prog.old]
            /\ stk = [t \in Targets |-> [sp |-> s[t].sp, pc |-> s[t].pc, calls |-> s[t].calls]]
            /\ saved = [t \in Targets |-> [sp |-> s[t].sp, pc |-> s[t].pc]]
            /\ tr = [t \in Tracers |-> NoTrace]
            /\ pushed = [t \in Targets |-> {s[t].calls[i].ra : i \in DOMAIN s[t].calls}]
  BY DEF Init
<1>2. tr[Tracer] = NoTrace
  BY <1>1, TracerIs
<1>3. tr[Tracer].at = "off" /\ tr[Tracer].out = <<>>
  BY <1>2 DEF NoTrace
<1>4. Printed /\ Follows
  BY <1>3 DEF Printed, Follows
<1>5. ASSUME prog.arch = "x64", NEW t \in Targets
      PROVE  /\ Ascends(stk[t], StackEnd[t]) /\ StackOf(t).beg <= stk[t].sp
             /\ StackOf(t).beg <= saved[t].sp /\ saved[t].sp <= StackEnd[t]
             /\ stk[t].calls # <<>> => saved[t].sp < StackEnd[t]
             /\ \A a \in StackAddrs : StackOf(t).beg <= a /\ a < StackEnd[t] /\ IsPc(mem[a]) =>
                   mem[a] \in pushed[t] \cup {prog.old}
  <2> DEFINE s == Stack(c, t, Fresh(c.prog))
  <2>1. /\ StackOf(t).beg <= s.sp /\ s.sp <= StackEnd[t] /\ Ascends(s, StackEnd[t])
        /\ Holds(c.prog, s) /\ IsStack(s)
    BY <1>1, <1>5, StackIs
  <2>2. /\ stk[t] = [sp |-> s.sp, pc |-> s.pc, calls |-> s.calls]
        /\ saved[t] = [sp |-> s.sp, pc |-> s.pc]
        /\ pushed[t] = {s.calls[i].ra : i \in DOMAIN s.calls}
    BY <1>1
  <2>3. \A a \in StackAddrs : UpperEnd(a) = StackEnd[t] => mem[a] = s.mem[a]
    <3> SUFFICES ASSUME NEW a \in StackAddrs, UpperEnd(a) = StackEnd[t] PROVE mem[a] = s.mem[a]
      OBVIOUS
    <3>1. (CHOOSE u \in Targets : UpperEnd(a) = StackEnd[u]) = t
      BY TraceConstants
    <3> QED BY <1>1, <3>1
  <2> HIDE DEF s
  <2>4. stk[t].sp = s.sp /\ stk[t].calls = s.calls /\ saved[t].sp = s.sp
    BY <2>2
  <2>5. Ascends(stk[t], StackEnd[t])
    BY <2>1, <2>4 DEF Ascends
  <2>6. ASSUME s.calls # <<>> PROVE s.sp < StackEnd[t]
    <3>1. s.sp \in Int /\ s.calls \in Seq(Called)
      BY <2>1 DEF IsStack
    <3>2. 1 \in 1 .. Len(s.calls)
      BY <2>6, <3>1
    <3>3. s.sp < s.calls[1].sp /\ s.calls[1].sp <= StackEnd[t] /\ s.calls[1].sp \in Int
      BY <2>1, <3>1, <3>2, CalledType DEF Ascends
    <3> QED BY <3>1, <3>3, EndIs
  <2>7. ASSUME NEW a \in StackAddrs, StackOf(t).beg <= a, a < StackEnd[t], IsPc(mem[a])
        PROVE  mem[a] \in pushed[t] \cup {prog.old}
    <3>1. mem[a] = s.mem[a]
      BY <2>3, <2>7, UpperEndIs, WalkConstants
    <3>2. s.mem[a] = prog.old \/ \E j \in 1 .. Len(s.calls) : s.mem[a] = s.calls[j].ra
      BY <1>1, <2>1, <2>7, <3>1 DEF Holds
    <3>3. DOMAIN s.calls = 1 .. Len(s.calls)
      BY <2>1 DEF IsStack
    <3> QED BY <2>2, <3>1, <3>2, <3>3
  <2> QED BY <2>1, <2>4, <2>5, <2>6, <2>7
<1>6. pushed = [t \in Targets |-> pushed[t]]
  BY <1>1
<1>7. ASSUME prog.arch = "x64" PROVE Ladders /\ Kept
  BY <1>5, <1>6, <1>7 DEF Ladders, Kept
<1> QED BY <1>0, <1>4, <1>7 DEF StackInv, Keeping

\* A step that leaves the stacks and the tracer's trace alone.
LEMMA KeepingFrame ==
    ASSUME StackInv, UNCHANGED <<prog, how, mem, stk, saved, pushed>>, tr'[Tracer] = tr[Tracer],
           tr[Tracer].at = "asked" /\ how \in {"driver", "running"} => asked'[Tracer] = asked[Tracer]
    PROVE  prog'.arch = "x64" => Keeping'
BY DEF StackInv, Keeping, Ladders, Kept, Follows, Printed, Ascends

\* A step of the tracer's trace, which leaves the stacks alone.
LEMMA StacksLeft ==
    ASSUME Ladders, Kept, UNCHANGED <<prog, mem, stk, saved, pushed>>
    PROVE  Ladders' /\ Kept'
BY DEF Ladders, Kept, Ascends

\* A call.
LEMMA KeepingCall ==
    ASSUME StackInv, NEW t \in Targets, NEW f \in DOMAIN prog.funs, NEW off \in {2, 3},
           TargetCalls(t, f, off)
    PROVE  Keeping'
<1> DEFINE s == CallingStack(t)
           ra == ReturnTo(t, off)
           q == Push(prog, s, f, ra, Body)
           r == tr[Tracer]
<1>0. Body \in Int
  BY DEF Body
<1>1. /\ IsStack(s) /\ IsStack(q) /\ ra \in Int
      /\ prog.arch = "x64" /\ IsProgram(prog)
      /\ mem' = q.mem /\ UpperEnd(q.sp) = StackEnd[t]
      /\ stk' = [stk EXCEPT ![t] = [sp |-> q.sp, pc |-> q.pc, calls |-> q.calls]]
      /\ pushed' = [pushed EXCEPT ![t] = @ \cup {q.calls[1].ra}]
      /\ stk[t].calls # <<>> /\ UNCHANGED <<drvVars, prog, how, saved, tr>>
  BY TargetCallIs DEF StackInv, Numbers
<1>2. Shapes /\ Ladders /\ Kept /\ Follows /\ Printed
  BY <1>1 DEF StackInv, Numbers, Keeping
<1>3. s.sp = stk[t].sp /\ s.calls = stk[t].calls /\ s.mem = mem /\ s.sp \in Int
  BY <1>2 DEF CallingStack, Shapes
<1>4. Ascends(s, StackEnd[t])
  BY <1>2, <1>3 DEF Ladders, Ascends
<1>5. StackEnd[t] \in Int
  BY EndIs
<1>6. q.sp < s.sp /\ q.calls = <<[ra |-> ra, sp |-> s.sp]>> \o s.calls
  BY <1>0, <1>1, PushIs
<1>16. Ascends(q, StackEnd[t])
  BY <1>0, <1>1, <1>4, <1>5, AscendsPush
<1>7. \A a \in StackAddrs : q.mem[a] \in {ra, s.sp, prog.old, mem[a]}
  BY <1>0, <1>1, <1>3, PushIs
<1>8. \A a \in StackAddrs : a >= s.sp \/ a < q.sp => q.mem[a] = mem[a]
  BY <1>0, <1>1, <1>3, PushLeaves
<1> HIDE DEF q, ra, s
<1>9. q.sp \in Int /\ q.calls \in Seq(Called)
  BY <1>1 DEF IsStack
<1>10. StackOf(t).beg <= q.sp /\ q.sp < StackEnd[t]
  BY <1>1, <1>9, UpperEndIs
<1>11. Ladders'
  <2>1. stk'[t] = [sp |-> q.sp, pc |-> q.pc, calls |-> q.calls] /\ \A u \in Targets \ {t} : stk'[u] = stk[u]
    BY <1>1, <1>2 DEF Shapes
  <2>2. stk'[t].sp = q.sp /\ stk'[t].calls = q.calls
    BY <2>1
  <2>3. /\ Ascends(stk'[t], StackEnd[t]) /\ StackOf(t).beg <= stk'[t].sp
        /\ StackOf(t).beg <= saved'[t].sp /\ saved'[t].sp < StackEnd[t] /\ saved'[t].sp <= StackEnd[t]
    BY <1>1, <1>2, <1>16, <1>10, <2>2 DEF Ascends, Ladders
  <2>4. \A u \in Targets \ {t} :
           /\ Ascends(stk'[u], StackEnd[u]) /\ StackOf(u).beg <= stk'[u].sp
           /\ StackOf(u).beg <= saved'[u].sp /\ saved'[u].sp <= StackEnd[u]
           /\ stk'[u].calls # <<>> => saved'[u].sp < StackEnd[u]
    BY <1>1, <1>2, <2>1 DEF Ladders
  <2> QED BY <2>3, <2>4 DEF Ladders, Ascends
<1>12. q.calls[1].ra = ra
  BY <1>3, <1>6, <1>9
<1>13. s.sp > TextEnd
  BY <1>2, <1>3, EndIs, WalkConstants DEF Ladders
<1>14. /\ pushed' = [u \in Targets |-> pushed'[u]] /\ ra \in pushed'[t]
       /\ \A u \in Targets : pushed[u] \subseteq pushed'[u]
  BY <1>1, <1>2, <1>12 DEF Kept
<1>15. Kept'
  <2> SUFFICES ASSUME NEW u \in Targets, NEW a \in StackAddrs, StackOf(u).beg <= a, a < StackEnd[u], IsPc(q.mem[a])
               PROVE  q.mem[a] \in pushed'[u] \cup {prog.old}
    BY <1>1, <1>14 DEF Kept
  <2>1. IsPc(mem[a]) => mem[a] \in pushed[u] \cup {prog.old}
    BY <1>2 DEF Kept
  <2>2. q.mem[a] \in {ra, prog.old, mem[a]}
    BY <1>3, <1>7, <1>13, WalkConstants DEF IsPc
  <2>3. CASE u = t
    BY <1>14, <2>1, <2>2, <2>3
  <2>4. CASE u # t
    <3>1. a \in Int /\ StackOf(u).beg \in Int
      BY EndIs, WalkConstants
    <3>2. CASE a >= s.sp \/ a < q.sp
      <4>1. q.mem[a] = mem[a]
        BY <1>8, <3>2
      <4> QED BY <1>14, <2>1, <4>1
    <3>3. CASE q.sp <= a /\ a < s.sp
      <4>1. StackOf(t).beg <= a /\ a < StackEnd[t]
        BY <1>3, <1>4, <1>5, <1>9, <1>10, <3>1, <3>3, EndIs DEF Ascends
      <4> QED BY <2>4, <3>1, <4>1, StacksApart
    <3> QED BY <1>3, <1>9, <3>1, <3>2, <3>3
  <2> QED BY <2>3, <2>4
<1>17. Follows'
  BY <1>1, <1>2 DEF Follows, drvVars
<1>18. Printed'
  <2>1. CASE tr[Tracer].at \in {"off", "fault"}
    <3>1. tr[Tracer].out = <<>> /\ tr[Tracer].out \in Seq(Int) /\ tr' = tr
      BY <1>1, <1>2, <2>1 DEF Printed
    <3>2. DOMAIN tr[Tracer].out = {}
      BY <3>1
    <3> QED BY <3>1, <3>2 DEF Printed
  <2>2. CASE tr[Tracer].at \notin {"off", "fault"}
    <3>1. tr[Tracer].of \in Targets /\ tr' = tr /\ prog' = prog
      BY <1>1, <1>2, <2>2 DEF Follows
    <3>2. pushed[tr[Tracer].of] \subseteq pushed'[tr[Tracer].of]
      BY <1>14, <3>1
    <3> QED BY <1>2, <3>1, <3>2 DEF Printed
  <2> QED BY <2>1, <2>2
<1> QED BY <1>11, <1>15, <1>17, <1>18 DEF Keeping

\* A return.
LEMMA KeepingReturn ==
    ASSUME StackInv, NEW t \in Targets, TargetReturns(t)
    PROVE  Keeping'
<1> DEFINE c == stk[t].calls
           n == Len(c)
           d == Tail(c)
<1>1. /\ prog.arch = "x64" /\ n \in Nat \ {0} /\ c # <<>>
      /\ stk' = [stk EXCEPT ![t] = stk'[t]]
      /\ stk'[t] = [sp |-> c[1].sp, pc |-> c[1].ra, calls |-> d]
      /\ c[1].sp \in Int
      /\ UNCHANGED <<drvVars, prog, how, mem, saved, tr, pushed>>
  BY TargetReturnIs DEF StackInv, Numbers
<1>2. Shapes /\ Ladders /\ Kept /\ Follows /\ Printed
  BY <1>1 DEF StackInv, Numbers, Keeping
<1>3. c \in Seq(Called)
  BY <1>2 DEF Shapes
<1>4. /\ Len(d) = n - 1 /\ \A i \in 1 .. n - 1 : d[i] = c[i + 1] /\ i + 1 \in 1 .. n
      /\ 1 \in 1 .. n
  BY <1>1, <1>3
<1>5. /\ Ascends(stk[t], StackEnd[t]) /\ StackOf(t).beg <= stk[t].sp /\ stk[t].sp \in Int
      /\ StackOf(t).beg <= saved[t].sp /\ saved[t].sp <= StackEnd[t] /\ saved[t].sp < StackEnd[t]
  BY <1>1, <1>2 DEF Ladders, Shapes
<1>6. /\ \A i \in 1 .. n : stk[t].sp < c[i].sp /\ c[i].sp <= StackEnd[t]
      /\ \A i, j \in 1 .. n : i < j => c[i].sp < c[j].sp
  BY <1>5 DEF Ascends
<1> HIDE DEF c, d, n
<1>7. stk'[t].sp = c[1].sp /\ stk'[t].calls = d
  BY <1>1
<1>8. \A u \in Targets \ {t} : stk'[u] = stk[u]
  BY <1>1, <1>2 DEF Shapes
<1>9. Ladders'
  <2>1. Ascends(stk'[t], StackEnd[t])
    <3>1. c[1].sp <= StackEnd[t]
      BY <1>4, <1>6
    <3>2. ASSUME NEW i \in 1 .. n - 1
          PROVE  /\ c[1].sp < d[i].sp /\ d[i].sp <= StackEnd[t]
                 /\ \A j \in 1 .. n - 1 : i < j => d[i].sp < d[j].sp
      <4>1. d[i] = c[i + 1] /\ i + 1 \in 1 .. n /\ 1 < i + 1
        BY <1>4
      <4>2. \A j \in 1 .. n - 1 : i < j => d[j] = c[j + 1] /\ j + 1 \in 1 .. n /\ i + 1 < j + 1
        BY <1>4
      <4> QED BY <1>4, <1>6, <4>1, <4>2
    <3> QED BY <1>4, <1>7, <3>1, <3>2 DEF Ascends
  <2>2. StackOf(t).beg <= stk'[t].sp
    BY <1>1, <1>4, <1>5, <1>6, <1>7, EndIs
  <2> QED BY <1>1, <1>2, <1>5, <1>8, <2>1, <2>2 DEF Ladders, Ascends
<1>10. Kept' /\ Follows' /\ Printed'
  BY <1>1, <1>2 DEF Kept, Follows, Printed, drvVars
<1> QED BY <1>9, <1>10 DEF Keeping

\* A thread enters the kernel, which saves its registers.
LEMMA KeepingEnters ==
    ASSUME StackInv, NEW t \in Targets, EntersKernel(t)
    PROVE  Keeping'
<1>1. /\ prog.arch = "x64" /\ stk[t].calls # <<>>
      /\ saved' = [saved EXCEPT ![t] = [sp |-> stk[t].sp, pc |-> stk[t].pc]]
      /\ UNCHANGED <<drvVars, prog, how, mem, stk, tr, pushed>>
  BY DEF EntersKernel, Runs, Current
<1>2. Shapes /\ Ladders /\ Kept /\ Follows /\ Printed
  BY <1>1 DEF StackInv, Numbers, Keeping
<1>3. saved'[t].sp = stk[t].sp /\ \A u \in Targets \ {t} : saved'[u] = saved[u]
  BY <1>1, <1>2 DEF Shapes
<1>4. StackOf(t).beg <= stk[t].sp /\ stk[t].sp < StackEnd[t] /\ stk[t].sp <= StackEnd[t]
  <2>1. stk[t].sp \in Int /\ stk[t].calls \in Seq(Called) /\ 1 \in 1 .. Len(stk[t].calls)
    BY <1>1, <1>2 DEF Shapes
  <2>2. stk[t].sp < stk[t].calls[1].sp /\ stk[t].calls[1].sp <= StackEnd[t] /\ stk[t].calls[1].sp \in Int
    BY <1>2, <2>1, CalledType DEF Ladders, Ascends
  <2> QED BY <1>2, <2>1, <2>2, EndIs DEF Ladders
<1>5. Ladders'
  BY <1>1, <1>2, <1>3, <1>4 DEF Ladders, Ascends
<1>6. Follows'
  <2>1. tr[Tracer].of \in Targets /\ saved[tr[Tracer].of].sp < StackEnd[tr[Tracer].of] =>
           saved'[tr[Tracer].of].sp < StackEnd[tr[Tracer].of]
    BY <1>3, <1>4
  <2> QED BY <1>1, <1>2, <2>1 DEF Follows, drvVars
<1>7. Kept' /\ Printed'
  BY <1>1, <1>2 DEF Kept, Printed
<1> QED BY <1>5, <1>6, <1>7 DEF Keeping

\* The driver finds the thread, and takes the pc of its registers.
LEMMA KeepingAsk ==
    ASSUME StackInv, prog.arch = "x64", NEW t \in Targets, lgdrv_ioctl(t)
    PROVE  Keeping'
<1>1. Shapes /\ Ladders /\ Kept /\ Printed
  BY DEF StackInv, Numbers, Keeping
<1>2. /\ tr[Tracer].at = "off" /\ how \in {"driver", "running"}
      /\ \/ tr'[Tracer] = [tr[Tracer] EXCEPT !.at = "fault"]
         \/ /\ stk[t].calls # <<>>
            /\ tr'[Tracer] = [tr[Tracer] EXCEPT !.at = "regs", !.pc = saved[t].pc, !.of = t]
      /\ UNCHANGED <<prog, how, mem, stk, saved, pushed>>
  BY <1>1, TracerAsks
<1>3. IsTrace(tr[Tracer]) /\ saved[t].pc \in Int
  BY <1>1 DEF Shapes
<1>4. /\ tr'[Tracer].out = tr[Tracer].out
      /\ \/ tr'[Tracer].at = "fault"
         \/ /\ tr'[Tracer].at = "regs" /\ stk[t].calls # <<>>
            /\ tr'[Tracer].pc = saved[t].pc /\ tr'[Tracer].of = t
  BY <1>2, <1>3 DEF IsTrace
<1>5. Ladders' /\ Kept'
  BY <1>1, <1>2, StacksLeft
<1>6. Follows'
  BY <1>1, <1>2, <1>3, <1>4 DEF Follows, Ladders
<1>7. Printed'
  <2>1. tr'[Tracer].out = <<>> /\ tr'[Tracer].out \in Seq(Int)
    BY <1>1, <1>2, <1>4 DEF Printed
  <2>2. DOMAIN tr'[Tracer].out = {}
    BY <2>1
  <2> QED BY <2>1, <2>2 DEF Printed
<1> QED BY <1>5, <1>6, <1>7 DEF Keeping

\* The driver takes the stack pointer.
LEMMA KeepingReads ==
    ASSUME StackInv, prog.arch = "x64", build_context_frame
    PROVE  Keeping'
<1>1. Shapes /\ Waits /\ Ladders /\ Kept /\ Follows /\ Printed
  BY DEF StackInv, Numbers, Keeping
<1>2. tr[Tracer].at = "regs"
  BY DEF build_context_frame, TrAt
<1>3. tr[Tracer].of \in Targets /\ tr[Tracer].pc \in Int /\ how \in {"driver", "running"}
  BY <1>1, <1>2 DEF Follows
<1>4. /\ \E sp \in Int, pc \in Int :
           /\ tr'[Tracer] = [tr[Tracer] EXCEPT !.at = "ask", !.sp = sp, !.pc = pc]
           /\ prog.arch = "x64" => sp = saved[tr[Tracer].of].sp
      /\ UNCHANGED <<prog, how, mem, stk, saved, pushed>>
  BY <1>1, <1>3, TracerReads
<1>5. PICK sp \in Int, pc \in Int :
         /\ tr'[Tracer] = [tr[Tracer] EXCEPT !.at = "ask", !.sp = sp, !.pc = pc]
         /\ sp = saved[tr[Tracer].of].sp
  BY <1>4
<1>6. IsTrace(tr[Tracer])
  BY <1>1 DEF Shapes
<1>7. /\ tr'[Tracer].at = "ask" /\ tr'[Tracer].sp = sp /\ tr'[Tracer].pc = pc
      /\ tr'[Tracer].of = tr[Tracer].of /\ tr'[Tracer].out = tr[Tracer].out
  BY <1>5, <1>6 DEF IsTrace
<1>8. Ladders' /\ Kept'
  BY <1>1, <1>4, StacksLeft
<1>9. StackOf(tr[Tracer].of).beg <= sp /\ sp < StackEnd[tr[Tracer].of]
  BY <1>1, <1>2, <1>3, <1>5 DEF Ladders, Follows
<1>10. Follows'
  BY <1>3, <1>4, <1>7, <1>9 DEF Follows
<1>11. Printed'
  BY <1>1, <1>4, <1>7 DEF Printed
<1> QED BY <1>8, <1>10, <1>11 DEF Keeping

\* The tracer asks for the region of the stack pointer.
LEMMA KeepingRegion ==
    ASSUME OwnNode, StackInv, prog.arch = "x64", AskRegion
    PROVE  Keeping'
<1>1. Shapes /\ Ladders /\ Kept /\ Follows /\ Printed
  BY DEF StackInv, Numbers, Keeping
<1>2. /\ tr[Tracer].at = "ask" /\ tr' = [tr EXCEPT ![Tracer] = [tr[Tracer] EXCEPT !.at = "asked"]]
      /\ asked' = [asked EXCEPT ![Tracer] = tr[Tracer].sp]
      /\ UNCHANGED <<prog, how, mem, stk, saved, pushed>>
  BY DEF AskRegion, TrAt, Trace, lgdrv_llseek
<1>3. tr'[Tracer] = [tr[Tracer] EXCEPT !.at = "asked"] /\ asked'[Tracer] = tr[Tracer].sp
  <2>1. tr'[Tracer] = [tr[Tracer] EXCEPT !.at = "asked"]
    BY <1>1, <1>2, TracerIs DEF Shapes
  <2>2. asked = [t \in Callers |-> asked[t]]
    BY DEF OwnNode
  <2> QED BY <1>2, <2>1, <2>2, TracerIs
<1>4. /\ tr'[Tracer].at = "asked" /\ tr'[Tracer].sp = tr[Tracer].sp /\ tr'[Tracer].pc = tr[Tracer].pc
      /\ tr'[Tracer].of = tr[Tracer].of /\ tr'[Tracer].out = tr[Tracer].out
  BY <1>1, <1>3 DEF Shapes, IsTrace
<1>5. Ladders' /\ Kept'
  BY <1>1, <1>2, StacksLeft
<1>6. Follows'
  BY <1>1, <1>2, <1>3, <1>4 DEF Follows
<1>7. Printed'
  BY <1>1, <1>2, <1>4 DEF Printed
<1> QED BY <1>5, <1>6, <1>7 DEF Keeping

\* stack_trace begins: the upper end is that of the thread's stack, or 0.
LEMMA KeepingBegin ==
    ASSUME OwnNode, StackInv, prog.arch = "x64", stack_trace
    PROVE  Keeping'
<1> DEFINE r == tr[Tracer]
           n == Begun(r, r.sp, r.pc, prog.old, answer[Tracer].end, "print", r.of)
<1>1. Shapes /\ Ladders /\ Kept /\ Follows /\ Printed
  BY DEF StackInv, Numbers, Keeping
<1>2. /\ r.at = "asked" /\ tr' = [tr EXCEPT ![Tracer] = n]
      /\ UNCHANGED <<drvVars, prog, how, mem, stk, saved, pushed>>
  BY DEF stack_trace, TrAt, Trace
<1>3. /\ r.of \in Targets /\ r.sp \in Int /\ r.pc \in Int /\ StackOf(r.of).beg <= r.sp
      /\ r.sp < StackEnd[r.of] /\ asked[Tracer] = r.sp /\ how \in {"driver", "running"}
  BY <1>1, <1>2 DEF Follows
<1>4. answer[Tracer].end \in Int /\ answer[Tracer].end <= StackEnd[r.of]
  <2>1. answer[Tracer] \in {NoReg, get_region(r.sp)}
    BY <1>3, TracerIs DEF OwnNode
  <2>2. answer[Tracer] \in {NoReg, StackOf(r.of)}
    BY <1>3, <2>1, RegionOfStack
  <2>3. NoReg.end = 0
    BY DEF NoReg
  <2> QED BY <1>3, <2>2, <2>3, StackOfIs
<1>5. /\ n.at = "walk" /\ n.sp = r.sp /\ n.pc \in Int /\ n.of = r.of /\ n.out = r.out
      /\ n.usl = answer[Tracer].end
  <2> DEFINE l == IF r.sp + TraceWords >= answer[Tracer].end THEN answer[Tracer].end
                  ELSE r.sp + TraceWords
             pc == IF IsPc(r.pc) THEN r.pc ELSE prog.old
  <2>1. n = [r EXCEPT !.at = "walk", !.sp = r.sp, !.pc = pc, !.usl = answer[Tracer].end,
                      !.kind = "print", !.of = r.of, !.limit = l]
    BY DEF Begun
  <2>2. pc \in Int
    BY <1>1, <1>3 DEF Shapes, IsProgram
  <2> HIDE DEF l, pc
  <2>3. IsTrace(r)
    BY <1>1 DEF Shapes
  <2> HIDE DEF r
  <2> QED BY <2>1, <2>2, <2>3 DEF IsTrace
<1> HIDE DEF n
<1>6. tr'[Tracer] = n
  BY <1>1, <1>2, TracerIs DEF Shapes
<1>7. Ladders' /\ Kept'
  BY <1>1, <1>2, StacksLeft
<1>8. Follows'
  BY <1>2, <1>3, <1>4, <1>5, <1>6 DEF Follows
<1>9. Printed'
  BY <1>1, <1>2, <1>5, <1>6 DEF Printed
<1> QED BY <1>7, <1>8, <1>9 DEF Keeping

LEMMA EachAppend ==
    ASSUME NEW out \in Seq(Int), NEW x \in Int, NEW S, \A i \in DOMAIN out : out[i] \in S, x \in S
    PROVE  Append(out, x) \in Seq(Int) /\ \A i \in DOMAIN Append(out, x) : Append(out, x)[i] \in S
<1>1. Append(out, x) \in Seq(Int) /\ DOMAIN Append(out, x) = 1 .. Len(out) + 1
  OBVIOUS
<1>2. ASSUME NEW i \in 1 .. Len(out) + 1 PROVE Append(out, x)[i] \in S
  <2>1. CASE i = Len(out) + 1
    BY <2>1
  <2>2. CASE i # Len(out) + 1
    <3>1. i \in DOMAIN out /\ Append(out, x)[i] = out[i]
      BY <2>2
    <3> QED BY <3>1
  <2> QED BY <2>1, <2>2
<1> QED BY <1>1, <1>2

\* A turn of the loop prints a word of the stack above the stack pointer it is at.
LEMMA KeepingWalk ==
    ASSUME StackInv, prog.arch = "x64", Walk(Tracer)
    PROVE  Keeping'
<1> DEFINE r == tr[Tracer]
           f == get_frame_size(prog, mem, r.sp, r.usl, r.pc)
<1>1. Shapes /\ Ladders /\ Kept /\ Follows /\ Printed
  BY DEF StackInv, Numbers, Keeping
<1>2. /\ r.at = "walk"
      /\ tr'[Tracer] = [r EXCEPT !.at = "done"] \/ (tr'[Tracer] = Turn /\ f.words # 0)
      /\ UNCHANGED <<drvVars, prog, how, mem, stk, saved, pushed>>
  BY <1>1, TracerWalks
<1>3. /\ r.of \in Targets /\ r.sp \in Int /\ r.pc \in Int /\ StackOf(r.of).beg <= r.sp
      /\ how \in {"driver", "running"} /\ r.sp < StackEnd[r.of]
      /\ r.usl \in Int /\ r.usl <= StackEnd[r.of]
  BY <1>1, <1>2 DEF Follows
<1>4. Ladders' /\ Kept'
  BY <1>1, <1>2, StacksLeft
<1>5. CASE tr'[Tracer] = [r EXCEPT !.at = "done"]
  <2>1. /\ tr'[Tracer].at = "done" /\ tr'[Tracer].sp = r.sp /\ tr'[Tracer].pc = r.pc
        /\ tr'[Tracer].of = r.of /\ tr'[Tracer].out = r.out /\ tr'[Tracer].usl = r.usl
    BY <1>1, <1>5 DEF Shapes, IsTrace
  <2>2. Follows'
    BY <1>2, <1>3, <2>1 DEF Follows
  <2>3. Printed'
    BY <1>1, <1>2, <2>1 DEF Printed
  <2> QED BY <1>4, <2>2, <2>3 DEF Keeping
<1>6. CASE tr'[Tracer] = Turn /\ f.words # 0
  <2>1. /\ f.words \in Nat \ {0} /\ r.sp + f.words < r.usl /\ r.sp + f.words \in StackAddrs
        /\ f.ra = mem[r.sp + f.words] /\ IsPc(f.ra)
    <3>1. f = FrameX64(prog, mem, r.sp, r.usl, r.pc)
      BY DEF get_frame_size
    <3>2. IsProgram(prog) /\ r.sp >= TextEnd
      BY <1>1, <1>3, EndIs, WalkConstants DEF Shapes
    <3>3. r.sp \in Int /\ r.pc \in Int /\ r.usl \in Int
      BY <1>3
    <3> HIDE DEF f, r
    <3>4. \/ f = NoFrame
          \/ /\ f.words \in Nat \ {0} /\ r.sp + f.words < r.usl
             /\ r.sp + f.words \in StackAddrs /\ f.ra = mem[r.sp + f.words] /\ IsPc(f.ra)
      BY <3>1, <3>2, <3>3, FrameIs
    <3>5. f # NoFrame
      BY <1>6 DEF NoFrame, f
    <3> QED BY <3>4, <3>5
  <2> HIDE DEF f
  <2>2. StackOf(r.of).beg <= r.sp + f.words /\ r.sp + f.words < StackEnd[r.of] /\ r.sp + f.words \in Int
    BY <1>3, <2>1, EndIs
  <2>3. f.ra \in pushed[r.of] \cup {prog.old} /\ f.ra \in Int
    BY <1>1, <1>3, <2>1, <2>2, WalkConstants DEF Kept, IsPc
  <2>4. /\ tr'[Tracer].at \in {"walk", "done"} /\ tr'[Tracer].sp = r.sp + f.words
        /\ tr'[Tracer].pc = f.ra /\ tr'[Tracer].of = r.of /\ tr'[Tracer].usl = r.usl
        /\ tr'[Tracer].out = Append(r.out, f.ra)
    <3>1. Turn = [r EXCEPT !.sp = r.sp + f.words, !.pc = f.ra, !.out = Append(r.out, f.ra),
                           !.at = IF r.sp + f.words < r.limit THEN "walk" ELSE "done"]
      BY DEF Turn, f
    <3>2. IsTrace(r)
      BY <1>1 DEF Shapes
    <3> QED BY <1>6, <3>1, <3>2 DEF IsTrace
  <2>5. Follows'
    BY <1>2, <1>3, <2>2, <2>3, <2>4 DEF Follows
  <2>6. Printed'
    <3> DEFINE S == pushed[r.of] \cup {prog.old}
    <3>1. r.out \in Seq(Int) /\ \A i \in DOMAIN r.out : r.out[i] \in S
      BY <1>1 DEF Printed
    <3>2. f.ra \in S
      BY <2>3
    <3> HIDE DEF S, r
    <3>3. /\ Append(r.out, f.ra) \in Seq(Int)
          /\ \A i \in DOMAIN Append(r.out, f.ra) : Append(r.out, f.ra)[i] \in S
      BY <2>3, <3>1, <3>2, EachAppend
    <3>4. S = pushed'[tr'[Tracer].of] \cup {prog'.old} /\ tr'[Tracer].at \notin {"off", "fault"}
      BY <1>2, <2>4 DEF S
    <3> QED BY <2>4, <3>3, <3>4 DEF Printed
  <2> QED BY <1>4, <2>5, <2>6 DEF Keeping
<1> QED BY <1>2, <1>5, <1>6

LEMMA KeepingStep == ASSUME OwnNode, StackInv, [Next]_vars PROVE StackInv'
<1> SUFFICES prog'.arch = "x64" => Keeping'
  BY NumbersStep DEF StackInv
<1>1. CASE UNCHANGED vars
  BY <1>1, KeepingFrame DEF vars, drvVars, trcVars
<1>2. CASE UNCHANGED trcVars /\ UNCHANGED asked
  BY <1>2, KeepingFrame DEF trcVars
<1>3. CASE UNCHANGED trcVars /\ OtherAsks
  <2> PICK t \in Callers : \E a : lgdrv_llseek(t, a) /\ (t # Tracer \/ how = "load")
    BY <1>3 DEF OtherAsks
  <2>1. PICK a : lgdrv_llseek(t, a) /\ (t # Tracer \/ how = "load")
    OBVIOUS
  <2>2. how \in {"driver", "running"} => asked'[Tracer] = asked[Tracer]
    <3>1. asked' = [asked EXCEPT ![t] = a] /\ asked = [u \in Callers |-> asked[u]]
      BY <2>1 DEF lgdrv_llseek, OwnNode
    <3> QED BY <2>1, <3>1, TracerIs
  <2> QED BY <1>3, <2>2, KeepingFrame DEF trcVars
<1>4. CASE OtherTraces
  <2>1. UNCHANGED <<drvVars, prog, how, mem, stk, saved, pushed>> /\ tr'[Tracer] = tr[Tracer]
    BY <1>4, OtherTracesLeave DEF StackInv, Numbers
  <2> QED BY <2>1, KeepingFrame DEF drvVars
<1>5. CASE \E t \in Targets : lgdrv_ioctl(t)
  <2>1. prog' = prog
    BY <1>5 DEF lgdrv_ioctl
  <2> QED BY <1>5, <2>1, KeepingAsk
<1>6. CASE build_context_frame \/ AskRegion \/ stack_trace \/ Walk(Tracer)
  <2>1. prog' = prog
    BY <1>6 DEF build_context_frame, AskRegion, stack_trace, Walk
  <2> QED BY <1>6, <2>1, KeepingReads, KeepingRegion, KeepingBegin, KeepingWalk
<1>7. CASE \E t \in Targets, f \in DOMAIN prog.funs, off \in {2, 3} : TargetCalls(t, f, off)
  BY <1>7, KeepingCall
<1>8. CASE \E t \in Targets : TargetReturns(t) \/ EntersKernel(t)
  BY <1>8, KeepingReturn, KeepingEnters
<1>9. ASSUME Driver PROVE UNCHANGED trcVars /\ (OtherAsks \/ UNCHANGED asked)
  BY <1>9 DEF Driver, DrvStep, InsertNode, LinkNode, LinkTail, lgdrv_read, Find, Unlink,
              Relink, FreeNode
<1>10. ASSUME Loading PROVE UNCHANGED asked
  BY <1>10 DEF Loading, Acquire, InitList, InitNext, Release, lgdrv_exit, lookup
<1>11. ASSUME \E t \in Tracers : Walk(t) PROVE OtherTraces \/ Walk(Tracer)
  BY <1>11 DEF Tracers, OtherTraces
<1> QED BY <1>1, <1>2, <1>3, <1>4, <1>5, <1>6, <1>7, <1>8, <1>9, <1>10, <1>11
        DEF Next, OtherTraces

\* The invariant of the traces through the driver on x64: the calls ascend within their
\* stack, a code word on a stack was left by one of that stack's calls or was there
\* before, whatever has returned or been overwritten since, and a trace, from whatever
\* registers the kernel saved last, is on the stack of the thread it was asked for.
THEOREM StacksAreFollowed == Spec => []StackInv
<1>1. Init => StackInv
  BY KeepingInit
<1>2. LookupInv /\ StackInv /\ [Next]_vars => StackInv'
  BY KeepingStep DEF LookupInv
<1> QED BY <1>1, <1>2, ListIsKept, PTL DEF Spec

\* A trace through the driver, from registers that may be stale and of two moments,
\* while the thread runs on, calls, returns, ends and overwrites its stack, stays on that
\* thread's stack on x64 and prints nothing but return addresses its calls have left
\* there, or words from before them, whatever the program (TraceKeepsToStack).
THEOREM TracesKeepToStack == Spec => [](prog.arch = "x64" => TraceKeepsToStack)
<1>1. StackInv => (prog.arch = "x64" => TraceKeepsToStack)
  <2> SUFFICES ASSUME Follows, Printed PROVE TraceKeepsToStack
    BY DEF StackInv, Keeping
  <2>1. \A i \in DOMAIN tr[Tracer].out : tr[Tracer].out[i] \in pushed[tr[Tracer].of] \cup {prog.old}
    BY DEF Printed
  <2>2. tr[Tracer].at \in {"walk", "done"} => UpperEnd(tr[Tracer].sp) = StackEnd[tr[Tracer].of]
    BY UpperEndIs DEF Follows
  <2> QED BY <2>1, <2>2 DEF TraceKeepsToStack
<1> QED BY <1>1, StacksAreFollowed, PTL

=============================================================================
