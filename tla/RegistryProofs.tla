---------------------------- MODULE RegistryProofs ----------------------------
(***************************************************************************)
(* Proofs about ThreadRegistry for any number of threads and walkers.  The  *)
(* first part is about operations that overlap in every way.  The rest is   *)
(* about those that do not: the ids, the list as a ThreadPool, and what a   *)
(* listing shows while threads come and go under it.                        *)
(***************************************************************************)
EXTENDS ThreadRegistry, FiniteSetTheorems, SequenceTheorems, TLAPS

(* A node is usable when its forward link has been written.                  *)
Usable(n) == n \in Nodes /\ next[n] \in Nodes

(* Links lead to usable nodes only.                                          *)
BaseLinked == Usable(Base) /\ prev[Base] # Null

LinksUsable ==
  /\ BaseLinked
  /\ \A n \in Nodes : next[n] # Null => Usable(next[n])
  /\ \A n \in Nodes : prev[n] # Null => Usable(prev[n])

(* What each control point of a thread has already written.                  *)
Before(t, S) == pc[t] \in {"unborn"} \cup S

Progress ==
  \A t \in Threads :
    /\ pc[t] = "store" => reg[t] # 0
    /\ pc[t] \in {"test", "wrap", "assign"} => taskId # 0
    /\ ~Before(t, Numbering) => tskId[t] # 0
    /\ ~Before(t, Numbering \cup {"ins1"}) => prev[t] # Null
    /\ ~Before(t, Numbering \cup {"ins1", "ins2"}) => Usable(t)
    /\ Usable(t) => tskId[t] # 0

WalkersUsable == \A w \in Walkers : cur[w] # Null => Usable(cur[w])

IInv == TypeOK /\ LinksUsable /\ Progress /\ WalkersUsable

-----------------------------------------------------------------------------
LEMMA IInvInit == Init => IInv
BY RegistryConstants
DEF Init, IInv, TypeOK, LinksUsable, BaseLinked, Progress, WalkersUsable, Usable, Before, Nodes,
    Numbering, Linking, Unlinking

(* Numbering touches no link.                                                *)
LEMMA NumberingStep ==
  ASSUME IInv, NEW t \in Threads,
         Start(t) \/ LoadId(t) \/ StoreId(t) \/ TestWrap(t) \/ WrapId(t) \/ AssignId(t)
  PROVE  IInv'
<1>1. CASE Start(t)
  BY <1>1 DEF IInv, TypeOK, LinksUsable, BaseLinked, Progress, WalkersUsable, Usable, Before,
    Nodes, Numbering, Linking, Unlinking, Start, Step, list, ids, walks
<1>2. CASE LoadId(t)
  BY <1>2 DEF IInv, TypeOK, LinksUsable, BaseLinked, Progress, WalkersUsable, Usable, Before,
    Nodes, Numbering, Linking, Unlinking, LoadId, Step, list, ids, walks
<1>3. CASE StoreId(t)
  BY <1>3 DEF IInv, TypeOK, LinksUsable, BaseLinked, Progress, WalkersUsable, Usable, Before,
    Nodes, Numbering, Linking, Unlinking, StoreId, Step, list, ids, walks
<1>4. CASE TestWrap(t)
  BY <1>4 DEF IInv, TypeOK, LinksUsable, BaseLinked, Progress, WalkersUsable, Usable, Before,
    Nodes, Numbering, Linking, Unlinking, TestWrap, Step, list, ids, walks
<1>5. CASE WrapId(t)
  BY <1>5 DEF IInv, TypeOK, LinksUsable, BaseLinked, Progress, WalkersUsable, Usable, Before,
    Nodes, Numbering, Linking, Unlinking, WrapId, Step, list, ids, walks
<1>6. CASE AssignId(t)
  BY <1>6 DEF IInv, TypeOK, LinksUsable, BaseLinked, Progress, WalkersUsable, Usable, Before,
    Nodes, Numbering, Linking, Unlinking, AssignId, Step, list, ids, walks
<1> QED BY <1>1, <1>2, <1>3, <1>4, <1>5, <1>6

(* One step of a thread that writes links: the forward links change at most  *)
(* at one node, and what is written is usable.                               *)
LEMMA LinkingStep ==
  ASSUME IInv, NEW t \in Threads,
         Insert1(t) \/ Insert2(t) \/ Insert3(t) \/ Insert4(t)
  PROVE  IInv'
<1>1. CASE Insert1(t)
  <2>1. /\ next' = next /\ cur' = cur
        /\ prev' = [prev EXCEPT ![t] = prev[Base]]
        /\ pc[t] = "ins1" /\ pc' = [pc EXCEPT ![t] = "ins2"]
    BY <1>1 DEF Insert1, Step, walks
  <2>2. TypeOK'
    BY <1>1 DEF IInv, TypeOK, Nodes, Numbering, Linking, Unlinking, Insert1, Step, ids, walks
  <2>3. prev[Base] # Null
    BY DEF IInv, LinksUsable, BaseLinked
  <2>4. LinksUsable' /\ WalkersUsable'
    BY <2>1, <2>3 DEF IInv, TypeOK, LinksUsable, BaseLinked, WalkersUsable, Usable, Nodes
  <2>5. Progress'
    BY <1>1, <2>1, <2>3 DEF IInv, TypeOK, Progress, Usable, Before, Nodes, Numbering, Insert1, ids
  <2> QED BY <2>2, <2>4, <2>5 DEF IInv
<1>2. CASE Insert2(t)
  BY <1>2, RegistryConstants DEF IInv, TypeOK, LinksUsable, BaseLinked, Progress, WalkersUsable,
    Usable, Before, Nodes, Numbering, Linking, Unlinking, Insert2, Step, list, ids, walks
<1>3. CASE Insert3(t)
  BY <1>3, RegistryConstants DEF IInv, TypeOK, LinksUsable, BaseLinked, Progress, WalkersUsable,
    Usable, Before, Nodes, Numbering, Linking, Unlinking, Insert3, Step, list, ids, walks
<1>4. CASE Insert4(t)
  BY <1>4, RegistryConstants DEF IInv, TypeOK, LinksUsable, BaseLinked, Progress, WalkersUsable,
    Usable, Before, Nodes, Numbering, Linking, Unlinking, Insert4, Step, list, ids, walks
<1> QED BY <1>1, <1>2, <1>3, <1>4

LEMMA EndingStep ==
  ASSUME IInv, NEW t \in Threads, Return(t) \/ Cancel(t) \/ Remove(t)
  PROVE  IInv'
<1>1. CASE Return(t) \/ Cancel(t) \/ IsEmpty(t)
  BY <1>1 DEF IInv, TypeOK, LinksUsable, BaseLinked, Progress, WalkersUsable, Usable, Before,
    Nodes, Numbering, Linking, Unlinking, Return, Cancel, IsEmpty, Step, list, ids, walks
<1>2. CASE Remove1(t)
  BY <1>2, RegistryConstants DEF IInv, TypeOK, LinksUsable, BaseLinked, Progress, WalkersUsable,
    Usable, Before, Nodes, Numbering, Linking, Unlinking, Remove1, Step, list, ids, walks
<1>3. CASE Remove2(t)
  BY <1>3, RegistryConstants DEF IInv, TypeOK, LinksUsable, BaseLinked, Progress, WalkersUsable,
    Usable, Before, Nodes, Numbering, Linking, Unlinking, Remove2, Step, list, ids, walks
<1>4. CASE Remove3(t)
  BY <1>4, RegistryConstants DEF IInv, TypeOK, LinksUsable, BaseLinked, Progress, WalkersUsable,
    Usable, Before, Nodes, Numbering, Linking, Unlinking, Remove3, Step, list, ids, walks
<1>5. CASE Remove4(t)
  BY <1>5, RegistryConstants DEF IInv, TypeOK, LinksUsable, BaseLinked, Progress, WalkersUsable,
    Usable, Before, Nodes, Numbering, Linking, Unlinking, Remove4, Step, list, ids, walks
<1> QED BY <1>1, <1>2, <1>3, <1>4, <1>5 DEF Remove

LEMMA WalkingStep ==
  ASSUME IInv, NEW w \in Walkers, WalkStart(w) \/ Walk(w)
  PROVE  IInv'
<1>1. CASE WalkStart(w)
  BY <1>1 DEF IInv, TypeOK, LinksUsable, BaseLinked, Progress, WalkersUsable, Usable, Before,
    Nodes, Registered, WalkStart, list, ids
<1>2. CASE WalkNext(w)
  BY <1>2 DEF IInv, TypeOK, LinksUsable, BaseLinked, Progress, WalkersUsable, Usable, Before,
    Nodes, WalkNext, list, ids
<1>3. CASE WalkStop(w) \/ WalkFault(w)
  BY <1>3 DEF IInv, TypeOK, LinksUsable, BaseLinked, Progress, WalkersUsable, Usable, Before,
    Nodes, WalkStop, WalkFault, WalkForget, list, ids
<1> QED BY <1>1, <1>2, <1>3 DEF Walk

LEMMA IInvStep == IInv /\ [Next]_vars => IInv'
<1> SUFFICES ASSUME IInv, [Next]_vars PROVE IInv'
  OBVIOUS
<1>1. CASE UNCHANGED vars
  BY <1>1 DEF vars, IInv, TypeOK, LinksUsable, BaseLinked, Progress, WalkersUsable, Usable, Before
<1>2. ASSUME NEW t \in Threads, Start(t) \/ Register(t) \/ Return(t) \/ Cancel(t) \/ Remove(t)
      PROVE  IInv'
  BY <1>2, NumberingStep, LinkingStep, EndingStep DEF Register
<1>3. ASSUME NEW w \in Walkers, WalkStart(w) \/ Walk(w)
      PROVE  IInv'
  BY <1>3, WalkingStep
<1> QED BY <1>1, <1>2, <1>3 DEF Next

(* The invariant of every behaviour, overlapping operations included.        *)
THEOREM Inductive == Spec => []IInv
BY IInvInit, IInvStep, PTL DEF Spec

(* Type correctness of the registry.                                         *)
THEOREM RegistryTyping == Spec => []TypeOK
<1>1. IInv => TypeOK
  BY DEF IInv
<1> QED BY <1>1, Inductive, PTL

(* A walk of the list never reaches a node whose links or id have not been   *)
(* written, in whatever way insertions, removals and walks overlap.          *)
THEOREM WalksAreInitialised == Spec => []WalksInitialised
<1>1. IInv => WalksInitialised
  BY RegistryConstants
  DEF IInv, TypeOK, Progress, WalkersUsable, WalksInitialised, Usable, Nodes
<1> QED BY <1>1, Inductive, PTL
-----------------------------------------------------------------------------
(* Operations of threads that do not overlap.                                *)
Alone == \A t, u \in Threads : Writing(t) /\ Writing(u) => t = u

(* Ids while there are more of them than registered threads: taskId is the   *)
(* number of threads that have one, and one more between ++_task_id and the  *)
(* assignment, where it may have come back to 1.                             *)
Counted ==
  LET N == Cardinality(Numbered) IN
  /\ \A t \in Numbered : tskId[t] <= N
  /\ \A t, u \in Numbered : tskId[t] = tskId[u] => t = u
  /\ \A t \in Threads :
       /\ pc[t] \in {"test", "wrap"} => taskId = N + 1
       /\ pc[t] = "assign" => taskId = N + 1 \/ N + 1 = IdWrap
  /\ (\A t \in Threads : pc[t] \notin {"test", "wrap", "assign"}) => taskId = N

IdsInv ==
  /\ IsFiniteSet(Numbered)
  /\ \A t \in Numbered : tskId[t] \in 1..IdWrap-1
  /\ taskId <= IdWrap
  /\ \A t \in Threads :
       /\ pc[t] = "store" => reg[t] = taskId + 1
       /\ pc[t] \in {"test", "wrap", "assign"} => taskId # 0
       /\ pc[t] = "wrap" => taskId = IdWrap
       /\ pc[t] = "assign" => taskId < IdWrap
  /\ taskId = IdWrap => \E t \in Threads : pc[t] \in {"test", "wrap"}
  /\ Cardinality(Numbered) < IdWrap => Counted

LEMMA SerialInit == Init => Alone /\ IdsInv
<1> SUFFICES ASSUME Init PROVE Alone /\ IdsInv
  OBVIOUS
<1>2. Numbered = {} /\ IsFiniteSet({}) /\ Cardinality({}) = 0
  BY FS_EmptySet DEF Init, Numbered
<1>3. Alone
  BY DEF Init, Alone, Writing, Numbering, Linking, Unlinking
<1>4. IdsInv
  BY <1>2, RegistryConstants DEF IdsInv, Counted, Init
<1> QED BY <1>3, <1>4

(* What every step of a thread has in common.                                *)
LEMMA ThreadStep ==
  ASSUME TypeOK, NEW t \in Threads, NEW from, NEW to, Step(t, from, to)
  PROVE  /\ pc[t] = from /\ pc'[t] = to
         /\ \A u \in Threads : u # t => pc'[u] = pc[u]
BY DEF Step, TypeOK

(* Only Start and Return begin an operation, and they wait for the others.   *)
LEMMA AloneStep == Overlap = FALSE /\ IInv /\ Alone /\ [Next]_vars => Alone'
<1> SUFFICES ASSUME Overlap = FALSE, IInv, Alone, [Next]_vars PROVE Alone'
  OBVIOUS
<1> USE DEF Alone, Writing
<1>1. TypeOK
  BY DEF IInv
<1>2. CASE UNCHANGED vars
  BY <1>2 DEF vars
<1>3. ASSUME NEW t \in Threads, Start(t) \/ Return(t) PROVE Alone'
  BY <1>1, <1>3, ThreadStep DEF Start, Return, Begins
<1>4. ASSUME NEW t \in Threads, Register(t) \/ Remove(t) \/ Cancel(t) PROVE Alone'
  <2>1. CASE Cancel(t)
    BY <1>1, <2>1, ThreadStep DEF Cancel, Numbering, Linking, Unlinking
  <2>2. CASE Register(t)
    <3>1. \E from \in Numbering \cup Linking : \E to : Step(t, from, to)
      BY <2>2 DEF Register, LoadId, StoreId, TestWrap, WrapId, AssignId, Insert1, Insert2,
                  Insert3, Insert4, Numbering, Linking
    <3> QED BY <1>1, <3>1, ThreadStep
  <2>3. CASE Remove(t)
    <3>1. \E from \in Unlinking : \E to : Step(t, from, to)
      BY <2>3 DEF Remove, IsEmpty, Remove1, Remove2, Remove3, Remove4, Unlinking
    <3> QED BY <1>1, <3>1, ThreadStep
  <2> QED BY <1>4, <2>1, <2>2, <2>3
<1>5. ASSUME NEW w \in Walkers, WalkStart(w) \/ Walk(w) PROVE Alone'
  BY <1>5 DEF WalkStart, Walk, WalkNext, WalkStop, WalkFault, WalkForget
<1> QED BY <1>2, <1>3, <1>4, <1>5 DEF Next

(* A step that numbers nobody and leaves the counter alone.                  *)
LEMMA IdsKept ==
  ASSUME TypeOK, IdsInv, NEW t \in Threads, NEW from, NEW to, Step(t, from, to),
         UNCHANGED <<taskId, tskId, reg>>,
         from \notin {"store", "test", "wrap", "assign"},
         to \notin {"store", "test", "wrap", "assign"},
         from \in {"unborn"} \cup Numbering <=> to \in {"unborn"} \cup Numbering
  PROVE  IdsInv'
<1>1. /\ pc[t] = from /\ pc'[t] = to
      /\ \A u \in Threads : u # t => pc'[u] = pc[u]
  BY ThreadStep
<1>2. Numbered' = Numbered
  BY <1>1 DEF Numbered
<1>3. Counted => Counted'
  BY <1>1, <1>2 DEF Counted
<1> QED BY <1>1, <1>2, <1>3 DEF IdsInv

LEMMA IdsStep == IInv /\ Alone /\ IdsInv /\ [Next]_vars => IdsInv'
<1> SUFFICES ASSUME IInv, Alone, IdsInv, [Next]_vars PROVE IdsInv'
  OBVIOUS
<1>1. TypeOK
  BY DEF IInv
<1>a. IsFiniteSet(Numbered) /\ Cardinality(Numbered) \in Nat
  BY FS_CardinalityType DEF IdsInv
<1>b. \A t, u \in Threads : pc[t] \in Numbering /\ pc[u] \in Numbering => t = u
  BY DEF Alone, Writing
<1>2. ASSUME UNCHANGED <<taskId, tskId, reg, pc>> PROVE IdsInv'
  BY <1>2 DEF IdsInv, Counted, Numbered
<1>3. ASSUME NEW t \in Threads, Start(t) \/ Return(t) \/ Cancel(t) PROVE IdsInv'
  BY <1>1, <1>3, IdsKept DEF Start, Return, Cancel, Numbering, ids
<1>4. ASSUME NEW t \in Threads, Insert1(t) \/ Insert2(t) \/ Insert3(t) \/ Insert4(t)
      PROVE  IdsInv'
  BY <1>1, <1>4, IdsKept DEF Insert1, Insert2, Insert3, Insert4, Numbering, ids
<1>5. ASSUME NEW t \in Threads, Remove(t) PROVE IdsInv'
  BY <1>1, <1>5, IdsKept
  DEF Remove, IsEmpty, Remove1, Remove2, Remove3, Remove4, Numbering, ids
<1>6. ASSUME NEW t \in Threads, LoadId(t) PROVE IdsInv'
  <2>1. /\ pc[t] = "load" /\ pc'[t] = "store" /\ reg'[t] = taskId + 1
        /\ \A u \in Threads : u # t => pc'[u] = pc[u] /\ reg'[u] = reg[u]
        /\ UNCHANGED <<taskId, tskId>>
    BY <1>1, <1>6, ThreadStep DEF LoadId, TypeOK
  <2>2. Numbered' = Numbered
    BY <2>1 DEF Numbered, Numbering
  <2>3. Counted => Counted'
    BY <2>1, <2>2 DEF Counted
  <2> QED BY <2>1, <2>2, <2>3 DEF IdsInv
<1>7. ASSUME NEW t \in Threads, StoreId(t) PROVE IdsInv'
  <2>1. /\ pc[t] = "store" /\ pc'[t] = "test" /\ taskId' = taskId + 1
        /\ \A u \in Threads : u # t => pc'[u] = pc[u]
        /\ UNCHANGED <<tskId, reg>>
    BY <1>1, <1>7, ThreadStep DEF StoreId, IdsInv
  <2>2. \A u \in Threads : u # t => pc[u] \notin Numbering
    BY <2>1, <1>b DEF Numbering
  <2>3. Numbered' = Numbered
    BY <2>1 DEF Numbered, Numbering
  <2>4. taskId < IdWrap
    BY <1>1, <2>1, <2>2, RegistryConstants DEF IdsInv, Numbering, TypeOK
  <2>5. Counted => Counted'
    BY <1>1, <1>a, <2>1, <2>2, <2>3 DEF Counted, Numbering, TypeOK
  <2> QED BY <1>1, <2>1, <2>2, <2>3, <2>4, <2>5, RegistryConstants
          DEF IdsInv, Numbering, TypeOK
<1>8. ASSUME NEW t \in Threads, TestWrap(t) PROVE IdsInv'
  <2>1. /\ pc[t] = "test" /\ pc'[t] = (IF taskId = IdWrap THEN "wrap" ELSE "assign")
        /\ \A u \in Threads : u # t => pc'[u] = pc[u]
        /\ UNCHANGED <<taskId, tskId, reg>>
    BY <1>1, <1>8, ThreadStep DEF TestWrap, ids
  <2>2. Numbered' = Numbered
    BY <2>1 DEF Numbered, Numbering
  <2>3. \A u \in Threads : u # t => pc[u] \notin Numbering
    BY <2>1, <1>b DEF Numbering
  <2>4. Counted => Counted'
    BY <2>1, <2>2, <2>3 DEF Counted, Numbering
  <2> QED BY <1>1, <2>1, <2>2, <2>3, <2>4, RegistryConstants DEF IdsInv, Numbering, TypeOK
<1>9. ASSUME NEW t \in Threads, WrapId(t) PROVE IdsInv'
  <2>1. /\ pc[t] = "wrap" /\ pc'[t] = "assign" /\ taskId' = 1
        /\ \A u \in Threads : u # t => pc'[u] = pc[u]
        /\ UNCHANGED <<tskId, reg>>
    BY <1>1, <1>9, ThreadStep DEF WrapId
  <2>2. Numbered' = Numbered
    BY <2>1 DEF Numbered, Numbering
  <2>3. \A u \in Threads : u # t => pc[u] \notin Numbering
    BY <2>1, <1>b DEF Numbering
  <2>4. Counted /\ taskId = IdWrap => Counted'
    BY <1>1, <1>a, <2>1, <2>2, <2>3 DEF Counted, Numbering
  <2>5. taskId = IdWrap
    BY <2>1 DEF IdsInv
  <2> QED BY <1>1, <2>1, <2>2, <2>3, <2>4, <2>5, RegistryConstants
          DEF IdsInv, Numbering, TypeOK
<1>10. ASSUME NEW t \in Threads, AssignId(t) PROVE IdsInv'
  <2>1. /\ pc[t] = "assign" /\ pc'[t] = "ins1"
        /\ \A u \in Threads : u # t => pc'[u] = pc[u] /\ tskId'[u] = tskId[u]
        /\ tskId'[t] = taskId
        /\ UNCHANGED <<taskId, reg>>
    BY <1>1, <1>10, ThreadStep DEF AssignId, TypeOK
  <2>2. Numbered' = Numbered \cup {t} /\ t \notin Numbered
    BY <2>1 DEF Numbered, Numbering
  <2>3. IsFiniteSet(Numbered') /\ Cardinality(Numbered') = Cardinality(Numbered) + 1
    BY <1>a, <2>2, FS_AddElement
  <2>4. \A u \in Threads : u # t => pc[u] \notin Numbering
    BY <2>1, <1>b DEF Numbering
  <2>5. ASSUME Cardinality(Numbered') < IdWrap, Counted PROVE Counted'
    <3>1. taskId = Cardinality(Numbered')
      BY <1>a, <2>1, <2>3, <2>5, RegistryConstants DEF Counted
    <3>2. \A u \in Numbered : tskId'[u] = tskId[u] /\ tskId[u] \in Nat /\ tskId[u] < taskId
      BY <1>1, <1>a, <2>1, <2>2, <2>3, <2>5, <3>1 DEF Counted, TypeOK, Numbered
    <3> QED
      BY <1>1, <1>a, <2>1, <2>2, <2>3, <2>4, <2>5, <3>1, <3>2 DEF Counted, Numbering, TypeOK
  <2>6. \A u \in Numbered' : tskId'[u] \in 1..IdWrap-1
    BY <1>1, <2>1, <2>2, RegistryConstants DEF IdsInv, TypeOK, Numbered
  <2>7. Cardinality(Numbered') < IdWrap => Cardinality(Numbered) < IdWrap
    BY <1>a, <2>3, RegistryConstants
  <2>8. Cardinality(Numbered') < IdWrap => Counted'
    BY <2>5, <2>7 DEF IdsInv
  <2>9. taskId < IdWrap
    BY <2>1 DEF IdsInv
  <2> QED BY <1>1, <2>1, <2>3, <2>4, <2>6, <2>8, <2>9 DEF IdsInv, Numbering, TypeOK
<1>11. ASSUME NEW w \in Walkers, WalkStart(w) \/ Walk(w) PROVE IdsInv'
  BY <1>2, <1>11 DEF WalkStart, Walk, WalkNext, WalkStop, WalkFault, WalkForget, ids
<1>12. CASE UNCHANGED vars
  BY <1>2, <1>12 DEF vars
<1> QED
  BY <1>3, <1>4, <1>5, <1>6, <1>7, <1>8, <1>9, <1>10, <1>11, <1>12 DEF Next, Register

(* Registrations that do not overlap: threads get different ids until as     *)
(* many as there are ids have registered, and never 0 or 0xFFFF              *)
(* (threadlib.c:368-371).                                                    *)
THEOREM IdsAreDistinct ==
  ASSUME Overlap = FALSE
  PROVE  Spec => []DistinctIds
<1> DEFINE Inv == IInv /\ Alone /\ IdsInv
<1>1. Init => Inv
  BY IInvInit, SerialInit
<1>2. Inv /\ [Next]_vars => Inv'
  BY IInvStep, AloneStep, IdsStep
<1>3. Inv => DistinctIds
  BY DEF IdsInv, Counted, DistinctIds
<1> QED BY <1>1, <1>2, <1>3, PTL DEF Spec
-----------------------------------------------------------------------------
(* The links as a sequence p of the listed threads, At(p, 0) and             *)
(* At(p, Len(p) + 1) being the head of the list.                             *)
At(p, i) == IF i \in 1..Len(p) THEN p[i] ELSE Base

Leaving == {"rem2", "rem3", "rem4"}

(* Forward links always agree with p: Insert3 puts a thread into p, Remove1  *)
(* takes it out.  A backward link is behind after Insert3, until Insert4,    *)
(* and after Remove1, until Remove2.                                         *)
Forward(p) == \A i \in 0..Len(p) : next[At(p, i)] = At(p, i + 1)

Backward(p) ==
  \A i \in 0..Len(p) :
    \/ prev[At(p, i + 1)] = At(p, i)
    \/ i = Len(p) /\ \E t \in Threads : pc[t] = "ins4"
    \/ \E t \in Threads : pc[t] = "rem2" /\ next[t] = At(p, i + 1)

(* What the thread that is being inserted or removed has written itself.     *)
Halfway(p, t) ==
  /\ pc[t] \in {"ins2", "ins3"} => prev[t] = At(p, Len(p))
  /\ pc[t] = "ins3" => next[t] = Base
  /\ pc[t] = "ins4" => At(p, Len(p)) = t
  /\ pc[t] \in Leaving => \E i \in 0..Len(p) :
       next[t] = At(p, i + 1) /\ (pc[t] = "rem2" => prev[t] = At(p, i))

Linked(p) ==
  /\ p \in Seq(Threads)
  /\ \A i, j \in 1..Len(p) : p[i] = p[j] => i = j
  /\ \A t \in Threads : (\E i \in 1..Len(p) : p[i] = t) <=> Status(t) = "in"
  /\ Forward(p)
  /\ Backward(p)
  /\ \A t \in Threads : Halfway(p, t)

LEMMA AtType ==
  ASSUME NEW p \in Seq(Threads)
  PROVE  /\ Len(p) \in Nat
         /\ \A i \in 1..Len(p) : At(p, i) = p[i] /\ p[i] \in Threads
         /\ At(p, 0) = Base /\ At(p, Len(p) + 1) = Base
         /\ \A i \in 0..Len(p)+1 : At(p, i) \in Nodes
BY DEF At, Nodes

LEMMA AtInjective ==
  ASSUME NEW p, Linked(p)
  PROVE  /\ \A i, j \in 1..Len(p)+1 : At(p, i) = At(p, j) => i = j
         /\ \A i, j \in 0..Len(p) : At(p, i) = At(p, j) => i = j
<1>1. p \in Seq(Threads)
  BY DEF Linked
<1>2. \A i, j \in 1..Len(p) : p[i] = p[j] => i = j
  BY DEF Linked
<1> QED BY <1>1, <1>2, AtType, RegistryConstants

(* A step that changes no link and is not in the middle of an operation.     *)
LEMMA LinkedKept ==
  ASSUME NEW p, Linked(p), NEW t \in Threads, UNCHANGED list,
         \A u \in Threads : u # t => pc'[u] = pc[u],
         Status(t)' = Status(t),
         pc[t] \notin {"ins2", "ins3", "ins4"} \cup Leaving,
         pc'[t] \notin {"ins2", "ins3", "ins4"} \cup Leaving
  PROVE  Linked(p)'
<1>1. \A u \in Threads : Status(u)' = Status(u)
  BY DEF Status
<1>2. Forward(p)'
  BY DEF Linked, Forward, list
<1>3. Backward(p)'
  BY DEF Linked, Backward, list, Leaving
<1>4. \A u \in Threads : Halfway(p, u)'
  BY DEF Linked, Halfway, list, Leaving
<1> QED BY <1>1, <1>2, <1>3, <1>4 DEF Linked

(* Insert1 and Insert2 write the links of a thread that is not listed yet.   *)
LEMMA Insert12Step ==
  ASSUME TypeOK, Alone, NEW p, Linked(p), NEW t \in Threads, Insert1(t) \/ Insert2(t)
  PROVE  Linked(p)' /\ \A u \in Threads : Status(u)' = Status(u)
<1>1. /\ \A u \in Threads : u # t => pc'[u] = pc[u]
      /\ pc[t] \in {"ins1", "ins2"} /\ pc'[t] \in {"ins2", "ins3"}
      /\ Insert1(t) => pc'[t] = "ins2"
      /\ Insert2(t) => pc'[t] = "ins3"
  <2>1. CASE Insert1(t)
    BY <2>1, ThreadStep DEF Insert1, Insert2, Step
  <2>2. CASE Insert2(t)
    BY <2>2, ThreadStep DEF Insert1, Insert2, Step
  <2> QED BY <2>1, <2>2
<1>2. \A u \in Threads : Status(u)' = Status(u)
  BY <1>1 DEF Status, Numbering
<1>3. \A u \in Threads : u # t => ~Writing(u)
  BY <1>1 DEF Alone, Writing, Linking
<1>4. p \in Seq(Threads) /\ \A i \in 0..Len(p)+1 : At(p, i) \in Nodes /\ At(p, i) # t
  BY <1>1, AtType, RegistryConstants DEF Linked, Status, Numbering
<1>5. \A n \in Nodes : n # t => next'[n] = next[n] /\ prev'[n] = prev[n]
  BY DEF Insert1, Insert2, TypeOK
<1>6. prev[Base] = At(p, Len(p))
  BY <1>1, <1>3, <1>4, AtType DEF Linked, Backward, Writing, Linking, Unlinking
<1>7. Forward(p)'
  BY <1>4, <1>5, AtType DEF Linked, Forward
<1>8. Backward(p)'
  BY <1>1, <1>3, <1>4, <1>5, AtType DEF Linked, Backward, Writing, Linking, Unlinking
<1>9. Halfway(p, t)'
  <2>1. CASE Insert1(t)
    BY <1>1, <1>6, <2>1, ThreadStep DEF Insert1, Halfway, Leaving, TypeOK, Nodes
  <2>2. CASE Insert2(t)
    BY <1>1, <2>2, ThreadStep DEF Insert2, Halfway, Leaving, TypeOK, Linked, Nodes
  <2> QED BY <2>1, <2>2
<1>10. \A u \in Threads : Halfway(p, u)'
  BY <1>1, <1>3, <1>9 DEF Halfway, Leaving, Writing, Linking, Unlinking
<1> QED BY <1>2, <1>7, <1>8, <1>10 DEF Linked

(* Insert3 makes the thread the last one.                                    *)
LEMMA Insert3Step ==
  ASSUME TypeOK, Alone, NEW p, Linked(p), NEW t \in Threads, Insert3(t)
  PROVE  /\ Linked(Append(p, t))'
         /\ Status(t) = "new" /\ Status(t)' = "in"
         /\ \A u \in Threads : u # t => Status(u)' = Status(u)
<1> DEFINE q == Append(p, t)
<1>1. /\ \A u \in Threads : u # t => pc'[u] = pc[u]
      /\ pc[t] = "ins3" /\ pc'[t] = "ins4"
  BY ThreadStep DEF Insert3
<1>2. /\ Status(t) = "new" /\ Status(t)' = "in"
      /\ \A u \in Threads : u # t => Status(u)' = Status(u)
  BY <1>1 DEF Status, Numbering
<1>3. \A u \in Threads : u # t => ~Writing(u)
  BY <1>1 DEF Alone, Writing, Linking
<1>4. p \in Seq(Threads) /\ \A i \in 0..Len(p)+1 : At(p, i) \in Nodes /\ At(p, i) # t
  BY <1>1, AtType, RegistryConstants DEF Linked, Status, Numbering
<1>5. /\ q \in Seq(Threads) /\ Len(q) = Len(p) + 1 /\ Len(p) \in Nat
      /\ \A i \in 0..Len(p) : At(q, i) = At(p, i)
      /\ At(q, Len(p) + 1) = t /\ At(q, Len(p) + 2) = Base
      /\ \A i \in 1..Len(p) : q[i] = p[i]
      /\ q[Len(p) + 1] = t
  BY <1>4 DEF At
<1>6. prev[t] = At(p, Len(p)) /\ next[t] = Base
  BY <1>1 DEF Linked, Halfway
<1>7. /\ prev' = prev
      /\ next'[At(p, Len(p))] = t
      /\ \A n \in Nodes : n # At(p, Len(p)) => next'[n] = next[n]
  BY <1>4, <1>5, <1>6 DEF Insert3, TypeOK
<1> HIDE DEF q
<1>8. \A i, j \in 1..Len(q) : q[i] = q[j] => i = j
  <2>1. \A i, j \in 1..Len(p) : p[i] = p[j] => i = j
    BY DEF Linked
  <2>2. \A i \in 1..Len(p) : p[i] # t
    BY <1>4 DEF At
  <2> QED BY <1>5, <2>1, <2>2
<1>9. \A u \in Threads : (\E i \in 1..Len(q) : q[i] = u) <=> Status(u)' = "in"
  <2>1. \A u \in Threads : (\E i \in 1..Len(p) : p[i] = u) <=> Status(u) = "in"
    BY DEF Linked
  <2> QED BY <1>2, <1>5, <2>1
<1>10. Forward(q)'
  <2>1. \A i, j \in 0..Len(p) : At(p, i) = At(p, j) => i = j
    BY AtInjective
  <2>2. \A i \in 0..Len(p) : next[At(p, i)] = At(p, i + 1)
    BY DEF Linked, Forward
  <2>3. SUFFICES ASSUME NEW i \in 0..Len(q) PROVE next'[At(q, i)] = At(q, i + 1)
    BY DEF Forward, At
  <2>4. CASE i < Len(p)
    <3>1. i \in 0..Len(p) /\ i + 1 \in 0..Len(p) /\ i # Len(p) /\ Len(p) \in 0..Len(p)
      BY <1>5, <2>4
    <3>2. At(p, i) # At(p, Len(p)) /\ At(p, i) \in Nodes
      BY <1>4, <1>5, <2>1, <3>1
    <3> QED BY <1>5, <1>7, <2>2, <3>1, <3>2
  <2>5. CASE i = Len(p)
    BY <1>5, <1>7, <2>5
  <2>6. CASE i = Len(p) + 1
    <3>1. t # At(p, Len(p)) /\ t \in Nodes
      BY <1>4, <1>5 DEF Nodes
    <3> QED BY <1>5, <1>6, <1>7, <2>6, <3>1
  <2> QED BY <1>5, <2>4, <2>5, <2>6
<1>11. Backward(q)'
  <2>1. \A i \in 0..Len(p) : prev[At(p, i + 1)] = At(p, i)
    BY <1>1, <1>3 DEF Linked, Backward, Writing, Linking, Unlinking
  <2>2. \A i \in 0..Len(p) : prev'[At(q, i + 1)] = At(q, i)
    BY <1>5, <1>6, <1>7, <2>1
  <2> QED BY <1>1, <1>5, <2>2 DEF Backward, At
<1>12. \A u \in Threads : Halfway(q, u)'
  BY <1>1, <1>3, <1>5 DEF Halfway, Leaving, Writing, Linking, Unlinking, At
<1>13. Linked(q)'
  BY <1>5, <1>8, <1>9, <1>10, <1>11, <1>12 DEF Linked
<1> QED BY <1>2, <1>13 DEF q

(* Insert4 completes the backward links.                                     *)
LEMMA Insert4Step ==
  ASSUME TypeOK, Alone, NEW p, Linked(p), NEW t \in Threads, Insert4(t)
  PROVE  Linked(p)' /\ \A u \in Threads : Status(u)' = Status(u)
<1>1. /\ \A u \in Threads : u # t => pc'[u] = pc[u]
      /\ pc[t] = "ins4" /\ pc'[t] = "run"
  BY ThreadStep DEF Insert4
<1>2. \A u \in Threads : Status(u)' = Status(u)
  BY <1>1 DEF Status, Numbering
<1>3. \A u \in Threads : u # t => ~Writing(u)
  BY <1>1 DEF Alone, Writing, Linking
<1>4. p \in Seq(Threads) /\ Len(p) \in Nat /\ At(p, Len(p)) = t
  BY <1>1, AtType DEF Linked, Halfway
<1>5. next' = next /\ next[t] = Base /\ prev'[Base] = t
      /\ \A n \in Nodes : n # Base => prev'[n] = prev[n]
  <2>1. next[t] = Base
    BY <1>4, AtType DEF Linked, Forward
  <2> QED BY <2>1 DEF Insert4, TypeOK, Nodes
<1>6. Forward(p)'
  BY <1>5 DEF Linked, Forward
<1>7. Backward(p)'
  <2>1. \A i \in 0..Len(p) : i # Len(p) => prev[At(p, i + 1)] = At(p, i)
    BY <1>1, <1>3 DEF Linked, Backward, Writing, Linking, Unlinking
  <2>2. \A i \in 0..Len(p) : i # Len(p) => At(p, i + 1) \in Nodes /\ At(p, i + 1) # Base
    BY <1>4, AtType, RegistryConstants DEF Nodes
  <2> QED BY <1>4, <1>5, <2>1, <2>2, AtType DEF Backward
<1>8. \A u \in Threads : Halfway(p, u)'
  BY <1>1, <1>3 DEF Halfway, Leaving, Writing, Linking, Unlinking
<1> QED BY <1>2, <1>6, <1>7, <1>8 DEF Linked

(* The sequence without its k-th element.                                    *)
Without(p, k) == SubSeq(p, 1, k - 1) \o SubSeq(p, k + 1, Len(p))

LEMMA WithoutAt ==
  ASSUME NEW p \in Seq(Threads), NEW k \in 1..Len(p)
  PROVE  /\ Without(p, k) \in Seq(Threads)
         /\ Len(Without(p, k)) = Len(p) - 1
         /\ \A i \in 1..Len(p)-1 : Without(p, k)[i] = IF i < k THEN p[i] ELSE p[i + 1]
         /\ \A i \in 0..Len(p) : At(Without(p, k), i) = IF i < k THEN At(p, i) ELSE At(p, i + 1)
<1> DEFINE a == SubSeq(p, 1, k - 1)
           b == SubSeq(p, k + 1, Len(p))
<1>1. /\ Len(p) \in Nat /\ k \in Nat /\ k >= 1 /\ k <= Len(p)
      /\ \A i \in 1..Len(p) : p[i] \in Threads
  OBVIOUS
<1>2. a \in Seq(Threads) /\ Len(a) = k - 1 /\ \A i \in 1..k-1 : a[i] = p[i]
  BY <1>1
<1>3. b \in Seq(Threads) /\ Len(b) = Len(p) - k /\ \A i \in 1..Len(p)-k : b[i] = p[i + k]
  BY <1>1
<1> HIDE DEF a, b
<1>4. /\ a \o b \in Seq(Threads) /\ Len(a \o b) = Len(p) - 1
      /\ \A i \in 1..Len(p)-1 : (a \o b)[i] = IF i <= k - 1 THEN a[i] ELSE b[i - (k - 1)]
  <2>1. /\ a \o b \in Seq(Threads) /\ Len(a \o b) = Len(a) + Len(b)
        /\ \A i \in 1..Len(a)+Len(b) : (a \o b)[i] = IF i <= Len(a) THEN a[i] ELSE b[i - Len(a)]
    BY <1>2, <1>3, ConcatProperties
  <2>2. Len(a) + Len(b) = Len(p) - 1
    BY <1>1, <1>2, <1>3
  <2> QED BY <1>2, <2>1, <2>2
<1>5. \A i \in 1..Len(p)-1 : (a \o b)[i] = IF i < k THEN p[i] ELSE p[i + 1]
  <2> SUFFICES ASSUME NEW i \in 1..Len(p)-1 PROVE (a \o b)[i] = IF i < k THEN p[i] ELSE p[i + 1]
    OBVIOUS
  <2>1. CASE i < k
    <3>1. i \in 1..k-1 /\ i <= k - 1
      BY <1>1, <2>1
    <3> QED BY <1>2, <1>4, <2>1, <3>1
  <2>2. CASE ~(i < k)
    <3>1. i - (k - 1) \in 1..Len(p)-k /\ (i - (k - 1)) + k = i + 1 /\ ~(i <= k - 1)
      BY <1>1, <2>2
    <3>2. (a \o b)[i] = b[i - (k - 1)]
      BY <1>4, <3>1
    <3>3. b[i - (k - 1)] = p[(i - (k - 1)) + k]
      BY <1>3, <3>1
    <3> QED BY <2>2, <3>1, <3>2, <3>3
  <2> QED BY <2>1, <2>2
<1>6. Without(p, k) = a \o b
  BY DEF Without, a, b
<1> QED BY <1>1, <1>4, <1>5, <1>6 DEF At

(* IsEmpty finds the list not empty, and Return, Cancel and the numbering    *)
(* leave it alone.                                                           *)
LEMMA QuietStep ==
  ASSUME TypeOK, Alone, NEW p, Linked(p), NEW t \in Threads,
         \/ Start(t) \/ LoadId(t) \/ StoreId(t) \/ TestWrap(t) \/ WrapId(t) \/ AssignId(t)
         \/ Return(t) \/ Cancel(t) \/ IsEmpty(t)
  PROVE  Linked(p)' /\ \A u \in Threads : Status(u)' = Status(u)
<1>1. UNCHANGED list /\ \A u \in Threads : u # t => pc'[u] = pc[u]
  <2>1. \E from, to : Step(t, from, to)
    BY DEF Start, LoadId, StoreId, TestWrap, WrapId, AssignId, Return, Cancel, IsEmpty
  <2> QED BY <2>1, ThreadStep
          DEF Start, LoadId, StoreId, TestWrap, WrapId, AssignId, Return, Cancel, IsEmpty
<1>2. ASSUME Status(t)' = Status(t),
             pc[t] \notin {"ins2", "ins3", "ins4"} \cup Leaving,
             pc'[t] \notin {"ins2", "ins3", "ins4"} \cup Leaving
      PROVE  Linked(p)' /\ \A u \in Threads : Status(u)' = Status(u)
  <2>1. Linked(p)'
    BY <1>1, <1>2, LinkedKept
  <2> QED BY <1>1, <1>2, <2>1 DEF Status
<1>3. CASE Start(t) \/ LoadId(t) \/ StoreId(t) \/ TestWrap(t) \/ WrapId(t) \/ AssignId(t)
  <2>1. /\ pc[t] \in {"unborn"} \cup Numbering
        /\ pc'[t] \in Numbering \cup {"ins1"}
    BY <1>3, ThreadStep DEF Start, LoadId, StoreId, TestWrap, WrapId, AssignId, Numbering
  <2> QED BY <1>2, <2>1 DEF Status, Numbering, Leaving
<1>4. CASE Return(t) \/ Cancel(t)
  <2>1. pc[t] = "run" /\ pc'[t] \in {"rem0", "exited"}
    BY <1>4, ThreadStep DEF Return, Cancel
  <2> QED BY <1>2, <2>1 DEF Status, Numbering, Leaving
<1>5. CASE IsEmpty(t)
  <2>1. pc[t] = "rem0" /\ pc'[t] = IF next[t] = t THEN "gone" ELSE "rem1"
    BY <1>5, ThreadStep DEF IsEmpty
  <2>2. PICK k \in 1..Len(p) : p[k] = t
    BY <2>1 DEF Linked, Status, Numbering
  <2>3. p \in Seq(Threads) /\ At(p, k) = t /\ next[t] = At(p, k + 1)
    BY <2>2, AtType DEF Linked, Forward
  <2>4. At(p, k + 1) # t
    BY <2>2, <2>3, AtInjective
  <2>5. pc'[t] = "rem1"
    BY <2>1, <2>3, <2>4
  <2> QED BY <1>2, <2>1, <2>5 DEF Status, Numbering, Leaving
<1> QED BY <1>3, <1>4, <1>5

(* Remove1 takes the thread out, from where it is.                           *)
LEMMA Remove1Step ==
  ASSUME TypeOK, Alone, NEW p, Linked(p), NEW t \in Threads, Remove1(t)
  PROVE  /\ Status(t) = "in" /\ Status(t)' = "out"
         /\ \A u \in Threads : u # t => Status(u)' = Status(u)
         /\ \E k \in 1..Len(p) : /\ p[k] = t /\ Linked(Without(p, k))'
                                 /\ next'[t] = At(p, k + 1)
<1>1. /\ \A u \in Threads : u # t => pc'[u] = pc[u]
      /\ pc[t] = "rem1" /\ pc'[t] = "rem2"
  BY ThreadStep DEF Remove1
<1>2. /\ Status(t) = "in" /\ Status(t)' = "out"
      /\ \A u \in Threads : u # t => Status(u)' = Status(u)
  BY <1>1 DEF Status, Numbering
<1>3. \A u \in Threads : u # t => ~Writing(u)
  BY <1>1 DEF Alone, Writing, Unlinking
<1>4. PICK k \in 1..Len(p) : p[k] = t
  BY <1>2 DEF Linked
<1> DEFINE q == Without(p, k)
<1>5. /\ p \in Seq(Threads) /\ Len(p) \in Nat /\ At(p, k) = t
      /\ \A i \in 0..Len(p)+1 : At(p, i) \in Nodes
  BY <1>4, AtType DEF Linked
<1>6. /\ q \in Seq(Threads) /\ Len(q) = Len(p) - 1
      /\ \A i \in 1..Len(q) : q[i] = IF i < k THEN p[i] ELSE p[i + 1]
      /\ \A i \in 0..Len(q)+1 : At(q, i) = IF i < k THEN At(p, i) ELSE At(p, i + 1)
  BY <1>5, WithoutAt
<1> HIDE DEF q
<1>7. next[t] = At(p, k + 1)
  BY <1>5 DEF Linked, Forward
<1>8. \A i \in 0..Len(p) : prev[At(p, i + 1)] = At(p, i)
  BY <1>1, <1>3 DEF Linked, Backward, Writing, Linking, Unlinking
<1>9. prev[t] = At(p, k - 1) /\ At(p, k - 1) \in Nodes
  <2>1. k - 1 \in 0..Len(p) /\ (k - 1) + 1 = k
    BY <1>5
  <2> QED BY <1>5, <1>8, <2>1
<1>10. /\ prev' = prev
       /\ next'[At(p, k - 1)] = At(p, k + 1)
       /\ \A n \in Nodes : n # At(p, k - 1) => next'[n] = next[n]
  BY <1>7, <1>9 DEF Remove1, TypeOK
<1>11. /\ \A i, j \in 1..Len(p)+1 : At(p, i) = At(p, j) => i = j
       /\ \A i, j \in 0..Len(p) : At(p, i) = At(p, j) => i = j
  BY AtInjective
<1>12. next'[t] = At(p, k + 1)
  <2>1. k - 1 \in 0..Len(p) /\ k \in 0..Len(p) /\ k - 1 # k
    BY <1>5
  <2>2. At(p, k) # At(p, k - 1)
    BY <1>11, <2>1
  <2> QED BY <1>5, <1>7, <1>10, <2>2 DEF Nodes
<1>13. \A i, j \in 1..Len(q) : q[i] = q[j] => i = j
  <2>1. \A i, j \in 1..Len(p) : p[i] = p[j] => i = j
    BY DEF Linked
  <2> QED BY <1>5, <1>6, <2>1
<1>14. \A u \in Threads : (\E i \in 1..Len(q) : q[i] = u) <=> Status(u)' = "in"
  <2>1. \A u \in Threads : (\E i \in 1..Len(p) : p[i] = u) <=> Status(u) = "in"
    BY DEF Linked
  <2>2. \A i, j \in 1..Len(p) : p[i] = p[j] => i = j
    BY DEF Linked
  <2>3. \A i \in 1..Len(q) : q[i] # t
    BY <1>4, <1>5, <1>6, <2>2
  <2>4. ASSUME NEW u \in Threads, u # t, Status(u) = "in" PROVE \E i \in 1..Len(q) : q[i] = u
    <3>1. PICK i \in 1..Len(p) : p[i] = u
      BY <2>1, <2>4
    <3>2. CASE i < k
      <4>1. i \in 1..Len(q)
        BY <1>5, <1>6, <3>2
      <4> QED BY <1>6, <3>1, <3>2, <4>1
    <3>3. CASE i > k
      <4>1. i - 1 \in 1..Len(q) /\ ~(i - 1 < k) /\ (i - 1) + 1 = i
        BY <1>5, <1>6, <3>3
      <4> QED BY <1>6, <3>1, <4>1
    <3> QED BY <1>4, <1>5, <2>4, <3>1, <3>2, <3>3
  <2>5. ASSUME NEW i \in 1..Len(q) PROVE Status(q[i]) = "in" /\ q[i] \in Threads
    <3>1. \E j \in 1..Len(p) : q[i] = p[j]
      <4>1. i \in 1..Len(p) /\ i + 1 \in 1..Len(p)
        BY <1>5, <1>6
      <4> QED BY <1>6, <4>1
    <3> QED BY <1>5, <2>1, <3>1
  <2> QED BY <1>2, <2>3, <2>4, <2>5
<1>15. Forward(q)'
  <2> SUFFICES ASSUME NEW i \in 0..Len(q) PROVE next'[At(q, i)] = At(q, i + 1)
    BY DEF Forward, At
  <2>1. \A j \in 0..Len(p) : next[At(p, j)] = At(p, j + 1)
    BY DEF Linked, Forward
  <2>2. CASE i < k - 1
    <3>1. i \in 0..Len(p) /\ k - 1 \in 0..Len(p) /\ i # k - 1 /\ i + 1 < k /\ i < k
      BY <1>5, <1>6, <2>2
    <3>2. At(p, i) # At(p, k - 1) /\ At(p, i) \in Nodes
      BY <1>5, <1>11, <3>1
    <3>3. At(q, i) = At(p, i) /\ At(q, i + 1) = At(p, i + 1)
      BY <1>5, <1>6, <3>1
    <3> QED BY <1>10, <2>1, <3>1, <3>2, <3>3
  <2>3. CASE i = k - 1
    BY <1>5, <1>6, <1>10, <2>3
  <2>4. CASE i > k - 1
    <3>1. i + 1 \in 0..Len(p) /\ k - 1 \in 0..Len(p) /\ i + 1 # k - 1 /\ ~(i < k) /\ ~(i + 1 < k)
      BY <1>5, <1>6, <2>4
    <3>2. At(p, i + 1) # At(p, k - 1) /\ At(p, i + 1) \in Nodes
      BY <1>5, <1>11, <3>1
    <3>3. At(q, i) = At(p, i + 1) /\ At(q, i + 1) = At(p, (i + 1) + 1)
      BY <1>5, <1>6, <3>1
    <3> QED BY <1>10, <2>1, <3>1, <3>2, <3>3
  <2> QED BY <1>5, <1>6, <2>2, <2>3, <2>4
<1>16. next'[t] = At(q, k) /\ prev'[t] = At(q, k - 1)
  BY <1>5, <1>6, <1>9, <1>10, <1>12
<1>17. Backward(q)'
  <2> SUFFICES ASSUME NEW i \in 0..Len(q), i # k - 1 PROVE prev'[At(q, i + 1)] = At(q, i)
    <3>1. (k - 1) + 1 = k
      BY <1>5
    <3> QED BY <1>1, <1>16, <3>1 DEF Backward, At
  <2>1. CASE i < k - 1
    BY <1>5, <1>6, <1>8, <1>10, <2>1
  <2>2. CASE i > k - 1
    BY <1>5, <1>6, <1>8, <1>10, <2>2
  <2> QED BY <1>5, <1>6, <2>1, <2>2
<1>18. \A u \in Threads : Halfway(q, u)'
  <2>1. Halfway(q, t)'
    <3>1. k - 1 \in 0..Len(q) /\ (k - 1) + 1 = k
      BY <1>5, <1>6
    <3>2. \E i \in 0..Len(q) : next'[t] = At(q, i + 1) /\ prev'[t] = At(q, i)
      BY <1>16, <3>1
    <3> QED BY <1>1, <3>2 DEF Halfway, At, Leaving
  <2> QED BY <1>1, <1>3, <2>1 DEF Halfway, Leaving, Writing, Linking, Unlinking
<1>19. Linked(q)'
  BY <1>6, <1>13, <1>14, <1>15, <1>17, <1>18 DEF Linked
<1> QED BY <1>2, <1>4, <1>12, <1>19 DEF q

(* Remove2 completes the backward links, and the rest of LS_REMQUE writes    *)
(* the links of a thread that is not listed any more.                        *)
LEMMA Remove234Step ==
  ASSUME TypeOK, Alone, NEW p, Linked(p), NEW t \in Threads,
         Remove2(t) \/ Remove3(t) \/ Remove4(t)
  PROVE  Linked(p)' /\ \A u \in Threads : Status(u)' = Status(u)
<1>1. /\ \A u \in Threads : u # t => pc'[u] = pc[u]
      /\ pc[t] \in Leaving /\ pc'[t] \in {"rem3", "rem4", "gone"}
      /\ pc'[t] \in Leaving => ~Remove4(t)
  <2>1. CASE Remove2(t)
    BY <2>1, ThreadStep DEF Remove2, Remove4, Step, Leaving
  <2>2. CASE Remove3(t)
    BY <2>2, ThreadStep DEF Remove3, Remove4, Step, Leaving
  <2>3. CASE Remove4(t)
    BY <2>3, ThreadStep DEF Remove4, Leaving
  <2> QED BY <2>1, <2>2, <2>3
<1>2. \A u \in Threads : Status(u)' = Status(u)
  BY <1>1 DEF Status, Numbering, Leaving
<1>3. \A u \in Threads : u # t => ~Writing(u)
  BY <1>1 DEF Alone, Writing, Unlinking, Leaving
<1>4. p \in Seq(Threads) /\ \A i \in 0..Len(p)+1 : At(p, i) \in Nodes /\ At(p, i) # t
  BY <1>1, AtType, RegistryConstants DEF Linked, Status, Numbering, Leaving
<1>5. PICK i \in 0..Len(p) : next[t] = At(p, i + 1) /\ (pc[t] = "rem2" => prev[t] = At(p, i))
  BY <1>1 DEF Linked, Halfway
<1>6. \A n \in Nodes : n # t => next'[n] = next[n]
  BY DEF Remove2, Remove3, Remove4, TypeOK
<1>7. Forward(p)'
  BY <1>4, <1>6, AtType DEF Linked, Forward
<1>8. Backward(p)'
  <2>1. CASE Remove2(t)
    <3>1. pc[t] = "rem2" /\ i + 1 \in 0..Len(p)+1
      BY <1>4, <2>1, ThreadStep DEF Remove2
    <3>2. prev'[At(p, i + 1)] = At(p, i)
      BY <1>4, <1>5, <2>1, <3>1 DEF Remove2, TypeOK
    <3>3. \A j \in 0..Len(p) : j # i => prev'[At(p, j + 1)] = At(p, j)
      <4> SUFFICES ASSUME NEW j \in 0..Len(p), j # i PROVE prev'[At(p, j + 1)] = At(p, j)
        OBVIOUS
      <4>1. j + 1 \in 1..Len(p)+1 /\ i + 1 \in 1..Len(p)+1 /\ j + 1 # i + 1
        BY <1>4
      <4>2. At(p, j + 1) # At(p, i + 1) /\ At(p, j + 1) \in Nodes
        BY <1>4, <4>1, AtInjective
      <4>3. prev[At(p, j + 1)] = At(p, j)
        BY <1>1, <1>3, <1>5, <4>2
        DEF Linked, Backward, Writing, Linking, Unlinking, Leaving
      <4> QED BY <1>5, <2>1, <4>2, <4>3 DEF Remove2, TypeOK
    <3> QED BY <3>2, <3>3 DEF Backward, At
  <2>2. CASE Remove3(t) \/ Remove4(t)
    <3>1. pc[t] # "rem2" /\ \A n \in Nodes : n # t => prev'[n] = prev[n]
      BY <2>2, ThreadStep DEF Remove3, Remove4, TypeOK
    <3>2. \A j \in 0..Len(p) : prev[At(p, j + 1)] = At(p, j)
      BY <1>1, <1>3, <3>1 DEF Linked, Backward, Writing, Linking, Unlinking, Leaving
    <3>3. \A j \in 0..Len(p) : At(p, j + 1) \in Nodes /\ At(p, j + 1) # t
      BY <1>4, AtType
    <3> QED BY <3>1, <3>2, <3>3 DEF Backward, At
  <2> QED BY <2>1, <2>2
<1>9. Halfway(p, t)'
  <2>1. pc'[t] \in Leaving => next'[t] = At(p, i + 1)
    BY <1>1, <1>5 DEF Remove2, Remove3
  <2> QED BY <1>1, <2>1 DEF Halfway, Leaving, At
<1>10. \A u \in Threads : Halfway(p, u)'
  BY <1>1, <1>3, <1>9 DEF Halfway, Leaving, Writing, Linking, Unlinking
<1> QED BY <1>2, <1>4, <1>7, <1>8, <1>10 DEF Linked

(* Every step keeps the links a sequence, puts a thread at its end or takes  *)
(* one out.                                                                  *)
LEMMA PoolStep ==
  ASSUME TypeOK, Alone, NEW p, Linked(p), [Next]_vars
  PROVE  \/ Linked(p)' /\ \A u \in Threads : Status(u)' = Status(u)
         \/ \E t \in Threads :
              /\ Linked(Append(p, t))'
              /\ Status(t) = "new" /\ Status(t)' = "in"
              /\ \A u \in Threads : u # t => Status(u)' = Status(u)
         \/ \E t \in Threads :
              /\ \E k \in 1..Len(p) : p[k] = t /\ Linked(Without(p, k))'
              /\ Status(t) = "in" /\ Status(t)' = "out"
              /\ \A u \in Threads : u # t => Status(u)' = Status(u)
<1>1. ASSUME UNCHANGED <<list, pc>>
      PROVE  Linked(p)' /\ \A u \in Threads : Status(u)' = Status(u)
  BY <1>1 DEF Linked, Forward, Backward, Halfway, Status, list
<1>2. CASE UNCHANGED vars
  BY <1>1, <1>2 DEF vars, list
<1>3. ASSUME NEW w \in Walkers, WalkStart(w) \/ Walk(w)
      PROVE  Linked(p)' /\ \A u \in Threads : Status(u)' = Status(u)
  BY <1>1, <1>3 DEF WalkStart, Walk, WalkNext, WalkStop, WalkFault, WalkForget
<1>4. ASSUME NEW t \in Threads, Start(t) \/ Register(t) \/ Return(t) \/ Cancel(t) \/ Remove(t),
             ~Insert3(t), ~Remove1(t)
      PROVE  Linked(p)' /\ \A u \in Threads : Status(u)' = Status(u)
  BY <1>4, QuietStep, Insert12Step, Insert4Step, Remove234Step DEF Register, Remove
<1>5. ASSUME NEW t \in Threads, Insert3(t)
      PROVE  /\ Linked(Append(p, t))'
             /\ Status(t) = "new" /\ Status(t)' = "in"
             /\ \A u \in Threads : u # t => Status(u)' = Status(u)
  BY <1>5, Insert3Step
<1>6. ASSUME NEW t \in Threads, Remove1(t)
      PROVE  /\ \E k \in 1..Len(p) : p[k] = t /\ Linked(Without(p, k))'
             /\ Status(t) = "in" /\ Status(t)' = "out"
             /\ \A u \in Threads : u # t => Status(u)' = Status(u)
  BY <1>6, Remove1Step
<1> QED BY <1>2, <1>3, <1>4, <1>5, <1>6 DEF Next

LEMMA LinkedInit == Init => Linked(<<>>)
<1> SUFFICES ASSUME Init PROVE Linked(<<>>)
  OBVIOUS
<1>1. \A t \in Threads : pc[t] = "unborn" /\ Status(t) = "new"
  BY DEF Init, Status
<1>2. next[Base] = Base /\ prev[Base] = Base
  BY DEF Init, Nodes
<1> QED BY <1>1, <1>2 DEF Linked, Forward, Backward, Halfway, At, Leaving

(* The threads of p are different, so that there are at most Size of them.   *)
LEMMA LinkedLength ==
  ASSUME IsFiniteSet(Threads), NEW p, Linked(p)
  PROVE  Size \in Nat /\ Len(p) \in Nat /\ Len(p) <= Size
<1>1. p \in Seq(Threads) /\ \A i, j \in 1..Len(p) : p[i] = p[j] => i = j
  BY DEF Linked
<1>2. p \in Injection(1..Len(p), Threads)
  BY <1>1 DEF Injection, IsInjective
<1>3. Cardinality(1..Len(p)) <= Cardinality(Threads)
  BY <1>2, FS_Injection
<1>4. Len(p) \in Nat /\ Cardinality(1..Len(p)) = Len(p)
  BY <1>1, FS_Interval
<1> QED BY <1>3, <1>4, FS_CardinalityType DEF Size

(* The recursive function that follows the links meets the threads of p in   *)
(* their order, and then stays at the head.                                  *)
LEMMA VisitIs ==
  ASSUME IsFiniteSet(Threads), NEW p, Linked(p)
  PROVE  Visit = [n \in 0..Size |-> IF n <= Len(p) THEN At(p, n + 1) ELSE Base]
<1> DEFINE w == [n \in 0..Size |-> IF n <= Len(p) THEN At(p, n + 1) ELSE Base]
           E(v) == [n \in 0..Size |-> IF n = 0 THEN next[Base]
                                      ELSE IF v[n-1] \in {Base, Null} THEN v[n-1]
                                           ELSE next[v[n-1]]]
<1>1. Size \in Nat /\ Len(p) \in Nat /\ Len(p) <= Size
  BY LinkedLength
<1>2. /\ p \in Seq(Threads) /\ \A i \in 1..Len(p) : At(p, i) \in Threads
      /\ At(p, 0) = Base /\ At(p, Len(p) + 1) = Base
      /\ \A i \in 0..Len(p) : next[At(p, i)] = At(p, i + 1)
  BY AtType DEF Linked, Forward
<1>3. \A n \in 1..Size : w[n] = IF w[n-1] \in {Base, Null} THEN w[n-1] ELSE next[w[n-1]]
  <2> SUFFICES ASSUME NEW n \in 1..Size
               PROVE  w[n] = IF w[n-1] \in {Base, Null} THEN w[n-1] ELSE next[w[n-1]]
    OBVIOUS
  <2>1. n - 1 \in 0..Size /\ n \in 0..Size /\ (n - 1) + 1 = n
    BY <1>1
  <2>2. CASE n <= Len(p)
    <3>1. w[n-1] = At(p, n) /\ w[n] = At(p, n + 1)
      BY <1>1, <2>1, <2>2
    <3>2. At(p, n) \in Threads /\ next[At(p, n)] = At(p, n + 1)
      BY <1>1, <1>2, <2>1, <2>2
    <3> QED BY <3>1, <3>2, RegistryConstants
  <2>3. CASE n = Len(p) + 1
    BY <1>1, <1>2, <2>1, <2>3
  <2>4. CASE n > Len(p) + 1
    BY <1>1, <2>1, <2>4
  <2> QED BY <1>1, <2>1, <2>2, <2>3, <2>4
<1>4. w[0] = next[Base]
  BY <1>1, <1>2
<1>0. w = [n \in 0..Size |-> w[n]]
  OBVIOUS
<1> HIDE DEF w
<1>5. w = E(w)
  <2>1. ASSUME NEW n \in 0..Size
        PROVE  w[n] = IF n = 0 THEN next[Base]
                      ELSE IF w[n-1] \in {Base, Null} THEN w[n-1] ELSE next[w[n-1]]
    <3>1. CASE n = 0
      BY <1>4, <3>1
    <3>2. CASE n # 0
      <4>1. n \in 1..Size
        BY <1>1, <3>2
      <4> QED BY <1>3, <3>2, <4>1
    <3> QED BY <3>1, <3>2
  <2> QED BY <1>0, <2>1
<1>6. Visit = CHOOSE v : v = E(v)
  BY DEF Visit
<1>7. Visit = E(Visit)
  BY <1>5, <1>6
<1>8. \A n \in 0..Size : Visit[n] = w[n]
  <2> DEFINE Bad == {n \in 0..Size : Visit[n] # w[n]}
  <2> SUFFICES ASSUME Bad # {} PROVE FALSE
    OBVIOUS
  <2>1. Bad \subseteq Nat
    BY <1>1
  <2>2. PICK m \in Bad : \A k \in Bad : ~(<<k, m>> \in OpToRel(<, Nat))
    <3> HIDE DEF Bad
    <3> QED BY <2>1, WFMin, NatLessThanWellFounded, Zenon
  <2>3. \A k \in Bad : ~(k < m)
    BY <2>1, <2>2 DEF OpToRel
  <2>4. m # 0
    BY <1>1, <1>4, <1>7
  <2>5. m \in 1..Size /\ m - 1 \in 0..Size /\ Visit[m-1] = w[m-1]
    BY <1>1, <2>3, <2>4
  <2>6. Visit[m] = IF Visit[m-1] \in {Base, Null} THEN Visit[m-1] ELSE next[Visit[m-1]]
    BY <1>1, <1>7, <2>5
  <2> QED BY <1>3, <2>5, <2>6
<1>9. DOMAIN Visit = 0..Size /\ Visit = [n \in 0..Size |-> Visit[n]]
  BY <1>7
<1> QED BY <1>0, <1>8, <1>9 DEF w

(* What the walk from the head meets is p.                                   *)
LEMMA ChainIs == IsFiniteSet(Threads) => \A p : Linked(p) => Chain = p
<1> SUFFICES ASSUME IsFiniteSet(Threads), NEW p, Linked(p) PROVE Chain = p
  OBVIOUS
<1> DEFINE ends == {n \in 0..Size : Visit[n] \notin Threads}
<1>1. Size \in Nat /\ Len(p) \in Nat /\ Len(p) <= Size
  BY LinkedLength
<1>2. p \in Seq(Threads) /\ At(p, Len(p) + 1) = Base
      /\ \A i \in 1..Len(p) : At(p, i) = p[i] /\ p[i] \in Threads
  BY AtType DEF Linked
<1>3. \A n \in 0..Size : Visit[n] = IF n <= Len(p) THEN At(p, n + 1) ELSE Base
  BY VisitIs
<1>4. ends = Len(p)..Size
  <2>1. ASSUME NEW n \in 0..Size, n < Len(p) PROVE Visit[n] \in Threads
    BY <1>1, <1>2, <1>3, <2>1
  <2>2. ASSUME NEW n \in 0..Size, n >= Len(p) PROVE Visit[n] = Base
    BY <1>1, <1>2, <1>3, <2>2
  <2> QED BY <1>1, <2>1, <2>2, RegistryConstants
<1>5. ends # {} /\ (CHOOSE n \in ends : \A m \in ends : n <= m) = Len(p)
  <2>1. Len(p) \in ends /\ \A m \in ends : Len(p) <= m
    BY <1>1, <1>4
  <2>2. \A n \in ends : (\A m \in ends : n <= m) => n = Len(p)
    BY <1>1, <1>4
  <2> HIDE DEF ends
  <2> QED BY <2>1, <2>2
<1>6. Chain = [i \in 1..Len(p) |-> IF i <= Size + 1 THEN Visit[i-1] ELSE Null]
  BY <1>5 DEF Chain
<1>7. \A i \in 1..Len(p) : (IF i <= Size + 1 THEN Visit[i-1] ELSE Null) = p[i]
  <2> SUFFICES ASSUME NEW i \in 1..Len(p) PROVE i <= Size + 1 /\ Visit[i-1] = p[i]
    OBVIOUS
  <2>1. i - 1 \in 0..Size /\ i - 1 <= Len(p) /\ (i - 1) + 1 = i /\ i <= Size + 1
    BY <1>1
  <2> QED BY <1>2, <1>3, <2>1
<1>8. p = [i \in 1..Len(p) |-> p[i]]
  BY <1>2
<1> QED BY <1>6, <1>7, <1>8

LEMMA ChainIsNext == (IsFiniteSet(Threads) => \A p : Linked(p) => Chain = p)'
BY ChainIs, PTL

PoolInv == IInv /\ Alone /\ \E p : Linked(p)

LEMMA PoolInvInductive ==
  ASSUME Overlap = FALSE
  PROVE  Spec => []PoolInv
<1>1. Init => PoolInv
  BY IInvInit, SerialInit, LinkedInit DEF PoolInv
<1>2. PoolInv /\ [Next]_vars => PoolInv'
  <2> SUFFICES ASSUME PoolInv, [Next]_vars PROVE PoolInv'
    OBVIOUS
  <2>1. IInv' /\ Alone'
    BY IInvStep, AloneStep DEF PoolInv
  <2>2. (\E p : Linked(p))'
    <3>1. PICK p : Linked(p)
      BY DEF PoolInv
    <3> QED BY <3>1, PoolStep DEF PoolInv, IInv
  <2> QED BY <2>1, <2>2 DEF PoolInv
<1> QED BY <1>1, <1>2, PTL DEF Spec

(* Registrations and removals that do not overlap: the links behave as one   *)
(* sequence, which threads enter at its end when Insert3 links them and      *)
(* leave, wherever they are, when Remove1 unlinks them                       *)
(* (threadlib.c:385-386, 144-145, ext_common.h:83-103).                      *)
THEOREM SerialListIsPool ==
  ASSUME Overlap = FALSE, IsFiniteSet(Threads)
  PROVE  Spec => ImplementsPool
<1>1. Init => Pool!Init
  <2> SUFFICES ASSUME Init PROVE Pool!Init
    OBVIOUS
  <2>1. Chain = <<>>
    BY LinkedInit, ChainIs
  <2>2. \A t \in Threads : Status(t) = "new"
    BY DEF Init, Status
  <2> QED BY <2>1, <2>2 DEF Pool!Init
<1>2. PoolInv /\ [Next]_vars => [Pool!Next]_<<Chain, [t \in Threads |-> Status(t)]>>
  <2> SUFFICES ASSUME PoolInv, [Next]_vars
               PROVE  [Pool!Next]_<<Chain, [t \in Threads |-> Status(t)]>>
    OBVIOUS
  <2>1. PICK p : Linked(p)
    BY DEF PoolInv
  <2>2. Chain = p
    BY <2>1, ChainIs
  <2>3. \A q : Linked(q)' => Chain' = q
    BY ChainIsNext
  <2>4. CASE Linked(p)' /\ \A u \in Threads : Status(u)' = Status(u)
    BY <2>2, <2>3, <2>4
  <2>5. ASSUME NEW t \in Threads, Linked(Append(p, t))',
               Status(t) = "new", Status(t)' = "in",
               \A u \in Threads : u # t => Status(u)' = Status(u)
        PROVE  Pool!Enter(t)
    <3>1. Chain' = Append(p, t)
      BY <2>3, <2>5
    <3> QED BY <2>2, <2>5, <3>1 DEF Pool!Enter
  <2>6. ASSUME NEW t \in Threads, NEW k \in 1..Len(p), p[k] = t, Linked(Without(p, k))',
               Status(t) = "in", Status(t)' = "out",
               \A u \in Threads : u # t => Status(u)' = Status(u)
        PROVE  Pool!Leave(t)
    <3>1. Chain' = Without(p, k)
      BY <2>3, <2>6
    <3> QED BY <2>2, <2>6, <3>1 DEF Pool!Leave, Without
  <2> QED BY <2>1, <2>4, <2>5, <2>6, PoolStep DEF PoolInv, IInv, Pool!Next
<1>3. Spec => []PoolInv
  BY PoolInvInductive
<1> QED BY <1>1, <1>2, <1>3, PTL DEF Spec, ImplementsPool, Pool!Spec
-----------------------------------------------------------------------------
(* A walker stands in front of position i of p if it is on the node there,   *)
(* or on a node that was taken out and still points there.                   *)
Reaches(p, c, i) ==
  c = At(p, i) \/ (c \in Threads /\ pc[c] \in Leaving /\ next[c] = At(p, i))

(* Every thread the listing owes is shown or still ahead of the walker.  A   *)
(* walker on a node that was unlinked to the end never leaves it.            *)
OnItsWay(p, w) ==
  /\ cur[w] \in Threads => Status(cur[w]) # "new"
  /\ \A t \in due[w] : pc[t] \notin {"unborn"} \cup Numbering \cup Linking
  /\ \A i \in 1..Len(p)+1 : Reaches(p, cur[w], i) =>
       \A t \in due[w] \cap Registered : t \in shown[w] \/ \E j \in i..Len(p) : p[j] = t

GoneLinked == \A t \in Threads : pc[t] = "gone" => next[t] = t

WalkInv(p) == Linked(p) /\ GoneLinked /\ \A w \in Walkers : OnItsWay(p, w)

LEMMA ReachesOne ==
  ASSUME NEW p, Linked(p), NEW i \in 1..Len(p)+1
  PROVE  /\ At(p, i) \in Threads => Status(At(p, i)) = "in"
         /\ \A j \in 1..Len(p)+1 : Reaches(p, At(p, i), j) => i = j
<1>1. p \in Seq(Threads)
  BY DEF Linked
<1>2. At(p, i) \in Threads => Status(At(p, i)) = "in"
  BY <1>1, AtType, RegistryConstants DEF Linked
<1>3. At(p, i) \in Threads => pc[At(p, i)] \notin Leaving
  BY <1>2 DEF Status, Numbering, Leaving
<1> QED BY <1>2, <1>3, AtInjective DEF Reaches

(* Steps of a thread that neither put a thread into p nor take one out.      *)
LEMMA WalkKept ==
  ASSUME TypeOK, Alone, NEW p, WalkInv(p), NEW t \in Threads, UNCHANGED walks,
         Start(t) \/ Register(t) \/ Return(t) \/ Cancel(t) \/ Remove(t),
         ~Insert3(t), ~Remove1(t),
         Linked(p)', \A u \in Threads : Status(u)' = Status(u)
  PROVE  WalkInv(p)'
<1>1. PICK from, to : Step(t, from, to)
  BY DEF Start, Register, LoadId, StoreId, TestWrap, WrapId, AssignId, Insert1, Insert2,
         Insert4, Return, Cancel, Remove, IsEmpty, Remove2, Remove3, Remove4
<1>2. \A u \in Threads : u # t => pc'[u] = pc[u]
  BY <1>1, ThreadStep
<1>3. /\ pc'[t] \in {"unborn"} \cup Numbering \cup Linking
           => pc[t] \in {"unborn"} \cup Numbering \cup Linking
      /\ pc'[t] = "run" => pc[t] \in Linking
      /\ pc'[t] \in Leaving => pc[t] \in Leaving
  <2>1. CASE Start(t) \/ LoadId(t) \/ StoreId(t) \/ TestWrap(t) \/ WrapId(t) \/ AssignId(t)
    BY <2>1, ThreadStep
    DEF Start, LoadId, StoreId, TestWrap, WrapId, AssignId, Numbering, Linking, Leaving
  <2>2. CASE Insert1(t) \/ Insert2(t) \/ Insert4(t)
    BY <2>2, ThreadStep DEF Insert1, Insert2, Insert4, Numbering, Linking, Leaving
  <2>3. CASE Return(t) \/ Cancel(t) \/ IsEmpty(t)
    BY <2>3, ThreadStep DEF Return, Cancel, IsEmpty, Numbering, Linking, Leaving
  <2>4. CASE Remove2(t) \/ Remove3(t) \/ Remove4(t)
    BY <2>4, ThreadStep DEF Remove2, Remove3, Remove4, Numbering, Linking, Leaving
  <2> QED BY <2>1, <2>2, <2>3, <2>4 DEF Register, Remove
<1>4. /\ pc'[t] \in Leaving => next'[t] = next[t]
      /\ pc'[t] = "gone" => next'[t] = t
      /\ \A u \in Threads : u # t => next'[u] = next[u]
  <2>1. CASE UNCHANGED list /\ (pc'[t] = "gone" => next[t] = t)
    BY <2>1 DEF list
  <2>2. CASE Start(t) \/ LoadId(t) \/ StoreId(t) \/ TestWrap(t) \/ WrapId(t) \/ AssignId(t)
             \/ Return(t) \/ Cancel(t)
    <3>1. pc'[t] # "gone" /\ UNCHANGED list
      BY <2>2, ThreadStep
      DEF Start, LoadId, StoreId, TestWrap, WrapId, AssignId, Return, Cancel
    <3> QED BY <2>1, <3>1
  <2>3. CASE Insert1(t) \/ Insert2(t) \/ Insert4(t)
    <3>1. pc'[t] \in {"ins2", "ins3", "run"}
      BY <2>3, ThreadStep DEF Insert1, Insert2, Insert4
    <3> QED BY <2>3, <3>1 DEF Insert1, Insert2, Insert4, TypeOK, Leaving, Nodes
  <2>4. CASE IsEmpty(t)
    BY <2>1, <2>4, ThreadStep DEF IsEmpty
  <2>5. CASE Remove2(t) \/ Remove3(t)
    BY <2>5, ThreadStep DEF Remove2, Remove3
  <2>6. CASE Remove4(t)
    BY <2>6, ThreadStep DEF Remove4, TypeOK, Leaving, Nodes
  <2> QED BY <2>2, <2>3, <2>4, <2>5, <2>6 DEF Register, Remove
<1>5. GoneLinked'
  BY <1>2, <1>4 DEF WalkInv, GoneLinked
<1>6. ASSUME NEW w \in Walkers PROVE OnItsWay(p, w)'
  <2>1. OnItsWay(p, w) /\ UNCHANGED <<cur, due, shown>>
    BY DEF WalkInv, walks
  <2>2. due[w] \subseteq Threads
    BY DEF TypeOK
  <2>3. \A i : Reaches(p, cur[w], i)' => Reaches(p, cur[w], i)
    BY <1>2, <1>3, <1>4, <2>1 DEF Reaches, At
  <2>4. due[w] \cap Registered' \subseteq Registered
    BY <1>2, <1>3, <2>1, <2>2 DEF Registered, OnItsWay
  <2> QED BY <1>2, <1>3, <2>1, <2>2, <2>3, <2>4 DEF OnItsWay
<1> QED BY <1>5, <1>6 DEF WalkInv

LEMMA WalkInsert3 ==
  ASSUME TypeOK, Alone, NEW p, WalkInv(p), NEW t \in Threads, Insert3(t),
         Linked(Append(p, t))', \A u \in Threads : u # t => Status(u)' = Status(u)
  PROVE  WalkInv(Append(p, t))'
<1> DEFINE q == Append(p, t)
<1>1. /\ \A u \in Threads : u # t => pc'[u] = pc[u]
      /\ pc[t] = "ins3" /\ pc'[t] = "ins4"
      /\ UNCHANGED <<cur, due, shown>>
  BY ThreadStep DEF Insert3, walks
<1>2. Linked(p) /\ p \in Seq(Threads)
  BY DEF WalkInv, Linked
<1>3. /\ Len(q) = Len(p) + 1 /\ Len(p) \in Nat
      /\ \A i \in 1..Len(p) : At(q, i) = At(p, i) /\ q[i] = p[i]
      /\ At(q, Len(p) + 1) = t /\ At(q, Len(p) + 2) = Base /\ At(p, Len(p) + 1) = Base
  BY <1>2 DEF At
<1> HIDE DEF q
<1>4. \A u \in Threads : u # t => ~Writing(u)
  BY <1>1 DEF Alone, Writing, Linking
<1>5. prev[t] = At(p, Len(p))
  BY <1>1, <1>2 DEF Linked, Halfway
<1>6. GoneLinked'
  <2> SUFFICES ASSUME NEW u \in Threads, pc'[u] = "gone" PROVE next'[u] = u
    BY DEF GoneLinked
  <2>1. pc[u] = "gone" /\ next[u] = u
    BY <1>1 DEF WalkInv, GoneLinked
  <2>2. Status(u) = "out"
    BY <2>1 DEF Status, Numbering
  <2>3. At(p, Len(p)) # u
    BY <1>2, <1>3, <2>2, AtType, RegistryConstants DEF Linked
  <2> QED BY <1>5, <2>1, <2>3 DEF Insert3, TypeOK, Nodes
<1>7. ASSUME NEW w \in Walkers PROVE OnItsWay(q, w)'
  <2>1. OnItsWay(p, w)
    BY DEF WalkInv
  <2>2. Status(t) = "new"
    BY <1>1 DEF Status
  <2>3. cur[w] # t /\ (cur'[w] \in Threads => Status(cur[w])' # "new")
    <3>1. cur'[w] = cur[w] /\ (cur[w] \in Threads => Status(cur[w]) # "new")
      BY <1>1, <2>1 DEF OnItsWay
    <3> QED BY <1>1, <2>2, <3>1 DEF Status
  <2>4. \A u \in due[w] : u \in Threads /\ u # t
    BY <1>1, <2>1 DEF OnItsWay, Linking, TypeOK
  <2>5. ASSUME NEW i \in 1..Len(q)+1, Reaches(q, cur[w], i)',
               NEW u \in due[w], u \in Registered'
        PROVE  u \in shown[w] \/ \E j \in i..Len(q) : q[j] = u
    <3>1. u \in Registered
      BY <1>1, <2>4, <2>5 DEF Registered
    <3>2. cur[w] = At(q, i)
      BY <1>1, <1>4, <2>3, <2>5 DEF Reaches, Leaving, Writing, Unlinking, At
    <3>3. i # Len(p) + 1
      BY <1>3, <2>3, <3>2
    <3>4. CASE i <= Len(p)
      <4>1. i \in 1..Len(p) /\ Reaches(p, cur[w], i)
        BY <1>3, <3>2, <3>4 DEF Reaches
      <4>2. u \in shown[w] \/ \E j \in i..Len(p) : p[j] = u
        BY <1>3, <2>1, <3>1, <4>1 DEF OnItsWay
      <4> QED BY <1>3, <4>1, <4>2
    <3>5. CASE i = Len(p) + 2
      <4>1. Reaches(p, cur[w], Len(p) + 1) /\ Len(p) + 1 \in 1..Len(p)+1
        BY <1>3, <3>2, <3>5 DEF Reaches
      <4>2. u \in shown[w] \/ \E j \in Len(p)+1..Len(p) : p[j] = u
        BY <2>1, <3>1, <4>1 DEF OnItsWay
      <4> QED BY <1>3, <4>2
    <3> QED BY <1>3, <3>3, <3>4, <3>5
  <2> QED BY <1>1, <2>1, <2>3, <2>4, <2>5 DEF OnItsWay, At
<1>8. WalkInv(q)'
  BY <1>6, <1>7 DEF WalkInv, q
<1> QED BY <1>8 DEF q

LEMMA WalkRemove1 ==
  ASSUME TypeOK, Alone, NEW p, WalkInv(p), NEW t \in Threads, Remove1(t),
         NEW k \in 1..Len(p), p[k] = t, next'[t] = At(p, k + 1),
         Linked(Without(p, k))', Status(t)' = "out",
         \A u \in Threads : u # t => Status(u)' = Status(u)
  PROVE  WalkInv(Without(p, k))'
<1> DEFINE q == Without(p, k)
<1>1. /\ \A u \in Threads : u # t => pc'[u] = pc[u]
      /\ pc[t] = "rem1" /\ pc'[t] = "rem2"
      /\ UNCHANGED <<cur, due, shown>>
  BY ThreadStep DEF Remove1, walks
<1>2. Linked(p) /\ p \in Seq(Threads) /\ Len(p) \in Nat
  BY DEF WalkInv, Linked
<1>3. /\ Len(q) = Len(p) - 1
      /\ \A i \in 1..Len(q) : q[i] = IF i < k THEN p[i] ELSE p[i + 1]
      /\ \A i \in 0..Len(q)+1 : At(q, i) = IF i < k THEN At(p, i) ELSE At(p, i + 1)
  <2>1. Len(q) = Len(p) - 1 /\ Len(q) + 1 = Len(p)
    BY <1>2, WithoutAt
  <2> QED BY <1>2, <2>1, WithoutAt
<1> HIDE DEF q
<1>4. \A u \in Threads : u # t => ~Writing(u)
  BY <1>1 DEF Alone, Writing, Unlinking
<1>5. \A i, j \in 1..Len(p)+1 : At(p, i) = At(p, j) => i = j
  BY <1>2, AtInjective
<1>6. At(p, k) = t
  BY <1>2, AtType
<1>7. prev[t] = At(p, k - 1)
  <2>1. k - 1 \in 0..Len(p) /\ (k - 1) + 1 = k
    BY <1>2
  <2> QED BY <1>1, <1>2, <1>4, <1>6, <2>1
          DEF Linked, Backward, Writing, Linking, Unlinking
<1>8. GoneLinked'
  <2> SUFFICES ASSUME NEW u \in Threads, pc'[u] = "gone" PROVE next'[u] = u
    BY DEF GoneLinked
  <2>1. pc[u] = "gone" /\ next[u] = u
    BY <1>1 DEF WalkInv, GoneLinked
  <2>2. Status(u) = "out"
    BY <2>1 DEF Status, Numbering
  <2>3. At(p, k - 1) # u
    BY <1>2, <2>2, AtType, RegistryConstants DEF Linked
  <2> QED BY <1>7, <2>1, <2>3 DEF Remove1, TypeOK, Nodes
<1>9. ASSUME NEW w \in Walkers PROVE OnItsWay(q, w)'
  <2>1. OnItsWay(p, w)
    BY DEF WalkInv
  <2>2. cur'[w] \in Threads => Status(cur[w])' # "new"
    <3>1. cur'[w] = cur[w] /\ (cur[w] \in Threads => Status(cur[w]) # "new")
      BY <1>1, <2>1 DEF OnItsWay
    <3> QED BY <1>1, <3>1 DEF Status, Numbering
  <2>3. due[w] \subseteq Threads
    BY DEF TypeOK
  (* What is ahead of position i of p is ahead of the same place of q.        *)
  <2>4. ASSUME NEW i \in 1..Len(p)+1, Reaches(p, cur[w], i), NEW e \in 1..Len(q)+1,
               i < k => e <= i, i >= k => e <= i - 1 \/ (i = k /\ e = k),
               NEW u \in due[w], u \in Registered'
        PROVE  u \in shown[w] \/ \E j \in e..Len(q) : q[j] = u
    <3>1. u \in Registered /\ u # t
      BY <1>1, <2>3, <2>4 DEF Registered
    <3>2. ASSUME NEW j \in i..Len(p), p[j] = u PROVE \E l \in e..Len(q) : q[l] = u
      <4>1. j # k
        BY <3>1, <3>2
      <4>2. CASE j < k
        <5>1. j \in e..Len(q) /\ j \in 1..Len(q)
          BY <1>2, <1>3, <2>4, <4>2
        <5> QED BY <1>3, <3>2, <4>2, <5>1
      <4>3. CASE j > k
        <5>1. /\ j - 1 \in e..Len(q) /\ j - 1 \in 1..Len(q)
              /\ ~(j - 1 < k) /\ (j - 1) + 1 = j
          BY <1>2, <1>3, <2>4, <4>3
        <5> QED BY <1>3, <3>2, <5>1
      <4> QED BY <1>2, <4>1, <4>2, <4>3
    <3> QED BY <2>1, <2>4, <3>1, <3>2 DEF OnItsWay
  <2>5. ASSUME NEW e \in 1..Len(q)+1, Reaches(q, cur[w], e)',
               NEW u \in due[w], u \in Registered'
        PROVE  u \in shown[w] \/ \E j \in e..Len(q) : q[j] = u
    <3>1. CASE cur[w] = At(q, e) /\ e < k
      <4>1. e \in 1..Len(p)+1 /\ Reaches(p, cur[w], e)
        BY <1>2, <1>3, <3>1 DEF Reaches
      <4> QED BY <1>2, <1>3, <2>4, <2>5, <3>1, <4>1
    <3>2. CASE cur[w] = At(q, e) /\ e >= k
      <4>1. e + 1 \in 1..Len(p)+1 /\ Reaches(p, cur[w], e + 1)
        BY <1>2, <1>3, <3>2 DEF Reaches
      <4>2. ~(e + 1 < k) /\ e <= (e + 1) - 1
        BY <1>2, <1>3, <3>2
      <4> QED BY <2>4, <2>5, <4>1, <4>2
    <3>3. CASE cur[w] # At(q, e)
      <4>1. cur[w] = t /\ next'[t] = At(q, e)
        BY <1>1, <1>4, <2>5, <3>3 DEF Reaches, Leaving, Writing, Unlinking, At
      <4>2. At(p, k + 1) = (IF e < k THEN At(p, e) ELSE At(p, e + 1))
        BY <1>2, <1>3, <4>1
      <4>3. e = k
        <5>1. k + 1 \in 1..Len(p)+1 /\ e \in 1..Len(p)+1 /\ e + 1 \in 1..Len(p)+1
          BY <1>2, <1>3
        <5>2. CASE e < k
          BY <1>2, <1>5, <4>2, <5>1, <5>2
        <5>3. CASE ~(e < k)
          BY <1>2, <1>5, <4>2, <5>1, <5>3
        <5> QED BY <5>2, <5>3
      <4>4. Reaches(p, cur[w], k) /\ k \in 1..Len(p)+1
        BY <1>2, <1>6, <4>1 DEF Reaches
      <4> QED BY <1>2, <2>4, <2>5, <4>3, <4>4
    <3> QED BY <1>2, <1>3, <3>1, <3>2, <3>3
  <2> QED BY <1>1, <2>1, <2>2, <2>3, <2>5 DEF OnItsWay, At, Numbering, Linking
<1>10. WalkInv(q)'
  BY <1>8, <1>9 DEF WalkInv, q
<1> QED BY <1>10 DEF q

LEMMA WalkerStep ==
  ASSUME TypeOK, NEW p, WalkInv(p), NEW w \in Walkers, WalkStart(w) \/ Walk(w)
  PROVE  WalkInv(p)'
<1>1. UNCHANGED <<next, prev, pc>>
  BY DEF WalkStart, Walk, WalkNext, WalkStop, WalkFault, WalkForget, list
<1>2. Linked(p) /\ p \in Seq(Threads) /\ Len(p) \in Nat
  BY DEF WalkInv, Linked
<1>3. Linked(p)' /\ GoneLinked' /\ Registered' = Registered
      /\ \A u : Status(u)' = Status(u)
  BY <1>1, <1>2
  DEF WalkInv, Linked, Forward, Backward, Halfway, GoneLinked, Registered, Status
<1>4. \A c, i : Reaches(p, c, i)' <=> Reaches(p, c, i)
  BY <1>1 DEF Reaches, At
<1>5. ASSUME NEW v \in Walkers, v # w PROVE OnItsWay(p, v)'
  <2>1. cur'[v] = cur[v] /\ due'[v] = due[v] /\ shown'[v] = shown[v]
    BY <1>5 DEF WalkStart, Walk, WalkNext, WalkStop, WalkFault, WalkForget, TypeOK
  <2> QED BY <1>1, <1>3, <1>4, <2>1 DEF WalkInv, OnItsWay
<1>6. CASE WalkStart(w)
  <2>1. /\ cur'[w] = At(p, 1) /\ due'[w] = Registered /\ shown'[w] = {}
        /\ 1 \in 1..Len(p)+1
    <3>1. At(p, 0) = Base /\ next[At(p, 0)] = At(p, 1)
      BY <1>2, AtType DEF Linked, Forward
    <3> QED BY <1>2, <1>6, <3>1 DEF WalkStart, TypeOK
  <2>2. \A t \in Registered : \E j \in 1..Len(p) : p[j] = t
    <3>1. \A t \in Registered : t \in Threads /\ Status(t) = "in"
      BY DEF Registered, Status, Numbering
    <3> QED BY <1>2, <3>1 DEF Linked
  <2>3. /\ At(p, 1) \in Threads => Status(At(p, 1)) = "in"
        /\ \A i \in 1..Len(p)+1 : Reaches(p, At(p, 1), i) => i = 1
    BY <1>2, <2>1, ReachesOne
  <2>4. \A t \in Registered : pc[t] \notin {"unborn"} \cup Numbering \cup Linking
    BY DEF Registered, Numbering, Linking
  <2>5. OnItsWay(p, w)'
    BY <1>1, <1>3, <1>4, <2>1, <2>2, <2>3, <2>4 DEF OnItsWay
  <2> QED BY <1>3, <1>5, <2>5 DEF WalkInv
<1>7. CASE WalkNext(w)
  <2> DEFINE c == cur[w]
  <2>1. /\ c \in Threads /\ cur'[w] = next[c] /\ due'[w] = due[w]
        /\ shown'[w] = shown[w] \cup {c}
    BY <1>7 DEF WalkNext, TypeOK
  <2>2. OnItsWay(p, w) /\ Status(c) # "new"
    BY <2>1 DEF WalkInv, OnItsWay
  <2> HIDE DEF c
  (* It goes on to a position of the list no further than one node on.        *)
  <2>3. ASSUME NEW i \in 1..Len(p)+1, NEW e \in 1..Len(p)+1, Reaches(p, c, i), next[c] = At(p, e),
               e = i \/ (e = i + 1 /\ c = p[i])
        PROVE  OnItsWay(p, w)'
    <3>1. \A t \in due[w] \cap Registered : t \in shown[w] \/ \E j \in i..Len(p) : p[j] = t
      BY <2>2, <2>3 DEF OnItsWay, c
    <3>2. \A t \in due[w] \cap Registered :
            t \in shown[w] \cup {c} \/ \E j \in e..Len(p) : p[j] = t
      BY <1>2, <2>3, <3>1
    <3>3. /\ At(p, e) \in Threads => Status(At(p, e)) = "in"
          /\ \A j \in 1..Len(p)+1 : Reaches(p, At(p, e), j) => j = e
      BY <1>2, <2>3, ReachesOne
    <3> QED BY <1>1, <1>3, <1>4, <2>1, <2>2, <2>3, <3>2, <3>3 DEF OnItsWay
  <2>4. ASSUME Status(c) = "in" PROVE OnItsWay(p, w)'
    <3>1. PICK k \in 1..Len(p) : p[k] = c
      BY <1>2, <2>1, <2>4 DEF Linked
    <3>2. At(p, k) = c /\ next[c] = At(p, k + 1)
      BY <1>2, <3>1, AtType DEF Linked, Forward
    <3>3. k \in 1..Len(p)+1 /\ k + 1 \in 1..Len(p)+1 /\ Reaches(p, c, k)
      BY <1>2, <3>2 DEF Reaches
    <3> QED BY <2>3, <3>1, <3>2, <3>3
  <2>5. ASSUME pc[c] \in Leaving PROVE OnItsWay(p, w)'
    <3>1. PICK i \in 0..Len(p) : next[c] = At(p, i + 1)
      BY <1>2, <2>1, <2>5 DEF Linked, Halfway
    <3>2. i + 1 \in 1..Len(p)+1 /\ Reaches(p, c, i + 1)
      BY <1>2, <2>1, <2>5, <3>1 DEF Reaches
    <3> QED BY <2>3, <3>1, <3>2
  <2>6. ASSUME pc[c] = "gone" PROVE OnItsWay(p, w)'
    <3>1. cur'[w] = c
      BY <2>1, <2>6 DEF WalkInv, GoneLinked
    <3> QED BY <1>1, <1>3, <1>4, <2>1, <2>2, <3>1 DEF OnItsWay, c
  <2>7. Status(c) = "in" \/ pc[c] \in Leaving \/ pc[c] = "gone"
    BY <2>1, <2>2 DEF Status, TypeOK, Numbering, Linking, Unlinking, Leaving
  <2> QED BY <1>3, <1>5, <2>4, <2>5, <2>6, <2>7 DEF WalkInv
<1>8. CASE WalkStop(w) \/ WalkFault(w)
  <2>1. cur'[w] = Null /\ due'[w] = {}
    BY <1>8 DEF WalkStop, WalkFault, WalkForget, TypeOK
  <2>2. OnItsWay(p, w)'
    BY <2>1, RegistryConstants DEF OnItsWay
  <2> QED BY <1>3, <1>5, <2>2 DEF WalkInv
<1> QED BY <1>6, <1>7, <1>8 DEF Walk

LEMMA WalkInvStep ==
  ASSUME TypeOK, Alone, NEW p, WalkInv(p), [Next]_vars
  PROVE  (\E q : WalkInv(q))'
<1>1. Linked(p)
  BY DEF WalkInv
<1>2. CASE UNCHANGED vars
  <2>1. Linked(p)' /\ GoneLinked'
    BY <1>2 DEF vars, WalkInv, Linked, Forward, Backward, Halfway, Status, GoneLinked
  <2>2. \A w \in Walkers : OnItsWay(p, w)'
    BY <1>2 DEF vars, WalkInv, OnItsWay, Reaches, Registered, Status, At
  <2> QED BY <2>1, <2>2 DEF WalkInv
<1>3. ASSUME NEW w \in Walkers, WalkStart(w) \/ Walk(w) PROVE WalkInv(p)'
  BY <1>3, WalkerStep
<1>4. ASSUME NEW t \in Threads, Start(t) \/ Register(t) \/ Return(t) \/ Cancel(t) \/ Remove(t),
             ~Insert3(t), ~Remove1(t)
      PROVE  WalkInv(p)'
  <2>1. Linked(p)' /\ \A u \in Threads : Status(u)' = Status(u)
    BY <1>1, <1>4, QuietStep, Insert12Step, Insert4Step, Remove234Step DEF Register, Remove
  <2>2. UNCHANGED walks
    BY <1>4 DEF Start, Register, LoadId, StoreId, TestWrap, WrapId, AssignId, Insert1,
       Insert2, Insert4, Return, Cancel, Remove, IsEmpty, Remove2, Remove3, Remove4
  <2> QED BY <1>4, <2>1, <2>2, WalkKept
<1>5. ASSUME NEW t \in Threads, Insert3(t) PROVE WalkInv(Append(p, t))'
  BY <1>1, <1>5, Insert3Step, WalkInsert3
<1>6. ASSUME NEW t \in Threads, Remove1(t) PROVE (\E q : WalkInv(q))'
  BY <1>1, <1>6, Remove1Step, WalkRemove1
<1> QED BY <1>2, <1>3, <1>4, <1>5, <1>6 DEF Next

(* A listing that comes to its end has shown every thread registered all     *)
(* along, for any number of threads that come and go, and of listings, as    *)
(* long as registrations and removals do not overlap (threadlib.c:217-246).  *)
THEOREM WalksAreComplete ==
  ASSUME Overlap = FALSE
  PROVE  Spec => []WalkComplete
<1> DEFINE Inv == IInv /\ Alone /\ \E p : WalkInv(p)
<1>1. Init => Inv
  <2> SUFFICES ASSUME Init PROVE \E p : WalkInv(p)
    BY IInvInit, SerialInit
  <2>1. GoneLinked /\ \A w \in Walkers : OnItsWay(<<>>, w)
    BY RegistryConstants DEF Init, GoneLinked, OnItsWay
  <2> QED BY <2>1, LinkedInit DEF WalkInv
<1>2. Inv /\ [Next]_vars => Inv'
  BY IInvStep, AloneStep, WalkInvStep DEF IInv
<1>3. Inv => WalkComplete
  <2> SUFFICES ASSUME NEW p, WalkInv(p), NEW w \in Walkers, cur[w] = Base
               PROVE  (due[w] \cap Registered) \subseteq shown[w]
    BY DEF WalkComplete
  <2>1. Linked(p) /\ p \in Seq(Threads) /\ Len(p) \in Nat /\ At(p, Len(p) + 1) = Base
    BY AtType DEF WalkInv, Linked
  <2>2. Reaches(p, cur[w], Len(p) + 1) /\ Len(p) + 1 \in 1..Len(p)+1
    BY <2>1 DEF Reaches
  <2> QED BY <2>1, <2>2 DEF WalkInv, OnItsWay
<1> QED BY <1>1, <1>2, <1>3, PTL DEF Spec
=============================================================================
