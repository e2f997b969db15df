---------------------------- MODULE ThreadRegistry ----------------------------
(***************************************************************************)
(* The list of threads of dbgModule/thread/threadlib.c.  Every thread links*)
(* a node of its own thread-local storage into one circular doubly-linked  *)
(* list (LS_INS_BEFORE) when it starts, and unlinks it (LS_REMQUE) when its*)
(* start routine returns; _show_thread and _find_thread_info walk the list.*)
(* Nothing is locked, so a step of this module is one assignment of the C  *)
(* code, in the order of the statements (the build is -O0).                *)
(*                                                                         *)
(* Operations of different threads overlap in every way; if Overlap is     *)
(* FALSE they happen not to: then, and only then, the list is the          *)
(* ThreadPool it is meant to be.                                           *)
(***************************************************************************)
EXTENDS Naturals, FiniteSets, Sequences

CONSTANTS
  Threads,    \* threads that register, the main thread included
  Base,       \* _thrList, the head of the list
  Null,       \* a link of thread-local storage nobody has written
  Returning,  \* threads whose start routine returns
  Cancelled,  \* threads that end in pthread_exit or are cancelled
  Walkers,    \* listings under way: F06, the "task" command, a lookup by name
  IdWrap,     \* 0xFFFF
  Overlap     \* whether registrations and removals of threads overlap

ASSUME RegistryConstants ==
  /\ Base \notin Threads /\ Null \notin Threads \cup {Base}
  /\ Returning \subseteq Threads /\ Cancelled \subseteq Threads
  /\ IdWrap \in Nat /\ IdWrap > 1
  /\ Overlap \in BOOLEAN

Nodes == Threads \cup {Base}

VARIABLES
  next, prev,  \* the links; the node of a thread is named after the thread
  taskId,      \* _task_id
  tskId,       \* threadInfo.tskId of each thread
  reg,         \* the register ++_task_id goes through
  pc,          \* control point of each thread
  cur,         \* p_data of each walker: Null before, Base after the loop
  due,         \* threads registered when the walk began (history)
  shown        \* threads the walk has printed

list  == <<next, prev>>
ids   == <<taskId, tskId, reg>>
walks == <<cur, due, shown>>
vars  == <<next, prev, taskId, tskId, reg, pc, cur, due, shown>>

Numbering == {"load", "store", "test", "wrap", "assign"}
Linking   == {"ins1", "ins2", "ins3", "ins4"}
Unlinking == {"rem0", "rem1", "rem2", "rem3", "rem4"}

TypeOK ==
  /\ next \in [Nodes -> Nodes \cup {Null}]
  /\ prev \in [Nodes -> Nodes \cup {Null}]
  /\ taskId \in Nat
  /\ tskId \in [Threads -> Nat]
  /\ reg \in [Threads -> Nat]
  /\ pc \in [Threads -> {"unborn", "run", "gone", "exited"} \cup Numbering \cup Linking \cup Unlinking]
  /\ cur \in [Walkers -> Nodes \cup {Null}]
  /\ due \in [Walkers -> SUBSET Threads]
  /\ shown \in [Walkers -> SUBSET Threads]

Init ==
  /\ next = [n \in Nodes |-> IF n = Base THEN Base ELSE Null]
  /\ prev = [n \in Nodes |-> IF n = Base THEN Base ELSE Null]
  /\ taskId = 0
  /\ tskId = [t \in Threads |-> 0]
  /\ reg = [t \in Threads |-> 0]
  /\ pc = [t \in Threads |-> "unborn"]
  /\ cur = [w \in Walkers |-> Null]
  /\ due = [w \in Walkers |-> {}]
  /\ shown = [w \in Walkers |-> {}]
-----------------------------------------------------------------------------
(* regist_thread_info.                                                     *)

Writing(t) == pc[t] \in Numbering \cup Linking \cup Unlinking

(* A registration or a removal may begin.                                   *)
Begins == Overlap \/ \A u \in Threads : ~Writing(u)

Step(t, from, to) == pc[t] = from /\ pc' = [pc EXCEPT ![t] = to]

(* _hook_root_entry, or the constructor of the library for the main thread. *)
Start(t) == Begins /\ Step(t, "unborn", "load") /\ UNCHANGED <<list, ids, walks>>

(* if ((++_task_id) == 0xFFFF) _task_id = 1; threadInfo.tskId = _task_id    *)
LoadId(t) ==
  /\ Step(t, "load", "store")
  /\ reg' = [reg EXCEPT ![t] = taskId + 1]
  /\ UNCHANGED <<list, taskId, tskId, walks>>

StoreId(t) ==
  /\ Step(t, "store", "test")
  /\ taskId' = reg[t]
  /\ UNCHANGED <<list, tskId, reg, walks>>

(* Mutant of TestWrap: the id wraps one too late.                           *)
TestWrapLate(t) ==
  /\ Step(t, "test", IF taskId = IdWrap + 1 THEN "wrap" ELSE "assign")
  /\ UNCHANGED <<list, ids, walks>>

TestWrap(t) ==
  /\ Step(t, "test", IF taskId = IdWrap THEN "wrap" ELSE "assign")
  /\ UNCHANGED <<list, ids, walks>>

WrapId(t) ==
  /\ Step(t, "wrap", "assign")
  /\ taskId' = 1
  /\ UNCHANGED <<list, tskId, reg, walks>>

AssignId(t) ==
  /\ Step(t, "assign", "ins1")
  /\ tskId' = [tskId EXCEPT ![t] = taskId]
  /\ UNCHANGED <<list, taskId, reg, walks>>

(* Mutants of the insertion: in front of the list; without the link back to *)
(* the head; linked to itself (LS_INIT); never reached from the list.       *)
Insert1Front(t) ==
  /\ Step(t, "ins1", "ins2")
  /\ prev' = [prev EXCEPT ![t] = Base]
  /\ UNCHANGED <<next, ids, walks>>

Insert2Missing(t) == Step(t, "ins2", "ins3") /\ UNCHANGED <<list, ids, walks>>

Insert2Self(t) ==
  /\ Step(t, "ins2", "ins3")
  /\ next' = [next EXCEPT ![t] = t]
  /\ UNCHANGED <<prev, ids, walks>>

Insert3Missing(t) == Step(t, "ins3", "ins4") /\ UNCHANGED <<list, ids, walks>>

(* LS_INS_BEFORE(_thrList, &threadInfo): insert behind the last.            *)
Insert1(t) ==
  /\ Step(t, "ins1", "ins2")
  /\ prev' = [prev EXCEPT ![t] = prev[Base]]
  /\ UNCHANGED <<next, ids, walks>>

Insert2(t) ==
  /\ Step(t, "ins2", "ins3")
  /\ next' = [next EXCEPT ![t] = Base]
  /\ UNCHANGED <<prev, ids, walks>>

Insert3(t) ==
  /\ Step(t, "ins3", "ins4")
  /\ next' = [next EXCEPT ![prev[t]] = t]
  /\ UNCHANGED <<prev, ids, walks>>

Insert4(t) ==
  /\ Step(t, "ins4", "run")
  /\ prev' = [prev EXCEPT ![next[t]] = t]
  /\ UNCHANGED <<next, ids, walks>>
-----------------------------------------------------------------------------
(* The end of a thread.                                                    *)

(* The start routine returns to _hook_root_entry.                           *)
Return(t) ==
  /\ t \in Returning
  /\ Begins /\ Step(t, "run", "rem0")
  /\ UNCHANGED <<list, ids, walks>>

(* pthread_exit and cancellation never come back to _hook_root_entry.       *)
Cancel(t) == t \in Cancelled /\ Step(t, "run", "exited") /\ UNCHANGED <<list, ids, walks>>

(* LS_REMQUE(&threadInfo), with LS_INIT as its last two assignments.        *)
IsEmpty(t) ==
  /\ Step(t, "rem0", IF next[t] = t THEN "gone" ELSE "rem1")
  /\ UNCHANGED <<list, ids, walks>>

Remove1(t) ==
  /\ Step(t, "rem1", "rem2")
  /\ next' = [next EXCEPT ![prev[t]] = next[t]]
  /\ UNCHANGED <<prev, ids, walks>>

Remove2(t) ==
  /\ Step(t, "rem2", "rem3")
  /\ prev' = [prev EXCEPT ![next[t]] = prev[t]]
  /\ UNCHANGED <<next, ids, walks>>

Remove3(t) ==
  /\ Step(t, "rem3", "rem4")
  /\ prev' = [prev EXCEPT ![t] = t]
  /\ UNCHANGED <<next, ids, walks>>

Remove4(t) ==
  /\ Step(t, "rem4", "gone")
  /\ next' = [next EXCEPT ![t] = t]
  /\ UNCHANGED <<prev, ids, walks>>
-----------------------------------------------------------------------------
(* _show_thread and the loop of _find_thread_info.                         *)

Registered == {t \in Threads : pc[t] = "run"}

WalkStart(w) ==
  /\ cur[w] \in {Null, Base}
  /\ cur' = [cur EXCEPT ![w] = next[Base]]
  /\ due' = [due EXCEPT ![w] = Registered]
  /\ shown' = [shown EXCEPT ![w] = {}]
  /\ UNCHANGED <<list, ids, pc>>

(* Print the node and follow its link.                                      *)
WalkNext(w) ==
  /\ cur[w] \in Threads
  /\ cur' = [cur EXCEPT ![w] = next[cur[w]]]
  /\ shown' = [shown EXCEPT ![w] = @ \cup {cur[w]}]
  /\ UNCHANGED <<list, ids, pc, due>>

(* The walk ends where it is.                                               *)
WalkForget(w) ==
  /\ cur' = [cur EXCEPT ![w] = Null]
  /\ due' = [due EXCEPT ![w] = {}]
  /\ shown' = [shown EXCEPT ![w] = {}]
  /\ UNCHANGED <<list, ids, pc>>

(* A listing for one thread, or a lookup, stops at the node it looks for.   *)
WalkStop(w) ==
  /\ cur[w] \in Threads
  /\ WalkForget(w)

(* The node is storage of a thread that is gone: still there in the stack   *)
(* cache of the C library (WalkNext), or unmapped, and the walk faults.     *)
WalkFault(w) ==
  /\ cur[w] \in Threads
  /\ pc[cur[w]] \in {"gone", "exited"}
  /\ WalkForget(w)
-----------------------------------------------------------------------------
Register(t) ==
  \/ LoadId(t) \/ StoreId(t) \/ TestWrap(t) \/ WrapId(t) \/ AssignId(t)
  \/ Insert1(t) \/ Insert2(t) \/ Insert3(t) \/ Insert4(t)

Remove(t) == IsEmpty(t) \/ Remove1(t) \/ Remove2(t) \/ Remove3(t) \/ Remove4(t)

Walk(w) == WalkNext(w) \/ WalkStop(w) \/ WalkFault(w)

Next ==
  \/ \E t \in Threads : Start(t) \/ Register(t) \/ Return(t) \/ Cancel(t) \/ Remove(t)
  \/ \E w \in Walkers : WalkStart(w) \/ Walk(w)

Spec == Init /\ [][Next]_vars

(* The operating system runs a thread that lists threads.                   *)
FairSpec == Spec /\ \A w \in Walkers : WF_vars(WalkNext(w))
-----------------------------------------------------------------------------
(* The nodes met from the head, at most Cardinality(Threads) + 1 of them.   *)
Size == Cardinality(Threads)

Visit == LET v[n \in 0..Size] == IF n = 0 THEN next[Base]
                                 ELSE IF v[n-1] \in {Base, Null} THEN v[n-1]
                                      ELSE next[v[n-1]]
         IN v

Chain == LET ends == {n \in 0..Size : Visit[n] \notin Threads}
             len  == IF ends = {} THEN Size + 1
                     ELSE CHOOSE n \in ends : \A m \in ends : n <= m
         IN [i \in 1..len |-> IF i <= Size + 1 THEN Visit[i-1] ELSE Null]

Listed == {Visit[n] : n \in 0..Size} \cap Threads

(* A thread that ends in pthread_exit stays in the pool.                    *)
Status(t) ==
  IF pc[t] \in {"unborn", "ins1", "ins2", "ins3"} \cup Numbering THEN "new"
  ELSE IF pc[t] \in {"ins4", "run", "rem0", "rem1", "exited"} THEN "in" ELSE "out"

Pool == INSTANCE ThreadPool WITH
          pool <- Chain, status <- [t \in Threads |-> Status(t)]

(* Operations that do not overlap make the links behave as one sequence:    *)
(* threads enter at the end and leave from where they are, those that end   *)
(* in pthread_exit excepted (threadlib.c:385-386, 144-145,                  *)
(* ext_common.h:83-103).                                                    *)
ImplementsPool == Pool!Spec

(* As long as fewer threads have registered than there are ids, no two of   *)
(* them share one, and none is 0, the id of an unregistered thread, or      *)
(* 0xFFFF (threadlib.c:368-371).                                            *)
Numbered == {t \in Threads : pc[t] \notin {"unborn"} \cup Numbering}

DistinctIds ==
  /\ \A t \in Numbered : tskId[t] \in 1..IdWrap-1
  /\ Cardinality(Numbered) < IdWrap =>
       \A t, u \in Numbered : tskId[t] = tskId[u] => t = u

(* A listing that comes to its end has shown every thread that was          *)
(* registered when it began and still is, whatever was inserted or removed  *)
(* while it walked (threadlib.c:217-246).                                   *)
WalkComplete ==
  \A w \in Walkers : cur[w] = Base => (due[w] \cap Registered) \subseteq shown[w]

(* However operations overlap, a walker never comes to a node that has not  *)
(* been initialised: its links are Null before its tskId is set.            *)
WalksInitialised ==
  \A w \in Walkers : cur[w] \in Threads => next[cur[w]] # Null /\ tskId[cur[w]] # 0

(* Overlapping insertions may lose a node, but never make the list endless: *)
(* while no thread ends, every walk does (threadlib.c:220-246, 185-205).    *)
WalkTerminates == \A w \in Walkers : cur[w] \in Threads ~> cur[w] \notin Threads

=============================================================================
