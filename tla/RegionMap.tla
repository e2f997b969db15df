------------------------------ MODULE RegionMap ------------------------------
(***************************************************************************)
(* The table of memory regions of dbgModule/thread/thread_util.c, in the   *)
(* /proc/self/maps method: every lookup reads the file again, line by line,*)
(* into one shared table, under a recursive mutex, and searches the table. *)
(* A lookup may be interrupted by a signal handler that looks an address up*)
(* itself (the backtrace handler), on the same thread.                     *)
(*                                                                         *)
(* The kernel's regions are a sequence of disjoint intervals in address    *)
(* order; what the program may map and unmap is the relation Becomes.  The *)
(* code that looks an address up is mapped itself, and stays so.           *)
(***************************************************************************)
EXTENDS Integers, Sequences, FiniteSets

CONSTANTS
  Threads,      \* threads that look addresses up
  Interrupted,  \* those among them that a backtrace request interrupts
  Addrs,        \* addresses each of them asks for
  HandlerAddrs, \* addresses that handlers ask for
  Layouts,      \* contents of /proc/self/maps
  Becomes,      \* pairs of layouts: one mmap or munmap apart
  Room          \* entries of the table; a scan stops when it is full

Opts   == {"none", "r", "rx"}
Entry  == [beg: Nat, end: Nat, opt: Opts]
Empty  == [beg |-> 0, end |-> 0, opt |-> "none"]
NoOne  == "no-one"

Regions == UNION {{m[i] : i \in DOMAIN m} : m \in Layouts}

ASSUME RegionConstants ==
  /\ NoOne \notin Threads
  /\ Interrupted \subseteq Threads
  /\ Addrs \in [Threads -> SUBSET (Nat \ {0})] /\ HandlerAddrs \subseteq Nat \ {0}
  /\ Layouts \subseteq Seq(Entry) /\ Layouts # {}
  /\ Becomes \subseteq Layouts \X Layouts

ASSUME LayoutConstants ==
  /\ \A m \in Layouts : \A i \in DOMAIN m :
       m[i].beg < m[i].end /\ \A j \in DOMAIN m : j < i => m[j].end <= m[i].beg
  /\ \E code \in Regions : code.opt # "none" /\ \A m \in Layouts : \E i \in DOMAIN m : m[i] = code
  /\ Room \in Nat /\ IsFiniteSet(Regions) /\ Cardinality(Regions) < Room

VARIABLES
  maps,    \* what the kernel would print now
  table,   \* _pRegionLst
  mapNum,  \* _pMapInfo->mapNum
  pos,     \* position in the file: the end of the last region read
  owner, depth,  \* _regionMtx
  calls    \* per thread, its lookups: the one under way and one it interrupted

vars == <<maps, table, mapNum, pos, owner, depth, calls>>

NoTable == [i \in 0..Room |-> Empty]

Lookup == [at: {"lock", "rewind", "reset", "line", "store", "count", "first", "begin", "search",
                "unlock", "reread", "done"},
           addr: Nat \ {0},
           line: Entry,            \* the line just read; later, the first entry as compared
           l: 0..Room + 1, r: 0..Room, iMapNum: 0..Room,  \* the binary search
           res: Entry,             \* the region to be returned
           truth: SUBSET Entry,    \* what held of addr since the call (history)
           seen: [0..Room -> Entry],  \* the table when the search began (history)
           torn: BOOLEAN,          \* a handler scanned inside its reset or one of its lines (history)
           stale: BOOLEAN]         \* the answer rests on an entry that is not that table's (history)

TypeOK ==
  /\ maps \in Layouts
  /\ table \in [0..Room -> Entry]
  /\ mapNum \in 0..Room /\ pos \in Nat
  /\ owner \in Threads \cup {NoOne} /\ depth \in Nat
  /\ calls \in [Threads -> Seq(Lookup)]

Init ==
  /\ maps \in Layouts
  /\ table = NoTable
  /\ mapNum = 0 /\ pos = 0
  /\ owner = NoOne /\ depth = 0
  /\ calls = [t \in Threads |-> <<>>]
-----------------------------------------------------------------------------
Holds(e, a) == e.beg <= a /\ a < e.end

(* The region of a, or Empty: what a lookup should return.                  *)
Region(m, a) ==
  IF \E i \in DOMAIN m : Holds(m[i], a) /\ m[i].opt # "none"
  THEN m[CHOOSE i \in DOMAIN m : Holds(m[i], a)]
  ELSE Empty

Cur(t)   == calls[t][Len(calls[t])]
At(t, l) == calls[t] # <<>> /\ Cur(t).at = l
Set(t, c) == calls' = [calls EXCEPT ![t][Len(calls[t])] = c]
Goto(t, l) == Set(t, [Cur(t) EXCEPT !.at = l])

(* The program maps or unmaps memory, between any two steps of a lookup.    *)
Remap ==
  /\ \E m \in Layouts :
       /\ <<maps, m>> \in Becomes
       /\ maps' = m
       /\ calls' = [t \in Threads |-> [i \in DOMAIN calls[t] |->
                      [calls[t][i] EXCEPT !.truth = @ \cup {Region(m, calls[t][i].addr)}]]]
  /\ UNCHANGED <<table, mapNum, pos, owner, depth>>
-----------------------------------------------------------------------------
(* getRegionEntry, on an idle thread or in a handler that interrupts one.   *)
Interrupt(lookups) ==
  [i \in DOMAIN lookups |->
     [lookups[i] EXCEPT !.torn = @ \/ lookups[i].at \in {"reset", "store", "count"}]]

Asked(a) ==
  [at |-> "lock", addr |-> a, line |-> Empty, l |-> 0, r |-> 0, iMapNum |-> 0, res |-> Empty,
   truth |-> {Region(maps, a)}, seen |-> NoTable, torn |-> FALSE, stale |-> FALSE]

Call(t) ==
  /\ calls[t] = <<>> \/ (Len(calls[t]) = 1 /\ t \in Interrupted)
  /\ \E a \in IF calls[t] = <<>> THEN Addrs[t] ELSE HandlerAddrs :
       calls' = [calls EXCEPT ![t] = Append(Interrupt(@), Asked(a))]
  /\ UNCHANGED <<maps, table, mapNum, pos, owner, depth>>

(* Mutants of Lock: no mutual exclusion; a mutex that is not recursive.     *)
LockShared(t) ==
  /\ At(t, "lock")
  /\ owner' = t /\ depth' = depth + 1
  /\ Goto(t, "rewind")
  /\ UNCHANGED <<maps, table, mapNum, pos>>

LockOnce(t) ==
  /\ At(t, "lock")
  /\ owner = NoOne
  /\ owner' = t /\ depth' = 1
  /\ Goto(t, "rewind")
  /\ UNCHANGED <<maps, table, mapNum, pos>>

Lock(t) ==
  /\ At(t, "lock")
  /\ owner \in {NoOne, t}
  /\ owner' = t /\ depth' = depth + 1
  /\ Goto(t, "rewind")
  /\ UNCHANGED <<maps, table, mapNum, pos>>

(* _region_map_init: the mutex it takes once more is already ours. A handler*)
(* may come between the rewind and the reset.                               *)
Rewind(t) ==
  /\ At(t, "rewind")
  /\ pos' = 0
  /\ Goto(t, "reset")
  /\ UNCHANGED <<maps, table, mapNum, owner, depth>>

ResetNum(t) ==
  /\ At(t, "reset")
  /\ mapNum' = 0
  /\ Goto(t, "line")
  /\ UNCHANGED <<maps, table, pos, owner, depth>>

(* fgets: the first region that ends behind the position.                   *)
Lines == {i \in DOMAIN maps : maps[i].end > pos}

ReadLine(t) ==
  /\ At(t, "line")
  /\ IF Lines = {} \/ mapNum >= Room
     THEN Goto(t, "first") /\ UNCHANGED pos
     ELSE LET e == maps[CHOOSE i \in Lines : \A j \in Lines : i <= j]
          IN /\ pos' = e.end
             /\ IF e.opt = "none" THEN UNCHANGED calls
                ELSE Set(t, [Cur(t) EXCEPT !.line = e, !.at = "store"])
  /\ UNCHANGED <<maps, table, mapNum, owner, depth>>

StoreLine(t) ==
  /\ At(t, "store")
  /\ table' = [table EXCEPT ![mapNum] = Cur(t).line]
  /\ Goto(t, "count")
  /\ UNCHANGED <<maps, mapNum, pos, owner, depth>>

CountLine(t) ==
  /\ At(t, "count")
  /\ mapNum' = mapNum + 1
  /\ Set(t, [Cur(t) EXCEPT !.line = Empty, !.at = "line"])
  /\ UNCHANGED <<maps, table, pos, owner, depth>>
-----------------------------------------------------------------------------
(* _getRegionEntry_ext.                                                    *)

Unlock ==
  /\ depth' = depth - 1
  /\ owner' = IF depth = 1 THEN NoOne ELSE owner

(* The first entry is compared under the mutex but copied after it.         *)
TryFirst(t) ==
  /\ At(t, "first")
  /\ IF Cur(t).addr < table[0].end
     THEN /\ Unlock
          /\ Set(t, [Cur(t) EXCEPT !.at = IF Cur(t).addr >= table[0].beg THEN "reread" ELSE "done",
                                   !.line = table[0]])
     ELSE /\ Set(t, [Cur(t) EXCEPT !.line = table[0], !.at = "begin"])
          /\ UNCHANGED <<owner, depth>>
  /\ UNCHANGED <<maps, table, mapNum, pos>>

RereadFirst(t) ==
  /\ At(t, "reread")
  /\ Set(t, [Cur(t) EXCEPT !.res = table[0], !.stale = table[0] # Cur(t).line,
                           !.line = Empty, !.at = "done"])
  /\ UNCHANGED <<maps, table, mapNum, pos, owner, depth>>

(* The binary search: entries 1 to mapNum, the last of which is not in use. *)
BeginSearch(t) ==
  /\ At(t, "begin")
  /\ Set(t, [Cur(t) EXCEPT !.l = 1, !.r = mapNum, !.iMapNum = mapNum, !.seen = table,
                           !.stale = table[0] # Cur(t).line, !.line = Empty, !.at = "search"])
  /\ UNCHANGED <<maps, table, mapNum, pos, owner, depth>>

Probe(t) ==
  /\ At(t, "search") /\ Cur(t).l <= Cur(t).r
  /\ LET c   == (Cur(t).l + Cur(t).r) \div 2
         a   == Cur(t).addr
         was == c = Cur(t).iMapNum \/ table[c] = Cur(t).seen[c]
     IN  Set(t, IF a < table[c].beg THEN [Cur(t) EXCEPT !.r = c - 1, !.stale = @ \/ ~was]
                ELSE IF a >= table[c].end THEN [Cur(t) EXCEPT !.l = c + 1, !.stale = @ \/ ~was]
                ELSE [Cur(t) EXCEPT !.res = table[c], !.at = "unlock",
                                    !.stale = @ \/ ~was \/ c = Cur(t).iMapNum])
  /\ UNCHANGED <<maps, table, mapNum, pos, owner, depth>>

UnlockSearch(t) ==
  /\ At(t, "unlock") \/ (At(t, "search") /\ Cur(t).l > Cur(t).r)
  /\ Unlock
  /\ Set(t, [Cur(t) EXCEPT !.l = 0, !.r = 0, !.iMapNum = 0, !.seen = NoTable, !.at = "done"])
  /\ UNCHANGED <<maps, table, mapNum, pos>>

Return(t) ==
  /\ At(t, "done")
  /\ calls' = [calls EXCEPT ![t] = SubSeq(@, 1, Len(@) - 1)]
  /\ UNCHANGED <<maps, table, mapNum, pos, owner, depth>>
-----------------------------------------------------------------------------
Step(t) == \/ Lock(t) \/ Rewind(t) \/ ResetNum(t) \/ ReadLine(t) \/ StoreLine(t) \/ CountLine(t)
           \/ TryFirst(t) \/ RereadFirst(t) \/ BeginSearch(t) \/ Probe(t) \/ UnlockSearch(t)
           \/ Return(t)

Next == Remap \/ \E t \in Threads : Call(t) \/ Step(t)

Spec == Init /\ [][Next]_vars

(* Threads run; a thread that keeps asking for the mutex is granted it, and *)
(* one that is interrupted again and again gets on in between (backtraces   *)
(* are requested by hand).                                                  *)
Outer(t) == Len(calls[t]) = 1 /\ Step(t)

FairSpec ==
  Spec /\ \A t \in Threads : WF_vars(Step(t)) /\ SF_vars(Lock(t)) /\ SF_vars(Outer(t))
-----------------------------------------------------------------------------
(* "thread safe utility" (thread_util.c:12): an answer was true at some     *)
(* moment of the lookup, whoever else looks addresses up or maps and unmaps *)
(* memory, even if a handler has scanned the file over the lookup.  The     *)
(* exceptions are lookups whose file a handler has read to its end between  *)
(* the rewind and the reset (119-120), or whose line a handler has scanned  *)
(* away before it was counted (134-140), answers from a first entry that    *)
(* another scan has replaced before it was copied (193), or after it was    *)
(* compared, or from another entry a handler has replaced since the search  *)
(* began (197-226), and the entry behind the last (208).                    *)
AnswerWasTrue ==
  \A t \in Threads : At(t, "done") /\ ~Cur(t).torn /\ ~Cur(t).stale => Cur(t).res \in Cur(t).truth

(* A handler that looks an address up while its thread is in a lookup does  *)
(* not wait for itself: every lookup returns (thread_util.c:75, 86-96).     *)
Answered == \A t \in Threads : calls[t] # <<>> ~> (calls[t] # <<>> /\ Cur(t).at = "done")
=============================================================================
