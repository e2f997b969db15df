------------------------------ MODULE CcdvProofs ------------------------------
(***************************************************************************)
(* Proofs about Ccdv, for every job, compiler, pipe and buffer.  First what*)
(* holds for any filter that says whether it aborts: the NUL has room, all *)
(* that was written is judged or passed on, and the status of a compiler   *)
(* that fails is kept.  Then what the filter makes of the lines, whatever  *)
(* the pattern file: errors make ccdv fail and are shown, and paths lead to*)
(* the file that was meant.  Last, which file the command line has removed.*)
(***************************************************************************)
EXTENDS Ccdv, SequenceTheorems, NaturalsInduction, WellFoundedInduction, TLAPS

Points == {"fork", "malloc", "slurp", "wait", "verdict", "dump", "report", "drain", "exit", "crashed"}

Typed ==
  /\ pc \in Points
  /\ child \in {"none", "running", "exited", "killed", "reaped"}
  /\ code \in Codes
  /\ heir \in BOOLEAN /\ panicked \in BOOLEAN /\ dumpCmd \in BOOLEAN
  /\ written \in Nat /\ pipe \in Nat
  /\ used \in Nat /\ alloc \in Nat /\ judged \in Int /\ passed \in Nat
  /\ exitStatus \in Int

(* What ccdv has taken from the pipe is in its buffer until it is judged.   *)
Unjudged == pc \in {"slurp", "verdict", "dump"} \/ (pc = "wait" /\ ~panicked)

Taken == IF Unjudged THEN used - ArgsLen ELSE judged + passed

Accounts ==
  /\ written = Taken + pipe
  /\ Unjudged \/ pc \in {"fork", "malloc"} => judged = 0 /\ passed = 0

(* Once the end of file has been seen nobody can write again.               *)
Closed == pipe = 0 /\ child # "running" /\ ~heir

Ended ==
  /\ pc \in {"wait", "verdict", "report"} => Closed
  /\ pc = "dump" /\ ~panicked => Closed
  /\ pc = "exit" /\ child # "none" /\ ~sift.aborted => Closed

(* Outside the panic path the compiler is waited for before it is judged.   *)
Collected ==
  /\ pc \in {"verdict", "report"} => child = "reaped" /\ ~panicked
  /\ pc = "dump" /\ ~panicked => child = "reaped"
  /\ pc = "exit" /\ child # "none" /\ ~sift.aborted => child = "reaped"
  /\ pc = "drain" => panicked
  /\ pc \in {"fork", "malloc", "slurp"} => ~panicked
  /\ pc = "fork" => child = "none"
  /\ child = "none" => pc \in {"fork", "exit"} /\ ~heir

(* The exit code is that of a compiler that has exited.                     *)
Status ==
  /\ child \in {"none", "running", "killed"} => code = 0
  /\ pc \in {"fork", "malloc", "slurp", "wait", "drain"} /\ child = "reaped" => code = 0
  /\ pc = "dump" /\ panicked /\ child = "reaped" => code = 0
  /\ pc = "verdict" => exitStatus = code
  /\ pc = "dump" /\ ~panicked => exitStatus = code /\ (code # 0 => dumpCmd)
  /\ pc = "dump" /\ panicked => dumpCmd
  /\ pc = "report" /\ code # 0 => exitStatus # 0 /\ cmdPrinted
  /\ pc \in {"drain", "wait"} /\ panicked => cmdPrinted
  /\ pc \notin {"exit", "crashed"} => ~sift.aborted

IInv ==
  /\ Typed /\ RoomForNul /\ Accounts /\ Ended /\ Collected /\ Status
  /\ pc = "exit" /\ child = "reaped" /\ code # 0 => exitStatus # 0 /\ cmdPrinted
  /\ pc = "exit" /\ sift.aborted => exitStatus # 0

-----------------------------------------------------------------------------
(* Initially nothing has been started: the invariant holds.                 *)
LEMMA CcdvInit == Init => IInv
<1> SUFFICES ASSUME Init PROVE IInv
  OBVIOUS
<1>1. /\ pc = "fork" /\ child = "none" /\ code = 0 /\ heir = FALSE /\ panicked = FALSE /\ dumpCmd = FALSE
      /\ written = 0 /\ pipe = 0 /\ used = 0 /\ alloc = 0 /\ judged = 0 /\ passed = 0
      /\ exitStatus = 95
  BY DEF Init
<1>2. ~sift.aborted
  BY DEF Init, Unsifted
<1>0. heir \in BOOLEAN /\ panicked \in BOOLEAN /\ dumpCmd \in BOOLEAN
  BY ONLY <1>1, Zenon
<1>3. Typed
  BY <1>0, <1>1 DEF Typed, Points, Codes
<1>4. Status
  BY <1>1, <1>2 DEF Status
<1>5. RoomForNul /\ Accounts /\ Ended /\ Collected
  BY <1>1 DEF RoomForNul, Accounts, Taken, Unjudged, Ended, Collected
<1> QED  BY <1>1, <1>3, <1>4, <1>5 DEF IInv

(* What Dump keeps, whatever the filter makes of the lines.                 *)
LEMMA DumpKeeps ==
  ASSUME IInv, Dump
  PROVE  IInv'
<1> USE DEF IInv, Typed, Points, Codes
<1>1. /\ pc = "dump" /\ judged' = used - ArgsLen
      /\ cmdPrinted' = (dumpCmd \/ job.verbose)
      /\ pc' = IF sift'.aborted THEN "exit" ELSE IF panicked THEN "drain" ELSE "report"
      /\ UNCHANGED <<child, code, heir, pipe, written, used, alloc, dumpCmd, panicked, passed>>
  BY DEF Dump, Judged, procs
<1>2. /\ sift'.aborted => exitStatus' = 1
      /\ ~sift'.aborted => exitStatus' = 90 \/ exitStatus' = exitStatus
  BY DEF Dump, Judged
<1>3. exitStatus' \in Int
  BY <1>2
<1>4. judged' \in Int
  BY <1>1, CcdvConstants
<1>5. Typed'
  BY <1>1, <1>3, <1>4
<1>6. Accounts' /\ Ended' /\ Collected'
  BY <1>1, <1>5 DEF Accounts, Taken, Unjudged, Ended, Closed, Collected
<1>7. code # 0 /\ pc' = "report" => exitStatus' # 0 /\ cmdPrinted'
  BY <1>1, <1>2 DEF Status
<1>8. Status'
  <2>1. ~sift'.aborted \/ pc' = "exit"
    BY <1>1
  <2>2. panicked => cmdPrinted'
    BY <1>1 DEF Status
  <2>3. pc' \in {"exit", "drain", "report"} /\ child' = child /\ code' = code /\ panicked' = panicked
    BY <1>1
  <2>4. pc' = "drain" /\ child = "reaped" => code = 0
    BY <1>1 DEF Status, Collected
  <2> QED  BY <1>7, <2>1, <2>2, <2>3, <2>4 DEF Status
<1>9. /\ pc' = "exit" => exitStatus' = 1
      /\ pc' = "exit" /\ child' = "reaped" /\ code' # 0 => cmdPrinted'
  BY <1>1, <1>2 DEF Status
<1> QED  BY <1>1, <1>5, <1>6, <1>8, <1>9 DEF RoomForNul

(* Every step keeps the invariant.                                          *)
LEMMA CcdvStep == IInv /\ [Next]_vars => IInv'
<1> SUFFICES ASSUME IInv, [Next]_vars PROVE IInv'
  OBVIOUS
<1> USE CcdvConstants
        DEF IInv, Typed, Points, Codes, RoomForNul, Accounts, Taken, Unjudged, Ended, Closed,
            Collected, Status, procs, ours, outcome
<1>1. CASE Write
  BY <1>1 DEF Write
<1>2. CASE Spawn
  BY <1>2 DEF Spawn
<1>3. CASE Finish
  BY <1>3 DEF Finish
<1>4. CASE Killed
  BY <1>4 DEF Killed
<1>5. CASE HeirEnds
  BY <1>5 DEF HeirEnds
<1>6. CASE Fork
  BY <1>6 DEF Fork
<1>7. CASE Malloc
  BY <1>7 DEF Malloc
<1>8. CASE Grow
  BY <1>8 DEF Grow
<1>9. CASE Panic
  BY <1>9 DEF Panic
<1>10. CASE Read
  BY <1>10 DEF Read
<1>11. CASE SlurpEnd
  BY <1>11 DEF SlurpEnd, Full, EndOfFile
<1>12. CASE Wait
  BY <1>12 DEF Wait, Waited
<1>13. CASE Verdict
  BY <1>13 DEF Verdict
<1>14. CASE Report
  BY <1>14 DEF Report
<1>15. CASE Drain
  BY <1>15 DEF Drain, EndOfFile
<1>16. CASE Dump
  BY <1>16, DumpKeeps
<1>17. CASE UNCHANGED vars
  BY <1>17 DEF vars
<1> QED
  BY <1>1, <1>2, <1>3, <1>4, <1>5, <1>6, <1>7, <1>8, <1>9, <1>10, <1>11, <1>12, <1>13, <1>14, <1>15, <1>16, <1>17 DEF Next, Compiler, Driver

(* The invariant holds in every reachable state.                            *)
LEMMA CcdvInvariant == Spec => []IInv
<1> QED  BY CcdvInit, CcdvStep, PTL DEF Spec

(* The NUL that ends the buffer lies inside it, whatever the sizes of the   *)
(* blocks and of the reads, and wherever memory runs out.                   *)
THEOREM NulHasRoom == Spec => []RoomForNul
<1>1. IInv => RoomForNul
  BY DEF IInv
<1> QED  BY <1>1, CcdvInvariant, PTL

(* Whatever the compiler and its descendant write, in whichever portions,   *)
(* before or after the compiler ends, is judged or passed on.               *)
THEOREM NothingLost == Spec => []AllAccounted
<1>1. IInv => AllAccounted
  BY DEF IInv, Typed, Accounts, Taken, Unjudged, Ended, Closed, Collected, AllAccounted
<1> QED  BY <1>1, CcdvInvariant, PTL

(* However the output is judged, and in the panic path too, a compiler that *)
(* fails makes ccdv fail.                                                   *)
THEOREM FailureReachesMake == Spec => []StatusKept
<1>1. IInv => StatusKept
  BY DEF IInv, Typed, Collected, Status, StatusKept
<1> QED  BY <1>1, CcdvInvariant, PTL

-----------------------------------------------------------------------------
(* Folds.  The folds of the model run one step after the other.  They are   *)
(* cases of one fold, Fold, so that what a fold does is proved once.        *)

ImportStep(rows, entry) == IF IsRow(entry) THEN Insert(rows, Row(entry)) ELSE rows

JoinStep(done, c) ==
  CASE c = ".." -> Climb(done)
    [] c = "."  -> done
    [] OTHER    -> [done EXCEPT !.parts = Append(@, c)]

NamedStep(here, c) ==
  CASE c = "." \/ (c = ".." /\ here = <<>>) -> here
    [] c = ".." /\ here # <<>> -> Front(here)
    [] OTHER -> Append(here, c)

SiftStep(j, s, x) == search_warn(s, j, x.type, j.lines[x.n], x.n)

Step(f, j, d, x) ==
  CASE f = "import" -> ImportStep(d, x)
    [] f = "join"   -> JoinStep(d, x)
    [] f = "named"  -> NamedStep(d, x)
    [] f = "header" -> ShowHeader(d, j, x)
    [] f = "sift"   -> SiftStep(j, d, x)
    [] OTHER        -> Scan(d, x)

Fold(f, j, start, q) == Through(LAMBDA d, x : Step(f, j, d, x), start, q)

(* What has been made of every set of items.                                *)
FoldTable(f, j, start, q) ==
  CHOOSE it : it = [s \in SUBSET DOMAIN q |->
    IF s = {} THEN start
    ELSE CHOOSE r \in {Step(f, j, d, y) : d \in {it[s \ {Max(s)}]}, y \in {q[Max(s)]}} : TRUE]

IsTable(f, j, start, q, n, it) ==
  /\ it = [s \in SUBSET (1..n) |-> it[s]]
  /\ it[{}] = start
  /\ \A s \in SUBSET (1..n) : s # {} => it[s] = Step(f, j, it[s \ {Max(s)}], q[Max(s)])

(* Every set of naturals has a least element.                               *)
LEMMA Least ==
  ASSUME NEW T \in SUBSET Nat, T # {}
  PROVE  \E m \in T : \A k \in 0..m-1 : k \notin T
<1>1. PICK m \in T : \A k \in T : ~(<<k, m>> \in OpToRel(<, Nat))
  BY NatLessThanWellFounded, WFMin
<1>2. \A k \in T : ~(k < m)
  BY <1>1 DEF OpToRel
<1>3. \A k \in 0..m-1 : k \notin T
  BY <1>2
<1> QED  BY <1>3

(* The greatest of a set that holds an upper bound of it.                   *)
LEMMA HighestOfPrefix ==
  ASSUME NEW k \in Nat, NEW s \in SUBSET (1..k+1), k+1 \in s
  PROVE  Max(s) = k+1 /\ s \ {k+1} \in SUBSET (1..k) /\ s \ {k+1} \in SUBSET (1..k+1) /\ s # {}
<1>1. \A x \in s : x \in Nat /\ k+1 >= x
  OBVIOUS
<1>2. \A m \in s : (\A x \in s : m >= x) => m = k+1
  BY <1>1
<1>3. Max(s) \in s /\ \A x \in s : Max(s) >= x
  BY <1>1 DEF Max
<1>4. Max(s) = k+1
  BY <1>2, <1>3
<1>5. s \ {k+1} \in SUBSET (1..k)
  OBVIOUS
<1> QED  BY <1>4, <1>5

LEMMA PrefixSets ==
  ASSUME NEW k \in Nat \ {0}
  PROVE  1..k # {} /\ Max(1..k) = k /\ (1..k) \ {k} = 1..k-1
<1>1. k = (k-1)+1 /\ k-1 \in Nat /\ 1..k \in SUBSET (1..(k-1)+1) /\ k \in 1..k
  OBVIOUS
<1>2. Max(1..k) = (k-1)+1
  BY <1>1, HighestOfPrefix
<1> QED  BY <1>1, <1>2

(* A table of k items is extended by one.                                   *)
LEMMA TableGrows ==
  ASSUME NEW f, NEW j, NEW start, NEW q, NEW k \in Nat, NEW it, IsTable(f, j, start, q, k, it)
  PROVE  \E jt : IsTable(f, j, start, q, k+1, jt)
<1> DEFINE jt == [s \in SUBSET (1..k+1) |-> IF k+1 \in s THEN Step(f, j, it[s \ {k+1}], q[k+1]) ELSE it[s]]
<1>1. \A s \in SUBSET (1..k+1) : s \ {Max(s)} \in SUBSET (1..k+1)
  OBVIOUS
<1>2. {} \in SUBSET (1..k+1) /\ jt[{}] = it[{}] /\ it[{}] = start
  BY DEF IsTable
<1>3. ASSUME NEW s \in SUBSET (1..k+1), s # {}
      PROVE  jt[s] = Step(f, j, jt[s \ {Max(s)}], q[Max(s)])
  <2>1. CASE k+1 \in s
    <3>1. Max(s) = k+1 /\ s \ {k+1} \in SUBSET (1..k) /\ s \ {k+1} \in SUBSET (1..k+1)
      BY <2>1, HighestOfPrefix
    <3>2. jt[s] = Step(f, j, it[s \ {k+1}], q[k+1])  /\ jt[s \ {k+1}] = it[s \ {k+1}]
      BY <2>1, <3>1
    <3> QED  BY <3>1, <3>2
  <2>2. CASE k+1 \notin s
    <3>1. s \in SUBSET (1..k)
      BY <2>2
    <3>2. jt[s] = it[s] /\ jt[s \ {Max(s)}] = it[s \ {Max(s)}]
      BY <1>1, <2>2
    <3>3. it[s] = Step(f, j, it[s \ {Max(s)}], q[Max(s)])
      BY <1>3, <3>1 DEF IsTable
    <3> QED  BY <3>2, <3>3
  <2> QED  BY <2>1, <2>2
<1>4. jt = [s \in SUBSET (1..k+1) |-> jt[s]]
  OBVIOUS
<1> HIDE DEF jt
<1>5. IsTable(f, j, start, q, k+1, jt)
  BY <1>2, <1>3, <1>4 DEF IsTable
<1> QED  BY <1>5

(* So there is a table of any number of items: a least number without one   *)
(* would follow one with one.                                               *)
LEMMA TableExists ==
  ASSUME NEW f, NEW j, NEW start, NEW q, NEW n \in Nat
  PROVE  \E it : IsTable(f, j, start, q, n, it)
<1> DEFINE none == {k \in Nat : ~\E it : IsTable(f, j, start, q, k, it)}
<1>1. 0 \notin none
  <2> DEFINE it == [s \in SUBSET (1..0) |-> start]
  <2>1. SUBSET (1..0) = {{}}
    OBVIOUS
  <2>2. IsTable(f, j, start, q, 0, it)
    BY <2>1 DEF IsTable
  <2> QED  BY <2>2
<1>2. ASSUME none # {} PROVE FALSE
  <2>1. PICK m \in none : \A k \in 0..m-1 : k \notin none
    BY <1>2, Least
  <2>2. m \in Nat \ {0} /\ m-1 \in Nat /\ m-1 \notin none
    BY <1>1, <2>1
  <2>3. PICK it : IsTable(f, j, start, q, m-1, it)
    BY <2>2
  <2>4. \E jt : IsTable(f, j, start, q, (m-1)+1, jt)
    BY <2>2, <2>3, TableGrows
  <2>5. (m-1)+1 = m
    BY <2>2
  <2> QED  BY <2>1, <2>4, <2>5
<1> QED  BY <1>2

LEMMA FoldTableIs ==
  ASSUME NEW f, NEW j, NEW start, NEW q, NEW n \in Nat, DOMAIN q = 1..n
  PROVE  IsTable(f, j, start, q, n, FoldTable(f, j, start, q))
<1> DEFINE It == FoldTable(f, j, start, q)
           Made(it, s) == IF s = {} THEN start
              ELSE CHOOSE r \in {Step(f, j, d, y) : d \in {it[s \ {Max(s)}]}, y \in {q[Max(s)]}} : TRUE
           Good(it) == it = [s \in SUBSET (1..n) |-> Made(it, s)]
<1>1. \A d, x : (CHOOSE r \in {Step(f, j, e, y) : e \in {d}, y \in {x}} : TRUE) = Step(f, j, d, x)
  OBVIOUS
<1>2. PICK jt : IsTable(f, j, start, q, n, jt)
  BY TableExists
<1>3. \A it, s : Made(it, s) = IF s = {} THEN start ELSE Step(f, j, it[s \ {Max(s)}], q[Max(s)])
  BY <1>1
<1>4. It = CHOOSE it : Good(it)
  BY DEF FoldTable
<1> HIDE DEF It, Made
<1>5. Good(jt)
  <2>1. \A s \in SUBSET (1..n) : jt[s] = Made(jt, s)
    BY <1>2, <1>3 DEF IsTable
  <2>2. jt = [s \in SUBSET (1..n) |-> jt[s]]
    BY <1>2 DEF IsTable
  <2> QED  BY <2>1, <2>2
<1> HIDE DEF Good
<1>6. Good(It)
  BY <1>4, <1>5
<1>7. \A s \in SUBSET (1..n) : It[s] = Made(It, s)
  BY <1>6 DEF Good
<1>8. It = [s \in SUBSET (1..n) |-> It[s]]
  BY <1>6, <1>7 DEF Good
<1>9. {} \in SUBSET (1..n)
  OBVIOUS
<1>10. IsTable(f, j, start, q, n, It)
  BY <1>3, <1>7, <1>8, <1>9 DEF IsTable
<1> QED  BY <1>10 DEF It

LEMMA FoldIsTable ==
  ASSUME NEW f, NEW j, NEW start, NEW q
  PROVE  Fold(f, j, start, q) = FoldTable(f, j, start, q)[DOMAIN q]
BY DEF Fold, FoldTable, Through, FoldLeft, MapThenFoldSet

(* The table's entry for the first k items follows from that for k-1.       *)
LEMMA TableStarts ==
  ASSUME NEW f, NEW j, NEW start, NEW q, NEW n \in Nat, NEW it, IsTable(f, j, start, q, n, it)
  PROVE  it[1..0] = start
<1>1. 1..0 = {}
  OBVIOUS
<1> QED  BY <1>1 DEF IsTable

LEMMA TableSteps ==
  ASSUME NEW f, NEW j, NEW start, NEW q, NEW n \in Nat, NEW it, IsTable(f, j, start, q, n, it),
         NEW k \in 1..n
  PROVE  it[1..k] = Step(f, j, it[1..k-1], q[k])
<1>1. k \in Nat \ {0} /\ 1..k \in SUBSET (1..n)
  OBVIOUS
<1>2. 1..k # {} /\ Max(1..k) = k /\ (1..k) \ {k} = 1..k-1
  BY <1>1, PrefixSets
<1>3. it[1..k] = Step(f, j, it[(1..k) \ {Max(1..k)}], q[Max(1..k)])
  BY <1>1, <1>2 DEF IsTable
<1> QED  BY <1>2, <1>3

(* A fold of nothing is its start.                                          *)
LEMMA FoldEmpty ==
  ASSUME NEW f, NEW j, NEW start
  PROVE  Fold(f, j, start, <<>>) = start
<1>1. DOMAIN <<>> = 1..0
  OBVIOUS
<1>2. IsTable(f, j, start, <<>>, 0, FoldTable(f, j, start, <<>>))
  BY <1>1, FoldTableIs
<1>3. FoldTable(f, j, start, <<>>)[1..0] = start
  <2>1. 0 \in Nat
    OBVIOUS
  <2> QED  BY <1>2, <2>1, TableStarts
<1> QED  BY <1>1, <1>3, FoldIsTable

(* A fold of one item more takes one step more.                             *)
LEMMA FoldAppend ==
  ASSUME NEW f, NEW j, NEW start, NEW S, NEW q \in Seq(S), NEW x \in S
  PROVE  Fold(f, j, start, Append(q, x)) = Step(f, j, Fold(f, j, start, q), x)
<1> DEFINE n == Len(q)
           p == Append(q, x)
           one == FoldTable(f, j, start, q)
           two == FoldTable(f, j, start, p)
           Differ == {k \in Nat : k <= n /\ one[1..k] # two[1..k]}
<1>1. /\ n \in Nat /\ DOMAIN q = 1..n /\ DOMAIN p = 1..n+1
      /\ p[n+1] = x /\ \A k \in 1..n : p[k] = q[k]
  OBVIOUS
<1> HIDE DEF n, p
<1>2. IsTable(f, j, start, q, n, one) /\ IsTable(f, j, start, p, n+1, two)
  BY <1>1, FoldTableIs
<1> HIDE DEF one, two
<1>3. one[1..0] = start /\ \A k \in 1..n : one[1..k] = Step(f, j, one[1..k-1], q[k])
  BY <1>1, <1>2, TableStarts, TableSteps
<1>4. two[1..0] = start /\ \A k \in 1..n+1 : two[1..k] = Step(f, j, two[1..k-1], p[k])
  <2>1. n+1 \in Nat
    BY <1>1
  <2> QED  BY <1>2, <2>1, TableStarts, TableSteps
<1>5. ASSUME Differ # {} PROVE FALSE
  <2>1. PICK k \in Differ : \A i \in 0..k-1 : i \notin Differ
    BY <1>5, Least
  <2>2. k \in 1..n /\ k-1 \in 0..k-1 /\ k-1 \in Nat
    BY <1>1, <1>3, <1>4, <2>1
  <2>3. one[1..k-1] = two[1..k-1]
    BY <1>1, <2>1, <2>2
  <2>4. one[1..k] = two[1..k]
    BY <1>1, <1>3, <1>4, <2>2, <2>3
  <2> QED  BY <2>1, <2>4
<1>6. one[1..n] = two[1..n]
  BY <1>1, <1>5
<1>7. two[1..n+1] = Step(f, j, two[1..n], x)
  BY <1>1, <1>4
<1> QED  BY <1>1, <1>6, <1>7, FoldIsTable DEF one, two, p

(* What every step keeps, for the items before it, holds after the last.    *)
LEMMA FoldKeeps ==
  ASSUME NEW f, NEW j, NEW start, NEW S, NEW q \in Seq(S), NEW I, start \in I[0],
         \A k \in 1..Len(q) : \A d \in I[k-1] : Step(f, j, d, q[k]) \in I[k]
  PROVE  Fold(f, j, start, q) \in I[Len(q)]
<1> DEFINE n == Len(q)
           it == FoldTable(f, j, start, q)
           Bad == {k \in Nat : k <= n /\ it[1..k] \notin I[k]}
<1>1. n \in Nat /\ DOMAIN q = 1..n
  OBVIOUS
<1>2. \A k \in 1..n : \A d \in I[k-1] : Step(f, j, d, q[k]) \in I[k]
  OBVIOUS
<1> HIDE DEF n
<1>3. IsTable(f, j, start, q, n, it)
  BY <1>1, FoldTableIs
<1> HIDE DEF it
<1>4. it[1..0] = start /\ \A k \in 1..n : it[1..k] = Step(f, j, it[1..k-1], q[k])
  BY <1>1, <1>3, TableStarts, TableSteps
<1>5. ASSUME Bad # {} PROVE FALSE
  <2>1. PICK k \in Bad : \A i \in 0..k-1 : i \notin Bad
    BY <1>5, Least
  <2>2. k \in 1..n /\ k-1 \in 0..k-1 /\ k-1 \in Nat
    BY <1>1, <1>4, <2>1
  <2>3. it[1..k-1] \in I[k-1]
    BY <1>1, <2>1, <2>2
  <2> QED  BY <1>2, <1>4, <2>1, <2>2, <2>3
<1> QED  BY <1>1, <1>5, FoldIsTable DEF it, n

(* Named is a fold of the components. *)
LEMMA NamedIsFold ==
  ASSUME NEW dir, NEW path
  PROVE  Named(dir, path) = Fold("named", 0, IF path.abs THEN <<>> ELSE dir, path.parts)
<1> DEFINE start == IF path.abs THEN <<>> ELSE dir
           q == path.parts
           Mine(it, s) == IF s = {} THEN start
              ELSE CHOOSE r \in {NamedStep(d, y) : d \in {it[s \ {Max(s)}]}, y \in {q[Max(s)]}} : TRUE
           Made(it, s) == IF s = {} THEN start
              ELSE CHOOSE r \in {Step("named", 0, d, y) : d \in {it[s \ {Max(s)}]}, y \in {q[Max(s)]}} : TRUE
           One == CHOOSE it : it = [s \in SUBSET DOMAIN q |-> Mine(it, s)]
           Two == CHOOSE it : it = [s \in SUBSET DOMAIN q |-> Made(it, s)]
<1>1. \A d, x : Step("named", 0, d, x) = NamedStep(d, x)
  BY DEF Step
<1>2. Named(dir, path) = One[DOMAIN q]
  BY DEF Named, NamedStep, Through, FoldLeft, MapThenFoldSet
<1> HIDE DEF Step, NamedStep, start, q
<1>3. Two[DOMAIN q] = Fold("named", 0, start, q)
  <2>1. Two = FoldTable("named", 0, start, q)
    BY DEF FoldTable
  <2> HIDE DEF Two
  <2> QED  BY <2>1, FoldIsTable
<1>4. \A it, s : Mine(it, s) = Made(it, s)
  <2>1. \A d, x : (CHOOSE r \in {NamedStep(e, y) : e \in {d}, y \in {x}} : TRUE) = NamedStep(d, x)
    OBVIOUS
  <2>2. \A d, x : (CHOOSE r \in {Step("named", 0, e, y) : e \in {d}, y \in {x}} : TRUE) = Step("named", 0, d, x)
    OBVIOUS
  <2> QED  BY <1>1, <2>1, <2>2
<1> HIDE DEF Mine, Made
<1>5. One = Two
  BY <1>4
<1> QED  BY <1>2, <1>3, <1>5 DEF start, q

(* Join is one. *)
LEMMA JoinIsFold ==
  ASSUME NEW prefix, NEW parts
  PROVE  Join(prefix, parts) = Fold("join", 0, prefix, parts)
<1> DEFINE start == prefix
           q == parts
           Mine(it, s) == IF s = {} THEN start
              ELSE CHOOSE r \in {JoinStep(d, y) : d \in {it[s \ {Max(s)}]}, y \in {q[Max(s)]}} : TRUE
           Made(it, s) == IF s = {} THEN start
              ELSE CHOOSE r \in {Step("join", 0, d, y) : d \in {it[s \ {Max(s)}]}, y \in {q[Max(s)]}} : TRUE
           One == CHOOSE it : it = [s \in SUBSET DOMAIN q |-> Mine(it, s)]
           Two == CHOOSE it : it = [s \in SUBSET DOMAIN q |-> Made(it, s)]
<1>1. \A d, x : Step("join", 0, d, x) = JoinStep(d, x)
  BY DEF Step
<1>2. Join(prefix, parts) = One[DOMAIN q]
  BY DEF Join, JoinStep, Through, FoldLeft, MapThenFoldSet
<1> HIDE DEF Step, JoinStep, start, q
<1>3. Two[DOMAIN q] = Fold("join", 0, start, q)
  <2>1. Two = FoldTable("join", 0, start, q)
    BY DEF FoldTable
  <2> HIDE DEF Two
  <2> QED  BY <2>1, FoldIsTable
<1>4. \A it, s : Mine(it, s) = Made(it, s)
  <2>1. \A d, x : (CHOOSE r \in {JoinStep(e, y) : e \in {d}, y \in {x}} : TRUE) = JoinStep(d, x)
    OBVIOUS
  <2>2. \A d, x : (CHOOSE r \in {Step("join", 0, e, y) : e \in {d}, y \in {x}} : TRUE) = Step("join", 0, d, x)
    OBVIOUS
  <2> QED  BY <1>1, <2>1, <2>2
<1> HIDE DEF Mine, Made
<1>5. One = Two
  BY <1>4
<1> QED  BY <1>2, <1>3, <1>5 DEF start, q

(* Import is one of the rows that are read. *)
LEMMA ImportIsFold ==
  ASSUME NEW file, NEW read, read = IF file.ends \/ file.entries = <<>> THEN file.entries ELSE Front(file.entries)
  PROVE  Import(file) = Fold("import", 0, warn_fmts, read)
<1> DEFINE start == warn_fmts
           q == read
           Mine(it, s) == IF s = {} THEN start
              ELSE CHOOSE r \in {ImportStep(d, y) : d \in {it[s \ {Max(s)}]}, y \in {q[Max(s)]}} : TRUE
           Made(it, s) == IF s = {} THEN start
              ELSE CHOOSE r \in {Step("import", 0, d, y) : d \in {it[s \ {Max(s)}]}, y \in {q[Max(s)]}} : TRUE
           One == CHOOSE it : it = [s \in SUBSET DOMAIN q |-> Mine(it, s)]
           Two == CHOOSE it : it = [s \in SUBSET DOMAIN q |-> Made(it, s)]
<1>1. \A d, x : Step("import", 0, d, x) = ImportStep(d, x)
  BY DEF Step
<1>2. Import(file) = One[DOMAIN q]
  BY DEF Import, ImportStep, Through, FoldLeft, MapThenFoldSet
<1> HIDE DEF Step, ImportStep, start, q
<1>3. Two[DOMAIN q] = Fold("import", 0, start, q)
  <2>1. Two = FoldTable("import", 0, start, q)
    BY DEF FoldTable
  <2> HIDE DEF Two
  <2> QED  BY <2>1, FoldIsTable
<1>4. \A it, s : Mine(it, s) = Made(it, s)
  <2>1. \A d, x : (CHOOSE r \in {ImportStep(e, y) : e \in {d}, y \in {x}} : TRUE) = ImportStep(d, x)
    OBVIOUS
  <2>2. \A d, x : (CHOOSE r \in {Step("import", 0, e, y) : e \in {d}, y \in {x}} : TRUE) = Step("import", 0, d, x)
    OBVIOUS
  <2> QED  BY <1>1, <2>1, <2>2
<1> HIDE DEF Mine, Made
<1>5. One = Two
  BY <1>4
<1> QED  BY <1>2, <1>3, <1>5 DEF start, q

(* main scans the command line in one. *)
LEMMA ScannedIsFold ==
  ASSUME NEW args
  PROVE  Through(Scan, Options, args) = Fold("scan", 0, Options, args)
<1> DEFINE start == Options
           q == args
           Mine(it, s) == IF s = {} THEN start
              ELSE CHOOSE r \in {Scan(d, y) : d \in {it[s \ {Max(s)}]}, y \in {q[Max(s)]}} : TRUE
           Made(it, s) == IF s = {} THEN start
              ELSE CHOOSE r \in {Step("scan", 0, d, y) : d \in {it[s \ {Max(s)}]}, y \in {q[Max(s)]}} : TRUE
           One == CHOOSE it : it = [s \in SUBSET DOMAIN q |-> Mine(it, s)]
           Two == CHOOSE it : it = [s \in SUBSET DOMAIN q |-> Made(it, s)]
<1>1. \A d, x : Step("scan", 0, d, x) = Scan(d, x)
  BY DEF Step
<1>2. Through(Scan, Options, args) = One[DOMAIN q]
  BY DEF Scan, Through, FoldLeft, MapThenFoldSet
<1> HIDE DEF Step, Scan, start, q
<1>3. Two[DOMAIN q] = Fold("scan", 0, start, q)
  <2>1. Two = FoldTable("scan", 0, start, q)
    BY DEF FoldTable
  <2> HIDE DEF Two
  <2> QED  BY <2>1, FoldIsTable
<1>4. \A it, s : Mine(it, s) = Made(it, s)
  <2>1. \A d, x : (CHOOSE r \in {Scan(e, y) : e \in {d}, y \in {x}} : TRUE) = Scan(d, x)
    OBVIOUS
  <2>2. \A d, x : (CHOOSE r \in {Step("scan", 0, e, y) : e \in {d}, y \in {x}} : TRUE) = Step("scan", 0, d, x)
    OBVIOUS
  <2> QED  BY <1>1, <2>1, <2>2
<1> HIDE DEF Mine, Made
<1>5. One = Two
  BY <1>4
<1> QED  BY <1>2, <1>3, <1>5 DEF start, q

(* siftWarnMain is one of the lines and their types. *)
LEMMA SiftIsFold ==
  ASSUME NEW j, NEW rows, NEW count
  PROVE  siftWarnMain(j, rows, count) = Fold("sift", j, Unsifted, [n \in 1..count |-> [n |-> n, type |-> TypeOf(rows, j.lines[n].text)]])
<1> DEFINE start == Unsifted
           q == [n \in 1..count |-> [n |-> n, type |-> TypeOf(rows, j.lines[n].text)]]
           Mine(it, s) == IF s = {} THEN start
              ELSE CHOOSE r \in {SiftStep(j, d, y) : d \in {it[s \ {Max(s)}]}, y \in {q[Max(s)]}} : TRUE
           Made(it, s) == IF s = {} THEN start
              ELSE CHOOSE r \in {Step("sift", j, d, y) : d \in {it[s \ {Max(s)}]}, y \in {q[Max(s)]}} : TRUE
           One == CHOOSE it : it = [s \in SUBSET DOMAIN q |-> Mine(it, s)]
           Two == CHOOSE it : it = [s \in SUBSET DOMAIN q |-> Made(it, s)]
<1>1. \A d, x : Step("sift", j, d, x) = SiftStep(j, d, x)
  BY DEF Step
<1>2. siftWarnMain(j, rows, count) = One[DOMAIN q]
  BY DEF siftWarnMain, SiftStep, Through, FoldLeft, MapThenFoldSet
<1> HIDE DEF Step, SiftStep, start, q
<1>3. Two[DOMAIN q] = Fold("sift", j, start, q)
  <2>1. Two = FoldTable("sift", j, start, q)
    BY DEF FoldTable
  <2> HIDE DEF Two
  <2> QED  BY <2>1, FoldIsTable
<1>4. \A it, s : Mine(it, s) = Made(it, s)
  <2>1. \A d, x : (CHOOSE r \in {SiftStep(j, e, y) : e \in {d}, y \in {x}} : TRUE) = SiftStep(j, d, x)
    OBVIOUS
  <2>2. \A d, x : (CHOOSE r \in {Step("sift", j, e, y) : e \in {d}, y \in {x}} : TRUE) = Step("sift", j, d, x)
    OBVIOUS
  <2> QED  BY <1>1, <2>1, <2>2
<1> HIDE DEF Mine, Made
<1>5. One = Two
  BY <1>4
<1> QED  BY <1>2, <1>3, <1>5 DEF start, q

(* So is the inclusion tree. *)
LEMMA TreeIsFold ==
  ASSUME NEW j, NEW told, NEW headers
  PROVE  Through(LAMBDA s, h : ShowHeader(s, j, h), told, headers) = Fold("header", j, told, headers)
<1> DEFINE start == told
           q == headers
           Mine(it, s) == IF s = {} THEN start
              ELSE CHOOSE r \in {ShowHeader(d, j, y) : d \in {it[s \ {Max(s)}]}, y \in {q[Max(s)]}} : TRUE
           Made(it, s) == IF s = {} THEN start
              ELSE CHOOSE r \in {Step("header", j, d, y) : d \in {it[s \ {Max(s)}]}, y \in {q[Max(s)]}} : TRUE
           One == CHOOSE it : it = [s \in SUBSET DOMAIN q |-> Mine(it, s)]
           Two == CHOOSE it : it = [s \in SUBSET DOMAIN q |-> Made(it, s)]
<1>1. \A d, x : Step("header", j, d, x) = ShowHeader(d, j, x)
  BY DEF Step
<1>2. Through(LAMBDA s, h : ShowHeader(s, j, h), told, headers) = One[DOMAIN q]
  BY DEF Through, FoldLeft, MapThenFoldSet
<1> HIDE DEF Step, ShowHeader, start, q
<1>3. Two[DOMAIN q] = Fold("header", j, start, q)
  <2>1. Two = FoldTable("header", j, start, q)
    BY DEF FoldTable
  <2> HIDE DEF Two
  <2> QED  BY <2>1, FoldIsTable
<1>4. \A it, s : Mine(it, s) = Made(it, s)
  <2>1. \A d, x : (CHOOSE r \in {ShowHeader(e, j, y) : e \in {d}, y \in {x}} : TRUE) = ShowHeader(d, j, x)
    OBVIOUS
  <2>2. \A d, x : (CHOOSE r \in {Step("header", j, e, y) : e \in {d}, y \in {x}} : TRUE) = Step("header", j, d, x)
    OBVIOUS
  <2> QED  BY <1>1, <2>1, <2>2
<1> HIDE DEF Mine, Made
<1>5. One = Two
  BY <1>4
<1> QED  BY <1>2, <1>3, <1>5 DEF start, q

-----------------------------------------------------------------------------
(* Paths.                                                                   *)

(* A sequence that is not empty is its front and its last item.             *)
LEMMA FrontAndLast ==
  ASSUME NEW S, NEW q \in Seq(S), q # <<>>
  PROVE  /\ Front(q) \in Seq(S) /\ Last(q) \in S
         /\ Len(Front(q)) = Len(q) - 1
         /\ q = Append(Front(q), Last(q))
<1>1. Len(q) \in Nat \ {0} /\ Last(q) = q[Len(q)]
  BY EmptySeq DEF Last
<1>2. \A i \in 1..Len(q) : q[i] \in S
  BY ElementOfSeq
<1>3. Last(q) \in S
  BY <1>1, <1>2
<1> DEFINE b == Front(q)
<1>4. /\ SubSeq(q, 1, Len(q)-1) \in Seq(S)
      /\ Len(SubSeq(q, 1, Len(q)-1)) = IF 1 <= Len(q)-1 THEN Len(q)-1-1+1 ELSE 0
      /\ \A i \in 1..Len(q)-1-1+1 : SubSeq(q, 1, Len(q)-1)[i] = q[1+i-1]
  <2>1. 1 \in Int /\ Len(q)-1 \in Int /\ \A i \in 1..Len(q)-1 : q[i] \in S
    BY <1>1, <1>2
  <2> QED  BY <2>1, SubSeqProperties
<1>5. /\ b \in Seq(S)
      /\ Len(b) = IF 1 <= Len(q)-1 THEN Len(q)-1-1+1 ELSE 0
      /\ \A i \in 1..Len(q)-1-1+1 : b[i] = q[1+i-1]
  BY <1>4, Zenon DEF Front
<1> HIDE DEF b
<1>6. Len(b) = Len(q) - 1 /\ \A i \in 1..Len(q)-1 : b[i] = q[i]
  <2>1. Len(b) = Len(q) - 1
    <3>1. \A n \in Nat \ {0} : n - 1 = IF 1 <= n-1 THEN n-1-1+1 ELSE 0
      OBVIOUS
    <3> QED  BY <1>1, <1>5, <3>1, Zenon
  <2>2. \A i \in 1..Len(q)-1 : i \in 1..Len(q)-1-1+1 /\ 1+i-1 = i
    BY <1>1
  <2>3. \A i \in 1..Len(q)-1 : b[i] = q[i]
    BY <1>5, <2>2
  <2> QED  BY <2>1, <2>3
<1>7. /\ Append(b, Last(q)) \in Seq(S) /\ Len(Append(b, Last(q))) = Len(q)
      /\ \A i \in 1..Len(q) : Append(b, Last(q))[i] = q[i]
  BY <1>1, <1>3, <1>5, <1>6, AppendProperties
<1>8. q = Append(b, Last(q))
  BY <1>7, SeqEqual
<1> QED  BY <1>3, <1>5, <1>6, <1>8 DEF b

LEMMA FrontOfAppend ==
  ASSUME NEW S, NEW q \in Seq(S), NEW x \in S
  PROVE  Front(Append(q, x)) = q /\ Last(Append(q, x)) = x /\ Append(q, x) # <<>>
<1> DEFINE p == Append(q, x)
<1>1. /\ p \in Seq(S) /\ p # <<>> /\ Len(p) = Len(q) + 1 /\ Len(q) \in Nat
      /\ p[Len(q)+1] = x /\ \A i \in 1..Len(q) : p[i] = q[i]
  BY AppendProperties
<1> HIDE DEF p
<1>2. Last(p) = x
  BY <1>1 DEF Last
<1>3. /\ Front(p) \in Seq(S) /\ Len(Front(p)) = Len(q) /\ p = Append(Front(p), Last(p))
  BY <1>1, FrontAndLast
<1>4. \A i \in 1..Len(Front(p)) : Append(Front(p), x)[i] = Front(p)[i]
  BY <1>3, AppendProperties
<1>5. Front(p) = q
  BY <1>1, <1>2, <1>3, <1>4, SeqEqual
<1> QED  BY <1>1, <1>2, <1>5 DEF p

LEMMA CatOfAppend ==
  ASSUME NEW S, NEW p \in Seq(S), NEW q \in Seq(S), NEW x \in S
  PROVE  p \o q \in Seq(S) /\ p \o Append(q, x) = Append(p \o q, x)
<1>1. Append(q, x) = q \o <<x>> /\ Append(p \o q, x) = (p \o q) \o <<x>> /\ <<x>> \in Seq(S) /\ p \o q \in Seq(S)
  BY AppendIsConcat, ConcatProperties
<1> QED  BY <1>1, ConcatAssociative

(* What a set of sequences over S has, if it has the empty one and, with a  *)
(* sequence, every one that is one longer, all of them have.                *)
LEMMA ByAppend ==
  ASSUME NEW S, NEW Good, <<>> \in Good,
         \A q \in Seq(S) : \A x \in S : q \in Good => Append(q, x) \in Good
  PROVE  \A q \in Seq(S) : q \in Good
<1> DEFINE Bad == {k \in Nat : \E q \in Seq(S) : Len(q) = k /\ q \notin Good}
<1>1. ASSUME Bad # {} PROVE FALSE
  <2>1. PICK k \in Bad : \A i \in 0..k-1 : i \notin Bad
    BY <1>1, Least
  <2>2. PICK q \in Seq(S) : Len(q) = k /\ q \notin Good
    BY <2>1
  <2>3. q # <<>>
    BY <2>2
  <2>4. k \in Nat \ {0} /\ k-1 \in 0..k-1
    BY <2>1, <2>2, <2>3, EmptySeq
  <2>5. Front(q) \in Seq(S) /\ Last(q) \in S /\ Len(Front(q)) = k-1 /\ q = Append(Front(q), Last(q))
    BY <2>2, <2>3, FrontAndLast
  <2>6. Front(q) \in Good
    BY <2>1, <2>4, <2>5
  <2>7. Append(Front(q), Last(q)) \in Good
    BY <2>5, <2>6
  <2> QED  BY <2>2, <2>5, <2>7
<1>2. \A q \in Seq(S) : Len(q) \in Nat
  OBVIOUS
<1> QED  BY <1>1, <1>2

(* Where a walk along components leads.                                     *)
Walk(dir, parts) == Fold("named", 0, dir, parts)

LEMMA WalkEmpty ==
  ASSUME NEW dir
  PROVE  Walk(dir, <<>>) = dir
BY FoldEmpty DEF Walk

LEMMA WalkAppend ==
  ASSUME NEW dir, NEW S, NEW q \in Seq(S), NEW x \in S
  PROVE  Walk(dir, Append(q, x)) = NamedStep(Walk(dir, q), x)
<1>1. Walk(dir, Append(q, x)) = Step("named", 0, Walk(dir, q), x)
  BY FoldAppend DEF Walk
<1> QED  BY <1>1 DEF Step

LEMMA WalkType ==
  ASSUME NEW S, NEW dir \in Seq(S)
  PROVE  \A q \in Seq(S) : Walk(dir, q) \in Seq(S)
<1> DEFINE Good == {q \in Seq(S) : Walk(dir, q) \in Seq(S)}
<1>1. <<>> \in Good
  BY WalkEmpty
<1>2. ASSUME NEW q \in Seq(S), NEW x \in S, q \in Good
      PROVE  Append(q, x) \in Good
  <2>1. Walk(dir, q) \in Seq(S)
    BY <1>2
  <2>2. Append(Walk(dir, q), x) \in Seq(S) /\ Append(q, x) \in Seq(S)
    BY <2>1, AppendProperties
  <2>3. Walk(dir, q) # <<>> => Front(Walk(dir, q)) \in Seq(S)
    BY <2>1, FrontAndLast
  <2>4. NamedStep(Walk(dir, q), x) \in Seq(S)
    BY <2>1, <2>2, <2>3 DEF NamedStep
  <2>5. Walk(dir, Append(q, x)) \in Seq(S)
    BY <2>4, WalkAppend
  <2> QED  BY <2>2, <2>5
<1> HIDE DEF Good
<1>3. \A q \in Seq(S) : q \in Good
  BY <1>1, <1>2, ByAppend
<1> QED  BY <1>3 DEF Good

(* A walk along two paths, one behind the other.                            *)
LEMMA WalkCat ==
  ASSUME NEW dir, NEW S, NEW p \in Seq(S)
  PROVE  \A q \in Seq(S) : Walk(dir, p \o q) = Walk(Walk(dir, p), q)
<1> DEFINE Good == {q \in Seq(S) : Walk(dir, p \o q) = Walk(Walk(dir, p), q)}
<1>1. <<>> \in Good
  <2>1. p \o <<>> = p /\ <<>> \in Seq(S)
    BY ConcatEmptySeq
  <2> QED  BY <2>1, WalkEmpty
<1>2. ASSUME NEW q \in Seq(S), NEW x \in S, q \in Good
      PROVE  Append(q, x) \in Good
  <2>1. p \o Append(q, x) = Append(p \o q, x) /\ p \o q \in Seq(S) /\ Append(q, x) \in Seq(S)
    BY CatOfAppend, AppendProperties
  <2>2. Walk(dir, p \o Append(q, x)) = NamedStep(Walk(dir, p \o q), x)
    <3>1. \A r \in Seq(S) : Walk(dir, Append(r, x)) = NamedStep(Walk(dir, r), x)
      BY WalkAppend
    <3> QED  BY <2>1, <3>1
  <2>3. Walk(Walk(dir, p), Append(q, x)) = NamedStep(Walk(Walk(dir, p), q), x)
    BY WalkAppend
  <2>4. Walk(dir, p \o q) = Walk(Walk(dir, p), q)
    BY <1>2
  <2> QED  BY <2>1, <2>2, <2>3, <2>4
<1> HIDE DEF Good
<1>3. \A q \in Seq(S) : q \in Good
  BY <1>1, <1>2, ByAppend
<1> QED  BY <1>3 DEF Good

(* A walk along names goes down.                                            *)
LEMMA WalkDown ==
  ASSUME NEW S, NEW dir \in Seq(S), NEW D, D \subseteq S, "." \notin D, ".." \notin D
  PROVE  \A q \in Seq(D) : Walk(dir, q) = dir \o q
<1> DEFINE Good == {q \in Seq(D) : Walk(dir, q) = dir \o q}
<1>1. <<>> \in Good
  <2>1. dir \o <<>> = dir /\ <<>> \in Seq(D)
    BY ConcatEmptySeq
  <2> QED  BY <2>1, WalkEmpty
<1>2. ASSUME NEW q \in Seq(D), NEW x \in D, q \in Good
      PROVE  Append(q, x) \in Good
  <2>1. q \in Seq(S) /\ x \in S /\ x # "." /\ x # ".." /\ Append(q, x) \in Seq(D)
    BY SeqMonotonic, AppendProperties
  <2>2. Walk(dir, q) = dir \o q
    BY <1>2
  <2>3. Walk(dir, Append(q, x)) = NamedStep(dir \o q, x)
    <3>1. Walk(dir, Append(q, x)) = NamedStep(Walk(dir, q), x)
      BY WalkAppend
    <3> QED  BY <2>2, <3>1
  <2>4. NamedStep(dir \o q, x) = Append(dir \o q, x)
    BY <2>1 DEF NamedStep
  <2>5. Append(dir \o q, x) = dir \o Append(q, x)
    <3>1. dir \o Append(q, x) = Append(dir \o q, x)
      BY <2>1, CatOfAppend
    <3> QED  BY <3>1
  <2> QED  BY <2>1, <2>3, <2>4, <2>5
<1> HIDE DEF Good
<1>3. \A q \in Seq(D) : q \in Good
  BY <1>1, <1>2, ByAppend
<1> QED  BY <1>3 DEF Good

(* What a join keeps.                                                       *)
Joints(abs, T) == [abs : abs, parts : Seq(T), dotted : {FALSE}]
With(path, parts) == [path EXCEPT !.parts = parts]
Unrooted(path) == [path EXCEPT !.abs = FALSE]

LEMMA JoinGrows ==
  ASSUME NEW prefix, NEW S, NEW q \in Seq(S), NEW x \in S
  PROVE  /\ Join(prefix, <<>>) = prefix
         /\ Join(prefix, Append(q, x)) = JoinStep(Join(prefix, q), x)
<1>1. Join(prefix, Append(q, x)) = Step("join", 0, Join(prefix, q), x)
  BY JoinIsFold, FoldAppend
<1>2. Join(prefix, <<>>) = prefix
  BY JoinIsFold, FoldEmpty
<1> QED  BY <1>1, <1>2 DEF Step

(* One component: it is removed, loses the root, climbs, or goes down.      *)
Rooted(path) == path.parts = <<>> /\ path.abs
Topped(path) == path.parts = <<>> \/ Last(path.parts) = ".."

LEMMA ClimbIs ==
  ASSUME NEW done
  PROVE  /\ Rooted(done) => Climb(done) = Unrooted(done)
         /\ ~Rooted(done) /\ Topped(done) => Climb(done) = With(done, Append(done.parts, ".."))
         /\ ~Topped(done) => Climb(done) = With(done, Front(done.parts))
<1>1. Rooted(done) => Climb(done) = Unrooted(done)
  BY Zenon DEF Climb, Unrooted, Rooted
<1>2. ~Rooted(done) /\ Topped(done) => Climb(done) = With(done, Append(done.parts, ".."))
  BY Zenon DEF Climb, With, Rooted, Topped
<1>3. ~Topped(done) => Climb(done) = With(done, Front(done.parts))
  BY Zenon DEF Climb, With, Rooted, Topped
<1> QED  BY <1>1, <1>2, <1>3

LEMMA JoinStepIs ==
  ASSUME NEW done, NEW x
  PROVE  /\ x = "." => JoinStep(done, x) = done
         /\ x = ".." /\ Rooted(done) => JoinStep(done, x) = Unrooted(done)
         /\ x = ".." /\ ~Rooted(done) /\ Topped(done) => JoinStep(done, x) = With(done, Append(done.parts, ".."))
         /\ x = ".." /\ ~Topped(done) => JoinStep(done, x) = With(done, Front(done.parts))
         /\ x # "." /\ x # ".." => JoinStep(done, x) = With(done, Append(done.parts, x))
<1>0. ".." # "."
  OBVIOUS
<1>1. x = "." => JoinStep(done, x) = done
  BY <1>0, Zenon DEF JoinStep
<1>2. x = ".." => JoinStep(done, x) = Climb(done)
  BY <1>0, Zenon DEF JoinStep
<1>3. x # "." /\ x # ".." => JoinStep(done, x) = With(done, Append(done.parts, x))
  BY Zenon DEF JoinStep, With
<1> QED  BY <1>1, <1>2, <1>3, ClimbIs, Zenon

LEMMA JoinType ==
  ASSUME NEW S, NEW T, T = S \ {"."}, ".." \in T, NEW prefix \in Joints(BOOLEAN, T)
  PROVE  \A q \in Seq(S) : Join(prefix, q) \in Joints(BOOLEAN, T)
<1> DEFINE Good == {q \in Seq(S) : Join(prefix, q) \in Joints(BOOLEAN, T)}
<1>1. <<>> \in Good
  <2>1. Join(prefix, <<>>) = prefix /\ <<>> \in Seq(S)
    BY JoinIsFold, FoldEmpty, EmptySeq
  <2> QED  BY <2>1
<1>2. ASSUME NEW q \in Seq(S), NEW x \in S, q \in Good
      PROVE  Append(q, x) \in Good
  <2>1. PICK done \in Joints(BOOLEAN, T) : done = Join(prefix, q)
    BY <1>2
  <2>2. Join(prefix, Append(q, x)) = JoinStep(done, x)
    BY <2>1, JoinGrows
  <2>3. done.parts \in Seq(T) /\ done.abs \in BOOLEAN
    BY DEF Joints
  <2>4. /\ \A c \in T : Append(done.parts, c) \in Seq(T)
        /\ done.parts # <<>> => Front(done.parts) \in Seq(T)
        /\ <<"..">> \in Seq(T)
    BY <2>3, AppendProperties, FrontAndLast
  <2>5. \A p \in Seq(T) : With(done, p) \in Joints(BOOLEAN, T)
    BY DEF Joints, With
  <2>6. Unrooted(done) \in Joints(BOOLEAN, T)
    BY DEF Joints, Unrooted
  <2>7. x # "." => x \in T
    OBVIOUS
  <2>8. JoinStep(done, x) \in Joints(BOOLEAN, T)
    <3>1. CASE x = "."
      BY <2>3, <3>1, JoinStepIs
    <3>2. CASE x = ".." /\ Rooted(done)
      BY <2>3, <2>6, <3>2, JoinStepIs
    <3>3. CASE x = ".." /\ ~Rooted(done) /\ Topped(done)
      BY <2>3, <2>4, <2>5, <3>3, JoinStepIs
    <3>4. CASE x = ".." /\ ~Topped(done)
      <4>1. done.parts # <<>>
        BY <3>4 DEF Topped
      <4> QED  BY <2>3, <2>4, <2>5, <3>4, <4>1, JoinStepIs
    <3>5. CASE x # "." /\ x # ".."
      BY <2>3, <2>4, <2>5, <2>7, <3>5, JoinStepIs
    <3>6. Rooted(done) => Topped(done)
      BY DEF Rooted, Topped
    <3> QED  BY <3>1, <3>2, <3>3, <3>4, <3>5, <3>6
  <2>9. Append(q, x) \in Seq(S)
    BY AppendProperties
  <2> QED  BY <2>2, <2>8, <2>9
<1> HIDE DEF Good
<1>3. \A q \in Seq(S) : q \in Good
  BY <1>1, <1>2, ByAppend
<1> QED  BY <1>3 DEF Good

(* Components joined to a relative path lead where the two lead, one behind *)
(* the other.                                                               *)
LEMMA JoinLeads ==
  ASSUME NEW S, NEW T, T = S \ {"."}, ".." \in T, NEW dir \in Seq(S), NEW prefix \in Joints({FALSE}, T)
  PROVE  \A q \in Seq(S) : /\ ~Join(prefix, q).abs
                           /\ Walk(dir, Join(prefix, q).parts) = Walk(Walk(dir, prefix.parts), q)
<1> DEFINE Good == {q \in Seq(S) : /\ ~Join(prefix, q).abs
                                   /\ Walk(dir, Join(prefix, q).parts) = Walk(Walk(dir, prefix.parts), q)}
<1>0. prefix \in Joints(BOOLEAN, T) /\ ~prefix.abs
  BY DEF Joints
<1>1. <<>> \in Good
  <2>1. Join(prefix, <<>>) = prefix /\ <<>> \in Seq(S)
    BY JoinIsFold, FoldEmpty, EmptySeq
  <2> QED  BY <1>0, <2>1, WalkEmpty
<1>2. ASSUME NEW q \in Seq(S), NEW x \in S, q \in Good
      PROVE  Append(q, x) \in Good
  <2>1. PICK joint \in Joints(BOOLEAN, T) : joint = Join(prefix, q)
    BY <1>0, JoinType
  <2> DEFINE done == joint.parts
             here == Walk(dir, done)
  <2>2. ~joint.abs /\ joint.abs \in BOOLEAN /\ done \in Seq(T) /\ here = Walk(Walk(dir, prefix.parts), q)
    BY <1>2, <2>1 DEF Joints
  <2>3. Join(prefix, Append(q, x)) = JoinStep(joint, x)
    BY <2>1, JoinGrows
  <2>4. Walk(Walk(dir, prefix.parts), Append(q, x)) = NamedStep(here, x)
    BY <2>2, WalkAppend
  <2>5. \A p : With(joint, p).abs = joint.abs /\ With(joint, p).parts = p
    BY DEF Joints, With
  <2> HIDE DEF done
  <2>6. ~JoinStep(joint, x).abs /\ Walk(dir, JoinStep(joint, x).parts) = NamedStep(here, x)
    <3>1. \A c \in T : Append(done, c) \in Seq(T) /\ Walk(dir, Append(done, c)) = NamedStep(here, c)
      BY <2>2, AppendProperties, WalkAppend
    <3> HIDE DEF here
    <3>2. CASE x = ".." /\ (done = <<>> \/ Last(done) = "..")
      <4>1. ~Rooted(joint) /\ Topped(joint)
        BY <2>2, <3>2 DEF Rooted, Topped, done
      <4>2. JoinStep(joint, x) = With(joint, Append(done, ".."))
        BY <2>2, <3>2, <4>1, JoinStepIs DEF done
      <4> QED  BY <2>2, <2>5, <3>1, <3>2, <4>2
    <3>3. CASE x = ".." /\ done # <<>> /\ Last(done) # ".."
      <4> DEFINE less == Front(done)
                 c == Last(done)
      <4>1. /\ less \in Seq(T) /\ c \in T /\ done = Append(less, c)
        BY <2>2, <3>3, FrontAndLast
      <4>2. JoinStep(joint, x).abs = joint.abs /\ JoinStep(joint, x).parts = less /\ c # ".."
        <5>1. ~Topped(joint)
          BY <3>3 DEF Topped, done
        <5>2. JoinStep(joint, x) = With(joint, less)
          BY <2>2, <3>3, <5>1, JoinStepIs DEF done
        <5> QED  BY <2>5, <3>3, <5>2
      <4> HIDE DEF less, c
      <4>3. less \in Seq(S) /\ c \in S /\ c # "."
        BY <4>1, SeqMonotonic
      <4>4. Walk(dir, less) \in Seq(S)
        BY <4>3, WalkType
      <4>5. here = NamedStep(Walk(dir, less), c)
        BY <4>1, WalkAppend DEF here
      <4>6. here = Append(Walk(dir, less), c)
        BY <4>2, <4>3, <4>5 DEF NamedStep
      <4>7. here # <<>> /\ Front(here) = Walk(dir, less)
        BY <4>3, <4>4, <4>6, FrontOfAppend
      <4>8. NamedStep(here, x) = Walk(dir, less)
        BY <3>3, <4>7 DEF NamedStep
      <4> QED  BY <2>2, <4>2, <4>8
    <3>4. CASE x = "."
      <4>1. JoinStep(joint, x) = joint /\ NamedStep(here, x) = here
        BY <2>2, <3>4, JoinStepIs DEF NamedStep
      <4> QED  BY <2>2, <4>1 DEF here, done
    <3>5. CASE x # "." /\ x # ".."
      <4>1. JoinStep(joint, x) = With(joint, Append(done, x)) /\ x \in T
        BY <2>2, <3>5, JoinStepIs DEF done
      <4> QED  BY <2>2, <2>5, <3>1, <4>1
    <3> QED  BY <3>2, <3>3, <3>4, <3>5
  <2>7. Append(q, x) \in Seq(S)
    BY AppendProperties
  <2> HIDE DEF here
  <2> QED  BY <2>3, <2>4, <2>6, <2>7
<1> HIDE DEF Good
<1>3. \A q \in Seq(S) : q \in Good
  BY <1>1, <1>2, ByAppend
<1> QED  BY <1>3 DEF Good

(* Components joined to an absolute path name the directory they lead to,   *)
(* unless they ask for the parent of the root.                              *)
Past(dir, q) == \E k \in DOMAIN q : q[k] = ".." /\ Walk(dir, SubSeq(q, 1, k - 1)) = <<>>

LEMMA PastAppend ==
  ASSUME NEW dir, NEW S, NEW q \in Seq(S), NEW x \in S, ~Past(dir, Append(q, x))
  PROVE  ~Past(dir, q) /\ (x = ".." => Walk(dir, q) # <<>>)
<1> DEFINE r == Append(q, x)
           n == Len(q)
           Until(k) == SubSeq(q, 1, k - 1)
<1>1. /\ n \in Nat /\ DOMAIN q = 1..n /\ DOMAIN r = 1..n+1 /\ r[n + 1] = x
      /\ \A i \in 1..n : r[i] = q[i] /\ i \in 1..n+1
  BY AppendProperties, LenProperties
<1>2. \A k \in 1..n+1 : SubSeq(r, 1, k - 1) = Until(k)
  <2> SUFFICES ASSUME NEW k \in 1..n+1 PROVE SubSeq(r, 1, k - 1) = SubSeq(q, 1, k - 1)
    OBVIOUS
  <2>1. \A i \in 1..k-1 : r[i] = q[i]
    BY <1>1
  <2> HIDE DEF r
  <2> QED  BY <2>1 DEF SubSeq
<1>3. Until(n + 1) = q /\ n + 1 \in 1..n+1
  BY <1>1, SubSeqFull
<1>4. \A k \in 1..n : SubSeq(q, 1, k - 1) = Until(k)
  OBVIOUS
<1> HIDE DEF r, n, Until
<1>5. \A k \in 1..n+1 : ~(r[k] = ".." /\ Walk(dir, Until(k)) = <<>>)
  BY <1>1, <1>2 DEF Past, r
<1>6. ~(x = ".." /\ Walk(dir, q) = <<>>)
  BY <1>1, <1>3, <1>5
<1>7. ~Past(dir, q)
  BY <1>1, <1>4, <1>5 DEF Past
<1> QED  BY <1>6, <1>7

LEMMA JoinRoots ==
  ASSUME NEW S, NEW D, ".." \in S, D = S \ {".", ".."}, NEW prefix \in Joints({TRUE}, D)
  PROVE  \A q \in Seq(S) : ~Past(prefix.parts, q) =>
            /\ Join(prefix, q).abs
            /\ Join(prefix, q).parts = Walk(prefix.parts, q)
            /\ Walk(prefix.parts, q) \in Seq(D)
<1> DEFINE dir == prefix.parts
           T == S \ {"."}
           Good == {q \in Seq(S) : ~Past(dir, q) =>
                       /\ Join(prefix, q).abs /\ Join(prefix, q).parts = Walk(dir, q) /\ Walk(dir, q) \in Seq(D)}
<1>0. /\ prefix \in Joints(BOOLEAN, T) /\ prefix.abs /\ dir \in Seq(D)
      /\ T = S \ {"."} /\ ".." \in T /\ D \subseteq T
  <2>0. ".." # "."
    OBVIOUS
  <2>1. Seq(D) \subseteq Seq(T)
    <3>1. D \subseteq T
      OBVIOUS
    <3> QED  BY <3>1, SeqMonotonic
  <2> QED  BY <2>0, <2>1 DEF Joints
<1> HIDE DEF dir, T
<1>1. <<>> \in Good
  <2>1. Join(prefix, <<>>) = prefix /\ <<>> \in Seq(S)
    BY JoinIsFold, FoldEmpty, EmptySeq
  <2> QED  BY <1>0, <2>1, WalkEmpty DEF dir
<1>2. ASSUME NEW q \in Seq(S), NEW x \in S, q \in Good
      PROVE  Append(q, x) \in Good
  <2>1. Append(q, x) \in Seq(S)
    BY AppendProperties
  <2> SUFFICES ASSUME ~Past(dir, Append(q, x))
               PROVE  /\ Join(prefix, Append(q, x)).abs
                      /\ Join(prefix, Append(q, x)).parts = Walk(dir, Append(q, x))
                      /\ Walk(dir, Append(q, x)) \in Seq(D)
    BY <2>1
  <2>2. ~Past(dir, q) /\ (x = ".." => Walk(dir, q) # <<>>)
    BY PastAppend
  <2>3. PICK joint \in Joints(BOOLEAN, T) : joint = Join(prefix, q)
    BY <1>0, JoinType
  <2>4. PICK done \in Seq(D) : done = Walk(dir, q) /\ joint.parts = done /\ joint.abs /\ joint.abs \in BOOLEAN
    BY <1>2, <2>2, <2>3 DEF Joints
  <2>5. Join(prefix, Append(q, x)) = JoinStep(joint, x)
    BY <2>3, JoinGrows
  <2>6. Walk(dir, Append(q, x)) = NamedStep(done, x)
    BY <2>4, WalkAppend
  <2>7. \A p : With(joint, p).abs = joint.abs /\ With(joint, p).parts = p
    BY DEF Joints, With
  <2>8. CASE x = ".."
    <3>1. done # <<>> /\ Front(done) \in Seq(D) /\ Last(done) \in D /\ Last(done) # ".."
      BY <2>2, <2>4, <2>8, FrontAndLast
    <3>2. JoinStep(joint, x) = With(joint, Front(done))
      <4>1. ~Topped(joint)
        BY <2>4, <3>1 DEF Topped
      <4> QED  BY <2>4, <2>8, <4>1, JoinStepIs
    <3>3. NamedStep(done, x) = Front(done)
      BY <2>8, <3>1 DEF NamedStep
    <3> QED  BY <2>4, <2>5, <2>6, <2>7, <3>1, <3>2, <3>3
  <2>9. CASE x = "."
    <3>1. JoinStep(joint, x) = joint /\ NamedStep(done, x) = done
      BY <2>4, <2>9, JoinStepIs DEF NamedStep
    <3> QED  BY <2>4, <2>5, <2>6, <3>1
  <2>10. CASE x # "." /\ x # ".."
    <3>1. JoinStep(joint, x) = With(joint, Append(done, x)) /\ x \in D
      BY <2>4, <2>10, JoinStepIs
    <3>2. NamedStep(done, x) = Append(done, x) /\ Append(done, x) \in Seq(D)
      BY <2>10, <3>1, AppendProperties DEF NamedStep
    <3> QED  BY <2>4, <2>5, <2>6, <2>7, <3>1, <3>2
  <2> QED  BY <2>8, <2>9, <2>10
<1> HIDE DEF Good
<1>3. \A q \in Seq(S) : q \in Good
  BY <1>1, <1>2, ByAppend
<1> QED  BY <1>3 DEF Good, dir

(* k components lead up from a directory that is deep enough.               *)
LEMMA WalkUp ==
  ASSUME NEW S, ".." \in S, NEW dir \in Seq(S), NEW k \in Nat, k <= Len(dir)
  PROVE  Ups(k) \in Seq(S) /\ Walk(dir, Ups(k)) = SubSeq(dir, 1, Len(dir) - k)
<1> DEFINE Bad == {n \in Nat : n <= Len(dir) /\ Walk(dir, Ups(n)) # SubSeq(dir, 1, Len(dir) - n)}
<1>0. \A n \in Nat : Ups(n) \in Seq(S)
  BY DEF Ups
<1>1. 0 \notin Bad
  <2>1. Ups(0) = <<>>
    BY DEF Ups
  <2>2. SubSeq(dir, 1, Len(dir)) = dir /\ Len(dir) - 0 = Len(dir)
    BY SubSeqFull
  <2> QED  BY <2>1, <2>2, WalkEmpty
<1>2. ASSUME Bad # {} PROVE FALSE
  <2>1. PICK n \in Bad : \A i \in 0..n-1 : i \notin Bad
    BY <1>2, Least
  <2> DEFINE m == n-1
             here == SubSeq(dir, 1, Len(dir) - m)
  <2>2. n \in Nat \ {0} /\ m \in 0..n-1 /\ m \in Nat /\ n <= Len(dir) /\ m <= Len(dir)
    BY <1>1, <2>1
  <2>3. Walk(dir, Ups(m)) = here
    BY <2>1, <2>2
  <2>4. Ups(n) = Append(Ups(m), "..")
    BY <2>2 DEF Ups
  <2>5. Walk(dir, Ups(n)) = NamedStep(here, "..")
    <3> HIDE DEF here, m
    <3> QED  BY <1>0, <2>2, <2>3, <2>4, WalkAppend
  <2>6. here \in Seq(S) /\ Len(here) = Len(dir) - m
    <3>1. 1 \in Int /\ Len(dir) - m \in Int /\ \A i \in 1..Len(dir) - m : dir[i] \in S
      BY <2>2, ElementOfSeq
    <3>2. here \in Seq(S) /\ Len(here) = IF 1 <= Len(dir) - m THEN Len(dir) - m - 1 + 1 ELSE 0
      <4> HIDE DEF m
      <4> QED  BY <3>1, SubSeqProperties
    <3> QED  BY <2>2, <3>2
  <2>7. here # <<>> /\ Len(dir) - m \in 1..Len(dir)
    <3>1. Len(dir) - m \in 1..Len(dir)
      BY <2>2
    <3> HIDE DEF here
    <3>2. Len(here) # 0
      BY <2>6, <3>1
    <3> QED  BY <3>1, <3>2
  <2>8. here = SubSeq(dir, 1, Len(dir) - m - 1) \o <<dir[Len(dir) - m]>>
    BY <2>7, SubSeqRecursiveSecond
  <2>9. Front(here) = SubSeq(dir, 1, Len(dir) - n)
    <3> DEFINE less == SubSeq(dir, 1, Len(dir) - n)
               c == dir[Len(dir) - m]
    <3>1. Len(dir) - m - 1 = Len(dir) - n
      BY <2>2
    <3>2. c \in S
      BY <2>7, ElementOfSeq
    <3>3. less \in Seq(S)
      <4>1. 1 \in Int /\ Len(dir) - n \in Int /\ \A i \in 1..Len(dir) - n : dir[i] \in S
        BY <2>2, ElementOfSeq
      <4> QED  BY <4>1, SubSeqProperties
    <3>4. here = less \o <<c>>
      BY <2>8, <3>1
    <3> HIDE DEF here, less, c
    <3>5. here = Append(less, c)
      BY <3>2, <3>3, <3>4, AppendIsConcat
    <3>6. Front(here) = less
      BY <3>2, <3>3, <3>5, FrontOfAppend
    <3> QED  BY <3>6 DEF less
  <2>10. NamedStep(here, "..") = Front(here)
    <3> HIDE DEF here
    <3> QED  BY <2>7 DEF NamedStep
  <2> QED  BY <2>1, <2>5, <2>9, <2>10
<1> QED  BY <1>0, <1>2

-----------------------------------------------------------------------------
(* Resolved paths.                                                          *)

(* A set of naturals that has an upper bound has a greatest element.        *)
LEMMA Highest ==
  ASSUME NEW n \in Nat, NEW s \in SUBSET (0..n), s # {}
  PROVE  Max(s) \in s /\ \A x \in s : x <= Max(s)
<1> DEFINE below == {n - x : x \in s}
<1>0. \A x \in s : x \in Int /\ n - x \in Nat
  <2>1. \A x \in s : x \in 0..n
    OBVIOUS
  <2>2. \A x \in 0..n : x \in Int /\ n - x \in Nat
    OBVIOUS
  <2> QED  BY <2>1, <2>2
<1>1. below \in SUBSET Nat /\ below # {}
  BY <1>0
<1>2. PICK m \in below : \A k \in 0..m-1 : k \notin below
  BY <1>1, Least
<1>3. PICK y \in s : m = n - y
  BY <1>2
<1>4. \A x \in s : y >= x
  <2>1. ASSUME NEW x \in s, x > y PROVE FALSE
    <3>1. n - x \in 0..m-1 /\ n - x \in below
      BY <1>0, <1>3, <2>1
    <3> QED  BY <1>2, <3>1
  <2> QED  BY <1>0, <2>1
<1>5. Max(s) \in s /\ \A x \in s : Max(s) >= x
  BY <1>4 DEF Max
<1> QED  BY <1>0, <1>5

LEMMA LowestOf ==
  ASSUME NEW s \in SUBSET Nat, s # {}
  PROVE  Min(s) \in s /\ \A x \in s : Min(s) <= x
<1>1. PICK m \in s : \A k \in 0..m-1 : k \notin s
  BY Least
<1>2. \A x \in s : x \in Int /\ m <= x
  BY <1>1
<1> QED  BY <1>2 DEF Min

(* What a path is made of.                                                  *)
Components == STRING \cup {".", ".."}

Letters == Components \ {"."}

LEMMA PartsOfPrefix ==
  ASSUME NEW S, NEW p \in Seq(S), NEW i \in Int, NEW k \in Int, 1 <= i, k <= Len(p)
  PROVE  SubSeq(p, i, k) \in Seq(S)
<1>1. \A x \in i..k : p[x] \in S
  <2>1. Len(p) \in Nat
    OBVIOUS
  <2>2. \A x \in i..k : x \in 1..Len(p)
    BY <2>1
  <2> QED  BY <2>2, ElementOfSeq
<1> QED  BY <1>1, SubSeqProperties

(* What two directories have in common is the start of both.                *)
LEMMA CommonIs ==
  ASSUME NEW p, NEW q, Len(p) \in Nat
  PROVE  /\ Common(p, q) \in 0..Len(p) /\ Common(p, q) <= Len(q)
         /\ SubSeq(p, 1, Common(p, q)) = SubSeq(q, 1, Common(p, q))
         \/ ~(0 <= Len(q))
<1> DEFINE s == {k \in 0..Len(p) : k <= Len(q) /\ SubSeq(p, 1, k) = SubSeq(q, 1, k)}
<1>1. 0 <= Len(q) => 0 \in s
  BY SubSeqEmpty
<1>2. 0 <= Len(q) => Max(s) \in s
  BY <1>1, Highest
<1> QED  BY <1>2 DEF Common

(* The prefix leads from the directory make was started in to the working   *)
(* directory, or is that directory.                                         *)
LEMMA PrefixLeads ==
  ASSUME NEW j, j.top \in Seq(Names), j.cwd \in Seq(Names), j.resolve \in {1, 2}
  PROVE  /\ Prefix(j).parts \in Seq(Letters) /\ Prefix(j) \in Joints(BOOLEAN, Letters)
         /\ j.resolve = 1 => ~Prefix(j).abs /\ Walk(j.top, Prefix(j).parts) = j.cwd
         /\ j.resolve = 2 => Prefix(j).abs /\ Prefix(j).parts = j.cwd
<1> DEFINE S == Components
           top == j.top
           cwd == j.cwd
<1>1. /\ ".." \in S /\ ".." \in Letters /\ Names \subseteq S /\ Names \subseteq Letters /\ Letters \subseteq S
      /\ "." \notin Names /\ ".." \notin Names
  <2>1. ".." \in S /\ STRING \subseteq S
    BY DEF Components
  <2>2. "." # ".."
    OBVIOUS
  <2>3. "." \notin Names /\ ".." \notin Names
    BY Zenon DEF Names
  <2> QED  BY <2>1, <2>2, <2>3 DEF Letters, Names
<1>2. top \in Seq(Names) /\ cwd \in Seq(Names)
  OBVIOUS
<1> HIDE DEF S, top, cwd
<1>3. top \in Seq(S) /\ cwd \in Seq(S) /\ cwd \in Seq(Letters) /\ <<>> \in Seq(S)
  BY <1>1, <1>2, SeqMonotonic, EmptySeq
<1>4. CASE j.resolve = 1
  <2> DEFINE same == Common(top, cwd)
             up == Ups(Len(top) - same)
             down == SubSeq(cwd, same + 1, Len(cwd))
  <2>1. /\ same \in 0..Len(top) /\ same <= Len(cwd) /\ SubSeq(top, 1, same) = SubSeq(cwd, 1, same)
        /\ Len(top) \in Nat /\ Len(cwd) \in Nat
    <3>1. Len(top) \in Nat /\ Len(cwd) \in Nat
      BY <1>3, LenProperties
    <3> QED  BY <3>1, CommonIs
  <2>2. Prefix(j).abs = FALSE /\ Prefix(j).parts = up \o down /\ Prefix(j) = Path(FALSE, up \o down, FALSE)
    <3> DEFINE all == up \o down
    <3>1. Prefix(j) = Path(FALSE, all, FALSE)
      BY <1>4 DEF Prefix, top, cwd
    <3> HIDE DEF all
    <3>2. Prefix(j).abs = FALSE
      BY <3>1 DEF Path
    <3>3. Prefix(j).parts = all
      BY <3>1 DEF Path
    <3> QED  BY <3>1, <3>2, <3>3 DEF all
  <2> HIDE DEF same
  <2>3. Len(top) - same \in Nat /\ Len(top) - same <= Len(top) /\ Len(top) - (Len(top) - same) = same
    BY <2>1
  <2>4. up \in Seq(S) /\ up \in Seq(Letters) /\ Walk(top, up) = SubSeq(top, 1, same)
    <3>1. up \in Seq(S) /\ Walk(top, up) = SubSeq(top, 1, same)
      BY <1>1, <1>3, <2>3, WalkUp
    <3>2. up \in Seq(Letters)
      BY <1>1, <2>3 DEF Ups
    <3> QED  BY <3>1, <3>2
  <2>5. down \in Seq(Names)
    BY <1>2, <2>1, PartsOfPrefix
  <2>6. SubSeq(cwd, 1, same) \in Seq(S)
    BY <1>3, <2>1, PartsOfPrefix
  <2>7. SubSeq(cwd, 1, same) \o down = cwd
    <3>1. 1 \in 1..Len(cwd)+1 /\ same \in 0..Len(cwd) /\ Len(cwd) \in same..Len(cwd) /\ 1-1 = 0
      BY <2>1
    <3>2. SubSeq(cwd, 1, same) \o down = SubSeq(cwd, 1, Len(cwd))
      BY <1>3, <3>1, ConcatAdjacentSubSeq
    <3> QED  BY <1>3, <3>2, SubSeqFull
  <2> HIDE DEF up, down
  <2>8. down \in Seq(S) /\ down \in Seq(Letters)
    BY <1>1, <2>5, SeqMonotonic
  <2>9. Walk(top, up \o down) = Walk(SubSeq(cwd, 1, same), down)
    <3>0. up \in Seq(S)
      BY <2>4
    <3>1. \A q \in Seq(S) : Walk(top, up \o q) = Walk(Walk(top, up), q)
      BY <3>0, WalkCat
    <3>2. Walk(top, up \o down) = Walk(Walk(top, up), down)
      BY <2>8, <3>1, Zenon
    <3> QED  BY <2>1, <2>4, <3>2, Zenon
  <2>10. Walk(SubSeq(cwd, 1, same), down) = SubSeq(cwd, 1, same) \o down
    BY <1>1, <2>5, <2>6, WalkDown
  <2>11. up \o down \in Seq(Letters)
    BY <2>4, <2>8, ConcatProperties
  <2>12. Prefix(j) \in Joints(BOOLEAN, Letters)
    <3> DEFINE all == up \o down
    <3>1. Prefix(j) = Path(FALSE, all, FALSE) /\ all \in Seq(Letters)
      BY <2>2, <2>11
    <3> HIDE DEF all
    <3> QED  BY <3>1 DEF Joints, Path
  <2>13. Walk(top, up \o down) = cwd
    BY <2>7, <2>9, <2>10, Zenon
  <2>14. ~Prefix(j).abs /\ Walk(top, Prefix(j).parts) = cwd /\ Prefix(j).parts \in Seq(Letters)
    <3> HIDE DEF up, down
    <3> QED  BY <2>2, <2>11, <2>13, Zenon
  <2> QED  BY <1>4, <2>12, <2>14 DEF top, cwd
<1>5. CASE j.resolve = 2
  <2>1. Prefix(j).abs = TRUE /\ Prefix(j).parts = cwd /\ Prefix(j) = Path(TRUE, cwd, FALSE)
    BY <1>5 DEF Prefix, Path, top, cwd
  <2>2. Prefix(j) \in Joints(BOOLEAN, Letters)
    BY <1>3, <2>1 DEF Joints, Path
  <2>3. Prefix(j).abs /\ Prefix(j).parts = j.cwd /\ Prefix(j).parts \in Seq(Letters)
    BY <1>3, <2>1 DEF cwd
  <2>4. j.resolve # 1
    BY <1>5
  <2> QED  BY <2>2, <2>3, <2>4
<1> QED  BY <1>4, <1>5

(* The hits are modules of the list.                                        *)
LEMMA LastHit ==
  ASSUME NEW j, IsSift(j), NEW k \in 1..2, NEW file \in Paths, Hits(j, k, file) # {}
  PROVE  LET i == Max(Hits(j, k, file))
         IN  i \in DOMAIN j.modules[k] /\ Exists(j, Beside(j, k, i, file)) /\ j.modules[k][i] \in Seq(STRING)
<1> DEFINE i == Max(Hits(j, k, file))
           n == Len(j.modules[k])
<1>1. j.modules[k] \in Seq(Seq(STRING))
  BY DEF IsSift
<1>2. n \in Nat /\ DOMAIN j.modules[k] = 1..n
  BY <1>1, LenProperties
<1>3. Hits(j, k, file) \in SUBSET (0..n)
  BY <1>2 DEF Hits
<1>4. i \in Hits(j, k, file)
  BY <1>2, <1>3, Highest
<1> HIDE DEF i
<1>5. i \in DOMAIN j.modules[k] /\ Exists(j, Beside(j, k, i, file))
  BY <1>4 DEF Hits
<1>6. j.modules[k][i] \in Seq(STRING)
  BY <1>1, <1>2, <1>5, ElementOfSeq
<1> QED  BY <1>5, <1>6 DEF i

(* A file that is looked up is the one the compiler has named, or one that  *)
(* exists beside a module, and is as relative as the name.                  *)
LEMMA LookedIs ==
  ASSUME NEW j, IsSift(j), NEW file \in Paths, ~file.abs, file.dotted
  PROVE  /\ Looked(j, file).abs = FALSE /\ Looked(j, file).parts \in Seq(STRING)
         /\ \/ /\ Looked(j, file) = file
               /\ Exists(j, file) \/ \A k \in 1..2 : Hits(j, k, file) = {}
            \/ /\ ~Exists(j, file)
               /\ \E k \in 1..2 : \E i \in DOMAIN j.modules[k] :
                    Looked(j, file) = Beside(j, k, i, file) /\ Exists(j, Beside(j, k, i, file))
<1>1. file.parts # <<"collect2">> /\ file.parts \in Seq(STRING) /\ file.abs = FALSE
  BY DEF Paths
<1>2. CASE Exists(j, file) \/ Hits(j, 1, file) \cup Hits(j, 2, file) = {}
  <2>1. Looked(j, file) = file
    BY <1>2 DEF Looked
  <2>2. Exists(j, file) \/ \A k \in 1..2 : Hits(j, k, file) = {}
    BY <1>2
  <2> QED  BY <1>1, <2>1, <2>2
<1>3. CASE ~(Exists(j, file) \/ Hits(j, 1, file) \cup Hits(j, 2, file) = {})
  <2>1. PICK k \in 1..2 : Hits(j, k, file) # {} /\ Looked(j, file) = Beside(j, k, Max(Hits(j, k, file)), file)
    <3>1. 1 \in 1..2 /\ 2 \in 1..2
      OBVIOUS
    <3>2. CASE Hits(j, 1, file) # {}
      <4>1. Looked(j, file) = Beside(j, 1, Max(Hits(j, 1, file)), file)
        BY <1>1, <1>3, <3>2 DEF Looked
      <4> QED  BY <3>1, <3>2, <4>1
    <3>3. CASE Hits(j, 1, file) = {}
      <4>1. Hits(j, 2, file) # {} /\ Looked(j, file) = Beside(j, 2, Max(Hits(j, 2, file)), file)
        BY <1>1, <1>3, <3>3 DEF Looked
      <4> QED  BY <3>1, <4>1
    <3> QED  BY <3>2, <3>3
  <2>2. PICK i \in DOMAIN j.modules[k] : /\ Looked(j, file) = Beside(j, k, i, file)
                                         /\ Exists(j, Beside(j, k, i, file)) /\ j.modules[k][i] \in Seq(STRING)
    BY <2>1, LastHit
  <2>3. j.modules[k][i] \o file.parts \in Seq(STRING)
    BY <1>1, <2>2, ConcatProperties
  <2>4. Looked(j, file).abs = FALSE /\ Looked(j, file).parts = j.modules[k][i] \o file.parts
    <3> DEFINE all == j.modules[k][i] \o file.parts
    <3>1. Beside(j, k, i, file) = Path(FALSE, j.modules[k][i] \o file.parts, file.dotted)
      BY DEF Beside
    <3>2. Looked(j, file) = Path(FALSE, all, file.dotted)
      BY <2>2, <3>1
    <3> HIDE DEF all
    <3>3. Looked(j, file).abs = FALSE
      BY <3>2 DEF Path
    <3>4. Looked(j, file).parts = all
      BY <3>2 DEF Path
    <3> QED  BY <3>3, <3>4 DEF all
  <2> QED  BY <1>3, <2>2, <2>3, <2>4
<1> QED  BY <1>2, <1>3

(* What is printed in place of a relative path is a path.                   *)
LEMMA ResolvedIsPath ==
  ASSUME NEW j, IsSift(j), NEW file \in Paths, Resolves(j, file)
  PROVE  /\ j.resolve \in {1, 2}
         /\ Looked(j, file).abs = FALSE /\ Looked(j, file).parts \in Seq(Components)
         /\ Resolved(j, file).abs = Join(Prefix(j), Looked(j, file).parts).abs
         /\ Resolved(j, file).parts = Join(Prefix(j), Looked(j, file).parts).parts
         /\ Resolved(j, file) \in [abs : BOOLEAN, parts : Seq(Components), dotted : {TRUE}]
<1> DEFINE parts == Looked(j, file).parts
           joined == Join(Prefix(j), parts)
<1>1. ~file.abs /\ file.dotted /\ j.resolve \in {1, 2}
  BY DEF Resolves, IsSift
<1>2. Looked(j, file).abs = FALSE /\ parts \in Seq(Components)
  <2>1. Looked(j, file).abs = FALSE /\ Looked(j, file).parts \in Seq(STRING)
    BY <1>1, LookedIs
  <2>2. STRING \subseteq Components
    BY DEF Components
  <2> QED  BY <2>1, <2>2, SeqMonotonic
<1>3. Letters = Components \ {"."} /\ ".." \in Letters
  <2>1. ".." \in Components /\ ".." # "."
    BY DEF Components
  <2> QED  BY <2>1 DEF Letters
<1>4. Prefix(j) \in Joints(BOOLEAN, Letters)
  BY <1>1, PrefixLeads DEF IsSift
<1> HIDE DEF parts
<1>5. joined \in Joints(BOOLEAN, Letters)
  <2> DEFINE S == Components
             T == Letters
             prefix == Prefix(j)
  <2>1. T = S \ {"."} /\ ".." \in T /\ prefix \in Joints(BOOLEAN, T) /\ parts \in Seq(S)
    BY <1>2, <1>3, <1>4
  <2> HIDE DEF S, T, prefix
  <2>2. Join(prefix, parts) \in Joints(BOOLEAN, T)
    BY <2>1, JoinType
  <2> QED  BY <2>2 DEF prefix, T
<1>6. Resolved(j, file) = [joined EXCEPT !.dotted = TRUE]
  BY DEF Resolved, parts
<1> HIDE DEF joined
<1>7. joined \in [abs : BOOLEAN, parts : Seq(Components), dotted : {FALSE}]
  <2>1. Letters \subseteq Components
    BY DEF Letters
  <2>2. Seq(Letters) \subseteq Seq(Components)
    BY <2>1, SeqMonotonic
  <2> QED  BY <1>5, <2>2 DEF Joints
<1>8. Resolved(j, file).abs = joined.abs /\ Resolved(j, file).parts = joined.parts
  BY <1>6, <1>7
<1>9. Resolved(j, file) \in [abs : BOOLEAN, parts : Seq(Components), dotted : {TRUE}]
  BY <1>6, <1>7
<1> QED  BY <1>1, <1>2, <1>8, <1>9 DEF joined, parts

(* A path that is printed leads from the directory make was started in to   *)
(* where the file that was looked up is.                                    *)
LEMMA ResolvedLeads ==
  ASSUME IsSift(job), NEW file \in Paths, Resolves(job, file),
         ~(job.resolve = 2 /\ PastRoot(Looked(job, file)))
  PROVE  Named(job.top, Resolved(job, file)) = Named(job.cwd, Looked(job, file))
<1> DEFINE S == Components
           parts == Looked(job, file).parts
           joined == Join(Prefix(job), parts)
           cwd == job.cwd
           top == job.top
<1>1. Named(cwd, Looked(job, file)) = Walk(cwd, parts)
  <2>1. Looked(job, file).abs = FALSE
    BY ResolvedIsPath
  <2> QED  BY <2>1, NamedIsFold DEF Walk
<1>2. Named(top, Resolved(job, file)) = Walk(IF joined.abs THEN <<>> ELSE top, joined.parts)
  <2>1. Resolved(job, file).abs = joined.abs /\ Resolved(job, file).parts = joined.parts
    BY ResolvedIsPath
  <2> HIDE DEF joined
  <2> QED  BY <2>1, NamedIsFold DEF Walk
<1>3. /\ Names \subseteq S /\ Names \subseteq Letters /\ Letters = S \ {"."} /\ ".." \in Letters
      /\ Names \subseteq S \ {".", ".."} /\ "." \notin S \ {".", ".."} /\ ".." \notin S \ {".", ".."}
  <2>1. ".." \in S /\ ".." # "." /\ STRING \subseteq S
    BY DEF Components
  <2>2. Names = STRING \ {".", ".."}
    BY DEF Names
  <2> QED  BY <2>1, <2>2 DEF Letters
<1>4. /\ top \in Seq(S) /\ cwd \in Seq(S) /\ cwd \in Seq(S \ {".", ".."}) /\ <<>> \in Seq(S)
      /\ cwd \in Seq(Names) /\ top \in Seq(Names)
  <2>1. cwd \in Seq(Names) /\ top \in Seq(Names)
    BY DEF IsSift
  <2> HIDE DEF S
  <2> QED  BY <1>3, <2>1, SeqMonotonic, EmptySeq
<1>5. parts \in Seq(S) /\ job.resolve \in {1, 2}
  BY ResolvedIsPath
<1>6. /\ Prefix(job) \in Joints(BOOLEAN, Letters)
      /\ job.resolve = 1 => ~Prefix(job).abs /\ Walk(top, Prefix(job).parts) = cwd
      /\ job.resolve = 2 => Prefix(job).abs /\ Prefix(job).parts = cwd
  BY <1>4, <1>5, PrefixLeads
<1>7. PastRoot(Looked(job, file)) <=> Past(cwd, parts)
  <2>1. \A q : Named(cwd, Path(FALSE, q, FALSE)) = Walk(cwd, q)
    <3> TAKE q
    <3>1. Path(FALSE, q, FALSE).abs = FALSE /\ Path(FALSE, q, FALSE).parts = q
      BY DEF Path
    <3> QED  BY <3>1, NamedIsFold DEF Walk
  <2> QED  BY <2>1 DEF PastRoot, Past
<1>8. CASE job.resolve = 1
  <2> DEFINE T == Letters
             prefix == Prefix(job)
  <2>1. /\ T = S \ {"."} /\ ".." \in T /\ prefix \in Joints({FALSE}, T)
        /\ top \in Seq(S) /\ Walk(top, prefix.parts) = cwd
    BY <1>3, <1>4, <1>6, <1>8 DEF Joints
  <2> HIDE DEF S, T, prefix, parts, cwd, top
  <2>2. ~Join(prefix, parts).abs /\ Walk(top, Join(prefix, parts).parts) = Walk(Walk(top, prefix.parts), parts)
    <3>1. \A q \in Seq(S) : /\ ~Join(prefix, q).abs
                           /\ Walk(top, Join(prefix, q).parts) = Walk(Walk(top, prefix.parts), q)
      BY <2>1, JoinLeads
    <3> QED  BY <1>5, <3>1
  <2>3. joined = Join(prefix, parts)
    BY DEF prefix
  <2> HIDE DEF joined
  <2>4. Walk(IF joined.abs THEN <<>> ELSE top, joined.parts) = Walk(cwd, parts)
    BY <2>1, <2>2, <2>3
  <2> QED  BY <1>1, <1>2, <2>4 DEF cwd, top
<1>9. CASE job.resolve = 2
  <2> DEFINE T == Letters
             D == S \ {".", ".."}
             prefix == Prefix(job)
  <2>1. /\ T = S \ {"."} /\ ".." \in T /\ prefix \in Joints({TRUE}, D)
        /\ prefix.parts = cwd /\ ~Past(cwd, parts)
    BY <1>3, <1>4, <1>6, <1>7, <1>9 DEF Joints
  <2>2. D \subseteq S /\ "." \notin D /\ ".." \notin D /\ D = S \ {".", ".."}
    OBVIOUS
  <2> HIDE DEF D, parts
  <2> HIDE DEF S, T, prefix, cwd, top
  <2>3. /\ Join(prefix, parts).abs
        /\ Join(prefix, parts).parts = Walk(cwd, parts)
        /\ Walk(cwd, parts) \in Seq(D)
    <3>1. \A q \in Seq(S) : ~Past(prefix.parts, q) =>
            /\ Join(prefix, q).abs
            /\ Join(prefix, q).parts = Walk(prefix.parts, q)
            /\ Walk(prefix.parts, q) \in Seq(D)
      <4>2. ".." \in S
        BY <2>1
      <4>3. D = S \ {".", ".."}
        BY <2>2
      <4>4. prefix \in Joints({TRUE}, D)
        BY <2>1
      <4> QED  BY <4>2, <4>3, <4>4, JoinRoots
    <3> QED  BY <1>5, <2>1, <3>1
  <2>4. joined = Join(prefix, parts)
    BY DEF prefix
  <2> HIDE DEF joined
  <2>5. Walk(IF joined.abs THEN <<>> ELSE top, joined.parts) = Walk(<<>>, Walk(cwd, parts))
    BY <2>3, <2>4
  <2>6. Walk(<<>>, Walk(cwd, parts)) = <<>> \o Walk(cwd, parts)
    <3>1. \A q \in Seq(D) : Walk(<<>>, q) = <<>> \o q
      <4>1. D \subseteq S
        BY <2>2
      <4>2. "." \notin D
        BY <2>2
      <4>3. ".." \notin D
        BY <2>2
      <4>4. <<>> \in Seq(S)
        BY EmptySeq
      <4> QED  BY <4>1, <4>2, <4>3, <4>4, WalkDown
    <3> QED  BY <2>3, <3>1, Zenon
  <2>7. <<>> \o Walk(cwd, parts) = Walk(cwd, parts)
    BY <2>3, ConcatEmptySeq
  <2> QED  BY <1>1, <1>2, <2>5, <2>6, <2>7 DEF cwd, top
<1> QED  BY <1>5, <1>8, <1>9

-----------------------------------------------------------------------------
(* What a path names depends on where it starts and on its components.      *)
LEMMA NamedIs ==
  ASSUME NEW dir, NEW p, NEW q, p.abs = q.abs, p.parts = q.parts
  PROVE  Named(dir, p) = Named(dir, q)
<1>1. Named(dir, p) = Fold("named", 0, IF p.abs THEN <<>> ELSE dir, p.parts)
  BY NamedIsFold
<1>2. Named(dir, q) = Fold("named", 0, IF q.abs THEN <<>> ELSE dir, q.parts)
  BY NamedIsFold
<1> QED  BY <1>1, <1>2

(* The file that is looked up is where the file really is.                  *)
LEMMA LookedIsTrue ==
  ASSUME IsSift(job), NEW file \in Paths, ~file.abs, file.dotted
  PROVE  Named(job.cwd, Looked(job, file)) \in Truths(file)
<1> DEFINE At(m) == Named(job.cwd, [file EXCEPT !.parts = m \o @])
           lists == ToSet(job.modules[1]) \cup ToSet(job.modules[2])
           beside == {At(m) : m \in lists}
           kept == beside \cap job.files
<1>1. /\ Exists(job, file) \/ kept = {} => Truths(file) = {Named(job.cwd, file)}
      /\ ~(Exists(job, file) \/ kept = {}) => Truths(file) = kept
  BY DEF Truths
<1>2. ASSUME NEW k \in 1..2, NEW i \in DOMAIN job.modules[k]
      PROVE  job.modules[k][i] \in lists /\ At(job.modules[k][i]) = Named(job.cwd, Beside(job, k, i, file))
  <2> DEFINE m == job.modules[k][i]
             all == m \o file.parts
             p == [file EXCEPT !.parts = m \o @]
             q == Beside(job, k, i, file)
  <2>1. m \in lists
    <3>1. k = 1 \/ k = 2
      OBVIOUS
    <3> QED  BY <3>1 DEF ToSet
  <2>2. q = Path(FALSE, all, file.dotted)
    BY DEF Beside
  <2>3. p.abs = FALSE /\ p.parts = all
    BY DEF Paths
  <2> HIDE DEF all, q, p
  <2>4. q.abs = FALSE
    BY <2>2 DEF Path
  <2>5. q.parts = all
    BY <2>2 DEF Path
  <2>6. Named(job.cwd, p) = Named(job.cwd, q)
    BY <2>3, <2>4, <2>5, NamedIs
  <2> QED  BY <2>1, <2>6 DEF p, q
<1>3. ASSUME NEW m \in lists
      PROVE  \E k \in 1..2 : \E i \in DOMAIN job.modules[k] : m = job.modules[k][i]
  <2>1. (\E i \in DOMAIN job.modules[1] : m = job.modules[1][i]) \/ (\E i \in DOMAIN job.modules[2] : m = job.modules[2][i])
    BY DEF ToSet
  <2> QED  BY <2>1
<1> HIDE DEF At, lists
<1>4. CASE Looked(job, file) = file /\ (Exists(job, file) \/ \A k \in 1..2 : Hits(job, k, file) = {})
  <2>1. Exists(job, file) \/ kept = {}
    <3>1. ASSUME ~Exists(job, file), NEW here \in kept PROVE FALSE
      <4>1. PICK m \in lists : here = At(m) /\ At(m) \in job.files
        OBVIOUS
      <4>2. PICK k \in 1..2 : \E i \in DOMAIN job.modules[k] : m = job.modules[k][i]
        BY <1>3
      <4>3. PICK i \in DOMAIN job.modules[k] : m = job.modules[k][i]
        BY <4>2
      <4>4. Exists(job, Beside(job, k, i, file))
        BY <1>2, <4>1, <4>3 DEF Exists
      <4>5. i \in Hits(job, k, file)
        BY <4>4 DEF Hits
      <4> QED  BY <1>4, <3>1, <4>5
    <3> QED  BY <3>1
  <2> QED  BY <1>1, <1>4, <2>1
<1>5. CASE /\ ~Exists(job, file)
           /\ \E k \in 1..2 : \E i \in DOMAIN job.modules[k] :
                Looked(job, file) = Beside(job, k, i, file) /\ Exists(job, Beside(job, k, i, file))
  <2>1. PICK k \in 1..2 : \E i \in DOMAIN job.modules[k] :
                Looked(job, file) = Beside(job, k, i, file) /\ Exists(job, Beside(job, k, i, file))
    BY <1>5
  <2>2. PICK i \in DOMAIN job.modules[k] :
                Looked(job, file) = Beside(job, k, i, file) /\ Exists(job, Beside(job, k, i, file))
    BY <2>1
  <2>3. Named(job.cwd, Looked(job, file)) \in kept
    BY <1>2, <2>2 DEF Exists
  <2> QED  BY <1>1, <1>5, <2>3
<1> QED  BY <1>4, <1>5, LookedIs

(* What is printed in its place leads there from the top.                   *)
LEMMA ResolvedIsTrue ==
  ASSUME IsSift(job), NEW file \in Paths, Resolves(job, file),
         ~(job.resolve = 2 /\ PastRoot(Looked(job, file)))
  PROVE  Named(job.top, Resolved(job, file)) \in Truths(file)
<1>1. ~file.abs /\ file.dotted
  BY DEF Resolves
<1> QED  BY <1>1, LookedIsTrue, ResolvedLeads

-----------------------------------------------------------------------------
(* The pattern file.  Whatever rows it has, the first row that matches a    *)
(* line with an error in it has the type of an error.                       *)

Rows == {warn_fmts[i] : i \in 1..4} \cup {Row(e) : e \in Entries}

Negative == {i \in Int : i < 0}

(* Where the rows of the two kinds of errors are: no row up to the second   *)
(* of them has another type than an error's.                                *)
Leading(rows, a, b) ==
  /\ a \in DOMAIN rows /\ b \in DOMAIN rows /\ a < b
  /\ rows[a].strings = <<<<"Error:">>, <<>>, <<>>>> /\ rows[b].strings = <<<<"error:">>, <<>>, <<>>>>
  /\ \A i \in 1..b : rows[i].type \in Negative

Imported == {rows \in Seq(Rows) : \E a, b \in Nat : Leading(rows, a, b)}

LEMMA ImportStarts == warn_fmts \in Imported
<1> DEFINE w == warn_fmts
<1>1. /\ Len(w) = 4 /\ DOMAIN w = 1..4
      /\ w[3].strings = <<<<"Error:">>, <<>>, <<>>>> /\ w[4].strings = <<<<"error:">>, <<>>, <<>>>>
      /\ w[1].type = -1 /\ w[2].type = -2 /\ w[3].type = -2 /\ w[4].type = -2
  <2>1. Len(w) = 4 /\ DOMAIN w = 1..4
    BY DEF warn_fmts
  <2>2. w[3].strings = <<<<"Error:">>, <<>>, <<>>>>
    BY DEF warn_fmts
  <2>3. w[4].strings = <<<<"error:">>, <<>>, <<>>>>
    BY DEF warn_fmts
  <2>4. w[1].type = -1 /\ w[2].type = -2 /\ w[3].type = -2 /\ w[4].type = -2
    BY DEF warn_fmts
  <2> QED  BY <2>1, <2>2, <2>3, <2>4, Zenon
<1>2. w \in Seq(Rows)
  <2>1. \A i \in 1..4 : w[i] \in Rows
    BY DEF Rows
  <2>2. w = [i \in 1..4 |-> w[i]]
    BY DEF warn_fmts
  <2> HIDE DEF w
  <2> QED  BY <2>1, <2>2
<1> HIDE DEF w
<1>3. \A i \in 1..4 : w[i].type \in Negative
  <2>1. \A i \in 1..4 : i = 1 \/ i = 2 \/ i = 3 \/ i = 4
    OBVIOUS
  <2> QED  BY <1>1, <2>1 DEF Negative
<1>4. Leading(w, 3, 4)
  BY <1>1, <1>3 DEF Leading
<1> QED  BY <1>2, <1>4 DEF Imported, w

(* A row that is put before the last two moves them on.                     *)
LEMMA BeforeLastTwo ==
  ASSUME NEW S, NEW q \in Seq(S), NEW x \in S, NEW n \in Nat, Len(q) = n, n >= 2
  PROVE  LET p == SubSeq(q, 1, n - 2) \o <<x, q[n - 1], q[n]>>
         IN  /\ p \in Seq(S) /\ Len(p) = n + 1
             /\ \A i \in 1..n-2 : p[i] = q[i]
             /\ p[n - 1] = x /\ p[n] = q[n - 1] /\ p[n + 1] = q[n]
<1> DEFINE head == SubSeq(q, 1, n - 2)
           tail == <<x, q[n - 1], q[n]>>
           p == head \o tail
<1>1. n - 2 \in Nat /\ n - 1 \in 1..n /\ n \in 1..n
  OBVIOUS
<1>2. head \in Seq(S) /\ Len(head) = n - 2 /\ \A i \in 1..n-2 : head[i] = q[i]
  BY <1>1, SubSeqProperties, PartsOfPrefix
<1>3. q[n - 1] \in S /\ q[n] \in S
  BY <1>1, ElementOfSeq
<1>4. tail \in Seq(S) /\ Len(tail) = 3 /\ tail[1] = x /\ tail[2] = q[n - 1] /\ tail[3] = q[n]
  BY <1>3
<1> HIDE DEF head, tail
<1>5. /\ p \in Seq(S) /\ Len(p) = Len(head) + Len(tail)
      /\ \A i \in 1..Len(head) + Len(tail) : p[i] = IF i <= Len(head) THEN head[i] ELSE tail[i - Len(head)]
  <2>1. head \in Seq(S) /\ tail \in Seq(S)
    BY <1>2, <1>4
  <2> QED  BY <2>1, ConcatProperties
<1> HIDE DEF p
<1>6. \A i \in 1..n-2 : p[i] = q[i]
  <2>1. ASSUME NEW i \in 1..n-2 PROVE i \in 1..Len(head) + Len(tail) /\ i <= Len(head) /\ head[i] = q[i]
    BY <1>2, <1>4
  <2>2. ASSUME NEW i \in 1..n-2 PROVE p[i] = q[i]
    <3>1. p[i] = head[i]
      BY <1>5, <2>1
    <3> QED  BY <2>1, <3>1
  <2> QED  BY <2>2
<1>7. p[n - 1] = x /\ p[n] = q[n - 1] /\ p[n + 1] = q[n]
  <2>1. p[n - 1] = tail[1]
    BY <1>2, <1>4, <1>5
  <2>2. p[n] = tail[2]
    BY <1>2, <1>4, <1>5
  <2>3. p[n + 1] = tail[3]
    BY <1>2, <1>4, <1>5
  <2> QED  BY <1>4, <2>1, <2>2, <2>3
<1>8. Len(p) = n + 1
  BY <1>2, <1>4, <1>5
<1> QED  BY <1>5, <1>6, <1>7, <1>8 DEF head, tail, p

LEMMA InsertKeeps ==
  ASSUME NEW rows \in Imported, NEW row \in Rows
  PROVE  Insert(rows, row) \in Imported
<1> DEFINE n == Len(rows)
           new == Insert(rows, row)
<1>1. rows \in Seq(Rows) /\ n \in Nat /\ DOMAIN rows = 1..n
  BY LenProperties DEF Imported
<1>2. PICK a \in Nat, b \in Nat : Leading(rows, a, b)
  BY DEF Imported
<1>3. a \in 1..n /\ b \in 1..n /\ a < b /\ n >= 2
  BY <1>1, <1>2 DEF Leading
<1> HIDE DEF n, new
<1>4. CASE row.type = -9
  <2>1. new = SubSeq(rows, 1, n - 2) \o <<row, rows[n - 1], rows[n]>>
    BY <1>4 DEF Insert, new, n
  <2>2. /\ new \in Seq(Rows) /\ Len(new) = n + 1
        /\ \A i \in 1..n-2 : new[i] = rows[i]
        /\ new[n - 1] = row /\ new[n] = rows[n - 1] /\ new[n + 1] = rows[n]
    <3>1. rows \in Seq(Rows) /\ n \in Nat /\ n >= 2
      BY <1>1, <1>3
    <3>2. Len(rows) = n
      BY DEF n
    <3> DEFINE p == SubSeq(rows, 1, n - 2) \o <<row, rows[n - 1], rows[n]>>
    <3>3. /\ p \in Seq(Rows) /\ Len(p) = n + 1
          /\ \A i \in 1..n-2 : p[i] = rows[i]
          /\ p[n - 1] = row /\ p[n] = rows[n - 1] /\ p[n + 1] = rows[n]
      BY <3>1, <3>2, BeforeLastTwo
    <3> QED  BY <2>1, <3>3
  <2> DEFINE To(i) == IF i <= n - 2 THEN i ELSE i + 1
  <2>3. \A i \in 1..n : To(i) \in 1..n+1 /\ new[To(i)] = rows[i]
    <3>1. \A i \in 1..n : i \in 1..n-2 \/ i = n - 1 \/ i = n
      BY <1>1
    <3> QED  BY <1>1, <1>3, <2>2, <3>1
  <2>4. To(a) \in Nat /\ To(b) \in Nat /\ To(a) < To(b)
    BY <1>1, <1>3
  <2>5. \A i \in 1..To(b) : new[i].type \in Negative
    <3>1. TAKE i \in 1..To(b)
    <3>2. CASE i <= n - 2
      <4>1. i \in 1..n-2 /\ i \in 1..b
        BY <1>1, <1>3, <3>2
      <4> QED  BY <1>2, <2>2, <4>1 DEF Leading
    <3>3. CASE i = n - 1
      BY <1>4, <2>2, <3>3 DEF Negative
    <3>4. CASE i = n \/ i = n + 1
      <4>1. i - 1 \in 1..b /\ i - 1 \in 1..n /\ To(i - 1) = i
        BY <1>1, <1>3, <3>4
      <4> QED  BY <1>2, <2>3, <4>1 DEF Leading
    <3>5. i <= n + 1
      BY <1>1, <1>3
    <3> QED  BY <1>1, <3>2, <3>3, <3>4, <3>5
  <2>6. DOMAIN new = 1..n+1
    BY <2>2, LenProperties
  <2> HIDE DEF To
  <2>7. Leading(new, To(a), To(b))
    BY <1>2, <1>3, <2>3, <2>4, <2>5, <2>6 DEF Leading
  <2> QED  BY <2>2, <2>4, <2>7 DEF Imported, new
<1>5. CASE row.type # -9
  <2>1. new = Append(rows, row)
    BY <1>5 DEF Insert, new
  <2>2. new \in Seq(Rows) /\ Len(new) = n + 1 /\ \A i \in 1..n : new[i] = rows[i]
    BY <1>1, <2>1, AppendProperties DEF n
  <2>3. DOMAIN new = 1..n+1
    BY <2>2, LenProperties
  <2>4. \A i \in 1..b : new[i].type \in Negative
    BY <1>1, <1>2, <1>3, <2>2 DEF Leading
  <2>5. Leading(new, a, b)
    BY <1>1, <1>2, <1>3, <2>2, <2>3, <2>4 DEF Leading
  <2> QED  BY <2>2, <2>5 DEF Imported, new
<1> QED  BY <1>4, <1>5

LEMMA ImportIs ==
  ASSUME NEW file, file.entries \in Seq(Entries)
  PROVE  Import(file) \in Imported
<1> DEFINE read == IF file.ends \/ file.entries = <<>> THEN file.entries ELSE Front(file.entries)
           I == [k \in Nat |-> Imported]
<1>1. read \in Seq(Entries)
  BY FrontAndLast
<1>2. Import(file) = Fold("import", 0, warn_fmts, read)
  BY ImportIsFold
<1> HIDE DEF read
<1>3. Len(read) \in Nat
  BY <1>1, LenProperties
<1>4. warn_fmts \in I[0]
  BY ImportStarts
<1>5. ASSUME NEW k \in 1..Len(read), NEW d \in I[k-1]
      PROVE  Step("import", 0, d, read[k]) \in I[k]
  <2>1. k \in Nat /\ k-1 \in Nat /\ d \in Imported
    BY <1>3
  <2>2. read[k] \in Entries
    BY <1>1, ElementOfSeq
  <2>3. Row(read[k]) \in Rows
    BY <2>2 DEF Rows
  <2>4. ImportStep(d, read[k]) \in Imported
    BY <2>1, <2>3, InsertKeeps DEF ImportStep
  <2>5. Step("import", 0, d, read[k]) \in Imported
    BY <2>4 DEF Step
  <2> QED  BY <2>1, <2>5
<1> HIDE DEF I
<1>6. Fold("import", 0, warn_fmts, read) \in I[Len(read)]
  BY <1>1, <1>4, <1>5, FoldKeeps
<1> QED  BY <1>2, <1>3, <1>6 DEF I

(* A line with an error in it is given an error's type.                     *)
LEMMA ErrorsAreFound ==
  ASSUME NEW rows \in Imported, NEW text \in Seq(STRING), NEW word \in {"error:", "Error:"}, word \in ToSet(text)
  PROVE  TypeOf(rows, text) \in Negative
<1> DEFINE hits == {i \in DOMAIN rows : Matches(rows[i], text)}
           n == Len(text)
<1>1. PICK a \in Nat, b \in Nat : Leading(rows, a, b)
  BY DEF Imported
<1>2. n \in Nat /\ DOMAIN rows = 1..Len(rows) /\ Len(rows) \in Nat
  BY LenProperties DEF Imported
<1>3. PICK at \in 1..n : text[at] = word
  BY DEF ToSet
<1>4. SubSeq(text, at, at) = <<word>>
  <2>1. Len(SubSeq(text, at, at)) = 1 /\ SubSeq(text, at, at)[1] = text[at] /\ SubSeq(text, at, at) \in Seq(STRING)
    BY <1>2
  <2>2. SubSeq(text, at, at) = [i \in 1..1 |-> word]
    BY <1>3, <2>1
  <2> QED  BY <2>1, <2>2
<1>5. FoundAt(text, <<word>>) # {} /\ FoundAt(text, <<>>) # {}
  <2>1. at \in 1..(n + 1 - 1) /\ at + 1 - 1 = at /\ Len(<<word>>) = 1 /\ Len(<<>>) = 0
    BY <1>2
  <2>2. at \in FoundAt(text, <<word>>)
    BY <1>2, <1>4, <2>1 DEF FoundAt
  <2>3. SubSeq(text, 1, 0) = <<>> /\ 1 \in 1..(n + 1 - 0) /\ 1 + 0 - 1 = 0
    BY <1>2
  <2>4. 1 \in FoundAt(text, <<>>)
    BY <2>1, <2>3 DEF FoundAt
  <2> QED  BY <2>2, <2>4
<1>6. \E i \in hits : i <= b
  <2> DEFINE i == IF word = "Error:" THEN a ELSE b
  <2>1. rows[i].strings = <<<<word>>, <<>>, <<>>>> /\ i \in DOMAIN rows /\ i <= b
    BY <1>1 DEF Leading
  <2> HIDE DEF i
  <2>2. rows[i].strings[1] = <<word>> /\ rows[i].strings[2] = <<>> /\ rows[i].strings[3] = <<>>
    BY <2>1
  <2>3. Matches(rows[i], text)
    BY <1>5, <2>2 DEF Matches
  <2> QED  BY <2>1, <2>3
<1>7. hits \in SUBSET Nat /\ hits # {}
  BY <1>2, <1>6
<1>8. Min(hits) \in hits /\ Min(hits) <= b /\ Min(hits) \in 1..b
  <2>1. Min(hits) \in hits /\ \A x \in hits : Min(hits) <= x
    BY <1>7, LowestOf
  <2>2. PICK i \in hits : i <= b
    BY <1>6
  <2> DEFINE m == Min(hits)
  <2>3. m \in hits /\ m <= i /\ i \in Nat /\ m \in Nat /\ m >= 1
    BY <1>2, <1>7, <2>1, <2>2
  <2> HIDE DEF m, hits
  <2>4. m <= b /\ m \in 1..b
    BY <2>2, <2>3
  <2> QED  BY <2>3, <2>4 DEF m
<1>9. TypeOf(rows, text) = rows[Min(hits)].type
  BY <1>7 DEF TypeOf
<1> QED  BY <1>1, <1>8, <1>9 DEF Leading

-----------------------------------------------------------------------------
(* siftWarnMain: what every line leaves behind.                             *)

PathSet == [abs : BOOLEAN, parts : Seq(Components), dotted : BOOLEAN]

LEMMA PathsArePaths ==
  ASSUME NEW file \in Paths
  PROVE  file \in PathSet
<1>1. STRING \subseteq Components
  BY DEF Components
<1>2. file.parts \in Seq(STRING) /\ file \in [abs : BOOLEAN, parts : Seq(STRING), dotted : BOOLEAN]
  BY DEF Paths
<1>3. file.parts \in Seq(Components)
  BY <1>1, <1>2, SeqMonotonic
<1> QED  BY <1>2, <1>3 DEF PathSet

LEMMA LookedType ==
  ASSUME NEW j, IsSift(j), NEW file \in Paths
  PROVE  Looked(j, file) \in PathSet
<1>1. ASSUME NEW k \in 1..2, Hits(j, k, file) # {}
      PROVE  Beside(j, k, Max(Hits(j, k, file)), file) \in PathSet
  <2> DEFINE i == Max(Hits(j, k, file))
             m == j.modules[k][i]
             all == m \o file.parts
  <2>1. m \in Seq(STRING) /\ file.parts \in Seq(STRING) /\ file.dotted \in BOOLEAN
    BY <1>1, LastHit DEF Paths
  <2>2. Beside(j, k, i, file) = Path(FALSE, all, file.dotted)
    BY DEF Beside
  <2>3. all \in Seq(STRING)
    <3> HIDE DEF m
    <3> QED  BY <2>1, ConcatProperties
  <2> HIDE DEF all, i
  <2>4. all \in Seq(Components)
    <3>1. STRING \subseteq Components
      BY DEF Components
    <3> QED  BY <2>3, <3>1, SeqMonotonic
  <2>5. Path(FALSE, all, file.dotted) \in PathSet
    BY <2>1, <2>4 DEF Path, PathSet
  <2> QED  BY <2>2, <2>5 DEF i
<1>2. \/ Looked(j, file) = file
      \/ Hits(j, 1, file) # {} /\ Looked(j, file) = Beside(j, 1, Max(Hits(j, 1, file)), file)
      \/ Hits(j, 2, file) # {} /\ Looked(j, file) = Beside(j, 2, Max(Hits(j, 2, file)), file)
  BY DEF Looked
<1>3. 1 \in 1..2 /\ 2 \in 1..2 /\ file \in PathSet
  BY PathsArePaths
<1> QED  BY <1>1, <1>2, <1>3

LEMMA ResolvedType ==
  ASSUME NEW j, IsSift(j), NEW file \in Paths
  PROVE  Resolved(j, file) \in PathSet
<1>1. CASE Resolves(j, file)
  <2>1. Resolved(j, file) \in [abs : BOOLEAN, parts : Seq(Components), dotted : {TRUE}]
    BY <1>1, ResolvedIsPath
  <2> QED  BY <2>1 DEF PathSet
<1>2. CASE ~Resolves(j, file)
  BY <1>2, PathsArePaths DEF Resolved
<1> QED  BY <1>1, <1>2

Known == PathSet \cup {None}

Told == [what : {"line", "info", "sum"}, n : Nat, path : Known, included : Known]

Sifts ==
  [warns : Int, errors : Int, serious : Int, suppressed : Int, hidden : Int, failed : BOOLEAN, raised : Int,
   headers : Seq(Nat), last : Known, sources : Seq(PathSet), shown : Seq(Told), aborted : BOOLEAN]

FileOf(j, n) == j.lines[n].file

(* Every path that is shown is the resolved one, and an inclusion line says *)
(* that the file of the line before it was included.                        *)
FitsAt(j, q, i) ==
  /\ q[i].what \in {"line", "info"} => q[i].path = Resolved(j, FileOf(j, q[i].n))
  /\ q[i].what = "info" =>
       /\ i > 1
       /\ Resolves(j, FileOf(j, q[i - 1].n)) => q[i].included = Resolved(j, FileOf(j, q[i - 1].n))

Fits(j, k, q) ==
  /\ q \in Seq(Told)
  /\ \A i \in 1..Len(q) : q[i].n \in 1..k /\ FitsAt(j, q, i)

(* The line of a fatal error is shown as it is.                             *)
Sound(j, k) ==
  {s \in Sifts :
     /\ s.headers \in Seq(1..k)
     /\ ~s.aborted => Fits(j, k, s.shown)
     /\ s.aborted => \E q \in Seq(Told), e \in Told :
                       s.shown = Append(q, e) /\ Fits(j, k, q) /\ e.n \in 1..k /\ e.what = "line"}

(* The lines that are shown.                                                *)
Has(s) == {s.shown[i].n : i \in 1..Len(s.shown)}

IsError(j, n) == \E w \in ToSet(j.lines[n].text) : w \in {"error:", "Error:"}

(* Every line with an error in it has failed the build, and is shown.       *)
Tells(j, k) ==
  {s \in Sifts : ~s.aborted => \A n \in 1..k : IsError(j, n) => s.failed /\ (~j.silent => n \in Has(s))}

LEMMA FitsMore ==
  ASSUME NEW j, NEW k \in Nat, NEW q, Fits(j, k, q)
  PROVE  Fits(j, k+1, q)
BY DEF Fits

LEMMA FitsAppend ==
  ASSUME NEW j, NEW k \in Nat, NEW q, Fits(j, k, q), NEW e \in Told, e.n \in 1..k,
         e.what \in {"line", "info"} => e.path = Resolved(j, FileOf(j, e.n)),
         e.what = "info" => /\ q # <<>>
                            /\ Resolves(j, FileOf(j, q[Len(q)].n)) => e.included = Resolved(j, FileOf(j, q[Len(q)].n))
  PROVE  Fits(j, k, Append(q, e))
<1> DEFINE p == Append(q, e)
           n == Len(q)
<1>1. q \in Seq(Told) /\ n \in Nat
  BY LenProperties DEF Fits
<1>2. p \in Seq(Told) /\ Len(p) = n + 1 /\ p[n+1] = e /\ \A i \in 1..n : p[i] = q[i]
  BY <1>1, AppendProperties
<1> HIDE DEF p
<1>3. ASSUME NEW i \in 1..n PROVE p[i].n \in 1..k /\ FitsAt(j, p, i)
  <2>1. p[i] = q[i] /\ (i > 1 => p[i-1] = q[i-1])
    BY <1>1, <1>2
  <2>2. q[i].n \in 1..k /\ FitsAt(j, q, i)
    BY DEF Fits
  <2> QED  BY <2>1, <2>2 DEF FitsAt
<1>4. p[n+1].n \in 1..k /\ FitsAt(j, p, n+1)
  <2>1. e.what = "info" => n+1 > 1 /\ p[(n+1)-1] = q[n]
    BY <1>1, <1>2, EmptySeq
  <2> QED  BY <1>2, <2>1 DEF FitsAt, n
<1>5. \A i \in 1..n+1 : i \in 1..n \/ i = n+1
  BY <1>1
<1> QED  BY <1>2, <1>3, <1>4, <1>5 DEF Fits, p

LEMMA HasAppend ==
  ASSUME NEW s \in Sifts, NEW t \in Sifts, NEW e \in Told, t.shown = Append(s.shown, e)
  PROVE  Has(t) = Has(s) \cup {e.n}
<1> DEFINE q == s.shown
           p == t.shown
           n == Len(q)
<1>1. q \in Seq(Told) /\ n \in Nat
  BY LenProperties DEF Sifts
<1>2. Len(p) = n + 1 /\ p[n+1] = e /\ \A i \in 1..n : p[i] = q[i]
  BY <1>1, AppendProperties
<1>3. \A i \in 1..n+1 : i \in 1..n \/ i = n+1
  BY <1>1
<1>4. Has(s) = {q[i].n : i \in 1..n} /\ Has(t) = {p[i].n : i \in 1..n+1}
  BY <1>2 DEF Has
<1> HIDE DEF p, q, n
<1>5. n+1 \in 1..n+1 /\ \A i \in 1..n : i \in 1..n+1
  BY <1>1
<1> QED  BY <1>2, <1>3, <1>4, <1>5

(* What is kept of a path that is shown.                                    *)
LEMMA PathShown ==
  ASSUME NEW j, IsSift(j), NEW s \in Sifts, NEW file \in Paths
  PROVE  LET t == ShowPath(s, j, file)
         IN  /\ t \in Sifts /\ t.shown = s.shown /\ t.headers = s.headers
             /\ t.failed = s.failed /\ t.aborted = s.aborted
             /\ t.last = IF Resolves(j, file) THEN Resolved(j, file) ELSE s.last
<1> DEFINE kept == Kept(s, j, file)
           new == IF Resolves(j, file) THEN Resolved(j, file) ELSE s.last
<1>1. kept \in Seq(PathSet)
  <2>1. s.sources \in Seq(PathSet) /\ Looked(j, file) \in PathSet
    BY LookedType DEF Sifts
  <2> QED  BY <2>1, AppendProperties DEF Kept
<1>2. new \in Known
  BY ResolvedType DEF Known, Sifts
<1>3. ShowPath(s, j, file) = [s EXCEPT !.sources = kept, !.last = new]
  BY DEF ShowPath
<1> HIDE DEF kept, new
<1>4. [s EXCEPT !.sources = kept, !.last = new] \in Sifts
  BY <1>1, <1>2 DEF Sifts
<1>5. LET t == [s EXCEPT !.sources = kept, !.last = new]
      IN  /\ t.shown = s.shown /\ t.headers = s.headers
          /\ t.failed = s.failed /\ t.aborted = s.aborted /\ t.last = new
  BY DEF Sifts
<1> QED  BY <1>3, <1>4, <1>5 DEF new

-----------------------------------------------------------------------------
(* While a line is shown with its inclusion tree: the path of the file that *)
(* was shown last is kept, if it was resolved.                              *)
Tree(j, k, s) ==
  {t \in Sifts :
     /\ ~t.aborted /\ t.failed = s.failed /\ t.headers = s.headers
     /\ Fits(j, k, t.shown) /\ t.shown # <<>>
     /\ Resolves(j, FileOf(j, t.shown[Len(t.shown)].n)) =>
          t.last = Resolved(j, FileOf(j, t.shown[Len(t.shown)].n))
     /\ Has(s) \cup {k} \subseteq Has(t)}

LEMMA TreeAppend ==
  ASSUME NEW j, IsSift(j), NEW k \in Nat, NEW s \in Sifts, NEW t \in Sifts, NEW h \in 1..k, FileOf(j, h) \in Paths,
         NEW what \in {"line", "info"}, NEW included \in Known, NEW u,
         ~t.aborted, t.failed = s.failed, t.headers = s.headers, Fits(j, k, t.shown),
         what = "info" => /\ t.shown # <<>>
                          /\ Resolves(j, FileOf(j, t.shown[Len(t.shown)].n)) =>
                               included = Resolved(j, FileOf(j, t.shown[Len(t.shown)].n)),
         Has(s) \cup {k} \subseteq Has(t) \cup {h},
         u = [ShowPath(t, j, FileOf(j, h)) EXCEPT
                !.shown = Says(t, what, h, Resolved(j, FileOf(j, h)), included)]
  PROVE  u \in Tree(j, k, s)
<1> DEFINE file == FileOf(j, h)
           e == [what |-> what, n |-> h, path |-> Resolved(j, file), included |-> included]
           q == Append(t.shown, e)
           p == ShowPath(t, j, file)
<1>1. e \in Told /\ e.n = h /\ e.what = what /\ e.path = Resolved(j, file) /\ e.included = included
  <2>1. Resolved(j, file) \in Known /\ h \in Nat
    BY ResolvedType DEF Known
  <2> HIDE DEF file
  <2> QED  BY <2>1 DEF Told
<1>2. u = [p EXCEPT !.shown = q]
  BY DEF Says
<1>3. /\ p \in Sifts /\ p.headers = t.headers /\ p.failed = t.failed /\ p.aborted = t.aborted
      /\ p.last = IF Resolves(j, file) THEN Resolved(j, file) ELSE t.last
  BY PathShown
<1> HIDE DEF e, p
<1>4. t.shown \in Seq(Told)
  BY DEF Sifts
<1>5. q \in Seq(Told) /\ q # <<>> /\ q[Len(q)] = e
  BY <1>1, <1>4, AppendProperties
<1>6. Fits(j, k, q)
  BY <1>1, FitsAppend
<1>7. /\ u \in Sifts /\ u.shown = q /\ u.headers = p.headers /\ u.failed = p.failed /\ u.aborted = p.aborted
      /\ u.last = p.last
  <2> HIDE DEF q
  <2> QED  BY <1>2, <1>3, <1>5 DEF Sifts
<1>8. Has(u) = Has(t) \cup {h}
  <2>1. u \in Sifts /\ e \in Told /\ u.shown = Append(t.shown, e)
    BY <1>1, <1>7
  <2>2. Has(u) = Has(t) \cup {e.n}
    BY <2>1, HasAppend
  <2> QED  BY <1>1, <2>2
<1>9. Resolves(j, FileOf(j, u.shown[Len(u.shown)].n)) => u.last = Resolved(j, FileOf(j, u.shown[Len(u.shown)].n))
  BY <1>1, <1>3, <1>5, <1>7
<1> HIDE DEF q
<1> QED  BY <1>3, <1>5, <1>6, <1>7, <1>8, <1>9 DEF Tree

LEMMA HeaderKeeps ==
  ASSUME NEW j, IsSift(j), NEW k \in Nat, NEW s \in Sifts, NEW t \in Tree(j, k, s), NEW h \in 1..k, FileOf(j, h) \in Paths
  PROVE  ShowHeader(t, j, h) \in Tree(j, k, s)
<1>1. /\ t \in Sifts /\ ~t.aborted /\ t.failed = s.failed /\ t.headers = s.headers
      /\ Fits(j, k, t.shown) /\ t.shown # <<>>
      /\ Resolves(j, FileOf(j, t.shown[Len(t.shown)].n)) =>
           t.last = Resolved(j, FileOf(j, t.shown[Len(t.shown)].n))
      /\ Has(s) \cup {k} \subseteq Has(t)
  BY DEF Tree
<1>2. t.last \in Known
  BY <1>1 DEF Sifts
<1>3. ShowHeader(t, j, h) = [ShowPath(t, j, FileOf(j, h)) EXCEPT
                !.shown = Says(t, "info", h, Resolved(j, FileOf(j, h)), t.last)]
  BY DEF ShowHeader, FileOf
<1>4. Has(s) \cup {k} \subseteq Has(t) \cup {h}
  BY <1>1
<1> QED  BY <1>1, <1>2, <1>3, <1>4, TreeAppend

(* A line that is shown is shown with the lines that lead to it.            *)
LEMMA ShowKeeps ==
  ASSUME NEW j, IsSift(j), NEW k \in 1..Len(j.lines), NEW s \in Sound(j, k), ~s.aborted
  PROVE  LET t == Show(s, j, j.lines[k], k)
         IN  /\ t \in Sound(j, k) /\ ~t.aborted /\ t.failed = s.failed /\ Has(s) \subseteq Has(t)
             /\ ~j.silent => k \in Has(t)
<1> DEFINE told == [ShowPath(s, j, FileOf(j, k)) EXCEPT !.shown = Says(s, "line", k, Resolved(j, FileOf(j, k)), None)]
           tree == Fold("header", j, told, s.headers)
           t == Show(s, j, j.lines[k], k)
           I == [i \in Nat |-> Tree(j, k, s)]
<1>0. k \in Nat \ {0} /\ k \in 1..k /\ k <= Len(j.lines) /\ Len(j.lines) \in Nat
  BY LenProperties DEF IsSift
<1>1. s \in Sifts /\ s.headers \in Seq(1..k) /\ Fits(j, k, s.shown)
  BY DEF Sound
<1>2. \A h \in 1..k : FileOf(j, h) \in Paths
  <2>1. j.lines \in Seq(Lines)
    BY DEF IsSift
  <2>2. \A h \in 1..k : h \in 1..Len(j.lines)
    BY <1>0
  <2>3. \A h \in 1..k : j.lines[h] \in Lines
    BY <2>1, <2>2, ElementOfSeq
  <2> QED  BY <2>3 DEF Lines, FileOf
<1>3. told \in Tree(j, k, s)
  <2>1. None \in Known /\ Has(s) \cup {k} \subseteq Has(s) \cup {k}
    BY DEF Known
  <2>2. FileOf(j, k) \in Paths
    BY <1>0, <1>2
  <2> HIDE DEF told
  <2>3. told = [ShowPath(s, j, FileOf(j, k)) EXCEPT !.shown = Says(s, "line", k, Resolved(j, FileOf(j, k)), None)]
    BY DEF told
  <2> QED  BY <1>0, <1>1, <2>1, <2>2, <2>3, TreeAppend
<1>4. t = IF j.silent THEN s ELSE [tree EXCEPT !.headers = <<>>]
  <2>1. Through(LAMBDA x, h : ShowHeader(x, j, h), told, s.headers) = tree
    BY TreeIsFold
  <2> HIDE DEF tree
  <2> QED  BY <2>1 DEF Show, FileOf
<1> HIDE DEF told, t
<1>5. Len(s.headers) \in Nat
  BY <1>1, LenProperties
<1>6. ASSUME NEW i \in 1..Len(s.headers), NEW d \in I[i-1]
      PROVE  Step("header", j, d, s.headers[i]) \in I[i]
  <2>1. i \in Nat /\ i-1 \in Nat /\ d \in Tree(j, k, s)
    BY <1>5
  <2>2. s.headers[i] \in 1..k
    BY <1>1, ElementOfSeq
  <2>3. ShowHeader(d, j, s.headers[i]) \in Tree(j, k, s)
    BY <1>0, <1>1, <1>2, <2>1, <2>2, HeaderKeeps
  <2>4. Step("header", j, d, s.headers[i]) = ShowHeader(d, j, s.headers[i])
    BY DEF Step
  <2> QED  BY <2>1, <2>3, <2>4
<1>7. tree \in Tree(j, k, s)
  <2>1. told \in I[0]
    BY <1>3
  <2> HIDE DEF I
  <2>2. tree \in I[Len(s.headers)]
    BY <1>1, <1>6, <2>1, FoldKeeps
  <2> QED  BY <1>5, <2>2 DEF I
<1> HIDE DEF tree
<1>8. CASE j.silent
  <2>1. t = s
    BY <1>4, <1>8
  <2> QED  BY <1>8, <2>1 DEF t
<1>9. CASE ~j.silent
  <2>1. t = [tree EXCEPT !.headers = <<>>]
    BY <1>4, <1>9
  <2>2. /\ tree \in Sifts /\ ~tree.aborted /\ tree.failed = s.failed /\ Fits(j, k, tree.shown)
        /\ Has(s) \cup {k} \subseteq Has(tree)
    BY <1>7 DEF Tree
  <2>3. /\ t \in Sifts /\ t.headers = <<>> /\ t.shown = tree.shown /\ t.aborted = tree.aborted /\ t.failed = tree.failed
    <3>1. <<>> \in Seq(Nat) /\ tree \in Sifts
      BY <2>2, EmptySeq
    <3>2. [tree EXCEPT !.headers = <<>>] \in Sifts
      BY <3>1 DEF Sifts
    <3>3. LET u == [tree EXCEPT !.headers = <<>>]
          IN  u.headers = <<>> /\ u.shown = tree.shown /\ u.aborted = tree.aborted /\ u.failed = tree.failed
      BY <3>1 DEF Sifts
    <3> QED  BY <2>1, <3>2, <3>3
  <2>4. Has(t) = Has(tree)
    BY <2>3 DEF Has
  <2>5. t \in Sound(j, k)
    <3>1. t.headers \in Seq(1..k) /\ Fits(j, k, t.shown) /\ ~t.aborted
      BY <2>2, <2>3, EmptySeq
    <3> QED  BY <2>3, <3>1 DEF Sound
  <2> QED  BY <2>2, <2>3, <2>4, <2>5 DEF t
<1> QED  BY <1>8, <1>9

-----------------------------------------------------------------------------
(* What is sound of the first lines is sound of one more.                   *)
LEMMA SoundMore ==
  ASSUME NEW j, NEW k \in Nat \ {0}, NEW s \in Sound(j, k-1)
  PROVE  s \in Sound(j, k)
<1>1. k-1 \in Nat /\ (k-1)+1 = k /\ 1..k-1 \subseteq 1..k
  OBVIOUS
<1>2. s \in Sifts /\ s.headers \in Seq(1..k-1)
  BY DEF Sound
<1>3. s.headers \in Seq(1..k)
  BY <1>1, <1>2, SeqMonotonic
<1>4. \A q : Fits(j, k-1, q) => Fits(j, k, q)
  BY <1>1, FitsMore
<1>5. ~s.aborted => Fits(j, k, s.shown)
  BY <1>4 DEF Sound
<1>6. s.aborted => \E q \in Seq(Told), e \in Told :
                     s.shown = Append(q, e) /\ Fits(j, k, q) /\ e.n \in 1..k /\ e.what = "line"
  BY <1>1, <1>4 DEF Sound
<1> QED  BY <1>2, <1>3, <1>5, <1>6 DEF Sound

(* A line without an error in it that changes the headers only.             *)
LEMMA HeadersKeep ==
  ASSUME NEW j, NEW k \in Nat, NEW s \in Sound(j, k), ~s.aborted, NEW t \in Sifts,
         t.shown = s.shown, t.failed = s.failed, ~t.aborted, t.headers \in Seq(1..k)
  PROVE  t \in Sound(j, k) /\ Has(t) = Has(s)
<1>1. Fits(j, k, s.shown)
  BY DEF Sound
<1>2. t \in Sound(j, k)
  BY <1>1 DEF Sound
<1>3. Has(t) = Has(s)
  BY DEF Has
<1> QED  BY <1>2, <1>3

LEMMA SearchKeeps ==
  ASSUME NEW j, IsSift(j), NEW k \in 1..Len(j.lines), NEW type, IsError(j, k) => type \in Negative,
         NEW s \in Sound(j, k-1) \cap Tells(j, k-1)
  PROVE  search_warn(s, j, type, j.lines[k], k) \in Sound(j, k) \cap Tells(j, k)
<1> DEFINE line == j.lines[k]
           t == search_warn(s, j, type, line, k)
<1>1. k \in Nat \ {0} /\ k \in 1..k /\ k <= Len(j.lines) /\ Len(j.lines) \in Nat
  BY LenProperties DEF IsSift
<1>2. line \in Lines
  BY ElementOfSeq DEF IsSift
<1>3. s \in Sound(j, k) /\ s \in Sifts
  BY <1>1, SoundMore DEF Sound
<1>4. \A n \in 1..k : n \in 1..k-1 \/ n = k
  BY <1>1
<1>5. ~s.aborted => \A n \in 1..k-1 : IsError(j, n) => s.failed /\ (~j.silent => n \in Has(s))
  BY DEF Tells
(* A line that is no error and leaves the rest as it was. *)
<1>6. ASSUME NEW u \in Sound(j, k), ~IsError(j, k), ~s.aborted, u.failed = s.failed, Has(s) \subseteq Has(u)
      PROVE  u \in Tells(j, k)
  BY <1>4, <1>5, <1>6 DEF Tells, Sound
<1> HIDE DEF t, line
<1>7. CASE s.aborted
  <2>1. t = s
    BY <1>7 DEF search_warn, t
  <2> QED  BY <1>3, <1>7, <2>1 DEF Tells, t, line
<1>8. CASE ~s.aborted /\ type = 0
  <2>1. t = [s EXCEPT !.suppressed = @ + 1, !.headers = <<>>]
    <3>1. type # -1 /\ ~Plain(type)
      BY <1>8 DEF Plain
    <3> QED  BY <1>8, <3>1, Zenon DEF search_warn, t
  <2>2. /\ t \in Sifts /\ t.shown = s.shown /\ t.failed = s.failed /\ t.aborted = s.aborted /\ t.headers = <<>>
    <3>1. <<>> \in Seq(Nat) /\ s.suppressed + 1 \in Int
      BY <1>3, EmptySeq DEF Sifts
    <3> QED  BY <1>3, <2>1, <3>1 DEF Sifts
  <2>3. <<>> \in Seq(1..k)
    BY EmptySeq
  <2>4. t \in Sound(j, k) /\ Has(t) = Has(s)
    <3>1. t \in Sifts /\ t.shown = s.shown /\ t.failed = s.failed /\ ~t.aborted
      BY <1>8, <2>2
    <3>2. t.headers \in Seq(1..k)
      BY <2>2, <2>3
    <3> QED  BY <1>1, <1>3, <1>8, <3>1, <3>2, HeadersKeep
  <2>5. ~IsError(j, k)
    BY <1>8 DEF Negative
  <2> QED  BY <1>6, <1>8, <2>2, <2>4, <2>5 DEF t, line
<1>9. CASE ~s.aborted /\ type = -1
  <2> DEFINE e == [what |-> "line", n |-> k, path |-> line.file, included |-> None]
             q == Append(s.shown, e)
  <2>1. t = [s EXCEPT !.aborted = TRUE, !.shown = q]
    <3>1. type # 0 /\ ~Plain(type)
      BY <1>9 DEF Plain
    <3> QED  BY <1>9, <3>1, Zenon DEF search_warn, t, Says
  <2>2. e \in Told /\ e.n \in 1..k /\ e.what = "line"
    <3>1. line.file \in Known /\ None \in Known
      BY <1>2, PathsArePaths DEF Known, Lines
    <3> QED  BY <1>1, <3>1 DEF Told
  <2>3. s.shown \in Seq(Told) /\ Fits(j, k, s.shown)
    BY <1>3, <1>9 DEF Sifts, Sound
  <2>4. q \in Seq(Told)
    BY <2>2, <2>3, AppendProperties
  <2> HIDE DEF q
  <2>5. t \in Sifts /\ t.aborted /\ t.shown = q /\ t.headers = s.headers
    BY <1>3, <2>1, <2>4 DEF Sifts
  <2>6. t \in Sound(j, k)
    <3>1. t.shown = Append(s.shown, e)
      BY <2>5 DEF q
    <3> HIDE DEF e
    <3>2. \E p \in Seq(Told), d \in Told : t.shown = Append(p, d) /\ Fits(j, k, p) /\ d.n \in 1..k /\ d.what = "line"
      BY <2>2, <2>3, <3>1
    <3>3. t.headers \in Seq(1..k)
      BY <1>3, <2>5 DEF Sound
    <3> QED  BY <2>5, <3>2, <3>3 DEF Sound
  <2> QED  BY <2>5, <2>6 DEF Tells, t, line
<1>10. CASE ~s.aborted /\ Plain(type) /\ line.from /\ ~j.silent
  <2>1. t = s \/ t = [s EXCEPT !.headers = Append(@, k)]
    BY <1>10 DEF search_warn, t, Plain
  <2>2. s.headers \in Seq(1..k)
    BY <1>3 DEF Sound
  <2>3. Append(s.headers, k) \in Seq(1..k) /\ Append(s.headers, k) \in Seq(Nat)
    <3>1. s.headers \in Seq(Nat)
      BY <1>3 DEF Sifts
    <3> QED  BY <1>1, <2>2, <3>1, AppendProperties
  <2>4. t \in Sifts /\ t.shown = s.shown /\ t.failed = s.failed /\ t.aborted = s.aborted /\ t.headers \in Seq(1..k)
    BY <1>3, <2>1, <2>2, <2>3 DEF Sifts
  <2>5. t \in Sound(j, k) /\ Has(t) = Has(s)
    BY <1>1, <1>3, <1>10, <2>4, HeadersKeep
  <2>6. ~IsError(j, k)
    BY <1>10 DEF Negative, Plain
  <2> QED  BY <1>6, <1>10, <2>4, <2>5, <2>6 DEF t, line
<1>11. CASE ~s.aborted /\ Plain(type) /\ ~(line.from /\ ~j.silent) /\ line.sum # <<>>
  <2> DEFINE u == [s EXCEPT !.warns = line.sum[1] - s.suppressed, !.errors = line.sum[2] + s.hidden,
                            !.serious = line.sum[3]]
             e == [what |-> "sum", n |-> k, path |-> None, included |-> None]
             q == Append(u.shown, e)
  <2>1. t = u \/ t = [u EXCEPT !.shown = q]
    BY <1>11 DEF search_warn, t, Summary, Says, Plain
  <2>2. /\ u \in Sifts /\ u.shown = s.shown /\ u.failed = s.failed /\ u.aborted = s.aborted /\ u.headers = s.headers
    <3>1. line.sum \in Nat \X Nat \X Nat
      BY <1>2, <1>11 DEF Lines
    <3>3. line.sum[1] \in Nat /\ line.sum[2] \in Nat /\ line.sum[3] \in Nat
      BY <3>1
    <3>2. line.sum[1] - s.suppressed \in Int /\ line.sum[2] + s.hidden \in Int /\ line.sum[3] \in Int
      <4>1. s.suppressed \in Int /\ s.hidden \in Int
        BY <1>3 DEF Sifts
      <4>2. \A a, b, c \in Nat : a - s.suppressed \in Int /\ b + s.hidden \in Int /\ c \in Int
        BY <4>1
      <4> QED  BY <3>3, <4>2, Zenon
    <3> QED  BY <1>3, <3>2 DEF Sifts
  <2> HIDE DEF u
  <2>3. u \in Sound(j, k) /\ Has(u) = Has(s)
    <3>1. s.headers \in Seq(1..k)
      BY <1>3 DEF Sound
    <3> QED  BY <1>1, <1>3, <1>11, <2>2, <3>1, HeadersKeep
  <2>4. e \in Told /\ e.n = k /\ e.what = "sum"
    BY <1>1 DEF Told, Known
  <2>5. u.shown \in Seq(Told) /\ Fits(j, k, u.shown) /\ u.headers \in Seq(1..k)
    BY <1>11, <2>2, <2>3 DEF Sifts, Sound
  <2>6. q \in Seq(Told) /\ Fits(j, k, q)
    <3> HIDE DEF e
    <3> QED  BY <1>1, <2>4, <2>5, AppendProperties, FitsAppend
  <2>7. t \in Sound(j, k) /\ Has(s) \subseteq Has(t) /\ t.failed = s.failed /\ ~t.aborted
    <3>1. CASE t = u
      BY <1>11, <2>2, <2>3, <3>1
    <3>2. CASE t = [u EXCEPT !.shown = q]
      <4>1. t \in Sifts /\ t.shown = q /\ t.failed = u.failed /\ t.aborted = u.aborted /\ t.headers = u.headers
        <5> HIDE DEF q
        <5> QED  BY <2>2, <2>6, <3>2 DEF Sifts
      <4>2. Has(t) = Has(u) \cup {e.n}
        BY <2>2, <2>4, <4>1, HasAppend
      <4> HIDE DEF q
      <4>3. t \in Sound(j, k)
        BY <1>11, <2>2, <2>5, <2>6, <4>1 DEF Sound
      <4> QED  BY <1>11, <2>2, <2>3, <4>1, <4>2, <4>3
    <3> QED  BY <2>1, <3>1, <3>2
  <2>8. ~IsError(j, k)
    BY <1>11 DEF Negative, Plain
  <2> QED  BY <1>6, <1>11, <2>7, <2>8 DEF t, line
<1>12. CASE /\ ~s.aborted /\ type # 0 /\ type # -1
            /\ ~(Plain(type) /\ line.from /\ ~j.silent) /\ ~(Plain(type) /\ line.sum # <<>>)
  <2> DEFINE m == Marked(s, type)
             c == Counted(m, type, line)
  <2>1. t = Show(c, j, line, k)
    BY <1>12 DEF search_warn, t, line
  <2>2. /\ m \in Sifts /\ m.shown = s.shown /\ m.headers = s.headers /\ m.aborted = s.aborted
        /\ s.failed => m.failed
        /\ type \in Negative => m.failed
    <3>1. CASE Plain(type)
      BY <1>3, <3>1 DEF Marked, Plain, Negative
    <3>2. CASE ~Plain(type) /\ type < -1
      <4> DEFINE h == s.hidden + (IF type < -2 THEN 1 ELSE 0)
      <4>1. m = [s EXCEPT !.failed = TRUE, !.hidden = h]
        BY <3>2 DEF Marked
      <4>2. h \in Int
        BY <1>3 DEF Sifts
      <4> HIDE DEF h
      <4> QED  BY <1>3, <4>1, <4>2 DEF Sifts
    <3>3. CASE ~Plain(type) /\ ~(type < -1)
      <4> DEFINE h == s.raised + (IF type = 6 THEN 1 ELSE 0)
      <4>1. m = [s EXCEPT !.raised = h]
        BY <3>3 DEF Marked
      <4>2. h \in Int
        BY <1>3 DEF Sifts
      <4>3. type \notin Negative
        BY <1>12, <3>3 DEF Negative
      <4> HIDE DEF h
      <4> QED  BY <1>3, <4>1, <4>2, <4>3 DEF Sifts
    <3> QED  BY <3>1, <3>2, <3>3
  <2> HIDE DEF m
  <2>3. /\ c \in Sifts /\ c.shown = m.shown /\ c.headers = m.headers /\ c.aborted = m.aborted /\ c.failed = m.failed
    <3> DEFINE told == IF Plain(type) /\ line.count # NoCount THEN line.count ELSE m.warns
               w == told + (IF \E x \in ToSet(line.text) : x = "warning:" THEN 1 ELSE 0)
    <3>1. c = [m EXCEPT !.warns = w]
      BY DEF Counted
    <3>2. told \in Int
      BY <1>2, <2>2 DEF Lines, Sifts, NoCount
    <3> HIDE DEF told
    <3>3. w \in Int
      BY <3>2
    <3> HIDE DEF w
    <3> QED  BY <2>2, <3>1, <3>3 DEF Sifts
  <2> HIDE DEF c
  <2>4. c \in Sound(j, k) /\ Has(c) = Has(s)
    <3>1. s.headers \in Seq(1..k) /\ Fits(j, k, s.shown)
      BY <1>3, <1>12 DEF Sound
    <3>2. c \in Sound(j, k)
      BY <1>12, <2>2, <2>3, <3>1 DEF Sound
    <3> QED  BY <2>2, <2>3, <3>2 DEF Has
  <2>5. /\ t \in Sound(j, k) /\ ~t.aborted /\ t.failed = c.failed /\ Has(c) \subseteq Has(t)
        /\ ~j.silent => k \in Has(t)
    <3>1. c \in Sound(j, k) /\ ~c.aborted
      BY <1>12, <2>2, <2>3, <2>4
    <3> QED  BY <2>1, <3>1, ShowKeeps DEF line
  <2>6. \A n \in 1..k : IsError(j, n) => t.failed /\ (~j.silent => n \in Has(t))
    <3>1. TAKE n \in 1..k
    <3>2. CASE n \in 1..k-1
      BY <1>5, <1>12, <2>2, <2>3, <2>4, <2>5, <3>2
    <3>3. CASE n = k
      BY <2>2, <2>3, <2>5, <3>3
    <3> QED  BY <1>4, <3>2, <3>3
  <2>7. t \in Tells(j, k)
    BY <2>5, <2>6 DEF Tells, Sound
  <2> QED  BY <2>5, <2>7 DEF t, line
<1> QED  BY <1>7, <1>8, <1>9, <1>10, <1>11, <1>12

LEMMA Unread ==
  ASSUME NEW j
  PROVE  Unsifted \in Sound(j, 0) \cap Tells(j, 0) /\ ~Unsifted.aborted
<1>1. <<>> \in Seq(Nat) /\ <<>> \in Seq(PathSet) /\ <<>> \in Seq(Told) /\ <<>> \in Seq(1..0) /\ None \in Known
  BY EmptySeq DEF Known
<1>2. Unsifted \in Sifts
  BY <1>1 DEF Unsifted, Sifts
<1>3. Unsifted.shown = <<>> /\ Unsifted.headers = <<>> /\ ~Unsifted.aborted
  BY DEF Unsifted
<1>4. Fits(j, 0, <<>>)
  BY <1>1 DEF Fits
<1>5. Unsifted \in Sound(j, 0)
  BY <1>1, <1>2, <1>3, <1>4 DEF Sound
<1>6. Unsifted \in Tells(j, 0)
  BY <1>2 DEF Tells
<1> QED  BY <1>3, <1>5, <1>6

(* siftWarnMain, whatever the job, its pattern file and its output.         *)
LEMMA SiftIs ==
  ASSUME NEW j, IsSift(j), NEW count \in 0..Len(j.lines)
  PROVE  siftWarnMain(j, Import(j.patterns), count) \in Sound(j, count) \cap Tells(j, count)
<1> DEFINE rows == Import(j.patterns)
           q == [n \in 1..count |-> [n |-> n, type |-> TypeOf(rows, j.lines[n].text)]]
           S == {q[n] : n \in 1..count}
           I == [k \in Nat |-> Sound(j, k) \cap Tells(j, k)]
<1>1. rows \in Imported
  BY ImportIs DEF IsSift
<1>2. siftWarnMain(j, rows, count) = Fold("sift", j, Unsifted, q)
  BY SiftIsFold
<1> HIDE DEF rows
<1>3. count \in Nat /\ count <= Len(j.lines) /\ Len(j.lines) \in Nat
  BY LenProperties DEF IsSift
<1>4. q \in Seq(S) /\ Len(q) = count
  BY <1>3
<1>5. Unsifted \in I[0]
  BY Unread
<1>6. ASSUME NEW k \in 1..count, NEW d \in I[k-1]
      PROVE  Step("sift", j, d, q[k]) \in I[k]
  <2>1. k \in Nat /\ k-1 \in Nat /\ d \in Sound(j, k-1) \cap Tells(j, k-1) /\ k \in 1..Len(j.lines)
    BY <1>3
  <2>2. q[k].n = k /\ q[k].type = TypeOf(rows, j.lines[k].text)
    OBVIOUS
  <2>3. IsError(j, k) => TypeOf(rows, j.lines[k].text) \in Negative
    <3>1. j.lines[k].text \in Seq(STRING)
      <4>1. j.lines[k] \in Lines
        BY <2>1, ElementOfSeq DEF IsSift
      <4> QED  BY <4>1 DEF Lines
    <3> QED  BY <1>1, <3>1, ErrorsAreFound DEF IsError
  <2> HIDE DEF I
  <2>4. SiftStep(j, d, q[k]) = search_warn(d, j, TypeOf(rows, j.lines[k].text), j.lines[k], k)
    BY <2>2 DEF SiftStep
  <2>5. SiftStep(j, d, q[k]) \in Sound(j, k) \cap Tells(j, k)
    BY <2>1, <2>3, <2>4, SearchKeeps
  <2>6. Step("sift", j, d, q[k]) = SiftStep(j, d, q[k])
    BY DEF Step
  <2> QED  BY <2>1, <2>5, <2>6 DEF I
<1> HIDE DEF I, q, S
<1>7. Fold("sift", j, Unsifted, q) \in I[Len(q)]
  BY <1>4, <1>5, <1>6, FoldKeeps
<1> QED  BY <1>2, <1>3, <1>4, <1>7 DEF I, rows

-----------------------------------------------------------------------------
(* ccdv's own state: what it has judged, it has judged with siftWarnMain.   *)

Written == left \in Nat /\ written + left = Units(job) /\ (Unjudged => used >= ArgsLen)

Fated ==
  /\ job \in Jobs /\ judged \in Nat
  /\ sift = siftWarnMain(job, Import(job.patterns), LinesIn(judged))
  /\ pc \in {"report", "exit"} /\ ~panicked /\ (sift.aborted \/ Condemned(sift, job)) => exitStatus # 0
  /\ deleted => gPathname(job.args) # NoFile

SInv == IInv /\ Written /\ Fated

LEMMA UnitsIs ==
  ASSUME NEW j \in Jobs
  PROVE  Units(j) \in Nat /\ Units(j) <= 2 * Len(j.lines) /\ Len(j.lines) \in Nat
<1>1. Len(j.lines) \in Nat /\ j.lines # <<>> /\ j.cut \in BOOLEAN
  BY LenProperties, CcdvConstants DEF IsSift
<1>2. Len(j.lines) > 0
  BY <1>1, CcdvConstants, EmptySeq DEF IsSift
<1> DEFINE n == Len(j.lines)
           cut == IF j.cut THEN 1 ELSE 0
<1>3. n \in Nat /\ n > 0
  BY <1>1, <1>2
<1>4. cut \in 0..1 /\ Units(j) = 2 * n - cut
  BY DEF Units
<1> HIDE DEF n, cut
<1>5. 2 * n - cut \in Nat /\ 2 * n - cut <= 2 * n
  BY <1>3, <1>4
<1> QED  BY <1>3, <1>4, <1>5 DEF n

LEMMA WrittenInit == Init => Written
<1> SUFFICES ASSUME Init PROVE Written
  OBVIOUS
<1>1. job \in Jobs /\ left = Units(job) /\ written = 0 /\ pc = "fork"
  BY DEF Init
<1> QED  BY <1>1, UnitsIs DEF Written, Unjudged

LEMMA WrittenStep == IInv /\ Written /\ [Next]_vars => Written'
<1> SUFFICES ASSUME IInv, Written, [Next]_vars PROVE Written'
  OBVIOUS
<1> USE CcdvConstants DEF Written, IInv, Typed, Unjudged, Collected, procs, ours, outcome
<1>1. job' = job
  BY DEF Next, Compiler, Driver, Write, Spawn, Finish, Killed, HeirEnds, Fork, Malloc, Grow, Panic, Read, SlurpEnd,
         Wait, Verdict, Dump, Report, Drain, vars
<1>2. left' \in Nat /\ written' + left' = written + left
  <2>1. CASE Write
    BY <2>1 DEF Write
  <2>2. CASE ~Write
    BY <2>2 DEF Next, Compiler, Driver, Spawn, Finish, Killed, HeirEnds, Fork, Malloc, Grow, Panic, Read, SlurpEnd,
         Wait, Verdict, Dump, Report, Drain, vars
  <2> QED  BY <2>1, <2>2
<1>3. Unjudged' => used' >= ArgsLen
  <2>1. CASE Compiler
    BY <2>1 DEF Compiler, Write, Spawn, Finish, Killed, HeirEnds
  <2>2. CASE Malloc \/ Read
    BY <2>2 DEF Malloc, Read
  <2>3. CASE Fork \/ Grow \/ Panic \/ SlurpEnd \/ Verdict \/ Dump \/ Report \/ Drain
    BY <2>3 DEF Fork, Grow, Panic, SlurpEnd, Verdict, Dump, Report, Drain
  <2>4. CASE Wait
    BY <2>4 DEF Wait, Waited
  <2>5. CASE UNCHANGED vars
    BY <2>5 DEF vars
  <2> QED  BY <2>1, <2>2, <2>3, <2>4, <2>5 DEF Next, Driver
<1>4. Units(job') = Units(job)
  BY <1>1
<1> QED  BY <1>2, <1>3, <1>4

LEMMA FatedInit == Init => Fated
<1> SUFFICES ASSUME Init PROVE Fated
  OBVIOUS
<1>1. job \in Jobs /\ judged = 0 /\ sift = Unsifted /\ pc = "fork" /\ deleted = FALSE
  BY DEF Init
<1>2. siftWarnMain(job, Import(job.patterns), LinesIn(0)) = Unsifted
  <2> DEFINE rows == Import(job.patterns)
             q == [n \in 1..0 |-> [n |-> n, type |-> TypeOf(rows, job.lines[n].text)]]
  <2>1. LinesIn(0) = 0
    BY DEF LinesIn
  <2>2. q = <<>>
    OBVIOUS
  <2>3. siftWarnMain(job, rows, 0) = Fold("sift", job, Unsifted, q)
    BY SiftIsFold
  <2> HIDE DEF q, rows
  <2>4. siftWarnMain(job, rows, 0) = Unsifted
    BY <2>2, <2>3, FoldEmpty
  <2> QED  BY <2>1, <2>4 DEF rows
<1> QED  BY <1>1, <1>2 DEF Fated

LEMMA FatedStep == IInv /\ Written /\ Fated /\ [Next]_vars => Fated'
<1> SUFFICES ASSUME IInv, Written, Fated, [Next]_vars PROVE Fated'
  OBVIOUS
<1>1. CASE Dump
  <2>1. /\ pc = "dump" /\ judged' = used - ArgsLen /\ job' = job /\ panicked' = panicked
        /\ pc' = IF sift'.aborted THEN "exit" ELSE IF panicked THEN "drain" ELSE "report"
    BY <1>1 DEF Dump, Judged
  <2>2. judged' \in Nat
    BY <2>1, CcdvConstants DEF Written, Unjudged, IInv, Typed
  <2>3. sift' = siftWarnMain(job, Import(job.patterns), LinesIn(judged'))
    BY <1>1, <2>1 DEF Dump, Judged, Sifted
  <2>4. sift'.aborted => exitStatus' = 1
    BY <1>1 DEF Dump, Judged
  <2>5. ~sift'.aborted /\ Condemned(sift', job) => exitStatus' = 90
    BY <1>1 DEF Dump, Judged
  <2>6. deleted' => gPathname(job.args) # NoFile
    BY <1>1 DEF Dump, Judged, Fated
  <2>7. Condemned(sift', job') = Condemned(sift', job)
    BY <2>1
  <2>8. (sift'.aborted \/ Condemned(sift', job)) => exitStatus' # 0
    BY <2>4, <2>5
  <2>9. job' \in Jobs /\ (deleted' => gPathname(job'.args) # NoFile)
        /\ sift' = siftWarnMain(job', Import(job'.patterns), LinesIn(judged'))
    BY <2>1, <2>3, <2>6 DEF Fated
  <2> QED  BY <2>2, <2>7, <2>8, <2>9 DEF Fated
<1>2. CASE ~Dump
  <2>1. UNCHANGED <<job, judged, sift, deleted>>
    BY <1>2 DEF Next, Compiler, Driver, Write, Spawn, Finish, Killed, HeirEnds, Fork, Malloc, Grow, Panic, Read, SlurpEnd,
           Wait, Verdict, Report, Drain, vars, ours, outcome
  <2>2. pc' \in {"report", "exit"} /\ ~panicked' => exitStatus' # 0 \/ (pc \in {"report", "exit"} /\ ~panicked /\ UNCHANGED exitStatus)
    <3> USE DEF IInv, Typed, Collected, procs, ours, outcome
    <3>1. CASE Compiler
      BY <3>1 DEF Compiler, Write, Spawn, Finish, Killed, HeirEnds
    <3>2. CASE Fork \/ Malloc \/ Grow \/ Panic \/ Read \/ SlurpEnd \/ Verdict
      BY <3>2 DEF Fork, Malloc, Grow, Panic, Read, SlurpEnd, Verdict
    <3>3. CASE Wait
      BY <3>3 DEF Wait, Waited
    <3>4. CASE Report \/ Drain
      BY <3>4 DEF Report, Drain
    <3>5. CASE UNCHANGED vars
      BY <3>5 DEF vars
    <3> QED  BY <1>2, <3>1, <3>2, <3>3, <3>4, <3>5 DEF Next, Driver
  <2>3. Condemned(sift', job') = Condemned(sift, job)
    BY <2>1
  <2>4. /\ job' \in Jobs /\ judged' \in Nat /\ (deleted' => gPathname(job'.args) # NoFile)
        /\ sift' = siftWarnMain(job', Import(job'.patterns), LinesIn(judged'))
    BY <2>1 DEF Fated
  <2> QED  BY <2>1, <2>2, <2>3, <2>4 DEF Fated
<1> QED  BY <1>1, <1>2

LEMMA SiftInvariant == Spec => []SInv
<1>1. Init => SInv
  BY CcdvInit, WrittenInit, FatedInit DEF SInv
<1>2. SInv /\ [Next]_vars => SInv'
  BY CcdvStep, WrittenStep, FatedStep DEF SInv
<1> QED  BY <1>1, <1>2, PTL DEF Spec

(* What has been judged are lines of the job, and what was made of them.    *)
LEMMA JudgedIs ==
  ASSUME SInv
  PROVE  /\ job \in Jobs /\ IsSift(job) /\ LinesIn(judged) \in 0..Len(job.lines) /\ Len(job.lines) \in Nat
         /\ sift \in Sound(job, LinesIn(judged)) \cap Tells(job, LinesIn(judged))
<1>1. job \in Jobs /\ IsSift(job) /\ judged \in Nat
  BY CcdvConstants DEF SInv, Fated
<1>2. judged <= written
  BY <1>1 DEF SInv, IInv, Typed, Accounts, Taken
<1>3. judged <= 2 * Len(job.lines) /\ Len(job.lines) \in Nat
  <2>1. Units(job) \in Nat /\ Units(job) <= 2 * Len(job.lines) /\ Len(job.lines) \in Nat
    BY <1>1, UnitsIs
  <2>2. judged <= Units(job)
    BY <1>1, <1>2, <2>1 DEF SInv, Written, IInv, Typed
  <2> QED  BY <1>1, <2>1, <2>2
<1>4. LinesIn(judged) \in 0..Len(job.lines)
  BY <1>1, <1>3 DEF LinesIn
<1>5. sift = siftWarnMain(job, Import(job.patterns), LinesIn(judged))
  BY DEF SInv, Fated
<1> QED  BY <1>1, <1>3, <1>4, <1>5, SiftIs

(* An error in the output, whatever the pattern file suppresses and whatever*)
(* the compiler's status is, makes ccdv fail.                               *)
THEOREM ErrorsReachMake == Spec => []ErrorReachesMake
<1>1. SInv => ErrorReachesMake
  <2> SUFFICES ASSUME SInv PROVE ErrorReachesMake
    OBVIOUS
  <2>1. StatusKept
    BY DEF SInv, IInv, Typed, Collected, Status, StatusKept
  <2>2. ASSUME pc = "exit", ~panicked, NEW n \in Errors, n <= LinesIn(judged)
        PROVE  exitStatus # 0
    <3>1. n \in 1..LinesIn(judged) /\ IsError(job, n)
      <4>1. n \in 1..LinesIn(Units(job)) /\ Mentions(n, {"error:", "Error:"})
        BY DEF Errors
      <4>2. LinesIn(judged) \in Nat
        BY JudgedIs
      <4> QED  BY <2>2, <4>1, <4>2 DEF Mentions, IsError
    <3>2. sift.aborted \/ sift.failed
      BY <3>1, JudgedIs DEF Tells
    <3>3. sift.aborted \/ Condemned(sift, job)
      BY <3>2 DEF Condemned
    <3> QED  BY <2>2, <3>3 DEF SInv, Fated
  <2> QED  BY <2>1, <2>2 DEF ErrorReachesMake
<1> QED  BY <1>1, SiftInvariant, PTL

(* Nothing of the output is lost, and every error ccdv has judged is shown, *)
(* with its line.                                                           *)
THEOREM ErrorsAreShown == Spec => []OutputShown
<1>1. SInv => OutputShown
  <2> SUFFICES ASSUME SInv PROVE OutputShown
    OBVIOUS
  <2>1. AllAccounted
    BY DEF SInv, IInv, Typed, Accounts, Taken, Unjudged, Ended, Closed, Collected, AllAccounted
  <2>2. ASSUME ~sift.aborted, ~job.silent, NEW n \in Errors, n <= LinesIn(judged)
        PROVE  \E k \in DOMAIN sift.shown : sift.shown[k].n = n
    <3>1. n \in 1..LinesIn(judged) /\ IsError(job, n)
      <4>1. n \in 1..LinesIn(Units(job)) /\ Mentions(n, {"error:", "Error:"})
        BY DEF Errors
      <4>2. LinesIn(judged) \in Nat
        BY JudgedIs
      <4> QED  BY <2>2, <4>1, <4>2 DEF Mentions, IsError
    <3>2. n \in Has(sift)
      BY <2>2, <3>1, JudgedIs DEF Tells
    <3>3. DOMAIN sift.shown = 1..Len(sift.shown)
      BY JudgedIs, LenProperties DEF Tells, Sifts
    <3> QED  BY <3>2, <3>3 DEF Has
  <2> QED  BY <2>1, <2>2 DEF OutputShown
<1> QED  BY <1>1, SiftInvariant, PTL

(* Every path that is printed leads from the directory make was started in  *)
(* to the file the compiler meant.                                          *)
THEOREM PathsLead == Spec => []PathsFromTop
<1>1. SInv => PathsFromTop
  <2> SUFFICES ASSUME SInv PROVE PathsFromTop
    OBVIOUS
  <2> DEFINE q == sift.shown
             c == LinesIn(judged)
  <2>1. IsSift(job) /\ sift \in Sound(job, c) /\ c \in Nat /\ c <= Len(job.lines) /\ Len(job.lines) \in Nat
    BY JudgedIs
  <2>2. \A n \in 1..c : FileOf(job, n) \in Paths
    <3> HIDE DEF c
    <3>1. \A n \in 1..c : n \in 1..Len(job.lines) /\ job.lines \in Seq(Lines)
      BY <2>1 DEF IsSift
    <3>2. \A n \in 1..c : job.lines[n] \in Lines
      BY <3>1, ElementOfSeq
    <3> QED  BY <3>2 DEF Lines, FileOf
  <2> HIDE DEF c
  <2>3. q \in Seq(Told) /\ Len(q) \in Nat /\ DOMAIN q = 1..Len(q)
    BY <2>1, LenProperties DEF Sound, Sifts
(* What FitsAt says of an entry is what the property asks of it. *)
  <2>4. ASSUME NEW p, Fits(job, c, p), NEW i \in 1..Len(p)
        PROVE  /\ p[i].what \in {"line", "info"} /\ Rewritten(p[i].n) =>
                    Named(job.top, p[i].path) \in Truths(job.lines[p[i].n].file)
               /\ p[i].what = "info" /\ Rewritten(p[i - 1].n) =>
                    Named(job.top, p[i].included) \in Truths(job.lines[p[i - 1].n].file)
    <3>1. p[i].n \in 1..c /\ FitsAt(job, p, i) /\ (i > 1 => p[i-1].n \in 1..c)
      <4>1. Len(p) \in Nat /\ (i > 1 => i-1 \in 1..Len(p))
        BY <2>4, LenProperties DEF Fits
      <4> QED  BY <2>4, <4>1 DEF Fits
    <3>2. \A n \in 1..c : Rewritten(n) => Named(job.top, Resolved(job, FileOf(job, n))) \in Truths(job.lines[n].file)
      BY <2>1, <2>2, ResolvedIsTrue DEF Rewritten, FileOf
    <3>3. ASSUME p[i].what \in {"line", "info"}, Rewritten(p[i].n)
          PROVE  Named(job.top, p[i].path) \in Truths(job.lines[p[i].n].file)
      BY <3>1, <3>2, <3>3 DEF FitsAt
    <3>4. ASSUME p[i].what = "info", Rewritten(p[i - 1].n)
          PROVE  Named(job.top, p[i].included) \in Truths(job.lines[p[i - 1].n].file)
      <4>1. i > 1 /\ p[i].included = Resolved(job, FileOf(job, p[i - 1].n))
        BY <3>1, <3>4 DEF FitsAt, Rewritten, FileOf
      <4> QED  BY <3>1, <3>2, <3>4, <4>1
    <3> QED  BY <3>3, <3>4
  <2>5. ASSUME NEW k \in 1..Len(q)
        PROVE  /\ q[k].what \in {"line", "info"} /\ Rewritten(q[k].n) /\ ~(sift.aborted /\ k = Len(q)) =>
                    Named(job.top, q[k].path) \in Truths(job.lines[q[k].n].file)
               /\ q[k].what = "info" /\ Rewritten(q[k - 1].n) =>
                    Named(job.top, q[k].included) \in Truths(job.lines[q[k - 1].n].file)
    <3>1. CASE ~sift.aborted
      <4>1. Fits(job, c, q)
        BY <2>1, <3>1 DEF Sound
      <4> QED  BY <2>4, <4>1
    <3>2. CASE sift.aborted
      <4>1. PICK p \in Seq(Told), e \in Told : q = Append(p, e) /\ Fits(job, c, p) /\ e.what = "line"
        BY <2>1, <3>2 DEF Sound
      <4>2. Len(p) \in Nat /\ Len(q) = Len(p) + 1 /\ q[Len(p) + 1] = e /\ \A i \in 1..Len(p) : q[i] = p[i]
        BY <4>1, AppendProperties
      <4>3. CASE k = Len(q)
        BY <3>2, <4>1, <4>2, <4>3
      <4>4. CASE k # Len(q)
        <5>1. k \in 1..Len(p) /\ q[k] = p[k] /\ (k > 1 => q[k-1] = p[k-1])
          BY <4>2, <4>4
        <5>2. p[k].what = "info" => k > 1
          BY <4>1, <5>1 DEF Fits, FitsAt
        <5> QED  BY <2>4, <4>1, <5>1, <5>2
      <4> QED  BY <4>3, <4>4
    <3> QED  BY <3>1, <3>2
  <2> QED  BY <2>3, <2>5 DEF PathsFromTop
<1> QED  BY <1>1, SiftInvariant, PTL

-----------------------------------------------------------------------------
(* The command line.                                                        *)

FileArgs == [kind : {"file"}, abs : BOOLEAN, dir : Seq(STRING), stem : STRING, ext : STRING]
Optional == FileArgs \cup {NoFile}

Scans ==
  [o : BOOLEAN, opt : 0..3, cc : Nat, target : Optional, output : Optional, path : Optional,
   ar : BOOLEAN, library : Optional, ld : BOOLEAN]

Minus == Option("-o")

(* After k arguments: an operand is awaited; the tool is known; the mode was*)
(* given; the file whose name is kept is the one behind -o, or is a source. *)
Awaits(args, k, s) == s.o <=> k > 0 /\ args[k] = Minus

ToolKnown(args, k, s) == k > 0 => s.ld = args[1].ld /\ ~s.ar

ModeSeen(args, s) == s.opt = 0 \/ \E x \in DOMAIN Modes : Modes[x] = s.opt /\ Option(x) \in ToSet(args)

Origin(args, s) ==
  /\ s.output # NoFile => s.path \in Operands(args, TRUE)
  /\ s.output = NoFile =>
       \/ s.path = NoFile /\ s.cc = 0
       \/ s.cc > 0 /\ s.target # NoFile /\ s.path \in Operands(args, FALSE)

Behind(args, k, s) ==
  ~args[1].ld => \A i \in 2..k : args[i - 1] = Minus /\ args[i].ext \in Objects => s.output # NoFile /\ s.path = args[i]

ScannedTo(args, k) ==
  {s \in Scans : Awaits(args, k, s) /\ ToolKnown(args, k, s) /\ ModeSeen(args, s) /\ Origin(args, s) /\ Behind(args, k, s)}

LEMMA FilesAre ==
  ASSUME NEW file \in FileArgs
  PROVE  /\ file.kind = "file" /\ file.ext \in STRING
         /\ Basename(file) \in FileArgs
         /\ \A f \in FileArgs : f # NoFile
<1>1. <<>> \in Seq(STRING)
  BY EmptySeq
<1>2. Basename(file) \in FileArgs
  BY <1>1 DEF FileArgs, Basename
<1>3. \A f \in FileArgs : f.kind = "file" /\ f.ext \in STRING
  BY DEF FileArgs
<1>4. NoFile.kind = "none"
  BY DEF NoFile
<1> QED  BY <1>2, <1>3, <1>4

(* The three kinds of arguments.                                            *)
LEMMA ArgIs ==
  ASSUME NEW arg \in Args
  PROVE  /\ arg.kind \in {"tool", "option", "file"}
         /\ arg.kind = "file" <=> arg \in FileArgs
         /\ arg.kind = "tool" => arg.ld \in BOOLEAN
         /\ arg.kind # "option" => arg # Minus
         /\ arg.kind = "option" => arg = Option(arg.name)
         /\ Minus.kind = "option" /\ Minus.name = "-o"
<1>1. CASE arg \in [kind : {"tool"}, name : STRING, abs : BOOLEAN, ld : BOOLEAN]
  BY <1>1 DEF Minus, Option, FileArgs
<1>2. CASE arg \in [kind : {"option"}, name : STRING]
  BY <1>2 DEF Minus, Option, FileArgs
<1>3. CASE arg \in FileArgs
  BY <1>3 DEF Minus, Option, FileArgs
<1> QED  BY <1>1, <1>2, <1>3 DEF Args, FileArgs

LEMMA ScanStarts ==
  ASSUME NEW args
  PROVE  Options \in ScannedTo(args, 0)
<1>1. NoFile \in Optional
  BY DEF Optional
<1>2. Options \in Scans
  BY <1>1 DEF Options, Scans
<1>3. ~Options.o /\ Options.opt = 0 /\ Options.output = NoFile /\ Options.path = NoFile /\ Options.cc = 0
  BY DEF Options
<1>4. Awaits(args, 0, Options) /\ ToolKnown(args, 0, Options) /\ ModeSeen(args, Options)
  BY <1>3 DEF Awaits, ToolKnown, ModeSeen
<1>5. Origin(args, Options)
  BY <1>3 DEF Origin
<1>6. \A i \in 2..0 : FALSE
  OBVIOUS
<1>7. Behind(args, 0, Options)
  BY <1>6 DEF Behind
<1> QED  BY <1>2, <1>4, <1>5, <1>7 DEF ScannedTo

(* An argument that is no operand of -o, and leaves the name that is kept.  *)
LEMMA NameKept ==
  ASSUME NEW args, NEW k \in Nat \ {0}, NEW s \in ScannedTo(args, k-1), ~s.o,
         NEW t, t.output = s.output, t.path = s.path, t.cc = s.cc, t.target = s.target
  PROVE  Origin(args, t) /\ Behind(args, k, t)
<1>1. Origin(args, s) /\ Behind(args, k-1, s) /\ Awaits(args, k-1, s)
  BY DEF ScannedTo
<1>2. \A i \in 2..k : args[i - 1] = Minus => i \in 2..k-1
  <2>1. \A i \in 2..k : i \in 2..k-1 \/ i = k
    OBVIOUS
  <2>2. k > 1 => args[k - 1] # Minus
    BY <1>1 DEF Awaits
  <2> QED  BY <2>1, <2>2
<1>3. Origin(args, t)
  BY <1>1 DEF Origin
<1>4. Behind(args, k, t)
  BY <1>1, <1>2 DEF Behind
<1> QED  BY <1>3, <1>4

LEMMA ScanKeeps ==
  ASSUME NEW args, IsCommand(args), args[1].name # "ar", NEW k \in 1..Len(args), NEW s \in ScannedTo(args, k-1)
  PROVE  Scan(s, args[k]) \in ScannedTo(args, k)
<1> DEFINE arg == args[k]
           t == Scan(s, arg)
           n == Len(args)
<1>1. args \in Seq(Args) /\ n \in Nat /\ DOMAIN args = 1..n /\ k \in Nat \ {0} /\ k-1 \in Nat /\ 1 \in 1..n
  BY LenProperties DEF IsCommand
<1>2. \A i \in 1..n : args[i] \in Args
  BY <1>1, ElementOfSeq
<1>3. arg \in Args /\ (arg.kind = "tool" <=> k = 1)
  BY <1>1, <1>2 DEF IsCommand
<1>4. s \in Scans /\ (s.o <=> k > 1 /\ args[k-1] = Minus) /\ (k > 1 => s.ld = args[1].ld /\ ~s.ar) /\ ModeSeen(args, s) /\ Origin(args, s)
  BY <1>1 DEF ScannedTo, Awaits, ToolKnown
<1>5. s.o => /\ arg.kind = "file" /\ k > 1 /\ args[k-1] = Minus
             /\ \A i \in 2..k : args[i-1] = Minus => i = k
  <2> SUFFICES ASSUME s.o PROVE arg.kind = "file" /\ k > 1 /\ args[k-1] = Minus /\ \A i \in 2..k : args[i-1] = Minus => i = k
    OBVIOUS
  <2>1. k > 1 /\ args[k-1] = Minus /\ k-1 \in 1..n /\ (k-1)+1 = k
    BY <1>1, <1>4
  <2>2. args[(k-1)+1].kind = "file" /\ \A i \in 1..n : args[i] = Minus => i = k-1
    BY <1>1, <2>1 DEF IsCommand, Minus
  <2>3. \A i \in 2..k : i-1 \in 1..n /\ (i-1 = k-1 => i = k)
    BY <1>1
  <2> QED  BY <2>1, <2>2, <2>3
<1>6. arg.kind = "file" => k > 1 /\ (s.o => arg \in Operands(args, TRUE)) /\ (~s.o => arg \in Operands(args, FALSE))
  <2> SUFFICES ASSUME arg.kind = "file"
               PROVE  k > 1 /\ (s.o => arg \in Operands(args, TRUE)) /\ (~s.o => arg \in Operands(args, FALSE))
    OBVIOUS
  <2>1. k > 1 /\ k \in DOMAIN args
    BY <1>1, <1>3
  <2>2. CASE s.o
    <3>1. (k > 1 /\ args[k - 1] = Option("-o")) = TRUE
      BY <1>4, <2>2 DEF Minus
    <3> QED  BY <2>1, <2>2, <3>1 DEF Operands
  <2>3. CASE ~s.o
    <3>1. (k > 1 /\ args[k - 1] = Option("-o")) = FALSE
      BY <1>4, <2>3 DEF Minus
    <3> QED  BY <2>1, <2>3, <3>1 DEF Operands
  <2> QED  BY <2>2, <2>3
<1>7. arg.kind = "file" => /\ arg \in FileArgs /\ arg # Minus /\ arg \in Optional /\ Basename(arg) \in Optional
                           /\ Basename(arg) # NoFile /\ arg # NoFile
  <2> SUFFICES ASSUME arg.kind = "file"
               PROVE  /\ arg \in FileArgs /\ arg # Minus /\ arg \in Optional /\ Basename(arg) \in Optional
                      /\ Basename(arg) # NoFile /\ arg # NoFile
    OBVIOUS
  <2>1. arg \in FileArgs /\ arg # Minus
    BY <1>3, ArgIs
  <2> HIDE DEF arg
  <2> QED  BY <2>1, FilesAre DEF Optional
<1>8. ASSUME NEW u \in Scans, Awaits(args, k, u), ToolKnown(args, k, u), ModeSeen(args, u), Origin(args, u), Behind(args, k, u)
      PROVE  u \in ScannedTo(args, k)
  BY <1>8 DEF ScannedTo
<1> HIDE DEF t, n, arg
(* The operand of -o. *)
<1>9. CASE s.o
  <2>1. /\ arg.kind = "file" /\ arg \in Operands(args, TRUE) /\ arg # Minus /\ k > 1
        /\ arg \in Optional /\ Basename(arg) \in Optional /\ Basename(arg) # NoFile /\ arg # NoFile
    BY <1>5, <1>6, <1>7, <1>9
  <2>2. t = Output(s, arg)
    BY <1>9, Zenon DEF Scan, t
  <2>3. CASE arg.ext \notin Objects \/ (arg.ext = "o" /\ s.ld)
    <3>1. PICK target \in {arg, Basename(arg)} : t = [s EXCEPT !.o = FALSE, !.target = target]
      BY <2>2, <2>3 DEF Output, Objects
    <3>2. target \in Optional /\ target # NoFile
      BY <2>1, <3>1
    <3>3. /\ t \in Scans /\ ~t.o /\ t.opt = s.opt /\ t.cc = s.cc /\ t.target = target /\ t.output = s.output
          /\ t.path = s.path /\ t.ar = s.ar /\ t.ld = s.ld
      BY <1>4, <3>1, <3>2 DEF Scans
    <3>4. Awaits(args, k, t) /\ ToolKnown(args, k, t) /\ ModeSeen(args, t)
      BY <1>4, <2>1, <3>3 DEF Awaits, ToolKnown, ModeSeen, arg
    <3>5. Origin(args, t)
      BY <1>4, <3>2, <3>3 DEF Origin
    <3>6. Behind(args, k, t)
      <4>1. ~args[1].ld => \A i \in 2..k : args[i-1] = Minus => ~(args[i].ext \in Objects)
        BY <1>4, <1>5, <1>9, <2>1, <2>3 DEF arg
      <4> QED  BY <4>1 DEF Behind
    <3> QED  BY <1>8, <3>3, <3>4, <3>5, <3>6 DEF t, arg
  <2>4. CASE arg.ext \in Objects /\ ~(arg.ext = "o" /\ s.ld)
    <3>1. t = [s EXCEPT !.o = FALSE, !.path = arg, !.output = Basename(arg)]
      BY <2>2, <2>4 DEF Output
    <3>2. /\ t \in Scans /\ ~t.o /\ t.opt = s.opt /\ t.output = Basename(arg)
          /\ t.path = arg /\ t.ar = s.ar /\ t.ld = s.ld
      BY <1>4, <2>1, <3>1 DEF Scans
    <3>4. Awaits(args, k, t) /\ ToolKnown(args, k, t) /\ ModeSeen(args, t)
      BY <1>4, <2>1, <3>2 DEF Awaits, ToolKnown, ModeSeen, arg
    <3>5. Origin(args, t)
      BY <2>1, <3>2 DEF Origin
    <3>6. Behind(args, k, t)
      <4>1. \A i \in 2..k : args[i-1] = Minus => t.path = args[i]
        BY <1>5, <1>9, <3>2 DEF arg
      <4> QED  BY <2>1, <3>2, <4>1 DEF Behind
    <3> QED  BY <1>8, <3>2, <3>4, <3>5, <3>6 DEF t, arg
  <2> QED  BY <2>3, <2>4
<1>10. CASE ~s.o /\ arg.kind = "option"
  <2>1. k > 1 /\ arg \in ToSet(args) /\ arg = Option(arg.name) /\ (arg = Minus <=> arg.name = "-o")
    <3>1. k > 1
      BY <1>1, <1>3, <1>10
    <3>2. arg \in ToSet(args)
      BY <1>1 DEF ToSet, arg, n
    <3>3. arg = Option(arg.name) /\ Minus.name = "-o"
      BY <1>3, <1>10, ArgIs
    <3> QED  BY <3>1, <3>2, <3>3 DEF Minus
  <2>2. CASE arg.name = "-o"
    <3>0. arg.name \notin DOMAIN Modes
      BY <2>2 DEF Modes
    <3>1. t = [s EXCEPT !.o = TRUE]
      BY <1>10, <2>2, <3>0, Zenon DEF Scan, t
    <3>2. /\ t \in Scans /\ t.o /\ t.opt = s.opt /\ t.cc = s.cc /\ t.target = s.target /\ t.output = s.output
          /\ t.path = s.path /\ t.ar = s.ar /\ t.ld = s.ld
      BY <1>4, <3>1 DEF Scans
    <3>3. Awaits(args, k, t) /\ ToolKnown(args, k, t) /\ ModeSeen(args, t)
      BY <1>4, <2>1, <2>2, <3>2 DEF Awaits, ToolKnown, ModeSeen, arg
    <3>4. Origin(args, t) /\ Behind(args, k, t)
      BY <1>1, <1>10, <3>2, NameKept
    <3> QED  BY <1>8, <3>2, <3>3, <3>4 DEF t, arg
  <2>3. CASE arg.name # "-o" /\ arg.name \in DOMAIN Modes
    <3>1. t = [s EXCEPT !.opt = Modes[arg.name]]
      BY <1>10, <2>3, Zenon DEF Scan, t
    <3>2. Modes[arg.name] \in 1..3
      BY <2>3 DEF Modes
    <3>3. /\ t \in Scans /\ ~t.o /\ t.opt = Modes[arg.name] /\ t.cc = s.cc /\ t.target = s.target /\ t.output = s.output
          /\ t.path = s.path /\ t.ar = s.ar /\ t.ld = s.ld
      BY <1>4, <1>10, <3>1, <3>2 DEF Scans
    <3>4. Awaits(args, k, t) /\ ToolKnown(args, k, t)
      BY <1>4, <2>1, <2>3, <3>3 DEF Awaits, ToolKnown, arg
    <3>5. ModeSeen(args, t)
      BY <2>1, <2>3, <3>3 DEF ModeSeen
    <3>6. Origin(args, t) /\ Behind(args, k, t)
      BY <1>1, <1>10, <3>3, NameKept
    <3> QED  BY <1>8, <3>3, <3>4, <3>5, <3>6 DEF t, arg
  <2>4. CASE arg.name # "-o" /\ arg.name \notin DOMAIN Modes
    <3>1. t = s
      BY <1>10, <2>4, Zenon DEF Scan, t
    <3>2. Awaits(args, k, t) /\ ToolKnown(args, k, t)
      BY <1>4, <1>10, <2>1, <2>4, <3>1 DEF Awaits, ToolKnown, arg
    <3>3. Origin(args, t) /\ Behind(args, k, t)
      BY <1>1, <1>10, <3>1, NameKept
    <3> QED  BY <1>4, <1>8, <3>1, <3>2, <3>3 DEF t, arg
  <2> QED  BY <2>2, <2>3, <2>4
<1>11. CASE ~s.o /\ arg.kind = "tool"
  <2>1. k = 1 /\ arg # Minus /\ arg.ld \in BOOLEAN /\ arg.name # "ar" /\ arg = args[1]
    BY <1>3, <1>11, ArgIs DEF arg
  <2>2. t = [s EXCEPT !.ld = arg.ld, !.ar = ~Skipped(s, arg) /\ arg.name = "ar"]
    BY <1>11, Zenon DEF Scan, t
  <2>3. t = [s EXCEPT !.ld = arg.ld, !.ar = FALSE]
    BY <2>1, <2>2
  <2>4. /\ t \in Scans /\ ~t.o /\ t.opt = s.opt /\ t.cc = s.cc /\ t.target = s.target /\ t.output = s.output
        /\ t.path = s.path /\ ~t.ar /\ t.ld = arg.ld
    BY <1>4, <1>11, <2>1, <2>3 DEF Scans
  <2>5. Awaits(args, k, t) /\ ToolKnown(args, k, t)
    BY <2>1, <2>4 DEF Awaits, ToolKnown
  <2>6. ModeSeen(args, t)
    BY <1>4, <2>4 DEF ModeSeen
  <2>7. Origin(args, t) /\ Behind(args, k, t)
    BY <1>1, <1>11, <2>4, NameKept
  <2> QED  BY <1>8, <2>4, <2>5, <2>6, <2>7 DEF t, arg
<1>12. CASE ~s.o /\ arg.kind = "file"
  <2>1. /\ arg \in Operands(args, FALSE) /\ arg # Minus /\ k > 1
        /\ arg \in Optional /\ Basename(arg) \in Optional /\ Basename(arg) # NoFile /\ arg # NoFile
    BY <1>6, <1>7, <1>12
  <2>2. \/ t = s \/ t = Source(s, arg)
        \/ t = [s EXCEPT !.library = Basename(arg)]
    <3>0. arg.kind # "tool" /\ arg.kind # "option" /\ "a" \notin SourceLike
      BY <1>12 DEF SourceLike
    <3>1. CASE Skipped(s, arg)
      BY <1>12, <3>0, <3>1, Zenon DEF Scan, t
    <3>2. CASE ~Skipped(s, arg) /\ arg.ext \in SourceLike
      BY <1>12, <3>0, <3>2, Zenon DEF Scan, t
    <3>3. CASE ~Skipped(s, arg) /\ arg.ext \notin SourceLike /\ arg.ext = "a" /\ s.library = NoFile
      BY <1>12, <3>0, <3>3, Zenon DEF Scan, t
    <3>4. CASE ~Skipped(s, arg) /\ arg.ext \notin SourceLike /\ ~(arg.ext = "a" /\ s.library = NoFile)
      BY <1>12, <3>0, <3>4, Zenon DEF Scan, t
    <3> QED  BY <3>1, <3>2, <3>3, <3>4
  <2>3. CASE t = s
    <3>1. Awaits(args, k, t) /\ ToolKnown(args, k, t)
      BY <1>4, <1>12, <2>1, <2>3 DEF Awaits, ToolKnown, arg
    <3>2. Origin(args, t) /\ Behind(args, k, t)
      BY <1>1, <1>12, <2>3, NameKept
    <3> QED  BY <1>4, <1>8, <2>3, <3>1, <3>2 DEF t, arg
  <2>4. CASE t = [s EXCEPT !.library = Basename(arg)]
    <3>1. /\ t \in Scans /\ ~t.o /\ t.opt = s.opt /\ t.cc = s.cc /\ t.target = s.target /\ t.output = s.output
          /\ t.path = s.path /\ t.ar = s.ar /\ t.ld = s.ld
      BY <1>4, <1>12, <2>1, <2>4 DEF Scans
    <3>2. Awaits(args, k, t) /\ ToolKnown(args, k, t) /\ ModeSeen(args, t)
      BY <1>4, <2>1, <3>1 DEF Awaits, ToolKnown, ModeSeen, arg
    <3>3. Origin(args, t) /\ Behind(args, k, t)
      BY <1>1, <1>12, <3>1, NameKept
    <3> QED  BY <1>8, <3>1, <3>2, <3>3 DEF t, arg
  <2>5. CASE t = Source(s, arg)
    <3> DEFINE path == IF s.path = NoFile THEN arg ELSE s.path
    <3>1. t = [s EXCEPT !.cc = s.cc + 1, !.target = Basename(arg), !.path = path]
      BY <2>5 DEF Source
    <3>2. path \in Optional /\ s.cc + 1 \in Nat /\ s.cc + 1 > 0
      BY <1>4, <2>1 DEF Scans
    <3>3. /\ s.path # NoFile => path = s.path
          /\ s.path = NoFile => path = arg
      OBVIOUS
    <3> HIDE DEF path
    <3>4. /\ t \in Scans /\ ~t.o /\ t.opt = s.opt /\ t.cc = s.cc + 1 /\ t.target = Basename(arg) /\ t.output = s.output
          /\ t.path = path /\ t.ar = s.ar /\ t.ld = s.ld
      BY <1>4, <1>12, <2>1, <3>1, <3>2 DEF Scans
    <3>5. s.output # NoFile => s.path # NoFile /\ path = s.path
      <4>1. \A f \in Operands(args, TRUE) : f.kind = "file"
        BY DEF Operands
      <4>2. NoFile.kind = "none"
        BY DEF NoFile
      <4> QED  BY <1>4, <3>3, <4>1, <4>2 DEF Origin
    <3>6. Awaits(args, k, t) /\ ToolKnown(args, k, t) /\ ModeSeen(args, t)
      BY <1>4, <2>1, <3>4 DEF Awaits, ToolKnown, ModeSeen, arg
    <3>7. Origin(args, t)
      <4>1. t.output = NoFile => t.cc > 0 /\ t.target # NoFile /\ t.path \in Operands(args, FALSE)
        BY <1>4, <2>1, <3>2, <3>3, <3>4 DEF Origin
      <4>2. t.output # NoFile => t.path \in Operands(args, TRUE)
        BY <1>4, <3>4, <3>5 DEF Origin
      <4> QED  BY <4>1, <4>2 DEF Origin
    <3>8. Behind(args, k, t)
      <4>1. Behind(args, k, s)
        BY <1>1, <1>12, NameKept
      <4> QED  BY <3>4, <3>5, <4>1 DEF Behind
    <3> QED  BY <1>8, <3>4, <3>6, <3>7, <3>8 DEF t, arg
  <2> QED  BY <2>2, <2>3, <2>4, <2>5
<1>13. arg.kind \in {"tool", "option", "file"}
  BY <1>3, ArgIs
<1> QED  BY <1>9, <1>10, <1>11, <1>12, <1>13 DEF t, arg

(* main, for every command line: what is removed is the object behind -o, or*)
(* what the compiler makes of the first source.                             *)
LEMMA PathnameIs ==
  ASSUME NEW args, IsCommand(args), args[1].name # "ar", gPathname(args) # NoFile
  PROVE  /\ gPathname(args) \notin Operands(args, FALSE)
         /\ ~args[1].ld => \A file \in Operands(args, TRUE) : file.ext \in Objects => gPathname(args) = file
<1> DEFINE s == Fold("scan", 0, Options, args)
           n == Len(args)
           I == [k \in Nat |-> ScannedTo(args, k)]
<1>1. args \in Seq(Args) /\ n \in Nat /\ n > 0 /\ DOMAIN args = 1..n
  BY LenProperties, EmptySeq DEF IsCommand
<1>2. ASSUME NEW k \in 1..n, NEW d \in I[k-1]
      PROVE  Step("scan", 0, d, args[k]) \in I[k]
  <2>1. k \in Nat /\ k-1 \in Nat /\ d \in ScannedTo(args, k-1)
    BY <1>1
  <2>2. Scan(d, args[k]) \in ScannedTo(args, k)
    BY <2>1, ScanKeeps
  <2>3. Step("scan", 0, d, args[k]) = Scan(d, args[k])
    BY DEF Step
  <2> QED  BY <2>1, <2>2, <2>3
<1>3. s \in ScannedTo(args, n)
  <2>1. Options \in I[0]
    BY ScanStarts
  <2> HIDE DEF I
  <2>2. s \in I[n]
    BY <1>1, <1>2, <2>1, FoldKeeps
  <2> QED  BY <1>1, <2>2 DEF I
<1>4. Scanned(args) = s
  <2>1. Through(Scan, Options, args) = s
    BY ScannedIsFold
  <2> HIDE DEF s
  <2>2. ~s.ar
    BY <1>1, <1>3 DEF ScannedTo, ToolKnown
  <2> QED  BY <2>1, <2>2 DEF Scanned
<1> HIDE DEF s, n
<1>5. gPathname(args) = IF s.cc > 0 /\ s.target # NoFile /\ s.output = NoFile
                        THEN [s.path EXCEPT !.ext = Suffix(s.opt)] ELSE s.path
  BY <1>4 DEF gPathname, SlurpTitle
<1>6. s \in Scans /\ s.opt \in 0..3
  BY <1>3 DEF ScannedTo, Scans
<1>7. ModeSeen(args, s) /\ Origin(args, s) /\ Behind(args, n, s)
  BY <1>3 DEF ScannedTo
<1>8. \A f \in Operands(args, FALSE) : f \in FileArgs /\ f.ext # Suffix(s.opt)
  <2>1. \A f \in Operands(args, FALSE) : f.ext # Suffix(s.opt)
    BY <1>6, <1>7 DEF IsCommand, ModeSeen
  <2>2. \A f \in Operands(args, FALSE) : f \in Args /\ f.kind = "file"
    BY <1>1, ElementOfSeq DEF Operands
  <2> QED  BY <2>1, <2>2, ArgIs
<1>9. CASE s.output # NoFile
  <2>1. gPathname(args) = s.path
    BY <1>5, <1>9
  <2>2. s.path \notin Operands(args, FALSE)
    BY <1>7, <1>9 DEF IsCommand, Origin
  <2>3. ASSUME ~args[1].ld, NEW file \in Operands(args, TRUE), file.ext \in Objects
        PROVE  s.path = file
    <3>1. PICK i \in DOMAIN args : file = args[i] /\ i > 1 /\ args[i - 1] = Option("-o")
      BY DEF Operands
    <3>2. i \in 2..n
      BY <1>1, <3>1
    <3> QED  BY <1>7, <2>3, <3>1, <3>2 DEF Minus, Behind
  <2> QED  BY <2>1, <2>2, <2>3
<1>10. CASE s.output = NoFile
  <2>1. s.path # NoFile /\ s.cc > 0 /\ s.target # NoFile /\ s.path \in Operands(args, FALSE)
    <3>1. s.path = NoFile /\ s.cc = 0 => gPathname(args) = NoFile
      BY <1>5
    <3>2. NoFile \notin Operands(args, FALSE)
      BY DEF Operands, NoFile
    <3> QED  BY <1>7, <1>10, <3>1, <3>2 DEF Origin
  <2>2. gPathname(args) = [s.path EXCEPT !.ext = Suffix(s.opt)]
    BY <1>5, <1>10, <2>1
  <2>3. gPathname(args).ext = Suffix(s.opt)
    <3>1. s.path \in FileArgs
      BY <1>8, <2>1
    <3> QED  BY <2>2, <3>1 DEF FileArgs
  <2>4. gPathname(args) \notin Operands(args, FALSE)
    BY <1>8, <2>3
  <2>5. ASSUME ~args[1].ld, NEW file \in Operands(args, TRUE), file.ext \in Objects
        PROVE  FALSE
    <3>1. PICK i \in DOMAIN args : file = args[i] /\ i > 1 /\ args[i - 1] = Option("-o")
      BY DEF Operands
    <3>2. i \in 2..n
      BY <1>1, <3>1
    <3> QED  BY <1>7, <1>10, <2>5, <3>1, <3>2 DEF Minus, Behind
  <2> QED  BY <2>4, <2>5
<1> QED  BY <1>9, <1>10

(* What ccdv removes is what the compiler writes, whatever its command line:*)
(* never an input, and the object behind -o if there is one.                *)
THEOREM OutputRemoved == Spec => []RemovesOutput
<1>1. SInv => RemovesOutput
  <2> SUFFICES ASSUME SInv, deleted, job.args[1].name # "ar" PROVE RemovesOutput
    BY DEF RemovesOutput
  <2>1. IsCommand(job.args) /\ gPathname(job.args) # NoFile
    BY CcdvConstants DEF SInv, Fated
  <2> QED  BY <2>1, PathnameIs DEF RemovesOutput
<1> QED  BY <1>1, SiftInvariant, PTL
==============================================================================
