------------------------------ MODULE IpcProofs ------------------------------
(***************************************************************************)
(* For any number of servers and clients: the type invariant of IpcSegment,*)
(* NamedUnlessUnlinked, FaultsKnown and ConsoleWasAsked.                    *)
(***************************************************************************)
EXTENDS IpcSegment, TLAPS

(* What the control point of a server tells: who creates a segment sizes it *)
(* before it maps it, a server that has not opened the segment has not      *)
(* created it, and p_shmAttr is mapped from open_shm until ^C.              *)
Sound(s) ==
  /\ main[s] \in {"new", "reopen"} => name # s
  /\ main[s] \in {"mmap", "fill", "reset", "signal", "thread", "run", "munmap"} /\ seg[s] = s
       => s \in sized
  /\ main[s] = "faulted" => seg[s] # s
  /\ main[s] \in {"reset", "signal", "thread", "run", "munmap"} => ptr[s] = "mapped"
  /\ thr[s] # "none" => main[s] \in {"run", "munmap", "null", "unlink"}
  /\ thr[s] = "faulted" => main[s] \in {"null", "unlink"}

IInv == TypeOK /\ NamedUnlessUnlinked /\ \A s \in Servers : Sound(s)

LEMMA InitInv == Init => IInv
<1> SUFFICES ASSUME Init PROVE IInv
  OBVIOUS
<1>1. TypeOK
  BY DEF Init, TypeOK, HasSegment, Heads, Own
<1>2. NamedUnlessUnlinked
  BY DEF Init, NamedUnlessUnlinked, Live
<1>3. \A s \in Servers : Sound(s)
  BY IpcConstants DEF Init, Sound
<1>4. QED BY <1>1, <1>2, <1>3 DEF IInv

(* The types without HasSegment.                                            *)
Types ==
  /\ name \in Servers \cup {None}
  /\ sized \subseteq Servers
  /\ head \in [Servers -> Heads]
  /\ tail \in [Servers -> Clients \cup {None}]
  /\ main \in [Servers -> {"new", "ftruncate", "reopen", "mmap", "fill", "reset", "signal",
                           "thread", "run", "munmap", "null", "unlink", "exited",
                           "off", "killed", "faulted"}]
  /\ seg \in [Servers -> Servers \cup {None}]
  /\ ptr \in [Servers -> {"null", "mapped", "unmapped"}]
  /\ thr \in [Servers -> {"none", "check", "read", "open", "gone", "faulted"}]
  /\ console \in [Servers -> [term: Clients \cup {None}, torn: BOOLEAN]]
  /\ asked \in [Servers -> SUBSET Clients]
  /\ cpc \in [Clients -> {"new", "print", "prompt", "write", "asleep", "gone", "faulted"}]
  /\ cseg \in [Clients -> Servers \cup {None}]
  /\ refused \subseteq Servers

LEMMA TypesSplit == TypeOK <=> Types /\ HasSegment
BY DEF TypeOK, Types

LEMMA TypesStep == Types /\ HasSegment /\ [Next]_vars => Types'
<1> SUFFICES ASSUME Types, HasSegment, [Next]_vars PROVE Types'
  OBVIOUS
<1>1. CASE UNCHANGED vars
  BY <1>1 DEF vars, Types
<1>2. ASSUME NEW s \in Servers, OpenExclusive(s) PROVE Types'
  <2>1. name' \in {name, s} /\ seg' \in [Servers -> Servers \cup {None}]
    BY <1>2 DEF OpenExclusive, Types
  <2>2. \E l \in {"ftruncate", "reopen"} : Goto(s, l)
    BY <1>2 DEF OpenExclusive
  <2>3. UNCHANGED <<sized, head, tail, ptr, thr, console, asked, cpc, cseg, refused>>
    BY <1>2 DEF OpenExclusive, thread, client
  <2>4. QED BY <2>1, <2>2, <2>3 DEF Types, Goto
<1>3. ASSUME NEW s \in Servers, Truncate(s) PROVE Types'
  BY <1>3 DEF Truncate, GiveUp, Types, At, Goto, thread, client
<1>4. ASSUME NEW s \in Servers, Reopen(s) PROVE Types'
  BY <1>4 DEF Reopen, GiveUp, Types, At, Goto, segment, thread, client
<1>5. ASSUME NEW s \in Servers, Map(s) PROVE Types'
  BY <1>5 DEF Map, GiveUp, Types, At, Goto, segment, thread, client
<1>6. ASSUME NEW s \in Servers, Fill(s) PROVE Types'
  BY <1>6 DEF Fill, Types, At, Goto, segment, thread, client
<1>7. ASSUME NEW s \in Servers, Reset(s) PROVE Types'
  BY <1>7 DEF Reset, Types, Heads, At, Goto, thread, client
<1>8. ASSUME NEW s \in Servers, RegisterSigint(s) \/ CreateThread(s) PROVE Types'
  BY <1>8 DEF RegisterSigint, CreateThread, Types, At, Goto, segment, thread, client
<1>9. ASSUME NEW s \in Servers, Check(s) PROVE Types'
  BY <1>9 DEF Check, Types, Thread, ThreadGoto, segment, client
<1>10. ASSUME NEW s \in Servers, Read(s) PROVE Types'
  BY <1>10 DEF Read, Types, Thread, ThreadGoto, segment, client
<1>11. ASSUME NEW s \in Servers, Open(s) PROVE Types'
  <2> DEFINE new == [term |-> tail[seg[s]], torn |-> Torn(seg[s])]
  <2>1. CASE CanOpen(s)
    <3>1. seg[s] \in Servers
      BY <1>11 DEF Open, Thread, HasSegment
    <3>2. new \in [term: Clients \cup {None}, torn: BOOLEAN]
      BY <3>1 DEF Types, Torn
    <3>3. console' = [console EXCEPT ![s] = new]
      BY <1>11, <2>1 DEF Open
    <3> HIDE DEF new
    <3>4. QED BY <1>11, <3>2, <3>3 DEF Open, Types, ThreadGoto, segment, client
  <2>2. CASE ~CanOpen(s)
    BY <1>11, <2>2 DEF Open, Types, ThreadGoto, segment, client
  <2>3. QED BY <2>1, <2>2
<1>12. ASSUME NEW s \in Servers, Interrupt(s) \/ Unmap(s) \/ Forget(s) PROVE Types'
  BY <1>12 DEF Interrupt, Unmap, Forget, Types, At, Goto, ThreadGoto, segment, thread, client
<1>13. ASSUME NEW s \in Servers, Unlink(s) \/ Kill(s) PROVE Types'
  <2>1. Own \in [term: Clients \cup {None}, torn: BOOLEAN]
    BY DEF Own
  <2>2. Ends(s, "exited") \/ Ends(s, "killed")
    BY <1>13 DEF Unlink, Kill
  <2>3. /\ name' \in {name, None} /\ UNCHANGED <<sized, head, tail, cpc, cseg>>
        /\ refused' \subseteq refused
    BY <1>13 DEF Unlink, Kill, Ends, segment
  <2>4. /\ main' \in [Servers -> {"new", "ftruncate", "reopen", "mmap", "fill", "reset",
                                  "signal", "thread", "run", "munmap", "null", "unlink",
                                  "exited", "off", "killed", "faulted"}]
        /\ ptr' \in [Servers -> {"null", "mapped", "unmapped"}]
        /\ thr' \in [Servers -> {"none", "check", "read", "open", "gone", "faulted"}]
    BY <2>2 DEF Types, Ends, Goto
  <2>5. /\ console' \in [Servers -> [term: Clients \cup {None}, torn: BOOLEAN]]
        /\ asked' \in [Servers -> SUBSET Clients]
        /\ seg' \in [Servers -> Servers \cup {None}]
    <3>1. /\ console' = [console EXCEPT ![s] = Own]
          /\ asked' = [asked EXCEPT ![s] = {}]
          /\ seg' = [seg EXCEPT ![s] = None]
      BY <2>2 DEF Ends
    <3>2. QED BY <2>1, <3>1 DEF Types
  <2>6. QED BY <2>3, <2>4, <2>5 DEF Types
<1>14. ASSUME NEW c \in Clients, Client(c) PROVE Types'
  <2>1. UNCHANGED <<name, sized, main, seg, ptr, thr, console, refused>>
    BY <1>14 DEF Client, Attach, PrintHeader, Leave, AskHead, AskTail, server, thread
  <2>2. asked' \in [Servers -> SUBSET Clients]
    <3>1. asked' = asked \/ Asks(c)
      BY <1>14 DEF Client, Attach, PrintHeader, Leave, AskHead, AskTail
    <3>2. QED BY <3>1 DEF Asks, Types
  <2>3. head' \in [Servers -> Heads]
    BY <1>14 DEF Client, Attach, PrintHeader, Leave, AskHead, AskTail, Types, Heads
  <2>4. tail' \in [Servers -> Clients \cup {None}]
    BY <1>14 DEF Client, Attach, PrintHeader, Leave, AskHead, AskTail, Types
  <2>5. cpc' \in [Clients -> {"new", "print", "prompt", "write", "asleep", "gone", "faulted"}]
    BY <1>14 DEF Client, Attach, PrintHeader, Leave, AskHead, AskTail, Types, ClientGoto,
                 ClientEnds
  <2>6. cseg' \in [Clients -> Servers \cup {None}]
    BY <1>14 DEF Client, Attach, PrintHeader, Leave, AskHead, AskTail, Types, ClientEnds
  <2>7. QED BY <2>1, <2>2, <2>3, <2>4, <2>5, <2>6 DEF Types
<1>15. ASSUME NEW s \in Servers, Refuse(s) \/ Admit(s) PROVE Types'
  BY <1>15 DEF Refuse, Admit, Types, segment, thread
<1>16. QED
  BY <1>1, <1>2, <1>3, <1>4, <1>5, <1>6, <1>7, <1>8, <1>9, <1>10, <1>11, <1>12, <1>13,
     <1>14, <1>15
  DEF Next, InitStep, Poll, Close

LEMMA HasSegmentStep == Types /\ HasSegment /\ [Next]_vars => HasSegment'
<1> SUFFICES ASSUME Types, HasSegment, [Next]_vars PROVE HasSegment'
  OBVIOUS
<1> USE DEF HasSegment
<1>1. CASE UNCHANGED vars
  BY <1>1 DEF vars
<1>2. ASSUME NEW s \in Servers, OpenExclusive(s) PROVE HasSegment'
  BY <1>2 DEF OpenExclusive, Types, At, Goto, client
<1>3. ASSUME NEW s \in Servers, Truncate(s) \/ Map(s) PROVE HasSegment'
  BY <1>3 DEF Truncate, Map, GiveUp, Types, At, Goto, client
<1>4. ASSUME NEW s \in Servers, Reopen(s) PROVE HasSegment'
  <2>1. CASE name = None
    BY <1>4, <2>1 DEF Reopen, GiveUp, Types, Goto, client
  <2>2. CASE name # None
    BY <1>4, <2>2 DEF Reopen, Types, Goto, client
  <2>3. QED BY <2>1, <2>2
<1>5. ASSUME NEW s \in Servers,
             Fill(s) \/ Reset(s) \/ RegisterSigint(s) \/ CreateThread(s) PROVE HasSegment'
  <2>1. /\ seg[s] \in Servers /\ UNCHANGED <<seg, cpc, cseg>>
        /\ \E l : Goto(s, l)
    BY <1>5 DEF Fill, Reset, RegisterSigint, CreateThread, At, client
  <2>2. \A u \in Servers \ {s} : main'[u] = main[u]
    BY <2>1 DEF Types, Goto
  <2>3. QED BY <2>1, <2>2
<1>6. ASSUME NEW s \in Servers, Poll(s) PROVE HasSegment'
  BY <1>6 DEF Poll, Check, Read, Open, client
<1>7. ASSUME NEW s \in Servers, Interrupt(s) \/ Unmap(s) \/ Forget(s) PROVE HasSegment'
  BY <1>7 DEF Interrupt, Unmap, Forget, Types, At, Goto, client
<1>8. ASSUME NEW s \in Servers, Unlink(s) \/ Kill(s) PROVE HasSegment'
  <2>1. /\ Ends(s, "exited") \/ Ends(s, "killed")
        /\ UNCHANGED <<cpc, cseg>>
    BY <1>8 DEF Unlink, Kill
  <2>2. /\ main'[s] \in {"exited", "killed"}
        /\ \A u \in Servers \ {s} : main'[u] = main[u] /\ seg'[u] = seg[u]
    BY <2>1 DEF Types, Ends, Goto
  <2>3. QED BY <2>1, <2>2
<1>9. ASSUME NEW c \in Clients, Client(c) PROVE HasSegment'
  BY <1>9 DEF Client, Attach, PrintHeader, Leave, AskHead, AskTail, Types, ClientGoto,
              ClientEnds, server
<1>10. ASSUME NEW s \in Servers, Refuse(s) \/ Admit(s) PROVE HasSegment'
  BY <1>10 DEF Refuse, Admit
<1>11. QED
  BY <1>1, <1>2, <1>3, <1>4, <1>5, <1>6, <1>7, <1>8, <1>9, <1>10 DEF Next, InitStep, Close

LEMMA TypeStep == TypeOK /\ [Next]_vars => TypeOK'
<1>1. TypeOK' <=> Types' /\ HasSegment'
  BY DEF TypeOK, Types
<1>2. QED BY <1>1, TypesSplit, TypesStep, HasSegmentStep

(* Only Unlink takes the name away, and its process is gone afterwards.     *)
LEMMA NamedStep == TypeOK /\ NamedUnlessUnlinked /\ [Next]_vars => NamedUnlessUnlinked'
<1> SUFFICES ASSUME TypeOK, NamedUnlessUnlinked, [Next]_vars PROVE NamedUnlessUnlinked'
  OBVIOUS
<1> USE IpcConstants
(* A server keeps its excuse, or needs none, when nothing of it changes.    *)
<1>1. ASSUME \A u \in Servers : main[u] = "exited" => main'[u] = "exited",
             \A u \in Servers : main'[u] \in Live \ {"reopen"} =>
               \/ main[u] \in Live \ {"reopen"} /\ seg'[u] = seg[u] /\ name' = name
               \/ seg'[u] = name'
               \/ main[u] \in Live \ {"reopen"} /\ seg'[u] = seg[u] /\ name = None
      PROVE  NamedUnlessUnlinked'
  <2> SUFFICES ASSUME NEW u \in Servers, main'[u] \in Live \ {"reopen"}, name' # seg'[u]
               PROVE  \E v \in Servers \ {u} : main'[v] = "exited"
    BY DEF NamedUnlessUnlinked
  <2>1. main[u] \in Live \ {"reopen"} /\ name # seg[u]
    BY <1>1 DEF TypeOK, HasSegment, Live
  <2>2. PICK v \in Servers \ {u} : main[v] = "exited"
    BY <2>1 DEF NamedUnlessUnlinked
  <2>3. QED BY <1>1, <2>2
<1>2. CASE UNCHANGED vars
  BY <1>1, <1>2 DEF vars
<1>3. ASSUME NEW s \in Servers, OpenExclusive(s) PROVE NamedUnlessUnlinked'
  BY <1>1, <1>3 DEF OpenExclusive, TypeOK, At, Goto, Live
<1>4. ASSUME NEW s \in Servers, Reopen(s) PROVE NamedUnlessUnlinked'
  BY <1>1, <1>4 DEF Reopen, GiveUp, TypeOK, At, Goto, Live, segment
<1>5. ASSUME NEW s \in Servers, Truncate(s) \/ Map(s) PROVE NamedUnlessUnlinked'
  BY <1>1, <1>5 DEF Truncate, Map, GiveUp, TypeOK, At, Goto, Live, segment
<1>6. ASSUME NEW s \in Servers, Fill(s) \/ Reset(s) \/ RegisterSigint(s) \/ CreateThread(s)
      PROVE  NamedUnlessUnlinked'
  BY <1>1, <1>6 DEF Fill, Reset, RegisterSigint, CreateThread, TypeOK, At, Goto, Live, segment
<1>7. ASSUME UNCHANGED <<main, seg, name>> PROVE NamedUnlessUnlinked'
  BY <1>1, <1>7
<1>8. ASSUME NEW s \in Servers, Poll(s) PROVE NamedUnlessUnlinked'
  BY <1>7, <1>8 DEF Poll, Check, Read, Open, segment
<1>9. ASSUME NEW s \in Servers, Interrupt(s) \/ Unmap(s) \/ Forget(s)
      PROVE  NamedUnlessUnlinked'
  BY <1>1, <1>9 DEF Interrupt, Unmap, Forget, TypeOK, At, Goto, Live, segment
<1>10. ASSUME NEW s \in Servers, Unlink(s) PROVE NamedUnlessUnlinked'
  <2>1. main' = [main EXCEPT ![s] = "exited"]
    BY <1>10 DEF Unlink, Ends, Goto
  <2>2. main'[s] = "exited" /\ "exited" \notin Live
    BY <2>1 DEF TypeOK, Live
  <2>3. QED BY <2>2 DEF NamedUnlessUnlinked
<1>11. ASSUME NEW s \in Servers, Kill(s) PROVE NamedUnlessUnlinked'
  BY <1>1, <1>11 DEF Kill, Ends, TypeOK, Goto, Live, segment
<1>12. ASSUME NEW c \in Clients, Client(c) PROVE NamedUnlessUnlinked'
  BY <1>7, <1>12 DEF Client, Attach, PrintHeader, Leave, AskHead, AskTail, server
<1>13. ASSUME NEW s \in Servers, Refuse(s) \/ Admit(s) PROVE NamedUnlessUnlinked'
  BY <1>7, <1>13 DEF Refuse, Admit, segment
<1>14. QED
  BY <1>2, <1>3, <1>4, <1>5, <1>6, <1>8, <1>9, <1>10, <1>11, <1>12, <1>13
  DEF Next, InitStep, Close

(* What another server or a client does leaves Sound(u) as it is.           *)
LEMMA SoundKept ==
  ASSUME NEW u \in Servers, Sound(u), sized \subseteq sized', name' = u => name = u,
         main'[u] = main[u], seg'[u] = seg[u], ptr'[u] = ptr[u], thr'[u] = thr[u]
  PROVE  Sound(u)'
BY DEF Sound

LEMMA SoundStep == TypeOK /\ (\A s \in Servers : Sound(s)) /\ [Next]_vars
                     => \A s \in Servers : Sound(s)'
<1> SUFFICES ASSUME TypeOK, \A s \in Servers : Sound(s), [Next]_vars, NEW u \in Servers
             PROVE  Sound(u)'
  OBVIOUS
<1>1. ASSUME UNCHANGED <<name, sized, main, seg, ptr, thr>> PROVE Sound(u)'
  BY <1>1, SoundKept
<1>2. CASE UNCHANGED vars
  BY <1>1, <1>2 DEF vars
<1>3. ASSUME NEW c \in Clients, Client(c) PROVE Sound(u)'
  BY <1>1, <1>3 DEF Client, Attach, PrintHeader, Leave, AskHead, AskTail, server, thread
<1>4. ASSUME NEW s \in Servers, InitStep(s) \/ Poll(s) \/ Interrupt(s) \/ Close(s) \/ Kill(s),
             s # u
      PROVE  Sound(u)'
  <2>1. sized \subseteq sized'
    BY <1>4 DEF InitStep, OpenExclusive, Truncate, Reopen, Map, Fill, Reset, RegisterSigint,
                CreateThread, Poll, Check, Read, Open, Interrupt, Close, Unmap, Forget,
                Unlink, Kill, segment
  <2>2. main'[u] = main[u]
    BY <1>4 DEF InitStep, OpenExclusive, Truncate, Reopen, Map, Fill, Reset, RegisterSigint,
                CreateThread, Poll, Check, Read, Open, Interrupt, Close, Unmap, Forget,
                Unlink, Kill, Ends, GiveUp, Goto, TypeOK
  <2>3. seg'[u] = seg[u]
    BY <1>4 DEF InitStep, OpenExclusive, Truncate, Reopen, Map, Fill, Reset, RegisterSigint,
                CreateThread, Poll, Check, Read, Open, Interrupt, Close, Unmap, Forget,
                Unlink, Kill, Ends, GiveUp, TypeOK
  <2>4. ptr'[u] = ptr[u]
    BY <1>4 DEF InitStep, OpenExclusive, Truncate, Reopen, Map, Fill, Reset, RegisterSigint,
                CreateThread, Poll, Check, Read, Open, Interrupt, Close, Unmap, Forget,
                Unlink, Kill, Ends, TypeOK
  <2>5. thr'[u] = thr[u]
    BY <1>4 DEF InitStep, OpenExclusive, Truncate, Reopen, Map, Fill, Reset, RegisterSigint,
                CreateThread, Poll, Check, Read, Open, Interrupt, Close, Unmap, Forget,
                Unlink, Kill, Ends, ThreadGoto, thread, TypeOK
  <2>6. name' = u => name = u
    BY <1>4, IpcConstants
       DEF InitStep, OpenExclusive, Truncate, Reopen, Map, Fill, Reset, RegisterSigint,
           CreateThread, Poll, Check, Read, Open, Interrupt, Close, Unmap, Forget,
           Unlink, Kill, segment
  <2>7. QED BY <2>1, <2>2, <2>3, <2>4, <2>5, <2>6, SoundKept
<1>5. Sound(u)
  OBVIOUS
<1> USE <1>5 DEF Sound, At, Goto
<1>6. CASE OpenExclusive(u)
  BY <1>6 DEF OpenExclusive, TypeOK, thread
<1>7. CASE Truncate(u)
  BY <1>7 DEF Truncate, GiveUp, TypeOK, thread
<1>8. CASE Reopen(u)
  <2>1. CASE name = None
    BY <1>8, <2>1 DEF Reopen, GiveUp, TypeOK, segment, thread
  <2>2. CASE name # None /\ seg'[u] # u
    BY <1>8, <2>2 DEF Reopen, TypeOK, segment, thread
  <2>3. QED BY <1>8, <2>1, <2>2 DEF Reopen, TypeOK
<1>9. CASE Map(u)
  BY <1>9 DEF Map, GiveUp, TypeOK, segment, thread
<1>10. CASE Fill(u)
  BY <1>10 DEF Fill, TypeOK, segment, thread
<1>11. CASE Reset(u) \/ RegisterSigint(u)
  BY <1>11 DEF Reset, RegisterSigint, TypeOK, segment, thread
<1>12. CASE CreateThread(u)
  BY <1>12 DEF CreateThread, TypeOK, segment
<1>13. CASE Check(u) \/ Open(u)
  BY <1>13 DEF Check, Open, Thread, ThreadGoto, TypeOK, segment
<1>14. CASE Read(u)
  BY <1>14 DEF Read, Thread, ThreadGoto, TypeOK, segment
<1>15. CASE Interrupt(u)
  BY <1>15 DEF Interrupt, ThreadGoto, TypeOK, segment
<1>16. CASE Unmap(u) \/ Forget(u)
  BY <1>16 DEF Unmap, Forget, TypeOK, segment, thread
<1>17. CASE Unlink(u) \/ Kill(u)
  <2>1. main'[u] \in {"exited", "killed"} /\ thr'[u] = "none"
    BY <1>17 DEF Unlink, Kill, Ends, TypeOK
  <2>2. QED BY <2>1
<1>18. ASSUME NEW s \in Servers, Refuse(s) \/ Admit(s) PROVE Sound(u)'
  BY <1>1, <1>18 DEF Refuse, Admit, segment, thread
<1>19. QED
  BY <1>2, <1>3, <1>4, <1>6, <1>7, <1>8, <1>9, <1>10, <1>11, <1>12, <1>13, <1>14, <1>15,
     <1>16, <1>17, <1>18 DEF Next, InitStep, Poll, Close

THEOREM Inductive == Spec => []IInv
<1>1. IInv /\ [Next]_vars => IInv'
  BY TypeStep, NamedStep, SoundStep DEF IInv
<1>2. QED BY <1>1, InitInv, PTL DEF Spec

(* Servers and clients stay within their control points, and whoever is     *)
(* past shm_open has a segment (ipc_comm.c:81-94).                          *)
THEOREM IpcTyping == Spec => []TypeOK
<1>1. IInv => TypeOK
  BY DEF IInv
<1>2. QED BY <1>1, Inductive, PTL

(* Any number of servers: one loses its name only to the ^C of another      *)
(* (ipc_comm.c:220).                                                        *)
THEOREM NameLostToInterrupt == Spec => []NamedUnlessUnlinked
<1>1. IInv => NamedUnlessUnlinked
  BY DEF IInv
<1>2. QED BY <1>1, Inductive, PTL

(* The creator of a segment never meets a bus error, and the thread faults  *)
(* only while ^C closes (ipc_comm.c:85, 106, 134, 218).                     *)
THEOREM OnlyKnownFaults == Spec => []FaultsKnown
<1>1. IInv => FaultsKnown
  BY DEF IInv, Sound, FaultsKnown
<1>2. QED BY <1>1, Inductive, PTL

(* Past its reset a server finds only two kinds of request in its segment:  *)
(* one made since, and one that a client is still writing; and only its     *)
(* thread switches the terminal.                                            *)
Fresh(s) ==
  /\ main[s] \in {"signal", "thread", "run", "munmap", "null", "unlink"}
       /\ head[seg[s]] = "/dev/pts"
       => tail[seg[s]] \in asked[s] \cup {None} \/ Torn(seg[s])
  /\ thr[s] = "none" => console[s] = Own
  /\ console[s].term \notin asked[s] \cup {None} => console[s].torn

LEMMA FreshInit == Init => \A s \in Servers : Fresh(s)
<1> SUFFICES ASSUME Init, NEW s \in Servers PROVE Fresh(s)
  OBVIOUS
<1>1. main[s] = "new" /\ console[s] = Own
  BY DEF Init
<1>2. Own.term = None
  BY DEF Own
<1>3. QED BY <1>1, <1>2 DEF Fresh

(* A step that leaves the requests alone and neither lets a server past its *)
(* reset nor touches its console.                                           *)
LEMMA FreshKept ==
  ASSUME NEW u \in Servers, Fresh(u), UNCHANGED <<head, tail, cpc, cseg>>,
         asked'[u] = asked[u], console'[u] = console[u],
         thr'[u] = "none" => thr[u] = "none",
         main'[u] \in {"signal", "thread", "run", "munmap", "null", "unlink"} =>
           /\ main[u] \in {"signal", "thread", "run", "munmap", "null", "unlink"}
           /\ seg'[u] = seg[u]
  PROVE  Fresh(u)'
BY DEF Fresh, Torn

LEMMA FreshStep == TypeOK /\ (\A s \in Servers : Sound(s) /\ Fresh(s)) /\ [Next]_vars
                     => \A s \in Servers : Fresh(s)'
<1> SUFFICES ASSUME TypeOK, \A s \in Servers : Sound(s) /\ Fresh(s), [Next]_vars,
                    NEW u \in Servers
             PROVE  Fresh(u)'
  OBVIOUS
<1>1. CASE UNCHANGED vars
  BY <1>1, FreshKept DEF vars
<1>2. ASSUME NEW s \in Servers, OpenExclusive(s) PROVE Fresh(u)'
  BY <1>2, FreshKept DEF OpenExclusive, TypeOK, At, Goto, thread, client
<1>3. ASSUME NEW s \in Servers, Truncate(s) \/ Map(s) PROVE Fresh(u)'
  BY <1>3, FreshKept DEF Truncate, Map, GiveUp, TypeOK, At, Goto, segment, thread, client
<1>4. ASSUME NEW s \in Servers, Reopen(s) PROVE Fresh(u)'
  BY <1>4, FreshKept DEF Reopen, GiveUp, TypeOK, At, Goto, segment, thread, client
<1>5. ASSUME NEW s \in Servers, Fill(s) \/ RegisterSigint(s) PROVE Fresh(u)'
  BY <1>5, FreshKept DEF Fill, RegisterSigint, TypeOK, At, Goto, segment, thread, client
<1>6. ASSUME NEW s \in Servers, CreateThread(s) PROVE Fresh(u)'
  BY <1>6, FreshKept DEF CreateThread, TypeOK, At, Goto, segment, client
<1>7. ASSUME NEW s \in Servers, Reset(s) PROVE Fresh(u)'
  <2>1. /\ head' = [head EXCEPT ![seg[s]] = "non"] /\ UNCHANGED <<tail, seg, thr, console>>
        /\ asked' = [asked EXCEPT ![s] = {}]
        /\ UNCHANGED <<cpc, cseg>> /\ Goto(s, "signal") /\ seg[s] \in Servers
    BY <1>7 DEF Reset, At, thread, client, TypeOK, HasSegment
  <2>2. head'[seg[s]] # "/dev/pts"
    BY <2>1 DEF TypeOK
  <2>3. CASE u = s
    <3>1. thr[s] = "none" /\ console[s] = Own
      BY <1>7 DEF Reset, At, Sound, Fresh
    <3>2. QED BY <2>1, <2>2, <2>3, <3>1 DEF Fresh, Own
  <2>4. CASE u # s /\ seg[u] = seg[s]
    BY <2>1, <2>2, <2>4 DEF Fresh, TypeOK
  <2>5. CASE u # s /\ seg[u] # seg[s]
    <3>1. main'[u] = main[u] /\ asked'[u] = asked[u]
      BY <2>1, <2>5 DEF Goto, TypeOK
    <3>2. main[u] \in {"signal", "thread", "run", "munmap", "null", "unlink"}
            => head'[seg[u]] = head[seg[u]]
      BY <2>1, <2>5 DEF TypeOK, HasSegment
    <3>3. Fresh(u)
      OBVIOUS
    <3>4. QED BY <2>1, <3>1, <3>2, <3>3 DEF Fresh, Torn
  <2>6. QED BY <2>3, <2>4, <2>5
<1>8. ASSUME NEW s \in Servers, Check(s) \/ Read(s) PROVE Fresh(u)'
  <2>1. UNCHANGED <<head, tail, main, seg, console, asked, cpc, cseg>>
    BY <1>8 DEF Check, Read, segment, client
  <2>2. thr'[u] = "none" => thr[u] = "none"
    BY <1>8 DEF Check, Read, Thread, ThreadGoto, TypeOK
  <2>3. QED BY <2>1, <2>2, FreshKept
<1>9. ASSUME NEW s \in Servers, Open(s) PROVE Fresh(u)'
  <2>1. /\ UNCHANGED <<head, tail, main, seg, asked, cpc, cseg>>
        /\ thr' = [thr EXCEPT ![s] = "check"]
        /\ main[s] \in {"run", "munmap", "null", "unlink"}
    BY <1>9 DEF Open, Thread, ThreadGoto, segment, client
  <2>2. thr'[u] = "none" => thr[u] = "none"
    BY <2>1 DEF TypeOK
  <2>3. CASE console'[u] = console[u]
    BY <2>1, <2>2, <2>3, FreshKept
  <2>4. CASE u = s /\ CanOpen(s)
    <3>1. console'[s].term = tail[seg[s]] /\ console'[s].torn = Torn(seg[s])
      BY <1>9, <2>4 DEF Open, TypeOK
    <3>2. tail[seg[s]] \in asked[s] \cup {None} \/ Torn(seg[s])
      BY <2>1, <2>4 DEF Fresh, CanOpen
    <3>3. thr'[s] # "none"
      BY <2>1 DEF TypeOK
    <3>4. Fresh(s)
      OBVIOUS
    <3>5. QED BY <2>1, <2>4, <3>1, <3>2, <3>3, <3>4 DEF Fresh, Torn
  <2>5. QED BY <1>9, <2>3, <2>4 DEF Open, TypeOK
<1>10. ASSUME NEW s \in Servers, Interrupt(s) \/ Unmap(s) \/ Forget(s) PROVE Fresh(u)'
  BY <1>10, FreshKept
     DEF Interrupt, Unmap, Forget, TypeOK, At, Goto, ThreadGoto, segment, thread, client
<1>11. ASSUME NEW s \in Servers, Unlink(s) \/ Kill(s) PROVE Fresh(u)'
  <2>1. /\ Ends(s, "exited") \/ Ends(s, "killed")
        /\ UNCHANGED <<head, tail, cpc, cseg>>
    BY <1>11 DEF Unlink, Kill, segment
  <2>2. CASE u = s
    <3>1. main'[u] \in {"exited", "killed"} /\ console'[u] = Own
      BY <2>1, <2>2 DEF Ends, Goto, TypeOK
    <3>2. QED BY <3>1 DEF Fresh, Own
  <2>3. CASE u # s
    BY <2>1, <2>3, FreshKept DEF Ends, Goto, TypeOK
  <2>4. QED BY <2>2, <2>3
<1>12. ASSUME NEW c \in Clients, Attach(c) \/ PrintHeader(c) \/ Leave(c) PROVE Fresh(u)'
  <2>1. /\ UNCHANGED <<head, tail, main, seg, thr, console, asked>>
        /\ cpc[c] # "write"
    BY <1>12 DEF Attach, PrintHeader, Leave, server, thread
  <2>2. \A d \in Clients : cpc[d] = "write" => cpc'[d] = "write" /\ cseg'[d] = cseg[d]
    BY <1>12 DEF Attach, PrintHeader, Leave, ClientGoto, ClientEnds, TypeOK
  <2>3. Torn(seg[u]) => Torn(seg[u])'
    BY <2>1, <2>2 DEF Torn
  <2>4. Fresh(u)
    OBVIOUS
  <2>5. QED BY <2>1, <2>3, <2>4 DEF Fresh
<1>13. ASSUME NEW c \in Clients, AskHead(c) \/ AskTail(c) PROVE Fresh(u)'
  <2>1. /\ UNCHANGED <<main, seg, thr, console, cseg>> /\ Asks(c)
        /\ cseg[c] \in Servers
    BY <1>13 DEF AskHead, AskTail, server, thread, TypeOK, HasSegment
  <2>2. /\ asked[u] \subseteq asked'[u]
        /\ seg[u] = cseg[c] => c \in asked'[u]
    BY <2>1 DEF Asks
  <2>3. Fresh(u)
    OBVIOUS
  <2>4. CASE seg[u] # cseg[c]
    <3>1. main[u] \in {"signal", "thread", "run", "munmap", "null", "unlink"}
            => seg[u] \in Servers
      BY DEF TypeOK, HasSegment
    <3>2. seg[u] \in Servers => head'[seg[u]] = head[seg[u]] /\ tail'[seg[u]] = tail[seg[u]]
      BY <1>13, <2>1, <2>4 DEF AskHead, AskTail, TypeOK
    <3>3. Torn(seg[u]) => Torn(seg[u])'
      BY <1>13, <2>1, <2>4 DEF AskHead, AskTail, ClientGoto, Torn, TypeOK
    <3>4. QED BY <2>1, <2>2, <2>3, <3>1, <3>2, <3>3 DEF Fresh
  <2>5. CASE seg[u] = cseg[c] /\ AskHead(c)
    <3>1. Torn(seg[u])'
      BY <2>1, <2>5 DEF AskHead, ClientGoto, Torn, TypeOK
    <3>2. QED BY <2>1, <2>2, <2>3, <3>1 DEF Fresh
  <2>6. CASE seg[u] = cseg[c] /\ AskTail(c)
    <3>1. tail'[seg[u]] = c
      BY <2>1, <2>6 DEF AskTail, TypeOK
    <3>2. QED BY <2>1, <2>2, <2>3, <2>6, <3>1 DEF Fresh
  <2>7. QED BY <1>13, <2>4, <2>5, <2>6
<1>14. ASSUME NEW s \in Servers, Refuse(s) \/ Admit(s) PROVE Fresh(u)'
  BY <1>14, FreshKept DEF Refuse, Admit, segment, thread
<1>15. QED
  BY <1>1, <1>2, <1>3, <1>4, <1>5, <1>6, <1>7, <1>8, <1>9, <1>10, <1>11, <1>12, <1>13, <1>14
  DEF Next, InitStep, Poll, Close, Client

(* Any number of servers and clients: the terminal a server has switched to *)
(* was asked for since it reset c_term_nm, unless a request was being        *)
(* written when it looked (ipc_comm.c:134-152, 191).                        *)
THEOREM OnlyFreshRequests == Spec => []ConsoleWasAsked
<1> DEFINE FInv == IInv /\ \A s \in Servers : Fresh(s)
<1>1. Init => FInv
  BY InitInv, FreshInit
<1>2. FInv /\ [Next]_vars => FInv'
  BY TypeStep, NamedStep, SoundStep, FreshStep DEF IInv
<1>3. FInv => ConsoleWasAsked
  BY DEF Fresh, ConsoleWasAsked
<1>4. QED BY <1>1, <1>2, <1>3, PTL DEF Spec
=============================================================================
