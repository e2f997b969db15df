------------------------------ MODULE IpcSegment ------------------------------
(***************************************************************************)
(* The shared segment /dbgSHM of dbgModule/comm/ipc_comm.c: processes that *)
(* load the library (servers), runs of term_mon (clients), and the files   *)
(* the name has stood for.  A segment is named by the server that created  *)
(* it.                                                                     *)
(*                                                                         *)
(* A client asks for the console by writing the name of its terminal into  *)
(* c_term_nm.  strncpy is not one access: the model splits it where two    *)
(* terminal names begin to differ, into head ("/dev/pts") and tail.        *)
(***************************************************************************)
EXTENDS FiniteSets

CONSTANTS Servers, Clients, None

ASSUME IpcConstants == None \notin Servers \cup Clients

VARIABLES
  name,     \* the segment /dbgSHM stands for
  sized,    \* segments that ftruncate has given their size
  head,     \* per segment: first bytes of c_term_nm
  tail,     \* per segment: whose terminal the remaining bytes name
  main,     \* per server: init_comm, then _sigint_handler
  seg,      \* per server: the segment it has opened
  ptr,      \* per server: p_shmAttr
  thr,      \* per server: the thread ipc_comm
  console,  \* per server: the terminal it has switched to, and how it read it
  asked,    \* per server: clients that have asked since it reset c_term_nm (history)
  cpc,      \* per client: main of term_mon
  cseg,     \* per client: the segment it has opened
  refused   \* servers in which open() of the terminal fails now

vars == <<name, sized, head, tail, main, seg, ptr, thr, console, asked, cpc, cseg, refused>>

Heads == {"", "non", "/dev/pts"}

Own == [term |-> None, torn |-> FALSE]   \* the server's own terminal

(* Whoever is past shm_open has a segment.                                  *)
HasSegment ==
  /\ \A s \in Servers :
       main[s] \notin {"new", "reopen", "off", "exited", "killed"} => seg[s] \in Servers
  /\ \A c \in Clients : cpc[c] \in {"print", "prompt", "write"} => cseg[c] \in Servers

TypeOK ==
  /\ name \in Servers \cup {None}
  /\ sized \subseteq Servers
  /\ head \in [Servers -> Heads]
  /\ tail \in [Servers -> Clients \cup {None}]
  /\ main \in [Servers -> {"new", "ftruncate", "reopen", "mmap", "fill", "reset", "signal",
                           "thread", "run", "munmap", "null", "unlink", "exited",
                           "off", "killed", "faulted"}]
  /\ seg \in [Servers -> Servers \cup {None}]
  /\ ptr \in [Servers -> {"null", "mapped", "unmapped"}]
  /\ thr \in [Servers -> {"none", "check", "read", "open", "gone", "faulted"}]
  /\ console \in [Servers -> [term: Clients \cup {None}, torn: BOOLEAN]]
  /\ asked \in [Servers -> SUBSET Clients]
  /\ cpc \in [Clients -> {"new", "print", "prompt", "write", "asleep", "gone", "faulted"}]
  /\ cseg \in [Clients -> Servers \cup {None}]
  /\ refused \subseteq Servers
  /\ HasSegment

Init ==
  /\ name = None
  /\ sized = {}
  /\ head = [g \in Servers |-> ""]
  /\ tail = [g \in Servers |-> None]
  /\ main = [s \in Servers |-> "new"]
  /\ seg = [s \in Servers |-> None]
  /\ ptr = [s \in Servers |-> "null"]
  /\ thr = [s \in Servers |-> "none"]
  /\ console = [s \in Servers |-> Own]
  /\ asked = [s \in Servers |-> {}]
  /\ cpc = [c \in Clients |-> "new"]
  /\ cseg = [c \in Clients |-> None]
  /\ refused = {}

segment == <<name, sized, head, tail>>
client  == <<cpc, cseg, refused>>   \* what no server changes
thread  == <<thr, console>>

At(s, l) == main[s] = l
Goto(s, l) == main' = [main EXCEPT ![s] = l]
-----------------------------------------------------------------------------
(* init_comm and open_shm.  An error leaves the server without             *)
(* communication; what it has created stays behind.                        *)

GiveUp(s) == Goto(s, "off") /\ seg' = [seg EXCEPT ![s] = None]

(* Mutant of OpenExclusive: a name that exists is taken over.               *)
OpenExclusiveTakesOver(s) ==
  /\ At(s, "new")
  /\ name' = s
  /\ seg' = [seg EXCEPT ![s] = s]
  /\ Goto(s, "ftruncate")
  /\ UNCHANGED <<sized, head, tail, ptr, thread, asked, client>>

OpenExclusive(s) ==
  /\ At(s, "new")
  /\ \/ /\ name = None
        /\ name' = s
        /\ seg' = [seg EXCEPT ![s] = s]
        /\ Goto(s, "ftruncate")
     \/ /\ name # None
        /\ Goto(s, "reopen")
        /\ UNCHANGED <<name, seg>>
  /\ UNCHANGED <<sized, head, tail, ptr, thread, asked, client>>

(* Mutant of Truncate: the size is not set.                                 *)
TruncateForgotten(s) ==
  /\ At(s, "ftruncate")
  /\ Goto(s, "mmap")
  /\ UNCHANGED <<segment, seg, ptr, thread, asked, client>>

Truncate(s) ==
  /\ At(s, "ftruncate")
  /\ \/ sized' = sized \cup {s} /\ Goto(s, "mmap") /\ UNCHANGED seg
     \/ GiveUp(s) /\ UNCHANGED sized
  /\ UNCHANGED <<name, head, tail, ptr, thread, asked, client>>

Reopen(s) ==
  /\ At(s, "reopen")
  /\ IF name = None THEN GiveUp(s)
     ELSE Goto(s, "mmap") /\ seg' = [seg EXCEPT ![s] = name]
  /\ UNCHANGED <<segment, ptr, thread, asked, client>>

Map(s) ==
  /\ At(s, "mmap")
  /\ (Goto(s, "fill") /\ UNCHANGED seg) \/ GiveUp(s)
  /\ UNCHANGED <<segment, ptr, thread, asked, client>>

(* The header: SIGBUS on a file that has no size yet.                       *)
Fill(s) ==
  /\ At(s, "fill")
  /\ IF seg[s] \in sized
     THEN Goto(s, "reset") /\ ptr' = [ptr EXCEPT ![s] = "mapped"]
     ELSE Goto(s, "faulted") /\ UNCHANGED ptr
  /\ UNCHANGED <<segment, seg, thread, asked, client>>

(* Mutant of Reset: c_term_nm is left as it was found.                      *)
ResetForgotten(s) ==
  /\ At(s, "reset")
  /\ asked' = [asked EXCEPT ![s] = {}]
  /\ Goto(s, "signal")
  /\ UNCHANGED <<segment, seg, ptr, thread, client>>

(* strncpy(c_term_nm, "non", 4): the bytes behind stay.                     *)
Reset(s) ==
  /\ At(s, "reset")
  /\ head' = [head EXCEPT ![seg[s]] = "non"]
  /\ asked' = [asked EXCEPT ![s] = {}]
  /\ Goto(s, "signal")
  /\ UNCHANGED <<name, sized, tail, seg, ptr, thread, client>>

RegisterSigint(s) ==
  /\ At(s, "signal")
  /\ Goto(s, "thread")
  /\ UNCHANGED <<segment, seg, ptr, thread, asked, client>>

(* The result of pthread_create_ext is not looked at.                       *)
CreateThread(s) ==
  /\ At(s, "thread")
  /\ Goto(s, "run")
  /\ thr' = [thr EXCEPT ![s] = "check"] \/ UNCHANGED thr
  /\ UNCHANGED <<segment, seg, ptr, console, asked, client>>

InitStep(s) ==
  \/ OpenExclusive(s) \/ Truncate(s) \/ Reopen(s) \/ Map(s) \/ Fill(s)
  \/ Reset(s) \/ RegisterSigint(s) \/ CreateThread(s)
-----------------------------------------------------------------------------
(* _ipc_cmd.                                                               *)

Thread(s, l) == thr[s] = l /\ main[s] \in {"run", "munmap", "null", "unlink"}
ThreadGoto(s, l) == thr' = [thr EXCEPT ![s] = l]

Check(s) ==
  /\ Thread(s, "check")
  /\ ThreadGoto(s, IF ptr[s] = "null" THEN "gone" ELSE "read")
  /\ UNCHANGED <<segment, main, seg, ptr, console, asked, client>>

(* 50 ms later: p_shmAttr is read again.                                    *)
Read(s) ==
  /\ Thread(s, "read")
  /\ ThreadGoto(s, CASE console[s] # Own         -> "check"
                     [] ptr[s] # "mapped"        -> "faulted"
                     [] head[seg[s]] = "non"     -> "check"
                     [] OTHER                    -> "open")
  /\ UNCHANGED <<segment, main, seg, ptr, console, asked, client>>

(* A client is between the two halves of its request.                       *)
Torn(g) == \E c \in Clients : cpc[c] = "write" /\ cseg[c] = g

(* Only a complete name of a terminal can be opened, and not always: the   *)
(* terminal may be gone or another user's, the process out of descriptors.  *)
(* open answers an address that is not mapped with an error.                *)
CanOpen(s) == /\ ptr[s] = "mapped" /\ head[seg[s]] = "/dev/pts" /\ tail[seg[s]] # None
              /\ s \notin refused

(* Mutant of Open: a terminal that cannot be opened ends the polling.       *)
OpenOnce(s) ==
  /\ Thread(s, "open")
  /\ ThreadGoto(s, IF CanOpen(s) THEN "check" ELSE "gone")
  /\ IF CanOpen(s)
     THEN console' = [console EXCEPT ![s] = [term |-> tail[seg[s]], torn |-> Torn(seg[s])]]
     ELSE UNCHANGED console
  /\ UNCHANGED <<segment, main, seg, ptr, asked, client>>

Open(s) ==
  /\ Thread(s, "open")
  /\ ThreadGoto(s, "check")
  /\ IF CanOpen(s)
     THEN console' = [console EXCEPT ![s] = [term |-> tail[seg[s]], torn |-> Torn(seg[s])]]
     ELSE UNCHANGED console
  /\ UNCHANGED <<segment, main, seg, ptr, asked, client>>

Poll(s) == Check(s) \/ Read(s) \/ Open(s)
-----------------------------------------------------------------------------
(* _sigint_handler and close_shm, on the thread ipc_comm or on another one. *)

Interrupt(s) ==
  /\ main[s] \in {"thread", "run"}
  /\ Goto(s, "munmap")
  /\ \/ UNCHANGED thr
     \/ thr[s] \in {"check", "read", "open"} /\ ThreadGoto(s, "gone")
  /\ UNCHANGED <<segment, seg, ptr, console, asked, client>>

Unmap(s) ==
  /\ At(s, "munmap")
  /\ ptr' = [ptr EXCEPT ![s] = "unmapped"]
  /\ Goto(s, "null")
  /\ UNCHANGED <<segment, seg, thread, asked, client>>

Forget(s) ==
  /\ At(s, "null")
  /\ ptr' = [ptr EXCEPT ![s] = "null"]
  /\ Goto(s, "unlink")
  /\ UNCHANGED <<segment, seg, thread, asked, client>>

(* A process that ends takes its memory with it.                            *)
Ends(s, how) ==
  /\ Goto(s, how)
  /\ ptr' = [ptr EXCEPT ![s] = "null"]
  /\ thr' = [thr EXCEPT ![s] = "none"]
  /\ console' = [console EXCEPT ![s] = Own]
  /\ asked' = [asked EXCEPT ![s] = {}]
  /\ seg' = [seg EXCEPT ![s] = None]
  /\ refused' = refused \ {s}

(* shm_unlink, whatever the name stands for now, and exit(0).               *)
Unlink(s) ==
  /\ At(s, "unlink")
  /\ name' = None
  /\ Ends(s, "exited")
  /\ UNCHANGED <<sized, head, tail, cpc, cseg>>

Close(s) == Unmap(s) \/ Forget(s) \/ Unlink(s)

Live == {"ftruncate", "reopen", "mmap", "fill", "reset", "signal", "thread", "run",
         "munmap", "null", "unlink"}

(* The process ends without its handler: SIGKILL, or ^C before it is       *)
(* registered.  The name stays.                                            *)
Kill(s) ==
  /\ main[s] \in Live
  /\ Ends(s, "killed")
  /\ UNCHANGED <<segment, cpc, cseg>>
-----------------------------------------------------------------------------
(* main of term_mon.                                                       *)

ClientGoto(c, l) == cpc' = [cpc EXCEPT ![c] = l]
ClientEnds(c, how) == ClientGoto(c, how) /\ cseg' = [cseg EXCEPT ![c] = None]
server == <<name, sized, main, seg, ptr, thread, refused>>   \* what no client changes

Attach(c) ==
  /\ cpc[c] = "new"
  /\ IF name = None THEN ClientGoto(c, "gone") /\ UNCHANGED cseg
     ELSE ClientGoto(c, "print") /\ cseg' = [cseg EXCEPT ![c] = name]
  /\ UNCHANGED <<server, head, tail, asked>>

PrintHeader(c) ==
  /\ cpc[c] = "print"
  /\ IF cseg[c] \in sized THEN ClientGoto(c, "prompt") /\ UNCHANGED cseg
     ELSE ClientEnds(c, "faulted")
  /\ UNCHANGED <<server, head, tail, asked>>

(* '.', or the end of the input.                                            *)
Leave(c) ==
  /\ cpc[c] = "prompt"
  /\ ClientEnds(c, "gone")
  /\ UNCHANGED <<server, head, tail, asked>>

Asks(c) == asked' = [s \in Servers |-> IF seg[s] = cseg[c] THEN asked[s] \cup {c} ELSE asked[s]]

(* '*': the terminal's name is copied; head before tail.                    *)
AskHead(c) ==
  /\ cpc[c] = "prompt"
  /\ head' = [head EXCEPT ![cseg[c]] = "/dev/pts"]
  /\ Asks(c)
  /\ ClientGoto(c, "write")
  /\ UNCHANGED <<server, tail, cseg>>

(* Then the client puts its own streams on /dev/null and sleeps.            *)
AskTail(c) ==
  /\ cpc[c] = "write"
  /\ tail' = [tail EXCEPT ![cseg[c]] = c]
  /\ ClientGoto(c, "asleep")
  /\ Asks(c)
  /\ UNCHANGED <<server, head, cseg>>

Client(c) == Attach(c) \/ PrintHeader(c) \/ Leave(c) \/ AskHead(c) \/ AskTail(c)

(* The system around them: whether open() would fail in a process that polls*)
(* for a request (in another one nobody calls it).                          *)
Refuse(s) ==
  /\ thr[s] # "none" /\ main[s] = "run" /\ console[s] = Own
  /\ refused' = refused \cup {s}
  /\ UNCHANGED <<segment, main, seg, ptr, thread, asked, cpc, cseg>>

Admit(s) ==
  /\ s \in refused
  /\ refused' = refused \ {s}
  /\ UNCHANGED <<segment, main, seg, ptr, thread, asked, cpc, cseg>>

Next ==
  \/ \E s \in Servers : InitStep(s) \/ Poll(s) \/ Interrupt(s) \/ Close(s) \/ Kill(s)
  \/ \E s \in Servers : Refuse(s) \/ Admit(s)
  \/ \E c \in Clients : Client(c)

Spec == Init /\ [][Next]_vars

(* The scheduler runs the polling thread of a live process.                 *)
FairSpec == Spec /\ \A s \in Servers : WF_vars(Poll(s))
-----------------------------------------------------------------------------
(* A server that starts after a crash does not take up a request made to   *)
(* its predecessor: the terminal it switches to was asked for since it     *)
(* reset c_term_nm (ipc_comm.c:191), except while another client is in the *)
(* middle of writing, when old bytes stand behind the new ones.            *)
ConsoleWasAsked ==
  \A s \in Servers : console[s].term \notin asked[s] \cup {None} => console[s].torn

(* A server can be found under the name unless another one has been        *)
(* interrupted: nothing but close_shm takes the name away, and it takes it  *)
(* from every server there is (ipc_comm.c:81-94, 220).                      *)
NamedUnlessUnlinked ==
  \A s \in Servers : main[s] \in Live \ {"reopen"} /\ name # seg[s] =>
    \E u \in Servers \ {s} : main[u] = "exited"

(* A server dies of a bus error only in a segment another server has       *)
(* created and not sized (ipc_comm.c:85, 106), and its thread of an         *)
(* unmapped segment only while ^C is closing it (ipc_comm.c:134, 218).      *)
FaultsKnown ==
  \A s \in Servers :
    /\ main[s] = "faulted" => seg[s] # s
    /\ thr[s] = "faulted" => main[s] \in {"null", "unlink"}

(* A complete request is answered by every server that polls the segment   *)
(* and still has its own terminal, unless another server resets the        *)
(* request first or the server ends.  While open() of the terminal fails    *)
(* nobody answers and the client sleeps on; an open() that has failed does  *)
(* not keep the server from answering once it would succeed                 *)
(* (ipc_comm.c:128-156).                                                    *)
Asked(s) == /\ thr[s] # "none" /\ main[s] = "run" /\ console[s] = Own
            /\ head[seg[s]] = "/dev/pts" /\ tail[seg[s]] # None /\ s \notin refused

RequestAnswered ==
  \A s \in Servers :
    Asked(s) ~> console[s] # Own \/ main[s] # "run" \/ head[seg[s]] # "/dev/pts" \/ s \in refused
=============================================================================
