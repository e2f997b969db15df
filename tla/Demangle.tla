------------------------------ MODULE Demangle ------------------------------
(***************************************************************************)
(* demangle_symbol and local_demangle (symbol/demangle.c), called by       *)
(* findDmgSymByAddr for the name of a function in a backtrace: the name is *)
(* copied into a buffer of INPUT_STR_SZ characters, read, and printed into *)
(* the caller's buffer; if that fails it is shown as it is.                *)
(***************************************************************************)
EXTENDS DemanglePrint

CONSTANTS
  Cases   \* [symbol, limit, size]: a name, the room for its copy, the caller's room

VARIABLES
  case,   \* what is asked
  pc,
  info,   \* info_t of the name once it has been read
  comp,   \* the component it was read as
  dpi,    \* the output
  shown   \* *pSymName of the caller

vars == <<case, pc, info, comp, dpi, shown>>

StartsWith(str, prefix) == Len(str) >= Len(prefix) /\ SubSeq(str, 1, Len(prefix)) = prefix

(* The functions that run constructors and destructors of a file.           *)
IsGlobal(str) ==
  /\ StartsWith(str, "_GLOBAL_")
  /\ CharOf(str, 9) \in {".", "_", "$"} /\ CharOf(str, 10) \in {"D", "I"} /\ CharOf(str, 11) = "_"

IsMangled(str) == StartsWith(str, "_Z") \/ IsGlobal(str)

\* What is read: the copy, without a version and without the global prefix.
Input(str, limit) ==
  LET copy   == SubSeq(str, 1, IF Len(str) < limit THEN Len(str) ELSE limit - 1)
      ats    == {i \in 1..Len(copy) : CharOf(copy, i) = "@"}
      at     == CHOOSE i \in ats : \A j \in ats : i <= j
      plain  == IF ats = {} THEN copy ELSE SubSeq(copy, 1, at - 1)
  IN IF IsGlobal(plain) THEN SubSeq(plain, 12, Len(plain)) ELSE plain

(* "_Z" is passed over if it is there; the names of C functions that follow *)
(* a global prefix are read too.                                            *)
Begin(str) ==
  LET di == Start(str)
      us == IF Peek(di) = "_" THEN Advance(di, 1) ELSE di
  IN IF Peek(us) = "Z" THEN Advance(us, 1) ELSE us

\* Mutant of Estimate: what is printed again is not counted.
EstimateOnce(di) == Len(di.s) + di.expansion

Estimate(di) ==
  LET grown == Len(di.s) + di.expansion + 10 * di.did
  IN grown + grown \div 8

Init ==
  /\ case \in Cases
  /\ pc = "called"
  /\ info = Start("") /\ comp = Null
  /\ dpi = Output(0)
  /\ shown = case.symbol

(* Not a mangled name.                                                      *)
Refuse ==
  /\ pc = "called" /\ ~IsMangled(case.symbol)
  /\ pc' = "done"
  /\ UNCHANGED <<case, info, comp, dpi, shown>>

(* local_demangle reads the whole name or nothing.                          *)
Read ==
  /\ pc = "called" /\ IsMangled(case.symbol)
  /\ \E r \in {Rule("encoding", Begin(Input(case.symbol, case.limit)))} :
        /\ info' = r.di
        /\ comp' = IF AtEnd(r.di) THEN r.c ELSE Null
  /\ pc' = CASE info'.faulted -> "crashed" [] Is(comp') -> "read" [] OTHER -> "done"
  /\ UNCHANGED <<case, dpi, shown>>

(* make_demangle_print: no more of the caller's buffer is used than the     *)
(* estimate asks for.                                                       *)
Write ==
  /\ pc = "read"
  /\ LET room == IF Estimate(info) + 1 >= case.size THEN case.size ELSE Estimate(info) + 1
     IN \E out \in {PrintComp(Output(room), comp)} :
          LET ended == Len(out.text) < out.alc   \* the NUL
          IN /\ dpi' = [out EXCEPT !.buf = @ /\ ended]
             /\ shown' = IF out.buf /\ ended THEN out.text ELSE shown
  /\ pc' = IF dpi'.freed THEN "crashed" ELSE "done"
  /\ UNCHANGED <<case, info, comp>>

Next == Refuse \/ Read \/ Write

Spec == Init /\ [][Next]_vars
=============================================================================
