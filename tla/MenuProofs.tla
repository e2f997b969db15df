------------------------------ MODULE MenuProofs ------------------------------
(***************************************************************************)
(* Proofs about MenuShell, for command lines of any length, menu stacks of *)
(* any depth and any number of calls: where the shell is, what it puts back*)
(* when it is left, that F10 never makes the level run ahead, and that the *)
(* recursion implements MenuNav.                                           *)
(***************************************************************************)
EXTENDS MenuShell, SequenceTheorems, FiniteSetTheorems, NaturalsInduction,
        WellFoundedInduction, TLAPS

InCall == {"top", "read", "eval", "ret", "exit"}

Typed ==
  /\ frames \in Seq(Frame) /\ level \in Int
  /\ mstack \in [0..MaxDepth-1 -> Menus \cup {NoMenu}]
  /\ ctl \in InCall \cup {"idle", "reenter", "wild", "killed"}
  /\ args \in Seq(STRING)
  /\ enable \in BOOLEAN /\ hasty \in BOOLEAN
  /\ chosen \in [lvl: Levels, enable: BOOLEAN]

(* _mainMenu is called by cmdDebugMain, and by itself after that.           *)
Calls ==
  /\ ctl \in InCall => frames # <<>>
  /\ ctl \in {"idle", "reenter"} => frames = <<>>
  /\ frames # <<>> => frames[1].via = "root"

(* The level lags behind the calls if it differs from their number; and it  *)
(* is 0 where F10 has been noticed.                                         *)
Lags ==
  /\ LevelWithinFrames
  /\ ctl = "exit" => level = 0

(* Without F10 inside the menus the level is the number of calls, and each  *)
(* has its menu in the stack, wherever the shell has got to.                *)
Following == ctl \in {"top", "read", "eval", "ret", "idle", "reenter"}

Straight ==
  ~hasty =>
    /\ ctl # "exit"
    /\ Following =>
         /\ level = Len(frames) /\ level <= MaxDepth
         /\ \A i \in 1..Len(frames) : mstack[i-1] = frames[i].menu
         /\ \A i \in 2..Len(frames) : frames[i].via # "root"

(* What help has still to look up fits the menu stack.                      *)
HelpFits ==
  ctl = "eval" /\ (\E i \in 1..Len(args) : args[i] = "help") => level + Len(args) - 1 <= MaxDepth

(* The modes the shell will put back are those the user has chosen.         *)
Modes ==
  ~hasty =>
    /\ enable = chosen.enable
    /\ \A i \in 1..Len(frames) : frames[i].saved = enable
    /\ ~excMode /\ frames # <<>> => prntStat = chosen.lvl
    /\ ctl = "idle" => ~excMode /\ printLvl = chosen.lvl
    /\ ctl = "reenter" => excMode

IInv == Typed /\ Calls /\ Lags /\ Straight /\ HelpFits /\ Modes
-----------------------------------------------------------------------------
(* There are no more leading ".." than words.                               *)
LEMMA UpsBounded ==
  ASSUME NEW w \in Seq(STRING)
  PROVE  Ups(w) \in 0..Len(w)
<1> DEFINE ups == {i \in DOMAIN w : \A j \in 1..i : w[j] = ".."}
<1>1. DOMAIN w = 1..Len(w) /\ Len(w) \in Nat
  BY LenProperties
<1>2. IsFiniteSet(1..Len(w)) /\ Cardinality(1..Len(w)) = Len(w)
  BY <1>1, FS_Interval
<1>3. ups \in SUBSET (1..Len(w))
  BY <1>1
<1>4. IsFiniteSet(ups) /\ Cardinality(ups) <= Len(w)
  BY <1>2, <1>3, FS_Subset
<1>5. Cardinality(ups) \in Nat
  BY <1>4, FS_CardinalityType
<1> QED  BY <1>1, <1>4, <1>5 DEF Ups

(* What follows the leading "..": words of the line, no more than it has.   *)
LEMMA RestWords ==
  ASSUME NEW w \in Seq(STRING)
  PROVE  /\ Rest(w) \in Seq(STRING)
         /\ Len(Rest(w)) \in Nat /\ Len(Rest(w)) <= Len(w)
         /\ \A i \in 1..Len(Rest(w)) : \E j \in 1..Len(w) : Rest(w)[i] = w[j]
<1> DEFINE u == Ups(w)
<1>1. u \in 0..Len(w) /\ Len(w) \in Nat /\ DOMAIN w = 1..Len(w)
  BY UpsBounded, LenProperties
<1>2. \A i \in u+1..Len(w) : w[i] \in STRING
  BY <1>1, ElementOfSeq
<1>3. u+1 \in Int /\ Len(w) \in Int
  BY <1>1
<1> HIDE DEF u
<1>4. /\ SubSeq(w, u+1, Len(w)) \in Seq(STRING)
      /\ Len(SubSeq(w, u+1, Len(w))) = IF u+1 <= Len(w) THEN Len(w)-(u+1)+1 ELSE 0
      /\ \A i \in 1..Len(w)-(u+1)+1 : SubSeq(w, u+1, Len(w))[i] = w[u+1+i-1]
  BY <1>2, <1>3, SubSeqProperties
<1>5. Rest(w) = SubSeq(w, u+1, Len(w))
  BY DEF Rest, u
<1> DEFINE r == Rest(w)
<1>6. /\ r \in Seq(STRING)
      /\ Len(r) = IF u+1 <= Len(w) THEN Len(w)-(u+1)+1 ELSE 0
      /\ \A i \in 1..Len(w)-(u+1)+1 : r[i] = w[u+1+i-1]
  BY <1>4, <1>5, Zenon
<1> HIDE DEF r
<1>7. Len(r) = Len(w) - u
  <2>1. \A n \in Nat, m \in Nat : m <= n => n - m = IF m+1 <= n THEN n-(m+1)+1 ELSE 0
    OBVIOUS
  <2>2. u \in Nat /\ u <= Len(w)
    BY <1>1
  <2> QED  BY <1>1, <1>6, <2>1, <2>2, Zenon
<1>8. ASSUME NEW i \in 1..Len(r)
      PROVE  u+i \in 1..Len(w) /\ r[i] = w[u+i]
  <2>1. i \in 1..Len(w)-(u+1)+1 /\ u+1+i-1 = u+i /\ u+i \in 1..Len(w)
    BY <1>1, <1>7
  <2>2. r[i] = w[u+1+i-1]
    BY <1>6, <2>1, Zenon
  <2> QED  BY <2>1, <2>2, Zenon
<1>9. Len(r) \in Nat /\ Len(r) <= Len(w)
  BY <1>1, <1>7
<1> QED  BY <1>6, <1>8, <1>9, Zenon DEF r

(* A word is a line of its own.                                             *)
LEMMA OneWord ==
  ASSUME NEW S, NEW x \in S
  PROVE  <<x>> \in Seq(S) /\ Len(<<x>>) = 1
OBVIOUS

(* A call of _mainMenu puts one frame on top and one menu into the stack.   *)
Appended(fs, lv, menu, argv, via) ==
  /\ frames' \in Seq(Frame) /\ frames' # <<>> /\ Len(frames') = Len(fs) + 1
  /\ \A i \in 1..Len(fs) : frames'[i] = fs[i]
  /\ frames'[Len(fs)+1].menu = menu /\ frames'[Len(fs)+1].saved = enable
  /\ frames'[Len(fs)+1].via = via /\ frames'[Len(fs)+1].nlev = lv
  /\ (frames'[Len(fs)+1].loop <=> argv = <<>>)
  /\ level' = lv + 1 /\ args' = argv /\ ctl' \in {"top", "eval"}
  /\ ctl' = "eval" => argv # <<>>
  /\ mstack' \in [0..MaxDepth-1 -> Menus \cup {NoMenu}]
  /\ lv \in 0..MaxDepth-1 => mstack' = [mstack EXCEPT ![lv] = menu]

LEMMA CallAppends ==
  ASSUME Typed, NEW fs \in Seq(Frame), NEW lv \in Int, NEW menu \in Menus,
         NEW argv \in Seq(STRING), NEW via \in {"root", "menu", "help"},
         Call(fs, lv, menu, argv, via)
  PROVE  Appended(fs, lv, menu, argv, via)
<1> DEFINE f == [menu |-> menu, loop |-> argv = <<>>, saved |-> enable, via |-> via, nlev |-> lv]
<1>1. f \in Frame
  BY DEF Frame, Typed
<1>2. frames' = Append(fs, f)
  BY DEF Call
<1>3. f.menu = menu /\ f.saved = enable /\ f.via = via /\ f.nlev = lv /\ (f.loop <=> argv = <<>>)
  OBVIOUS
<1> HIDE DEF f
<1>4. /\ frames' \in Seq(Frame) /\ frames' # <<>> /\ Len(frames') = Len(fs) + 1
      /\ \A i \in 1..Len(fs) : frames'[i] = fs[i]
      /\ frames'[Len(fs)+1] = f
  BY <1>1, <1>2, AppendProperties
<1>5. DOMAIN mstack = 0..MaxDepth-1
  BY DEF Typed
<1>6. /\ mstack' \in [0..MaxDepth-1 -> Menus \cup {NoMenu}]
      /\ lv \in 0..MaxDepth-1 => mstack' = [mstack EXCEPT ![lv] = menu]
  BY <1>5 DEF Call, Typed
<1>7. level' = lv + 1 /\ args' = argv /\ ctl' = IF argv = <<>> THEN "top" ELSE "eval"
  BY DEF Call
<1> QED  BY <1>3, <1>4, <1>6, <1>7 DEF Appended

(* A prompt, and a line that starts with "/", only write newMenuLevel.      *)
LEMMA LevelWritten ==
  ASSUME frames \in Seq(Frame), frames # <<>>, NEW n \in Int,
         frames' = [frames EXCEPT ![Len(frames)].nlev = n]
  PROVE  /\ frames' \in Seq(Frame) /\ frames' # <<>> /\ Len(frames') = Len(frames)
         /\ \A i \in 1..Len(frames) : /\ frames'[i].menu = frames[i].menu
                                      /\ frames'[i].loop = frames[i].loop
                                      /\ frames'[i].saved = frames[i].saved
                                      /\ frames'[i].via = frames[i].via
         /\ frames'[Len(frames)].nlev = n
<1>1. Len(frames) \in Nat \ {0}
  BY EmptySeq
<1>2. Len(frames) \in 1..Len(frames)
  BY <1>1
<1> DEFINE f == [frames[Len(frames)] EXCEPT !.nlev = n]
<1>3. frames[Len(frames)] \in Frame
  BY <1>2, ElementOfSeq
<1>4. f \in Frame
  BY <1>3 DEF Frame
<1>5. /\ f.menu = frames[Len(frames)].menu /\ f.saved = frames[Len(frames)].saved
      /\ f.via = frames[Len(frames)].via
      /\ f.loop = frames[Len(frames)].loop /\ f.nlev = n
  BY <1>3 DEF Frame
<1>6. frames' = [frames EXCEPT ![Len(frames)] = f]
  OBVIOUS
<1> HIDE DEF f
<1>7. /\ frames' \in Seq(Frame) /\ Len(frames') = Len(frames)
      /\ \A j \in 1..Len(frames) : frames'[j] = IF j = Len(frames) THEN f ELSE frames[j]
  BY <1>2, <1>4, <1>6, ExceptSeq
<1>8. frames' # <<>>
  BY <1>1, <1>7, EmptySeq
<1>9. ASSUME NEW i \in 1..Len(frames)
      PROVE  /\ frames'[i].menu = frames[i].menu
             /\ frames'[i].loop = frames[i].loop
             /\ frames'[i].saved = frames[i].saved
             /\ frames'[i].via = frames[i].via
  BY <1>5, <1>7
<1> QED  BY <1>2, <1>5, <1>7, <1>8, <1>9

(* A sequence without its last element.                                     *)
LEMMA FrontIs ==
  ASSUME NEW S, NEW q \in Seq(S), q # <<>>
  PROVE  /\ Front(q) \in Seq(S) /\ Len(q) \in Nat \ {0}
         /\ Len(Front(q)) = Len(q) - 1
         /\ \A i \in 1..Len(q)-1 : Front(q)[i] = q[i]
<1>1. Len(q) \in Nat \ {0}
  BY EmptySeq
<1>2. 1 \in Int /\ Len(q)-1 \in Int
  BY <1>1
<1>3. \A i \in 1..Len(q)-1 : q[i] \in S
  BY <1>1, ElementOfSeq
<1>4. /\ SubSeq(q, 1, Len(q)-1) \in Seq(S)
      /\ Len(SubSeq(q, 1, Len(q)-1)) =
           IF 1 <= Len(q)-1 THEN Len(q)-1-1+1 ELSE 0
      /\ \A i \in 1..Len(q)-1-1+1 : SubSeq(q, 1, Len(q)-1)[i] = q[1+i-1]
  BY <1>2, <1>3, SubSeqProperties
<1> DEFINE b == Front(q)
<1>5. /\ b \in Seq(S)
      /\ Len(b) = IF 1 <= Len(q)-1 THEN Len(q)-1-1+1 ELSE 0
      /\ \A i \in 1..Len(q)-1-1+1 : b[i] = q[1+i-1]
  BY <1>4, Zenon DEF Front
<1> HIDE DEF b
<1>6. Len(b) = Len(q) - 1
  <2>1. \A n \in Nat \ {0} : n - 1 = IF 1 <= n-1 THEN n-1-1+1 ELSE 0
    OBVIOUS
  <2> QED  BY <1>1, <1>5, <2>1, Zenon
<1>7. ASSUME NEW i \in 1..Len(q)-1
      PROVE  b[i] = q[i]
  <2>1. i \in 1..Len(q)-1-1+1 /\ 1+i-1 = i
    BY <1>1
  <2>2. b[i] = q[1+i-1]
    BY <1>5, <2>1, Zenon
  <2> QED  BY <2>1, <2>2, Zenon
<1> QED  BY <1>1, <1>5, <1>6, <1>7, Zenon DEF b

(* A call that returns takes its frame with it.                             *)
LEMMA FrameLeft ==
  ASSUME frames \in Seq(Frame), frames # <<>>
  PROVE  /\ Front(frames) \in Seq(Frame) /\ Len(frames) \in Nat \ {0}
         /\ Len(Front(frames)) = Len(frames) - 1
         /\ \A i \in 1..Len(frames)-1 : Front(frames)[i] = frames[i]
BY FrontIs
-----------------------------------------------------------------------------
(* A shell that is opened, from idle, by an exception or once more: one call.*)
LEMMA ShellOpens ==
  ASSUME IInv, DebugMain(<<>>), UNCHANGED <<hasty, chosen>>,
         ~hasty => excMode' \/ printLvl = chosen.lvl
  PROVE  IInv'
<1> USE ShellConstants
<1>1. Call(<<>>, 0, "debugMain", <<>>, "root") /\ prntStat' = printLvl /\ enable' = enable
  BY DEF DebugMain
<1>2. /\ <<>> \in Seq(Frame) /\ <<>> \in Seq(STRING) /\ 0 \in Int /\ Len(<<>>) = 0
      /\ "debugMain" \in Menus /\ "root" \in {"root", "menu", "help"} /\ Typed
  BY EmptySeq DEF Menus, IInv
<1>0. Appended(<<>>, 0, "debugMain", <<>>, "root")
  BY <1>1, <1>2, CallAppends
<1>3. /\ frames' \in Seq(Frame) /\ frames' # <<>> /\ Len(frames') = Len(<<>>) + 1
      /\ frames'[Len(<<>>)+1].menu = "debugMain" /\ frames'[Len(<<>>)+1].saved = enable
      /\ frames'[Len(<<>>)+1].via = "root"
      /\ level' = 0 + 1 /\ args' = <<>> /\ ctl' \in {"top", "eval"}
      /\ ctl' = "eval" => <<>> # <<>>
      /\ mstack' \in [0..MaxDepth-1 -> Menus \cup {NoMenu}]
      /\ 0 \in 0..MaxDepth-1 => mstack' = [mstack EXCEPT ![0] = "debugMain"]
  BY <1>0 DEF Appended
<1>4. Len(frames') = 1 /\ level' = 1 /\ ctl' = "top"
  <2>1. ctl' = "top"
    BY <1>3, Zenon
  <2>2. Len(frames') = 0 + 1 /\ level' = 0 + 1
    BY <1>2, <1>3, Zenon
  <2> QED  BY <2>1, <2>2
<1>5. /\ mstack'[0] = "debugMain"
      /\ frames'[1].menu = "debugMain" /\ frames'[1].saved = enable /\ frames'[1].via = "root"
  <2>1. Len(<<>>) + 1 = 1
    BY <1>2
  <2>2. mstack' = [mstack EXCEPT ![0] = "debugMain"] /\ 0 \in DOMAIN mstack
    BY <1>3 DEF IInv, Typed
  <2>3. mstack'[0] = "debugMain"
    BY <2>2
  <2> QED  BY <1>3, <2>1, <2>3, Zenon
<1>6. Typed'
  BY <1>1, <1>2, <1>3, <1>4 DEF IInv, Typed, InCall
<1>7. Calls' /\ Lags' /\ HelpFits'
  BY <1>3, <1>4, <1>5 DEF Calls, Lags, HelpFits, LevelWithinFrames
<1>8. Straight'
  <2>1. ASSUME NEW i \in 1..Len(frames')
        PROVE  mstack'[i-1] = frames'[i].menu
    BY <1>3, <1>4, <1>5
  <2>2. 2..Len(frames') = {}
    BY <1>4
  <2> QED  BY <1>4, <2>1, <2>2 DEF Straight
<1>9. Modes'
  BY <1>1, <1>3, <1>4, <1>5 DEF IInv, Modes
<1> QED  BY <1>6, <1>7, <1>8, <1>9 DEF IInv

(* F10 at a level that has been reset opens a shell above the calls.        *)
LEMMA ShellNests ==
  ASSUME IInv, hasty, frames # <<>>, level = 0, DebugMain(frames), UNCHANGED <<hasty, chosen>>
  PROVE  IInv'
<1> USE ShellConstants
<1>1. Call(frames, 0, "debugMain", <<>>, "root") /\ enable' = enable
  BY DEF DebugMain
<1>2. <<>> \in Seq(STRING) /\ "debugMain" \in Menus
  BY EmptySeq DEF Menus
<1>3. /\ frames' \in Seq(Frame) /\ frames' # <<>> /\ Len(frames') = Len(frames) + 1
      /\ \A i \in 1..Len(frames) : frames'[i] = frames[i]
      /\ level' = 0 + 1 /\ args' = <<>> /\ ctl' \in {"top", "eval"}
      /\ ctl' = "eval" => <<>> # <<>>
      /\ mstack' \in [0..MaxDepth-1 -> Menus \cup {NoMenu}]
  <2>1. Typed /\ frames \in Seq(Frame) /\ 0 \in Int /\ "root" \in {"root", "menu", "help"}
    BY DEF IInv, Typed
  <2>2. Appended(frames, 0, "debugMain", <<>>, "root")
    BY <1>1, <1>2, <2>1, CallAppends
  <2> QED  BY <2>2 DEF Appended
<1>4. Len(frames) \in Nat \ {0} /\ level' = 1 /\ ctl' = "top"
  BY <1>3, EmptySeq DEF IInv, Typed
<1>5. Typed'
  BY <1>1, <1>2, <1>3, <1>4 DEF IInv, Typed, InCall
<1>6. Calls' /\ Lags' /\ HelpFits'
  BY <1>3, <1>4 DEF IInv, Calls, Lags, HelpFits, LevelWithinFrames
<1>7. Straight' /\ Modes'
  BY DEF Straight, Modes
<1> QED  BY <1>5, <1>6, <1>7 DEF IInv

(* A menu that is entered, or asked for help.                               *)
LEMMA MenuEnters ==
  ASSUME IInv, ctl = "eval", NEW menu \in Menus, NEW argv \in Seq(STRING),
         NEW via \in {"menu", "help"}, Call(frames, level, menu, argv, via),
         UNCHANGED <<modes, excMode, hasty, chosen>>,
         hasty \/ level < MaxDepth,
         (\E i \in 1..Len(argv) : argv[i] = "help") => level + Len(argv) <= MaxDepth
  PROVE  IInv'
<1> USE ShellConstants
<1>1. /\ frames' \in Seq(Frame) /\ frames' # <<>> /\ Len(frames') = Len(frames) + 1
      /\ \A i \in 1..Len(frames) : frames'[i] = frames[i]
      /\ frames'[Len(frames)+1].menu = menu /\ frames'[Len(frames)+1].saved = enable
      /\ frames'[Len(frames)+1].via = via
      /\ level' = level + 1 /\ args' = argv /\ ctl' \in {"top", "eval"}
      /\ mstack' \in [0..MaxDepth-1 -> Menus \cup {NoMenu}]
      /\ level \in 0..MaxDepth-1 => mstack' = [mstack EXCEPT ![level] = menu]
  <2>1. Typed /\ frames \in Seq(Frame) /\ level \in Int /\ via \in {"root", "menu", "help"}
    BY DEF IInv, Typed
  <2>2. Appended(frames, level, menu, argv, via)
    BY <2>1, CallAppends
  <2> QED  BY <2>2 DEF Appended
<1>2. frames # <<>> /\ Len(frames) \in Nat \ {0} /\ level \in Int
  BY EmptySeq DEF IInv, Typed, Calls, InCall
<1>3. enable' = enable /\ printLvl' = printLvl /\ prntStat' = prntStat
  BY DEF modes
<1>4. Typed'
  BY <1>1, <1>3 DEF IInv, Typed, InCall
<1>5. Calls' /\ Lags'
  BY <1>1, <1>2 DEF IInv, Calls, Lags, LevelWithinFrames
<1>6. HelpFits'
  <2>1. Len(argv) \in Nat
    BY LenProperties
  <2>2. level' + Len(argv) - 1 = level + Len(argv)
    BY <1>1, <1>2, <2>1
  <2> QED  BY <1>1, <2>2, Zenon DEF HelpFits
<1>7. ASSUME ~hasty
      PROVE  /\ level' = Len(frames') /\ level' <= MaxDepth
             /\ \A i \in 1..Len(frames') : mstack'[i-1] = frames'[i].menu
             /\ \A i \in 2..Len(frames') : frames'[i].via # "root"
  <2>1. /\ level = Len(frames)
        /\ \A i \in 1..Len(frames) : mstack[i-1] = frames[i].menu
        /\ \A i \in 2..Len(frames) : frames[i].via # "root"
    BY <1>7 DEF IInv, Straight, Following
  <2>2. level \in 0..MaxDepth-1 /\ level < MaxDepth
    BY <1>2, <1>7, <2>1
  <2>3. mstack' = [mstack EXCEPT ![level] = menu] /\ DOMAIN mstack = 0..MaxDepth-1
    BY <1>1, <2>2 DEF IInv, Typed
  <2>4. ASSUME NEW i \in 1..Len(frames')
        PROVE  mstack'[i-1] = frames'[i].menu
    <3>1. CASE i = Len(frames) + 1
      BY <1>1, <1>2, <2>1, <2>2, <2>3, <3>1
    <3>2. CASE i \in 1..Len(frames)
      <4>1. i-1 \in 0..MaxDepth-1 /\ i-1 # level
        BY <1>2, <2>1, <2>2, <3>2
      <4> QED  BY <1>1, <2>1, <2>3, <3>2, <4>1
    <3> QED  BY <1>1, <1>2, <3>1, <3>2
  <2>5. ASSUME NEW i \in 2..Len(frames')
        PROVE  frames'[i].via # "root"
    <3>1. CASE i = Len(frames) + 1
      BY <1>1, <3>1
    <3>2. CASE i \in 2..Len(frames)
      BY <1>1, <1>2, <2>1, <3>2
    <3> QED  BY <1>1, <1>2, <3>1, <3>2
  <2> QED  BY <1>1, <1>2, <2>1, <2>2, <2>4, <2>5
<1>8. Straight'
  BY <1>1, <1>7 DEF Straight
<1>9. Modes'
  <2>1. ASSUME ~hasty
        PROVE  \A i \in 1..Len(frames') : frames'[i].saved = enable'
    <3>1. \A i \in 1..Len(frames) : frames'[i].saved = enable
      BY <1>1, <2>1 DEF IInv, Modes
    <3> QED  BY <1>1, <1>2, <1>3, <3>1
  <2> QED  BY <1>1, <1>2, <1>3, <2>1 DEF IInv, Modes
<1> QED  BY <1>4, <1>5, <1>6, <1>8, <1>9 DEF IInv

(* A line that keeps the calls as they are.                                 *)
LEMMA CallsStay ==
  ASSUME IInv, ctl = "eval", Stay, ctl' \in {"top", "ret"}
  PROVE  IInv'
<1>1. UNCHANGED <<frames, level, mstack, args, enable, printLvl, prntStat, excMode, hasty, chosen>>
  BY DEF Stay, memory, modes
<1>2. Typed' /\ Calls' /\ Lags' /\ HelpFits'
  BY <1>1 DEF IInv, Typed, Calls, Lags, HelpFits, InCall, LevelWithinFrames
<1>3. Straight'
  BY <1>1 DEF IInv, Straight, Following
<1>4. Modes'
  BY <1>1 DEF IInv, Modes
<1> QED  BY <1>2, <1>3, <1>4 DEF IInv

(* A call that returns, or that has found the level reset.                  *)
LEMMA CallLeft ==
  ASSUME IInv, NEW v, Leave(v),
         \/ ctl = "ret" /\ level' = level - 1 /\ Restore(level - 1)
         \/ ctl = "exit" /\ level' = level /\ Restore(0)
  PROVE  IInv'
<1> DEFINE b == Front(frames)
<1>1. frames # <<>> /\ frames \in Seq(Frame) /\ level \in Int
  BY DEF IInv, Typed, Calls, InCall
<1>2. /\ frames' = b /\ b \in Seq(Frame) /\ Len(frames) \in Nat \ {0}
      /\ Len(b) = Len(frames) - 1
      /\ \A i \in 1..Len(frames)-1 : b[i] = frames[i]
  BY <1>1, FrameLeft DEF Leave
<1>3. TopFrame \in Frame /\ TopFrame.saved \in BOOLEAN
  <2>1. Len(frames) \in 1..Len(frames)
    BY <1>2
  <2>2. TopFrame \in Frame
    BY <1>1, <2>1, ElementOfSeq DEF TopFrame
  <2> QED  BY <2>2 DEF Frame
<1>4. enable' \in BOOLEAN
  BY <1>3 DEF Restore, IInv, Typed
<1>5. UNCHANGED <<mstack, args, prntStat, excMode, hasty, chosen>>
  BY DEF Leave, memory
<1>6. level' \in Int /\ level' <= Len(b)
  BY <1>1, <1>2 DEF IInv, Lags, LevelWithinFrames
<1>7. CASE TopFrame.via = "root"
  <2>1. /\ ctl' = IF b # <<>> THEN "read" ELSE IF excMode THEN "reenter" ELSE "idle"
        /\ printLvl' = prntStat
    BY <1>7 DEF Leave
  <2>2. Typed'
    BY <1>2, <1>4, <1>5, <1>6, <2>1 DEF IInv, Typed, InCall
  <2>3. b # <<>> => 1 \in 1..Len(frames)-1 /\ b[1].via = "root"
    <3>1. b # <<>> => Len(b) \in Nat \ {0}
      BY <1>2, EmptySeq
    <3>2. b # <<>> => 1 \in 1..Len(frames)-1
      BY <1>2, <3>1
    <3> QED  BY <1>1, <1>2, <3>2 DEF IInv, Calls
  <2>4. Calls' /\ Lags' /\ HelpFits'
    BY <1>2, <1>6, <2>1, <2>3 DEF Calls, Lags, HelpFits, LevelWithinFrames, InCall
  <2>5. ASSUME ~hasty PROVE level = 1 /\ Len(frames) = 1 /\ ctl = "ret"
    <3>1. ctl = "ret" /\ level = Len(frames) /\ \A i \in 2..Len(frames) : frames[i].via # "root"
      BY <2>5 DEF IInv, Straight, Following
    <3>2. Len(frames) \notin 2..Len(frames)
      BY <1>7, <3>1 DEF TopFrame
    <3> QED  BY <1>2, <3>1, <3>2
  <2>6. ~hasty => b = <<>> /\ level' = 0 /\ Len(b) = 0
    <3>1. Len(b) = 0 => b = <<>>
      BY <1>2, EmptySeq
    <3> QED  BY <1>2, <2>5, <3>1
  <2>7. Straight'
    <3>1. ~hasty => ctl' # "exit" /\ level' = Len(frames') /\ Len(frames') = 0
      BY <1>2, <2>1, <2>6
    <3>2. 1..0 = {} /\ 2..0 = {} /\ 0 <= MaxDepth /\ hasty' = hasty
      BY <1>5, ShellConstants
    <3> QED  BY <3>1, <3>2 DEF Straight
  <2>8. ~hasty => enable' = enable
    <3>1. ~hasty => TopFrame.saved = enable
      BY <1>2 DEF IInv, Modes, TopFrame
    <3> QED  BY <2>5, <3>1 DEF Restore
  <2>9. ~hasty /\ ~excMode => printLvl' = chosen.lvl
    BY <1>1, <2>1 DEF IInv, Modes
  <2>10. Modes'
    BY <1>2, <1>5, <2>1, <2>6, <2>8, <2>9 DEF IInv, Modes
  <2> QED  BY <2>2, <2>4, <2>7, <2>10 DEF IInv
<1>8. CASE TopFrame.via # "root"
  <2>1. ctl' \in {"top", "ret"} /\ printLvl' = printLvl
    BY <1>8 DEF Leave, Continue
  <2>2. Typed'
    BY <1>2, <1>4, <1>5, <1>6, <2>1 DEF IInv, Typed, InCall
  <2>3. Len(frames) # 1
    BY <1>1, <1>8 DEF IInv, Calls, TopFrame
  <2>4. 1 \in 1..Len(frames)-1 /\ b # <<>> /\ b[1].via = "root"
    <3>1. 1 \in 1..Len(frames)-1 /\ Len(b) # 0
      BY <1>2, <2>3
    <3> QED  BY <1>1, <1>2, <3>1, EmptySeq DEF IInv, Calls
  <2>5. Calls' /\ Lags' /\ HelpFits'
    BY <1>2, <1>6, <2>1, <2>4 DEF Calls, Lags, HelpFits, LevelWithinFrames, InCall
  <2>6. ASSUME ~hasty
        PROVE  /\ level' = Len(b) /\ level' <= MaxDepth
               /\ \A i \in 1..Len(b) : mstack[i-1] = b[i].menu
               /\ \A i \in 2..Len(b) : b[i].via # "root"
    <3>1. /\ ctl = "ret" /\ level = Len(frames) /\ level <= MaxDepth
          /\ \A i \in 1..Len(frames) : mstack[i-1] = frames[i].menu
          /\ \A i \in 2..Len(frames) : frames[i].via # "root"
      BY <2>6 DEF IInv, Straight, Following
    <3>2. level' = Len(b) /\ level' <= MaxDepth
      BY <1>2, <3>1, ShellConstants
    <3>3. 1..Len(b) \subseteq 1..Len(frames) /\ 1..Len(b) = 1..Len(frames)-1
          /\ 2..Len(b) \subseteq 2..Len(frames) /\ 2..Len(b) \subseteq 1..Len(frames)-1
      BY <1>2
    <3> QED  BY <1>2, <3>1, <3>2, <3>3
  <2>7. Straight'
    BY <1>2, <1>5, <2>1, <2>6 DEF Straight, Following
  <2>8. ~hasty => enable' = enable
    <3>1. ~hasty => TopFrame.saved = enable
      BY <1>2 DEF IInv, Modes, TopFrame
    <3>2. ~hasty => ctl # "exit"
      BY DEF IInv, Straight
    <3> QED  BY <3>1, <3>2 DEF Restore
  <2>9. ~hasty => \A i \in 1..Len(b) : b[i].saved = enable'
    <3>1. \A i \in 1..Len(b) : i \in 1..Len(frames) /\ b[i] = frames[i]
      BY <1>2
    <3> QED  BY <2>8, <3>1 DEF IInv, Modes
  <2>10. Modes'
    BY <1>1, <1>2, <1>5, <2>1, <2>8, <2>9 DEF IInv, Modes
  <2> QED  BY <2>2, <2>5, <2>7, <2>10 DEF IInv
<1> QED  BY <1>7, <1>8
-----------------------------------------------------------------------------
(* Initially the shell has not been opened.                                 *)
LEMMA MenuInit == Init => IInv
<1> SUFFICES ASSUME Init PROVE IInv
  OBVIOUS
<1>1. <<>> \in Seq(Frame) /\ <<>> \in Seq(STRING) /\ Len(<<>>) = 0
  BY EmptySeq
<1>2. mstack \in [0..MaxDepth-1 -> Menus \cup {NoMenu}]
  BY DEF Init
<1>3. chosen \in [lvl: Levels, enable: BOOLEAN] /\ chosen.lvl = "all" /\ chosen.enable = TRUE
  BY DEF Init, Levels
<1>4. Typed
  BY <1>1, <1>2, <1>3 DEF Init, Typed, InCall
<1>5. Calls /\ Lags /\ HelpFits
  BY <1>1 DEF Init, Calls, Lags, HelpFits, LevelWithinFrames, InCall
<1>6. Straight
  BY <1>1, ShellConstants DEF Init, Straight
<1>7. Modes
  BY <1>1, <1>3 DEF Init, Modes
<1> QED  BY <1>4, <1>5, <1>6, <1>7 DEF IInv

(* Every step keeps the invariant.                                          *)
LEMMA MenuStep == IInv /\ [Next]_vars => IInv'
<1> SUFFICES ASSUME IInv, [Next]_vars PROVE IInv'
  OBVIOUS
<1>0. /\ ctl \in InCall => frames # <<>> /\ Len(frames) \in Nat \ {0}
      /\ frames \in Seq(Frame) /\ level \in Int /\ args \in Seq(STRING)
  BY EmptySeq DEF IInv, Typed, Calls
<1>1. CASE F08
  <2>1. ~hasty => ctl = "idle" /\ frames = <<>>
    BY <1>0, <1>1 DEF F08, Waiting, IInv, Straight, Following, Calls, InCall
  <2>2. chosen' \in [lvl: Levels, enable: BOOLEAN]
        /\ chosen'.enable = chosen.enable /\ chosen'.lvl = printLvl'
    BY <1>1 DEF F08, IInv, Typed, Levels
  <2>3. UNCHANGED <<frames, level, mstack, ctl, args, enable, prntStat, excMode, hasty>>
    BY <1>1 DEF F08, memory
  <2>4. Typed' /\ Calls' /\ Lags' /\ HelpFits' /\ Straight'
    BY <2>2, <2>3 DEF IInv, Typed, Calls, Lags, HelpFits, Straight, Following, LevelWithinFrames
  <2>5. Modes'
    BY <2>1, <2>2, <2>3 DEF IInv, Modes
  <2> QED  BY <2>4, <2>5 DEF IInv
<1>2. CASE F09
  <2>1. ~hasty => ctl = "idle" /\ frames = <<>> /\ Len(frames) = 0
    BY <1>0, <1>2, EmptySeq DEF F09, Waiting, IInv, Straight, Following, Calls, InCall
  <2>2. chosen' \in [lvl: Levels, enable: BOOLEAN] /\ enable' \in BOOLEAN
        /\ chosen'.enable = enable' /\ chosen'.lvl = chosen.lvl
    BY <1>2 DEF F09, IInv, Typed
  <2>3. UNCHANGED <<frames, level, mstack, ctl, args, printLvl, prntStat, excMode, hasty>>
    BY <1>2 DEF F09, memory
  <2>4. Typed' /\ Calls' /\ Lags' /\ HelpFits' /\ Straight'
    BY <2>2, <2>3 DEF IInv, Typed, Calls, Lags, HelpFits, Straight, Following, LevelWithinFrames
  <2>5. Modes'
    BY <2>1, <2>2, <2>3 DEF IInv, Modes
  <2> QED  BY <2>4, <2>5 DEF IInv
<1>3. CASE F10
  <2>1. CASE level = 0 /\ frames = <<>>
    <3>1. DebugMain(<<>>) /\ UNCHANGED <<excMode, hasty, chosen>> /\ Waiting
      BY <1>3, <2>1 DEF F10
    <3>2. ctl = "idle"
      BY <1>0, <2>1, <3>1 DEF Waiting, InCall
    <3>3. ~hasty => printLvl = chosen.lvl
      BY <3>2 DEF IInv, Modes
    <3>4. UNCHANGED <<hasty, chosen>>
      BY <3>1
    <3>5. ~hasty => printLvl = chosen.lvl \/ excMode'
      BY <3>3
    <3> QED  BY <3>1, <3>4, <3>5, ShellOpens
  <2>2. CASE level = 0 /\ frames # <<>>
    <3>1. DebugMain(frames) /\ UNCHANGED <<hasty, chosen>> /\ (ctl = "idle" \/ hasty)
      BY <1>3, <2>2 DEF F10
    <3>2. hasty
      BY <2>2, <3>1 DEF IInv, Calls
    <3> QED  BY <2>2, <3>1, <3>2, ShellNests
  <2>3. CASE level # 0
    <3>1. level' = 0 /\ UNCHANGED <<frames, mstack, ctl, args, enable, printLvl, prntStat, excMode, hasty, chosen>>
      BY <1>3, <2>3 DEF F10, memory, modes
    <3>2. hasty
      BY <1>3, <2>3, EmptySeq DEF F10, IInv, Straight, Following, Calls
    <3>3. ctl # "eval"
      BY <1>3 DEF F10, Waiting
    <3>4. Len(frames) \in Nat
      BY <1>0, LenProperties
    <3> QED  BY <3>1, <3>2, <3>3, <3>4
             DEF IInv, Typed, Calls, Lags, HelpFits, Straight, Modes, LevelWithinFrames
  <2> QED  BY <2>1, <2>2, <2>3
<1>4. CASE TypeLine
  <2>1. ctl = "read" /\ UNCHANGED <<level, mstack, enable, printLvl, prntStat, excMode, hasty, chosen>> /\ ctl' = "eval"
    BY <1>4 DEF TypeLine, memory, modes
  <2>2. PICK l \in Lines : /\ Fits(l) /\ args' = l.words
                           /\ frames' = IF l.root THEN [frames EXCEPT ![Len(frames)].nlev = 0] ELSE frames
    BY <1>4, ShellConstants DEF TypeLine
  <2>3. args' \in Seq(STRING) /\ DOMAIN l.words = 1..Len(l.words)
    BY <2>2, ShellConstants, LenProperties
  <2>4. frames # <<>>
    BY <1>0, <2>1 DEF InCall
  <2>5. /\ frames' \in Seq(Frame) /\ frames' # <<>> /\ Len(frames') = Len(frames)
        /\ \A i \in 1..Len(frames) : /\ frames'[i].menu = frames[i].menu
                                     /\ frames'[i].saved = frames[i].saved
                                     /\ frames'[i].via = frames[i].via
    <3>1. CASE l.root
      <4>1. frames' = [frames EXCEPT ![Len(frames)].nlev = 0] /\ 0 \in Int
        BY <2>2, <3>1
      <4> QED  BY <1>0, <2>4, <4>1, LevelWritten
    <3>2. CASE ~l.root
      BY <1>0, <2>2, <2>4, <3>2
    <3> QED  BY <3>1, <3>2
  <2>6. Len(frames) \in Nat \ {0}
    BY <1>0, <2>1 DEF InCall
  <2>7. Typed'
    BY <2>1, <2>3, <2>5 DEF IInv, Typed, InCall
  <2>8. Calls' /\ Lags'
    BY <2>1, <2>5, <2>6 DEF IInv, Calls, Lags, LevelWithinFrames
  <2>9. HelpFits'
    <3>1. (\E i \in 1..Len(l.words) : l.words[i] = "help") => level + Len(l.words) - 1 <= MaxDepth
      BY <2>2, <2>3, Zenon DEF Fits
    <3> QED  BY <2>1, <2>2, <3>1, Zenon DEF HelpFits
  <2>10. Straight'
    <3>1. ~hasty => /\ level = Len(frames) /\ level <= MaxDepth
                    /\ \A i \in 1..Len(frames) : mstack[i-1] = frames[i].menu
                    /\ \A i \in 2..Len(frames) : frames[i].via # "root"
      BY <2>1 DEF IInv, Straight, Following
    <3>2. 2..Len(frames) \subseteq 1..Len(frames)
      BY <2>6
    <3> QED  BY <2>1, <2>5, <3>1, <3>2 DEF Straight
  <2>11. Modes'
    BY <2>1, <2>4, <2>5 DEF IInv, Modes
  <2> QED  BY <2>7, <2>8, <2>9, <2>10, <2>11 DEF IInv
<1>5. CASE Prompt
  <2>1. ctl = "top" /\ UNCHANGED <<level, mstack, args, enable, printLvl, prntStat, excMode, hasty, chosen>>
    BY <1>5 DEF Prompt, memory, modes
  <2>2. frames # <<>> /\ Len(frames) \in Nat \ {0}
    BY <1>0, <2>1 DEF InCall
  <2>3. /\ frames' \in Seq(Frame) /\ frames' # <<>> /\ Len(frames') = Len(frames)
        /\ \A i \in 1..Len(frames) : /\ frames'[i].menu = frames[i].menu
                                     /\ frames'[i].saved = frames[i].saved
                                     /\ frames'[i].via = frames[i].via
    <3>1. CASE level = 0
      BY <1>0, <1>5, <2>2, <3>1 DEF Prompt
    <3>2. CASE level # 0
      <4>1. frames' = [frames EXCEPT ![Len(frames)].nlev = level - 1] /\ level - 1 \in Int
        BY <1>0, <1>5, <3>2 DEF Prompt
      <4> QED  BY <1>0, <2>2, <4>1, LevelWritten
    <3> QED  BY <3>1, <3>2
  <2>4. ctl' = IF level = 0 THEN "exit" ELSE "read"
    BY <1>5 DEF Prompt
  <2>5. Typed'
    BY <2>1, <2>3, <2>4 DEF IInv, Typed, InCall
  <2>6. Calls' /\ Lags' /\ HelpFits'
    BY <2>1, <2>2, <2>3, <2>4 DEF IInv, Calls, Lags, HelpFits, LevelWithinFrames
  <2>7. Straight'
    BY <2>1, <2>2, <2>3, <2>4 DEF IInv, Straight, Following
  <2>8. Modes'
    BY <2>1, <2>2, <2>3, <2>4 DEF IInv, Modes
  <2> QED  BY <2>5, <2>6, <2>7, <2>8 DEF IInv
<1>6. CASE GoUp \/ ExitMenu \/ History \/ RunCommand \/ RefuseMenu
  <2>1. ctl = "eval" /\ Stay /\ ctl' \in {"top", "ret"}
    BY <1>6 DEF GoUp, ExitMenu, History, RunCommand, RefuseMenu, Continue, Looks
  <2> QED  BY <2>1, CallsStay
<1>7. CASE HelpMenu
  <2> DEFINE argv == <<"help">> \o SubSeq(Words, 3, Len(Words))
  <2>1. /\ ctl = "eval" /\ Found \in Menus /\ Words # <<>> /\ Words[1] = "help"
        /\ Call(frames, level, Found, argv, "help")
        /\ UNCHANGED <<modes, excMode, hasty, chosen>>
    BY <1>7 DEF HelpMenu, Looks, Helps
  <2>2. /\ Words \in Seq(STRING) /\ Len(Words) \in Nat \ {0} /\ Len(Words) <= Len(args)
        /\ \A i \in 1..Len(Words) : \E j \in 1..Len(args) : Words[i] = args[j]
    BY <1>0, <2>1, RestWords, EmptySeq DEF Words
  <2>3. Len(Words) > 1
    <3>1. \A m \in Menus : Resolve(m, "(void)") \notin Menus
      BY DEF Resolve, Global, Row, Menus
    <3>2. Resolve(NoMenu, "(void)") \notin Menus
      BY DEF Resolve, Global, Row, Menus
    <3>3. InTable /\ Helps
      BY <1>7 DEF HelpMenu
    <3>4. mstack[MenuLevel] \in Menus
      BY <3>3 DEF InTable, IInv, Typed
    <3> QED  BY <2>1, <2>2, <3>1, <3>3, <3>4 DEF Found
  <2>4. argv \in Seq(STRING) /\ Len(argv) = Len(Words) - 1
    <3> DEFINE rest == SubSeq(Words, 3, Len(Words))
    <3>1. \A i \in 3..Len(Words) : Words[i] \in STRING
      BY <2>2, ElementOfSeq
    <3>2. Len(Words) \in Int /\ 3 \in Int
      BY <2>2
    <3>3. rest \in Seq(STRING) /\ Len(rest) = IF 3 <= Len(Words) THEN Len(Words)-3+1 ELSE 0
      BY <3>1, <3>2, SubSeqProperties
    <3>4. \A n \in Nat : n > 1 => n - 2 = IF 3 <= n THEN n-3+1 ELSE 0
      OBVIOUS
    <3>5. Len(rest) = Len(Words) - 2
      BY <2>2, <2>3, <3>3, <3>4, Zenon
    <3>6. <<"help">> \in Seq(STRING) /\ Len(<<"help">>) = 1
      <4>1. 1 \in 1..Len(Words)
        BY <2>2
      <4>2. "help" \in STRING
        BY <2>1, <2>2, <4>1, ElementOfSeq
      <4> QED  BY <4>2, OneWord
    <3> HIDE DEF rest
    <3>7. <<"help">> \o rest \in Seq(STRING) /\ Len(<<"help">> \o rest) = 1 + Len(rest)
      BY <3>3, <3>6, ConcatProperties
    <3>8. 1 + (Len(Words) - 2) = Len(Words) - 1
      BY <2>2
    <3> QED  BY <3>5, <3>7, <3>8, Zenon DEF rest
  <2>5. level + Len(argv) <= MaxDepth /\ level < MaxDepth
    <3>1. \E j \in 1..Len(args) : args[j] = "help"
      <4>1. 1 \in 1..Len(Words)
        BY <2>2
      <4> QED  BY <2>1, <2>2, <4>1
    <3>2. level + Len(args) - 1 <= MaxDepth
      BY <2>1, <3>1 DEF IInv, HelpFits
    <3>3. Len(args) \in Nat
      BY <1>0, LenProperties
    <3> HIDE DEF argv
    <3>4. MaxDepth \in Nat
      BY ShellConstants
    <3> QED  BY <1>0, <2>2, <2>3, <2>4, <3>2, <3>3, <3>4
  <2> QED  BY <2>1, <2>4, <2>5, MenuEnters
<1>8. CASE EnterMenu
  <2>1. /\ ctl = "eval" /\ Found \in Menus /\ Words # <<>> /\ level < MaxDepth
        /\ Call(frames, level, Found, Tail(Words), "menu")
        /\ UNCHANGED <<modes, excMode, hasty, chosen>>
    BY <1>8 DEF EnterMenu, Looks
  <2>2. /\ Words \in Seq(STRING) /\ Len(Words) \in Nat \ {0} /\ Len(Words) <= Len(args)
        /\ \A i \in 1..Len(Words) : \E j \in 1..Len(args) : Words[i] = args[j]
    BY <1>0, <2>1, RestWords, EmptySeq DEF Words
  <2>3. /\ Tail(Words) \in Seq(STRING) /\ Len(Tail(Words)) = Len(Words) - 1
        /\ \A i \in 1..Len(Tail(Words)) : Tail(Words)[i] = Words[i+1]
    BY <2>1, <2>2, HeadTailProperties
  <2>4. ASSUME \E i \in 1..Len(Tail(Words)) : Tail(Words)[i] = "help"
        PROVE  level + Len(Tail(Words)) <= MaxDepth
    <3>1. PICK i \in 1..Len(Tail(Words)) : Tail(Words)[i] = "help"
      BY <2>4
    <3>2. i+1 \in 1..Len(Words) /\ Words[i+1] = "help"
      BY <2>2, <2>3, <3>1
    <3>3. \E j \in 1..Len(args) : args[j] = "help"
      BY <2>2, <3>2
    <3>4. level + Len(args) - 1 <= MaxDepth
      BY <2>1, <3>3 DEF IInv, HelpFits
    <3>5. Len(args) \in Nat /\ MaxDepth \in Nat
      BY <1>0, LenProperties, ShellConstants
    <3> QED  BY <1>0, <2>2, <2>3, <3>4, <3>5
  <2> QED  BY <2>1, <2>3, <2>4, MenuEnters
<1>9. CASE CrashCommand
  <2>1. DebugMain(<<>>) /\ UNCHANGED <<hasty, chosen>> /\ excMode' = TRUE
    BY <1>9 DEF CrashCommand
  <2> QED  BY <2>1, ShellOpens
<1>10. CASE Reenter
  <2>1. DebugMain(<<>>) /\ UNCHANGED <<excMode, hasty, chosen>> /\ ctl = "reenter"
    BY <1>10 DEF Reenter
  <2>2. UNCHANGED <<hasty, chosen>> /\ (~hasty => excMode' \/ printLvl = chosen.lvl)
    BY <2>1 DEF IInv, Modes
  <2> QED  BY <2>1, <2>2, ShellOpens
<1>11. CASE SecondCrash \/ WildLookup
  <2>1. /\ UNCHANGED <<frames, level, mstack, args, enable, printLvl, prntStat, excMode, hasty, chosen>>
        /\ ctl' \in {"killed", "wild"}
    BY <1>11 DEF SecondCrash, WildLookup, memory, modes
  <2>2. Typed' /\ Calls' /\ Lags' /\ HelpFits' /\ Straight'
    BY <2>1 DEF IInv, Typed, Calls, Lags, HelpFits, Straight, Following, InCall, LevelWithinFrames
  <2>3. Modes'
    BY <2>1 DEF IInv, Modes
  <2> QED  BY <2>2, <2>3 DEF IInv
<1>12. CASE EndLoop
  <2>1. Leave(IF pop > 0 THEN pop - 1 ELSE 0) /\ ctl = "ret" /\ level' = level - 1 /\ Restore(level - 1)
    BY <1>12 DEF EndLoop
  <2> QED  BY <2>1, CallLeft
<1>13. CASE ExitLevel0
  <2>1. Leave(0) /\ ctl = "exit" /\ level' = level /\ Restore(0)
    BY <1>13 DEF ExitLevel0
  <2> QED  BY <2>1, CallLeft
<1>14. CASE UNCHANGED vars
  BY <1>14 DEF vars, IInv, Typed, Calls, Lags, Straight, HelpFits, Modes, Following, LevelWithinFrames
<1> QED
  BY <1>1, <1>2, <1>3, <1>4, <1>5, <1>6, <1>7, <1>8, <1>9, <1>10, <1>11, <1>12, <1>13, <1>14
     DEF Next, Execute
-----------------------------------------------------------------------------
(* The invariant holds in every reachable state.                            *)
LEMMA MenuInvariant == Spec => []IInv
<1> QED  BY MenuInit, MenuStep, PTL DEF Spec

(* Whatever is typed, however deep the menus, and with crashes in between:  *)
(* at a prompt the level counts the menus and the stack lists them, and F10 *)
(* under any number of calls never takes the level ahead of them.           *)
THEOREM StackIsThePath == Spec => []StackIsPath
<1>1. IInv => LevelWithinFrames
  BY DEF IInv, Lags
<1>2. IInv => StackIsPath
  <2> SUFFICES ASSUME IInv, ctl = "read", ~hasty
               PROVE  /\ level = Len(frames)
                      /\ \A i \in DOMAIN frames : mstack[i-1] = frames[i].menu
    BY <1>1 DEF StackIsPath
  <2>1. DOMAIN frames = 1..Len(frames)
    BY LenProperties DEF IInv, Typed
  <2> QED  BY <2>1 DEF IInv, Straight, Following
<1> QED  BY <1>2, MenuInvariant, PTL

(* A shell that is left puts back the print level and the debug mode that   *)
(* were chosen before it was opened.                                        *)
THEOREM ModesPutBack == Spec => []ModesRestored
<1>1. IInv => ModesRestored
  <2> SUFFICES ASSUME IInv, ctl = "idle", ~hasty
               PROVE  level = 0 /\ printLvl = chosen.lvl /\ enable = chosen.enable
    BY DEF ModesRestored
  <2>1. frames = <<>> /\ Len(frames) = 0
    BY EmptySeq DEF IInv, Calls
  <2>2. level = Len(frames)
    BY DEF IInv, Straight, Following
  <2> QED  BY <2>1, <2>2 DEF IInv, Modes
<1> QED  BY <1>1, MenuInvariant, PTL

-----------------------------------------------------------------------------
(* The path as MenuNav knows it, and what it says of the line that has been *)
(* typed: the way it has come, where it ends, and what is shown after that. *)
Crumb == [menu: Menus, prompt: BOOLEAN]
Root  == <<[menu |-> "debugMain", prompt |-> TRUE]>>
LineEnd == Nav!End(shown.where, line)

Passed(p, l, s) ==
  \E k \in 0..Len(l.words) : Nav!Way(p, l)[k] = s /\ k + Len(s.words) <= Len(l.words)

EndsAt(p) == LineEnd.end = "stay" /\ LineEnd.path = p

Answered(p) ==
  \/ LineEnd.end = "crash" /\ ~shown.exc /\ excMode /\ p = Root
  \/ /\ LineEnd.end = "stay" /\ shown.exc = excMode
     /\ p = IF excMode /\ LineEnd.path = <<>> THEN Root ELSE LineEnd.path

(* Where a call that returns pop will have led, once all have returned.     *)
Left == SubSeq(Path, 1, Len(Path) - (IF pop = 0 THEN 1 ELSE pop))

(* The recursion is on the way of the line, at the menu MenuNav has reached;*)
(* the calls for help are past its end.                                     *)
Shown ==
  /\ shown \in [where: Seq(Crumb), exc: BOOLEAN] /\ line \in Lines \cup {NoLine}
  /\ excMode \in BOOLEAN /\ pop \in Nat
  /\ ctl = "idle" => shown = [where |-> <<>>, exc |-> FALSE] /\ line = NoLine
  /\ ctl = "read" => shown = [where |-> Path, exc |-> excMode] /\ line = NoLine
  /\ ctl \in {"eval", "ret"} => shown.exc = excMode /\ line # NoLine
  /\ ctl = "reenter" => line # NoLine /\ Answered(Root)
  /\ ctl = "top" =>
       IF line # NoLine THEN Answered(Path)
       ELSE Path = Root /\ shown = [where |-> <<>>, exc |-> FALSE] /\ ~excMode

OnTheWay ==
  /\ \A i \in 1..Len(frames) : frames[i].via = "help" => ~frames[i].loop
  /\ \A i \in 1..Len(frames)-1 : frames[i].via = "help" => frames[i+1].via = "help"
  /\ frames # <<>> => frames[1].loop
  /\ ctl \in {"top", "read"} => TopFrame.loop
  /\ ctl = "read" => TopFrame.nlev = level - 1
  /\ ctl = "eval" /\ TopFrame.via = "help" =>
       args # <<>> /\ args[1] = "help" /\ EndsAt(Nav!Trim(Path))
  /\ ctl = "eval" /\ TopFrame.via # "help" =>
       /\ TopFrame.nlev \in 0..level-1
       /\ Passed(shown.where, line,
                [path |-> Path, base |-> TopFrame.nlev + 1, words |-> args, end |-> "on"])
  /\ ctl = "ret" =>
       /\ pop <= Len(frames) /\ EndsAt(Nav!Trim(Left))
       /\ TopFrame.via = "help" => pop = 0
       /\ pop = 0 => ~TopFrame.loop

NavInv == ~hasty => Shown /\ OnTheWay
-----------------------------------------------------------------------------
(* The tables are those of the shell.                                       *)
LEMMA SameTables ==
  /\ Nav!Menus = Menus /\ Nav!Root = Root
  /\ \A w : Nav!Rest(w) = Rest(w) /\ Nav!Ups(w) = Ups(w)
  /\ \A m, w : Nav!Resolve(m, w) = Resolve(m, w)
  /\ \A s : Nav!Front(s) = Front(s)
<1>1. Nav!Menus = Menus /\ Nav!Root = Root
  BY DEF Nav!Menus, Menus, Nav!Root, Root
<1>2. \A w : Nav!Ups(w) = Ups(w)
  BY DEF Nav!Ups, Ups, Nav!Cardinality, Cardinality
<1>3. \A w : Nav!Rest(w) = Rest(w)
  BY <1>2 DEF Nav!Rest, Rest
<1>4. \A m, w : Nav!Resolve(m, w) = Resolve(m, w)
  BY DEF Nav!Resolve, Resolve, Nav!Global, Global, Nav!Row, Row
<1>5. \A s : Nav!Front(s) = Front(s)
  BY DEF Nav!Front, Front
<1> QED  BY <1>1, <1>2, <1>3, <1>4, <1>5

(* The way of a line goes on from its start, one step after the other.      *)
LEMMA WayGoes ==
  ASSUME NEW p, NEW l \in Lines
  PROVE  LET w == Nav!Way(p, l)
             n == Len(l.words)
         IN  /\ n \in Nat
             /\ w[0] = Nav!Start(p, l)
             /\ \A i \in 0..n : w[i+1] = IF w[i].end = "on" THEN Nav!Go(w[i]) ELSE w[i]
<1> DEFINE n == Len(l.words)
           Step(s) == IF s.end = "on" THEN Nav!Go(s) ELSE s
           E(f) == [i \in 0..n+1 |-> IF i = 0 THEN Nav!Start(p, l) ELSE Step(f[i-1])]
           Upto(f, m) == /\ f[0] = Nav!Start(p, l)
                         /\ \A i \in 1..m : f[i] = Step(f[i-1])
           Bad == {m \in Nat : ~ \E f : Upto(f, m)}
<1>1. n \in Nat
  BY ShellConstants, LenProperties
<1>2. Bad = {}
  <2> SUFFICES ASSUME Bad # {} PROVE FALSE
    OBVIOUS
  <2>1. PICK m \in Bad : \A j \in Bad : ~(<<j, m>> \in OpToRel(<, Nat))
    <3>1. Bad \subseteq Nat
      OBVIOUS
    <3> HIDE DEF Bad
    <3> QED  BY <3>1, WFMin, NatLessThanWellFounded, Zenon
  <2>2. m \in Nat /\ \A j \in Bad : ~(j < m)
    BY <2>1 DEF OpToRel
  <2> HIDE DEF Step
  <2>3. CASE m = 0
    <3> DEFINE f == [i \in {0} |-> Nav!Start(p, l)]
    <3>1. Upto(f, 0)
      OBVIOUS
    <3> HIDE DEF f, Upto
    <3>2. m \notin Bad
      BY <2>3, <3>1
    <3> QED  BY <3>2
  <2>4. CASE m # 0
    <3>1. m-1 \in Nat /\ m-1 < m
      BY <2>2, <2>4
    <3>2. m-1 \notin Bad
      BY <2>2, <3>1
    <3>3. PICK f : Upto(f, m-1)
      BY <3>1, <3>2
    <3> DEFINE g == [i \in 0..m |-> IF i = m THEN Step(f[m-1]) ELSE f[i]]
    <3>4. Upto(g, m)
      <4>1. g[0] = Nav!Start(p, l)
        BY <2>2, <2>4, <3>3
      <4>2. ASSUME NEW i \in 1..m PROVE g[i] = Step(g[i-1])
        <5>1. i-1 \in 0..m /\ i \in 0..m /\ i-1 # m /\ g[i-1] = f[i-1]
          BY <2>2, <4>2
        <5>2. CASE i = m
          BY <5>1, <5>2
        <5>3. CASE i # m
          <6>1. i \in 1..m-1 /\ g[i] = f[i]
            BY <2>2, <5>1, <5>3
          <6> QED  BY <3>3, <5>1, <6>1
        <5> QED  BY <5>2, <5>3
      <4> QED  BY <4>1, <4>2
    <3> HIDE DEF g, Upto
    <3>5. m \notin Bad
      BY <3>4
    <3> QED  BY <3>5
  <2> QED  BY <2>3, <2>4
<1>3. PICK f : Upto(f, n+1)
  <2>1. n+1 \in Nat
    BY <1>1
  <2>2. n+1 \notin Bad
    <3> HIDE DEF Bad
    <3> QED  BY <1>2
  <2> HIDE DEF Upto
  <2> QED  BY <2>1, <2>2
<1> DEFINE g == [i \in 0..n+1 |-> f[i]]
<1>4. g = E(g)
  <2> HIDE DEF Step
  <2>1. ASSUME NEW i \in 0..n+1
        PROVE  g[i] = IF i = 0 THEN Nav!Start(p, l) ELSE Step(g[i-1])
    <3>1. CASE i = 0
      BY <1>3, <3>1
    <3>2. CASE i # 0
      <4>1. i \in 1..n+1 /\ i-1 \in 0..n+1
        BY <1>1, <3>2
      <4> QED  BY <1>3, <3>2, <4>1
    <3> QED  BY <3>1, <3>2
  <2>2. g = [i \in 0..n+1 |-> g[i]]
    OBVIOUS
  <2> HIDE DEF g
  <2> QED  BY <2>1, <2>2
<1>5. Nav!Way(p, l) = CHOOSE w : w = E(w)
  BY DEF Nav!Way
<1>6. Nav!Way(p, l) = E(Nav!Way(p, l))
  <2> HIDE DEF E, g
  <2> QED  BY <1>4, <1>5
<1> DEFINE w == Nav!Way(p, l)
<1>7. \A i \in 0..n+1 : w[i] = IF i = 0 THEN Nav!Start(p, l) ELSE Step(w[i-1])
  <2> SUFFICES ASSUME NEW i \in 0..n+1
               PROVE  w[i] = IF i = 0 THEN Nav!Start(p, l) ELSE Step(w[i-1])
    OBVIOUS
  <2>1. E(w)[i] = IF i = 0 THEN Nav!Start(p, l) ELSE Step(w[i-1])
    <3> HIDE DEF w, Step, n
    <3> QED  OBVIOUS
  <2> HIDE DEF E
  <2> QED  BY <1>6, <2>1
<1> HIDE DEF w, n
<1>8. 0 \in 0..n+1 /\ w[0] = Nav!Start(p, l)
  BY <1>1, <1>7
<1>9. ASSUME NEW i \in 0..n PROVE w[i+1] = Step(w[i])
  <2>1. i+1 \in 0..n+1 /\ i+1 # 0 /\ i+1-1 = i
    BY <1>1
  <2> HIDE DEF Step
  <2> QED  BY <1>7, <2>1
<1> QED  BY <1>1, <1>8, <1>9 DEF w, n

(* Where it has ended it stays.                                             *)
LEMMA WayEnds ==
  ASSUME NEW p, NEW l \in Lines, NEW k \in 0..Len(l.words)+1, Nav!Way(p, l)[k].end # "on"
  PROVE  Nav!End(p, l) = Nav!Way(p, l)[k]
<1> DEFINE n   == Len(l.words)
           w   == Nav!Way(p, l)
           Bad == {j \in Nat : k + j <= n+1 /\ w[k+j] # w[k]}
<1>1. n \in Nat /\ \A i \in 0..n : w[i+1] = IF w[i].end = "on" THEN Nav!Go(w[i]) ELSE w[i]
  BY WayGoes
<1> HIDE DEF w
<1>2. ASSUME Bad # {} PROVE FALSE
  <2>1. PICK m \in Bad : \A j \in Bad : ~(<<j, m>> \in OpToRel(<, Nat))
    <3>1. Bad \subseteq Nat
      OBVIOUS
    <3> HIDE DEF Bad
    <3> QED  BY <1>2, <3>1, WFMin, NatLessThanWellFounded, Zenon
  <2>2. m \in Nat /\ k + m <= n+1 /\ w[k+m] # w[k] /\ \A j \in Bad : ~(j < m)
    BY <2>1 DEF OpToRel
  <2>3. m # 0
    BY <1>1, <2>2
  <2>4. m-1 \in Nat /\ m-1 < m /\ k+(m-1) \in 0..n /\ k+(m-1)+1 = k+m
    BY <1>1, <2>2, <2>3
  <2>5. w[k+(m-1)] = w[k]
    <3>1. m-1 \notin Bad
      BY <2>2, <2>4
    <3> QED  BY <1>1, <2>4, <3>1
  <2>6. w[k+m] = w[k]
    BY <1>1, <2>4, <2>5 DEF w
  <2> QED  BY <2>2, <2>6
<1>3. n+1-k \in Nat /\ k+(n+1-k) = n+1
  BY <1>1
<1>4. w[n+1] = w[k]
  <2>1. n+1-k \notin Bad
    <3> HIDE DEF Bad
    <3> QED  BY <1>2
  <2> QED  BY <1>1, <1>3, <2>1
<1> QED  BY <1>4 DEF Nav!End, w

(* A line starts with all its words, and each step looks at one at least.   *)
LEMMA LineStarts ==
  ASSUME NEW p, NEW l \in Lines
  PROVE  Passed(p, l, [path |-> p, base |-> IF l.root THEN 1 ELSE Len(p),
                       words |-> l.words, end |-> "on"])
<1>1. Len(l.words) \in Nat /\ Nav!Way(p, l)[0] = Nav!Start(p, l)
  BY WayGoes
<1>2. 0 \in 0..Len(l.words) /\ 0 + Len(l.words) <= Len(l.words)
  BY <1>1
<1> QED  BY <1>1, <1>2 DEF Passed, Nav!Start

LEMMA LineGoesOn ==
  ASSUME NEW p, NEW l \in Lines, NEW s, Passed(p, l, s), s.end = "on", Len(s.words) \in Nat,
         NEW t, t = Nav!Go(s)
  PROVE  /\ t.end # "on" => Nav!End(p, l) = t
         /\ Len(t.words) \in Nat /\ Len(t.words) < Len(s.words) => Passed(p, l, t)
<1>1. PICK k \in 0..Len(l.words) : /\ Nav!Way(p, l)[k] = s
                                   /\ k + Len(s.words) <= Len(l.words)
  BY DEF Passed
<1>2. Len(l.words) \in Nat /\ Nav!Way(p, l)[k+1] = t
  BY <1>1, WayGoes
<1>3. k+1 \in 0..Len(l.words)+1
  BY <1>2
<1>4. t.end # "on" => Nav!End(p, l) = t
  BY <1>2, <1>3, WayEnds
<1>5. ASSUME Len(t.words) \in Nat, Len(t.words) < Len(s.words)
      PROVE  Passed(p, l, t)
  <2>1. \A n, a, b \in Nat : k \in 0..n /\ b < a /\ k + a <= n => k+1 \in 0..n /\ k+1 + b <= n
    OBVIOUS
  <2>2. k+1 \in 0..Len(l.words) /\ k+1 + Len(t.words) <= Len(l.words)
    BY <1>1, <1>2, <1>5, <2>1, Zenon
  <2> QED  BY <1>2, <2>2 DEF Passed
<1> QED  BY <1>4, <1>5

(* A path that ends in a prompt is left alone; the last menu goes otherwise.*)
LEMMA TrimStays ==
  ASSUME NEW q \in Seq(Crumb), q = <<>> \/ q[Len(q)].prompt
  PROVE  Nav!Trim(q) = q
<1> DEFINE ends == {i \in 1..Len(q) : q[i].prompt}
<1>1. Nav!Trim(q) = IF ends = {} THEN <<>>
                    ELSE SubSeq(q, 1, CHOOSE i \in ends : \A j \in ends : j <= i)
  BY DEF Nav!Trim
<1>2. CASE q = <<>>
  <2>1. ends = {}
    BY <1>2
  <2> QED  BY <1>1, <1>2, <2>1
<1>3. CASE q # <<>>
  <2>1. Len(q) \in Nat \ {0} /\ Len(q) \in ends
    BY <1>3, EmptySeq
  <2>2. (CHOOSE i \in ends : \A j \in ends : j <= i) = Len(q)
    <3>1. \A j \in ends : j <= Len(q)
      BY <2>1
    <3>2. \A i \in ends : (\A j \in ends : j <= i) => i = Len(q)
      BY <2>1, <3>1
    <3> HIDE DEF ends
    <3> QED  BY <2>1, <3>1, <3>2
  <2>3. SubSeq(q, 1, Len(q)) = q
    OBVIOUS
  <2> HIDE DEF ends
  <2> QED  BY <1>1, <2>1, <2>2, <2>3
<1> QED  BY <1>2, <1>3

LEMMA TrimDrops ==
  ASSUME NEW q \in Seq(Crumb), q # <<>>, ~q[Len(q)].prompt
  PROVE  Nav!Trim(q) = Nav!Trim(Front(q))
<1> DEFINE b == Front(q)
           ends == {i \in 1..Len(q) : q[i].prompt}
           fore == {i \in 1..Len(b) : b[i].prompt}
           Highest(e) == CHOOSE i \in e : \A j \in e : j <= i
<1>1. Len(q) \in Nat \ {0}
  BY EmptySeq
<1>2. /\ b \in Seq(Crumb) /\ Len(b) = Len(q) - 1
      /\ \A i \in 1..Len(q)-1 : b[i] = q[i]
  BY FrontIs
<1> HIDE DEF b
<1>3. ends = fore
  BY <1>1, <1>2
<1>4. CASE ends = {}
  BY <1>3, <1>4 DEF Nav!Trim, b
<1>5. CASE ends # {}
  <2> DEFINE Back == {n \in Nat : Len(q) - n \in ends}
  <2>1. Back # {} /\ Back \subseteq Nat
    <3>1. PICK i \in ends : TRUE
      BY <1>5
    <3>2. Len(q) - i \in Back
      BY <1>1
    <3> QED  BY <3>2
  <2>2. PICK n \in Back : \A m \in Back : ~(<<m, n>> \in OpToRel(<, Nat))
    <3> HIDE DEF Back
    <3> QED  BY <2>1, WFMin, NatLessThanWellFounded, Zenon
  <2>3. \A m \in Back : ~(m < n)
    BY <2>1, <2>2 DEF OpToRel
  <2>4. Len(q) - n \in ends /\ \A j \in ends : j <= Len(q) - n
    <3> SUFFICES ASSUME NEW j \in ends PROVE j <= Len(q) - n
      OBVIOUS
    <3>1. Len(q) - j \in Back
      BY <1>1
    <3>2. n \in Nat /\ j \in Int /\ Len(q) \in Int
      BY <1>1
    <3>3. ~(Len(q) - j < n)
      BY <2>3, <3>1, Zenon
    <3> HIDE DEF Back, ends
    <3> QED  BY <3>2, <3>3
  <2>5. Highest(ends) \in ends
    <3> HIDE DEF ends
    <3> QED  BY <2>4
  <2>6. Highest(ends) \in 1..Len(q)-1
    BY <1>2, <1>3, <2>5
  <2>7. \A i \in 1..Len(q)-1 : SubSeq(q, 1, i) = SubSeq(b, 1, i)
    BY <1>1, <1>2
  <2>8. Nav!Trim(q) = SubSeq(q, 1, Highest(ends)) /\ Nav!Trim(b) = SubSeq(b, 1, Highest(fore))
    BY <1>3, <1>5 DEF Nav!Trim
  <2> HIDE DEF ends, fore, Highest
  <2> QED  BY <1>3, <2>6, <2>7, <2>8 DEF b
<1> QED  BY <1>4, <1>5
-----------------------------------------------------------------------------
(* The path of the calls, and what becomes of it.                           *)
LEMMA PathIs ==
  ASSUME frames \in Seq(Frame)
  PROVE  /\ Path \in Seq(Crumb) /\ Len(Path) = Len(frames) /\ Len(frames) \in Nat
         /\ \A i \in 1..Len(frames) :
              frames[i] \in Frame /\ Path[i] = [menu |-> frames[i].menu, prompt |-> frames[i].loop]
<1>1. Len(frames) \in Nat /\ DOMAIN frames = 1..Len(frames)
  BY LenProperties
<1>2. \A i \in 1..Len(frames) : frames[i] \in Frame
  BY <1>1, ElementOfSeq
<1>3. \A i \in 1..Len(frames) : [menu |-> frames[i].menu, prompt |-> frames[i].loop] \in Crumb
  BY <1>2 DEF Frame, Crumb
<1>4. Path = [i \in 1..Len(frames) |-> [menu |-> frames[i].menu, prompt |-> frames[i].loop]]
  BY <1>1 DEF Path
<1>5. Path \in Seq(Crumb) /\ Len(Path) = Len(frames)
  <2> DEFINE e(i) == [menu |-> frames[i].menu, prompt |-> frames[i].loop]
  <2>1. \A i \in 1..Len(frames) : e(i) \in Crumb
    BY <1>3
  <2>2. Path = [i \in 1..Len(frames) |-> e(i)]
    BY <1>4
  <2> HIDE DEF e
  <2>3. Path \in [1..Len(frames) -> Crumb]
    BY <2>1, <2>2
  <2>4. Path \in Seq(Crumb)
    BY <1>1, <2>3, SeqDef
  <2> QED  BY <1>1, <2>3, <2>4, LenProperties
<1> QED  BY <1>1, <1>2, <1>4, <1>5

LEMMA PathType == frames \in Seq(Frame) => Path \in Seq(Crumb) /\ Len(Path) = Len(frames)
BY PathIs

LEMMA PathTypeNext == (frames \in Seq(Frame) => Path \in Seq(Crumb) /\ Len(Path) = Len(frames))'
BY PathType, PTL

(* The menu and the loop of every call but the last are kept.               *)
LEMMA PathKept ==
  ASSUME frames \in Seq(Frame), frames' \in Seq(Frame), Len(frames') = Len(frames),
         \A i \in 1..Len(frames) : /\ frames'[i].menu = frames[i].menu
                                   /\ frames'[i].loop = frames[i].loop
  PROVE  Path' = Path
<1>1. DOMAIN frames = 1..Len(frames) /\ DOMAIN frames' = 1..Len(frames)
  BY LenProperties
<1> QED  BY <1>1 DEF Path

LEMMA PathGrows ==
  ASSUME frames \in Seq(Frame), frames' \in Seq(Frame), Len(frames') = Len(frames) + 1,
         \A i \in 1..Len(frames) : frames'[i] = frames[i]
  PROVE  Path' = Append(Path, [menu   |-> frames'[Len(frames)+1].menu,
                               prompt |-> frames'[Len(frames)+1].loop])
<1> DEFINE c == [menu |-> frames'[Len(frames)+1].menu, prompt |-> frames'[Len(frames)+1].loop]
<1>1. Path \in Seq(Crumb) /\ Len(Path) = Len(frames) /\ Len(frames) \in Nat
      /\ \A i \in 1..Len(frames) : Path[i] = [menu |-> frames[i].menu, prompt |-> frames[i].loop]
  BY PathIs
<1>2. Path' = [i \in 1..Len(frames)+1 |-> [menu |-> frames'[i].menu, prompt |-> frames'[i].loop]]
  <2>1. DOMAIN frames' = 1..Len(frames)+1
    BY LenProperties
  <2> QED  BY <2>1 DEF Path
<1>3. \A i \in 1..Len(frames)+1 : Path'[i] = IF i = Len(frames)+1 THEN c ELSE Path[i]
  BY <1>1, <1>2
<1>4. Append(Path, c) = [i \in 1..Len(frames)+1 |-> IF i = Len(frames)+1 THEN c ELSE Path[i]]
  <2>1. Len(frames)+1 \in 1..Len(frames)+1
    BY <1>1
  <2>2. frames'[Len(frames)+1] \in Frame
    BY <2>1, ElementOfSeq
  <2>3. c \in Crumb
    BY <2>2 DEF Crumb, Frame
  <2> HIDE DEF c
  <2>4. ASSUME NEW q \in Seq(Crumb)
        PROVE  Append(q, c) = [i \in 1..Len(q)+1 |-> IF i = Len(q)+1 THEN c ELSE q[i]]
    <3>1. /\ Append(q, c) \in Seq(Crumb) /\ Len(Append(q, c)) = Len(q)+1
          /\ \A i \in 1..Len(q) : Append(q, c)[i] = q[i]
          /\ Append(q, c)[Len(q)+1] = c
      BY <2>3, AppendProperties
    <3> DEFINE r == Append(q, c)
    <3>2. r = [i \in 1..Len(q)+1 |-> r[i]]
      BY <3>1, LenProperties
    <3> HIDE DEF r
    <3>3. Len(q) \in Nat
      BY LenProperties
    <3>4. \A i \in 1..Len(q)+1 : r[i] = IF i = Len(q)+1 THEN c ELSE q[i]
      BY <3>1, <3>3 DEF r
    <3> QED  BY <3>2, <3>4 DEF r
  <2> QED  BY <1>1, <2>4
<1> HIDE DEF c
<1>5. Path' = [i \in 1..Len(frames)+1 |-> IF i = Len(frames)+1 THEN c ELSE Path[i]]
  BY <1>2, <1>3
<1> QED  BY <1>4, <1>5 DEF c

LEMMA PathShrinks ==
  ASSUME frames \in Seq(Frame), frames # <<>>, frames' = Front(frames)
  PROVE  Path' = Front(Path)
<1>1. /\ frames' \in Seq(Frame) /\ Len(frames) \in Nat \ {0} /\ Len(frames') = Len(frames) - 1
      /\ \A i \in 1..Len(frames)-1 : frames'[i] = frames[i]
  BY FrameLeft
<1>2. Path \in Seq(Crumb) /\ Len(Path) = Len(frames)
      /\ \A i \in 1..Len(frames) : Path[i] = [menu |-> frames[i].menu, prompt |-> frames[i].loop]
  BY PathIs
<1>3. Path # <<>>
  BY <1>1, <1>2, EmptySeq
<1>4. Front(Path) \in Seq(Crumb) /\ Len(Front(Path)) = Len(frames) - 1
      /\ \A i \in 1..Len(frames)-1 : Front(Path)[i] = Path[i]
  BY <1>2, <1>3, FrontIs
<1>5. Front(Path) = [i \in 1..Len(frames)-1 |-> Path[i]]
  BY <1>1, <1>4
<1>6. DOMAIN frames' = 1..Len(frames)-1
  BY <1>1, LenProperties
<1>7. Path' = [i \in 1..Len(frames)-1 |-> [menu |-> frames[i].menu, prompt |-> frames[i].loop]]
  BY <1>1, <1>6 DEF Path
<1>8. \A i \in 1..Len(frames)-1 : Path[i] = [menu |-> frames[i].menu, prompt |-> frames[i].loop]
  BY <1>1, <1>2
<1> QED  BY <1>5, <1>7, <1>8

(* A line is read in the calls as MenuNav reads it.                         *)
To == Resolve(mstack[MenuLevel], Words[1])

LEMMA LineFollowed ==
  ASSUME IInv, NavInv, ~hasty, ctl = "eval", TopFrame.via # "help"
  PROVE  /\ MenuLevel \in 0..Len(frames)-1 /\ InTable
         /\ Words = <<>> => EndsAt(Nav!Trim(SubSeq(Path, 1, MenuLevel+1)))
         /\ Words # <<>> /\ Words[1] = "x" => EndsAt(Nav!Trim(Front(Path)))
         /\ Words # <<>> /\ Words[1] # "x" =>
              IF To = "crash" THEN LineEnd.end = "crash"
              ELSE IF ~(To \in Menus /\ level < MaxDepth) THEN EndsAt(Nav!Trim(Path))
              ELSE LET p == Append(Path, [menu |-> To, prompt |-> Tail(Words) = <<>>])
                   IN  IF Tail(Words) = <<>> THEN EndsAt(p)
                       ELSE Passed(shown.where, line,
                              [path |-> p, base |-> level+1, words |-> Tail(Words), end |-> "on"])
<1> DEFINE s == [path |-> Path, base |-> TopFrame.nlev+1, words |-> args, end |-> "on"]
           t == Nav!Go(s)
           base == MenuLevel + 1
<1>1. /\ frames \in Seq(Frame) /\ frames # <<>> /\ args \in Seq(STRING)
      /\ level = Len(frames) /\ level <= MaxDepth /\ level \in Int
      /\ \A i \in 1..Len(frames) : mstack[i-1] = frames[i].menu
      /\ mstack \in [0..MaxDepth-1 -> Menus \cup {NoMenu}]
  BY DEF IInv, Typed, Calls, Straight, Following, InCall
<1>2. Len(frames) \in Nat \ {0} /\ MaxDepth \in Nat
  BY <1>1, EmptySeq, ShellConstants
<1>3. Path \in Seq(Crumb) /\ Len(Path) = Len(frames)
      /\ \A i \in 1..Len(frames) : frames[i] \in Frame /\ Path[i].menu = frames[i].menu
  <2>1. \A i \in 1..Len(frames) :
           frames[i] \in Frame /\ Path[i] = [menu |-> frames[i].menu, prompt |-> frames[i].loop]
    BY <1>1, PathIs
  <2>2. Path \in Seq(Crumb) /\ Len(Path) = Len(frames)
    BY <1>1, PathIs
  <2>3. ASSUME NEW i \in 1..Len(frames) PROVE Path[i].menu = frames[i].menu
    <3>1. Path[i] = [menu |-> frames[i].menu, prompt |-> frames[i].loop]
      BY <2>1
    <3> QED  BY <3>1
  <2> QED  BY <2>1, <2>2, <2>3
<1>4. /\ line \in Lines /\ TopFrame.nlev \in 0..level-1
      /\ Passed(shown.where, line, s)
  BY DEF NavInv, Shown, OnTheWay
<1>5. Ups(args) \in 0..Len(args) /\ Len(args) \in Nat
  BY <1>1, UpsBounded, LenProperties
<1>6. MenuLevel = IF TopFrame.nlev > Ups(args) THEN TopFrame.nlev - Ups(args) ELSE 0
  BY <1>1, <1>2, <1>4, <1>5 DEF MenuLevel
<1>7. MenuLevel \in 0..Len(frames)-1
  BY <1>1, <1>2, <1>4, <1>5, <1>6
<1>8. mstack[MenuLevel] = Path[base].menu /\ mstack[MenuLevel] \in Menus /\ InTable
  <2>1. base \in 1..Len(frames) /\ base-1 = MenuLevel /\ MenuLevel \in 0..MaxDepth-1
    BY <1>1, <1>2, <1>7
  <2>2. mstack[MenuLevel] = frames[base].menu /\ frames[base].menu \in Menus
    BY <1>1, <1>3, <2>1 DEF Frame
  <2>3. NoMenu \notin Menus
    BY DEF NoMenu, Menus
  <2> QED  BY <1>1, <1>3, <2>1, <2>2, <2>3 DEF InTable
<1>9. base = IF Ups(args) < TopFrame.nlev+1 THEN TopFrame.nlev+1 - Ups(args) ELSE 1
  BY <1>1, <1>2, <1>4, <1>5, <1>6
<1>10. /\ Words \in Seq(STRING) /\ Len(Words) \in Nat /\ Len(Words) <= Len(args)
       /\ Words # <<>> => Len(Words) # 0
  BY <1>1, RestWords, EmptySeq DEF Words
<1>11. /\ t.end # "on" => LineEnd = t
       /\ Len(t.words) \in Nat /\ Len(t.words) < Len(args) => Passed(shown.where, line, t)
  <2>1. s.end = "on" /\ s.words = args
    OBVIOUS
  <2> HIDE DEF s
  <2> QED  BY <1>4, <1>5, <2>1, LineGoesOn DEF LineEnd
<1>12. /\ Words = <<>> => t.end = "stay" /\ t.path = Nav!Trim(SubSeq(Path, 1, base))
       /\ Words # <<>> /\ Words[1] = "x" => t.end = "stay" /\ t.path = Nav!Trim(Front(Path))
       /\ Words # <<>> /\ Words[1] # "x" =>
            IF To = "crash" THEN t.end = "crash"
            ELSE IF To \in Menus /\ Len(Path) < MaxDepth
                 THEN t = [path |-> Append(Path, [menu |-> To, prompt |-> Len(Words) = 1]),
                           base |-> Len(Path)+1, words |-> Tail(Words),
                           end |-> IF Len(Words) = 1 THEN "stay" ELSE "on"]
                 ELSE t.end = "stay" /\ t.path = Nav!Trim(Path)
  <2>1. /\ s.path = Path /\ s.base = TopFrame.nlev+1 /\ s.words = args
        /\ \A p, e : [s EXCEPT !.path = p, !.end = e].end = e /\ [s EXCEPT !.path = p, !.end = e].path = p
        /\ \A e : [s EXCEPT !.end = e].end = e
    OBVIOUS
  <2> HIDE DEF s, base
  <2>2. Nav!Ups(args) = Ups(args) /\ Nav!Rest(args) = Words /\ Nav!Menus = Menus
        /\ Nav!Front(Path) = Front(Path)
        /\ Nav!Resolve(Path[base].menu, Words[1]) = To
    BY <1>8, SameTables DEF Words, To
  <2>3. t = IF Words = <<>> THEN [s EXCEPT !.path = Nav!Trim(SubSeq(Path, 1, base)), !.end = "stay"]
            ELSE IF Words[1] = "x" THEN [s EXCEPT !.path = Nav!Trim(Front(Path)), !.end = "stay"]
            ELSE IF To = "crash" THEN [s EXCEPT !.end = "crash"]
            ELSE IF To \in Menus /\ Len(Path) < MaxDepth
                 THEN [path |-> Append(Path, [menu |-> To, prompt |-> Len(Words) = 1]),
                       base |-> Len(Path)+1, words |-> Tail(Words),
                       end |-> IF Len(Words) = 1 THEN "stay" ELSE "on"]
            ELSE [s EXCEPT !.path = Nav!Trim(Path), !.end = "stay"]
    <3>1. base = IF Nav!Ups(s.words) < s.base THEN s.base - Nav!Ups(s.words) ELSE 1
      <4>1. Nav!Ups(s.words) = Ups(args)
        BY <2>1, <2>2, Zenon
      <4>2. s.base = TopFrame.nlev+1
        BY <2>1
      <4>3. PICK u, n \in Int : u = Ups(args) /\ n = TopFrame.nlev
        BY <1>1, <1>4, <1>5
      <4>4. base = IF u < n+1 THEN n+1 - u ELSE 1
        BY <1>9, <4>3
      <4>5. Nav!Ups(s.words) = u /\ s.base = n+1
        BY <4>1, <4>2, <4>3
      <4> QED  BY <4>4, <4>5
    <3>2. Nav!Rest(s.words) = Words /\ s.path = Path /\ Nav!Menus = Menus
          /\ Nav!Resolve(s.path[base].menu, Words[1]) = To /\ Nav!Front(s.path) = Front(Path)
      BY <2>1, <2>2
    <3> QED  BY <3>1, <3>2, Zenon DEF Nav!Go
  <2> HIDE DEF t
  <2> QED  BY <2>1, <2>3
<1> HIDE DEF s, t, base
<1>13. Words = <<>> => EndsAt(Nav!Trim(SubSeq(Path, 1, base)))
  BY <1>11, <1>12 DEF EndsAt
<1>14. Words # <<>> /\ Words[1] = "x" => EndsAt(Nav!Trim(Front(Path)))
  BY <1>11, <1>12 DEF EndsAt
<1>15. ASSUME Words # <<>>, Words[1] # "x"
       PROVE  IF To = "crash" THEN LineEnd.end = "crash"
              ELSE IF ~(To \in Menus /\ level < MaxDepth) THEN EndsAt(Nav!Trim(Path))
              ELSE LET p == Append(Path, [menu |-> To, prompt |-> Tail(Words) = <<>>])
                   IN  IF Tail(Words) = <<>> THEN EndsAt(p)
                       ELSE Passed(shown.where, line,
                              [path |-> p, base |-> level+1, words |-> Tail(Words), end |-> "on"])
  <2>1. CASE To = "crash"
    BY <1>11, <1>12, <1>15, <2>1
  <2>2. CASE To # "crash" /\ ~(To \in Menus /\ level < MaxDepth)
    <3>1. t.end = "stay" /\ t.path = Nav!Trim(Path)
      BY <1>1, <1>3, <1>12, <1>15, <2>2
    <3> QED  BY <1>11, <2>2, <3>1 DEF EndsAt
  <2>3. CASE To # "crash" /\ To \in Menus /\ level < MaxDepth
    <3> DEFINE one == Tail(Words) = <<>>
               p   == Append(Path, [menu |-> To, prompt |-> one])
    <3>1. /\ Tail(Words) \in Seq(STRING) /\ Len(Tail(Words)) = Len(Words) - 1
          /\ Len(Words) \in Nat \ {0} /\ Len(Words) <= Len(args)
      BY <1>10, <1>15, HeadTailProperties
    <3>2. one = (Len(Words) = 1) /\ one \in BOOLEAN
      <4>1. Tail(Words) = <<>> <=> Len(Tail(Words)) = 0
        BY <3>1, EmptySeq
      <4> QED  BY <3>1, <4>1
    <3>3. t = [path |-> p, base |-> level+1, words |-> Tail(Words),
               end |-> IF one THEN "stay" ELSE "on"]
      BY <1>1, <1>3, <1>12, <1>15, <2>3, <3>2
    <3> HIDE DEF p, one
    <3>4. one => EndsAt(p)
      BY <1>11, <3>3 DEF EndsAt
    <3>5. ~one => Passed(shown.where, line, [path |-> p, base |-> level+1,
                                             words |-> Tail(Words), end |-> "on"])
      <4>1. t.words = Tail(Words)
        BY <3>3
      <4>2. Len(Tail(Words)) \in Nat /\ Len(Tail(Words)) < Len(args)
        BY <1>5, <3>1
      <4> QED  BY <1>11, <3>3, <4>1, <4>2
    <3> QED  BY <2>3, <3>4, <3>5 DEF p, one
  <2> QED  BY <2>1, <2>2, <2>3
<1> QED  BY <1>7, <1>8, <1>13, <1>14, <1>15 DEF base
-----------------------------------------------------------------------------
(* What MenuNav sees, and what it is not shown.                             *)
NavVars == <<IF hasty THEN <<>> ELSE shown.where, IF hasty THEN NoLine ELSE line,
             shown.exc /\ ~hasty>>

Unseen == UNCHANGED <<shown, line, hasty>>

(* A shell that is opened is at its main menu.                              *)
LEMMA RootShown ==
  ASSUME IInv, ~hasty, DebugMain(<<>>), UNCHANGED <<shown, line, hasty>>,
         shown \in [where: Seq(Crumb), exc: BOOLEAN], line \in Lines \cup {NoLine},
         excMode' \in BOOLEAN,
         IF line # NoLine THEN Answered(Root)'
         ELSE shown = [where |-> <<>>, exc |-> FALSE] /\ ~excMode'
  PROVE  NavInv'
<1>1. Call(<<>>, 0, "debugMain", <<>>, "root")
  BY DEF DebugMain
<1>2. /\ <<>> \in Seq(Frame) /\ <<>> \in Seq(STRING) /\ 0 \in Int /\ Len(<<>>) = 0
      /\ "debugMain" \in Menus /\ "root" \in {"root", "menu", "help"} /\ Typed
  BY EmptySeq DEF Menus, IInv
<1>3. /\ frames' \in Seq(Frame) /\ Len(frames') = 1 /\ frames'[1] \in Frame
      /\ frames'[1].menu = "debugMain" /\ frames'[1].via = "root" /\ frames'[1].loop
  <2>1. Appended(<<>>, 0, "debugMain", <<>>, "root")
    BY <1>1, <1>2, CallAppends
  <2>2. Len(<<>>) + 1 = 1
    BY <1>2
  <2>3. /\ frames' \in Seq(Frame) /\ Len(frames') = Len(<<>>) + 1
        /\ frames'[Len(<<>>)+1].menu = "debugMain" /\ frames'[Len(<<>>)+1].via = "root"
        /\ (frames'[Len(<<>>)+1].loop <=> <<>> = <<>>)
    BY <2>1, Zenon DEF Appended
  <2>4. /\ frames' \in Seq(Frame) /\ Len(frames') = 1
        /\ frames'[1].menu = "debugMain" /\ frames'[1].via = "root" /\ frames'[1].loop
    BY <2>2, <2>3, Zenon
  <2>5. frames'[1] \in Frame
    <3>1. 1 \in 1..Len(frames')
      BY <2>4
    <3> QED  BY <2>4, <3>1, ElementOfSeq
  <2> QED  BY <2>4, <2>5
<1>4. ctl' = "top" /\ pop' = 0
  BY <1>1 DEF Call
<1>5. Path' = Root
  <2>1. DOMAIN frames' = 1..1
    BY <1>3, LenProperties
  <2>2. frames'[1].loop = TRUE
    BY <1>3 DEF Frame
  <2>3. Path' = [i \in 1..1 |-> [menu |-> "debugMain", prompt |-> TRUE]]
    <3>1. Path' = [i \in 1..1 |-> [menu |-> frames'[i].menu, prompt |-> frames'[i].loop]]
      BY <2>1 DEF Path
    <3>2. \A i \in 1..1 : i = 1
      OBVIOUS
    <3> QED  BY <1>3, <2>2, <3>1, <3>2
  <2> DEFINE c == [menu |-> "debugMain", prompt |-> TRUE]
  <2>4. Path' = [i \in 1..1 |-> c]
    BY <2>3
  <2> HIDE DEF c
  <2>5. [i \in 1..1 |-> c] = <<c>>
    OBVIOUS
  <2> QED  BY <2>4, <2>5 DEF Root, c
<1>6. Shown'
  BY <1>4, <1>5 DEF Shown
<1>7. OnTheWay'
  <2>1. 1..Len(frames')-1 = {}
    BY <1>3
  <2> QED  BY <1>3, <1>4, <2>1 DEF OnTheWay, TopFrame
<1> QED  BY <1>6, <1>7 DEF NavInv

(* The words of a call for help.                                            *)
LEMMA HelpWords ==
  ASSUME args \in Seq(STRING), args # <<>>, args[1] = "help"
  PROVE  Words = args
<1>1. DOMAIN args = 1..Len(args) /\ Len(args) \in Nat \ {0}
  BY EmptySeq, LenProperties
<1>2. {i \in DOMAIN args : \A j \in 1..i : args[j] = ".."} = {}
  <2> SUFFICES ASSUME NEW i \in DOMAIN args, \A j \in 1..i : args[j] = ".."
               PROVE  FALSE
    OBVIOUS
  <2>1. 1 \in 1..i
    BY <1>1
  <2> QED  BY <2>1
<1>3. Ups(args) = 0
  BY <1>2, FS_EmptySet DEF Ups
<1>4. SubSeq(args, 0+1, Len(args)) = args
  BY <1>1
<1> QED  BY <1>3, <1>4 DEF Words, Rest

(* What a line that is not a move has come to: in a call for help it has    *)
(* been answered already.                                                   *)
LEMMA WordsLeft ==
  ASSUME IInv, NavInv, ~hasty, ctl = "eval"
  PROVE  /\ TopFrame.via = "help" => Words # <<>> /\ Words[1] = "help" /\ EndsAt(Nav!Trim(Path))
         /\ Words # <<>> /\ Words[1] \in {"help", "hist", "verbose"} => EndsAt(Nav!Trim(Path))
<1>1. args \in Seq(STRING)
  BY DEF IInv, Typed
<1>2. TopFrame.via = "help" => args # <<>> /\ args[1] = "help" /\ EndsAt(Nav!Trim(Path))
  BY DEF NavInv, OnTheWay
<1>3. TopFrame.via = "help" => Words # <<>> /\ Words[1] = "help" /\ EndsAt(Nav!Trim(Path))
  BY <1>1, <1>2, HelpWords
<1>4. ASSUME Words # <<>>, Words[1] \in {"help", "hist", "verbose"}, TopFrame.via # "help"
      PROVE  EndsAt(Nav!Trim(Path))
  <2>1. \A m : \A w \in {"help", "hist", "verbose"} : Resolve(m, w) = "none"
    BY DEF Resolve, Global, Row
  <2>2. To = "none"
    BY <1>4, <2>1 DEF To
  <2>3. "none" \notin Menus
    BY DEF Menus
  <2>4. Words[1] # "x"
    BY <1>4
  <2>5. IF To = "crash" THEN LineEnd.end = "crash"
        ELSE IF ~(To \in Menus /\ level < MaxDepth) THEN EndsAt(Nav!Trim(Path))
        ELSE TRUE
    BY <1>4, <2>4, LineFollowed, Zenon
  <2> QED  BY <2>2, <2>3, <2>5
<1> QED  BY <1>3, <1>4

(* A line that ends in a call, which pops p calls.                          *)
LEMMA LineEnds ==
  ASSUME IInv, NavInv, ~hasty, ctl = "eval", Stay, NEW p \in 0..Len(frames),
         pop' = p, ctl' = IF TopFrame.loop /\ p = 0 THEN "top" ELSE "ret",
         EndsAt(Nav!Trim(SubSeq(Path, 1, Len(Path) - p))), TopFrame.via = "help" => p = 0
  PROVE  NavInv' /\ Unseen
<1>1. UNCHANGED <<frames, level, args, line, shown, excMode, hasty>> /\ Unseen
  BY DEF Stay, Unseen
<1>2. /\ frames \in Seq(Frame) /\ frames # <<>>
  BY DEF IInv, Typed, Calls, InCall
<1>3. /\ Path \in Seq(Crumb) /\ Len(Path) = Len(frames) /\ Len(frames) \in Nat \ {0}
      /\ Path # <<>> /\ Path[Len(Path)].prompt = TopFrame.loop
  <2>1. Path \in Seq(Crumb) /\ Len(Path) = Len(frames) /\ Len(frames) \in Nat \ {0}
    BY <1>2, PathIs, EmptySeq
  <2>2. Path[Len(frames)] = [menu |-> TopFrame.menu, prompt |-> TopFrame.loop]
    <3>1. Len(frames) \in 1..Len(frames)
      BY <2>1
    <3> QED  BY <1>2, <3>1, PathIs DEF TopFrame
  <2> QED  BY <2>1, <2>2, EmptySeq
<1>4. Path' = Path /\ TopFrame' = TopFrame
  BY <1>1 DEF Path, TopFrame
<1>5. \A q : EndsAt(q)' = EndsAt(q)
  BY <1>1 DEF EndsAt, LineEnd
<1>6. shown.exc = excMode /\ line # NoLine
  BY DEF NavInv, Shown
<1>7. SubSeq(Path, 1, Len(Path)) = Path
  BY <1>3
<1>8. CASE TopFrame.loop /\ p = 0
  <2>1. EndsAt(Path)
    <3>1. Len(Path) - p = Len(Path)
      BY <1>3, <1>8
    <3>2. Nav!Trim(Path) = Path
      BY <1>3, <1>8, TrimStays
    <3> QED  BY <1>7, <3>1, <3>2
  <2>2. Answered(Path)'
    BY <1>1, <1>3, <1>4, <1>6, <2>1 DEF Answered, EndsAt, LineEnd
  <2>3. ctl' = "top"
    BY <1>8
  <2> QED  BY <1>1, <1>4, <1>6, <1>8, <2>2, <2>3 DEF NavInv, Shown, OnTheWay
<1>9. CASE ~(TopFrame.loop /\ p = 0)
  <2>1. ctl' = "ret"
    BY <1>9
  <2>2. EndsAt(Nav!Trim(Left))'
    <3>1. Left' = SubSeq(Path, 1, Len(Path) - (IF p = 0 THEN 1 ELSE p))
      BY <1>4 DEF Left
    <3>2. CASE p # 0
      BY <1>5, <3>1, <3>2
    <3>3. CASE p = 0
      <4>1. Left' = Front(Path) /\ Len(Path) - p = Len(Path)
        BY <1>3, <3>1, <3>3 DEF Front
      <4>2. Nav!Trim(Path) = Nav!Trim(Front(Path))
        BY <1>3, <1>9, <3>3, TrimDrops
      <4> QED  BY <1>5, <1>7, <4>1, <4>2
    <3> QED  BY <3>2, <3>3
  <2>3. p \in Nat /\ p <= Len(frames)
    BY <1>3
  <2> QED  BY <1>1, <1>4, <1>6, <1>9, <2>1, <2>2, <2>3 DEF NavInv, Shown, OnTheWay
<1> QED  BY <1>1, <1>8, <1>9

LEMMA LineDone ==
  ASSUME IInv, NavInv, ~hasty, GoUp \/ ExitMenu \/ History \/ RunCommand \/ RefuseMenu
  PROVE  NavInv' /\ Unseen
<1>1. ctl = "eval" /\ Stay
  BY DEF GoUp, ExitMenu, History, RunCommand, RefuseMenu, Looks
<1>2. /\ frames \in Seq(Frame) /\ frames # <<>> /\ level = Len(frames)
  BY <1>1 DEF IInv, Typed, Calls, Straight, Following, InCall
<1>3. /\ Path \in Seq(Crumb) /\ Len(Path) = Len(frames) /\ Len(frames) \in Nat \ {0}
      /\ SubSeq(Path, 1, Len(Path) - 0) = Path
  <2>1. Path \in Seq(Crumb) /\ Len(Path) = Len(frames) /\ Len(frames) \in Nat \ {0}
    BY <1>2, PathIs, EmptySeq
  <2> QED  BY <2>1
<1>4. /\ TopFrame.via = "help" => Words # <<>> /\ Words[1] = "help"
      /\ Words # <<>> /\ Words[1] \in {"help", "hist", "verbose"} => EndsAt(Nav!Trim(Path))
  BY <1>1, WordsLeft
<1>5. CASE GoUp
  <2> DEFINE p == IF level > MenuLevel + 1 THEN level - (MenuLevel + 1) ELSE 0
  <2>1. Words = <<>> /\ pop' = p /\ ctl' = IF TopFrame.loop /\ p = 0 THEN "top" ELSE "ret"
    BY <1>5 DEF GoUp, Continue
  <2>2. TopFrame.via # "help"
    BY <1>4, <2>1
  <2>3. MenuLevel \in 0..Len(frames)-1 /\ EndsAt(Nav!Trim(SubSeq(Path, 1, MenuLevel+1)))
    BY <1>1, <2>1, <2>2, LineFollowed
  <2>4. p \in 0..Len(frames) /\ Len(Path) - p = MenuLevel+1
    <3>1. \A n \in Nat : \A m \in 0..n-1 :
            LET q == IF n > m+1 THEN n - (m+1) ELSE 0 IN q \in 0..n /\ n - q = m+1
      OBVIOUS
    <3>2. Len(frames) \in Nat
      BY <1>3
    <3> QED  BY <1>2, <1>3, <2>3, <3>1, <3>2, Zenon
  <2> HIDE DEF p
  <2> QED  BY <1>1, <2>1, <2>2, <2>3, <2>4, LineEnds
<1>6. CASE ExitMenu
  <2>1. Words # <<>> /\ Words[1] = "x" /\ pop' = 1 /\ ctl' = "ret"
    BY <1>6 DEF ExitMenu
  <2>2. TopFrame.via # "help"
    BY <1>4, <2>1
  <2>3. EndsAt(Nav!Trim(Front(Path)))
    BY <1>1, <2>1, <2>2, LineFollowed
  <2>4. Front(Path) = SubSeq(Path, 1, Len(Path) - 1) /\ 1 \in 0..Len(frames)
    BY <1>3 DEF Front
  <2> QED  BY <1>1, <2>1, <2>2, <2>3, <2>4, LineEnds
<1>7. CASE History \/ RunCommand \/ RefuseMenu
  <2>1. Words # <<>> /\ pop' = 0 /\ ctl' = IF TopFrame.loop /\ 0 = 0 THEN "top" ELSE "ret"
    BY <1>7 DEF History, RunCommand, RefuseMenu, Looks, Continue
  <2>2. EndsAt(Nav!Trim(Path))
    <3>1. CASE Words[1] \in {"help", "hist", "verbose"}
      BY <1>4, <2>1, <3>1
    <3>2. CASE Words[1] \notin {"help", "hist", "verbose"}
      <4>1. /\ Words[1] # "x" /\ TopFrame.via # "help" /\ Found = To
            /\ \/ Found \in {"leaf", "none"}
               \/ Found \in Menus /\ level >= MaxDepth
        BY <1>4, <1>7, <3>2 DEF History, RunCommand, RefuseMenu, Looks, Helps, Found, To
      <4>2. "crash" \notin Menus /\ "leaf" \notin Menus /\ "none" \notin Menus
        BY DEF Menus
      <4>3. IF To = "crash" THEN LineEnd.end = "crash"
            ELSE IF ~(To \in Menus /\ level < MaxDepth) THEN EndsAt(Nav!Trim(Path))
            ELSE TRUE
        BY <1>1, <2>1, <4>1, LineFollowed, Zenon
      <4>4. level \in Nat /\ MaxDepth \in Nat
        BY <1>2, <1>3, ShellConstants
      <4>5. To # "crash" /\ ~(To \in Menus /\ level < MaxDepth)
        BY <4>1, <4>2, <4>4
      <4> QED  BY <4>3, <4>5
    <3> QED  BY <3>1, <3>2
  <2>3. 0 \in 0..Len(frames)
    BY <1>3
  <2> QED  BY <1>1, <1>3, <2>1, <2>2, <2>3, LineEnds
<1> QED  BY <1>5, <1>6, <1>7

(* A menu a line opens is on its way, or the end of it.                     *)
LEMMA MenuOpened ==
  ASSUME IInv, NavInv, ~hasty, EnterMenu
  PROVE  NavInv' /\ Unseen
<1> DEFINE argv == Tail(Words)
<1>1. /\ ctl = "eval" /\ Words # <<>> /\ Words[1] # "x" /\ Words[1] # "help"
      /\ Found \in Menus /\ Found = To /\ level < MaxDepth
      /\ Call(frames, level, Found, argv, "menu")
      /\ UNCHANGED <<line, shown, excMode, hasty>> /\ Unseen
  BY DEF EnterMenu, Looks, Helps, Found, To, Unseen
<1>2. /\ frames \in Seq(Frame) /\ frames # <<>> /\ args \in Seq(STRING) /\ level \in Int
      /\ level = Len(frames) /\ Typed
  BY <1>1 DEF IInv, Typed, Calls, Straight, Following, InCall
<1>3. Len(frames) \in Nat \ {0} /\ argv \in Seq(STRING)
  BY <1>1, <1>2, EmptySeq, RestWords, HeadTailProperties DEF Words
<1>4. Appended(frames, level, Found, argv, "menu")
  BY <1>1, <1>2, <1>3, CallAppends
<1>5. /\ frames' \in Seq(Frame) /\ frames' # <<>> /\ Len(frames') = Len(frames) + 1
      /\ \A i \in 1..Len(frames) : frames'[i] = frames[i]
      /\ TopFrame'.menu = Found /\ TopFrame'.via = "menu" /\ TopFrame'.nlev = level
      /\ (TopFrame'.loop <=> argv = <<>>) /\ TopFrame' = frames'[Len(frames)+1]
      /\ level' = level + 1 /\ args' = argv
      /\ ctl' = IF argv = <<>> THEN "top" ELSE "eval"
      /\ pop' = 0
  BY <1>1, <1>4 DEF Appended, TopFrame, Call
<1>6. Path' = Append(Path, [menu |-> Found, prompt |-> argv = <<>>])
  <2>1. TopFrame'.loop = (argv = <<>>)
    <3>1. Len(frames') \in 1..Len(frames')
      BY <1>3, <1>5
    <3>2. TopFrame' \in Frame
      BY <1>5, <3>1, ElementOfSeq DEF TopFrame
    <3>3. TopFrame'.loop \in BOOLEAN
      BY <3>2 DEF Frame
    <3> HIDE DEF argv
    <3> QED  BY <1>5, <3>3
  <2>2. Path' = Append(Path, [menu |-> TopFrame'.menu, prompt |-> TopFrame'.loop])
    BY <1>2, <1>5, PathGrows
  <2> QED  BY <1>5, <2>1, <2>2
<1>7. Path' \in Seq(Crumb) /\ Len(Path') = Len(frames')
  BY <1>5, PathTypeNext
<1>8. TopFrame.via # "help"
  BY <1>1, WordsLeft
<1>9. IF argv = <<>> THEN EndsAt(Path')
      ELSE Passed(shown.where, line, [path |-> Path', base |-> level+1, words |-> argv, end |-> "on"])
  <2>1. To # "crash"
    BY <1>1 DEF Menus
  <2> QED  BY <1>1, <1>6, <1>8, <2>1, LineFollowed
<1>10. shown.exc = excMode /\ line # NoLine
  BY <1>1 DEF NavInv, Shown
<1>11. Path' # <<>>
  BY <1>3, <1>5, <1>7, EmptySeq
<1>12. Shown'
  <2>1. argv = <<>> => Answered(Path)'
    BY <1>1, <1>9, <1>10, <1>11 DEF Answered, EndsAt, LineEnd
  <2> HIDE DEF argv
  <2> QED  BY <1>1, <1>5, <1>10, <2>1 DEF NavInv, Shown
<1>13. OnTheWay'
  <2>1. ASSUME NEW i \in 1..Len(frames'), frames'[i].via = "help" PROVE ~frames'[i].loop
    <3>1. CASE i = Len(frames)+1
      BY <1>5, <2>1, <3>1
    <3>2. CASE i \in 1..Len(frames)
      BY <1>1, <1>5, <2>1, <3>2 DEF NavInv, OnTheWay
    <3> QED  BY <1>3, <1>5, <3>1, <3>2
  <2>2. frames'[1].loop
    <3>1. 1 \in 1..Len(frames)
      BY <1>3
    <3> QED  BY <1>1, <1>2, <1>5, <3>1 DEF NavInv, OnTheWay
  <2>3. argv # <<>> =>
          /\ TopFrame'.nlev \in 0..level'-1
          /\ Passed(shown.where, line, [path |-> Path, base |-> TopFrame.nlev + 1,
                                        words |-> args, end |-> "on"])'
    BY <1>1, <1>2, <1>3, <1>5, <1>9
  <2>4. ASSUME NEW i \in 1..Len(frames')-1, frames'[i].via = "help" PROVE frames'[i+1].via = "help"
    <3>1. CASE i = Len(frames)
      BY <1>3, <1>5, <1>8, <2>4, <3>1 DEF TopFrame
    <3>2. CASE i \in 1..Len(frames)-1
      <4>1. i \in 1..Len(frames) /\ i+1 \in 1..Len(frames)
        BY <1>3, <3>2
      <4>2. frames[i].via = "help" => frames[i+1].via = "help"
        BY <3>2 DEF NavInv, OnTheWay
      <4> QED  BY <1>5, <2>4, <4>1, <4>2
    <3> QED  BY <1>3, <1>5, <3>1, <3>2
  <2> HIDE DEF argv
  <2> QED  BY <1>5, <2>1, <2>2, <2>3, <2>4 DEF OnTheWay
<1> QED  BY <1>1, <1>12, <1>13 DEF NavInv

(* Help asked of a menu: the line is answered, and the calls come back.     *)
LEMMA HelpOpened ==
  ASSUME IInv, NavInv, ~hasty, HelpMenu
  PROVE  NavInv' /\ Unseen
<1> DEFINE argv == <<"help">> \o SubSeq(Words, 3, Len(Words))
<1>1. /\ ctl = "eval" /\ Words # <<>> /\ Words[1] = "help" /\ Found \in Menus
      /\ Call(frames, level, Found, argv, "help")
      /\ UNCHANGED <<line, shown, excMode, hasty>> /\ Unseen
  BY DEF HelpMenu, Looks, Helps, Unseen
<1>2. /\ frames \in Seq(Frame) /\ frames # <<>> /\ args \in Seq(STRING) /\ level \in Int /\ Typed
  BY <1>1 DEF IInv, Typed, Calls, InCall
<1>3. Len(frames) \in Nat \ {0} /\ Words \in Seq(STRING) /\ Len(Words) \in Nat \ {0}
  BY <1>1, <1>2, EmptySeq, RestWords DEF Words
<1>4. argv \in Seq(STRING) /\ argv # <<>> /\ argv[1] = "help"
  <2> DEFINE rest == SubSeq(Words, 3, Len(Words))
  <2>1. \A i \in 3..Len(Words) : Words[i] \in STRING
    BY <1>3, ElementOfSeq
  <2>2. Len(Words) \in Int /\ 3 \in Int
    BY <1>3
  <2>3. rest \in Seq(STRING)
    BY <2>1, <2>2, SubSeqProperties
  <2>4. <<"help">> \in Seq(STRING) /\ Len(<<"help">>) = 1 /\ <<"help">>[1] = "help"
    <3>1. 1 \in 1..Len(Words)
      BY <1>3
    <3>2. "help" \in STRING
      BY <1>1, <1>3, <3>1, ElementOfSeq
    <3> QED  BY <3>2, OneWord
  <2> DEFINE h == <<"help">>
  <2>5. h \in Seq(STRING) /\ Len(h) = 1 /\ h[1] = "help"
    BY <2>4
  <2> HIDE DEF rest, h
  <2>6. /\ h \o rest \in Seq(STRING) /\ Len(h \o rest) = 1 + Len(rest) /\ Len(rest) \in Nat
        /\ (h \o rest)[1] = h[1]
    BY <2>3, <2>5, ConcatProperties, LenProperties
  <2>7. h \o rest # <<>>
    BY <2>6, EmptySeq
  <2> QED  BY <2>5, <2>6, <2>7 DEF rest, h
<1> HIDE DEF argv
<1>5. Appended(frames, level, Found, argv, "help")
  BY <1>1, <1>2, <1>4, CallAppends
<1>6. /\ frames' \in Seq(Frame) /\ frames' # <<>> /\ Len(frames') = Len(frames) + 1
      /\ \A i \in 1..Len(frames) : frames'[i] = frames[i]
      /\ TopFrame'.via = "help" /\ ~TopFrame'.loop /\ TopFrame' = frames'[Len(frames)+1]
      /\ args' = argv /\ ctl' = "eval" /\ pop' = 0
  BY <1>1, <1>4, <1>5 DEF Appended, TopFrame, Call
<1>7. EndsAt(Nav!Trim(Path))'
  <2> DEFINE c == [menu |-> TopFrame'.menu, prompt |-> TopFrame'.loop]
  <2>1. Path' = Append(Path, c)
    BY <1>2, <1>6, PathGrows
  <2>2. Path \in Seq(Crumb) /\ Path' \in Seq(Crumb) /\ Len(Path) = Len(frames)
    BY <1>2, <1>6, PathType, PathTypeNext
  <2>3. ~c.prompt /\ c \in Crumb
    <3>1. Len(frames') \in 1..Len(frames')
      BY <1>3, <1>6
    <3>2. TopFrame' \in Frame
      BY <1>6, <3>1, ElementOfSeq DEF TopFrame
    <3> QED  BY <1>6, <3>2 DEF Crumb, Frame
  <2> HIDE DEF c
  <2>4. ASSUME NEW q \in Seq(Crumb) PROVE Nav!Trim(Append(q, c)) = Nav!Trim(q)
    <3> DEFINE r == Append(q, c)
    <3>1. /\ r \in Seq(Crumb) /\ Len(r) = Len(q)+1 /\ Len(q) \in Nat
          /\ r[Len(q)+1] = c /\ \A i \in 1..Len(q) : r[i] = q[i]
      BY <2>3, AppendProperties, LenProperties
    <3> HIDE DEF r
    <3>2. r # <<>> /\ ~r[Len(r)].prompt
      BY <2>3, <3>1, EmptySeq
    <3>3. Front(r) \in Seq(Crumb) /\ Len(Front(r)) = Len(q) /\ \A i \in 1..Len(q) : Front(r)[i] = q[i]
      BY <3>1, <3>2, FrontIs
    <3>4. Front(r) = q
      <4> DEFINE b == Front(r)
      <4>1. b = [i \in 1..Len(q) |-> b[i]] /\ q = [i \in 1..Len(q) |-> q[i]]
        BY <3>3, LenProperties
      <4> HIDE DEF b
      <4> QED  BY <3>3, <4>1 DEF b
    <3> QED  BY <3>1, <3>2, <3>4, TrimDrops DEF r
  <2>5. EndsAt(Nav!Trim(Path))
    BY <1>1, WordsLeft
  <2>6. Nav!Trim(Path') = Nav!Trim(Path)
    BY <2>1, <2>2, <2>4
  <2> QED  BY <1>1, <2>5, <2>6 DEF EndsAt, LineEnd
<1>8. Shown'
  <2>1. shown.exc = excMode /\ line # NoLine
    BY <1>1 DEF NavInv, Shown
  <2> QED  BY <1>1, <1>6, <2>1 DEF NavInv, Shown
<1>9. OnTheWay'
  <2>1. ASSUME NEW i \in 1..Len(frames'), frames'[i].via = "help" PROVE ~frames'[i].loop
    <3>1. CASE i = Len(frames)+1
      BY <1>6, <3>1
    <3>2. CASE i \in 1..Len(frames)
      BY <1>1, <1>6, <2>1, <3>2 DEF NavInv, OnTheWay
    <3> QED  BY <1>3, <1>6, <3>1, <3>2
  <2>2. frames'[1].loop
    <3>1. 1 \in 1..Len(frames)
      BY <1>3
    <3> QED  BY <1>1, <1>2, <1>6, <3>1 DEF NavInv, OnTheWay
  <2>3. ASSUME NEW i \in 1..Len(frames')-1, frames'[i].via = "help" PROVE frames'[i+1].via = "help"
    <3>1. CASE i = Len(frames)
      BY <1>6, <3>1
    <3>2. CASE i \in 1..Len(frames)-1
      BY <1>1, <1>3, <1>6, <2>3, <3>2 DEF NavInv, OnTheWay
    <3> QED  BY <1>3, <1>6, <3>1, <3>2
  <2> QED  BY <1>4, <1>6, <1>7, <2>1, <2>2, <2>3 DEF OnTheWay
<1> QED  BY <1>1, <1>8, <1>9 DEF NavInv

(* An answer to a line, as MenuNav gives it.                                *)
LEMMA Answers ==
  ASSUME ~hasty, UNCHANGED hasty, line # NoLine, line' = NoLine, NEW p,
         Answered(p) /\ shown' = [where |-> p, exc |-> excMode],
         shown.exc \in BOOLEAN, excMode \in BOOLEAN
  PROVE  Nav!Next
<1>1. Nav!Root = Root
  BY SameTables
<1>2. CASE LineEnd.end = "crash" /\ ~shown.exc /\ excMode /\ p = Root
  <2>1. Nav!Crash
    BY <1>1, <1>2 DEF Nav!Crash, Nav!Crashes, LineEnd
  <2> QED  BY <2>1 DEF Nav!Next
<1>3. CASE /\ LineEnd.end = "stay" /\ shown.exc = excMode
           /\ p = IF excMode /\ LineEnd.path = <<>> THEN Root ELSE LineEnd.path
  <2>1. Nav!Respond
    BY <1>1, <1>3 DEF Nav!Respond, Nav!Crashes, Nav!After, LineEnd
  <2> QED  BY <2>1 DEF Nav!Next
<1> QED  BY <1>2, <1>3 DEF Answered

LEMMA PromptShows ==
  ASSUME IInv, NavInv, ~hasty, Prompt
  PROVE  NavInv' /\ Nav!Next
<1>1. /\ ctl = "top" /\ UNCHANGED <<level, args, pop, excMode, hasty>>
  BY DEF Prompt
<1>2. /\ frames \in Seq(Frame) /\ frames # <<>> /\ level = Len(frames)
  BY <1>1 DEF IInv, Typed, Calls, Straight, Following, InCall
<1>3. Len(frames) \in Nat \ {0}
  BY <1>2, EmptySeq
<1>4. /\ ctl' = "read" /\ line' = NoLine /\ shown' = [where |-> Path, exc |-> excMode]
      /\ frames' = [frames EXCEPT ![Len(frames)].nlev = level - 1]
  BY <1>2, <1>3 DEF Prompt
<1>5. /\ frames' \in Seq(Frame) /\ Len(frames') = Len(frames)
      /\ \A i \in 1..Len(frames) : /\ frames'[i].menu = frames[i].menu
                                   /\ frames'[i].loop = frames[i].loop
                                   /\ frames'[i].via = frames[i].via
      /\ TopFrame'.nlev = level - 1
  <2>1. level - 1 \in Int /\ frames' = [frames EXCEPT ![Len(frames)].nlev = level - 1]
    BY <1>2, <1>3, <1>4
  <2>2. /\ frames' \in Seq(Frame) /\ Len(frames') = Len(frames)
        /\ \A i \in 1..Len(frames) : /\ frames'[i].menu = frames[i].menu
                                     /\ frames'[i].loop = frames[i].loop
                                     /\ frames'[i].via = frames[i].via
        /\ frames'[Len(frames)].nlev = level - 1
    BY <1>2, <2>1, LevelWritten
  <2> QED  BY <2>2 DEF TopFrame
<1>6. Path' = Path /\ Path \in Seq(Crumb)
  BY <1>2, <1>5, PathKept, PathType
<1>7. Shown'
  BY <1>1, <1>4, <1>6 DEF NavInv, Shown
<1>8. OnTheWay'
  <2>1. 1 \in 1..Len(frames) /\ Len(frames) \in 1..Len(frames)
    BY <1>3
  <2>2. \A i \in 1..Len(frames)-1 : i \in 1..Len(frames) /\ i+1 \in 1..Len(frames)
    BY <1>3
  <2> QED  BY <1>1, <1>2, <1>4, <1>5, <2>1, <2>2 DEF NavInv, OnTheWay, TopFrame
<1>9. Nav!Next
  <2>1. shown.exc \in BOOLEAN /\ excMode \in BOOLEAN
    BY DEF NavInv, Shown
  <2>2. CASE line # NoLine
    <3>1. Answered(Path)
      BY <1>1, <2>2 DEF NavInv, Shown
    <3> QED  BY <1>1, <1>4, <2>1, <2>2, <3>1, Answers
  <2>3. CASE line = NoLine
    <3>1. Path = Root /\ shown = [where |-> <<>>, exc |-> FALSE] /\ excMode = FALSE
      BY <1>1, <2>1, <2>3 DEF NavInv, Shown
    <3>2. Nav!Open
      BY <1>1, <1>4, <2>3, <3>1, SameTables DEF Nav!Open
    <3> QED  BY <3>2 DEF Nav!Next
  <2> QED  BY <2>2, <2>3
<1> QED  BY <1>1, <1>7, <1>8, <1>9 DEF NavInv

LEMMA LineTyped ==
  ASSUME IInv, NavInv, ~hasty, TypeLine
  PROVE  NavInv' /\ Nav!Next
<1>1. /\ ctl = "read" /\ ctl' = "eval" /\ UNCHANGED <<level, pop, shown, excMode, hasty>>
  BY DEF TypeLine
<1>2. PICK l \in Lines : /\ line' = l /\ args' = l.words
                         /\ frames' = IF l.root THEN [frames EXCEPT ![Len(frames)].nlev = 0] ELSE frames
  BY DEF TypeLine
<1>3. /\ frames \in Seq(Frame) /\ frames # <<>> /\ level = Len(frames) /\ l # NoLine
  BY <1>1, ShellConstants DEF IInv, Typed, Calls, Straight, Following, InCall
<1>4. Len(frames) \in Nat \ {0}
  BY <1>3, EmptySeq
<1>5. /\ shown = [where |-> Path, exc |-> excMode] /\ line = NoLine
      /\ TopFrame.loop /\ TopFrame.nlev = level - 1 /\ TopFrame.via # "help"
  <2>1. Len(frames) \in 1..Len(frames)
    BY <1>4
  <2> QED  BY <1>1, <2>1 DEF NavInv, Shown, OnTheWay, TopFrame
<1>6. /\ frames' \in Seq(Frame) /\ Len(frames') = Len(frames)
      /\ \A i \in 1..Len(frames) : /\ frames'[i].menu = frames[i].menu
                                   /\ frames'[i].loop = frames[i].loop
                                   /\ frames'[i].via = frames[i].via
      /\ TopFrame'.nlev = IF l.root THEN 0 ELSE level - 1
  <2>1. CASE l.root
    <3>1. 0 \in Int /\ frames' = [frames EXCEPT ![Len(frames)].nlev = 0]
      BY <1>2, <2>1
    <3>2. /\ frames' \in Seq(Frame) /\ Len(frames') = Len(frames)
          /\ \A i \in 1..Len(frames) : /\ frames'[i].menu = frames[i].menu
                                       /\ frames'[i].loop = frames[i].loop
                                       /\ frames'[i].via = frames[i].via
          /\ frames'[Len(frames)].nlev = 0
      BY <1>3, <3>1, LevelWritten
    <3> QED  BY <2>1, <3>2 DEF TopFrame
  <2>2. CASE ~l.root
    BY <1>2, <1>3, <1>5, <2>2 DEF TopFrame
  <2> QED  BY <2>1, <2>2
<1>7. Path' = Path /\ Path \in Seq(Crumb) /\ Len(Path) = Len(frames) /\ Path # <<>>
  <2>1. Path' = Path /\ Path \in Seq(Crumb) /\ Len(Path) = Len(frames)
    BY <1>3, <1>6, PathKept, PathType
  <2> QED  BY <1>4, <2>1, EmptySeq
<1>8. Shown'
  BY <1>1, <1>2, <1>3, <1>5 DEF NavInv, Shown
<1>9. OnTheWay'
  <2>1. 1 \in 1..Len(frames) /\ Len(frames) \in 1..Len(frames)
    BY <1>4
  <2>2. Passed(Path, l, [path |-> Path, base |-> IF l.root THEN 1 ELSE Len(Path),
                         words |-> l.words, end |-> "on"])
    BY LineStarts
  <2>3. TopFrame'.nlev + 1 = IF l.root THEN 1 ELSE Len(Path)
    BY <1>3, <1>4, <1>6, <1>7
  <2>4. /\ TopFrame'.nlev \in 0..level'-1
        /\ Passed(shown.where, line, [path |-> Path, base |-> TopFrame.nlev + 1,
                                      words |-> args, end |-> "on"])'
    <3>1. TopFrame'.nlev \in 0..level'-1
      BY <1>1, <1>3, <1>4, <1>6
    <3>2. shown'.where = Path
      BY <1>1, <1>5
    <3> QED  BY <1>2, <1>7, <2>2, <2>3, <3>1, <3>2
  <2>5. TopFrame'.via # "help"
    BY <1>5, <1>6, <2>1 DEF TopFrame
  <2>6. \A i \in 1..Len(frames) : frames[i].via = "help" => ~frames[i].loop
    BY DEF NavInv, OnTheWay
  <2>7. frames[1].loop
    BY <1>3 DEF NavInv, OnTheWay
  <2>8. ASSUME NEW i \in 1..Len(frames')-1, frames'[i].via = "help" PROVE frames'[i+1].via = "help"
    <3>1. i \in 1..Len(frames)-1 /\ i \in 1..Len(frames) /\ i+1 \in 1..Len(frames)
      BY <1>4, <1>6
    <3> QED  BY <1>6, <2>8, <3>1 DEF NavInv, OnTheWay
  <2> QED  BY <1>1, <1>6, <2>1, <2>4, <2>5, <2>6, <2>7, <2>8 DEF OnTheWay
<1>10. Nav!Type
  BY <1>1, <1>2, <1>5, <1>7 DEF Nav!Type
<1> QED  BY <1>1, <1>8, <1>9, <1>10 DEF NavInv, Nav!Next

(* A call that returns: on to the next one, to a prompt, or out of the shell*)
LEMMA CallReturned ==
  ASSUME IInv, NavInv, ~hasty, EndLoop
  PROVE  NavInv' /\ (Unseen \/ Nav!Next)
<1> DEFINE b == Front(frames)
           v == IF pop > 0 THEN pop - 1 ELSE 0
           q == Nav!Trim(Left)
<1>1. /\ ctl = "ret" /\ level' = level - 1 /\ Leave(v)
      /\ UNCHANGED <<args, excMode, hasty>>
  BY DEF EndLoop, Leave
<1>2. /\ frames \in Seq(Frame) /\ frames # <<>>
      /\ \A i \in 2..Len(frames) : frames[i].via # "root"
      /\ frames[1].via = "root"
  BY <1>1 DEF IInv, Typed, Calls, Straight, Following, InCall
<1>3. /\ frames' = b /\ b \in Seq(Frame) /\ Len(frames) \in Nat \ {0}
      /\ Len(b) = Len(frames) - 1
      /\ \A i \in 1..Len(frames)-1 : b[i] = frames[i]
  BY <1>1, <1>2, FrameLeft DEF Leave
<1>4. /\ pop \in Nat /\ pop <= Len(frames) /\ EndsAt(q)
      /\ TopFrame.via = "help" => pop = 0
      /\ pop = 0 => ~TopFrame.loop
      /\ frames[1].loop
      /\ \A i \in 1..Len(frames) : frames[i].via = "help" => ~frames[i].loop
      /\ \A i \in 1..Len(frames)-1 : frames[i].via = "help" => frames[i+1].via = "help"
      /\ shown.exc = excMode /\ line # NoLine /\ line \in Lines
      /\ shown \in [where: Seq(Crumb), exc: BOOLEAN] /\ excMode \in BOOLEAN
  BY <1>1, <1>2 DEF NavInv, Shown, OnTheWay
<1>5. Path \in Seq(Crumb) /\ Len(Path) = Len(frames) /\ Path' = Front(Path)
      /\ Path' = SubSeq(Path, 1, Len(Path) - 1)
  BY <1>2, <1>3, PathType, PathShrinks DEF Front
<1>6. ASSUME NEW i \in 1..Len(frames'), frames'[i].via = "help" PROVE ~frames'[i].loop
  BY <1>3, <1>4, <1>6
<1>7. ASSUME frames' # <<>> PROVE frames'[1].loop
  <2>1. 1 \in 1..Len(frames)-1
    BY <1>3, <1>7, EmptySeq
  <2> QED  BY <1>3, <1>4, <2>1
<1>10. ASSUME NEW i \in 1..Len(frames')-1, frames'[i].via = "help" PROVE frames'[i+1].via = "help"
  <2>1. i \in 1..Len(frames)-1 /\ i+1 \in 1..Len(frames)-1
    BY <1>3
  <2> QED  BY <1>3, <1>4, <1>10, <2>1
<1> HIDE DEF v
<1>8. CASE TopFrame.via = "root"
  <2>1. Len(frames) = 1 /\ pop = 1
    <3>1. Len(frames) \notin 2..Len(frames)
      BY <1>2, <1>8 DEF TopFrame
    <3>2. Len(frames) = 1
      BY <1>3, <3>1
    <3> QED  BY <1>4, <3>2 DEF TopFrame
  <2>2. frames' = <<>> /\ pop' = 0 /\ ctl' = IF excMode THEN "reenter" ELSE "idle"
    <3>1. Len(b) = 0
      BY <1>3, <2>1
    <3>2. b = <<>>
      BY <1>3, <3>1, EmptySeq
    <3> QED  BY <1>1, <1>3, <1>8, <3>2 DEF Leave
  <2>3. EndsAt(<<>>)
    <3>1. Left = SubSeq(Path, 1, 0)
      BY <1>5, <2>1 DEF Left
    <3>2. SubSeq(Path, 1, 0) = <<>> /\ <<>> \in Seq(Crumb)
      BY <1>5
    <3>3. Nav!Trim(<<>>) = <<>>
      BY <3>2, TrimStays
    <3> QED  BY <1>4, <3>1, <3>2, <3>3
  <2>4. CASE excMode
    <3>1. ctl' = "reenter" /\ UNCHANGED <<line, shown>>
      BY <1>1, <1>8, <2>2, <2>4 DEF Leave
    <3>2. Answered(Root)'
      BY <1>1, <1>4, <2>3, <2>4, <3>1 DEF Answered, EndsAt, LineEnd
    <3>3. Shown'
      BY <1>1, <1>4, <2>2, <3>1, <3>2 DEF Shown
    <3>4. OnTheWay'
      BY <1>6, <1>10, <2>2, <3>1 DEF OnTheWay
    <3> QED  BY <1>1, <3>1, <3>3, <3>4 DEF NavInv, Unseen
  <2>5. CASE ~excMode
    <3>1. ctl' = "idle" /\ line' = NoLine /\ shown' = [where |-> <<>>, exc |-> FALSE]
      BY <1>1, <2>2, <2>5 DEF Leave
    <3>2. Answered(<<>>)
      BY <1>4, <2>3, <2>5 DEF Answered, EndsAt
    <3>3. excMode = FALSE
      BY <1>4, <2>5
    <3>4. Nav!Next
      BY <1>1, <1>4, <3>1, <3>2, <3>3, Answers
    <3>5. <<>> \in Seq(Crumb)
      OBVIOUS
    <3>6. Shown'
      BY <1>1, <1>4, <2>2, <3>1, <3>5 DEF Shown
    <3>7. OnTheWay'
      BY <1>6, <1>10, <2>2, <3>1 DEF OnTheWay
    <3> QED  BY <1>1, <3>4, <3>6, <3>7 DEF NavInv
  <2> QED  BY <2>4, <2>5
<1>9. CASE TopFrame.via # "root"
  <2>1. Len(frames) > 1 /\ Len(b) \in Nat \ {0} /\ frames' # <<>>
    <3>1. Len(frames) # 1
      BY <1>2, <1>9 DEF TopFrame
    <3>2. Len(frames) > 1 /\ Len(b) \in Nat \ {0}
      BY <1>3, <3>1
    <3> QED  BY <1>3, <3>2, EmptySeq
  <2>2. /\ pop' = v /\ v = IF pop > 0 THEN pop - 1 ELSE 0
        /\ ctl' = IF TopFrame'.loop /\ pop' = 0 THEN "top" ELSE "ret"
        /\ UNCHANGED <<line, shown>>
    <3>1. v = IF pop > 0 THEN pop - 1 ELSE 0
      BY DEF v
    <3>2. TopFrame.via = "help" => v = 0
      BY <1>4, <3>1
    <3>3. (IF TopFrame.via = "help" THEN 0 ELSE v) = v
      BY <3>2
    <3>4. Continue(b[Len(b)], v)
      BY <1>1, <1>9, <3>3 DEF Leave
    <3>5. TopFrame' = b[Len(b)]
      BY <1>3 DEF TopFrame
    <3>6. pop' = v /\ ctl' = IF TopFrame'.loop /\ v = 0 THEN "top" ELSE "ret"
      BY <3>4, <3>5 DEF Continue
    <3>7. ctl' # "idle"
      BY <3>6
    <3>8. UNCHANGED <<line, shown>>
      BY <1>1, <3>7 DEF Leave
    <3> QED  BY <3>1, <3>6, <3>8
  <2>3. Path' \in Seq(Crumb) /\ Len(Path') = Len(frames') /\ Path' # <<>>
        /\ Path'[Len(Path')].prompt = TopFrame'.loop
    <3>1. Path \in Seq(Crumb) /\ Len(Path) = Len(frames) /\ Path # <<>>
      BY <1>3, <1>5, EmptySeq
    <3>2. /\ Path' \in Seq(Crumb) /\ Len(Path') = Len(frames) - 1
          /\ \A i \in 1..Len(frames)-1 : Path'[i] = Path[i]
      BY <1>5, <3>1, FrontIs
    <3>3. Path' # <<>>
      BY <1>3, <2>1, <3>2, EmptySeq
    <3>4. Len(b) \in 1..Len(frames)-1 /\ Len(b) \in 1..Len(frames)
      BY <1>3, <2>1
    <3>5. Path[Len(b)] = [menu |-> frames[Len(b)].menu, prompt |-> frames[Len(b)].loop]
      BY <1>2, <3>4, PathIs
    <3>6. TopFrame' = frames[Len(b)]
      BY <1>3, <3>4 DEF TopFrame
    <3>7. Path'[Len(b)].prompt = TopFrame'.loop
      BY <3>2, <3>4, <3>5, <3>6
    <3> QED  BY <1>3, <3>2, <3>3, <3>7
  <2>4. pop <= 1 => EndsAt(Nav!Trim(Path'))
    <3>1. pop <= 1 => (IF pop = 0 THEN 1 ELSE pop) = 1
      BY <1>4
    <3>2. pop <= 1 => Left = Path'
      BY <1>5, <3>1 DEF Left
    <3> QED  BY <1>4, <3>2
  <2>5. \A p : EndsAt(p)' = EndsAt(p)
    BY <2>2 DEF EndsAt, LineEnd
  <2>6. pop' = 0 => pop <= 1
    BY <1>4, <2>2
  <2>7. CASE TopFrame'.loop /\ pop' = 0
    <3>1. ctl' = "top"
      BY <2>2, <2>7
    <3>2. EndsAt(Path')
      <4>1. Nav!Trim(Path') = Path'
        BY <2>3, <2>7, TrimStays
      <4> QED  BY <2>4, <2>6, <2>7, <4>1
    <3>3. Answered(Path)'
      BY <1>1, <1>4, <2>2, <2>3, <3>2 DEF Answered, EndsAt, LineEnd
    <3>4. Shown'
      BY <1>1, <1>4, <2>2, <2>7, <3>1, <3>3 DEF Shown
    <3>5. OnTheWay'
      BY <1>6, <1>7, <1>10, <2>7, <3>1 DEF OnTheWay
    <3> QED  BY <1>1, <2>2, <3>4, <3>5 DEF NavInv, Unseen
  <2>8. CASE ~(TopFrame'.loop /\ pop' = 0)
    <3>1. ctl' = "ret"
      BY <2>2, <2>8
    <3>2. pop' \in Nat /\ pop' <= Len(frames')
      BY <1>3, <1>4, <2>1, <2>2
    <3>3. EndsAt(Nav!Trim(Left))'
      <4>1. Left' = SubSeq(Path', 1, Len(Path') - (IF pop' = 0 THEN 1 ELSE pop'))
        BY DEF Left
      <4>2. CASE pop' = 0
        <5>1. Nav!Trim(Path') = Nav!Trim(Front(Path'))
          BY <2>3, <2>8, <4>2, TrimDrops
        <5>2. Left' = Front(Path')
          BY <4>1, <4>2 DEF Front
        <5> QED  BY <2>4, <2>5, <2>6, <4>2, <5>1, <5>2
      <4>3. CASE pop' # 0
        <5>1. pop' = pop - 1 /\ pop > 1 /\ Len(Path') = Len(Path) - 1
          BY <1>3, <1>4, <1>5, <2>2, <2>3, <4>3
        <5>2. Left' = SubSeq(Path', 1, Len(Path) - pop) /\ Left = SubSeq(Path, 1, Len(Path) - pop)
          <6>1. Len(Path') - pop' = Len(Path) - pop
            BY <1>3, <1>4, <1>5, <5>1
          <6>2. pop # 0
            BY <1>4, <5>1
          <6> QED  BY <4>1, <4>3, <6>1, <6>2 DEF Left
        <5>3. SubSeq(Path', 1, Len(Path) - pop) = SubSeq(Path, 1, Len(Path) - pop)
          <6>1. ASSUME NEW p \in Seq(Crumb), NEW n \in 0..Len(p)-1
                PROVE  SubSeq(SubSeq(p, 1, Len(p)-1), 1, n) = SubSeq(p, 1, n)
            OBVIOUS
          <6>2. Len(Path) - pop \in 0..Len(Path)-1
            BY <1>3, <1>4, <1>5, <5>1
          <6> QED  BY <1>5, <6>1, <6>2
        <5> QED  BY <1>4, <2>5, <5>2, <5>3
      <4> QED  BY <4>2, <4>3
    <3>4. Shown'
      BY <1>1, <1>4, <2>2, <3>1, <3>2 DEF Shown
    <3>5. OnTheWay'
      <4>1. TopFrame'.via = "help" => pop' = 0
        <5> SUFFICES ASSUME TopFrame'.via = "help" PROVE pop' = 0
          OBVIOUS
        <5>1. Len(b) \in 1..Len(frames)-1 /\ Len(b)+1 = Len(frames)
          BY <1>3, <2>1
        <5>2. TopFrame' = frames[Len(b)]
          BY <1>3, <5>1 DEF TopFrame
        <5>3. TopFrame.via = "help"
          BY <1>4, <5>1, <5>2 DEF TopFrame
        <5> QED  BY <1>4, <2>2, <5>3
      <4> QED  BY <1>6, <1>7, <1>10, <2>8, <3>1, <3>2, <3>3, <4>1 DEF OnTheWay
    <3> QED  BY <1>1, <2>2, <3>4, <3>5 DEF NavInv, Unseen
  <2> QED  BY <2>7, <2>8
<1> QED  BY <1>8, <1>9
-----------------------------------------------------------------------------
LEMMA NavStarts ==
  ASSUME Init
  PROVE  NavInv /\ Nav!Init
<1>1. frames = <<>> /\ ctl = "idle" /\ line = NoLine /\ shown = [where |-> <<>>, exc |-> FALSE]
      /\ pop = 0 /\ excMode = FALSE
  BY DEF Init
<1>2. <<>> \in Seq(Crumb) /\ Len(<<>>) = 0
  BY EmptySeq
<1>3. Shown
  BY <1>1, <1>2 DEF Shown
<1>4. OnTheWay
  BY <1>1, <1>2 DEF OnTheWay
<1>5. Nav!Init
  BY <1>1 DEF Nav!Init
<1> QED  BY <1>3, <1>4, <1>5 DEF NavInv

(* A user who presses F10 inside the menus is shown nothing.                *)
LEMMA HastyUnseen ==
  ASSUME hasty, [Next]_vars
  PROVE  NavInv' /\ UNCHANGED NavVars
<1>1. hasty' = hasty
  BY DEF Next, Execute, vars, F08, F09, F10, TypeLine, Prompt, GoUp, ExitMenu, History, RunCommand,
         HelpMenu, EnterMenu, RefuseMenu, CrashCommand, SecondCrash, WildLookup, EndLoop, ExitLevel0,
         Reenter, Stay, Leave
<1> QED  BY <1>1 DEF NavInv, NavVars

(* Every step of the shell is one that MenuNav allows, or does not show.    *)
LEMMA NavSteps ==
  ASSUME IInv, NavInv, ~hasty, Next
  PROVE  NavInv' /\ (Unseen \/ Nav!Next)
<1>0. Shown /\ OnTheWay
  BY DEF NavInv
<1>1. CASE F08 \/ F09
  <2>1. UNCHANGED <<frames, level, ctl, args, pop, line, shown, excMode, hasty>>
    BY <1>1 DEF F08, F09
  <2>2. Path' = Path /\ TopFrame' = TopFrame
    BY <2>1 DEF Path, TopFrame
  <2>3. Shown'
    BY <1>0, <2>1, <2>2 DEF Shown, Answered, LineEnd
  <2>4. OnTheWay'
    BY <1>0, <2>1, <2>2 DEF OnTheWay, EndsAt, Left, LineEnd
  <2> QED  BY <2>1, <2>3, <2>4 DEF NavInv, Unseen
<1>2. CASE F10
  <2>1. ctl = "idle" /\ UNCHANGED <<line, shown, excMode, hasty>>
    BY <1>2 DEF F10
  <2>2. frames = <<>> /\ level = 0
    BY <2>1, EmptySeq DEF IInv, Calls, Straight, Following
  <2>3. DebugMain(<<>>)
    BY <1>2, <2>2 DEF F10
  <2>4. /\ shown = [where |-> <<>>, exc |-> FALSE] /\ line = NoLine /\ ~excMode /\ excMode \in BOOLEAN
        /\ shown \in [where: Seq(Crumb), exc: BOOLEAN] /\ line \in Lines \cup {NoLine}
    BY <1>0, <2>1 DEF Shown, IInv, Modes
  <2>5. UNCHANGED <<shown, line, hasty>> /\ excMode' \in BOOLEAN /\ ~excMode'
    BY <2>1, <2>4
  <2> QED  BY <2>3, <2>4, <2>5, RootShown DEF Unseen
<1>3. CASE TypeLine
  BY <1>3, LineTyped
<1>4. CASE Prompt
  BY <1>4, PromptShows
<1>5. CASE GoUp \/ ExitMenu \/ History \/ RunCommand \/ RefuseMenu
  BY <1>5, LineDone
<1>6. CASE HelpMenu
  BY <1>6, HelpOpened
<1>7. CASE EnterMenu
  BY <1>7, MenuOpened
<1>8. CASE CrashCommand
  <2>1. /\ ctl = "eval" /\ Words # <<>> /\ Words[1] # "x" /\ Words[1] # "help" /\ To = "crash"
        /\ ~excMode /\ excMode' = TRUE /\ DebugMain(<<>>) /\ UNCHANGED <<shown, line, hasty>>
    BY <1>8 DEF CrashCommand, Looks, Helps, Found, To
  <2>2. TopFrame.via # "help"
    BY <2>1, WordsLeft
  <2>3. LineEnd.end = "crash"
    BY <2>1, <2>2, LineFollowed
  <2>4. shown.exc = excMode /\ line # NoLine
        /\ shown \in [where: Seq(Crumb), exc: BOOLEAN] /\ line \in Lines \cup {NoLine}
    BY <1>0, <2>1 DEF Shown
  <2>5. Answered(Root)'
    BY <2>1, <2>3, <2>4 DEF Answered, LineEnd, Root
  <2>6. excMode' \in BOOLEAN
    BY <2>1
  <2> QED  BY <2>1, <2>4, <2>5, <2>6, RootShown DEF Unseen
<1>9. CASE Reenter
  <2>1. ctl = "reenter" /\ DebugMain(<<>>) /\ UNCHANGED <<shown, line, excMode, hasty>>
    BY <1>9 DEF Reenter
  <2>2. /\ line # NoLine /\ Answered(Root) /\ excMode \in BOOLEAN
        /\ shown \in [where: Seq(Crumb), exc: BOOLEAN] /\ line \in Lines \cup {NoLine}
    BY <1>0, <2>1 DEF Shown
  <2>3. Answered(Root)' /\ excMode' \in BOOLEAN /\ UNCHANGED <<shown, line, hasty>>
    BY <2>1, <2>2 DEF Answered, LineEnd, Root
  <2> QED  BY <2>1, <2>2, <2>3, RootShown DEF Unseen
<1>10. CASE SecondCrash \/ WildLookup
  <2>1. /\ UNCHANGED <<frames, level, args, pop, line, shown, excMode, hasty>>
        /\ ctl' \in {"killed", "wild"}
    BY <1>10 DEF SecondCrash, WildLookup
  <2>2. Shown'
    BY <1>0, <2>1 DEF Shown
  <2>3. OnTheWay'
    BY <1>0, <2>1 DEF OnTheWay
  <2> QED  BY <2>1, <2>2, <2>3 DEF NavInv, Unseen
<1>11. CASE EndLoop
  BY <1>11, CallReturned
<1>12. CASE ExitLevel0
  BY <1>12 DEF ExitLevel0, IInv, Straight
<1> QED
  BY <1>1, <1>2, <1>3, <1>4, <1>5, <1>6, <1>7, <1>8, <1>9, <1>10, <1>11, <1>12 DEF Next, Execute

LEMMA NavInvariant == Spec => []NavInv
<1>1. IInv /\ NavInv /\ [Next]_vars => NavInv'
  <2> SUFFICES ASSUME IInv, NavInv, [Next]_vars PROVE NavInv'
    OBVIOUS
  <2>1. CASE hasty
    BY <2>1, HastyUnseen
  <2>2. CASE ~hasty /\ Next
    BY <2>2, NavSteps
  <2>3. CASE ~hasty /\ UNCHANGED vars
    <3>1. UNCHANGED <<frames, level, ctl, args, pop, line, shown, excMode, hasty>>
      BY <2>3 DEF vars
    <3>2. Path' = Path /\ TopFrame' = TopFrame
      BY <3>1 DEF Path, TopFrame
    <3>3. Shown' /\ OnTheWay'
      BY <2>3, <3>1, <3>2 DEF NavInv, Shown, OnTheWay, Answered, EndsAt, Left, LineEnd
    <3> QED  BY <3>3 DEF NavInv
  <2> QED  BY <2>1, <2>2, <2>3
<1>2. Init => NavInv
  BY NavStarts
<1> QED  BY <1>1, <1>2, MenuInvariant, PTL DEF Spec

(* The recursion, whatever is typed and however deep it goes, leads where   *)
(* MenuNav says: every line extends, shortens or keeps the path as promised.*)
THEOREM RecursionIsThePath == Spec => ImplementsNav
<1>1. Init => Nav!Init
  BY NavStarts
<1>2. IInv /\ NavInv /\ [Next]_vars => [Nav!Next]_NavVars
  <2> SUFFICES ASSUME IInv, NavInv, [Next]_vars PROVE Nav!Next \/ UNCHANGED NavVars
    OBVIOUS
  <2>1. CASE hasty
    BY <2>1, HastyUnseen
  <2>2. CASE ~hasty /\ Next
    <3>1. Unseen \/ Nav!Next
      BY <2>2, NavSteps
    <3> QED  BY <3>1 DEF Unseen, NavVars
  <2>3. CASE UNCHANGED vars
    BY <2>3 DEF vars, NavVars
  <2> QED  BY <2>1, <2>2, <2>3
<1> QED  BY <1>1, <1>2, MenuInvariant, NavInvariant, PTL DEF Spec, ImplementsNav, Nav!Spec, NavVars
=============================================================================
