------------------------------- MODULE MenuNav -------------------------------
(* What the debugger shell promises about where the user is: a path of menus *)
(* from the main one, which a line extends, shortens or leaves alone.  Words *)
(* typed on one line open the menus on the way without a prompt of their own;*)
(* coming back never stops at one of those.  The menus a line has opened stay*)
(* open only if its last word opens one too.                                 *)
EXTENDS MenuTables

CONSTANTS
  Lines,     \* command lines: a leading "/", and words
  NoLine,    \* no line typed
  MaxDepth   \* MAX_MENU_DEPTH

VARIABLES
  where,  \* the menus on the way, each with or without a prompt
  line,   \* the line typed and not answered yet
  exc     \* the shell was started by an exception

Root == <<[menu |-> "debugMain", prompt |-> TRUE]>>

(* The longest prefix that ends in a menu with a prompt.                     *)
Trim(path) ==
  LET ends == {i \in 1..Len(path) : path[i].prompt}
  IN IF ends = {} THEN <<>>
     ELSE SubSeq(path, 1, CHOOSE i \in ends : \A j \in ends : j <= i)

(* How far a line has got: the path so far, the menu on it where the next    *)
(* word is looked up, the words left, and how it has ended.                  *)
Start(path, l) ==
  [path |-> path, base |-> IF l.root THEN 1 ELSE Len(path), words |-> l.words, end |-> "on"]

(* The next word, and any ".." before it: it opens a menu, and the words left*)
(* are looked up in that one; or the line ends with it.                      *)
Go(s) ==
  LET base    == IF Ups(s.words) < s.base THEN s.base - Ups(s.words) ELSE 1
      rest    == Rest(s.words)
      to      == Resolve(s.path[base].menu, rest[1])
      Open    == [path  |-> Append(s.path, [menu |-> to, prompt |-> Len(rest) = 1]),
                  base  |-> Len(s.path) + 1,
                  words |-> Tail(rest),
                  end   |-> IF Len(rest) = 1 THEN "stay" ELSE "on"]
      Stay(p) == [s EXCEPT !.path = Trim(p), !.end = "stay"]
  IN IF rest = <<>> THEN Stay(SubSeq(s.path, 1, base))
     ELSE IF rest[1] = "x" THEN Stay(Front(s.path))
     ELSE IF to = "crash" THEN [s EXCEPT !.end = "crash"]
     ELSE IF to \in Menus /\ Len(s.path) < MaxDepth THEN Open
     ELSE Stay(s.path)

(* The way of a line; a word at each step at least, and none twice.          *)
Way(path, l) ==
  LET Step(s) == IF s.end = "on" THEN Go(s) ELSE s
      f[i \in 0..Len(l.words)+1] == IF i = 0 THEN Start(path, l) ELSE Step(f[i-1])
  IN f

End(path, l)     == Way(path, l)[Len(l.words)+1]
Crashes(path, l) == End(path, l).end = "crash"
After(path, l)   == End(path, l).path

Init == where = <<>> /\ line = NoLine /\ exc = FALSE

Open == where = <<>> /\ line = NoLine /\ where' = Root /\ UNCHANGED <<line, exc>>

Type == where # <<>> /\ line = NoLine /\ line' \in Lines /\ UNCHANGED <<where, exc>>

(* The exception shell is left only by starting it again.                    *)
Respond ==
  /\ line # NoLine
  /\ ~Crashes(where, line)
  /\ where' = IF exc /\ After(where, line) = <<>> THEN Root ELSE After(where, line)
  /\ line' = NoLine
  /\ UNCHANGED exc

(* A first exception opens the shell afresh; a second one is not survived.   *)
Crash ==
  /\ line # NoLine
  /\ Crashes(where, line)
  /\ ~exc
  /\ where' = Root /\ line' = NoLine /\ exc' = TRUE

Next == Open \/ Type \/ Respond \/ Crash

Spec == Init /\ [][Next]_<<where, line, exc>>
=============================================================================
