------------------------------- MODULE Bisect -------------------------------
(***************************************************************************)
(* The binary search the library writes out wherever it looks something up *)
(* in a sorted table: symbols by address and by name, line packets by      *)
(* address, symbols of shared libraries.  Entries are numbered from 0.     *)
(***************************************************************************)
EXTENDS Integers

\* Side(x) is negative when the search has to go on below entry x, positive
\* when it has to go on above it, and 0 when entry x is the one.  The loop
\* tests its bounds at its end only, so that entry 0 is examined even when
\* there is none.
Hit(n, Side(_)) ==
    LET search[b \in (0 .. n) \X (-1 .. n - 1)] ==
            LET l == b[1]
                r == b[2]
                x == (l + r) \div 2
            IN  IF l > r THEN -1
                ELSE CASE Side(x) < 0 -> search[<<l, x - 1>>]
                       [] Side(x) = 0 -> x
                       [] OTHER -> search[<<x + 1, r>>]
    IN  IF n = 0 THEN (IF Side(0) = 0 THEN 0 ELSE -1) ELSE search[<<0, n - 1>>]

\* The side of an address with respect to an entry that covers [from, to).
SideOf(addr, from, to) ==
    IF addr < from THEN -1 ELSE IF addr < to THEN 0 ELSE 1
=============================================================================
