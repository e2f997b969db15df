----------------------------- MODULE MCRegionMap -----------------------------
(* Memory layouts for model checking RegionMap: text, a heap, a guard    *)
(* page and a region below the text, in an address space of a dozen units.  *)
EXTENDS RegionMap, TLC

CONSTANTS t1, t2

R(b, e, o) == [beg |-> b, end |-> e, opt |-> o]

Low    == R(1, 2, "r")
Text   == R(2, 4, "rx")
Heap   == R(10, 11, "r")
Sealed == R(10, 11, "none")
Large  == R(10, 12, "r")

MCThreads == {t1, t2}
MCAddrs   == [t \in MCThreads |-> IF t = t1 THEN {3, 10} ELSE {10}]
Loading   == {<<Text, Heap>>, <<Text, Sealed>>, <<Low, Text, Heap>>, <<Low, Text, Large>>, <<Text, Large>>}
Loads     == {<<<<Text, Heap>>, <<Text, Sealed>>>>,
              <<<<Text, Heap>>, <<Low, Text, Heap>>>>,
              <<<<Low, Text, Large>>, <<Text, Large>>>>}
=============================================================================
