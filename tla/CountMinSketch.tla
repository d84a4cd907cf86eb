--------------------------- MODULE CountMinSketch ---------------------------
(***************************************************************************)
(* The sketch the master counts guarded reads in: Depth rows of Width      *)
(* counters that saturate at MaxCount (255 in the code) and are all halved *)
(* once Width * Depth increments have come in.                             *)
(*                                                                         *)
(* The hash of a key in a row is any function; `seen` is what an exact     *)
(* counter per key would hold that saturates and ages like the sketch.     *)
(***************************************************************************)
EXTENDS Integers, FiniteSets

CONSTANTS
    SketchKeys,
    Width, Depth,
    MaxCount,      \* u8::MAX
    Hashes         \* the hashes tried, row -> key -> column

Rows == 0..(Depth - 1)
Columns == 0..(Width - 1)

ASSUME SketchAssumption ==
    /\ Width \in Nat \ {0} /\ Depth \in Nat \ {0} /\ MaxCount \in Nat
    /\ Hashes \subseteq [Rows -> [SketchKeys -> Columns]]

VARIABLES hash, table, total_increments, seen

sketchVars == <<hash, table, total_increments, seen>>

SketchInit ==
    /\ hash \in Hashes
    /\ table = [i \in Rows |-> [c \in Columns |-> 0]]
    /\ total_increments = 0
    /\ seen = [k \in SketchKeys |-> 0]

\* Faulty: wraps around, as an unchecked u8 does.
wrapping_add(v) == IF v < MaxCount THEN v + 1 ELSE 0
saturating_add(v) == IF v < MaxCount THEN v + 1 ELSE v

halved(v) == v \div 2

raised(k) ==
    [i \in Rows |-> [c \in Columns |-> IF c = hash[i][k]
                                       THEN saturating_add(table[i][c]) ELSE table[i][c]]]

decay_due == total_increments + 1 >= Width * Depth

(* increment, with the decay it may end in.                                  *)
increment(k) ==
    LET exact == [seen EXCEPT ![k] = IF @ < MaxCount THEN @ + 1 ELSE @]
    IN  /\ IF decay_due
           THEN /\ table' = [i \in Rows |-> [c \in Columns |-> halved(raised(k)[i][c])]]
                /\ seen' = [j \in SketchKeys |-> halved(exact[j])]
                /\ total_increments' = 0
           ELSE /\ table' = raised(k) /\ seen' = exact
                /\ total_increments' = total_increments + 1
        /\ UNCHANGED hash

(* The least of the rows' counters.                                          *)
estimates(k) == {table[i][hash[i][k]] : i \in Rows}
count(k) == CHOOSE v \in estimates(k) : \A w \in estimates(k) : v <= w

SketchNext == \E k \in SketchKeys : increment(k)

SketchSpec == SketchInit /\ [][SketchNext]_sketchVars

-----------------------------------------------------------------------------
SketchTypeOK ==
    /\ hash \in [Rows -> [SketchKeys -> Columns]]
    /\ table \in [Rows -> [Columns -> 0..MaxCount]]
    /\ total_increments \in 0..(Width * Depth - 1)
    /\ seen \in [SketchKeys -> 0..MaxCount]

(* The estimate never under-counts a key, however its counters are shared,   *)
(* saturate and are halved: it is at least what the exact counter holds.     *)
NeverUnderCounts == \A k \in SketchKeys : count(k) >= seen[k]
=============================================================================
