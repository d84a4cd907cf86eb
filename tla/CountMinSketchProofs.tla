------------------------ MODULE CountMinSketchProofs ------------------------
(***************************************************************************)
(* The sketch never under-counts, for any width, depth, hash, saturation   *)
(* value and set of keys.  The inductive invariant says it of every row:   *)
(* each row's counter of a key is at least the exact count.                *)
(***************************************************************************)
EXTENDS CountMinSketch, LeastNatural, TLAPS

EveryRowCovers ==
    \A i \in Rows : \A k \in SketchKeys : table[i][hash[i][k]] >= seen[k]

SketchInv == SketchTypeOK /\ EveryRowCovers

(* Halving and saturating addition keep order and range.                     *)
LEMMA CounterArithmetic ==
    ASSUME NEW v \in 0..MaxCount, NEW w \in 0..MaxCount, v >= w
    PROVE  /\ halved(v) \in 0..MaxCount /\ halved(w) \in 0..MaxCount
           /\ halved(v) >= halved(w)
           /\ saturating_add(v) \in 0..MaxCount
           /\ saturating_add(v) >= saturating_add(w)
           /\ saturating_add(v) >= w
BY SketchAssumption DEF halved, saturating_add

(* The empty sketch covers every key.                                        *)
LEMMA SketchInitInv == SketchInit => SketchInv
<1> SUFFICES ASSUME SketchInit PROVE SketchInv
  OBVIOUS
<1>1. Width * Depth \in Nat \ {0}
  BY SketchAssumption
<1>2. SketchTypeOK
  <2>1. hash \in [Rows -> [SketchKeys -> Columns]]
    BY SketchAssumption DEF SketchInit
  <2>2. 0 \in 0..MaxCount /\ 0 \in 0..(Width * Depth - 1)
    BY <1>1, SketchAssumption
  <2> QED BY <2>1, <2>2 DEF SketchInit, SketchTypeOK
<1>3. \A i \in Rows : \A k \in SketchKeys : hash[i][k] \in Columns
  BY <1>2 DEF SketchTypeOK
<1>4. EveryRowCovers
  BY <1>3 DEF SketchInit, EveryRowCovers
<1> QED BY <1>2, <1>4 DEF SketchInv

(* What an increment makes of the table and of the exact counts, before any  *)
(* decay, still covers.                                                      *)
LEMMA RaisedCovers ==
    ASSUME SketchInv, NEW k \in SketchKeys,
           NEW exact, exact = [seen EXCEPT ![k] = IF @ < MaxCount THEN @ + 1 ELSE @]
    PROVE  /\ raised(k) \in [Rows -> [Columns -> 0..MaxCount]]
           /\ exact \in [SketchKeys -> 0..MaxCount]
           /\ \A i \in Rows : \A j \in SketchKeys : raised(k)[i][hash[i][j]] >= exact[j]
<1>1. \A i \in Rows : \A c \in Columns :
         /\ table[i][c] \in 0..MaxCount
         /\ saturating_add(table[i][c]) \in 0..MaxCount
  BY CounterArithmetic DEF SketchInv, SketchTypeOK
<1>2. raised(k) \in [Rows -> [Columns -> 0..MaxCount]]
  BY <1>1 DEF raised
<1>3. exact \in [SketchKeys -> 0..MaxCount]
  BY SketchAssumption DEF SketchInv, SketchTypeOK
<1>4. ASSUME NEW i \in Rows, NEW j \in SketchKeys
      PROVE  raised(k)[i][hash[i][j]] >= exact[j]
  <2>1. /\ hash[i][j] \in Columns /\ hash[i][k] \in Columns
        /\ table[i][hash[i][j]] \in 0..MaxCount /\ seen[j] \in 0..MaxCount
        /\ table[i][hash[i][j]] >= seen[j]
    BY DEF SketchInv, SketchTypeOK, EveryRowCovers
  <2>2. exact[j] = IF j = k THEN saturating_add(seen[j]) ELSE seen[j]
    BY DEF SketchInv, SketchTypeOK, saturating_add
  <2>3. raised(k)[i][hash[i][j]] =
          IF hash[i][j] = hash[i][k] THEN saturating_add(table[i][hash[i][j]])
                                     ELSE table[i][hash[i][j]]
    BY <2>1 DEF raised
  <2> QED BY <2>1, <2>2, <2>3, CounterArithmetic
<1> QED BY <1>2, <1>3, <1>4

(* An increment, with or without a decay behind it, keeps every row covering.*)
LEMMA IncrementInv ==
    ASSUME SketchInv, NEW k \in SketchKeys, increment(k)
    PROVE  SketchInv'
<1> DEFINE exact == [seen EXCEPT ![k] = IF @ < MaxCount THEN @ + 1 ELSE @]
           up == raised(k)
<1>1. /\ up \in [Rows -> [Columns -> 0..MaxCount]]
      /\ exact \in [SketchKeys -> 0..MaxCount]
      /\ \A i \in Rows : \A j \in SketchKeys : up[i][hash[i][j]] >= exact[j]
  BY RaisedCovers
<1>2. /\ hash' = hash /\ hash \in [Rows -> [SketchKeys -> Columns]]
      /\ \A i \in Rows : \A j \in SketchKeys : hash[i][j] \in Columns
  BY DEF increment, SketchInv, SketchTypeOK
<1>3. total_increments \in Nat /\ Width * Depth \in Nat \ {0}
  BY SketchAssumption DEF SketchInv, SketchTypeOK
<1>4. CASE decay_due
  <2>1. /\ table' = [i \in Rows |-> [c \in Columns |-> halved(up[i][c])]]
        /\ seen' = [j \in SketchKeys |-> halved(exact[j])]
        /\ total_increments' = 0
    BY <1>4 DEF increment
  <2> HIDE DEF exact, up
  <2>2. \A v \in 0..MaxCount : halved(v) \in 0..MaxCount
    BY SketchAssumption DEF halved
  <2>3. SketchTypeOK'
    BY <1>1, <1>2, <1>3, <2>1, <2>2 DEF SketchTypeOK
  <2>4. ASSUME NEW i \in Rows, NEW j \in SketchKeys
        PROVE  table'[i][hash'[i][j]] >= seen'[j]
    <3>1. /\ up[i][hash[i][j]] \in 0..MaxCount /\ exact[j] \in 0..MaxCount
          /\ up[i][hash[i][j]] >= exact[j]
      BY <1>1, <1>2
    <3>2. halved(up[i][hash[i][j]]) >= halved(exact[j])
      BY <3>1, CounterArithmetic
    <3> QED BY <1>2, <2>1, <3>2
  <2> QED BY <2>3, <2>4 DEF SketchInv, EveryRowCovers
<1>5. CASE ~decay_due
  <2>1. table' = up /\ seen' = exact /\ total_increments' = total_increments + 1
    BY <1>5 DEF increment
  <2> HIDE DEF exact, up
  <2>2. total_increments' \in 0..(Width * Depth - 1)
    BY <1>3, <1>5, <2>1 DEF decay_due
  <2>3. SketchTypeOK'
    BY <1>1, <1>2, <2>1, <2>2 DEF SketchTypeOK
  <2>4. EveryRowCovers'
    BY <1>1, <1>2, <2>1 DEF EveryRowCovers
  <2> QED BY <2>3, <2>4 DEF SketchInv
<1> QED BY <1>4, <1>5

(* Where every row covers, so does the least of them.                        *)
LEMMA CoveringCounts == SketchInv => NeverUnderCounts
<1> SUFFICES ASSUME SketchInv, NEW k \in SketchKeys PROVE count(k) >= seen[k]
  BY DEF NeverUnderCounts
<1>1. estimates(k) \in SUBSET Nat /\ estimates(k) # {}
  <2>1. 0 \in Rows
    BY SketchAssumption DEF Rows
  <2>2. \A i \in Rows : table[i][hash[i][k]] \in Nat
    BY SketchAssumption DEF SketchInv, SketchTypeOK
  <2> QED BY <2>1, <2>2 DEF estimates
<1>2. count(k) \in estimates(k)
  BY <1>1, LeastExists DEF count
<1>3. PICK i \in Rows : count(k) = table[i][hash[i][k]]
  BY <1>2 DEF estimates
<1> QED BY <1>3 DEF SketchInv, EveryRowCovers

(* The estimate of a key is never below its exact count: for every width,    *)
(* depth, hash, saturation value and set of keys.                            *)
THEOREM SketchNeverUnderCounts == SketchSpec => []NeverUnderCounts
<1>1. SketchInv /\ [SketchNext]_sketchVars => SketchInv'
  <2> SUFFICES ASSUME SketchInv, [SketchNext]_sketchVars PROVE SketchInv'
    OBVIOUS
  <2>1. CASE SketchNext
    BY <2>1, IncrementInv DEF SketchNext
  <2>2. CASE UNCHANGED sketchVars
    BY <2>2 DEF sketchVars, SketchInv, SketchTypeOK, EveryRowCovers
  <2> QED BY <2>1, <2>2
<1> QED BY <1>1, SketchInitInv, CoveringCounts, PTL DEF SketchSpec
=============================================================================
