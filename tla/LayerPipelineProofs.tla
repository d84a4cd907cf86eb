------------------------ MODULE LayerPipelineProofs ------------------------
(***************************************************************************)
(* The reorder gate of the layer pipeline, for every transfer, depth and   *)
(* order in which ops end, fail and are joined.                            *)
(***************************************************************************)
EXTENDS LayerPipeline, LeastNatural, SequenceTheorems, TLAPS

\* A piece is launched once: it is in flight, joinable or joined, and the bytes of
\* those that succeeded, and of no others, have been moved.
TasksExact ==
    /\ \A i \in running : i < next_idx /\ i \notin landed /\ i \notin first_err
    /\ \A t \in finished :
         /\ t.piece < next_idx /\ t.piece \notin running
         /\ t.ok <=> t.piece \in landed
         /\ t.piece \notin first_err
    /\ \A t, u \in finished : t.piece = u.piece => t = u
    /\ \A i \in landed \cup first_err : i < next_idx
    /\ \A i \in first_err : i \notin landed

\* What the gate has let pass, and what it holds back, has landed.
GateExact ==
    /\ Len(notified) = watermark
    /\ \A k \in 1..watermark : notified[k] = k - 1
    /\ \A i \in 0..(watermark - 1) : i \in landed
    /\ done \subseteq landed

PipelineInv == PipelineTypeOK /\ TasksExact /\ GateExact

(* The job of a state is one of the jobs, with a natural number of pieces.   *)
LEMMA JobType ==
    ASSUME NEW j \in Jobs
    PROVE  /\ Len(j.pieces) \in Nat /\ j.max \in Nat \ {0} /\ j.notify \in BOOLEAN
           /\ primed(j) \in 0..Len(j.pieces)
<1>1. j \in [pieces : Seq([off : Nat, len : Nat]), total : Nat,
              max : Nat \ {0}, notify : BOOLEAN]
  BY JobAssumption
<1>2. Len(j.pieces) \in Nat /\ j.max \in Nat \ {0} /\ j.notify \in BOOLEAN
  BY <1>1
<1> QED BY <1>2 DEF primed

(* gate stops at the first layer that has not landed, and there is one: the  *)
(* layer past the last.                                                      *)
LEMMA GateFinds ==
    ASSUME PipelineTypeOK, NEW d \in SUBSET Pieces
    PROVE  /\ gate(d) \in watermark..Count
           /\ \A i \in watermark..(gate(d) - 1) : i \in d
<1> DEFINE open == {w \in watermark..Count : w \notin d}
<1>1. Count \in Nat /\ watermark \in 0..Count
  BY JobType DEF PipelineTypeOK, Count
<1>2. open \in SUBSET Nat /\ Count \in open
  BY <1>1 DEF Pieces
<1>3. PICK v \in open : \A w \in open : v <= w
  BY <1>2, LeastExists
<1>4. /\ v \in watermark..Count /\ v \notin d
      /\ \A i \in watermark..(v - 1) : i \in d
  BY <1>1, <1>3
<1> QED BY <1>4 DEF gate

(* The pipeline starts with the first pieces in flight and the gate shut.    *)
LEMMA PipelineInitInv == PipelineInit => PipelineInv
<1> SUFFICES ASSUME PipelineInit PROVE PipelineInv
  OBVIOUS
<1>1. Count \in Nat /\ primed(job) \in 0..Count
  BY JobType DEF PipelineInit, Count
<1>2. PipelineTypeOK
  BY <1>1 DEF PipelineInit, PipelineTypeOK, Pieces, Finished
<1>3. TasksExact /\ GateExact
  BY <1>1 DEF PipelineInit, TasksExact, GateExact
<1> QED BY <1>2, <1>3 DEF PipelineInv

(* An op that ends becomes joinable, and its bytes count if it succeeded.    *)
LEMMA TaskEndsInv ==
    ASSUME PipelineInv, NEW i \in running, NEW ok \in BOOLEAN, task_ends(i, ok)
    PROVE  PipelineInv'
<1>1. Count' = Count /\ Pieces' = Pieces /\ Finished' = Finished
  BY DEF task_ends, Count, Pieces, Finished
<1>2. [piece |-> i, ok |-> ok] \in Finished
  BY DEF PipelineInv, PipelineTypeOK, Finished
<1>3. PipelineTypeOK'
  BY <1>1, <1>2 DEF PipelineInv, PipelineTypeOK, task_ends
<1>4. next_idx \in Nat /\ Pieces \subseteq Int
  BY JobType DEF PipelineInv, PipelineTypeOK, Count, Pieces
<1>5. TasksExact'
  <2>1. \A j \in running' : j < next_idx /\ j \notin landed' /\ j \notin first_err
    BY DEF PipelineInv, TasksExact, task_ends
  <2>2. ASSUME NEW t \in finished'
        PROVE  /\ t.piece < next_idx /\ t.piece \notin running'
               /\ t.ok <=> t.piece \in landed'
               /\ t.piece \notin first_err
    <3>1. CASE t \in finished
      BY <3>1 DEF PipelineInv, TasksExact, task_ends
    <3>2. CASE t = [piece |-> i, ok |-> ok]
      BY <3>2 DEF PipelineInv, TasksExact, task_ends
    <3> QED BY <3>1, <3>2 DEF task_ends
  <2>3. \A t, u \in finished' : t.piece = u.piece => t = u
    BY DEF PipelineInv, TasksExact, task_ends
  <2>4. \A j \in landed' \cup first_err : j < next_idx
    BY DEF PipelineInv, TasksExact, task_ends
  <2>5. \A j \in first_err : j \notin landed'
    BY DEF PipelineInv, TasksExact, task_ends
  <2> QED BY <2>1, <2>2, <2>3, <2>4, <2>5 DEF TasksExact, task_ends
<1>6. GateExact'
  BY DEF PipelineInv, GateExact, task_ends
<1> QED BY <1>3, <1>5, <1>6 DEF PipelineInv

\* The parts of a join: what is held back, the error and the watermark.
held(t) == IF t.ok /\ job.notify THEN done \cup {t.piece} ELSE done
error(t) == IF t.ok \/ first_err # {} THEN first_err ELSE {t.piece}
mark(t) == IF t.ok /\ first_err = {} THEN gate(held(t)) ELSE watermark

(* A join in terms of its parts.                                             *)
LEMMA JoinParts ==
    ASSUME PipelineInv, NEW t \in finished, join(t)
    PROVE  /\ finished' = finished \ {t} /\ done' = held(t) \ (watermark..(mark(t) - 1))
           /\ watermark' = mark(t) /\ first_err' = error(t)
           /\ notified' = notified \o [k \in 1..(mark(t) - watermark) |-> watermark + k - 1]
           /\ \/ error(t) = {} /\ next_idx < Count
                 /\ running' = running \cup {next_idx} /\ next_idx' = next_idx + 1
              \/ ~(error(t) = {} /\ next_idx < Count)
                 /\ running' = running /\ next_idx' = next_idx
           /\ job' = job /\ landed' = landed /\ result' = result
<1>1. /\ finished' = finished \ {t} /\ done' = held(t) \ (watermark..(mark(t) - 1))
      /\ watermark' = mark(t) /\ first_err' = error(t)
      /\ notified' = notified \o [k \in 1..(mark(t) - watermark) |-> watermark + k - 1]
      /\ job' = job /\ landed' = landed /\ result' = result
  BY DEF join, held, error, mark
<1>2. CASE may_launch(error(t))
  <2>1. running' = running \cup launched /\ next_idx' = next_idx + 1
    BY <1>2 DEF join, error, launched
  <2> QED BY <1>1, <1>2, <2>1 DEF may_launch, launched
<1>3. CASE ~may_launch(error(t))
  <2>1. running' = running /\ next_idx' = next_idx
    BY <1>3 DEF join, error
  <2> QED BY <1>1, <1>3, <2>1 DEF may_launch
<1> QED BY <1>2, <1>3

(* The watermark moves up to the first layer that has not landed.            *)
LEMMA MarkAdvances ==
    ASSUME PipelineInv, NEW t \in finished
    PROVE  /\ held(t) \in SUBSET Pieces /\ held(t) \subseteq landed
           /\ mark(t) \in watermark..Count
           /\ \A i \in 0..(mark(t) - 1) : i \in landed
<1>1. /\ Count \in Nat /\ watermark \in 0..Count
  BY JobType DEF PipelineInv, PipelineTypeOK, Count
<1>2. held(t) \in SUBSET Pieces /\ held(t) \subseteq landed
  BY DEF PipelineInv, PipelineTypeOK, TasksExact, GateExact, held, Finished
<1>3. mark(t) \in watermark..Count /\ \A i \in watermark..(mark(t) - 1) : i \in landed
  <2>1. CASE t.ok /\ first_err = {}
    BY <1>2, <2>1, GateFinds DEF PipelineInv, mark
  <2>2. CASE ~(t.ok /\ first_err = {})
    BY <1>1, <2>2 DEF mark
  <2> QED BY <2>1, <2>2
<1>4. \A i \in 0..(mark(t) - 1) : i \in 0..(watermark - 1) \/ i \in watermark..(mark(t) - 1)
  BY <1>1, <1>3
<1> QED BY <1>2, <1>3, <1>4 DEF PipelineInv, GateExact

(* The calls of on_layer_ready a join makes carry on from the last one.      *)
LEMMA NotifiedGrows ==
    ASSUME NEW s \in Seq(Int), NEW v \in Nat, NEW w \in Nat, v <= w, Len(s) = v,
           \A k \in 1..v : s[k] = k - 1
    PROVE  LET more == [k \in 1..(w - v) |-> v + k - 1]
           IN  /\ s \o more \in Seq(Int) /\ Len(s \o more) = w
               /\ \A k \in 1..w : (s \o more)[k] = k - 1
<1> DEFINE more == [k \in 1..(w - v) |-> v + k - 1]
<1>1. more \in Seq(Int) /\ Len(more) = w - v
  <2>1. w - v \in Nat
    OBVIOUS
  <2>2. more \in [1..(w - v) -> Int]
    BY <2>1
  <2>3. more \in Seq(Int)
    BY <2>1, <2>2, SeqDef
  <2>4. Len(more) \in Nat /\ 1..Len(more) = 1..(w - v)
    BY <2>2, <2>3, LenProperties
  <2> HIDE DEF more
  <2>5. Len(more) = w - v
    BY <2>1, <2>4
  <2> QED BY <2>3, <2>5
<1> HIDE DEF more
<1>2. s \o more \in Seq(Int) /\ Len(s \o more) = w
  BY <1>1, ConcatProperties
<1>3. ASSUME NEW k \in 1..w PROVE (s \o more)[k] = k - 1
  <2>1. (s \o more)[k] = IF k <= v THEN s[k] ELSE more[k - v]
    BY <1>1, ConcatProperties
  <2>2. CASE k <= v
    BY <2>1, <2>2
  <2>3. CASE v < k
    BY <2>1, <2>3 DEF more
  <2>4. k <= v \/ v < k
    OBVIOUS
  <2> QED BY <2>2, <2>3, <2>4, Zenon
<1> QED BY <1>2, <1>3 DEF more

(* A join keeps the counters and sets in their types.                        *)
LEMMA JoinType ==
    ASSUME PipelineInv, NEW t \in finished, join(t)
    PROVE  PipelineTypeOK'
<1>1. /\ Count \in Nat /\ watermark \in 0..Count /\ next_idx \in 0..Count
      /\ Count' = Count /\ Pieces' = Pieces /\ Finished' = Finished
  BY JobType DEF PipelineInv, PipelineTypeOK, join, Count, Pieces, Finished
<1>2. running' \subseteq Pieces /\ next_idx' \in 0..Count
  <2>1. running \subseteq Pieces
    BY DEF PipelineInv, PipelineTypeOK
  <2>2. CASE error(t) = {} /\ next_idx < Count
    <3>1. running' = running \cup {next_idx} /\ next_idx' = next_idx + 1
      BY <2>2, JoinParts
    <3> QED BY <1>1, <2>1, <2>2, <3>1 DEF Pieces
  <2>3. CASE ~(error(t) = {} /\ next_idx < Count)
    <3>1. running' = running /\ next_idx' = next_idx
      BY <2>3, JoinParts
    <3> QED BY <1>1, <2>1, <3>1
  <2> QED BY <2>2, <2>3
<1>3. first_err' \subseteq Pieces
  BY JoinParts DEF PipelineInv, PipelineTypeOK, error, Finished
<1>4. watermark' \in 0..Count /\ done' \subseteq Pieces
  BY <1>1, JoinParts, MarkAdvances
<1>5. notified' \in Seq(Pieces)
  <2> DEFINE more == [k \in 1..(mark(t) - watermark) |-> watermark + k - 1]
  <2>1. more \in Seq(Pieces)
    <3>1. mark(t) - watermark \in Nat
      BY <1>1, MarkAdvances
    <3>2. \A k \in 1..(mark(t) - watermark) : watermark + k - 1 \in Pieces
      BY <1>1, MarkAdvances DEF Pieces
    <3>3. more \in [1..(mark(t) - watermark) -> Pieces]
      BY <3>2
    <3> QED BY <3>1, <3>3, SeqDef
  <2> HIDE DEF more
  <2>2. notified \in Seq(Pieces)
    BY DEF PipelineInv, PipelineTypeOK
  <2>3. notified \o more \in Seq(Pieces)
    BY <2>1, <2>2, ConcatProperties
  <2> QED BY <2>3, JoinParts DEF more
<1> QED
  BY <1>1, <1>2, <1>3, <1>4, <1>5, JoinParts DEF PipelineInv, PipelineTypeOK

(* A join keeps track of its tasks: the piece it launches is a new one, and  *)
(* a failed one it takes the error of never lands.                           *)
LEMMA JoinTasks ==
    ASSUME PipelineInv, NEW t \in finished, join(t)
    PROVE  TasksExact'
<1>1. /\ next_idx \in Int /\ next_idx' \in Int /\ next_idx <= next_idx'
      /\ \A i \in running' : i \in running \/ (i = next_idx /\ next_idx' = next_idx + 1)
      /\ error(t) # {} => running' = running
  <2>1. next_idx \in Int
    BY JobType DEF PipelineInv, PipelineTypeOK, Count
  <2>2. CASE error(t) = {} /\ next_idx < Count
    <3>1. running' = running \cup {next_idx} /\ next_idx' = next_idx + 1
      BY <2>2, JoinParts
    <3> QED BY <2>1, <2>2, <3>1
  <2>3. CASE ~(error(t) = {} /\ next_idx < Count)
    <3>1. running' = running /\ next_idx' = next_idx
      BY <2>3, JoinParts
    <3> QED BY <2>1, <3>1
  <2> QED BY <2>2, <2>3
<1>2. Pieces \subseteq Int /\ running \subseteq Pieces /\ landed \subseteq Pieces
  BY JobType DEF PipelineInv, PipelineTypeOK, Count, Pieces
<1>3. \A i \in error(t) : i \in first_err \/ (i = t.piece /\ ~t.ok)
  BY DEF error
<1>4. finished' \subseteq finished /\ t \notin finished' /\ landed' = landed
      /\ first_err' = error(t)
  BY JoinParts
<1>5. \A i \in error(t) : i \in Int /\ i < next_idx /\ i \notin landed /\ i \notin running
  BY <1>2, <1>3 DEF PipelineInv, TasksExact, PipelineTypeOK, Finished
<1>6. ASSUME NEW i \in running'
      PROVE  i < next_idx' /\ i \notin landed' /\ i \notin first_err'
  <2>1. CASE i \in running
    BY <1>1, <1>2, <1>4, <1>5, <2>1 DEF PipelineInv, TasksExact
  <2>2. CASE i = next_idx /\ next_idx' = next_idx + 1
    BY <1>1, <1>2, <1>4, <1>5, <2>2 DEF PipelineInv, TasksExact
  <2> QED BY <1>1, <2>1, <2>2
<1>7. ASSUME NEW u \in finished'
      PROVE  /\ u.piece < next_idx' /\ u.piece \notin running'
             /\ u.ok <=> u.piece \in landed'
             /\ u.piece \notin first_err'
  <2>1. /\ u \in finished /\ u.piece \in Int
        /\ u.piece < next_idx /\ u.piece \notin running
        /\ u.ok <=> u.piece \in landed
        /\ u.piece \notin first_err
    <3>1. u \in finished /\ u \in Finished
      BY <1>4 DEF PipelineInv, PipelineTypeOK
    <3>2. u.piece \in Int
      BY <1>2, <3>1 DEF Finished
    <3> QED BY <3>1, <3>2 DEF PipelineInv, TasksExact
  <2>2. u.piece # t.piece
    BY <1>4, <2>1 DEF PipelineInv, TasksExact
  <2>3. u.piece < next_idx' /\ u.piece \notin running'
    BY <1>1, <2>1
  <2>4. u.piece \notin first_err'
    BY <1>3, <1>4, <2>1, <2>2
  <2> QED BY <1>4, <2>1, <2>3, <2>4
<1>8. \A u, x \in finished' : u.piece = x.piece => u = x
  BY <1>4 DEF PipelineInv, TasksExact
<1>9. \A i \in landed' \cup first_err' : i < next_idx'
  BY <1>1, <1>2, <1>4, <1>5 DEF PipelineInv, TasksExact
<1>10. \A i \in first_err' : i \notin landed'
  BY <1>4, <1>5
<1> QED BY <1>6, <1>7, <1>8, <1>9, <1>10 DEF TasksExact

(* A join lets pass the layers that have landed in front of the gate, in     *)
(* order.                                                                    *)
LEMMA JoinGate ==
    ASSUME PipelineInv, NEW t \in finished, join(t)
    PROVE  GateExact'
<1>1. /\ watermark \in Nat /\ mark(t) \in Nat /\ watermark <= mark(t)
      /\ notified \in Seq(Int)
  <2>1. Count \in Nat /\ watermark \in 0..Count /\ Pieces \subseteq Int
    BY JobType DEF PipelineInv, PipelineTypeOK, Count, Pieces
  <2>2. notified \in Seq(Pieces)
    BY DEF PipelineInv, PipelineTypeOK
  <2>3. notified \in Seq(Int)
    BY <2>1, <2>2, SeqMonotonic
  <2> QED BY <2>1, <2>3, MarkAdvances
<1>2. Len(notified) = watermark /\ \A k \in 1..watermark : notified[k] = k - 1
  BY DEF PipelineInv, GateExact
<1>3. Len(notified') = mark(t) /\ \A k \in 1..mark(t) : notified'[k] = k - 1
  <2> DEFINE more == [k \in 1..(mark(t) - watermark) |-> watermark + k - 1]
  <2>1. /\ Len(notified \o more) = mark(t)
        /\ \A k \in 1..mark(t) : (notified \o more)[k] = k - 1
    BY <1>1, <1>2, NotifiedGrows
  <2>2. notified' = notified \o more
    BY JoinParts
  <2> HIDE DEF more
  <2> QED BY <2>1, <2>2
<1>4. watermark' = mark(t) /\ landed' = landed /\ done' \subseteq held(t)
  BY JoinParts
<1> QED BY <1>3, <1>4, MarkAdvances DEF GateExact

(* The invariant is inductive.                                               *)
LEMMA PipelineStepInv ==
    ASSUME PipelineInv, [PipelineNext]_pipelineVars
    PROVE  PipelineInv'
<1>1. CASE \E i \in running, ok \in BOOLEAN : task_ends(i, ok)
  BY <1>1, TaskEndsInv
<1>2. CASE \E t \in finished : join(t)
  BY <1>2, JoinType, JoinTasks, JoinGate DEF PipelineInv
<1>3. CASE returns
  BY <1>3 DEF returns, PipelineInv, PipelineTypeOK, TasksExact, GateExact, Count, Pieces,
              Finished
<1>4. CASE UNCHANGED pipelineVars
  BY <1>4 DEF pipelineVars, PipelineInv, PipelineTypeOK, TasksExact, GateExact, Count,
              Pieces, Finished
<1> QED BY <1>1, <1>2, <1>3, <1>4 DEF PipelineNext

(* What has landed has not failed, so no layer at or past a failed one was   *)
(* notified.                                                                 *)
LEMMA InvNotifiedInOrder == PipelineInv => NotifiedInOrder
<1> SUFFICES ASSUME PipelineInv PROVE NotifiedInOrder
  OBVIOUS
<1>1. watermark \in Nat /\ Pieces \subseteq Nat /\ first_err \subseteq Pieces
  BY JobType DEF PipelineInv, PipelineTypeOK, Count, Pieces
<1>2. Len(notified) = watermark
  BY DEF PipelineInv, GateExact
<1>3. ASSUME NEW k \in 1..watermark PROVE notified[k] = k - 1 /\ k - 1 \in landed
  <2>1. k - 1 \in 0..(watermark - 1)
    BY <1>1
  <2> QED BY <2>1 DEF PipelineInv, GateExact
<1>4. ASSUME NEW i \in first_err PROVE watermark <= i
  <2>1. i \in Nat /\ i \notin landed
    BY <1>1 DEF PipelineInv, TasksExact
  <2>2. i \notin 0..(watermark - 1)
    BY <2>1 DEF PipelineInv, GateExact
  <2> QED BY <1>1, <2>1, <2>2
<1> QED BY <1>2, <1>3, <1>4 DEF NotifiedInOrder

(* run_layers_with_notify tells the consumer of layers 0, 1, 2, ..., once    *)
(* each, in order, only of layers that have landed and of none at or past a  *)
(* failed one: for every list of layers, every depth, and every order in     *)
(* which ops end, fail and are joined.                                       *)
THEOREM PipelineNotifiesInOrder == PipelineSpec => []NotifiedInOrder
<1>1. PipelineInv /\ [PipelineNext]_pipelineVars => PipelineInv'
  BY PipelineStepInv
<1> QED BY <1>1, PipelineInitInv, InvNotifiedInOrder, PTL DEF PipelineSpec

(* After the first error nothing is launched or notified and the error stays *)
(* the first, again for every job.                                           *)
THEOREM PipelineStopsAtError == PipelineSpec => NothingAfterError
<1> DEFINE Stops ==
      first_err # {} =>
         /\ next_idx' = next_idx /\ notified' = notified
         /\ running' \subseteq running /\ first_err' = first_err
<1>1. ASSUME PipelineInv, [PipelineNext]_pipelineVars PROVE [Stops]_pipelineVars
  <2> SUFFICES ASSUME first_err # {}, PipelineNext PROVE Stops
    BY <1>1
  <2>1. CASE \E i \in running, ok \in BOOLEAN : task_ends(i, ok)
    BY <2>1 DEF task_ends
  <2>2. CASE returns
    BY <2>2 DEF returns
  <2>3. ASSUME NEW t \in finished, join(t) PROVE Stops
    <3>1. error(t) = first_err /\ mark(t) = watermark
      BY DEF error, mark
    <3>2. running' = running /\ next_idx' = next_idx /\ first_err' = first_err
      BY <1>1, <2>3, <3>1, JoinParts
    <3>3. notified' = notified \o [k \in 1..(mark(t) - watermark) |-> watermark + k - 1]
      BY <1>1, <2>3, JoinParts
    <3>4. watermark \in Nat /\ notified \in Seq(Pieces)
      BY <1>1, JobType DEF PipelineInv, PipelineTypeOK, Count
    <3>5. [k \in 1..(mark(t) - watermark) |-> watermark + k - 1] = <<>>
      BY <3>1, <3>4
    <3>6. notified' = notified
      BY <3>3, <3>4, <3>5, ConcatEmptySeq
    <3> QED BY <3>2, <3>6
  <2> QED BY <2>1, <2>2, <2>3 DEF PipelineNext
<1>2. PipelineInv /\ [PipelineNext]_pipelineVars => PipelineInv'
  BY PipelineStepInv
<1> QED BY <1>1, <1>2, PipelineInitInv, PTL DEF PipelineSpec, NothingAfterError
=============================================================================
