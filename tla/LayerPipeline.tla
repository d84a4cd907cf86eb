--------------------------- MODULE LayerPipeline ---------------------------
(***************************************************************************)
(* The slice pool: one transfer cut into pieces, at most max_inflight of   *)
(* them in flight, and, when the pieces are the layers of a KV blob, a     *)
(* reorder gate that tells the consumer of layer i only once layers 0..i   *)
(* have landed.  Pieces are numbered from 0.                               *)
(*                                                                         *)
(* run_slices and run_layers_with_notify are the same loop; the first has  *)
(* no gate (job.notify is FALSE).  A task is running until its op ends and *)
(* finished until join_next takes it, in whatever order the JoinSet hands  *)
(* tasks out.  A panic of a task is one more way for it to fail.           *)
(***************************************************************************)
EXTENDS Integers, Sequences, FiniteSets

CONSTANTS Jobs  \* the transfers that are run, one per behaviour

ASSUME JobAssumption ==
    Jobs \subseteq [pieces : Seq([off : Nat, len : Nat]), total : Nat,
                    max : Nat \ {0}, notify : BOOLEAN]

VARIABLES
    job,        \* the transfer
    next_idx,   \* the next piece to launch
    running,    \* pieces whose op is in flight
    finished,   \* ended tasks not yet joined
    done,       \* landed layers held back by the gate
    watermark,  \* the next layer to notify
    first_err,  \* the piece whose error is returned, as a set of at most one
    notified,   \* the calls of on_layer_ready, in order
    landed,     \* pieces whose bytes have been moved
    result      \* what the call returned: "pending", "ok" or "err"

pipelineVars == <<job, next_idx, running, finished, done, watermark, first_err,
                  notified, landed, result>>

-----------------------------------------------------------------------------
(* The pieces of a transfer. *)

at_least_one(k) == IF k = 0 THEN 1 ELSE k
\* Faulty: rounds the number of slices down and so loses the remainder.
slices_whole(total, size) ==
    [i \in 1..(total \div at_least_one(size)) |->
       [off |-> (i - 1) * at_least_one(size), len |-> at_least_one(size)]]
slices(total, size) ==
    LET step == at_least_one(size)
        count == (total + step - 1) \div step
    IN [i \in 1..count |->
          [off |-> (i - 1) * step,
           len |-> IF i < count THEN step ELSE total - (i - 1) * step]]

\* before[i] bytes lie in front of layer i + 1.
layer_slices(sizes) ==
    LET before[i \in 0..Len(sizes)] == IF i = 0 THEN 0 ELSE before[i - 1] + sizes[i]
    IN [i \in 1..Len(sizes) |-> [off |-> before[i - 1], len |-> sizes[i]]]

run_slices(total, size, max_inflight) ==
    [pieces |-> slices(total, size), total |-> total,
     max |-> at_least_one(max_inflight), notify |-> FALSE]

run_layers_with_notify(sizes, max_inflight) ==
    LET pieces == layer_slices(sizes)
    IN [pieces |-> pieces,
        total |-> IF sizes = <<>> THEN 0
                  ELSE pieces[Len(sizes)].off + sizes[Len(sizes)],
        max |-> at_least_one(max_inflight), notify |-> TRUE]

-----------------------------------------------------------------------------
Count == Len(job.pieces)
Pieces == 0..(Count - 1)
Finished == [piece : Pieces, ok : BOOLEAN]
Joinable == {t.piece : t \in finished}

\* The call starts by launching as many pieces as may be in flight.
primed(j) == IF Len(j.pieces) < j.max THEN Len(j.pieces) ELSE j.max

PipelineInit ==
    /\ job \in Jobs
    /\ next_idx = primed(job)
    /\ running = 0..(primed(job) - 1)
    /\ finished = {} /\ done = {} /\ watermark = 0
    /\ first_err = {} /\ notified = <<>> /\ landed = {} /\ result = "pending"

(* The op of a piece ends: its bytes have been moved, or it has failed.      *)
task_ends(i, ok) ==
    /\ i \in running
    /\ running' = running \ {i}
    /\ finished' = finished \cup {[piece |-> i, ok |-> ok]}
    /\ landed' = IF ok THEN landed \cup {i} ELSE landed
    /\ UNCHANGED <<job, next_idx, done, watermark, first_err, notified, result>>

\* Faulty: releases a layer without looking at the ones before it.
gate_unordered(d) == IF d = {} THEN watermark ELSE watermark + 1
\* The first layer at or after the watermark that has not landed.
gate(d) ==
    CHOOSE w \in watermark..Count :
      /\ w \notin d
      /\ \A i \in watermark..(w - 1) : i \in d

\* Faulty: the pipeline is kept full after an error.
may_launch_always(err) == next_idx < Count
may_launch(err) == err = {} /\ next_idx < Count

launched == {next_idx}

(* join_next returns t: note its result, release what the gate now lets      *)
(* pass, and launch one more piece while there has been no error.            *)
join(t) ==
    /\ t \in finished
    /\ finished' = finished \ {t}
    /\ LET d == IF t.ok /\ job.notify THEN done \cup {t.piece} ELSE done
           err == IF t.ok \/ first_err # {} THEN first_err ELSE {t.piece}
           w == IF t.ok /\ first_err = {} THEN gate(d) ELSE watermark
           new == IF may_launch(err) THEN launched ELSE {}
       IN /\ done' = d \ (watermark..(w - 1))
          /\ watermark' = w
          /\ notified' = notified \o [k \in 1..(w - watermark) |-> watermark + k - 1]
          /\ first_err' = err
          /\ running' = running \cup new
          /\ next_idx' = IF new = {} THEN next_idx ELSE next_idx + 1
    /\ UNCHANGED <<job, landed, result>>

drained == running = {} /\ finished = {}

(* join_next returns None: the call returns.                                 *)
returns ==
    /\ result = "pending" /\ drained
    /\ result' = IF first_err = {} THEN "ok" ELSE "err"
    /\ UNCHANGED <<job, next_idx, running, finished, done, watermark, first_err,
                   notified, landed>>

PipelineNext ==
    \/ \E i \in running, ok \in BOOLEAN : task_ends(i, ok)
    \/ \E t \in finished : join(t)
    \/ returns

PipelineSpec == PipelineInit /\ [][PipelineNext]_pipelineVars

-----------------------------------------------------------------------------
(* The counters and sets of the loop have the types of the code.             *)
PipelineTypeOK ==
    /\ job \in Jobs
    /\ next_idx \in 0..Count /\ watermark \in 0..Count
    /\ running \subseteq Pieces /\ landed \subseteq Pieces
    /\ done \subseteq Pieces /\ first_err \subseteq Pieces
    /\ finished \subseteq Finished
    /\ notified \in Seq(Pieces)
    /\ result \in {"pending", "ok", "err"}

(* on_layer_ready has been called for layers 0, 1, ..., watermark - 1, once  *)
(* each and in that order, whatever order the transfers ended in; all of     *)
(* those layers have landed, and none of them lies at or past a failed one.  *)
NotifiedInOrder ==
    /\ Len(notified) = watermark
    /\ \A k \in 1..Len(notified) : notified[k] = k - 1 /\ k - 1 \in landed
    /\ \A i \in first_err : watermark <= i

(* Never more pieces in flight (launched and not yet joined) than the depth  *)
(* the caller asked for.                                                     *)
DepthBounded == Cardinality(running \cup Joinable) <= job.max

covers(i, b) ==
    /\ job.pieces[i + 1].off <= b
    /\ b < job.pieces[i + 1].off + job.pieces[i + 1].len

(* Within its depth the call moves the whole: when it has returned nothing   *)
(* is in flight, and it returns Ok exactly when every byte of [0, total) was *)
(* moved by exactly one piece, and then every layer has been notified; also  *)
(* for slices of size 0, a remainder, an empty layer and nothing to move.    *)
ReturnsWhole ==
    /\ PipelineTypeOK /\ DepthBounded
    /\ result # "pending" =>
         /\ running = {} /\ finished = {}
         /\ result = "ok" <=> landed = Pieces
         /\ result = "ok" =>
              /\ job.notify => watermark = Count
              /\ \A b \in 0..(job.total - 1) :
                   \E i \in landed : covers(i, b) /\ \A k \in landed \ {i} : ~covers(k, b)

(* Once an error has been joined nothing more is launched or notified; what  *)
(* is in flight only drains, and the error that is returned stays the first. *)
NothingAfterError ==
    [][first_err # {} =>
         /\ next_idx' = next_idx /\ notified' = notified
         /\ running' \subseteq running /\ first_err' = first_err]_pipelineVars
=============================================================================
