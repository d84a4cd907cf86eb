--------------------------- MODULE TransferEngine ---------------------------
(***************************************************************************)
(* Transfer engines: each owns an arena of bytes that it serves over TCP   *)
(* and publishes under a name; peers open the name once and from then on   *)
(* read and write the arena by offset, in batches of requests.             *)
(*                                                                         *)
(* An engine is its endpoint, numbered in the order of init.  A second     *)
(* init under a name takes the name over; the engine that had it is gone   *)
(* with its process, or still served by the task init spawned.  One step   *)
(* is one critical section: the copy out of or into an arena.  A peer may  *)
(* lose the connection before the server acts or before the answer.        *)
(***************************************************************************)
EXTENDS Integers, Sequences, SequencesExt, FiniteSets

CONSTANTS
    SegNames,      \* names engines are published under
    LocalData,     \* what the first engine has registered to begin with
    Buffers,       \* contents registered later, sequences of bytes
    ReqLists,      \* what callers submit: sequences of requests
                   \* [op : {"read", "write"}, src, target, off, len]
    ArenaBound,    \* bound: bytes up to which buffers are registered
    MaxEngines, MaxHandles, MaxBatchIds, MaxSubmits  \* bounds

VARIABLES
    arena,       \* per engine: its RAM segment
    listening,   \* engines that answer
    published,   \* name -> engine, in the metadata backend
    handle,      \* the first engine's segment_cache: handle -> engine
    batches,     \* its batch table, by batch; "gone" is not in the table
    submit,      \* its submit_transfer calls: batch, requests, progress
    freed        \* batches given to free_batch_id

engineVars == <<arena, listening, published, handle, batches, submit, freed>>

Engines == 1..Len(arena)
Local == 1               \* the engine whose client is modelled
Status(state, bytes) == [state |-> state, transferred_bytes |-> bytes]
bytes_of(reqs) == FoldSeq(LAMBDA r, sum : r.len + sum, 0, reqs)

EngineInit ==
    /\ arena = <<LocalData>>
    /\ listening = {Local}
    /\ published = [s \in SegNames |-> 0]
    /\ handle = <<>> /\ batches = <<>> /\ submit = <<>> /\ freed = {}

-----------------------------------------------------------------------------
(* The metadata backend two engines share (InMemoryMetadata).                *)
put_segment(s, e) == published' = [published EXCEPT ![s] = e]
get_segment(s) == {published[s]} \ {0}

(* init of a peer, with its first buffer: bind, publish, serve.  The engine  *)
(* that had the name may be gone.                                            *)
init(s, data, gone) ==
    /\ Len(arena) < MaxEngines
    /\ arena' = Append(arena, data)
    /\ put_segment(s, Len(arena) + 1)
    /\ listening' = (listening \ gone) \cup {Len(arena) + 1}
    /\ UNCHANGED <<handle, batches, submit, freed>>

(* register_local_memory and register_zeroed: the buffer goes to the end.    *)
register(e, data) ==
    /\ Len(arena[e]) < ArenaBound
    /\ arena' = [arena EXCEPT ![e] = @ \o data]
    /\ UNCHANGED <<listening, published, handle, batches, submit, freed>>

(* open_segment: a fresh handle on the engine that has the name now.         *)
open_segment(s) ==
    /\ Len(handle) < MaxHandles
    /\ \E e \in get_segment(s) : handle' = Append(handle, e)
    /\ UNCHANGED <<arena, listening, published, batches, submit, freed>>

allocate_batch_id ==
    /\ Len(batches) < MaxBatchIds
    /\ batches' = Append(batches, Status("waiting", 0))
    /\ UNCHANGED <<arena, listening, published, handle, submit, freed>>

free_batch_id(b) ==
    /\ b \in DOMAIN batches /\ b \notin freed
    /\ batches' = [batches EXCEPT ![b] = Status("gone", 0)]
    /\ freed' = freed \cup {b}
    /\ UNCHANGED <<arena, listening, published, handle, submit>>

(* submit_transfer is called.  The caller may free the batch meanwhile.      *)
submit_transfer(b, reqs) ==
    /\ Len(submit) < MaxSubmits
    /\ b \in DOMAIN batches /\ b \notin freed
    /\ submit' = Append(submit, [batch |-> b, reqs |-> reqs, at |-> 1, buf |-> <<>>,
                                 result |-> "pending", moved |-> {}])
    /\ UNCHANGED <<arena, listening, published, handle, batches, freed>>

-----------------------------------------------------------------------------
(* A request of a submit.                                                    *)

Current(i) == submit[i].reqs[submit[i].at]
Busy(i) == submit[i].result = "pending" /\ submit[i].at <= Len(submit[i].reqs)
Peer(i) == handle[Current(i).target]
Resolved(i) == Current(i).target \in DOMAIN handle
In(e, off, len) == off + len <= Len(arena[e])
slice(e, off, len) == SubSeq(arena[e], off + 1, off + len)
copied(bytes, off, data) ==
    [k \in 1..Len(bytes) |-> IF k \in (off + 1)..(off + Len(data)) THEN data[k - off] ELSE bytes[k]]

grown(bytes, len) == bytes \o [k \in 1..(len - Len(bytes)) |-> 0]

\* A WRITE past the end grows the arena, zero-filled.
written(bytes, off, data) == copied(grown(bytes, off + Len(data)), off, data)

next_request(i) == [submit EXCEPT ![i].at = @ + 1, ![i].buf = <<>>,
                                  ![i].moved = @ \cup {submit[i].at}]

(* A READ's bytes are copied out under the server's lock and sent back.      *)
read_remote(i) ==
    /\ Busy(i) /\ Current(i).op = "read" /\ submit[i].buf = <<>>
    /\ Resolved(i) /\ Peer(i) \in listening
    /\ In(Peer(i), Current(i).off, Current(i).len)
    /\ submit' = [submit EXCEPT ![i].buf = slice(Peer(i), Current(i).off, Current(i).len)]
    /\ UNCHANGED <<arena, listening, published, handle, batches, freed>>

(* The bytes of a READ are copied into the local arena.                      *)
read_lands(i) ==
    /\ Busy(i) /\ Current(i).op = "read" /\ submit[i].buf # <<>>
    /\ In(Local, Current(i).src, Current(i).len)
    /\ arena' = [arena EXCEPT ![Local] = copied(@, Current(i).src, submit[i].buf)]
    /\ submit' = next_request(i)
    /\ UNCHANGED <<listening, published, handle, batches, freed>>

(* A WRITE's bytes are copied out of the local arena.                        *)
write_leaves(i) ==
    /\ Busy(i) /\ Current(i).op = "write" /\ submit[i].buf = <<>>
    /\ Resolved(i) /\ In(Local, Current(i).src, Current(i).len)
    /\ submit' = [submit EXCEPT ![i].buf = slice(Local, Current(i).src, Current(i).len)]
    /\ UNCHANGED <<arena, listening, published, handle, batches, freed>>

(* The server writes them, and answers or is cut off before it can.          *)
write_remote(i, answered) ==
    /\ Busy(i) /\ Current(i).op = "write" /\ submit[i].buf # <<>>
    /\ Peer(i) \in listening
    /\ arena' = [arena EXCEPT ![Peer(i)] = written(@, Current(i).off, submit[i].buf)]
    /\ submit' = IF answered THEN next_request(i)
                 ELSE [submit EXCEPT ![i].result = "err"]
    /\ UNCHANGED <<listening, published, handle, batches, freed>>

\* Faulty: the batch is marked completed before the outcome is known.
failed_status_completed(i) ==
    [batches EXCEPT ![submit[i].batch] = Status("completed", bytes_of(submit[i].reqs))]
failed_status(i) == batches

(* The call returns early: an unknown handle, a local buffer too small, a    *)
(* READ out of bounds, or a connection that fails at any point.  What was    *)
(* moved stays moved and the batch stays as it was.                          *)
submit_fails(i) ==
    /\ Busy(i)
    /\ submit' = [submit EXCEPT ![i].result = "err"]
    /\ batches' = failed_status(i)
    /\ UNCHANGED <<arena, listening, published, handle, freed>>

(* All requests are done: the batch is entered as completed, also when it    *)
(* has been freed in the meantime.                                           *)
submit_returns(i) ==
    /\ submit[i].result = "pending" /\ submit[i].at > Len(submit[i].reqs)
    /\ submit' = [submit EXCEPT ![i].result = "ok"]
    /\ batches' = [batches EXCEPT ![submit[i].batch] =
                     Status("completed", bytes_of(submit[i].reqs))]
    /\ UNCHANGED <<arena, listening, published, handle, freed>>

SubmitStep(i) ==
    \/ read_remote(i) \/ read_lands(i) \/ write_leaves(i)
    \/ \E answered \in BOOLEAN : write_remote(i, answered)
    \/ submit_fails(i) \/ submit_returns(i)

EngineNext ==
    \/ \E s \in SegNames, data \in Buffers : init(s, data, {}) \/ init(s, data, {published[s]})
    \/ \E e \in Engines, data \in Buffers : register(e, data)
    \/ \E s \in SegNames : open_segment(s)
    \/ allocate_batch_id
    \/ \E b \in DOMAIN batches : free_batch_id(b)
    \/ \E b \in DOMAIN batches, reqs \in ReqLists : submit_transfer(b, reqs)
    \/ \E i \in DOMAIN submit : SubmitStep(i)

-----------------------------------------------------------------------------
(* A batch reads Completed only if some call moved every one of its requests *)
(* and returned Ok, and the bytes reported are the bytes of those requests;  *)
(* a batch is in the table from allocate_batch_id to free_batch_id, or once  *)
(* more if a call that was under way at the free has completed since.        *)
BatchTableExact ==
    \A b \in DOMAIN batches :
      /\ batches[b].state = "completed" =>
           \E i \in DOMAIN submit :
             /\ submit[i].batch = b /\ submit[i].result = "ok"
             /\ submit[i].moved = DOMAIN submit[i].reqs
             /\ batches[b].transferred_bytes = bytes_of(submit[i].reqs)
      /\ b \notin freed => batches[b].state # "gone"
      /\ b \in freed => batches[b].state \in {"gone", "completed"}

\* Request w puts a buffer at a peer and request r fetches it to another place.
IsRoundTrip(w, r) ==
    /\ w.op = "write" /\ r.op = "read"
    /\ w.target = r.target /\ w.off = r.off /\ w.len = r.len
    /\ w.src + w.len <= r.src \/ r.src + r.len <= w.src

(* A batch that writes a buffer to a peer and reads the same range back      *)
(* leaves the two local buffers equal when it completes, unless another call *)
(* was made.                                                                 *)
RoundTrip ==
    \A i \in DOMAIN submit :
      /\ submit[i].result = "pending" /\ submit'[i].result = "ok"
      /\ Len(submit) = 1 /\ Len(submit[i].reqs) = 2
      /\ IsRoundTrip(submit[i].reqs[1], submit[i].reqs[2])
      => slice(Local, submit[i].reqs[1].src, submit[i].reqs[1].len) =
           slice(Local, submit[i].reqs[2].src, submit[i].reqs[2].len)

(* What a batch reports is what it did: the table is exact, and a round trip *)
(* brings the bytes back, also when the write grew the peer's arena, the     *)
(* peer registered memory meanwhile, or its name was taken over.             *)
TransfersSound == [][BatchTableExact' /\ RoundTrip]_engineVars
=============================================================================
