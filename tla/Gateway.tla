------------------------------ MODULE Gateway -------------------------------
(***************************************************************************)
(* The serving gateway: HTTP handlers that share one ControlPlane behind a *)
(* read-write lock.  A step is what a handler does under one hold of the   *)
(* lock, together with the awaits that touch nothing shared before it.     *)
(* The configuration (backend, data plane, policy, sink, engines) is drawn *)
(* in Init; engines, the action sink and the clients are the environment.  *)
(* The handlers of /v1/state and /metrics only read: they are the state    *)
(* functions advice and replication_plan.                                  *)
(***************************************************************************)
EXTENDS FleetPlanning, TieredDataPlane

CONSTANTS
    Configs,        \* gateway configurations, with the inputs offered to each: payloads,
                    \* batches, telemetry, ttfts (ms) and the number of requests
    MaxRequests,    \* bound on the requests of any configuration
    MaxBatches,     \* bound on the event batches ingested
    MaxCrashes      \* bound on the crashes

VARIABLES
    config,     \* chosen at start, then constant
    index,      \* ControlPlane.residency
    plane,      \* ControlPlane.data_plane
    table,      \* ControlPlane.conductor
    running,    \* ControlPlane.workers[_].running_decodes
    hotness,    \* ControlPlane.hotness
    next,       \* RoundRobinRouter.next, modulo the workers it cycles over
    slo,        \* GatewayState.slo
    metrics,    \* GatewayState.metrics
    reqs,       \* the proxy handlers in order of arrival: where each is, what it holds
    ingested,   \* history: the number of batches ingested
    reported,   \* history: transfer telemetry events received
    crashes

vars == <<config, index, plane, table, running, hotness, next, slo, metrics, reqs,
          ingested, reported, crashes>>

control == <<index, plane, table, hotness, next>>

DEFAULT_BLOCK_BYTES == 4

idle == [pc |-> "idle"]
Requests == 1..MaxRequests
engine_ids == ids(config.engines)
no_blocks == [w \in engine_ids |-> {}]
plane_is_store == config.plane = "store"

-----------------------------------------------------------------------------
(* A batch of engine events, as the sequence of index calls it makes.        *)

\* What the batch leaves out of the identity comes from the engine.
batch_scope(b, adapter) ==
    LET e == endpoint(config.engines, b.engine)
    IN  Scope(or_else(b.model, e.model), or_else(b.tokenizer, e.tokenizer), adapter,
              or_else(b.tenant, e.tenant))

stored_scope(b, event) == batch_scope(b, or_else(b.adapter, event.lora))

\* A medium that names no tier, or none at all, is HBM.
event_tier(event) == or_else(from_str(event.medium), "hbm")

\* apply_stored: block indices restart at 0 in every event.
stored_ops(b, event) ==
    LET keys == chain(stored_scope(b, event), or_else(event.parent, root), event.hashes,
                      [i \in DOMAIN event.hashes |-> event.size])
        tier == event_tier(event)
        bytes == or_else(event.bytes, or_else(b.bytes, DEFAULT_BLOCK_BYTES))
    IN  [i \in 1..Len(keys) |-> [op |-> "put", r |-> Resident(keys[i], b.engine, tier, bytes)]]

\* apply_removed: the scope is the batch's; a LoRA name is not part of the event.
removed_ops(b, event) ==
    [i \in 1..Len(event.hashes) |->
        [op |-> "remove", scope |-> batch_scope(b, b.adapter), worker |-> b.engine,
         hash |-> event.hashes[i]]]

event_ops(b, event) ==
    CASE event.kind = "stored" -> stored_ops(b, event)
      [] event.kind = "removed" -> removed_ops(b, event)
      [] event.kind = "cleared" -> <<[op |-> "clear", worker |-> b.engine]>>

batch_ops(b) == FlattenSeq([i \in 1..Len(b.events) |-> event_ops(b, b.events[i])])

index_step(ix, o) ==
    CASE o.op = "put" -> put(ix, o.r)
      [] o.op = "remove" -> remove_block(ix, o.scope, o.worker, o.hash)
      [] o.op = "clear" -> clear_worker(ix, o.worker)

ingest_batch(ix, ops) == FoldLeft(index_step, ix, ops)

\* feed_conductor: removals are not passed on.
feed_conductor(t, b) ==
    FoldLeft(LAMBDA acc, event :
                CASE event.kind = "stored" ->
                        insert(acc, <<stored_scope(b, event), event.size>>, event.hashes, b.engine)
                  [] event.kind = "cleared" -> remove_instance(acc, b.engine)
                  [] OTHER -> acc,
             t, b.events)

-----------------------------------------------------------------------------
(* Mirroring the data plane into the index.                                  *)

forget(ix, r) == remove_block(ix, r.key.scope, r.worker, r.key.hash)

\* On each of a set of indexes, as the outcomes of a call are.
forget_all(ixs, rs) == FoldSet(LAMBDA r, outs : {forget(o, r) : o \in outs}, ixs, rs)
put_all(ixs, rs) == FoldSet(LAMBDA r, outs : {put(o, r) : o \in outs}, ixs, rs)

same_hash(a, b) == a.key.scope = b.key.scope /\ a.worker = b.worker /\ a.key.hash = b.key.hash

\* The residents of one placement are dropped by hash and put, in any order: of
\* those that share a hash the last one stays.
mirror_residents(ix, rs) ==
    UNION {put_all(forget_all({ix}, rs), kept) :
             kept \in {k \in SUBSET rs :
                          \A r \in rs : Cardinality({s \in k : same_hash(r, s)}) = 1}}

\* Faulty: the records that left the plane are not dropped from the index.
mirror_without_removals(ix, removed, residents) ==
    FoldLeft(LAMBDA outs, rs : UNION {mirror_residents(o, rs) : o \in outs}, {ix}, residents)

\* mirror_data_plane_update: first every removal, then every resident.
mirror(ix, removed, residents) ==
    FoldLeft(LAMBDA outs, rs : UNION {mirror_residents(o, rs) : o \in outs},
             forget_all({ix}, removed), residents)

plane_step(p, o) ==
    CASE o.op = "put" -> place(p, o.r)
      [] o.op = "remove" -> plane_remove_block(p, o.scope, o.worker, o.hash)
      [] o.op = "clear" -> plane_clear_worker(p, o.worker)

\* apply_batch_to_data_plane: the updates of the whole batch are collected.
batch_to_plane(p, ops) ==
    LET extend(s, o) ==
            {[plane |-> u.plane, removed |-> s.removed \cup u.removed,
              residents |-> Append(s.residents, u.resident)] : u \in plane_step(s.plane, o)}
    IN  FoldLeft(LAMBDA outs, o : UNION {extend(s, o) : s \in outs},
                 {[plane |-> p, removed |-> {}, residents |-> <<>>]}, ops)

\* ControlPlane::ingest
ingest(ix, p, ops) ==
    LET first == ingest_batch(ix, ops)
    IN  IF plane_is_store
        THEN UNION {{[index |-> m, plane |-> s.plane] :
                        m \in mirror(first, s.removed, s.residents)} : s \in batch_to_plane(p, ops)}
        ELSE {[index |-> first, plane |-> p]}

\* observe_placement: each block is placed and mirrored on its own.
placements(ix, p, rs) ==
    LET extend(s, r) ==
            IF plane_is_store
            THEN UNION {{[index |-> m, plane |-> u.plane, actions |-> s.actions \o u.actions] :
                            m \in mirror(s.index, u.removed, <<u.resident>>)} : u \in place(s.plane, r)}
            ELSE {[s EXCEPT !.index = put(@, r)]}
    IN  FoldLeft(LAMBDA outs, r : UNION {extend(s, r) : s \in outs},
                 {[index |-> ix, plane |-> p, actions |-> <<>>]}, rs)

-----------------------------------------------------------------------------
(* Planning.                                                                 *)

request_context(request) == <<request.scope, request.blocks[1].tokens>>
block_hashes(request) == [i \in DOMAIN request.blocks |-> request.blocks[i].hash]

\* Decoding workers, or all when there are none.
route_workers ==
    LET decoders == SelectSeq(config.engines, LAMBDA e : can_decode(e.role))
    IN  IF decoders = <<>> THEN config.engines ELSE decoders

\* decide: the Conductor's pick when it is on, else the policy's.
decide(request, residency) ==
    IF config.conductor
    THEN {conductor_route(table, request_context(request), block_hashes(request), route_workers,
                          running)}
    ELSE route(config.policy, request, route_workers, running, residency, next)

prefill_candidates == SelectSeq(config.engines, LAMBDA e : can_prefill(e.role))

\* A dedicated decoder with blocks to recompute hands their prefill to the least
\* loaded worker that can prefill, if there is one.
prefill_worker(decision) ==
    IF /\ endpoint(config.engines, decision.worker).role = "decode"
       /\ count(decision, "recompute") > 0
       /\ prefill_candidates # <<>>
    THEN prefill_candidates[least_loaded(prefill_candidates, running)].id
    ELSE None

\* The plans ControlPlane::plan may return.
plan(request) ==
    LET residency == UNION {locate(index, b) : b \in ToSet(request.blocks)}
    IN  {plan_for_worker(request, w, route_workers, running, residency) :
            w \in decide(request, residency)}

\* audit_reuse: a block is safe when its content is resident under its identity,
\* refused when only under others.
content_of(b) == residency_by_content_hash(index, b.hash)
audit_safe(request) ==
    {b \in ToSet(request.blocks) : \E r \in content_of(b) : scope_matches(b.scope, r.key)}
audit_refused(request) ==
    {b \in ToSet(request.blocks) : content_of(b) # {}} \ audit_safe(request)

-----------------------------------------------------------------------------
Init ==
    /\ config \in Configs
    /\ index = empty_index(config.backend)
    /\ plane = no_blocks
    /\ table = {}
    /\ running = [w \in engine_ids |-> 0]
    /\ hotness = <<>>
    /\ next = 0
    /\ slo = no_slo
    /\ metrics = no_metrics
    /\ reqs = [r \in Requests |-> idle]
    /\ ingested = 0
    /\ reported = 0
    /\ crashes = 0

\* proxy_openai_path up to metrics.record: parse, plan and audit under the read
\* lock.  The round-robin counter moves whenever its policy is asked.
Plan(r, payload) ==
    /\ reqs[r].pc = "idle"
    /\ r <= config.requests /\ \A q \in 1..r - 1 : reqs[q].pc # "idle"
    /\ LET request == request_shape(payload)
       IN  /\ \E decision \in plan(request) :
                /\ reqs' = [reqs EXCEPT ![r] =
                      [pc |-> "planned", request |-> request, worker |-> decision.worker,
                       prefill |-> prefill_worker(decision), steps |-> decision.steps]]
                /\ metrics' = metrics_record(metrics, decision)
           /\ hotness' = record_request(hotness, request)
           /\ next' = IF config.policy = "round-robin" /\ ~config.conductor
                      THEN (next + 1) % Len(route_workers) ELSE next
    /\ UNCHANGED <<config, index, plane, table, running, slo, ingested, reported, crashes>>

\* dispatch_action_sink_event: what a delivery that arrived, or did not, comes to.
deliveries ==
    CASE config.sink = "none" -> {"disabled"}
      [] config.sink = "fail_open" -> {"sent", "failed"}
      [] config.sink = "fail_closed" -> {"sent", "error"}

at(r, pc) == [reqs EXCEPT ![r] = [pc |-> pc, request |-> @.request, worker |-> @.worker]]

\* The planned event is delivered, then begin_request; an error ends the handler.
Dispatch(r) ==
    /\ reqs[r].pc = "planned"
    /\ \E delivery \in deliveries :
          IF delivery = "error"
          THEN reqs' = at(r, "ended") /\ UNCHANGED running
          ELSE /\ reqs' = at(r, "sent")
               /\ running' = [running EXCEPT ![reqs[r].worker] = @ + 1]
    /\ UNCHANGED <<config, control, slo, metrics, ingested, reported, crashes>>

\* Faulty: a failed call returns before end_request.
load_released_on_success(w, answer) ==
    IF answer = "error" THEN running ELSE [running EXCEPT ![w] = saturating_sub(@, 1)]

\* end_request: the load is released whatever the engine answered.
load_released(w, answer) == [running EXCEPT ![w] = saturating_sub(@, 1)]

\* The engine answers, or the call fails, and end_request.
Settle(r, answer) ==
    /\ reqs[r].pc = "sent"
    /\ running' = load_released(reqs[r].worker, answer)
    /\ reqs' = at(r, CASE answer = "success" -> "served"
                       [] answer = "refused" -> "responding"
                       [] answer = "error" -> "ended")
    /\ UNCHANGED <<config, control, slo, metrics, ingested, reported, crashes>>

placed_blocks(r) ==
    [i \in DOMAIN reqs[r].request.blocks |->
        hbm(reqs[r].worker, reqs[r].request.blocks[i], DEFAULT_BLOCK_BYTES)]

\* observe_placement, and the Conductor told of the whole prefix.
ObservePlacement(r) ==
    /\ reqs[r].pc = "served"
    /\ \E o \in placements(index, plane, placed_blocks(r)) :
          /\ index' = o.index
          /\ plane' = o.plane
          /\ reqs' = [reqs EXCEPT ![r] =
                        [pc |-> "placed", request |-> @.request, worker |-> @.worker,
                         actions |-> o.actions]]
    /\ LET request == reqs[r].request
       IN  table' = insert(table, request_context(request), block_hashes(request), reqs[r].worker)
    /\ UNCHANGED <<config, running, hotness, next, slo, metrics, ingested, reported, crashes>>

\* Failing open carries on; failing closed turns the served request into an error.
after_commit(delivery) == IF delivery = "error" THEN "ended" ELSE "responding"

\* The committed event is delivered with the cache actions.
Commit(r) ==
    /\ reqs[r].pc = "placed"
    /\ \E delivery \in deliveries : reqs' = at(r, after_commit(delivery))
    /\ UNCHANGED <<config, control, running, slo, metrics, ingested, reported, crashes>>

\* The first chunk reaches the client and is timed; a body may have none.
FirstChunk(r) ==
    /\ reqs[r].pc = "responding"
    /\ reqs' = at(r, "ended")
    /\ \E ttft \in config.ttfts \cup {None} :
          slo' = IF ttft = None THEN slo ELSE slo_record(slo, ttft)
    /\ UNCHANGED <<config, control, running, metrics, ingested, reported, crashes>>

\* The client goes away: the server drops the handler at the await it is in.
Cancel(r) ==
    /\ config.cancels
    /\ reqs[r].pc \in {"planned", "sent", "served", "placed", "responding"}
    /\ reqs' = at(r, IF reqs[r].pc = "sent" THEN "abandoned" ELSE "ended")
    /\ UNCHANGED <<config, control, running, slo, metrics, ingested, reported, crashes>>

\* ingest_kv_events; a batch of an unknown engine is refused before any change.
Ingest(n) ==
    LET b == config.batches[n] IN
    /\ ingested < MaxBatches
    /\ b.engine \in engine_ids
    /\ \E o \in ingest(index, plane, batch_ops(b)) : index' = o.index /\ plane' = o.plane
    /\ table' = feed_conductor(table, b)
    /\ ingested' = ingested + 1
    /\ UNCHANGED <<config, running, hotness, next, slo, metrics, reqs, reported, crashes>>

\* ingest_transfer_telemetry
ReportTransfer(e) ==
    /\ reported = 0
    /\ reported' = 1
    /\ metrics' = record_transfer_telemetry(metrics, e)
    /\ UNCHANGED <<config, control, running, slo, reqs, ingested, crashes>>

\* Where a crash can leave a persistent index: after some of the calls of a batch,
\* or between the two writes of the next one.
torn_step(ix, o) ==
    CASE o.op = "put" -> {kv_put_primary(ix, o.r)}
      [] OTHER -> {[ix EXCEPT !.entries = @ \ {e}] : e \in ix.entries \ index_step(ix, o).entries}

crash_points(ix, ops) ==
    UNION {LET done == ingest_batch(ix, SubSeq(ops, 1, i))
           IN  {done} \cup (IF i < Len(ops) THEN torn_step(done, ops[i + 1]) ELSE {}) :
             i \in 0..Len(ops)}

\* The process dies, idle or inside a batch, and starts again: a persistent index
\* is read back, the rest of the control plane and the counters start empty, and
\* the requests in flight are lost.
Crash ==
    /\ crashes < MaxCrashes
    /\ crashes' = crashes + 1
    /\ index' \in IF persistent(index)
                  THEN UNION ({crash_points(index, batch_ops(b)) : b \in ToSet(config.batches)})
                  ELSE {empty_index(config.backend)}
    /\ plane' = no_blocks
    /\ table' = {}
    /\ running' = [w \in engine_ids |-> 0]
    /\ hotness' = <<>>
    /\ next' = 0
    /\ slo' = no_slo
    /\ metrics' = no_metrics
    /\ reqs' = [r \in Requests |-> IF reqs[r].pc = "idle" THEN idle ELSE [pc |-> "lost"]]
    /\ UNCHANGED <<config, ingested, reported>>

Next ==
    \/ \E r \in Requests :
          \/ \E payload \in config.payloads : Plan(r, payload)
          \/ Dispatch(r)
          \/ \E answer \in {"success", "refused", "error"} : Settle(r, answer)
          \/ ObservePlacement(r)
          \/ Commit(r)
          \/ FirstChunk(r)
          \/ Cancel(r)
    \/ \E n \in DOMAIN config.batches : Ingest(n)
    \/ \E e \in config.telemetry : ReportTransfer(e)
    \/ Crash

Spec == Init /\ [][Next]_vars

-----------------------------------------------------------------------------
(* Properties.                                                               *)

Keys(ix) == {e.key : e \in ix.entries}
PrimaryKeys(ix) == {primary_key_for(e) : e \in ix.entries}

\* The reverse maps of the index list exactly the keys that have a record, after any
\* mix of events, placements, mirroring and clears.  For Holt and RocksDB only a
\* crash between the two writes of a call may leave the two sides apart.
ReverseIndexExact ==
    IF is_memory(index)
    THEN index.by_hash = Keys(index) /\ index.by_content_hash = Keys(index)
    ELSE crashes = 0 => index.by_hash = PrimaryKeys(index)

Planned(r) == reqs[r].pc = "idle" /\ reqs'[r].pc = "planned"

\* What plan() promises when a request is planned.  Every block gets one step, in
\* order; a reused block is resident under this very key at each named source, costs
\* less to fetch than to recompute, and is one the audit under the same lock calls
\* safe and does not refuse; a dedicated decoder never prefills when another worker
\* can, and only such a worker is handed the prefill.
PlanSound ==
    [][\A r \in Requests : Planned(r) =>
         LET q == reqs'[r]
             role(w) == endpoint(config.engines, w).role
             reused == {i \in DOMAIN q.steps : q.steps[i].kind # "recompute"}
         IN  /\ [i \in DOMAIN q.steps |-> q.steps[i].key] = q.request.blocks
             /\ \A i \in reused :
                  LET s == q.steps[i] IN
                  /\ s.us < prefill_cost_us(s.key.tokens)
                  /\ \A w \in s.sources : \E e \in index.entries :
                        /\ e.worker = w /\ e.key = s.key
                        /\ s.kind = "local" <=> (w = q.worker /\ e.tier = "hbm")
                  /\ s.key \in audit_safe(q.request) \ audit_refused(q.request)
             /\ can_decode(role(q.worker)) \/ \A w \in engine_ids : ~can_decode(role(w))
             /\ q.prefill # None => role(q.worker) = "decode" /\ can_prefill(role(q.prefill))
      ]_vars

\* running_decodes of a worker is the number of calls in flight to it, plus the
\* calls whose client went away: their handler was dropped before end_request.
LoadIsInFlight ==
    \A w \in engine_ids :
        running[w] = Cardinality({r \in Requests :
                        reqs[r].pc \in {"sent", "abandoned"} /\ reqs[r].worker = w})

\* Every budgeted tier of every worker fits after each placement, whatever the sizes
\* and the tiers the engines report.
TiersWithinBudget ==
    \A w \in engine_ids : \A t \in DOMAIN Capacity : tier_bytes(plane[w], t) <= Capacity[t]

tiers_of(p, w) == [k \in {e.key : e \in p[w]} |-> (CHOOSE e \in p[w] : e.key = k).tier]

replay(tiers, a) ==
    IF a.to = None THEN [k \in DOMAIN tiers \ {a.key} |-> tiers[k]]
    ELSE [k \in DOMAIN tiers \cup {a.key} |-> IF k = a.key THEN a.to ELSE tiers[k]]

\* The cache actions handed to the sink with the committed event are the whole truth:
\* replayed in order on what the worker held before, they give what it holds now,
\* and each starts from the tier the block was in.
ActionsReplay(r) ==
    LET w == reqs[r].worker
    IN  FoldLeft(replay, tiers_of(plane, w), reqs'[r].actions) = tiers_of(plane', w)

\* When a block leaves a tier, no block that stays there, other than those the request
\* just touched, was used longer ago.
ColdestFirst(r) ==
    LET w == reqs[r].worker
        placed == ToSet(reqs[r].request.blocks)
        shed == {a \in ToSet(reqs'[r].actions) : a.kind \in {"Demote", "Evict"}}
        stayed == {d \in plane[w] : d.key \notin placed
                                     /\ \E e \in plane'[w] : e.key = d.key /\ e.tier = d.tier}
    IN  \A a \in shed : \A d \in stayed : d.tier = a.from =>
           \E k \in plane[w] : /\ k.key = a.key /\ k.key \notin placed
                               /\ k.tier = a.from /\ k.last <= d.last

\* The cascade of a placement, however far it goes, sheds the coldest first and
\* reports each move, and after every step all tiers of all workers are within their
\* budgets, whatever the sizes and the tiers the engines report.
CascadeSound ==
    [][/\ TiersWithinBudget'
       /\ \A r \in Requests :
            reqs[r].pc = "served" /\ reqs'[r].pc = "placed" /\ plane_is_store =>
              ActionsReplay(r) /\ ColdestFirst(r)]_vars

\* Residents the plane holds, as index records.
PlaneResidents(p) == UNION {{as_resident(w, e) : e \in p[w]} : w \in engine_ids}

\* Blocks one call of a batch reports resident and another reports removed.
PassingThrough(ops) ==
    UNION {{r.key : r \in UNION ToSet(s.residents)} \cap {r.key : r \in s.removed} :
             s \in batch_to_plane(plane, ops)}

\* The index mirrors the plane.  Every block the plane holds is indexed in its tier,
\* unless a block of the same hash on that worker took its record; and a step adds
\* no record the plane does not back, except for blocks that pass through the plane
\* within one batch: their removal is mirrored before their arrival.
MirrorExact ==
    [][plane_is_store /\ crashes' = 0 /\ index' # index =>
         LET held == PlaneResidents(plane')
             unbacked == (index'.entries \ held) \ (index.entries \ PlaneResidents(plane))
         IN  /\ \A h \in held : h \in index'.entries
                                \/ \E e \in held \cap index'.entries : same_hash(e, h)
             /\ \/ unbacked = {}
                \/ \E n \in DOMAIN config.batches :
                      /\ Ingest(n)
                      /\ {e.key : e \in unbacked} \subseteq PassingThrough(batch_ops(config.batches[n]))
      ]_vars

\* Operation i of a batch drops this record, and no later one stores its hash again.
DroppedForGood(ops, e) ==
    \E i \in DOMAIN ops :
        /\ \/ ops[i].op = "clear"
           \/ /\ ops[i].op = "remove"
              /\ ops[i].hash = e.key.hash
              /\ ops[i].scope = e.key.scope
        /\ \A j \in i + 1 .. Len(ops) :
              ops[j].op = "put" => ~(ops[j].r.key.hash = e.key.hash /\ ops[j].r.key.scope = e.key.scope)

\* A removal takes effect: when a batch ends with a block removed or its worker
\* cleared, no record of it is left, however it got there (event, inference, mirror).
\* The exceptions are a record a crash left without its reverse entry, which a
\* removal cannot find, and a block passing through the plane.  The scope is the one
\* the removal names, so a block stored under a LoRA name outlives it.
RemovalTakesEffect ==
    [][ingested' # ingested =>
         \A n \in DOMAIN config.batches :
           LET b == config.batches[n]
               ops == batch_ops(b)
               left == {e \in index'.entries : e.worker = b.engine /\ DroppedForGood(ops, e)}
               torn == {e \in index.entries :
                          /\ persistent(index) /\ crashes > 0
                          /\ primary_key_for(e) \notin index.by_hash}
           IN  \/ left \subseteq torn
               \/ ~Ingest(n)
               \/ plane_is_store /\ {e.key : e \in left} \subseteq PassingThrough(ops)
      ]_vars

\* The Conductor, fed by its own path from the same events and placements, is never
\* behind the index: content the index has at a worker, the Conductor has there too.
\* It may be ahead, as a removal does not reach it; a restart empties it.
ConductorCovers ==
    crashes = 0 /\ ~plane_is_store =>
        {<<e.key.hash, e.worker>> : e \in index.entries} \subseteq {<<t[2], t[3]>> : t \in table}

HasRequest(r) == reqs[r].pc \notin {"idle", "lost"}
Session(r) == reqs[r].request.session

SharesBlock(r, q) == ToSet(reqs[r].request.blocks) \cap ToSet(reqs[q].request.blocks) # {}

\* Session affinity keeps a session on one engine: until engines report events of
\* their own, every request of a session goes to the same worker, whether its blocks
\* are already there or its earlier turns are still in flight.  It can be drawn away
\* only by a request of another session that shares one of its blocks: the session
\* is in the key of a first block, not of the later ones.
SessionStaysPut ==
    config.policy = "session-affinity" /\ ~config.conductor /\ ingested = 0 =>
        LET known == {x \in Requests : HasRequest(x)}
        IN  \A r, q \in known :
               \/ Session(r) = None \/ Session(r) # Session(q)
               \/ reqs[r].worker = reqs[q].worker
               \/ \E x \in known : Session(x) # Session(r) /\ (SharesBlock(x, r) \/ SharesBlock(x, q))

hot_now == hot_prefixes(hotness, index)

\* Carrying out the replication plan is safe and enough: a copy goes from a holder to
\* a worker without one, no prefix ends above its target, and one that stays below
\* ran out of workers or of room in the plan.
ReplicationConverges ==
    LET actions == plan_replications(hot_now, config.engines, running)
        copies_of(p) == {a \in ToSet(actions) : a.scope = p.scope /\ a.prefix = p.prefix}
    IN  \A p \in hot_now :
          LET after == p.holders \cup {a.to : a \in copies_of(p)}
          IN  /\ \A a \in copies_of(p) : a.from \in p.holders /\ a.to \notin p.holders
              /\ Cardinality(after) <= Max({target_replicas, Cardinality(p.holders)})
              /\ \/ p.holders = {}
                 \/ Cardinality(after) >= Min({target_replicas, Len(config.engines)})
                 \/ Len(actions) = max_actions

plane_hbm == MapThenSumSet(LAMBDA w : tier_bytes(plane[w], "hbm"), engine_ids)

advice == co_scheduler_plan(config.engines, running, slo, metrics, hot_now, plane_hbm, index)

\* The fleet can be steered by what is advised at any moment: the replication plan
\* converges, and the co-scheduler's dry run stays within its budget, replicates only
\* from a current HBM holder to a worker that is not one, and proposes to reject
\* requests only together with the remedies for the pressures that justify it.
AdviceSound ==
    LET kinds == {a.kind : a \in ToSet(advice)}
    IN  /\ ReplicationConverges
        /\ Len(advice) <= max_actions
        /\ \A a \in ToSet(advice) : a.kind = "ReplicateHotPrefix" =>
              \E p \in hot_now : p.prefix = a.prefix /\ a.from \in p.holders /\ a.to \notin p.holders
        /\ "AdmissionReject" \in kinds => {"DemotePrefix", "TuneTransferDepth"} \subseteq kinds

\* The types of the gateway's state, with the bounds the requests put on the counters.
TypeOK ==
    /\ config \in Configs
    /\ \A e \in index.entries : e.worker \in engine_ids /\ e.tier \in Tiers /\ e.bytes \in Nat
    /\ DOMAIN plane = engine_ids
    /\ running \in [engine_ids -> 0..config.requests]
    /\ \A k \in DOMAIN hotness : hotness[k] \in 1..config.requests
    /\ next \in 0..Len(config.engines)
    /\ slo.met <= slo.served
    /\ \A r \in Requests : reqs[r].pc \in {"idle", "planned", "sent", "served", "placed",
                                            "responding", "ended", "abandoned", "lost"}

\* Everything that says where a block is says the same: the records keep their types,
\* the reverse maps are exact, and the Conductor covers the index, through any mix of
\* events, placements, mirroring, clears and crashes inside a call.
IndexesAgree == TypeOK /\ ReverseIndexExact /\ ConductorCovers
=============================================================================
