--------------------------- MODULE FleetPlanning ----------------------------
(***************************************************************************)
(* What the control plane advises for the fleet: the hotness counts, the   *)
(* replication plan, and the co-scheduler's dry run over the live state.   *)
(* Engines are configured in the order of their ids, so a tie "by id" is a *)
(* tie by position.  Percentages are compared by cross-multiplication.     *)
(***************************************************************************)
EXTENDS ResidencyIndex, Routing

CONSTANTS
    min_hot_prefix_hits,    \* 8 in the code, also the replication threshold
    target_replicas,        \* 2
    max_actions,            \* 32
    HbmCapacity             \* of a worker, 80 GiB in the code

\* HotnessTracker::record_request: one access per distinct (identity, prefix).
record_request(counts, request) ==
    LET touched == {<<b.scope, b.prefix>> : b \in ToSet(request.blocks)}
        n(k) == IF k \in DOMAIN counts THEN counts[k] ELSE 0
    IN  [k \in DOMAIN counts \cup touched |-> n(k) + (IF k \in touched THEN 1 ELSE 0)]

\* The hot prefixes, each with the workers that hold a block of it in HBM.
hot_prefixes(counts, ix) ==
    LET resident(k) == prefix_scan(ix, k[1], k[2])
        in_hbm(e) == e.tier \in {"hbm", "remote_hbm"}
    IN  {[scope |-> k[1], prefix |-> k[2], accesses |-> counts[k],
          holders |-> {e.worker : e \in {r \in resident(k) : in_hbm(r)}}] :
            k \in {x \in DOMAIN counts : counts[x] >= min_hot_prefix_hits}}

under_replicated(p) == p.holders # {} /\ Cardinality(p.holders) < target_replicas

\* The hottest first; equals in the order of their hashes, which is left open.
hottest_first(prefixes) ==
    SetToSortSeq({p \in prefixes : under_replicated(p)}, LAMBDA a, b : a.accesses > b.accesses)

by_load(workers, running) ==
    LET load(i) == running[workers[i].id] + queued_prefill_tokens
        before(i, j) == pair_leq(<<load(i), i>>, <<load(j), j>>)
        order == SetToSortSeq(1..Len(workers), before)
    IN  [i \in 1..Len(workers) |-> workers[order[i]].id]

room(actions) == max_actions - Len(actions)

\* Faulty: a prefix is copied to every worker that lacks it.
copies_everywhere(p, actions, targets) == Min({Len(targets), room(actions)})

\* As many copies as are missing, as there are workers, and as there is room for.
copies(p, actions, targets) ==
    Min({target_replicas - Cardinality(p.holders), Len(targets), room(actions)})

\* plan_replications: from the least loaded holder to the least loaded others.
plan_replications(prefixes, workers, running) ==
    LET order == by_load(workers, running)
        from(p) == SelectSeq(order, LAMBDA w : w \in p.holders)[1]
        extend(actions, p) ==
            LET targets == SelectSeq(order, LAMBDA w : w \notin p.holders)
            IN  actions \o [i \in 1..copies(p, actions, targets) |->
                               [scope |-> p.scope, prefix |-> p.prefix,
                                from |-> from(p), to |-> targets[i]]]
    IN  FoldLeft(extend, <<>>, hottest_first(prefixes))

-----------------------------------------------------------------------------
(* Telemetry: SloGoodput and the counters of GatewayMetrics that are read.   *)

no_slo == [served |-> 0, met |-> 0, ttft_sum |-> 0]

\* SloGoodput::record, in milliseconds against the TTFT budget.
slo_record(slo, ttft) ==
    [served |-> slo.served + 1,
     met |-> slo.met + (IF 1000 * ttft <= ttft_budget_us THEN 1 ELSE 0),
     ttft_sum |-> slo.ttft_sum + ttft]

no_metrics ==
    [local |-> 0, remote |-> 0, recompute |-> 0, transfers |-> 0, est_us |-> 0, est_first_us |-> 0,
     events |-> 0, first_events |-> 0, first_us |-> 0, full_us |-> 0, overlap_us |-> 0, queue |-> 0]

\* GatewayMetrics::record and transfer_cost_summary: the first transfer is the
\* cheapest one.
metrics_record(m, decision) ==
    LET us == [i \in DOMAIN decision.steps |-> decision.steps[i].us]
        fetched == {i \in DOMAIN us : decision.steps[i].kind = "transfer"}
    IN  [m EXCEPT !.local = @ + count(decision, "local"),
                  !.remote = @ + Cardinality(fetched),
                  !.recompute = @ + count(decision, "recompute"),
                  !.transfers = @ + (IF fetched = {} THEN 0 ELSE 1),
                  !.est_us = @ + MapThenSumSet(LAMBDA i : us[i], fetched),
                  !.est_first_us = @ + (IF fetched = {} THEN 0 ELSE Min({us[i] : i \in fetched}))]

\* record_transfer_telemetry: the queue depth is the last one reported.
record_transfer_telemetry(m, e) ==
    [m EXCEPT !.events = @ + 1,
              !.first_events = @ + (IF e.first_us = None THEN 0 ELSE 1),
              !.first_us = @ + or_else(e.first_us, 0),
              !.full_us = @ + e.full_us,
              !.overlap_us = @ + e.overlap_us,
              !.queue = or_else(e.queue_depth, @)]

\* transfer_observation: measured values once there are any, else the estimates.
transfer_observation(m) ==
    IF m.events > 0
    THEN [n |-> m.events, full |-> m.full_us, first_n |-> m.first_events, first |-> m.first_us,
          overlap |-> m.overlap_us, queue |-> m.queue]
    ELSE [n |-> m.transfers, full |-> m.est_us, first_n |-> m.transfers, first |-> m.est_first_us,
          overlap |-> m.est_us - m.est_first_us, queue |-> 0]

-----------------------------------------------------------------------------
(* CoScheduler::plan under CoSchedulerPolicy::default.                       *)

first_layer_budget_us == 20000
high_transfer_queue_depth == 16

slo_miss_bad(slo) == 100 * (slo.served - slo.met) > 10 * slo.served

slo_under_pressure(slo) ==
    slo.served > 0 /\ \/ 1000 * slo.ttft_sum > ttft_budget_us * slo.served
                      \/ 100 * slo.met < 95 * slo.served
                      \/ slo_miss_bad(slo)

slow_on_average(sum, n) == n > 0 /\ sum > first_layer_budget_us * n

remote_reuse_under_pressure(m) ==
    LET t == transfer_observation(m)
        routed == m.local + m.remote + m.recompute
    IN  \/ routed > 0 /\ 100 * m.remote >= 20 * routed
        \/ slow_on_average(t.full, t.n) /\ (t.first_n > 0 => t.full * t.first_n > t.first * t.n)

transfer_queued(m) == transfer_observation(m).queue >= high_transfer_queue_depth

transfer_under_pressure(m) ==
    LET t == transfer_observation(m)
    IN  \/ slow_on_average(t.first, t.first_n)
        \/ transfer_queued(m)
        \/ slow_on_average(t.full, t.n) /\ 100 * Min({t.overlap, t.full}) < 50 * t.full

\* The pressure is the larger of the plane's, the workers' (never updated) and the
\* index's account of HBM.
hbm_full(workers, plane_hbm, ix) ==
    LET index_hbm == MapThenSumSet(LAMBDA e : e.bytes,
                                   {e \in ix.entries : e.tier \in {"hbm", "remote_hbm"}})
        total == HbmCapacity * Len(workers)
    IN  total > 0 /\ 100 * Max({plane_hbm, index_hbm}) >= 90 * total

Advice(kind, prefix, from, to) == [kind |-> kind, prefix |-> prefix, from |-> from, to |-> to]

\* A remedy is added when its condition holds and the plan has room.
remedy(actions, condition, kind) ==
    IF condition /\ room(actions) > 0 THEN Append(actions, Advice(kind, None, None, None))
                                      ELSE actions

replication_targets(workers, p) == ids(workers) \ p.holders

plan_hot_prefix_replication(actions, prefixes, workers, running) ==
    LET order == by_load(workers, running)
        first_holder(p) == SelectSeq(workers, LAMBDA w : w.id \in p.holders)[1].id
        extend(done, p) ==
            LET targets == SelectSeq(order, LAMBDA w : w \in replication_targets(workers, p))
            IN  IF room(done) = 0 \/ targets = <<>> THEN done
                ELSE Append(done, Advice("ReplicateHotPrefix", p.prefix, first_holder(p),
                                         targets[1]))
    IN  FoldLeft(extend, actions, hottest_first(prefixes))

\* The dry run: prefill/decode split, replication, HBM, transfers, admission.
co_scheduler_plan(workers, running, slo, m, prefixes, plane_hbm, ix) ==
    LET roles == {workers[i].role : i \in 1..Len(workers)}
        split == \E p, d \in roles : can_prefill(p) /\ can_decode(d)
        full == hbm_full(workers, plane_hbm, ix)
        a1 == remedy(<<>>, slo_under_pressure(slo) /\ split, "AdjustPdRatio")
        a2 == IF remote_reuse_under_pressure(m)
              THEN plan_hot_prefix_replication(a1, prefixes, workers, running) ELSE a1
        a3 == remedy(a2, full, "DemotePrefix")
        a4 == remedy(a3, transfer_under_pressure(m), "TuneTransferDepth")
    IN  remedy(a4, slo.served > 0 /\ slo_miss_bad(slo) /\ transfer_queued(m) /\ full,
               "AdmissionReject")
=============================================================================
