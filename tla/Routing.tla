------------------------------ MODULE Routing -------------------------------
(***************************************************************************)
(* How a request is routed: the per-block plan against one worker, the     *)
(* seven policies that pick the worker, and the Conductor's prefix table.  *)
(* Workers are a sequence in configuration order, running their load.      *)
(* A pick that hangs on the order of equal records is a set of workers.    *)
(***************************************************************************)
EXTENDS KvIdentity, SequencesExt

\* The 64-bit hash of a string, which only its residues matter of.
CONSTANT Hash(_)

ids(workers) == {workers[i].id : i \in 1..Len(workers)}

endpoint(workers, id) == workers[CHOOSE i \in 1..Len(workers) : workers[i].id = id]

same_domain(workers, source, target) ==
    /\ source \in ids(workers)
    /\ endpoint(workers, source).domain = endpoint(workers, target).domain

transfer_us(workers, target, e) ==
    transfer_cost_us(e.tier, e.bytes, e.worker = target, same_domain(workers, e.worker, target))

\* Only a record of this very key is a candidate for reuse.
records_of(block, residency) == {e \in residency : e.key = block}

\* Faulty: a fetch is planned even where recomputing is cheaper.
fetch_always(fetch_us, recompute_us) == TRUE

\* Fetching is worth it only below the cost of the prefill it saves.
worth_fetching(fetch_us, recompute_us) == fetch_us < recompute_us

\* plan_for_worker for one block: the source is any of the cheapest records.
plan_block(block, target, workers, residency) ==
    LET records == records_of(block, residency)
        cost(e) == transfer_us(workers, target, e)
        cheapest == {e \in records : \A d \in records : cost(e) <= cost(d)}
        recompute_us == prefill_cost_us(block.tokens)
        reused == {e \in cheapest : worth_fetching(cost(e), recompute_us)}
        step(kind, sources, us) == [key |-> block, kind |-> kind, sources |-> sources, us |-> us]
    IN  IF reused = {} THEN step("recompute", {}, recompute_us)
        ELSE LET us == cost(CHOOSE e \in reused : TRUE)
             IN  IF \E e \in reused : e.worker = target /\ e.tier = "hbm"
                 THEN step("local", {target}, us)
                 ELSE step("transfer", {e.worker : e \in reused}, us)

\* plan_for_worker: every block's step, and the latencies that follow.
plan_for_worker(request, target, workers, running, residency) ==
    LET steps == [i \in 1..Len(request.blocks) |->
                     plan_block(request.blocks[i], target, workers, residency)]
        ttft == queue_cost_us + FoldLeft(LAMBDA sum, s : sum + s.us, 0, steps)
        tpot == decode_cost_us(request.decode_tokens, running[target])
    IN  [worker |-> target, steps |-> steps, ttft |-> ttft, tpot |-> tpot,
         violation |-> saturating_sub(ttft, ttft_budget_us) + saturating_sub(tpot, tpot_budget_us)]

count(route, kind) == Cardinality({i \in 1..Len(route.steps) : route.steps[i].kind = kind})

-----------------------------------------------------------------------------
(* The policies.  A minimum is taken at its first worker, a maximum at its   *)
(* last, as the iterators do.                                                *)

\* Lexicographic order on pairs.
pair_leq(a, b) == a[1] < b[1] \/ (a[1] = b[1] /\ a[2] <= b[2])

first_min(keys) ==
    CHOOSE i \in DOMAIN keys : \A j \in DOMAIN keys :
        pair_leq(keys[i], keys[j]) /\ (pair_leq(keys[j], keys[i]) => i <= j)

last_min(keys) ==
    CHOOSE i \in DOMAIN keys : \A j \in DOMAIN keys :
        pair_leq(keys[i], keys[j]) /\ (pair_leq(keys[j], keys[i]) => j <= i)

greedy(plans, running) ==
    LET score(i) == plans[i].ttft + plans[i].tpot + 4 * plans[i].violation
                    + 1000 * running[plans[i].worker]
    IN  first_min([i \in DOMAIN plans |-> <<score(i), 0>>])

least_loaded(workers, running) ==
    first_min([i \in DOMAIN workers |->
                 <<queued_prefill_tokens + 1000 * running[workers[i].id], 0>>])

\* Among the workers that meet the SLO the most local hits, then the lowest TTFT;
\* when none does, the least violation, then the most local hits.
slo_aware(plans) ==
    LET n == Len(plans)
        feasible == {i \in 1..n : plans[i].violation = 0}
        hits(i) == count(plans[i], "local")
    IN  IF feasible # {}
        THEN last_min([i \in 1..n |-> IF i \in feasible THEN <<0 - hits(i), plans[i].ttft>>
                                                         ELSE <<1, 0>>])
        ELSE first_min([i \in 1..n |-> <<plans[i].violation, 0 - hits(i)>>])

affinity_key(request) == request.blocks[1].prefix

\* Faulty: a cold request is sent by its last block, not by its session.
session_key_of_block(request) == request.blocks[Len(request.blocks)].hash

session_key(request) == or_else(request.session, affinity_key(request))

home(key, n) == (Hash(key) % n) + 1

\* A warm session follows its blocks, a cold one goes to its home.
session_affinity(request, plans) ==
    LET warmest == last_min([i \in DOMAIN plans |-> <<0 - count(plans[i], "local"), 0>>])
    IN  IF count(plans[warmest], "local") > 0 THEN warmest
        ELSE home(session_key(request), Len(plans))

\* Dynamo's cost in quarter blocks; a block held in several tiers is credited
\* at the one that happens to be found first.
credit(tier) == CASE tier = "hbm" -> 4
                  [] tier \in {"remote_hbm", "cpu_dram"} -> 3
                  [] OTHER -> 1

credits(block, worker, residency) ==
    LET found == {e \in records_of(block, residency) : e.worker = worker}
    IN  IF found = {} THEN {0} ELSE {credit(e.tier) : e \in found}

worker_costs(request, worker, running, residency) ==
    LET n == Len(request.blocks)
        overlaps == FoldLeft(LAMBDA sums, b : {s + c : s \in sums, c \in credits(b, worker, residency)},
                             {0}, request.blocks)
    IN  {saturating_sub(4 * n, o) + 4 * running[worker] : o \in overlaps}

dynamo_cost(request, workers, running, residency) ==
    LET n == Len(workers)
        possible == [i \in 1..n |-> worker_costs(request, workers[i].id, running, residency)]
        costs == {c \in [1..n -> UNION {possible[i] : i \in 1..n}] :
                    \A i \in 1..n : c[i] \in possible[i]}
    IN  {first_min([i \in 1..n |-> <<c[i], 0>>]) : c \in costs}

\* The workers a policy may pick.
route(policy, request, workers, running, residency, next) ==
    LET n == Len(workers)
        plans == [i \in 1..n |->
                     plan_for_worker(request, workers[i].id, workers, running, residency)]
        picks == CASE policy = "greedy" -> {greedy(plans, running)}
                   [] policy = "least-loaded" -> {least_loaded(workers, running)}
                   [] policy = "prefix-affinity" -> {home(affinity_key(request), n)}
                   [] policy = "round-robin" -> {(next % n) + 1}
                   [] policy = "slo-aware" -> {slo_aware(plans)}
                   [] policy = "session-affinity" -> {session_affinity(request, plans)}
                   [] policy = "dynamo-cost" -> dynamo_cost(request, workers, running, residency)
    IN  {workers[i].id : i \in picks}

-----------------------------------------------------------------------------
(* Conductor: a set of <<context, prefix hash, instance>>, the context being *)
(* an identity scope and a block size.                                       *)

insert(table, ctx, hashes, instance) ==
    table \cup {<<ctx, h, instance>> : h \in ToSet(hashes)}

remove_instance(table, instance) == {t \in table : t[3] # instance}

\* The longest contiguous cached prefix.
query_overlap(table, ctx, hashes, instance) ==
    Max({n \in 0..Len(hashes) : \A i \in 1..n : <<ctx, hashes[i], instance>> \in table})

cost_with_overlap(blocks, running, overlap) == saturating_sub(blocks, overlap) + running

conductor_route(table, ctx, hashes, workers, running) ==
    LET cost(i) == cost_with_overlap(Len(hashes), running[workers[i].id],
                                     query_overlap(table, ctx, hashes, workers[i].id))
    IN  workers[first_min([i \in DOMAIN workers |-> <<cost(i), 0>>])].id
=============================================================================
