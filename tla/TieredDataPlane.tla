-------------------------- MODULE TieredDataPlane ---------------------------
(***************************************************************************)
(* StoreDataPlane as the gateway uses it: per worker, the blocks it holds  *)
(* in HBM, DRAM and SSD, each with its last access.  The gateway never     *)
(* hands it bytes, so the byte pools stay empty and are left out.  The     *)
(* coldest block of a tier may be any of several equally cold ones (a hash *)
(* map decides), so every call returns the set of its possible outcomes,   *)
(* each with the DataPlaneUpdate the call reports.                         *)
(***************************************************************************)
EXTENDS KvIdentity

\* The configured budgets, in MiB.
CONSTANT Capacity

budgeted == <<"hbm", "cpu_dram", "local_ssd">>

lower_tier(tier) ==
    CASE tier = "hbm" -> "cpu_dram"
      [] tier = "cpu_dram" -> "local_ssd"
      [] OTHER -> None

tier_rank(tier) ==
    CASE tier = "hbm" -> 0
      [] tier = "remote_hbm" -> 1
      [] tier = "cpu_dram" -> 2
      [] tier = "local_ssd" -> 3
      [] tier = "object_store" -> 4

tier_bytes(entries, tier) ==
    MapThenSumSet(LAMBDA e : e.bytes, {e \in entries : e.tier = tier})

\* Faulty: the block used last goes first.
hottest_in_tier(entries, tier) ==
    LET there == {e \in entries : e.tier = tier}
    IN  {e \in there : \A d \in there : e.last >= d.last}

coldest_in_tier(entries, tier) ==
    LET there == {e \in entries : e.tier = tier}
    IN  {e \in there : \A d \in there : e.last <= d.last}

Action(kind, key, from, to) == [kind |-> kind, key |-> key, from |-> from, to |-> to]

demote(s, victim, now) ==
    [s EXCEPT !.entries = (@ \ {victim})
                  \cup {[victim EXCEPT !.tier = lower_tier(@), !.last = now]},
              !.actions = Append(@, Action("Demote", victim.key, victim.tier,
                                           lower_tier(victim.tier)))]

evict(s, victim) ==
    [s EXCEPT !.entries = @ \ {victim},
              !.actions = Append(@, Action("Evict", victim.key, victim.tier, None)),
              !.removed = @ \cup {victim}]

\* enforce_capacity: from the top, each tier sheds its coldest blocks into the
\* next until it fits; the lowest tier evicts.
RECURSIVE enforce_capacity(_, _, _)
enforce_capacity(s, tiers, now) ==
    IF tiers = <<>> THEN {s}
    ELSE LET tier == Head(tiers) IN
         IF tier_bytes(s.entries, tier) <= Capacity[tier]
         THEN enforce_capacity(s, Tail(tiers), now)
         ELSE UNION {enforce_capacity(shed, tiers, now) :
                shed \in {[IF lower_tier(tier) = None THEN evict(s, victim) ELSE demote(s, victim, now)
                          EXCEPT !.affected = @ \cup {victim.key}] :
                            victim \in coldest_in_tier(s.entries, tier)}}

\* Only the order of the accesses is ever read: the clock is kept as their rank.
ranked(entries) ==
    {[e EXCEPT !.last = Cardinality({d.last : d \in {x \in entries : x.last <= e.last}})] :
        e \in entries}

as_resident(worker, e) == Resident(e.key, worker, e.tier, e.bytes)

placement_kind(existing, tier) ==
    IF existing = {} THEN "Admit"
    ELSE LET from == (CHOOSE e \in existing : TRUE).tier
         IN  CASE from = tier -> "Hit"
               [] tier_rank(tier) < tier_rank(from) -> "Promote"
               [] OTHER -> "Demote"

\* place: the block goes to the tier it is reported in, as the newest access.
place(plane, r) ==
    LET w == r.worker
        now == Max({0} \cup {e.last : e \in plane[w]}) + 1
        existing == {e \in plane[w] : e.key = r.key}
        from == IF existing = {} THEN None ELSE (CHOOSE e \in existing : TRUE).tier
        placed == [entries |-> (plane[w] \ existing)
                       \cup {[key |-> r.key, tier |-> r.tier, bytes |-> r.bytes, last |-> now]},
                   actions |-> <<Action(placement_kind(existing, r.tier), r.key, from, r.tier)>>,
                   removed |-> {}, affected |-> {r.key}]
    IN  {[plane |-> [plane EXCEPT ![w] = ranked(s.entries)],
          actions |-> s.actions,
          removed |-> {as_resident(w, e) : e \in s.removed},
          resident |-> {as_resident(w, e) : e \in {x \in s.entries : x.key \in s.affected}}] :
            s \in UNION {enforce_capacity(p, budgeted, now) : p \in {placed}}}

\* remove_block and clear_worker: the entries go, and are reported removed.
drop_entries(plane, w, gone) ==
    [plane |-> [plane EXCEPT ![w] = ranked(@ \ gone)],
     actions |-> <<>>,
     removed |-> {as_resident(w, e) : e \in gone},
     resident |-> {}]

plane_remove_block(plane, scope, w, hash) ==
    {drop_entries(plane, w, {e \in plane[w] : e.key.hash = hash /\ scope_matches(scope, e.key)})}

plane_clear_worker(plane, w) == {drop_entries(plane, w, plane[w])}
=============================================================================
