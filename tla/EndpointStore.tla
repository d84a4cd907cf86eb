--------------------------- MODULE EndpointStore ---------------------------
(***************************************************************************)
(* The bounded cache of per-peer connections, as functions of its state:   *)
(* the connection of each cached key, SIEVE's visited bits, the insertion  *)
(* order, SIEVE's hand (0-based), and the connections that were evicted    *)
(* while a transfer held them.                                             *)
(***************************************************************************)
EXTENDS Integers, Sequences, SequencesExt, FiniteSets, Functions

EmptyStore == [map |-> <<>>, visited |-> <<>>, order |-> <<>>, hand |-> 0, waiting |-> {}]

Cached(store) == DOMAIN store.map
Pooled(store) == Range(store.map) \cup store.waiting

hit(store, key) == [store EXCEPT !.visited[key] = TRUE]

\* What the hand finds: the position of the first entry, going round from the
\* hand, that was not used since the hand last passed it, and the entries whose
\* bit it cleared on the way.  A full round clears every bit and comes back.
sieve_victim(store) ==
    LET size == Len(store.order)
        from == IF store.hand >= size THEN 0 ELSE store.hand
        at(k) == (from + k) % size
        used(k) == k < size /\ store.visited[store.order[at(k) + 1]]
        steps == CHOOSE k \in 0..size : ~used(k) /\ \A i \in 0..(k - 1) : used(i)
    IN [at |-> at(steps), key |-> store.order[at(steps) + 1],
        spared |-> {store.order[at(k) + 1] : k \in 0..(steps - 1)}]

fifo_victim(store) == [at |-> 0, key |-> Head(store.order), spared |-> {}]

victim(store, policy) ==
    IF policy = "sieve" THEN sieve_victim(store) ELSE fifo_victim(store)

order_after(store, v) == RemoveAt(store.order, v.at + 1)

deferred(held, conn) == IF conn \in held THEN {conn} ELSE {}

(* `held` are the connections something outside the store refers to.         *)
evict_one(store, policy, held) ==
    LET v == victim(store, policy)
        left == Cached(store) \ {v.key}
    IN [map |-> Restrict(store.map, left),
        visited |-> [k \in left |-> store.visited[k] /\ k \notin v.spared],
        order |-> order_after(store, v),
        hand |-> IF policy = "sieve" THEN v.at ELSE store.hand,
        waiting |-> store.waiting \cup deferred(held, store.map[v.key])]

is_full(store, max_size) == Cardinality(Cached(store)) >= max_size

insert(store, key, conn, policy, max_size, held) ==
    LET room == IF is_full(store, max_size) THEN evict_one(store, policy, held) ELSE store
    IN [room EXCEPT !.map = (key :> conn) @@ @,
                    !.visited = (key :> FALSE) @@ @,
                    !.order = Append(@, key)]

reclaim(store, held) == [store EXCEPT !.waiting = @ \cap held]

(* The map, the visited bits and the order name the same keys, each key once *)
(* in the order, and there are never more than max_size of them; a           *)
(* connection is cached or parked, never both.                               *)
StoreConsistent(store, max_size) ==
    /\ Range(store.order) = Cached(store)
    /\ Len(store.order) = Cardinality(Cached(store))
    /\ DOMAIN store.visited = Cached(store)
    /\ Cardinality(Cached(store)) <= max_size
    /\ store.hand \in 0..max_size
    /\ Range(store.map) \cap store.waiting = {}
=============================================================================
