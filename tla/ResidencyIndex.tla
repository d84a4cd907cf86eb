--------------------------- MODULE ResidencyIndex ---------------------------
(***************************************************************************)
(* The residency index: which worker and tier hold which block.  Three     *)
(* backends answer the same calls.  The memory backend keeps the records   *)
(* by block key, with two reverse maps; Holt and RocksDB keep a primary    *)
(* record per encoded key and one reverse record pointing at it.  An index *)
(* is a value, every call an operator on it; lists come back as sets, as   *)
(* no caller may rely on their order.                                      *)
(*                                                                         *)
(* A reverse map of the memory backend files a key under its own scope and *)
(* hash, and a reverse record of the others determines the primary key it  *)
(* points at, so each is the set of the keys it holds.                     *)
(***************************************************************************)
EXTENDS KvIdentity

empty_index(backend) ==
    [backend |-> backend, entries |-> {}, by_hash |-> {}, by_content_hash |-> {}]

\* The encoded scope cannot tell an absent adapter from an empty name.
enc_scope(scope) == [scope EXCEPT !.adapter = or_else(@, "")]

\* The primary key has no token count.
primary_key_for(r) ==
    [scope |-> enc_scope(r.key.scope), prefix |-> r.key.prefix, hash |-> r.key.hash,
     index |-> r.key.index, worker |-> r.worker, tier |-> r.tier]

-----------------------------------------------------------------------------
(* MemoryIndex.                                                              *)

memory_put(ix, r) ==
    [ix EXCEPT !.entries = {e \in @ : ~ (e.key = r.key /\ e.worker = r.worker /\ e.tier = r.tier)}
                           \cup {r},
               !.by_hash = @ \cup {r.key},
               !.by_content_hash = @ \cup {r.key}]

\* Faulty: the content map is not told of a key that lost its last record.
memory_drop_keeps_content(ix, gone) ==
    LET left == ix.entries \ gone
        emptied == {e.key : e \in gone} \ {e.key : e \in left}
    IN  [ix EXCEPT !.entries = left, !.by_hash = @ \ emptied]

\* Records go, and a key that lost its last record leaves both reverse maps.
memory_drop(ix, gone) ==
    LET left == ix.entries \ gone
        emptied == {e.key : e \in gone} \ {e.key : e \in left}
    IN  [ix EXCEPT !.entries = left,
                   !.by_hash = @ \ emptied,
                   !.by_content_hash = @ \ emptied]

memory_remove_block(ix, scope, worker, hash) ==
    LET candidates == {k \in ix.by_hash : k.scope = scope /\ k.hash = hash}
    IN  memory_drop(ix, {e \in ix.entries : e.key \in candidates /\ e.worker = worker})

memory_clear_worker(ix, worker) == memory_drop(ix, {e \in ix.entries : e.worker = worker})

-----------------------------------------------------------------------------
(* HoltIndex and RocksIndex: put is two writes, primary record first.        *)

kv_put_primary(ix, r) ==
    [ix EXCEPT !.entries = {e \in @ : primary_key_for(e) # primary_key_for(r)} \cup {r}]

kv_put(ix, r) ==
    [kv_put_primary(ix, r) EXCEPT !.by_hash = @ \cup {primary_key_for(r)}]

\* Faulty: a copy in a lower tier is left behind.
kv_remove_block_hbm(ix, scope, worker, hash) ==
    LET hits == {p \in ix.by_hash : /\ p.scope = enc_scope(scope) /\ p.hash = hash
                                    /\ p.worker = worker /\ p.tier = "hbm"}
    IN  [ix EXCEPT !.entries = {e \in @ : primary_key_for(e) \notin hits},
                   !.by_hash = @ \ hits]

\* The records to drop are found through the reverse records alone.
kv_remove_block(ix, scope, worker, hash) ==
    LET hits == {p \in ix.by_hash :
                    p.scope = enc_scope(scope) /\ p.hash = hash /\ p.worker = worker}
    IN  [ix EXCEPT !.entries = {e \in @ : primary_key_for(e) \notin hits},
                   !.by_hash = @ \ hits]

kv_clear_worker(ix, worker) ==
    LET to_delete == {e \in ix.entries : e.worker = worker}
    IN  [ix EXCEPT !.entries = @ \ to_delete,
                   !.by_hash = @ \ {primary_key_for(e) : e \in to_delete}]

kv_locate(ix, key) ==
    {e \in ix.entries :
        /\ enc_scope(e.key.scope) = enc_scope(key.scope)
        /\ <<e.key.prefix, e.key.hash, e.key.index>> = <<key.prefix, key.hash, key.index>>}

-----------------------------------------------------------------------------
(* The calls of the IndexBackend trait.                                      *)

is_memory(ix) == ix.backend = "memory"
persistent(ix) == ~is_memory(ix)

put(ix, r) == IF is_memory(ix) THEN memory_put(ix, r) ELSE kv_put(ix, r)

locate(ix, key) ==
    IF is_memory(ix) THEN {e \in ix.entries : e.key = key} ELSE kv_locate(ix, key)

prefix_scan(ix, scope, prefix) ==
    {e \in ix.entries :
        /\ e.key.prefix = prefix
        /\ IF is_memory(ix) THEN scope_matches(scope, e.key)
                            ELSE enc_scope(scope) = enc_scope(e.key.scope)}

remove_block(ix, scope, worker, hash) ==
    IF is_memory(ix) THEN memory_remove_block(ix, scope, worker, hash)
                     ELSE kv_remove_block(ix, scope, worker, hash)

clear_worker(ix, worker) ==
    IF is_memory(ix) THEN memory_clear_worker(ix, worker) ELSE kv_clear_worker(ix, worker)

\* The memory backend seeks its content map, the others filter a snapshot.
residency_by_content_hash(ix, hash) ==
    {e \in ix.entries : e.key.hash = hash /\ (is_memory(ix) => e.key \in ix.by_content_hash)}
=============================================================================
