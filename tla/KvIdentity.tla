----------------------------- MODULE KvIdentity -----------------------------
(***************************************************************************)
(* The vocabulary of the control plane: identity scopes, block keys and    *)
(* residencies, engines and their roles, the cost model, and the two ways  *)
(* a request is turned into block keys.  Hashes are sequences: an engine's *)
(* or a hint's hash is <<"h">>, the gateway's own hash of a prompt prefix  *)
(* is the sequence of the chunks it covers, and "root" is the empty one.   *)
(* Bytes are counted in MiB, costs in microseconds.                        *)
(***************************************************************************)
EXTENDS Integers, Sequences, FiniteSetsExt

CONSTANTS
    None,                   \* an absent Option
    FALLBACK_MAX_BLOCKS     \* 64 in the code

Tiers == {"hbm", "remote_hbm", "cpu_dram", "local_ssd", "object_store"}

\* CacheTier::from_str over the media an event may name, one alias per tier.
from_str(medium) ==
    CASE medium = "gpu" -> "hbm"
      [] medium = "remote_gpu" -> "remote_hbm"
      [] medium = "cpu" -> "cpu_dram"
      [] medium = "disk" -> "local_ssd"
      [] medium = "s3" -> "object_store"
      [] OTHER -> None

or_else(option, default) == IF option = None THEN default ELSE option

root == <<>>

Scope(model, tokenizer, adapter, tenant) ==
    [model |-> model, tokenizer |-> tokenizer, adapter |-> adapter, tenant |-> tenant]

Block(scope, prefix, hash, index, tokens) ==
    [scope |-> scope, prefix |-> prefix, hash |-> hash, index |-> index, tokens |-> tokens]

Resident(key, worker, tier, bytes) ==
    [key |-> key, worker |-> worker, tier |-> tier, bytes |-> bytes]

hbm(worker, key, bytes) == Resident(key, worker, "hbm", bytes)

\* IdentityScope::reuse_violation: the first axis on which two identities differ.
reuse_violation(a, b) ==
    CASE a.model # b.model -> "Model"
      [] a.tokenizer # b.tokenizer -> "Tokenizer"
      [] a.adapter # b.adapter -> "Adapter"
      [] a.tenant # b.tenant -> "Tenant"
      [] OTHER -> None

scope_matches(scope, key) == reuse_violation(scope, key.scope) = None

can_prefill(role) == role \in {"aggregated", "prefill"}
can_decode(role) == role \in {"aggregated", "decode"}

-----------------------------------------------------------------------------
(* CostModel::default and its formulas.                                      *)

prefill_cost_us(tokens) == 45 * tokens

decode_cost_us(tokens, running) == 80 * tokens + 1500 * running

\* WorkerState::new starts with an empty prefill queue and nothing on the live
\* path ever fills it.
queued_prefill_tokens == 0

queue_cost_us == 4 * queued_prefill_tokens

us_per_mb(tier) ==
    CASE tier \in {"hbm", "remote_hbm"} -> 20
      [] tier = "cpu_dram" -> 55
      [] tier = "local_ssd" -> 280
      [] tier = "object_store" -> 1800

transfer_cost_us(tier, bytes, same_worker, same_domain) ==
    IF same_worker /\ tier = "hbm"
    THEN 5
    ELSE us_per_mb(tier) * Max({bytes, 1})
         + (IF same_worker \/ same_domain THEN 0 ELSE 350)

\* SloTarget::default, in microseconds.
ttft_budget_us == 800000
tpot_budget_us == 80000
saturating_sub(a, b) == Max({a - b, 0})

-----------------------------------------------------------------------------
(* From a request to its blocks.                                             *)

\* A chain of keys: every block's prefix is the hash of the one before it.
chain(scope, parent, hashes, tokens) ==
    [i \in 1..Len(hashes) |->
        Block(scope, IF i = 1 THEN parent ELSE hashes[i - 1], hashes[i], i - 1, tokens[i])]

\* RequestKvHints::to_blocks: what the hints leave out comes from the request.
to_blocks(hints, model, tokenizer, tenant) ==
    LET scope == Scope(or_else(hints.model, model), or_else(hints.tokenizer, tokenizer),
                       hints.adapter, or_else(hints.tenant, tenant))
        tokens == [i \in DOMAIN hints.block_hashes |-> or_else(hints.block_tokens, 64)]
    IN  chain(scope, or_else(hints.session, root), hints.block_hashes, tokens)

\* The hash of a chunk covers the prompt up to and including the chunk.
chunk_hashes(text) == [i \in 1..Len(text) |-> [j \in 1..i |-> text[j].content]]

\* fallback_blocks: a prompt is a sequence of chunks of at most 256 characters,
\* cut at FALLBACK_MAX_BLOCKS; a payload without text is one block, hashed whole.
fallback_blocks(payload, tokenizer, tenant) ==
    LET scope == Scope(payload.model, tokenizer, None, tenant)
        text == SubSeq(payload.prompt, 1, Min({Len(payload.prompt), FALLBACK_MAX_BLOCKS}))
        tokens == [i \in DOMAIN text |-> Max({(text[i].chars + 3) \div 4, 1})]
    IN  IF text = <<>>
        THEN <<Block(scope, root, <<payload.body>>, 0, 64)>>
        ELSE chain(scope, root, chunk_hashes(text), tokens)

\* request_shape_from_payload: hints that name no hashes still give the identity
\* of the request, but its blocks are then the fallback's.
request_shape(payload) ==
    LET h == payload.hints
        hint(field) == IF h = None THEN None ELSE h[field]
        tokenizer == or_else(hint("tokenizer"), payload.model)
        tenant == or_else(hint("tenant"), "default")
    IN  [scope |-> Scope(payload.model, tokenizer, hint("adapter"), tenant),
         session |-> hint("session"),
         decode_tokens |-> or_else(hint("decode_tokens"), or_else(payload.max_tokens, 128)),
         blocks |-> IF h # None /\ hint("block_hashes") # <<>>
                    THEN to_blocks(h, payload.model, tokenizer, tenant)
                    ELSE fallback_blocks(payload, tokenizer, tenant)]
=============================================================================
