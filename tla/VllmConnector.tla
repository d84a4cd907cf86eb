--------------------------- MODULE VllmConnector ---------------------------
(***************************************************************************)
(* vLLM engines whose KV connector saves prompt prefixes to the store and  *)
(* loads them back, and the P/D proxy that sends a chat through a prefill  *)
(* engine and then a decode engine under one transfer id.                  *)
(*                                                                         *)
(* A prefix is the block-aligned part of a prompt, a sequence of tokens.   *)
(* It is kept under one key per layer and a manifest, put last.  The key   *)
(* names the tokens (content addressing) or a transfer id; no part of it   *)
(* is the identity.                                                        *)
(*                                                                         *)
(* vLLM (external): a step of an engine asks the connector about waiting   *)
(* requests, allocates blocks, has the metadata built, and runs a forward  *)
(* pass layer by layer; a request returns to its caller after the step, or *)
(* is preempted with a token more and scheduled again.  An exception in    *)
(* the connector ends the engine's process and with it all its requests;   *)
(* it starts again with a fresh connector.                                 *)
(*                                                                         *)
(* The store is the one of StoreCluster: put_start refuses a complete      *)
(* object and throws away one that is in flight, and put_end completes     *)
(* whichever object has the key.                                           *)
(***************************************************************************)
EXTENDS Integers, Sequences, SequencesExt, FiniteSets, TLC

CONSTANTS
    Setups,      \* deployments: roles and identity per engine, the proxy's two
                 \* engines, how many attention layers the model has, the calls
                 \* clients make, and a bound on the faults: engine deaths,
                 \* evictions, lost lookups, preemptions, proxy restarts
    BlockSize

VARIABLES
    setup,
    client,      \* per call: where it stands
    proxy,       \* [id_base, next_id]
    transfer,    \* per call: its transfer id
    req,         \* per request: [at, generated, resumed, kv]
    engine,      \* per engine: the connector's state and the forward pass
    kv_store,    \* key -> [identity, kv, complete, putter]
    evicted,     \* keys that were evicted
    overlapped,  \* keys that were put by two engines at once
    faults_seen

connectorVars == <<setup, client, proxy, transfer, req, engine, kv_store, evicted,
                   overlapped, faults_seen>>

Calls == DOMAIN setup.calls
Layers == setup.layers
EngineIds == DOMAIN setup.roles
Requests == Calls \X {"direct", "prefill", "decode"}
Home(r) == CASE r[2] = "direct" -> setup.calls[r[1]].via
             [] r[2] = "prefill" -> setup.prefill
             [] r[2] = "decode" -> setup.decode
Prompt(r) == setup.calls[r[1]].prompt
all_token_ids(r) == Prompt(r) \o req[r].generated
identity(e) == setup.roles[e].identity

Manifest == 0
Blank == <<-1>>    \* a buffer that was never written

-----------------------------------------------------------------------------
(* Keys.                                                                     *)

align_to_block_size(n) == IF n = 0 THEN 0 ELSE ((n - 1) \div BlockSize) * BlockSize
prefix_of(tokens) == SubSeq(tokens, 1, align_to_block_size(Len(tokens)))

prefix_hash(tokens) == prefix_of(tokens)

content_prefix(tokens) == <<"qc", prefix_hash(tokens)>>
pd_prefix(r) == <<"qc-pd", transfer[r[1]]>>
layer_key(prefix, l) == <<prefix, l>>
manifest_key(prefix) == <<prefix, Manifest>>

(* get_replica_list: complete and of the same identity.                      *)
readable(e, k) ==
    /\ k \in DOMAIN kv_store
    /\ kv_store[k].complete /\ kv_store[k].identity = identity(e)

fault_free == faults_seen' = faults_seen
faulted == faults_seen < setup.faults /\ faults_seen' = faults_seen + 1

-----------------------------------------------------------------------------
Resting ==
    [at |-> "scheduling", scheduled |-> <<>>, need_load |-> {}, disagg_save |-> {},
     disagg_load |-> {}, ops |-> <<>>, layer |-> 1, fetches |-> <<>>, got |-> <<>>,
     puts |-> <<>>, put_at |-> "start"]

ConnectorInit ==
    /\ setup \in Setups
    /\ client = [i \in Calls |-> "new"]
    /\ proxy = [id_base |-> 0, next_id |-> 0]
    /\ transfer = [i \in Calls |-> <<>>]
    /\ req = [r \in Requests |-> [at |-> "none", generated |-> <<>>, kv |-> <<>>]]
    /\ engine = [e \in EngineIds |-> Resting]
    /\ kv_store = <<>>
    /\ evicted = {} /\ overlapped = {} /\ faults_seen = 0

arrive(r) == req' = [req EXCEPT ![r].at = "waiting"]

(* An exception, or the death of the process for another reason.             *)
fail(e) ==
    /\ engine' = [engine EXCEPT ![e] = Resting]
    /\ req' = [r \in Requests |->
                 IF Home(r) = e /\ req[r].at \notin {"none", "done", "failed"}
                 THEN [req[r] EXCEPT !.at = "failed"] ELSE req[r]]

die(e) ==
    /\ \E r \in Requests : Home(r) = e /\ req[r].at \in {"waiting", "scheduled", "ran"}
    /\ faulted /\ fail(e)
    /\ UNCHANGED <<setup, client, proxy, transfer, kv_store, evicted, overlapped>>

-----------------------------------------------------------------------------
(* Clients and the proxy.                                                    *)

send_direct(i) ==
    /\ client[i] = "new" /\ setup.calls[i].via # "proxy"
    /\ client' = [client EXCEPT ![i] = "direct"]
    /\ arrive(<<i, "direct">>)
    /\ fault_free
    /\ UNCHANGED <<setup, proxy, transfer, engine, kv_store, evicted, overlapped>>

\* Faulty: the counter stays.
minted_same == proxy.next_id
minted == proxy.next_id + 1

(* chat: mint_transfer_id, then the prefill engine.                          *)
chat(i) ==
    /\ client[i] = "new" /\ setup.calls[i].via = "proxy"
    /\ client' = [client EXCEPT ![i] = "prefill"]
    /\ transfer' = [transfer EXCEPT ![i] = <<proxy.id_base, proxy.next_id>>]
    /\ proxy' = [proxy EXCEPT !.next_id = minted]
    /\ arrive(<<i, "prefill">>)
    /\ fault_free
    /\ UNCHANGED <<setup, engine, kv_store, evicted, overlapped>>

\* Faulty: goes on to the decode engine without awaiting the prefill.
prefill_awaited_sent(i) == req[<<i, "prefill">>].at # "failed"
prefill_awaited(i) == req[<<i, "prefill">>].at = "done"

(* chat: the prefill has returned, then the decode engine.                   *)
chat_decode(i) ==
    /\ client[i] = "prefill" /\ prefill_awaited(i)
    /\ client' = [client EXCEPT ![i] = "decode"]
    /\ arrive(<<i, "decode">>)
    /\ fault_free
    /\ UNCHANGED <<setup, proxy, transfer, engine, kv_store, evicted, overlapped>>

upstream_failed(i) ==
    /\ client[i] \in {"direct", "prefill", "decode"}
    /\ req[<<i, client[i]>>].at = "failed"

(* BAD_GATEWAY, or the engine's own connection breaking.                     *)
bad_gateway(i) ==
    /\ upstream_failed(i)
    /\ client' = [client EXCEPT ![i] = "error"]
    /\ fault_free
    /\ UNCHANGED <<setup, proxy, transfer, req, engine, kv_store, evicted, overlapped>>

answer(i) ==
    /\ client[i] \in {"direct", "decode"} /\ req[<<i, client[i]>>].at = "done"
    /\ client' = [client EXCEPT ![i] = "answered"]
    /\ fault_free
    /\ UNCHANGED <<setup, proxy, transfer, req, engine, kv_store, evicted, overlapped>>

(* The proxy starts again, with a later id_base; its clients lose their      *)
(* connections, the engines go on with what they have.                       *)
proxy_restart ==
    /\ faulted /\ \E i \in Calls : client[i] \in {"prefill", "decode"}
    /\ proxy' = [id_base |-> proxy.id_base + 1, next_id |-> 0]
    /\ client' = [i \in Calls |-> IF client[i] \in {"prefill", "decode"} THEN "error"
                                                                         ELSE client[i]]
    /\ UNCHANGED <<setup, transfer, req, engine, kv_store, evicted, overlapped>>

-----------------------------------------------------------------------------
(* The scheduler's side.  No token is computed when a request is asked about *)
(* (the engines run without a prefix cache of their own).                    *)

remote_prefill(e, r) == setup.roles[e].consumer /\ r[2] = "decode"
remote_decode(e, r) == setup.roles[e].producer /\ r[2] = "prefill"

(* get_num_new_matched_tokens: does the store serve the prompt's prefix?     *)
(* A transfer id is trusted, content is looked up; a lookup that is lost     *)
(* counts as a miss.                                                         *)
matched(e, r, lost) ==
    /\ align_to_block_size(Len(Prompt(r))) > 0
    /\ \/ remote_prefill(e, r)
       \/ ~lost /\ readable(e, manifest_key(content_prefix(Prompt(r))))

(* get_num_new_matched_tokens and, if blocks could be allocated,             *)
(* update_state_after_alloc.                                                 *)
schedule(e, r, allocated, lost) ==
    /\ engine[e].at = "scheduling" /\ Home(r) = e /\ req[r].at = "waiting"
    /\ IF lost THEN faulted /\ ~remote_prefill(e, r) ELSE fault_free
    /\ LET hit == matched(e, r, lost)
           only(c) == IF c THEN {r} ELSE {}
       IN  engine' = [engine EXCEPT
             ![e].disagg_load = @ \cup only(hit /\ remote_prefill(e, r)),
             ![e].disagg_save = @ \cup only(allocated /\ remote_decode(e, r)),
             ![e].need_load = @ \cup only(allocated /\ hit),
             ![e].scheduled = IF allocated THEN Append(@, r) ELSE @]
    /\ req' = [req EXCEPT ![r].at = IF allocated THEN "scheduled" ELSE @]
    /\ UNCHANGED <<setup, client, proxy, transfer, kv_store, evicted, overlapped>>

Resumed(r) == req[r].generated # <<>>
Op(r, is_store, prefix, tokens) ==
    <<[req |-> r, is_store |-> is_store, prefix |-> prefix, tokens |-> prefix_of(tokens)]>>

(* What build_connector_meta adds for a request: of a new one its prompt, of *)
(* a resumed one all its tokens.                                             *)
op_for(e, r, lost) ==
    LET st == engine[e]
        content == content_prefix(all_token_ids(r))
    IN  IF r \in st.disagg_save /\ ~Resumed(r)
        THEN Op(r, TRUE, pd_prefix(r), Prompt(r))
        ELSE IF r \in st.disagg_load /\ (Resumed(r) => r \in st.need_load)
        THEN Op(r, FALSE, pd_prefix(r), all_token_ids(r))
        ELSE IF r \in st.need_load
        THEN Op(r, FALSE, content, all_token_ids(r))
        ELSE IF ~Resumed(r) /\ (lost \/ ~readable(e, manifest_key(content)))
        THEN Op(r, TRUE, content, Prompt(r))
        ELSE <<>>

new_then_cached(s) ==
    SelectSeq(s, LAMBDA r : ~Resumed(r)) \o SelectSeq(s, Resumed)
ops_of(e, lost) ==
    FlattenSeq([n \in DOMAIN engine[e].scheduled |->
                  op_for(e, new_then_cached(engine[e].scheduled)[n], lost)])
loads(ops) == SelectSeq(ops, LAMBDA op : ~op.is_store)
stores(ops) == SelectSeq(ops, LAMBDA op : op.is_store)

left_after_build(e) == {}

Fetch(op, l) == [req |-> op.req, key |-> layer_key(op.prefix, l)]
(* start_load_kv: one fetch per load and layer, in this order.               *)
fetches_of(ops) ==
    FlattenSeq([n \in DOMAIN loads(ops) |-> [l \in 1..Layers |-> Fetch(loads(ops)[n], l)]])

(* build_connector_meta, with the assertion at its end, and start_load_kv.   *)
build_connector_meta(e, lost) ==
    /\ engine[e].at = "scheduling" /\ engine[e].scheduled # <<>>
    /\ IF lost THEN faulted ELSE fault_free
    /\ LET ops == ops_of(e, lost)
       IN  IF Len(loads(ops)) = Cardinality(engine[e].need_load)
           THEN /\ engine' = [engine EXCEPT ![e] =
                     [Resting EXCEPT !.at = "loading", !.scheduled = engine[e].scheduled,
                                     !.need_load = left_after_build(e),
                                     !.ops = ops, !.fetches = fetches_of(ops)]]
                /\ UNCHANGED req
           ELSE fail(e)
    /\ UNCHANGED <<setup, client, proxy, transfer, kv_store, evicted, overlapped>>

-----------------------------------------------------------------------------
(* The worker's side.                                                        *)

(* _get_bytes on the one fetch thread.                                       *)
get_bytes(e) ==
    /\ engine[e].fetches # <<>>
    /\ LET f == Head(engine[e].fetches)
           bytes == IF readable(e, f.key) THEN <<kv_store[f.key].kv>> ELSE <<>>
       IN  engine' = [engine EXCEPT ![e].fetches = Tail(@), ![e].got = @ @@ (f :> bytes)]
    /\ fault_free
    /\ UNCHANGED <<setup, client, proxy, transfer, req, kv_store, evicted, overlapped>>

fetch_result(e, f) == {engine[e].got[g] : g \in {f} \cap DOMAIN engine[e].got}

\* Bytes nobody wrote are taken for KV: what they decode to is chance.
fits(bytes, tokens) == bytes \in {<<>>, <<Blank>>} \/ Len(bytes[1]) = Len(tokens)

(* Wait for the fetches of the layer and inject them; a miss leaves the      *)
(* request's slots as they are, bytes of another length raise.               *)
wait_for_layer_load(e) ==
    /\ engine[e].at = "loading" /\ engine[e].layer <= Layers
    /\ LET l == engine[e].layer
           todo == ToSet(loads(engine[e].ops))
           saves == stores(engine[e].ops)
           result(op) == fetch_result(e, Fetch(op, l))
           mine(r) == {op \in todo : op.req = r}
       IN  /\ \A op \in todo : result(op) # {}
           /\ IF \A op \in todo : \A bytes \in result(op) : fits(bytes, op.tokens)
              THEN /\ req' = [r \in Requests |-> [req[r] EXCEPT
                         !.kv = @ \o SetToSeq(UNION {result(op) : op \in mine(r)})]]
                   /\ engine' = [engine EXCEPT
                         ![e].at = "saving",
                         ![e].puts = [n \in DOMAIN saves |->
                            [key |-> layer_key(saves[n].prefix, l), kv |-> saves[n].tokens]]]
              ELSE fail(e)
    /\ fault_free
    /\ UNCHANGED <<setup, client, proxy, transfer, kv_store, evicted, overlapped>>

(* _put_bytes, of a layer in save_kv_layer or of a manifest in               *)
(* wait_for_save.                                                            *)
put_start(e) ==
    /\ engine[e].puts # <<>> /\ engine[e].put_at = "start"
    /\ LET k == Head(engine[e].puts).key
           taken == k \in DOMAIN kv_store
       IN  IF taken /\ kv_store[k].complete
           THEN fail(e) /\ UNCHANGED <<kv_store, overlapped>>
           ELSE /\ kv_store' = (k :> [identity |-> identity(e), kv |-> Blank,
                                      complete |-> FALSE, putter |-> e]) @@ kv_store
                /\ overlapped' = IF taken THEN overlapped \cup {k} ELSE overlapped
                /\ engine' = [engine EXCEPT ![e].put_at = "end"]
                /\ UNCHANGED req
    /\ fault_free
    /\ UNCHANGED <<setup, client, proxy, transfer, evicted>>

(* The write, and put_end behind it.  The write goes to the buffer put_start *)
(* returned, which is the object's only while no other put_start has come in *)
(* between; put_end completes whichever object has the key, and raises if    *)
(* there is none (ObjectNotFound).                                           *)
put_end(e) ==
    /\ engine[e].put_at = "end"
    /\ LET p == Head(engine[e].puts)
           ours == p.key \in DOMAIN kv_store /\ kv_store[p.key].putter = e
       IN  IF p.key \in DOMAIN kv_store
           THEN /\ kv_store' = [kv_store EXCEPT ![p.key].complete = TRUE,
                                                ![p.key].kv = IF ours THEN p.kv ELSE @]
                /\ engine' = [engine EXCEPT ![e].put_at = "start", ![e].puts = Tail(@)]
                /\ UNCHANGED req
           ELSE fail(e) /\ UNCHANGED kv_store
    /\ fault_free
    /\ UNCHANGED <<setup, client, proxy, transfer, evicted, overlapped>>

manifests(e) ==
    LET saves == stores(engine[e].ops)
    IN  SetToSeq({[key |-> manifest_key(saves[n].prefix), kv |-> <<>>] : n \in DOMAIN saves})

saved(e) == engine[e].at = "saving" /\ engine[e].puts = <<>>

(* On to the next layer.                                                     *)
layer_saved(e) ==
    /\ saved(e) /\ engine[e].layer < Layers
    /\ engine' = [engine EXCEPT ![e].at = "loading", ![e].layer = @ + 1]
    /\ fault_free
    /\ UNCHANGED <<setup, client, proxy, transfer, req, kv_store, evicted, overlapped>>

wait_for_save(e) ==
    /\ saved(e) /\ engine[e].layer = Layers
    /\ engine' = [engine EXCEPT ![e].layer = @ + 1, ![e].puts = manifests(e)]
    /\ fault_free
    /\ UNCHANGED <<setup, client, proxy, transfer, req, kv_store, evicted, overlapped>>

step_ends(e) ==
    /\ saved(e) /\ engine[e].layer > Layers
    /\ req' = [r \in Requests |-> IF r \in ToSet(engine[e].scheduled)
                                  THEN [req[r] EXCEPT !.at = "ran"] ELSE req[r]]
    /\ engine' = [engine EXCEPT ![e] = [Resting EXCEPT !.need_load = engine[e].need_load]]
    /\ fault_free
    /\ UNCHANGED <<setup, client, proxy, transfer, kv_store, evicted, overlapped>>

(* request_finished: the blocks are free at once, and the caller is answered.*)
request_finished(r) ==
    /\ req[r].at = "ran"
    /\ req' = [req EXCEPT ![r].at = "done"]
    /\ fault_free
    /\ UNCHANGED <<setup, client, proxy, transfer, engine, kv_store, evicted, overlapped>>

(* A request that decodes on loses its blocks and waits again.               *)
preempt(r) ==
    /\ req[r].at = "ran" /\ r[2] # "prefill" /\ faulted
    /\ \E more \in {<<0>>, <<0, 0>>} :
         req' = [req EXCEPT ![r] = [at |-> "waiting", generated |-> @.generated \o more,
                                    kv |-> <<>>]]
    /\ UNCHANGED <<setup, client, proxy, transfer, engine, kv_store, evicted, overlapped>>

(* The store evicts a complete object.                                       *)
evict(k) ==
    /\ kv_store[k].complete /\ faulted
    /\ kv_store' = [j \in DOMAIN kv_store \ {k} |-> kv_store[j]]
    /\ evicted' = evicted \cup {k}
    /\ UNCHANGED <<setup, client, proxy, transfer, req, engine, overlapped>>

-----------------------------------------------------------------------------
EngineStep(e) ==
    \/ \E r \in Requests : schedule(e, r, TRUE, FALSE)
    \/ build_connector_meta(e, FALSE)
    \/ get_bytes(e) \/ wait_for_layer_load(e)
    \/ put_start(e) \/ put_end(e)
    \/ layer_saved(e) \/ wait_for_save(e) \/ step_ends(e)
    \/ \E r \in Requests : Home(r) = e /\ request_finished(r)
ProxyStep(i) == chat_decode(i) \/ bad_gateway(i) \/ answer(i)

\* Everything that brings a call nearer to its answer.
ConnectorSteps ==
    (\E e \in EngineIds : EngineStep(e)) \/ (\E i \in Calls : ProxyStep(i))

ConnectorNext ==
    \/ ConnectorSteps
    \/ \E e \in EngineIds :
         \/ die(e) \/ build_connector_meta(e, TRUE)
         \/ \E r \in Requests, allocated, lost \in BOOLEAN :
              (allocated => lost) /\ schedule(e, r, allocated, lost)
    \/ \E i \in Calls : send_direct(i) \/ chat(i)
    \/ \E r \in Requests : preempt(r)
    \/ \E k \in DOMAIN kv_store : evict(k)
    \/ proxy_restart

-----------------------------------------------------------------------------
(* The KV a request runs on in place of computing it is that of its own      *)
(* prefix, in every layer the forward pass has come to, whoever saved it and *)
(* whenever: except where the key was evicted, where two engines put it at   *)
(* the same time, and where a resumed request has grown past a block and     *)
(* looks under a key nobody has vouched for.                                 *)
LoadedIsOwnPrefix ==
    \A e \in EngineIds :
      \A op \in ToSet(loads(engine[e].ops)) :
        \A l \in DOMAIN req[op.req].kv :
          \/ req[op.req].kv[l] = <<op.tokens>>
          \/ layer_key(op.prefix, l) \in evicted \cup overlapped
          \/ op.tokens # prefix_of(Prompt(op.req))

(* The assertion of build_connector_meta, that as many loads are built as    *)
(* were promised, holds of every batch the scheduler can put together,       *)
(* unless a prefill for a remote decode also has its content in the store.   *)
PromisedLoadsBuilt ==
    \A e \in EngineIds :
      engine[e].at = "scheduling" =>
        \/ Len(loads(ops_of(e, FALSE))) = Cardinality(engine[e].need_load)
        \/ engine[e].disagg_save \cap engine[e].need_load # {}

(* Where nothing goes wrong, an engine fails a request only if a call that   *)
(* does not come through the proxy shares its aligned prefix, be it empty,   *)
(* with another: calls through the proxy never get in each other's way.      *)
FailuresProvoked ==
    faults_seen = 0 /\ (\E r \in Requests : req[r].at = "failed") =>
      \E i, j \in Calls :
        /\ i # j /\ setup.calls[i].via # "proxy"
        /\ prefix_of(setup.calls[i].prompt) = prefix_of(setup.calls[j].prompt)

(* No call is stuck: while one is under way an engine or the proxy can bring *)
(* it nearer to its answer, whatever was evicted, lost or died on the way.   *)
(* Such a step cannot be undone but by a fault, so a call is answered, with  *)
(* an error if need be, if engines and proxy go on.                          *)
NoCallStuck ==
    (\E i \in Calls : client[i] \in {"direct", "prefill", "decode"})
      => ENABLED ConnectorSteps

(* A call is answered, and well unless something provoked the error: no call *)
(* is stuck, the scheduler's promises are kept, and requests fail only where *)
(* prefixes are shared outside the proxy.                                    *)
AnsweredOrProvoked == PromisedLoadsBuilt /\ FailuresProvoked /\ NoCallStuck
=============================================================================
