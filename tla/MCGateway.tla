----------------------------- MODULE MCGateway ------------------------------
(* Instances of Gateway for TLC. *)
EXTENDS Gateway

MCHash(s) == IF s \in {<<"s">>, <<"h1">>} THEN 0 ELSE 1

MCCapacity == [hbm |-> 8, cpu_dram |-> 4, local_ssd |-> 4]

Engine(id, role, domain) ==
    [id |-> id, role |-> role, domain |-> domain, model |-> "m", tokenizer |-> "m",
     tenant |-> "default"]
Pair == <<Engine("w1", "aggregated", "d1"), Engine("w2", "aggregated", "d2")>>
Trio == <<Engine("w1", "prefill", "d1"), Engine("w2", "decode", "d1"), Engine("w3", "decode", "d2")>>

NoHints == [model |-> None, tokenizer |-> None, adapter |-> None, tenant |-> None,
            session |-> None, block_hashes |-> <<>>, block_tokens |-> None,
            decode_tokens |-> None]
h1 == <<"h1">>
h2 == <<"h2">>
Payload(hints, prompt) ==
    [model |-> "m", max_tokens |-> None, prompt |-> prompt, body |-> "b", hints |-> hints]
Hinted(hashes) == Payload([NoHints EXCEPT !.block_hashes = hashes], <<>>)
Chunk(c, n) == [content |-> c, chars |-> n]
Text == Payload(None, <<Chunk("a", 256), Chunk("b", 8)>>)
\* Another tenant's request for the same content, and one that misses its SLO.
Foreign == Payload([NoHints EXCEPT !.block_hashes = <<h1>>, !.tenant = "other"], <<>>)
Long == Payload([NoHints EXCEPT !.block_hashes = <<h1>>, !.decode_tokens = 1000], <<>>)
Turn(session, hashes) ==
    Payload([NoHints EXCEPT !.block_hashes = hashes, !.session = <<session>>], <<>>)
\* A session without hashes: its prefix is the root, its home the session's.
Chat == Payload([NoHints EXCEPT !.session = <<"s">>], <<Chunk("a", 256)>>)

Batch(engine, events) ==
    [engine |-> engine, model |-> None, tokenizer |-> None, tenant |-> None, adapter |-> None,
     bytes |-> None, events |-> events]
Stored(hashes, medium, lora) ==
    [kind |-> "stored", hashes |-> hashes, parent |-> None, size |-> 64, medium |-> medium,
     lora |-> lora, bytes |-> None]
Removed(hashes) == [kind |-> "removed", hashes |-> hashes]
Cleared == [kind |-> "cleared"]

Store1 == Batch("w1", <<Stored(<<h1, h2>>, "gpu", None)>>)
Store2 == Batch("w2", <<Stored(<<h1>>, "disk", None)>>)
Disk1 == Batch("w1", <<Stored(<<h1>>, "disk", None)>>)
Remove1 == Batch("w1", <<Removed(<<h1>>)>>)
Clear1 == Batch("w1", <<Cleared>>)
Lora1 == Batch("w1", <<Stored(<<h1>>, "gpu", "lora"), Removed(<<h1>>)>>)
Churn1 == Batch("w1", <<Stored(<<h1, h2, <<"h3">>>>, None, None), Removed(<<h2>>)>>)

Slow == [first_us |-> 30000, full_us |-> 90000, overlap_us |-> 10000, queue_depth |-> 16]
Calm == [first_us |-> None, full_us |-> 1000, overlap_us |-> 900, queue_depth |-> None]

Base == [backend |-> "memory", plane |-> "none", policy |-> "greedy", conductor |-> FALSE,
         sink |-> "none", cancels |-> FALSE, engines |-> Pair, requests |-> 2,
         payloads |-> {Hinted(<<h1, h2>>)}, batches |-> <<Store1, Remove1>>, telemetry |-> {},
         ttfts |-> {}]

MCConfigs ==
    {[Base EXCEPT !.payloads = {Hinted(<<h1, h2>>), Foreign}, !.cancels = TRUE,
                  !.batches = <<Store1, Store2, Remove1, Clear1, Lora1>>],
     [Base EXCEPT !.plane = "store", !.sink = "fail_open", !.payloads = {Hinted(<<h1, h2>>), Text},
                  !.batches = <<Store1, Churn1, Remove1>>],
     [Base EXCEPT !.backend = "holt", !.policy = "slo-aware", !.payloads = {Long, Foreign},
                  !.batches = <<Store1, Store2, Remove1>>],
     [Base EXCEPT !.backend = "rocksdb", !.policy = "dynamo-cost", !.sink = "fail_closed",
                  !.batches = <<Store1, Disk1, Remove1, Clear1>>],
     [Base EXCEPT !.policy = "session-affinity", !.requests = 3, !.batches = <<>>,
                  !.payloads = {Turn("s", <<h1>>), Turn("s", <<h1, h2>>), Turn("t", <<h1, h2>>), Chat}],
     [Base EXCEPT !.policy = "round-robin", !.engines = Trio, !.telemetry = {Slow, Calm},
                  !.ttfts = {100, 3000}],
     [Base EXCEPT !.policy = "least-loaded", !.engines = Trio, !.cancels = TRUE],
     [Base EXCEPT !.policy = "prefix-affinity", !.payloads = {Turn("s", <<h1>>), Text}],
     [Base EXCEPT !.conductor = TRUE, !.payloads = {Hinted(<<h1, h2>>), Foreign},
                  !.batches = <<Store1, Clear1>>]}
=============================================================================
