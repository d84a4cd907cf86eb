---------------------------- MODULE MCBackplane ----------------------------
(***************************************************************************)
(* The parts of Backplane on small instances.                              *)
(***************************************************************************)
EXTENDS Backplane

\* Slices with and without a remainder, of size 0 and of nothing; layers of equal
\* and of uneven sizes, with an empty layer, one after the other and all at once.
MCJobs ==
    {run_slices(total, size, max) : total \in {0, 5}, size \in {0, 2}, max \in {0, 2}}
      \cup {run_layers_with_notify(sizes, max) :
              sizes \in {<<>>, <<2, 1, 0, 2>>}, max \in {1, 2, 3}}

\* The pool of rdma.rs, FIFO and never reclaimed, with faults; and a SIEVE pool
\* whose owner reclaims, long enough for a second chance.
MCPoolKinds ==
    {[endpoints |-> 1..2, policy |-> "fifo", max_size |-> 1, reclaims |-> FALSE,
      faults |-> 2, calls |-> 3],
     [endpoints |-> 1..3, policy |-> "sieve", max_size |-> 2, reclaims |-> TRUE,
      faults |-> 0, calls |-> 4]}

MCLocalData == <<1, 2>>
MCBuffers == {<<0, 0>>}

\* Write the first buffer behind the peer's own and read it back behind ours; read
\* the peer's buffer through the second handle.
MCReqLists ==
    {<<[op |-> "write", src |-> 0, target |-> 1, off |-> 2, len |-> 2],
       [op |-> "read",  src |-> 2, target |-> 1, off |-> 2, len |-> 2]>>,
     <<[op |-> "read",  src |-> 0, target |-> 2, off |-> 0, len |-> 2]>>}

\* Every row tells one key from the other two, which share a counter in it.
MCHashes ==
    LET apart(k) == [j \in SketchKeys |-> IF j = k THEN 1 ELSE 0]
    IN  [Rows -> {apart(k) : k \in SketchKeys}]

\* Two engines of one pool that serve each other's prefixes; two tenants with the same
\* prompt; chats through the proxy; and a prefill engine that also serves directly.
MCSetups ==
    LET role(p, c, i) == [producer |-> p, consumer |-> c, identity |-> i]
        both == [a |-> role(TRUE, TRUE, "t"), b |-> role(TRUE, TRUE, "t")]
        split == [a |-> role(TRUE, FALSE, "t"), b |-> role(FALSE, TRUE, "t")]
        tenants == [both EXCEPT !.b.identity = "u"]
        call(via, prompt) == [via |-> via, prompt |-> prompt]
        deployment(roles, n, max, x, y) ==
          [roles |-> roles, prefill |-> "a", decode |-> "b", layers |-> n,
           faults |-> max, calls |-> <<x, y>>]
        long == <<1, 2, 3, 4, 5>>
        other == <<1, 2, 6, 7, 5>>
    IN  {deployment(both, 2, 1, call("a", long), call("b", long)),
         deployment(both, 1, 1, call("a", long), call("a", other)),
         deployment(tenants, 1, 0, call("a", long), call("b", long)),
         deployment(split, 2, 1, call("proxy", long), call("proxy", other)),
         deployment(split, 1, 1, call("a", long), call("proxy", long)),
         deployment(both, 1, 0, call("a", <<1>>), call("b", <<2, 1>>))}
=============================================================================
