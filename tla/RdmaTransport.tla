--------------------------- MODULE RdmaTransport ---------------------------
(***************************************************************************)
(* The RDMA transport: blocking workers that do one-sided operations       *)
(* through a bounded pool of connections, and the server threads that hold *)
(* the other end of each queue pair.                                       *)
(*                                                                         *)
(* A worker takes the pool's lock, finds the endpoint's connection or      *)
(* opens one with the lock held, and then runs its operation under that    *)
(* connection's own mutex.  Opening is a handshake over a side channel:    *)
(* the client sends its QP, the server sends its own and the segment's     *)
(* (addr, rkey), each connects its QP to the other's, and the server says  *)
(* "ready"; the server then keeps its QP until the side channel says done  *)
(* or closes.  A thread that returns an error closes its end of the        *)
(* channel; a QP that was created by then is not destroyed.                *)
(***************************************************************************)
EXTENDS EndpointStore, TLC

CONSTANTS
    PoolWorkers,   \* the threads of spawn_blocking
    PoolKinds,     \* pools: the peers' endpoints, the eviction policy, max_size,
                   \* whether the owner ever reclaims, and bounds on the faults and
                   \* on the calls of read_remote and write_remote
    MaxCalls       \* bound: the most calls of any pool

VARIABLES
    kind,      \* the pool
    store,     \* the EndpointStore, keyed by endpoint
    pool,      \* the worker inside the pool's lock, as a set of at most one
    worker,    \* what each worker does, and the connection it holds
    link,      \* per connection: both ends, and who is inside its mutex
    calls, faults

rdmaVars == <<kind, store, pool, worker, link, calls, faults>>

NoConn == 0
Conns == 1..Len(link)
Idler == [at |-> "idle", conn |-> NoConn]
Held == {worker[w].conn : w \in PoolWorkers} \ {NoConn}

RdmaInit ==
    /\ kind \in PoolKinds
    /\ store = EmptyStore /\ pool = {} /\ link = <<>>
    /\ worker = [w \in PoolWorkers |-> Idler]
    /\ calls = 0 /\ faults = 0

\* Something goes wrong, or nothing does.
fault == faults < kind.faults /\ faults' = faults + 1
no_fault == UNCHANGED faults

\* Drop: the client's QP goes, with a done byte, when nothing refers to it.
drop_unreferenced(l, referenced) ==
    [c \in DOMAIN l |-> IF l[c].client = "live" /\ c \notin referenced
                        THEN [l[c] EXCEPT !.client = "dropped"] ELSE l[c]]

-----------------------------------------------------------------------------
(* A worker gets its connection.                                             *)

(* pool_connect, hit: clone the connection, all under the pool's lock.       *)
pool_hit(w, e) ==
    /\ worker[w].at = "idle" /\ pool = {} /\ calls < kind.calls
    /\ e \in Cached(store)
    /\ store' = hit(store, e)
    /\ worker' = [worker EXCEPT ![w] = [at |-> "have", conn |-> store.map[e]]]
    /\ calls' = calls + 1
    /\ UNCHANGED <<kind, pool, link, faults>>

(* pool_connect, miss: connect the side channel and send the client's QP,    *)
(* keeping the lock.  (A refused channel changes nothing.)                   *)
pool_miss(w, e) ==
    /\ worker[w].at = "idle" /\ pool = {} /\ calls < kind.calls
    /\ e \notin Cached(store)
    /\ link' = Append(link, [ep |-> e, client |-> "hello", server |-> "accepted",
                             broken |-> FALSE, mutex |-> {}])
    /\ worker' = [worker EXCEPT ![w] = [at |-> "connecting", conn |-> Len(link) + 1]]
    /\ pool' = {w}
    /\ calls' = calls + 1
    /\ UNCHANGED <<kind, store, faults>>

(* The server's reply is there: bring the client's QP up to RTS.             *)
client_connect_qp(w) ==
    LET c == worker[w].conn IN
    /\ worker[w].at = "connecting"
    /\ link[c].client = "hello" /\ link[c].server \in {"replied", "ready", "gave_up"}
    /\ link' = [link EXCEPT ![c].client = "connected"]
    /\ UNCHANGED <<kind, store, pool, worker, calls, faults>>

\* Faulty: the client goes on as soon as its own QP is up.
said_ready_early(c) == link[c].server \in {"replied", "ready"}
said_ready(c) == link[c].server = "ready"

(* The ready byte is there: the connection is made and cached, an old one    *)
(* evicted if there is no room, and the lock released.                       *)
client_ready(w) ==
    LET c == worker[w].conn IN
    /\ worker[w].at = "connecting"
    /\ link[c].client = "connected" /\ said_ready(c)
    /\ store' = insert(store, link[c].ep, c, kind.policy, kind.max_size, Held \ {c})
    /\ link' = drop_unreferenced([link EXCEPT ![c].client = "live"], Pooled(store') \cup Held)
    /\ worker' = [worker EXCEPT ![w].at = "have"]
    /\ pool' = {}
    /\ UNCHANGED <<kind, calls, faults>>

\* Faulty: only a server that never answered closes its end.
channel_closed_unanswered(c) == link[c].server = "failed"
channel_closed(c) == link[c].server \in {"failed", "gave_up", "crashed"}

(* connect returns an error: a verb of its own failed, or the channel closed *)
(* before what it waits for.  Nothing is cached, the QP is not destroyed.    *)
connect_fails(w) ==
    LET c == worker[w].conn IN
    /\ worker[w].at = "connecting"
    /\ \/ link[c].client = "hello" /\ fault
       \/ channel_closed(c) /\ no_fault
    /\ link' = [link EXCEPT ![c].client = "leaked"]
    /\ worker' = [worker EXCEPT ![w] = Idler]
    /\ pool' = {}
    /\ UNCHANGED <<kind, store, calls>>

-----------------------------------------------------------------------------
(* The operation, and the server's threads.                                  *)

op_begins(w) ==
    LET c == worker[w].conn IN
    /\ worker[w].at = "have" /\ link[c].mutex = {}
    /\ link' = [link EXCEPT ![c].mutex = {w}]
    /\ worker' = [worker EXCEPT ![w].at = "op"]
    /\ UNCHANGED <<kind, store, pool, calls, faults>>

\* The completion of an operation: it can be good only over two live ends.
post_and_wait(c, ok) ==
    IF ok THEN ~link[c].broken /\ link[c].server = "ready" /\ no_fault
    ELSE IF link[c].broken \/ link[c].server # "ready" THEN no_fault ELSE fault

(* post_and_wait returns.  A failed completion leaves the QP in its error    *)
(* state, where every later operation fails as well; a failed registration   *)
(* does not.  The connection stays cached in either case.                    *)
op_ends(w, ok) ==
    LET c == worker[w].conn IN
    /\ worker[w].at = "op"
    /\ post_and_wait(c, ok)
    /\ worker' = [worker EXCEPT ![w] = Idler]
    /\ \E broken \in {link[c].broken, ~ok \/ link[c].broken} :
         link' = drop_unreferenced(
                   [link EXCEPT ![c].mutex = {}, ![c].broken = broken],
                   Pooled(store) \cup {worker[v].conn : v \in PoolWorkers \ {w}})
    /\ UNCHANGED <<kind, store, pool, calls>>

(* serve_one: create the QP, take the client's, send ours.                   *)
serve_hello(c, ok) ==
    /\ link[c].server = "accepted"
    /\ link' = [link EXCEPT ![c].server = IF ok THEN "replied" ELSE "failed"]
    /\ IF ok THEN no_fault ELSE fault
    /\ UNCHANGED <<kind, store, pool, worker, calls>>

(* serve_one: connect the QP and say ready, or return an error.              *)
serve_connect_qp(c, ok) ==
    /\ link[c].server = "replied"
    /\ link' = [link EXCEPT ![c].server = IF ok THEN "ready" ELSE "gave_up"]
    /\ IF ok THEN no_fault ELSE fault
    /\ UNCHANGED <<kind, store, pool, worker, calls>>

said_done(c) == link[c].client \in {"dropped", "leaked"}

(* serve_one: the client has said done or closed; destroy the QP.            *)
serve_done(c) ==
    /\ link[c].server = "ready" /\ said_done(c)
    /\ link' = [link EXCEPT ![c].server = "freed"]
    /\ UNCHANGED <<kind, store, pool, worker, calls, faults>>

(* The server of an endpoint dies, with all its threads, and is started      *)
(* again at the same address.                                                *)
server_crash(e) ==
    /\ \E c \in Conns : link[c].ep = e
    /\ fault
    /\ link' = [c \in Conns |->
                  IF link[c].ep = e /\ link[c].server \notin {"freed", "failed"}
                  THEN [link[c] EXCEPT !.server = "crashed"] ELSE link[c]]
    /\ UNCHANGED <<kind, store, pool, worker, calls>>

(* EndpointStore::reclaim, by an owner that calls it.                        *)
reclaim_pool ==
    /\ kind.reclaims /\ pool = {} /\ store.waiting # {}
    /\ store' = reclaim(store, Held)
    /\ link' = drop_unreferenced(link, Pooled(store') \cup Held)
    /\ UNCHANGED <<kind, pool, worker, calls, faults>>

RdmaNext ==
    \/ \E w \in PoolWorkers, e \in kind.endpoints : pool_hit(w, e) \/ pool_miss(w, e)
    \/ \E w \in PoolWorkers :
         \/ client_connect_qp(w) \/ client_ready(w) \/ connect_fails(w)
         \/ op_begins(w)
         \/ \E ok \in BOOLEAN : op_ends(w, ok)
    \/ \E c \in Conns :
         \/ \E ok \in BOOLEAN : serve_hello(c, ok) \/ serve_connect_qp(c, ok)
         \/ serve_done(c)
    \/ \E e \in kind.endpoints : server_crash(e)
    \/ reclaim_pool

-----------------------------------------------------------------------------
(* The pool's map, order and bits agree and stay within max_size, through    *)
(* hits, failed connects, evictions of connections in use and reclaims.      *)
PoolConsistent == StoreConsistent(store, kind.max_size)

(* An operation is only ever posted on a live queue pair, by the one worker  *)
(* inside its mutex, and the other end is connected and has said so.  The    *)
(* server keeps that end for as long as the client has the connection,       *)
(* cached, parked or in use: it goes earlier only with its process.          *)
OpsReachReadyQp ==
    /\ \A w \in PoolWorkers :
         worker[w].at = "op" => /\ link[worker[w].conn].mutex = {w}
                                /\ link[worker[w].conn].client = "live"
    /\ \A c \in Conns :
         link[c].client = "live" => link[c].server \in {"ready", "crashed"}

(* Making room takes the oldest entry (FIFO), or one not used since the hand *)
(* last passed it unless all were (SIEVE); the victim's QP is destroyed at   *)
(* once when it is idle, and parked, still alive, when a worker has it.      *)
EvictsSafely ==
    \A e \in Cached(store) \ Cached(store') :
      /\ kind.policy = "fifo" => e = Head(store.order)
      /\ kind.policy = "sieve" /\ store.visited[e] =>
           \A k \in Cached(store) : store.visited[k]
      /\ IF store.map[e] \in Held
         THEN store.map[e] \in store'.waiting /\ link'[store.map[e]].client = "live"
         ELSE link'[store.map[e]].client = "dropped"

(* A connection is safe to use from its handshake to its last operation:     *)
(* through hits, failed connects, evictions and reclaims the pool stays      *)
(* consistent and evicts safely, and operations reach a ready queue pair.    *)
ConnectionsSafe == [][PoolConsistent' /\ OpsReachReadyQp' /\ EvictsSafely]_rdmaVars
=============================================================================
