----------------------------- MODULE Backplane -----------------------------
(***************************************************************************)
(* The machinery around the store: parts that share no state with each     *)
(* other, the layer pipeline, the RDMA transport, the etcd metadata, the   *)
(* transfer engine, the election of masters, the access sketch, the op-log *)
(* file and the vLLM engines with their proxy.  A behaviour is one of one  *)
(* part: `part` says which, and the others stay in a state they start in.  *)
(*                                                                         *)
(* Fairness: an op in flight ends, a joined or drained call goes on, a     *)
(* worker that has a connection and the threads of a handshake run, a      *)
(* dead master's lease lapses and a campaign that is won returns.  Nothing *)
(* is assumed of callers, failures and crashes.                            *)
(***************************************************************************)
EXTENDS LayerPipeline, RdmaTransport, EtcdMetadata, TransferEngine, MasterElection,
        CountMinSketch, OpLogFile, VllmConnector

CONSTANTS Parts

VARIABLES part

vars == <<part, pipelineVars, rdmaVars, etcdVars, engineVars, electionVars,
          sketchVars, logVars, connectorVars>>

Init ==
    /\ part \in Parts
    /\ PipelineInit /\ RdmaInit /\ EtcdInit /\ EngineInit /\ ElectionInit
    /\ SketchInit /\ LogInit /\ ConnectorInit
    /\ part # "layers" => job = CHOOSE j \in Jobs : TRUE
    /\ part # "rdma" => kind = CHOOSE k \in PoolKinds : TRUE
    /\ part # "sketch" => hash = CHOOSE h \in Hashes : TRUE
    /\ part # "connector" => setup = CHOOSE s \in Setups : TRUE

others(p) ==
    /\ p # "layers" => UNCHANGED pipelineVars
    /\ p # "rdma" => UNCHANGED rdmaVars
    /\ p # "etcd" => UNCHANGED etcdVars
    /\ p # "engine" => UNCHANGED engineVars
    /\ p # "election" => UNCHANGED electionVars
    /\ p # "sketch" => UNCHANGED sketchVars
    /\ p # "oplog" => UNCHANGED logVars
    /\ p # "connector" => UNCHANGED connectorVars

Next ==
    /\ UNCHANGED part
    /\ \/ part = "layers" /\ PipelineNext /\ others("layers")
       \/ part = "rdma" /\ RdmaNext /\ others("rdma")
       \/ part = "etcd" /\ EtcdNext /\ others("etcd")
       \/ part = "engine" /\ EngineNext /\ others("engine")
       \/ part = "election" /\ ElectionNext /\ others("election")
       \/ part = "sketch" /\ SketchNext /\ others("sketch")
       \/ part = "oplog" /\ LogNext /\ others("oplog")
       \/ part = "connector" /\ ConnectorNext /\ others("connector")

\* What a worker does of itself: everything but failing without a reason.
worker_runs(w) ==
    \/ client_connect_qp(w) \/ client_ready(w)
    \/ connect_fails(w) /\ channel_closed(worker[w].conn)
    \/ op_begins(w) \/ \E ok \in BOOLEAN : op_ends(w, ok)
thread_runs(c) ==
    /\ c \in Conns
    /\ \/ \E ok \in BOOLEAN : serve_hello(c, ok) \/ serve_connect_qp(c, ok)
       \/ serve_done(c)

Fairness ==
    /\ WF_vars(part = "layers" /\ Next)
    /\ \A w \in PoolWorkers : WF_rdmaVars(part = "rdma" /\ worker_runs(w))
    /\ \A c \in 1..MaxCalls : WF_rdmaVars(part = "rdma" /\ thread_runs(c))
    /\ \A m \in Masters : WF_electionVars(part = "election" /\ lapse(m))
    /\ \A m \in Masters : WF_electionVars(part = "election" /\ lead(m))

Spec == Init /\ [][Next]_vars /\ Fairness

-----------------------------------------------------------------------------
(* run_slices and run_layers_with_notify return, whatever fails, if every op *)
(* they started ends.                                                        *)
PipelineReturns == part = "layers" ~> result # "pending"

(* Every read_remote and write_remote returns, although connections are made *)
(* with the pool's lock held and a handshake can break off on either side:   *)
(* no worker waits for ever for the lock, for a peer or for a connection.    *)
WorkersReturn ==
    (\E w \in PoolWorkers : worker[w].at # "idle")
      ~> (\A w \in PoolWorkers : worker[w].at = "idle")

Orphan(c) ==
    /\ link[c].client \in {"dropped", "leaked"}
    /\ link[c].server \in {"accepted", "replied", "ready"}

(* A server thread whose client is gone, after its connection was evicted    *)
(* and let go or after a failed handshake, ends.                             *)
ServerThreadsEnd ==
    (\E c \in Conns : Orphan(c)) ~> (\A c \in Conns : ~Orphan(c))

(* A master that stands by comes to serve, or another does: the lease of a   *)
(* dead leader lapses and the campaign behind it returns.                    *)
Failover ==
    \A m \in Masters :
      at[m] = "campaigning"
        ~> \/ at[m] = "down" \/ term = MaxTerms
           \/ \E k \in Masters : at[k] = "serving"

(* Whatever waits for another process comes to an end: pipelines, workers at *)
(* the pool, server threads and standby masters.                             *)
WaitsEnd == PipelineReturns /\ WorkersReturn /\ ServerThreadsEnd /\ Failover
=============================================================================
