---------------------------- MODULE StoreCluster ----------------------------
(***************************************************************************)
(* The store end to end: workers put and get objects through the HTTP      *)
(* master and move the bytes themselves, straight to and from the          *)
(* segments' memory.  The master serves one request at a time (its mutex), *)
(* saves a snapshot now and then, and may die and be restarted from it;    *)
(* the segments' memory and the workers live on.                           *)
(*                                                                         *)
(* A worker's put is put_start, one write per buffer, put_end, and nothing *)
(* is revoked when a step fails; its get is get_replica_list, then a read  *)
(* of one replica.  Memory holds, per unit, the put that wrote it last.    *)
(***************************************************************************)
EXTENDS MasterRecovery

CONSTANTS
    Workers,
    Server,        \* the request being served: the one caller of the master
    Blank,         \* memory nothing was written to
    NoSnapshot,
    Works,         \* what workers do: "put", "get", "remove", "fail"
    Careful,       \* do workers stay out of each other's puts and inside leases,
                   \* and is the snapshot that is recovered up to date
    MaxRestarts    \* bound

ASSUME ClusterAssumption ==
    /\ Callers = {Server}
    /\ Careful \in BOOLEAN
    /\ MaxRestarts \in Nat

VARIABLES worker, mem, snap, restarts

clusterVars == <<vars, worker, mem, snap, restarts>>

Bytes(k, i) == <<k, i>>
Units(r) == r.off..(r.off + r.size - 1)

Waiting(w) == worker[w].at \in {"starting", "ending", "locating", "removing"}
Free == Idle(Server) /\ \A w \in Workers : ~Waiting(w)
Ready(w) == Free /\ worker[w].at \in {"idle", "done"}
Putting(k) ==
    \E w \in Workers : worker[w].at \in {"starting", "writing", "ending"} /\ worker[w].key = k
become(w, frame) == worker' = [worker EXCEPT ![w] = frame]
Resting == [at |-> "idle"]

-----------------------------------------------------------------------------
(* Requests.  The reply is taken when the master's call has returned.        *)

begin_put(w) ==
    /\ Ready(w) /\ "put" \in Works
    /\ \E a \in PutArgs :
         /\ Careful => ~Putting(a.key)
         /\ put_start_locked(Server, a)
         /\ become(w, [at |-> "starting", key |-> a.key, identity |-> a.identity])
    /\ UNCHANGED <<mem, snap, restarts>>

started(w) ==
    /\ worker[w].at = "starting" /\ Idle(Server)
    /\ become(w, IF call[Server] = Ok
                 THEN [worker[w] EXCEPT !.at = "writing"]
                        @@ [todo |-> objects[worker[w].key].replicas]
                 ELSE Resting)
    /\ UNCHANGED <<vars, mem, snap, restarts>>

write(w) ==
    /\ worker[w].at = "writing"
    /\ \E r \in worker[w].todo :
         /\ mem' = [mem EXCEPT ![r.seg] =
                      [u \in Offsets |-> IF u \in Units(r)
                                         THEN Bytes(worker[w].key, worker[w].identity)
                                         ELSE @[u]]]
         /\ become(w, [worker[w] EXCEPT !.todo = @ \ {r}])
    /\ UNCHANGED <<vars, snap, restarts>>

\* Faulty: commits while a buffer is still to be written.
end_put_early(w) ==
    /\ worker[w].at = "writing" /\ Free
    /\ put_end_key(Server, worker[w].key)
    /\ become(w, [at |-> "ending", key |-> worker[w].key])
    /\ UNCHANGED <<mem, snap, restarts>>

end_put(w) ==
    /\ worker[w].at = "writing" /\ worker[w].todo = {} /\ Free
    /\ put_end_key(Server, worker[w].key)
    /\ become(w, [at |-> "ending", key |-> worker[w].key])
    /\ UNCHANGED <<mem, snap, restarts>>

begin_get(w) ==
    /\ Ready(w) /\ "get" \in Works
    /\ \E k \in Keys, i \in Identities :
         /\ get_key(Server, k, i)
         /\ become(w, [at |-> "locating", key |-> k, identity |-> i])
    /\ UNCHANGED <<mem, snap, restarts>>

located(w) ==
    /\ worker[w].at = "locating" /\ Idle(Server)
    /\ IF call[Server] = Ok
       THEN \E r \in Readable(objects[worker[w].key], SegmentNames) :
              become(w, [at |-> "reading", key |-> worker[w].key, replica |-> r,
                         identity |-> worker[w].identity,
                         until |-> objects[worker[w].key].lease_until])
       ELSE become(w, Resting)
    /\ UNCHANGED <<vars, mem, snap, restarts>>

read(w) ==
    /\ worker[w].at = "reading"
    /\ LET r == worker[w].replica
       IN  become(w, [at |-> "done", key |-> worker[w].key, identity |-> worker[w].identity,
                      bytes |-> {mem[r.seg][u] : u \in Units(r)}])
    /\ UNCHANGED <<vars, mem, snap, restarts>>

begin_remove(w) ==
    /\ Ready(w) /\ "remove" \in Works
    /\ \E k \in Keys :
         /\ Careful => ~Putting(k)
         /\ remove_key(Server, k, FALSE)
         /\ become(w, [at |-> "removing", key |-> k])
    /\ UNCHANGED <<mem, snap, restarts>>

\* A transfer fails: the put is left in flight, the get returns an error.
give_up(w) ==
    /\ worker[w].at \in {"writing", "reading"} /\ "fail" \in Works
    /\ become(w, Resting)
    /\ UNCHANGED <<vars, mem, snap, restarts>>

finished(w) ==
    /\ worker[w].at \in {"ending", "removing"} /\ Idle(Server)
    /\ become(w, Resting)
    /\ UNCHANGED <<vars, mem, snap, restarts>>

-----------------------------------------------------------------------------
(* The master process.                                                       *)

\* Careful workers finish a read before the lease it was granted runs out.
ReadsInTime ==
    Careful => \A w \in Workers :
                 /\ worker[w].at # "locating"
                 /\ worker[w].at = "reading" => clock + 1 < worker[w].until

serve ==
    /\ \/ evict_if_needed_locked(Server) \/ evict_one(Server) \/ evict_done(Server)
       \/ allocate_replicas(Server) \/ allocate_again(Server)
       \/ get_replica_list(Server) \/ remove(Server)
       \/ mount_push(Server)
       \/ Free /\ mount_segment(Server)
       \/ Idle(Server) /\ ReadsInTime /\ tick
    /\ UNCHANGED <<worker, mem, snap, restarts>>

\* The bound on snapshots: one that no restart is left to use is not taken.
save_snapshot ==
    /\ Idle(Server) /\ restarts < MaxRestarts
    /\ snap' = snapshot
    /\ UNCHANGED <<vars, worker, mem, restarts>>

\* run_store_master after a crash: recover from the snapshot file, or start
\* empty; a request that was being served fails at its worker.  With Careful the
\* master dies right after a snapshot, with nothing changed since.
restart ==
    /\ restarts < MaxRestarts
    /\ Careful => snap = snapshot
    /\ restarts' = restarts + 1
    /\ LET m == IF snap = NoSnapshot THEN Fresh ELSE recover(snap)
           now == IF snap = NoSnapshot THEN 0 ELSE snap.clock
       IN  /\ m.ok
           /\ objects' = m.objects
           /\ alloc' = m.alloc
           /\ clock' = now
           /\ heartbeat' = [s \in SegmentNames |-> IF Mounted(m.alloc, s) THEN now ELSE Never]
    /\ owner' = [s \in SegmentNames |-> NoClient]
    /\ holder' = NoCaller
    /\ call' = [c \in Callers |-> Ok]
    /\ worker' = [w \in Workers |-> IF Waiting(w) THEN Resting ELSE worker[w]]
    /\ UNCHANGED <<oplog, mem, snap>>

ClusterInit ==
    /\ Init
    /\ worker = [w \in Workers |-> Resting]
    /\ mem = [s \in SegmentNames |-> [u \in Offsets |-> Blank]]
    /\ snap = NoSnapshot
    /\ restarts = 0

ClusterNext ==
    \/ serve \/ save_snapshot \/ restart
    \/ \E w \in Workers :
         \/ begin_put(w) \/ started(w) \/ write(w) \/ end_put(w) \/ begin_get(w)
         \/ located(w) \/ read(w) \/ begin_remove(w) \/ finished(w)
         \/ give_up(w)

ClusterSpec == ClusterInit /\ [][ClusterNext]_clusterVars

-----------------------------------------------------------------------------
\* What a get returns was written, all of it, by a put of the key it asked for
\* under the identity it asked with.
ReadsOwnBytes ==
    \A w \in Workers :
        worker[w].at = "done" => worker[w].bytes = {Bytes(worker[w].key, worker[w].identity)}

\* A replica that is readable has been written by a put of its object.
CompleteIsWritten ==
    \A k \in Keys : \A r \in ReplicasOf(k) :
        r.complete => \A u \in Units(r) : mem[r.seg][u] = Bytes(k, objects[k].identity)
=============================================================================
