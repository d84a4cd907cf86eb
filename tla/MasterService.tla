---------------------------- MODULE MasterService ----------------------------
(***************************************************************************)
(* The store's MasterService: the object table, two-phase Put, leased      *)
(* reads, eviction, the segment lifecycle, and the op-log it writes.       *)
(*                                                                         *)
(* Callers are the threads that share one master.  A step is one critical  *)
(* section: a section under a key's shard lock, under the `segments` lock  *)
(* (holder), or under one of the leaf locks (heartbeat, owner, op-log).    *)
(* put_start holds `segments` over several shard sections, and in between  *)
(* the other callers run whatever does not need `segments`.  Behind the    *)
(* HTTP front end the whole master sits in one mutex, which is the         *)
(* instance with a single caller.                                          *)
(***************************************************************************)
EXTENDS SegmentState, Sequences

CONSTANTS
    Callers, NoCaller,      \* threads calling the master
    Keys, NoObject,
    Identities,             \* identity scopes; two scopes conflict iff they differ
    ReplicaNums,            \* replica_num values callers ask for
    Pins,                   \* which of "none", "soft", "hard" callers ask for
    Clients, NoClient,      \* owners of client-mounted segments
    Ops,                    \* the operations callers use
    LeaseTtl, SegmentTtl,
    Logging,                \* is the op-log enabled
    DuplicateMounts,        \* may callers mount a name that is mounted already
    MaxBatch,               \* bound: keys in one batch_put_start
    MaxClock, MaxLog        \* bounds: ticks, and op-log entries

VARIABLES
    clock,
    objects,    \* key -> ObjectMetadata, or NoObject
    alloc,      \* SegmentState.allocators
    holder,     \* the caller inside the `segments` lock
    heartbeat,  \* segment name -> last beat, or Never when the map has no entry
    owner,      \* segment name -> client, or NoClient
    call,       \* caller -> where it is in its call, and the call's locals
    oplog

vars == <<clock, objects, alloc, holder, heartbeat, owner, call, oplog>>

Never == -1
Time == 0..MaxClock

Object == [replicas : SUBSET Replica, identity : Identities, lease_until : Nat,
           last_access : Nat, pin : Pins]

ASSUME MasterAssumption ==
    /\ NoCaller \notin Callers
    /\ NoObject \notin Object
    /\ ReplicaNums \subseteq Nat \ {0}
    /\ Pins \subseteq {"none", "soft", "hard"}
    /\ LeaseTtl \in Nat /\ SegmentTtl \in Nat /\ MaxBatch \in Nat
    /\ MaxClock \in Nat /\ MaxLog \in Nat
    /\ Logging \in BOOLEAN /\ DuplicateMounts \in BOOLEAN

has_complete_replica(o) == o # NoObject /\ \E r \in o.replicas : r.complete
ReplicasOf(k) == IF objects[k] = NoObject THEN {} ELSE objects[k].replicas
Leased(o, now) == o.lease_until > now

\* The arguments of a put: the key, and for a batch the keys still to come and
\* the keys already started.
Args == [key : Keys, rest : Seq(Keys), started : SUBSET Keys,
         identity : Identities, size : Sizes, num : ReplicaNums, pin : Pins]
PutArgs == [key : Keys, rest : UNION {[1..n -> Keys] : n \in 0..(MaxBatch - 1)},
            started : {{}}, identity : Identities, size : Sizes,
            num : ReplicaNums, pin : Pins]

\* op_log::OpLogEntry.
SegmentMounted(s) == [op |-> "SegmentMounted", name |-> s]
SegmentUnmounted(s) == [op |-> "SegmentUnmounted", name |-> s]
PutCommitted(k, o) == [op |-> "PutCommitted", key |-> k, object |-> o]
Removed(k) == [op |-> "Removed", key |-> k]

-----------------------------------------------------------------------------
(* Control of a caller: `ret` is a finished call with its result code.       *)

Idle(c) == call[c].at = "ret"
At(c, place) == call[c].at = place
goto(c, frame) == call' = [call EXCEPT ![c] = frame]
ret(c, code) == goto(c, [at |-> "ret", code |-> code])

\* log_op, reached after the locks are released; then the call goes on at next.
log_then(c, entry, next) ==
    goto(c, IF Logging THEN [at |-> "log", entry |-> entry, next |-> next] ELSE next)

append(entry) == oplog' = IF Logging THEN Append(oplog, entry) ELSE oplog

\* The bound on the log: a call that may log starts only below it.
LogOpen == ~Logging \/ Len(oplog) < MaxLog

Ok == [at |-> "ret", code |-> "Ok"]

log_op(c) ==
    /\ At(c, "log")
    /\ append(call[c].entry)
    /\ goto(c, call[c].next)
    /\ UNCHANGED <<clock, objects, alloc, holder, heartbeat, owner>>

tick ==
    /\ clock < MaxClock
    /\ clock' = clock + 1
    /\ UNCHANGED <<objects, alloc, holder, heartbeat, owner, call, oplog>>

-----------------------------------------------------------------------------
(* Segment lifecycle.                                                        *)

\* mount_segment and, with a client, mount_segment_for: the heartbeat entry
\* first, then the allocator is pushed, then the log, then the owner entry.
own(s, client, next) == [at |-> "own", name |-> s, client |-> client, next |-> next]

mount_begin(c, s, next) ==
    /\ heartbeat' = [heartbeat EXCEPT ![s] = clock]
    /\ goto(c, [at |-> "mount", name |-> s, next |-> next])
    /\ UNCHANGED <<clock, objects, alloc, holder, owner, oplog>>

\* The bound on mounts: there is a free position for every mount under way.
RoomToMount ==
    \E m \in Positions :
        /\ IsEnd(alloc, m)
        /\ m + Cardinality({d \in Callers : call[d].at \in {"mount", "remount"}}) <= MaxMounts

\* Unless DuplicateMounts, callers mount a name only while it is not mounted.
MayMount(s) ==
    DuplicateMounts \/ /\ ~Mounted(alloc, s)
                       /\ \A d \in Callers : At(d, "mount") => call[d].name # s

mount_segment(c) ==
    /\ Idle(c) /\ "mount" \in Ops /\ LogOpen /\ RoomToMount
    /\ \E s \in SegmentNames : MayMount(s) /\ mount_begin(c, s, Ok)

mount_segment_for(c) ==
    /\ Idle(c) /\ "mount_for" \in Ops /\ LogOpen /\ RoomToMount
    /\ \E s \in SegmentNames, client \in Clients :
         MayMount(s) /\ mount_begin(c, s, own(s, client, Ok))

mount_push(c) ==
    /\ At(c, "mount") /\ holder = NoCaller
    /\ \E m \in Positions : IsEnd(alloc, m) /\ alloc' = push(alloc, m, call[c].name)
    /\ log_then(c, SegmentMounted(call[c].name), call[c].next)
    /\ UNCHANGED <<clock, objects, holder, heartbeat, owner, oplog>>

take_ownership(c) ==
    /\ At(c, "own")
    /\ owner' = [owner EXCEPT ![call[c].name] = call[c].client]
    /\ goto(c, call[c].next)
    /\ UNCHANGED <<clock, objects, alloc, holder, heartbeat, oplog>>

\* Faulty: an object that loses one replica is dropped with all of them.
unmount_locked_whole(c, s) ==
    /\ holder = NoCaller
    /\ IF ~Mounted(alloc, s)
       THEN ret(c, "SegmentNotFound") /\ UNCHANGED <<objects, alloc>>
       ELSE /\ objects' = [k \in Keys |->
                 IF \E r \in ReplicasOf(k) : r.seg = s THEN NoObject ELSE objects[k]]
            /\ alloc' = retain_other(alloc, s)
            /\ goto(c, [at |-> "unmount_beat", name |-> s])
    /\ UNCHANGED <<clock, holder, heartbeat, owner, oplog>>

\* unmount_segment, and unmount_segment_for behind its ownership check.
unmount_locked(c, s) ==
    /\ holder = NoCaller
    /\ IF ~Mounted(alloc, s)
       THEN ret(c, "SegmentNotFound") /\ UNCHANGED <<objects, alloc>>
       ELSE /\ objects' = [k \in Keys |->
                 LET kept == {r \in ReplicasOf(k) : r.seg # s}
                 IN  IF kept = {} THEN NoObject
                     ELSE [objects[k] EXCEPT !.replicas = kept]]
            /\ alloc' = retain_other(alloc, s)
            /\ goto(c, [at |-> "unmount_beat", name |-> s])
    /\ UNCHANGED <<clock, holder, heartbeat, owner, oplog>>

unmount_segment(c) ==
    /\ Idle(c) /\ "unmount" \in Ops /\ LogOpen
    /\ \E s \in SegmentNames : unmount_locked(c, s)

unmount_segment_for(c) ==
    /\ Idle(c) /\ "unmount_for" \in Ops /\ LogOpen
    /\ \E s \in SegmentNames, client \in Clients :
         IF owner[s] = client
         THEN goto(c, [at |-> "unmount", name |-> s])
         ELSE ret(c, "SegmentNotFound")
    /\ UNCHANGED <<clock, objects, alloc, holder, heartbeat, owner, oplog>>

unmount_owned(c) == At(c, "unmount") /\ unmount_locked(c, call[c].name)

unmount_beat(c) ==
    /\ At(c, "unmount_beat")
    /\ heartbeat' = [heartbeat EXCEPT ![call[c].name] = Never]
    /\ goto(c, [call[c] EXCEPT !.at = "unmount_owner"])
    /\ UNCHANGED <<clock, objects, alloc, holder, owner, oplog>>

unmount_owner(c) ==
    /\ At(c, "unmount_owner")
    /\ owner' = [owner EXCEPT ![call[c].name] = NoClient]
    /\ log_then(c, SegmentUnmounted(call[c].name), Ok)
    /\ UNCHANGED <<clock, objects, alloc, holder, heartbeat, oplog>>

beat_heartbeat(c) ==
    /\ Idle(c) /\ "heartbeat" \in Ops
    /\ \E s \in SegmentNames :
         IF heartbeat[s] = Never
         THEN ret(c, "SegmentNotFound") /\ UNCHANGED heartbeat
         ELSE ret(c, "Ok") /\ heartbeat' = [heartbeat EXCEPT ![s] = clock]
    /\ UNCHANGED <<clock, objects, alloc, holder, owner, oplog>>

\* client_heartbeat: the owned segments are collected under the owner lock, and
\* beaten under the heartbeat lock, in a later section.
collect_owned(client) ==
    [at |-> "beat", now |-> clock, owned |-> {s \in SegmentNames : owner[s] = client}]

client_heartbeat(c) ==
    /\ Idle(c) /\ "client_heartbeat" \in Ops
    /\ \E client \in Clients : goto(c, collect_owned(client))
    /\ UNCHANGED <<clock, objects, alloc, holder, heartbeat, owner, oplog>>

beat_owned(c) ==
    /\ At(c, "beat")
    /\ heartbeat' = [s \in SegmentNames |->
                       IF s \in call[c].owned THEN call[c].now ELSE heartbeat[s]]
    /\ ret(c, "Ok")
    /\ UNCHANGED <<clock, objects, alloc, holder, owner, oplog>>

\* Faulty: mounts again without looking whether the segment is mounted.
remount_segments_blind(c) ==
    /\ Idle(c) /\ "remount" \in Ops /\ LogOpen /\ RoomToMount /\ holder = NoCaller
    /\ \E s \in SegmentNames, client \in Clients :
         goto(c, [at |-> "remount", name |-> s,
                  next |-> own(s, client, [at |-> "ping", client |-> client])])
    /\ UNCHANGED <<clock, objects, alloc, holder, heartbeat, owner, oplog>>

\* remount_segments, for a list of one segment: a look at the allocators under
\* the lock, then on what was seen either ownership alone or a whole mount.
remount_segments(c) ==
    /\ Idle(c) /\ "remount" \in Ops /\ LogOpen /\ RoomToMount /\ holder = NoCaller
    /\ \E s \in SegmentNames, client \in Clients :
         LET owning == own(s, client, [at |-> "ping", client |-> client])
         IN  goto(c, IF Mounted(alloc, s) THEN owning
                     ELSE [at |-> "remount", name |-> s, next |-> owning])
    /\ UNCHANGED <<clock, objects, alloc, holder, heartbeat, owner, oplog>>

remount_begin(c) ==
    At(c, "remount") /\ mount_begin(c, call[c].name, call[c].next)

remount_ping(c) ==
    /\ At(c, "ping")
    /\ goto(c, collect_owned(call[c].client))
    /\ UNCHANGED <<clock, objects, alloc, holder, heartbeat, owner, oplog>>

\* Drop whatever is under the key and free its buffers.
drop(k) ==
    /\ objects' = [objects EXCEPT ![k] = NoObject]
    /\ alloc' = free_replicas(alloc, ReplicasOf(k))

-----------------------------------------------------------------------------
(* Eviction and allocation, inside the `segments` lock.                      *)

\* Faulty: collects hard-pinned objects too.
victims_unpinned ==
    {[key |-> k, soft |-> objects[k].pin = "soft", access |-> objects[k].last_access] :
       k \in {q \in Keys : objects[q] # NoObject /\ ~Leased(objects[q], clock)}}

\* The candidates with the order they were sorted by when they were collected.
victims_coldest_first ==
    {[key |-> k, soft |-> objects[k].pin = "soft", access |-> objects[k].last_access] :
       k \in {q \in Keys : /\ objects[q] # NoObject
                           /\ objects[q].pin # "hard"
                           /\ ~Leased(objects[q], clock)}}

ColderEq(v, w) ==
    IF v.soft = w.soft THEN v.access <= w.access ELSE w.soft

\* Usage has reached high_watermark = 0.95 of the capacity; the target is
\* 0.95 * (1 - eviction_ratio) of it, with eviction_ratio = 0.1.
above_watermark == capacity(alloc) > 0 /\ 100 * allocated(alloc) >= 95 * capacity(alloc)
watermark_target == (855 * capacity(alloc)) \div 1000

\* Evict until allocated <= goal, then continue at next.
evicting(goal, next) ==
    [at |-> "evict", victims |-> victims_coldest_first, goal |-> goal, next |-> next]

evict_if_needed_locked(c) ==
    /\ At(c, "watermark")
    /\ goto(c, IF above_watermark THEN evicting(watermark_target, call[c].next)
               ELSE call[c].next)
    /\ UNCHANGED <<clock, objects, alloc, holder, heartbeat, owner, oplog>>

\* Faulty: evictions are not logged.
evict_one_unlogged(c) ==
    /\ At(c, "evict") /\ allocated(alloc) > call[c].goal
    /\ \E v \in call[c].victims :
         /\ \A w \in call[c].victims : ColderEq(v, w)
         /\ drop(v.key)
         /\ goto(c, [call[c] EXCEPT !.victims = @ \ {v}])
    /\ UNCHANGED <<clock, holder, heartbeat, owner, oplog>>

\* One victim: its object, if it is still there, goes whatever it looks like now.
evict_one(c) ==
    /\ At(c, "evict") /\ allocated(alloc) > call[c].goal
    /\ \E v \in call[c].victims :
         /\ \A w \in call[c].victims : ColderEq(v, w)
         /\ drop(v.key)
         /\ IF objects[v.key] = NoObject THEN UNCHANGED oplog ELSE append(Removed(v.key))
         /\ goto(c, [call[c] EXCEPT !.victims = @ \ {v}])
    /\ UNCHANGED <<clock, holder, heartbeat, owner>>

evict_done(c) ==
    /\ At(c, "evict")
    /\ allocated(alloc) <= call[c].goal \/ call[c].victims = {}
    /\ goto(c, call[c].next)
    /\ UNCHANGED <<clock, objects, alloc, holder, heartbeat, owner, oplog>>

\* evict_if_needed, called on its own.
evict_if_needed(c) ==
    /\ Idle(c) /\ "evict" \in Ops /\ LogOpen /\ holder = NoCaller
    /\ holder' = c
    /\ goto(c, [at |-> "watermark", next |-> [at |-> "evicted"]])
    /\ UNCHANGED <<clock, objects, alloc, heartbeat, owner, oplog>>

evict_returns(c) ==
    /\ At(c, "evicted")
    /\ holder' = NoCaller
    /\ ret(c, "Ok")
    /\ UNCHANGED <<clock, objects, alloc, heartbeat, owner, oplog>>

-----------------------------------------------------------------------------
(* Two-phase Put.                                                            *)

\* The result of one put_start; batch_put_start goes on with the next item, or
\* revokes the items it has started.
put_returns(c, a, code) ==
    goto(c, IF code # "Ok"
            THEN IF a.started = {} THEN [at |-> "ret", code |-> code]
                 ELSE [at |-> "rollback", started |-> a.started, todo |-> a.started,
                       code |-> code]
            ELSE IF a.rest = <<>> THEN Ok
            ELSE [at |-> "put_start",
                  args |-> [a EXCEPT !.key = Head(a.rest), !.rest = Tail(a.rest),
                                     !.started = @ \cup {a.key}]])

\* put_start up to allocate_replicas: the duplicate check, and an in-flight
\* object under the key is dropped and its buffers freed.
put_start_locked(c, a) ==
    /\ holder = NoCaller
    /\ IF has_complete_replica(objects[a.key])
       THEN put_returns(c, a, "ObjectAlreadyExists") /\ UNCHANGED <<objects, alloc, holder>>
       ELSE /\ drop(a.key)
            /\ holder' = c
            /\ goto(c, [at |-> "watermark", next |-> [at |-> "allocate", args |-> a]])
    /\ UNCHANGED <<clock, heartbeat, owner, oplog>>

put_start(c) ==
    /\ Idle(c) /\ "put_start" \in Ops /\ LogOpen
    /\ \E a \in PutArgs : put_start_locked(c, a)

put_start_next(c) == At(c, "put_start") /\ put_start_locked(c, call[c].args)

\* Record the object on the buffers of placement f, and leave the lock.
place(c, a, f) ==
    /\ alloc' = allocate(alloc, f, a.size)
    /\ objects' = [objects EXCEPT ![a.key] =
                     [replicas |-> new_replicas(alloc, f, a.size),
                      identity |-> a.identity, lease_until |-> 0,
                      last_access |-> clock, pin |-> a.pin]]
    /\ holder' = NoCaller
    /\ put_returns(c, a, "Ok")

\* Faulty: evicts as if nothing had to fit.
allocate_replicas_loose(c) ==
    /\ At(c, "allocate")
    /\ LET a == call[c].args
           fits == placements(alloc, a.size, a.num)
       IN  \/ \E f \in fits : place(c, a, f)
           \/ /\ fits = {}
              /\ goto(c, evicting(capacity(alloc), [at |-> "retry", args |-> a]))
              /\ UNCHANGED <<objects, alloc, holder>>
    /\ UNCHANGED <<clock, heartbeat, owner, oplog>>

\* allocate_replicas: allocate; when nothing fits evict and try once more.
allocate_replicas(c) ==
    /\ At(c, "allocate")
    /\ LET a == call[c].args
           fits == placements(alloc, a.size, a.num)
       IN  \/ \E f \in fits : place(c, a, f)
           \/ /\ fits = {}
              /\ goto(c, evicting(capacity(alloc) - a.size * a.num,
                                   [at |-> "retry", args |-> a]))
              /\ UNCHANGED <<objects, alloc, holder>>
    /\ UNCHANGED <<clock, heartbeat, owner, oplog>>

\* Faulty: evicts and tries again until it fits.
allocate_until_fits(c) ==
    /\ At(c, "retry")
    /\ LET a == call[c].args
           fits == placements(alloc, a.size, a.num)
       IN  \/ \E f \in fits : place(c, a, f)
           \/ /\ fits = {}
              /\ goto(c, evicting(capacity(alloc) - a.size * a.num,
                                   [at |-> "retry", args |-> a]))
              /\ UNCHANGED <<objects, alloc, holder>>
    /\ UNCHANGED <<clock, heartbeat, owner, oplog>>

allocate_again(c) ==
    /\ At(c, "retry")
    /\ LET a == call[c].args
           fits == placements(alloc, a.size, a.num)
       IN  \/ \E f \in fits : place(c, a, f)
           \/ /\ fits = {}
              /\ holder' = NoCaller
              /\ put_returns(c, a, "NoAvailableSegment")
              /\ UNCHANGED <<objects, alloc>>
    /\ UNCHANGED <<clock, heartbeat, owner, oplog>>

\* Faulty: a commit also resets the lease.
put_end_unleased(c, k) ==
    /\ IF objects[k] = NoObject
       THEN ret(c, "ObjectNotFound") /\ UNCHANGED objects
       ELSE LET o == [objects[k] EXCEPT
                        !.replicas = {[r EXCEPT !.complete = TRUE] : r \in @},
                        !.lease_until = 0]
            IN  objects' = [objects EXCEPT ![k] = o] /\ log_then(c, PutCommitted(k, o), Ok)
    /\ UNCHANGED <<clock, alloc, holder, heartbeat, owner, oplog>>

\* put_end and upsert_end: every replica of whatever is under the key becomes
\* readable; the entry built here is logged in a later section.
put_end_key(c, k) ==
    /\ IF objects[k] = NoObject
       THEN ret(c, "ObjectNotFound") /\ UNCHANGED objects
       ELSE LET o == [objects[k] EXCEPT
                        !.replicas = {[r EXCEPT !.complete = TRUE] : r \in @}]
            IN  objects' = [objects EXCEPT ![k] = o] /\ log_then(c, PutCommitted(k, o), Ok)
    /\ UNCHANGED <<clock, alloc, holder, heartbeat, owner, oplog>>

\* The keys a caller ends or revokes: any at all, or, when callers keep to their
\* own puts, one that is in flight.
MayEnd(k, op, own_op) ==
    \/ op \in Ops
    \/ own_op \in Ops /\ objects[k] # NoObject /\ ~has_complete_replica(objects[k])

put_end(c) ==
    /\ Idle(c) /\ LogOpen
    /\ \E k \in Keys : MayEnd(k, "put_end", "put_end_own") /\ put_end_key(c, k)

\* put_revoke and upsert_revoke.
put_revoke(c) ==
    /\ Idle(c) /\ holder = NoCaller
    /\ \E k \in Keys :
         /\ MayEnd(k, "put_revoke", "put_revoke_own")
         /\ drop(k)
         /\ ret(c, IF objects[k] = NoObject THEN "ObjectNotFound" ELSE "Ok")
    /\ UNCHANGED <<clock, holder, heartbeat, owner, oplog>>

\* Faulty: the rollback revokes nothing that is in flight.
batch_rollback_nothing(c) ==
    /\ At(c, "rollback") /\ holder = NoCaller
    /\ \E k \in call[c].todo :
         goto(c, IF call[c].todo = {k} THEN [at |-> "ret", code |-> call[c].code]
                 ELSE [call[c] EXCEPT !.todo = @ \ {k}])
    /\ UNCHANGED <<clock, objects, alloc, holder, heartbeat, owner, oplog>>

\* batch_put_start revokes what it has started, each key in a section of its own.
batch_rollback(c) ==
    /\ At(c, "rollback") /\ holder = NoCaller
    /\ \E k \in call[c].todo :
         /\ drop(k)
         /\ goto(c, IF call[c].todo = {k} THEN [at |-> "ret", code |-> call[c].code]
                    ELSE [call[c] EXCEPT !.todo = @ \ {k}])
    /\ UNCHANGED <<clock, holder, heartbeat, owner, oplog>>

-----------------------------------------------------------------------------
(* Reads, upsert and remove.                                                 *)

alive(now) ==
    {s \in SegmentNames : /\ heartbeat[s] # Never
                          /\ SegmentTtl = 0 \/ now - heartbeat[s] <= SegmentTtl}

\* get_replica_list reads the clock and the live segments first.
get_key(c, k, i) ==
    /\ goto(c, [at |-> "get", key |-> k, identity |-> i, now |-> clock,
                alive |-> alive(clock)])
    /\ UNCHANGED <<clock, objects, alloc, holder, heartbeat, owner, oplog>>

get_begin(c) ==
    /\ Idle(c) /\ "get" \in Ops
    /\ \E k \in Keys, i \in Identities : get_key(c, k, i)

Readable(o, segs) == {r \in o.replicas : r.complete /\ r.seg \in segs}

\* Its section under the shard lock: the identity guard, then the lease.
get_replica_list(c) ==
    /\ At(c, "get")
    /\ LET g == call[c]
           o == objects[g.key]
       IN  IF o # NoObject /\ o.identity = g.identity /\ Readable(o, g.alive) # {}
           THEN /\ objects' = [objects EXCEPT ![g.key].last_access = g.now,
                                              ![g.key].lease_until = g.now + LeaseTtl]
                /\ ret(c, "Ok")
           ELSE /\ ret(c, IF o = NoObject THEN "ObjectNotFound"
                          ELSE IF o.identity # g.identity THEN "UnsafeReuse"
                          ELSE "ObjectNotReady")
                /\ UNCHANGED objects
    /\ UNCHANGED <<clock, alloc, holder, heartbeat, owner, oplog>>

\* Faulty: does not look at the lease.
upsert_start_unleased(c) ==
    /\ Idle(c) /\ "upsert" \in Ops /\ LogOpen
    /\ \E a \in PutArgs :
         LET o == objects[a.key]
         IN  /\ a.rest = <<>>
             /\ goto(c, IF ~has_complete_replica(o) THEN [at |-> "put_start", args |-> a]
                        ELSE [at |-> IF \E r \in o.replicas : r.size = a.size
                                     THEN "upsert_same" ELSE "upsert_other",
                              args |-> a, now |-> clock])
    /\ UNCHANGED <<clock, objects, alloc, holder, heartbeat, owner, oplog>>

\* upsert_start looks at the object under the shard lock and decides on that.
upsert_start(c) ==
    /\ Idle(c) /\ "upsert" \in Ops /\ LogOpen
    /\ \E a \in PutArgs :
         LET o == objects[a.key]
         IN  /\ a.rest = <<>>
             /\ IF ~has_complete_replica(o)
                THEN goto(c, [at |-> "put_start", args |-> a])
                ELSE IF Leased(o, clock) THEN ret(c, "ObjectNotReady")
                ELSE goto(c, [at |-> IF \E r \in o.replicas : r.size = a.size
                                     THEN "upsert_same" ELSE "upsert_other",
                              args |-> a, now |-> clock])
    /\ UNCHANGED <<clock, objects, alloc, holder, heartbeat, owner, oplog>>

\* Same size: reopen the buffers.  With no object there, expect() panics.
upsert_same(c) ==
    /\ At(c, "upsert_same")
    /\ LET a == call[c].args
           k == a.key
       IN  IF objects[k] = NoObject
           THEN goto(c, [at |-> "panic"]) /\ UNCHANGED objects
           ELSE /\ objects' = [objects EXCEPT ![k].identity = a.identity,
                                              ![k].last_access = call[c].now,
                                              ![k].replicas = {[r EXCEPT !.complete = FALSE] : r \in @}]
                /\ ret(c, "Ok")
    /\ UNCHANGED <<clock, alloc, holder, heartbeat, owner, oplog>>

\* Another size: free what is there, then start a put.
upsert_other(c) ==
    /\ At(c, "upsert_other") /\ holder = NoCaller
    /\ drop(call[c].args.key)
    /\ goto(c, [at |-> "put_start", args |-> call[c].args])
    /\ UNCHANGED <<clock, holder, heartbeat, owner, oplog>>

\* remove reads the clock before it waits for the `segments` lock.
remove_key(c, k, force) ==
    /\ goto(c, [at |-> "remove", key |-> k, force |-> force, now |-> clock])
    /\ UNCHANGED <<clock, objects, alloc, holder, heartbeat, owner, oplog>>

remove_begin(c) ==
    /\ Idle(c) /\ "remove" \in Ops /\ LogOpen
    /\ \E k \in Keys, force \in BOOLEAN : remove_key(c, k, force)

\* Faulty: does not look at the lease.
remove_unleased(c) ==
    /\ At(c, "remove") /\ holder = NoCaller
    /\ LET k == call[c].key
       IN  /\ drop(k)
           /\ IF objects[k] = NoObject THEN ret(c, "ObjectNotFound")
              ELSE log_then(c, Removed(k), Ok)
    /\ UNCHANGED <<clock, holder, heartbeat, owner, oplog>>

remove(c) ==
    /\ At(c, "remove") /\ holder = NoCaller
    /\ LET g == call[c]
           o == objects[g.key]
       IN  IF o # NoObject /\ (g.force \/ ~Leased(o, g.now))
           THEN drop(g.key) /\ log_then(c, Removed(g.key), Ok)
           ELSE /\ ret(c, IF o = NoObject THEN "ObjectNotFound" ELSE "ObjectNotReady")
                /\ UNCHANGED <<objects, alloc>>
    /\ UNCHANGED <<clock, holder, heartbeat, owner, oplog>>

-----------------------------------------------------------------------------
Init ==
    /\ clock = 0
    /\ objects = [k \in Keys |-> NoObject]
    /\ alloc = NoAllocators
    /\ holder = NoCaller
    /\ heartbeat = [s \in SegmentNames |-> Never]
    /\ owner = [s \in SegmentNames |-> NoClient]
    /\ call = [c \in Callers |-> Ok]
    /\ oplog = <<>>

Step(c) ==
    \/ log_op(c) \/ mount_segment(c) \/ mount_segment_for(c) \/ mount_push(c)
    \/ take_ownership(c) \/ unmount_segment(c) \/ unmount_segment_for(c)
    \/ unmount_owned(c) \/ unmount_beat(c) \/ unmount_owner(c) \/ beat_heartbeat(c)
    \/ client_heartbeat(c) \/ beat_owned(c) \/ remount_segments(c) \/ remount_begin(c)
    \/ remount_ping(c) \/ evict_if_needed_locked(c) \/ evict_one(c) \/ evict_done(c)
    \/ evict_if_needed(c) \/ evict_returns(c) \/ put_start(c) \/ put_start_next(c)
    \/ allocate_replicas(c) \/ allocate_again(c) \/ put_end(c) \/ put_revoke(c)
    \/ batch_rollback(c) \/ get_begin(c) \/ get_replica_list(c) \/ upsert_start(c)
    \/ upsert_same(c) \/ upsert_other(c) \/ remove_begin(c) \/ remove(c)

Next == tick \/ \E c \in Callers : Step(c)

Spec == Init /\ [][Next]_vars

-----------------------------------------------------------------------------
(* Properties.                                                               *)

Codes == {"Ok", "ObjectNotFound", "ObjectNotReady", "UnsafeReuse",
          "ObjectAlreadyExists", "NoAvailableSegment", "SegmentNotFound"}
Entry == [op : {"SegmentMounted", "SegmentUnmounted"}, name : SegmentNames]
           \cup [op : {"PutCommitted"}, key : Keys, object : Object]
           \cup [op : {"Removed"}, key : Keys]
Victim == [key : Keys, soft : BOOLEAN, access : Nat]
Ping == [at : {"ping"}, client : Clients]
Own == [at : {"own"}, name : SegmentNames, client : Clients, next : {Ok} \cup Ping]
Allocating == [at : {"allocate", "retry"}, args : Args] \cup {[at |-> "evicted"]}
Ret == [at : {"ret"}, code : Codes]
Log == [at : {"log"}, entry : Entry, next : {Ok} \cup Own]
Mounting == [at : {"mount", "remount"}, name : SegmentNames, next : {Ok} \cup Own]
Unmounting == [at : {"unmount", "unmount_beat", "unmount_owner"}, name : SegmentNames]
Beat == [at : {"beat"}, now : Time, owned : SUBSET SegmentNames]
Watermark == [at : {"watermark"}, next : Allocating]
Evict == [at : {"evict"}, victims : SUBSET Victim, goal : Int, next : Allocating]
Put == [at : {"put_start"}, args : Args]
Rollback == [at : {"rollback"}, started : SUBSET Keys, todo : SUBSET Keys, code : Codes]
Get == [at : {"get"}, key : Keys, identity : Identities, now : Time,
        alive : SUBSET SegmentNames]
Upsert == [at : {"upsert_same", "upsert_other"}, args : Args, now : Time]
Removing == [at : {"remove"}, key : Keys, force : BOOLEAN, now : Time]
Frame ==
    Ret \cup Log \cup Mounting \cup Own \cup Unmounting \cup Beat \cup Ping
    \cup Watermark \cup Evict \cup Allocating \cup Put \cup Rollback \cup Get
    \cup Upsert \cup Removing \cup {[at |-> "panic"]}

\* The caller is inside the `segments` lock.
InLock(f) == f.at \in {"watermark", "evict", "allocate", "retry", "evicted"}
Locked(c) == InLock(call[c])

\* Types of the shared state, and the `segments` lock has one holder, the
\* caller that is inside put_start or evict_if_needed.
TypeOK ==
    /\ clock \in Time
    /\ objects \in [Keys -> Object \cup {NoObject}]
    /\ alloc \in [Positions -> Allocator]
    /\ heartbeat \in [SegmentNames -> Time \cup {Never}]
    /\ owner \in [SegmentNames -> Clients \cup {NoClient}]
    /\ call \in [Callers -> Frame]
    /\ oplog \in Seq(Entry)
    /\ holder \in Callers \cup {NoCaller}
    /\ \A c \in Callers : Locked(c) <=> holder = c

\* Two replicas never share a byte: the buffers of all objects, committed or in
\* flight, are disjoint within a segment, whatever reclaiming, eviction,
\* revoking, upserting and unmounting went on.
BuffersDisjoint ==
    \A j, k \in Keys : \A q \in ReplicasOf(j), r \in ReplicasOf(k) :
        q.seg = r.seg /\ Overlap(q, r) => j = k /\ q = r

\* The allocators hold exactly the buffers of the objects in the table: no
\* buffer in use was handed back, and none leaks on any path out of a call.
Accounting ==
    \A s \in SegmentNames :
        {<<r.off, r.size>> : r \in {q \in UNION {ReplicasOf(k) : k \in Keys} : q.seg = s}}
          = UNION {{<<e.off, e.size>> : e \in alloc[m].live} :
                     m \in {n \in Positions : alloc[n].name = s}}

\* No segment name has two allocators in the list.
OneAllocatorPerSegment ==
    \A m, n \in Positions : alloc[m].name = alloc[n].name /\ m # n
                              => alloc[m].name = Unmounted

-----------------------------------------------------------------------------
(* What the properties above rest on, when no name is mounted twice.         *)

SingleMounts == ~DuplicateMounts /\ "remount" \notin Ops

\* A mount under way names a segment that nobody else mounts or has mounted.
MountsOnce ==
    /\ OneAllocatorPerSegment
    /\ \A c \in Callers :
         /\ ~At(c, "remount")
         /\ At(c, "mount") =>
              /\ ~Mounted(alloc, call[c].name)
              /\ \A d \in Callers : At(d, "mount") /\ call[d].name = call[c].name => d = c

\* Within one allocator the live extents are disjoint.
ExtentsDisjoint ==
    \A m \in Positions :
        /\ alloc[m].name = Unmounted => alloc[m].live = {}
        /\ \A e, f \in alloc[m].live : Overlap(e, f) => e = f

\* Every replica has its extent live in an allocator of its segment.
Backed ==
    \A k \in Keys : \A r \in ReplicasOf(k) : \E m \in Positions :
        alloc[m].name = r.seg /\ [off |-> r.off, size |-> r.size] \in alloc[m].live

\* Every live extent is the buffer of a replica.
Owned ==
    \A m \in Positions : \A e \in alloc[m].live : \E k \in Keys : \E r \in ReplicasOf(k) :
        r.seg = alloc[m].name /\ r.off = e.off /\ r.size = e.size

\* The frame in which the lock holder will allocate, and the key it is for:
\* nothing is under that key until then.
Pending(c) == IF call[c].at \in {"watermark", "evict"} THEN call[c].next ELSE call[c]
Vacant ==
    \A c \in Callers : Locked(c) /\ Pending(c).at \in {"allocate", "retry"}
                         => objects[Pending(c).args.key] = NoObject

\* A victim under collection is gone or not hard-pinned.
VictimsSoft ==
    \A c \in Callers : At(c, "evict") =>
        \A v \in call[c].victims : objects[v.key] = NoObject \/ objects[v.key].pin # "hard"

-----------------------------------------------------------------------------
Steps(c) == call'[c] # call[c]
Evicts(c) == At(c, "evict") /\ Steps(c)

\* Eviction never drops a hard-pinned object, although it removes the victims it
\* collected without looking at them again and other callers run in between.
HardPinShields ==
    [][\A c \in Callers : Evicts(c) =>
         \A k \in Keys : objects[k] # NoObject /\ objects[k].pin = "hard"
                           => objects'[k] # NoObject]_vars

\* A read lease holds: while it runs, eviction, an unforced remove and an upsert
\* leave the object readable at the buffers the reader was given.
LeaseShields ==
    [][\A c \in Callers :
         Steps(c) /\ \/ At(c, "evict")
                     \/ At(c, "remove") /\ ~call[c].force
                     \/ At(c, "upsert_same")
                     \/ At(c, "upsert_other")
         => \A k \in Keys :
              has_complete_replica(objects[k]) /\ Leased(objects[k], clock)
                => /\ objects'[k] # NoObject
                   /\ objects'[k].replicas = objects[k].replicas]_vars

\* Whatever other callers do to an object that stays where it is, a reader keeps the
\* lease it was granted; it is cut only by a get that read the clock before a tick and
\* took the shard lock after it, and by no more than the ticks that get missed.
LeasesKept ==
    [][\A k \in Keys :
         /\ objects[k] # NoObject /\ objects'[k] # NoObject
         /\ objects'[k].replicas = objects[k].replicas
         /\ objects'[k].lease_until < objects[k].lease_until
         => \E c \in Callers :
              /\ At(c, "get") /\ Steps(c) /\ call[c].key = k
              /\ objects[k].lease_until - objects'[k].lease_until
                   <= clock - call[c].now]_vars

\* put_start gives up with NoAvailableSegment only when the units it needs are
\* free but not where they are needed, or when every object that is left is
\* hard-pinned or has been leased to a reader.
ExhaustedOnlyIfHeld ==
    [][\A c \in Callers : At(c, "retry") /\ placements(alloc, call[c].args.size, call[c].args.num) = {} =>
         \/ ~Steps(c)
         \/ allocated(alloc) <= capacity(alloc) - call[c].args.size * call[c].args.num
         \/ \A k \in Keys : \/ objects[k] = NoObject
                            \/ objects[k].pin = "hard"
                            \/ objects[k].lease_until > 0]_vars

\* A batch_put_start that fails leaves none of the objects it had started.
BatchRevoked ==
    [][\A c \in Callers : At(c, "rollback") /\ call'[c].at = "ret"
         => \A k \in call[c].started : objects'[k] = NoObject]_vars

Quiet == \A c \in Callers : Idle(c)

\* The maps beside the allocator list agree with it.  No name has two allocators, and
\* between calls the heartbeat map has an entry for the mounted segments and for no
\* others, and only a mounted segment has an owner: an unmounted segment is not alive,
\* and a client's pings and unmounts act on segments that exist.
SegmentMapsAgree ==
    /\ OneAllocatorPerSegment
    /\ Quiet => \A s \in SegmentNames :
         /\ heartbeat[s] # Never <=> Mounted(alloc, s)
         /\ owner[s] # NoClient => Mounted(alloc, s)

\* Every call that took the `segments` lock leaves it: the holder never waits
\* for another caller, and its eviction loop ends.
Fairness == \A c \in Callers : WF_vars(Locked(c) /\ Step(c))
FairSpec == Spec /\ Fairness
LockReleased == \A c \in Callers : holder = c ~> holder # c
=============================================================================
