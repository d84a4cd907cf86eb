------------------------- MODULE MasterEffectProofs -------------------------
(***************************************************************************)
(* What a step of the store master does to the object table and to the     *)
(* allocators: every step of a caller is of one of eight kinds.  The       *)
(* invariants of MasterSafetyProofs are proved over the kinds, not over    *)
(* the forty actions.                                                      *)
(***************************************************************************)
EXTENDS MasterBufferProofs

-----------------------------------------------------------------------------
(* The kinds of steps a caller c takes, f being the frame it goes to.        *)

pending(f) == IF f.at \in {"watermark", "evict"} THEN f.next ELSE f
Outside(f) == ~InLock(f) /\ f.at \notin {"mount", "remount"}

\* No object appears, and the ones that stay keep their pin.
PinsKept ==
    \A k \in Keys : \/ objects'[k] = NoObject
                    \/ objects[k] # NoObject /\ objects'[k].pin = objects[k].pin

Quietly(f) == Outside(f) /\ SameBuffers /\ PinsKept
Drops(f) == Outside(f) /\ \E k \in Keys : drop(k)
Detaches(f) == Outside(f) /\ PinsKept /\ \E s \in SegmentNames : Unmounts(s)
Attaches(c, f) ==
    /\ ~InLock(f)
    /\ UNCHANGED <<objects, alloc>>
    /\ SingleMounts /\ ~At(c, "remount") => f.at = "mount" /\ MayMount(f.name)
Pushes(c, f) ==
    /\ At(c, "mount") /\ Outside(f)
    /\ \E m \in Positions : IsEnd(alloc, m) /\ alloc' = push(alloc, m, call[c].name)
    /\ UNCHANGED objects
Starts(f) ==
    /\ holder = NoCaller /\ f.at = "watermark"
    /\ \/ f.next.at = "allocate" /\ f.next.args.key \in Keys /\ drop(f.next.args.key)
       \/ f.next.at = "evicted" /\ UNCHANGED <<objects, alloc>>
Evicting(c, f) ==
    /\ Locked(c) /\ InLock(f)
    /\ pending(f).at \in {"allocate", "retry"} =>
         /\ Pending(c).at \in {"allocate", "retry"}
         /\ pending(f).args = Pending(c).args
    /\ \/ /\ UNCHANGED <<objects, alloc>>
          /\ f.at = "evict" => f.victims = victims_coldest_first
       \/ /\ At(c, "evict") /\ f.at = "evict"
          /\ f.victims \subseteq call[c].victims
          /\ \E v \in call[c].victims : v.key \in Keys /\ drop(v.key)
Places(c, f) ==
    /\ call[c].at \in {"allocate", "retry"} /\ Outside(f)
    /\ \E g \in placements(alloc, call[c].args.size, call[c].args.num) :
         place(c, call[c].args, g)

Effect(c, f) ==
    \/ Quietly(f) \/ Drops(f) \/ Detaches(f) \/ Attaches(c, f) \/ Pushes(c, f)
    \/ Starts(f) \/ Evicting(c, f) \/ Places(c, f)

\* Nothing changes when the table and the allocators do not.
LEMMA UnchangedQuiet ==
    ASSUME TypeOK, UNCHANGED <<objects, alloc>>
    PROVE  SameBuffers /\ PinsKept
BY DEF SameBuffers, PinsKept, ReplicasOf

\* A call that has returned is outside the lock and not mounting.
LEMMA RetOutside == \A code : Outside([at |-> "ret", code |-> code])
BY DEF Outside, InLock

\* So is one that leaves a put_start.
LEMMA PutReturnsOutside ==
    ASSUME NEW c, NEW a, NEW code, put_returns(c, a, code)
    PROVE  \E f : Outside(f) /\ goto(c, f)
BY DEF put_returns, Outside, InLock, Ok

\* So is one that goes to its log entry or past it.
LEMMA LogThenOutside ==
    ASSUME NEW c, NEW entry, NEW next \in {Ok} \cup Own, log_then(c, entry, next)
    PROVE  \E f : Outside(f) /\ goto(c, f)
<1>1. Outside(next)
  BY DEF Outside, InLock, Ok, Own
<1>2. Outside([at |-> "log", entry |-> entry, next |-> next])
  BY DEF Outside, InLock
<1> QED
  BY <1>1, <1>2 DEF log_then

\* A step that leaves the table and the allocators alone is quiet.
LEMMA QuietEffect ==
    ASSUME TypeOK, NEW c \in Callers, UNCHANGED <<objects, alloc>>,
           \E f : Outside(f) /\ goto(c, f)
    PROVE  \E f : goto(c, f) /\ Effect(c, f)
BY UnchangedQuiet DEF Effect, Quietly

\* The section of unmount_segment under the segments lock detaches the segment.
LEMMA UnmountLockedEffect ==
    ASSUME TypeOK, NEW c \in Callers, NEW s \in SegmentNames, unmount_locked(c, s)
    PROVE  \E f : goto(c, f) /\ Effect(c, f)
<1>1. CASE ~Mounted(alloc, s)
  BY QuietEffect, <1>1, RetOutside DEF unmount_locked, ret
<1>2. CASE Mounted(alloc, s)
  <2> DEFINE f == [at |-> "unmount_beat", name |-> s]
             kept(k) == {r \in ReplicasOf(k) : r.seg # s}
  <2>1. goto(c, f) /\ alloc' = retain_other(alloc, s)
    BY <1>2 DEF unmount_locked
  <2>2. Outside(f)
    BY DEF Outside, InLock
  <2>3. \A k \in Keys : objects'[k] = IF kept(k) = {} THEN NoObject
                                      ELSE [objects[k] EXCEPT !.replicas = kept(k)]
    BY <1>2 DEF unmount_locked
  <2>4. ASSUME NEW k \in Keys, kept(k) # {}
        PROVE  /\ objects[k] # NoObject /\ objects'[k] # NoObject
               /\ objects'[k].pin = objects[k].pin /\ objects'[k].replicas = kept(k)
    <3>1. objects[k] \in Object
      BY <2>4 DEF ReplicasOf, TypeOK
    <3>2. kept(k) \subseteq Replica
      BY ReplicasOfType
    <3>3. objects'[k] = [objects[k] EXCEPT !.replicas = kept(k)]
      BY <2>3, <2>4
    <3> HIDE DEF kept
    <3>4. /\ [objects[k] EXCEPT !.replicas = kept(k)] \in Object
          /\ [objects[k] EXCEPT !.replicas = kept(k)].pin = objects[k].pin
          /\ [objects[k] EXCEPT !.replicas = kept(k)].replicas = kept(k)
      BY <3>1, <3>2 DEF Object
    <3> QED
      BY <3>1, <3>3, <3>4, MasterAssumption
  <2>5. PinsKept
    <3> SUFFICES ASSUME NEW k \in Keys
                 PROVE  \/ objects'[k] = NoObject
                        \/ objects[k] # NoObject /\ objects'[k].pin = objects[k].pin
      BY DEF PinsKept
    <3>1. CASE kept(k) = {}
      BY <2>3, <3>1
    <3>2. CASE kept(k) # {}
      BY <2>4, <3>2
    <3> QED
      BY <3>1, <3>2
  <2>6. Unmounts(s)
    <3>1. ASSUME NEW k \in Keys PROVE ReplicasOf(k)' = kept(k)
      <4>1. CASE kept(k) = {}
        <5>1. objects'[k] = NoObject
          BY <2>3, <4>1
        <5> QED
          BY <4>1, <5>1 DEF ReplicasOf
      <4>2. CASE kept(k) # {}
        <5>1. objects'[k] # NoObject /\ objects'[k].replicas = kept(k)
          BY <2>4, <4>2
        <5> HIDE DEF kept
        <5> QED
          BY <5>1 DEF ReplicasOf
      <4> QED
        BY <4>1, <4>2
    <3> QED
      BY <2>1, <3>1 DEF Unmounts
  <2> HIDE DEF f
  <2> QED
    BY <2>1, <2>2, <2>5, <2>6 DEF Effect, Detaches
<1> QED
  BY <1>1, <1>2

\* The first section of mount_segment attaches a caller to a mount.
LEMMA MountBeginEffect ==
    ASSUME NEW c \in Callers, NEW s, NEW next, mount_begin(c, s, next),
           MayMount(s) \/ At(c, "remount")
    PROVE  \E f : goto(c, f) /\ Effect(c, f)
<1> DEFINE f == [at |-> "mount", name |-> s, next |-> next]
<1>1. goto(c, f) /\ UNCHANGED <<objects, alloc>>
  BY DEF mount_begin
<1>2. ~InLock(f) /\ f.at = "mount" /\ f.name = s
  BY DEF InLock
<1> HIDE DEF f
<1> QED
  BY <1>1, <1>2 DEF Effect, Attaches

\* Taking ownership happens outside the segments lock.
LEMMA OwnOutside ==
    ASSUME NEW s, NEW client, NEW next
    PROVE  Outside(own(s, client, next))
BY DEF Outside, InLock, own

\* log_op takes a step of one of the kinds.
LEMMA LogOpEffect ==
    ASSUME TypeOK, NEW c \in Callers, log_op(c)
    PROVE  \E f : goto(c, f) /\ Effect(c, f)
<1>1. call[c] \in Log
  BY CallKinds DEF log_op, At
<1>2. Outside(call[c].next)
  BY <1>1 DEF Log, Outside, InLock, Ok, Own
<1> QED
  BY QuietEffect, <1>2 DEF log_op

\* mount_segment takes a step of one of the kinds.
LEMMA MountSegmentEffect ==
    ASSUME TypeOK, NEW c \in Callers, mount_segment(c)
    PROVE  \E f : goto(c, f) /\ Effect(c, f)
BY MountBeginEffect DEF mount_segment

\* mount_segment_for takes a step of one of the kinds.
LEMMA MountSegmentForEffect ==
    ASSUME TypeOK, NEW c \in Callers, mount_segment_for(c)
    PROVE  \E f : goto(c, f) /\ Effect(c, f)
BY MountBeginEffect DEF mount_segment_for

\* mount_push takes a step of one of the kinds.
LEMMA MountPushEffect ==
    ASSUME TypeOK, NEW c \in Callers, mount_push(c)
    PROVE  \E f : goto(c, f) /\ Effect(c, f)
<1>1. call[c].next \in {Ok} \cup Own
  BY CallKinds DEF mount_push, At, Mounting
<1>2. PICK f : Outside(f) /\ goto(c, f)
  BY <1>1, LogThenOutside DEF mount_push
<1> QED
  BY <1>2 DEF mount_push, Effect, Pushes

\* take_ownership takes a step of one of the kinds.
LEMMA TakeOwnershipEffect ==
    ASSUME TypeOK, NEW c \in Callers, take_ownership(c)
    PROVE  \E f : goto(c, f) /\ Effect(c, f)
<1>1. call[c] \in Own
  BY CallKinds DEF take_ownership, At
<1>2. Outside(call[c].next)
  BY <1>1 DEF Own, Ping, Outside, InLock, Ok
<1> QED
  BY QuietEffect, <1>2 DEF take_ownership

\* unmount_segment takes a step of one of the kinds.
LEMMA UnmountSegmentEffect ==
    ASSUME TypeOK, NEW c \in Callers, unmount_segment(c)
    PROVE  \E f : goto(c, f) /\ Effect(c, f)
BY UnmountLockedEffect DEF unmount_segment

\* unmount_segment_for takes a step of one of the kinds.
LEMMA UnmountSegmentForEffect ==
    ASSUME TypeOK, NEW c \in Callers, unmount_segment_for(c)
    PROVE  \E f : goto(c, f) /\ Effect(c, f)
<1>1. \A s : Outside([at |-> "unmount", name |-> s])
  BY DEF Outside, InLock
<1> QED
  BY QuietEffect, <1>1, RetOutside DEF unmount_segment_for, ret

\* unmount_owned takes a step of one of the kinds.
LEMMA UnmountOwnedEffect ==
    ASSUME TypeOK, NEW c \in Callers, unmount_owned(c)
    PROVE  \E f : goto(c, f) /\ Effect(c, f)
<1>1. call[c].name \in SegmentNames
  BY CallKinds DEF unmount_owned, At, Unmounting
<1> QED
  BY UnmountLockedEffect, <1>1 DEF unmount_owned

\* unmount_beat takes a step of one of the kinds.
LEMMA UnmountBeatEffect ==
    ASSUME TypeOK, NEW c \in Callers, unmount_beat(c)
    PROVE  \E f : goto(c, f) /\ Effect(c, f)
<1>1. call[c] \in Unmounting
  BY CallKinds DEF unmount_beat, At
<1>2. Outside([call[c] EXCEPT !.at = "unmount_owner"])
  BY <1>1 DEF Unmounting, Outside, InLock
<1> QED
  BY QuietEffect, <1>2 DEF unmount_beat

\* unmount_owner takes a step of one of the kinds.
LEMMA UnmountOwnerEffect ==
    ASSUME TypeOK, NEW c \in Callers, unmount_owner(c)
    PROVE  \E f : goto(c, f) /\ Effect(c, f)
BY QuietEffect, LogThenOutside DEF unmount_owner

\* beat_heartbeat takes a step of one of the kinds.
LEMMA BeatHeartbeatEffect ==
    ASSUME TypeOK, NEW c \in Callers, beat_heartbeat(c)
    PROVE  \E f : goto(c, f) /\ Effect(c, f)
BY QuietEffect, RetOutside DEF beat_heartbeat, ret

\* TODO
LEMMA CollectOwnedOutside ==
    \A client : Outside(collect_owned(client))
BY DEF Outside, InLock, collect_owned

\* client_heartbeat takes a step of one of the kinds.
LEMMA ClientHeartbeatEffect ==
    ASSUME TypeOK, NEW c \in Callers, client_heartbeat(c)
    PROVE  \E f : goto(c, f) /\ Effect(c, f)
BY QuietEffect, CollectOwnedOutside DEF client_heartbeat

\* beat_owned takes a step of one of the kinds.
LEMMA BeatOwnedEffect ==
    ASSUME TypeOK, NEW c \in Callers, beat_owned(c)
    PROVE  \E f : goto(c, f) /\ Effect(c, f)
BY QuietEffect, RetOutside DEF beat_owned, ret

\* remount_segments takes a step of one of the kinds.
LEMMA RemountSegmentsEffect ==
    ASSUME TypeOK, NEW c \in Callers, remount_segments(c)
    PROVE  \E f : goto(c, f) /\ Effect(c, f)
<1>1. PICK f : goto(c, f) /\ ~InLock(f)
  BY DEF remount_segments, own, InLock
<1>2. ~SingleMounts
  BY DEF remount_segments, SingleMounts
<1> QED
  BY <1>1, <1>2 DEF remount_segments, Effect, Attaches

\* remount_begin takes a step of one of the kinds.
LEMMA RemountBeginEffect ==
    ASSUME TypeOK, NEW c \in Callers, remount_begin(c)
    PROVE  \E f : goto(c, f) /\ Effect(c, f)
BY MountBeginEffect DEF remount_begin

\* remount_ping takes a step of one of the kinds.
LEMMA RemountPingEffect ==
    ASSUME TypeOK, NEW c \in Callers, remount_ping(c)
    PROVE  \E f : goto(c, f) /\ Effect(c, f)
BY QuietEffect, CollectOwnedOutside DEF remount_ping

\* The steps of the segment lifecycle.
LEMMA LifecycleEffect ==
    ASSUME TypeOK, NEW c \in Callers,
           \/ log_op(c) \/ mount_segment(c) \/ mount_segment_for(c) \/ mount_push(c)
           \/ take_ownership(c) \/ unmount_segment(c) \/ unmount_segment_for(c)
           \/ unmount_owned(c) \/ unmount_beat(c) \/ unmount_owner(c) \/ beat_heartbeat(c)
           \/ client_heartbeat(c) \/ beat_owned(c) \/ remount_segments(c)
           \/ remount_begin(c) \/ remount_ping(c)
    PROVE  \E f : goto(c, f) /\ Effect(c, f)
BY LogOpEffect, MountSegmentEffect, MountSegmentForEffect, MountPushEffect,
   TakeOwnershipEffect, UnmountSegmentEffect, UnmountSegmentForEffect,
   UnmountOwnedEffect, UnmountBeatEffect, UnmountOwnerEffect, BeatHeartbeatEffect,
   ClientHeartbeatEffect, BeatOwnedEffect, RemountSegmentsEffect, RemountBeginEffect,
   RemountPingEffect

\* What an eviction returns to is not an eviction.
LEMMA AllocatingPending ==
    ASSUME NEW next \in Allocating
    PROVE  InLock(next) /\ next.at # "evict" /\ pending(next) = next
BY DEF Allocating, InLock, pending

\* evict_if_needed_locked takes a step of one of the kinds.
LEMMA EvictIfNeededLockedEffect ==
    ASSUME TypeOK, NEW c \in Callers, evict_if_needed_locked(c)
    PROVE  \E f : goto(c, f) /\ Effect(c, f)
<1>1. call[c].next \in Allocating /\ Locked(c) /\ Pending(c) = call[c].next
  BY CallKinds DEF evict_if_needed_locked, At, Watermark, Locked, InLock, Pending
<1>2. UNCHANGED <<objects, alloc>>
  BY DEF evict_if_needed_locked
<1> DEFINE f == evicting(watermark_target, call[c].next)
<1>3. /\ InLock(f) /\ pending(f) = call[c].next /\ f.victims = victims_coldest_first
  BY DEF evicting, InLock, pending
<1>4. CASE goto(c, f)
  <2> HIDE DEF f
  <2> QED
    BY <1>1, <1>2, <1>3, <1>4 DEF Effect, Evicting
<1>5. CASE goto(c, call[c].next)
  BY AllocatingPending, <1>1, <1>2, <1>5 DEF Effect, Evicting
<1> QED
  BY <1>4, <1>5 DEF evict_if_needed_locked

\* evict_one takes a step of one of the kinds.
LEMMA EvictOneEffect ==
    ASSUME TypeOK, NEW c \in Callers, evict_one(c)
    PROVE  \E f : goto(c, f) /\ Effect(c, f)
<1>1. call[c] \in Evict /\ Locked(c) /\ At(c, "evict")
  BY CallKinds DEF evict_one, At, Locked, InLock
<1>2. PICK v \in call[c].victims :
        drop(v.key) /\ goto(c, [call[c] EXCEPT !.victims = @ \ {v}])
  BY DEF evict_one
<1>3. v.key \in Keys
  BY <1>1 DEF Evict, Victim
<1> DEFINE f == [call[c] EXCEPT !.victims = @ \ {v}]
<1>4. /\ f.at = "evict" /\ f.victims \subseteq call[c].victims /\ f.next = call[c].next
      /\ call[c].next \in Allocating
  BY <1>1 DEF Evict
<1>5. goto(c, f)
  BY <1>2
<1> HIDE DEF f
<1>6. InLock(f) /\ pending(f) = Pending(c) /\ Pending(c) = call[c].next
  BY <1>1, <1>4 DEF InLock, pending, Pending, At
<1>7. pending(f).at \in {"allocate", "retry"} => Pending(c).at \in {"allocate", "retry"}
  BY <1>6
<1> QED
  BY <1>1, <1>2, <1>3, <1>4, <1>5, <1>6, <1>7 DEF Effect, Evicting

\* evict_done takes a step of one of the kinds.
LEMMA EvictDoneEffect ==
    ASSUME TypeOK, NEW c \in Callers, evict_done(c)
    PROVE  \E f : goto(c, f) /\ Effect(c, f)
<1>1. call[c].next \in Allocating /\ Locked(c) /\ Pending(c) = call[c].next
  BY CallKinds DEF evict_done, At, Evict, Locked, InLock, Pending
<1> QED
  BY AllocatingPending, <1>1 DEF evict_done, Effect, Evicting

\* evict_if_needed takes a step of one of the kinds.
LEMMA EvictIfNeededEffect ==
    ASSUME TypeOK, NEW c \in Callers, evict_if_needed(c)
    PROVE  \E f : goto(c, f) /\ Effect(c, f)
<1> DEFINE f == [at |-> "watermark", next |-> [at |-> "evicted"]]
<1>1. goto(c, f) /\ holder = NoCaller /\ UNCHANGED <<objects, alloc>>
  BY DEF evict_if_needed
<1>2. f.at = "watermark" /\ f.next.at = "evicted"
  OBVIOUS
<1> HIDE DEF f
<1> QED
  BY <1>1, <1>2 DEF Effect, Starts

\* evict_returns takes a step of one of the kinds.
LEMMA EvictReturnsEffect ==
    ASSUME TypeOK, NEW c \in Callers, evict_returns(c)
    PROVE  \E f : goto(c, f) /\ Effect(c, f)
BY UnchangedQuiet, RetOutside DEF evict_returns, ret, Effect, Quietly

\* The steps of the eviction loop.
LEMMA EvictionEffect ==
    ASSUME TypeOK, NEW c \in Callers,
           \/ evict_if_needed_locked(c) \/ evict_one(c) \/ evict_done(c)
           \/ evict_if_needed(c) \/ evict_returns(c)
    PROVE  \E f : goto(c, f) /\ Effect(c, f)
BY EvictIfNeededLockedEffect, EvictOneEffect, EvictDoneEffect, EvictIfNeededEffect,
   EvictReturnsEffect

\* Dropping a key makes no object appear and changes no pin.
LEMMA DropPins ==
    ASSUME TypeOK, NEW k \in Keys, drop(k)
    PROVE  PinsKept
BY DEF drop, PinsKept, TypeOK

\* Writing one object that differs in status, identity and times only.
LEMMA StatusQuiet ==
    ASSUME TypeOK, NEW k \in Keys, objects[k] # NoObject, NEW o \in Object,
           objects' = [objects EXCEPT ![k] = o], alloc' = alloc, o.pin = objects[k].pin,
           \/ o.replicas = objects[k].replicas
           \/ \E b \in BOOLEAN :
                o.replicas = {[r EXCEPT !.complete = b] : r \in objects[k].replicas}
    PROVE  SameBuffers /\ PinsKept
<1>1. o # NoObject
  BY MasterAssumption
<1>2. \A j \in Keys : objects'[j] = IF j = k THEN o ELSE objects[j]
  BY DEF TypeOK
<1>3. PinsKept
  BY <1>2 DEF PinsKept
<1>4. \A j \in Keys : ReplicasOf(j)' = IF j = k THEN o.replicas ELSE ReplicasOf(j)
  BY <1>1, <1>2 DEF ReplicasOf
<1>5. ReplicasOf(k) = objects[k].replicas
  BY DEF ReplicasOf
<1>6. SameBuffers
  BY <1>4, <1>5 DEF SameBuffers
<1> QED
  BY <1>3, <1>6

\* The first section of put_start drops the key and takes the lock, or returns.
LEMMA PutStartLockedEffect ==
    ASSUME TypeOK, NEW c \in Callers, NEW a \in Args, put_start_locked(c, a)
    PROVE  \E f : goto(c, f) /\ Effect(c, f)
<1>1. CASE has_complete_replica(objects[a.key])
  BY QuietEffect, <1>1, PutReturnsOutside DEF put_start_locked
<1>2. CASE ~has_complete_replica(objects[a.key])
  <2> DEFINE f == [at |-> "watermark", next |-> [at |-> "allocate", args |-> a]]
  <2>1. goto(c, f) /\ holder = NoCaller /\ drop(a.key)
    BY <1>2 DEF put_start_locked
  <2>2. f.at = "watermark" /\ f.next.at = "allocate" /\ f.next.args = a
    OBVIOUS
  <2>3. a.key \in Keys
    BY DEF Args
  <2> HIDE DEF f
  <2> QED
    BY <2>1, <2>2, <2>3 DEF Effect, Starts
<1> QED
  BY <1>1, <1>2

\* A successful allocation places the object.
LEMMA PlaceEffect ==
    ASSUME TypeOK, NEW c \in Callers, call[c].at \in {"allocate", "retry"},
           NEW g \in placements(alloc, call[c].args.size, call[c].args.num),
           place(c, call[c].args, g)
    PROVE  \E f : goto(c, f) /\ Effect(c, f)
<1>1. PICK f : Outside(f) /\ goto(c, f)
  BY PutReturnsOutside DEF place
<1> QED
  BY <1>1 DEF Effect, Places

\* put_start takes a step of one of the kinds.
LEMMA PutStartEffect ==
    ASSUME TypeOK, NEW c \in Callers, put_start(c)
    PROVE  \E f : goto(c, f) /\ Effect(c, f)
BY PutStartLockedEffect, PutArgsType DEF put_start

\* put_start_next takes a step of one of the kinds.
LEMMA PutStartNextEffect ==
    ASSUME TypeOK, NEW c \in Callers, put_start_next(c)
    PROVE  \E f : goto(c, f) /\ Effect(c, f)
<1>1. call[c].args \in Args
  BY CallKinds DEF put_start_next, At, Put
<1> QED
  BY PutStartLockedEffect, <1>1 DEF put_start_next

\* allocate_replicas takes a step of one of the kinds.
LEMMA AllocateReplicasEffect ==
    ASSUME TypeOK, NEW c \in Callers, allocate_replicas(c)
    PROVE  \E f : goto(c, f) /\ Effect(c, f)
<1> DEFINE a == call[c].args
           f == evicting(capacity(alloc) - a.size * a.num, [at |-> "retry", args |-> a])
<1>1. call[c].at = "allocate"
  BY DEF allocate_replicas, At
<1>2. CASE goto(c, f) /\ UNCHANGED <<objects, alloc, holder>>
  <2>1. /\ InLock(f) /\ pending(f).args = a /\ f.victims = victims_coldest_first
    BY DEF evicting, InLock, pending
  <2>2. Locked(c) /\ Pending(c) = call[c]
    BY <1>1 DEF Locked, InLock, Pending
  <2> HIDE DEF f
  <2> QED
    BY <1>1, <1>2, <2>1, <2>2 DEF Effect, Evicting
<1>3. CASE \E g \in placements(alloc, a.size, a.num) : place(c, a, g)
  BY PlaceEffect, <1>1, <1>3
<1> QED
  BY <1>2, <1>3 DEF allocate_replicas

\* allocate_again takes a step of one of the kinds.
LEMMA AllocateAgainEffect ==
    ASSUME TypeOK, NEW c \in Callers, allocate_again(c)
    PROVE  \E f : goto(c, f) /\ Effect(c, f)
<1> DEFINE a == call[c].args
<1>1. call[c].at = "retry"
  BY DEF allocate_again, At
<1>2. CASE put_returns(c, a, "NoAvailableSegment") /\ UNCHANGED <<objects, alloc>>
  BY QuietEffect, <1>2, PutReturnsOutside
<1>3. CASE \E g \in placements(alloc, a.size, a.num) : place(c, a, g)
  BY PlaceEffect, <1>1, <1>3
<1> QED
  BY <1>2, <1>3 DEF allocate_again

\* put_end takes a step of one of the kinds.
LEMMA PutEndEffect ==
    ASSUME TypeOK, NEW c \in Callers, put_end(c)
    PROVE  \E f : goto(c, f) /\ Effect(c, f)
<1>1. PICK k \in Keys : put_end_key(c, k)
  BY DEF put_end
<1>2. CASE objects[k] = NoObject
  BY QuietEffect, <1>1, <1>2, RetOutside DEF put_end_key, ret
<1>3. CASE objects[k] # NoObject
  <2> DEFINE R == {[r EXCEPT !.complete = TRUE] : r \in objects[k].replicas}
             o == [objects[k] EXCEPT !.replicas = R]
  <2>1. /\ objects' = [objects EXCEPT ![k] = o] /\ alloc' = alloc
        /\ log_then(c, PutCommitted(k, o), Ok)
    BY <1>1, <1>3 DEF put_end_key
  <2>2. objects[k] \in Object
    BY <1>3 DEF TypeOK
  <2>3. R \subseteq Replica
    BY <2>2 DEF Object, Replica
  <2>4. R = {[r EXCEPT !.complete = TRUE] : r \in objects[k].replicas}
    OBVIOUS
  <2> HIDE DEF R
  <2>5. o \in Object /\ o.pin = objects[k].pin /\ o.replicas = R
    BY <2>2, <2>3 DEF Object
  <2> HIDE DEF o
  <2>6. SameBuffers /\ PinsKept
    BY <1>3, <2>1, <2>4, <2>5, StatusQuiet
  <2>7. PICK f : Outside(f) /\ goto(c, f)
    BY <2>1, LogThenOutside
  <2> QED
    BY <2>6, <2>7 DEF Effect, Quietly
<1> QED
  BY <1>2, <1>3

\* put_revoke takes a step of one of the kinds.
LEMMA PutRevokeEffect ==
    ASSUME TypeOK, NEW c \in Callers, put_revoke(c)
    PROVE  \E f : goto(c, f) /\ Effect(c, f)
BY RetOutside DEF put_revoke, ret, Effect, Drops

\* batch_rollback takes a step of one of the kinds.
LEMMA BatchRollbackEffect ==
    ASSUME TypeOK, NEW c \in Callers, batch_rollback(c)
    PROVE  \E f : goto(c, f) /\ Effect(c, f)
<1>1. call[c] \in Rollback
  BY CallKinds DEF batch_rollback, At
<1>2. PICK k \in call[c].todo :
        /\ drop(k)
        /\ goto(c, IF call[c].todo = {k} THEN [at |-> "ret", code |-> call[c].code]
                   ELSE [call[c] EXCEPT !.todo = @ \ {k}])
  BY DEF batch_rollback
<1>3. k \in Keys
  BY <1>1 DEF Rollback
<1>4. Outside([call[c] EXCEPT !.todo = @ \ {k}])
  BY <1>1 DEF Rollback, Outside, InLock
<1>5. PICK f : Outside(f) /\ goto(c, f)
  BY <1>2, <1>4, RetOutside
<1> QED
  BY <1>2, <1>3, <1>5 DEF Effect, Drops

\* The steps of Put.
LEMMA PutEffect ==
    ASSUME TypeOK, NEW c \in Callers,
           \/ put_start(c) \/ put_start_next(c) \/ allocate_replicas(c) \/ allocate_again(c)
           \/ put_end(c) \/ put_revoke(c) \/ batch_rollback(c)
    PROVE  \E f : goto(c, f) /\ Effect(c, f)
BY PutStartEffect, PutStartNextEffect, AllocateReplicasEffect, AllocateAgainEffect,
   PutEndEffect, PutRevokeEffect, BatchRollbackEffect

\* get_begin takes a step of one of the kinds.
LEMMA GetBeginEffect ==
    ASSUME TypeOK, NEW c \in Callers, get_begin(c)
    PROVE  \E f : goto(c, f) /\ Effect(c, f)
<1>1. \A k, i, n, al : Outside([at |-> "get", key |-> k, identity |-> i, now |-> n,
                                alive |-> al])
  BY DEF Outside, InLock
<1> QED
  BY QuietEffect, <1>1 DEF get_begin, get_key

\* get_replica_list takes a step of one of the kinds.
LEMMA GetReplicaListEffect ==
    ASSUME TypeOK, NEW c \in Callers, get_replica_list(c)
    PROVE  \E f : goto(c, f) /\ Effect(c, f)
<1> DEFINE k == call[c].key
           o == [objects[k] EXCEPT !.last_access = call[c].now,
                                   !.lease_until = call[c].now + LeaseTtl]
<1>1. k \in Keys /\ call[c].now \in Nat /\ call[c].now + LeaseTtl \in Nat
  BY CallKinds, MasterAssumption DEF get_replica_list, At, Get, Time
<1>2. \E f : Outside(f) /\ goto(c, f)
  BY RetOutside DEF get_replica_list, ret
<1>3. CASE UNCHANGED objects
  BY QuietEffect, <1>2, <1>3 DEF get_replica_list
<1>4. CASE objects[k] # NoObject /\ ~UNCHANGED objects
  <2>1. objects[k] \in Object
    BY <1>1, <1>4 DEF TypeOK
  <2>2. objects' = [objects EXCEPT ![k] = o] /\ alloc' = alloc
    BY <1>1, <1>4 DEF get_replica_list, TypeOK
  <2>3. o \in Object /\ o.pin = objects[k].pin /\ o.replicas = objects[k].replicas
    BY <1>1, <2>1 DEF Object
  <2> HIDE DEF k, o
  <2>4. SameBuffers /\ PinsKept
    BY <1>1, <1>4, <2>2, <2>3, StatusQuiet
  <2> QED
    BY <1>2, <2>4 DEF Effect, Quietly
<1> QED
  BY <1>3, <1>4 DEF get_replica_list

\* put_start begins outside the segments lock.
LEMMA PutStartOutside ==
    \A a : Outside([at |-> "put_start", args |-> a])
BY DEF Outside, InLock

\* upsert_start takes a step of one of the kinds.
LEMMA UpsertStartEffect ==
    ASSUME TypeOK, NEW c \in Callers, upsert_start(c)
    PROVE  \E f : goto(c, f) /\ Effect(c, f)
<1>1. \A p \in {"upsert_same", "upsert_other"} : \A a, n :
        Outside([at |-> p, args |-> a, now |-> n])
  BY DEF Outside, InLock
<1>2. \E f : Outside(f) /\ goto(c, f)
  BY PutStartOutside, <1>1, RetOutside DEF upsert_start, ret
<1> QED
  BY QuietEffect, <1>2 DEF upsert_start

\* upsert_same takes a step of one of the kinds.
LEMMA UpsertSameEffect ==
    ASSUME TypeOK, NEW c \in Callers, upsert_same(c)
    PROVE  \E f : goto(c, f) /\ Effect(c, f)
<1> DEFINE k == call[c].args.key
           R == {[r EXCEPT !.complete = FALSE] : r \in objects[k].replicas}
           o == [objects[k] EXCEPT !.identity = call[c].args.identity,
                                   !.last_access = call[c].now, !.replicas = R]
<1>1. k \in Keys /\ call[c].args.identity \in Identities /\ call[c].now \in Nat
  <2>1. call[c] \in Upsert
    BY CallKinds DEF upsert_same, At
  <2> QED
    BY <2>1, MasterAssumption DEF Upsert, Args, Time
<1>2. Outside([at |-> "panic"])
  BY DEF Outside, InLock
<1>3. \E f : Outside(f) /\ goto(c, f)
  BY <1>2, RetOutside DEF upsert_same, ret
<1>4. CASE objects[k] = NoObject
  BY QuietEffect, <1>3, <1>4 DEF upsert_same
<1>5. CASE objects[k] # NoObject
  <2>1. objects[k] \in Object
    BY <1>1, <1>5 DEF TypeOK
  <2>2. objects' = [objects EXCEPT ![k] = o] /\ alloc' = alloc
    BY <1>1, <1>5 DEF upsert_same, TypeOK
  <2>3. R \subseteq Replica
    BY <2>1 DEF Object, Replica
  <2>4. \E b \in BOOLEAN : R = {[r EXCEPT !.complete = b] : r \in objects[k].replicas}
    OBVIOUS
  <2> HIDE DEF R, k
  <2>5. o \in Object /\ o.pin = objects[k].pin /\ o.replicas = R
    BY <1>1, <2>1, <2>3 DEF Object
  <2> HIDE DEF o
  <2>6. SameBuffers /\ PinsKept
    BY <1>1, <1>5, <2>2, <2>4, <2>5, StatusQuiet
  <2> QED
    BY <1>3, <2>6 DEF Effect, Quietly
<1> QED
  BY <1>4, <1>5

\* upsert_other takes a step of one of the kinds.
LEMMA UpsertOtherEffect ==
    ASSUME TypeOK, NEW c \in Callers, upsert_other(c)
    PROVE  \E f : goto(c, f) /\ Effect(c, f)
<1>1. call[c].args.key \in Keys
  BY CallKinds DEF upsert_other, At, Upsert, Args
<1> QED
  BY PutStartOutside, <1>1 DEF upsert_other, Effect, Drops

\* remove_begin takes a step of one of the kinds.
LEMMA RemoveBeginEffect ==
    ASSUME TypeOK, NEW c \in Callers, remove_begin(c)
    PROVE  \E f : goto(c, f) /\ Effect(c, f)
<1>1. \A k, b, n : Outside([at |-> "remove", key |-> k, force |-> b, now |-> n])
  BY DEF Outside, InLock
<1> QED
  BY QuietEffect, <1>1 DEF remove_begin, remove_key

\* remove takes a step of one of the kinds.
LEMMA RemoveEffect ==
    ASSUME TypeOK, NEW c \in Callers, remove(c)
    PROVE  \E f : goto(c, f) /\ Effect(c, f)
<1> DEFINE k == call[c].key
<1>1. k \in Keys
  BY CallKinds DEF remove, At, Removing
<1>2. CASE drop(k) /\ log_then(c, Removed(k), Ok)
  <2>1. PICK f : Outside(f) /\ goto(c, f)
    BY <1>2, LogThenOutside
  <2> QED
    BY <1>1, <1>2, <2>1 DEF Effect, Drops
<1>3. CASE ~(drop(k) /\ log_then(c, Removed(k), Ok))
  <2>1. UNCHANGED <<objects, alloc>> /\ \E f : Outside(f) /\ goto(c, f)
    BY <1>3, RetOutside DEF remove, ret
  <2> QED
    BY QuietEffect, <2>1
<1> QED
  BY <1>2, <1>3

\* The steps of reads, upserts and removes.
LEMMA AccessEffect ==
    ASSUME TypeOK, NEW c \in Callers,
           \/ get_begin(c) \/ get_replica_list(c) \/ upsert_start(c) \/ upsert_same(c)
           \/ upsert_other(c) \/ remove_begin(c) \/ remove(c)
    PROVE  \E f : goto(c, f) /\ Effect(c, f)
BY GetBeginEffect, GetReplicaListEffect, UpsertStartEffect, UpsertSameEffect,
   UpsertOtherEffect, RemoveBeginEffect, RemoveEffect

\* Every step of a caller is of one of the kinds.
LEMMA StepEffect ==
    ASSUME TypeOK, NEW c \in Callers, Step(c)
    PROVE  \E f : goto(c, f) /\ Effect(c, f)
BY LifecycleEffect, EvictionEffect, PutEffect, AccessEffect DEF Step

=============================================================================
