-------------------------- MODULE MasterTypeProofs --------------------------
(***************************************************************************)
(* What the operators on the allocator list return, the kinds of frames a  *)
(* caller can be at, and that the steps of segments and of eviction keep   *)
(* the types of the store master.                                          *)
(***************************************************************************)
EXTENDS MasterService, FiniteSetTheorems, TLAPS

-----------------------------------------------------------------------------
(* The allocator list.                                                       *)

Allocators == [Positions -> Allocator]

\* An empty list is a list.
LEMMA NoAllocatorsType == NoAllocators \in Allocators
BY DEF NoAllocators, Allocators, Allocator

\* Mounting puts an allocator into the list.
LEMMA PushType ==
    ASSUME NEW al \in Allocators, NEW m \in Positions, NEW s \in SegmentNames
    PROVE  push(al, m, s) \in Allocators
BY DEF push, Allocators, Allocator

\* Unmounting leaves a list.
LEMMA RetainType ==
    ASSUME NEW al \in Allocators, NEW s \in SegmentNames
    PROVE  retain_other(al, s) \in Allocators
BY DEF retain_other, NoAllocators, Allocators, Allocator

\* Freeing buffers leaves a list, keeps the names, and only takes extents away.
LEMMA FreeType ==
    ASSUME NEW al \in Allocators, NEW R \in SUBSET Replica
    PROVE  /\ free_replicas(al, R) \in Allocators
           /\ \A m \in Positions :
                /\ free_replicas(al, R)[m].name = al[m].name
                /\ free_replicas(al, R)[m].live =
                     {e \in al[m].live : ~ /\ IsFirst(al, m)
                                           /\ \E r \in R : r.seg = al[m].name /\ r.off = e.off}
BY DEF free_replicas, Allocators, Allocator

\* A placement takes mounted segments only, at offsets that are free there.
LEMMA PlacementFits ==
    ASSUME NEW al \in Allocators, NEW size, NEW num, NEW f \in placements(al, size, num)
    PROVE  /\ DOMAIN f \subseteq Positions
           /\ \A m \in DOMAIN f : /\ f[m] \in Offsets
                                  /\ al[m].name # Unmounted
                                  /\ FitsAt(al[m].live, f[m], size)
BY DEF placements, candidates

\* Allocating adds one extent to each allocator of the placement.
LEMMA AllocateType ==
    ASSUME NEW al \in Allocators, NEW size \in Sizes, NEW num,
           NEW f \in placements(al, size, num)
    PROVE  /\ allocate(al, f, size) \in Allocators
           /\ \A m \in Positions :
                /\ allocate(al, f, size)[m].name = al[m].name
                /\ allocate(al, f, size)[m].live =
                     IF m \in DOMAIN f
                     THEN al[m].live \cup {[off |-> f[m], size |-> size]} ELSE al[m].live
<1> SUFFICES ASSUME NEW m \in Positions
             PROVE  /\ allocate(al, f, size)[m] \in Allocator
                    /\ allocate(al, f, size)[m].name = al[m].name
                    /\ allocate(al, f, size)[m].live =
                         IF m \in DOMAIN f
                         THEN al[m].live \cup {[off |-> f[m], size |-> size]} ELSE al[m].live
  BY DEF allocate, Allocators
<1>1. al[m] \in Allocator
  BY DEF Allocators
<1>2. CASE m \in DOMAIN f
  <2>1. [off |-> f[m], size |-> size] \in Extent
    BY <1>2, PlacementFits DEF Extent
  <2> QED
    BY <1>1, <1>2, <2>1 DEF allocate, Allocator
<1>3. CASE m \notin DOMAIN f
  BY <1>1, <1>3 DEF allocate
<1> QED
  BY <1>2, <1>3

\* The replicas recorded for a placement are replicas of mounted segments.
LEMMA NewReplicasType ==
    ASSUME NEW al \in Allocators, NEW size \in Sizes, NEW num,
           NEW f \in placements(al, size, num)
    PROVE  new_replicas(al, f, size) \subseteq Replica
<1> SUFFICES ASSUME NEW m \in DOMAIN f
             PROVE  [id |-> m, seg |-> al[m].name, off |-> f[m], size |-> size,
                     complete |-> FALSE] \in Replica
  BY DEF new_replicas
<1>1. m \in Positions /\ f[m] \in Offsets /\ al[m].name # Unmounted
  BY PlacementFits
<1>2. al[m].name \in SegmentNames
  BY <1>1 DEF Allocators, Allocator
<1> QED
  BY <1>1, <1>2 DEF Replica

\* The mounted capacity is a number.
LEMMA CapacityNat ==
    ASSUME NEW al \in Allocators
    PROVE  capacity(al) \in Nat
<1>1. IsFiniteSet(Positions)
  BY SegmentAssumption, FS_Interval DEF Positions
<1>2. IsFiniteSet({m \in Positions : al[m].name # Unmounted})
  BY <1>1, FS_Subset
<1>3. Cardinality({m \in Positions : al[m].name # Unmounted}) \in Nat
  BY <1>2, FS_CardinalityType
<1> QED
  BY <1>3, SegmentAssumption DEF capacity

-----------------------------------------------------------------------------
(* Frames.                                                                   *)

\* The place a frame is at says which fields it has.
LEMMA FrameKinds ==
    ASSUME NEW f \in Frame
    PROVE  /\ f.at = "log" => f \in Log
           /\ f.at \in {"mount", "remount"} => f \in Mounting
           /\ f.at = "own" => f \in Own
           /\ f.at \in {"unmount", "unmount_beat", "unmount_owner"} => f \in Unmounting
           /\ f.at = "beat" => f \in Beat
           /\ f.at = "ping" => f \in Ping
           /\ f.at = "watermark" => f \in Watermark
           /\ f.at = "evict" => f \in Evict
           /\ f.at \in {"allocate", "retry"} => f.args \in Args
           /\ f.at = "put_start" => f \in Put
           /\ f.at = "rollback" => f \in Rollback
           /\ f.at = "get" => f \in Get
           /\ f.at \in {"upsert_same", "upsert_other"} => f \in Upsert
           /\ f.at = "remove" => f \in Removing
BY DEF Frame, Ret, Log, Mounting, Own, Unmounting, Beat, Ping, Watermark, Evict,
       Allocating, Put, Rollback, Get, Upsert, Removing

\* A finished call.
LEMMA RetFrame ==
    ASSUME NEW code \in Codes
    PROVE  /\ [at |-> "ret", code |-> code] \in Frame
           /\ ~InLock([at |-> "ret", code |-> code])
BY DEF Frame, Ret, InLock

\* A call that succeeded.
LEMMA OkFrame == Ok \in Frame /\ ~InLock(Ok)
BY RetFrame DEF Ok, Codes

\* What follows a mount or its log entry.
LEMMA OwnFrame ==
    ASSUME NEW f \in {Ok} \cup Own
    PROVE  f \in Frame /\ ~InLock(f)
BY OkFrame DEF Own, Frame, InLock

\* What follows an eviction.
LEMMA AllocatingFrame ==
    ASSUME NEW f \in Allocating
    PROVE  f \in Frame /\ InLock(f)
BY DEF Allocating, Frame, InLock

-----------------------------------------------------------------------------
(* Types.                                                                    *)

\* The place a caller is at says which fields its frame has, and whether it holds
\* the lock.
LEMMA CallKinds ==
    ASSUME TypeOK, NEW c \in Callers
    PROVE  /\ call[c] \in Frame
           /\ call[c].at = "ret" => ~Locked(c)
           /\ call[c].at = "log" => call[c] \in Log /\ ~Locked(c)
           /\ call[c].at = "mount" => call[c] \in Mounting /\ ~Locked(c)
           /\ call[c].at = "remount" => call[c] \in Mounting /\ ~Locked(c)
           /\ call[c].at = "own" => call[c] \in Own /\ ~Locked(c)
           /\ call[c].at = "unmount" => call[c] \in Unmounting /\ ~Locked(c)
           /\ call[c].at = "unmount_beat" => call[c] \in Unmounting /\ ~Locked(c)
           /\ call[c].at = "unmount_owner" => call[c] \in Unmounting /\ ~Locked(c)
           /\ call[c].at = "beat" => call[c] \in Beat /\ ~Locked(c)
           /\ call[c].at = "ping" => call[c] \in Ping /\ ~Locked(c)
           /\ call[c].at = "watermark" => call[c] \in Watermark /\ Locked(c)
           /\ call[c].at = "evict" => call[c] \in Evict /\ Locked(c)
           /\ call[c].at = "allocate" => call[c].args \in Args /\ Locked(c)
           /\ call[c].at = "retry" => call[c].args \in Args /\ Locked(c)
           /\ call[c].at = "evicted" => Locked(c)
           /\ call[c].at = "put_start" => call[c] \in Put /\ ~Locked(c)
           /\ call[c].at = "rollback" => call[c] \in Rollback /\ ~Locked(c)
           /\ call[c].at = "get" => call[c] \in Get /\ ~Locked(c)
           /\ call[c].at = "upsert_same" => call[c] \in Upsert /\ ~Locked(c)
           /\ call[c].at = "upsert_other" => call[c] \in Upsert /\ ~Locked(c)
           /\ call[c].at = "remove" => call[c] \in Removing /\ ~Locked(c)
<1>1. call[c] \in Frame
  BY DEF TypeOK
<1> QED
  BY <1>1, FrameKinds DEF Locked, InLock

\* A step of one caller keeps the types when it writes values of the right types
\* and the lock changes hands together with the caller's place.
LEMMA StepType ==
    ASSUME TypeOK, NEW c \in Callers, NEW f \in Frame, goto(c, f), clock' = clock,
           objects' = objects \/ objects' \in [Keys -> Object \cup {NoObject}],
           alloc' = alloc \/ alloc' \in [Positions -> Allocator],
           heartbeat' = heartbeat \/ heartbeat' \in [SegmentNames -> Time \cup {Never}],
           owner' = owner \/ owner' \in [SegmentNames -> Clients \cup {NoClient}],
           oplog' = oplog \/ oplog' \in Seq(Entry),
           \/ holder' = holder /\ (InLock(f) <=> Locked(c))
           \/ holder = NoCaller /\ holder' = c /\ InLock(f)
           \/ Locked(c) /\ holder' = NoCaller /\ ~InLock(f)
    PROVE  TypeOK'
<1>1. call' \in [Callers -> Frame]
  BY DEF TypeOK, goto
<1>2. \A d \in Callers : call'[d] = IF d = c THEN f ELSE call[d]
  BY DEF TypeOK, goto
<1>3. \A d \in Callers : Locked(d)' <=> IF d = c THEN InLock(f) ELSE Locked(d)
  BY <1>2 DEF Locked, InLock
<1>4. holder' \in Callers \cup {NoCaller} /\ \A d \in Callers : Locked(d)' <=> holder' = d
  BY <1>3, MasterAssumption DEF TypeOK
<1>5. /\ clock' \in Time /\ objects' \in [Keys -> Object \cup {NoObject}]
      /\ alloc' \in [Positions -> Allocator]
      /\ heartbeat' \in [SegmentNames -> Time \cup {Never}]
      /\ owner' \in [SegmentNames -> Clients \cup {NoClient}] /\ oplog' \in Seq(Entry)
  BY DEF TypeOK
<1> QED
  BY <1>1, <1>4, <1>5 DEF TypeOK

\* The replicas of a key are replicas.
LEMMA ReplicasOfType ==
    ASSUME TypeOK, NEW k \in Keys
    PROVE  ReplicasOf(k) \subseteq Replica
BY DEF TypeOK, ReplicasOf, Object

\* Dropping a key keeps the types of the table and of the allocators.
LEMMA DropType ==
    ASSUME TypeOK, NEW k \in Keys, drop(k)
    PROVE  /\ objects' \in [Keys -> Object \cup {NoObject}]
           /\ alloc' \in [Positions -> Allocator]
<1>1. objects' \in [Keys -> Object \cup {NoObject}]
  BY DEF drop, TypeOK
<1>2. alloc' \in [Positions -> Allocator]
  BY ReplicasOfType, FreeType DEF drop, TypeOK, Allocators
<1> QED
  BY <1>1, <1>2

\* The arguments callers pass are arguments.
LEMMA PutArgsType == PutArgs \subseteq Args
<1>1. \A n \in 0..(MaxBatch - 1) : [1..n -> Keys] \subseteq Seq(Keys)
  BY MasterAssumption
<1> QED
  BY <1>1 DEF PutArgs, Args

\* A put returns, goes on with its batch, or starts to roll it back.
LEMMA PutReturnsFrame ==
    ASSUME NEW c, NEW a \in Args, NEW code \in Codes, put_returns(c, a, code)
    PROVE  \E f \in Frame : ~InLock(f) /\ goto(c, f)
<1>1. CASE code # "Ok" /\ a.started = {}
  BY <1>1, RetFrame DEF put_returns
<1>2. CASE code # "Ok" /\ a.started # {}
  <2> DEFINE f == [at |-> "rollback", started |-> a.started, todo |-> a.started,
                   code |-> code]
  <2>1. f \in Rollback
    BY DEF Args, Rollback
  <2>2. f \in Frame /\ ~InLock(f)
    BY <2>1 DEF Frame, InLock
  <2>3. goto(c, f)
    BY <1>2 DEF put_returns
  <2> QED
    BY <2>2, <2>3
<1>3. CASE code = "Ok" /\ a.rest = <<>>
  BY <1>3, OkFrame DEF put_returns
<1>4. CASE code = "Ok" /\ a.rest # <<>>
  <2> DEFINE b == [a EXCEPT !.key = Head(a.rest), !.rest = Tail(a.rest),
                            !.started = @ \cup {a.key}]
  <2> DEFINE f == [at |-> "put_start", args |-> b]
  <2>1. Head(a.rest) \in Keys /\ Tail(a.rest) \in Seq(Keys)
    BY <1>4 DEF Args
  <2>2. b \in Args
    BY <2>1 DEF Args
  <2>3. f \in Frame /\ ~InLock(f)
    BY <2>2 DEF Frame, Put, InLock
  <2>4. goto(c, f)
    BY <1>4 DEF put_returns
  <2> QED
    BY <2>3, <2>4
<1> QED
  BY <1>1, <1>2, <1>3, <1>4

\* A call that logs goes to its log entry, or straight on.
LEMMA LogThenFrame ==
    ASSUME NEW c, NEW entry \in Entry, NEW next \in {Ok} \cup Own,
           log_then(c, entry, next)
    PROVE  \E f \in Frame : ~InLock(f) /\ goto(c, f)
<1>1. [at |-> "log", entry |-> entry, next |-> next] \in Frame
  BY DEF Frame, Log
<1>2. ~InLock([at |-> "log", entry |-> entry, next |-> next])
  BY DEF InLock
<1> QED
  BY <1>1, <1>2, OwnFrame DEF log_then

\* Appending to the log keeps its type.
LEMMA AppendType ==
    ASSUME TypeOK, NEW entry \in Entry, append(entry)
    PROVE  oplog' \in Seq(Entry)
BY DEF append, TypeOK

\* The error codes the operations return.
LEMMA CodeNames ==
    /\ "Ok" \in Codes /\ "ObjectNotFound" \in Codes /\ "ObjectNotReady" \in Codes
    /\ "UnsafeReuse" \in Codes /\ "ObjectAlreadyExists" \in Codes
    /\ "NoAvailableSegment" \in Codes /\ "SegmentNotFound" \in Codes
BY DEF Codes

\* The first section of mount_segment, run for every way of mounting, keeps the types.
LEMMA MountBeginType ==
    ASSUME TypeOK, NEW c \in Callers, NEW s \in SegmentNames, NEW next \in {Ok} \cup Own,
           mount_begin(c, s, next), ~Locked(c)
    PROVE  TypeOK'
<1> DEFINE f == [at |-> "mount", name |-> s, next |-> next]
<1>1. f \in Frame /\ ~InLock(f)
  BY DEF Frame, Mounting, InLock
<1>2. goto(c, f) /\ UNCHANGED <<clock, objects, alloc, holder, owner, oplog>>
  BY DEF mount_begin
<1>3. heartbeat' \in [SegmentNames -> Time \cup {Never}]
  BY DEF mount_begin, TypeOK
<1> HIDE DEF f
<1> QED
  BY <1>1, <1>2, <1>3, StepType

\* The frame that takes ownership of a segment.
LEMMA OwnFrames ==
    ASSUME NEW s \in SegmentNames, NEW client \in Clients, NEW next \in {Ok} \cup Ping
    PROVE  own(s, client, next) \in Own
BY DEF own, Own

\* The section of unmount_segment under the segments lock keeps the types.
LEMMA UnmountLockedType ==
    ASSUME TypeOK, NEW c \in Callers, NEW s \in SegmentNames, unmount_locked(c, s), ~Locked(c)
    PROVE  TypeOK'
<1>1. UNCHANGED <<clock, holder, heartbeat, owner, oplog>>
  BY DEF unmount_locked
<1>2. CASE ~Mounted(alloc, s)
  <2>1. ret(c, "SegmentNotFound") /\ UNCHANGED <<objects, alloc>>
    BY <1>2 DEF unmount_locked
  <2> QED
    BY CodeNames, <1>1, <2>1, RetFrame, StepType DEF ret
<1>3. CASE Mounted(alloc, s)
  <2> DEFINE f == [at |-> "unmount_beat", name |-> s]
  <2>1. f \in Frame /\ ~InLock(f)
    BY DEF Frame, Unmounting, InLock
  <2>2. goto(c, f)
    BY <1>3 DEF unmount_locked
  <2>3. alloc' \in [Positions -> Allocator]
    BY <1>3, RetainType DEF unmount_locked, TypeOK, Allocators
  <2>4. objects' \in [Keys -> Object \cup {NoObject}]
    <3> SUFFICES ASSUME NEW k \in Keys PROVE objects'[k] \in Object \cup {NoObject}
      BY <1>3 DEF unmount_locked
    <3> DEFINE kept == {r \in ReplicasOf(k) : r.seg # s}
    <3>1. objects'[k] = IF kept = {} THEN NoObject
                        ELSE [objects[k] EXCEPT !.replicas = kept]
      BY <1>3 DEF unmount_locked
    <3>2. kept \subseteq Replica
      BY ReplicasOfType
    <3>3. kept # {} => objects[k] \in Object
      BY DEF ReplicasOf, TypeOK
    <3> HIDE DEF kept
    <3> QED
      BY <3>1, <3>2, <3>3 DEF Object
  <2> HIDE DEF f
  <2> QED
    BY <1>1, <2>1, <2>2, <2>3, <2>4, StepType
<1> QED
  BY <1>2, <1>3

\* log_op keeps the types.
LEMMA LogOpType ==
    ASSUME TypeOK, NEW c \in Callers, log_op(c)
    PROVE  TypeOK'
<1>1. call[c] \in Log /\ ~Locked(c)
  BY CallKinds DEF log_op, At
<1>2. call[c].entry \in Entry /\ call[c].next \in Frame /\ ~InLock(call[c].next)
  BY <1>1, OwnFrame DEF Log
<1>3. oplog' \in Seq(Entry)
  BY <1>2, AppendType DEF log_op
<1> QED
  BY <1>1, <1>2, <1>3, StepType DEF log_op

\* mount_segment keeps the types.
LEMMA MountSegmentType ==
    ASSUME TypeOK, NEW c \in Callers, mount_segment(c)
    PROVE  TypeOK'
BY MountBeginType, CallKinds DEF mount_segment, Idle

\* mount_segment_for keeps the types.
LEMMA MountSegmentForType ==
    ASSUME TypeOK, NEW c \in Callers, mount_segment_for(c)
    PROVE  TypeOK'
BY MountBeginType, OwnFrames, CallKinds DEF mount_segment_for, Idle

\* mount_push keeps the types.
LEMMA MountPushType ==
    ASSUME TypeOK, NEW c \in Callers, mount_push(c)
    PROVE  TypeOK'
<1>1. call[c] \in Mounting /\ ~Locked(c)
  BY CallKinds DEF mount_push, At
<1>2. SegmentMounted(call[c].name) \in Entry
  BY <1>1 DEF Mounting, SegmentMounted, Entry
<1>3. PICK f \in Frame : ~InLock(f) /\ goto(c, f)
  BY <1>1, <1>2, LogThenFrame DEF mount_push, Mounting
<1>4. alloc' \in [Positions -> Allocator]
  BY <1>1, PushType DEF mount_push, TypeOK, Allocators, Mounting
<1> QED
  BY <1>1, <1>3, <1>4, StepType DEF mount_push

\* take_ownership keeps the types.
LEMMA TakeOwnershipType ==
    ASSUME TypeOK, NEW c \in Callers, take_ownership(c)
    PROVE  TypeOK'
<1>1. call[c] \in Own /\ ~Locked(c)
  BY CallKinds DEF take_ownership, At
<1>2. call[c].next \in Frame /\ ~InLock(call[c].next)
  BY <1>1, OwnFrame DEF Own, Ping, Frame, InLock
<1>3. owner' \in [SegmentNames -> Clients \cup {NoClient}]
  BY <1>1 DEF take_ownership, TypeOK, Own
<1> QED
  BY <1>1, <1>2, <1>3, StepType DEF take_ownership

\* unmount_segment keeps the types.
LEMMA UnmountSegmentType ==
    ASSUME TypeOK, NEW c \in Callers, unmount_segment(c)
    PROVE  TypeOK'
BY UnmountLockedType, CallKinds DEF unmount_segment, Idle

\* unmount_segment_for keeps the types.
LEMMA UnmountSegmentForType ==
    ASSUME TypeOK, NEW c \in Callers, unmount_segment_for(c)
    PROVE  TypeOK'
<1>1. ~Locked(c)
  BY CallKinds DEF unmount_segment_for, Idle
<1>2. \E f \in Frame : ~InLock(f) /\ goto(c, f)
  <2>1. \A s \in SegmentNames : /\ [at |-> "unmount", name |-> s] \in Frame
                                /\ ~InLock([at |-> "unmount", name |-> s])
    BY DEF Frame, Unmounting, InLock
  <2> QED
    BY CodeNames, <2>1, RetFrame DEF unmount_segment_for, ret
<1> QED
  BY <1>1, <1>2, StepType DEF unmount_segment_for

\* unmount_owned keeps the types.
LEMMA UnmountOwnedType ==
    ASSUME TypeOK, NEW c \in Callers, unmount_owned(c)
    PROVE  TypeOK'
<1>1. call[c] \in Unmounting /\ ~Locked(c)
  BY CallKinds DEF unmount_owned, At
<1> QED
  BY UnmountLockedType, <1>1 DEF unmount_owned, Unmounting

\* unmount_beat keeps the types.
LEMMA UnmountBeatType ==
    ASSUME TypeOK, NEW c \in Callers, unmount_beat(c)
    PROVE  TypeOK'
<1>1. call[c] \in Unmounting /\ ~Locked(c)
  BY CallKinds DEF unmount_beat, At
<1> DEFINE f == [call[c] EXCEPT !.at = "unmount_owner"]
<1>2. f \in Unmounting /\ f.at = "unmount_owner"
  BY <1>1 DEF Unmounting
<1>3. f \in Frame /\ ~InLock(f)
  BY <1>2 DEF Frame, InLock
<1>4. heartbeat' \in [SegmentNames -> Time \cup {Never}]
  BY DEF unmount_beat, TypeOK
<1>5. goto(c, f) /\ UNCHANGED <<clock, objects, alloc, holder, owner, oplog>>
  BY DEF unmount_beat
<1> HIDE DEF f
<1> QED
  BY <1>1, <1>3, <1>4, <1>5, StepType

\* unmount_owner keeps the types.
LEMMA UnmountOwnerType ==
    ASSUME TypeOK, NEW c \in Callers, unmount_owner(c)
    PROVE  TypeOK'
<1>1. call[c] \in Unmounting /\ ~Locked(c)
  BY CallKinds DEF unmount_owner, At
<1>2. SegmentUnmounted(call[c].name) \in Entry
  BY <1>1 DEF Unmounting, SegmentUnmounted, Entry
<1>3. PICK f \in Frame : ~InLock(f) /\ goto(c, f)
  BY <1>2, LogThenFrame DEF unmount_owner
<1>4. owner' \in [SegmentNames -> Clients \cup {NoClient}]
  BY DEF unmount_owner, TypeOK
<1> QED
  BY <1>1, <1>3, <1>4, StepType DEF unmount_owner

\* beat_heartbeat keeps the types.
LEMMA BeatHeartbeatType ==
    ASSUME TypeOK, NEW c \in Callers, beat_heartbeat(c)
    PROVE  TypeOK'
<1>1. ~Locked(c)
  BY CallKinds DEF beat_heartbeat, Idle
<1>2. \E f \in Frame : ~InLock(f) /\ goto(c, f)
  BY CodeNames, RetFrame DEF beat_heartbeat, ret
<1>3. heartbeat' \in [SegmentNames -> Time \cup {Never}]
  BY DEF beat_heartbeat, TypeOK
<1> QED
  BY <1>1, <1>2, <1>3, StepType DEF beat_heartbeat

\* The frame client_heartbeat leaves after it has read the owners.
LEMMA CollectOwnedFrame ==
    ASSUME TypeOK, NEW client \in Clients
    PROVE  collect_owned(client) \in Frame /\ ~InLock(collect_owned(client))
BY DEF collect_owned, TypeOK, Frame, Beat, InLock

\* client_heartbeat keeps the types.
LEMMA ClientHeartbeatType ==
    ASSUME TypeOK, NEW c \in Callers, client_heartbeat(c)
    PROVE  TypeOK'
<1>1. ~Locked(c)
  BY CallKinds DEF client_heartbeat, Idle
<1> QED
  BY CollectOwnedFrame, <1>1, StepType DEF client_heartbeat

\* beat_owned keeps the types.
LEMMA BeatOwnedType ==
    ASSUME TypeOK, NEW c \in Callers, beat_owned(c)
    PROVE  TypeOK'
<1>1. call[c] \in Beat /\ ~Locked(c)
  BY CallKinds DEF beat_owned, At
<1>2. heartbeat' \in [SegmentNames -> Time \cup {Never}]
  BY <1>1 DEF beat_owned, TypeOK, Beat
<1> QED
  BY CodeNames, <1>1, <1>2, RetFrame, StepType DEF beat_owned, ret

\* remount_segments keeps the types.
LEMMA RemountSegmentsType ==
    ASSUME TypeOK, NEW c \in Callers, remount_segments(c)
    PROVE  TypeOK'
<1>1. ~Locked(c)
  BY CallKinds DEF remount_segments, Idle
<1>2. PICK s \in SegmentNames, client \in Clients :
        goto(c, IF Mounted(alloc, s) THEN own(s, client, [at |-> "ping", client |-> client])
                ELSE [at |-> "remount", name |-> s,
                      next |-> own(s, client, [at |-> "ping", client |-> client])])
  BY DEF remount_segments
<1> DEFINE o == own(s, client, [at |-> "ping", client |-> client])
<1>3. o \in Own
  BY OwnFrames DEF Ping
<1> HIDE DEF o
<1>4. o \in Frame /\ ~InLock(o)
  BY <1>3, OwnFrame
<1>5. /\ [at |-> "remount", name |-> s, next |-> o] \in Frame
      /\ ~InLock([at |-> "remount", name |-> s, next |-> o])
  BY <1>3 DEF Frame, Mounting, InLock
<1>6. \E f \in Frame : ~InLock(f) /\ goto(c, f)
  BY <1>2, <1>4, <1>5 DEF o
<1> QED
  BY <1>1, <1>6, StepType DEF remount_segments

\* remount_begin keeps the types.
LEMMA RemountBeginType ==
    ASSUME TypeOK, NEW c \in Callers, remount_begin(c)
    PROVE  TypeOK'
<1>1. call[c] \in Mounting /\ ~Locked(c)
  BY CallKinds DEF remount_begin, At
<1> QED
  BY MountBeginType, <1>1 DEF remount_begin, Mounting

\* remount_ping keeps the types.
LEMMA RemountPingType ==
    ASSUME TypeOK, NEW c \in Callers, remount_ping(c)
    PROVE  TypeOK'
<1>1. call[c] \in Ping /\ ~Locked(c)
  BY CallKinds DEF remount_ping, At
<1> QED
  BY CollectOwnedFrame, <1>1, StepType DEF remount_ping, Ping

\* The segment lifecycle keeps the types.
LEMMA LifecycleType ==
    ASSUME TypeOK, NEW c \in Callers,
           \/ log_op(c) \/ mount_segment(c) \/ mount_segment_for(c) \/ mount_push(c)
           \/ take_ownership(c) \/ unmount_segment(c) \/ unmount_segment_for(c)
           \/ unmount_owned(c) \/ unmount_beat(c) \/ unmount_owner(c) \/ beat_heartbeat(c)
           \/ client_heartbeat(c) \/ beat_owned(c) \/ remount_segments(c)
           \/ remount_begin(c) \/ remount_ping(c)
    PROVE  TypeOK'
BY LogOpType, MountSegmentType, MountSegmentForType, MountPushType, TakeOwnershipType,
   UnmountSegmentType, UnmountSegmentForType, UnmountOwnedType, UnmountBeatType,
   UnmountOwnerType, BeatHeartbeatType, ClientHeartbeatType, BeatOwnedType,
   RemountSegmentsType, RemountBeginType, RemountPingType

\* The capacity and the number of allocated units are numbers.
LEMMA WatermarkTargetInt ==
    ASSUME TypeOK
    PROVE  capacity(alloc) \in Nat /\ watermark_target \in Int
<1>1. capacity(alloc) \in Nat
  BY CapacityNat DEF TypeOK, Allocators
<1>2. 855 * capacity(alloc) \in Int
  BY <1>1
<1> QED
  BY <1>1, <1>2 DEF watermark_target

\* Starting an eviction yields a frame of the eviction loop.
LEMMA EvictingFrame ==
    ASSUME TypeOK, NEW goal \in Int, NEW next \in Allocating
    PROVE  evicting(goal, next) \in Evict /\ evicting(goal, next) \in Frame
<1>1. ASSUME NEW k \in Keys, objects[k] # NoObject
      PROVE  [key |-> k, soft |-> objects[k].pin = "soft",
              access |-> objects[k].last_access] \in Victim
  BY <1>1 DEF TypeOK, Object, Victim
<1>2. victims_coldest_first \subseteq Victim
  BY <1>1 DEF victims_coldest_first
<1>3. evicting(goal, next) \in Evict
  BY <1>2 DEF evicting, Evict
<1> QED
  BY <1>3 DEF Frame

\* evict_if_needed_locked keeps the types.
LEMMA EvictIfNeededLockedType ==
    ASSUME TypeOK, NEW c \in Callers, evict_if_needed_locked(c)
    PROVE  TypeOK'
<1>1. call[c] \in Watermark /\ Locked(c)
  BY CallKinds DEF evict_if_needed_locked, At
<1>2. call[c].next \in Frame /\ InLock(call[c].next)
  BY <1>1, AllocatingFrame DEF Watermark
<1>3. evicting(watermark_target, call[c].next) \in Frame
  BY <1>1, EvictingFrame, WatermarkTargetInt DEF Watermark
<1>4. InLock(evicting(watermark_target, call[c].next))
  BY DEF InLock, evicting
<1>5. \E f \in Frame : InLock(f) /\ goto(c, f)
  BY <1>2, <1>3, <1>4 DEF evict_if_needed_locked
<1> QED
  BY <1>1, <1>5, StepType DEF evict_if_needed_locked

\* evict_one keeps the types.
LEMMA EvictOneType ==
    ASSUME TypeOK, NEW c \in Callers, evict_one(c)
    PROVE  TypeOK'
<1>1. call[c] \in Evict /\ Locked(c)
  BY CallKinds DEF evict_one, At
<1>2. PICK v \in call[c].victims :
        /\ drop(v.key)
        /\ IF objects[v.key] = NoObject THEN UNCHANGED oplog ELSE append(Removed(v.key))
        /\ goto(c, [call[c] EXCEPT !.victims = @ \ {v}])
  BY DEF evict_one
<1>3. v.key \in Keys
  BY <1>1 DEF Evict, Victim
<1>4. oplog' \in Seq(Entry)
  <2>1. Removed(v.key) \in Entry
    BY <1>3 DEF Removed, Entry
  <2> QED
    BY <1>2, <2>1, AppendType DEF TypeOK
<1> DEFINE f == [call[c] EXCEPT !.victims = @ \ {v}]
<1>5. f \in Evict /\ f.at = "evict"
  BY <1>1 DEF Evict
<1>6. f \in Frame /\ InLock(f)
  BY <1>5 DEF Frame, InLock
<1>7. goto(c, f)
  BY <1>2
<1> HIDE DEF f
<1> QED
  BY <1>1, <1>2, <1>3, <1>4, <1>6, <1>7, DropType, StepType DEF evict_one

\* evict_done keeps the types.
LEMMA EvictDoneType ==
    ASSUME TypeOK, NEW c \in Callers, evict_done(c)
    PROVE  TypeOK'
<1>1. call[c] \in Evict /\ Locked(c)
  BY CallKinds DEF evict_done, At
<1>2. call[c].next \in Frame /\ InLock(call[c].next)
  BY <1>1, AllocatingFrame DEF Evict
<1> QED
  BY <1>1, <1>2, StepType DEF evict_done

\* evict_if_needed keeps the types.
LEMMA EvictIfNeededType ==
    ASSUME TypeOK, NEW c \in Callers, evict_if_needed(c)
    PROVE  TypeOK'
<1> DEFINE f == [at |-> "watermark", next |-> [at |-> "evicted"]]
<1>1. f \in Frame /\ InLock(f)
  BY DEF Frame, Watermark, Allocating, InLock
<1>2. goto(c, f) /\ holder = NoCaller /\ holder' = c
  BY DEF evict_if_needed
<1> HIDE DEF f
<1> QED
  BY <1>1, <1>2, StepType DEF evict_if_needed

\* evict_returns keeps the types.
LEMMA EvictReturnsType ==
    ASSUME TypeOK, NEW c \in Callers, evict_returns(c)
    PROVE  TypeOK'
<1>1. Locked(c)
  BY CallKinds DEF evict_returns, At
<1> QED
  BY <1>1, OkFrame, StepType DEF evict_returns, ret, Ok

\* Eviction keeps the types.
LEMMA EvictionType ==
    ASSUME TypeOK, NEW c \in Callers,
           \/ evict_if_needed_locked(c) \/ evict_one(c) \/ evict_done(c)
           \/ evict_if_needed(c) \/ evict_returns(c)
    PROVE  TypeOK'
BY EvictIfNeededLockedType, EvictOneType, EvictDoneType, EvictIfNeededType,
   EvictReturnsType
=============================================================================
