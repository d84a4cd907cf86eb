------------------------ MODULE MasterServiceProofs ------------------------
(***************************************************************************)
(* Type correctness of the store master, for every set of callers, keys,   *)
(* segments and sizes and every bound.                                     *)
(***************************************************************************)
EXTENDS MasterTypeProofs

\* A field of an object can be replaced by one of its type.
LEMMA ObjectUpdate ==
    ASSUME TypeOK, NEW k \in Keys, NEW o \in Object, objects' = [objects EXCEPT ![k] = o]
    PROVE  objects' \in [Keys -> Object \cup {NoObject}]
BY DEF TypeOK

\* The first section of put_start keeps the types.
LEMMA PutStartLockedType ==
    ASSUME TypeOK, NEW c \in Callers, NEW a \in Args, put_start_locked(c, a), ~Locked(c)
    PROVE  TypeOK'
<1>1. UNCHANGED <<clock, heartbeat, owner, oplog>> /\ a.key \in Keys
  BY DEF put_start_locked, Args
<1>2. CASE has_complete_replica(objects[a.key])
  <2>1. PICK f \in Frame : ~InLock(f) /\ goto(c, f)
    BY CodeNames, <1>2, PutReturnsFrame DEF put_start_locked
  <2> QED
    BY <1>1, <1>2, <2>1, StepType DEF put_start_locked
<1>3. CASE ~has_complete_replica(objects[a.key])
  <2> DEFINE f == [at |-> "watermark", next |-> [at |-> "allocate", args |-> a]]
  <2>1. f \in Frame /\ InLock(f)
    BY DEF Frame, Watermark, Allocating, InLock
  <2>2. goto(c, f) /\ holder = NoCaller /\ holder' = c /\ drop(a.key)
    BY <1>3 DEF put_start_locked
  <2> HIDE DEF f
  <2> QED
    BY <1>1, <2>1, <2>2, DropType, StepType
<1> QED
  BY <1>2, <1>3

\* Storing a freshly placed object keeps the types.
LEMMA PlaceType ==
    ASSUME TypeOK, NEW c \in Callers, NEW a \in Args, NEW g \in placements(alloc, a.size, a.num), place(c, a, g),
           Locked(c), UNCHANGED <<clock, heartbeat, owner, oplog>>
    PROVE  TypeOK'
<1>1. a.key \in Keys /\ a.size \in Sizes /\ a.identity \in Identities /\ a.pin \in Pins
  BY DEF Args
<1>2. PICK f \in Frame : ~InLock(f) /\ goto(c, f)
  BY CodeNames, PutReturnsFrame DEF place
<1>3. alloc \in Allocators
  BY DEF TypeOK, Allocators
<1>4. alloc' \in [Positions -> Allocator]
  BY <1>1, <1>3, AllocateType DEF place, Allocators
<1>5. new_replicas(alloc, g, a.size) \subseteq Replica
  BY <1>1, <1>3, NewReplicasType
<1> DEFINE o == [replicas |-> new_replicas(alloc, g, a.size), identity |-> a.identity,
                 lease_until |-> 0, last_access |-> clock, pin |-> a.pin]
<1>6. clock \in Nat
  BY MasterAssumption DEF TypeOK, Time
<1>7. o \in Object
  BY <1>1, <1>5, <1>6 DEF Object
<1>8. objects' = [objects EXCEPT ![a.key] = o] /\ holder' = NoCaller
  BY DEF place
<1> HIDE DEF o
<1> QED
  BY <1>1, <1>2, <1>4, <1>7, <1>8, ObjectUpdate, StepType

\* put_start keeps the types.
LEMMA PutStartType ==
    ASSUME TypeOK, NEW c \in Callers, put_start(c)
    PROVE  TypeOK'
<1>1. ~Locked(c)
  BY CallKinds DEF put_start, Idle
<1> QED
  BY PutStartLockedType, <1>1, PutArgsType DEF put_start

\* put_start_next keeps the types.
LEMMA PutStartNextType ==
    ASSUME TypeOK, NEW c \in Callers, put_start_next(c)
    PROVE  TypeOK'
<1>1. call[c].args \in Args /\ ~Locked(c)
  BY CallKinds DEF put_start_next, At, Put
<1> QED
  BY PutStartLockedType, <1>1 DEF put_start_next

\* allocate_replicas keeps the types.
LEMMA AllocateReplicasType ==
    ASSUME TypeOK, NEW c \in Callers, allocate_replicas(c)
    PROVE  TypeOK'
<1> DEFINE a == call[c].args
<1>1. a \in Args /\ Locked(c)
  BY CallKinds DEF allocate_replicas, At
<1>2. CASE \E g \in placements(alloc, a.size, a.num) : place(c, a, g)
  BY PlaceType, <1>1, <1>2 DEF allocate_replicas
<1>3. CASE ~\E g \in placements(alloc, a.size, a.num) : place(c, a, g)
  <2> DEFINE f == evicting(capacity(alloc) - a.size * a.num, [at |-> "retry", args |-> a])
  <2>1. goto(c, f) /\ UNCHANGED <<objects, alloc, holder>>
    BY <1>3 DEF allocate_replicas
  <2>2. a.size \in Int /\ a.num \in Int
    <3>1. a.size \in Sizes /\ a.num \in ReplicaNums
      BY <1>1 DEF Args
    <3>2. Sizes \subseteq Int /\ ReplicaNums \subseteq Int
      BY MasterAssumption, SegmentAssumption
    <3> HIDE DEF a
    <3> QED
      BY <3>1, <3>2
  <2>3. capacity(alloc) - a.size * a.num \in Int
    BY <2>2, WatermarkTargetInt
  <2>4. [at |-> "retry", args |-> a] \in Allocating
    BY <1>1 DEF Allocating
  <2>5. f \in Frame
    BY <2>3, <2>4, EvictingFrame
  <2>6. InLock(f)
    BY DEF InLock, evicting
  <2> HIDE DEF f
  <2> QED
    BY <1>1, <2>1, <2>5, <2>6, StepType DEF allocate_replicas
<1> QED
  BY <1>2, <1>3

\* allocate_again keeps the types.
LEMMA AllocateAgainType ==
    ASSUME TypeOK, NEW c \in Callers, allocate_again(c)
    PROVE  TypeOK'
<1> DEFINE a == call[c].args
<1>1. a \in Args /\ Locked(c)
  BY CallKinds DEF allocate_again, At
<1>2. CASE \E g \in placements(alloc, a.size, a.num) : place(c, a, g)
  BY PlaceType, <1>1, <1>2 DEF allocate_again
<1>3. CASE ~\E g \in placements(alloc, a.size, a.num) : place(c, a, g)
  <2>1. put_returns(c, a, "NoAvailableSegment") /\ holder' = NoCaller
    BY <1>3 DEF allocate_again
  <2>2. PICK f \in Frame : ~InLock(f) /\ goto(c, f)
    BY CodeNames, <1>1, <2>1, PutReturnsFrame
  <2> QED
    BY <1>1, <1>3, <2>1, <2>2, StepType DEF allocate_again
<1> QED
  BY <1>2, <1>3

\* put_end keeps the types.
LEMMA PutEndType ==
    ASSUME TypeOK, NEW c \in Callers, put_end(c)
    PROVE  TypeOK'
<1>1. ~Locked(c)
  BY CallKinds DEF put_end, Idle
<1>2. PICK k \in Keys : put_end_key(c, k)
  BY DEF put_end
<1>3. CASE objects[k] = NoObject
  BY CodeNames, <1>1, <1>2, <1>3, RetFrame, StepType DEF put_end_key, ret
<1>4. CASE objects[k] # NoObject
  <2> DEFINE o == [objects[k] EXCEPT !.replicas = {[r EXCEPT !.complete = TRUE] : r \in @}]
  <2>1. o \in Object
    <3>1. objects[k] \in Object
      BY <1>4 DEF TypeOK
    <3>2. {[r EXCEPT !.complete = TRUE] : r \in objects[k].replicas} \subseteq Replica
      BY <3>1 DEF Object, Replica
    <3> QED
      BY <3>1, <3>2 DEF Object
  <2>2. objects' = [objects EXCEPT ![k] = o] /\ log_then(c, PutCommitted(k, o), Ok)
    BY <1>2, <1>4 DEF put_end_key
  <2> HIDE DEF o
  <2>3. PutCommitted(k, o) \in Entry
    BY <2>1 DEF PutCommitted, Entry
  <2>4. PICK f \in Frame : ~InLock(f) /\ goto(c, f)
    BY <2>2, <2>3, LogThenFrame
  <2> QED
    BY <1>1, <1>2, <2>1, <2>2, <2>4, ObjectUpdate, StepType DEF put_end_key
<1> QED
  BY <1>3, <1>4

\* put_revoke keeps the types.
LEMMA PutRevokeType ==
    ASSUME TypeOK, NEW c \in Callers, put_revoke(c)
    PROVE  TypeOK'
<1>1. ~Locked(c)
  BY CallKinds DEF put_revoke, Idle
<1>2. PICK k \in Keys :
        drop(k) /\ ret(c, IF objects[k] = NoObject THEN "ObjectNotFound" ELSE "Ok")
  BY DEF put_revoke
<1>3. PICK f \in Frame : ~InLock(f) /\ goto(c, f)
  BY CodeNames, <1>2, RetFrame DEF ret
<1> QED
  BY <1>1, <1>2, <1>3, DropType, StepType DEF put_revoke

\* batch_rollback keeps the types.
LEMMA BatchRollbackType ==
    ASSUME TypeOK, NEW c \in Callers, batch_rollback(c)
    PROVE  TypeOK'
<1>1. call[c] \in Rollback /\ ~Locked(c)
  BY CallKinds DEF batch_rollback, At
<1>2. PICK k \in call[c].todo :
        /\ drop(k)
        /\ goto(c, IF call[c].todo = {k} THEN [at |-> "ret", code |-> call[c].code]
                   ELSE [call[c] EXCEPT !.todo = @ \ {k}])
  BY DEF batch_rollback
<1>3. k \in Keys /\ call[c].code \in Codes
  BY <1>1 DEF Rollback
<1> DEFINE f == [call[c] EXCEPT !.todo = @ \ {k}]
<1>4. f \in Rollback /\ f.at = "rollback"
  BY <1>1 DEF Rollback
<1>5. f \in Frame /\ ~InLock(f)
  BY <1>4 DEF Frame, InLock
<1> HIDE DEF f
<1>6. PICK g \in Frame : ~InLock(g) /\ goto(c, g)
  BY <1>2, <1>3, <1>5, RetFrame DEF f
<1> QED
  BY <1>1, <1>2, <1>3, <1>6, DropType, StepType DEF batch_rollback

\* Two-phase Put keeps the types.
LEMMA PutType ==
    ASSUME TypeOK, NEW c \in Callers,
           \/ put_start(c) \/ put_start_next(c) \/ allocate_replicas(c) \/ allocate_again(c)
           \/ put_end(c) \/ put_revoke(c) \/ batch_rollback(c)
    PROVE  TypeOK'
BY PutStartType, PutStartNextType, AllocateReplicasType, AllocateAgainType,
   PutEndType, PutRevokeType, BatchRollbackType

\* get_begin keeps the types.
LEMMA GetBeginType ==
    ASSUME TypeOK, NEW c \in Callers, get_begin(c)
    PROVE  TypeOK'
<1>1. ~Locked(c)
  BY CallKinds DEF get_begin, Idle
<1>2. PICK k \in Keys, i \in Identities : get_key(c, k, i)
  BY DEF get_begin
<1> DEFINE f == [at |-> "get", key |-> k, identity |-> i, now |-> clock,
                 alive |-> alive(clock)]
<1>3. f \in Get
  BY DEF Get, alive, TypeOK
<1>4. f \in Frame /\ ~InLock(f)
  BY <1>3 DEF Frame, InLock
<1>5. goto(c, f)
  BY <1>2 DEF get_key
<1> HIDE DEF f
<1> QED
  BY <1>1, <1>2, <1>4, <1>5, StepType DEF get_key

\* get_replica_list keeps the types.
LEMMA GetReplicaListType ==
    ASSUME TypeOK, NEW c \in Callers, get_replica_list(c)
    PROVE  TypeOK'
<1>1. call[c] \in Get /\ ~Locked(c)
  BY CallKinds DEF get_replica_list, At
<1>2. UNCHANGED <<clock, alloc, holder, heartbeat, owner, oplog>>
  BY DEF get_replica_list
<1>3. \E f \in Frame : ~InLock(f) /\ goto(c, f)
  BY CodeNames, RetFrame DEF get_replica_list, ret
<1>4. objects' \in [Keys -> Object \cup {NoObject}]
  <2>1. call[c].key \in Keys /\ call[c].now \in Nat /\ call[c].now + LeaseTtl \in Nat
    BY <1>1, MasterAssumption DEF Get, Time
  <2>2. CASE objects[call[c].key] = NoObject
    BY <2>2 DEF get_replica_list, TypeOK
  <2>3. CASE objects[call[c].key] # NoObject
    <3>1. objects[call[c].key] \in Object
      BY <2>1, <2>3 DEF TypeOK
    <3> DEFINE k == call[c].key
               o == [objects[k] EXCEPT !.last_access = call[c].now,
                                       !.lease_until = call[c].now + LeaseTtl]
    <3>2. objects' = [objects EXCEPT ![k] = o] \/ UNCHANGED objects
      BY <2>1 DEF get_replica_list, TypeOK
    <3>3. o \in Object
      BY <2>1, <3>1 DEF Object
    <3> HIDE DEF k, o
    <3>4. k \in Keys
      BY <2>1 DEF k
    <3> QED
      BY <3>2, <3>3, <3>4, ObjectUpdate DEF TypeOK
  <2> QED
    BY <2>2, <2>3
<1> QED
  BY <1>1, <1>2, <1>3, <1>4, StepType

\* The frame an upsert falls back to.
LEMMA PutStartFrame ==
    ASSUME NEW a \in Args
    PROVE  /\ [at |-> "put_start", args |-> a] \in Frame
           /\ ~InLock([at |-> "put_start", args |-> a])
BY DEF Frame, Put, InLock

\* upsert_start keeps the types.
LEMMA UpsertStartType ==
    ASSUME TypeOK, NEW c \in Callers, upsert_start(c)
    PROVE  TypeOK'
<1>1. ~Locked(c)
  BY CallKinds DEF upsert_start, Idle
<1>2. ASSUME NEW a \in Args, NEW p \in {"upsert_same", "upsert_other"}
      PROVE  /\ [at |-> p, args |-> a, now |-> clock] \in Frame
             /\ ~InLock([at |-> p, args |-> a, now |-> clock])
  <2>1. [at |-> p, args |-> a, now |-> clock] \in Upsert
    BY DEF Upsert, TypeOK
  <2> QED
    BY <2>1 DEF Frame, InLock
<1>3. \E f \in Frame : ~InLock(f) /\ goto(c, f)
  BY CodeNames, PutStartFrame, <1>2, PutArgsType, RetFrame DEF upsert_start, ret
<1> QED
  BY <1>1, <1>3, StepType DEF upsert_start

\* upsert_same keeps the types.
LEMMA UpsertSameType ==
    ASSUME TypeOK, NEW c \in Callers, upsert_same(c)
    PROVE  TypeOK'
<1>1. call[c] \in Upsert /\ ~Locked(c)
  BY CallKinds DEF upsert_same, At
<1>2. UNCHANGED <<clock, alloc, holder, heartbeat, owner, oplog>>
  BY DEF upsert_same
<1>3. [at |-> "panic"] \in Frame /\ ~InLock([at |-> "panic"])
  BY DEF Frame, InLock
<1>4. \E f \in Frame : ~InLock(f) /\ goto(c, f)
  BY CodeNames, <1>3, RetFrame DEF upsert_same, ret
<1>5. objects' \in [Keys -> Object \cup {NoObject}]
  <2> DEFINE k == call[c].args.key
  <2>1. k \in Keys /\ call[c].args.identity \in Identities /\ call[c].now \in Nat
    BY <1>1, MasterAssumption DEF Upsert, Args, Time
  <2>2. CASE objects[k] = NoObject
    BY <2>2 DEF upsert_same, TypeOK
  <2>3. CASE objects[k] # NoObject
    <3> DEFINE R == {[r EXCEPT !.complete = FALSE] : r \in objects[k].replicas}
    <3>1. objects[k] \in Object
      BY <2>1, <2>3 DEF TypeOK
    <3>2. R \subseteq Replica
      BY <3>1 DEF Object, Replica
    <3>3. objects' = [objects EXCEPT ![k] =
                        [objects[k] EXCEPT !.identity = call[c].args.identity,
                                           !.last_access = call[c].now, !.replicas = R]]
      BY <2>1, <2>3 DEF upsert_same, TypeOK
    <3> HIDE DEF R, k
    <3>4. [objects[k] EXCEPT !.identity = call[c].args.identity,
                             !.last_access = call[c].now, !.replicas = R] \in Object
      BY <2>1, <3>1, <3>2 DEF Object
    <3> QED
      BY <2>1, <3>3, <3>4, ObjectUpdate
  <2> QED
    BY <2>2, <2>3
<1> QED
  BY <1>1, <1>2, <1>4, <1>5, StepType

\* upsert_other keeps the types.
LEMMA UpsertOtherType ==
    ASSUME TypeOK, NEW c \in Callers, upsert_other(c)
    PROVE  TypeOK'
<1>1. call[c].args \in Args /\ call[c].args.key \in Keys /\ ~Locked(c)
  BY CallKinds DEF upsert_other, At, Upsert, Args
<1> QED
  BY PutStartFrame, <1>1, DropType, StepType DEF upsert_other

\* remove_begin keeps the types.
LEMMA RemoveBeginType ==
    ASSUME TypeOK, NEW c \in Callers, remove_begin(c)
    PROVE  TypeOK'
<1>1. ~Locked(c)
  BY CallKinds DEF remove_begin, Idle
<1>2. PICK k \in Keys, force \in BOOLEAN : remove_key(c, k, force)
  BY DEF remove_begin
<1> DEFINE f == [at |-> "remove", key |-> k, force |-> force, now |-> clock]
<1>3. f \in Removing
  BY DEF Removing, TypeOK
<1>4. f \in Frame /\ ~InLock(f)
  BY <1>3 DEF Frame, InLock
<1>5. goto(c, f)
  BY <1>2 DEF remove_key
<1> HIDE DEF f
<1> QED
  BY <1>1, <1>2, <1>4, <1>5, StepType DEF remove_key

\* remove keeps the types.
LEMMA RemoveType ==
    ASSUME TypeOK, NEW c \in Callers, remove(c)
    PROVE  TypeOK'
<1> DEFINE k == call[c].key
<1>1. k \in Keys /\ ~Locked(c)
  BY CallKinds DEF remove, At, Removing
<1>2. UNCHANGED <<clock, holder, heartbeat, owner, oplog>>
  BY DEF remove
<1>3. CASE drop(k) /\ log_then(c, Removed(k), Ok)
  <2>1. Removed(k) \in Entry
    BY <1>1 DEF Removed, Entry
  <2> HIDE DEF k
  <2>2. PICK f \in Frame : ~InLock(f) /\ goto(c, f)
    BY <1>3, <2>1, LogThenFrame
  <2> QED
    BY <1>1, <1>2, <1>3, <2>2, DropType, StepType
<1>4. CASE ~(drop(k) /\ log_then(c, Removed(k), Ok))
  <2>1. /\ UNCHANGED <<objects, alloc>>
        /\ ret(c, IF objects[k] = NoObject THEN "ObjectNotFound" ELSE "ObjectNotReady")
    BY <1>4 DEF remove
  <2> HIDE DEF k
  <2>2. PICK f \in Frame : ~InLock(f) /\ goto(c, f)
    BY CodeNames, <2>1, RetFrame DEF ret
  <2> QED
    BY <1>1, <1>2, <2>1, <2>2, StepType
<1> QED
  BY <1>3, <1>4

\* Reads, upserts and removes keep the types.
LEMMA AccessType ==
    ASSUME TypeOK, NEW c \in Callers,
           \/ get_begin(c) \/ get_replica_list(c) \/ upsert_start(c) \/ upsert_same(c)
           \/ upsert_other(c) \/ remove_begin(c) \/ remove(c)
    PROVE  TypeOK'
BY GetBeginType, GetReplicaListType, UpsertStartType, UpsertSameType, UpsertOtherType,
   RemoveBeginType, RemoveType

\* Every step of the master keeps the types.
LEMMA NextType == TypeOK /\ [Next]_vars => TypeOK'
<1> SUFFICES ASSUME TypeOK, [Next]_vars PROVE TypeOK'
  OBVIOUS
<1>1. CASE tick
  <2>1. clock' \in Time
    BY <1>1, MasterAssumption DEF tick, TypeOK, Time
  <2> QED
    BY <1>1, <2>1 DEF tick, TypeOK, Locked
<1>2. ASSUME NEW c \in Callers, Step(c) PROVE TypeOK'
  BY <1>2, LifecycleType, EvictionType, PutType, AccessType DEF Step
<1>3. CASE UNCHANGED vars
  BY <1>3 DEF vars, TypeOK, Locked
<1> QED
  BY <1>1, <1>2, <1>3 DEF Next

\* A new master has the types.
LEMMA InitType == Init => TypeOK
<1> SUFFICES ASSUME Init PROVE TypeOK
  OBVIOUS
<1>1. clock \in Time /\ oplog \in Seq(Entry)
  BY MasterAssumption DEF Init, Time
<1>2. alloc \in [Positions -> Allocator]
  BY NoAllocatorsType DEF Init, Allocators
<1>3. call \in [Callers -> Frame] /\ holder = NoCaller /\ \A c \in Callers : ~Locked(c)
  BY OkFrame DEF Init, Locked
<1> QED
  BY <1>1, <1>2, <1>3, MasterAssumption DEF Init, TypeOK

\* Whatever the callers do, the shared state keeps its types, and the `segments`
\* lock is held by exactly the caller that is inside put_start or evict_if_needed.
THEOREM TypeCorrect == Spec => []TypeOK
BY InitType, NextType, PTL DEF Spec
=============================================================================
