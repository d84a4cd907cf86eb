------------------------- MODULE MasterSafetyProofs -------------------------
(***************************************************************************)
(* Buffers and pins of the store master, for every instance in which no    *)
(* segment name is mounted twice: the replicas of all objects occupy       *)
(* disjoint ranges, the allocators hold exactly those ranges, and eviction *)
(* never drops a hard-pinned object.                                       *)
(***************************************************************************)
EXTENDS MasterEffectProofs

-----------------------------------------------------------------------------
(* The invariants are inductive.                                             *)

\* The invariant of the pins, which holds in every instance.
PinInv == TypeOK /\ VictimsSoft

\* The invariant of the buffers, which holds when no name is mounted twice.
StoreInv == TypeOK /\ MountsOnce /\ BufferInv /\ Vacant

\* A victim stays soft: only the lock holder writes a pin, by placing an object,
\* and it is not evicting then.
LEMMA VictimsKept ==
    ASSUME PinInv, NEW c \in Callers, NEW f, goto(c, f), Effect(c, f)
    PROVE  VictimsSoft'
<1> USE DEF PinInv
<1>1. \A d \in Callers : call'[d] = IF d = c THEN f ELSE call[d]
  BY DEF goto, TypeOK
<1>2. \A d \in Callers : At(d, "evict") => holder = d
  BY DEF TypeOK, At, Locked, InLock
<1>3. PinsKept \/ Places(c, f)
  <2>1. (\E k \in Keys : drop(k)) => PinsKept
    BY DropPins
  <2>2. UNCHANGED <<objects, alloc>> => PinsKept
    BY UnchangedQuiet
  <2> QED
    BY <2>1, <2>2 DEF Effect, Quietly, Drops, Detaches, Attaches, Pushes, Starts, Evicting,
                      PinsKept
<1> SUFFICES ASSUME NEW d \in Callers, call'[d].at = "evict", NEW v \in call'[d].victims
             PROVE  objects'[v.key] = NoObject \/ objects'[v.key].pin # "hard"
  BY DEF VictimsSoft, At
<1>4. CASE d # c
  <2>1. At(d, "evict") /\ v \in call[d].victims /\ holder = d
    BY <1>1, <1>2, <1>4 DEF At
  <2>2. ~Places(c, f)
    BY <1>4, <2>1 DEF Places, TypeOK, Locked, InLock
  <2>3. v.key \in Keys
    BY <2>1, FrameKinds DEF TypeOK, At, Evict, Victim
  <2>4. objects[v.key] = NoObject \/ objects[v.key].pin # "hard"
    BY <2>1 DEF VictimsSoft
  <2> QED
    BY <1>3, <2>2, <2>3, <2>4 DEF PinsKept
<1>5. CASE d = c
  <2>1. f.at = "evict" /\ v \in f.victims
    BY <1>1, <1>5
  <2>2. Evicting(c, f)
    <3>1. InLock(f) /\ f.at # "watermark"
      BY <2>1 DEF InLock
    <3> QED
      BY <3>1 DEF Effect, Quietly, Drops, Detaches, Attaches, Pushes, Starts, Places, Outside
  <2>3. CASE UNCHANGED <<objects, alloc>> /\ f.victims = victims_coldest_first
    BY <2>1, <2>3 DEF victims_coldest_first
  <2>4. CASE At(c, "evict") /\ f.victims \subseteq call[c].victims
    <3>1. v.key \in Keys
      BY <2>1, <2>4, FrameKinds DEF TypeOK, At, Evict, Victim
    <3>2. objects[v.key] = NoObject \/ objects[v.key].pin # "hard"
      BY <2>1, <2>4 DEF VictimsSoft
    <3>3. ~Places(c, f)
      BY <2>4 DEF Places, At
    <3> QED
      BY <1>3, <3>1, <3>2, <3>3 DEF PinsKept
  <2> QED
    BY <2>1, <2>2, <2>3, <2>4 DEF Evicting
<1> QED
  BY <1>4, <1>5

\* The pin invariant is kept by every step.
LEMMA PinStep == PinInv /\ [Next]_vars => PinInv'
<1> SUFFICES ASSUME PinInv, [Next]_vars PROVE PinInv'
  OBVIOUS
<1>1. TypeOK'
  BY NextType DEF PinInv
<1>2. CASE tick \/ UNCHANGED vars
  BY <1>1, <1>2 DEF tick, vars, PinInv, VictimsSoft, At
<1>3. ASSUME NEW c \in Callers, Step(c) PROVE PinInv'
  BY <1>1, <1>3, StepEffect, VictimsKept DEF PinInv
<1> QED
  BY <1>2, <1>3 DEF Next

\* Eviction never drops a hard-pinned object, in any instance: the victims are
\* collected unpinned, and nobody else can pin one before it is evicted.
THEOREM HardPinsHold == Spec => HardPinShields
<1>1. Init => PinInv
  BY InitType DEF Init, PinInv, VictimsSoft, At, Ok
<1>2. PinInv /\ [Next]_vars =>
        [\A c \in Callers : Evicts(c) =>
           \A k \in Keys : objects[k] # NoObject /\ objects[k].pin = "hard"
                             => objects'[k] # NoObject]_vars
  <2> SUFFICES ASSUME PinInv, Next, NEW c \in Callers, Evicts(c), NEW k \in Keys,
                      objects[k] # NoObject, objects[k].pin = "hard"
               PROVE  objects'[k] # NoObject
    OBVIOUS
  <2>1. PICK d \in Callers : Step(d)
    BY DEF Next, tick, Evicts, Steps
  <2>2. PICK f : goto(d, f) /\ Effect(d, f)
    BY <2>1, StepEffect DEF PinInv
  <2>3. d = c
    BY <2>2 DEF goto, Evicts, Steps, PinInv, TypeOK
  <2>4. call[c] \in Evict /\ call[c].at = "evict"
    BY FrameKinds DEF PinInv, TypeOK, Evicts, At
  <2>5. CASE evict_one(c)
    <3>1. PICK v \in call[c].victims : drop(v.key)
      BY <2>5 DEF evict_one
    <3>2. v.key # k
      BY <2>4, <3>1 DEF PinInv, VictimsSoft, At
    <3> QED
      BY <3>1, <3>2 DEF drop, PinInv, TypeOK
  <2>6. CASE evict_done(c)
    BY <2>6 DEF evict_done
  <2>7. evict_one(c) \/ evict_done(c)
    BY <2>1, <2>3, <2>4 DEF Step, At, Idle, log_op, mount_segment, mount_segment_for,
       mount_push, take_ownership, unmount_segment, unmount_segment_for, unmount_owned,
       unmount_beat, unmount_owner, beat_heartbeat, client_heartbeat, beat_owned,
       remount_segments, remount_begin, remount_ping, evict_if_needed_locked,
       evict_if_needed, evict_returns, put_start, put_start_next, allocate_replicas,
       allocate_again, put_end, put_revoke, batch_rollback, get_begin, get_replica_list,
       upsert_start, upsert_same, upsert_other, remove_begin, remove
  <2> QED
    BY <2>5, <2>6, <2>7
<1> QED
  BY <1>1, <1>2, PinStep, PTL DEF Spec, HardPinShields

\* The table and the allocators stay in step, whatever kind of step is taken.
LEMMA BuffersKept ==
    ASSUME SingleMounts, StoreInv, NEW c \in Callers, NEW f, goto(c, f), Effect(c, f)
    PROVE  BufferInv'
<1> USE DEF StoreInv
<1>1. ASSUME UNCHANGED <<objects, alloc>> PROVE BufferInv'
  BY <1>1, UnchangedQuiet, SameKeeps
<1>2. ASSUME \E k \in Keys : drop(k) PROVE BufferInv'
  BY <1>2, DropKeeps
<1>3. CASE Quietly(f)
  BY <1>3, SameKeeps DEF Quietly
<1>4. CASE Drops(f)
  BY <1>2, <1>4 DEF Drops
<1>5. CASE Detaches(f)
  BY <1>5, UnmountKeeps DEF Detaches
<1>6. CASE Attaches(c, f)
  BY <1>1, <1>6 DEF Attaches
<1>7. CASE Pushes(c, f)
  <2>1. call[c].name \in SegmentNames /\ ~Mounted(alloc, call[c].name)
    BY <1>7, FrameKinds DEF Pushes, TypeOK, At, Mounting, MountsOnce
  <2> QED
    BY <1>7, <2>1, PushKeeps DEF Pushes
<1>8. CASE Starts(f)
  BY <1>1, <1>2, <1>8 DEF Starts
<1>9. CASE Evicting(c, f)
  BY <1>1, <1>2, <1>9 DEF Evicting
<1>10. CASE Places(c, f)
  <2>1. call[c].args \in Args
    BY <1>10, FrameKinds DEF Places, TypeOK
  <2>2. objects[call[c].args.key] = NoObject
    BY <1>10 DEF Places, Vacant, Locked, InLock, Pending
  <2> QED
    BY <1>10, <2>1, <2>2, PlaceKeeps DEF Places
<1> QED
  BY <1>3, <1>4, <1>5, <1>6, <1>7, <1>8, <1>9, <1>10 DEF Effect

\* The key the lock holder allocates for stays vacant: only the lock holder makes
\* an object appear.
LEMMA VacantKept ==
    ASSUME StoreInv, NEW c \in Callers, NEW f, goto(c, f), Effect(c, f)
    PROVE  Vacant'
<1> USE DEF StoreInv
<1>1. \A d \in Callers : call'[d] = IF d = c THEN f ELSE call[d]
  BY DEF goto, TypeOK
<1>2. PinsKept \/ Places(c, f)
  <2>1. (\E k \in Keys : drop(k)) => PinsKept
    BY DropPins
  <2>2. UNCHANGED <<objects, alloc>> => PinsKept
    BY UnchangedQuiet
  <2> QED
    BY <2>1, <2>2 DEF Effect, Quietly, Drops, Detaches, Attaches, Pushes, Starts, Evicting,
                      PinsKept
<1> SUFFICES ASSUME NEW d \in Callers, InLock(call'[d]),
                    pending(call'[d]).at \in {"allocate", "retry"}
             PROVE  objects'[pending(call'[d]).args.key] = NoObject
  BY DEF Vacant, Locked, Pending, pending, InLock
<1>3. CASE d # c
  <2>1. call'[d] = call[d] /\ Locked(d) /\ holder = d
    BY <1>1, <1>3 DEF Locked, TypeOK
  <2>2. pending(call[d]) = Pending(d)
    BY DEF pending, Pending
  <2>3. objects[Pending(d).args.key] = NoObject
    BY <2>1, <2>2 DEF Vacant
  <2>4. ~Places(c, f)
    BY <1>3, <2>1 DEF Places, TypeOK, Locked, InLock
  <2>5. Pending(d).args.key \in Keys
    <3>1. Pending(d) \in Frame /\ Pending(d).at \in {"allocate", "retry"}
      <4>1. call[d].at \in {"watermark", "evict"} => call[d].next \in Allocating
        BY FrameKinds DEF TypeOK, Watermark, Evict
      <4> QED
        BY <2>1, <2>2, <4>1, AllocatingFrame DEF Pending, TypeOK
    <3> QED
      BY <3>1, FrameKinds DEF Args
  <2> QED
    BY <1>2, <2>1, <2>2, <2>3, <2>4, <2>5 DEF PinsKept
<1>4. CASE d = c
  <2>1. call'[d] = f
    BY <1>1, <1>4
  <2>2. Starts(f) \/ Evicting(c, f)
    BY <2>1 DEF Effect, Quietly, Drops, Detaches, Attaches, Pushes, Places, Outside
  <2>3. CASE Starts(f)
    <3>1. f.at = "watermark" /\ f.next.at = "allocate" /\ pending(f) = f.next
      BY <2>1, <2>3 DEF Starts, pending
    <3> QED
      BY <2>1, <2>3, <3>1 DEF Starts, drop, TypeOK
  <2>4. CASE Evicting(c, f)
    <3>1. Locked(c) /\ Pending(c).at \in {"allocate", "retry"} /\ pending(f).args = Pending(c).args
      BY <2>1, <2>4 DEF Evicting
    <3>2. objects[Pending(c).args.key] = NoObject
      BY <3>1 DEF Vacant
    <3>3. CASE UNCHANGED <<objects, alloc>>
      BY <2>1, <3>1, <3>2, <3>3
    <3>4. CASE \E v \in call[c].victims : v.key \in Keys /\ drop(v.key)
      <4>1. Pending(c).args.key \in Keys
        <5>1. Pending(c) \in Frame
          <6>1. call[c].at \in {"watermark", "evict"} => call[c].next \in Allocating
            BY FrameKinds DEF TypeOK, Watermark, Evict
          <6> QED
            BY <6>1, AllocatingFrame DEF Pending, TypeOK
        <5> QED
          BY <3>1, <5>1, FrameKinds DEF Args
      <4> QED
        BY <2>1, <3>1, <3>2, <3>4, <4>1 DEF drop, TypeOK
    <3> QED
      BY <2>4, <3>3, <3>4 DEF Evicting
  <2> QED
    BY <2>2, <2>3, <2>4
<1> QED
  BY <1>3, <1>4

\* No name is mounted twice: a mount under way keeps its name to itself.
LEMMA MountsKept ==
    ASSUME SingleMounts, StoreInv, NEW c \in Callers, NEW f, goto(c, f), Effect(c, f)
    PROVE  MountsOnce'
<1> USE DEF StoreInv
<1>1. \A d \in Callers : call'[d] = IF d = c THEN f ELSE call[d]
  BY DEF goto, TypeOK
<1>2. OneAllocatorPerSegment'
  BY BuffersKept DEF BufferInv
<1>3. ASSUME f.at \notin {"mount", "remount"},
             \A m \in Positions : alloc'[m].name \in {alloc[m].name, Unmounted}
      PROVE  MountsOnce'
  <2>1. \A s \in SegmentNames : Mounted(alloc', s) => Mounted(alloc, s)
    BY <1>3, SegmentAssumption DEF Mounted
  <2>2. \A d \in Callers : call[d].at = "mount" => call[d].name \in SegmentNames
    BY FrameKinds DEF TypeOK, Mounting
  <2> QED
    BY <1>1, <1>2, <1>3, <2>1, <2>2 DEF MountsOnce, At
<1>4. ASSUME \E k \in Keys : drop(k)
      PROVE  \A m \in Positions : alloc'[m].name = alloc[m].name
  BY <1>4, FreeType, ReplicasOfType DEF drop, TypeOK, Allocators
<1>5. CASE Quietly(f)
  BY <1>3, <1>5 DEF Quietly, Outside, SameBuffers
<1>6. CASE Drops(f)
  BY <1>3, <1>4, <1>6 DEF Drops, Outside
<1>7. CASE Detaches(f)
  <2>1. PICK s \in SegmentNames : alloc' = retain_other(alloc, s)
    BY <1>7 DEF Detaches, Unmounts
  <2>2. \A m \in Positions : alloc'[m].name \in {alloc[m].name, Unmounted}
    BY <2>1 DEF retain_other, NoAllocators
  <2> QED
    BY <1>3, <1>7, <2>2 DEF Detaches, Outside
<1>8. CASE Attaches(c, f)
  <2>1. f.at = "mount" /\ MayMount(f.name) /\ alloc' = alloc
    BY <1>8 DEF Attaches, MountsOnce
  <2>2. ~Mounted(alloc, f.name) /\ \A d \in Callers : At(d, "mount") => call[d].name # f.name
    BY <2>1 DEF MayMount, SingleMounts
  <2> QED
    BY <1>1, <1>2, <2>1, <2>2 DEF MountsOnce, At
<1>9. CASE Pushes(c, f)
  <2>1. call[c].at = "mount" /\ f.at \notin {"mount", "remount"}
    BY <1>9 DEF Pushes, At, Outside
  <2>2. PICK m \in Positions : alloc' = push(alloc, m, call[c].name)
    BY <1>9 DEF Pushes
  <2>3. \A n \in Positions : alloc'[n].name = IF n = m THEN call[c].name ELSE alloc[n].name
    BY <2>2 DEF push, TypeOK
  <2>4. ASSUME NEW d \in Callers, call'[d].at = "mount"
        PROVE  ~Mounted(alloc', call'[d].name)
    <3>1. d # c /\ call'[d] = call[d] /\ call[d].at = "mount"
      BY <1>1, <2>1, <2>4
    <3>2. ~Mounted(alloc, call[d].name) /\ call[d].name # call[c].name
      BY <2>1, <3>1 DEF MountsOnce, At
    <3> QED
      BY <2>3, <3>1, <3>2 DEF Mounted
  <2> QED
    BY <1>1, <1>2, <2>1, <2>4 DEF MountsOnce, At
<1>10. CASE Starts(f)
  BY <1>3, <1>4, <1>10 DEF Starts
<1>11. CASE Evicting(c, f)
  BY <1>3, <1>4, <1>11 DEF Evicting, InLock
<1>12. CASE Places(c, f)
  <2>1. PICK g \in placements(alloc, call[c].args.size, call[c].args.num) :
          alloc' = allocate(alloc, g, call[c].args.size)
    BY <1>12 DEF Places, place
  <2>2. \A m \in Positions : alloc[m] \in Allocator
    BY DEF TypeOK
  <2>3. \A m \in Positions : alloc'[m].name = alloc[m].name
    BY <2>1, <2>2 DEF allocate, Allocator
  <2> QED
    BY <1>3, <1>12, <2>3 DEF Places, Outside
<1> QED
  BY <1>5, <1>6, <1>7, <1>8, <1>9, <1>10, <1>11, <1>12 DEF Effect

\* The buffer invariant is kept by every step.
LEMMA StoreStep == SingleMounts /\ StoreInv /\ [Next]_vars => StoreInv'
<1> SUFFICES ASSUME SingleMounts, StoreInv, [Next]_vars PROVE StoreInv'
  OBVIOUS
<1>1. TypeOK'
  BY NextType DEF StoreInv
<1>2. CASE tick \/ UNCHANGED vars
  <2>1. UNCHANGED <<objects, alloc, call>>
    BY <1>2 DEF tick, vars
  <2>2. MountsOnce'
    BY <2>1 DEF StoreInv, MountsOnce, At, OneAllocatorPerSegment
  <2>3. BufferInv'
    BY <2>1, UnchangedQuiet, SameKeeps DEF StoreInv
  <2>4. Vacant'
    BY <2>1 DEF StoreInv, Vacant, Locked, Pending
  <2> QED
    BY <1>1, <2>2, <2>3, <2>4 DEF StoreInv
<1>3. ASSUME NEW c \in Callers, Step(c) PROVE StoreInv'
  <2>1. PICK f : goto(c, f) /\ Effect(c, f)
    BY <1>3, StepEffect DEF StoreInv
  <2> QED
    BY <1>1, <2>1, BuffersKept, MountsKept, VacantKept DEF StoreInv
<1> QED
  BY <1>2, <1>3 DEF Next

\* The buffer invariant holds in an empty master.
LEMMA StoreInit == Init => StoreInv
<1> SUFFICES ASSUME Init PROVE StoreInv
  OBVIOUS
<1>1. TypeOK
  BY InitType
<1>2. /\ \A k \in Keys : ReplicasOf(k) = {}
      /\ \A m \in Positions : alloc[m].name = Unmounted /\ alloc[m].live = {}
      /\ \A c \in Callers : call[c].at = "ret"
  BY DEF Init, ReplicasOf, NoAllocators, Ok
<1>3. BufferInv
  BY <1>2 DEF BufferInv, OneAllocatorPerSegment, ExtentsDisjoint, Backed, Owned,
              BuffersDisjoint
<1>4. MountsOnce /\ Vacant
  BY <1>2, <1>3 DEF MountsOnce, Vacant, At, Locked, InLock, BufferInv
<1> QED
  BY <1>1, <1>3, <1>4 DEF StoreInv

\* When no name is mounted twice, no two replicas ever share a byte of a segment,
\* whatever the callers interleave.
THEOREM BuffersStayDisjoint == SingleMounts => (Spec => []BuffersDisjoint)
<1> SUFFICES ASSUME SingleMounts PROVE Spec => []BuffersDisjoint
  OBVIOUS
<1>1. StoreInv /\ [Next]_vars => StoreInv'
  BY StoreStep
<1>2. StoreInv => BuffersDisjoint
  BY DEF StoreInv, BufferInv
<1> QED
  BY <1>1, <1>2, StoreInit, PTL DEF Spec

\* When no name is mounted twice, the allocators hold exactly the buffers of the
\* objects in the table: nothing leaks and nothing in use is handed back.
THEOREM AllocatorsAccount == SingleMounts => (Spec => []Accounting)
<1> SUFFICES ASSUME SingleMounts PROVE Spec => []Accounting
  OBVIOUS
<1>1. StoreInv /\ [Next]_vars => StoreInv'
  BY StoreStep
<1>2. StoreInv => Accounting
  <2> SUFFICES ASSUME StoreInv, NEW s \in SegmentNames
               PROVE  {<<r.off, r.size>> : r \in {q \in UNION {ReplicasOf(k) : k \in Keys} : q.seg = s}}
                        = UNION {{<<e.off, e.size>> : e \in alloc[m].live} :
                                   m \in {n \in Positions : alloc[n].name = s}}
    BY DEF Accounting
  <2>1. ASSUME NEW k \in Keys, NEW r \in ReplicasOf(k), r.seg = s
        PROVE  \E m \in {n \in Positions : alloc[n].name = s} :
                 \E e \in alloc[m].live : <<r.off, r.size>> = <<e.off, e.size>>
    <3>1. PICK m \in Positions : /\ alloc[m].name = s
                                 /\ [off |-> r.off, size |-> r.size] \in alloc[m].live
      BY <2>1 DEF StoreInv, BufferInv, Backed
    <3> QED
      BY <3>1
  <2>2. ASSUME NEW m \in Positions, alloc[m].name = s, NEW e \in alloc[m].live
        PROVE  \E k \in Keys : \E r \in ReplicasOf(k) :
                 r.seg = s /\ <<r.off, r.size>> = <<e.off, e.size>>
    BY <2>2 DEF StoreInv, BufferInv, Owned
  <2> QED
    BY <2>1, <2>2
<1> QED
  BY <1>1, <1>2, StoreInit, PTL DEF Spec
=============================================================================
