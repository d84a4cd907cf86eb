------------------------ MODULE MasterBufferProofs ------------------------
(***************************************************************************)
(* What a step may do to the buffers of the store master, and that each of *)
(* those changes keeps the replicas in disjoint ranges which the           *)
(* allocators hold, and which nothing else holds.                          *)
(***************************************************************************)
EXTENDS MasterServiceProofs

\* The part of the inductive invariant that relates the object table to the
\* allocators.
BufferInv ==
    OneAllocatorPerSegment /\ ExtentsDisjoint /\ Backed /\ Owned /\ BuffersDisjoint

\* The replicas keep their buffers; only their status may change.
SameBuffers ==
    /\ alloc' = alloc
    /\ \A k \in Keys : \/ ReplicasOf(k)' = ReplicasOf(k)
                       \/ \E b \in BOOLEAN :
                            ReplicasOf(k)' = {[r EXCEPT !.complete = b] : r \in ReplicasOf(k)}

\* Segment s and every replica in it are gone.
Unmounts(s) ==
    /\ \A k \in Keys : ReplicasOf(k)' = {r \in ReplicasOf(k) : r.seg # s}
    /\ alloc' = retain_other(alloc, s)

-----------------------------------------------------------------------------
(* Each kind of step keeps the buffers apart.                                *)

\* Buffers of one segment that have a unit in common start there or overlap.
LEMMA SameStartOverlaps ==
    ASSUME NEW q \in Replica, NEW r \in Replica, q.off = r.off
    PROVE  Overlap(q, r)
<1>1. q.size \in Sizes /\ r.size \in Sizes /\ q.off \in Offsets
  BY DEF Replica
<1>2. \A n \in Sizes : n \in Int /\ n > 0
  BY SegmentAssumption
<1>3. \A n \in Offsets : n \in Int
  BY SegmentAssumption DEF Offsets
<1> QED
  BY <1>1, <1>2, <1>3 DEF Overlap

\* A step that changes only the status of replicas keeps the buffers in order.
LEMMA SameKeeps ==
    ASSUME TypeOK, BufferInv, SameBuffers
    PROVE  BufferInv'
<1>1. alloc' = alloc
  BY DEF SameBuffers
<1>2. \A k \in Keys : \A r \in ReplicasOf(k) : r \in Replica
  BY ReplicasOfType
<1>3. ASSUME NEW k \in Keys, NEW b \in BOOLEAN,
             ReplicasOf(k)' = {[r EXCEPT !.complete = b] : r \in ReplicasOf(k)}
      PROVE  \A p \in ReplicasOf(k)' : \E r \in ReplicasOf(k) :
               p = [r EXCEPT !.complete = b] /\ p.seg = r.seg /\ p.off = r.off /\ p.size = r.size
  BY <1>2, <1>3 DEF Replica
<1>4. ASSUME NEW k \in Keys, NEW p \in ReplicasOf(k)'
      PROVE  \E r \in ReplicasOf(k) : p.seg = r.seg /\ p.off = r.off /\ p.size = r.size
  BY <1>3, <1>4 DEF SameBuffers
<1>5. ASSUME NEW k \in Keys, NEW r \in ReplicasOf(k)
      PROVE  \E p \in ReplicasOf(k)' : p.seg = r.seg /\ p.off = r.off /\ p.size = r.size
  <2>1. CASE ReplicasOf(k)' = ReplicasOf(k)
    BY <2>1
  <2>2. ASSUME NEW b \in BOOLEAN,
               ReplicasOf(k)' = {[t EXCEPT !.complete = b] : t \in ReplicasOf(k)}
        PROVE  \E p \in ReplicasOf(k)' : p.seg = r.seg /\ p.off = r.off /\ p.size = r.size
    <3>1. [r EXCEPT !.complete = b] \in ReplicasOf(k)'
      BY <2>2
    <3> QED
      BY <1>2, <3>1 DEF Replica
  <2> QED
    BY <2>1, <2>2 DEF SameBuffers
<1>6. OneAllocatorPerSegment' /\ ExtentsDisjoint'
  BY <1>1 DEF BufferInv, OneAllocatorPerSegment, ExtentsDisjoint
<1>7. Backed'
  <2> SUFFICES ASSUME NEW k \in Keys, NEW p \in ReplicasOf(k)'
               PROVE  \E m \in Positions : /\ alloc'[m].name = p.seg
                                           /\ [off |-> p.off, size |-> p.size] \in alloc'[m].live
    BY DEF Backed
  <2>1. PICK r \in ReplicasOf(k) : p.seg = r.seg /\ p.off = r.off /\ p.size = r.size
    BY <1>4
  <2> QED
    BY <1>1, <2>1 DEF BufferInv, Backed
<1>8. Owned'
  <2> SUFFICES ASSUME NEW m \in Positions, NEW e \in alloc[m].live
               PROVE  \E k \in Keys : \E p \in ReplicasOf(k)' :
                        p.seg = alloc[m].name /\ p.off = e.off /\ p.size = e.size
    BY <1>1 DEF Owned
  <2>1. PICK k \in Keys : \E r \in ReplicasOf(k) :
          r.seg = alloc[m].name /\ r.off = e.off /\ r.size = e.size
    BY DEF BufferInv, Owned
  <2> QED
    BY <1>5, <2>1
<1>9. BuffersDisjoint'
  <2> SUFFICES ASSUME NEW j \in Keys, NEW k \in Keys,
                      NEW p \in ReplicasOf(j)', NEW q \in ReplicasOf(k)',
                      p.seg = q.seg, Overlap(p, q)
               PROVE  j = k /\ p = q
    BY DEF BuffersDisjoint, Overlap
  <2>1. \A r \in ReplicasOf(j), t \in ReplicasOf(k) :
          r.seg = t.seg /\ Overlap(r, t) => j = k /\ r = t
    BY DEF BufferInv, BuffersDisjoint
  <2>2. j = k
    <3>1. PICK r \in ReplicasOf(j) : p.seg = r.seg /\ p.off = r.off /\ p.size = r.size
      BY <1>4
    <3>2. PICK t \in ReplicasOf(k) : q.seg = t.seg /\ q.off = t.off /\ q.size = t.size
      BY <1>4
    <3> QED
      BY <2>1, <3>1, <3>2 DEF Overlap
  <2>3. CASE ReplicasOf(k)' = ReplicasOf(k)
    BY <2>1, <2>2, <2>3
  <2>4. ASSUME NEW b \in BOOLEAN,
               ReplicasOf(k)' = {[r EXCEPT !.complete = b] : r \in ReplicasOf(k)}
        PROVE  p = q
    <3>1. PICK r \in ReplicasOf(k) : /\ p = [r EXCEPT !.complete = b]
                                     /\ p.seg = r.seg /\ p.off = r.off /\ p.size = r.size
      BY <1>3, <2>2, <2>4
    <3>2. PICK t \in ReplicasOf(k) : /\ q = [t EXCEPT !.complete = b]
                                     /\ q.seg = t.seg /\ q.off = t.off /\ q.size = t.size
      BY <1>3, <2>4
    <3>3. r = t
      BY <2>1, <2>2, <3>1, <3>2 DEF Overlap
    <3> QED
      BY <3>1, <3>2, <3>3
  <2> QED
    BY <2>2, <2>3, <2>4 DEF SameBuffers
<1> QED
  BY <1>6, <1>7, <1>8, <1>9 DEF BufferInv

\* Dropping a key frees its own buffers and no others.
LEMMA DropKeeps ==
    ASSUME TypeOK, BufferInv, NEW k \in Keys, drop(k)
    PROVE  BufferInv'
<1>1. \A j \in Keys : ReplicasOf(j)' = IF j = k THEN {} ELSE ReplicasOf(j)
  BY DEF drop, ReplicasOf, TypeOK
<1>2. \A j \in Keys : \A r \in ReplicasOf(j) : r \in Replica
  BY ReplicasOfType
<1>3. \A m \in Positions :
        /\ alloc'[m].name = alloc[m].name
        /\ alloc'[m].live =
             {e \in alloc[m].live : ~ /\ IsFirst(alloc, m)
                                      /\ \E r \in ReplicasOf(k) :
                                           r.seg = alloc[m].name /\ r.off = e.off}
  BY FreeType, ReplicasOfType DEF drop, TypeOK, Allocators
<1>4. OneAllocatorPerSegment'
  BY <1>3 DEF BufferInv, OneAllocatorPerSegment
<1>5. ExtentsDisjoint'
  BY <1>3 DEF BufferInv, ExtentsDisjoint
<1>6. Backed'
  <2> SUFFICES ASSUME NEW j \in Keys, j # k, NEW r \in ReplicasOf(j)
               PROVE  \E m \in Positions : /\ alloc'[m].name = r.seg
                                           /\ [off |-> r.off, size |-> r.size] \in alloc'[m].live
    BY <1>1 DEF Backed
  <2>1. PICK m \in Positions : /\ alloc[m].name = r.seg
                               /\ [off |-> r.off, size |-> r.size] \in alloc[m].live
    BY DEF BufferInv, Backed
  <2>2. ~\E q \in ReplicasOf(k) : q.seg = r.seg /\ q.off = r.off
    BY <1>2, SameStartOverlaps DEF BufferInv, BuffersDisjoint
  <2> QED
    BY <1>3, <2>1, <2>2
<1>7. Owned'
  <2> SUFFICES ASSUME NEW m \in Positions, NEW e \in alloc'[m].live
               PROVE  \E j \in Keys : \E r \in ReplicasOf(j)' :
                        r.seg = alloc[m].name /\ r.off = e.off /\ r.size = e.size
    BY <1>3 DEF Owned
  <2>1. e \in alloc[m].live
    BY <1>3
  <2>2. PICK j \in Keys : \E r \in ReplicasOf(j) :
          r.seg = alloc[m].name /\ r.off = e.off /\ r.size = e.size
    BY <2>1 DEF BufferInv, Owned
  <2>3. PICK r \in ReplicasOf(j) :
          r.seg = alloc[m].name /\ r.off = e.off /\ r.size = e.size
    BY <2>2
  <2>4. IsFirst(alloc, m)
    <3>1. r.seg # Unmounted
      BY <1>2, SegmentAssumption DEF Replica
    <3> QED
      BY <2>3, <3>1, SegmentAssumption DEF BufferInv, OneAllocatorPerSegment, IsFirst, Positions
  <2>5. j # k
    BY <1>3, <2>3, <2>4
  <2> QED
    BY <1>1, <2>3, <2>5
<1>8. BuffersDisjoint'
  BY <1>1 DEF BufferInv, BuffersDisjoint, Overlap
<1> QED
  BY <1>4, <1>5, <1>6, <1>7, <1>8 DEF BufferInv

\* Unmounting a segment takes its replicas and its allocator away together.
LEMMA UnmountKeeps ==
    ASSUME TypeOK, BufferInv, NEW s \in SegmentNames, Unmounts(s)
    PROVE  BufferInv'
<1>1. \A k \in Keys : ReplicasOf(k)' = {r \in ReplicasOf(k) : r.seg # s}
  BY DEF Unmounts
<1>2. \A m \in Positions :
        /\ alloc'[m].name = IF alloc[m].name = s THEN Unmounted ELSE alloc[m].name
        /\ alloc'[m].live = IF alloc[m].name = s THEN {} ELSE alloc[m].live
  BY DEF Unmounts, retain_other, NoAllocators
<1>3. OneAllocatorPerSegment'
  BY <1>2 DEF BufferInv, OneAllocatorPerSegment
<1>4. ExtentsDisjoint'
  BY <1>2 DEF BufferInv, ExtentsDisjoint
<1>5. Backed'
  BY <1>1, <1>2 DEF BufferInv, Backed
<1>6. Owned'
  BY <1>1, <1>2 DEF BufferInv, Owned
<1>7. BuffersDisjoint'
  BY <1>1 DEF BufferInv, BuffersDisjoint, Overlap
<1> QED
  BY <1>3, <1>4, <1>5, <1>6, <1>7 DEF BufferInv

\* Mounting a name that is not mounted adds an empty allocator.
LEMMA PushKeeps ==
    ASSUME TypeOK, BufferInv, NEW s \in SegmentNames, ~Mounted(alloc, s),
           NEW m \in Positions, IsEnd(alloc, m), alloc' = push(alloc, m, s),
           objects' = objects
    PROVE  BufferInv'
<1>1. \A k \in Keys : ReplicasOf(k)' = ReplicasOf(k)
  BY DEF ReplicasOf
<1>2. \A n \in Positions :
        /\ alloc'[n].name = IF n = m THEN s ELSE alloc[n].name
        /\ alloc'[n].live = IF n = m THEN {} ELSE alloc[n].live
  BY DEF push, TypeOK
<1>3. alloc[m].name = Unmounted /\ alloc[m].live = {}
  BY SegmentAssumption DEF IsEnd, BufferInv, ExtentsDisjoint, Positions
<1>4. OneAllocatorPerSegment'
  BY <1>2 DEF BufferInv, OneAllocatorPerSegment, Mounted
<1>5. ExtentsDisjoint'
  BY <1>2 DEF BufferInv, ExtentsDisjoint
<1>6. Backed'
  BY <1>1, <1>2, <1>3 DEF BufferInv, Backed
<1>7. Owned'
  BY <1>1, <1>2 DEF BufferInv, Owned
<1>8. BuffersDisjoint'
  BY <1>1 DEF BufferInv, BuffersDisjoint, Overlap
<1> QED
  BY <1>4, <1>5, <1>6, <1>7, <1>8 DEF BufferInv

\* Placing an object under a vacant key takes ranges that nothing else holds.
LEMMA PlaceKeeps ==
    ASSUME TypeOK, BufferInv, NEW c \in Callers, NEW a \in Args, objects[a.key] = NoObject,
           NEW f \in placements(alloc, a.size, a.num), place(c, a, f)
    PROVE  BufferInv'
<1> DEFINE size == a.size
           New(m) == [id |-> m, seg |-> alloc[m].name, off |-> f[m], size |-> size,
                      complete |-> FALSE]
<1>1. alloc \in Allocators /\ a.key \in Keys /\ size \in Sizes
  BY DEF TypeOK, Allocators, Args
<1>2. /\ DOMAIN f \subseteq Positions
      /\ \A m \in DOMAIN f : /\ f[m] \in Offsets /\ alloc[m].name # Unmounted
                             /\ FitsAt(alloc[m].live, f[m], size)
  BY <1>1, PlacementFits
<1>3. \A m \in Positions :
        /\ alloc'[m].name = alloc[m].name
        /\ alloc'[m].live = IF m \in DOMAIN f
                            THEN alloc[m].live \cup {[off |-> f[m], size |-> size]}
                            ELSE alloc[m].live
  <2>1. alloc' = allocate(alloc, f, a.size)
    BY DEF place
  <2>2. \A m \in Positions : alloc[m] \in Allocator
    BY <1>1 DEF Allocators
  <2> QED
    BY <2>1, <2>2 DEF allocate, Allocator
<1>4. /\ ReplicasOf(a.key) = {}
      /\ \A k \in Keys : ReplicasOf(k)' = IF k = a.key THEN {New(m) : m \in DOMAIN f}
                                          ELSE ReplicasOf(k)
  <2> DEFINE o == [replicas |-> {New(m) : m \in DOMAIN f}, identity |-> a.identity,
                   lease_until |-> 0, last_access |-> clock, pin |-> a.pin]
  <2>1. objects' = [objects EXCEPT ![a.key] = o]
    BY DEF place, new_replicas
  <2>2. o \in Object
    <3>1. {New(m) : m \in DOMAIN f} \subseteq Replica
      BY <1>1, NewReplicasType DEF new_replicas
    <3>2. clock \in Nat /\ a.identity \in Identities /\ a.pin \in Pins
      BY MasterAssumption DEF TypeOK, Time, Args
    <3> QED
      BY <3>1, <3>2 DEF Object
  <2>3. o # NoObject /\ o.replicas = {New(m) : m \in DOMAIN f}
    BY <2>2, MasterAssumption
  <2> HIDE DEF o
  <2> QED
    BY <1>1, <2>1, <2>3 DEF ReplicasOf, TypeOK
<1>5. ASSUME NEW m \in DOMAIN f, NEW e \in alloc[m].live
      PROVE  ~Overlap(e, [off |-> f[m], size |-> size])
  BY <1>2 DEF FitsAt
<1>6. \A e \in Extent : \A g \in Extent : Overlap(e, g) <=> Overlap(g, e)
  BY DEF Overlap
<1>7. \A m \in Positions : alloc[m].live \subseteq Extent
  BY <1>1 DEF Allocators, Allocator
<1>8. \A m \in DOMAIN f : [off |-> f[m], size |-> size] \in Extent
  BY <1>1, <1>2 DEF Extent
<1> HIDE DEF size
<1>9. OneAllocatorPerSegment'
  BY <1>3 DEF BufferInv, OneAllocatorPerSegment
<1>10. ExtentsDisjoint'
  <2> SUFFICES ASSUME NEW m \in Positions
               PROVE  /\ alloc'[m].name = Unmounted => alloc'[m].live = {}
                      /\ \A e, g \in alloc'[m].live : Overlap(e, g) => e = g
    BY DEF ExtentsDisjoint, Overlap
  <2>1. /\ alloc[m].name = Unmounted => alloc[m].live = {}
        /\ \A e, g \in alloc[m].live : Overlap(e, g) => e = g
    BY DEF BufferInv, ExtentsDisjoint
  <2>2. CASE m \in DOMAIN f
    <3> DEFINE x == [off |-> f[m], size |-> size]
    <3>1. alloc'[m].live = alloc[m].live \cup {x} /\ alloc'[m].name # Unmounted
      BY <1>2, <1>3, <2>2
    <3>2. \A e \in alloc[m].live : ~Overlap(e, x) /\ ~Overlap(x, e)
      BY <1>5, <1>6, <1>7, <1>8, <2>2
    <3> HIDE DEF x
    <3> QED
      BY <2>1, <3>1, <3>2
  <2>3. CASE m \notin DOMAIN f
    BY <1>3, <2>1, <2>3
  <2> QED
    BY <2>2, <2>3
<1>11. Backed'
  <2> SUFFICES ASSUME NEW k \in Keys, NEW r \in ReplicasOf(k)'
               PROVE  \E m \in Positions : /\ alloc'[m].name = r.seg
                                           /\ [off |-> r.off, size |-> r.size] \in alloc'[m].live
    BY DEF Backed
  <2>1. CASE k = a.key
    <3>1. PICK m \in DOMAIN f : r = New(m)
      BY <1>4, <2>1
    <3> QED
      BY <1>2, <1>3, <3>1
  <2>2. CASE k # a.key
    <3>1. r \in ReplicasOf(k)
      BY <1>4, <2>2
    <3>2. PICK m \in Positions : /\ alloc[m].name = r.seg
                                 /\ [off |-> r.off, size |-> r.size] \in alloc[m].live
      BY <3>1 DEF BufferInv, Backed
    <3> QED
      BY <1>3, <3>2
  <2> QED
    BY <2>1, <2>2
<1>12. Owned'
  <2> SUFFICES ASSUME NEW m \in Positions, NEW e \in alloc'[m].live
               PROVE  \E k \in Keys : \E r \in ReplicasOf(k)' :
                        r.seg = alloc[m].name /\ r.off = e.off /\ r.size = e.size
    <3>1. \A m \in Positions : alloc'[m].name = alloc[m].name
      BY <1>3
    <3> QED
      BY <3>1 DEF Owned
  <2>1. CASE e \in alloc[m].live
    BY <1>4, <2>1 DEF BufferInv, Owned
  <2>2. CASE e \notin alloc[m].live
    <3>1. m \in DOMAIN f /\ e = [off |-> f[m], size |-> size]
      BY <1>3, <2>2
    <3>2. New(m) \in ReplicasOf(a.key)'
      BY <1>1, <1>4, <3>1
    <3> QED
      BY <1>1, <3>1, <3>2
  <2> QED
    BY <2>1, <2>2
<1>13. BuffersDisjoint'
  <2>1. ASSUME NEW k \in Keys, NEW r \in ReplicasOf(k), NEW m \in DOMAIN f,
               r.seg = alloc[m].name
        PROVE  ~Overlap(r, New(m)) /\ ~Overlap(New(m), r)
    <3>1. PICK n \in Positions : /\ alloc[n].name = r.seg
                                 /\ [off |-> r.off, size |-> r.size] \in alloc[n].live
      BY DEF BufferInv, Backed
    <3>2. n = m
      BY <1>2, <2>1, <3>1 DEF BufferInv, OneAllocatorPerSegment
    <3>3. ~Overlap([off |-> r.off, size |-> r.size], [off |-> f[m], size |-> size])
      BY <1>5, <3>1, <3>2
    <3> QED
      BY <3>3 DEF Overlap
  <2>2. ASSUME NEW m \in DOMAIN f, NEW n \in DOMAIN f, alloc[m].name = alloc[n].name
        PROVE  New(m) = New(n)
    BY <1>2, <2>2 DEF BufferInv, OneAllocatorPerSegment
  <2> SUFFICES ASSUME NEW j \in Keys, NEW k \in Keys,
                      NEW p \in ReplicasOf(j)', NEW q \in ReplicasOf(k)',
                      p.seg = q.seg, Overlap(p, q)
               PROVE  j = k /\ p = q
    BY DEF BuffersDisjoint, Overlap
  <2>3. CASE j = a.key /\ k = a.key
    <3>1. PICK m \in DOMAIN f : p = New(m)
      BY <1>4, <2>3
    <3>2. PICK n \in DOMAIN f : q = New(n)
      BY <1>4, <2>3
    <3> QED
      BY <2>2, <2>3, <3>1, <3>2
  <2>4. CASE j = a.key /\ k # a.key
    <3>1. PICK m \in DOMAIN f : p = New(m)
      BY <1>4, <2>4
    <3>2. q \in ReplicasOf(k) /\ q.seg = alloc[m].name
      BY <1>4, <2>4, <3>1
    <3> QED
      BY <2>1, <3>1, <3>2
  <2>5. CASE j # a.key /\ k = a.key
    <3>1. PICK m \in DOMAIN f : q = New(m)
      BY <1>4, <2>5
    <3>2. p \in ReplicasOf(j) /\ p.seg = alloc[m].name
      BY <1>4, <2>5, <3>1
    <3> QED
      BY <2>1, <3>1, <3>2
  <2>6. CASE j # a.key /\ k # a.key
    BY <1>4, <2>6 DEF BufferInv, BuffersDisjoint
  <2> QED
    BY <2>3, <2>4, <2>5, <2>6
<1> QED
  BY <1>9, <1>10, <1>11, <1>12, <1>13 DEF BufferInv
=============================================================================
