---------------------------- MODULE SegmentState ----------------------------
(***************************************************************************)
(* The segment side of the master: the list of buffer allocators, one      *)
(* pushed per mount, and the allocation strategy over it.                  *)
(*                                                                         *)
(* A list of allocators is a function from list positions to allocators.   *)
(* An allocator is the name it was mounted under and the set of live       *)
(* extents; a position that is not in use has the name Unmounted.          *)
(* Positions keep the order of the Vec, holes left by an unmount are not   *)
(* compacted.  Sizes are small enough to be exact in the allocator's       *)
(* small-float bins, so "some free region fits" is what                    *)
(* largest_free_region() >= size says.  Which segments and which offsets   *)
(* are taken is left open: every strategy and every bin order is covered.  *)
(***************************************************************************)
EXTENDS Integers, FiniteSets

CONSTANTS
    SegmentNames,  \* the names segments are mounted under
    Unmounted,     \* the name of an unused position
    Capacity,      \* units in one segment
    Sizes,         \* object sizes callers ask for
    MaxMounts      \* bound: positions in the list

ASSUME SegmentAssumption ==
    /\ Unmounted \notin SegmentNames
    /\ Capacity \in Nat \ {0}
    /\ Sizes \subseteq 1..Capacity
    /\ MaxMounts \in Nat

Positions == 1..MaxMounts
Offsets == 0..(Capacity - 1)
Extent == [off : Offsets, size : Sizes]
Allocator == [name : SegmentNames \cup {Unmounted}, live : SUBSET Extent]
\* A replica of an object: its buffer and whether its status is Complete.  The
\* id tells replicas of one object apart (it stands for ReplicaId).
Replica == [id : Positions, seg : SegmentNames, off : Offsets, size : Sizes,
            complete : BOOLEAN]

NoAllocators == [m \in Positions |-> [name |-> Unmounted, live |-> {}]]

Mounted(al, s) == \E m \in Positions : al[m].name = s
\* The allocator `find` returns for a name: the first one in list order.
IsFirst(al, m) == \A n \in Positions : n < m => al[n].name # al[m].name
\* The end of the list, where push puts the next allocator.
IsEnd(al, m) ==
    /\ \A n \in Positions : n >= m => al[n].name = Unmounted
    /\ \A n \in Positions : n = m - 1 => al[n].name # Unmounted

push(al, m, s) == [al EXCEPT ![m] = [name |-> s, live |-> {}]]
retain_other(al, s) ==
    [m \in Positions |-> IF al[m].name = s THEN NoAllocators[m] ELSE al[m]]

(* Units in use, and units mounted, over all allocators. *)
allocated(al) ==
    Cardinality({p \in Positions \X Offsets :
                   \E e \in al[p[1]].live : e.off <= p[2] /\ p[2] < e.off + e.size})
capacity(al) == Capacity * Cardinality({m \in Positions : al[m].name # Unmounted})

Overlap(a, b) == a.off < b.off + b.size /\ b.off < a.off + a.size
\* Faulty: does not look at what is live.
FitsAnywhere(live, off, size) == off + size <= Capacity

FitsAt(live, off, size) ==
    /\ off + size <= Capacity
    /\ \A e \in live : ~Overlap(e, [off |-> off, size |-> size])

\* The segments that can hold one more buffer of this size.
candidates(al, size) ==
    {m \in Positions : /\ al[m].name # Unmounted
                       /\ \E off \in Offsets : FitsAt(al[m].live, off, size)}

\* The placements of num replicas, each in a different allocator: functions from
\* the chosen positions to the offsets taken there.  Empty when fewer than num
\* segments can fit, which is NoAvailableSegment.
placements(al, size, num) ==
    {f \in UNION {[M -> Offsets] : M \in {N \in SUBSET candidates(al, size) :
                                            Cardinality(N) = num}} :
       \A m \in DOMAIN f : FitsAt(al[m].live, f[m], size)}

allocate(al, f, size) ==
    [m \in Positions |->
       IF m \in DOMAIN f
       THEN [al[m] EXCEPT !.live = @ \cup {[off |-> f[m], size |-> size]}]
       ELSE al[m]]

new_replicas(al, f, size) ==
    {[id |-> m, seg |-> al[m].name, off |-> f[m], size |-> size,
      complete |-> FALSE] : m \in DOMAIN f}

\* Each buffer goes back to the first allocator with its segment's name, which
\* drops the extent it has live at that offset; an unknown name is skipped.
free_replicas(al, replicas) ==
    [m \in Positions |->
       [al[m] EXCEPT !.live =
          {e \in @ : ~ /\ IsFirst(al, m)
                       /\ \E r \in replicas : r.seg = al[m].name /\ r.off = e.off}]]

\* Claim an exact range in the first allocator with the buffer's segment name.
CanReserve(al, r) ==
    \E m \in Positions : /\ al[m].name = r.seg
                         /\ IsFirst(al, m)
                         /\ FitsAt(al[m].live, r.off, r.size)
reserve(al, r) ==
    [m \in Positions |->
       IF al[m].name = r.seg /\ IsFirst(al, m)
       THEN [al[m] EXCEPT !.live = @ \cup {[off |-> r.off, size |-> r.size]}]
       ELSE al[m]]
=============================================================================
