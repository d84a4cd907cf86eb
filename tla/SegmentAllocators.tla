-------------------------- MODULE SegmentAllocators --------------------------
(***************************************************************************)
(* The three implementations of the BufferAllocator trait as a segment's   *)
(* allocator: the offset allocator (the default), first fit, and the       *)
(* power-of-two bins.  An allocator is made for a segment, a recovering    *)
(* master reserves the ranges its objects are on, and from then on it      *)
(* allocates; buffers are returned at any time.                            *)
(***************************************************************************)
EXTENDS OffsetAllocator

CONSTANTS
    Segments,       \* pairs of an implementation and a capacity
    Sizes,          \* sizes callers ask for, zero included
    Ranges          \* exact ranges a recovering master reserves

VARIABLES
    kind, capacity,
    recovering,     \* nothing was allocated yet
    a,              \* the state of the allocator
    held,           \* the buffers callers hold
    reply           \* the answer to the last call

vars == <<kind, capacity, recovering, a, held, reply>>

ASSUME AllocatorsAssumption ==
    /\ Segments \subseteq {"offset", "first_fit", "binned"} \X (Nat \ {0})
    /\ Sizes \subseteq Nat
    /\ Ranges \subseteq [off : Nat, size : Nat]
    /\ InitNodes \in 1..MaxNodes /\ Unused \notin Nat

Buffer(off, size) == [off |-> off, size |-> size]
Refused(st) == [st |-> st, off |-> Unused]
Granted(st, off) == [st |-> st, off |-> off]
saturating_sub(x, y) == IF x >= y THEN x - y ELSE 0

-----------------------------------------------------------------------------
(* OffsetAllocator and OffsetBufferAllocator: byte sizes scaled to the core, *)
(* and the handle of every live offset.                                      *)

calculate_multiplier(size) ==
    CHOOSE m \in 0..31 : /\ size \div 2^m <= MaxBinSize
                         /\ \A l \in 0..(m - 1) : size \div 2^l > MaxBinSize

offset_new(size) ==
    LET m == calculate_multiplier(size)
    IN  [core |-> core_new(size \div 2^m), multiplier_bits |-> m, allocated |-> 0,
         live |-> <<>>]

\* The live map: a function from offsets to sizes and node handles.
keep(st, core, off, size, n) ==
    [st EXCEPT !.core = core, !.allocated = @ + size,
               !.live = [o \in DOMAIN @ \cup {off} |->
                           IF o = off THEN [size |-> size, node |-> n] ELSE @[o]]]

offset_allocate(st, size) ==
    LET unit == 2^st.multiplier_bits
        fake_size == (size + unit - 1) \div unit
        got == core_allocate(st.core, fake_size)
        off == got.core.nodes[got.node].off * unit
    IN  IF size = 0 \/ fake_size > MaxBinSize THEN Refused(st)
        ELSE IF got.node = Unused THEN Refused([st EXCEPT !.core = got.core])
        ELSE Granted(keep(st, got.core, off, size, got.node), off)

offset_deallocate(st, b) ==
    IF b.off \notin DOMAIN st.live THEN st
    ELSE [st EXCEPT !.core = core_free(@, st.live[b.off].node),
                    !.allocated = saturating_sub(@, st.live[b.off].size),
                    !.live = [o \in DOMAIN @ \ {b.off} |-> @[o]]]

offset_reserve(st, off, size) ==
    LET got == core_reserve_exact(st.core, off, size)
    IN  IF size = 0 \/ st.multiplier_bits # 0 THEN Refused(st)
        ELSE IF got.node = Unused THEN Refused([st EXCEPT !.core = got.core])
        ELSE Granted(keep(st, got.core, off, size, got.node), off)

offset_largest(st) == storage_report(st.core) * 2^st.multiplier_bits

-----------------------------------------------------------------------------
(* FirstFitBufferAllocator and BinnedBufferAllocator: the free regions as a  *)
(* map from offsets to lengths, and for the latter the bins over them.       *)

bin_of(size) == highest_set_bit(size)

add_free(st, off, size) ==
    IF size = 0 THEN st
    ELSE [st EXCEPT !.free = [o \in DOMAIN @ \cup {off} |-> IF o = off THEN size ELSE @[o]],
                    !.bins[bin_of(size)] = @ \cup {off},
                    !.nonempty = @ \cup {bin_of(size)}]

remove_free(st, off) ==
    LET bin == bin_of(st.free[off])
    IN  [st EXCEPT !.free = [o \in DOMAIN @ \ {off} |-> @[o]],
                   !.bins[bin] = @ \ {off},
                   !.nonempty = IF st.bins[bin] = {off} THEN @ \ {bin} ELSE @]

free_list_new(size) ==
    add_free([free |-> <<>>, bins |-> [b \in 0..31 |-> {}], nonempty |-> {}, allocated |-> 0],
             0, size)

\* The region each takes: the first that is large enough; the first of the bin
\* of the size that is large enough, else the first of the next bin.
first_fit(st, size) == {o \in DOMAIN st.free : st.free[o] >= size}
binned_fit(st, size) ==
    LET floor == {o \in st.bins[bin_of(size)] : st.free[o] >= size}
        higher == {b \in st.nonempty : b > bin_of(size)}
    IN  IF floor # {} THEN floor ELSE IF higher = {} THEN {} ELSE st.bins[Min(higher)]

\* Take a range out of the free region at start.
carve(st, start, off, size) ==
    LET end == start + st.free[start]
        removed == remove_free(st, start)
        before == add_free(removed, start, off - start)
    IN  [add_free(before, off + size, end - (off + size)) EXCEPT !.allocated = @ + size]

free_list_allocate(st, fits, size) ==
    IF size = 0 \/ fits = {} THEN Refused(st)
    ELSE Granted(carve(st, Min(fits), Min(fits), size), Min(fits))

\* Coalesce with the regions that end where the buffer starts, and start where
\* it ends.
free_list_deallocate(st, b) ==
    LET end == b.off + b.size
        prev == {o \in DOMAIN st.free : o < b.off /\ o + st.free[o] = b.off}
        next == {o \in DOMAIN st.free : o = end}
        start == IF prev = {} THEN b.off ELSE Min(prev)
        stop == IF next = {} THEN end ELSE end + st.free[end]
        x == IF prev = {} THEN st ELSE remove_free(st, start)
        y == IF next = {} THEN x ELSE remove_free(x, end)
    IN  [add_free(y, start, stop - start) EXCEPT !.allocated = saturating_sub(@, b.size)]

free_list_reserve(st, off, size) ==
    LET before == {o \in DOMAIN st.free : o <= off}
        start == Max(before)
    IN  IF size = 0 \/ before = {} THEN Refused(st)
        ELSE IF start + st.free[start] < off + size THEN Refused(st)
        ELSE Granted(carve(st, start, off, size), off)

free_list_largest(st) == Max({st.free[o] : o \in DOMAIN st.free} \cup {0})

-----------------------------------------------------------------------------
(* The calls, through dyn BufferAllocator.                                   *)

largest_free_region == IF kind = "offset" THEN offset_largest(a) ELSE free_list_largest(a)

\* The reply keeps the size that was asked for when room was asked for.
answers(op, result, size) ==
    /\ a' = result.st
    /\ held' = IF result.off = Unused THEN held ELSE held \cup {Buffer(result.off, size)}
    /\ reply' = [op |-> op, size |-> IF op = "allocate" THEN size ELSE 0,
                 ok |-> result.off # Unused]

allocate(size) ==
    /\ answers("allocate",
               CASE kind = "offset" -> offset_allocate(a, size)
                 [] kind = "first_fit" -> free_list_allocate(a, first_fit(a, size), size)
                 [] kind = "binned" ->
                      free_list_allocate(a, IF size = 0 THEN {} ELSE binned_fit(a, size), size),
               size)
    /\ recovering' = FALSE
    /\ UNCHANGED <<kind, capacity>>

deallocate(b) ==
    /\ a' = IF kind = "offset" THEN offset_deallocate(a, b) ELSE free_list_deallocate(a, b)
    /\ held' = held \ {b}
    /\ reply' = [op |-> "deallocate", size |-> 0, ok |-> TRUE]
    /\ UNCHANGED <<kind, capacity, recovering>>

reserve(r) ==
    /\ recovering
    /\ answers("reserve",
               IF kind = "offset" THEN offset_reserve(a, r.off, r.size)
               ELSE free_list_reserve(a, r.off, r.size),
               r.size)
    /\ UNCHANGED <<kind, capacity, recovering>>

Init ==
    /\ \E s \in Segments : kind = s[1] /\ capacity = s[2]
    /\ recovering = TRUE
    /\ a = IF kind = "offset" THEN offset_new(capacity) ELSE free_list_new(capacity)
    /\ held = {}
    /\ reply = [op |-> "new", size |-> 0, ok |-> TRUE]

Next ==
    \/ \E size \in Sizes : allocate(size)
    \/ \E b \in held : deallocate(b)
    \/ \E r \in Ranges : reserve(r)

Spec == Init /\ [][Next]_vars

-----------------------------------------------------------------------------
(* Properties.                                                               *)

\* The nodes of the offset allocator's core that are not on the free stack.
InUse(c) ==
    (0..(c.current_capacity - 1))
      \ {c.free_nodes[i] : i \in c.free_offset..(c.current_capacity - 1)}
FreeNodes(c) == {n \in InUse(c) : ~c.nodes[n].used}

\* The pieces the segment is cut into, under a name each, and the free ones.
Pieces ==
    IF kind = "offset" THEN [n \in InUse(a.core) |-> Buffer(a.core.nodes[n].off, a.core.nodes[n].size)]
    ELSE [o \in DOMAIN a.free \cup {b.off : b \in held} |->
            IF o \in DOMAIN a.free THEN Buffer(o, a.free[o])
            ELSE CHOOSE b \in held : b.off = o]
Free == IF kind = "offset" THEN FreeNodes(a.core) ELSE DOMAIN a.free
Span == IF kind = "offset" THEN a.core.size ELSE capacity
Unit == IF kind = "offset" THEN 2^a.multiplier_bits ELSE 1

Core == [size : Nat, current_capacity : InitNodes..MaxNodes, free_storage : Nat,
         used_bins_top : SUBSET (0..(TopBins - 1)),
         used_bins : [0..(TopBins - 1) -> SUBSET (0..(MantissaValue - 1))],
         bin_indices : [Bins -> Handles \cup {Unused}],
         nodes : [Handles -> [off : Nat, size : Nat, used : BOOLEAN,
                              bin_prev : Handles \cup {Unused}, bin_next : Handles \cup {Unused},
                              prev : Handles \cup {Unused}, next : Handles \cup {Unused}]],
         free_nodes : [Handles -> Handles], free_offset : 0..MaxNodes]

\* Every number stays in range: no size or counter goes below zero, and no
\* handle is popped from an empty pool.
TypeOK ==
    /\ <<kind, capacity>> \in Segments /\ recovering \in BOOLEAN
    /\ held \subseteq [off : Nat, size : Nat] /\ a.allocated \in Nat
    /\ kind = "offset" => a.core \in Core /\ a.core.free_offset <= a.core.current_capacity
    /\ kind # "offset" => \A o \in DOMAIN a.free : o \in Nat /\ a.free[o] \in Nat \ {0}

\* Free regions and buffers tile the segment: they neither overlap nor leave a
\* gap, no two free regions are adjacent, every buffer held has a piece of its
\* own that is large enough, and `allocated` is what the buffers add up to.
Tiled ==
    LET at == Pieces
        Taken == DOMAIN at \ Free
        End(p) == at[p].off + at[p].size
    IN  /\ \A p, q \in DOMAIN at : p # q => End(p) <= at[q].off \/ End(q) <= at[p].off
        /\ MapThenSumSet(LAMBDA p : at[p].size, DOMAIN at) = Span
        /\ \A p \in DOMAIN at : End(p) <= Span
        /\ \A p, q \in Free : End(p) # at[q].off
        /\ Cardinality(held) = Cardinality(Taken)
        /\ \A b \in held : \E p \in Taken :
             b.off = Unit * at[p].off /\ b.size <= Unit * at[p].size
        /\ a.allocated = MapThenSumSet(LAMBDA b : b.size, held)

\* The bins, the bitmaps over them and the total of free storage are what the
\* free regions say they are.
BinsIndexFree ==
    IF kind = "offset"
    THEN LET c == a.core
             bin_at == [n \in FreeNodes(c) |-> uint_to_float_round_down(c.nodes[n].size)]
         IN
         /\ \A bin \in Bins :
              /\ bin_list(c, bin) = {n \in DOMAIN bin_at : bin_at[n] = bin}
              /\ Leaf(bin) \in c.used_bins[Top(bin)] <=> c.bin_indices[bin] # Unused
         /\ c.used_bins_top = {t \in 0..(TopBins - 1) : c.used_bins[t] # {}}
         /\ \A n \in DOMAIN bin_at : LET next == c.nodes[n].bin_next IN
              next # Unused => c.nodes[next].bin_prev = n
         /\ c.free_storage = MapThenSumSet(LAMBDA n : c.nodes[n].size, DOMAIN bin_at)
    ELSE /\ \A bin \in 0..31 : a.bins[bin] = {o \in DOMAIN a.free : bin_of(a.free[o]) = bin}
         /\ a.nonempty = {bin \in 0..31 : a.bins[bin] # {}}

\* The neighbour links of the offset allocator lead to the pieces right before
\* and right after, so that free finds every region it can merge with.
NeighboursLinked ==
    kind = "offset" =>
      LET c == a.core
          At(off) == {n \in InUse(c) : c.nodes[n].off = off}
          End(off) == {n \in InUse(c) : c.nodes[n].off + c.nodes[n].size = off}
      IN  \A n \in InUse(c) :
            /\ {c.nodes[n].next} \ {Unused} = At(c.nodes[n].off + c.nodes[n].size)
            /\ {c.nodes[n].prev} \ {Unused} = End(c.nodes[n].off)

\* A recovering master gets the exact ranges back: reserve refuses only what is
\* empty, reaches past the segment or touches a buffer, unless the segment is so
\* large that sizes are scaled or the node pool is used up.
RestoresExactly ==
    [][\A r \in Ranges : reply'.op = "reserve" /\ ~reply'.ok /\ reserve(r) =>
         \/ r.size = 0 \/ r.off + r.size > capacity
         \/ \E b \in held : r.off < b.off + b.size /\ b.off < r.off + r.size
         \/ kind = "offset" /\ (a.multiplier_bits # 0 \/ a.core.free_offset + 3 > MaxNodes)]_vars

\* Rounding up gives the least bin whose size is enough, rounding down the
\* greatest bin whose size is not too much, for every size the core addresses.
SmallFloats ==
    reply.op = "new" => \A size \in 0..MaxBinSize :
      /\ uint_to_float_round_up(size) = Min({f \in Bins : float_to_uint(f) >= size})
      /\ uint_to_float_round_down(size) = Max({f \in Bins : float_to_uint(f) <= size})

\* What the allocators keep of a segment is well formed, whatever was reserved, taken
\* and returned in whatever order: numbers in range, pieces that tile the segment, bins
\* and bitmaps that index the free ones, links to the right neighbours, and sizes
\* rounded to the right bins.
WellFormed == TypeOK /\ Tiled /\ BinsIndexFree /\ NeighboursLinked /\ SmallFloats

C == INSTANCE BufferAllocator WITH largest <- largest_free_region,
       Capacities <- {s[2] : s \in Segments}

\* Each of the three keeps the contract of the trait: buffers are disjoint and
\* inside the segment, and a request that the reported largest free region
\* covers is granted, so the allocation strategy's candidates never refuse.
Contract == C!Spec
=============================================================================
