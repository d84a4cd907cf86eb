--------------------------- MODULE OffsetAllocator ---------------------------
(***************************************************************************)
(* The core of the offset allocator: regions of a segment as nodes of a    *)
(* pool, threaded by two lists (regions of one size bin, and physical      *)
(* neighbours), with a two-level bitmap of the bins that are not empty.    *)
(*                                                                         *)
(* An allocator is a record, an operation a function from allocators to    *)
(* allocators.  Node handles start at 0 and are taken from a stack; a      *)
(* bitmap is the set of its one bits.  The bins are 8-bit floats with      *)
(* MantissaBits bits of mantissa (3 in the code).                          *)
(***************************************************************************)
EXTENDS Integers, FiniteSetsExt

CONSTANTS
    MantissaBits,
    MaxBinSize,             \* the largest size the core addresses
    TopBins,                \* exponents
    InitNodes, MaxNodes,    \* init_capacity and max_capacity of the node pool
    Unused                  \* no node, no bin, no space

MantissaValue == 2^MantissaBits
Handles == 0..(MaxNodes - 1)
Bins == 0..(TopBins * MantissaValue - 1)

-----------------------------------------------------------------------------
(* small_float.                                                              *)

highest_set_bit(size) == CHOOSE b \in 0..31 : 2^b <= size /\ size < 2^(b + 1)

uint_to_float_round_down(size) ==
    IF size < MantissaValue THEN size
    ELSE LET start == highest_set_bit(size) - MantissaBits
         IN  (start + 1) * MantissaValue + ((size \div 2^start) % MantissaValue)

\* A mantissa that overflows carries into the exponent.
uint_to_float_round_up(size) ==
    IF size < MantissaValue THEN size
    ELSE LET start == highest_set_bit(size) - MantissaBits
         IN  uint_to_float_round_down(size) + (IF size % 2^start = 0 THEN 0 ELSE 1)

float_to_uint(f) ==
    LET exponent == f \div MantissaValue
        mantissa == f % MantissaValue
    IN  IF exponent = 0 THEN mantissa ELSE (mantissa + MantissaValue) * 2^(exponent - 1)

\* Faulty: misses the bit the search starts at.
find_set_bit_past(bits, start) ==
    LET after == {b \in bits : b > start} IN IF after = {} THEN Unused ELSE Min(after)
find_lowest_set_bit_after(bits, start) ==
    LET after == {b \in bits : b >= start} IN IF after = {} THEN Unused ELSE Min(after)

Top(bin) == bin \div MantissaValue
Leaf(bin) == bin % MantissaValue

-----------------------------------------------------------------------------
(* Nodes and bins.                                                           *)

Node(off, size, used, next) ==
    [off |-> off, size |-> size, used |-> used, bin_prev |-> Unused, bin_next |-> next,
     prev |-> Unused, next |-> Unused]

\* Set one field of a node, unless there is no such node.
set(a, n, field, value) == IF n = Unused THEN a ELSE [a EXCEPT !.nodes[n][field] = value]
\* The stack of free handles.  Neither what a handle's node last held nor the
\* popped part of the stack is kept: both are overwritten before they are read.
pop(a) == a.free_nodes[a.free_offset]
popped(a) == [a EXCEPT !.free_nodes[a.free_offset] = 0, !.free_offset = @ + 1]
push(a, n) ==
    [a EXCEPT !.free_offset = @ - 1, !.free_nodes[a.free_offset - 1] = n,
              !.nodes[n] = Node(0, 0, FALSE, Unused)]

\* Clear the bits of a bin that has become empty.
clear(a, bin) ==
    IF a.bin_indices[bin] # Unused THEN a
    ELSE LET leaves == a.used_bins[Top(bin)] \ {Leaf(bin)}
         IN  [a EXCEPT !.used_bins[Top(bin)] = leaves,
                       !.used_bins_top = IF leaves = {} THEN @ \ {Top(bin)} ELSE @]

insert_node_into_bin(a, size, off) ==
    LET bin == uint_to_float_round_down(size)
        head == a.bin_indices[bin]
        marked == IF head # Unused THEN a
                  ELSE [a EXCEPT !.used_bins[Top(bin)] = @ \cup {Leaf(bin)},
                                 !.used_bins_top = @ \cup {Top(bin)}]
        filled == [popped(marked) EXCEPT !.nodes[pop(a)] = Node(off, size, FALSE, head),
                                         !.bin_indices[bin] = pop(a),
                                         !.free_storage = @ + size]
    IN  set(filled, head, "bin_prev", pop(a))

remove_node_from_bin(a, n) ==
    LET node == a.nodes[n]
        bin == uint_to_float_round_down(node.size)
        after == set(a, node.bin_next, "bin_prev", node.bin_prev)
        unlinked == IF node.bin_prev # Unused
                    THEN set(after, node.bin_prev, "bin_next", node.bin_next)
                    ELSE clear([after EXCEPT !.bin_indices[bin] = node.bin_next], bin)
    IN  [push(unlinked, n) EXCEPT !.free_storage = @ - node.size]

grow(a) ==
    [a EXCEPT !.free_nodes[a.current_capacity] = a.current_capacity,
              !.current_capacity = @ + 1]

core_new(size) ==
    insert_node_into_bin(
        [size |-> size, current_capacity |-> InitNodes, free_storage |-> 0,
         used_bins_top |-> {}, used_bins |-> [t \in 0..(TopBins - 1) |-> {}],
         bin_indices |-> [bin \in Bins |-> Unused],
         nodes |-> [n \in Handles |-> Node(0, 0, FALSE, Unused)],
         free_nodes |-> [i \in Handles |-> IF i < InitNodes THEN i ELSE 0],
         free_offset |-> 0],
        size, 0)

-----------------------------------------------------------------------------
(* Operations.  The node is Unused when there is no space.                   *)

\* The smallest bin that is not empty and whose every member fits.
fitting_bin(a, min_bin) ==
    LET leaf == IF Top(min_bin) \notin a.used_bins_top THEN Unused
                ELSE find_lowest_set_bit_after(a.used_bins[Top(min_bin)], Leaf(min_bin))
        top == find_lowest_set_bit_after(a.used_bins_top, Top(min_bin) + 1)
    IN  IF leaf # Unused THEN Top(min_bin) * MantissaValue + leaf
        ELSE IF top = Unused THEN Unused
        ELSE top * MantissaValue + Min(a.used_bins[top])

\* Thread region r between n and the neighbour that followed n.
thread(a, n, r, next) ==
    set([a EXCEPT !.nodes[r].prev = n, !.nodes[r].next = next, !.nodes[n].next = r],
        next, "prev", r)

\* Take the head of a bin: a node of the rounded size, and the rest as a free
\* neighbour after it.
take(a, bin, size) ==
    LET n == a.bin_indices[bin]
        node == a.nodes[n]
        rest == node.size - size
        headless == set([a EXCEPT !.bin_indices[bin] = node.bin_next,
                                  !.nodes[n].size = size, !.nodes[n].used = TRUE,
                                  !.free_storage = @ - node.size],
                        node.bin_next, "bin_prev", Unused)
        b == clear(headless, bin)
    IN  IF rest = 0 THEN b
        ELSE thread(insert_node_into_bin(b, rest, node.off + size), n, pop(b), node.next)

grown(a) == IF a.free_offset = a.current_capacity THEN grow(a) ELSE a

core_allocate(a, size) ==
    LET b == grown(a)
        min_bin == uint_to_float_round_up(size)
        bin == fitting_bin(b, min_bin)
    IN  IF a.free_offset = MaxNodes THEN [core |-> a, node |-> Unused]
        ELSE IF bin = Unused THEN [core |-> b, node |-> Unused]
        ELSE [core |-> take(b, bin, float_to_uint(min_bin)), node |-> b.bin_indices[bin]]

\* Faulty: leaves a free region before the node alone.
merges_before_never(a, node) == FALSE
merges_before(a, node) == node.prev # Unused /\ ~a.nodes[node.prev].used
merges_after(a, node) == node.next # Unused /\ ~a.nodes[node.next].used

\* Merge with the free neighbours, then insert the whole region.  The handle
\* that was pushed last is the one insert pops.
core_free(a, n) ==
    LET node == a.nodes[n]
        before == merges_before(a, node)
        after == merges_after(a, node)
        b == IF before THEN remove_node_from_bin(a, node.prev) ELSE a
        c == IF after THEN remove_node_from_bin(b, node.next) ELSE b
        prev == IF before THEN a.nodes[node.prev].prev ELSE node.prev
        next == IF after THEN a.nodes[node.next].next ELSE node.next
        off == IF before THEN a.nodes[node.prev].off ELSE node.off
        size == node.size + (IF before THEN a.nodes[node.prev].size ELSE 0)
                          + (IF after THEN a.nodes[node.next].size ELSE 0)
        d == insert_node_into_bin(push(c, n), size, off)
    IN  set(set(set(set(d, n, "next", next), n, "prev", prev),
                next, "prev", n), prev, "next", n)

storage_report(a) ==
    IF a.free_offset >= MaxNodes \/ a.used_bins_top = {} THEN 0
    ELSE LET top == Max(a.used_bins_top)
         IN  float_to_uint(top * MantissaValue + Max(a.used_bins[top]))

\* The nodes on the list of a bin, as a walk along bin_next finds them.
bin_list(a, bin) ==
    LET walk[i \in 0..MaxNodes] ==
          IF i = 0 THEN {a.bin_indices[bin]} \ {Unused}
          ELSE walk[i - 1] \cup ({a.nodes[n].bin_next : n \in walk[i - 1]} \ {Unused})
    IN  IF a.bin_indices[bin] = Unused THEN {} ELSE walk[MaxNodes]

room(a) == a.current_capacity - a.free_offset
\* Faulty: gives up without growing the pool.
ensure_capacity_now(a) == a
\* Grow the pool until three handles are free, as far as it goes.
ensure_capacity(a) ==
    LET more == {k \in 0..3 : room(a) + k >= 3 \/ a.current_capacity + k = MaxNodes}
        up[k \in 0..3] == IF k = 0 THEN a ELSE grow(up[k - 1])
    IN  up[Min(more)]

\* Carve a range out of the free region that covers it.
core_reserve_exact(a0, off, size) ==
    LET a == ensure_capacity(a0)
        end == off + size
        covering == {n \in UNION {bin_list(a, bin) : bin \in Bins} :
                       /\ a.nodes[n].off <= off
                       /\ a.nodes[n].off + a.nodes[n].size >= end}
        n == CHOOSE m \in covering : TRUE
        old == a.nodes[n]
        b == remove_node_from_bin(a, n)
        before == IF off > old.off THEN pop(b) ELSE Unused
        c == IF before = Unused THEN b ELSE insert_node_into_bin(b, off - old.off, old.off)
        used == pop(c)
        d == [popped(c) EXCEPT !.nodes[used] = Node(off, size, TRUE, Unused)]
        after == IF old.off + old.size > end THEN pop(d) ELSE Unused
        e == IF after = Unused THEN d ELSE insert_node_into_bin(d, old.off + old.size - end, end)
        first == IF before = Unused THEN used ELSE before
        last == IF after = Unused THEN used ELSE after
        inner == set(set(set(set(e, before, "next", used), used, "prev", before),
                         used, "next", after), after, "prev", used)
        outer == set(set(set(set(inner, first, "prev", old.prev), old.prev, "next", first),
                         last, "next", old.next), old.next, "prev", last)
    IN  IF size = 0 THEN [core |-> a0, node |-> Unused]
        ELSE IF room(a) < 3 \/ covering = {} THEN [core |-> a, node |-> Unused]
        ELSE [core |-> outer, node |-> used]
=============================================================================
