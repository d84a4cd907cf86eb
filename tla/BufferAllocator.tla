--------------------------- MODULE BufferAllocator ---------------------------
(***************************************************************************)
(* What the BufferAllocator trait promises its caller: the buffers held    *)
(* are disjoint ranges of the segment, a request no larger than the        *)
(* reported largest free region is granted, and what is reported fits.     *)
(* Where a buffer goes, and how much is reported, is left open.            *)
(***************************************************************************)
EXTENDS Integers

CONSTANTS
    Capacities,     \* sizes of segments
    Sizes,          \* sizes callers ask for
    Ranges          \* exact ranges callers reserve

VARIABLES
    capacity,
    held,           \* the buffers callers hold
    largest,        \* what largest_free_region reports
    reply           \* the answer to the last call

contract == <<capacity, held, largest, reply>>

Fits(off, size) ==
    /\ off + size <= capacity
    /\ \A b \in held : b.off + b.size <= off \/ off + size <= b.off

\* A range that fits somewhere fits at the start or right after a buffer.
Reported ==
    \E size \in {largest} :
      size = 0 \/ \E off \in {0} \cup {b.off + b.size : b \in held} : Fits(off, size)
Answer(op, size, ok) == reply' = [op |-> op, size |-> size, ok |-> ok]

allocate(size) ==
    \/ /\ Answer("allocate", size, TRUE)
       /\ \E off \in 0..capacity : size > 0 /\ Fits(off, size)
                                   /\ held' = held \cup {[off |-> off, size |-> size]}
    \/ /\ Answer("allocate", size, FALSE)
       /\ size = 0 \/ size > largest
       /\ UNCHANGED held

deallocate(b) == Answer("deallocate", 0, TRUE) /\ held' = held \ {b}

reserve(r) ==
    \/ Answer("reserve", 0, TRUE) /\ Fits(r.off, r.size) /\ held' = held \cup {r}
    \/ Answer("reserve", 0, FALSE) /\ UNCHANGED held

Init ==
    /\ capacity \in Capacities /\ held = {} /\ Reported
    /\ reply = [op |-> "new", size |-> 0, ok |-> TRUE]

Next ==
    /\ \/ \E size \in Sizes : allocate(size)
       \/ \E b \in held : deallocate(b)
       \/ \E r \in Ranges : reserve(r)
    /\ Reported'
    /\ UNCHANGED capacity

Spec == Init /\ [][Next]_contract
=============================================================================
