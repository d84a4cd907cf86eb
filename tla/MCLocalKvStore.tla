-------------------------- MODULE MCLocalKvStore --------------------------
(* Instances of LocalKvStore for TLC: two keys with one hash and two identities. *)
EXTENDS LocalKvStore

a == [hash |-> "h", identity |-> "a"]
b == [hash |-> "h", identity |-> "b"]
TwoKeys == {a, b}
\* One byte and two bytes under a, two bytes under b; no two alike.
Distinct == [k \in TwoKeys |-> IF k = a THEN {"x", "yy"} ELSE {"zz"}]
Lengths == [d \in {"x", "yy", "zz"} |-> IF d = "x" THEN 1 ELSE 2]
=============================================================================
