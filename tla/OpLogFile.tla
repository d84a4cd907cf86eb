----------------------------- MODULE OpLogFile -----------------------------
(***************************************************************************)
(* The file under the op-log: frames are appended and synced one at a      *)
(* time, a crash or a failed append can leave the last one torn, opening   *)
(* the log again appends behind whatever is there, and replay stops at the *)
(* first frame that is not whole.                                          *)
(*                                                                         *)
(* A frame is the entry it was made for and whether all of it is there.    *)
(* Entries are numbered in the order they are appended.                    *)
(***************************************************************************)
EXTENDS Integers, Sequences, SequencesExt, FiniteSets

CONSTANTS MaxEntries, MaxTorn   \* bounds: entries appended, appends cut short

VARIABLES
    file,        \* the frames on disk, in order
    opened,      \* is a process appending
    unsynced,    \* the frame that is written and not yet synced, as a set
    acked,       \* entries whose append returned Ok
    entries,     \* entries handed to append so far
    cuts         \* appends cut short so far

logVars == <<file, opened, unsynced, acked, entries, cuts>>

Frame(n, whole) == [entry |-> n, whole |-> whole]

LogInit ==
    /\ file = <<>> /\ opened = FALSE /\ unsynced = {}
    /\ acked = {} /\ entries = 0 /\ cuts = 0

\* Faulty: opens without append and truncates.
kept_none == <<>>
kept == file

(* open: existing entries are kept.                                          *)
open_log ==
    /\ ~opened
    /\ opened' = TRUE
    /\ file' = kept
    /\ UNCHANGED <<unsynced, acked, entries, cuts>>

(* append: write_all.                                                        *)
append_write ==
    /\ opened /\ unsynced = {} /\ entries < MaxEntries
    /\ entries' = entries + 1
    /\ unsynced' = {Frame(entries', TRUE)}
    /\ UNCHANGED <<file, opened, acked, cuts>>

(* append: sync_data returns and the entry is durable.                       *)
append_sync ==
    /\ unsynced # {}
    /\ \E f \in unsynced : file' = Append(file, f) /\ acked' = acked \cup {f.entry}
    /\ unsynced' = {}
    /\ UNCHANGED <<opened, entries, cuts>>

\* What may be on disk of a frame that was never synced: nothing, part or all.
Leftovers == {<<>>} \cup {<<Frame(f.entry, w)>> : f \in unsynced, w \in BOOLEAN}

(* write_all or sync_data fails: log_op ignores it and the master goes on.   *)
append_fails ==
    /\ unsynced # {} /\ cuts < MaxTorn
    /\ \E rest \in Leftovers : file' = file \o rest
    /\ unsynced' = {} /\ cuts' = cuts + 1
    /\ UNCHANGED <<opened, acked, entries>>

(* The process dies.                                                         *)
crash_log ==
    /\ opened /\ cuts < MaxTorn
    /\ \E rest \in Leftovers : file' = file \o rest
    /\ opened' = FALSE /\ unsynced' = {} /\ cuts' = cuts + 1
    /\ UNCHANGED <<acked, entries>>

Torn(n) == ~file[n].whole
(* replay: every frame before the first torn one.                            *)
intact == {n \in DOMAIN file : \A j \in 1..n : ~Torn(j)}
replay == [n \in intact |-> file[n].entry]

LogNext == open_log \/ append_write \/ append_sync \/ append_fails \/ crash_log

-----------------------------------------------------------------------------
Entries(s) == {s[n] : n \in DOMAIN s}

(* Replay returns entries in the order they were appended, none twice and    *)
(* none that was not appended, and it returns every entry whose append       *)
(* returned Ok unless a torn frame lies before it: those the log has lost,   *)
(* although they were synced.                                                *)
ReplayExact ==
    /\ \A i, j \in DOMAIN replay : i < j => replay[i] < replay[j]
    /\ \A i \in DOMAIN replay : replay[i] \in 1..entries
    /\ \A n \in acked :
         \/ n \in Entries(replay)
         \/ \E i, j \in DOMAIN file : i < j /\ Torn(i) /\ file[j].entry = n
=============================================================================
