--------------------------- MODULE MasterElection ---------------------------
(***************************************************************************)
(* Leader election among store masters.  A master joins with an etcd       *)
(* lease, campaigns, and serves once it has won, from the snapshot it      *)
(* finds; a task of its own keeps the lease alive until a keep-alive fails.*)
(* Nothing stops a master that has lost its lease: it goes on serving and  *)
(* saving its snapshot.                                                    *)
(*                                                                         *)
(* etcd (external): a campaign adds a key that lives as long as its lease, *)
(* and returns once no older key is left.  A standby sends no keep-alives, *)
(* so the code relies on etcd not to let the lease of a waiting campaign   *)
(* lapse.                                                                  *)
(***************************************************************************)
EXTENDS Integers, Sequences, SequencesExt, FiniteSets

CONSTANTS
    Masters,
    MaxTerms,    \* bound: campaigns won
    MaxWrites    \* bound: changes a master serves in one term

VARIABLES
    at,          \* per master: "down", "campaigning", "serving"
    leased,      \* masters whose lease is alive at etcd
    campaign,    \* masters whose key exists, oldest first
    keeping,     \* masters whose keep-alive loop still runs
    state,       \* per master: [term, writes] of the state it serves
    snapshot,    \* the snapshot file, and whether its writer had lost its lease
    term         \* campaigns won so far

electionVars == <<at, leased, campaign, keeping, state, snapshot, term>>

Fresh == [term |-> 0, writes |-> 0]
Saved(st, late) == [term |-> st.term, writes |-> st.writes, late |-> late]

ElectionInit ==
    /\ at = [m \in Masters |-> "down"]
    /\ leased = {} /\ campaign = <<>> /\ keeping = {}
    /\ state = [m \in Masters |-> Fresh]
    /\ snapshot = Saved(Fresh, FALSE) /\ term = 0

(* join, then campaign: a lease and a key.                                   *)
join_election(m) ==
    /\ at[m] = "down" /\ m \notin leased /\ term < MaxTerms
    /\ at' = [at EXCEPT ![m] = "campaigning"]
    /\ leased' = leased \cup {m}
    /\ campaign' = Append(campaign, m)
    /\ UNCHANGED <<keeping, state, snapshot, term>>

\* Faulty: does not wait for the campaign to return.
is_leader_joined(m) == m \in leased
is_leader(m) == campaign # <<>> /\ Head(campaign) = m

recovered == snapshot

(* campaign returns: start the keep-alive loop, recover the snapshot, serve. *)
lead(m) ==
    /\ at[m] = "campaigning" /\ is_leader(m) /\ term < MaxTerms
    /\ at' = [at EXCEPT ![m] = "serving"]
    /\ keeping' = keeping \cup {m}
    /\ term' = term + 1
    /\ state' = [state EXCEPT ![m] = [term |-> term', writes |-> recovered.writes]]
    /\ UNCHANGED <<leased, campaign, snapshot>>

(* A request changes what the master serves.                                 *)
serve_write(m) ==
    /\ at[m] = "serving" /\ state[m].writes < MaxWrites
    /\ state' = [state EXCEPT ![m].writes = @ + 1]
    /\ UNCHANGED <<at, leased, campaign, keeping, snapshot, term>>

(* The snapshot task saves what the master serves.                           *)
save_snapshot(m) ==
    /\ at[m] = "serving"
    /\ snapshot' = Saved(state[m], m \notin leased)
    /\ UNCHANGED <<at, leased, campaign, keeping, state, term>>

(* A keep-alive fails and the loop ends.                                     *)
keep_alive_fails(m) ==
    /\ m \in keeping
    /\ keeping' = keeping \ {m}
    /\ UNCHANGED <<at, leased, campaign, state, snapshot, term>>

unkept(m) == m \notin keeping /\ at[m] # "campaigning"

(* A lease nobody keeps alive lapses, and its key with it.                   *)
lapse(m) ==
    /\ m \in leased /\ unkept(m)
    /\ leased' = leased \ {m}
    /\ campaign' = SelectSeq(campaign, LAMBDA k : k # m)
    /\ UNCHANGED <<at, keeping, state, snapshot, term>>

(* The process of a master dies.                                             *)
crash_master(m) ==
    /\ at[m] # "down"
    /\ at' = [at EXCEPT ![m] = "down"]
    /\ keeping' = keeping \ {m}
    /\ UNCHANGED <<leased, campaign, state, snapshot, term>>

ElectionNext ==
    \E m \in Masters :
      \/ join_election(m) \/ lead(m) \/ serve_write(m) \/ save_snapshot(m)
      \/ keep_alive_fails(m) \/ lapse(m) \/ crash_master(m)

-----------------------------------------------------------------------------
(* Two masters serve at the same time only if one of them has let its lease  *)
(* lapse: while the keep-alive loop of a serving master runs, any other that *)
(* serves is a former leader that nothing has stopped.                       *)
OneMasterServes ==
    \A m, k \in Masters :
      m # k /\ at[m] = "serving" /\ at[k] = "serving" =>
        /\ ~(m \in leased /\ k \in leased)
        /\ m \in keeping => k \notin keeping /\ state[k].term < state[m].term

(* The snapshot goes back to an earlier term, or loses writes, only when a   *)
(* former leader that is still serving saves it, or when the leader saves    *)
(* over what such a master had saved.                                        *)
SnapshotAdvances ==
    \/ snapshot'.term >= snapshot.term /\ snapshot'.writes >= snapshot.writes
    \/ snapshot'.late
    \/ snapshot.late

(* At most one master that holds its lease serves, and what a leader writes  *)
(* is undone only by a former leader: the one gap the code leaves open.      *)
LeadershipSound == [][OneMasterServes' /\ SnapshotAdvances]_electionVars
=============================================================================
