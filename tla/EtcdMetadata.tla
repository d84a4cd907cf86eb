---------------------------- MODULE EtcdMetadata ----------------------------
(***************************************************************************)
(* Segment metadata in etcd: every node serves its lookups from a local    *)
(* cache, loaded once with a get and then fed by a watch.  A node's own    *)
(* put or remove changes its cache at once and reaches etcd from a task of *)
(* its own, so two of them may reach it in either order, or not at all.    *)
(* etcd (external) orders all changes and sends each one, in that order,   *)
(* to every watch that was open when it was made.                          *)
(***************************************************************************)
EXTENDS Integers, Sequences, FiniteSets, TLC

CONSTANTS
    MetaNodes,     \* the processes that use the metadata
    Names,         \* segment names
    Descs,         \* segment descriptors
    Absent,        \* no descriptor
    MaxChanges,    \* bound: put_segment and remove_segment calls
    MaxLost        \* bound: pushes that fail, and watches that end

VARIABLES
    etcd,      \* the descriptors in etcd
    phase,     \* per node: "down", "loaded" (get done), "watching", "deaf"
    cache,     \* per node: its local copy
    events,    \* per node: changes its watch has yet to deliver
    pushes,    \* writes spawned and not yet at etcd
    changes, lost,
    astray     \* <<node, name>> whose latest change a cache cannot hear of

etcdVars == <<etcd, phase, cache, events, pushes, changes, lost, astray>>

Blanks == [s \in Names |-> Absent]
Serving(m) == phase[m] \in {"watching", "deaf"}

EtcdInit ==
    /\ etcd = Blanks /\ pushes = {} /\ changes = 0 /\ lost = 0 /\ astray = {}
    /\ phase = [m \in MetaNodes |-> "down"]
    /\ cache = [m \in MetaNodes |-> Blanks]
    /\ events = [m \in MetaNodes |-> <<>>]

(* connect: everything under the prefix is read into the cache.              *)
load(m) ==
    /\ phase[m] = "down"
    /\ phase' = [phase EXCEPT ![m] = "loaded"]
    /\ cache' = [cache EXCEPT ![m] = etcd]
    /\ UNCHANGED <<etcd, events, pushes, changes, lost, astray>>

(* connect: the watch opens, at etcd's revision of that moment.              *)
watch(m) ==
    /\ phase[m] = "loaded"
    /\ phase' = [phase EXCEPT ![m] = "watching"]
    /\ UNCHANGED <<etcd, cache, events, pushes, changes, lost, astray>>

\* Faulty: a deletion's key is not matched to the name it was cached under.
applied_puts(copy, ev) == IF ev.desc = Absent THEN copy ELSE [copy EXCEPT ![ev.name] = ev.desc]
applied(copy, ev) == [copy EXCEPT ![ev.name] = ev.desc]

(* The watch task applies the next change.                                   *)
deliver(m) ==
    LET ev == Head(events[m]) IN
    /\ phase[m] = "watching" /\ events[m] # <<>>
    /\ cache' = [cache EXCEPT ![m] = applied(cache[m], ev)]
    /\ events' = [events EXCEPT ![m] = Tail(@)]
    /\ astray' = astray \ {<<m, ev.name>>}
    /\ UNCHANGED <<etcd, phase, pushes, changes, lost>>

(* The watch's stream ends and its task with it; the cache is still served.  *)
watch_ends(m) ==
    /\ phase[m] = "watching" /\ lost < MaxLost
    /\ phase' = [phase EXCEPT ![m] = "deaf"]
    /\ events' = [events EXCEPT ![m] = <<>>]
    /\ lost' = lost + 1
    /\ UNCHANGED <<etcd, cache, pushes, changes, astray>>

(* put_segment (a descriptor) and remove_segment (Absent).                   *)
change(m, s, d) ==
    /\ Serving(m) /\ changes < MaxChanges
    /\ changes' = changes + 1
    /\ cache' = [cache EXCEPT ![m][s] = d]
    /\ pushes' = pushes \cup {[id |-> changes', by |-> m, name |-> s, desc |-> d]}
    /\ UNCHANGED <<etcd, phase, events, lost, astray>>

(* A spawned write reaches etcd, which tells every open watch.  Deleting a   *)
(* key that is not there changes nothing and tells nobody.                   *)
push(p) ==
    /\ p \in pushes
    /\ pushes' = pushes \ {p}
    /\ IF p.desc = Absent /\ etcd[p.name] = Absent
       THEN UNCHANGED <<etcd, events, astray>>
       ELSE /\ etcd' = [etcd EXCEPT ![p.name] = p.desc]
            /\ events' = [m \in MetaNodes |->
                            IF phase[m] = "watching"
                            THEN Append(events[m], [name |-> p.name, desc |-> p.desc])
                            ELSE events[m]]
            /\ astray' = astray \cup {<<m, p.name>> : m \in {k \in MetaNodes : phase[k] = "loaded"}}
    /\ UNCHANGED <<phase, cache, changes, lost>>

(* A spawned write fails; its error is dropped.                              *)
push_fails(p) ==
    /\ p \in pushes /\ lost < MaxLost
    /\ pushes' = pushes \ {p}
    /\ lost' = lost + 1
    /\ astray' = astray \cup {<<p.by, p.name>>}
    /\ UNCHANGED <<etcd, phase, cache, events, changes>>

EtcdNext ==
    \/ \E m \in MetaNodes : load(m) \/ watch(m) \/ deliver(m) \/ watch_ends(m)
    \/ \E m \in MetaNodes, s \in Names, d \in Descs \cup {Absent} : change(m, s, d)
    \/ \E p \in pushes : push(p) \/ push_fails(p)

-----------------------------------------------------------------------------
(* When no write and no event is under way, a watching node's cache is what  *)
(* etcd holds, however the writes of several nodes were interleaved with     *)
(* each other and with the events, except for a name whose last change fell  *)
(* between the node's get and its watch, or was a write of the node itself   *)
(* that never reached etcd.                                                  *)
CachesConverge ==
    pushes = {} =>
      \A m \in MetaNodes, s \in Names :
        /\ phase[m] = "watching" /\ events[m] = <<>>
        /\ <<m, s>> \notin astray
        => cache[m][s] = etcd[s]
=============================================================================
