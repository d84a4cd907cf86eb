--------------------------- MODULE MasterRecovery ---------------------------
(***************************************************************************)
(* Rebuilding a master: MasterService::recover from a snapshot, and        *)
(* MasterService::recover_from_oplog from the op-log.  Both build a fresh  *)
(* table and fresh allocators and re-reserve every replica's exact range;  *)
(* both fail as a whole when one range is taken or its segment is missing. *)
(***************************************************************************)
EXTENDS MasterService, FiniteSetsExt, SequencesExt

\* A master under construction.
Fresh == [ok |-> TRUE, objects |-> [k \in Keys |-> NoObject], alloc |-> NoAllocators]
Failed == [Fresh EXCEPT !.ok = FALSE]

reserve_all(m, replicas) ==
    FoldSet(LAMBDA r, st : IF st.ok /\ CanReserve(st.alloc, r)
                           THEN [st EXCEPT !.alloc = reserve(@, r)] ELSE Failed,
            m, replicas)

insert(m, k, o) == IF m.ok THEN [m EXCEPT !.objects[k] = o] ELSE m

mount(m, s) ==
    LET end == CHOOSE p \in Positions : IsEnd(m.alloc, p)
    IN  [m EXCEPT !.alloc = push(@, end, s)]

\* snapshot: the mounted names in list order, and every object as it is, in
\* flight or not, with its lease.
snapshot ==
    [clock |-> clock, objects |-> objects,
     segments |-> SelectSeq([m \in Positions |-> alloc[m].name], LAMBDA s : s # Unmounted)]

\* Faulty: leaves the objects in flight out.
recover_committed(snap) ==
    LET mounted == FoldLeft(mount, Fresh, snap.segments)
    IN  FoldSet(LAMBDA k, m : IF ~has_complete_replica(snap.objects[k]) THEN m
                              ELSE insert(reserve_all(m, snap.objects[k].replicas),
                                          k, snap.objects[k]),
                mounted, Keys)

recover(snap) ==
    LET mounted == FoldLeft(mount, Fresh, snap.segments)
    IN  FoldSet(LAMBDA k, m : IF snap.objects[k] = NoObject THEN m
                              ELSE insert(reserve_all(m, snap.objects[k].replicas),
                                          k, snap.objects[k]),
                mounted, Keys)

\* apply_op.  A committed object is inserted over whatever is there, without
\* freeing it, and starts unleased at clock 0.
apply_op(m, e) ==
    IF ~m.ok THEN m
    ELSE CASE e.op = "SegmentMounted" -> mount(m, e.name)
           [] e.op = "SegmentUnmounted" ->
                [m EXCEPT
                  !.objects = [k \in Keys |->
                     LET kept == IF m.objects[k] = NoObject THEN {}
                                 ELSE {r \in m.objects[k].replicas : r.seg # e.name}
                     IN  IF kept = {} THEN NoObject
                         ELSE [m.objects[k] EXCEPT !.replicas = kept]],
                  !.alloc = retain_other(@, e.name)]
           [] e.op = "Removed" ->
                IF m.objects[e.key] = NoObject THEN m
                ELSE [m EXCEPT !.objects[e.key] = NoObject,
                               !.alloc = free_replicas(@, m.objects[e.key].replicas)]
           [] e.op = "PutCommitted" ->
                insert(reserve_all(m, e.object.replicas), e.key,
                       [e.object EXCEPT !.lease_until = 0, !.last_access = 0])

recover_from_oplog(log) == FoldLeft(apply_op, Fresh, log)

-----------------------------------------------------------------------------
LiveExtents(al) ==
    UNION {{<<al[m].name, e>> : e \in al[m].live} : m \in Positions}

\* Whenever a snapshot can be taken, a master recovered from it has the same
\* objects on the same ranges: no recovery is refused for a range that is taken.
SnapshotRestores ==
    holder = NoCaller =>
        LET m == recover(snapshot)
        IN  m.ok /\ m.objects = objects /\ LiveExtents(m.alloc) = LiveExtents(alloc)

\* Between calls, replaying the op-log yields exactly the committed objects, on
\* the ranges and under the identities and pins they were committed with.
ReplayMatches ==
    Quiet => LET m == recover_from_oplog(oplog)
             IN  /\ m.ok
                 /\ \A k \in Keys :
                      m.objects[k] =
                        IF has_complete_replica(objects[k])
                        THEN [objects[k] EXCEPT !.lease_until = 0, !.last_access = 0]
                        ELSE NoObject

\* A recovered master is the one that was lost, by either way: from a snapshot taken at
\* any moment, with every object on its range, and from the log between calls, with
\* every object that was committed and none that was revoked, removed or evicted.
RecoversSame == SnapshotRestores /\ ReplayMatches
=============================================================================
