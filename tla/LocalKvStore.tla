---------------------------- MODULE LocalKvStore ----------------------------
(***************************************************************************)
(* The byte pool of one node: a DRAM tier in memory and an SSD tier of     *)
(* block files published by a write-ahead log.  DiskTier::put is the same  *)
(* store used as the durable tier.                                         *)
(*                                                                         *)
(* The store has one owner (&mut self), so what interleaves with a call is *)
(* the death of the process: a step is one write to the disk, together     *)
(* with the memory updates up to the next one.  Every write may fail, and  *)
(* a log append may leave a part of its frame behind.  CRCs are taken to   *)
(* be collision-free: the length and CRC of a commit stand for the bytes.  *)
(***************************************************************************)
EXTENDS Integers, Sequences, FiniteSetsExt

CONSTANTS
    Keys,                   \* block keys: records with a hash and an identity
    Contents,               \* key -> the byte strings put under it
    Size,                   \* byte string -> its length
    DramCap, SsdCap,        \* dram_capacity, ssd_capacity
    Calls,                  \* the operations the owner uses
    None,
    MaxClock, MaxFile,      \* bounds: ticks of a run of the process, file ids
    MaxLog,                 \* bound: no call starts once the log is this long
    MaxErrors, MaxRestarts  \* bounds: failed writes, process deaths

VARIABLES
    dram,                   \* key -> its bytes, or None
    ssd,                    \* key -> the id of its file, or None
    meta,                   \* key -> BlockMeta, or None
    dram_bytes, ssd_bytes, clock, next_file,
    file,                   \* id -> the bytes of blk-<id>.kv, "partial", or None
    wal,                    \* manifest.wal: its frames, the torn ones included
    call,                   \* where the owner's call is
    errors, restarts,
    last                    \* history: key -> the last bytes put under it

memory == <<dram, ssd, meta, dram_bytes, ssd_bytes, clock, next_file>>
vars == <<memory, file, wal, call, errors, restarts, last>>

Data == UNION {Contents[k] : k \in Keys}
FileIds == 1..MaxFile
Torn == [op |-> "torn"]
Commit(k, id, d) == [op |-> "commit", key |-> k, file |-> id, sum |-> d]
Remove(k) == [op |-> "remove", key |-> k]
Record == [op : {"commit"}, key : Keys, file : FileIds, sum : Data]
            \cup [op : {"remove"}, key : Keys]

ASSUME StoreAssumption ==
    /\ Size \in [Data -> Nat]
    /\ DramCap \in Nat /\ SsdCap \in Nat /\ MaxFile \in Nat
    /\ None \notin Data /\ None \notin FileIds /\ "partial" \notin Data
    /\ None # "partial"
    /\ None \notin [tier : {"dram", "ssd"}, bytes : Nat, last_access : Nat]

saturating_sub(a, b) == IF a >= b THEN a - b ELSE 0
InTier(k, t) == meta[k] # None /\ meta[k].tier = t

-----------------------------------------------------------------------------
(* Writes to the disk.                                                       *)

fails == errors < MaxErrors /\ errors' = errors + 1
At(place) == call.at = place
Idle == At("ret")
Called(op) == Idle /\ op \in Calls /\ Len(wal) < MaxLog
ret(code) == call' = [at |-> "ret", code |-> code]
\* Where a demotion or a drop returns to: put goes on enforcing its budgets.
resume(op, code) ==
    IF op = "put" /\ code = "Ok" THEN call' = [at |-> "enforce"] ELSE ret(code)

wal_append(record) == wal' = Append(wal, record) /\ UNCHANGED errors
\* A failed append has written nothing, a part of the frame, or all of it.
wal_append_fails(record) ==
    fails /\ wal' \in {wal, Append(wal, Torn), Append(wal, record)}

\* remove_file, whose failure is ignored.
unlink(id) ==
    \/ id # None /\ file' = [file EXCEPT ![id] = None] /\ UNCHANGED errors
    \/ id # None /\ fails /\ UNCHANGED file
    \/ id = None /\ UNCHANGED <<file, errors>>

-----------------------------------------------------------------------------
(* Admitting a block.                                                        *)

\* The bytes remove_internal takes off the counter of tier t.
freed(k, t) == IF InTier(k, t) THEN meta[k].bytes ELSE 0

\* The file remove_internal deletes; the log gets no tombstone.
remove_internal(k) ==
    IF InTier(k, "ssd") THEN unlink(ssd[k]) ELSE UNCHANGED <<file, errors>>

put_dram(k, d) ==
    /\ clock < MaxClock /\ clock' = clock + 1
    /\ remove_internal(k)
    /\ ssd' = [ssd EXCEPT ![k] = IF InTier(k, "ssd") THEN None ELSE @]
    /\ ssd_bytes' = saturating_sub(ssd_bytes, freed(k, "ssd"))
    /\ dram' = [dram EXCEPT ![k] = d]
    /\ dram_bytes' = saturating_sub(dram_bytes, freed(k, "dram")) + Size[d]
    /\ meta' = [meta EXCEPT ![k] = [tier |-> "dram", bytes |-> Size[d],
                                    last_access |-> clock + 1]]
    /\ last' = [last EXCEPT ![k] = d]
    /\ UNCHANGED <<next_file, wal, restarts>>

call_put_dram ==
    /\ Called("put_dram")
    /\ \E k \in Keys : \E d \in Contents[k] : put_dram(k, d)
    /\ ret("Ok")

call_put ==
    /\ Called("put")
    /\ \E k \in Keys : \E d \in Contents[k] : put_dram(k, d)
    /\ call' = [at |-> "enforce"]

\* DiskTier::put.
call_disk_put ==
    /\ Called("disk_put")
    /\ \E k \in Keys : \E d \in Contents[k] :
         put_dram(k, d) /\ call' = [at |-> "demote", key |-> k]

-----------------------------------------------------------------------------
(* Moving a block to the SSD tier: the file first, then its commit.          *)

demote_create(k, op) ==
    /\ dram[k] # None /\ next_file < MaxFile
    /\ dram' = [dram EXCEPT ![k] = None]
    /\ dram_bytes' = saturating_sub(dram_bytes, Size[dram[k]])
    /\ next_file' = next_file + 1
    /\ \/ /\ file' = [file EXCEPT ![next_file + 1] = "partial"]
          /\ call' = [at |-> "write", key |-> k, data |-> dram[k], id |-> next_file + 1,
                      op |-> op]
          /\ UNCHANGED errors
       \/ fails /\ resume(op, "Io") /\ UNCHANGED file
    /\ UNCHANGED <<ssd, meta, ssd_bytes, clock, wal, restarts, last>>

call_demote ==
    /\ Called("demote")
    /\ \E k \in Keys :
         \/ demote_create(k, "demote")
         \/ dram[k] = None /\ ret("Ok")
              /\ UNCHANGED <<memory, file, wal, errors, restarts, last>>

disk_put_demote == At("demote") /\ demote_create(call.key, "disk_put")

demote_write ==
    /\ At("write")
    /\ LET whole == [file EXCEPT ![call.id] = call.data] IN
         \/ file' = whole /\ call' = [call EXCEPT !.at = "commit"] /\ UNCHANGED errors
         \/ fails /\ file' \in {file, whole} /\ resume(call.op, "Io")
    /\ UNCHANGED <<memory, wal, restarts, last>>

demote_commit_untiered ==
    /\ At("commit")
    /\ LET k == call.key
           record == Commit(k, call.id, call.data)
       IN \/ /\ wal_append(record)
             /\ ssd' = [ssd EXCEPT ![k] = call.id]
             /\ ssd_bytes' = ssd_bytes + Size[call.data]
             /\ UNCHANGED meta
             /\ resume(call.op, "Ok")
          \/ wal_append_fails(record) /\ resume(call.op, "Io")
               /\ UNCHANGED <<ssd, ssd_bytes, meta>>
    /\ UNCHANGED <<dram, dram_bytes, clock, next_file, file, restarts, last>>

demote_commit ==
    /\ At("commit")
    /\ LET k == call.key
           record == Commit(k, call.id, call.data)
       IN \/ /\ wal_append(record)
             /\ ssd' = [ssd EXCEPT ![k] = call.id]
             /\ ssd_bytes' = ssd_bytes + Size[call.data]
             /\ meta' = [meta EXCEPT ![k].tier = "ssd"]
             /\ resume(call.op, "Ok")
          \/ wal_append_fails(record) /\ resume(call.op, "Io")
               /\ UNCHANGED <<ssd, ssd_bytes, meta>>
    /\ UNCHANGED <<dram, dram_bytes, clock, next_file, file, restarts, last>>

-----------------------------------------------------------------------------
(* Dropping a block: the tombstone first, then the file.                     *)

dropping(k, op) == [at |-> "tombstone", key |-> k, op |-> op]

call_drop_block ==
    /\ Called("drop")
    /\ \E k \in Keys :
         \/ /\ InTier(k, "ssd")
            /\ call' = dropping(k, "drop")
            /\ UNCHANGED memory
         \/ /\ InTier(k, "dram")
            /\ dram' = [dram EXCEPT ![k] = None]
            /\ dram_bytes' = saturating_sub(dram_bytes, meta[k].bytes)
            /\ meta' = [meta EXCEPT ![k] = None]
            /\ ret("Ok")
            /\ UNCHANGED <<ssd, ssd_bytes, clock, next_file>>
         \/ meta[k] = None /\ ret("Ok") /\ UNCHANGED memory
    /\ UNCHANGED <<file, wal, errors, restarts, last>>

drop_tombstone ==
    /\ At("tombstone")
    /\ wal_append(Remove(call.key)) \/ wal_append_fails(Remove(call.key))
    /\ call' = [call EXCEPT !.at = "unlink"]
    /\ UNCHANGED <<memory, file, restarts, last>>

drop_unlink ==
    /\ At("unlink")
    /\ unlink(ssd[call.key])
    /\ ssd' = [ssd EXCEPT ![call.key] = None]
    /\ ssd_bytes' = saturating_sub(ssd_bytes, meta[call.key].bytes)
    /\ meta' = [meta EXCEPT ![call.key] = None]
    /\ resume(call.op, "Ok")
    /\ UNCHANGED <<dram, dram_bytes, clock, next_file, wal, restarts, last>>

-----------------------------------------------------------------------------
(* put's two loops, one turn at a time.                                      *)

coldest_in(t) ==
    {k \in Keys : InTier(k, t) /\ \A j \in Keys : InTier(j, t) =>
                                    meta[k].last_access <= meta[j].last_access}

over_lax(bytes, cap) == bytes > cap + 1
over_eager(bytes, cap) == bytes >= cap
over(bytes, cap) == bytes > cap

\* The first loop stops at a victim that has no bytes to demote.
demotable_blind == coldest_in("dram")
demotable == {k \in coldest_in("dram") : dram[k] # None}

enforce_capacity ==
    /\ At("enforce")
    /\ \/ over(dram_bytes, DramCap) /\ \E v \in demotable : demote_create(v, "put")
       \/ /\ ~over(dram_bytes, DramCap) \/ demotable = {}
          /\ \/ /\ over(ssd_bytes, SsdCap)
                /\ \E v \in coldest_in("ssd") : call' = dropping(v, "put")
             \/ /\ ~over(ssd_bytes, SsdCap) \/ coldest_in("ssd") = {}
                /\ ret("Stored")
          /\ UNCHANGED <<memory, file, wal, errors, restarts, last>>

-----------------------------------------------------------------------------
(* Reading.                                                                  *)

content(k) == IF InTier(k, "ssd") THEN IF ssd[k] = None THEN None ELSE file[ssd[k]]
              ELSE dram[k]

call_get ==
    /\ Called("get") /\ clock < MaxClock
    /\ \E k \in Keys :
         \/ /\ meta[k] # None
            /\ clock' = clock + 1
            /\ meta' = [meta EXCEPT ![k].last_access = clock + 1]
            /\ ret(IF content(k) # None THEN "Ok"
                          ELSE IF InTier(k, "ssd") /\ ssd[k] # None THEN "Io" ELSE "NotFound")
         \/ /\ meta[k] = None
            /\ ret(IF \E j \in Keys : /\ meta[j] # None /\ j.hash = k.hash
                                             /\ j.identity # k.identity
                          THEN "Unsafe" ELSE "NotFound")
            /\ UNCHANGED <<clock, meta>>
    /\ UNCHANGED <<dram, ssd, dram_bytes, ssd_bytes, next_file, file, wal, errors,
                   restarts, last>>

-----------------------------------------------------------------------------
(* Process death and reopening.                                              *)

\* The frames replay reads: those before the first torn one.
Replayed(w) == {i \in DOMAIN w : \A j \in 1..i : w[j] # Torn}

live_first(w, k) ==
    LET at == {i \in Replayed(w) : w[i].key = k}
    IN IF at = {} THEN None ELSE w[CHOOSE i \in at : \A j \in at : i <= j]
\* The last record of a key wins.
live(w, k) ==
    LET at == {i \in Replayed(w) : w[i].key = k}
    IN IF at = {} THEN None ELSE w[CHOOSE i \in at : \A j \in at : j <= i]

\* A commit counts if its file is there with the bytes it recorded.
verified(w, k) ==
    LET r == live(w, k) IN r # None /\ r.op = "commit" /\ file[r.file] = r.sum

recover(w) ==
    LET back == {k \in Keys : verified(w, k)}
    IN /\ dram' = [k \in Keys |-> None]
       /\ ssd' = [k \in Keys |-> IF k \in back THEN live(w, k).file ELSE None]
       /\ meta' = [k \in Keys |-> IF k \notin back THEN None
                                  ELSE [tier |-> "ssd", bytes |-> Size[live(w, k).sum],
                                        last_access |-> 0]]
       /\ dram_bytes' = 0
       /\ ssd_bytes' = MapThenSumSet(LAMBDA k : Size[live(w, k).sum], back)
       /\ clock' = 0
       /\ next_file' = Max({live(w, k).file + 1 : k \in back} \cup {0})

crash_recover ==
    /\ restarts < MaxRestarts /\ restarts' = restarts + 1
    /\ wal' \in {wal} \cup (IF call.at \in {"commit", "tombstone"} THEN {Append(wal, Torn)}
                            ELSE {})
    /\ recover(wal')
    /\ ret("Ok")
    /\ UNCHANGED <<file, errors, last>>

\* LocalKvStore::new on a directory that was used before: a clean log, the files
\* stay behind.
crash_new ==
    /\ restarts < MaxRestarts /\ restarts' = restarts + 1
    /\ wal' = <<>>
    /\ recover(wal')
    /\ ret("Ok")
    /\ last' = [k \in Keys |-> None]
    /\ UNCHANGED <<file, errors>>

Init ==
    /\ dram = [k \in Keys |-> None] /\ ssd = [k \in Keys |-> None]
    /\ meta = [k \in Keys |-> None]
    /\ dram_bytes = 0 /\ ssd_bytes = 0 /\ clock = 0 /\ next_file = 0
    /\ file = [id \in FileIds |-> None] /\ wal = <<>>
    /\ call = [at |-> "ret", code |-> "Ok"]
    /\ errors = 0 /\ restarts = 0 /\ last = [k \in Keys |-> None]

Step == disk_put_demote \/ demote_write \/ demote_commit \/ drop_tombstone
          \/ drop_unlink \/ enforce_capacity
Next ==
    \/ Step \/ call_put_dram \/ call_put \/ call_disk_put \/ call_demote
    \/ call_drop_block \/ call_get \/ crash_recover \/ crash_new

Spec == Init /\ [][Next]_vars
\* A call that has begun goes on: the owner runs it to its end.
FairSpec == Spec /\ WF_vars(Step)

-----------------------------------------------------------------------------
(* Properties.                                                               *)

BlockMeta == [tier : {"dram", "ssd"}, bytes : Nat, last_access : Nat]
Frame == [at : {"ret"}, code : {"Ok", "Stored", "Io", "NotFound", "Unsafe"}]
           \cup [at : {"enforce"}]
           \cup [at : {"demote"}, key : Keys]
           \cup [at : {"write", "commit"}, key : Keys, data : Data, id : FileIds,
                 op : {"put", "demote", "disk_put"}]
           \cup [at : {"tombstone", "unlink"}, key : Keys, op : {"put", "drop"}]

\* The tables, the counters (which never wrap below zero, even after a failed
\* demotion), the files and the log have their types.
TypeOK ==
    /\ dram \in [Keys -> Data \cup {None}] /\ ssd \in [Keys -> FileIds \cup {None}]
    /\ meta \in [Keys -> BlockMeta \cup {None}]
    /\ dram_bytes \in Nat /\ ssd_bytes \in Nat /\ clock \in Nat /\ next_file \in Nat
    /\ file \in [FileIds -> Data \cup {None, "partial"}]
    /\ wal \in Seq(Record \cup {Torn})
    /\ call \in Frame /\ errors \in Nat /\ restarts \in Nat
    /\ last \in [Keys -> Data \cup {None}]

\* A block of the SSD tier points to a whole file of its length that belongs to
\* no other block.
DanglingFree ==
    \A k \in Keys : InTier(k, "ssd") =>
      /\ ssd[k] # None /\ file[ssd[k]] \in Data
      /\ meta[k].bytes = Size[file[ssd[k]]]
      /\ \A j \in Keys : InTier(j, "ssd") /\ ssd[j] = ssd[k] => j = k

\* Between calls, and until a write fails, every resident block can be read, and
\* reads as what was last put under its key: no tier move loses bytes, and as an
\* overwrite deletes the older file, no process death brings older bytes back.
ServesLastPut ==
    Idle /\ errors = 0 => \A k \in Keys : meta[k] # None => content(k) = last[k]

\* The blocks a replay of the log would bring back.
Recovered == [k \in Keys |-> IF verified(wal, k) THEN live(wal, k).sum ELSE None]
SsdTier == [k \in Keys |-> IF InTier(k, "ssd") THEN content(k) ELSE None]

\* Across demotions, drops, overwrites, failed writes and process deaths the SSD tier
\* has no dangling or shared file: recover admits nothing half-written, and no file id
\* is taken twice.  Between calls the log and the files hold exactly that tier, as
\* long as no write failed and the log has no torn frame: a death now loses none of
\* its blocks and brings back none that was dropped or overwritten.
RecoversSsdTier ==
    /\ DanglingFree
    /\ Idle /\ errors = 0 /\ (\A i \in DOMAIN wal : wal[i] # Torn) => Recovered = SsdTier

\* The same without regard to torn frames, which is what "a `Disk` replica
\* survives a restart" asks of the log.
SurvivesRestart == Idle /\ errors = 0 => Recovered = SsdTier

\* What a death would bring back of a key stays until a call on that key takes it: an
\* overwrite, which deletes the old file before the new one is committed, so that a
\* death in between leaves neither; a commit of newer bytes; or a drop, which put only
\* does when the SSD tier is over its budget.  Calls on other keys, their failures
\* and deaths take nothing.
DurableUntilTouched ==
    [][\A k \in Keys :
         Recovered[k] # None /\ Recovered'[k] # Recovered[k] =>
           \/ dram'[k] # None /\ dram'[k] # dram[k]
           \/ At("commit") /\ call.key = k
           \/ /\ At("tombstone") \/ At("unlink")
              /\ call.key = k /\ (call.op = "put" => ssd_bytes > SsdCap)
           \/ wal' = <<>>]_vars

\* The byte counters are the bytes in the tiers, until a write fails.
CountersExact ==
    errors = 0 =>
      /\ dram_bytes = MapThenSumSet(LAMBDA k : Size[dram[k]], {k \in Keys : dram[k] # None})
      /\ ssd_bytes = MapThenSumSet(LAMBDA k : Size[content(k)], {k \in Keys : InTier(k, "ssd")})

\* The state keeps its types, no counter falls below zero even when writes fail, and
\* until one does the counters are exact and a put that succeeds leaves both tiers
\* within their byte budgets.
WithinBudget ==
    /\ TypeOK /\ CountersExact
    /\ errors = 0 /\ Idle /\ call.code = "Stored" =>
         dram_bytes <= DramCap /\ ssd_bytes <= SsdCap

\* Every call returns: the loops of put end, also when a failed demotion left a
\* block in the DRAM tier that has no bytes.
CallsReturn == ~Idle ~> Idle
=============================================================================
