---------------------------- MODULE HistoryMerge ----------------------------
(***************************************************************************)
(* The history of one device while pages of remote versions are merged     *)
(* into it beside local writers (crates/copypaste-core/src/sync/batch.rs,  *)
(* merge.rs, prepare.rs and the storage modules they write through).       *)
(*                                                                         *)
(* A page is decided from a snapshot that is read outside the transaction, *)
(* written if the rows are still the same, and then finished by writes of  *)
(* their own: pin states that travel without content, and the versions     *)
(* that had lost to one the dedup index refused.                           *)
(***************************************************************************)
EXTENDS VersionOrder, Sequences, FiniteSets

CONSTANTS
    Ids,            \* item ids, numbered in the order of their strings
    LocalIds,       \* the ids that this device's captures are given
    Hashes,         \* content hashes, numbered likewise; 0 is the empty hash
    MaxStamp,       \* i64::MAX: stamps saturate here
    BucketMs,       \* the width of a bucket of the dedup index
    Here,           \* this device's id; the stored origin 0 also means it
    Mergers,        \* the transports that may merge at the same time
    Pages,          \* per transport, the pages it may bring
    HistoryLimit,   \* the cap of the history, in rows
    Quota,          \* the cap of the unpinned rows, in bytes; a row is one byte
    RetentionMs,    \* the age at which unpinned rows go; 0: never
    Faults          \* the failures that may happen

Stamps == 1..MaxStamp

\* A version as a transport brings it; stamp 0 stands for none, and so does
\* choice 0.
Offers == [id : Ids, at : Stamps, hash : Hashes \cup {0}, deleted : BOOLEAN, origin : Nat,
           pinned : BOOLEAN, pinAt : 0..MaxStamp, choice : 0..MaxStamp]

ASSUME HistoryMergeAssumption ==
    /\ Ids \subseteq Nat \ {0} /\ IsFiniteSet(Ids) /\ LocalIds \subseteq Ids
    /\ Hashes \subseteq Nat \ {0}
    /\ MaxStamp \in Nat \ {0} /\ BucketMs \in Nat \ {0} /\ Here \in Nat \ {0}
    /\ \A m \in Mergers : \A page \in Pages[m] : page \in Seq(Offers)
    /\ HistoryLimit \in Nat /\ Quota \in Nat /\ RetentionMs \in Nat
    /\ Faults \subseteq {"pin fails", "redo fails"}

SnapshotAttempts == 2

VARIABLES
    now,        \* the wall clock
    rows,       \* clipboard_items; rowid 0: no row
    pinRecord,  \* history_pin_state; stamp 0: no record
    merger,     \* per transport, the merge it is in
    sweepDue,   \* a write has asked for the retention sweep
    ceiling,    \* the rowid a pending clear was bounded by, -1: none
    \* History variable.
    owed        \* per peer merge, items it stored and has not reported to the hook

vars == <<now, rows, pinRecord, merger, sweepDue, ceiling, owed>>

(***************************************************************************)
(* Rows.                                                                   *)
(***************************************************************************)

NoRow == [rowid |-> 0, at |-> 0, hash |-> 0, deleted |-> FALSE, origin |-> 0,
          pinned |-> FALSE, pinAt |-> 0, choice |-> 0]

Present(rs, id) == rs[id].rowid > 0
Live(rs, id) == Present(rs, id) /\ ~rs[id].deleted
Unpinned(rs) == {id \in Ids : Live(rs, id) /\ ~rs[id].pinned}

OriginOr(origin) == IF origin = 0 THEN Here ELSE origin

Lesser(a, b) == IF a < b THEN a ELSE b
Greater(a, b) == IF a > b THEN a ELSE b
SaturatingNext(at) == Lesser(at + 1, MaxStamp)
Highest(S) == CHOOSE x \in S : \A y \in S : y <= x
Lowest(S) == CHOOSE x \in S : \A y \in S : x <= y

\* Ordered by created_at, then id: the sweeps and the probe of a capture.
Older(rs, a, b) == rs[a].at < rs[b].at \/ (rs[a].at = rs[b].at /\ a < b)
NewestOf(rs, S) == CHOOSE id \in S : \A other \in S \ {id} : Older(rs, other, id)

MaxRowid(rs) == Highest({0} \cup {rs[id].rowid : id \in Ids})

\* The partial unique index on (content_hash, content_type, created_at / 60000,
\* origin); a hash stands for the content and its type.
Collides(rs, id, row) ==
    /\ ~row.deleted /\ row.hash # 0
    /\ \E other \in Ids \ {id} :
        /\ Live(rs, other)
        /\ rs[other].hash = row.hash
        /\ rs[other].origin = row.origin
        /\ rs[other].at \div BucketMs = row.at \div BucketMs

\* What the comparator reads of a row (storage Version, stored_summary).
VersionOf(row) ==
    [at |-> row.at, hash |-> row.hash, deleted |-> row.deleted,
     origin |-> IF row.rowid = 0 THEN 0 ELSE OriginOr(row.origin),
     pinned |-> row.pinned, pinAt |-> row.pinAt]
Summaries(rs) == [id \in Ids |-> VersionOf(rs[id])]
Held(version) == version.at > 0

(***************************************************************************)
(* One incoming version.  Pin states and the hash of a tombstone travel    *)
(* between peers only (p2p), the cloud carries neither.                    *)
(***************************************************************************)

\* A live version's hash is computed from its content; a tombstone without a
\* hash takes the one it deletes.
RemoteHash(inc, local, p2p) == IF inc.deleted /\ ~p2p THEN local.hash ELSE inc.hash

Remote(inc, local, p2p) ==
    [at |-> inc.at, hash |-> RemoteHash(inc, local, p2p), deleted |-> inc.deleted,
     origin |-> inc.origin, pinned |-> inc.pinned, pinAt |-> inc.pinAt]

Takes(local, inc, p2p) == ~Held(local) \/ Newer(Remote(inc, local, p2p), local)

RemotePinWins(local, inc, p2p) ==
    p2p /\ ~inc.deleted /\ (~Held(local) \/ PinNewer(Remote(inc, local, p2p), local))

\* The row prepare_remote_version plans for a version that won.
Prepared(local, inc, p2p) ==
    LET pin == IF inc.deleted THEN [pinned |-> FALSE, pinAt |-> 0]
               ELSE IF RemotePinWins(local, inc, p2p)
                    THEN [pinned |-> inc.pinned, pinAt |-> inc.pinAt]
                    ELSE [pinned |-> local.pinned, pinAt |-> local.pinAt]
    IN  [at |-> inc.at, hash |-> RemoteHash(inc, local, p2p), deleted |-> inc.deleted,
         origin |-> inc.origin, pinned |-> pin.pinned, pinAt |-> pin.pinAt,
         choice |-> IF inc.deleted THEN 0 ELSE inc.choice]

PreparedVersion(w) ==
    [at |-> w.at, hash |-> w.hash, deleted |-> w.deleted, origin |-> OriginOr(w.origin),
     pinned |-> w.pinned, pinAt |-> w.pinAt]

\* A record of the pin at least as new as the row's own state is projected on it.
Projected(row, record) ==
    IF ~row.deleted /\ record.stamp > 0 /\ record.stamp >= row.pinAt
    THEN [row EXCEPT !.pinned = record.pinned, !.pinAt = record.stamp]
    ELSE row

\* The row an upsert leaves: an explicit privacy choice kept from the same
\* content stamps the merged row one later.
Upserted(rs, id, w) ==
    LET previous == IF rs[id].hash = w.hash THEN rs[id].choice ELSE 0
        choice == IF w.deleted THEN 0 ELSE Greater(w.choice, previous)
        row == [rowid |-> IF Present(rs, id) THEN rs[id].rowid ELSE MaxRowid(rs) + 1,
                at |-> IF choice # w.choice THEN SaturatingNext(w.at) ELSE w.at,
                hash |-> w.hash, deleted |-> w.deleted, origin |-> w.origin,
                pinned |-> w.pinned, pinAt |-> w.pinAt, choice |-> choice]
    IN  Projected(row, pinRecord[id])

\* Mutant: the index is not consulted.
UpsertNeverRefused(rs, id, w) == FALSE

UpsertRefused(rs, id, w) == Collides(rs, id, Upserted(rs, id, w))

Upsert(rs, id, w) ==
    IF UpsertRefused(rs, id, w) THEN rs ELSE [rs EXCEPT ![id] = Upserted(rs, id, w)]

(***************************************************************************)
(* A page: prepare threads each id's own decisions forward, merge_page     *)
(* writes the winners in order, each in a savepoint of its own.            *)
(***************************************************************************)

\* The versions `prepare` compares item k + 1 with.
Simulated(local, page, p2p) ==
    LET sim[k \in 0..Len(page)] ==
            IF k = 0 THEN local
            ELSE LET inc == page[k] before == sim[k - 1]
                 IN  IF Takes(before[inc.id], inc, p2p)
                     THEN [before EXCEPT ![inc.id] =
                             PreparedVersion(Prepared(before[inc.id], inc, p2p))]
                     ELSE before
    IN  sim

\* The items of the page that get a slot, and those that bring a pin only.
Slots(local, page, p2p) ==
    {k \in 1..Len(page) : Takes(Simulated(local, page, p2p)[k - 1][page[k].id], page[k], p2p)}
PinOnly(local, page, p2p) ==
    {k \in (1..Len(page)) \ Slots(local, page, p2p) :
        RemotePinWins(Simulated(local, page, p2p)[k - 1][page[k].id], page[k], p2p)}

\* The rows after each of the page's writes.
Written(rs, local, page, p2p) ==
    LET sim == Simulated(local, page, p2p)
        slots == Slots(local, page, p2p)
        after[k \in 0..Len(page)] ==
            IF k = 0 THEN rs
            ELSE IF k \in slots
                 THEN Upsert(after[k - 1], page[k].id, Prepared(sim[k - 1][page[k].id], page[k], p2p))
                 ELSE after[k - 1]
    IN  after

RefusedSlots(rs, local, page, p2p) ==
    LET sim == Simulated(local, page, p2p)
        after == Written(rs, local, page, p2p)
    IN  {k \in Slots(local, page, p2p) :
            UpsertRefused(after[k - 1], page[k].id, Prepared(sim[k - 1][page[k].id], page[k], p2p))}

\* What redo_after_refusals applies again, in the order of the page: versions
\* that were not stored and follow a refused one of their own id.
ToRedo(page, refused, applied) ==
    {k \in (1..Len(page)) \ applied :
        \E first \in refused : page[first].id = page[k].id /\ first < k}

(***************************************************************************)
(* A merge, step by step.                                                  *)
(***************************************************************************)

NoMerge == [phase |-> "idle", page |-> <<>>, snapshot |-> Summaries([id \in Ids |-> NoRow]),
            attempts |-> 0, content |-> {}, pins |-> {}, redo |-> {}, read |-> 0]

Init ==
    /\ now = 1
    /\ rows = [id \in Ids |-> NoRow]
    /\ pinRecord = [id \in Ids |-> [pinned |-> FALSE, stamp |-> 0]]
    /\ merger = [m \in Mergers |-> NoMerge]
    /\ sweepDue = FALSE /\ ceiling = -1
    /\ owed = {}

IsP2p(m) == m # "cloud"

\* The version a peer's merge stores is its to report, and no longer that of a
\* merge whose version it replaced.  The cloud merges through a view of the
\* history without the hook (without_version_hook): it owes nothing.
Owing(m, ids) ==
    {debt \in owed : debt[2] \notin ids} \cup ({m} \X {id \in ids : IsP2p(m)})

\* Failing with an error returns before the hook is called.
FailWith(m) ==
    /\ owed' = {debt \in owed : debt[1] # m}
    /\ merger' = [merger EXCEPT ![m] = NoMerge]

ReadSnapshot(m, page) ==
    /\ merger[m].phase = "idle"
    /\ merger' = [merger EXCEPT ![m] =
                    [NoMerge EXCEPT !.phase = "prepared", !.page = page,
                                    !.snapshot = Summaries(rows)]]
    /\ UNCHANGED <<now, rows, pinRecord, sweepDue, ceiling, owed>>

\* Mutant: only whether the row exists is compared.
SnapshotRowsExist(m) ==
    \A k \in 1..Len(merger[m].page) :
        LET id == merger[m].page[k].id IN Held(merger[m].snapshot[id]) = Present(rows, id)

\* The rows of the page's ids are compared with the snapshot under the write lock.
SnapshotHolds(m) ==
    \A k \in 1..Len(merger[m].page) :
        LET id == merger[m].page[k].id IN merger[m].snapshot[id] = VersionOf(rows[id])

MergePage(m) ==
    LET page == merger[m].page
        local == merger[m].snapshot
        refused == RefusedSlots(rows, local, page, IsP2p(m))
        stored == Slots(local, page, IsP2p(m)) \ refused
        rs == Written(rows, local, page, IsP2p(m))[Len(page)]
    IN  /\ merger[m].phase = "prepared"
        /\ SnapshotHolds(m)
        /\ rows' = rs
        /\ owed' = Owing(m, {page[k].id : k \in stored})
        /\ merger' = [merger EXCEPT ![m].phase = "finishing", ![m].content = stored,
                                    ![m].pins = PinOnly(local, page, IsP2p(m)),
                                    ![m].redo = ToRedo(page, refused, stored)]
        /\ UNCHANGED <<now, pinRecord, sweepDue, ceiling>>

\* SnapshotChanged: the page is prepared once more from what the transaction
\* read; a second time the page is given up with HistoryBusy.
SnapshotMoved(m) ==
    /\ merger[m].phase = "prepared"
    /\ ~SnapshotHolds(m)
    /\ merger' = [merger EXCEPT ![m] =
                    IF merger[m].attempts + 1 < SnapshotAttempts
                    THEN [@ EXCEPT !.attempts = merger[m].attempts + 1,
                                   !.snapshot = Summaries(rows)]
                    ELSE NoMerge]
    /\ UNCHANGED <<now, rows, pinRecord, sweepDue, ceiling, owed>>

\* Mutant: the record of the pin is not consulted.
PinAcceptedByRow(inc) == Live(rows, inc.id)

\* apply_pin_state: a transaction of its own, refused by a record of the pin
\* that is as new, and otherwise unconditional on a live row.
PinAccepted(inc) ==
    /\ pinRecord[inc.id].stamp = 0 \/ pinRecord[inc.id].stamp < inc.pinAt
    /\ Live(rows, inc.id)
PinApplied(inc) ==
    IF PinAccepted(inc)
    THEN [rows EXCEPT ![inc.id] = [@ EXCEPT !.pinned = inc.pinned, !.pinAt = inc.pinAt]]
    ELSE rows

ApplyPinState(m) ==
    /\ merger[m].phase = "finishing"
    /\ merger[m].pins # {}
    /\ LET k == Lowest(merger[m].pins) IN
        /\ rows' = PinApplied(merger[m].page[k])
        /\ merger' = [merger EXCEPT ![m].pins = @ \ {k},
                        ![m].redo = IF PinAccepted(merger[m].page[k]) THEN @ \ {k} ELSE @]
    /\ UNCHANGED <<now, pinRecord, sweepDue, ceiling, owed>>

PinStateFails(m) ==
    /\ "pin fails" \in Faults
    /\ merger[m].phase = "finishing"
    /\ merger[m].pins # {}
    /\ FailWith(m)
    /\ UNCHANGED <<now, rows, pinRecord, sweepDue, ceiling>>

\* redo_after_refusals reads the row by itself...
RedoRead(m) ==
    /\ merger[m].phase = "finishing"
    /\ merger[m].pins = {} /\ merger[m].redo # {}
    /\ LET k == Lowest(merger[m].redo) IN
        merger' = [merger EXCEPT ![m].phase = "redoing", ![m].read = k,
                    ![m].snapshot[merger[m].page[k].id] = VersionOf(rows[merger[m].page[k].id])]
    /\ UNCHANGED <<now, rows, pinRecord, sweepDue, ceiling, owed>>

\* ...and writes the version it decided for, whatever the row is by then; a
\* pin that won without its content follows.
RedoWrite(m) ==
    LET k == merger[m].read
        inc == merger[m].page[k]
        local == merger[m].snapshot[inc.id]
        takes == Takes(local, inc, IsP2p(m))
        w == Prepared(local, inc, IsP2p(m))
        stored == takes /\ ~UpsertRefused(rows, inc.id, w)
        rs == IF stored THEN Upsert(rows, inc.id, w)
              ELSE IF RemotePinWins(local, inc, IsP2p(m)) THEN PinApplied(inc) ELSE rows
    IN  /\ merger[m].phase = "redoing"
        /\ rows' = rs
        /\ owed' = Owing(m, IF stored THEN {inc.id} ELSE {})
        /\ merger' = [merger EXCEPT ![m].phase = "finishing", ![m].redo = @ \ {k},
                                    ![m].content = IF stored THEN @ \cup {k} ELSE @]
        /\ UNCHANGED <<now, pinRecord, sweepDue, ceiling>>

RedoFails(m) ==
    /\ "redo fails" \in Faults
    /\ merger[m].phase = "redoing"
    /\ FailWith(m)
    /\ UNCHANGED <<now, rows, pinRecord, sweepDue, ceiling>>

\* Mutant: the newest stamp is reported.
FloorNewest(m) == Highest({merger[m].page[k].at : k \in merger[m].content})

\* The end of apply_versions and apply_batch: the hook, where there is one, gets
\* the oldest stamp of the page that was stored, and covers every row from there on.
Floor(m) == Lowest({merger[m].page[k].at : k \in merger[m].content})

Report(m) ==
    /\ merger[m].phase = "finishing"
    /\ merger[m].pins = {} /\ merger[m].redo = {}
    /\ owed' = {debt \in owed :
                    IsP2p(m) /\ merger[m].content # {} => rows[debt[2]].at < Floor(m)}
    /\ sweepDue' = (sweepDue \/ merger[m].content # {})
    /\ merger' = [merger EXCEPT ![m] = NoMerge]
    /\ UNCHANGED <<now, rows, pinRecord, ceiling>>

(***************************************************************************)
(* Local writers, each one transaction.                                    *)
(***************************************************************************)

Write(rs) ==
    /\ rows' = rs
    /\ UNCHANGED <<now, merger, ceiling, owed>>

\* insert_or_bump: a live row with the content is stamped anew, forward only
\* and unless the index refuses the new stamp; otherwise a row is inserted.
Capture(id, hash) ==
    LET holders == {other \in Ids : Live(rows, other) /\ rows[other].hash = hash}
        survivor == NewestOf(rows, holders)
        bumped == [rows[survivor] EXCEPT !.at = now]
    IN  /\ ~Present(rows, id)
        /\ Write(IF holders = {}
                 THEN [rows EXCEPT ![id] = [NoRow EXCEPT !.rowid = MaxRowid(rows) + 1,
                                                         !.at = now, !.hash = hash]]
                 ELSE IF now > rows[survivor].at /\ ~Collides(rows, survivor, bumped)
                      THEN [rows EXCEPT ![survivor] = bumped]
                      ELSE rows)
        /\ sweepDue' = TRUE
        /\ UNCHANGED pinRecord

\* promote_copied, after an item is put on the clipboard.
PromoteCopied(id) ==
    LET latest == {SaturatingNext(rows[other].at) : other \in Unpinned(rows)}
        promoted == [rows[id] EXCEPT
                        !.at = Highest({now, SaturatingNext(rows[id].at)} \cup latest)]
    IN  /\ Live(rows, id)
        /\ ~Collides(rows, id, promoted)
        /\ Write([rows EXCEPT ![id] = promoted])
        /\ UNCHANGED <<pinRecord, sweepDue>>

\* The tombstone of a row keeps its hash and is stamped later than the row.
Tombstone(row) ==
    [row EXCEPT !.deleted = TRUE, !.pinned = FALSE, !.choice = 0,
                !.at = Highest({SaturatingNext(row.at), Lesser(now, MaxStamp)})]

Delete(id) ==
    /\ Live(rows, id)
    /\ Write([rows EXCEPT ![id] = Tombstone(rows[id])])
    /\ UNCHANGED <<pinRecord, sweepDue>>

\* The user presses clear: the ceiling is read now, the clear follows when the
\* undo window has passed.
PressClear ==
    /\ ceiling = -1
    /\ ceiling' = MaxRowid(rows)
    /\ UNCHANGED <<now, rows, pinRecord, merger, sweepDue, owed>>

Cleared(rs, through) ==
    [id \in Ids |-> IF id \in Unpinned(rs) /\ rs[id].rowid <= through
                    THEN Tombstone(rs[id]) ELSE rs[id]]

DeleteAllThrough ==
    /\ ceiling >= 0
    /\ rows' = Cleared(rows, ceiling)
    /\ ceiling' = -1
    /\ UNCHANGED <<now, pinRecord, merger, sweepDue, owed>>

\* set_pinned_synced: the row's own pin state, then the replicated record of
\* it, which is written again unless it says the same already.
SetPinned(id, pinned, rewrite) ==
    LET row == IF pinned /\ rows[id].pinned THEN rows[id]
               ELSE [rows[id] EXCEPT !.pinned = pinned,
                                     !.pinAt = Greater(SaturatingNext(@), now)]
        old == pinRecord[id]
        stamp == Greater(row.pinAt,
                         IF old.stamp = 0 THEN now ELSE Greater(SaturatingNext(old.stamp), now))
        record == IF rewrite THEN [pinned |-> pinned, stamp |-> stamp] ELSE old
    IN  /\ Live(rows, id)
        /\ old.stamp = 0 \/ old.pinned # pinned => rewrite
        /\ pinRecord' = [pinRecord EXCEPT ![id] = record]
        /\ Write([rows EXCEPT ![id] = IF rewrite THEN Projected(row, record) ELSE row])
        /\ UNCHANGED sweepDue

\* A record of a pin arrives from a peer and beats the one held.
MergePinRecord(id, record) ==
    /\ record.stamp > pinRecord[id].stamp
    /\ pinRecord' = [pinRecord EXCEPT ![id] = record]
    /\ Write([rows EXCEPT ![id] = IF Present(rows, id) THEN Projected(@, record) ELSE @])
    /\ UNCHANGED sweepDue

\* set_secret: an explicit privacy choice, with a stamp of its own.
SetSecret(id) ==
    LET stamp == Highest({Lesser(now, MaxStamp), SaturatingNext(rows[id].at),
                          SaturatingNext(rows[id].choice)})
        row == [rows[id] EXCEPT !.at = stamp, !.choice = stamp]
    IN  /\ Live(rows, id)
        /\ ~Collides(rows, id, row)
        /\ Write([rows EXCEPT ![id] = row])
        /\ UNCHANGED <<pinRecord, sweepDue>>

\* The three sweeps of enforce_retention, hard deletes in this order: the
\* oldest rows over the cap, the oldest over the quota, and those past the age.
\* The first two spare the newest unpinned row, none takes a pinned one.
Oldest(rs, excess) ==
    LET candidates == Unpinned(rs) \ (IF Unpinned(rs) = {} THEN {} ELSE {NewestOf(rs, Unpinned(rs))})
    IN  {id \in candidates : Cardinality({other \in candidates : Older(rs, other, id)}) < excess}
Without(rs, victims) == [id \in Ids |-> IF id \in victims THEN NoRow ELSE rs[id]]
OverCap(rs) == Cardinality({id \in Ids : Live(rs, id)}) - HistoryLimit
OverQuota(rs) == Cardinality(Unpinned(rs)) - Quota
Expired(rs) == {id \in Unpinned(rs) : RetentionMs > 0 /\ rs[id].at < now - RetentionMs}

EnforceRetention ==
    LET capped == Without(rows, Oldest(rows, OverCap(rows)))
        weighed == Without(capped, Oldest(capped, OverQuota(capped)))
    IN  /\ sweepDue
        /\ sweepDue' = FALSE
        /\ rows' = Without(weighed, Expired(weighed))
        /\ owed' = {debt \in owed : Present(rows', debt[2])}
        /\ UNCHANGED <<now, pinRecord, merger, ceiling>>

Tick ==
    /\ now < MaxStamp
    /\ now' = now + 1
    /\ UNCHANGED <<rows, pinRecord, merger, sweepDue, ceiling, owed>>

Merging(m) ==
    \/ \E page \in Pages[m] : ReadSnapshot(m, page)
    \/ MergePage(m) \/ SnapshotMoved(m)
    \/ ApplyPinState(m) \/ PinStateFails(m)
    \/ RedoRead(m) \/ RedoWrite(m) \/ RedoFails(m)
    \/ Report(m)

LocalWrites ==
    \/ \E id \in LocalIds, hash \in Hashes : Capture(id, hash)
    \/ \E id \in Ids : PromoteCopied(id) \/ Delete(id) \/ SetSecret(id)
    \/ \E id \in Ids, pinned, rewrite \in BOOLEAN : SetPinned(id, pinned, rewrite)
    \/ \E id \in Ids, pinned \in BOOLEAN, stamp \in Stamps :
            MergePinRecord(id, [pinned |-> pinned, stamp |-> stamp])

Next ==
    \/ \E m \in Mergers : Merging(m)
    \/ LocalWrites
    \/ PressClear \/ DeleteAllThrough \/ EnforceRetention \/ Tick

Spec == Init /\ [][Next]_vars

(***************************************************************************)
(* Properties.                                                             *)
(***************************************************************************)

Rows == [rowid : Nat, at : 0..MaxStamp, hash : Hashes \cup {0}, deleted : BOOLEAN,
         origin : Nat, pinned : BOOLEAN, pinAt : 0..MaxStamp, choice : 0..MaxStamp]

\* Types; the uniqueness of the dedup index and of rowids, which every writer
\* has to keep, is part of what the table is.
TypeOK ==
    /\ now \in Stamps
    /\ rows \in [Ids -> Rows]
    /\ \A id \in Ids : Present(rows, id) =>
        /\ rows[id].at > 0
        /\ ~Collides(rows, id, rows[id])
        /\ \A other \in Ids \ {id} : rows[other].rowid # rows[id].rowid
    /\ pinRecord \in [Ids -> [pinned : BOOLEAN, stamp : 0..MaxStamp]]
    /\ sweepDue \in BOOLEAN /\ ceiling \in Nat \cup {-1}
    /\ owed \subseteq Mergers \X Ids

\* The items whose pending single-row write was decided from a row that has
\* changed since: redo_after_refusals reads and writes in two transactions.
Exposed ==
    {id \in Ids : \E m \in Mergers :
        /\ merger[m].phase = "redoing"
        /\ merger[m].page[merger[m].read].id = id
        /\ merger[m].snapshot[id] # VersionOf(rows[id])}

\* The history implements the last-writer-wins register of every item: no
\* interleaving of pages, retries, captures, deletes, clears and sweeps takes
\* an item back to an older version or forgets a deletion.
Register == INSTANCE LastWriterWins WITH
    version <- [id \in Ids |->
        [at |-> rows[id].at, hash |-> rows[id].hash, deleted |-> rows[id].deleted,
         origin |-> VersionOf(rows[id]).origin]],
    exposed <- Exposed
ImplementsLastWriterWins == Register!Spec

\* What the head of batch.rs says of a page, and the redo does not keep: the
\* decision and the write see the same history, for every item.
Unexposed == INSTANCE LastWriterWins WITH
    version <- [id \in Ids |->
        [at |-> rows[id].at, hash |-> rows[id].hash, deleted |-> rows[id].deleted,
         origin |-> VersionOf(rows[id]).origin]],
    exposed <- {}
DecisionAndWriteSeeSameHistory == Unexposed!Spec

\* Every version that a page of a peer stores is reported to the version hook when
\* the page ends, so that the upload floor can be lowered for it: whatever was
\* merged, redone or written beside it since, the stamp reported is not newer
\* than the row.  A page that ends with an error after its transaction reports
\* nothing, and is left out (FailWith).
StoredIsReported ==
    \A debt \in owed :
        \E k \in merger[debt[1]].content : merger[debt[1]].page[k].id = debt[2]

\* The items with a pin decided from a row that has changed since, and a pin on
\* the row that no record stands for: unpinning what a record says is unpinned
\* stamps the row and not the record.
PinExposed ==
    {id \in Ids :
        /\ pinRecord[id].stamp < rows[id].pinAt
        /\ \E m \in Mergers : \E k \in merger[m].pins :
            merger[m].page[k].id = id /\ merger[m].snapshot[id] # VersionOf(rows[id])}

\* The items that a page under way deletes: one that the same page brings back
\* starts over without a pin.
Restarted ==
    {id \in Ids : \E m \in Mergers : \E k \in 1..Len(merger[m].page) :
        merger[m].page[k].id = id /\ merger[m].page[k].deleted}

\* The pin state of a live item never moves back, except there: a pin decided
\* from a snapshot and written later on its own is stopped by the record of a
\* newer one.
PinsMoveForward ==
    [][\A id \in Ids \ (Exposed \cup PinExposed \cup Restarted) :
        Live(rows, id) /\ ~rows'[id].deleted /\ rows'[id].rowid > 0
            => rows'[id].pinAt >= rows[id].pinAt]_vars
=============================================================================
