----------------------------- MODULE CloudTable -----------------------------
(***************************************************************************)
(* Devices of one account that meet in the backend's table                 *)
(* (crates/copypaste-cloud/src/sync/{driver,push,pull}.rs and the requests *)
(* of modules/supabase/src/host.rs).                                       *)
(*                                                                         *)
(* A round pushes what the device owes, pulls pages of rows past its       *)
(* watermark, and pushes once more when the pull met rows that its own     *)
(* versions beat.  The table keeps whichever version of an item arrived    *)
(* last.  A version is its stamp; what a device owes is the set `unsent`,  *)
(* which is what the upload floor of module UploadFloor keeps.             *)
(***************************************************************************)
EXTENDS Integers, FiniteSets, Sequences

CONSTANTS
    Devices,
    Items,          \* numbered in the order of their ids
    MaxStamp,       \* bounds the clock and every stamp
    MaxDrift,       \* how far ahead of the clock a device may stamp
    Skew,           \* MAX_FUTURE_SKEW_MS
    UploadBatch,    \* UPLOAD_BATCH
    PageLimit,      \* PULL_PAGE_LIMIT
    MaxPages        \* MAX_PAGES_PER_PULL

ASSUME CloudTableAssumption ==
    /\ Items \subseteq Nat \ {0} /\ IsFiniteSet(Items)
    /\ MaxStamp \in Nat \ {0} /\ MaxDrift \in Nat /\ Skew \in Nat
    /\ {UploadBatch, PageLimit, MaxPages} \subseteq Nat \ {0}

Stamps == 1..MaxStamp

VARIABLES
    now,        \* the wall clock
    table,      \* the backend's row per item; stamp 0: none
    held,       \* per device, the version of each item it holds
    unsent,     \* per device, the items it still owes the backend
    mark,       \* per device, the persisted download watermark
    round,      \* per device, the round under way
    \* History variables.
    offered,    \* per device, the furthest position it may have been brought to
    behind,     \* rows that arrived at or behind that position, per device
    refused,    \* rows that a device would not store, per device
    raised      \* versions that a device stored above the row they came with

outcomes == <<refused, raised>>
vars == <<now, table, held, unsent, mark, round, offered, behind, outcomes>>

(***************************************************************************)
(* Positions: the pair (created_at, item_id), compared in that order.      *)
(***************************************************************************)

Start == [at |-> 0, item |-> 0]
At(row, x) == [at |-> row.at, item |-> x]
After(p, q) == p.at > q.at \/ (p.at = q.at /\ p.item > q.item)
AdvancePast(cursor, p) == IF After(p, cursor) THEN p ELSE cursor

NoRow == [at |-> 0, readable |-> FALSE]

Positions(rows) == {At(rows[x], x) : x \in {y \in Items : rows[y].at > 0}}

\* The first n of a set of positions, in order.
FirstOf(P, n) == {p \in P : Cardinality({q \in P : After(p, q)}) < n}
LastOf(P, default) ==
    IF P = {} THEN default ELSE CHOOSE p \in P : \A q \in P \ {p} : After(p, q)
NextOf(P) == CHOOSE p \in P : \A q \in P \ {p} : After(q, p)

(***************************************************************************)
(* Rounds.                                                                 *)
(***************************************************************************)

Idle == [phase |-> "idle", send |-> {}, moved |-> FALSE, sent |-> {}, cursor |-> Start,
         advanced |-> Start, page |-> {}, declined |-> {}, full |-> FALSE,
         pages |-> 0, again |-> FALSE]

Init ==
    /\ now = 1
    /\ table = [x \in Items |-> NoRow]
    /\ held = [d \in Devices |-> [x \in Items |-> 0]]
    /\ unsent = [d \in Devices |-> {}]
    /\ mark = [d \in Devices |-> Start]
    /\ round = [d \in Devices |-> Idle]
    /\ offered = [d \in Devices |-> Start]
    /\ behind = {} /\ refused = {} /\ raised = {}

\* A version is stored on a device and noted for upload; a note moves the epoch
\* of a scan under way.
Note(d, x, at) ==
    /\ held' = [held EXCEPT ![d][x] = at]
    /\ unsent' = [unsent EXCEPT ![d] = @ \cup {x}]
    /\ round' = [round EXCEPT ![d].moved = TRUE]

Capture(d, x, at) ==
    /\ at \in now..(now + MaxDrift) /\ at <= MaxStamp
    /\ at > held[d][x]
    /\ Note(d, x, at)
    /\ UNCHANGED <<now, table, mark, offered, behind, outcomes>>

\* A direct session brings a version another device holds.
PeerDelivers(d, x, from) ==
    /\ held[from][x] > held[d][x]
    /\ Note(d, x, held[from][x])
    /\ UNCHANGED <<now, table, mark, offered, behind, outcomes>>

\* It raises the version by one to keep a choice made here, and notes that.
PeerRaises(d, x, from) ==
    /\ held[from][x] > held[d][x] /\ held[d][x] > 0
    /\ held[from][x] < MaxStamp
    /\ Note(d, x, held[from][x] + 1)
    /\ UNCHANGED <<now, table, mark, offered, behind, outcomes>>

\* The scan: the versions that are owed, with the stamps they have now.
Owed(d) == {[at |-> held[d][x], item |-> x] : x \in unsent[d]}

BeginRound(d) ==
    /\ round[d].phase = "idle"
    /\ round' = [round EXCEPT ![d] = [Idle EXCEPT !.phase = "pushing", !.send = Owed(d)]]
    /\ UNCHANGED <<now, table, held, unsent, mark, offered, behind, outcomes>>

\* Upserts win by arrival.
Upsert(rows, P, readable) ==
    [x \in Items |-> LET mine == {p \in P : p.item = x}
                     IN  IF mine = {} THEN rows[x]
                         ELSE [at |-> NextOf(mine).at, readable |-> readable]]

\* Rows that arrive where a device has already been are behind it.
Arrived(P) ==
    {e \in Devices \X Items :
        LET mine == {p \in P : p.item = e[2]}
        IN  IF mine = {} THEN e \in behind ELSE ~After(NextOf(mine), offered[e[1]])}

UploadRows(d) ==
    LET batch == FirstOf(round[d].send, UploadBatch)
    IN  /\ round[d].phase = "pushing"
        /\ round[d].send # {}
        /\ table' = Upsert(table, batch, TRUE)
        /\ behind' = Arrived(batch)
        /\ round' = [round EXCEPT ![d].send = @ \ batch, ![d].sent = @ \cup batch]
        /\ UNCHANGED <<now, held, unsent, mark, offered, outcomes>>

\* Mutant: the stamp of the watermark is not read.
PushDoneFromStart(d) ==
    /\ round[d].phase = "pushing" /\ round[d].send = {}
    /\ round' = [round EXCEPT ![d].phase = IF round[d].again THEN "committing" ELSE "pulling",
                              ![d].cursor = [at |-> 0, item |-> mark[d].item]]
    /\ UNCHANGED <<now, table, held, unsent, mark, offered, behind, outcomes>>

\* The first push is followed by the pull, the second by the commit.
PushDone(d) ==
    /\ round[d].phase = "pushing" /\ round[d].send = {}
    /\ round' = [round EXCEPT ![d].phase = IF round[d].again THEN "committing" ELSE "pulling",
                              ![d].cursor = mark[d]]
    /\ UNCHANGED <<now, table, held, unsent, mark, offered, behind, outcomes>>

\* Mutant: a refused row is followed wherever it is stamped.
FollowRefused(p) == TRUE

\* Mutant: a refused row is never followed.
StayBehindRefused(p) == FALSE

\* advance_after_refusal: never past the local clock.
RefusalAdvances(p) == p.at <= now

\* fetch_since and the classification of the page: what is from the future is
\* put off, what cannot be read is refused, the rest is the batch to apply.
FetchPage(d) ==
    LET cursor == round[d].cursor
        fetched == FirstOf({p \in Positions(table) : After(p, cursor)}, PageLimit)
        plausible == {p \in fetched : p.at <= now + Skew}
        batch == {p \in plausible : table[p.item].readable}
        skipped == {p \in plausible \ batch : RefusalAdvances(p)}
    IN  /\ round[d].phase = "pulling"
        /\ round' = [round EXCEPT ![d] = [@ EXCEPT
                        !.phase = "applying", !.page = batch, !.declined = {},
                        !.advanced = AdvancePast(cursor, LastOf(skipped \cup batch, cursor)),
                        !.full = Cardinality(fetched) = PageLimit,
                        !.pages = round[d].pages + 1]]
        /\ offered' = [offered EXCEPT ![d] =
                        AdvancePast(@, LastOf({p \in plausible : p \in batch \/ p.at <= now}, @))]
        /\ UNCHANGED <<now, table, held, unsent, mark, behind, outcomes>>

\* The host applies one row p at a request, and the device then holds version
\* at; the rows beside it may change meanwhile.
Apply(d, p, at) ==
    /\ round[d].phase = "applying" /\ p = NextOf(round[d].page)
    /\ held' = [held EXCEPT ![d][p.item] = at]
    /\ round' = [round EXCEPT ![d].page = @ \ {p},
                              ![d].declined = IF at > held[d][p.item] THEN @ ELSE @ \cup {p}]
    /\ UNCHANGED <<now, table, unsent, mark, offered, behind>>

\* The merge: a newer row is stored, another is declined.
ApplyRow(d) ==
    /\ round[d].page # {}
    /\ LET p == NextOf(round[d].page)
       IN  Apply(d, p, IF p.at > held[d][p.item] THEN p.at ELSE held[d][p.item])
    /\ UNCHANGED outcomes

\* A newer row that is not stored, and declined all the same: its payload is of
\* a shape that is never stored, or its content is here under another id.
RefuseRow(d) ==
    /\ round[d].page # {}
    /\ LET p == NextOf(round[d].page)
       IN  /\ p.at > held[d][p.item]
           /\ Apply(d, p, held[d][p.item])
           /\ refused' = refused \cup {<<d, p>>}
    /\ UNCHANGED raised

\* A newer row of content that is here too: a choice about its privacy is kept,
\* and the version raised by one for it.  Nothing notes it for upload.
RaiseRow(d) ==
    /\ round[d].page # {}
    /\ LET p == NextOf(round[d].page)
       IN  /\ p.at > held[d][p.item] /\ held[d][p.item] > 0
           /\ p.at < MaxStamp
           /\ Apply(d, p, p.at + 1)
           /\ raised' = raised \cup {<<d, p.item, p.at + 1>>}
    /\ UNCHANGED refused

\* Mutant: a decline is counted and nothing else.
NoWinners(d) == {}

\* requeue_local_winner: the local version that beat a row of the page.
LocalWinners(d) ==
    {x \in Items : \E p \in round[d].declined : p.item = x /\ held[d][x] > p.at}

\* The page ends: winners are queued again, the watermark is saved, and the
\* drain stops at a short page, without progress, or at its page limit.
FinishPage(d) ==
    LET winners == LocalWinners(d)
        progress == round[d].advanced # round[d].cursor
        more == round[d].full /\ progress /\ round[d].pages < MaxPages
        again == round[d].again \/ winners # {}
        owed == {[at |-> held[d][x], item |-> x] : x \in unsent[d] \cup winners}
    IN  /\ round[d].phase = "applying" /\ round[d].page = {}
        /\ unsent' = [unsent EXCEPT ![d] = @ \cup winners]
        /\ mark' = [mark EXCEPT ![d] = round[d].advanced]
        /\ round' = [round EXCEPT ![d] =
                        IF more
                        THEN [@ EXCEPT !.phase = "pulling", !.cursor = round[d].advanced,
                                       !.again = again,
                                       !.moved = round[d].moved \/ winners # {}]
                        ELSE IF again
                        THEN [@ EXCEPT !.phase = "pushing", !.again = TRUE, !.moved = FALSE,
                                       !.send = owed, !.sent = {}]
                        ELSE [@ EXCEPT !.phase = "committing"]]
        /\ UNCHANGED <<now, table, held, offered, behind, outcomes>>

\* commit: what was sent is no longer owed, unless something was noted since
\* the scan.
Settled(d) == IF round[d].moved THEN {} ELSE {p.item : p \in round[d].sent}

CommitRound(d) ==
    /\ round[d].phase = "committing"
    /\ unsent' = [unsent EXCEPT ![d] = @ \ Settled(d)]
    /\ round' = [round EXCEPT ![d] = Idle]
    /\ UNCHANGED <<now, table, held, mark, offered, behind, outcomes>>

\* An error, a cancelled worker or a crash: the round is gone, what it saved stays.
RoundFails(d) ==
    /\ round[d].phase # "idle"
    /\ round' = [round EXCEPT ![d] = Idle]
    /\ UNCHANGED <<now, table, held, unsent, mark, offered, behind, outcomes>>

\* Mutant: signing in owes every id, rows that are gone too.
SignInOwesAll(d) ==
    /\ round[d].phase = "idle"
    /\ unsent' = [unsent EXCEPT ![d] = Items]
    /\ UNCHANGED <<now, table, held, mark, round, offered, behind, outcomes>>

\* Signing in again to the same account: the floor starts over, the watermark stays.
SignInAgain(d) ==
    /\ round[d].phase = "idle"
    /\ unsent' = [unsent EXCEPT ![d] = {x \in Items : held[d][x] > 0}]
    /\ UNCHANGED <<now, table, held, mark, round, offered, behind, outcomes>>

\* A row that this account's devices cannot read, written under another
\* passphrase or larger than they take.
UnreadableRow(x, at) ==
    /\ table' = [table EXCEPT ![x] = [at |-> at, readable |-> FALSE]]
    /\ behind' = Arrived({[at |-> at, item |-> x]})
    /\ UNCHANGED <<now, held, unsent, mark, round, offered, outcomes>>

\* The backend's retention job.
Purge(x) ==
    /\ table[x].at > 0
    /\ table' = [table EXCEPT ![x] = NoRow]
    /\ UNCHANGED <<now, held, unsent, mark, round, offered, behind, outcomes>>

Tick ==
    /\ now < MaxStamp
    /\ now' = now + 1
    /\ UNCHANGED <<table, held, unsent, mark, round, offered, behind, outcomes>>

RoundStep(d) ==
    \/ BeginRound(d) \/ UploadRows(d) \/ PushDone(d)
    \/ FetchPage(d) \/ ApplyRow(d) \/ FinishPage(d) \/ CommitRound(d)

Disturbance ==
    \/ \E d \in Devices, x \in Items, at \in Stamps : Capture(d, x, at)
    \/ \E d, from \in Devices, x \in Items : PeerDelivers(d, x, from)
    \/ \E d \in Devices : RoundFails(d) \/ SignInAgain(d)
    \/ \E x \in Items : Purge(x) \/ \E at \in Stamps : UnreadableRow(x, at)

\* A newer version is not stored as it comes.
Exception(d) ==
    \/ RefuseRow(d) \/ RaiseRow(d)
    \/ \E x \in Items, from \in Devices : PeerRaises(d, x, from)

Next == (\E d \in Devices : RoundStep(d) \/ Exception(d)) \/ Disturbance \/ Tick

Spec == Init /\ [][Next]_vars

\* The worker arms another round after every one, and the clock goes on.  A step
\* of a round is possible in every state, so the second conjunct is the weak
\* fairness of RoundStep(d), written without ENABLED, which is costly on pages.
Fairness == WF_vars(Tick) /\ \A d \in Devices : []<><<RoundStep(d)>>_vars

(***************************************************************************)
(* Properties.                                                             *)
(***************************************************************************)

Place == [at : 0..MaxStamp, item : Items \cup {0}]

TypeOK ==
    /\ now \in Stamps
    /\ table \in [Items -> [at : 0..MaxStamp, readable : BOOLEAN]]
    /\ held \in [Devices -> [Items -> 0..MaxStamp]]
    /\ unsent \in [Devices -> SUBSET Items]
    /\ \A d \in Devices : \A x \in unsent[d] : held[d][x] > 0
    /\ mark \in [Devices -> Place] /\ offered \in [Devices -> Place]
    /\ behind \subseteq Devices \X Items
    /\ refused \subseteq Devices \X Place /\ raised \subseteq Devices \X Items \X Stamps
    /\ \A d \in Devices :
        /\ round[d].phase \in {"idle", "pushing", "pulling", "applying", "committing"}
        /\ round[d].send \subseteq Place /\ round[d].sent \subseteq Place
        /\ round[d].page \subseteq Place /\ round[d].declined \subseteq Place
        /\ round[d].pages \in 0..MaxPages

\* The watermark never passes a readable row that the device has not got, unless
\* the row arrived where the device had already been brought by rows it took, or
\* by rows no later than its clock (pull.rs, the cursor and the refusals), or the
\* device met that very row and would not store it (versions.rs, the dedup
\* index; merge.rs, payload_is_refused).
NoRowPassedBy ==
    \A d \in Devices, x \in Items :
        table[x].readable /\ ~After(At(table[x], x), mark[d])
            => \/ held[d][x] >= table[x].at
               \/ <<d, x>> \in behind
               \/ <<d, At(table[x], x)>> \in refused

\* The watermark never moves back, in a round or between rounds.
WatermarkMovesForward == [][\A d \in Devices : ~After(mark[d], mark'[d])]_vars

\* The table keeps what arrived last, so an older version may replace a newer
\* one: a device with the newer one owes it to the table, or will meet the older
\* one past its watermark, or the older one arrived behind it (driver.rs, the
\* second push).  The version that a merge raised on the device itself is owed
\* to nobody (versions.rs, the privacy choice; sync.rs Apply).
StaleRowIsRepublished ==
    \A d \in Devices, x \in Items :
        table[x].readable /\ table[x].at < held[d][x]
            => \/ x \in unsent[d]
               \/ After(At(table[x], x), mark[d])
               \/ <<d, x>> \in behind
               \/ <<d, x, held[d][x]>> \in raised

\* A device never stays without a readable row that is not behind it and that it
\* did not refuse: no page of rows from the future or of unreadable or refused
\* ones holds the drain up for ever.
ReadableRowsArrive ==
    \A d \in Devices, x \in Items :
        []<>(table[x].readable => \/ held[d][x] >= table[x].at
                                  \/ <<d, x>> \in behind
                                  \/ <<d, At(table[x], x)>> \in refused)
=============================================================================
