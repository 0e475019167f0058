----------------------------- MODULE UploadFloor -----------------------------
(***************************************************************************)
(* How one device decides which rows of its history a cloud round uploads. *)
(*                                                                         *)
(* The host (crates/copypaste-modules/src/sync.rs) keeps an upload floor,  *)
(* a keyset position in the history: rows after it are offered by the next *)
(* scan.  The scan (crates/copypaste-sync/src/store.rs) reads one page of  *)
(* rows, skips the ones that do not open under the device's key, and       *)
(* remembers them in a bounded list of ids and, past that bound, in a      *)
(* sweep that walks the region behind the floor again, one page a round    *)
(* (crates/copypaste-sync/src/unreadable.rs).  The Supabase module         *)
(* (modules/supabase/src/lib.rs) drives the round: read the floor, scan,   *)
(* upload, pull, maybe push again, commit the floor.  Meanwhile captures   *)
(* and peer sessions write rows whose stamps may be older than the floor,  *)
(* and tell the host afterwards (note_version).                            *)
(***************************************************************************)
EXTENDS Integers, FiniteSets

CONSTANTS
    N,          \* row ids are 1..N, in the order of their strings
    MaxMs,      \* stamps and clock readings are 0..MaxMs
    Limit,      \* UPLOAD_SCAN_LIMIT, the rows of one page
    MaxTracked, \* MAX_UNREADABLE_TRACKED, the bound of the id list
    Size,       \* bytes of each row's content
    MaxBytes,   \* what one scan may hand to the provider
    Faults      \* which of FaultKinds can happen

Rows == 1..N

\* A request fails, the process stops, the record is damaged, the user signs
\* out, a pulled row is stored with a privacy choice merged into it.
FaultKinds == {"fail", "crash", "corrupt", "signout", "override"}

ASSUME UploadFloorAssumption ==
    /\ N \in Nat
    /\ MaxMs \in Nat
    /\ Limit \in Nat \ {0}
    /\ MaxTracked \in Nat
    /\ Size \in [1..N -> Nat]
    /\ MaxBytes \in Nat
    /\ Faults \subseteq FaultKinds

VARIABLES
    stamp,      \* created_at of each row's current version
    present,    \* rows that are in the store
    readable,   \* rows that open under the device's key
    floor,      \* the persisted upload floor
    unreadable, \* the persisted record of unreadable uploads
    moved,      \* the epoch has moved since the last scan
    offer,      \* what the last scan was shown
    pending,    \* <<row, stamp>> written to the store, note_version still due
    signedIn,   \* an account is present
    phase,      \* where the round stands
    since,      \* the floor as the round has read it
    startedMs,  \* the clock when the round began
    republish,  \* the pull asked for a second push
    inflight,   \* rows whose current version the scan offered, not yet sent
    uploaded,   \* rows whose current version the backend accepted from here
    forfeited   \* history: rows that a fault took out of every list

storeVars == <<stamp, present, readable>>
hostVars == <<floor, unreadable, moved, offer, pending, signedIn>>
roundVars == <<phase, since, startedMs, republish, inflight>>
historyVars == <<uploaded, forfeited>>
vars == <<storeVars, hostVars, roundVars, historyVars>>

-----------------------------------------------------------------------------
(* Keyset positions.  A position is <<ms, id>>; id 0 stands for an absent  *)
(* or empty item id, which sorts before every real one.                    *)

Positions == (0..MaxMs) \X (0..N)
Origin == <<0, 0>>

Before(a, b) == a[1] < b[1] \/ (a[1] = b[1] /\ a[2] < b[2])
NotAfter(a, b) == ~Before(b, a)
Later(a, b) == IF Before(a, b) THEN b ELSE a

KeysetOf(i) == <<stamp[i], i>>

\* The rows that follow a position, and the first n rows of a set.
RowsAfter(p) == {i \in present : Before(p, KeysetOf(i))}
FirstOf(S, n) ==
    {i \in S : Cardinality({j \in S : Before(KeysetOf(j), KeysetOf(i))}) < n}
VersionsAfter(p) == FirstOf(RowsAfter(p), Limit)

\* The position of the last row of S, or p when S has none.
LastOf(S, p) ==
    IF S = {} THEN p
    ELSE KeysetOf(CHOOSE i \in S :
                    \A j \in S : NotAfter(KeysetOf(j), KeysetOf(i)))

\* The content of the rows in S, in bytes.
Bytes(S) ==
    LET upTo[i \in 0..N] == IF i = 0 THEN 0
                            ELSE upTo[i - 1] + (IF i \in S THEN Size[i] ELSE 0)
    IN  upTo[N]

-----------------------------------------------------------------------------
(* The record of unreadable uploads.                                       *)

NoSweep == [on |-> FALSE, from |-> Origin, next |-> Origin,
            seen |-> 0, settled |-> 0]
Sweeps == [on : BOOLEAN, from : Positions, next : Positions,
           seen : Nat, settled : Nat]
EmptyRecord == [ids |-> {}, sweep |-> NoSweep, malformed |-> FALSE]
Records == [ids : SUBSET Rows, sweep : Sweeps, malformed : BOOLEAN]

\* Mutant: the bound is tested after the insertion.
TrackedOneTooMany(S, n) == FirstOf(S, MaxTracked - n + 1)

\* Of the rows in S, found unreadable in order, those the id list, which
\* already holds n ids, still has room for.
Tracked(S, n) == FirstOf(S, MaxTracked - n)

\* Mutant: a sweep under way is never pulled further back.
SweepFromFirst(sweep, behind) ==
    IF sweep.on THEN sweep
    ELSE [on |-> TRUE, from |-> behind, next |-> behind,
          seen |-> 0, settled |-> 0]

\* The sweep reaches back to `behind` unless it already does.
SweepFrom(sweep, behind) ==
    IF sweep.on /\ NotAfter(sweep.from, behind) THEN sweep
    ELSE [on |-> TRUE, from |-> behind, next |-> behind,
          seen |-> sweep.seen, settled |-> sweep.settled]

\* Mutant: the count of the cycle is not reset at the wrap.
CycleEndKeepsCount(sweep, seen) ==
    IF seen = 0 THEN NoSweep
    ELSE [sweep EXCEPT !.next = sweep.from, !.seen = seen, !.settled = seen]

\* The end of a cycle of the walk that counted `seen` rows: back to the start,
\* or retired when there was nothing to count.
CycleEnd(sweep, seen) ==
    IF seen = 0 THEN NoSweep
    ELSE [sweep EXCEPT !.next = sweep.from, !.seen = 0, !.settled = seen]

\* The number of rows the record reports to the user: the ids, and what the
\* walk has proven, which between cycles is the last cycle's figure.
Total ==
    Cardinality(unreadable.ids)
      + IF unreadable.sweep.next = unreadable.sweep.from
        THEN unreadable.sweep.settled ELSE unreadable.sweep.seen

-----------------------------------------------------------------------------
(* One scan.                                                               *)

\* The rows of S that open and that the retry has not already dealt with.
Opening(S) == (S \cap readable) \ unreadable.ids

\* The rows of S that do not open, and are not retried by id either.
Failing(S) == S \ (readable \cup unreadable.ids)

\* The rows of S that are read, in order, before the first one that opens
\* but whose content would take the scan past its bytes.
ReadWithin(S, used) ==
    {i \in S : \A j \in Opening(S) :
        NotAfter(KeysetOf(j), KeysetOf(i)) =>
            used + Bytes({k \in Opening(S) : NotAfter(KeysetOf(k), KeysetOf(j))})
                <= MaxBytes}

\* The retried ids that open and are handed over: the reply of the lookup has
\* no order, so any choice to which no further row could be added.
RetryChoices(cand) ==
    {S \in SUBSET cand : /\ Bytes(S) <= MaxBytes
                         /\ \A i \in cand \ S : Bytes(S) + Size[i] > MaxBytes}

\* One page of the walk behind `bound`, given what the retry handed over and
\* the ids it kept: the rows read, the ones offered, the ids added and the
\* sweep left behind.
WalkLeftBehind(sweep, bound, opened, kept) ==
    LET page == VersionsAfter(sweep.next)
        behind == {i \in page : NotAfter(KeysetOf(i), bound)}
        read == ReadWithin(behind, Bytes(opened))
        bad == Failing(read)
        added == Tracked(bad, Cardinality(kept))
        seen == sweep.seen + Cardinality(bad \ added)
        cycled == /\ read = behind
                  /\ \/ behind # page
                     \/ Cardinality(RowsAfter(sweep.next)) < Limit
    IN  [offered |-> Opening(read),
         added |-> added,
         sweep |-> IF ~cycled
                   THEN [sweep EXCEPT !.next = LastOf(read, sweep.next),
                                      !.seen = seen]
                   ELSE CycleEnd(sweep, seen)]

NoWalk == [offered |-> {}, added |-> {}, sweep |-> NoSweep]

\* What a scan of the history from `from` finds, when `opened` are the
\* retried rows it hands over.
ScanBounded(from, opened) ==
    LET kept == (unreadable.ids \cap present) \ opened
        walk == IF unreadable.sweep.on
                THEN WalkLeftBehind(unreadable.sweep, from, opened, kept)
                ELSE NoWalk
        page == VersionsAfter(from)
        read == ReadWithin(page, Bytes(opened) + Bytes(walk.offered))
        bad == Failing(read)
        held == kept \cup walk.added
        added == Tracked(bad, Cardinality(held))
        left == bad \ added
        behind == LastOf({i \in read : \A u \in left :
                            Before(KeysetOf(i), KeysetOf(u))}, from)
    IN  [items |-> opened \cup walk.offered \cup Opening(read),
         ids |-> held \cup added,
         sweep |-> IF left = {} THEN walk.sweep
                   ELSE SweepFrom(walk.sweep, behind),
         offer |-> [truncated |-> \/ Cardinality(RowsAfter(from)) >= Limit
                                  \/ read # page,
                    last |-> LastOf(read, from),
                    started |-> from]]

FloorAfterRound(o, ms) ==
    IF o.truncated /\ o.last[1] <= ms THEN o.last ELSE <<ms, 0>>

-----------------------------------------------------------------------------
(* Coverage: what still promises that a row will be offered.               *)

\* The walk will come to the row: it is ahead, or the cycle under way has
\* counted rows and so will be followed by another.
Swept(sweep, i) ==
    /\ sweep.on
    /\ Before(sweep.from, KeysetOf(i))
    /\ Before(sweep.next, KeysetOf(i)) \/ sweep.seen > 0

\* The record of unreadable uploads will bring the row to a later scan.
Recorded(i) ==
    \/ unreadable.malformed
    \/ i \in unreadable.ids
    \/ Swept(unreadable.sweep, i)

Covered(i) == Before(floor, KeysetOf(i)) \/ Recorded(i)

\* Someone still owes the row an action: a round that is sending it, or a
\* writer that has not yet told the host.
Owed(i) == i \in inflight \/ <<i, stamp[i]>> \in pending

-----------------------------------------------------------------------------
Offers == [truncated : BOOLEAN, last : Positions, started : Positions]
NoOffer == [truncated |-> FALSE, last |-> Origin, started |-> Origin]

Init ==
    /\ present \in SUBSET Rows
    /\ readable \in SUBSET present
    /\ stamp \in [Rows -> 0..MaxMs]
    /\ \A i \in Rows \ present : stamp[i] = 0
    /\ floor = Origin
    /\ unreadable = EmptyRecord
    /\ moved = FALSE
    /\ offer = NoOffer
    /\ pending = {}
    /\ signedIn = TRUE
    /\ phase = "idle"
    /\ since = Origin
    /\ startedMs = 0
    /\ republish = FALSE
    /\ inflight = {}
    /\ uploaded = {}
    /\ forfeited = {}

(* The history, written by captures, peer sessions and retention.          *)

\* A capture, a delete or a merged peer version becomes row i's current
\* version.  A version replaces an older one only with a stamp at least as
\* large; a row that is new to the device may carry any stamp.
WriteRow(i, ms, opens) ==
    /\ i \in present => ms >= stamp[i]
    /\ stamp' = [stamp EXCEPT ![i] = ms]
    /\ present' = present \cup {i}
    /\ readable' = IF opens THEN readable \cup {i} ELSE readable \ {i}
    /\ pending' = pending \cup {<<i, ms>>}
    /\ inflight' = inflight \ {i}
    /\ uploaded' = uploaded \ {i}
    /\ forfeited' = forfeited \ {i}
    /\ UNCHANGED <<floor, unreadable, moved, offer, signedIn>>
    /\ UNCHANGED <<phase, since, startedMs, republish>>

\* Retention or an applied bound removes the row for good.
EvictRow(i) ==
    /\ i \in present
    /\ present' = present \ {i}
    /\ readable' = readable \ {i}
    /\ stamp' = [stamp EXCEPT ![i] = 0]
    /\ inflight' = inflight \ {i}
    /\ uploaded' = uploaded \ {i}
    /\ forfeited' = forfeited \ {i}
    /\ UNCHANGED hostVars
    /\ UNCHANGED <<phase, since, startedMs, republish>>

\* A row that would not open starts to, or the other way round; nobody is
\* told.
ToggleReadable(i) ==
    /\ i \in present
    /\ readable' = IF i \in readable THEN readable \ {i} ELSE readable \cup {i}
    /\ UNCHANGED <<stamp, present, hostVars, roundVars, historyVars>>

\* Mutant: a version stamped in the floor's own millisecond does not lower it.
LoweredFloorStrict(ms) == IF ms < floor[1] THEN <<ms, 0>> ELSE floor

\* The floor as note_version leaves it for a version stamped ms.
LoweredFloor(ms) == IF ms <= floor[1] THEN <<ms, 0>> ELSE floor

\* The writer's call to note_version.
NoteVersion(w) ==
    /\ w \in pending
    /\ pending' = pending \ {w}
    /\ moved' = TRUE
    /\ floor' = LoweredFloor(w[2])
    /\ UNCHANGED <<storeVars, unreadable, offer, signedIn>>
    /\ UNCHANGED <<roundVars, historyVars>>

(* The round of the provider module.                                       *)

\* sync_round starts: the clock is read, then push reads the floor's stamp.
BeginRound(ms) ==
    /\ phase = "idle" /\ signedIn
    /\ phase' = "push"
    /\ startedMs' = ms
    /\ since' = <<floor[1], 0>>
    /\ UNCHANGED <<storeVars, hostVars, republish, inflight, historyVars>>

\* push reads the other half of the floor in a request of its own.
ReadFloorItem ==
    /\ phase = "push"
    /\ phase' = "scan"
    /\ since' = <<since[1], floor[2]>>
    /\ UNCHANGED <<storeVars, hostVars, startedMs, republish, inflight>>
    /\ UNCHANGED historyVars

\* The host's Scan request: a malformed record resets the floor, the scan
\* runs, its record is persisted and its offer kept.
ScanRequest ==
    LET from == IF unreadable.malformed THEN Origin ELSE since
        cand == unreadable.ids \cap present \cap readable
    IN  /\ phase = "scan"
        /\ \E opened \in RetryChoices(cand) :
              LET scan == ScanBounded(from, opened)
              IN  /\ unreadable' = [ids |-> scan.ids, sweep |-> scan.sweep,
                                    malformed |-> FALSE]
                  /\ offer' = scan.offer
                  /\ inflight' = scan.items \ uploaded
        /\ floor' = IF unreadable.malformed THEN Origin ELSE floor
        /\ moved' = FALSE
        /\ phase' = "upload"
        /\ UNCHANGED <<storeVars, pending, signedIn, since, startedMs>>
        /\ UNCHANGED <<republish, historyVars>>

\* One batch of the offered rows is accepted by the backend.  Rows that were
\* already there are sent again, which changes nothing; a row over the per-item
\* cap is withheld for good, and counts here as dealt with.
UploadBatch(S) ==
    /\ phase = "upload"
    /\ S # {} /\ S \subseteq inflight
    /\ inflight' = inflight \ S
    /\ uploaded' = uploaded \cup S
    /\ UNCHANGED <<storeVars, hostVars, phase, since, startedMs, republish>>
    /\ UNCHANGED forfeited

\* Every batch was accepted: the first push is followed by the pull, the
\* second one by the commit.
PushDone ==
    /\ phase = "upload" /\ inflight = {}
    /\ phase' = IF republish THEN "commit" ELSE "pull"
    /\ UNCHANGED <<storeVars, hostVars, since, startedMs, republish>>
    /\ UNCHANGED <<inflight, historyVars>>

\* The pull declines a stale remote row: the local winner, which the backend
\* no longer holds, is put back for upload.
RequeueLocalWinner(i) ==
    /\ phase = "pull"
    /\ i \in present
    /\ floor' = LoweredFloor(stamp[i])
    /\ moved' = TRUE
    /\ republish' = TRUE
    /\ uploaded' = uploaded \ {i}
    /\ forfeited' = forfeited \ {i}
    /\ UNCHANGED <<storeVars, unreadable, offer, pending, signedIn>>
    /\ UNCHANGED <<phase, since, startedMs, inflight>>

\* The pull merges a remote row: the backend already holds that version, so
\* the provider's floor is not told of it.
ApplyRemote(i, ms) ==
    /\ phase = "pull"
    /\ i \in present => ms >= stamp[i]
    /\ stamp' = [stamp EXCEPT ![i] = ms]
    /\ present' = present \cup {i}
    /\ readable' = readable \cup {i}
    /\ uploaded' = uploaded \cup {i}
    /\ forfeited' = forfeited \ {i}
    /\ UNCHANGED <<hostVars, roundVars>>

\* The same, when the row here has a newer privacy choice: what is stored is
\* the remote version with that choice, stamped one later, a version that the
\* backend does not hold and the floor is not told of either.
ApplyRemoteMerged(i, ms) ==
    /\ "override" \in Faults /\ phase = "pull"
    /\ i \in present /\ ms >= stamp[i] /\ ms < MaxMs
    /\ stamp' = [stamp EXCEPT ![i] = ms + 1]
    /\ readable' = readable \cup {i}
    /\ uploaded' = uploaded \ {i}
    /\ forfeited' = forfeited \cup {i}
    /\ UNCHANGED <<present, hostVars, roundVars>>

\* The pull is over; a requeued winner calls for a second push.
PullDone ==
    /\ phase = "pull"
    /\ phase' = IF republish THEN "push" ELSE "commit"
    /\ since' = IF republish THEN <<floor[1], 0>> ELSE since
    /\ UNCHANGED <<storeVars, hostVars, startedMs, republish, inflight>>
    /\ UNCHANGED historyVars

\* Mutant: the epoch is not compared.
MayCommitIgnoringEpoch == NotAfter(offer.started, floor)

\* The floor may move only if nothing was noted since the scan, and only
\* from a position at or past the one the scan started at.
MayCommit == ~moved /\ NotAfter(offer.started, floor)

\* The host's CommitUpload request, which ends the round.
CommitUpload ==
    /\ phase = "commit"
    /\ floor' = IF MayCommit
                THEN Later(floor, FloorAfterRound(offer, startedMs)) ELSE floor
    /\ phase' = "idle"
    /\ republish' = FALSE
    /\ UNCHANGED <<storeVars, unreadable, moved, offer, pending, signedIn>>
    /\ UNCHANGED <<since, startedMs, inflight, historyVars>>

\* A request of the round fails, or the round is cancelled: nothing is
\* undone and the floor stays.
RoundFails ==
    /\ "fail" \in Faults /\ phase # "idle"
    /\ phase' = "idle"
    /\ republish' = FALSE
    /\ inflight' = {}
    /\ forfeited' = forfeited \cup
                      {i \in inflight : ~Covered(i) /\ <<i, stamp[i]>> \notin pending}
    /\ UNCHANGED <<storeVars, hostVars, since, startedMs, uploaded>>

\* A request is refused for good: the account is dropped with the round.
SessionExpired ==
    /\ "fail" \in Faults /\ phase # "idle"
    /\ phase' = "idle"
    /\ republish' = FALSE
    /\ inflight' = {}
    /\ signedIn' = FALSE
    /\ unreadable' = EmptyRecord
    /\ UNCHANGED <<storeVars, floor, moved, offer, pending>>
    /\ UNCHANGED <<since, startedMs, historyVars>>

\* The application stops and starts again: progress and pending calls are
\* memory, the floor and the record are in the store.
Crash ==
    /\ "crash" \in Faults
    /\ phase' = "idle"
    /\ republish' = FALSE
    /\ inflight' = {}
    /\ pending' = {}
    /\ moved' = FALSE
    /\ offer' = NoOffer
    /\ forfeited' = forfeited \cup {i \in present \ uploaded : Owed(i) /\ ~Covered(i)}
    /\ UNCHANGED <<storeVars, floor, unreadable, signedIn, since, startedMs>>
    /\ UNCHANGED uploaded

\* The persisted record no longer parses.
RecordCorrupted ==
    /\ "corrupt" \in Faults
    /\ unreadable' = [EmptyRecord EXCEPT !.malformed = TRUE]
    /\ UNCHANGED <<storeVars, floor, moved, offer, pending, signedIn>>
    /\ UNCHANGED <<roundVars, historyVars>>

\* Sign-out clears the account's keys, the record among them.
SignOut ==
    /\ "signout" \in Faults /\ phase = "idle" /\ signedIn
    /\ signedIn' = FALSE
    /\ unreadable' = EmptyRecord
    /\ UNCHANGED <<storeVars, floor, moved, offer, pending>>
    /\ UNCHANGED <<roundVars, historyVars>>

\* Sign-in starts the upload over; another account has received nothing.
SignIn(sameAccount) ==
    /\ phase = "idle"
    /\ signedIn' = TRUE
    /\ floor' = Origin
    /\ uploaded' = IF sameAccount THEN uploaded ELSE {}
    /\ forfeited' = {}
    /\ UNCHANGED <<storeVars, unreadable, moved, offer, pending, roundVars>>

Round ==
    \/ \E ms \in 0..MaxMs : BeginRound(ms)
    \/ ReadFloorItem
    \/ ScanRequest
    \/ \E S \in SUBSET inflight : UploadBatch(S)
    \/ PushDone
    \/ PullDone
    \/ CommitUpload

Writers ==
    \/ \E i \in Rows, ms \in 0..MaxMs, opens \in BOOLEAN : WriteRow(i, ms, opens)
    \/ \E i \in Rows : EvictRow(i) \/ ToggleReadable(i)

Notes == \E w \in pending : NoteVersion(w)

Environment ==
    \/ \E i \in Rows : RequeueLocalWinner(i)
    \/ \E i \in Rows, ms \in 0..MaxMs : ApplyRemote(i, ms) \/ ApplyRemoteMerged(i, ms)
    \/ RoundFails
    \/ SessionExpired
    \/ Crash
    \/ RecordCorrupted
    \/ SignOut

Accounts == \E same \in BOOLEAN : SignIn(same)

Next == Round \/ Writers \/ Notes \/ Environment \/ Accounts

Spec == Init /\ [][Next]_vars

-----------------------------------------------------------------------------
(* Properties.                                                             *)

\* The variables have their types, and the id list its bound
\* (MAX_UNREADABLE_TRACKED), however the retry, the walk and the page fill it.
TypeOK ==
    /\ stamp \in [Rows -> 0..MaxMs]
    /\ present \subseteq Rows /\ readable \subseteq present
    /\ floor \in Positions
    /\ unreadable \in Records
    /\ Cardinality(unreadable.ids) <= MaxTracked
    /\ moved \in BOOLEAN /\ signedIn \in BOOLEAN /\ republish \in BOOLEAN
    /\ offer \in Offers
    /\ pending \subseteq Rows \X (0..MaxMs)
    /\ phase \in {"idle", "push", "scan", "upload", "pull", "commit"}
    /\ since \in Positions
    /\ startedMs \in 0..MaxMs
    /\ inflight \subseteq present
    /\ uploaded \subseteq present /\ forfeited \subseteq present

\* No row is stranded (INV-N7, INV-N7a).  Every version the backend has not
\* accepted from this device is after the floor, in the id list, ahead of or
\* counted by the sweep, being sent, or about to be noted by its writer -
\* through late notes, torn reads of the floor, failed rounds, restarts, a
\* record that no longer parses and account changes.  The exceptions are the
\* rows `forfeited` holds: no list held them when a fault ended their offer, or
\* the pull stored them with a privacy choice of their own.
NoStrandedRow ==
    signedIn => \A i \in present \ (uploaded \cup forfeited) : Covered(i) \/ Owed(i)

\* A scan that has completed answers for every row it could have shown: until
\* something is noted, a row between where the scan started and where it
\* stopped is in the record, on its way, or about to be noted.  This is what
\* entitles CommitUpload to move the floor.
OfferAnswersForItsRows ==
    (phase \in {"upload", "pull", "commit"} /\ ~moved) =>
        \A i \in present \ (uploaded \cup forfeited) :
            /\ Before(offer.started, KeysetOf(i))
            /\ offer.truncated => NotAfter(KeysetOf(i), offer.last)
            => Recorded(i) \/ Owed(i)

\* The record never reports more rows than fail to open (INV-N7b), between
\* cycles of the walk, where "a completed cycle is exact" (unreadable.rs).
CompletedCycleIsExact ==
    unreadable.sweep.next = unreadable.sweep.from
      => Total <= Cardinality(present \ readable)

\* Every row that stays readable on a signed-in device is uploaded in the end
\* (UPLOAD_SCAN_LIMIT bounds a round, "not ... what eventually uploads"), when
\* the module keeps running rounds and every writer finishes its note.
ReadableRowsReachCloud ==
    \A i \in Rows : <>[](signedIn /\ i \in present /\ i \in readable)
                      => <>[](i \in uploaded)
=============================================================================
