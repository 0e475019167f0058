# copypaste: TLA+ models of history, synchronisation, membership and capture

copypaste keeps a clipboard history on each device and brings the histories
together by two independent transports: direct sessions between paired devices
(`crates/copypaste-p2p`) and a Supabase table that a sandboxed module reads and
writes (`crates/copypaste-cloud`, `modules/supabase`). A daemon fills the
history from the system clipboard, and puts received clips back on it. These
models follow a clip along that path: from the clipboard into the history
(`Capture`), through the merge of what other devices send (`HistoryMerge`), out
to the table (`UploadFloor`, `CloudTable`) and to the peers (`PeerRelay`), among
devices whose membership of the group changes (`Membership`).

## 1. Inventory

The components, with their sources and status, are in `PROJECT.json`. In short:

| Part | State | Operations | What makes it correct |
|---|---|---|---|
| Upload floor and scan (`copypaste-sync/src/{store,unreadable,scan}.rs`, `copypaste-modules/src/sync.rs`) | floor (stamp, id), unreadable record (ids, sweep, counts), the outstanding offer with its epoch | note a version, scan, apply, requeue, commit the upload | no row is passed by for good; the reported count is right; every readable row is uploaded in the end |
| Supabase module round (`modules/supabase/src/lib.rs`) and cloud driver (`copypaste-cloud/src/sync/`) | account keys, pull watermark, session | push, pull, push again, commit; sign-in, sign-out, refresh | the watermark passes no row; a row that an older upload replaced is published again; a refreshed session never outlives its account |
| Peer cursors (`copypaste-p2p/src/peers/cursor.rs`) | per peer: how far received (`since_ms`) and the relay floor | record a session, note a version, forget | a version the peer lacks is at or past what it will be offered |
| Peer session (`copypaste-p2p/src/sync/`) | the workspace of one session: advertised, comparison, remote, wanted, deferred | hello, summaries, plan, serve, apply, watermark | the cursor never passes an undelivered version; deferral is not loss |
| Peer node (`copypaste-p2p/src/node/`) and scheduler (`copypaste-sync/src/peer_driver.rs`) | active sessions, cancellation, round permit, wake bit | dial, listen, commit, abort, unpair, revoke | overlapping sessions of one pair are harmless |
| Version order and merge (`copypaste-p2p/src/sync/merge.rs`, `copypaste-core/src/sync/`, `copypaste-core/src/storage/{versions,merge_page}.rs`) | the rows | compare, prepare a page against a snapshot, apply, redo refusals | an item only moves up in the order of versions; a deletion is not forgotten; what is stored is reported |
| History store (`copypaste-core/src/storage/`) | rows, pins, retention | insert, promote, delete, clear, pin, evict | a clear removes what was there and nothing newer; a pin does not move back |
| Pairing, groups, revocation (`copypaste-p2p/src/{group.rs,node,peers}`, `copypaste-cloud/src/sync/group.rs`) | rosters, admissions, removals, credentials, ceremonies | pair, confirm, roll back, unpair, revoke, exchange rosters | both sides certify the same generations; a removal is not undone without a ceremony; a removed device can come back by one |
| Capture (`copypaste-daemon/src/{capture,host}.rs`, `clipboard/`), settings (`copypaste-runtime/src/settings.rs`), received clips (`copypaste-core/src/sync/instant_clipboard.rs`) | change cursor, sentinel, pending capture, private mode, applied stamp | wake, poll, persist, drain, switch private mode, copy out, show a received clip | private content stays out; own writes are not captured; an accepted capture is answered for; a received clip replaces older content only |
| Module host, IPC, applications, search, files | processes, files | load, dispatch, transfer | mostly I/O |

Components meet in few places. A local write is stored, then noted for the
peers (`CursorStore::note_local`) and for the cloud (`SyncServices::note_version`),
in that order (`copypaste-runtime/src/lib.rs`, `note_local_change_since`). A row
received from a peer lowers the upload floor through the source's `on_applied`
hook and the other peers' relay floors when the session commits. A row received
from the cloud lowers every peer's relay floor; the view it is applied through
has no version hook, so that it does not ring back. Both transports merge through
`apply_page`, at the same time. A received row that is newer than everything live
is offered to the clipboard under the settings authority, which ticks of the
capture loop and switches of private mode hold too. Wakes abort the dialler's
sessions of a running round and start another. Rosters travel before a sync
session and at the head of a cloud round.

What is hard here: writes and notes are two steps with everything else in
between; a session reads its cursor when it begins and replaces it when it
ends; a scan's result is committed after network calls, against a floor that
may have moved; a page is decided from a snapshot and written later; two sides of
a session, or of a ceremony, end at different moments; cursor files can be
unwritable or damaged; page, request and byte limits cut every transfer short;
the clipboard changes under whoever reads it. `PROJECT.json` lists the hazards,
each at its line.

## 2. Modules

| Module | Models | Checked by |
|---|---|---|
| `UploadFloor` | the upload floor, the unreadable record and the module's round | `MCUploadFloor` and its cfgs |
| `UploadFloorProofs` | TLAPS proofs about `UploadFloor`, and of the count that `MCUploadFloor` checks | `tlapm` |
| `PeerRelay` | cursors, relay floors and sessions between paired devices | `MCPeerRelay` and its cfgs |
| `PeerRelayProofs` | TLAPS proofs about `PeerRelay`: types, cursors | `tlapm` |
| `RelayCoverageProofs` | TLAPS proof that `PeerRelay` strands no version unnamed | `tlapm` |
| `VersionOrder` | the comparators of versions and of pin states | used by the next two |
| `LastWriterWins` | abstract: what the history promises the transports | refined by `HistoryMerge` |
| `HistoryMerge` | the history of one device, merged into beside local writers | `MCHistoryMerge` and its cfgs |
| `HistoryMergeProofs` | TLAPS proofs about `HistoryMerge` | `tlapm` |
| `CloudTable` | devices of one account over the backend's table | `MCCloudTable` |
| `CloudTableProofs` | TLAPS proofs about `CloudTable` | `tlapm` |
| `Membership` | rosters, credentials, ceremonies, removals | `MCMembership` and its cfgs |
| `MembershipProofs` | TLAPS proofs about `Membership` | `tlapm` |
| `Capture` | the capture loop, private mode, the daemon's own clipboard writes | `MCCapture` |
| `CaptureProofs` | TLAPS proofs about `Capture` | `tlapm` |
| `OrderLemmas` | least naturals, first and last elements of finite sets, for the proofs | `tlapm` |

An abstraction of one module is the subject of another: `CloudTable.unsent` is
what `UploadFloor` keeps with its floor and record, a version is its stamp in
`PeerRelay` and `CloudTable` and has all its keys in `HistoryMerge`, and
`Capture` sees the history as one row per content.

### UploadFloor

*State.* `stamp`, `present`, `readable`: the history; rows are numbered in the
order of their ids, so that `KeysetOf` gives the `(created_at, id)` order that
`versions_after` pages by. `floor`, `unreadable`, `signedIn`: what the module's
state keys hold. `moved`, `offer`: the in-memory `Progress` of
`SyncServices` (the epoch is the boolean "has been bumped since the offer").
`phase`, `since`, `startedMs`, `inflight`, `republish`: one round of
`State::sync_round` and `CloudSync::sync`. `pending`: writers that have stored a
row and not yet called `note_version`. `uploaded` and `forfeited` are history
variables: what the backend accepted, and the rows that the code gives up
through a gap listed in section 4.

*Actions.* One per request of the module (`ScanRequest`, `ApplyRemote`,
`RequeueLocalWinner`, `CommitUpload`), per step of the round (`BeginRound`,
`ReadFloorItem`, `UploadBatch`, `PushDone`, `PullDone`), per writer
(`WriteRow`, `EvictRow`, `ToggleReadable`, `NoteVersion`) and per fault
(`RoundFails`, `SessionExpired`, `Crash`, `RecordCorrupted`, `SignOut`,
`SignIn`). `push` reads the floor by two requests, so `BeginRound` reads the
stamp and `ReadFloorItem` the id: a note between them gives the torn position
the code would see. `ScanBounded` is the whole of `scan_bounded`: the retries
at the head, the walk of what was left behind, the main page, all three under
the row limit and the byte budget; its one freedom is which of the retried ids
the database returns first.

*Bytes.* A row has a size, a budget is the sum of sizes: `ReadWithin` stops
where `scan_bounded` stops.

### PeerRelay

*State.* `store[d][x]`, the stamp of the version of item `x` that device `d`
holds (0: none). A version *is* its stamp: the tie-breakers of `merge.rs` do not
matter to what is offered. `cursor[d][p]`, the record of `cursor.rs`; `None` as
a relay floor is `MaxStamp + 1`, past every stamp. `pending[d]`, writers between
storing and noting. `session[<<i, r>>]`, the session dialled by `i`: what each
side read as its cursor, the summaries it sent, what is on its way to it, what
it could not take, what it stored, and how it ended. `horizon`, the newest
stamp that the clock-skew ceiling accepts. `missed`, a history variable
(below).

*Actions.* `Dial` and `Accept` read the two cursors. `OfferSummaries` and
`AnswerSummaries` page out what is at or past `advertise_from`; the listener
compares when it gets the dialler's page, the dialler when it gets the
listener's. `ServeDialler` is the dialler's plan and the listener's
`serve_items`; `ServeListener` is the dialler's application, the listener's plan
and the dialler's `serve_items`; `ApplyListener` the listener's application.
`Commit` is `record_cursor`, with its two saves, by either side. `LoseSide` is
any way in which a side ends without committing (a drop, `SESSION_TIMEOUT`,
`abort_all` on a wake), with any part of the frames on their way applied.
`Restart` forgets the pending notes and the sessions, and may find the cursor
file damaged. Between any two of these, anyone may write, note, dial, or fail.
A row that changes between its summary and its transfer no longer matches and
is not taken (`Fetched`), and holds the cursor back (`Unresolved`).

*What a row becomes.* A row that arrives and still wins (`Arrived`) is stored at
the stamp it came with, or one of two things happens to it (`MayApply`, the faults
"refuse" and "raise"). `apply_batch` may answer that it was not stored, because
the dedup index holds its content under another id or its payload is not accepted;
`receive_items` counts it as attempted all the same, and the mark passes it. Or
the merge keeps a privacy choice made on this device and stores the row at the
stamp after the one it came with.

*The history variable `missed`.* The relay has gaps: places where the code lets
a version fall below what the peer will be offered. They are facts about the
code, so the model keeps them, and records in `missed` each version that goes
through one, with the gap's name:

- `own cursor`, `racing`: `note_written` (`cursor.rs`, line 124) keeps a floor for
  a peer only when *this* device has received further than the stamp; the peer's
  own progress is what matters;
- `in session`: `record_session` (line 90) clears a floor noted after the
  session's summaries went out;
- `uncommitted`: rows applied by a session that is then lost are noted for
  nobody (`node/mod.rs`, line 638);
- `peer lost`: the dialler commits when the listener hangs up, whether it had
  applied anything or not (`NoiseChannel::wait_for_close` is never an error);
  this lets go only rows that are still as the dialler offered them;
- `overlap`: two sessions of one pair record the cursor of the one that ends
  last, which may have offered a row before it changed; a row that is still as
  that session offered it is not excused;
- `refused`: a winner that the receiver would not store counts as resolved
  (`application.rs`, lines 77-101), and is not offered again;
- `raised`: a row stored past its stamp is noted for the receiver's *other* peers,
  so the sender is not offered it, although the comment at `storage/versions.rs`
  line 469 says the choice is published back to the peer;
- `restart`: a crash between a write and its note;
- `damage`: a cursor file that does not parse is taken as empty, relay floors
  included, although the comment in `CursorStore::open` calls that safe; this lets
  go only rows that the lost floor covered;
- `unsaved`: a note that could not be saved is rolled back, although the comment
  in `mutate` says that costs a repetition only; a commit that could not be saved
  lets go only rows that are still as the peer offered them.

`NoStrandedVersion` says that there is no *other* way. A version enters
`missed` only by the step that opens the gap, and only for the devices, the item
and the stamp concerned, so a mistake elsewhere is not excused by it: its mutants
are small slips in two different operations.

### VersionOrder, LastWriterWins, HistoryMerge

*State.* `rows`: per id the columns that are compared or searched (rowid, stamp,
hash, tombstone, origin, pin with its stamp, privacy choice). `pinRecord`: the
replicated record of a pin, which is projected on the row. `merger[m]`: the page
a transport is in, with the snapshot it was decided from. `sweepDue`, `ceiling`:
the retention sweep a write asked for, and a clear whose undo window runs.
`owed` is a history variable: what a page of a peer has stored and not reported to
the version hook. The cloud merges through `without_version_hook`: it owes no
report, and its end discharges none.

*Actions.* A page is `ReadSnapshot`, then `MergePage` in one transaction when the
rows are as read, or `SnapshotMoved` (prepared again, given up at the second
time), then one `ApplyPinState` per pin without content, then `RedoRead` and
`RedoWrite` for each version that had lost to a refused one, then `Report`.
`PinStateFails` and `RedoFails` return in between. `Simulated` threads the
decisions about one id through the page as `prepare` does, and `UpsertRefused` is
the dedup index. The local writers are one transaction each: `Capture`
(insert or bump), `PromoteCopied`, `Delete`, `PressClear` and
`DeleteAllThrough`, `SetPinned`, `MergePinRecord`, `SetSecret`,
`EnforceRetention`.

*Refinement.* `LastWriterWins` lets any number of items move up in the order of
`Newer`, or a live one be dropped. `HistoryMerge` implements it with `version` as
the four compared columns of a row (`ImplementsLastWriterWins`); its `exposed`
are the items whose redo was decided from a row that has changed since. With
`exposed` empty the same refinement fails (run `history_redo`).

### CloudTable

*State.* `table`: per item the row that arrived last, readable or not.
`held`, `unsent`, `mark`, `round` per device: its versions, what it owes, its
persisted watermark, and its round with the page under way. `offered`, `behind`,
`refused` and `raised` are history variables: the furthest position a device may
have been brought to, the rows that arrived at or behind it, the rows a device met
and would not store, and the versions its own pull stored past their stamp.

*Actions.* `BeginRound` (the scan), `UploadRows` batch by batch, `PushDone`,
`FetchPage` (the keyset page and its classification), `ApplyRow` one request at a
time, `FinishPage` (local winners, watermark, and whether the drain goes on),
the second push, `CommitRound`; beside them `Capture` with a drifting clock,
`PeerDelivers`, `RoundFails`, `SignInAgain`, `UnreadableRow`, `Purge`, `Tick`.
A newer row may be refused (`RefuseRow`: the dedup index, or a payload that is never
stored), and the watermark passes it like any row of the page; or a privacy choice
made here is kept and the row stored one stamp later, by a pull (`RaiseRow`, which
notes nothing: the pull's view has no version hook) or by a session with a peer
(`PeerRaises`, which notes it).

### Membership

*State.* `mem[d]` and `disk[d]`: the peer store in memory and on file, with
`adm` (generation of each member), `rem` (generation removed), `slots` (the
stored peer per device: which ceremony left it, the generations it certifies,
whether its first roster exchange is still to come) and `revoked` pairing ids.
`side`: each device's half of a ceremony. `acks`, `session`, `cloud`,
`downloaded`, `outgoing`: messages, the roster exchange and the cloud round under
way. History variables: `unconfirmed`, devices that stored a slot and lost its
confirmation, or could not write the rollback of one; `declined`, whose published
snapshots a device has dealt with by refusing them.

*Actions.* `Pair`, `Abandon`, `Store`, `Confirm`, `ConfirmFails`, `Rollback`,
`RollbackFails`; `Cut` (unpair or revoke); `Dial`, `Respond`, `Finish`,
`Disconnect`; `Import`, `PullDone`, `Publish`; `Restart`. `MergeRoster` is
`GroupState::merge` and `Project` the credentials that follow from a roster; a
merge, its projection and the file change together or not at all. A credential
is what it is derived from (ceremony and both generations), so two devices share
one exactly when theirs mirror each other.

### Capture

*State.* `board`: the clipboard, whose every write is known by its change count.
`cursor`, `sentinel`, `permit`: the change tracker and the stored Windows
notification. `loop`, `retry`, `seen`, `slot`: the loop, the poll under way and
the accepted capture. `private`, `epoch`, `resume`, `abandoned`: private mode and
the settings authority. `rows`, `live`, `applied`: the history as the clipboard
needs it, and the stamp last put on or noted for the clipboard. `copier`,
`receiver`: a copy out of the history and a received row between their steps.
`mine`, `uncovered`, `hidden`, `accepted`, `stored`, `withdrawn`, `declined`,
`reported`, `missed`, `reread` are history variables, sets of change counts.

*Actions.* `Wake`, `TickPolls`, `TickReads`, `TickPersists` and their refusals
and failures are one turn of the loop; a poll is two steps, between which an
application may copy. `Shutdown`, `Stop`; `SetPrivateMode`, `SetCapturePolicy`
(exclusions and skip flags, which move the same epoch), `ResumePolls`,
`ResumeAcknowledges`, `ResumeCannotOpen`; `CopyWrites`, `CopyFails`, `CopyPromotes`,
`CopyNotes`; `ReceiveStores`, `ReceiveShows`, `ReceiveDeclines`, `ReceiveFails`;
`AppCopies`, `DeleteRow`, `Restart`. A persist ends stored, busy, failed, in a
panic, or cancelled by the policy or a limit (an exclusion, a blank or too large
content). A write of the daemon's own arms the sentinel (`OwnWrite`), races an
application's (`OwnWriteContended`), is left without a sentinel because Windows cannot
tell its count (`OwnWriteUncovered`: no sequence number, or more counts than one
write takes), or fails with the clipboard emptied or written (`OwnWriteFails`: macOS
clears the sentinel, Windows leaves an earlier one). The two back ends differ in what a read
under change gives, in how the sentinel is armed, in whether a poll can fail to
open the clipboard, and in what wakes the loop.

## 3. Runs

All runs are exhaustive over their bounds. Sessions, rounds and ticks are
unbounded in number; what is bounded is the size of the history, the number of
writes, ceremonies, removals, user actions, faults and other disturbances, and
how many sessions are open at once.

| Run | Instance | Shows |
|---|---|---|
| `upload_floor` | 3 rows, 2 milliseconds, page of 2, 1 tracked id, 2 disturbances of any kind | `TypeOK`, `NoStrandedRow`, `OfferAnswersForItsRows`, `CountIsExact` |
| `upload_floor_liveness` | 3 rows, fair rounds and notes, damaged record and account changes | `ReadableRowsReachCloud` |
| `peer_relay` | 2 devices, 2 items, 2 stamps, request cap 1, 1 write, 2 faults of any kind | `TypeOK`, `NoStrandedVersion`, `MarkIsDelivered` |
| `peer_relay_chain` | 3 devices in a chain, the first two dialling each other at once, 2 open sessions | `NoStrandedVersion` |
| `peer_relay_liveness` | 2 devices, request cap 1, moving ceiling, 1 write, 1 lost session or row that is withheld, refused or raised | `VersionsSpread` |
| `history_merge` | 3 items, 2 contents, 3 stamps, 2 transports, 3 events of which 2 pages, one page that deletes an item and brings it back, sweeps with a cap of 2, a quota of 1 and an age of 1 | `TypeOK`, `StoredIsReported`, `ImplementsLastWriterWins`, `PinsMoveForward` |
| `history_redo` | the same without failing writes | violates `DecisionAndWriteSeeSameHistory` |
| `cloud_table` | 2 devices, 2 items, 3 stamps, pages and batches of 1, 2 pages a pull, 2 disturbances, 1 row refused or raised | `TypeOK`, `NoRowPassedBy`, `StaleRowIsRepublished`, `ReadableRowsArrive`, `WatermarkMovesForward` |
| `membership` | 2 devices, together or one of them new, 2 ceremonies, 2 removals, 2 faults | `TypeOK`, `CertificatesMirror`, `AdmissionsAreOwn`, `UndisturbedDeviceCanReturn` |
| `membership_three` | 3 devices, 1 ceremony, 1 removal | `SettledRostersAgree`, `PublishedRemovalsAreKnown`, `NoReturnWithoutCeremony` |
| `membership_return` | 2 devices, 1 ceremony, 2 removals, 1 fault | violates `RemovedDeviceCanReturn` |
| `capture` | both back ends, 2 contents, change counts to 2, 2 stamps, 2 user actions, 1 failure of any kind | `TypeOK`, `PrivateStaysPrivate`, `OwnWritesAreNotCaptured`, `AcceptedIsAnsweredFor`, `ReceivedIsNewer`, `CopiesAreCaptured` |

*Why these bounds.* A row list of one id (`MaxTracked = 1`) and a page of two
make the list overflow, the sweep start and wrap, and the page be cut with three
rows; two stamps give rows before, at and after the floor, and equal ones that
only the id separates. Two items and a request cap of one make a session defer
the older row; two stamps and a ceiling that starts at either make a row come
from the future and be accepted later. In `history_merge` the pages are chosen so
that versions tie, supersede, delete and collide in the dedup index (whose bucket
is wider than all stamps), a page holds a refused winner with a loser behind it,
and the stamps saturate at the largest one; three events are enough for a page,
a write that moves its snapshot and a second page of the other transport. Pages of
one row make every pull of `cloud_table` meet full pages, a skew of one with a
drift of two makes rows that are plausible and rows that are not; the two devices
are alike, so the first disturbance that is one device's is taken to be the
first's (`FirstIsFirst`). Two ceremonies
and two removals let a device leave, come back and leave again, and two faults let
a restart read back what an earlier fault left in the file; three devices are
needed for a roster to come by a third (without faults, which the proof of
`NoReturnWithoutCeremony` covers). In `capture` two changes after the initial
content give a copy that races a poll, an own write, and an application's copy on
top of it; two actions give private mode switched on and off. Applications there copy
one of the two contents only (`MCApplications`), the daemon writes either; and the
policy is changed only while a capture is pending (`PolicyMatters`), the one thing
its epoch is compared with. Two faults in
`peer_relay` let a withheld row meet a commit that could not be saved, which one
fault does not. All invariants and action properties are proved for every bound as
well (section 5).

*Deadlock.* It is checked for `UploadFloor`, `PeerRelay` and `CloudTable`. In the
runs of `HistoryMerge`, `Membership` and `Capture` the behaviour ends when the
budgets are spent and nothing is under way (or the loop has stopped), so it is
switched off there. `membership` identifies states that differ in `declined` only
(`VIEW`), which no action reads and none of its properties mentions.

*Fairness.* `upload_floor_liveness`: the module's `run` loop arms another round
after each one, whatever its result, so a step of the round is taken again and
again while an account is present; a writer that has stored a row calls
`note_version` next, in the same function; the wall clock in the end passes
every stamp (the strong fairness of `BeginRound(MaxMs)`: rounds keep starting,
and from some moment they start late enough). `peer_relay_liveness`: the
scheduler polls for ever (`PeerDriver::run`), a session is bounded by
`SESSION_TIMEOUT`, and time passes; that the devices are in reach of each other
again and again is an assumption about the network. `cloud_table`: the same
`run` loop, per device, and the clock (a step of the round is possible in every
state, so its weak fairness is stated as: it is taken again and again). `capture`: the loop's timer or its permit
comes, and a settings change, a copy and a received clip that have begun run to
their end, each being one function call. Faults are never fair.
`VersionsSpread` is a statement per version, so it would fail if the cursor
passed a deferred row or if the same newest row were chosen for ever.

*Violations.* Each states what a comment of the repository says, and TLC shows a
behaviour of the code that does otherwise; the findings in `PROJECT.json` quote
the lines.

- `history_redo`: the redo after a refusal reads and writes in two transactions,
  so a delete between them is undone by an older version.
- `membership_return`: a confirmation lost after the slot was stored leaves a
  device with a generation it has not certified; after another removal no
  ceremony can be agreed any more.

## 4. Gaps the models set aside

What the code lets go is kept in the models and named, so that the properties
say that nothing *else* goes. Besides the gaps of `PeerRelay` above:

- `UploadFloor`, `forfeited`: a row that was unreadable and opens again is
  dropped from the record by the scan that offers it, before it is uploaded
  (`copypaste-modules/src/sync.rs`, line 261), so a failed upload loses it; a
  cloud row merged with this device's own privacy choice gets a stamp of its own,
  which nothing uploads (`storage/versions.rs`, line 470). The liveness run leaves
  failed rounds and such merges out.
- `HistoryMerge`: `Exposed` (the redo), `PinExposed` (a pin decided from a
  snapshot, where unpinning has stamped the row and not the record), `Restarted` (a
  page that deletes an item and brings it back resets its pin), and `FailWith` (an
  error after the page's transaction hides the stored rows from the version hook).
  Without a property: a clear is bounded by the largest rowid at the press, and a
  rowid that a sweep frees above the others is given out again, so a capture made
  inside the undo window can lie below the ceiling and go (`items.rs`, lines
  461-468, name the case; the comment of the test at lines 802-804 says such a
  capture survives). What holds of the clear is the comparison of rowids itself.
- `CloudTable`, `behind`: a row that is uploaded late lands behind watermarks that
  have passed its stamp, and nothing brings it to those devices. `refused`: a row
  that the merge would not store is passed like any other, and not read again
  (`pull.rs`, lines 246-256). `raised`: a version that a pull stored past its stamp
  is owed to nobody, so the table keeps the older row and other devices do not get
  the choice.
- `Membership`, `unconfirmed`: the violation above, and a rollback that could not
  be written, whose slot comes back from the file at the next restart. `declined`:
  a snapshot that is refused counts as downloaded until it changes or the process
  restarts (`copypaste-cloud/src/sync/group.rs`, lines 137-158), and a rollback
  takes a slot back without projecting the roster again (`peers/tentative.rs`, line
  127). Together: z removes x, and pairs with it again; d, which still counts x as
  removed, refuses what x publishes, learns of x's return from z, and has a ceremony
  with x rolled back. Then d and x are members to each other without a credential,
  and what x has published does not reach d until something is published anew.
  Further, without a property: a
  device cut between its ceremony and the first roster exchange is removed at the
  generation the roster knows, older than the one just certified, so its next
  snapshot counts as newer than the tombstone (`group.rs`, line 388 and 507); a
  confirmation by one side only leaves the two with different credentials until
  the scoped key brings their rosters together.
- `Capture`, `reread`: a restart starts with an unknown cursor and an empty
  sentinel, so the first poll stores what is on the clipboard, also what was copied
  in private mode or written by the daemon; a resume that cannot open the Windows
  clipboard leaves the cursor where it was, and the next tick stores what `host.rs`
  (lines 101-102) says is skipped. `uncovered`: a write whose count Windows cannot
  tell is left without a sentinel and may be captured once ("better to re-capture
  our own paste-back once", `windows.rs` line 132), and so is one that failed half
  way on either back end. `declined`: a pending capture that the policy or a limit
  cancels is dropped without a word, as the code means it to be. `missed`: Windows reads the change count
  back after its own write, so an application's copy in between may be taken for the
  daemon's; macOS drops a copy when another application comes to the front during
  the read; a copy made between the switch and the poll of a resume is
  acknowledged unread. A local copy that no poll has seen has no stamp, so
  an older received clip may replace it.

## 5. Proofs

`UploadFloorProofs` proves, for every history size, page limit, id bound, row
sizes and byte budget, and with every fault allowed:

- `TypeCorrect`: `Spec => []TypeOK`, which includes the bound of the id list;
- `NoRowIsStranded`: `Spec => []NoStrandedRow`;
- `OfferAnswers`: `Spec => []OfferAnswersForItsRows`;
- `CountsWhatFails`: `Spec /\ [][Stands]_vars => []CompletedCycleIsExact`, where
  `Stands` says of a step that the rows that fail to open still do, in the same
  versions;
- `CountNeverExceeds`: `MCSpec => []CountIsExact`, the property of the run, for any
  number of disturbances.

The only assumption is `UploadFloorAssumption`, which gives the constants their
types (and positive limits); TLC evaluates it in every run of `MCUploadFloor`.

*The argument.* `NoStrandedRow` is not inductive: a commit moves the floor past
rows on the word of an offer computed several steps earlier. The inductive
invariant adds `OfferAnswersForItsRows` (until something is noted, every row
between the offer's start and its end is recorded, being sent or about to be
noted) and `RoundInv` (where in the round what is in flight and what the offer
started from). The proof has three layers:
the keyset order and what a page, a bounded read and a last position are in it
(`LeastNatural` and the lemmas on pages); what the walk and a whole scan do to
the coverage of one row, through the retried ids, the sweep and the main page;
and one step per action for each conjunct. The scan is the long part: a row that
the record named must come out named, offered, ahead of the sweep, or gone.

The count that the record shows the user is a figure of the last cycle, taken while
rows came and the sweep was pulled back, so nothing in one state bounds it.
`RecordCounts` says that the list names rows that fail to open and that the sweep is
`Honest`: it runs only beside a full list, starts at or before where it stands, the
cycle under way has counted no more than the unnamed rows behind it, and the one
before no more than there are. A walk counts rows past its position
(`CountedAgree`); a full list takes none of them from the count (`TrackedFull`); and
a sweep is pulled back behind its start only by a scan that began behind its position,
whose walk has just ended the cycle with nothing counted in the next
(`WalkCounts`). Nothing is claimed when a counted row is
repaired or removed: the figure is then one cycle late, as the code means it to be.

`PeerRelayProofs` proves, for any devices, items and request cap, and with every
fault allowed:

- `RelayTypeCorrect`: `Spec => []TypeOK`;
- `CursorsPassOnlyDelivered`: `Spec => []MarkIsDelivered`.

The assumption is `PeerRelayAssumption` (positive bounds, known faults), which
TLC evaluates in every run of `MCPeerRelay`.

*The argument.* `MarkIsDelivered` speaks of the moment before a commit; what it
needs was settled when the side compared the offer with its rows, several
messages earlier, and other sessions, writers and lost frames may have changed
the rows since. `Promises` says what a session has settled at each step: from
the comparison on, a row that is neither on its way nor unresolved is one that
the side holds, or a newer one, or one that it refused; once the rows on their way are applied, only the
unresolved ones remain; and the mark is at or below each of those
(`WatermarkFacts`). No step takes a version back (`StoreGrows`), so a promise
survives every step of everyone else, and it does not mention how the sides end,
so it survives commits, losses and restarts.

`RelayCoverageProofs` proves, from the same assumption, for any devices and items and
whatever sessions overlap:

- `NothingStrandedUnnamed`: `Spec => []NoStrandedVersion`.

*The argument.* `NoStrandedVersion` looks at two cursors while no session runs; in
between, each side replaces its cursor by what it read and offered several messages
ago, and clears its floor. `RelayInv` says what carries a version over. A version is
`Loose` when the peer lacks it, no note of it is due for that peer and no gap let it
go; `Coverage` says that every loose version is `Safe`: it is at or past what the
cursors will have offered, or one side has committed and the other's commit is
awaited after this very version was offered (`Awaits`), the peer has recorded no
cursor past a version it was offered (`Received`), and each session of the pair that
never ran beside another `Keeps` it. Before a side
sends its summaries, they will hold the version; afterwards they did hold it, or a
floor taken since that side ended does; and the cursor the peer records is not past
it, which is where `Promises` (the mark) comes in. `AllSound` gives the shape of a
session (what was offered or stored is held, no side ends early), `Apart` that two
sessions of a pair know of each other, so that the overlap gap is recorded, and
`Reads` that the cursor a side has read is still the recorded one, but for a lower
floor. The proof goes by what a step changes: a row that gets a newer version
(which is pending, stored for the other peers, or let go as raised, so not loose), a
row that is refused (and let go by that), a floor that falls, a side that commits,
a side that is lost, a session that is over.

`HistoryMergeProofs` proves, for any finite set of items, any transports and
pages of any length:

- `HistoryTypeCorrect`: `Spec => []TypeOK`, with the uniqueness of rowids and of
  places in the dedup index;
- `StoredVersionsAreReported`: `Spec => []StoredIsReported`;
- `HistoryIsLastWriterWins`: `Spec => ImplementsLastWriterWins`, the refinement;
- `PinsStayForward`: the action property `PinsMoveForward`.

The assumption is `HistoryMergeAssumption` (types and positive bounds; a page is a
sequence of `Offers`), which TLC evaluates in both runs of `MCHistoryMerge`.

*The argument.* `HistoryInv` adds to the types that an absent id has no version and
a present one a stamp (`TableOK`), that what a merge has in hand are indices of its
page (`MergeOK`), that a waiting pin was not older than the snapshot's unless the
page deletes its item (`PinsDecided`), and that a debt is on the page of the merge
that owes it, with a row no older (`DebtsCovered`). `PeersOwe` adds that only peers
owe, so that the end of a cloud page, which reports nothing, leaves nobody's debt
behind. A page is decided by the recursive function
`Simulated` and written by `Written`; both are shown to repeat one step, by a least
counterexample among the indices (`LeastNat` of `OrderLemmas`), so that what one
step keeps the page keeps: the table stays unique, and a stored version is `Newer`
than what the snapshot held. Every step is then a `TableStep`: an item is left,
moves up, is dropped while live, or is exposed. Refinement and pins follow from
that alone.

`CloudTableProofs` proves, for any devices, any finite set of items, and any limits,
skew and drift:

- `CloudTypeCorrect`: `Spec => []TypeOK`;
- `NoRowIsPassedBy`: `Spec => []NoRowPassedBy`;
- `StaleRowsAreAnswered`: `Spec => []StaleRowIsRepublished`;
- `WatermarkIsMonotonic`: the action property `WatermarkMovesForward`.

The assumption is `CloudTableAssumption` (types and positive limits).

*The argument.* The watermark is saved at the end of a page, from a cursor chosen
when the page was fetched; in between other devices replace rows. `CloudInv` says
what the round still owes: the rows up to the page's last position are held, are on
the page, were refused, or arrived behind (`GotUpTo`); a stale row is owed beyond what
the round under way will settle, lies past the position, is on the page or declined by
it, or the version that makes it stale was raised here (`StaleUpTo`); a row of the page is as fetched, or changed to one past the page or
behind (`PageIsCurrent`); and what is to be sent is what is held unless
something was noted since (`SendOK`). `mark <= offered` makes a row that
arrives at or before the watermark one that is `behind`.

`MembershipProofs` proves, for any devices and any number of ceremonies, removals and
faults:

- `MembershipTypeCorrect`: `Spec => []TypeOK`;
- `CredentialsMirror`: `Spec => []CertificatesMirror`;
- `AdmissionsAreCertified`: `Spec => []AdmissionsAreOwn`;
- `RemovedCanReturn`: `Spec => []UndisturbedDeviceCanReturn`;
- `RemovalIsFinal`: the action property `NoReturnWithoutCeremony`;
- `PublishedIsKnown`: `Spec => []PublishedRemovalsAreKnown`;
- `RostersComeTogether`: `Spec => []SettledRostersAgree`.

The assumption is `MembershipAssumption` (types).

*The argument.* Whether two devices can agree depends on every roster that may still
arrive, so `MembershipInv` bounds all of them, in memory, in files, published and in
flight, by what their subject certifies of itself (`RostersBounded`). A ceremony
has two ends that move apart: `SidesInv` says what a half that is still open may
count on, `SlotsInv` that the credentials it leaves mirror each other and are of
generations certified, being certified, or lost. A first roster exchange trusts
the credential it began with, so `SessionInv` says that a fresh one was certified
by the other end, above every removal it sends. `StoreInv` is what a projection
keeps (`Project`), and `FilesFollow` lets a restart read back nothing else, except on
an `unconfirmed` device. `KnownInv` carries what was downloaded through the steps
that raise removals. For `RostersComeTogether`, `TidyInv` says that a roster keeps
members only and that credentials for them are not of an older generation: the two
devices then reach each other, over the scoped key if the credentials differ
(`SettledReach`), `RostersBounded` leaves nothing to refuse, and a merge that
changes neither roster makes each at least the other (`NothingToTeach`).

`CaptureProofs` proves, for both back ends, any contents and change counts, and with
every failure allowed at any time:

- `CaptureTypeCorrect`: `Spec => []TypeOK`;
- `PrivateIsNotStored`: `Spec => []PrivateStaysPrivate`;
- `OwnWritesStayOut`: `Spec => []OwnWritesAreNotCaptured`;
- `AcceptedIsNotDropped`: `Spec => []AcceptedIsAnsweredFor`;
- `ReceivedReplacesOlder`: the action property `ReceivedIsNewer`.

The assumption is `CaptureAssumption` (types, known back ends).

*The argument.* What is stored was seen by a poll earlier and waited in the slot, so
`CaptureInv` follows a change count through those places. `PrivateIsAcknowledged`:
private content on the clipboard is acknowledged before ticks may poll again, or a
resume is about to. `OwnIsKnown`: the daemon's write on the clipboard is under the
cursor or the sentinel, unless it was left uncovered. `PollOK`: the daemon has not written since a poll under way
looked. `SlotOK`: what waits was accepted outside private mode, and a switch since
then has withdrawn it. `ShownIsNoted`: the clipboard's stamp has been noted, which is what
`ReceivedIsNewer` compares with. `Past` orders all counts below the clipboard's.

*What the attempts found.* Six statements were false beyond the bounds they had
been checked with, or not as meant, and were corrected with TLC's counterexample in
hand; the bounds of the runs reach all but the second, and the case with two
devices of the last.

- `Membership`: after a rollback that could not be written, a restart brings the
  slot back, and with it a generation its device never certified. It takes two
  faults; the device now counts as `unconfirmed`, and the run has two faults.
- `Membership`: `SettledRostersAgree` said that rosters agree once nothing is left
  to download and no session teaches anything. With two ceremonies and two removals
  among three devices the refusal and the rollback of section 4 leave two devices
  apart. It is now said of devices that have a credential for each other, and
  `PublishedRemovalsAreKnown` says what the cloud contributes, with `declined` named.
- `Membership`: two arms of the `CASE` in `Project` overlapped, which leaves the
  choice open; they are disjoint now.
- `HistoryMerge`: the bound that `TypeOK` put on the ceiling of a clear fails, for
  rowids grow past the number of items; it is now any natural number.
- `HistoryMerge`: a page that deletes an item and brings it back resets its pin,
  so `PinsMoveForward` names that gap (`Restarted`), and the run has such a page.
- `PeerRelay`: the gaps recorded what they let go only if the cursors left it
  uncovered or the *peer's* side of a session was running (`AtRisk`). A version can
  go with the device's own side open: a row is withheld, the receiver's commit is not
  saved, and the sender, still in the session, then clears its floor. With three
  devices, a row stored by a session that is lost also goes when the device has
  dialled the peer and the peer has not accepted. Both are the named gaps at
  another moment; `AtRisk` now counts either side, and the run has two faults.

*Left to TLC.* Liveness (`ReadableRowsReachCloud`, `VersionsSpread`,
`ReadableRowsArrive`, `CopiesAreCaptured`), for which the prover has no rules
(`ENABLED` and fairness). Every invariant and action property that a passing run
checks is proved.

## 6. Not modelled

- Formats, encryption, the Noise handshake, discovery, HTTP and websockets: an
  authenticated ordered channel that can be lost, a row that opens or does not.
- In `PeerRelay`, which content the dedup index or the payload check refuses: any
  row that arrives may be (likewise in `CloudTable`; `HistoryMerge` has the index).
  Summary pages within one session: a side's summaries are one step. Cursors of removed peers (`forget`, `retain`).
- In `HistoryMerge`, collections, the position of a pin among the pins, payloads
  and icons; sizes are one byte each; that a page and its parts reach the same
  history is left to the test in `batch.rs`.
- In `CloudTable`, the tie-breakers of versions with one stamp, signing in to
  another account, retries inside one request.
- In `Membership`, an identity key that is reset, names, addresses and profiles,
  the caps on members, pairings from before groups, the transfer of a pairing id
  to another device, more than one roster exchange at a time.
- In `Capture`, the Linux back ends, which content the policy cancels (exclusions,
  skip flags, blank content and the size limit are one nondeterministic
  cancellation), file references, the tokens of `capture_admission.rs`, the death of the listener
  thread, and an applied stamp that could not be saved.
- The refresh of an access token beside sign-out and sign-in with the fence of
  the driver; the round gate and the wake bit of the peer scheduler; the resumable
  file transfer and its journal; loading and updating modules.
- User interfaces, search, OCR and other recognisers.

## 7. What could come next

1. Fences and gates that no module has yet: the refresh of a session beside sign-out
   (`copypaste-cloud/src/sync/retry.rs`), the round gate and wake bit of the peer
   scheduler (`copypaste-sync/src/peer_driver.rs`), `forget` and `retain` of the
   cursors on unpairing.
2. The byte budget of a scan that the sweep's own offers use up
   (`copypaste-sync/src/store.rs`, line 186), as a liveness property.
3. Resumable file transfers and their journal.
