------------------------------ MODULE Capture ------------------------------
(***************************************************************************)
(* The daemon and the system clipboard: the capture loop                   *)
(* (copypaste-daemon/src/capture.rs) over a native back end                *)
(* (clipboard/{change,macos,windows}.rs), private mode                     *)
(* (copypaste-runtime/src/settings.rs, copypaste-daemon/src/host.rs), and  *)
(* the two ways in which the daemon writes to the clipboard itself: a copy *)
(* out of the history (dispatch.rs) and a clip received from another       *)
(* device (copypaste-core/src/sync/instant_clipboard.rs).                  *)
(*                                                                         *)
(* The clipboard holds one value; each write gives it the next change      *)
(* count, and the write is known by that count.  A content stands for the  *)
(* history row it is deduplicated into.                                    *)
(***************************************************************************)
EXTENDS Integers, FiniteSets

CONSTANTS
    Contents,       \* numbered in the order of their rows' ids
    MaxCount,       \* bounds the clipboard's change count
    MaxStamp,       \* bounds the clock and every stamp
    Backends        \* the native back ends to consider

ASSUME CaptureAssumption ==
    /\ Contents \subseteq Nat \ {0} /\ Contents # {}
    /\ MaxCount \in Nat /\ MaxStamp \in Nat \ {0}
    /\ Backends \subseteq {"windows", "macos"} /\ Backends # {}

VARIABLES
    backend,
    board,      \* the clipboard: count, content (0: none), stamp it is noted with
    cursor,     \* ChangeTracker::cursor
    sentinel,   \* SelfWriteSentinel
    permit,     \* ChangeSignal's stored notification (Windows)
    retry,      \* the loop's `retry`
    loop,       \* where the capture loop is
    seen,       \* the change count of the poll under way
    slot,       \* the accepted capture that is not yet stored
    private,    \* private_mode, as persisted and in force
    epoch,      \* capture_privacy_epoch
    resume,     \* the poll of settings_applied
    abandoned,  \* the settings authority was left by a panic
    rows,       \* per content, the stamp of its row; 0: none
    live,       \* the contents whose row is not a tombstone
    applied,    \* APPLIED_STAMP
    copier,     \* a copy out of the history, between its steps
    receiver,   \* a received row that waits for the settings authority
    now,
    \* History variables: sets of change counts.
    mine,       \* written by the daemon
    uncovered,  \* written by the daemon, and left without a sentinel
    hidden,     \* copied while private mode was on
    accepted,   \* taken into the slot by this process
    stored,     \* stored in the history
    withdrawn,  \* in the slot when private mode was switched
    declined,   \* given up for the capture policy or the limits
    reported,   \* given up with an error
    missed,     \* acknowledged unread, though not hidden
    reread      \* offered again by a lost cursor

clipVars == <<board, cursor, sentinel, permit, mine, uncovered, hidden, missed>>
loopVars == <<retry, loop, seen, slot, accepted, stored, declined, reported>>
setVars  == <<private, epoch, resume, abandoned, withdrawn, reread>>
rowVars  == <<rows, live, applied>>
vars == <<backend, clipVars, loopVars, setVars, rowVars, copier, receiver, now>>

Counts == 0..MaxCount
COUNT_NONE == -1
NoCapture == [count |-> COUNT_NONE, content |-> 0, at |-> 0, epoch |-> 0]
NoCopy == [step |-> "none", content |-> 0, count |-> COUNT_NONE, stamp |-> 0]
NoClip == [content |-> 0, stamp |-> 0]

Larger(m, n) == IF m >= n THEN m ELSE n

Init ==
    /\ backend \in Backends
    /\ \E c \in Contents \cup {0} : board = [count |-> 0, content |-> c, stamp |-> 0]
    /\ cursor = COUNT_NONE /\ sentinel = COUNT_NONE /\ permit = FALSE
    /\ retry = TRUE /\ loop = "waiting" /\ seen = COUNT_NONE /\ slot = NoCapture
    /\ private \in BOOLEAN /\ epoch = 0 /\ resume = "none" /\ abandoned = FALSE
    /\ rows = [c \in Contents |-> 0] /\ live = {} /\ applied = 0
    /\ copier = NoCopy /\ receiver = NoClip /\ now = 1
    /\ mine = {} /\ uncovered = {} /\ hidden = {} /\ accepted = {} /\ stored = {}
    /\ withdrawn = {} /\ declined = {} /\ reported = {} /\ missed = {} /\ reread = {}

(***************************************************************************)
(* The history, as far as the clipboard needs it.                          *)
(***************************************************************************)

\* newest_live_key: stamp 0 stands for an empty history.
NewestLive ==
    IF live = {} THEN NoClip
    ELSE LET c == CHOOSE c \in live : \A d \in live :
                      rows[c] > rows[d] \/ (rows[c] = rows[d] /\ c >= d)
         IN [content |-> c, stamp |-> rows[c]]

\* InstantClipboard::note_local.
NoteLocal(stamp) == applied' = Larger(applied, stamp)

(***************************************************************************)
(* The native clipboard.                                                   *)
(***************************************************************************)

\* An application copies c.  Windows posts WM_CLIPBOARDUPDATE, which leaves a
\* permit with the loop.
AppCopies(c) ==
    /\ board.count < MaxCount
    /\ board' = [count |-> board.count + 1, content |-> c, stamp |-> 0]
    /\ permit' = (backend = "windows")
    /\ hidden' = IF private THEN hidden \cup {board.count + 1} ELSE hidden
    /\ UNCHANGED <<backend, cursor, sentinel, mine, uncovered, missed, loopVars, setVars,
                   rowVars, copier, receiver, now>>

\* Mutant: the sentinel is armed with the count read before the write.
OwnWriteArmedEarly(c, stamp) ==
    /\ board.count < MaxCount
    /\ board' = [count |-> board.count + 1, content |-> c, stamp |-> stamp]
    /\ sentinel' = board.count
    /\ permit' = (backend = "windows")
    /\ mine' = mine \cup {board.count + 1}
    /\ UNCHANGED <<cursor, uncovered, hidden, missed>>
\* The daemon writes c, to be noted with `stamp`, while it holds the clipboard.
OwnWrite(c, stamp) ==
    /\ board.count < MaxCount
    /\ board' = [count |-> board.count + 1, content |-> c, stamp |-> stamp]
    /\ sentinel' = board.count + 1
    /\ permit' = (backend = "windows")
    /\ mine' = mine \cup {board.count + 1}
    /\ UNCHANGED <<cursor, uncovered, hidden, missed>>

\* Windows cannot tell the count of its write: the sequence number is not to be
\* had, or the write took more counts than one of ours does, which it also
\* seems to when an application wrote between `before` and the opening.  The
\* sentinel is cleared.
OwnWriteUncovered(c, stamp) ==
    /\ backend = "windows" /\ board.count < MaxCount
    /\ board' = [count |-> board.count + 1, content |-> c, stamp |-> stamp]
    /\ sentinel' = COUNT_NONE
    /\ permit' = TRUE
    /\ mine' = mine \cup {board.count + 1} /\ uncovered' = uncovered \cup {board.count + 1}
    /\ UNCHANGED <<cursor, hidden, missed>>

\* An application's copy of d lands on the daemon's write.  macOS has armed the
\* sentinel with the count of clearContents; Windows clears it, or arms it with
\* the count that it reads back, which is then the application's.
OwnWriteContended(d) ==
    /\ board.count + 1 < MaxCount
    /\ board' = [count |-> board.count + 2, content |-> d, stamp |-> 0]
    /\ \/ /\ backend = "windows" /\ sentinel' = board.count + 2
          /\ missed' = missed \cup {board.count + 2}
       \/ /\ sentinel' = IF backend = "windows" THEN COUNT_NONE ELSE board.count + 1
          /\ UNCHANGED missed
    /\ permit' = (backend = "windows")
    /\ mine' = mine \cup {board.count + 1}
    /\ hidden' = IF private THEN hidden \cup {board.count + 2} ELSE hidden
    /\ UNCHANGED <<cursor, uncovered>>

\* A write that returns without an error.
OwnWritten(c, stamp) ==
    \/ OwnWrite(c, stamp) \/ OwnWriteUncovered(c, stamp)
    \/ \E d \in Contents : OwnWriteContended(d)

\* A write of c that fails once the clipboard is empty, or with c on it but not
\* marked as concealed.  macOS clears the sentinel, Windows leaves that of an
\* earlier write.
OwnWriteFails(c) ==
    /\ board.count < MaxCount
    /\ \E left \in {0, c} :
           board' = [count |-> board.count + 1, content |-> left, stamp |-> 0]
    /\ sentinel' = IF backend = "macos" THEN COUNT_NONE ELSE sentinel
    /\ permit' = (backend = "windows")
    /\ mine' = mine \cup {board.count + 1} /\ uncovered' = uncovered \cup {board.count + 1}
    /\ UNCHANGED <<cursor, hidden, missed>>

\* ChangeTracker::observe of a count that is not the cursor.
IsSelfWrite == sentinel = seen
Observe ==
    /\ cursor' = seen
    /\ sentinel' = IF IsSelfWrite THEN COUNT_NONE ELSE sentinel

\* Whoever polls or writes holds the mutex of AppState::clipboard.
ClipboardFree == loop # "reading" /\ resume # "reading"

\* Mutant: a settings change does not keep ticks out.
AuthorityFreeOfTicks == loop # "reading"
\* Settings::enter_apply: a tick, a settings change and a received clip exclude
\* each other.
AuthorityFree == loop # "reading" /\ resume = "none"

(***************************************************************************)
(* The capture loop.                                                       *)
(***************************************************************************)

\* Mutant: only a pending capture is retried.
RetryAfterPending(pending, at) == pending # NoCapture
\* retry_required is asked of a back end with a change signal only.
RetryAfter(pending, at) == pending # NoCapture \/ (backend = "windows" /\ board.count # at)

\* wait_for_clipboard and the test of the loop for something to do.
Wake ==
    /\ loop = "waiting"
    /\ backend = "windows" => permit \/ retry
    /\ permit' = FALSE
    /\ IF slot # NoCapture \/ board.count # cursor
         THEN loop' = "woken" /\ UNCHANGED retry
         ELSE retry' = RetryAfter(NoCapture, cursor) /\ UNCHANGED loop
    /\ UNCHANGED <<backend, board, cursor, sentinel, mine, uncovered, hidden, missed,
                   seen, slot, accepted, stored, declined, reported, setVars, rowVars,
                   copier, receiver, now>>

\* The end of a tick, or of one turn of the shutdown's drain.
TickEnds(pending, at) ==
    /\ slot' = pending
    /\ loop' = IF loop = "draining" THEN "draining" ELSE "waiting"
    /\ retry' = RetryAfter(pending, at)

\* Under the settings authority, with nothing pending: poll_with_policy reads
\* the change count.
TickPolls ==
    /\ loop = "woken" /\ slot = NoCapture /\ AuthorityFree /\ ~abandoned
    /\ IF board.count = cursor
         THEN TickEnds(NoCapture, cursor) /\ UNCHANGED seen
         ELSE loop' = "reading" /\ seen' = board.count /\ UNCHANGED <<slot, retry>>
    /\ UNCHANGED <<backend, clipVars, accepted, stored, declined, reported, setVars,
                   rowVars, copier, receiver, now>>

\* No poll and no store without the authority; what was accepted is given up
\* with an error.
TickRefused ==
    /\ abandoned
    /\ loop = "woken" \/ (loop = "draining" /\ slot # NoCapture)
    /\ reported' = IF slot = NoCapture THEN reported ELSE reported \cup {slot.count}
    /\ TickEnds(NoCapture, cursor)
    /\ UNCHANGED <<backend, clipVars, seen, accepted, stored, declined, setVars, rowVars,
                   copier, receiver, now>>

\* Mutant: only the policy of the moment counts.
StillAllowedNow(p) == ~private
\* A capture meets the policy it was accepted under, and still does.
StillAllowed(p) == p.epoch = epoch /\ ~private

Retryable(outcome) == outcome = "busy"

\* persist_pending: the ingest and its announcement, a policy or a limit that
\* cancels it (an exclusion, a blank or too large content), or one of its
\* errors.
Persist(p, outcome, at) ==
    IF ~StillAllowed(p)
      THEN /\ TickEnds(NoCapture, at)
           /\ UNCHANGED <<board, stored, declined, reported, rowVars, abandoned>>
      ELSE
        \/ /\ outcome = "stored"
           /\ LET stamp == Larger(rows[p.content], p.at) IN
              /\ rows' = [rows EXCEPT ![p.content] = stamp]
              /\ live' = live \cup {p.content}
              /\ NoteLocal(stamp)
              /\ board' = IF board.count = p.count THEN [board EXCEPT !.stamp = stamp] ELSE board
           /\ stored' = stored \cup {p.count}
           /\ TickEnds(NoCapture, at)
           /\ UNCHANGED <<declined, reported, abandoned>>
        \/ /\ Retryable(outcome)
           /\ TickEnds(p, at)
           /\ UNCHANGED <<board, stored, declined, reported, rowVars, abandoned>>
        \/ /\ outcome = "cancelled"
           /\ declined' = declined \cup {p.count}
           /\ TickEnds(NoCapture, at)
           /\ UNCHANGED <<board, stored, reported, rowVars, abandoned>>
        \/ /\ outcome \in {"failed", "panic"}
           /\ reported' = reported \cup {p.count}
           /\ abandoned' = (outcome = "panic")
           /\ TickEnds(NoCapture, at)
           /\ UNCHANGED <<board, stored, declined, rowVars>>

\* The poll's second half: macOS gives nothing when the clipboard changed under
\* the read, Windows reads what is there once it is open.
TickReads(outcome) ==
    /\ loop = "reading"
    /\ Observe
    /\ seen' = COUNT_NONE
    /\ IF IsSelfWrite \/ private \/ board.content = 0
          \/ (backend = "macos" /\ board.count # seen)
         THEN /\ TickEnds(NoCapture, seen)
              /\ UNCHANGED <<board, accepted, stored, declined, reported, rowVars, abandoned>>
         ELSE /\ accepted' = accepted \cup {board.count}
              /\ Persist([count |-> board.count, content |-> board.content,
                          at |-> now, epoch |-> epoch], outcome, seen)
    /\ UNCHANGED <<backend, permit, mine, uncovered, hidden, missed, private, epoch, resume,
                   withdrawn, reread, copier, receiver, now>>

\* Windows could not open the clipboard: the cursor stays.
TickCannotOpen ==
    /\ loop = "reading" /\ backend = "windows"
    /\ TickEnds(NoCapture, cursor)
    /\ seen' = COUNT_NONE
    /\ UNCHANGED <<backend, clipVars, accepted, stored, declined, reported, setVars,
                   rowVars, copier, receiver, now>>

\* macOS: another application came to the front during the read, and the value
\* is not attributed to either.
TickCannotAttribute ==
    /\ loop = "reading" /\ backend = "macos" /\ ~IsSelfWrite
    /\ Observe
    /\ seen' = COUNT_NONE
    /\ missed' = missed \cup ({seen} \ hidden)
    /\ TickEnds(NoCapture, seen)
    /\ UNCHANGED <<backend, board, permit, mine, uncovered, hidden, accepted, stored,
                   declined, reported, setVars, rowVars, copier, receiver, now>>

\* A tick, or a turn of the drain, that finds an accepted capture.
TickPersists(outcome) ==
    /\ loop \in {"woken", "draining"} /\ slot # NoCapture /\ AuthorityFree /\ ~abandoned
    /\ Persist(slot, outcome, cursor)
    /\ UNCHANGED <<backend, cursor, sentinel, permit, mine, uncovered, hidden, missed,
                   seen, accepted, private, epoch, resume, withdrawn, reread, copier,
                   receiver, now>>

\* Shutdown is observed between ticks, and stores what was accepted first.
Shutdown ==
    /\ loop = "waiting"
    /\ loop' = "draining"
    /\ UNCHANGED <<backend, clipVars, retry, seen, slot, accepted, stored, declined,
                   reported, setVars, rowVars, copier, receiver, now>>
\* Mutant: shutdown does not wait for the store.
DrainedAtOnce == TRUE
Drained == slot = NoCapture
Stop ==
    /\ loop = "draining" /\ Drained
    /\ loop' = "stopped"
    /\ UNCHANGED <<backend, clipVars, retry, seen, slot, accepted, stored, declined,
                   reported, setVars, rowVars, copier, receiver, now>>

(***************************************************************************)
(* Settings: private mode, and the rest of the capture policy.             *)
(***************************************************************************)

\* apply_with_effects up to its effects: persisted, then in force.
SetPrivateMode ==
    /\ AuthorityFree /\ ~abandoned
    /\ private' = ~private
    /\ epoch' = epoch + 1
    /\ withdrawn' = withdrawn \cup (IF slot = NoCapture THEN {} ELSE {slot.count} \ stored)
    /\ resume' = IF private THEN "begun" ELSE "none"
    /\ UNCHANGED <<backend, clipVars, loopVars, abandoned, reread, rowVars, copier, receiver, now>>

\* A change of the exclusions, of skip_secret or of skip_transient: the epoch
\* moves, so that what is pending is cancelled.
SetCapturePolicy ==
    /\ AuthorityFree /\ ~abandoned
    /\ epoch' = epoch + 1
    /\ declined' = IF slot = NoCapture THEN declined ELSE declined \cup {slot.count}
    /\ UNCHANGED <<backend, clipVars, retry, loop, seen, slot, accepted, stored, reported,
                   private, resume, abandoned, withdrawn, reread, rowVars, copier,
                   receiver, now>>

\* settings_applied polls with a policy that is still private.
ResumePolls ==
    /\ resume = "begun"
    /\ IF board.count = cursor
         THEN resume' = "none" /\ UNCHANGED seen
         ELSE resume' = "reading" /\ seen' = board.count
    /\ UNCHANGED <<backend, clipVars, retry, loop, slot, accepted, stored, declined,
                   reported, private, epoch, abandoned, withdrawn, reread, rowVars,
                   copier, receiver, now>>
ResumeAcknowledges ==
    /\ resume = "reading"
    /\ Observe
    /\ missed' = missed \cup ({seen} \ hidden)
    /\ resume' = "none" /\ seen' = COUNT_NONE
    /\ UNCHANGED <<backend, board, permit, mine, uncovered, hidden, retry, loop, slot,
                   accepted, stored, declined, reported, private, epoch, abandoned,
                   withdrawn, reread, rowVars, copier, receiver, now>>
ResumeCannotOpen ==
    /\ resume = "reading" /\ backend = "windows"
    /\ resume' = "none" /\ seen' = COUNT_NONE
    /\ reread' = reread \cup {board.count}
    /\ UNCHANGED <<backend, clipVars, retry, loop, slot, accepted, stored, declined,
                   reported, private, epoch, abandoned, withdrawn, rowVars, copier,
                   receiver, now>>

(***************************************************************************)
(* A copy out of the history: write, promote the row, note its stamp.      *)
(***************************************************************************)

CopyWrites(c) ==
    /\ c \in live /\ copier = NoCopy /\ ClipboardFree
    /\ OwnWritten(c, 0)
    /\ copier' = [step |-> "promote", content |-> c, count |-> board.count + 1, stamp |-> 0]
    /\ UNCHANGED <<backend, loopVars, setVars, rowVars, receiver, now>>

\* The write failed half way: an error for the user, and no promotion.  (One
\* that fails before it touches the clipboard changes nothing.)
CopyFails(c) ==
    /\ c \in live /\ copier = NoCopy /\ ClipboardFree
    /\ OwnWriteFails(c)
    /\ UNCHANGED <<backend, loopVars, setVars, rowVars, copier, receiver, now>>

\* promote_copied, or NotFound for a row deleted meanwhile.
CopyPromotes ==
    LET c == copier.content
        stamp == Larger(now, Larger(rows[c], NewestLive.stamp) + 1)
    IN
    /\ copier.step = "promote"
    /\ IF c \in live
         THEN /\ stamp <= MaxStamp
              /\ rows' = [rows EXCEPT ![c] = stamp]
              /\ copier' = [copier EXCEPT !.step = "note", !.stamp = stamp]
         ELSE copier' = NoCopy /\ UNCHANGED rows
    /\ UNCHANGED <<backend, clipVars, loopVars, setVars, live, applied, receiver, now>>
CopyNotes ==
    /\ copier.step = "note"
    /\ NoteLocal(copier.stamp)
    /\ board' = IF board.count = copier.count THEN [board EXCEPT !.stamp = copier.stamp] ELSE board
    /\ copier' = NoCopy
    /\ UNCHANGED <<backend, cursor, sentinel, permit, mine, uncovered, hidden, missed,
                   loopVars, setVars, rows, live, receiver, now>>

(***************************************************************************)
(* A row from another device, and a delete.                                *)
(***************************************************************************)

\* apply_batch: the row is merged, and offered to the clipboard when it is
\* newer than everything that was live.
ReceiveStores(c, stamp) ==
    /\ receiver = NoClip /\ stamp > rows[c]
    /\ receiver' = IF stamp > NewestLive.stamp THEN [content |-> c, stamp |-> stamp] ELSE NoClip
    /\ rows' = [rows EXCEPT ![c] = stamp]
    /\ live' = live \cup {c}
    /\ UNCHANGED <<backend, clipVars, loopVars, setVars, applied, copier, now>>

\* Mutant: the newest row of the history is shown, whatever was noted.
MayShowNewest == NewestLive = receiver
\* InstantClipboard::apply, inside the gate and the settings authority.
MayShow == NewestLive = receiver /\ receiver.stamp > applied
ReceiveShows ==
    /\ receiver # NoClip /\ AuthorityFree /\ ~abandoned /\ MayShow
    /\ OwnWritten(receiver.content, receiver.stamp)
    /\ applied' = receiver.stamp
    /\ receiver' = NoClip
    /\ UNCHANGED <<backend, loopVars, setVars, rows, live, copier, now>>
ReceiveDeclines ==
    /\ receiver # NoClip /\ AuthorityFree
    /\ abandoned \/ ~MayShow
    /\ receiver' = NoClip
    /\ UNCHANGED <<backend, clipVars, loopVars, setVars, rowVars, copier, now>>
\* The native write failed: nothing is noted, and the row stays in the history.
ReceiveFails ==
    /\ receiver # NoClip /\ AuthorityFree /\ ~abandoned /\ MayShow
    /\ UNCHANGED clipVars \/ OwnWriteFails(receiver.content)
    /\ receiver' = NoClip
    /\ UNCHANGED <<backend, loopVars, setVars, rowVars, copier, now>>

DeleteRow(c) ==
    /\ c \in live /\ rows[c] < MaxStamp
    /\ live' = live \ {c}
    /\ rows' = [rows EXCEPT ![c] = Larger(now, rows[c] + 1)]
    /\ UNCHANGED <<backend, clipVars, loopVars, setVars, applied, copier, receiver, now>>

(***************************************************************************)
(* Time, and the process itself.                                           *)
(***************************************************************************)

Clock ==
    /\ now < MaxStamp
    /\ now' = now + 1
    /\ UNCHANGED <<backend, clipVars, loopVars, setVars, rowVars, copier, receiver>>

\* The process ends at any moment and starts again: cursor, sentinel, slot and
\* epoch are in memory only, private mode and the history are not.
Restart ==
    /\ cursor' = COUNT_NONE /\ sentinel' = COUNT_NONE /\ permit' = FALSE
    /\ retry' = TRUE /\ loop' = "waiting" /\ seen' = COUNT_NONE /\ slot' = NoCapture
    /\ epoch' = 0 /\ resume' = "none" /\ abandoned' = FALSE
    /\ copier' = NoCopy /\ receiver' = NoClip
    /\ accepted' = accepted \ {slot.count}
    /\ reread' = reread \cup {board.count}
    /\ UNCHANGED <<backend, board, mine, uncovered, hidden, missed, stored, declined,
                   reported, private, withdrawn, rowVars, now>>

Loop ==
    \/ Wake \/ TickPolls \/ TickRefused \/ Stop
    \/ TickReads("stored") \/ TickPersists("stored")
Resume == ResumePolls \/ ResumeAcknowledges
Copy == CopyPromotes \/ CopyNotes
Receive == ReceiveShows \/ ReceiveDeclines
Applications == \E c \in Contents : AppCopies(c)
Users ==
    \/ SetPrivateMode \/ SetCapturePolicy \/ Shutdown
    \/ \E c \in Contents : CopyWrites(c) \/ DeleteRow(c)
    \/ \E c \in Contents, s \in 1..MaxStamp : ReceiveStores(c, s)
Failures ==
    \/ \E o \in {"busy", "cancelled", "failed", "panic"} : TickReads(o) \/ TickPersists(o)
    \/ TickCannotOpen \/ TickCannotAttribute \/ ResumeCannotOpen \/ ReceiveFails
    \/ \E c \in Contents : CopyFails(c)
    \/ Restart

Next == Loop \/ Resume \/ Copy \/ Receive \/ Applications \/ Users \/ Failures \/ Clock

Spec == Init /\ [][Next]_vars

(***************************************************************************)
(* Properties.                                                             *)
(***************************************************************************)

\* Every variable has its type; a tick and the effects of a settings change
\* never hold the settings authority together (Settings::enter_apply), and
\* capture resumes only once private mode is off.
TypeOK ==
    /\ backend \in Backends
    /\ board \in [count : Counts, content : Contents \cup {0}, stamp : 0..MaxStamp]
    /\ {cursor, sentinel, seen} \subseteq Counts \cup {COUNT_NONE}
    /\ {permit, retry, private, abandoned} \subseteq BOOLEAN
    /\ loop \in {"waiting", "woken", "reading", "draining", "stopped"}
    /\ slot = NoCapture \/ slot \in [count : Counts, content : Contents, at : 1..MaxStamp, epoch : Nat]
    /\ epoch \in Nat
    /\ resume \in {"none", "begun", "reading"}
    /\ resume # "none" => ~private /\ loop # "reading"
    /\ rows \in [Contents -> 0..MaxStamp] /\ live \subseteq {c \in Contents : rows[c] > 0}
    /\ applied \in 0..MaxStamp /\ now \in 1..MaxStamp
    /\ copier = NoCopy \/ copier \in [step : {"promote", "note"}, content : Contents,
                                      count : Counts, stamp : 0..MaxStamp]
    /\ receiver = NoClip \/ receiver \in [content : Contents, stamp : 1..MaxStamp]
    /\ UNION {mine, uncovered, hidden, accepted, stored, withdrawn, declined, reported, missed,
              reread} \subseteq Counts

\* What was copied in private mode, and what had been accepted but not stored
\* when private mode was switched, never enters the history; set aside is what
\* a restart, or a resume that could not open the clipboard, offers again
\* (host.rs settings_applied, capture.rs persist_pending).
PrivateStaysPrivate == stored \cap (hidden \cup withdrawn) \subseteq reread

\* What the daemon writes to the clipboard is not captured as a copy of the
\* user's.  Set aside are a restart, which forgets the sentinel, and the writes
\* that the back end leaves without one: those of Windows whose count it cannot
\* tell ("better to re-capture our own paste-back once", windows.rs
\* arm_self_write) and those that failed half way.  A write that succeeds and
\* is armed stays out, whatever is copied, polled, resumed or received around
\* it (change.rs SelfWriteSentinel).
OwnWritesAreNotCaptured == stored \cap mine \subseteq reread \cup uncovered

\* An accepted capture waits, is stored, was withdrawn by a switch of private
\* mode, is declined by the capture policy or a limit, or is reported as
\* failed, and none waits when the loop has stopped (capture.rs, "Nothing
\* acknowledges a capture without having stored it").
AcceptedIsAnsweredFor ==
    /\ accepted \subseteq {slot.count} \cup stored \cup withdrawn \cup declined \cup reported
    /\ loop = "stopped" => slot = NoCapture

\* A received clip replaces only content that was noted with an older stamp,
\* also when the newer content's row has been deleted since
\* (instant_clipboard.rs apply, note_local).
ReceivedIsNewer ==
    [][receiver # NoClip /\ receiver' = NoClip /\ mine' # mine
         => board.stamp < receiver.stamp]_vars

\* An application's copy that stays on the clipboard, with private mode off,
\* is stored or reported in the end; set aside are the copies that the policy
\* declines and those that the back end acknowledges unread.  A copy is not
\* left behind because its event came while the loop was busy or the clipboard
\* could not be opened (capture.rs run, wait_for_clipboard).
CopiesAreCaptured ==
    \A g \in Counts :
        (board.count = g /\ cursor # g /\ board.content # 0 /\ g \notin mine)
            ~> \/ g \in stored \cup declined \cup reported \cup missed \cup hidden
               \/ board.count # g \/ private \/ abandoned
               \/ loop \in {"draining", "stopped"}
=============================================================================
