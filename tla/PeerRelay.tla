------------------------------ MODULE PeerRelay ------------------------------
(***************************************************************************)
(* How versions of history rows travel between paired devices.             *)
(*                                                                         *)
(* Each device keeps, for every peer, a cursor                             *)
(* (crates/copypaste-p2p/src/peers/cursor.rs): how far it has received that*)
(* peer's history, and a relay floor, the oldest stamp it has written since*)
(* and still owes the peer.  A session (sync/session.rs) exchanges the     *)
(* summaries each side has at or past what the other has received, lowered *)
(* to the relay floor, asks for the versions that win, and applies them;   *)
(* afterwards each side commits its own cursor (node/mod.rs,               *)
(* record_cursor), which also clears the relay floor of that peer and      *)
(* lowers the floor of every other one.  Captures, imports and the cloud   *)
(* write rows with any stamp and then lower every floor (note_local).      *)
(*                                                                         *)
(* A version is its stamp: what decides between versions with one stamp is *)
(* not modelled here.                                                      *)
(***************************************************************************)
EXTENDS Integers, FiniteSetsExt

CONSTANTS
    Devices,    \* the devices, each paired with every other
    Items,      \* item ids
    MaxStamp,   \* versions are stamped 1..MaxStamp; 0 is an absent row
    RequestCap, \* MAX_REQUEST_IDS_PER_MESSAGE
    Faults      \* which of FaultKinds can happen

\* A side of a session is lost (a dropped connection, a timeout, a round
\* aborted by a wake), a requested row is withheld, the process restarts, it
\* finds the cursor file damaged, the cursor file cannot be written, a row that
\* arrives is refused, or it is stored past its stamp.
FaultKinds == {"lost", "withhold", "restart", "damage", "unsaved", "refuse", "raise"}

ASSUME PeerRelayAssumption ==
    /\ MaxStamp \in Nat \ {0}
    /\ RequestCap \in Nat \ {0}
    /\ Faults \subseteq FaultKinds

VARIABLES
    store,      \* the stamp of each device's current version of each item
    cursor,     \* cursor[d][p], what d has recorded of its peer p
    pending,    \* <<item, stamp>> that d has written and not yet noted
    session,    \* session[<<i, r>>], dialled by i and answered by r
    horizon,    \* the clock-skew ceiling, the newest stamp anyone accepts
    missed      \* history: versions a gap of the protocol let go of

vars == <<store, cursor, pending, session, horizon, missed>>

-----------------------------------------------------------------------------
Stamps == 0..MaxStamp
Pairs == {k \in Devices \X Devices : k[1] # k[2]}
Peers(d) == Devices \ {d}
Lower(a, b) == IF a < b THEN a ELSE b

\* relay_floor_ms: None is past every stamp.
NoFloor == MaxStamp + 1
NoCursor == [since |-> 0, relay |-> NoFloor]
Cursors == [since : Stamps, relay : 0..NoFloor]

\* Mutant: the relay floor is forgotten.
AdvertiseFromPeer(c, peerSince) == peerSince

\* SyncCursor::advertise_from.
AdvertiseFrom(c, peerSince) == Lower(c.relay, peerSince)

\* note_written, for one peer's record.
NoteWritten(c, low) ==
    IF c.since <= low THEN c ELSE [c EXCEPT !.relay = Lower(@, low)]

\* record_session.
RecordSession(mark) == [since |-> mark, relay |-> NoFloor]

(* The two sides of a session.                                             *)

Roles == {"dial", "listen"}
Other(role) == IF role = "dial" THEN "listen" ELSE "dial"
Side(k, role) == IF role = "dial" THEN k[1] ELSE k[2]

NoRows == [x \in Items |-> 0]
NoSession ==
    [step |-> "none",
     cursor |-> [role \in Roles |-> NoCursor], \* as the side read it
     offer |-> [role \in Roles |-> NoRows],    \* the summaries it sent
     newer |-> {},                             \* the listener's comparison
     sent |-> [role \in Roles |-> {}],         \* rows on their way to it
     unresolved |-> [role \in Roles |-> {}],   \* offered to it, not taken
     stored |-> [role \in Roles |-> {}],       \* rows it took over
     mark |-> [role \in Roles |-> 0],          \* the cursor it will record
     end |-> [role \in Roles |-> "open"],
     overlapped |-> FALSE]                     \* ran beside the reverse one
Steps == {"none", "dialled", "accepted", "offered", "answered", "serving",
          "returned", "closed"}
Ends == {"open", "committed", "lost"}
Sessions ==
    [step : Steps,
     cursor : [Roles -> Cursors],
     offer : [Roles -> [Items -> Stamps]],
     newer : SUBSET Items,
     sent : [Roles -> SUBSET Items],
     unresolved : [Roles -> SUBSET Items],
     stored : [Roles -> SUBSET Items],
     mark : [Roles -> Stamps],
     end : [Roles -> Ends],
     overlapped : BOOLEAN]

\* The side's task runs: it has read its cursor and has not ended.
Begun(s, role) ==
    /\ s.step # "none" /\ s.end[role] = "open"
    /\ role = "listen" => s.step # "dialled"

\* Device d is in a session with p.
InSession(d, p) == Begun(session[<<d, p>>], "dial") \/ Begun(session[<<p, d>>], "listen")

\* A session whose two sides have ended leaves nothing behind.
Settled(s) == IF \A role \in Roles : s.end[role] # "open" THEN NoSession ELSE s

-----------------------------------------------------------------------------
(* One session's calculations.                                             *)

\* Mutant: a row stamped like the cursor counts as received.
SummaryPageStrict(d, from) ==
    [x \in Items |-> IF store[d][x] > from THEN store[d][x] ELSE 0]

\* The rows of device d stamped at or past `from`, from next_page.
SummaryPage(d, from) ==
    [x \in Items |-> IF store[d][x] >= from THEN store[d][x] ELSE 0]

\* The offered rows that win against what d holds now.
Winning(d, offer) == {x \in Items : offer[x] > store[d][x]}

\* plan_workspace and finish_plan: of the winning rows under the ceiling, the
\* newest, as many as one request may name.
Plans(offer, winning) ==
    LET cand == {x \in winning : offer[x] <= horizon}
    IN  {W \in SUBSET cand :
            /\ Cardinality(W) = Lower(RequestCap, Cardinality(cand))
            /\ \A x \in W, y \in cand \ W : offer[x] >= offer[y]}

\* The rows that keep the cursor back: stamped past the ceiling, or winning
\* and not delivered.  A row that is delivered and then refused is `attempted`,
\* and does not.
Unresolved(offer, winning, sent) ==
    {x \in Items : offer[x] > horizon} \cup (winning \ sent)

\* Mutants: only what blocks counts; only what was reached counts.
WatermarkBlocked(previous, offer, unresolved) ==
    Min({NoFloor} \cup {offer[x] : x \in unresolved})
WatermarkReached(previous, offer, unresolved) ==
    Max({previous} \cup {offer[x] : x \in Items \ unresolved})

\* workspace_watermark: the newest row that is resolved, but no further than
\* the oldest one that is not.
Watermark(previous, offer, unresolved) ==
    Lower(Max({previous} \cup {offer[x] : x \in Items \ unresolved}),
          Min({NoFloor} \cup {offer[x] : x \in unresolved}))

\* The rows that still win when they arrive at d.
Arrived(d, offer, sent) == {x \in sent : offer[x] > store[d][x]}

\* What apply_batch may do with rows that win: refuse some (the dedup index
\* holds their content under another id, or their payload is not accepted), and
\* raise some past their stamp (a row of d's own had a privacy choice to keep).
MayApply(d, offer, sent, refused, raised) ==
    /\ refused \subseteq Arrived(d, offer, sent)
    /\ raised \subseteq {x \in Arrived(d, offer, sent) \ refused :
                            store[d][x] > 0 /\ offer[x] < MaxStamp}
    /\ refused # {} => "refuse" \in Faults
    /\ raised # {} => "raise" \in Faults

\* What d holds once it has taken the rows `taken` of `offer`.
AppliedTo(d, offer, taken, raised) ==
    [x \in Items |-> IF x \in raised THEN offer[x] + 1
                     ELSE IF x \in taken THEN offer[x] ELSE store[d][x]]

\* The peer still has the version it offered, and does not withhold it.
Fetched(rows, offer, wanted, withheld) ==
    {x \in wanted \ withheld : rows[x] = offer[x]}

-----------------------------------------------------------------------------
(* Coverage: what still promises that a version will be offered.           *)

Owed(d, p, x) == store[d][x] > store[p][x]

\* A session begun now would not offer p the version d holds.
Uncovered(d, p, x) ==
    store[d][x] < AdvertiseFrom(cursor[d][p], cursor[p][d].since)

\* The same, or a session under way may still bring it about: d's side clears
\* its floor, p's side raises its cursor.
AtRisk(d, p, x) ==
    Owed(d, p, x) /\ (Uncovered(d, p, x) \/ InSession(d, p) \/ InSession(p, d))

\* d has yet to note the version: its writer is about to, or the session that
\* stored it has not committed.
NoteDue(d, x) ==
    \/ <<x, store[d][x]>> \in pending[d]
    \/ \E p \in Peers(d) :
          \/ /\ Begun(session[<<d, p>>], "dial")
             /\ x \in session[<<d, p>>].stored["dial"]
          \/ /\ Begun(session[<<p, d>>], "listen")
             /\ x \in session[<<p, d>>].stored["listen"]

Stranded(d, p, x) ==
    /\ Owed(d, p, x) /\ Uncovered(d, p, x) /\ ~NoteDue(d, x)
    /\ session[<<d, p>>] = NoSession /\ session[<<p, d>>] = NoSession

\* The gaps through which a version can be let go, and what a step lets go
\* through one of them: the rows X, or those of X that it leaves at risk.
Gaps == {"in session", "racing", "own cursor", "uncommitted", "peer lost",
         "overlap", "restart", "damage", "unsaved", "refused", "raised"}
Missing(gap, d, p, X) == {<<gap, d, p, x, store'[d][x]>> : x \in X}
MissingAtRisk(gap, d, p, X) == Missing(gap, d, p, {x \in X : AtRisk(d, p, x)'})
Missed(d, p, x) == \E gap \in Gaps : <<gap, d, p, x, store[d][x]>> \in missed

\* Rows X were noted for p with the floor `low`: a session that has read its
\* cursor will clear the floor; and no floor is kept when d's own cursor is not
\* past it, although p's may be, or may soon be.
NoteGaps(d, p, X, low) ==
    IF cursor[d][p].since > low
    THEN IF InSession(d, p)' THEN Missing("in session", d, p, X) ELSE {}
    ELSE IF (InSession(d, p) \/ InSession(p, d))' THEN Missing("racing", d, p, X)
    ELSE MissingAtRisk("own cursor", d, p, X)

\* What d's application of rows that p offered lets go: the versions of p that
\* d refused, and the raised ones of d, which it notes for its other peers only.
ApplyGaps(d, p, offer, refused, raised) ==
    {<<"refused", p, d, x, offer[x]>> : x \in refused}
        \cup MissingAtRisk("raised", d, p, raised)

\* The rows of which a side still holds the version it offered.
Current(k, role) == {x \in Items : session[k].offer[role][x] = store[Side(k, role)][x]}

-----------------------------------------------------------------------------
(* Actions.                                                                *)

\* Devices are paired with whatever history they have.
Init ==
    /\ store \in [Devices -> [Items -> Stamps]]
    /\ cursor = [d \in Devices |-> [p \in Devices |-> NoCursor]]
    /\ pending = [d \in Devices |-> {}]
    /\ session = [k \in Pairs |-> NoSession]
    /\ horizon \in 1..MaxStamp
    /\ missed = {}

\* A capture, a delete, an import or a row from the cloud is stored.
Write(d, x, s) ==
    /\ s > store[d][x]
    /\ store' = [store EXCEPT ![d][x] = s]
    /\ pending' = [pending EXCEPT ![d] = @ \cup {<<x, s>>}]
    /\ UNCHANGED <<cursor, session, horizon, missed>>

\* The writer's note_local, whose change of the cursors may fail to be saved
\* and is then undone.
NoteLocal(d, w, saved) ==
    /\ w \in pending[d]
    /\ saved \/ "unsaved" \in Faults
    /\ pending' = [pending EXCEPT ![d] = @ \ {w}]
    /\ cursor' = IF saved THEN [cursor EXCEPT ![d] =
                                  [p \in Devices |-> IF p = d THEN @[p]
                                                     ELSE NoteWritten(@[p], w[2])]]
                 ELSE cursor
    /\ UNCHANGED <<store, session, horizon>>
    /\ missed' = missed \cup UNION
          {IF saved THEN NoteGaps(d, p, {w[1]}, w[2])
           ELSE MissingAtRisk("unsaved", d, p, {w[1]}) : p \in Peers(d)}

\* Time moves the ceiling.
TimePasses ==
    /\ horizon < MaxStamp
    /\ horizon' = horizon + 1
    /\ UNCHANGED <<store, cursor, pending, session, missed>>

(* A session, from the dial to the two commits.                            *)

Step(k, s) ==
    /\ session' = [session EXCEPT ![k] = s]
    /\ UNCHANGED <<cursor, pending, horizon>>

\* The dialler reads its cursor and says hello.
Dial(k) ==
    LET rev == <<k[2], k[1]>>
        both == session[rev] # NoSession
    IN  /\ session[k] = NoSession
        /\ session' = [session EXCEPT
              ![k] = [NoSession EXCEPT !.step = "dialled",
                                       !.cursor["dial"] = cursor[k[1]][k[2]],
                                       !.overlapped = both],
              ![rev].overlapped = both]
        /\ UNCHANGED <<store, cursor, pending, horizon, missed>>

\* The listener reads its cursor and answers the hello.
Accept(k) ==
    /\ session[k].step = "dialled"
    /\ Step(k, [session[k] EXCEPT !.step = "accepted",
                                  !.cursor["listen"] = cursor[k[2]][k[1]]])
    /\ UNCHANGED <<store, missed>>

\* The dialler's summaries.
OfferSummaries(k) ==
    LET s == session[k]
        from == AdvertiseFrom(s.cursor["dial"], s.cursor["listen"].since)
    IN  /\ s.step = "accepted"
        /\ Step(k, [s EXCEPT !.step = "offered",
                             !.offer["dial"] = SummaryPage(k[1], from)])
        /\ UNCHANGED <<store, missed>>

\* The listener's summaries, and its comparison with the dialler's.
AnswerSummaries(k) ==
    LET s == session[k]
        from == AdvertiseFrom(s.cursor["listen"], s.cursor["dial"].since)
    IN  /\ s.step = "offered"
        /\ Step(k, [s EXCEPT !.step = "answered",
                             !.offer["listen"] = SummaryPage(k[2], from),
                             !.newer = Winning(k[2], s.offer["dial"])])
        /\ UNCHANGED <<store, missed>>

\* The dialler compares, plans and asks; the listener fetches and sends.
ServeDialler(k, withheld) ==
    LET s == session[k]
        offer == s.offer["listen"]
        winning == Winning(k[1], offer)
    IN  /\ s.step = "answered"
        /\ \E W \in Plans(offer, winning) :
              LET sent == Fetched(store[k[2]], offer, W, withheld)
              IN  /\ withheld \subseteq W
                  /\ Step(k, [s EXCEPT !.step = "serving",
                                       !.sent["dial"] = sent,
                                       !.unresolved["dial"] =
                                           Unresolved(offer, winning, sent)])
        /\ UNCHANGED <<store, missed>>

\* The dialler applies what it was sent; the listener plans and asks; the
\* dialler fetches, sends, and is left waiting for the listener to hang up.
ServeListener(k, withheld, refused, raised) ==
    LET s == session[k]
        mine == s.offer["dial"]
        theirs == s.offer["listen"]
        taken == Arrived(k[1], theirs, s.sent["dial"]) \ refused
        mark == Watermark(s.cursor["dial"].since, theirs, s.unresolved["dial"])
    IN  /\ s.step = "serving"
        /\ MayApply(k[1], theirs, s.sent["dial"], refused, raised)
        /\ store' = [store EXCEPT ![k[1]] = AppliedTo(k[1], theirs, taken, raised)]
        /\ \E W \in Plans(mine, s.newer) :
              LET sent == Fetched(store'[k[1]], mine, W, withheld)
              IN  /\ withheld \subseteq W
                  /\ Step(k, [s EXCEPT !.step = "returned",
                                       !.stored["dial"] = taken,
                                       !.mark["dial"] = mark,
                                       !.sent["listen"] = sent,
                                       !.unresolved["listen"] =
                                           Unresolved(mine, s.newer, sent)])
        /\ missed' = missed \cup ApplyGaps(k[1], k[2], theirs, refused, raised)

\* The listener applies what it was sent and hangs up.
ApplyListener(k, refused, raised) ==
    LET s == session[k]
        offer == s.offer["dial"]
        taken == Arrived(k[2], offer, s.sent["listen"]) \ refused
    IN  /\ s.step = "returned" /\ s.end["listen"] = "open"
        /\ MayApply(k[2], offer, s.sent["listen"], refused, raised)
        /\ store' = [store EXCEPT ![k[2]] = AppliedTo(k[2], offer, taken, raised)]
        /\ Step(k, [s EXCEPT
              !.step = "closed",
              !.stored["listen"] = taken,
              !.mark["listen"] =
                  Watermark(s.cursor["listen"].since, offer, s.unresolved["listen"])])
        /\ missed' = missed \cup ApplyGaps(k[2], k[1], offer, refused, raised)

\* When a side may commit.  The dialler waits for the listener to hang up, but
\* neither a listener that fails nor one that is slow is an error.
ReadyToCommit(s, role) ==
    /\ s.end[role] = "open"
    /\ s.step \in (IF role = "dial" THEN {"returned", "closed"} ELSE {"closed"})

\* The two writes of the cursor file that a commit makes.
Saves == {"note", "session"}

\* Mutant: what was applied is not noted for the other peers.
RecordCursorAlone(d, p, low, mark, saved) ==
    [q \in Devices |-> IF q = p /\ "session" \in saved THEN RecordSession(mark)
                       ELSE cursor[d][q]]

\* record_cursor: the floors of the other peers, then this peer's cursor.  A
\* change that cannot be saved is undone.
RecordCursor(d, p, low, mark, saved) ==
    [q \in Devices |->
        IF q = p THEN IF "session" \in saved THEN RecordSession(mark) ELSE cursor[d][q]
        ELSE IF q # d /\ "note" \in saved THEN NoteWritten(cursor[d][q], low)
        ELSE cursor[d][q]]

\* A side records its cursor.
Commit(k, role, saved) ==
    LET s == session[k]
        d == Side(k, role)
        p == Side(k, Other(role))
        stored == s.stored[role]
        low == Min({NoFloor} \cup {s.offer[Other(role)][x] : x \in stored})
    IN  /\ ReadyToCommit(s, role)
        /\ saved = Saves \/ "unsaved" \in Faults
        /\ cursor' = [cursor EXCEPT ![d] = RecordCursor(d, p, low, s.mark[role], saved)]
        /\ session' = [session EXCEPT
                         ![k] = Settled([s EXCEPT !.end[role] = "committed"])]
        /\ UNCHANGED <<store, pending, horizon>>
        /\ missed' = missed
              \cup (UNION {IF "note" \in saved THEN NoteGaps(d, q, stored, low)
                           ELSE MissingAtRisk("unsaved", d, q, stored) :
                             q \in Peers(d) \ {p}})
              \cup (IF "session" \in saved THEN {}
                    ELSE MissingAtRisk("unsaved", p, d, Current(k, Other(role))))
              \cup (IF s.end[Other(role)] = "lost"
                    THEN MissingAtRisk("peer lost", d, p, Current(k, role)) ELSE {})
              \cup (IF s.overlapped
                    THEN MissingAtRisk("overlap", d, p, Items \ Current(k, role))
                            \cup MissingAtRisk("overlap", p, d,
                                                Items \ Current(k, Other(role)))
                    ELSE {})

(* Faults.                                                                 *)

\* What becomes of a session when one side of it ends without committing.
\* Until the dialler has sent everything, the other side fails with it.
WithoutSide(s, role) ==
    IF s.step = "none" \/ s.end[role] # "open" THEN s
    ELSE IF s.step \notin {"returned", "closed"} THEN NoSession
    ELSE Settled([s EXCEPT !.end[role] = "lost"])

\* What the loss of that side, which had stored the rows X, lets go: those, as
\* they are never noted (where a note would have been taken), and what a peer
\* that has committed believes delivered.
LossGaps(k, role, X) ==
    LET d == Side(k, role)
        p == Side(k, Other(role))
        Notable(q) == {x \in X : cursor[d][q].since > store'[d][x]}
    IN  (UNION {MissingAtRisk("uncommitted", d, q, Notable(q))
                  \cup MissingAtRisk("own cursor", d, q, X \ Notable(q)) :
                    q \in Peers(d) \ {p}})
          \cup (IF session[k].end[Other(role)] = "committed"
                THEN MissingAtRisk("peer lost", p, d, Current(k, Other(role))) ELSE {})

\* The rows that are reaching a side, in frames that it applies one by one.
Arriving(s, role) ==
    IF s.step = (IF role = "dial" THEN "serving" ELSE "returned")
    THEN s.sent[role] ELSE {}

\* The connection drops, the session times out, or its round is aborted, when
\* `frames` had already been taken (a row refused before that is as if it had
\* not come).  A listener that has hung up goes on to its commit; a dialler can
\* be aborted until it has committed.
LoseSide(k, role, frames, raised) ==
    LET s == session[k]
        d == Side(k, role)
        offer == s.offer[Other(role)]
        taken == Arrived(d, offer, frames)
    IN  /\ "lost" \in Faults
        /\ s.step # "none" /\ s.end[role] = "open"
        /\ role = "listen" => s.step # "closed"
        /\ frames \subseteq Arriving(s, role)
        /\ MayApply(d, offer, frames, {}, raised)
        /\ store' = [store EXCEPT ![d] = AppliedTo(d, offer, taken, raised)]
        /\ session' = [session EXCEPT ![k] = WithoutSide(@, role)]
        /\ UNCHANGED <<cursor, pending, horizon>>
        /\ missed' = missed \cup LossGaps(k, role, s.stored[role] \cup taken)
                            \cup ApplyGaps(d, Side(k, Other(role)), offer, {}, raised)

\* The application restarts; a cursor file it cannot read is taken as empty.
Restart(d, damaged) ==
    /\ "restart" \in Faults
    /\ damaged => "damage" \in Faults
    /\ pending' = [pending EXCEPT ![d] = {}]
    /\ session' = [k \in Pairs |-> IF k[1] = d THEN WithoutSide(session[k], "dial")
                                   ELSE IF k[2] = d THEN WithoutSide(session[k], "listen")
                                   ELSE session[k]]
    /\ cursor' = IF damaged THEN [cursor EXCEPT ![d] = [p \in Devices |-> NoCursor]]
                 ELSE cursor
    /\ UNCHANGED <<store, horizon>>
    /\ missed' = missed \cup UNION
          {MissingAtRisk("restart", d, p, {w[1] : w \in pending[d]})
             \cup LossGaps(<<d, p>>, "dial", session[<<d, p>>].stored["dial"])
             \cup LossGaps(<<p, d>>, "listen", session[<<p, d>>].stored["listen"])
             \cup (IF damaged
                   THEN MissingAtRisk("damage", d, p,
                                      {x \in Items : cursor[d][p].relay <= store[d][x]})
                   ELSE {}) :
               p \in Peers(d)}

Exchange ==
    \E k \in Pairs :
        \/ Dial(k) \/ Accept(k) \/ OfferSummaries(k) \/ AnswerSummaries(k)
        \/ ServeDialler(k, {}) \/ ServeListener(k, {}, {}, {})
        \/ ApplyListener(k, {}, {})
        \/ \E role \in Roles : Commit(k, role, Saves)

Notes == \E d \in Devices : \E w \in pending[d] : NoteLocal(d, w, TRUE)

Writers == \E d \in Devices, x \in Items, s \in 1..MaxStamp : Write(d, x, s)

Failures ==
    \/ \E k \in Pairs, X \in SUBSET Items :
          /\ "withhold" \in Faults /\ X # {}
          /\ ServeDialler(k, X) \/ ServeListener(k, X, {}, {})
    \/ \E k \in Pairs, refused, raised \in SUBSET Items :
          /\ refused \cup raised # {}
          /\ ServeListener(k, {}, refused, raised) \/ ApplyListener(k, refused, raised)
    \/ \E k \in Pairs, role \in Roles :
          \/ \E saved \in SUBSET Saves : saved # Saves /\ Commit(k, role, saved)
          \/ \E frames \in SUBSET Arriving(session[k], role) :
                \E raised \in SUBSET frames : LoseSide(k, role, frames, raised)
    \/ \E d \in Devices : \E w \in pending[d] : NoteLocal(d, w, FALSE)
    \/ \E d \in Devices, damaged \in BOOLEAN : Restart(d, damaged)

Next == Exchange \/ Notes \/ Writers \/ TimePasses \/ Failures

Spec == Init /\ [][Next]_vars

-----------------------------------------------------------------------------
(* Properties.                                                             *)

\* The variables have their types, and no cursor or floor is past a stamp.
TypeOK ==
    /\ store \in [Devices -> [Items -> Stamps]]
    /\ cursor \in [Devices -> [Devices -> Cursors]]
    /\ pending \in [Devices -> SUBSET (Items \X (1..MaxStamp))]
    /\ session \in [Pairs -> Sessions]
    /\ horizon \in 1..MaxStamp
    /\ missed \subseteq Gaps \X Devices \X Devices \X Items \X Stamps

\* A version that a device holds and its peer lacks will be offered by their
\* next session, unless a writer or a session is still to note it, or one of
\* the gaps let it go: "the relayed version must be re-advertised to the other
\* peer" (cursor.rs), through overlapping sessions, lost connections, withheld
\* rows, rows refused or raised, restarts and unsaved cursors.
NoStrandedVersion ==
    \A d, p \in Devices, x \in Items :
        d # p /\ Stranded(d, p, x) => Missed(d, p, x)

\* When a side is about to record its cursor, it holds every version that it
\* was offered below the mark, or a newer one, or it refused that version,
\* whatever was deferred by the request cap or the ceiling, withheld, or
\* replaced under way (workspace_watermark): the peer will not offer those again.
MarkIsDelivered ==
    \A k \in Pairs, role \in Roles : ReadyToCommit(session[k], role) =>
        \A x \in Items :
            session[k].offer[Other(role)][x] < session[k].mark[role] =>
                \/ store[Side(k, role)][x] >= session[k].offer[Other(role)][x]
                \/ <<"refused", Side(k, Other(role)), Side(k, role), x,
                     session[k].offer[Other(role)][x]>> \in missed

\* Every version reaches every peer in the end, unless one of the gaps let it
\* go, when devices keep meeting and the ceiling keeps moving: the request cap
\* only spreads it over sessions ("the rest follow next session", plan.rs).
VersionsSpread ==
    \A d, p \in Devices, x \in Items :
        d # p => []<>(~Owed(d, p, x) \/ Missed(d, p, x))
=============================================================================
