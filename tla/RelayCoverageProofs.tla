------------------------ MODULE RelayCoverageProofs ------------------------
(***************************************************************************)
(* PeerRelay strands no version through anything but the gaps it names, for*)
(* any number of devices and items, any request cap, every fault, and      *)
(* sessions of a pair that overlap.                                        *)
(*                                                                         *)
(* The inductive invariant says of every version that a device holds and a *)
(* peer lacks, that nobody is about to note and that no gap let go, what   *)
(* still promises it: the cursors as they stand or, while a session of the *)
(* pair runs, what that session has read and offered.                      *)
(***************************************************************************)
EXTENDS PeerRelayProofs

-----------------------------------------------------------------------------
(* What promises a version.                                                *)

\* The side has sent its summaries.
Offered(s, role) ==
    s.step \in {"answered", "serving", "returned", "closed"}
                  \cup (IF role = "dial" THEN {"offered"} ELSE {})

\* What session s, that never ran beside the reverse one, keeps for version v of
\* item x that the device in that role holds, when the device's floor for the
\* peer is `floor` and the peer has received up to `since`.  Before the summaries
\* are sent, they will hold the version.  Afterwards they did hold it, or a floor
\* taken since the side ended does.
Keeps(s, role, x, v, floor, since) ==
    /\ Begun(s, role) /\ ~Offered(s, role) => v >= Lower(s.cursor[role].relay, since)
    /\ Offered(s, role) /\ (s.end[role] = "open" \/ s.end[Other(role)] = "open") =>
          s.offer[role][x] = v \/ (s.end[role] # "open" /\ floor <= v)

\* The side has offered the version and committed, its peer not yet.
Awaits(s, role, x, v) ==
    /\ s.end[role] = "committed" /\ s.end[Other(role)] = "open"
    /\ s.offer[role][x] = v

\* The cursor that the peer recorded is not past the version it was offered.
Received(s, role, x, v, since) ==
    Begun(s, role) /\ s.end[Other(role)] = "committed" /\ s.offer[role][x] = v =>
        v >= since

\* The same of the two sessions of a pair, sd that the device dialled and sl that
\* it answered, and of the cursors, which do not pass the version unless a commit
\* of the peer is awaited.
Promised(x, v, floor, since, sd, sl) ==
    /\ v < Lower(floor, since) => Awaits(sd, "dial", x, v) \/ Awaits(sl, "listen", x, v)
    /\ ~sd.overlapped => Keeps(sd, "dial", x, v, floor, since)
    /\ ~sl.overlapped => Keeps(sl, "listen", x, v, floor, since)
    /\ Received(sd, "dial", x, v, since)
    /\ Received(sl, "listen", x, v, since)

Safe(d, p, x) ==
    Promised(x, store[d][x], cursor[d][p].relay, cursor[p][d].since,
             session[<<d, p>>], session[<<p, d>>])

\* A session of d with q is to note item x for d's other peers.
Stores(d, q, x) ==
    \/ Begun(session[<<d, q>>], "dial") /\ x \in session[<<d, q>>].stored["dial"]
    \/ Begun(session[<<q, d>>], "listen") /\ x \in session[<<q, d>>].stored["listen"]

DueFor(d, p, x) ==
    \/ <<x, store[d][x]>> \in pending[d]
    \/ \E q \in Peers(d) \ {p} : Stores(d, q, x)

\* Nothing but the cursors and the sessions of the pair answers for the version.
Loose(d, p, x) == Owed(d, p, x) /\ ~DueFor(d, p, x) /\ ~Missed(d, p, x)

Coverage ==
    \A d, p \in Devices, x \in Items : d # p /\ Loose(d, p, x) => Safe(d, p, x)

(* What else is true of a session.                                         *)

\* An empty session is NoSession; no side ends, and none has stored anything,
\* before the dialler has sent its last row; a device offered what it held, and
\* holds what it took over.
Sound(s, k, st) ==
    /\ s.step = "none" => s = NoSession
    /\ s.step \notin {"returned", "closed"} =>
          s.end["dial"] = "open" /\ s.end["listen"] = "open" /\ s.stored["dial"] = {}
    /\ s.step # "closed" => s.stored["listen"] = {}
    /\ \A role \in Roles, x \in Items :
          /\ s.offer[role][x] <= st[Side(k, role)][x]
          /\ x \in s.stored[role] => s.offer[Other(role)][x] <= st[Side(k, role)][x]

AllSound == \A k \in Pairs : Sound(session[k], k, store)

\* Two sessions of a pair know of each other.
Apart ==
    \A k \in Pairs : session[k] # NoSession /\ session[<<k[2], k[1]>>] # NoSession =>
                        session[k].overlapped

\* The cursor that a running side has read is still the one it recorded, except
\* that the floor may have been lowered.
HasRead(s, role, c) ==
    Begun(s, role) /\ ~s.overlapped =>
        c.since = s.cursor[role].since /\ c.relay <= s.cursor[role].relay

Reads ==
    \A k \in Pairs, role \in Roles :
        HasRead(session[k], role, cursor[Side(k, role)][Side(k, Other(role))])

RelayInv == TypeOK /\ Promises /\ AllSound /\ Apart /\ Reads /\ Coverage

-----------------------------------------------------------------------------
(* Promises, as values.                                                    *)

\* A lower floor promises more.
LEMMA LowerFloor ==
    ASSUME NEW x, NEW v \in Int, NEW floor \in Int, NEW since \in Int, NEW sd, NEW sl,
           NEW lower \in Int, lower <= floor,
           Promised(x, v, floor, since, sd, sl)
    PROVE  Promised(x, v, lower, since, sd, sl)
<1>1. v < Lower(lower, since) => v < Lower(floor, since)
    BY DEF Lower
<1>2. \A s, role : Keeps(s, role, x, v, floor, since) => Keeps(s, role, x, v, lower, since)
    BY DEF Keeps
<1> QED
    BY <1>1, <1>2 DEF Promised

\* A floor that is past the version promises nothing, and may be forgotten.
LEMMA HigherFloor ==
    ASSUME NEW x, NEW v \in Int, NEW floor \in Int, NEW since \in Int, NEW sd, NEW sl,
           NEW higher \in Int, v < floor,
           Promised(x, v, floor, since, sd, sl)
    PROVE  Promised(x, v, higher, since, sd, sl)
<1>1. v < Lower(higher, since) => v < Lower(floor, since)
    BY DEF Lower
<1>2. \A s, role : Keeps(s, role, x, v, floor, since) => Keeps(s, role, x, v, higher, since)
    BY DEF Keeps
<1> QED
    BY <1>1, <1>2 DEF Promised

\* What the cursors cover when no side of the device runs, and its floor covers
\* when the peer's does, is promised.
LEMMA FreshPromise ==
    ASSUME NEW x, NEW v \in Int, NEW floor \in Int, NEW since \in Int, NEW sd, NEW sl,
           ~(v < Lower(floor, since)),
           ~Begun(sd, "dial"), ~Begun(sl, "listen"),
           Begun(sl, "dial") \/ Begun(sd, "listen") => floor <= v
    PROVE  Promised(x, v, floor, since, sd, sl)
<1>1. Keeps(sd, "dial", x, v, floor, since)
    BY DEF Keeps, Begun, Offered, Other
<1>2. Keeps(sl, "listen", x, v, floor, since)
    BY DEF Keeps, Begun, Offered, Other
<1> QED
    BY <1>1, <1>2 DEF Promised, Received

\* The numbers that a promise is about.
LEMMA PromiseTypes ==
    ASSUME TypeOK, NEW d \in Devices, NEW p \in Devices, d # p, NEW x \in Items
    PROVE  /\ store[d][x] \in Int /\ store[d][x] >= 0
           /\ cursor[d][p].relay \in Int /\ cursor[d][p].since \in Int
           /\ cursor[p][d].relay \in Int /\ cursor[p][d].since \in Int
           /\ <<d, p>> \in Pairs /\ <<p, d>> \in Pairs /\ <<d, p>> # <<p, d>>
           /\ session[<<d, p>>] \in Sessions /\ session[<<p, d>>] \in Sessions
<1>1. cursor[d][p] \in Cursors /\ cursor[p][d] \in Cursors /\ store[d][x] \in Stamps
    BY DEF TypeOK
<1>2. <<d, p>> \in Pairs /\ <<p, d>> \in Pairs /\ <<d, p>> # <<p, d>>
    BY DEF Pairs
<1> QED
    BY <1>1, <1>2, PeerRelayAssumption DEF TypeOK, Cursors, Stamps, NoFloor

\* The same after the step.
LEMMA PromiseTypesNext ==
    ASSUME TypeOK', NEW d \in Devices, NEW p \in Devices, d # p, NEW x \in Items
    PROVE  /\ store'[d][x] \in Int /\ store'[d][x] >= 0
           /\ cursor'[d][p].relay \in Int /\ cursor'[d][p].since \in Int
           /\ cursor'[p][d].relay \in Int /\ cursor'[p][d].since \in Int
           /\ <<d, p>> \in Pairs /\ <<p, d>> \in Pairs /\ <<d, p>> # <<p, d>>
           /\ session'[<<d, p>>] \in Sessions /\ session'[<<p, d>>] \in Sessions
<1>1. cursor'[d][p] \in Cursors /\ cursor'[p][d] \in Cursors /\ store'[d][x] \in Stamps
    BY DEF TypeOK
<1>2. <<d, p>> \in Pairs /\ <<p, d>> \in Pairs /\ <<d, p>> # <<p, d>>
    BY DEF Pairs
<1> QED
    BY <1>1, <1>2, PeerRelayAssumption DEF TypeOK, Cursors, Stamps, NoFloor

-----------------------------------------------------------------------------
(* Steps that leave a pair alone, and steps that let versions go.          *)

\* The cursors cover the version, no side of d runs, and if one of p's does d's
\* floor alone covers it.
Fresh(d, p, x) ==
    /\ ~Uncovered(d, p, x) /\ ~InSession(d, p)
    /\ InSession(p, d) => cursor[d][p].relay <= store[d][x]

\* Then it is safe.
LEMMA FreshIsSafe ==
    ASSUME TypeOK', NEW d \in Devices, NEW p \in Devices, d # p, NEW x \in Items,
           Fresh(d, p, x)'
    PROVE  Safe(d, p, x)'
<1>1. ~(store'[d][x] < Lower(cursor'[d][p].relay, cursor'[p][d].since))
    BY DEF Fresh, Uncovered, AdvertiseFrom
<1>2. ~Begun(session'[<<d, p>>], "dial") /\ ~Begun(session'[<<p, d>>], "listen")
    BY DEF Fresh, InSession
<1>3. Begun(session'[<<p, d>>], "dial") \/ Begun(session'[<<d, p>>], "listen")
         => cursor'[d][p].relay <= store'[d][x]
    BY DEF Fresh, InSession
<1>4. /\ store'[d][x] \in Int /\ cursor'[d][p].relay \in Int
      /\ cursor'[p][d].since \in Int
    BY PromiseTypesNext
<1> QED
    BY <1>1, <1>2, <1>3, <1>4, FreshPromise DEF Safe

\* A version that a gap was asked about and did not let go is fresh.
LEMMA NotAtRisk ==
    ASSUME NEW d, NEW p, NEW X, NEW x \in X, NEW gap \in Gaps, Loose(d, p, x)',
           MissingAtRisk(gap, d, p, X) \subseteq missed'
    PROVE  Fresh(d, p, x)'
<1>1. <<gap, d, p, x, store'[d][x]>> \notin missed'
    BY DEF Loose, Missed
<1>2. ~AtRisk(d, p, x)'
    BY <1>1 DEF MissingAtRisk, Missing
<1> QED
    BY <1>2 DEF Loose, AtRisk, Fresh

\* A version that was noted for p and not let go is fresh.
LEMMA NotedIsFresh ==
    ASSUME TypeOK, TypeOK', NEW d \in Devices, NEW p \in Devices, d # p,
           NEW X, NEW x \in X, x \in Items, NEW low \in Int, low <= store'[d][x],
           cursor'[d][p] = NoteWritten(cursor[d][p], low),
           NoteGaps(d, p, X, low) \subseteq missed', Loose(d, p, x)'
    PROVE  Fresh(d, p, x)'
<1>1. \A gap \in Gaps : <<gap, d, p, x, store'[d][x]>> \notin missed'
    BY DEF Loose, Missed
<1>2. \A gap \in Gaps : ~(Missing(gap, d, p, X) \subseteq missed')
    BY <1>1 DEF Missing
<1>3. "in session" \in Gaps /\ "racing" \in Gaps /\ "own cursor" \in Gaps
    BY DEF Gaps
<1>4. /\ cursor[d][p].relay \in Int /\ cursor[d][p].since \in Int /\ cursor[d][p] \in Cursors
      /\ store'[d][x] \in Int /\ cursor'[p][d].since \in Int /\ cursor'[d][p].relay \in Int
    BY PromiseTypes, PromiseTypesNext DEF TypeOK
<1>5. CASE cursor[d][p].since > low
    <2>1. ~InSession(d, p)'
        BY <1>2, <1>3, <1>5 DEF NoteGaps
    <2>2. cursor'[d][p].relay = Lower(cursor[d][p].relay, low)
        BY <1>4, <1>5 DEF NoteWritten, Cursors
    <2>3. cursor'[d][p].relay <= store'[d][x]
        BY <1>4, <2>2 DEF Lower
    <2>4. ~Uncovered(d, p, x)'
        BY <1>4, <2>3 DEF Uncovered, AdvertiseFrom, Lower
    <2> QED
        BY <2>1, <2>3, <2>4 DEF Fresh
<1>6. CASE ~(cursor[d][p].since > low)
    <2>1. ~(InSession(d, p) \/ InSession(p, d))'
        BY <1>2, <1>3, <1>6 DEF NoteGaps
    <2>2. MissingAtRisk("own cursor", d, p, X) \subseteq missed'
        BY <1>6, <2>1 DEF NoteGaps
    <2> QED
        BY <1>3, <2>2, NotAtRisk
<1> QED
    BY <1>5, <1>6

\* A step that changes neither session of the pair, nor what p has received of
\* d, nor the version, and at most lowers d's floor.
LEMMA SafeFrame ==
    ASSUME TypeOK, TypeOK', NEW d \in Devices, NEW p \in Devices, d # p, NEW x \in Items,
           Safe(d, p, x), store'[d][x] = store[d][x],
           session'[<<d, p>>] = session[<<d, p>>], session'[<<p, d>>] = session[<<p, d>>],
           cursor'[p][d].since = cursor[p][d].since,
           cursor'[d][p].relay <= cursor[d][p].relay
    PROVE  Safe(d, p, x)'
<1>1. /\ store[d][x] \in Int /\ cursor[d][p].relay \in Int /\ cursor[p][d].since \in Int
      /\ cursor'[d][p].relay \in Int
    BY PromiseTypes, PromiseTypesNext
<1>2. Promised(x, store[d][x], cursor'[d][p].relay, cursor[p][d].since,
               session[<<d, p>>], session[<<p, d>>])
    BY <1>1, LowerFloor DEF Safe
<1> QED
    BY <1>2 DEF Safe

\* A version that is loose was so before, unless it is new or its note was due.
LEMMA WasLoose ==
    ASSUME TypeOK, TypeOK', StoreGrows, missed \subseteq missed',
           NEW d \in Devices, NEW p \in Devices, NEW x \in Items,
           store'[d][x] = store[d][x], Loose(d, p, x)', ~DueFor(d, p, x)
    PROVE  Loose(d, p, x)
<1>1. /\ store[d][x] \in Int /\ store[p][x] \in Int /\ store'[p][x] \in Int
      /\ store'[p][x] >= store[p][x]
    BY DEF TypeOK, Stamps, StoreGrows
<1>2. Owed(d, p, x)
    BY <1>1 DEF Loose, Owed
<1>3. ~Missed(d, p, x)
    BY DEF Loose, Missed
<1> QED
    BY <1>2, <1>3 DEF Loose

-----------------------------------------------------------------------------
(* A step of one session.                                                  *)

\* The empty session.
LEMMA EmptySession ==
    /\ NoSession \in Sessions /\ NoSession.step = "none" /\ ~NoSession.overlapped
    /\ \A role \in Roles : /\ NoSession.end[role] = "open" /\ NoSession.stored[role] = {}
                           /\ ~Begun(NoSession, role) /\ ~Offered(NoSession, role)
                           /\ \A x, v : ~Awaits(NoSession, role, x, v)
                           /\ \A x \in Items : NoSession.offer[role][x] = 0
<1>1. NoSession \in Sessions /\ NoSession.step = "none" /\ ~NoSession.overlapped
    BY NoSessionType DEF NoSession
<1>2. \A role \in Roles : /\ NoSession.end[role] = "open" /\ NoSession.stored[role] = {}
                          /\ \A x \in Items : NoSession.offer[role][x] = 0
    BY DEF NoSession, NoRows
<1>3. \A role \in Roles : ~Begun(NoSession, role) /\ ~Offered(NoSession, role)
    BY <1>1 DEF Begun, Offered
<1>4. \A role \in Roles : \A x, v : ~Awaits(NoSession, role, x, v)
    BY <1>2 DEF Awaits
<1> QED
    BY <1>1, <1>2, <1>3, <1>4

\* The sessions of a pair, seen from one side of one of them.
LEMMA PairOfSide ==
    ASSUME NEW k \in Pairs, NEW role \in Roles
    PROVE  LET d == Side(k, role)
               p == Side(k, Other(role))
           IN  /\ d \in Devices /\ p \in Devices /\ d # p
               /\ role = "dial" => k = <<d, p>> /\ <<k[2], k[1]>> = <<p, d>>
               /\ role = "listen" => k = <<p, d>> /\ <<k[2], k[1]>> = <<d, p>>
               /\ <<k[2], k[1]>> \in Pairs /\ <<k[2], k[1]>> # k
               /\ Other(role) \in Roles /\ Other(Other(role)) = role /\ Other(role) # role
    BY DEF Pairs, Side, Other, Roles

\* What the steps of a session between the two dials and the two commits do:
\* they move it to `new`, write only what its sides take over, read the cursors
\* as they stand and offer what the device holds.  What they take over is not
\* owed to the other side, or the step lets it go.
Advance(k, new) ==
    LET s == session[k]
        Peer(role) == Side(k, Other(role))
    IN  /\ session' = [session EXCEPT ![k] = new] /\ new \in Sessions
        /\ UNCHANGED <<cursor, pending>> /\ missed \subseteq missed' /\ StoreGrows
        /\ s.step # "none" /\ new.step # "none"
        /\ new.end = s.end /\ new.overlapped = s.overlapped
        /\ Sound(new, k, store')
        /\ \A role \in Roles :
              /\ s.stored[role] \subseteq new.stored[role]
              /\ Begun(s, role) => Begun(new, role)
              /\ Begun(new, role) =>
                    \/ Begun(s, role) /\ new.cursor[role] = s.cursor[role]
                    \/ s.step = "dialled" /\ new.cursor[role] = cursor[Side(k, role)][Peer(role)]
              /\ Offered(s, role) => Offered(new, role) /\ new.offer[role] = s.offer[role]
              /\ Offered(new, role) /\ ~Offered(s, role) =>
                    /\ Begun(s, role) /\ Begun(s, Other(role))
                    /\ s.step \notin {"returned", "closed"}
                    /\ \A x \in Items :
                          store[Side(k, role)][x] >=
                             Lower(s.cursor[role].relay, s.cursor[Other(role)].since) =>
                          new.offer[role][x] = store[Side(k, role)][x]
        /\ \A e \in Devices, y \in Items : store'[e][y] # store[e][y] =>
              \E role \in Roles : /\ e = Side(k, role) /\ y \in new.stored[role]
                                  /\ Begun(new, role)
                                  /\ \/ store'[e][y] <= store[Peer(role)][y]
                                     \/ ~Loose(e, Peer(role), y)'

\* A session stays sound whatever is written.
LEMMA SoundKept ==
    ASSUME TypeOK, TypeOK', StoreGrows, NEW k \in Pairs, NEW s \in Sessions,
           Sound(s, k, store)
    PROVE  Sound(s, k, store')
<1>1. \A role \in Roles, x \in Items :
         /\ Side(k, role) \in Devices
         /\ s.offer[role][x] \in Int /\ s.offer[Other(role)][x] \in Int
         /\ store[Side(k, role)][x] \in Int /\ store'[Side(k, role)][x] \in Int
         /\ store'[Side(k, role)][x] >= store[Side(k, role)][x]
    <2> SUFFICES ASSUME NEW role \in Roles, NEW x \in Items
                 PROVE  /\ Side(k, role) \in Devices
                        /\ s.offer[role][x] \in Int /\ s.offer[Other(role)][x] \in Int
                        /\ store[Side(k, role)][x] \in Int /\ store'[Side(k, role)][x] \in Int
                        /\ store'[Side(k, role)][x] >= store[Side(k, role)][x]
        OBVIOUS
    <2>1. Side(k, role) \in Devices /\ Other(role) \in Roles
        BY SideType
    <2>2. s.offer[role][x] \in Stamps /\ s.offer[Other(role)][x] \in Stamps
        BY <2>1 DEF Sessions
    <2> QED
        BY <2>1, <2>2 DEF TypeOK, Stamps, StoreGrows
<1> QED
    BY <1>1 DEF Sound

\* The parts of the invariant other than the coverage after such a step.
LEMMA AdvanceKeepsRest ==
    ASSUME TypeOK, TypeOK', AllSound, Apart, Reads, NEW k \in Pairs, NEW new,
           Advance(k, new)
    PROVE  AllSound' /\ Apart' /\ Reads'
<1> DEFINE s == session[k]
<1>1. /\ session' = [session EXCEPT ![k] = new] /\ StoreGrows /\ cursor' = cursor
      /\ s.step # "none" /\ new.overlapped = s.overlapped /\ Sound(new, k, store')
    BY DEF Advance
<1>2. session'[k] = new /\ \A j \in Pairs : j # k => session'[j] = session[j]
    BY <1>1 DEF TypeOK
<1>3. AllSound'
    <2> SUFFICES ASSUME NEW j \in Pairs PROVE Sound(session'[j], j, store')
        BY DEF AllSound
    <2>1. session[j] \in Sessions /\ Sound(session[j], j, store)
        BY DEF TypeOK, AllSound
    <2>2. Sound(session[j], j, store')
        BY <1>1, <2>1, SoundKept
    <2> QED
        BY <1>1, <1>2, <2>2
<1>4. Apart'
    <2>1. s # NoSession
        BY <1>1, EmptySession
    <2>2. \A j \in Pairs : <<j[2], j[1]>> \in Pairs
        BY DEF Pairs
    <2>3. \A j \in Pairs : /\ session'[j] # NoSession => session[j] # NoSession
                          /\ session'[j].overlapped = session[j].overlapped
        BY <1>1, <1>2, <2>1
    <2> QED
        BY <2>2, <2>3 DEF Apart
<1>5. Reads'
    <2> SUFFICES ASSUME NEW j \in Pairs, NEW role \in Roles
                 PROVE  HasRead(session'[j], role, cursor[Side(j, role)][Side(j, Other(role))])
        BY <1>1 DEF Reads
    <2>1. CASE j # k
        BY <1>2, <2>1 DEF Reads
    <2>2. CASE j = k
        <3> DEFINE c == cursor[Side(k, role)][Side(k, Other(role))]
        <3>1. HasRead(s, role, c)
            BY DEF Reads
        <3>2. Begun(new, role) => \/ Begun(s, role) /\ new.cursor[role] = s.cursor[role]
                                  \/ new.cursor[role] = c
            BY DEF Advance
        <3>3. c.relay \in Int
            BY PairOfSide, PromiseTypes, SideType DEF TypeOK, Cursors, NoFloor
        <3> HIDE DEF c
        <3>4. HasRead(new, role, c)
            BY <1>1, <3>1, <3>2, <3>3 DEF HasRead
        <3> QED
            BY <1>2, <2>2, <3>4 DEF c
    <2> QED
        BY <2>1, <2>2
<1> QED
    BY <1>3, <1>4, <1>5

\* A step of a session that never overlapped keeps what it keeps.
LEMMA AdvanceKeeps ==
    ASSUME TypeOK, AllSound, Apart, Reads, NEW k \in Pairs, NEW new, Advance(k, new),
           NEW role \in Roles, NEW x \in Items, ~session[k].overlapped,
           Safe(Side(k, role), Side(k, Other(role)), x)
    PROVE  Keeps(new, role, x, store[Side(k, role)][x],
                 cursor[Side(k, role)][Side(k, Other(role))].relay,
                 cursor[Side(k, Other(role))][Side(k, role)].since)
<1> DEFINE s == session[k]
           d == Side(k, role)
           p == Side(k, Other(role))
           v == store[d][x]
           floor == cursor[d][p].relay
           since == cursor[p][d].since
           rev == <<k[2], k[1]>>
<1> SUFFICES Keeps(new, role, x, v, floor, since)
    OBVIOUS
<1>1. /\ d \in Devices /\ p \in Devices /\ d # p
      /\ role = "dial" => k = <<d, p>> /\ rev = <<p, d>>
      /\ role = "listen" => k = <<p, d>> /\ rev = <<d, p>>
      /\ rev \in Pairs /\ Other(role) \in Roles /\ Other(Other(role)) = role
    BY PairOfSide
<1>2. /\ s.step # "none" /\ new.end = s.end
      /\ Begun(new, role) => \/ Begun(s, role) /\ new.cursor[role] = s.cursor[role]
                             \/ s.step = "dialled" /\ new.cursor[role] = cursor[d][p]
      /\ Offered(s, role) => Offered(new, role) /\ new.offer[role] = s.offer[role]
      /\ Offered(new, role) /\ ~Offered(s, role) =>
            /\ Begun(s, role) /\ Begun(s, Other(role)) /\ s.step \notin {"returned", "closed"}
            /\ v >= Lower(s.cursor[role].relay, s.cursor[Other(role)].since) =>
                  new.offer[role][x] = v
    BY DEF Advance
<1>3. session[rev] = NoSession
    BY <1>1, <1>2, EmptySession DEF Apart
<1>4. /\ Keeps(s, role, x, v, floor, since)
      /\ v < Lower(floor, since) =>
            \E r \in Roles : Awaits(s, r, x, v) \/ Awaits(session[rev], r, x, v)
    BY <1>1 DEF Safe, Promised, Roles
<1>5. s.step \notin {"returned", "closed"} => \A r \in Roles : s.end[r] = "open"
    BY DEF AllSound, Sound, Roles
<1>6. v \in Int /\ floor \in Int /\ since \in Int
    BY <1>1, PromiseTypes
<1>7. Begun(s, Other(role)) => since = s.cursor[Other(role)].since
    BY <1>1 DEF Reads, HasRead
<1> HIDE DEF s, d, p, v, floor, since, rev
<1>8. CASE Offered(s, role)
    BY <1>2, <1>4, <1>8 DEF Keeps
<1>9. CASE ~Offered(s, role) /\ Offered(new, role)
    <2>1. new.offer[role][x] = v
        BY <1>2, <1>4, <1>7, <1>9 DEF Keeps
    <2> QED
        BY <1>9, <2>1 DEF Keeps
<1>10. CASE ~Offered(new, role)
    <2>1. CASE Begun(s, role) /\ new.cursor[role] = s.cursor[role]
        BY <1>2, <1>4, <1>10, <2>1 DEF Keeps
    <2>2. CASE s.step = "dialled" /\ new.cursor[role] = cursor[d][p]
        <3>1. \A r \in Roles : ~Awaits(s, r, x, v) /\ ~Awaits(session[rev], r, x, v)
            BY <1>3, <1>5, <2>2, EmptySession DEF Awaits
        <3>2. v >= Lower(floor, since)
            BY <1>4, <1>6, <3>1 DEF Lower
        <3> QED
            BY <1>10, <2>2, <3>2 DEF Keeps, floor
    <2>3. CASE ~Begun(new, role)
        BY <1>10, <2>3 DEF Keeps
    <2> QED
        BY <1>2, <2>1, <2>2, <2>3
<1> QED
    BY <1>8, <1>9, <1>10

\* Notes that are due stay due.
LEMMA AdvanceStores ==
    ASSUME TypeOK, NEW k \in Pairs, NEW new, Advance(k, new),
           NEW d \in Devices, NEW q \in Devices, d # q, NEW x, Stores(d, q, x)
    PROVE  Stores(d, q, x)'
<1>1. /\ session'[k] = new /\ \A j \in Pairs : j # k => session'[j] = session[j]
      /\ \A role \in Roles : /\ session[k].stored[role] \subseteq new.stored[role]
                             /\ Begun(session[k], role) => Begun(new, role)
    BY DEF Advance, TypeOK
<1>2. \A j \in Pairs, role \in Roles :
         Begun(session[j], role) /\ x \in session[j].stored[role] =>
         Begun(session'[j], role) /\ x \in session'[j].stored[role]
    BY <1>1
<1>3. <<d, q>> \in Pairs /\ <<q, d>> \in Pairs /\ "dial" \in Roles /\ "listen" \in Roles
    BY DEF Pairs, Roles
<1> QED
    BY <1>2, <1>3 DEF Stores

\* The coverage after a step of one session.
LEMMA AdvanceCoverage ==
    ASSUME TypeOK, TypeOK', AllSound, Apart, Reads, Coverage,
           NEW k \in Pairs, NEW new, Advance(k, new)
    PROVE  Coverage'
<1> SUFFICES ASSUME NEW d \in Devices, NEW p \in Devices, NEW x \in Items, d # p,
                    Loose(d, p, x)'
             PROVE  Safe(d, p, x)'
    BY DEF Coverage
<1>1. /\ cursor' = cursor /\ pending' = pending /\ missed \subseteq missed' /\ StoreGrows
      /\ new.end = session[k].end /\ new.overlapped = session[k].overlapped
      /\ session'[k] = new /\ \A j \in Pairs : j # k => session'[j] = session[j]
    BY DEF Advance, TypeOK
<1>2. store'[d][x] = store[d][x]
    <2> SUFFICES ASSUME store'[d][x] # store[d][x] PROVE FALSE
        OBVIOUS
    <2>1. PICK role \in Roles :
             /\ d = Side(k, role) /\ x \in new.stored[role] /\ Begun(new, role)
             /\ \/ store'[d][x] <= store[Side(k, Other(role))][x]
                \/ ~Loose(d, Side(k, Other(role)), x)'
        BY DEF Advance
    <2> DEFINE q == Side(k, Other(role))
    <2>2. /\ q \in Devices /\ d # q
          /\ role = "dial" => k = <<d, q>>
          /\ role = "listen" => k = <<q, d>>
        BY <2>1, PairOfSide
    <2>3. CASE p = q
        <3>1. /\ store'[d][x] \in Int /\ store[q][x] \in Int /\ store'[q][x] \in Int
              /\ store'[q][x] >= store[q][x]
            BY <1>1, <2>2 DEF TypeOK, Stamps, StoreGrows
        <3>2. store'[d][x] > store'[q][x]
            BY <2>3 DEF Loose, Owed
        <3> QED
            BY <2>1, <2>3, <3>1, <3>2
    <2>4. CASE p # q
        <3>1. Stores(d, q, x)'
            BY <1>1, <2>1, <2>2 DEF Stores, Roles
        <3>2. q \in Peers(d) \ {p}
            BY <2>2, <2>4 DEF Peers
        <3> QED
            BY <3>1, <3>2 DEF Loose, DueFor
    <2> QED
        BY <2>3, <2>4
<1>3. Loose(d, p, x)
    <2>1. DueFor(d, p, x) => DueFor(d, p, x)'
        BY <1>1, <1>2, AdvanceStores DEF DueFor, Peers
    <2>2. missed \subseteq missed' /\ ~DueFor(d, p, x)
        BY <1>1, <2>1 DEF Loose
    <2> QED
        BY <1>1, <1>2, <2>2, WasLoose
<1>4. Safe(d, p, x)
    BY <1>3 DEF Coverage
<1>5. /\ cursor[d][p].relay \in Int /\ <<d, p>> \in Pairs /\ <<p, d>> \in Pairs
      /\ <<d, p>> # <<p, d>>
    BY PromiseTypes
<1>6. CASE k # <<d, p>> /\ k # <<p, d>>
    <2>1. /\ session'[<<d, p>>] = session[<<d, p>>] /\ session'[<<p, d>>] = session[<<p, d>>]
          /\ cursor'[p][d].since = cursor[p][d].since
          /\ cursor'[d][p].relay <= cursor[d][p].relay
        BY <1>1, <1>5, <1>6
    <2> QED
        BY <1>2, <1>4, <2>1, SafeFrame
<1>7. \A role \in Roles : \A v, since :
         /\ Awaits(session[k], role, x, v) => Awaits(new, role, x, v)
         /\ Received(session[k], role, x, v, since) => Received(new, role, x, v, since)
    <2> SUFFICES ASSUME NEW role \in Roles, NEW v, NEW since
                 PROVE  /\ Awaits(session[k], role, x, v) => Awaits(new, role, x, v)
                        /\ Received(session[k], role, x, v, since) =>
                              Received(new, role, x, v, since)
        OBVIOUS
    <2>1. /\ Offered(session[k], role) => new.offer[role] = session[k].offer[role]
          /\ Begun(new, role) => Begun(session[k], role) \/ session[k].step = "dialled"
        BY DEF Advance
    <2>2. session[k].end["dial"] # "open" \/ session[k].end["listen"] # "open" =>
             session[k].step \in {"returned", "closed"}
        BY DEF AllSound, Sound
    <2>3. session[k].end[role] # "open" \/ session[k].end[Other(role)] # "open" =>
             session[k].step \in {"returned", "closed"}
        BY <2>2 DEF Roles, Other
    <2>4. session[k].end[role] # "open" \/ session[k].end[Other(role)] # "open" =>
             new.offer[role] = session[k].offer[role]
        BY <2>1, <2>3 DEF Offered
    <2> QED
        BY <1>1, <2>1, <2>3, <2>4 DEF Awaits, Received
<1>8. CASE k = <<d, p>>
    <2>1. "dial" \in Roles /\ Side(k, "dial") = d /\ Side(k, Other("dial")) = p
        BY <1>8 DEF Roles, Side, Other
    <2>2. ~session[k].overlapped =>
             Keeps(new, "dial", x, store[d][x], cursor[d][p].relay, cursor[p][d].since)
        BY <1>4, <2>1, AdvanceKeeps
    <2>3. session'[<<d, p>>] = new /\ session'[<<p, d>>] = session[<<p, d>>]
        BY <1>1, <1>5, <1>8
    <2>4. Promised(x, store[d][x], cursor[d][p].relay, cursor[p][d].since,
                   new, session[<<p, d>>])
        BY <1>1, <1>4, <1>7, <1>8, <2>1, <2>2 DEF Safe, Promised
    <2> QED
        BY <1>1, <1>2, <2>3, <2>4 DEF Safe
<1>9. CASE k = <<p, d>>
    <2>1. "listen" \in Roles /\ Side(k, "listen") = d /\ Side(k, Other("listen")) = p
        BY <1>9 DEF Roles, Side, Other
    <2>2. ~session[k].overlapped =>
             Keeps(new, "listen", x, store[d][x], cursor[d][p].relay, cursor[p][d].since)
        BY <1>4, <2>1, AdvanceKeeps
    <2>3. session'[<<p, d>>] = new /\ session'[<<d, p>>] = session[<<d, p>>]
        BY <1>1, <1>5, <1>9
    <2>4. Promised(x, store[d][x], cursor[d][p].relay, cursor[p][d].since,
                   session[<<d, p>>], new)
        BY <1>1, <1>4, <1>7, <1>9, <2>1, <2>2 DEF Safe, Promised
    <2> QED
        BY <1>1, <1>2, <2>3, <2>4 DEF Safe
<1> QED
    BY <1>6, <1>8, <1>9

-----------------------------------------------------------------------------
(* The steps of a session, from the listener's hello to its hanging up.    *)

\* What Advance says of each role.
RoleAdvances(k, new, role) ==
    LET s == session[k]
        d == Side(k, role)
        p == Side(k, Other(role))
    IN  /\ s.stored[role] \subseteq new.stored[role]
        /\ Begun(s, role) => Begun(new, role)
        /\ Begun(new, role) =>
              \/ Begun(s, role) /\ new.cursor[role] = s.cursor[role]
              \/ s.step = "dialled" /\ new.cursor[role] = cursor[d][p]
        /\ Offered(s, role) => Offered(new, role) /\ new.offer[role] = s.offer[role]
        /\ Offered(new, role) /\ ~Offered(s, role) =>
              /\ Begun(s, role) /\ Begun(s, Other(role))
              /\ s.step \notin {"returned", "closed"}
              /\ \A x \in Items :
                    store[d][x] >= Lower(s.cursor[role].relay, s.cursor[Other(role)].since) =>
                    new.offer[role][x] = store[d][x]

\* The row of e was taken over from the other side of the session, which has it
\* or was let go of it.
TakenOver(k, new, e, y) ==
    \E role \in Roles : /\ e = Side(k, role) /\ y \in new.stored[role] /\ Begun(new, role)
                        /\ \/ store'[e][y] <= store[Side(k, Other(role))][y]
                           \/ ~Loose(e, Side(k, Other(role)), y)'

\* Advance, from its parts.
LEMMA AdvanceParts ==
    ASSUME NEW k \in Pairs, NEW new \in Sessions,
           session' = [session EXCEPT ![k] = new],
           UNCHANGED <<cursor, pending>>, missed \subseteq missed', StoreGrows,
           session[k].step # "none", new.step # "none",
           new.end = session[k].end, new.overlapped = session[k].overlapped,
           Sound(new, k, store'),
           RoleAdvances(k, new, "dial"), RoleAdvances(k, new, "listen"),
           \A e \in Devices, y \in Items : store'[e][y] # store[e][y] => TakenOver(k, new, e, y)
    PROVE  Advance(k, new)
<1>1. \A role \in Roles : RoleAdvances(k, new, role)
    BY DEF Roles
<1> QED
    BY <1>1 DEF Advance, RoleAdvances, TakenOver

\* A summary is of rows that the device holds, and has all from `from` on.
LEMMA SummaryFacts ==
    ASSUME TypeOK, NEW d \in Devices, NEW from, NEW x \in Items
    PROVE  /\ SummaryPage(d, from)[x] <= store[d][x]
           /\ store[d][x] >= from => SummaryPage(d, from)[x] = store[d][x]
<1>1. store[d][x] \in Int /\ store[d][x] >= 0
    BY PeerRelayAssumption DEF TypeOK, Stamps
<1> QED
    BY <1>1 DEF SummaryPage

\* The listener's hello.
LEMMA AcceptAdvances ==
    ASSUME TypeOK, TypeOK', AllSound, NEW k \in Pairs, Accept(k)
    PROVE  \E new : Advance(k, new)
<1> DEFINE s == session[k]
           new == [s EXCEPT !.step = "accepted", !.cursor["listen"] = cursor[k[2]][k[1]]]
<1>1. /\ s \in Sessions /\ Sound(s, k, store) /\ s.step = "dialled"
      /\ session' = [session EXCEPT ![k] = new] /\ store' = store
      /\ UNCHANGED <<cursor, pending, missed>>
    BY DEF TypeOK, AllSound, Accept, Step
<1>2. /\ new.step = "accepted" /\ new.offer = s.offer /\ new.stored = s.stored
      /\ new.end = s.end /\ new.overlapped = s.overlapped
      /\ new.cursor["dial"] = s.cursor["dial"] /\ new.cursor["listen"] = cursor[k[2]][k[1]]
    BY <1>1 DEF Sessions, Roles
<1>3. new \in Sessions
    BY <1>1 DEF TypeOK
<1> HIDE DEF new, s
<1>4. Sound(new, k, store')
    BY <1>1, <1>2 DEF Sound
<1>5. RoleAdvances(k, new, "dial") /\ RoleAdvances(k, new, "listen")
    BY <1>1, <1>2 DEF RoleAdvances, Begun, Offered, Side, Other, s
<1>6. Advance(k, new)
    BY <1>1, <1>2, <1>3, <1>4, <1>5, SameStore, AdvanceParts DEF s
<1> QED
    BY <1>6

\* The dialler's summaries.
LEMMA OfferAdvances ==
    ASSUME TypeOK, TypeOK', AllSound, NEW k \in Pairs, OfferSummaries(k)
    PROVE  \E new : Advance(k, new)
<1> DEFINE s == session[k]
           from == Lower(s.cursor["dial"].relay, s.cursor["listen"].since)
           rows == SummaryPage(k[1], from)
           new == [s EXCEPT !.step = "offered", !.offer["dial"] = rows]
<1>1. /\ s \in Sessions /\ Sound(s, k, store) /\ s.step = "accepted"
      /\ session' = [session EXCEPT ![k] = new] /\ store' = store
      /\ UNCHANGED <<cursor, pending, missed>>
    BY DEF TypeOK, AllSound, OfferSummaries, Step, AdvertiseFrom
<1>2. \A x \in Items : /\ rows[x] <= store[k[1]][x]
                       /\ store[k[1]][x] >= from => rows[x] = store[k[1]][x]
    <2>1. k[1] \in Devices
        BY DEF Pairs
    <2> QED
        BY <2>1, SummaryFacts
<1> HIDE DEF rows, from
<1>3. /\ new.step = "offered" /\ new.stored = s.stored
      /\ new.end = s.end /\ new.overlapped = s.overlapped /\ new.cursor = s.cursor
      /\ new.offer["dial"] = rows /\ new.offer["listen"] = s.offer["listen"]
    BY <1>1 DEF Sessions, Roles
<1>4. new \in Sessions
    BY <1>1 DEF TypeOK
<1> HIDE DEF new, s
<1>5. Sound(new, k, store')
    <2>1. \A x \in Items : x \notin new.stored["dial"] /\ x \notin new.stored["listen"]
        BY <1>1, <1>3 DEF Sound
    <2>2. \A role \in Roles, x \in Items : new.offer[role][x] <= store[Side(k, role)][x]
        BY <1>1, <1>2, <1>3 DEF Sound, Roles, Side
    <2>3. \A role \in Roles, x \in Items : x \notin new.stored[role]
        BY <2>1 DEF Roles
    <2> QED
        BY <1>1, <1>3, <2>2, <2>3 DEF Sound
<1>6. RoleAdvances(k, new, "dial")
    <2>1. s.end["dial"] = "open" /\ s.end["listen"] = "open"
        BY <1>1 DEF Sound
    <2> QED
        BY <1>1, <1>2, <1>3, <2>1 DEF RoleAdvances, Begun, Offered, Side, Other, s, from
<1>7. RoleAdvances(k, new, "listen")
    BY <1>1, <1>3 DEF RoleAdvances, Begun, Offered, Side, Other, s
<1>8. Advance(k, new)
    BY <1>1, <1>3, <1>4, <1>5, <1>6, <1>7, SameStore, AdvanceParts DEF s
<1> QED
    BY <1>8

\* The listener's summaries.
LEMMA AnswerAdvances ==
    ASSUME TypeOK, TypeOK', AllSound, NEW k \in Pairs, AnswerSummaries(k)
    PROVE  \E new : Advance(k, new)
<1> DEFINE s == session[k]
           from == Lower(s.cursor["listen"].relay, s.cursor["dial"].since)
           rows == SummaryPage(k[2], from)
           new == [s EXCEPT !.step = "answered", !.offer["listen"] = rows,
                            !.newer = Winning(k[2], s.offer["dial"])]
<1>1. /\ s \in Sessions /\ Sound(s, k, store) /\ s.step = "offered"
      /\ session' = [session EXCEPT ![k] = new] /\ store' = store
      /\ UNCHANGED <<cursor, pending, missed>>
    BY DEF TypeOK, AllSound, AnswerSummaries, Step, AdvertiseFrom
<1>2. \A x \in Items : /\ rows[x] <= store[k[2]][x]
                       /\ store[k[2]][x] >= from => rows[x] = store[k[2]][x]
    <2>1. k[2] \in Devices
        BY DEF Pairs
    <2> QED
        BY <2>1, SummaryFacts
<1> HIDE DEF rows, from
<1>3. /\ new.step = "answered" /\ new.stored = s.stored
      /\ new.end = s.end /\ new.overlapped = s.overlapped /\ new.cursor = s.cursor
      /\ new.offer["listen"] = rows /\ new.offer["dial"] = s.offer["dial"]
    BY <1>1 DEF Sessions, Roles
<1>4. new \in Sessions
    BY <1>1 DEF TypeOK
<1> HIDE DEF new, s
<1>5. Sound(new, k, store')
    <2>1. \A x \in Items : x \notin new.stored["dial"] /\ x \notin new.stored["listen"]
        BY <1>1, <1>3 DEF Sound
    <2>2. \A role \in Roles, x \in Items : new.offer[role][x] <= store[Side(k, role)][x]
        BY <1>1, <1>2, <1>3 DEF Sound, Roles, Side
    <2>3. \A role \in Roles, x \in Items : x \notin new.stored[role]
        BY <2>1 DEF Roles
    <2> QED
        BY <1>1, <1>3, <2>2, <2>3 DEF Sound
<1>6. RoleAdvances(k, new, "listen")
    <2>1. s.end["dial"] = "open" /\ s.end["listen"] = "open"
        BY <1>1 DEF Sound
    <2> QED
        BY <1>1, <1>2, <1>3, <2>1 DEF RoleAdvances, Begun, Offered, Side, Other, s, from
<1>7. RoleAdvances(k, new, "dial")
    BY <1>1, <1>3 DEF RoleAdvances, Begun, Offered, Side, Other, s
<1>8. Advance(k, new)
    BY <1>1, <1>3, <1>4, <1>5, <1>6, <1>7, SameStore, AdvanceParts DEF s
<1> QED
    BY <1>8

\* The rows for the dialler.
LEMMA ServeDiallerAdvances ==
    ASSUME TypeOK, TypeOK', AllSound, NEW k \in Pairs, NEW X, ServeDialler(k, X)
    PROVE  \E new : Advance(k, new)
<1> DEFINE s == session[k]
           new(sent, unres) == [s EXCEPT !.step = "serving", !.sent["dial"] = sent,
                                         !.unresolved["dial"] = unres]
<1>1. PICK sent, unres : Step(k, new(sent, unres))
    BY DEF ServeDialler
<1> DEFINE n == new(sent, unres)
<1>2. /\ s \in Sessions /\ Sound(s, k, store) /\ s.step = "answered"
      /\ session' = [session EXCEPT ![k] = n] /\ store' = store
      /\ UNCHANGED <<cursor, pending, missed>>
    BY <1>1 DEF TypeOK, AllSound, ServeDialler, Step
<1>3. /\ n.step = "serving" /\ n.stored = s.stored /\ n.offer = s.offer
      /\ n.end = s.end /\ n.overlapped = s.overlapped /\ n.cursor = s.cursor
    BY <1>2 DEF Sessions, Roles
<1>4. n \in Sessions
    BY <1>2 DEF TypeOK
<1> HIDE DEF n, s, new
<1>5. Sound(n, k, store')
    BY <1>2, <1>3 DEF Sound
<1>6. RoleAdvances(k, n, "dial") /\ RoleAdvances(k, n, "listen")
    BY <1>2, <1>3 DEF RoleAdvances, Begun, Offered, Side, Other, s
<1>7. Advance(k, n)
    BY <1>2, <1>3, <1>4, <1>5, <1>6, SameStore, AdvanceParts DEF s
<1> QED
    BY <1>7

\* The step writes only the rows X of an offer, to d, as they were offered or
\* raised.
OnlyApplies(d, offer, X, raised) ==
    \A e \in Devices, y \in Items : store'[e][y] # store[e][y] =>
       e = d /\ y \in X /\ (y \in raised \/ store'[e][y] = offer[y])

\* What an application changes.
LEMMA AppliedChanges ==
    ASSUME TypeOK, NEW d \in Devices, NEW offer \in [Items -> Stamps], NEW sent,
           NEW refused, NEW raised, MayApply(d, offer, sent, refused, raised),
           store' = [store EXCEPT ![d] =
                        AppliedTo(d, offer, Arrived(d, offer, sent) \ refused, raised)]
    PROVE  OnlyApplies(d, offer, Arrived(d, offer, sent) \ refused, raised)
<1> DEFINE taken == Arrived(d, offer, sent) \ refused
           rows == AppliedTo(d, offer, taken, raised)
<1> SUFFICES ASSUME NEW e \in Devices, NEW y \in Items, store'[e][y] # store[e][y]
             PROVE  e = d /\ y \in taken /\ (y \in raised \/ store'[e][y] = offer[y])
    BY DEF OnlyApplies
<1>1. /\ y \in taken \/ rows[y] = store[d][y]
      /\ y \in taken => y \in raised \/ rows[y] = offer[y]
    BY AppliedFacts
<1>2. store' = [store EXCEPT ![d] = rows]
    OBVIOUS
<1> HIDE DEF taken, rows
<1>3. e = d /\ store'[d] = rows
    BY <1>2 DEF TypeOK
<1> QED
    BY <1>1, <1>3

\* A row that the side of a running session raised is not loose.
LEMMA RaisedIsNamed ==
    ASSUME NEW d, NEW p, NEW X, NEW x \in X, InSession(d, p)',
           MissingAtRisk("raised", d, p, X) \subseteq missed'
    PROVE  ~Loose(d, p, x)'
<1>1. "raised" \in Gaps
    BY DEF Gaps
<1> SUFFICES ASSUME Loose(d, p, x)' PROVE FALSE
    OBVIOUS
<1>2. Fresh(d, p, x)'
    BY <1>1, NotAtRisk
<1> QED
    BY <1>2 DEF Fresh

\* The rows are stamps after the step.
LEMMA StoredNext ==
    ASSUME TypeOK'
    PROVE  \A e \in Devices, y \in Items : store'[e][y] \in Int
    BY DEF TypeOK, Stamps

\* The step takes the rows X of an offer of p over to d, as long as their session
\* goes on.
Takes(d, p, offer, X) ==
    /\ \A e \in Devices, y \in Items : store'[e][y] # store[e][y] =>
          /\ e = d /\ y \in X
          /\ InSession(d, p)' => store'[e][y] <= store[p][y] \/ ~Loose(e, p, y)'
    /\ \A y \in X \cap Items : offer[y] <= store'[d][y]

\* That is what an application does.
LEMMA ApplicationFacts ==
    ASSUME TypeOK, TypeOK', NEW d \in Devices, NEW p \in Devices,
           NEW offer \in [Items -> Stamps], NEW sent,
           NEW refused, NEW raised, MayApply(d, offer, sent, refused, raised),
           store' = [store EXCEPT ![d] =
                        AppliedTo(d, offer, Arrived(d, offer, sent) \ refused, raised)],
           ApplyGaps(d, p, offer, refused, raised) \subseteq missed',
           \A y \in Items : offer[y] <= store[p][y]
    PROVE  Takes(d, p, offer, Arrived(d, offer, sent) \ refused)
<1> DEFINE taken == Arrived(d, offer, sent) \ refused
           rows == AppliedTo(d, offer, taken, raised)
<1>1. OnlyApplies(d, offer, taken, raised)
    BY AppliedChanges
<1>2. MissingAtRisk("raised", d, p, raised) \subseteq missed'
    BY DEF ApplyGaps
<1>3. \A y \in Items : y \in sent \ refused => rows[y] >= offer[y]
    BY AppliedFacts
<1>4. store'[d] = rows
    <2>1. store' = [store EXCEPT ![d] = rows]
        OBVIOUS
    <2> HIDE DEF rows
    <2> QED
        BY <2>1 DEF TypeOK
<1>5. \A y \in taken : y \in sent \ refused
    BY DEF Arrived
<1>6. \A y \in Items : store'[d][y] \in Int /\ offer[y] \in Int
    <2>1. \A e \in Devices, y \in Items : store'[e][y] \in Int
        BY StoredNext
    <2>2. \A y \in Items : offer[y] \in Int
        BY DEF Stamps
    <2> QED
        BY <2>1, <2>2
<1> HIDE DEF taken, rows
<1>7. ASSUME NEW e \in Devices, NEW y \in Items, store'[e][y] # store[e][y]
      PROVE  /\ e = d /\ y \in taken
             /\ InSession(d, p)' => store'[e][y] <= store[p][y] \/ ~Loose(e, p, y)'
    <2>1. e = d /\ y \in taken /\ (y \in raised \/ store'[e][y] = offer[y])
        BY <1>1, <1>7 DEF OnlyApplies
    <2>2. y \in raised /\ InSession(d, p)' => ~Loose(d, p, y)'
        BY <1>2, RaisedIsNamed
    <2> QED
        BY <2>1, <2>2
<1>8. \A y \in taken \cap Items : offer[y] <= store'[d][y]
    BY <1>3, <1>4, <1>5, <1>6
<1> QED
    BY <1>7, <1>8 DEF taken, Takes

\* The dialler applies its rows and sends the listener's.
LEMMA ServeListenerAdvances ==
    ASSUME TypeOK, TypeOK', AllSound, NEW k \in Pairs, NEW X, NEW refused, NEW raised,
           ServeListener(k, X, refused, raised)
    PROVE  \E new : Advance(k, new)
<1> DEFINE s == session[k]
           theirs == s.offer["listen"]
           got == s.sent["dial"]
           taken == Arrived(k[1], theirs, got) \ refused
           new(mark, sent, unres) ==
              [s EXCEPT !.step = "returned", !.stored["dial"] = taken, !.mark["dial"] = mark,
                        !.sent["listen"] = sent, !.unresolved["listen"] = unres]
<1>1. PICK mark, sent, unres : Step(k, new(mark, sent, unres))
    BY DEF ServeListener
<1> DEFINE n == new(mark, sent, unres)
<1>2. /\ s \in Sessions /\ Sound(s, k, store) /\ s.step = "serving"
      /\ session' = [session EXCEPT ![k] = n]
      /\ UNCHANGED <<cursor, pending>>
    BY <1>1 DEF TypeOK, AllSound, ServeListener, Step
<1>3. /\ MayApply(k[1], theirs, got, refused, raised)
      /\ store' = [store EXCEPT ![k[1]] = AppliedTo(k[1], theirs, taken, raised)]
      /\ missed' = missed \cup ApplyGaps(k[1], k[2], theirs, refused, raised)
    BY DEF ServeListener
<1>4. k[1] \in Devices /\ k[2] \in Devices /\ k = <<k[1], k[2]>> /\ theirs \in [Items -> Stamps]
    BY <1>2 DEF Pairs, Sessions, Roles
<1>5. n \in Sessions /\ session'[k] = n
    BY <1>2 DEF TypeOK
<1>6. /\ n.step = "returned" /\ n.offer = s.offer /\ n.cursor = s.cursor
      /\ n.stored["dial"] = taken /\ n.stored["listen"] = s.stored["listen"]
      /\ n.end = s.end /\ n.overlapped = s.overlapped
    BY <1>2 DEF Sessions, Roles
<1> HIDE DEF n, new
<1>7. \A y \in Items : theirs[y] <= store[k[2]][y]
    BY <1>2 DEF Sound, Roles, Side
<1>8. s.stored["dial"] = {} /\ s.stored["listen"] = {} /\ s.end["dial"] = "open"
    BY <1>2 DEF Sound
<1> HIDE DEF theirs, got, s
<1>9. StoreGrows
    BY <1>3, <1>4, AppliedGrows
<1>10. InSession(k[1], k[2])'
    BY <1>4, <1>5, <1>6, <1>8 DEF InSession, Begun
<1>11. /\ \A e \in Devices, y \in Items : store'[e][y] # store[e][y] =>
             /\ e = k[1] /\ y \in taken
             /\ store'[e][y] <= store[k[2]][y] \/ ~Loose(e, k[2], y)'
       /\ \A x \in taken \cap Items : theirs[x] <= store'[k[1]][x]
    <2> PICK o, g : o = theirs /\ g = got
        OBVIOUS
    <2>1. /\ o \in [Items -> Stamps] /\ MayApply(k[1], o, g, refused, raised)
          /\ store' = [store EXCEPT ![k[1]] =
                          AppliedTo(k[1], o, Arrived(k[1], o, g) \ refused, raised)]
          /\ ApplyGaps(k[1], k[2], o, refused, raised) \subseteq missed'
          /\ \A y \in Items : o[y] <= store[k[2]][y]
        BY <1>3, <1>4, <1>7
    <2>2. Takes(k[1], k[2], o, Arrived(k[1], o, g) \ refused)
        BY <1>4, <2>1, ApplicationFacts
    <2> QED
        BY <1>10, <2>2 DEF Takes
<1>12. Sound(s, k, store')
    BY <1>2, <1>9, SoundKept
<1> HIDE DEF taken
<1>13. Sound(n, k, store')
    <2>1. \A role \in Roles, x \in Items : n.offer[role][x] <= store'[Side(k, role)][x]
        BY <1>6, <1>12 DEF Sound
    <2>2. \A role \in Roles, x \in Items :
             x \in n.stored[role] => n.offer[Other(role)][x] <= store'[Side(k, role)][x]
        <3>1. \A x \in Items : x \in n.stored["dial"] => n.offer["listen"][x] <= store'[k[1]][x]
            BY <1>6, <1>11 DEF theirs
        <3>2. \A x \in Items : x \notin n.stored["listen"]
            BY <1>6, <1>8
        <3> QED
            BY <3>1, <3>2 DEF Roles, Side, Other
    <2> QED
        BY <1>6, <1>8, <2>1, <2>2 DEF Sound
<1>14. RoleAdvances(k, n, "dial") /\ RoleAdvances(k, n, "listen")
    BY <1>2, <1>6, <1>8 DEF RoleAdvances, Begun, Offered, Side, Other, s
<1>15. \A e \in Devices, y \in Items : store'[e][y] # store[e][y] => TakenOver(k, n, e, y)
    <2>1. "dial" \in Roles /\ Side(k, "dial") = k[1] /\ Side(k, Other("dial")) = k[2]
        BY DEF Roles, Side, Other
    <2>2. Begun(n, "dial")
        BY <1>6, <1>8 DEF Begun
    <2> QED
        BY <1>6, <1>11, <2>1, <2>2 DEF TakenOver
<1>16. Advance(k, n)
    BY <1>2, <1>3, <1>5, <1>6, <1>9, <1>13, <1>14, <1>15, AdvanceParts DEF s
<1> QED
    BY <1>16

\* The listener applies its rows.
LEMMA ApplyListenerAdvances ==
    ASSUME TypeOK, TypeOK', AllSound, NEW k \in Pairs, NEW refused, NEW raised,
           ApplyListener(k, refused, raised)
    PROVE  \E new : Advance(k, new)
<1> DEFINE s == session[k]
           offer == s.offer["dial"]
           got == s.sent["listen"]
           taken == Arrived(k[2], offer, got) \ refused
           new(mark) == [s EXCEPT !.step = "closed", !.stored["listen"] = taken,
                                  !.mark["listen"] = mark]
<1>1. PICK mark : Step(k, new(mark))
    BY DEF ApplyListener
<1> DEFINE n == new(mark)
<1>2. /\ s \in Sessions /\ Sound(s, k, store)
      /\ s.step = "returned" /\ s.end["listen"] = "open"
      /\ session' = [session EXCEPT ![k] = n]
      /\ UNCHANGED <<cursor, pending>>
    BY <1>1 DEF TypeOK, AllSound, ApplyListener, Step
<1>3. /\ MayApply(k[2], offer, got, refused, raised)
      /\ store' = [store EXCEPT ![k[2]] = AppliedTo(k[2], offer, taken, raised)]
      /\ missed' = missed \cup ApplyGaps(k[2], k[1], offer, refused, raised)
    BY DEF ApplyListener
<1>4. k[1] \in Devices /\ k[2] \in Devices /\ k = <<k[1], k[2]>> /\ offer \in [Items -> Stamps]
    BY <1>2 DEF Pairs, Sessions, Roles
<1>5. n \in Sessions /\ session'[k] = n
    BY <1>2 DEF TypeOK
<1>6. /\ n.step = "closed" /\ n.offer = s.offer /\ n.cursor = s.cursor
      /\ n.stored["listen"] = taken /\ n.stored["dial"] = s.stored["dial"]
      /\ n.end = s.end /\ n.overlapped = s.overlapped
    BY <1>2 DEF Sessions, Roles
<1> HIDE DEF n, new
<1>7. \A y \in Items : offer[y] <= store[k[1]][y]
    BY <1>2 DEF Sound, Roles, Side
<1>8. s.stored["listen"] = {}
    BY <1>2 DEF Sound
<1> HIDE DEF offer, got, s
<1>9. StoreGrows
    BY <1>3, <1>4, AppliedGrows
<1>10. InSession(k[2], k[1])'
    BY <1>2, <1>4, <1>5, <1>6 DEF InSession, Begun
<1>11. /\ \A e \in Devices, y \in Items : store'[e][y] # store[e][y] =>
             /\ e = k[2] /\ y \in taken
             /\ store'[e][y] <= store[k[1]][y] \/ ~Loose(e, k[1], y)'
       /\ \A x \in taken \cap Items : offer[x] <= store'[k[2]][x]
    <2> PICK o, g : o = offer /\ g = got
        OBVIOUS
    <2>1. /\ o \in [Items -> Stamps] /\ MayApply(k[2], o, g, refused, raised)
          /\ store' = [store EXCEPT ![k[2]] =
                          AppliedTo(k[2], o, Arrived(k[2], o, g) \ refused, raised)]
          /\ ApplyGaps(k[2], k[1], o, refused, raised) \subseteq missed'
          /\ \A y \in Items : o[y] <= store[k[1]][y]
        BY <1>3, <1>4, <1>7
    <2>2. Takes(k[2], k[1], o, Arrived(k[2], o, g) \ refused)
        BY <1>4, <2>1, ApplicationFacts
    <2> QED
        BY <1>10, <2>2 DEF Takes
<1>12. Sound(s, k, store')
    BY <1>2, <1>9, SoundKept
<1> HIDE DEF taken
<1>13. Sound(n, k, store')
    <2>1. \A role \in Roles, x \in Items : n.offer[role][x] <= store'[Side(k, role)][x]
        BY <1>6, <1>12 DEF Sound
    <2>2. \A role \in Roles, x \in Items :
             x \in n.stored[role] => n.offer[Other(role)][x] <= store'[Side(k, role)][x]
        <3>1. \A x \in Items : x \in n.stored["listen"] => n.offer["dial"][x] <= store'[k[2]][x]
            BY <1>6, <1>11 DEF offer
        <3>2. \A x \in Items : x \in n.stored["dial"] => n.offer["listen"][x] <= store'[k[1]][x]
            BY <1>6, <1>12 DEF Sound, Roles, Side, Other
        <3> QED
            BY <3>1, <3>2 DEF Roles, Side, Other
    <2> QED
        BY <1>6, <2>1, <2>2 DEF Sound
<1>14. RoleAdvances(k, n, "dial") /\ RoleAdvances(k, n, "listen")
    BY <1>2, <1>6, <1>8 DEF RoleAdvances, Begun, Offered, Side, Other, s
<1>15. \A e \in Devices, y \in Items : store'[e][y] # store[e][y] => TakenOver(k, n, e, y)
    <2>1. "listen" \in Roles /\ Side(k, "listen") = k[2] /\ Side(k, Other("listen")) = k[1]
        BY DEF Roles, Side, Other
    <2>2. Begun(n, "listen")
        BY <1>2, <1>6 DEF Begun
    <2> QED
        BY <1>6, <1>11, <2>1, <2>2 DEF TakenOver
<1>16. Advance(k, n)
    BY <1>2, <1>3, <1>5, <1>6, <1>9, <1>13, <1>14, <1>15, AdvanceParts DEF s
<1> QED
    BY <1>16

-----------------------------------------------------------------------------
(* The dial.                                                               *)

\* A dial opens a session that knows whether the reverse one runs, and tells it.
DialFacts(k, new, rev, s) ==
    LET both == session[rev] # NoSession
    IN  /\ session'[k] = new /\ session'[rev] = s
        /\ \A j \in Pairs : j # k /\ j # rev => session'[j] = session[j]
        /\ session[k] = NoSession
        /\ new.step = "dialled" /\ new.overlapped = both
        /\ new.cursor["dial"] = cursor[k[1]][k[2]]
        /\ \A role \in Roles : /\ new.end[role] = "open" /\ new.stored[role] = {}
                               /\ \A x \in Items : new.offer[role][x] = 0
        /\ s.step = session[rev].step /\ s.end = session[rev].end
        /\ s.stored = session[rev].stored /\ s.offer = session[rev].offer
        /\ s.overlapped = both
        /\ ~both => s = NoSession

\* What Dial does.
LEMMA DialDoes ==
    ASSUME TypeOK, NEW k \in Pairs, Dial(k)
    PROVE  \E new, s : DialFacts(k, new, <<k[2], k[1]>>, s)
<1> DEFINE rev == <<k[2], k[1]>>
           both == session[rev] # NoSession
           c == cursor[k[1]][k[2]]
           new == [NoSession EXCEPT !.step = "dialled", !.cursor["dial"] = c,
                                    !.overlapped = both]
           s == [session[rev] EXCEPT !.overlapped = both]
<1>1. rev \in Pairs /\ rev # k
    BY DEF Pairs
<1>2. session[k] = NoSession /\ session' = [session EXCEPT ![k] = new, ![rev].overlapped = both]
    BY DEF Dial
<1>3. session[rev] \in Sessions /\ NoSession \in Sessions
    BY <1>1, EmptySession DEF TypeOK
<1> HIDE DEF both
<1>4. /\ new.step = "dialled" /\ new.overlapped = both /\ new.cursor["dial"] = c
      /\ new.end = NoSession.end /\ new.stored = NoSession.stored
      /\ new.offer = NoSession.offer
    BY <1>3 DEF Sessions, Roles
<1>5. /\ s.step = session[rev].step /\ s.end = session[rev].end
      /\ s.stored = session[rev].stored /\ s.offer = session[rev].offer
      /\ s.overlapped = both
    BY <1>3 DEF Sessions
<1>6. ~both => s = NoSession
    <2> SUFFICES ASSUME ~both PROVE s = NoSession
        OBVIOUS
    <2>1. session[rev] = NoSession /\ NoSession.overlapped = FALSE /\ both = FALSE
        BY DEF both, NoSession
    <2>2. s = [NoSession EXCEPT !.overlapped = FALSE]
        BY <2>1
    <2> QED
        BY <1>3, <2>1, <2>2 DEF Sessions
<1>7. /\ session'[k] = new /\ session'[rev] = s
      /\ \A j \in Pairs : j # k /\ j # rev => session'[j] = session[j]
    <2> HIDE DEF new
    <2> QED
        BY <1>1, <1>2 DEF TypeOK
<1>8. \A role \in Roles : /\ new.end[role] = "open" /\ new.stored[role] = {}
                          /\ \A x \in Items : new.offer[role][x] = 0
    BY <1>4, EmptySession
<1> HIDE DEF new, s
<1>9. DialFacts(k, new, rev, s)
    BY <1>2, <1>4, <1>5, <1>6, <1>7, <1>8 DEF DialFacts, both
<1> QED
    BY <1>9

\* The invariant after a dial.
LEMMA DialKeeps ==
    ASSUME TypeOK, TypeOK', AllSound, Apart, Reads, Coverage, NEW k \in Pairs, Dial(k)
    PROVE  AllSound' /\ Apart' /\ Reads' /\ Coverage'
<1> DEFINE rev == <<k[2], k[1]>>
           both == session[rev] # NoSession
<1>1. PICK new, s : DialFacts(k, new, rev, s)
    BY DialDoes
<1>2. UNCHANGED <<store, cursor, pending, missed>>
    BY DEF Dial
<1>3. rev \in Pairs /\ rev # k /\ k = <<rev[2], rev[1]>> /\ k[1] \in Devices /\ k[2] \in Devices
    BY DEF Pairs
<1>4. /\ session'[k] = new /\ session'[rev] = s /\ session[k] = NoSession
      /\ \A j \in Pairs : j # k /\ j # rev => session'[j] = session[j]
    BY <1>1 DEF DialFacts
<1>5. /\ new.step = "dialled" /\ new.overlapped = both
      /\ new.cursor["dial"] = cursor[k[1]][k[2]]
      /\ \A role \in Roles : /\ new.end[role] = "open" /\ new.stored[role] = {}
                             /\ \A x \in Items : new.offer[role][x] = 0
    BY <1>1 DEF DialFacts
<1>6. /\ s.step = session[rev].step /\ s.end = session[rev].end
      /\ s.stored = session[rev].stored /\ s.offer = session[rev].offer
      /\ s.overlapped = both
      /\ ~both => s = NoSession
    BY <1>1 DEF DialFacts
<1> HIDE DEF rev
<1>7. AllSound'
    <2> SUFFICES ASSUME NEW j \in Pairs PROVE Sound(session'[j], j, store)
        BY <1>2 DEF AllSound
    <2>1. CASE j = k
        <3>1. \A role \in Roles, x \in Items : 0 <= store[Side(k, role)][x]
            <4>1. \A e \in Devices, x \in Items : 0 <= store[e][x]
                BY PeerRelayAssumption DEF TypeOK, Stamps
            <4> QED
                BY <4>1, SideType
        <3>2. "dial" \in Roles /\ "listen" \in Roles
            BY DEF Roles
        <3> QED
            BY <1>4, <1>5, <2>1, <3>1, <3>2 DEF Sound
    <2>2. CASE j = rev
        <3>1. Sound(session[rev], rev, store)
            BY <1>3 DEF AllSound
        <3>2. s.step = "none" => s = NoSession
            BY <1>6, <3>1 DEF Sound
        <3>3. Sound(s, rev, store)
            BY <1>6, <3>1, <3>2 DEF Sound
        <3> QED
            BY <1>4, <2>2, <3>3
    <2>3. CASE j # k /\ j # rev
        BY <1>4, <2>3 DEF AllSound
    <2> QED
        BY <2>1, <2>2, <2>3
<1>8. Apart'
    <2> SUFFICES ASSUME NEW j \in Pairs, session'[j] # NoSession,
                        session'[<<j[2], j[1]>>] # NoSession
                 PROVE  session'[j].overlapped
        BY DEF Apart
    <2>1. CASE j = k \/ j = rev
        BY <1>3, <1>4, <1>5, <1>6, <2>1 DEF rev
    <2>2. CASE j # k /\ j # rev
        <3>1. <<j[2], j[1]>> \in Pairs /\ <<j[2], j[1]>> # k /\ <<j[2], j[1]>> # rev
            BY <2>2 DEF Pairs, rev
        <3> QED
            BY <1>4, <2>2, <3>1 DEF Apart
    <2> QED
        BY <2>1, <2>2
<1>9. Reads'
    <2> SUFFICES ASSUME NEW j \in Pairs, NEW role \in Roles
                 PROVE  HasRead(session'[j], role, cursor[Side(j, role)][Side(j, Other(role))])
        BY <1>2 DEF Reads
    <2>1. CASE j = k
        <3>1. CASE role = "dial"
            <4>1. Side(k, role) = k[1] /\ Side(k, Other(role)) = k[2]
                BY <3>1 DEF Side, Other
            <4>2. cursor[k[1]][k[2]].relay \in Int
                BY <1>3, PeerRelayAssumption DEF TypeOK, Cursors, NoFloor
            <4> QED
                BY <1>4, <1>5, <2>1, <3>1, <4>1, <4>2 DEF HasRead
        <3>2. CASE role = "listen"
            BY <1>4, <1>5, <2>1, <3>2 DEF HasRead, Begun
        <3> QED
            BY <3>1, <3>2 DEF Roles
    <2>2. CASE j = rev
        BY <1>4, <1>6, <2>2, EmptySession DEF HasRead
    <2>3. CASE j # k /\ j # rev
        BY <1>4, <2>3 DEF Reads
    <2> QED
        BY <2>1, <2>2, <2>3
<1>10. Coverage'
    <2> SUFFICES ASSUME NEW d \in Devices, NEW p \in Devices, NEW x \in Items, d # p,
                        Loose(d, p, x)'
                 PROVE  Safe(d, p, x)'
        BY DEF Coverage
    <2>1. \A j \in Pairs, role \in Roles :
             Begun(session[j], role) /\ x \in session[j].stored[role] =>
             Begun(session'[j], role) /\ x \in session'[j].stored[role]
        BY <1>3, <1>4, <1>6, EmptySession DEF Begun
    <2>2. \A q \in Peers(d) : Stores(d, q, x) => Stores(d, q, x)'
        <3>1. \A q \in Peers(d) : <<d, q>> \in Pairs /\ <<q, d>> \in Pairs
            BY DEF Peers, Pairs
        <3>2. "dial" \in Roles /\ "listen" \in Roles
            BY DEF Roles
        <3> QED
            BY <2>1, <3>1, <3>2 DEF Stores
    <2>3. ~DueFor(d, p, x)
        BY <1>2, <2>2 DEF Loose, DueFor
    <2>4. Loose(d, p, x)
        BY <1>2, <2>3, SameStore, WasLoose
    <2>5. Safe(d, p, x)
        BY <2>4 DEF Coverage
    <2>6. /\ cursor[d][p].relay \in Int /\ <<d, p>> \in Pairs /\ <<p, d>> \in Pairs
          /\ <<d, p>> # <<p, d>> /\ store[d][x] \in Int /\ cursor[p][d].since \in Int
        BY PromiseTypes
    <2> DEFINE v == store[d][x]
               floor == cursor[d][p].relay
               since == cursor[p][d].since
    <2>7. CASE k # <<d, p>> /\ k # <<p, d>>
        <3>1. rev # <<d, p>> /\ rev # <<p, d>>
            BY <1>3, <2>7 DEF rev
        <3>2. /\ session'[<<d, p>>] = session[<<d, p>>]
              /\ session'[<<p, d>>] = session[<<p, d>>]
              /\ cursor'[p][d].since = cursor[p][d].since
              /\ cursor'[d][p].relay <= cursor[d][p].relay
            BY <1>2, <1>4, <2>6, <2>7, <3>1
        <3> QED
            BY <1>2, <2>5, <3>2, SafeFrame
    <2>8. \A role : /\ Awaits(session[rev], role, x, v) => Awaits(s, role, x, v)
                    /\ Received(session[rev], role, x, v, since) =>
                          Received(s, role, x, v, since)
        BY <1>6 DEF Awaits, Received, Begun
    <2>9. \A role \in Roles : /\ ~Awaits(session[k], role, x, v)
                              /\ Received(new, role, x, v, since)
        <3>1. \A role \in Roles : ~Awaits(session[k], role, x, v)
            BY <1>4, EmptySession
        <3>2. \A role \in Roles : new.end[Other(role)] = "open"
            BY <1>5 DEF Roles, Other
        <3> QED
            BY <3>1, <3>2 DEF Received
    <2>10. \A role \in Roles : ~s.overlapped => Keeps(s, role, x, v, floor, since)
        BY <1>6, EmptySession DEF Keeps
    <2>11. CASE k = <<d, p>>
        <3>1. rev = <<p, d>> /\ k[1] = d /\ k[2] = p
            BY <2>11 DEF rev
        <3>2. /\ v < Lower(floor, since) => Awaits(s, "listen", x, v)
              /\ Received(s, "listen", x, v, since)
            BY <2>5, <2>8, <2>9, <2>11, <3>1 DEF Safe, Promised, Roles
        <3>3. ~new.overlapped => Keeps(new, "dial", x, v, floor, since)
            <4> SUFFICES ASSUME ~both PROVE Keeps(new, "dial", x, v, floor, since)
                BY <1>5
            <4>1. ~Awaits(s, "listen", x, v)
                BY <1>6, EmptySession DEF Roles
            <4>2. v >= Lower(floor, since)
                BY <2>6, <3>2, <4>1 DEF Lower
            <4>3. ~Offered(new, "dial") /\ new.cursor["dial"].relay = floor
                BY <1>5, <3>1 DEF Offered
            <4> HIDE DEF v, floor, since
            <4> QED
                BY <4>2, <4>3 DEF Keeps
        <3>4. "listen" \in Roles /\ "dial" \in Roles
            BY DEF Roles
        <3> HIDE DEF v, floor, since
        <3>5. Promised(x, v, floor, since, new, s)
            BY <2>9, <2>10, <3>2, <3>3, <3>4 DEF Promised
        <3> QED
            BY <1>2, <1>4, <2>11, <3>1, <3>5 DEF Safe, v, floor, since
    <2>12. CASE k = <<p, d>>
        <3>1. rev = <<d, p>>
            BY <2>12 DEF rev
        <3>2. /\ v < Lower(floor, since) => Awaits(s, "dial", x, v)
              /\ Received(s, "dial", x, v, since)
            BY <2>5, <2>8, <2>9, <2>12, <3>1 DEF Safe, Promised, Roles
        <3>3. Keeps(new, "listen", x, v, floor, since)
            BY <1>5 DEF Keeps, Begun, Offered
        <3>4. "dial" \in Roles /\ "listen" \in Roles
            BY DEF Roles
        <3> HIDE DEF v, floor, since
        <3>5. Promised(x, v, floor, since, s, new)
            BY <2>9, <2>10, <3>2, <3>3, <3>4 DEF Promised
        <3> QED
            BY <1>2, <1>4, <2>12, <3>1, <3>5 DEF Safe, v, floor, since
    <2> QED
        BY <2>7, <2>11, <2>12
<1> QED
    BY <1>7, <1>8, <1>9, <1>10

-----------------------------------------------------------------------------
(* Writers, their notes, and time.                                         *)

\* No cursor is moved, no floor is raised.
FloorsFall ==
    \A d \in Devices, p \in Devices :
        /\ cursor'[d][p].since = cursor[d][p].since
        /\ cursor'[d][p].relay <= cursor[d][p].relay

\* A lower floor is as good for what a side has read.
LEMMA ReadLower ==
    ASSUME NEW s \in Sessions, NEW role \in Roles, NEW c, NEW low,
           c.relay \in Int, low.relay \in Int,
           low.since = c.since, low.relay <= c.relay, HasRead(s, role, c)
    PROVE  HasRead(s, role, low)
<1>1. s.cursor[role].relay \in Int
    BY PeerRelayAssumption DEF Sessions, Cursors, NoFloor
<1> QED
    BY <1>1 DEF HasRead

\* The parts other than the coverage, after a step that leaves the sessions.
LEMMA QuietKeepsRest ==
    ASSUME TypeOK, TypeOK', AllSound, Apart, Reads,
           session' = session, StoreGrows, FloorsFall
    PROVE  AllSound' /\ Apart' /\ Reads'
<1>1. AllSound'
    <2> SUFFICES ASSUME NEW k \in Pairs PROVE Sound(session[k], k, store')
        BY DEF AllSound
    <2>1. session[k] \in Sessions /\ Sound(session[k], k, store)
        BY DEF TypeOK, AllSound
    <2> QED
        BY <2>1, SoundKept
<1>2. Apart'
    BY DEF Apart
<1>3. Reads'
    <2> SUFFICES ASSUME NEW k \in Pairs, NEW role \in Roles
                 PROVE  HasRead(session[k], role, cursor'[Side(k, role)][Side(k, Other(role))])
        BY DEF Reads
    <2> DEFINE d == Side(k, role)
               p == Side(k, Other(role))
    <2>1. d \in Devices /\ p \in Devices
        BY SideType
    <2>2. cursor[d][p] \in Cursors /\ cursor'[d][p] \in Cursors /\ session[k] \in Sessions
        BY <2>1 DEF TypeOK
    <2>3. HasRead(session[k], role, cursor[d][p])
        BY DEF Reads
    <2> HIDE DEF d, p
    <2>4. /\ cursor[d][p].relay \in Int /\ cursor'[d][p].relay \in Int
          /\ cursor'[d][p].since = cursor[d][p].since
          /\ cursor'[d][p].relay <= cursor[d][p].relay
        BY <2>1, <2>2, PeerRelayAssumption DEF Cursors, NoFloor, FloorsFall
    <2>5. HasRead(session[k], role, cursor'[d][p])
        BY <2>2, <2>3, <2>4, ReadLower
    <2> QED
        BY <2>5 DEF d, p
<1> QED
    BY <1>1, <1>2, <1>3

\* A version that was loose before, after such a step.
LEMMA QuietSafe ==
    ASSUME TypeOK, TypeOK', Coverage, session' = session, FloorsFall,
           NEW d \in Devices, NEW p \in Devices, d # p, NEW x \in Items,
           store'[d][x] = store[d][x], Loose(d, p, x)
    PROVE  Safe(d, p, x)'
<1>1. Safe(d, p, x)
    BY DEF Coverage
<1>2. /\ cursor'[p][d].since = cursor[p][d].since
      /\ cursor'[d][p].relay <= cursor[d][p].relay
    BY DEF FloorsFall
<1> QED
    BY <1>1, <1>2, SafeFrame

\* The cursors stay.
LEMMA SameCursors ==
    ASSUME TypeOK, cursor' = cursor
    PROVE  FloorsFall
<1>1. \A d \in Devices, p \in Devices : cursor[d][p].relay \in Int
    BY PeerRelayAssumption DEF TypeOK, Cursors, NoFloor
<1> QED
    BY <1>1 DEF FloorsFall

\* A write.
LEMMA WriteKeeps ==
    ASSUME TypeOK, TypeOK', AllSound, Apart, Reads, Coverage,
           NEW e \in Devices, NEW y \in Items, NEW n \in 1..MaxStamp, Write(e, y, n)
    PROVE  AllSound' /\ Apart' /\ Reads' /\ Coverage'
<1>1. /\ session' = session /\ cursor' = cursor /\ missed' = missed /\ n > store[e][y]
      /\ store' = [store EXCEPT ![e][y] = n]
      /\ pending' = [pending EXCEPT ![e] = @ \cup {<<y, n>>}]
    BY DEF Write
<1>2. StoreGrows
    <2> SUFFICES ASSUME NEW d \in Devices, NEW x \in Items
                 PROVE  store'[d][x] >= store[d][x]
        BY DEF StoreGrows
    <2>1. store[d][x] \in Int /\ store[e][y] \in Int /\ n \in Int
        BY DEF TypeOK, Stamps
    <2> QED
        BY <1>1, <2>1 DEF TypeOK
<1>3. FloorsFall
    BY <1>1, SameCursors
<1>4. Coverage'
    <2> SUFFICES ASSUME NEW d \in Devices, NEW p \in Devices, NEW x \in Items, d # p,
                        Loose(d, p, x)'
                 PROVE  Safe(d, p, x)'
        BY DEF Coverage
    <2>1. ~(d = e /\ x = y)
        <3> SUFFICES ASSUME d = e, x = y PROVE FALSE
            OBVIOUS
        <3>1. store'[e][y] = n /\ <<y, n>> \in pending'[e]
            BY <1>1 DEF TypeOK
        <3> QED
            BY <3>1 DEF Loose, DueFor
    <2>2. store'[d][x] = store[d][x]
        BY <1>1, <2>1 DEF TypeOK
    <2>3. pending[d] \subseteq pending'[d]
        BY <1>1 DEF TypeOK
    <2>4. DueFor(d, p, x) => DueFor(d, p, x)'
        BY <1>1, <2>2, <2>3 DEF DueFor, Stores
    <2>5. Loose(d, p, x)
        BY <1>1, <1>2, <2>2, <2>4, WasLoose DEF Loose
    <2> QED
        BY <1>1, <1>3, <2>2, <2>5, QuietSafe
<1> QED
    BY <1>1, <1>2, <1>3, <1>4, QuietKeepsRest

\* A note lowers a floor or leaves it.
LEMMA NoteLowers ==
    ASSUME NEW c \in Cursors, NEW low \in Int
    PROVE  /\ NoteWritten(c, low).since = c.since
           /\ NoteWritten(c, low).relay <= c.relay
<1>1. c.relay \in Int
    BY PeerRelayAssumption DEF Cursors, NoFloor
<1> QED
    BY <1>1 DEF NoteWritten, Lower, Cursors

\* A writer's note.
LEMMA NoteLocalKeeps ==
    ASSUME TypeOK, TypeOK', AllSound, Apart, Reads, Coverage,
           NEW e \in Devices, NEW w \in pending[e], NEW saved \in BOOLEAN,
           NoteLocal(e, w, saved)
    PROVE  AllSound' /\ Apart' /\ Reads' /\ Coverage'
<1>1. /\ session' = session /\ store' = store
      /\ pending' = [pending EXCEPT ![e] = @ \ {w}]
      /\ cursor' = IF saved THEN [cursor EXCEPT ![e] =
                                    [p \in Devices |-> IF p = e THEN @[p]
                                                       ELSE NoteWritten(@[p], w[2])]]
                   ELSE cursor
    BY DEF NoteLocal
<1>2. w[1] \in Items /\ w[2] \in Int /\ w = <<w[1], w[2]>>
    BY DEF TypeOK
<1>3. \A p \in Peers(e) : IF saved THEN NoteGaps(e, p, {w[1]}, w[2]) \subseteq missed'
                          ELSE MissingAtRisk("unsaved", e, p, {w[1]}) \subseteq missed'
    <2> DEFINE M(p) == IF saved THEN NoteGaps(e, p, {w[1]}, w[2])
                       ELSE MissingAtRisk("unsaved", e, p, {w[1]})
    <2>1. missed' = missed \cup UNION {M(p) : p \in Peers(e)}
        BY DEF NoteLocal
    <2>2. \A p \in Peers(e) : M(p) \subseteq missed'
        <3> HIDE DEF M
        <3> QED
            BY <2>1
    <2> QED
        BY <2>2
<1>4. missed \subseteq missed'
    BY DEF NoteLocal
<1>5. /\ \A p \in Devices : saved /\ p # e => cursor'[e][p] = NoteWritten(cursor[e][p], w[2])
      /\ \A d \in Devices, p \in Devices : d # e \/ p = e \/ ~saved =>
            cursor'[d][p] = cursor[d][p]
    BY <1>1 DEF TypeOK
<1>6. FloorsFall
    <2> SUFFICES ASSUME NEW d \in Devices, NEW p \in Devices
                 PROVE  /\ cursor'[d][p].since = cursor[d][p].since
                        /\ cursor'[d][p].relay <= cursor[d][p].relay
        BY DEF FloorsFall
    <2>1. cursor[d][p] \in Cursors
        BY DEF TypeOK
    <2>2. CASE cursor'[d][p] = cursor[d][p]
        BY <2>1, <2>2, PeerRelayAssumption DEF Cursors, NoFloor
    <2>3. CASE d = e /\ p # e /\ saved
        BY <1>2, <1>5, <2>1, <2>3, NoteLowers
    <2> QED
        BY <1>5, <2>2, <2>3
<1>7. StoreGrows
    BY <1>1, SameStore
<1>8. Coverage'
    <2> SUFFICES ASSUME NEW d \in Devices, NEW p \in Devices, NEW x \in Items, d # p,
                        Loose(d, p, x)'
                 PROVE  Safe(d, p, x)'
        BY DEF Coverage
    <2>1. CASE ~DueFor(d, p, x)
        <3>1. Loose(d, p, x)
            BY <1>1, <1>4, <1>7, <2>1, WasLoose
        <3> QED
            BY <1>1, <1>6, <3>1, QuietSafe
    <2>2. CASE DueFor(d, p, x)
        <3>1. <<x, store[d][x]>> \in pending[d] /\ <<x, store[d][x]>> \notin pending'[d]
            BY <1>1, <2>2 DEF Loose, DueFor, Stores
        <3>2. d = e /\ w = <<x, store[d][x]>>
            BY <1>1, <3>1 DEF TypeOK
        <3>3. p \in Peers(e) /\ w[1] = x /\ w[2] = store[d][x] /\ x \in {w[1]}
            BY <3>2 DEF Peers
        <3>4. Fresh(d, p, x)'
            <4>1. CASE saved
                <5>1. cursor'[d][p] = NoteWritten(cursor[d][p], w[2])
                    BY <1>5, <3>2, <4>1
                <5>2. NoteGaps(d, p, {w[1]}, w[2]) \subseteq missed'
                    BY <1>3, <3>2, <3>3, <4>1
                <5>3. w[2] <= store'[d][x]
                    BY <1>1, <1>2, <3>3
                <5> QED
                    BY <1>2, <3>3, <5>1, <5>2, <5>3, NotedIsFresh
            <4>2. CASE ~saved
                <5>1. MissingAtRisk("unsaved", d, p, {w[1]}) \subseteq missed'
                    BY <1>3, <3>2, <3>3, <4>2
                <5>2. "unsaved" \in Gaps
                    BY DEF Gaps
                <5> QED
                    BY <3>3, <5>1, <5>2, NotAtRisk
            <4> QED
                BY <4>1, <4>2
        <3> QED
            BY <3>4, FreshIsSafe
    <2> QED
        BY <2>1, <2>2
<1> QED
    BY <1>1, <1>6, <1>7, <1>8, QuietKeepsRest

\* Time, and a step that changes nothing.
LEMMA TimeKeeps ==
    ASSUME TypeOK, TypeOK', AllSound, Apart, Reads, Coverage,
           UNCHANGED <<store, cursor, pending, session, missed>>
    PROVE  AllSound' /\ Apart' /\ Reads' /\ Coverage'
<1>1. StoreGrows /\ FloorsFall
    BY SameStore, SameCursors
<1>2. Coverage'
    <2> SUFFICES ASSUME NEW d \in Devices, NEW p \in Devices, NEW x \in Items, d # p,
                        Loose(d, p, x)'
                 PROVE  Safe(d, p, x)'
        BY DEF Coverage
    <2>1. Loose(d, p, x)
        BY DEF Loose, Owed, DueFor, Stores, Missed
    <2> QED
        BY <1>1, <2>1, QuietSafe
<1> QED
    BY <1>1, <1>2, QuietKeepsRest

-----------------------------------------------------------------------------
(* A commit.                                                               *)

\* Safe, seen from a side of one of the sessions of the pair.
SafeFrom(k, role, x) ==
    LET d == Side(k, role)
        p == Side(k, Other(role))
        rev == <<k[2], k[1]>>
        v == store[d][x]
        floor == cursor[d][p].relay
        since == cursor[p][d].since
    IN  /\ v < Lower(floor, since) => \/ Awaits(session[k], role, x, v)
                                      \/ Awaits(session[rev], Other(role), x, v)
        /\ ~session[k].overlapped => Keeps(session[k], role, x, v, floor, since)
        /\ ~session[rev].overlapped => Keeps(session[rev], Other(role), x, v, floor, since)
        /\ Received(session[k], role, x, v, since)
        /\ Received(session[rev], Other(role), x, v, since)

\* They are the same.
LEMMA SafeSides ==
    ASSUME NEW k \in Pairs, NEW role \in Roles, NEW x
    PROVE  /\ Safe(Side(k, role), Side(k, Other(role)), x) <=> SafeFrom(k, role, x)
           /\ Safe(Side(k, role), Side(k, Other(role)), x)' <=> SafeFrom(k, role, x)'
<1> DEFINE d == Side(k, role)
           p == Side(k, Other(role))
<1>1. CASE role = "dial"
    <2>1. k = <<d, p>> /\ <<k[2], k[1]>> = <<p, d>> /\ Other(role) = "listen"
        BY <1>1, PairOfSide DEF Other
    <2> HIDE DEF d, p
    <2>2. /\ Safe(d, p, x) <=> SafeFrom(k, role, x)
          /\ Safe(d, p, x)' <=> SafeFrom(k, role, x)'
        BY <1>1, <2>1 DEF Safe, SafeFrom, Promised, d, p
    <2> QED
        BY <2>2 DEF d, p
<1>2. CASE role = "listen"
    <2>1. k = <<p, d>> /\ <<k[2], k[1]>> = <<d, p>> /\ Other(role) = "dial"
        BY <1>2, PairOfSide DEF Other
    <2> HIDE DEF d, p
    <2>2. /\ Safe(d, p, x) <=> SafeFrom(k, role, x)
          /\ Safe(d, p, x)' <=> SafeFrom(k, role, x)'
        BY <1>2, <2>1 DEF Safe, SafeFrom, Promised, d, p
    <2> QED
        BY <2>2 DEF d, p
<1> QED
    BY <1>1, <1>2 DEF Roles

\* The session after a side of it has committed, and what both sides see of it.
Committed(s, role, new) ==
    /\ s.end[Other(role)] # "open" => new = NoSession
    /\ s.end[Other(role)] = "open" =>
          /\ new.step = s.step /\ new.cursor = s.cursor /\ new.offer = s.offer
          /\ new.stored = s.stored /\ new.overlapped = s.overlapped
          /\ new.end[role] = "committed" /\ new.end[Other(role)] = "open"

\* What Commit does, with the floor `low` and the session `new` it leaves.
CommitDoes(k, role, saved, low, new) ==
    LET s == session[k]
        d == Side(k, role)
        p == Side(k, Other(role))
    IN  /\ session'[k] = new /\ \A j \in Pairs : j # k => session'[j] = session[j]
        /\ store' = store /\ pending' = pending /\ missed \subseteq missed'
        /\ low \in Int /\ \A x \in s.stored[role] : low <= store[d][x]
        /\ \A e, q \in Devices : ~(e = d /\ q = p) =>
              /\ cursor'[e][q].since = cursor[e][q].since
              /\ cursor'[e][q].relay <= cursor[e][q].relay
        /\ cursor'[d][p] = IF "session" \in saved THEN RecordSession(s.mark[role])
                           ELSE cursor[d][p]
        /\ \A q \in Peers(d) \ {p} :
              IF "note" \in saved
              THEN /\ cursor'[d][q] = NoteWritten(cursor[d][q], low)
                   /\ NoteGaps(d, q, s.stored[role], low) \subseteq missed'
              ELSE MissingAtRisk("unsaved", d, q, s.stored[role]) \subseteq missed'
        /\ "session" \notin saved =>
              MissingAtRisk("unsaved", p, d, Current(k, Other(role))) \subseteq missed'
        /\ s.end[Other(role)] = "lost" =>
              MissingAtRisk("peer lost", d, p, Current(k, role)) \subseteq missed'
        /\ s.overlapped =>
              /\ MissingAtRisk("overlap", d, p, Items \ Current(k, role)) \subseteq missed'
              /\ MissingAtRisk("overlap", p, d, Items \ Current(k, Other(role))) \subseteq missed'

\* The oldest stamp stored is not past any of them.
LEMMA AppliedFloorLow ==
    ASSUME NEW offer \in [Items -> Stamps], NEW stored \in SUBSET Items
    PROVE  \A x \in stored : Min({NoFloor} \cup {offer[y] : y \in stored}) <= offer[x]
<1> DEFINE B == {NoFloor} \cup {offer[y] : y \in stored}
<1>1. B \in SUBSET Nat /\ B # {} /\ \A x \in stored : offer[x] \in B
    BY PeerRelayAssumption DEF Stamps, NoFloor
<1> HIDE DEF B
<1>2. \A x \in stored : Min(B) <= offer[x]
    BY <1>1, LeastStamp
<1> QED
    BY <1>2 DEF B

\* The ends of a session that a side commits.
LEMMA CommittedEnds ==
    ASSUME NEW s \in Sessions, NEW role \in Roles
    PROVE  Committed(s, role, Settled([s EXCEPT !.end[role] = "committed"]))
<1> DEFINE e == [s EXCEPT !.end[role] = "committed"]
<1>1. /\ e.step = s.step /\ e.cursor = s.cursor /\ e.offer = s.offer
      /\ e.stored = s.stored /\ e.overlapped = s.overlapped
      /\ e.end[role] = "committed" /\ e.end[Other(role)] = s.end[Other(role)]
    BY DEF Sessions, Roles, Other
<1> HIDE DEF e
<1>2. Settled(e) = IF s.end[Other(role)] # "open" THEN NoSession ELSE e
    BY <1>1 DEF Settled, Roles, Other
<1>3. Committed(s, role, Settled(e))
    BY <1>1, <1>2 DEF Committed
<1> QED
    BY <1>3 DEF e

\* Commit does that.
LEMMA CommitActs ==
    ASSUME TypeOK, TypeOK', AllSound, NEW k \in Pairs, NEW role \in Roles,
           NEW saved \in SUBSET Saves, Commit(k, role, saved)
    PROVE  \E low, new : CommitDoes(k, role, saved, low, new) /\ Committed(session[k], role, new)
<1> DEFINE s == session[k]
           d == Side(k, role)
           p == Side(k, Other(role))
           stored == s.stored[role]
           low == Min({NoFloor} \cup {s.offer[Other(role)][x] : x \in stored})
           new == Settled([s EXCEPT !.end[role] = "committed"])
<1>1. /\ s \in Sessions /\ d \in Devices /\ p \in Devices /\ d # p /\ Other(role) \in Roles
    BY PairOfSide DEF TypeOK
<1>2. /\ stored \in SUBSET Items /\ s.offer[Other(role)] \in [Items -> Stamps]
    BY <1>1 DEF Sessions
<1>3. low \in Int
    BY <1>2, AppliedFloorType, PeerRelayAssumption DEF NoFloor
<1>4. ASSUME NEW x \in stored PROVE low <= store[d][x]
    <2>1. low <= s.offer[Other(role)][x]
        BY <1>2, AppliedFloorLow
    <2>2. s.offer[Other(role)][x] <= store[d][x]
        BY <1>2 DEF AllSound, Sound
    <2>3. s.offer[Other(role)][x] \in Int /\ store[d][x] \in Int
        BY <1>1, <1>2 DEF TypeOK, Stamps
    <2> HIDE DEF low
    <2> QED
        BY <1>3, <2>1, <2>2, <2>3
<1>5. Committed(s, role, new)
    BY <1>1, CommittedEnds
<1>6. /\ store' = store /\ pending' = pending
      /\ session' = [session EXCEPT ![k] = new]
      /\ cursor' = [cursor EXCEPT ![d] = RecordCursor(d, p, low, s.mark[role], saved)]
    BY DEF Commit
<1> HIDE DEF new, low
<1>7. session'[k] = new /\ \A j \in Pairs : j # k => session'[j] = session[j]
    BY <1>6 DEF TypeOK
<1> DEFINE N(q) == IF "note" \in saved THEN NoteGaps(d, q, stored, low)
                   ELSE MissingAtRisk("unsaved", d, q, stored)
           Q == Peers(d) \ {p}
           mine == Current(k, role)
           theirs == Current(k, Other(role))
           A == IF "session" \in saved THEN {} ELSE MissingAtRisk("unsaved", p, d, theirs)
           L == IF s.end[Other(role)] = "lost"
                THEN MissingAtRisk("peer lost", d, p, mine) ELSE {}
           V == IF s.overlapped
                THEN MissingAtRisk("overlap", d, p, Items \ mine)
                        \cup MissingAtRisk("overlap", p, d, Items \ theirs) ELSE {}
<1>8. missed' = missed \cup (UNION {N(q) : q \in Q}) \cup A \cup L \cup V
    BY DEF Commit, low
<1>9. /\ missed \subseteq missed' /\ A \subseteq missed' /\ L \subseteq missed'
      /\ V \subseteq missed' /\ \A q \in Q : N(q) \subseteq missed'
    <2> HIDE DEF N, Q, A, L, V
    <2> QED
        BY <1>8
<1>10. /\ \A e \in Devices : e # d => cursor'[e] = cursor[e]
       /\ cursor'[d] = RecordCursor(d, p, low, s.mark[role], saved)
    BY <1>1, <1>6 DEF TypeOK
<1> HIDE DEF d, p, stored
<1>11. cursor'[d][p] = IF "session" \in saved THEN RecordSession(s.mark[role])
                       ELSE cursor[d][p]
    BY <1>1, <1>10 DEF RecordCursor
<1>12. ASSUME NEW q \in Devices, q # p
       PROVE  /\ q # d /\ "note" \in saved => cursor'[d][q] = NoteWritten(cursor[d][q], low)
              /\ q = d \/ "note" \notin saved => cursor'[d][q] = cursor[d][q]
    BY <1>10, <1>12 DEF RecordCursor
<1>13. ASSUME NEW e \in Devices, NEW q \in Devices, ~(e = d /\ q = p)
       PROVE  /\ cursor'[e][q].since = cursor[e][q].since
              /\ cursor'[e][q].relay <= cursor[e][q].relay
    <2>1. cursor[e][q] \in Cursors
        BY DEF TypeOK
    <2>2. CASE cursor'[e][q] = cursor[e][q]
        BY <2>1, <2>2, PeerRelayAssumption DEF Cursors, NoFloor
    <2>3. CASE cursor'[e][q] = NoteWritten(cursor[e][q], low)
        BY <1>3, <2>1, <2>3, NoteLowers
    <2> QED
        BY <1>10, <1>12, <1>13, <2>2, <2>3
<1>14. \A q \in Q : q \in Devices /\ q # p /\ q # d
    BY DEF Peers
<1>15. CommitDoes(k, role, saved, low, new)
    <2>1. \A q \in Peers(d) \ {p} :
             IF "note" \in saved
             THEN /\ cursor'[d][q] = NoteWritten(cursor[d][q], low)
                  /\ NoteGaps(d, q, s.stored[role], low) \subseteq missed'
             ELSE MissingAtRisk("unsaved", d, q, s.stored[role]) \subseteq missed'
        BY <1>9, <1>12, <1>14 DEF stored
    <2>2. /\ "session" \notin saved => MissingAtRisk("unsaved", p, d, theirs) \subseteq missed'
          /\ s.end[Other(role)] = "lost" =>
                MissingAtRisk("peer lost", d, p, mine) \subseteq missed'
          /\ s.overlapped => /\ MissingAtRisk("overlap", d, p, Items \ mine) \subseteq missed'
                             /\ MissingAtRisk("overlap", p, d, Items \ theirs) \subseteq missed'
        BY <1>9
    <2>3. \A x \in s.stored[role] : low <= store[d][x]
        BY <1>4 DEF stored, d
    <2> QED
        BY <1>3, <1>6, <1>7, <1>9, <1>11, <1>13, <2>1, <2>2, <2>3 DEF CommitDoes, d, p
<1> QED
    BY <1>5, <1>15

\* Sessions that end, or lose a side, stay apart.
LEMMA ApartEnds ==
    ASSUME Apart, \A j \in Pairs :
                     \/ session'[j] = NoSession
                     \/ /\ session[j] # NoSession
                        /\ session'[j].overlapped = session[j].overlapped
    PROVE  Apart'
<1>1. \A j \in Pairs : <<j[2], j[1]>> \in Pairs
    BY DEF Pairs
<1> QED
    BY <1>1 DEF Apart

\* An empty session is sound.
LEMMA EmptyIsSound ==
    ASSUME TypeOK', NEW k \in Pairs
    PROVE  Sound(NoSession, k, store')
<1>1. \A role \in Roles, x \in Items : store'[Side(k, role)][x] >= 0
    <2>1. \A e \in Devices, x \in Items : store'[e][x] >= 0
        BY PeerRelayAssumption DEF TypeOK, Stamps
    <2> QED
        BY <2>1, SideType
<1>2. "dial" \in Roles /\ "listen" \in Roles
    BY DEF Roles
<1>3. \A role \in Roles, x \in Items : NoSession.offer[role][x] <= store'[Side(k, role)][x]
    BY <1>1, EmptySession
<1>4. \A role \in Roles, x \in Items : x \notin NoSession.stored[role]
    BY EmptySession
<1> QED
    BY <1>2, <1>3, <1>4, EmptySession DEF Sound

\* The parts other than the coverage after a commit.
LEMMA CommitKeepsRest ==
    ASSUME TypeOK, TypeOK', AllSound, Apart, Reads, NEW k \in Pairs, NEW role \in Roles,
           NEW saved, NEW low, NEW new, ReadyToCommit(session[k], role),
           CommitDoes(k, role, saved, low, new), Committed(session[k], role, new)
    PROVE  AllSound' /\ Apart' /\ Reads'
<1> DEFINE s == session[k]
           d == Side(k, role)
           p == Side(k, Other(role))
           rev == <<k[2], k[1]>>
<1>1. /\ session'[k] = new /\ \A j \in Pairs : j # k => session'[j] = session[j]
      /\ store' = store
      /\ \A e, q \in Devices : ~(e = d /\ q = p) =>
            /\ cursor'[e][q].since = cursor[e][q].since
            /\ cursor'[e][q].relay <= cursor[e][q].relay
    BY DEF CommitDoes
<1>2. /\ s.step \in {"returned", "closed"} /\ s.end[role] = "open"
    BY DEF ReadyToCommit
<1>3. s \in Sessions /\ Sound(s, k, store) /\ s # NoSession
    BY <1>2, EmptySession DEF TypeOK, AllSound
<1>4. new = NoSession \/
         /\ new.step = s.step /\ new.cursor = s.cursor /\ new.offer = s.offer
         /\ new.stored = s.stored /\ new.overlapped = s.overlapped
         /\ new.end[role] = "committed" /\ new.end[Other(role)] = "open"
         /\ s.end[Other(role)] = "open"
    BY DEF Committed
<1>5. AllSound'
    <2> SUFFICES ASSUME NEW j \in Pairs PROVE Sound(session'[j], j, store')
        BY DEF AllSound
    <2>1. CASE j # k
        BY <1>1, <2>1 DEF AllSound
    <2>2. CASE j = k
        <3>1. CASE new = NoSession
            BY <1>1, <2>2, <3>1, EmptyIsSound
        <3>2. CASE new # NoSession
            <4> HIDE DEF s
            <4>1. Sound(new, k, store)
                BY <1>2, <1>3, <1>4, <3>2 DEF Sound
            <4> QED
                BY <1>1, <2>2, <4>1
        <3> QED
            BY <3>1, <3>2
    <2> QED
        BY <2>1, <2>2
<1>6. Apart'
    <2>1. \A j \in Pairs : \/ session'[j] = NoSession
                          \/ /\ session[j] # NoSession
                             /\ session'[j].overlapped = session[j].overlapped
        BY <1>1, <1>3, <1>4
    <2> QED
        BY <2>1, ApartEnds
<1>7. Reads'
    <2> SUFFICES ASSUME NEW j \in Pairs, NEW r \in Roles
                 PROVE  HasRead(session'[j], r, cursor'[Side(j, r)][Side(j, Other(r))])
        BY DEF Reads
    <2> DEFINE e == Side(j, r)
               q == Side(j, Other(r))
    <2>1. e \in Devices /\ q \in Devices
        BY SideType
    <2>2. HasRead(session[j], r, cursor[e][q]) /\ session[j] \in Sessions
        BY DEF Reads, TypeOK
    <2>3. cursor[e][q].relay \in Int /\ cursor'[e][q].relay \in Int
        BY <2>1, PeerRelayAssumption DEF TypeOK, Cursors, NoFloor
    <2>4. CASE ~(e = d /\ q = p)
        <3>1. HasRead(session[j], r, cursor'[e][q])
            <4>1. /\ cursor'[e][q].since = cursor[e][q].since
                  /\ cursor'[e][q].relay <= cursor[e][q].relay
                BY <1>1, <2>1, <2>4
            <4> HIDE DEF e, q
            <4> QED
                BY <2>2, <2>3, <4>1, ReadLower
        <3>2. CASE j # k
            BY <1>1, <3>1, <3>2
        <3>3. CASE j = k
            <4>1. r = Other(role)
                BY <2>4, <3>3 DEF Roles, Other
            <4>2. Begun(new, r) => /\ Begun(s, r) /\ new.cursor = s.cursor
                                   /\ new.overlapped = s.overlapped
                BY <1>4, <4>1, EmptySession DEF Begun
            <4>3. HasRead(new, r, cursor'[e][q])
                BY <3>1, <3>3, <4>2 DEF HasRead
            <4> QED
                BY <1>1, <3>3, <4>3
        <3> QED
            BY <3>2, <3>3
    <2>5. CASE e = d /\ q = p
        <3>1. CASE j = k
            <4>1. r = role
                BY <2>5, <3>1 DEF Side, Pairs, Roles
            <4>2. ~Begun(new, role)
                BY <1>4, EmptySession DEF Begun
            <4> QED
                BY <1>1, <3>1, <4>1, <4>2 DEF HasRead
        <3>2. CASE j # k
            <4>1. j = rev /\ <<j[2], j[1]>> = k
                <5>1. k = <<d, p>> \/ k = <<p, d>>
                    BY PairOfSide DEF Roles
                <5>2. j = <<e, q>> \/ j = <<q, e>>
                    BY PairOfSide DEF Roles
                <5> QED
                    BY <2>5, <3>2, <5>1, <5>2
            <4>2. session[j] = NoSession \/ session[j].overlapped
                BY <1>3, <4>1 DEF Apart
            <4> QED
                BY <1>1, <3>2, <4>2, EmptySession DEF HasRead
        <3> QED
            BY <3>1, <3>2
    <2> QED
        BY <2>4, <2>5
<1> QED
    BY <1>5, <1>6, <1>7

\* The versions of the device that commits, which its peer lacks.
LEMMA CommitOwner ==
    ASSUME TypeOK, TypeOK', AllSound, Apart, NEW k \in Pairs, NEW role \in Roles,
           NEW saved, NEW low, NEW new, ReadyToCommit(session[k], role),
           CommitDoes(k, role, saved, low, new), Committed(session[k], role, new),
           NEW x \in Items,
           Safe(Side(k, role), Side(k, Other(role)), x),
           Loose(Side(k, role), Side(k, Other(role)), x)'
    PROVE  Safe(Side(k, role), Side(k, Other(role)), x)'
<1> DEFINE s == session[k]
           d == Side(k, role)
           p == Side(k, Other(role))
           rev == <<k[2], k[1]>>
           v == store[d][x]
           since == cursor[p][d].since
           floor == cursor'[d][p].relay
<1>1. /\ d \in Devices /\ p \in Devices /\ d # p /\ rev \in Pairs /\ rev # k
      /\ Other(role) \in Roles /\ Other(role) # role /\ Other(Other(role)) = role
    BY PairOfSide
<1>2. /\ session'[k] = new /\ session'[rev] = session[rev] /\ store' = store
      /\ cursor'[p][d].since = since
    BY <1>1 DEF CommitDoes
<1>3. /\ s.end[Other(role)] = "lost" =>
            MissingAtRisk("peer lost", d, p, Current(k, role)) \subseteq missed'
      /\ s.overlapped =>
            MissingAtRisk("overlap", d, p, Items \ Current(k, role)) \subseteq missed'
    BY DEF CommitDoes
<1>4. s.end[role] = "open" /\ Offered(s, role) /\ s # NoSession /\ s \in Sessions /\ Begun(s, role)
    BY EmptySession DEF ReadyToCommit, Offered, TypeOK, Begun
<1>5. SafeFrom(k, role, x)
    BY SafeSides
<1>6. v \in Int /\ floor \in Int /\ since \in Int
    BY <1>1, PromiseTypes, PromiseTypesNext
<1>7. "peer lost" \in Gaps /\ "overlap" \in Gaps
    BY DEF Gaps
<1>8. /\ ~session[rev].overlapped => Keeps(session[rev], Other(role), x, v, floor, since)
      /\ Received(session[rev], Other(role), x, v, since)
    <2>1. session[rev] = NoSession \/ session[rev].overlapped
        <3>1. <<rev[2], rev[1]>> = k
            BY DEF Pairs
        <3> QED
            BY <1>1, <1>4, <3>1 DEF Apart
    <2>2. session[rev] = NoSession => Keeps(session[rev], Other(role), x, v, floor, since)
        BY <1>1, EmptySession DEF Keeps
    <2> QED
        BY <1>5, <2>1, <2>2 DEF SafeFrom
<1>9. CASE s.offer[role][x] # v
    <2>1. x \in Items \ Current(k, role)
        BY <1>9 DEF Current
    <2>2. CASE s.overlapped
        <3>1. Fresh(d, p, x)'
            BY <1>3, <1>7, <2>1, <2>2, NotAtRisk
        <3> QED
            BY <1>1, <3>1, FreshIsSafe
    <2>3. CASE ~s.overlapped
        <3>1. Keeps(s, role, x, v, cursor[d][p].relay, since)
            BY <1>5, <2>3 DEF SafeFrom
        <3> QED
            BY <1>4, <1>9, <3>1 DEF Keeps
    <2> QED
        BY <2>2, <2>3
<1>10. CASE s.offer[role][x] = v /\ s.end[Other(role)] = "lost"
    <2>1. x \in Current(k, role)
        BY <1>10 DEF Current
    <2>2. Fresh(d, p, x)'
        BY <1>3, <1>7, <1>10, <2>1, NotAtRisk
    <2> QED
        BY <1>1, <2>2, FreshIsSafe
<1>11. CASE s.offer[role][x] = v /\ s.end[Other(role)] = "open"
    <2>1. /\ new.step = s.step /\ new.offer = s.offer
          /\ new.end[role] = "committed" /\ new.end[Other(role)] = "open"
        BY <1>11 DEF Committed
    <2>2. Awaits(new, role, x, v) /\ Received(new, role, x, v, since)
        BY <1>11, <2>1 DEF Awaits, Received
    <2>3. Keeps(new, role, x, v, floor, since)
        BY <1>4, <1>11, <2>1 DEF Keeps, Offered
    <2>4. SafeFrom(k, role, x)'
        BY <1>2, <1>8, <2>2, <2>3 DEF SafeFrom
    <2> QED
        BY <2>4, SafeSides
<1>12. CASE s.offer[role][x] = v /\ s.end[Other(role)] = "committed"
    <2>1. new = NoSession
        BY <1>12 DEF Committed
    <2>2. v >= since
        BY <1>4, <1>5, <1>12 DEF SafeFrom, Received
    <2>3. ~(v < Lower(floor, since))
        BY <1>6, <2>2 DEF Lower
    <2>4. Keeps(new, role, x, v, floor, since) /\ Received(new, role, x, v, since)
        BY <2>1, EmptySession DEF Keeps, Received
    <2>5. SafeFrom(k, role, x)'
        BY <1>2, <1>8, <2>3, <2>4 DEF SafeFrom
    <2> QED
        BY <2>5, SafeSides
<1>13. s.end[Other(role)] \in Ends
    BY <1>1, <1>4 DEF Sessions
<1> QED
    BY <1>9, <1>10, <1>11, <1>12, <1>13 DEF Ends

\* The versions of its peer, which the device that commits lacks.
LEMMA CommitPeer ==
    ASSUME TypeOK, TypeOK', AllSound, Apart, MarkIsDelivered,
           NEW k \in Pairs, NEW role \in Roles,
           NEW saved, NEW low, NEW new, ReadyToCommit(session[k], role),
           CommitDoes(k, role, saved, low, new), Committed(session[k], role, new),
           NEW x \in Items,
           Safe(Side(k, Other(role)), Side(k, role), x),
           Loose(Side(k, Other(role)), Side(k, role), x)'
    PROVE  Safe(Side(k, Other(role)), Side(k, role), x)'
<1> DEFINE s == session[k]
           r == Other(role)
           d == Side(k, role)
           p == Side(k, r)
           rev == <<k[2], k[1]>>
           v == store[p][x]
           floor == cursor[p][d].relay
           floor2 == cursor'[p][d].relay
           since == cursor'[d][p].since
<1>1. /\ d \in Devices /\ p \in Devices /\ d # p /\ rev \in Pairs /\ rev # k
      /\ r \in Roles /\ r # role /\ Other(r) = role
    BY PairOfSide
<1>2. /\ session'[k] = new /\ session'[rev] = session[rev] /\ store' = store
      /\ floor2 <= floor
      /\ "session" \in saved => cursor'[d][p] = RecordSession(s.mark[role])
    BY <1>1 DEF CommitDoes
<1>3. /\ "session" \notin saved =>
            MissingAtRisk("unsaved", p, d, Current(k, r)) \subseteq missed'
      /\ s.overlapped => MissingAtRisk("overlap", p, d, Items \ Current(k, r)) \subseteq missed'
      /\ missed \subseteq missed'
    BY DEF CommitDoes
<1>4. /\ s.end[role] = "open" /\ Offered(s, r) /\ s # NoSession /\ s \in Sessions
      /\ s.step \in {"returned", "closed"}
    BY EmptySession DEF ReadyToCommit, Offered, TypeOK
<1>5. SafeFrom(k, r, x)
    BY <1>1, SafeSides
<1>6. /\ v \in Int /\ floor \in Int /\ floor2 \in Int /\ since \in Int
      /\ store[d][x] \in Int /\ s.mark[role] \in Int
    <2>1. v \in Int /\ floor \in Int
        BY <1>1, PromiseTypes
    <2>2. floor2 \in Int /\ since \in Int
        BY <1>1, PromiseTypesNext
    <2>3. store[d][x] \in Int
        BY <1>1, PromiseTypes
    <2>4. s.mark[role] \in Int
        <3> HIDE DEF s
        <3> QED
            BY <1>4 DEF Sessions, Stamps
    <2> QED
        BY <2>1, <2>2, <2>3, <2>4
<1>7. "unsaved" \in Gaps /\ "overlap" \in Gaps /\ "refused" \in Gaps
    BY DEF Gaps
<1>8. ~session[rev].overlapped => Keeps(session[rev], role, x, v, floor2, since)
    <2>1. session[rev] = NoSession \/ session[rev].overlapped
        <3>1. <<rev[2], rev[1]>> = k
            BY DEF Pairs
        <3> QED
            BY <1>1, <1>4, <3>1 DEF Apart
    <2>2. session[rev] = NoSession => Keeps(session[rev], role, x, v, floor2, since)
        BY EmptySession DEF Keeps
    <2> QED
        BY <2>1, <2>2
<1>9. CASE s.offer[r][x] # v /\ s.overlapped
    <2>1. x \in Items \ Current(k, r)
        BY <1>9 DEF Current
    <2>2. Fresh(p, d, x)'
        BY <1>3, <1>7, <1>9, <2>1, NotAtRisk
    <2> QED
        BY <1>1, <2>2, FreshIsSafe
<1>10. CASE s.offer[r][x] # v /\ ~s.overlapped
    <2>1. Keeps(s, r, x, v, floor, cursor[d][p].since)
        BY <1>1, <1>5, <1>10 DEF SafeFrom
    <2>2. s.end[r] # "open" /\ floor <= v
        BY <1>1, <1>4, <1>10, <2>1 DEF Keeps
    <2>3. new = NoSession
        BY <2>2 DEF Committed
    <2>4. session[rev] = NoSession
        BY <1>1, <1>4, <1>10 DEF Apart
    <2>5. ~(v < Lower(floor2, since))
        BY <1>2, <1>6, <2>2 DEF Lower
    <2>6. /\ Keeps(new, r, x, v, floor2, since) /\ Received(new, r, x, v, since)
          /\ Received(session[rev], role, x, v, since)
        BY <1>1, <2>3, <2>4, EmptySession DEF Keeps, Received
    <2>7. SafeFrom(k, r, x)'
        BY <1>1, <1>2, <1>8, <2>5, <2>6 DEF SafeFrom
    <2> QED
        BY <1>1, <2>7, SafeSides
<1>11. CASE s.offer[r][x] = v /\ "session" \notin saved
    <2>1. x \in Current(k, r)
        BY <1>11 DEF Current
    <2>2. Fresh(p, d, x)'
        BY <1>3, <1>7, <1>11, <2>1, NotAtRisk
    <2> QED
        BY <1>1, <2>2, FreshIsSafe
<1>12. CASE s.offer[r][x] = v /\ "session" \in saved
    <2>1. since = s.mark[role]
        BY <1>2, <1>12 DEF RecordSession
    <2>2. v < s.mark[role] => store[d][x] >= v \/ <<"refused", p, d, x, v>> \in missed
        BY <1>1, <1>12 DEF MarkIsDelivered
    <2>3. store[p][x] > store[d][x] /\ <<"refused", p, d, x, v>> \notin missed
        BY <1>2, <1>3, <1>7 DEF Loose, Owed, Missed
    <2>4. v >= since
        BY <1>6, <2>1, <2>2, <2>3
    <2>5. ~(v < Lower(floor2, since))
        BY <1>6, <2>4 DEF Lower
    <2>6. Keeps(new, r, x, v, floor2, since)
        <3>1. CASE s.end[r] # "open"
            BY <1>1, <3>1, EmptySession DEF Committed, Keeps
        <3>2. CASE s.end[r] = "open"
            <4>1. new.step = s.step /\ new.offer = s.offer
                BY <3>2 DEF Committed
            <4> QED
                BY <1>4, <1>12, <4>1 DEF Keeps, Offered
        <3> QED
            BY <3>1, <3>2
    <2>7. Received(new, r, x, v, since) /\ Received(session[rev], role, x, v, since)
        BY <2>4 DEF Received
    <2>8. SafeFrom(k, r, x)'
        BY <1>1, <1>2, <1>8, <2>5, <2>6, <2>7 DEF SafeFrom
    <2> QED
        BY <1>1, <2>8, SafeSides
<1> QED
    BY <1>9, <1>10, <1>11, <1>12

\* A commit settles no note but its own.
LEMMA CommitStores ==
    ASSUME NEW k \in Pairs, NEW role \in Roles,
           NEW saved, NEW low, NEW new,
           CommitDoes(k, role, saved, low, new), Committed(session[k], role, new),
           NEW d \in Devices, NEW q \in Devices, d # q, NEW x,
           Stores(d, q, x), ~Stores(d, q, x)'
    PROVE  d = Side(k, role) /\ q = Side(k, Other(role)) /\ x \in session[k].stored[role]
<1>1. session'[k] = new /\ \A j \in Pairs : j # k => session'[j] = session[j]
    BY DEF CommitDoes
<1>2. ASSUME NEW j \in Pairs, NEW r \in Roles,
             Begun(session[j], r), x \in session[j].stored[r],
             ~(Begun(session'[j], r) /\ x \in session'[j].stored[r])
      PROVE  j = k /\ r = role
    <2>1. j = k
        BY <1>1, <1>2
    <2>2. ASSUME r # role PROVE FALSE
        <3>1. r = Other(role)
            BY <2>2 DEF Roles, Other
        <3>2. session[k].end[Other(role)] = "open"
            BY <1>2, <2>1, <3>1 DEF Begun
        <3>3. /\ new.step = session[k].step /\ new.stored = session[k].stored
              /\ new.end[Other(role)] = "open"
            BY <3>2 DEF Committed
        <3> QED
            BY <1>1, <1>2, <2>1, <3>1, <3>3 DEF Begun
    <2> QED
        BY <2>1, <2>2
<1>3. <<d, q>> \in Pairs /\ <<q, d>> \in Pairs /\ "dial" \in Roles /\ "listen" \in Roles
    BY DEF Pairs, Roles
<1>4. CASE Begun(session[<<d, q>>], "dial") /\ x \in session[<<d, q>>].stored["dial"]
    <2>1. <<d, q>> = k /\ "dial" = role
        BY <1>2, <1>3, <1>4 DEF Stores
    <2> QED
        BY <1>4, <2>1 DEF Side, Other
<1>5. CASE Begun(session[<<q, d>>], "listen") /\ x \in session[<<q, d>>].stored["listen"]
    <2>1. <<q, d>> = k /\ "listen" = role
        BY <1>2, <1>3, <1>5 DEF Stores
    <2> QED
        BY <1>5, <2>1 DEF Side, Other
<1> QED
    BY <1>4, <1>5 DEF Stores

\* A commit keeps everything, of its own pair and of the others.
LEMMA CommitKeeps ==
    ASSUME TypeOK, TypeOK', AllSound, Apart, Reads, Coverage, MarkIsDelivered,
           NEW k \in Pairs, NEW role \in Roles, NEW saved \in SUBSET Saves,
           Commit(k, role, saved)
    PROVE  AllSound' /\ Apart' /\ Reads' /\ Coverage'
<1>1. PICK low, new : CommitDoes(k, role, saved, low, new) /\ Committed(session[k], role, new)
    BY CommitActs
<1>2. ReadyToCommit(session[k], role)
    BY DEF Commit
<1> DEFINE d == Side(k, role)
           p == Side(k, Other(role))
           stored == session[k].stored[role]
<1>3. /\ d \in Devices /\ p \in Devices /\ d # p
      /\ k = <<d, p>> \/ k = <<p, d>>
    BY PairOfSide DEF Roles
<1>4. /\ store' = store /\ pending' = pending /\ missed \subseteq missed'
      /\ \A j \in Pairs : j # k => session'[j] = session[j]
      /\ low \in Int /\ \A x \in stored : low <= store[d][x]
      /\ \A e, q \in Devices : ~(e = d /\ q = p) =>
            /\ cursor'[e][q].since = cursor[e][q].since
            /\ cursor'[e][q].relay <= cursor[e][q].relay
      /\ \A q \in Peers(d) \ {p} :
            IF "note" \in saved
            THEN /\ cursor'[d][q] = NoteWritten(cursor[d][q], low)
                 /\ NoteGaps(d, q, stored, low) \subseteq missed'
            ELSE MissingAtRisk("unsaved", d, q, stored) \subseteq missed'
    BY <1>1 DEF CommitDoes
<1>5. StoreGrows
    BY <1>4, SameStore
<1>6. AllSound' /\ Apart' /\ Reads'
    BY <1>1, <1>2, CommitKeepsRest
<1>7. Coverage'
    <2> SUFFICES ASSUME NEW e \in Devices, NEW q \in Devices, NEW x \in Items, e # q,
                        Loose(e, q, x)'
                 PROVE  Safe(e, q, x)'
        BY DEF Coverage
    <2>1. CASE DueFor(e, q, x)
        <3>1. PICK b \in Peers(e) \ {q} : Stores(e, b, x) /\ ~Stores(e, b, x)'
            BY <1>4, <2>1 DEF Loose, DueFor
        <3>2. e = d /\ b = p /\ x \in stored
            BY <1>1, <3>1, CommitStores DEF Peers
        <3> HIDE DEF d, p, stored
        <3>3. q \in Peers(d) \ {p}
            BY <3>1, <3>2 DEF Peers
        <3>4. Fresh(e, q, x)'
            <4>1. CASE "note" \in saved
                <5>1. /\ cursor'[e][q] = NoteWritten(cursor[e][q], low)
                      /\ NoteGaps(e, q, stored, low) \subseteq missed'
                      /\ low <= store'[e][x] /\ low \in Int
                    BY <1>4, <3>2, <3>3, <4>1
                <5> QED
                    BY <3>2, <5>1, NotedIsFresh
            <4>2. CASE "note" \notin saved
                <5>1. MissingAtRisk("unsaved", e, q, stored) \subseteq missed'
                    BY <1>4, <3>2, <3>3, <4>2
                <5>2. "unsaved" \in Gaps
                    BY DEF Gaps
                <5> QED
                    BY <3>2, <5>1, <5>2, NotAtRisk
            <4> QED
                BY <4>1, <4>2
        <3> QED
            BY <3>4, FreshIsSafe
    <2>2. CASE ~DueFor(e, q, x)
        <3>1. Loose(e, q, x)
            BY <1>4, <1>5, <2>2, WasLoose
        <3>2. Safe(e, q, x)
            BY <3>1 DEF Coverage
        <3>3. CASE e = d /\ q = p
            BY <1>1, <1>2, <3>2, <3>3, CommitOwner
        <3>4. CASE e = p /\ q = d
            BY <1>1, <1>2, <3>2, <3>4, CommitPeer
        <3>5. CASE ~(e = d /\ q = p) /\ ~(e = p /\ q = d)
            <4>1. <<e, q>> \in Pairs /\ <<q, e>> \in Pairs
                BY DEF Pairs
            <4>2. session'[<<e, q>>] = session[<<e, q>>] /\ session'[<<q, e>>] = session[<<q, e>>]
                BY <1>3, <1>4, <3>5, <4>1
            <4>3. /\ cursor'[q][e].since = cursor[q][e].since
                  /\ cursor'[e][q].relay <= cursor[e][q].relay
                BY <1>4, <3>5
            <4> QED
                BY <1>4, <3>2, <4>2, <4>3, SafeFrame
        <3> QED
            BY <3>3, <3>4, <3>5
    <2> QED
        BY <2>1, <2>2
<1> QED
    BY <1>6, <1>7

-----------------------------------------------------------------------------
(* Losses.                                                                 *)

\* A session after one side of it may have ended without committing: as it was,
\* empty, or left to the other side.
Ended(s, role, new) ==
    \/ new = s
    \/ /\ s.step # "none" /\ s.end[role] = "open" /\ new = NoSession
       /\ s.end[Other(role)] # "open" \/ s.step \notin {"returned", "closed"}
    \/ /\ s.step \in {"returned", "closed"} /\ s.end[role] = "open"
       /\ s.end[Other(role)] = "open"
       /\ new.step = s.step /\ new.cursor = s.cursor /\ new.offer = s.offer
       /\ new.stored = s.stored /\ new.overlapped = s.overlapped
       /\ new.end[role] = "lost" /\ new.end[Other(role)] = "open"

\* That is what WithoutSide makes of it, and the side has ended.
LEMMA WithoutSideEnds ==
    ASSUME NEW s \in Sessions, NEW role \in Roles
    PROVE  Ended(s, role, WithoutSide(s, role)) /\ ~Begun(WithoutSide(s, role), role)
<1>1. CASE s.step = "none" \/ s.end[role] # "open"
    BY <1>1 DEF WithoutSide, Ended, Begun
<1>2. CASE s.step # "none" /\ s.end[role] = "open" /\ s.step \notin {"returned", "closed"}
    BY <1>2, EmptySession DEF WithoutSide, Ended
<1>3. CASE s.step \in {"returned", "closed"} /\ s.end[role] = "open"
    <2> DEFINE e == [s EXCEPT !.end[role] = "lost"]
    <2>1. /\ e.step = s.step /\ e.cursor = s.cursor /\ e.offer = s.offer
          /\ e.stored = s.stored /\ e.overlapped = s.overlapped
          /\ e.end[role] = "lost" /\ e.end[Other(role)] = s.end[Other(role)]
        BY DEF Sessions, Roles, Other
    <2>2. WithoutSide(s, role) = Settled(e)
        BY <1>3 DEF WithoutSide
    <2> HIDE DEF e
    <2>3. Settled(e) = IF s.end[Other(role)] # "open" THEN NoSession ELSE e
        BY <2>1 DEF Settled, Roles, Other
    <2>4. ~Begun(e, role)
        BY <2>1 DEF Begun
    <2> QED
        BY <1>3, <2>1, <2>2, <2>3, <2>4, EmptySession DEF Ended
<1> QED
    BY <1>1, <1>2, <1>3

\* What the session keeps for the device that ended its side.
LEMMA OwnerEnds ==
    ASSUME NEW s, NEW role \in Roles, NEW new, Ended(s, role, new),
           NEW x, NEW v, NEW floor, NEW since,
           ~s.overlapped => Keeps(s, role, x, v, floor, since),
           Received(s, role, x, v, since)
    PROVE  /\ ~new.overlapped => Keeps(new, role, x, v, floor, since)
           /\ Awaits(s, role, x, v) => Awaits(new, role, x, v)
           /\ Received(new, role, x, v, since)
<1>1. CASE new = s
    BY <1>1
<1>2. CASE s.end[role] = "open" /\ new = NoSession
    BY <1>2, EmptySession DEF Keeps, Awaits, Received
<1>3. CASE /\ s.step \in {"returned", "closed"} /\ s.end[role] = "open"
           /\ s.end[Other(role)] = "open"
           /\ new.step = s.step /\ new.offer = s.offer /\ new.overlapped = s.overlapped
           /\ new.end[role] = "lost" /\ new.end[Other(role)] = "open"
    BY <1>3 DEF Keeps, Awaits, Received, Begun, Offered
<1> QED
    BY <1>1, <1>2, <1>3 DEF Ended

\* What it keeps for the other device, whose peer may have forgotten its cursor.
LEMMA PeerEnds ==
    ASSUME NEW s \in Sessions, NEW role \in Roles, NEW new, Ended(s, role, new),
           NEW x, NEW v \in Int, v >= 0, NEW floor, NEW since, NEW now, now \in {since, 0},
           ~s.overlapped => Keeps(s, Other(role), x, v, floor, since),
           Received(s, Other(role), x, v, since)
    PROVE  /\ ~new.overlapped => Keeps(new, Other(role), x, v, floor, now)
           /\ Awaits(s, Other(role), x, v) =>
                 \/ Awaits(new, Other(role), x, v)
                 \/ /\ new # s /\ s.end[Other(role)] = "committed"
                    /\ s.offer[Other(role)][x] = v
           /\ Received(new, Other(role), x, v, now)
<1>1. Other(role) \in Roles /\ Other(Other(role)) = role /\ Other(role) # role
    BY DEF Roles, Other
<1>2. CASE new = s
    <2>1. s.cursor[Other(role)].relay \in Int
        BY <1>1, PeerRelayAssumption DEF Sessions, Cursors, NoFloor
    <2>2. v >= Lower(s.cursor[Other(role)].relay, 0)
        BY <2>1 DEF Lower
    <2>3. ~new.overlapped => Keeps(new, Other(role), x, v, floor, now)
        BY <1>2, <2>2 DEF Keeps
    <2>4. Received(new, Other(role), x, v, now)
        BY <1>2 DEF Received
    <2> QED
        BY <1>2, <2>3, <2>4
<1>3. CASE new = NoSession
    BY <1>1, <1>3, EmptySession DEF Keeps, Awaits, Received
<1>4. CASE /\ s.step \in {"returned", "closed"} /\ s.end[Other(role)] = "open"
           /\ new.step = s.step /\ new.offer = s.offer /\ new.overlapped = s.overlapped
           /\ new.end[role] = "lost" /\ new.end[Other(role)] = "open"
    BY <1>1, <1>4 DEF Keeps, Awaits, Received, Begun, Offered
<1> QED
    BY <1>2, <1>3, <1>4 DEF Ended

\* The versions that d's floor for p promises.
Floored(d, p) == {x \in Items : cursor[d][p].relay <= store[d][x]}

\* What the loss of sides of device d does: it ends some of them, changes nothing
\* of the other devices, empties d's cursors or leaves them, and records what it
\* lets go.
LosesSides(d) ==
    /\ StoreGrows /\ missed \subseteq missed'
    /\ \A k \in Pairs : k[1] # d /\ k[2] # d => session'[k] = session[k]
    /\ \A e \in Devices : e # d =>
          /\ cursor'[e] = cursor[e] /\ pending'[e] = pending[e] /\ store'[e] = store[e]
    /\ \A k \in Pairs, role \in Roles : Side(k, role) = d =>
          /\ Ended(session[k], role, session'[k])
          /\ session'[k] # session[k] /\ session[k].end[Other(role)] = "committed" =>
                MissingAtRisk("peer lost", Side(k, Other(role)), d, Current(k, Other(role)))
                   \subseteq missed'
          /\ LET p == Side(k, Other(role))
             IN  \/ cursor'[d][p] = cursor[d][p]
                 \/ /\ cursor'[d][p] = NoCursor /\ ~Begun(session'[k], role)
                    /\ MissingAtRisk("damage", d, p, Floored(d, p)) \subseteq missed'
    /\ \A q \in Peers(d), x \in Items :
          (store'[d][x] # store[d][x] \/ DueFor(d, q, x)) /\ Loose(d, q, x)' =>
          Fresh(d, q, x)'

\* The parts other than the coverage.
LEMMA LosesKeepsRest ==
    ASSUME TypeOK, TypeOK', AllSound, Apart, Reads, NEW d \in Devices, LosesSides(d)
    PROVE  AllSound' /\ Apart' /\ Reads'
<1>1. ASSUME NEW j \in Pairs
      PROVE  \/ session'[j] = session[j]
             \/ \E r \in Roles : Side(j, r) = d /\ Ended(session[j], r, session'[j])
    <2>1. CASE j[1] # d /\ j[2] # d
        BY <2>1 DEF LosesSides
    <2>2. CASE j[1] = d \/ j[2] = d
        <3>1. Side(j, "dial") = d \/ Side(j, "listen") = d
            BY <2>2 DEF Side
        <3> QED
            BY <3>1 DEF LosesSides, Roles
    <2> QED
        BY <2>1, <2>2
<1>2. AllSound'
    <2> SUFFICES ASSUME NEW j \in Pairs PROVE Sound(session'[j], j, store')
        BY DEF AllSound
    <2> DEFINE s == session[j]
               new == session'[j]
    <2>1. s \in Sessions /\ new \in Sessions /\ Sound(s, j, store) /\ StoreGrows
        BY DEF TypeOK, AllSound, LosesSides
    <2> HIDE DEF s, new
    <2>2. CASE new = s
        BY <2>1, <2>2, SoundKept DEF new
    <2>3. CASE new = NoSession
        BY <2>3, EmptyIsSound DEF new
    <2>4. CASE /\ s.step \in {"returned", "closed"} /\ new.step = s.step
               /\ new.offer = s.offer /\ new.stored = s.stored
        <3>1. Sound(new, j, store)
            BY <2>1, <2>4 DEF Sound
        <3> QED
            BY <2>1, <3>1, SoundKept DEF new
    <2> QED
        BY <1>1, <2>2, <2>3, <2>4 DEF s, new, Ended
<1>3. Apart'
    <2>1. \A j \in Pairs : \/ session'[j] = NoSession
                          \/ /\ session[j] # NoSession
                             /\ session'[j].overlapped = session[j].overlapped
        <3> SUFFICES ASSUME NEW j \in Pairs, session'[j] # NoSession
                     PROVE  /\ session[j] # NoSession
                            /\ session'[j].overlapped = session[j].overlapped
            OBVIOUS
        <3> QED
            BY <1>1, EmptySession DEF Ended
    <2> QED
        BY <2>1, ApartEnds
<1>4. Reads'
    <2> SUFFICES ASSUME NEW j \in Pairs, NEW r \in Roles
                 PROVE  HasRead(session'[j], r, cursor'[Side(j, r)][Side(j, Other(r))])
        BY DEF Reads
    <2> DEFINE s == session[j]
               new == session'[j]
               e == Side(j, r)
               q == Side(j, Other(r))
    <2>1. /\ e \in Devices /\ q \in Devices /\ e # q
          /\ Other(r) \in Roles /\ Other(Other(r)) = r /\ Other(r) # r
        BY PairOfSide
    <2>2. HasRead(s, r, cursor[e][q])
        BY DEF Reads
    <2>3. CASE e = d
        <3>1. \/ cursor'[e][q] = cursor[e][q]
              \/ ~Begun(new, r)
            BY <2>3 DEF LosesSides
        <3>2. Ended(s, r, new)
            BY <2>3 DEF LosesSides
        <3> HIDE DEF s, new, e, q
        <3>3. Begun(new, r) => new = s
            BY <3>2, EmptySession DEF Ended, Begun
        <3> QED
            BY <2>2, <3>1, <3>3 DEF HasRead, new, e, q
    <2>4. CASE e # d
        <3>1. cursor'[e][q] = cursor[e][q]
            BY <2>1, <2>4 DEF LosesSides
        <3>2. new = s \/ Ended(s, Other(r), new)
            BY <1>1, <2>4 DEF Roles, Other
        <3> HIDE DEF s, new, e, q
        <3>3. Begun(new, r) /\ ~new.overlapped =>
                 Begun(s, r) /\ ~s.overlapped /\ new.cursor = s.cursor
            BY <2>1, <3>2, EmptySession DEF Ended, Begun
        <3>4. HasRead(new, r, cursor[e][q])
            BY <2>2, <3>3 DEF HasRead
        <3> QED
            BY <3>1, <3>4 DEF new, e, q
    <2> QED
        BY <2>3, <2>4
<1> QED
    BY <1>2, <1>3, <1>4

\* A device that loses nothing still owes its notes.
LEMMA LosesStores ==
    ASSUME TypeOK, AllSound, NEW d \in Devices, LosesSides(d),
           NEW e \in Devices, NEW q \in Devices, e # q, e # d, NEW x, Stores(e, q, x)
    PROVE  Stores(e, q, x)'
<1>1. ASSUME NEW j \in Pairs, NEW r \in Roles, Side(j, r) # d,
             Begun(session[j], r), x \in session[j].stored[r]
      PROVE  Begun(session'[j], r) /\ x \in session'[j].stored[r]
    <2> DEFINE s == session[j]
               new == session'[j]
    <2>1. Other(r) \in Roles /\ Other(Other(r)) = r
        BY DEF Roles, Other
    <2>2. new = s \/ Ended(s, Other(r), new)
        <3>1. CASE Side(j, Other(r)) = d
            BY <2>1, <3>1 DEF LosesSides
        <3>2. CASE Side(j, Other(r)) # d
            <4>1. j[1] # d /\ j[2] # d
                BY <1>1, <3>2 DEF Side, Other, Roles
            <4> QED
                BY <4>1 DEF LosesSides
        <3> QED
            BY <3>1, <3>2
    <2>3. s.step \in {"returned", "closed"} /\ s.end[r] = "open"
        BY <1>1 DEF AllSound, Sound, Roles, Begun
    <2> HIDE DEF s, new
    <2>4. new = s \/ (new.step = s.step /\ new.stored = s.stored /\ new.end[r] = "open")
        BY <2>1, <2>2, <2>3 DEF Ended
    <2> QED
        BY <1>1, <2>4 DEF Begun, s, new
<1>2. <<e, q>> \in Pairs /\ <<q, e>> \in Pairs /\ "dial" \in Roles /\ "listen" \in Roles
    BY DEF Pairs, Roles
<1>3. Side(<<e, q>>, "dial") # d /\ Side(<<q, e>>, "listen") # d
    BY DEF Side
<1> QED
    BY <1>1, <1>2, <1>3 DEF Stores

\* The sides of device d in its sessions with p.
LEMMA SidesOf ==
    ASSUME NEW d \in Devices, NEW p \in Devices, d # p
    PROVE  /\ <<d, p>> \in Pairs /\ <<p, d>> \in Pairs /\ "dial" \in Roles /\ "listen" \in Roles
           /\ Side(<<d, p>>, "dial") = d /\ Side(<<d, p>>, "listen") = p
           /\ Side(<<p, d>>, "listen") = d /\ Side(<<p, d>>, "dial") = p
           /\ Other("dial") = "listen" /\ Other("listen") = "dial"
    BY DEF Pairs, Roles, Side, Other

\* Its sessions with p after the loss.
LEMMA LosesPair ==
    ASSUME NEW d \in Devices, NEW p \in Devices, d # p, LosesSides(d)
    PROVE  /\ Ended(session[<<d, p>>], "dial", session'[<<d, p>>])
           /\ Ended(session[<<p, d>>], "listen", session'[<<p, d>>])
           /\ /\ session'[<<d, p>>] # session[<<d, p>>]
              /\ session[<<d, p>>].end["listen"] = "committed"
              => MissingAtRisk("peer lost", p, d, Current(<<d, p>>, "listen")) \subseteq missed'
           /\ /\ session'[<<p, d>>] # session[<<p, d>>]
              /\ session[<<p, d>>].end["dial"] = "committed"
              => MissingAtRisk("peer lost", p, d, Current(<<p, d>>, "dial")) \subseteq missed'
           /\ \/ cursor'[d][p] = cursor[d][p]
              \/ /\ cursor'[d][p] = NoCursor
                 /\ MissingAtRisk("damage", d, p, Floored(d, p)) \subseteq missed'
           /\ cursor'[p] = cursor[p]
<1>1. \A k \in Pairs, role \in Roles : Side(k, role) = d =>
         /\ Ended(session[k], role, session'[k])
         /\ session'[k] # session[k] /\ session[k].end[Other(role)] = "committed" =>
               MissingAtRisk("peer lost", Side(k, Other(role)), d, Current(k, Other(role)))
                  \subseteq missed'
         /\ \/ cursor'[d][Side(k, Other(role))] = cursor[d][Side(k, Other(role))]
            \/ /\ cursor'[d][Side(k, Other(role))] = NoCursor
               /\ MissingAtRisk("damage", d, Side(k, Other(role)),
                                Floored(d, Side(k, Other(role)))) \subseteq missed'
    BY DEF LosesSides
<1>2. cursor'[p] = cursor[p]
    BY DEF LosesSides
<1>3. /\ Ended(session[<<d, p>>], "dial", session'[<<d, p>>])
      /\ session'[<<d, p>>] # session[<<d, p>>] /\ session[<<d, p>>].end["listen"] = "committed"
            => MissingAtRisk("peer lost", p, d, Current(<<d, p>>, "listen")) \subseteq missed'
      /\ \/ cursor'[d][p] = cursor[d][p]
         \/ /\ cursor'[d][p] = NoCursor
            /\ MissingAtRisk("damage", d, p, Floored(d, p)) \subseteq missed'
    <2> DEFINE k == <<d, p>>
    <2>1. /\ k \in Pairs /\ "dial" \in Roles /\ Side(k, "dial") = d
          /\ Other("dial") = "listen" /\ Side(k, "listen") = p
        BY SidesOf
    <2> HIDE DEF k
    <2>2. /\ Ended(session[k], "dial", session'[k])
          /\ session'[k] # session[k] /\ session[k].end["listen"] = "committed"
                => MissingAtRisk("peer lost", p, d, Current(k, "listen")) \subseteq missed'
          /\ \/ cursor'[d][p] = cursor[d][p]
             \/ /\ cursor'[d][p] = NoCursor
                /\ MissingAtRisk("damage", d, p, Floored(d, p)) \subseteq missed'
        BY <1>1, <2>1
    <2> QED
        BY <2>2 DEF k
<1>4. /\ Ended(session[<<p, d>>], "listen", session'[<<p, d>>])
      /\ session'[<<p, d>>] # session[<<p, d>>] /\ session[<<p, d>>].end["dial"] = "committed"
            => MissingAtRisk("peer lost", p, d, Current(<<p, d>>, "dial")) \subseteq missed'
    <2> DEFINE k == <<p, d>>
    <2>1. /\ k \in Pairs /\ "listen" \in Roles /\ Side(k, "listen") = d
          /\ Other("listen") = "dial" /\ Side(k, "dial") = p
        BY SidesOf
    <2> HIDE DEF k
    <2>2. /\ Ended(session[k], "listen", session'[k])
          /\ session'[k] # session[k] /\ session[k].end["dial"] = "committed"
                => MissingAtRisk("peer lost", p, d, Current(k, "dial")) \subseteq missed'
        BY <1>1, <2>1
    <2> QED
        BY <2>2 DEF k
<1> QED
    BY <1>2, <1>3, <1>4

\* The versions of the device that loses its sides.
LEMMA LosesOwner ==
    ASSUME TypeOK, TypeOK', NEW d \in Devices, NEW p \in Devices, d # p, LosesSides(d),
           NEW x \in Items, store'[d][x] = store[d][x], Safe(d, p, x), Loose(d, p, x)'
    PROVE  Safe(d, p, x)'
<1> DEFINE v == store[d][x]
           floor == cursor[d][p].relay
           floor2 == cursor'[d][p].relay
           since == cursor[p][d].since
           sd == session[<<d, p>>]
           sl == session[<<p, d>>]
           nd == session'[<<d, p>>]
           nl == session'[<<p, d>>]
<1>1. /\ Ended(sd, "dial", nd) /\ Ended(sl, "listen", nl)
      /\ \/ cursor'[d][p] = cursor[d][p]
         \/ MissingAtRisk("damage", d, p, Floored(d, p)) \subseteq missed'
      /\ cursor'[p] = cursor[p]
    BY LosesPair
<1>2. CASE cursor'[d][p] # cursor[d][p] /\ floor <= v
    <2>1. "damage" \in Gaps /\ x \in Floored(d, p)
        BY <1>2 DEF Gaps, Floored
    <2>2. Fresh(d, p, x)'
        BY <1>1, <1>2, <2>1, NotAtRisk
    <2> QED
        BY <2>2, FreshIsSafe
<1>3. CASE cursor'[d][p] = cursor[d][p] \/ ~(floor <= v)
    <2>1. Promised(x, v, floor, since, sd, sl)
        BY DEF Safe
    <2>2. "dial" \in Roles /\ "listen" \in Roles
        BY DEF Roles
    <2>3. v \in Int /\ floor \in Int /\ floor2 \in Int /\ since \in Int
        BY PromiseTypes, PromiseTypesNext
    <2> HIDE DEF v, floor, floor2, since, sd, sl, nd, nl
    <2>4. /\ ~nd.overlapped => Keeps(nd, "dial", x, v, floor, since)
          /\ Awaits(sd, "dial", x, v) => Awaits(nd, "dial", x, v)
          /\ Received(nd, "dial", x, v, since)
        BY <1>1, <2>1, <2>2, OwnerEnds DEF Promised
    <2>5. /\ ~nl.overlapped => Keeps(nl, "listen", x, v, floor, since)
          /\ Awaits(sl, "listen", x, v) => Awaits(nl, "listen", x, v)
          /\ Received(nl, "listen", x, v, since)
        BY <1>1, <2>1, <2>2, OwnerEnds DEF Promised
    <2>6. Promised(x, v, floor, since, nd, nl)
        BY <2>1, <2>4, <2>5 DEF Promised
    <2>7. Promised(x, v, floor2, since, nd, nl)
        <3>1. CASE cursor'[d][p] = cursor[d][p]
            BY <2>6, <3>1 DEF floor, floor2
        <3>2. CASE ~(floor <= v)
            BY <2>3, <2>6, <3>2, HigherFloor
        <3> QED
            BY <1>3, <3>1, <3>2
    <2> QED
        BY <1>1, <2>7 DEF Safe, v, floor2, since, nd, nl
<1> QED
    BY <1>2, <1>3

\* The versions of a peer of it.
LEMMA LosesPeer ==
    ASSUME TypeOK, TypeOK', NEW d \in Devices, NEW p \in Devices, d # p, LosesSides(d),
           NEW x \in Items, Safe(p, d, x), Loose(p, d, x)'
    PROVE  Safe(p, d, x)'
<1> DEFINE v == store[p][x]
           floor == cursor[p][d].relay
           since == cursor[d][p].since
           now == cursor'[d][p].since
           sd == session[<<p, d>>]
           sl == session[<<d, p>>]
           nd == session'[<<p, d>>]
           nl == session'[<<d, p>>]
<1>1. /\ Ended(sl, "dial", nl) /\ Ended(sd, "listen", nd)
      /\ nl # sl /\ sl.end["listen"] = "committed"
         => MissingAtRisk("peer lost", p, d, Current(<<d, p>>, "listen")) \subseteq missed'
      /\ nd # sd /\ sd.end["dial"] = "committed"
         => MissingAtRisk("peer lost", p, d, Current(<<p, d>>, "dial")) \subseteq missed'
      /\ cursor'[d][p] = cursor[d][p] \/ cursor'[d][p] = NoCursor
      /\ cursor'[p] = cursor[p]
    BY LosesPair
<1>2. store'[p] = store[p]
    BY DEF LosesSides
<1>3. "peer lost" \in Gaps
    BY DEF Gaps
<1>4. CASE nl # sl /\ sl.end["listen"] = "committed" /\ sl.offer["listen"][x] = v
    <2>1. x \in Current(<<d, p>>, "listen")
        BY <1>4, SidesOf DEF Current
    <2>2. Fresh(p, d, x)'
        BY <1>1, <1>3, <1>4, <2>1, NotAtRisk
    <2> QED
        BY <2>2, FreshIsSafe
<1>5. CASE nd # sd /\ sd.end["dial"] = "committed" /\ sd.offer["dial"][x] = v
    <2>1. x \in Current(<<p, d>>, "dial")
        BY <1>5, SidesOf DEF Current
    <2>2. Fresh(p, d, x)'
        BY <1>1, <1>3, <1>5, <2>1, NotAtRisk
    <2> QED
        BY <2>2, FreshIsSafe
<1>6. CASE /\ ~(nl # sl /\ sl.end["listen"] = "committed" /\ sl.offer["listen"][x] = v)
           /\ ~(nd # sd /\ sd.end["dial"] = "committed" /\ sd.offer["dial"][x] = v)
    <2>1. Promised(x, v, floor, since, sd, sl)
        BY DEF Safe
    <2>2. /\ v \in Int /\ v >= 0 /\ floor \in Int /\ since \in Int
          /\ sd \in Sessions /\ sl \in Sessions
        BY PromiseTypes
    <2>3. now \in {since, 0}
        <3>1. NoCursor.since = 0
            BY DEF NoCursor
        <3>2. cursor'[d][p] = cursor[d][p] \/ cursor'[d][p] = NoCursor
            BY <1>1
        <3> QED
            BY <3>1, <3>2
    <2>4. /\ "dial" \in Roles /\ "listen" \in Roles
          /\ Other("dial") = "listen" /\ Other("listen") = "dial"
        BY DEF Roles, Other
    <2> HIDE DEF v, floor, since, now, sd, sl, nd, nl
    <2>5. /\ ~nd.overlapped => Keeps(nd, "dial", x, v, floor, now)
          /\ Awaits(sd, "dial", x, v) => Awaits(nd, "dial", x, v)
          /\ Received(nd, "dial", x, v, now)
        <3>1. /\ ~sd.overlapped => Keeps(sd, Other("listen"), x, v, floor, since)
              /\ Received(sd, Other("listen"), x, v, since)
            BY <2>1, <2>4 DEF Promised
        <3>2. Ended(sd, "listen", nd)
            BY <1>1
        <3> QED
            BY <1>6, <2>2, <2>3, <2>4, <3>1, <3>2, PeerEnds
    <2>6. /\ ~nl.overlapped => Keeps(nl, "listen", x, v, floor, now)
          /\ Awaits(sl, "listen", x, v) => Awaits(nl, "listen", x, v)
          /\ Received(nl, "listen", x, v, now)
        <3>1. /\ ~sl.overlapped => Keeps(sl, Other("dial"), x, v, floor, since)
              /\ Received(sl, Other("dial"), x, v, since)
            BY <2>1, <2>4 DEF Promised
        <3>2. Ended(sl, "dial", nl)
            BY <1>1
        <3> QED
            BY <1>6, <2>2, <2>3, <2>4, <3>1, <3>2, PeerEnds
    <2>7. v < Lower(floor, now) => Awaits(nd, "dial", x, v) \/ Awaits(nl, "listen", x, v)
        <3>1. CASE now = since
            BY <2>1, <2>5, <2>6, <3>1 DEF Promised
        <3>2. CASE now = 0
            BY <2>2, <3>2 DEF Lower
        <3> QED
            BY <2>3, <3>1, <3>2
    <2>8. Promised(x, v, floor, now, nd, nl)
        BY <2>5, <2>6, <2>7 DEF Promised
    <2> QED
        BY <1>1, <1>2, <2>8 DEF Safe, v, floor, now, nd, nl
<1> QED
    BY <1>4, <1>5, <1>6

\* A loss keeps everything.
LEMMA LosesKeeps ==
    ASSUME TypeOK, TypeOK', AllSound, Apart, Reads, Coverage,
           NEW d \in Devices, LosesSides(d)
    PROVE  AllSound' /\ Apart' /\ Reads' /\ Coverage'
<1> SUFFICES Coverage'
    BY LosesKeepsRest
<1> SUFFICES ASSUME NEW e \in Devices, NEW q \in Devices, NEW x \in Items, e # q,
                    Loose(e, q, x)'
             PROVE  Safe(e, q, x)'
    BY DEF Coverage
<1>1. /\ StoreGrows /\ missed \subseteq missed'
      /\ e # d => cursor'[e] = cursor[e] /\ pending'[e] = pending[e] /\ store'[e] = store[e]
      /\ q # d => cursor'[q] = cursor[q]
      /\ \A k \in Pairs : k[1] # d /\ k[2] # d => session'[k] = session[k]
    BY DEF LosesSides
<1>2. CASE e = d /\ (store'[d][x] # store[d][x] \/ DueFor(d, q, x))
    <2>1. q \in Peers(d)
        BY <1>2 DEF Peers
    <2>2. Fresh(e, q, x)'
        BY <1>2, <2>1 DEF LosesSides
    <2> QED
        BY <2>2, FreshIsSafe
<1>3. CASE e = d /\ store'[d][x] = store[d][x] /\ ~DueFor(d, q, x)
    <2>1. Safe(e, q, x)
        BY <1>1, <1>3, WasLoose DEF Coverage
    <2> QED
        BY <1>3, <2>1, LosesOwner
<1>4. CASE e # d
    <2>1. DueFor(e, q, x) => DueFor(e, q, x)'
        <3>1. store'[e] = store[e] /\ pending'[e] = pending[e]
            BY <1>1, <1>4
        <3>2. \A b \in Peers(e) \ {q} : Stores(e, b, x) => Stores(e, b, x)'
            BY <1>4, LosesStores DEF Peers
        <3> QED
            BY <3>1, <3>2 DEF DueFor
    <2>2. ~DueFor(e, q, x) /\ store'[e][x] = store[e][x]
        BY <1>1, <1>4, <2>1 DEF Loose
    <2>3. Safe(e, q, x)
        BY <1>1, <2>2, WasLoose DEF Coverage
    <2>4. CASE q = d
        BY <1>4, <2>3, <2>4, LosesPeer
    <2>5. CASE q # d
        <3>1. <<e, q>> \in Pairs /\ <<q, e>> \in Pairs
            BY DEF Pairs
        <3>2. session'[<<e, q>>] = session[<<e, q>>] /\ session'[<<q, e>>] = session[<<q, e>>]
            BY <1>1, <1>4, <2>5, <3>1
        <3>3. cursor[e][q].relay \in Int
            BY PromiseTypes
        <3>4. cursor'[q][e].since = cursor[q][e].since /\ cursor'[e][q].relay <= cursor[e][q].relay
            BY <1>1, <1>4, <2>5, <3>3
        <3> QED
            BY <2>2, <2>3, <3>2, <3>4, SafeFrame
    <2> QED
        BY <2>4, <2>5
<1> QED
    BY <1>2, <1>3, <1>4

\* The rows X that a lost side stored, when they were loose of notes, are recorded
\* or fresh; and so is what a peer that has committed believes delivered.
LEMMA LossGapsRecord ==
    ASSUME NEW k \in Pairs, NEW role \in Roles, NEW X, LossGaps(k, role, X) \subseteq missed'
    PROVE  /\ \A q \in Peers(Side(k, role)) \ {Side(k, Other(role))}, x \in X :
                 Loose(Side(k, role), q, x)' => Fresh(Side(k, role), q, x)'
           /\ session[k].end[Other(role)] = "committed" =>
                 MissingAtRisk("peer lost", Side(k, Other(role)), Side(k, role),
                               Current(k, Other(role))) \subseteq missed'
<1> DEFINE d == Side(k, role)
           p == Side(k, Other(role))
           Notable(q) == {x \in X : cursor[d][q].since > store'[d][x]}
           M(q) == MissingAtRisk("uncommitted", d, q, Notable(q))
                      \cup MissingAtRisk("own cursor", d, q, X \ Notable(q))
           Q == Peers(d) \ {p}
           L == IF session[k].end[Other(role)] = "committed"
                THEN MissingAtRisk("peer lost", p, d, Current(k, Other(role))) ELSE {}
<1>1. LossGaps(k, role, X) = (UNION {M(q) : q \in Q}) \cup L
    BY DEF LossGaps
<1>2. L \subseteq missed' /\ \A q \in Q : M(q) \subseteq missed'
    <2> HIDE DEF M, Q, L
    <2> QED
        BY <1>1
<1>3. "uncommitted" \in Gaps /\ "own cursor" \in Gaps
    BY DEF Gaps
<1>4. ASSUME NEW q \in Q, NEW x \in X, Loose(d, q, x)' PROVE Fresh(d, q, x)'
    <2>1. /\ MissingAtRisk("uncommitted", d, q, Notable(q)) \subseteq missed'
          /\ MissingAtRisk("own cursor", d, q, X \ Notable(q)) \subseteq missed'
        BY <1>2
    <2>2. x \in Notable(q) \/ x \in X \ Notable(q)
        OBVIOUS
    <2> HIDE DEF Notable, d
    <2> QED
        BY <1>3, <1>4, <2>1, <2>2, NotAtRisk
<1> QED
    BY <1>2, <1>4

\* A connection that drops loses a side.
LEMMA LoseSideLoses ==
    ASSUME TypeOK, TypeOK', AllSound, NEW k \in Pairs, NEW role \in Roles, NEW frames,
           NEW raised, LoseSide(k, role, frames, raised)
    PROVE  LosesSides(Side(k, role))
<1> DEFINE s == session[k]
           d == Side(k, role)
           p == Side(k, Other(role))
           offer == s.offer[Other(role)]
           taken == Arrived(d, offer, frames)
           X == s.stored[role] \cup taken
<1>1. /\ d \in Devices /\ p \in Devices /\ d # p /\ Other(role) \in Roles
      /\ Other(Other(role)) = role /\ Other(role) # role /\ s \in Sessions
      /\ offer \in [Items -> Stamps]
    <2>1. s \in Sessions /\ Other(role) \in Roles
        BY PairOfSide DEF TypeOK
    <2> HIDE DEF s
    <2>2. s.offer[Other(role)] \in [Items -> Stamps]
        BY <2>1 DEF Sessions
    <2> QED
        BY <2>1, <2>2, PairOfSide
<1>2. /\ MayApply(d, offer, frames, {}, raised)
      /\ store' = [store EXCEPT ![d] = AppliedTo(d, offer, taken, raised)]
      /\ session' = [session EXCEPT ![k] = WithoutSide(s, role)]
      /\ cursor' = cursor /\ pending' = pending
      /\ missed' = missed \cup LossGaps(k, role, X) \cup ApplyGaps(d, p, offer, {}, raised)
    BY DEF LoseSide
<1>3. StoreGrows /\ OnlyApplies(d, offer, taken, raised)
    <2>1. taken = taken \ {}
        OBVIOUS
    <2>2. store' = [store EXCEPT ![d] =
                       AppliedTo(d, offer, Arrived(d, offer, frames) \ {}, raised)]
        BY <1>2, <2>1
    <2> HIDE DEF d, offer, taken
    <2>3. StoreGrows /\ OnlyApplies(d, offer, Arrived(d, offer, frames) \ {}, raised)
        BY <1>1, <1>2, <2>2, AppliedGrows, AppliedChanges
    <2> QED
        BY <2>1, <2>3 DEF taken
<1>4. /\ session'[k] = WithoutSide(s, role)
      /\ \A j \in Pairs : j # k => session'[j] = session[j]
    BY <1>2 DEF TypeOK
<1>5. /\ missed \subseteq missed' /\ LossGaps(k, role, X) \subseteq missed'
      /\ MissingAtRisk("raised", d, p, raised) \subseteq missed'
    <2>1. MissingAtRisk("raised", d, p, raised) \subseteq ApplyGaps(d, p, offer, {}, raised)
        BY DEF ApplyGaps
    <2> QED
        BY <1>2, <2>1
<1>6. /\ \A q \in Peers(d) \ {p}, x \in X : Loose(d, q, x)' => Fresh(d, q, x)'
      /\ s.end[Other(role)] = "committed" =>
            MissingAtRisk("peer lost", p, d, Current(k, Other(role))) \subseteq missed'
    BY <1>5, LossGapsRecord
<1>7. \A j \in Pairs : j[1] # d /\ j[2] # d => session'[j] = session[j]
    BY <1>4 DEF Side
<1>8. \A e \in Devices : e # d =>
         cursor'[e] = cursor[e] /\ pending'[e] = pending[e] /\ store'[e] = store[e]
    BY <1>2 DEF TypeOK
<1>9. ASSUME NEW j \in Pairs, NEW r \in Roles, Side(j, r) = d
      PROVE  /\ Ended(session[j], r, session'[j])
             /\ session'[j] # session[j] /\ session[j].end[Other(r)] = "committed" =>
                   MissingAtRisk("peer lost", Side(j, Other(r)), d, Current(j, Other(r)))
                      \subseteq missed'
    <2>1. CASE j # k
        BY <1>4, <2>1 DEF Ended
    <2>2. CASE j = k
        <3>1. r = role
            BY <1>9, <2>2 DEF Side, Pairs, Roles
        <3>2. Ended(s, role, session'[k])
            BY <1>1, <1>4, WithoutSideEnds
        <3> QED
            BY <1>6, <2>2, <3>1, <3>2
    <2> QED
        BY <2>1, <2>2
<1>10. ASSUME NEW q \in Peers(d), NEW x \in Items,
              store'[d][x] # store[d][x] \/ DueFor(d, q, x), Loose(d, q, x)'
       PROVE  Fresh(d, q, x)'
    <2>0. x \in X /\ q # p => Fresh(d, q, x)'
        BY <1>6, <1>10
    <2>1. CASE store'[d][x] # store[d][x]
        <3>1. x \in taken /\ (x \in raised \/ store'[d][x] = offer[x])
            BY <1>1, <1>3, <2>1 DEF OnlyApplies
        <3>2. CASE q # p
            BY <2>0, <3>1, <3>2
        <3>3. CASE q = p /\ x \in raised
            <4>1. "raised" \in Gaps
                BY DEF Gaps
            <4> HIDE DEF d, p
            <4> QED
                BY <1>5, <1>10, <3>3, <4>1, NotAtRisk
        <3>4. CASE q = p /\ store'[d][x] = offer[x]
            <4>1. offer[x] <= store[p][x]
                BY <1>1 DEF AllSound, Sound
            <4>2. store'[p][x] = store[p][x] /\ store[p][x] \in Int /\ offer[x] \in Int
                BY <1>1, <1>8 DEF TypeOK, Stamps
            <4>3. store'[d][x] > store'[q][x]
                BY <1>10 DEF Loose, Owed
            <4> QED
                BY <3>4, <4>1, <4>2, <4>3
        <3> QED
            BY <3>1, <3>2, <3>3, <3>4
    <2>2. CASE store'[d][x] = store[d][x]
        <3>1. DueFor(d, q, x) /\ ~DueFor(d, q, x)'
            BY <1>10, <2>2 DEF Loose
        <3>2. PICK b \in Peers(d) \ {q} : Stores(d, b, x) /\ ~Stores(d, b, x)'
            BY <1>2, <2>2, <3>1 DEF DueFor
        <3>3. b \in Devices /\ b # d /\ b # q
            BY <3>2 DEF Peers
        <3>4. ASSUME NEW j \in Pairs, NEW r \in Roles, Side(j, r) = d,
                     Side(j, Other(r)) = b, x \in session[j].stored[r],
                     session'[j] # session[j]
              PROVE  x \in s.stored[role] /\ b = p
            <4>1. j = k
                BY <1>4, <3>4
            <4>2. r = role
                BY <3>4, <4>1 DEF Side, Pairs, Roles
            <4> QED
                BY <3>4, <4>1, <4>2
        <3>5. x \in s.stored[role] /\ b = p
            <4>1. CASE /\ Begun(session[<<d, b>>], "dial")
                       /\ x \in session[<<d, b>>].stored["dial"]
                <5> HIDE DEF d, p, s
                <5> DEFINE j == <<d, b>>
                <5>1. session'[j] # session[j] /\ x \in session[j].stored["dial"]
                    BY <3>2, <4>1 DEF Stores
                <5>2. /\ j \in Pairs /\ "dial" \in Roles
                      /\ Side(j, "dial") = d /\ Side(j, Other("dial")) = b
                    BY <1>1, <3>3, SidesOf
                <5> HIDE DEF j
                <5> QED
                    BY <3>4, <5>1, <5>2
            <4>2. CASE /\ Begun(session[<<b, d>>], "listen")
                       /\ x \in session[<<b, d>>].stored["listen"]
                <5> HIDE DEF d, p, s
                <5> DEFINE j == <<b, d>>
                <5>1. session'[j] # session[j] /\ x \in session[j].stored["listen"]
                    BY <3>2, <4>2 DEF Stores
                <5>2. /\ j \in Pairs /\ "listen" \in Roles
                      /\ Side(j, "listen") = d /\ Side(j, Other("listen")) = b
                    BY <1>1, <3>3, SidesOf
                <5> HIDE DEF j
                <5> QED
                    BY <3>4, <5>1, <5>2
            <4> QED
                BY <3>2, <4>1, <4>2 DEF Stores
        <3> QED
            BY <2>0, <3>3, <3>5
    <2> QED
        BY <2>1, <2>2
<1>11. \A q : cursor'[d][q] = cursor[d][q]
    BY <1>2
<1> HIDE DEF d
<1>12. LosesSides(d)
    BY <1>3, <1>5, <1>7, <1>8, <1>9, <1>10, <1>11 DEF LosesSides
<1> QED
    BY <1>12 DEF d

\* A restart loses every side of a device.
LEMMA RestartLoses ==
    ASSUME TypeOK, TypeOK', NEW d \in Devices, NEW damaged \in BOOLEAN, Restart(d, damaged)
    PROVE  LosesSides(d)
<1>1. /\ store' = store /\ pending' = [pending EXCEPT ![d] = {}]
      /\ session' = [k \in Pairs |-> IF k[1] = d THEN WithoutSide(session[k], "dial")
                                     ELSE IF k[2] = d THEN WithoutSide(session[k], "listen")
                                     ELSE session[k]]
      /\ cursor' = IF damaged THEN [cursor EXCEPT ![d] = [p \in Devices |-> NoCursor]]
                   ELSE cursor
    BY DEF Restart
<1> DEFINE A(p) == MissingAtRisk("restart", d, p, {w[1] : w \in pending[d]})
           B(p) == LossGaps(<<d, p>>, "dial", session[<<d, p>>].stored["dial"])
           C(p) == LossGaps(<<p, d>>, "listen", session[<<p, d>>].stored["listen"])
           D(p) == IF damaged THEN MissingAtRisk("damage", d, p, Floored(d, p)) ELSE {}
           G(p) == A(p) \cup B(p) \cup C(p) \cup D(p)
<1>2. missed' = missed \cup UNION {G(p) : p \in Peers(d)}
    BY DEF Restart, Floored
<1>3. missed \subseteq missed' /\ \A p \in Peers(d) : G(p) \subseteq missed'
    <2> HIDE DEF G
    <2> QED
        BY <1>2
<1>4. ASSUME NEW p \in Peers(d)
      PROVE  A(p) \subseteq missed' /\ B(p) \subseteq missed' /\ C(p) \subseteq missed'
             /\ D(p) \subseteq missed'
    <2> HIDE DEF A, B, C, D
    <2> QED
        BY <1>3
<1>5. ASSUME NEW p \in Peers(d)
      PROVE  p \in Devices /\ d # p
    BY DEF Peers
<1>6. ASSUME NEW j \in Pairs, NEW r \in Roles, Side(j, r) = d
      PROVE  /\ Side(j, Other(r)) \in Peers(d)
             /\ session'[j] = WithoutSide(session[j], r)
             /\ LossGaps(j, r, session[j].stored[r]) \subseteq missed'
    <2> DEFINE p == Side(j, Other(r))
    <2>1. p \in Peers(d) /\ j[1] # j[2]
        <3>1. p \in Devices /\ d # p
            BY <1>6, PairOfSide
        <3> HIDE DEF p
        <3>2. j[1] # j[2]
            BY DEF Pairs
        <3> QED
            BY <3>1, <3>2 DEF Peers
    <2>2. CASE r = "dial"
        <3>1. j = <<d, p>> /\ j[1] = d
            BY <1>6, <2>2 DEF Side, Other, Pairs
        <3> HIDE DEF p
        <3>2. session'[j] = WithoutSide(session[j], r)
            BY <1>1, <2>2, <3>1
        <3>3. LossGaps(j, r, session[j].stored[r]) \subseteq missed'
            BY <1>4, <2>1, <2>2, <3>1
        <3> QED
            BY <2>1, <3>2, <3>3 DEF p
    <2>3. CASE r = "listen"
        <3>1. j = <<p, d>> /\ j[2] = d
            BY <1>6, <2>3 DEF Side, Other, Pairs
        <3> HIDE DEF p
        <3>2. session'[j] = WithoutSide(session[j], r)
            BY <1>1, <2>1, <2>3, <3>1
        <3>3. LossGaps(j, r, session[j].stored[r]) \subseteq missed'
            BY <1>4, <2>1, <2>3, <3>1
        <3> QED
            BY <2>1, <3>2, <3>3 DEF p
    <2> QED
        BY <2>2, <2>3 DEF Roles
<1>7. StoreGrows
    BY <1>1, SameStore
<1>8. \A k \in Pairs : k[1] # d /\ k[2] # d => session'[k] = session[k]
    BY <1>1
<1>9. \A e \in Devices : e # d =>
         cursor'[e] = cursor[e] /\ pending'[e] = pending[e] /\ store'[e] = store[e]
    BY <1>1 DEF TypeOK
<1>10. ASSUME NEW j \in Pairs, NEW r \in Roles, Side(j, r) = d
       PROVE  /\ Ended(session[j], r, session'[j])
              /\ session'[j] # session[j] /\ session[j].end[Other(r)] = "committed" =>
                    MissingAtRisk("peer lost", Side(j, Other(r)), d, Current(j, Other(r)))
                       \subseteq missed'
              /\ LET p == Side(j, Other(r))
                 IN  \/ cursor'[d][p] = cursor[d][p]
                     \/ /\ cursor'[d][p] = NoCursor /\ ~Begun(session'[j], r)
                        /\ MissingAtRisk("damage", d, p, Floored(d, p)) \subseteq missed'
    <2> DEFINE p == Side(j, Other(r))
    <2>1. p \in Peers(d) /\ p \in Devices
        BY <1>5, <1>6, <1>10
    <2>2. session[j] \in Sessions /\ session'[j] = WithoutSide(session[j], r)
        BY <1>6, <1>10 DEF TypeOK
    <2>3. Ended(session[j], r, session'[j]) /\ ~Begun(session'[j], r)
        BY <2>2, WithoutSideEnds
    <2>4. session[j].end[Other(r)] = "committed" =>
             MissingAtRisk("peer lost", p, d, Current(j, Other(r))) \subseteq missed'
        BY <1>6, <1>10, LossGapsRecord
    <2>5. \/ cursor'[d][p] = cursor[d][p]
          \/ /\ cursor'[d][p] = NoCursor
             /\ MissingAtRisk("damage", d, p, Floored(d, p)) \subseteq missed'
        <3>1. CASE damaged
            <4> HIDE DEF p
            <4>1. cursor'[d][p] = NoCursor
                BY <1>1, <2>1, <3>1 DEF TypeOK
            <4>2. MissingAtRisk("damage", d, p, Floored(d, p)) \subseteq missed'
                BY <1>4, <2>1, <3>1
            <4> QED
                BY <4>1, <4>2
        <3>2. CASE ~damaged
            BY <1>1, <3>2
        <3> QED
            BY <3>1, <3>2
    <2> QED
        BY <2>3, <2>4, <2>5
<1>11. ASSUME NEW q \in Peers(d), NEW x \in Items, DueFor(d, q, x), Loose(d, q, x)'
       PROVE  Fresh(d, q, x)'
    <2>1. CASE <<x, store[d][x]>> \in pending[d]
        <3>1. x \in {w[1] : w \in pending[d]}
            BY <2>1
        <3>2. MissingAtRisk("restart", d, q, {w[1] : w \in pending[d]}) \subseteq missed'
            BY <1>4
        <3>3. "restart" \in Gaps
            BY DEF Gaps
        <3> QED
            BY <1>11, <3>1, <3>2, <3>3, NotAtRisk
    <2>2. ASSUME NEW b \in Peers(d) \ {q}, Stores(d, b, x) PROVE Fresh(d, q, x)'
        <3>1. b \in Devices /\ b # d /\ q \in Peers(d) \ {b}
            BY <2>2 DEF Peers
        <3>2. ASSUME NEW j \in Pairs, NEW r \in Roles, Side(j, r) = d, Side(j, Other(r)) = b,
                     x \in session[j].stored[r]
              PROVE  Fresh(d, q, x)'
            <4>1. LossGaps(j, r, session[j].stored[r]) \subseteq missed'
                BY <1>6, <3>2
            <4>2. \A c \in Peers(Side(j, r)) \ {Side(j, Other(r))}, y \in session[j].stored[r] :
                     Loose(Side(j, r), c, y)' => Fresh(Side(j, r), c, y)'
                BY <4>1, LossGapsRecord
            <4> QED
                BY <1>11, <3>1, <3>2, <4>2
        <3>3. CASE x \in session[<<d, b>>].stored["dial"]
            <4> DEFINE j == <<d, b>>
            <4>1. /\ j \in Pairs /\ "dial" \in Roles
                  /\ Side(j, "dial") = d /\ Side(j, "listen") = b /\ Other("dial") = "listen"
                BY <3>1, SidesOf
            <4>2. x \in session[j].stored["dial"]
                BY <3>3
            <4> HIDE DEF j
            <4> QED
                BY <3>2, <4>1, <4>2
        <3>4. CASE x \in session[<<b, d>>].stored["listen"]
            <4> DEFINE j == <<b, d>>
            <4>1. /\ j \in Pairs /\ "listen" \in Roles
                  /\ Side(j, "listen") = d /\ Side(j, "dial") = b /\ Other("listen") = "dial"
                BY <3>1, SidesOf
            <4>2. x \in session[j].stored["listen"]
                BY <3>4
            <4> HIDE DEF j
            <4> QED
                BY <3>2, <4>1, <4>2
        <3> QED
            BY <2>2, <3>3, <3>4 DEF Stores
    <2> QED
        BY <1>11, <2>1, <2>2 DEF DueFor
<1>12. \A q \in Peers(d), x \in Items :
          (store'[d][x] # store[d][x] \/ DueFor(d, q, x)) /\ Loose(d, q, x)' =>
          Fresh(d, q, x)'
    BY <1>1, <1>11
<1> QED
    BY <1>3, <1>7, <1>8, <1>9, <1>10, <1>12 DEF LosesSides

-----------------------------------------------------------------------------
(* The theorem.                                                            *)

\* The steps of one session.
LEMMA ExchangeKeeps ==
    ASSUME TypeOK, TypeOK', AllSound, Apart, Reads, Coverage, NEW k \in Pairs, NEW X,
           NEW refused, NEW raised,
           \/ Accept(k) \/ OfferSummaries(k) \/ AnswerSummaries(k)
           \/ ServeDialler(k, X) \/ ServeListener(k, X, refused, raised)
           \/ ApplyListener(k, refused, raised)
    PROVE  AllSound' /\ Apart' /\ Reads' /\ Coverage'
<1>1. PICK new : Advance(k, new)
    BY AcceptAdvances, OfferAdvances, AnswerAdvances, ServeDiallerAdvances,
       ServeListenerAdvances, ApplyListenerAdvances
<1> QED
    BY <1>1, AdvanceKeepsRest, AdvanceCoverage

\* Every step keeps the invariant.
LEMMA RelayInvStep ==
    ASSUME RelayInv, TypeOK', [Next]_vars
    PROVE  RelayInv'
<1>1. TypeOK /\ Promises /\ AllSound /\ Apart /\ Reads /\ Coverage
    BY DEF RelayInv
<1>2. Promises' /\ MarkIsDelivered
    BY <1>1, PromisesStep, PromiseDelivers
<1>3. AllSound' /\ Apart' /\ Reads' /\ Coverage'
    <2>1. CASE UNCHANGED vars \/ TimePasses
        <3>1. UNCHANGED <<store, cursor, pending, session, missed>>
            BY <2>1 DEF vars, TimePasses
        <3> QED
            BY <1>1, <3>1, TimeKeeps
    <2>2. CASE Exchange
        <3>1. PICK k \in Pairs :
                 \/ Dial(k) \/ Accept(k) \/ OfferSummaries(k) \/ AnswerSummaries(k)
                 \/ ServeDialler(k, {}) \/ ServeListener(k, {}, {}, {})
                 \/ ApplyListener(k, {}, {})
                 \/ \E role \in Roles : Commit(k, role, Saves)
            BY <2>2 DEF Exchange
        <3>2. CASE Dial(k)
            BY <1>1, <3>2, DialKeeps
        <3>3. CASE \E role \in Roles : Commit(k, role, Saves)
            <4>1. Saves \in SUBSET Saves
                OBVIOUS
            <4> QED
                BY <1>1, <1>2, <3>3, <4>1, CommitKeeps
        <3>4. CASE \/ Accept(k) \/ OfferSummaries(k) \/ AnswerSummaries(k)
                   \/ ServeDialler(k, {}) \/ ServeListener(k, {}, {}, {})
                   \/ ApplyListener(k, {}, {})
            BY <1>1, <3>4, ExchangeKeeps
        <3> QED
            BY <3>1, <3>2, <3>3, <3>4
    <2>3. CASE Notes
        <3>1. PICK d \in Devices : \E w \in pending[d] : NoteLocal(d, w, TRUE)
            BY <2>3 DEF Notes
        <3> QED
            BY <1>1, <3>1, NoteLocalKeeps
    <2>4. CASE Writers
        BY <1>1, <2>4, WriteKeeps DEF Writers
    <2>5. CASE Failures
        <3>0. {} \in SUBSET Items
            OBVIOUS
        <3>1. CASE \E k \in Pairs, X, refused, raised \in SUBSET Items :
                      \/ ServeDialler(k, X) \/ ServeListener(k, X, refused, raised)
                      \/ ApplyListener(k, refused, raised)
            BY <1>1, <3>1, ExchangeKeeps
        <3>2. CASE \E k \in Pairs, role \in Roles :
                      \E saved \in SUBSET Saves : Commit(k, role, saved)
            BY <1>1, <1>2, <3>2, CommitKeeps
        <3>3. CASE \E k \in Pairs, role \in Roles :
                      \E frames \in SUBSET Arriving(session[k], role) :
                         \E raised \in SUBSET frames : LoseSide(k, role, frames, raised)
            <4>1. PICK k \in Pairs, role \in Roles :
                     \E frames, raised : LoseSide(k, role, frames, raised)
                BY <3>3
            <4>2. LosesSides(Side(k, role)) /\ Side(k, role) \in Devices
                BY <1>1, <4>1, LoseSideLoses, SideType
            <4> QED
                BY <1>1, <4>2, LosesKeeps
        <3>4. CASE \E d \in Devices : \E w \in pending[d] : NoteLocal(d, w, FALSE)
            <4>1. PICK d \in Devices : \E w \in pending[d] : NoteLocal(d, w, FALSE)
                BY <3>4
            <4> QED
                BY <1>1, <4>1, NoteLocalKeeps
        <3>5. CASE \E d \in Devices, damaged \in BOOLEAN : Restart(d, damaged)
            <4>1. PICK d \in Devices, damaged \in BOOLEAN : Restart(d, damaged)
                BY <3>5
            <4>2. LosesSides(d)
                BY <1>1, <4>1, RestartLoses
            <4> QED
                BY <1>1, <4>2, LosesKeeps
        <3> QED
            BY <2>5, <3>0, <3>1, <3>2, <3>3, <3>4, <3>5 DEF Failures
    <2> QED
        BY <2>1, <2>2, <2>3, <2>4, <2>5 DEF Next
<1> QED
    BY <1>2, <1>3 DEF RelayInv

\* It holds at the start: no cursor has passed anything.
LEMMA RelayInvInit ==
    ASSUME Init, TypeOK
    PROVE  RelayInv
<1>1. /\ \A k \in Pairs : session[k] = NoSession
      /\ \A d \in Devices, p \in Devices : cursor[d][p] = NoCursor
    BY DEF Init
<1>2. Promises
    BY <1>1, NoPromise DEF Promises
<1>3. AllSound
    <2> SUFFICES ASSUME NEW k \in Pairs PROVE Sound(NoSession, k, store)
        BY <1>1 DEF AllSound
    <2>1. \A role \in Roles, x \in Items : store[Side(k, role)][x] >= 0
        <3>1. \A e \in Devices, x \in Items : store[e][x] >= 0
            BY PeerRelayAssumption DEF TypeOK, Stamps
        <3> QED
            BY <3>1, SideType
    <2>2. "dial" \in Roles /\ "listen" \in Roles
        BY DEF Roles
    <2>3. \A role \in Roles, x \in Items : NoSession.offer[role][x] <= store[Side(k, role)][x]
        BY <2>1, EmptySession
    <2>4. \A role \in Roles, x \in Items : x \notin NoSession.stored[role]
        BY EmptySession
    <2> QED
        BY <2>2, <2>3, <2>4, EmptySession DEF Sound
<1>4. Apart
    BY <1>1 DEF Apart
<1>5. Reads
    BY <1>1, EmptySession DEF Reads, HasRead
<1>6. Coverage
    <2> SUFFICES ASSUME NEW d \in Devices, NEW p \in Devices, d # p, NEW x \in Items
                 PROVE  Safe(d, p, x)
        BY DEF Coverage
    <2>1. session[<<d, p>>] = NoSession /\ session[<<p, d>>] = NoSession
        BY <1>1, PromiseTypes
    <2>2. /\ store[d][x] \in Int /\ store[d][x] >= 0 /\ cursor[d][p].relay \in Int
          /\ cursor[p][d].since \in Int
        BY PromiseTypes
    <2>3. cursor[p][d].since = 0
        BY <1>1 DEF NoCursor
    <2>4. ~(store[d][x] < Lower(cursor[d][p].relay, cursor[p][d].since))
        BY <2>2, <2>3 DEF Lower
    <2>5. \A role \in Roles : ~Begun(NoSession, role)
        BY EmptySession
    <2> QED
        BY <2>1, <2>2, <2>4, <2>5, FreshPromise DEF Safe, Roles
<1> QED
    BY <1>2, <1>3, <1>4, <1>5, <1>6 DEF RelayInv

\* What is loose, and covered by no session, is covered by the cursors.
LEMMA CoverageKeeps ==
    ASSUME RelayInv
    PROVE  NoStrandedVersion
<1> SUFFICES ASSUME NEW d \in Devices, NEW p \in Devices, NEW x \in Items, d # p,
                    Stranded(d, p, x), ~Missed(d, p, x)
             PROVE  FALSE
    BY DEF NoStrandedVersion
<1>1. /\ Owed(d, p, x) /\ Uncovered(d, p, x) /\ ~NoteDue(d, x)
      /\ session[<<d, p>>] = NoSession /\ session[<<p, d>>] = NoSession
    BY DEF Stranded
<1>2. ~DueFor(d, p, x)
    BY <1>1 DEF DueFor, NoteDue, Stores
<1>3. Safe(d, p, x)
    BY <1>1, <1>2 DEF RelayInv, Coverage, Loose
<1>4. "dial" \in Roles /\ "listen" \in Roles
    BY DEF Roles
<1>5. \A v : /\ ~Awaits(session[<<d, p>>], "dial", x, v)
             /\ ~Awaits(session[<<p, d>>], "listen", x, v)
    BY <1>1, <1>4, EmptySession
<1> QED
    BY <1>1, <1>3, <1>5 DEF Safe, Promised, Uncovered, AdvertiseFrom

\* For any devices, items, request cap and faults, and whatever sessions overlap,
\* fail or end half committed: a version that a device holds and its peer lacks
\* will be offered by their next session, unless a writer or a session is still to
\* note it, or one of the named gaps let it go (record_cursor, note_local and the
\* session's watermark).
THEOREM NothingStrandedUnnamed == Spec => []NoStrandedVersion
<1>1. Init /\ TypeOK => RelayInv
    BY RelayInvInit
<1>2. RelayInv /\ TypeOK' /\ [Next]_vars => RelayInv'
    BY RelayInvStep
<1>3. RelayInv => NoStrandedVersion
    BY CoverageKeeps
<1> QED
    BY <1>1, <1>2, <1>3, RelayTypeCorrect, PTL DEF Spec
=============================================================================
