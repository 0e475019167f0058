-------------------------- MODULE PeerRelayProofs --------------------------
(***************************************************************************)
(* Proofs about PeerRelay, for any number of devices and items, any request*)
(* cap and every fault allowed: the types, and that a session records a    *)
(* cursor which passes no version that its side was offered and lacks.     *)
(***************************************************************************)
EXTENDS PeerRelay, WellFoundedInduction, TLAPS

-----------------------------------------------------------------------------
(* Least and greatest stamps.                                              *)

\* A set of naturals that is not empty has a least element.
LEMMA LeastStamp ==
    ASSUME NEW T \in SUBSET Nat, T # {}
    PROVE  Min(T) \in T /\ \A y \in T : Min(T) <= y
<1>1. PICK x \in T : \A y \in T : ~(<<y, x>> \in OpToRel(<, Nat))
    BY NatLessThanWellFounded, WFMin
<1>2. \A y \in T : ~(y < x)
    BY <1>1 DEF OpToRel
<1>3. \A y \in T : x <= y
    BY <1>2
<1> QED
    BY <1>3 DEF Min

\* A set of stamps that is not empty has a greatest element.
LEMMA GreatestStamp ==
    ASSUME NEW T \in SUBSET Stamps, T # {}
    PROVE  Max(T) \in T /\ \A y \in T : y <= Max(T)
<1> DEFINE Left == {MaxStamp - y : y \in T}
<1>0. MaxStamp \in Nat /\ \A y \in T : y \in Nat /\ MaxStamp - y \in Nat
    BY PeerRelayAssumption DEF Stamps
<1>1. Left \in SUBSET Nat /\ Left # {}
    BY <1>0
<1>2. Min(Left) \in Left /\ \A n \in Left : Min(Left) <= n
    <2> HIDE DEF Left
    <2> QED
        BY <1>1, LeastStamp
<1>3. PICK x \in T : Min(Left) = MaxStamp - x
    BY <1>2
<1>4. \A y \in T : MaxStamp - x <= MaxStamp - y
    BY <1>2, <1>3
<1>5. \A y \in T : x >= y
    BY <1>0, <1>4
<1> QED
    BY <1>5 DEF Max

\* workspace_watermark gives a stamp, and one that no unresolved row is below.
LEMMA WatermarkFacts ==
    ASSUME NEW previous \in Stamps, NEW offer \in [Items -> Stamps],
           NEW unresolved \in SUBSET Items
    PROVE  /\ Watermark(previous, offer, unresolved) \in Stamps
           /\ \A x \in unresolved : Watermark(previous, offer, unresolved) <= offer[x]
<1> DEFINE R == {previous} \cup {offer[x] : x \in Items \ unresolved}
           B == {NoFloor} \cup {offer[x] : x \in unresolved}
<1>1. R \in SUBSET Stamps /\ R # {}
    OBVIOUS
<1>2. B \in SUBSET (0..NoFloor) /\ B # {} /\ \A x \in unresolved : offer[x] \in B
    BY PeerRelayAssumption DEF Stamps, NoFloor
<1>3. B \in SUBSET Nat
    BY <1>2, PeerRelayAssumption DEF NoFloor
<1>4. Watermark(previous, offer, unresolved) = Lower(Max(R), Min(B))
    BY DEF Watermark
<1> HIDE DEF R, B
<1>5. Max(R) \in Stamps
    BY <1>1, GreatestStamp
<1>6. Min(B) \in 0..NoFloor /\ \A x \in unresolved : Min(B) <= offer[x]
    BY <1>2, <1>3, LeastStamp
<1> QED
    BY <1>4, <1>5, <1>6, PeerRelayAssumption DEF Lower, Stamps, NoFloor

-----------------------------------------------------------------------------
(* Types.                                                                  *)

\* The cursor operations keep a record a record.
LEMMA CursorTypes ==
    /\ NoCursor \in Cursors
    /\ \A mark \in Stamps : RecordSession(mark) \in Cursors
    /\ \A c \in Cursors, low \in 0..NoFloor : NoteWritten(c, low) \in Cursors
    BY PeerRelayAssumption
       DEF NoCursor, Cursors, RecordSession, NoteWritten, Lower, Stamps, NoFloor

\* The empty session is one.
LEMMA NoSessionType == NoSession \in Sessions /\ NoSession.step = "none"
<1>1. NoRows \in [Items -> Stamps]
    BY PeerRelayAssumption DEF NoRows, Stamps
<1> QED
    BY <1>1, CursorTypes, PeerRelayAssumption
       DEF NoSession, Sessions, Roles, Steps, Ends, Stamps

\* A side that ends leaves a session or nothing.
LEMMA EndType ==
    ASSUME NEW s \in Sessions, NEW role \in Roles
    PROVE  /\ Settled([s EXCEPT !.end[role] = "committed"]) \in Sessions
           /\ WithoutSide(s, role) \in Sessions
    BY NoSessionType DEF Settled, WithoutSide, Sessions, Ends, Roles

\* The rows a device offers, and what it holds after it has applied some.
LEMMA RowTypes ==
    ASSUME store \in [Devices -> [Items -> Stamps]], NEW d \in Devices
    PROVE  /\ \A from : SummaryPage(d, from) \in [Items -> Stamps]
           /\ \A offer \in [Items -> Stamps] : \A taken, sent, refused, raised :
                 MayApply(d, offer, sent, refused, raised) =>
                     AppliedTo(d, offer, taken, raised) \in [Items -> Stamps]
<1>1. \A from : SummaryPage(d, from) \in [Items -> Stamps]
    BY PeerRelayAssumption DEF SummaryPage, Stamps
<1>2. ASSUME NEW offer \in [Items -> Stamps], NEW taken, NEW sent, NEW refused, NEW raised,
             MayApply(d, offer, sent, refused, raised), NEW x \in Items
      PROVE  AppliedTo(d, offer, taken, raised)[x] \in Stamps
    <2>1. x \in raised => offer[x] < MaxStamp
        BY <1>2 DEF MayApply
    <2> QED
        BY <2>1, PeerRelayAssumption DEF AppliedTo, Stamps
<1> QED
    BY <1>1, <1>2 DEF AppliedTo

\* What a step lets go is well typed.
LEMMA MissingType ==
    ASSUME store' \in [Devices -> [Items -> Stamps]],
           NEW d \in Devices, NEW p \in Devices, NEW X \in SUBSET Items,
           NEW gap \in Gaps
    PROVE  /\ Missing(gap, d, p, X) \subseteq Gaps \X Devices \X Devices \X Items \X Stamps
           /\ MissingAtRisk(gap, d, p, X)
                 \subseteq Gaps \X Devices \X Devices \X Items \X Stamps
<1>1. \A Y \in SUBSET X : \A x \in Y :
         <<gap, d, p, x, store'[d][x]>> \in Gaps \X Devices \X Devices \X Items \X Stamps
    OBVIOUS
<1> QED
    BY <1>1 DEF Missing, MissingAtRisk

\* The same of what a note lets go.
LEMMA NoteGapsType ==
    ASSUME store' \in [Devices -> [Items -> Stamps]],
           NEW d \in Devices, NEW p \in Devices, NEW X \in SUBSET Items, NEW low
    PROVE  NoteGaps(d, p, X, low) \subseteq Gaps \X Devices \X Devices \X Items \X Stamps
<1>1. {"in session", "racing", "own cursor"} \subseteq Gaps
    BY DEF Gaps
<1> QED
    BY <1>1, MissingType DEF NoteGaps

\* The same of what the loss of a side lets go.
LEMMA LossGapsType ==
    ASSUME store' \in [Devices -> [Items -> Stamps]],
           NEW k \in Pairs, NEW role \in Roles, NEW X \in SUBSET Items
    PROVE  LossGaps(k, role, X) \subseteq Gaps \X Devices \X Devices \X Items \X Stamps
<1> DEFINE d == Side(k, role)
           p == Side(k, Other(role))
           Notable(q) == {x \in X : cursor[d][q].since > store'[d][x]}
           G == Gaps \X Devices \X Devices \X Items \X Stamps
<1>1. d \in Devices /\ p \in Devices /\ Peers(d) \subseteq Devices
    BY DEF Pairs, Side, Other, Roles, Peers
<1>2. {"uncommitted", "own cursor", "peer lost"} \subseteq Gaps
    BY DEF Gaps
<1>3. \A q \in Devices : /\ Notable(q) \in SUBSET Items
                         /\ X \ Notable(q) \in SUBSET Items
    OBVIOUS
<1> HIDE DEF d, p, Notable
<1>4. \A q \in Devices : /\ MissingAtRisk("uncommitted", d, q, Notable(q)) \subseteq G
                         /\ MissingAtRisk("own cursor", d, q, X \ Notable(q)) \subseteq G
    BY <1>1, <1>2, <1>3, MissingType
<1>5. MissingAtRisk("peer lost", p, d, Current(k, Other(role))) \subseteq G
    <2>1. Current(k, Other(role)) \in SUBSET Items
        BY DEF Current
    <2> QED
        BY <1>1, <1>2, <2>1, MissingType
<1> DEFINE U(q) == MissingAtRisk("uncommitted", d, q, Notable(q))
                      \cup MissingAtRisk("own cursor", d, q, X \ Notable(q))
           L == IF session[k].end[Other(role)] = "committed"
                THEN MissingAtRisk("peer lost", p, d, Current(k, Other(role))) ELSE {}
           Q == Peers(d) \ {p}
<1>6. LossGaps(k, role, X) = (UNION {U(q) : q \in Q}) \cup L
    BY DEF LossGaps, d, p, Notable
<1>7. (\A q \in Q : U(q) \subseteq G) /\ L \subseteq G
    BY <1>1, <1>4, <1>5
<1> HIDE DEF U, L, Q, G
<1>8. LossGaps(k, role, X) \subseteq G
    BY <1>6, <1>7
<1> QED
    BY <1>8 DEF G

\* The same of what an application lets go.
LEMMA ApplyGapsType ==
    ASSUME store' \in [Devices -> [Items -> Stamps]],
           NEW d \in Devices, NEW p \in Devices, NEW offer \in [Items -> Stamps],
           NEW sent \in SUBSET Items, NEW refused, NEW raised,
           MayApply(d, offer, sent, refused, raised)
    PROVE  ApplyGaps(d, p, offer, refused, raised)
              \subseteq Gaps \X Devices \X Devices \X Items \X Stamps
<1>1. refused \in SUBSET Items /\ raised \in SUBSET Items
    BY DEF MayApply, Arrived
<1>2. "refused" \in Gaps /\ "raised" \in Gaps
    BY DEF Gaps
<1>3. MissingAtRisk("raised", d, p, raised)
         \subseteq Gaps \X Devices \X Devices \X Items \X Stamps
    BY <1>1, <1>2, MissingType
<1>4. \A x \in refused : <<"refused", p, d, x, offer[x]>>
                            \in Gaps \X Devices \X Devices \X Items \X Stamps
    BY <1>1, <1>2
<1> QED
    BY <1>3, <1>4 DEF ApplyGaps

\* A step of one session, and of nothing else but the store, keeps the types.
LEMMA StepType ==
    ASSUME TypeOK, NEW k \in Pairs, NEW s \in Sessions, Step(k, s),
           store' \in [Devices -> [Items -> Stamps]],
           missed' \subseteq Gaps \X Devices \X Devices \X Items \X Stamps
    PROVE  TypeOK'
    BY DEF TypeOK, Step

\* The two sides of a pair are devices.
LEMMA SideType ==
    ASSUME NEW k \in Pairs, NEW role \in Roles
    PROVE  /\ k[1] \in Devices /\ k[2] \in Devices /\ k[1] # k[2]
           /\ Side(k, role) \in Devices /\ Side(k, Other(role)) \in Devices
           /\ Other(role) \in Roles
    BY DEF Pairs, Side, Other, Roles

\* What is written and noted.
LEMMA WriterTypes ==
    ASSUME TypeOK, NEW d \in Devices
    PROVE  /\ \A x \in Items, s \in 1..MaxStamp : Write(d, x, s) => TypeOK'
           /\ \A w \in pending[d], saved \in BOOLEAN : NoteLocal(d, w, saved) => TypeOK'
           /\ TimePasses => TypeOK'
<1>1. ASSUME NEW x \in Items, NEW s \in 1..MaxStamp, Write(d, x, s) PROVE TypeOK'
    <2>1. store' \in [Devices -> [Items -> Stamps]]
        BY <1>1, PeerRelayAssumption DEF TypeOK, Write, Stamps
    <2>2. pending' \in [Devices -> SUBSET (Items \X (1..MaxStamp))]
        BY <1>1 DEF TypeOK, Write
    <2> QED
        BY <1>1, <2>1, <2>2 DEF TypeOK, Write
<1>2. ASSUME NEW w \in pending[d], NEW saved \in BOOLEAN, NoteLocal(d, w, saved)
      PROVE  TypeOK'
    <2>1. w[1] \in Items /\ w[2] \in 1..MaxStamp /\ w[2] \in 0..NoFloor
        BY PeerRelayAssumption DEF TypeOK, NoFloor
    <2>2. cursor' \in [Devices -> [Devices -> Cursors]]
        BY <1>2, <2>1, CursorTypes DEF TypeOK, NoteLocal
    <2>3. pending' \in [Devices -> SUBSET (Items \X (1..MaxStamp))]
        BY <1>2 DEF TypeOK, NoteLocal
    <2>4. store' \in [Devices -> [Items -> Stamps]]
        BY <1>2 DEF TypeOK, NoteLocal
    <2> DEFINE M(p) == IF saved THEN NoteGaps(d, p, {w[1]}, w[2])
                       ELSE MissingAtRisk("unsaved", d, p, {w[1]})
               G == Gaps \X Devices \X Devices \X Items \X Stamps
    <2>5. \A p \in Peers(d) : M(p) \subseteq G
        <3>1. "unsaved" \in Gaps /\ {w[1]} \in SUBSET Items /\ Peers(d) \subseteq Devices
            BY <2>1 DEF Gaps, Peers
        <3> QED
            BY <2>4, <3>1, NoteGapsType, MissingType
    <2>6. missed' = missed \cup UNION {M(p) : p \in Peers(d)} /\ missed \subseteq G
        BY <1>2 DEF NoteLocal, TypeOK
    <2>7. missed' \subseteq G
        <3> HIDE DEF M, G
        <3> QED
            BY <2>5, <2>6
    <2> QED
        BY <1>2, <2>2, <2>3, <2>4, <2>7 DEF TypeOK, NoteLocal
<1>3. ASSUME TimePasses PROVE TypeOK'
    BY <1>3, PeerRelayAssumption DEF TypeOK, TimePasses
<1> QED
    BY <1>1, <1>2, <1>3

\* The steps of a session up to the application of the listener.
LEMMA SessionTypes ==
    ASSUME TypeOK, NEW k \in Pairs
    PROVE  /\ Dial(k) => TypeOK'
           /\ Accept(k) => TypeOK'
           /\ OfferSummaries(k) => TypeOK'
           /\ AnswerSummaries(k) => TypeOK'
           /\ \A X : ServeDialler(k, X) => TypeOK'
           /\ \A X, refused, raised : ServeListener(k, X, refused, raised) => TypeOK'
           /\ \A refused, raised : ApplyListener(k, refused, raised) => TypeOK'
<1> DEFINE s == session[k]
<1>1. s \in Sessions /\ k[1] \in Devices /\ k[2] \in Devices /\ k[1] # k[2]
    BY DEF TypeOK, Pairs
<1>2. /\ store[k[1]] \in [Items -> Stamps] /\ store[k[2]] \in [Items -> Stamps]
      /\ s.offer["dial"] \in [Items -> Stamps] /\ s.offer["listen"] \in [Items -> Stamps]
      /\ s.cursor["dial"] \in Cursors /\ s.cursor["listen"] \in Cursors
      /\ s.unresolved["dial"] \in SUBSET Items /\ s.unresolved["listen"] \in SUBSET Items
      /\ s.sent["dial"] \in SUBSET Items /\ s.sent["listen"] \in SUBSET Items
      /\ s.newer \in SUBSET Items
    BY <1>1 DEF TypeOK, Sessions, Roles
<1>3. \A from : SummaryPage(k[1], from) \in [Items -> Stamps]
              /\ SummaryPage(k[2], from) \in [Items -> Stamps]
    BY <1>1, RowTypes DEF TypeOK
<1>4. \A c \in Cursors : c.since \in Stamps
    BY DEF Cursors
<1>5. ASSUME Dial(k) PROVE TypeOK'
    <2> DEFINE rev == <<k[2], k[1]>>
               new(c, both) == [NoSession EXCEPT !.step = "dialled",
                                                 !.cursor["dial"] = c,
                                                 !.overlapped = both]
               old(both) == [session[rev] EXCEPT !.overlapped = both]
    <2>1. rev \in Pairs /\ rev # k
        BY <1>1 DEF Pairs
    <2>2. PICK c \in Cursors, both \in BOOLEAN :
             session' = [session EXCEPT ![k] = new(c, both), ![rev].overlapped = both]
        <3>1. cursor[k[1]][k[2]] \in Cursors
            BY <1>1 DEF TypeOK
        <3> QED
            BY <1>5, <3>1 DEF Dial
    <2>3. session[rev] \in Sessions
        BY <2>1 DEF TypeOK
    <2>4. new(c, both) \in Sessions /\ old(both) \in Sessions
        BY <2>3, NoSessionType DEF Sessions, Steps, Roles
    <2>5. session' = [session EXCEPT ![k] = new(c, both), ![rev] = old(both)]
        <3> HIDE DEF new
        <3> QED
            BY <2>1, <2>2 DEF TypeOK
    <2>6. session' \in [Pairs -> Sessions]
        <3> HIDE DEF new, old
        <3> QED
            BY <2>1, <2>4, <2>5 DEF TypeOK
    <2> QED
        BY <1>5, <2>6 DEF TypeOK, Dial
<1>6. ASSUME Accept(k) PROVE TypeOK'
    <2>1. cursor[k[2]][k[1]] \in Cursors
        BY <1>1 DEF TypeOK
    <2>2. PICK c \in Cursors :
             Step(k, [s EXCEPT !.step = "accepted", !.cursor["listen"] = c])
        BY <1>6, <2>1 DEF Accept
    <2>3. [s EXCEPT !.step = "accepted", !.cursor["listen"] = c] \in Sessions
        BY <1>1 DEF Sessions, Steps, Roles
    <2>4. /\ store' \in [Devices -> [Items -> Stamps]]
          /\ missed' \subseteq Gaps \X Devices \X Devices \X Items \X Stamps
        BY <1>6 DEF Accept, TypeOK
    <2> QED
        BY <2>2, <2>3, <2>4, StepType
<1>7. ASSUME OfferSummaries(k) PROVE TypeOK'
    <2>1. PICK rows \in [Items -> Stamps] :
             Step(k, [s EXCEPT !.step = "offered", !.offer["dial"] = rows])
        BY <1>3, <1>7 DEF OfferSummaries
    <2>2. [s EXCEPT !.step = "offered", !.offer["dial"] = rows] \in Sessions
        BY <1>1 DEF Sessions, Steps, Roles
    <2>3. /\ store' \in [Devices -> [Items -> Stamps]]
          /\ missed' \subseteq Gaps \X Devices \X Devices \X Items \X Stamps
        BY <1>7 DEF OfferSummaries, TypeOK
    <2> QED
        BY <2>1, <2>2, <2>3, StepType
<1>8. ASSUME AnswerSummaries(k) PROVE TypeOK'
    <2>1. Winning(k[2], s.offer["dial"]) \in SUBSET Items
        BY DEF Winning
    <2>2. PICK rows \in [Items -> Stamps], newer \in SUBSET Items :
             Step(k, [s EXCEPT !.step = "answered", !.offer["listen"] = rows,
                               !.newer = newer])
        BY <1>3, <1>8, <2>1 DEF AnswerSummaries
    <2>3. [s EXCEPT !.step = "answered", !.offer["listen"] = rows,
                    !.newer = newer] \in Sessions
        BY <1>1 DEF Sessions, Steps, Roles
    <2>4. /\ store' \in [Devices -> [Items -> Stamps]]
          /\ missed' \subseteq Gaps \X Devices \X Devices \X Items \X Stamps
        BY <1>8 DEF AnswerSummaries, TypeOK
    <2> QED
        BY <2>2, <2>3, <2>4, StepType
<1>9. ASSUME NEW X, ServeDialler(k, X) PROVE TypeOK'
    <2>1. PICK sent \in SUBSET Items, unres \in SUBSET Items :
             Step(k, [s EXCEPT !.step = "serving", !.sent["dial"] = sent,
                               !.unresolved["dial"] = unres])
        BY <1>9 DEF ServeDialler, Plans, Fetched, Unresolved, Winning
    <2>2. [s EXCEPT !.step = "serving", !.sent["dial"] = sent,
                    !.unresolved["dial"] = unres] \in Sessions
        BY <1>1 DEF Sessions, Steps, Roles
    <2>3. /\ store' \in [Devices -> [Items -> Stamps]]
          /\ missed' \subseteq Gaps \X Devices \X Devices \X Items \X Stamps
        BY <1>9 DEF ServeDialler, TypeOK
    <2> QED
        BY <2>1, <2>2, <2>3, StepType
<1>10. ASSUME NEW X, NEW refused, NEW raised, ServeListener(k, X, refused, raised)
       PROVE  TypeOK'
    <2> DEFINE mark == Watermark(s.cursor["dial"].since, s.offer["listen"],
                                 s.unresolved["dial"])
    <2>1. mark \in Stamps
        BY <1>2, <1>4, WatermarkFacts
    <2> HIDE DEF mark
    <2>2. PICK taken \in SUBSET Items, sent \in SUBSET Items, unres \in SUBSET Items :
             Step(k, [s EXCEPT !.step = "returned", !.stored["dial"] = taken,
                               !.mark["dial"] = mark, !.sent["listen"] = sent,
                               !.unresolved["listen"] = unres])
        <3>1. Arrived(k[1], s.offer["listen"], s.sent["dial"]) \ refused \in SUBSET Items
            BY <1>2 DEF Arrived
        <3>2. PICK W \in Plans(s.offer["dial"], s.newer) :
                 LET sent == Fetched(store'[k[1]], s.offer["dial"], W, X)
                 IN  Step(k, [s EXCEPT
                        !.step = "returned",
                        !.stored["dial"] =
                            Arrived(k[1], s.offer["listen"], s.sent["dial"]) \ refused,
                        !.mark["dial"] = mark,
                        !.sent["listen"] = sent,
                        !.unresolved["listen"] = Unresolved(s.offer["dial"], s.newer, sent)])
            BY <1>10 DEF ServeListener, mark
        <3>3. Fetched(store'[k[1]], s.offer["dial"], W, X) \in SUBSET Items
            BY <1>2 DEF Fetched, Plans
        <3>4. \A sent : Unresolved(s.offer["dial"], s.newer, sent) \in SUBSET Items
            BY <1>2 DEF Unresolved
        <3> QED
            BY <3>1, <3>2, <3>3, <3>4
    <2>3. [s EXCEPT !.step = "returned", !.stored["dial"] = taken,
                    !.mark["dial"] = mark, !.sent["listen"] = sent,
                    !.unresolved["listen"] = unres] \in Sessions
        BY <1>1, <2>1 DEF Sessions, Steps, Roles
    <2>4. store' \in [Devices -> [Items -> Stamps]]
        BY <1>1, <1>2, <1>10, RowTypes DEF ServeListener, TypeOK
    <2>5. missed' \subseteq Gaps \X Devices \X Devices \X Items \X Stamps
        <3>1. /\ MayApply(k[1], s.offer["listen"], s.sent["dial"], refused, raised)
              /\ missed' = missed \cup
                              ApplyGaps(k[1], k[2], s.offer["listen"], refused, raised)
            BY <1>10 DEF ServeListener
        <3> QED
            BY <1>1, <1>2, <2>4, <3>1, ApplyGapsType DEF TypeOK
    <2> QED
        BY <2>2, <2>3, <2>4, <2>5, StepType
<1>11. ASSUME NEW refused, NEW raised, ApplyListener(k, refused, raised) PROVE TypeOK'
    <2> DEFINE mark == Watermark(s.cursor["listen"].since, s.offer["dial"],
                                 s.unresolved["listen"])
               taken == Arrived(k[2], s.offer["dial"], s.sent["listen"]) \ refused
    <2>1. mark \in Stamps
        BY <1>2, <1>4, WatermarkFacts
    <2>2. taken \in SUBSET Items
        BY <1>2 DEF Arrived
    <2>3. Step(k, [s EXCEPT !.step = "closed", !.stored["listen"] = taken,
                            !.mark["listen"] = mark])
        BY <1>11 DEF ApplyListener
    <2> HIDE DEF mark, taken
    <2>4. [s EXCEPT !.step = "closed", !.stored["listen"] = taken,
                    !.mark["listen"] = mark] \in Sessions
        BY <1>1, <2>1, <2>2 DEF Sessions, Steps, Roles
    <2>5. store' \in [Devices -> [Items -> Stamps]]
        BY <1>1, <1>2, <1>11, RowTypes DEF ApplyListener, TypeOK
    <2>6. missed' \subseteq Gaps \X Devices \X Devices \X Items \X Stamps
        <3>1. /\ MayApply(k[2], s.offer["dial"], s.sent["listen"], refused, raised)
              /\ missed' = missed \cup
                              ApplyGaps(k[2], k[1], s.offer["dial"], refused, raised)
            BY <1>11 DEF ApplyListener
        <3> QED
            BY <1>1, <1>2, <2>5, <3>1, ApplyGapsType DEF TypeOK
    <2> QED
        BY <2>3, <2>4, <2>5, <2>6, StepType
<1> QED
    BY <1>5, <1>6, <1>7, <1>8, <1>9, <1>10, <1>11

\* The oldest stamp a session stored, or none.
LEMMA AppliedFloorType ==
    ASSUME NEW offer \in [Items -> Stamps], NEW stored \in SUBSET Items
    PROVE  Min({NoFloor} \cup {offer[x] : x \in stored}) \in 0..NoFloor
<1> DEFINE B == {NoFloor} \cup {offer[x] : x \in stored}
<1>1. B \in SUBSET (0..NoFloor) /\ B # {}
    BY PeerRelayAssumption DEF Stamps, NoFloor
<1>2. B \in SUBSET Nat
    BY <1>1, PeerRelayAssumption DEF NoFloor
<1> HIDE DEF B
<1>3. Min(B) \in 0..NoFloor
    BY <1>1, <1>2, LeastStamp
<1> QED
    BY <1>3 DEF B

\* The commit of a side.
LEMMA CommitType ==
    ASSUME TypeOK, NEW k \in Pairs, NEW role \in Roles, NEW saved \in SUBSET Saves,
           Commit(k, role, saved)
    PROVE  TypeOK'
<1> DEFINE s == session[k]
           d == Side(k, role)
           p == Side(k, Other(role))
           stored == s.stored[role]
           low == Min({NoFloor} \cup {s.offer[Other(role)][x] : x \in stored})
           G == Gaps \X Devices \X Devices \X Items \X Stamps
<1>1. /\ s \in Sessions /\ d \in Devices /\ p \in Devices /\ Other(role) \in Roles
      /\ Peers(d) \subseteq Devices
    BY SideType DEF TypeOK, Peers
<1>2. /\ stored \in SUBSET Items /\ s.mark[role] \in Stamps
      /\ s.offer[Other(role)] \in [Items -> Stamps]
    BY <1>1 DEF Sessions
<1>3. low \in 0..NoFloor
    BY <1>2, AppliedFloorType
<1>4. store' \in [Devices -> [Items -> Stamps]]
    BY DEF Commit, TypeOK
<1>5. session' \in [Pairs -> Sessions]
    <2>1. Settled([s EXCEPT !.end[role] = "committed"]) \in Sessions
        BY <1>1, EndType
    <2>2. session' = [session EXCEPT ![k] = Settled([s EXCEPT !.end[role] = "committed"])]
        BY DEF Commit
    <2> QED
        BY <2>1, <2>2 DEF TypeOK
<1> HIDE DEF low, d, p, stored
<1>6. cursor' \in [Devices -> [Devices -> Cursors]]
    <2>1. RecordCursor(d, p, low, s.mark[role], saved) \in [Devices -> Cursors]
        BY <1>1, <1>2, <1>3, CursorTypes DEF RecordCursor, TypeOK
    <2>2. cursor' = [cursor EXCEPT ![d] = RecordCursor(d, p, low, s.mark[role], saved)]
        BY DEF Commit, low, d, p, stored
    <2> QED
        BY <2>1, <2>2 DEF TypeOK
<1>7. missed' \subseteq G
    <2> DEFINE N(q) == IF "note" \in saved THEN NoteGaps(d, q, stored, low)
                       ELSE MissingAtRisk("unsaved", d, q, stored)
               Q == Peers(d) \ {p}
               mine == Current(k, role)
               theirs == Current(k, Other(role))
               A == IF "session" \in saved THEN {} ELSE MissingAtRisk("unsaved", p, d, theirs)
               L == IF s.end[Other(role)] = "lost"
                    THEN MissingAtRisk("peer lost", d, p, mine) ELSE {}
               V == IF s.overlapped
                    THEN MissingAtRisk("overlap", d, p, Items \ mine)
                            \cup MissingAtRisk("overlap", p, d, Items \ theirs) ELSE {}
    <2>1. {"unsaved", "peer lost", "overlap"} \subseteq Gaps
        BY DEF Gaps
    <2>2. \A q \in Q : N(q) \subseteq G
        BY <1>1, <1>2, <1>4, <2>1, NoteGapsType, MissingType
    <2>3. A \subseteq G /\ L \subseteq G /\ V \subseteq G
        <3>1. /\ mine \in SUBSET Items /\ theirs \in SUBSET Items
              /\ Items \ mine \in SUBSET Items /\ Items \ theirs \in SUBSET Items
            BY DEF Current
        <3> HIDE DEF mine, theirs
        <3> QED
            BY <1>1, <1>4, <2>1, <3>1, MissingType
    <2>4. missed' = missed \cup (UNION {N(q) : q \in Q}) \cup A \cup L \cup V
        BY DEF Commit, low, d, p, stored
    <2>5. missed \subseteq G
        BY DEF TypeOK
    <2> HIDE DEF N, Q, A, L, V, G
    <2> QED
        BY <2>2, <2>3, <2>4, <2>5
<1> QED
    BY <1>4, <1>5, <1>6, <1>7 DEF TypeOK, Commit

\* The loss of a side.
LEMMA LoseSideType ==
    ASSUME TypeOK, NEW k \in Pairs, NEW role \in Roles,
           NEW frames \in SUBSET Arriving(session[k], role), NEW raised,
           LoseSide(k, role, frames, raised)
    PROVE  TypeOK'
<1> DEFINE s == session[k]
           d == Side(k, role)
           p == Side(k, Other(role))
           offer == s.offer[Other(role)]
           taken == Arrived(d, offer, frames)
<1>1. /\ s \in Sessions /\ d \in Devices /\ p \in Devices /\ Other(role) \in Roles
      /\ MayApply(d, offer, frames, {}, raised)
    BY SideType DEF TypeOK, LoseSide
<1>2. offer \in [Items -> Stamps] /\ s.stored[role] \in SUBSET Items
    BY <1>1 DEF Sessions
<1>3. frames \in SUBSET Items
    BY <1>1 DEF Arriving, Sessions
<1>4. store' \in [Devices -> [Items -> Stamps]]
    <2>1. AppliedTo(d, offer, taken, raised) \in [Items -> Stamps]
        BY <1>1, <1>2, RowTypes DEF TypeOK
    <2> QED
        BY <2>1 DEF LoseSide, TypeOK
<1>5. session' \in [Pairs -> Sessions]
    <2>1. WithoutSide(s, role) \in Sessions
        BY <1>1, EndType
    <2>2. session' = [session EXCEPT ![k] = WithoutSide(s, role)]
        BY DEF LoseSide, TypeOK
    <2> QED
        BY <2>1, <2>2 DEF TypeOK
<1>6. LossGaps(k, role, s.stored[role] \cup taken)
         \subseteq Gaps \X Devices \X Devices \X Items \X Stamps
    <2>1. s.stored[role] \cup taken \in SUBSET Items
        BY <1>2, <1>3 DEF Arrived
    <2> QED
        BY <1>4, <2>1, LossGapsType
<1>7. missed' = missed \cup LossGaps(k, role, s.stored[role] \cup taken)
                      \cup ApplyGaps(d, p, offer, {}, raised)
    BY DEF LoseSide
<1>8. ApplyGaps(d, p, offer, {}, raised) \subseteq Gaps \X Devices \X Devices \X Items \X Stamps
    BY <1>1, <1>2, <1>3, <1>4, ApplyGapsType
<1> QED
    BY <1>4, <1>5, <1>6, <1>7, <1>8 DEF TypeOK, LoseSide

\* A restart.
LEMMA RestartType ==
    ASSUME TypeOK, NEW d \in Devices, NEW damaged \in BOOLEAN, Restart(d, damaged)
    PROVE  TypeOK'
<1> DEFINE G == Gaps \X Devices \X Devices \X Items \X Stamps
           Y(p) == {x \in Items : cursor[d][p].relay <= store[d][x]}
           M(p) == MissingAtRisk("restart", d, p, {w[1] : w \in pending[d]})
                     \cup LossGaps(<<d, p>>, "dial", session[<<d, p>>].stored["dial"])
                     \cup LossGaps(<<p, d>>, "listen", session[<<p, d>>].stored["listen"])
                     \cup (IF damaged THEN MissingAtRisk("damage", d, p, Y(p)) ELSE {})
<1>1. store' \in [Devices -> [Items -> Stamps]]
    BY DEF Restart, TypeOK
<1>2. session' \in [Pairs -> Sessions]
    <2>1. \A k \in Pairs, role \in Roles : WithoutSide(session[k], role) \in Sessions
        BY EndType DEF TypeOK
    <2> QED
        BY <2>1 DEF Restart, TypeOK, Roles
<1>3. cursor' \in [Devices -> [Devices -> Cursors]]
    BY CursorTypes DEF Restart, TypeOK
<1>4. pending' \in [Devices -> SUBSET (Items \X (1..MaxStamp))]
    BY DEF Restart, TypeOK
<1>5. ASSUME NEW p \in Peers(d) PROVE M(p) \subseteq G
    <2>1. p \in Devices /\ <<d, p>> \in Pairs /\ <<p, d>> \in Pairs
        BY DEF Peers, Pairs
    <2>2. "restart" \in Gaps /\ "damage" \in Gaps /\ "dial" \in Roles /\ "listen" \in Roles
        BY DEF Gaps, Roles
    <2>3. {w[1] : w \in pending[d]} \in SUBSET Items
        BY DEF TypeOK
    <2>4. \A k \in Pairs, role \in Roles : session[k].stored[role] \in SUBSET Items
        BY DEF TypeOK, Sessions
    <2>5. /\ MissingAtRisk("restart", d, p, {w[1] : w \in pending[d]}) \subseteq G
          /\ MissingAtRisk("damage", d, p, Y(p)) \subseteq G
        <3>1. Y(p) \in SUBSET Items
            OBVIOUS
        <3> HIDE DEF Y
        <3> QED
            BY <1>1, <2>1, <2>2, <2>3, <3>1, MissingType
    <2>6. /\ LossGaps(<<d, p>>, "dial", session[<<d, p>>].stored["dial"]) \subseteq G
          /\ LossGaps(<<p, d>>, "listen", session[<<p, d>>].stored["listen"]) \subseteq G
        BY <1>1, <2>1, <2>2, <2>4, LossGapsType
    <2> HIDE DEF G
    <2> QED
        BY <2>5, <2>6
<1>6. missed' = missed \cup UNION {M(p) : p \in Peers(d)} /\ missed \subseteq G
    BY DEF Restart, TypeOK
<1>7. missed' \subseteq G
    <2> HIDE DEF M, G
    <2> QED
        BY <1>5, <1>6
<1> QED
    BY <1>1, <1>2, <1>3, <1>4, <1>7 DEF TypeOK, Restart

\* Every step keeps the types.
LEMMA TypeStep ==
    ASSUME TypeOK, [Next]_vars
    PROVE  TypeOK'
<1>1. CASE UNCHANGED vars
    BY <1>1 DEF TypeOK, vars
<1>2. CASE Exchange
    <2>1. PICK k \in Pairs :
            \/ Dial(k) \/ Accept(k) \/ OfferSummaries(k) \/ AnswerSummaries(k)
            \/ ServeDialler(k, {}) \/ ServeListener(k, {}, {}, {})
            \/ ApplyListener(k, {}, {})
            \/ \E role \in Roles : Commit(k, role, Saves)
        BY <1>2 DEF Exchange
    <2>2. Saves \in SUBSET Saves
        OBVIOUS
    <2> QED
        BY <2>1, <2>2, SessionTypes, CommitType
<1>3. CASE Notes \/ Writers \/ TimePasses
    <2>1. CASE Notes
        BY <2>1, WriterTypes DEF Notes
    <2>2. CASE Writers
        BY <2>2, WriterTypes DEF Writers
    <2>3. CASE TimePasses
        BY <2>3, PeerRelayAssumption DEF TypeOK, TimePasses
    <2> QED
        BY <1>3, <2>1, <2>2, <2>3
<1>4. CASE Failures
    <2>1. CASE \E k \in Pairs, X, refused, raised \in SUBSET Items :
                 \/ ServeDialler(k, X) \/ ServeListener(k, X, refused, raised)
                 \/ ApplyListener(k, refused, raised)
        BY <2>1, SessionTypes
    <2>2. CASE \E k \in Pairs, role \in Roles, saved \in SUBSET Saves : Commit(k, role, saved)
        BY <2>2, CommitType
    <2>3. CASE \E k \in Pairs, role \in Roles :
                 \E frames \in SUBSET Arriving(session[k], role) :
                    \E raised \in SUBSET frames : LoseSide(k, role, frames, raised)
        BY <2>3, LoseSideType
    <2>4. CASE \E d \in Devices : \E w \in pending[d] : NoteLocal(d, w, FALSE)
        BY <2>4, WriterTypes
    <2>5. CASE \E d \in Devices, damaged \in BOOLEAN : Restart(d, damaged)
        BY <2>5, RestartType
    <2>6. {} \in SUBSET Items
        OBVIOUS
    <2> QED
        BY <1>4, <2>1, <2>2, <2>3, <2>4, <2>5, <2>6 DEF Failures
<1> QED
    BY <1>1, <1>2, <1>3, <1>4 DEF Next

\* Every reachable state of PeerRelay is well typed; in particular no session
\* records a cursor past every stamp, whatever was put off or came to nothing.
THEOREM RelayTypeCorrect == Spec => []TypeOK
<1>1. Init => TypeOK
    <2> SUFFICES ASSUME Init PROVE TypeOK
        OBVIOUS
    <2>1. session \in [Pairs -> Sessions]
        BY NoSessionType DEF Init
    <2>2. cursor \in [Devices -> [Devices -> Cursors]]
        BY CursorTypes DEF Init
    <2> QED
        BY <2>1, <2>2, PeerRelayAssumption DEF Init, TypeOK
<1>2. TypeOK /\ [Next]_vars => TypeOK'
    BY TypeStep
<1> QED
    BY <1>1, <1>2, PTL DEF Spec

-----------------------------------------------------------------------------
(* What a session owes.                                                    *)

\* The side r of the pair k holds the version of x that it was offered as n, or
\* a newer one, or it refused that version.
Got(k, r, x, n, st, ms) ==
    st[Side(k, r)][x] >= n \/ <<"refused", Side(k, Other(r)), Side(k, r), x, n>> \in ms

\* What session s of the pair k has settled, when devices hold the rows st and
\* the versions ms were let go: from the comparisons on, a row that is neither
\* on its way nor unresolved is one that the side has got; and a mark is below
\* what is unresolved.
Promise(s, k, st, ms) ==
    /\ s.step \in {"answered", "serving"} =>
          \A x \in Items \ s.newer : Got(k, "listen", x, s.offer["dial"][x], st, ms)
    /\ s.step = "serving" =>
          \A x \in Items \ (s.sent["dial"] \cup s.unresolved["dial"]) :
              Got(k, "dial", x, s.offer["listen"][x], st, ms)
    /\ s.step \in {"returned", "closed"} =>
          /\ \A x \in Items \ s.unresolved["dial"] :
                Got(k, "dial", x, s.offer["listen"][x], st, ms)
          /\ \A x \in s.unresolved["dial"] : s.mark["dial"] <= s.offer["listen"][x]
    /\ s.step = "returned" =>
          \A x \in Items \ (s.sent["listen"] \cup s.unresolved["listen"]) :
              Got(k, "listen", x, s.offer["dial"][x], st, ms)
    /\ s.step = "closed" =>
          /\ \A x \in Items \ s.unresolved["listen"] :
                Got(k, "listen", x, s.offer["dial"][x], st, ms)
          /\ \A x \in s.unresolved["listen"] : s.mark["listen"] <= s.offer["dial"][x]

Promises == \A k \in Pairs : Promise(session[k], k, store, missed)

\* No step takes a version back.
StoreGrows == \A d \in Devices, x \in Items : store'[d][x] >= store[d][x]

\* An empty session owes nothing.
LEMMA NoPromise == \A k, st, ms : Promise(NoSession, k, st, ms)
    BY NoSessionType DEF Promise

\* A promise survives whatever other steps write.
LEMMA PromiseKept ==
    ASSUME TypeOK, store' \in [Devices -> [Items -> Stamps]], StoreGrows,
           missed \subseteq missed',
           NEW k \in Pairs, NEW s \in Sessions, Promise(s, k, store, missed)
    PROVE  Promise(s, k, store', missed')
<1>1. \A role \in Roles : Side(k, role) \in Devices
    BY SideType
<1>2. \A d \in Devices, x \in Items : store[d][x] \in Int /\ store'[d][x] \in Int
    BY DEF TypeOK, Stamps
<1>3. \A x \in Items : s.offer["dial"][x] \in Int /\ s.offer["listen"][x] \in Int
    BY DEF Sessions, Roles, Stamps
<1>4. \A role \in Roles, x \in Items, n \in Int :
         Got(k, role, x, n, store, missed) => Got(k, role, x, n, store', missed')
    <2> SUFFICES ASSUME NEW role \in Roles, NEW x \in Items, NEW n \in Int,
                        store[Side(k, role)][x] >= n
                 PROVE  store'[Side(k, role)][x] >= n
        BY DEF Got
    <2>1. store'[Side(k, role)][x] >= store[Side(k, role)][x]
        BY <1>1 DEF StoreGrows
    <2> QED
        BY <1>1, <1>2, <2>1
<1>5. "dial" \in Roles /\ "listen" \in Roles
    BY DEF Roles
<1> QED
    BY <1>3, <1>4, <1>5 DEF Promise

\* Neither does a promise depend on how the sides end.
LEMMA PromiseEnds ==
    ASSUME NEW s \in Sessions, NEW k \in Pairs, NEW st, NEW ms,
           Promise(s, k, st, ms), NEW role \in Roles
    PROVE  /\ Promise(Settled([s EXCEPT !.end[role] = "committed"]), k, st, ms)
           /\ Promise(WithoutSide(s, role), k, st, ms)
           /\ \A both : Promise([s EXCEPT !.overlapped = both], k, st, ms)
<1> DEFINE e(v) == [s EXCEPT !.end[role] = v]
           o(v) == [s EXCEPT !.overlapped = v]
<1>1. \A v : /\ e(v).step = s.step /\ e(v).newer = s.newer /\ e(v).offer = s.offer
             /\ e(v).sent = s.sent /\ e(v).unresolved = s.unresolved /\ e(v).mark = s.mark
    BY DEF Sessions
<1>2. \A v : /\ o(v).step = s.step /\ o(v).newer = s.newer /\ o(v).offer = s.offer
             /\ o(v).sent = s.sent /\ o(v).unresolved = s.unresolved /\ o(v).mark = s.mark
    BY DEF Sessions
<1> HIDE DEF e, o
<1>3. \A v : Promise(e(v), k, st, ms) /\ Promise(o(v), k, st, ms)
    BY <1>1, <1>2 DEF Promise
<1>4. \A v : Promise(Settled(e(v)), k, st, ms)
    BY <1>3, NoPromise DEF Settled
<1> QED
    BY <1>3, <1>4, NoPromise DEF WithoutSide, e, o

\* What a device holds after it has applied the rows X of an offer.
LEMMA AppliedFacts ==
    ASSUME TypeOK, NEW d \in Devices, NEW offer \in [Items -> Stamps], NEW sent,
           NEW refused, NEW raised, MayApply(d, offer, sent, refused, raised)
    PROVE  LET taken == Arrived(d, offer, sent) \ refused
               rows == AppliedTo(d, offer, taken, raised)
           IN  \A x \in Items :
                  /\ rows[x] >= store[d][x]
                  /\ x \in sent \ refused => rows[x] >= offer[x]
                  /\ x \in taken \/ rows[x] = store[d][x]
                  /\ x \in taken => x \in raised \/ rows[x] = offer[x]
<1> DEFINE taken == Arrived(d, offer, sent) \ refused
           rows == AppliedTo(d, offer, taken, raised)
<1> SUFFICES ASSUME NEW x \in Items
             PROVE  /\ rows[x] >= store[d][x]
                    /\ x \in sent \ refused => rows[x] >= offer[x]
                    /\ x \in taken \/ rows[x] = store[d][x]
                    /\ x \in taken => x \in raised \/ rows[x] = offer[x]
    OBVIOUS
<1>1. store[d][x] \in Int /\ offer[x] \in Int
    BY DEF TypeOK, Stamps
<1>2. x \in raised => x \in taken
    BY DEF MayApply
<1>3. x \in taken <=> x \in sent \ refused /\ offer[x] > store[d][x]
    BY DEF Arrived
<1>4. rows[x] = IF x \in raised THEN offer[x] + 1
                ELSE IF x \in taken THEN offer[x] ELSE store[d][x]
    BY DEF AppliedTo
<1> HIDE DEF taken, rows
<1> QED
    BY <1>1, <1>2, <1>3, <1>4

\* An application is a step in which the store grows.
LEMMA AppliedGrows ==
    ASSUME TypeOK, NEW d \in Devices, NEW offer \in [Items -> Stamps], NEW sent,
           NEW refused, NEW raised, MayApply(d, offer, sent, refused, raised),
           store' = [store EXCEPT ![d] =
                        AppliedTo(d, offer, Arrived(d, offer, sent) \ refused, raised)]
    PROVE  StoreGrows
<1> DEFINE rows == AppliedTo(d, offer, Arrived(d, offer, sent) \ refused, raised)
<1> SUFFICES ASSUME NEW e \in Devices, NEW x \in Items
             PROVE  store'[e][x] >= store[e][x]
    BY DEF StoreGrows
<1>0. store[e][x] \in Int
    BY DEF TypeOK, Stamps
<1>1. rows[x] >= store[d][x]
    BY AppliedFacts
<1>2. store' = [store EXCEPT ![d] = rows]
    OBVIOUS
<1> HIDE DEF rows
<1> QED
    BY <1>0, <1>1, <1>2 DEF TypeOK

\* Nothing is lost where nothing is written.
LEMMA SameStore ==
    ASSUME TypeOK, store' = store
    PROVE  StoreGrows
<1>1. \A d \in Devices, x \in Items : store[d][x] \in Int
    BY DEF TypeOK, Stamps
<1> QED
    BY <1>1 DEF StoreGrows

\* The promises after a step that changes one session.
LEMMA StepPromise ==
    ASSUME TypeOK, TypeOK', StoreGrows, missed \subseteq missed', Promises, NEW k \in Pairs, NEW s,
           session' = [session EXCEPT ![k] = s], Promise(s, k, store', missed')
    PROVE  Promises'
<1> SUFFICES ASSUME NEW j \in Pairs PROVE Promise(session'[j], j, store', missed')
    BY DEF Promises
<1>1. CASE j = k
    BY <1>1 DEF TypeOK
<1>2. CASE j # k
    <2>1. session'[j] = session[j] /\ session[j] \in Sessions
        BY <1>2 DEF TypeOK
    <2> QED
        BY <2>1, PromiseKept DEF Promises, TypeOK
<1> QED
    BY <1>1, <1>2

\* The same of a step that changes none, or only how sessions end.
LEMMA EndPromise ==
    ASSUME TypeOK, TypeOK', StoreGrows, missed \subseteq missed', Promises,
           \A j \in Pairs : \/ session'[j] = session[j]
                           \/ session'[j] = NoSession
                           \/ \E role \in Roles :
                                \/ session'[j] = WithoutSide(session[j], role)
                                \/ session'[j] =
                                      Settled([session[j] EXCEPT !.end[role] = "committed"])
    PROVE  Promises'
<1> SUFFICES ASSUME NEW j \in Pairs PROVE Promise(session'[j], j, store', missed')
    BY DEF Promises
<1>1. session[j] \in Sessions /\ Promise(session[j], j, store, missed)
    BY DEF TypeOK, Promises
<1>2. Promise(session[j], j, store', missed')
    BY <1>1, PromiseKept DEF TypeOK
<1>3. PICK st, ms : st = store' /\ ms = missed'
    OBVIOUS
<1>4. Promise(session[j], j, st, ms)
    BY <1>2, <1>3
<1>5. Promise(session'[j], j, st, ms)
    <2>1. CASE session'[j] = session[j] \/ session'[j] = NoSession
        BY <1>4, <2>1, NoPromise
    <2>2. ASSUME NEW role \in Roles,
                 \/ session'[j] = WithoutSide(session[j], role)
                 \/ session'[j] = Settled([session[j] EXCEPT !.end[role] = "committed"])
          PROVE  Promise(session'[j], j, st, ms)
        <3>1. /\ Promise(WithoutSide(session[j], role), j, st, ms)
              /\ Promise(Settled([session[j] EXCEPT !.end[role] = "committed"]), j, st, ms)
            BY <1>1, <1>4, PromiseEnds
        <3> QED
            BY <2>2, <3>1
    <2> QED
        BY <2>1, <2>2
<1> QED
    BY <1>3, <1>5

\* The steps of a session up to the application of the listener.
LEMMA SessionPromises ==
    ASSUME TypeOK, TypeOK', Promises, NEW k \in Pairs, NEW X,
           NEW refused, NEW raised
    PROVE  /\ Dial(k) => Promises'
           /\ Accept(k) => Promises'
           /\ OfferSummaries(k) => Promises'
           /\ AnswerSummaries(k) => Promises'
           /\ ServeDialler(k, X) => Promises'
           /\ ServeListener(k, X, refused, raised) => Promises'
           /\ ApplyListener(k, refused, raised) => Promises'
<1> DEFINE s == session[k]
<1>1. /\ s \in Sessions /\ k[1] \in Devices /\ k[2] \in Devices /\ k[1] # k[2]
      /\ Promise(s, k, store, missed)
    BY DEF TypeOK, Pairs, Promises
<1>2. /\ s.offer["dial"] \in [Items -> Stamps] /\ s.offer["listen"] \in [Items -> Stamps]
      /\ s.cursor["dial"].since \in Stamps /\ s.cursor["listen"].since \in Stamps
      /\ s.unresolved["dial"] \in SUBSET Items /\ s.unresolved["listen"] \in SUBSET Items
    BY <1>1 DEF Sessions, Roles, Cursors
<1>3. \A d \in Devices, x \in Items : store[d][x] \in Int /\ store'[d][x] \in Int
    BY DEF TypeOK, Stamps
<1>4. \A x \in Items : s.offer["dial"][x] \in Int /\ s.offer["listen"][x] \in Int
    BY <1>2 DEF Stamps
<1>5. ASSUME Dial(k) PROVE Promises'
    <2> DEFINE rev == <<k[2], k[1]>>
               both == session[rev] # NoSession
               new == [NoSession EXCEPT !.step = "dialled",
                                        !.cursor["dial"] = cursor[k[1]][k[2]],
                                        !.overlapped = both]
    <2>1. rev \in Pairs /\ rev # k
        BY <1>1 DEF Pairs
    <2>2. session' = [session EXCEPT ![k] = new, ![rev].overlapped = both]
          /\ store' = store /\ missed' = missed
        BY <1>5 DEF Dial
    <2>3. new.step = "dialled"
        BY NoSessionType DEF Sessions
    <2>4. Promise(new, k, store, missed)
        <3> HIDE DEF new
        <3> QED
            BY <2>3 DEF Promise
    <2>5. Promise([session[rev] EXCEPT !.overlapped = both], rev, store, missed)
        <3>1. session[rev] \in Sessions /\ Promise(session[rev], rev, store, missed) /\ "dial" \in Roles
            BY <2>1 DEF TypeOK, Promises, Roles
        <3> HIDE DEF both
        <3> QED
            BY <2>1, <3>1, PromiseEnds
    <2>6. ASSUME NEW j \in Pairs PROVE Promise(session'[j], j, store, missed)
        <3>1. CASE j = k
            BY <2>1, <2>2, <2>4, <3>1 DEF TypeOK
        <3>2. CASE j = rev
            <4>1. session'[rev] = [session[rev] EXCEPT !.overlapped = both]
                <5> HIDE DEF new, both
                <5> QED
                    BY <2>1, <2>2 DEF TypeOK
            <4> QED
                BY <2>5, <3>2, <4>1
        <3>3. CASE j # k /\ j # rev
            <4>1. session'[j] = session[j]
                <5> HIDE DEF new, both
                <5> QED
                    BY <2>2, <3>3 DEF TypeOK
            <4> QED
                BY <4>1 DEF Promises
        <3> QED
            BY <3>1, <3>2, <3>3
    <2> QED
        BY <2>2, <2>6 DEF Promises
<1>6. ASSUME Accept(k) PROVE Promises'
    <2>1. PICK c : session' = [session EXCEPT ![k] = [s EXCEPT !.step = "accepted",
                                                               !.cursor["listen"] = c]]
        BY <1>6 DEF Accept, Step
    <2>2. [s EXCEPT !.step = "accepted", !.cursor["listen"] = c].step = "accepted"
        BY <1>1 DEF Sessions
    <2>3. Promise([s EXCEPT !.step = "accepted", !.cursor["listen"] = c], k, store', missed')
        BY <2>2 DEF Promise
    <2> QED
        BY <1>6, <2>1, <2>3, SameStore, StepPromise DEF Accept
<1>7. ASSUME OfferSummaries(k) PROVE Promises'
    <2>1. PICK rows : session' = [session EXCEPT ![k] = [s EXCEPT !.step = "offered",
                                                                  !.offer["dial"] = rows]]
        BY <1>7 DEF OfferSummaries, Step
    <2>2. [s EXCEPT !.step = "offered", !.offer["dial"] = rows].step = "offered"
        BY <1>1 DEF Sessions
    <2>3. Promise([s EXCEPT !.step = "offered", !.offer["dial"] = rows], k, store', missed')
        BY <2>2 DEF Promise
    <2> QED
        BY <1>7, <2>1, <2>3, SameStore, StepPromise DEF OfferSummaries
<1>8. ASSUME AnswerSummaries(k) PROVE Promises'
    <2> DEFINE new(rows) == [s EXCEPT !.step = "answered", !.offer["listen"] = rows,
                                      !.newer = Winning(k[2], s.offer["dial"])]
    <2>1. PICK rows : session' = [session EXCEPT ![k] = new(rows)]
        BY <1>8 DEF AnswerSummaries, Step
    <2>2. /\ new(rows).step = "answered" /\ new(rows).newer = Winning(k[2], s.offer["dial"])
          /\ new(rows).offer["dial"] = s.offer["dial"]
        BY <1>1 DEF Sessions, Roles
    <2>3. store' = store /\ missed' = missed
        BY <1>8 DEF AnswerSummaries
    <2>4. \A x \in Items \ Winning(k[2], s.offer["dial"]) :
             Got(k, "listen", x, s.offer["dial"][x], store, missed)
        BY <1>1, <1>3, <1>4 DEF Winning, Got, Side
    <2> HIDE DEF new
    <2>5. Promise(new(rows), k, store', missed')
        BY <2>2, <2>3, <2>4 DEF Promise
    <2> QED
        BY <2>1, <2>3, <2>5, SameStore, StepPromise
<1>9. ASSUME ServeDialler(k, X) PROVE Promises'
    <2> DEFINE winning == Winning(k[1], s.offer["listen"])
               unres(sent) == Unresolved(s.offer["listen"], winning, sent)
               new(sent) == [s EXCEPT !.step = "serving", !.sent["dial"] = sent,
                                      !.unresolved["dial"] = unres(sent)]
    <2>1. PICK sent : session' = [session EXCEPT ![k] = new(sent)]
        BY <1>9 DEF ServeDialler, Step
    <2>2. /\ new(sent).step = "serving" /\ new(sent).newer = s.newer
          /\ new(sent).offer = s.offer /\ new(sent).sent["dial"] = sent
          /\ new(sent).unresolved["dial"] = unres(sent)
        BY <1>1 DEF Sessions, Roles
    <2>3. store' = store /\ missed' = missed /\ s.step = "answered"
        BY <1>9 DEF ServeDialler
    <2>4. \A x \in Items \ (sent \cup unres(sent)) :
             Got(k, "dial", x, s.offer["listen"][x], store, missed)
        BY <1>1, <1>3, <1>4 DEF Winning, Unresolved, Got, Side
    <2>5. \A x \in Items \ s.newer : Got(k, "listen", x, s.offer["dial"][x], store, missed)
        BY <1>1, <2>3 DEF Promise
    <2> HIDE DEF new, unres, winning
    <2>6. Promise(new(sent), k, store', missed')
        BY <2>2, <2>3, <2>4, <2>5 DEF Promise
    <2> QED
        BY <2>1, <2>3, <2>6, SameStore, StepPromise
<1>10. ASSUME ServeListener(k, X, refused, raised) PROVE Promises'
    <2> DEFINE rows == AppliedTo(k[1], s.offer["listen"],
                                 Arrived(k[1], s.offer["listen"], s.sent["dial"]) \ refused, raised)
               mark == Watermark(s.cursor["dial"].since, s.offer["listen"],
                                 s.unresolved["dial"])
               unres(sent) == Unresolved(s.offer["dial"], s.newer, sent)
               new(taken, sent) ==
                  [s EXCEPT !.step = "returned", !.stored["dial"] = taken,
                            !.mark["dial"] = mark, !.sent["listen"] = sent,
                            !.unresolved["listen"] = unres(sent)]
    <2>1. PICK taken, sent : session' = [session EXCEPT ![k] = new(taken, sent)]
        BY <1>10 DEF ServeListener, Step
    <2>2. /\ new(taken, sent).step = "returned" /\ new(taken, sent).offer = s.offer
          /\ new(taken, sent).sent["listen"] = sent
          /\ new(taken, sent).mark["dial"] = mark
          /\ new(taken, sent).unresolved["listen"] = unres(sent)
          /\ new(taken, sent).unresolved["dial"] = s.unresolved["dial"]
        BY <1>1 DEF Sessions, Roles
    <2>3. /\ s.step = "serving"
          /\ MayApply(k[1], s.offer["listen"], s.sent["dial"], refused, raised)
          /\ store' = [store EXCEPT ![k[1]] = rows]
          /\ missed' = missed \cup ApplyGaps(k[1], k[2], s.offer["listen"], refused, raised)
        BY <1>10 DEF ServeListener
    <2>4. /\ store'[k[1]] = rows
          /\ store'[k[2]] = store[k[2]]
        BY <1>1, <2>3 DEF TypeOK
    <2>5. \A x \in s.unresolved["dial"] : mark <= s.offer["listen"][x]
        BY <1>2, WatermarkFacts
    <2>a. StoreGrows
        BY <1>1, <1>2, <2>3, AppliedGrows
    <2>b. \A x \in Items : /\ rows[x] >= store[k[1]][x]
                           /\ x \in s.sent["dial"] \ refused => rows[x] >= s.offer["listen"][x]
        BY <1>1, <1>2, <2>3, AppliedFacts
    <2> HIDE DEF rows
    <2>6. ASSUME NEW x \in Items \ s.unresolved["dial"]
          PROVE  Got(k, "dial", x, s.offer["listen"][x], store', missed')
        <3>1. CASE x \in refused
            BY <2>3, <3>1 DEF ApplyGaps, Got, Side, Other
        <3>2. CASE x \in s.sent["dial"] \ refused
            BY <2>4, <2>b, <3>2 DEF Got, Side
        <3>3. CASE x \notin s.sent["dial"]
            <4>1. Got(k, "dial", x, s.offer["listen"][x], store, missed)
                BY <1>1, <2>3, <3>3 DEF Promise
            <4>2. store'[k[1]][x] >= store[k[1]][x]
                BY <2>4, <2>b
            <4> QED
                BY <1>1, <1>3, <1>4, <2>3, <4>1, <4>2 DEF Got, Side, Other
        <3> QED
            BY <3>1, <3>2, <3>3
    <2>7. \A x \in Items \ (sent \cup unres(sent)) :
             Got(k, "listen", x, s.offer["dial"][x], store', missed')
        <3>1. \A x \in Items \ s.newer : Got(k, "listen", x, s.offer["dial"][x], store, missed)
            BY <1>1, <2>3 DEF Promise
        <3>2. \A x \in Items \ (sent \cup unres(sent)) : x \notin s.newer
            BY DEF Unresolved
        <3> HIDE DEF unres
        <3> QED
            BY <2>3, <2>4, <3>1, <3>2 DEF Got, Side, Other
    <2> HIDE DEF new, unres, mark
    <2>9. Promise(new(taken, sent), k, store', missed')
        BY <2>2, <2>5, <2>6, <2>7 DEF Promise
    <2> QED
        BY <2>1, <2>3, <2>a, <2>9, StepPromise
<1>11. ASSUME ApplyListener(k, refused, raised) PROVE Promises'
    <2> DEFINE rows == AppliedTo(k[2], s.offer["dial"],
                                 Arrived(k[2], s.offer["dial"], s.sent["listen"]) \ refused, raised)
               mark == Watermark(s.cursor["listen"].since, s.offer["dial"],
                                 s.unresolved["listen"])
               new(taken) == [s EXCEPT !.step = "closed", !.stored["listen"] = taken,
                                       !.mark["listen"] = mark]
    <2>1. PICK taken : session' = [session EXCEPT ![k] = new(taken)]
        BY <1>11 DEF ApplyListener, Step
    <2>2. /\ new(taken).step = "closed" /\ new(taken).offer = s.offer
          /\ new(taken).mark["listen"] = mark /\ new(taken).mark["dial"] = s.mark["dial"]
          /\ new(taken).unresolved = s.unresolved
        BY <1>1 DEF Sessions, Roles
    <2>3. /\ s.step = "returned"
          /\ MayApply(k[2], s.offer["dial"], s.sent["listen"], refused, raised)
          /\ store' = [store EXCEPT ![k[2]] = rows]
          /\ missed' = missed \cup ApplyGaps(k[2], k[1], s.offer["dial"], refused, raised)
        BY <1>11 DEF ApplyListener
    <2>4. /\ store'[k[2]] = rows
          /\ store'[k[1]] = store[k[1]]
        BY <1>1, <2>3 DEF TypeOK
    <2>5. \A x \in s.unresolved["listen"] : mark <= s.offer["dial"][x]
        BY <1>2, WatermarkFacts
    <2>a. StoreGrows
        BY <1>1, <1>2, <2>3, AppliedGrows
    <2>b. \A x \in Items : /\ rows[x] >= store[k[2]][x]
                           /\ x \in s.sent["listen"] \ refused => rows[x] >= s.offer["dial"][x]
        BY <1>1, <1>2, <2>3, AppliedFacts
    <2> HIDE DEF rows
    <2>6. ASSUME NEW x \in Items \ s.unresolved["listen"]
          PROVE  Got(k, "listen", x, s.offer["dial"][x], store', missed')
        <3>1. CASE x \in refused
            BY <2>3, <3>1 DEF ApplyGaps, Got, Side, Other
        <3>2. CASE x \in s.sent["listen"] \ refused
            BY <2>4, <2>b, <3>2 DEF Got, Side
        <3>3. CASE x \notin s.sent["listen"]
            <4>1. Got(k, "listen", x, s.offer["dial"][x], store, missed)
                BY <1>1, <2>3, <3>3 DEF Promise
            <4>2. store'[k[2]][x] >= store[k[2]][x]
                BY <2>4, <2>b
            <4> QED
                BY <1>1, <1>3, <1>4, <2>3, <4>1, <4>2 DEF Got, Side, Other
        <3> QED
            BY <3>1, <3>2, <3>3
    <2>7. /\ \A x \in Items \ s.unresolved["dial"] :
                Got(k, "dial", x, s.offer["listen"][x], store', missed')
          /\ \A x \in s.unresolved["dial"] : s.mark["dial"] <= s.offer["listen"][x]
        <3>1. /\ \A x \in Items \ s.unresolved["dial"] :
                    Got(k, "dial", x, s.offer["listen"][x], store, missed)
              /\ \A x \in s.unresolved["dial"] : s.mark["dial"] <= s.offer["listen"][x]
            BY <1>1, <2>3 DEF Promise
        <3> QED
            BY <2>3, <2>4, <3>1 DEF Got, Side, Other
    <2> HIDE DEF new, mark
    <2>9. Promise(new(taken), k, store', missed')
        BY <2>2, <2>5, <2>6, <2>7 DEF Promise
    <2> QED
        BY <2>1, <2>3, <2>a, <2>9, StepPromise
<1> QED
    BY <1>5, <1>6, <1>7, <1>8, <1>9, <1>10, <1>11

\* The other steps: writers, notes, time, commits, losses and restarts.
LEMMA OtherPromises ==
    ASSUME TypeOK, TypeOK', Promises
    PROVE  /\ Writers \/ Notes \/ TimePasses => Promises'
           /\ \A d \in Devices : \A w \in pending[d] : NoteLocal(d, w, FALSE) => Promises'
           /\ \A k \in Pairs, role \in Roles :
                 /\ \A saved \in SUBSET Saves : Commit(k, role, saved) => Promises'
                 /\ \A frames, raised : LoseSide(k, role, frames, raised) => Promises'
           /\ \A d \in Devices, damaged \in BOOLEAN : Restart(d, damaged) => Promises'
<1>1. ASSUME Writers PROVE Promises'
    <2>1. PICK d \in Devices, x \in Items, n \in 1..MaxStamp : Write(d, x, n)
        BY <1>1 DEF Writers
    <2>2. StoreGrows
        <3> SUFFICES ASSUME NEW e \in Devices, NEW y \in Items
                     PROVE  store'[e][y] >= store[e][y]
            BY DEF StoreGrows
        <3>1. store[e][y] \in Int /\ store[d][x] \in Int /\ n \in Int
            BY DEF TypeOK, Stamps
        <3>2. n > store[d][x] /\ store' = [store EXCEPT ![d][x] = n]
            BY <2>1 DEF Write
        <3> QED
            BY <3>1, <3>2 DEF TypeOK
    <2> QED
        BY <2>1, <2>2, EndPromise DEF Write
<1>2. ASSUME store' = store, session' = session, missed \subseteq missed' PROVE Promises'
    BY <1>2, SameStore, EndPromise
<1>3. ASSUME Notes \/ TimePasses \/ \E d \in Devices : \E w \in pending[d] : NoteLocal(d, w, FALSE)
      PROVE  Promises'
    BY <1>2, <1>3 DEF Notes, NoteLocal, TimePasses
<1>4. ASSUME NEW k \in Pairs, NEW role \in Roles, NEW saved \in SUBSET Saves,
             Commit(k, role, saved)
      PROVE  Promises'
    <2>1. /\ store' = store
          /\ session' = [session EXCEPT ![k] =
                            Settled([session[k] EXCEPT !.end[role] = "committed"])]
          /\ missed \subseteq missed'
        BY <1>4 DEF Commit
    <2>2. \A j \in Pairs :
             \/ session'[j] = session[j]
             \/ session'[j] = Settled([session[j] EXCEPT !.end[role] = "committed"])
        BY <2>1 DEF TypeOK
    <2> QED
        BY <2>1, <2>2, SameStore, EndPromise
<1>5. ASSUME NEW k \in Pairs, NEW role \in Roles, NEW frames, NEW raised,
             LoseSide(k, role, frames, raised)
      PROVE  Promises'
    <2> DEFINE d == Side(k, role)
               offer == session[k].offer[Other(role)]
    <2>1. /\ MayApply(d, offer, frames, {}, raised)
          /\ store' = [store EXCEPT ![d] =
                            AppliedTo(d, offer, Arrived(d, offer, frames) \ {}, raised)]
          /\ session' = [session EXCEPT ![k] = WithoutSide(session[k], role)]
          /\ missed \subseteq missed'
        <3>1. Arrived(d, offer, frames) = Arrived(d, offer, frames) \ {}
            OBVIOUS
        <3> QED
            BY <1>5, <3>1 DEF LoseSide, TypeOK
    <2>2. d \in Devices /\ offer \in [Items -> Stamps]
        <3>1. session[k] \in Sessions /\ d \in Devices /\ Other(role) \in Roles
            BY SideType DEF TypeOK
        <3> QED
            BY <3>1 DEF Sessions
    <2>3. StoreGrows
        BY <2>1, <2>2, AppliedGrows
    <2>4. \A j \in Pairs : session'[j] = session[j] \/ session'[j] = WithoutSide(session[j], role)
        BY <2>1 DEF TypeOK
    <2> QED
        BY <2>1, <2>3, <2>4, EndPromise
<1>6. ASSUME NEW d \in Devices, NEW damaged \in BOOLEAN, Restart(d, damaged)
      PROVE  Promises'
    <2>1. \A j \in Pairs : \/ session'[j] = session[j]
                          \/ \E role \in Roles : session'[j] = WithoutSide(session[j], role)
        BY <1>6 DEF Restart, Roles
    <2>2. store' = store /\ missed \subseteq missed'
        BY <1>6 DEF Restart
    <2> QED
        BY <2>1, <2>2, SameStore, EndPromise
<1> QED
    BY <1>1, <1>3, <1>4, <1>5, <1>6

\* The invariant is kept.
LEMMA PromisesStep ==
    ASSUME TypeOK, TypeOK', Promises, [Next]_vars
    PROVE  Promises'
<1>1. CASE UNCHANGED vars
    BY <1>1 DEF Promises, vars
<1>2. CASE Exchange
    <2>1. Saves \in SUBSET Saves
        OBVIOUS
    <2> QED
        BY <1>2, <2>1, SessionPromises, OtherPromises DEF Exchange
<1>3. CASE Notes \/ Writers \/ TimePasses
    BY <1>3, OtherPromises
<1>4. CASE Failures
    BY <1>4, SessionPromises, OtherPromises DEF Failures
<1> QED
    BY <1>1, <1>2, <1>3, <1>4 DEF Next

\* A side that may commit has got what it was offered below its mark.
LEMMA PromiseDelivers ==
    ASSUME TypeOK, Promises
    PROVE  MarkIsDelivered
<1> SUFFICES ASSUME NEW k \in Pairs, NEW role \in Roles, ReadyToCommit(session[k], role),
                    NEW x \in Items,
                    session[k].offer[Other(role)][x] < session[k].mark[role]
             PROVE  Got(k, role, x, session[k].offer[Other(role)][x], store, missed)
    BY DEF MarkIsDelivered, Got
<1> DEFINE s == session[k]
<1>1. s \in Sessions /\ Promise(s, k, store, missed)
    BY DEF TypeOK, Promises
<1>2. /\ s.offer["dial"][x] \in Int /\ s.offer["listen"][x] \in Int
      /\ s.mark["dial"] \in Int /\ s.mark["listen"] \in Int
    BY <1>1 DEF Sessions, Roles, Stamps
<1>3. CASE role = "dial"
    <2>1. /\ s.step \in {"returned", "closed"}
          /\ Other(role) = "listen" /\ Side(k, role) = k[1]
        BY <1>3 DEF ReadyToCommit, Other, Side
    <2> QED
        BY <1>1, <1>2, <1>3, <2>1 DEF Promise
<1>4. CASE role = "listen"
    <2>1. s.step = "closed" /\ Other(role) = "dial" /\ Side(k, role) = k[2]
        BY <1>4 DEF ReadyToCommit, Other, Side
    <2> QED
        BY <1>1, <1>2, <1>4, <2>1 DEF Promise
<1> QED
    BY <1>3, <1>4 DEF Roles

\* A session records a cursor that passes no version its side was offered and
\* lacks, but for those it refused itself, for any devices, histories, request
\* cap, ceiling and faults: what the cap or the ceiling put off, what was
\* withheld and what changed under way all keep workspace_watermark back.
THEOREM CursorsPassOnlyDelivered == Spec => []MarkIsDelivered
<1>1. Init => Promises
    BY NoPromise DEF Init, Promises
<1>2. TypeOK /\ TypeOK' /\ Promises /\ [Next]_vars => Promises'
    BY PromisesStep
<1>3. TypeOK /\ Promises => MarkIsDelivered
    BY PromiseDelivers
<1> QED
    BY <1>1, <1>2, <1>3, RelayTypeCorrect, PTL DEF Spec
=============================================================================
