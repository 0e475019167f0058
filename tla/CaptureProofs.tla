--------------------------- MODULE CaptureProofs ---------------------------
(***************************************************************************)
(* Proofs about Capture, for any contents, change counts, stamps and back  *)
(* ends, and with every failure allowed at any time: the types, that       *)
(* private and own content is not captured, that an accepted capture is    *)
(* answered for, and that a received clip replaces only what is older.     *)
(***************************************************************************)
EXTENDS Capture, OrderLemmas

-----------------------------------------------------------------------------
(* The inductive invariant.                                                *)

\* Nothing runs ahead of the clipboard's change count.
Past ==
    /\ cursor <= board.count /\ sentinel <= board.count
    /\ seen <= board.count /\ slot.count <= board.count
    /\ \A g \in mine \cup hidden \cup stored \cup withdrawn : g <= board.count

\* A poll under way has seen a count that is not acknowledged, with nothing
\* pending, and the daemon has not written since.
PollOK ==
    /\ loop = "reading" \/ resume = "reading" =>
           /\ seen \in Counts /\ cursor < seen
           /\ board.count \in mine => seen = board.count
    /\ loop = "reading" => slot = NoCapture
    /\ loop = "stopped" => slot = NoCapture

\* What is pending was accepted outside private mode, and a change of the
\* settings since then has withdrawn or declined it.
SlotOK ==
    slot # NoCapture =>
        /\ slot.epoch <= epoch
        /\ slot.epoch = epoch => ~private
        /\ slot.epoch < epoch => slot.count \in withdrawn \cup stored \cup declined
        /\ slot.count \in hidden => slot.count \in reread
        /\ slot.count \in mine => slot.count \in reread \cup uncovered
        /\ slot.count \in withdrawn /\ slot.epoch = epoch => slot.count \in reread

\* Private content on the clipboard is acknowledged before ticks may poll again.
PrivateIsAcknowledged ==
    ~private /\ board.count \in hidden \cup withdrawn =>
        \/ board.count \in reread
        \/ cursor = board.count
        \/ resume = "begun"
        \/ resume = "reading" /\ seen = board.count

\* The daemon's own write on the clipboard is known by the sentinel, unless it
\* was left without one.
OwnIsKnown ==
    board.count \in mine => board.count \in reread \cup uncovered \cup {cursor, sentinel}

\* The clipboard's stamp has been noted.
ShownIsNoted == board.stamp <= applied

CaptureInv ==
    /\ TypeOK /\ IsFiniteSet(live)
    /\ Past /\ PollOK /\ SlotOK /\ PrivateIsAcknowledged /\ OwnIsKnown /\ ShownIsNoted
    /\ PrivateStaysPrivate /\ OwnWritesAreNotCaptured /\ AcceptedIsAnsweredFor

-----------------------------------------------------------------------------
(* Types.                                                                  *)

\* TypeOK, one variable at a time.
Types ==
    /\ backend \in Backends
    /\ board \in [count : Counts, content : Contents \cup {0}, stamp : 0..MaxStamp]
    /\ cursor \in Counts \cup {COUNT_NONE} /\ sentinel \in Counts \cup {COUNT_NONE}
    /\ seen \in Counts \cup {COUNT_NONE}
    /\ permit \in BOOLEAN /\ retry \in BOOLEAN /\ private \in BOOLEAN /\ abandoned \in BOOLEAN
    /\ loop \in {"waiting", "woken", "reading", "draining", "stopped"}
    /\ slot = NoCapture \/ slot \in [count : Counts, content : Contents, at : 1..MaxStamp, epoch : Nat]
    /\ epoch \in Nat
    /\ resume \in {"none", "begun", "reading"}
    /\ resume # "none" => ~private /\ loop # "reading"
    /\ rows \in [Contents -> 0..MaxStamp] /\ live \subseteq {c \in Contents : rows[c] > 0}
    /\ applied \in 0..MaxStamp /\ now \in 1..MaxStamp
    /\ copier = NoCopy \/ copier \in [step : {"promote", "note"}, content : Contents,
                                      count : Counts, stamp : 0..MaxStamp]
    /\ receiver = NoClip \/ receiver \in [content : Contents, stamp : 1..MaxStamp]
    /\ mine \subseteq Counts /\ hidden \subseteq Counts /\ accepted \subseteq Counts
    /\ stored \subseteq Counts /\ withdrawn \subseteq Counts /\ reported \subseteq Counts
    /\ missed \subseteq Counts /\ reread \subseteq Counts
    /\ uncovered \subseteq Counts /\ declined \subseteq Counts

\* Both say the same, before and after a step.
LEMMA TypesAreTypeOK == (TypeOK <=> Types) /\ (TypeOK' <=> Types')
    BY DEF TypeOK, Types


\* The newest live row has a stamp.
LEMMA NewestLiveFacts ==
    ASSUME Types, IsFiniteSet(live)
    PROVE  NewestLive.stamp \in 0..MaxStamp
<1> DEFINE R == {p \in live \X live :
                    rows[p[2]] > rows[p[1]] \/ (rows[p[2]] = rows[p[1]] /\ p[2] > p[1])}
           IsNewest(c) == \A d \in live : rows[c] > rows[d] \/ (rows[c] = rows[d] /\ c >= d)
<1>1. \A c \in live : c \in Nat /\ rows[c] \in Nat /\ rows[c] \in 0..MaxStamp
    BY CaptureAssumption DEF Types
<1>2. CASE live = {}
    BY <1>2, CaptureAssumption DEF NewestLive, NoClip
<1>3. CASE live # {}
    <2>1. \A c, d \in live : <<c, d>> \in R
              <=> rows[d] > rows[c] \/ (rows[d] = rows[c] /\ d > c)
        OBVIOUS
    <2> HIDE DEF R
    <2>2. \A c \in live : <<c, c>> \notin R
        BY <1>1, <2>1
    <2>3. \A c, d, e \in live : <<c, d>> \in R /\ <<d, e>> \in R => <<c, e>> \in R
        BY <1>1, <2>1
    <2>4. PICK c \in live : \A d \in live : <<c, d>> \notin R
        BY <1>3, <2>2, <2>3, FiniteHasLast
    <2>5. \A d \in live : rows[c] > rows[d] \/ (rows[c] = rows[d] /\ c >= d)
        <3> TAKE d \in live
        <3>1. ~(rows[d] > rows[c] \/ (rows[d] = rows[c] /\ d > c))
            BY <2>1, <2>4
        <3> QED
            BY <1>1, <3>1
    <2>6. (CHOOSE x \in live : IsNewest(x)) \in live
        BY <2>5
    <2> QED
        BY <1>1, <1>3, <2>6 DEF NewestLive
<1> QED
    BY <1>2, <1>3

\* The initial states.
LEMMA InitInv == Init => CaptureInv
<1> SUFFICES ASSUME Init PROVE CaptureInv
    OBVIOUS
<1>1. Types
    <2>1. board \in [count : Counts, content : Contents \cup {0}, stamp : 0..MaxStamp]
        BY CaptureAssumption DEF Init, Counts
    <2>2. rows \in [Contents -> 0..MaxStamp]
        BY CaptureAssumption DEF Init
    <2>3. permit \in BOOLEAN /\ retry \in BOOLEAN /\ private \in BOOLEAN /\ abandoned \in BOOLEAN
        BY DEF Init
    <2>4. now \in 1..MaxStamp /\ applied \in 0..MaxStamp
        BY CaptureAssumption DEF Init
    <2> QED
        BY <2>1, <2>2, <2>3, <2>4 DEF Init, Types
<1>2. IsFiniteSet(live)
    BY FS_EmptySet DEF Init
<1>3. Past /\ PollOK /\ SlotOK /\ PrivateIsAcknowledged /\ OwnIsKnown /\ ShownIsNoted
    BY DEF Init, Past, PollOK, SlotOK, PrivateIsAcknowledged, OwnIsKnown, ShownIsNoted,
           COUNT_NONE, NoCapture
<1>4. PrivateStaysPrivate /\ OwnWritesAreNotCaptured /\ AcceptedIsAnsweredFor
    BY DEF Init, PrivateStaysPrivate, OwnWritesAreNotCaptured, AcceptedIsAnsweredFor
<1> QED
    BY <1>1, <1>2, <1>3, <1>4, TypesAreTypeOK DEF CaptureInv

\* AppCopies keeps the invariant.
LEMMA AppCopiesInv == ASSUME CaptureInv, NEW c \in Contents, AppCopies(c) PROVE CaptureInv'
<1>1. Types /\ Types'
    BY CaptureAssumption, TypesAreTypeOK
       DEF CaptureInv, Types, Past, PollOK, Counts, COUNT_NONE, NoCapture, NoCopy, NoClip,
           AppCopies, clipVars, loopVars, setVars, rowVars
<1>2. IsFiniteSet(live')
    BY DEF CaptureInv, AppCopies, clipVars, loopVars, setVars, rowVars
<1>3. Past' /\ PollOK'
    BY <1>1, CaptureAssumption
       DEF CaptureInv, Types, Past, PollOK,
           Counts, COUNT_NONE, NoCapture, AppCopies,
           clipVars, loopVars, setVars, rowVars
<1>4. SlotOK' /\ AcceptedIsAnsweredFor'
    BY <1>1, CaptureAssumption
       DEF CaptureInv, Types, Past, PollOK, SlotOK, AcceptedIsAnsweredFor,
           Counts, COUNT_NONE, NoCapture, AppCopies,
           clipVars, loopVars, setVars, rowVars
<1>5. PrivateIsAcknowledged' /\ PrivateStaysPrivate'
    <2>1. board.count + 1 \notin hidden \cup withdrawn \cup stored
        BY <1>1 DEF CaptureInv, Types, Past, Counts
    <2> QED
        BY <1>1, <2>1
           DEF CaptureInv, PrivateIsAcknowledged, PrivateStaysPrivate, AppCopies, loopVars, setVars
<1>6. OwnIsKnown' /\ OwnWritesAreNotCaptured'
    BY <1>1, CaptureAssumption
       DEF CaptureInv, Types, Past, PollOK, SlotOK, OwnIsKnown, OwnWritesAreNotCaptured,
           Counts, COUNT_NONE, NoCapture, AppCopies,
           clipVars, loopVars, setVars, rowVars
<1>7. ShownIsNoted'
    BY <1>1, CaptureAssumption
       DEF CaptureInv, Types, ShownIsNoted,
           Counts, COUNT_NONE, NoCapture, AppCopies,
           clipVars, loopVars, setVars, rowVars
<1> QED
    BY <1>1, <1>2, <1>3, <1>4, <1>5, <1>6, <1>7, TypesAreTypeOK DEF CaptureInv

\* Wake keeps the invariant.
LEMMA WakeInv == ASSUME CaptureInv, Wake PROVE CaptureInv'
<1>0. retry' \in BOOLEAN
    BY TypesAreTypeOK DEF CaptureInv, Types, Wake, RetryAfter
<1>1. Types /\ Types'
    <2>1. Types
        BY TypesAreTypeOK DEF CaptureInv
    <2>2. /\ loop' \in {"waiting", "woken"} /\ permit' \in BOOLEAN
          /\ UNCHANGED <<backend, board, cursor, sentinel, mine, uncovered, hidden, missed, seen,
                         slot, accepted, stored, declined, reported, setVars, rowVars, copier, receiver, now>>
        BY DEF Wake
    <2> QED
        BY <1>0, <2>1, <2>2 DEF Types, setVars, rowVars
<1>2. IsFiniteSet(live')
    BY DEF CaptureInv, Wake, clipVars, loopVars, setVars, rowVars
<1>3. (/\ Past /\ PollOK /\ SlotOK /\ PrivateIsAcknowledged /\ OwnIsKnown /\ ShownIsNoted
       /\ PrivateStaysPrivate /\ OwnWritesAreNotCaptured /\ AcceptedIsAnsweredFor)'
    BY <1>1, CaptureAssumption
       DEF CaptureInv, Types, Past, PollOK, SlotOK, PrivateIsAcknowledged, OwnIsKnown,
           ShownIsNoted, PrivateStaysPrivate, OwnWritesAreNotCaptured, AcceptedIsAnsweredFor,
           Counts, COUNT_NONE, NoCapture, Wake, RetryAfter,
           clipVars, loopVars, setVars, rowVars
<1> QED
    BY <1>1, <1>2, <1>3, TypesAreTypeOK DEF CaptureInv

\* TickPolls keeps the invariant.
LEMMA TickPollsInv == ASSUME CaptureInv, TickPolls PROVE CaptureInv'
<1>1. Types /\ Types'
    BY CaptureAssumption, TypesAreTypeOK
       DEF CaptureInv, Types, Past, PollOK, Counts, COUNT_NONE, NoCapture, NoCopy, NoClip,
           TickPolls, TickEnds, AuthorityFree, RetryAfter, clipVars, loopVars, setVars, rowVars
<1>2. IsFiniteSet(live')
    BY DEF CaptureInv, TickPolls, clipVars, loopVars, setVars, rowVars
<1>3. (/\ Past /\ PollOK /\ SlotOK /\ PrivateIsAcknowledged /\ OwnIsKnown /\ ShownIsNoted
       /\ PrivateStaysPrivate /\ OwnWritesAreNotCaptured /\ AcceptedIsAnsweredFor)'
    BY <1>1, CaptureAssumption
       DEF CaptureInv, Types, Past, PollOK, SlotOK, PrivateIsAcknowledged, OwnIsKnown,
           ShownIsNoted, PrivateStaysPrivate, OwnWritesAreNotCaptured, AcceptedIsAnsweredFor,
           Counts, COUNT_NONE, NoCapture, TickPolls, TickEnds, AuthorityFree, RetryAfter,
           clipVars, loopVars, setVars, rowVars
<1> QED
    BY <1>1, <1>2, <1>3, TypesAreTypeOK DEF CaptureInv

\* TickRefused keeps the invariant.
LEMMA TickRefusedInv == ASSUME CaptureInv, TickRefused PROVE CaptureInv'
<1>1. Types /\ Types'
    BY CaptureAssumption, TypesAreTypeOK
       DEF CaptureInv, Types, Past, PollOK, Counts, COUNT_NONE, NoCapture, NoCopy, NoClip,
           TickRefused, TickEnds, RetryAfter, clipVars, loopVars, setVars, rowVars
<1>2. IsFiniteSet(live')
    BY DEF CaptureInv, TickRefused, clipVars, loopVars, setVars, rowVars
<1>3. (/\ Past /\ PollOK /\ SlotOK /\ PrivateIsAcknowledged /\ OwnIsKnown /\ ShownIsNoted
       /\ PrivateStaysPrivate /\ OwnWritesAreNotCaptured /\ AcceptedIsAnsweredFor)'
    BY <1>1, CaptureAssumption
       DEF CaptureInv, Types, Past, PollOK, SlotOK, PrivateIsAcknowledged, OwnIsKnown,
           ShownIsNoted, PrivateStaysPrivate, OwnWritesAreNotCaptured, AcceptedIsAnsweredFor,
           Counts, COUNT_NONE, NoCapture, TickRefused, TickEnds, RetryAfter,
           clipVars, loopVars, setVars, rowVars
<1> QED
    BY <1>1, <1>2, <1>3, TypesAreTypeOK DEF CaptureInv

\* TickCannotOpen keeps the invariant.
LEMMA TickCannotOpenInv == ASSUME CaptureInv, TickCannotOpen PROVE CaptureInv'
<1>1. Types /\ Types'
    BY CaptureAssumption, TypesAreTypeOK
       DEF CaptureInv, Types, Past, PollOK, Counts, COUNT_NONE, NoCapture, NoCopy, NoClip,
           TickCannotOpen, TickEnds, RetryAfter, clipVars, loopVars, setVars, rowVars
<1>2. IsFiniteSet(live')
    BY DEF CaptureInv, TickCannotOpen, clipVars, loopVars, setVars, rowVars
<1>3. (/\ Past /\ PollOK /\ SlotOK /\ PrivateIsAcknowledged /\ OwnIsKnown /\ ShownIsNoted
       /\ PrivateStaysPrivate /\ OwnWritesAreNotCaptured /\ AcceptedIsAnsweredFor)'
    BY <1>1, CaptureAssumption
       DEF CaptureInv, Types, Past, PollOK, SlotOK, PrivateIsAcknowledged, OwnIsKnown,
           ShownIsNoted, PrivateStaysPrivate, OwnWritesAreNotCaptured, AcceptedIsAnsweredFor,
           Counts, COUNT_NONE, NoCapture, TickCannotOpen, TickEnds, RetryAfter,
           clipVars, loopVars, setVars, rowVars
<1> QED
    BY <1>1, <1>2, <1>3, TypesAreTypeOK DEF CaptureInv

\* TickCannotAttribute keeps the invariant.
LEMMA TickCannotAttributeInv == ASSUME CaptureInv, TickCannotAttribute PROVE CaptureInv'
<1>1. Types /\ Types'
    BY CaptureAssumption, TypesAreTypeOK
       DEF CaptureInv, Types, Past, PollOK, Counts, COUNT_NONE, NoCapture, NoCopy, NoClip,
           TickCannotAttribute, TickEnds, RetryAfter, Observe, IsSelfWrite, clipVars, loopVars, setVars, rowVars
<1>2. IsFiniteSet(live')
    BY DEF CaptureInv, TickCannotAttribute, clipVars, loopVars, setVars, rowVars
<1>3. (/\ Past /\ PollOK /\ SlotOK /\ PrivateIsAcknowledged /\ OwnIsKnown /\ ShownIsNoted
       /\ PrivateStaysPrivate /\ OwnWritesAreNotCaptured /\ AcceptedIsAnsweredFor)'
    BY <1>1, CaptureAssumption
       DEF CaptureInv, Types, Past, PollOK, SlotOK, PrivateIsAcknowledged, OwnIsKnown,
           ShownIsNoted, PrivateStaysPrivate, OwnWritesAreNotCaptured, AcceptedIsAnsweredFor,
           Counts, COUNT_NONE, NoCapture, TickCannotAttribute, TickEnds, RetryAfter, Observe, IsSelfWrite,
           clipVars, loopVars, setVars, rowVars
<1> QED
    BY <1>1, <1>2, <1>3, TypesAreTypeOK DEF CaptureInv

\* Shutdown keeps the invariant.
LEMMA ShutdownInv == ASSUME CaptureInv, Shutdown PROVE CaptureInv'
<1>1. Types /\ Types'
    BY CaptureAssumption, TypesAreTypeOK
       DEF CaptureInv, Types, Past, PollOK, Counts, COUNT_NONE, NoCapture, NoCopy, NoClip,
           Shutdown, clipVars, loopVars, setVars, rowVars
<1>2. IsFiniteSet(live')
    BY DEF CaptureInv, Shutdown, clipVars, loopVars, setVars, rowVars
<1>3. (/\ Past /\ PollOK /\ SlotOK /\ PrivateIsAcknowledged /\ OwnIsKnown /\ ShownIsNoted
       /\ PrivateStaysPrivate /\ OwnWritesAreNotCaptured /\ AcceptedIsAnsweredFor)'
    BY <1>1, CaptureAssumption
       DEF CaptureInv, Types, Past, PollOK, SlotOK, PrivateIsAcknowledged, OwnIsKnown,
           ShownIsNoted, PrivateStaysPrivate, OwnWritesAreNotCaptured, AcceptedIsAnsweredFor,
           Counts, COUNT_NONE, NoCapture, Shutdown,
           clipVars, loopVars, setVars, rowVars
<1> QED
    BY <1>1, <1>2, <1>3, TypesAreTypeOK DEF CaptureInv

\* Stop keeps the invariant.
LEMMA StopInv == ASSUME CaptureInv, Stop PROVE CaptureInv'
<1>1. Types /\ Types'
    BY CaptureAssumption, TypesAreTypeOK
       DEF CaptureInv, Types, Past, PollOK, Counts, COUNT_NONE, NoCapture, NoCopy, NoClip,
           Stop, Drained, clipVars, loopVars, setVars, rowVars
<1>2. IsFiniteSet(live')
    BY DEF CaptureInv, Stop, clipVars, loopVars, setVars, rowVars
<1>3. (/\ Past /\ PollOK /\ SlotOK /\ PrivateIsAcknowledged /\ OwnIsKnown /\ ShownIsNoted
       /\ PrivateStaysPrivate /\ OwnWritesAreNotCaptured /\ AcceptedIsAnsweredFor)'
    BY <1>1, CaptureAssumption
       DEF CaptureInv, Types, Past, PollOK, SlotOK, PrivateIsAcknowledged, OwnIsKnown,
           ShownIsNoted, PrivateStaysPrivate, OwnWritesAreNotCaptured, AcceptedIsAnsweredFor,
           Counts, COUNT_NONE, NoCapture, Stop, Drained,
           clipVars, loopVars, setVars, rowVars
<1> QED
    BY <1>1, <1>2, <1>3, TypesAreTypeOK DEF CaptureInv

\* SetPrivateMode keeps the invariant.
LEMMA SetPrivateModeInv == ASSUME CaptureInv, SetPrivateMode PROVE CaptureInv'
<1>1. Types /\ Types'
    BY CaptureAssumption, TypesAreTypeOK
       DEF CaptureInv, Types, Past, PollOK, Counts, COUNT_NONE, NoCapture, NoCopy, NoClip,
           SetPrivateMode, AuthorityFree, clipVars, loopVars, setVars, rowVars
<1>2. IsFiniteSet(live')
    BY DEF CaptureInv, SetPrivateMode, clipVars, loopVars, setVars, rowVars
<1>3. Past' /\ PollOK'
    BY <1>1, CaptureAssumption
       DEF CaptureInv, Types, Past, PollOK,
           Counts, COUNT_NONE, NoCapture, SetPrivateMode, AuthorityFree,
           clipVars, loopVars, setVars, rowVars
<1>4. SlotOK' /\ AcceptedIsAnsweredFor'
    BY <1>1, CaptureAssumption
       DEF CaptureInv, Types, Past, PollOK, SlotOK, AcceptedIsAnsweredFor,
           Counts, COUNT_NONE, NoCapture, SetPrivateMode, AuthorityFree,
           clipVars, loopVars, setVars, rowVars
<1>5. PrivateIsAcknowledged' /\ PrivateStaysPrivate'
    BY <1>1, CaptureAssumption
       DEF CaptureInv, Types, Past, PollOK, SlotOK, PrivateIsAcknowledged, PrivateStaysPrivate,
           Counts, COUNT_NONE, NoCapture, SetPrivateMode, AuthorityFree,
           clipVars, loopVars, setVars, rowVars
<1>6. OwnIsKnown' /\ OwnWritesAreNotCaptured'
    BY <1>1, CaptureAssumption
       DEF CaptureInv, Types, Past, PollOK, SlotOK, OwnIsKnown, OwnWritesAreNotCaptured,
           Counts, COUNT_NONE, NoCapture, SetPrivateMode, AuthorityFree,
           clipVars, loopVars, setVars, rowVars
<1>7. ShownIsNoted'
    BY <1>1, CaptureAssumption
       DEF CaptureInv, Types, ShownIsNoted,
           Counts, COUNT_NONE, NoCapture, SetPrivateMode, AuthorityFree,
           clipVars, loopVars, setVars, rowVars
<1> QED
    BY <1>1, <1>2, <1>3, <1>4, <1>5, <1>6, <1>7, TypesAreTypeOK DEF CaptureInv

\* SetCapturePolicy keeps the invariant.
LEMMA SetCapturePolicyInv == ASSUME CaptureInv, SetCapturePolicy PROVE CaptureInv'
<1>0. Types
    BY TypesAreTypeOK DEF CaptureInv
<1>1. /\ epoch' = epoch + 1 /\ epoch \in Nat
      /\ declined' = IF slot = NoCapture THEN declined ELSE declined \cup {slot.count}
      /\ UNCHANGED <<backend, clipVars, retry, loop, seen, slot, accepted, stored, reported,
                     private, resume, abandoned, withdrawn, reread, rowVars, copier, receiver, now>>
    BY <1>0 DEF SetCapturePolicy, Types
<1>2. Types'
    <2>1. declined' \subseteq Counts
        BY <1>0, <1>1 DEF Types
    <2> QED
        BY <1>0, <1>1, <2>1 DEF Types, clipVars, rowVars
<1>3. SlotOK' /\ AcceptedIsAnsweredFor'
    <2>1. slot # NoCapture => slot.epoch <= epoch /\ slot.epoch \in Nat
        BY <1>0 DEF CaptureInv, SlotOK, Types
    <2>2. slot # NoCapture => slot.epoch < epoch' /\ slot.epoch <= epoch' /\ slot.epoch # epoch'
        BY <1>1, <2>1
    <2> QED
        BY <1>1, <2>2 DEF CaptureInv, SlotOK, AcceptedIsAnsweredFor, clipVars
<1> QED
    BY <1>1, <1>2, <1>3, TypesAreTypeOK
       DEF CaptureInv, Past, PollOK, PrivateIsAcknowledged, OwnIsKnown, ShownIsNoted,
           PrivateStaysPrivate, OwnWritesAreNotCaptured, clipVars, rowVars

\* ResumePolls keeps the invariant.
LEMMA ResumePollsInv == ASSUME CaptureInv, ResumePolls PROVE CaptureInv'
<1>1. Types /\ Types'
    BY CaptureAssumption, TypesAreTypeOK
       DEF CaptureInv, Types, Past, PollOK, Counts, COUNT_NONE, NoCapture, NoCopy, NoClip,
           ResumePolls, clipVars, loopVars, setVars, rowVars
<1>2. IsFiniteSet(live')
    BY DEF CaptureInv, ResumePolls, clipVars, loopVars, setVars, rowVars
<1>3. (/\ Past /\ PollOK /\ SlotOK /\ PrivateIsAcknowledged /\ OwnIsKnown /\ ShownIsNoted
       /\ PrivateStaysPrivate /\ OwnWritesAreNotCaptured /\ AcceptedIsAnsweredFor)'
    BY <1>1, CaptureAssumption
       DEF CaptureInv, Types, Past, PollOK, SlotOK, PrivateIsAcknowledged, OwnIsKnown,
           ShownIsNoted, PrivateStaysPrivate, OwnWritesAreNotCaptured, AcceptedIsAnsweredFor,
           Counts, COUNT_NONE, NoCapture, ResumePolls,
           clipVars, loopVars, setVars, rowVars
<1> QED
    BY <1>1, <1>2, <1>3, TypesAreTypeOK DEF CaptureInv

\* ResumeAcknowledges keeps the invariant.
LEMMA ResumeAcknowledgesInv == ASSUME CaptureInv, ResumeAcknowledges PROVE CaptureInv'
<1>1. Types /\ Types'
    BY CaptureAssumption, TypesAreTypeOK
       DEF CaptureInv, Types, Past, PollOK, Counts, COUNT_NONE, NoCapture, NoCopy, NoClip,
           ResumeAcknowledges, Observe, IsSelfWrite, clipVars, loopVars, setVars, rowVars
<1>2. IsFiniteSet(live')
    BY DEF CaptureInv, ResumeAcknowledges, clipVars, loopVars, setVars, rowVars
<1>3. (/\ Past /\ PollOK /\ SlotOK /\ PrivateIsAcknowledged /\ OwnIsKnown /\ ShownIsNoted
       /\ PrivateStaysPrivate /\ OwnWritesAreNotCaptured /\ AcceptedIsAnsweredFor)'
    BY <1>1, CaptureAssumption
       DEF CaptureInv, Types, Past, PollOK, SlotOK, PrivateIsAcknowledged, OwnIsKnown,
           ShownIsNoted, PrivateStaysPrivate, OwnWritesAreNotCaptured, AcceptedIsAnsweredFor,
           Counts, COUNT_NONE, NoCapture, ResumeAcknowledges, Observe, IsSelfWrite,
           clipVars, loopVars, setVars, rowVars
<1> QED
    BY <1>1, <1>2, <1>3, TypesAreTypeOK DEF CaptureInv

\* ResumeCannotOpen keeps the invariant.
LEMMA ResumeCannotOpenInv == ASSUME CaptureInv, ResumeCannotOpen PROVE CaptureInv'
<1>1. Types /\ Types'
    BY CaptureAssumption, TypesAreTypeOK
       DEF CaptureInv, Types, Past, PollOK, Counts, COUNT_NONE, NoCapture, NoCopy, NoClip,
           ResumeCannotOpen, clipVars, loopVars, setVars, rowVars
<1>2. IsFiniteSet(live')
    BY DEF CaptureInv, ResumeCannotOpen, clipVars, loopVars, setVars, rowVars
<1>3. (/\ Past /\ PollOK /\ SlotOK /\ PrivateIsAcknowledged /\ OwnIsKnown /\ ShownIsNoted
       /\ PrivateStaysPrivate /\ OwnWritesAreNotCaptured /\ AcceptedIsAnsweredFor)'
    BY <1>1, CaptureAssumption
       DEF CaptureInv, Types, Past, PollOK, SlotOK, PrivateIsAcknowledged, OwnIsKnown,
           ShownIsNoted, PrivateStaysPrivate, OwnWritesAreNotCaptured, AcceptedIsAnsweredFor,
           Counts, COUNT_NONE, NoCapture, ResumeCannotOpen,
           clipVars, loopVars, setVars, rowVars
<1> QED
    BY <1>1, <1>2, <1>3, TypesAreTypeOK DEF CaptureInv

\* Clock keeps the invariant.
LEMMA ClockInv == ASSUME CaptureInv, Clock PROVE CaptureInv'
<1>1. Types /\ Types'
    BY CaptureAssumption, TypesAreTypeOK
       DEF CaptureInv, Types, Past, PollOK, Counts, COUNT_NONE, NoCapture, NoCopy, NoClip,
           Clock, clipVars, loopVars, setVars, rowVars
<1>2. IsFiniteSet(live')
    BY DEF CaptureInv, Clock, clipVars, loopVars, setVars, rowVars
<1>3. (/\ Past /\ PollOK /\ SlotOK /\ PrivateIsAcknowledged /\ OwnIsKnown /\ ShownIsNoted
       /\ PrivateStaysPrivate /\ OwnWritesAreNotCaptured /\ AcceptedIsAnsweredFor)'
    BY <1>1, CaptureAssumption
       DEF CaptureInv, Types, Past, PollOK, SlotOK, PrivateIsAcknowledged, OwnIsKnown,
           ShownIsNoted, PrivateStaysPrivate, OwnWritesAreNotCaptured, AcceptedIsAnsweredFor,
           Counts, COUNT_NONE, NoCapture, Clock,
           clipVars, loopVars, setVars, rowVars
<1> QED
    BY <1>1, <1>2, <1>3, TypesAreTypeOK DEF CaptureInv

\* Restart keeps the invariant.
LEMMA RestartInv == ASSUME CaptureInv, Restart PROVE CaptureInv'
<1>1. Types /\ Types'
    BY CaptureAssumption, TypesAreTypeOK
       DEF CaptureInv, Types, Past, PollOK, Counts, COUNT_NONE, NoCapture, NoCopy, NoClip,
           Restart, clipVars, loopVars, setVars, rowVars
<1>2. IsFiniteSet(live')
    BY DEF CaptureInv, Restart, clipVars, loopVars, setVars, rowVars
<1>3. (/\ Past /\ PollOK /\ SlotOK /\ PrivateIsAcknowledged /\ OwnIsKnown /\ ShownIsNoted
       /\ PrivateStaysPrivate /\ OwnWritesAreNotCaptured /\ AcceptedIsAnsweredFor)'
    BY <1>1, CaptureAssumption
       DEF CaptureInv, Types, Past, PollOK, SlotOK, PrivateIsAcknowledged, OwnIsKnown,
           ShownIsNoted, PrivateStaysPrivate, OwnWritesAreNotCaptured, AcceptedIsAnsweredFor,
           Counts, COUNT_NONE, NoCapture, Restart,
           clipVars, loopVars, setVars, rowVars
<1> QED
    BY <1>1, <1>2, <1>3, TypesAreTypeOK DEF CaptureInv

\* The end of a tick leaves a slot, and the loop waiting or draining.
LEMMA TickEndsTypes ==
    ASSUME NEW p, NEW at, TickEnds(p, at)
    PROVE  slot' = p /\ loop' \in {"waiting", "draining"} /\ retry' \in BOOLEAN
    BY DEF TickEnds, RetryAfter

\* A store of an accepted capture, whatever its outcome, keeps the types.
LEMMA PersistTypes ==
    ASSUME Types, NEW o, NEW at,
           NEW p \in [count : Counts, content : Contents, at : 1..MaxStamp, epoch : Nat],
           Persist(p, o, at)
    PROVE  /\ board' \in [count : Counts, content : Contents \cup {0}, stamp : 0..MaxStamp]
           /\ rows' \in [Contents -> 0..MaxStamp] /\ live' \subseteq {c \in Contents : rows'[c] > 0}
           /\ applied' \in 0..MaxStamp
           /\ slot' = NoCapture \/ slot' = p
           /\ loop' \in {"waiting", "draining"}
           /\ retry' \in BOOLEAN /\ abandoned' \in BOOLEAN
           /\ stored' \subseteq Counts /\ declined' \subseteq Counts /\ reported' \subseteq Counts
<1>1. CASE ~StillAllowed(p)
    BY <1>1, TickEndsTypes DEF Persist, Types, rowVars
<1>2. CASE StillAllowed(p) /\ o = "stored"
    <2> DEFINE stamp == Larger(rows[p.content], p.at)
    <2>0. rows[p.content] \in 0..MaxStamp /\ p.at \in 1..MaxStamp
        BY DEF Types
    <2>1. stamp \in 1..MaxStamp
        BY <2>0, CaptureAssumption DEF Larger
    <2>2. /\ rows' = [rows EXCEPT ![p.content] = stamp]
          /\ live' = live \cup {p.content}
          /\ applied' = Larger(applied, stamp)
          /\ board' = IF board.count = p.count THEN [board EXCEPT !.stamp = stamp] ELSE board
          /\ stored' = stored \cup {p.count}
          /\ TickEnds(NoCapture, at)
          /\ UNCHANGED <<declined, reported, abandoned>>
        BY <1>2 DEF Persist, NoteLocal, Retryable
    <2> HIDE DEF stamp
    <2>3. applied' \in 0..MaxStamp
        BY <2>1, <2>2, CaptureAssumption DEF Larger, Types
    <2> QED
        BY <2>1, <2>2, <2>3, TickEndsTypes, CaptureAssumption DEF Types
<1>3. CASE StillAllowed(p) /\ o # "stored"
    <2>1. UNCHANGED <<board, stored, rowVars>> /\ abandoned' \in BOOLEAN
        BY <1>3 DEF Persist, Types
    <2>2. TickEnds(NoCapture, at) \/ TickEnds(p, at)
        BY <1>3 DEF Persist
    <2>3. reported' \subseteq Counts /\ declined' \subseteq Counts
        BY <1>3 DEF Persist, Types
    <2> QED
        BY <2>1, <2>2, <2>3, TickEndsTypes DEF Types, rowVars
<1> QED
    BY <1>1, <1>2, <1>3

\* TickPersists keeps the invariant.
LEMMA TickPersistsInv == ASSUME CaptureInv, NEW o \in {"stored", "busy", "cancelled", "failed", "panic"},
           TickPersists(o) PROVE CaptureInv'
<1>0. Types
    BY TypesAreTypeOK DEF CaptureInv
<1>1. Types /\ Types'
    <2>1. slot \in [count : Counts, content : Contents, at : 1..MaxStamp, epoch : Nat]
        BY <1>0 DEF Types, TickPersists
    <2>2. Persist(slot, o, cursor)
          /\ UNCHANGED <<backend, cursor, sentinel, permit, mine, uncovered, hidden, missed, seen, accepted,
                         private, epoch, resume, withdrawn, reread, copier, receiver, now>>
        BY DEF TickPersists
    <2> QED
        BY <1>0, <2>1, <2>2, PersistTypes DEF Types
<1>2. IsFiniteSet(live')
    BY FS_AddElement DEF CaptureInv, TickPersists, Persist, clipVars, loopVars, setVars, rowVars
<1>3. (/\ Past /\ PollOK /\ SlotOK /\ PrivateIsAcknowledged /\ OwnIsKnown /\ ShownIsNoted
       /\ PrivateStaysPrivate /\ OwnWritesAreNotCaptured /\ AcceptedIsAnsweredFor)'
    BY <1>1, CaptureAssumption
       DEF CaptureInv, Types, Past, PollOK, SlotOK, PrivateIsAcknowledged, OwnIsKnown,
           ShownIsNoted, PrivateStaysPrivate, OwnWritesAreNotCaptured, AcceptedIsAnsweredFor,
           Counts, COUNT_NONE, NoCapture, TickPersists, AuthorityFree, Persist, StillAllowed, Retryable, NoteLocal, Larger, TickEnds, RetryAfter,
           clipVars, loopVars, setVars, rowVars
<1> QED
    BY <1>1, <1>2, <1>3, TypesAreTypeOK DEF CaptureInv

\* TickReads keeps the invariant.
LEMMA TickReadsInv == ASSUME CaptureInv, NEW o \in {"stored", "busy", "cancelled", "failed", "panic"},
           TickReads(o) PROVE CaptureInv'
<1> DEFINE p == [count |-> board.count, content |-> board.content, at |-> now, epoch |-> epoch]
           nothing == IsSelfWrite \/ private \/ board.content = 0
                         \/ (backend = "macos" /\ board.count # seen)
<1>0. Types
    BY TypesAreTypeOK DEF CaptureInv
<1>1. Types /\ Types'
    <2>1. /\ cursor' = seen /\ sentinel' \in {sentinel, COUNT_NONE} /\ seen' = COUNT_NONE
          /\ UNCHANGED <<backend, permit, mine, uncovered, hidden, missed, private, epoch, resume,
                         withdrawn, reread, copier, receiver, now>>
        BY DEF TickReads, Observe
    <2>2. CASE nothing
        <3>1. TickEnds(NoCapture, seen)
              /\ UNCHANGED <<board, accepted, stored, declined, reported, rowVars, abandoned>>
            BY <2>2 DEF TickReads
        <3> QED
            BY <1>0, <2>1, <3>1, TickEndsTypes DEF Types, rowVars
    <2>3. CASE ~nothing
        <3>1. Persist(p, o, seen) /\ accepted' = accepted \cup {board.count}
            BY <2>3 DEF TickReads
        <3>2. p \in [count : Counts, content : Contents, at : 1..MaxStamp, epoch : Nat]
            BY <1>0, <2>3 DEF Types
        <3> HIDE DEF p
        <3>3. accepted' \subseteq Counts
            BY <1>0, <3>1 DEF Types
        <3>4. slot' = NoCapture \/ slot' = p
            BY <1>0, <3>1, <3>2, PersistTypes
        <3> QED
            BY <1>0, <2>1, <3>1, <3>2, <3>3, <3>4, PersistTypes DEF Types
    <2> QED
        BY <2>2, <2>3
<1>2. IsFiniteSet(live')
    BY FS_AddElement DEF CaptureInv, TickReads, Persist, clipVars, loopVars, setVars, rowVars
<1>3. Past' /\ PollOK'
    BY <1>1, CaptureAssumption
       DEF CaptureInv, Types, Past, PollOK,
           Counts, COUNT_NONE, NoCapture, TickReads, Observe, IsSelfWrite, Persist, StillAllowed, Retryable, NoteLocal, Larger, TickEnds, RetryAfter,
           clipVars, loopVars, setVars, rowVars
<1>4. SlotOK' /\ AcceptedIsAnsweredFor'
    <2>1. loop = "reading" /\ slot = NoCapture
        BY DEF TickReads, CaptureInv, PollOK
    <2>2. accepted \subseteq {COUNT_NONE} \cup stored \cup withdrawn \cup declined \cup reported
        BY <2>1 DEF CaptureInv, AcceptedIsAnsweredFor, NoCapture
    <2>3. accepted \subseteq stored \cup withdrawn \cup declined \cup reported
        BY <1>1, <2>2 DEF Types, Counts, COUNT_NONE
    <2>4. withdrawn' = withdrawn /\ hidden' = hidden /\ mine' = mine /\ reread' = reread
          /\ uncovered' = uncovered
          /\ epoch' = epoch /\ private' = private
        BY DEF TickReads
    <2>5. CASE nothing
        <3>1. TickEnds(NoCapture, seen) /\ UNCHANGED <<accepted, stored, declined, reported>>
            BY <2>5 DEF TickReads
        <3> QED
            BY <2>3, <2>4, <3>1, TickEndsTypes DEF SlotOK, AcceptedIsAnsweredFor
    <2>6. CASE ~nothing
        <3>1. Persist(p, o, seen) /\ accepted' = accepted \cup {board.count}
            BY <2>6 DEF TickReads
        <3>2. StillAllowed(p) /\ p.count = board.count /\ p.epoch = epoch /\ ~private
            BY <2>6 DEF StillAllowed
        <3>3. /\ board.count \in hidden \cup withdrawn => board.count \in reread
              /\ board.count \in mine => board.count \in reread \cup uncovered
            BY <1>1, <2>1, <2>6 DEF CaptureInv, Types, Past, PollOK, PrivateIsAcknowledged,
               OwnIsKnown, IsSelfWrite, Counts, COUNT_NONE
        <3> HIDE DEF p
        <3>4. loop' # "stopped"
            BY <3>1, <3>2, TickEndsTypes DEF Persist
        <3>5. CASE TickEnds(p, seen) /\ UNCHANGED <<stored, declined, reported>>
            <4>1. slot' = p
                BY <3>5, TickEndsTypes
            <4> QED
                BY <1>1, <2>3, <2>4, <3>1, <3>2, <3>3, <3>4, <3>5, <4>1
                   DEF SlotOK, AcceptedIsAnsweredFor, Types
        <3>6. CASE TickEnds(NoCapture, seen) /\ board.count \in stored' \cup declined' \cup reported'
                    /\ stored \subseteq stored' /\ declined \subseteq declined'
                    /\ reported \subseteq reported'
            BY <2>3, <2>4, <3>1, <3>4, <3>6, TickEndsTypes DEF SlotOK, AcceptedIsAnsweredFor
        <3> QED
            BY <3>1, <3>2, <3>5, <3>6 DEF Persist
    <2> QED
        BY <2>5, <2>6
<1>5. PrivateIsAcknowledged' /\ PrivateStaysPrivate'
    BY <1>1, CaptureAssumption
       DEF CaptureInv, Types, Past, PollOK, SlotOK, PrivateIsAcknowledged, PrivateStaysPrivate,
           Counts, COUNT_NONE, NoCapture, TickReads, Observe, IsSelfWrite, Persist, StillAllowed, Retryable, NoteLocal, Larger, TickEnds, RetryAfter,
           clipVars, loopVars, setVars, rowVars
<1>6. OwnIsKnown' /\ OwnWritesAreNotCaptured'
    BY <1>1, CaptureAssumption
       DEF CaptureInv, Types, Past, PollOK, SlotOK, OwnIsKnown, OwnWritesAreNotCaptured,
           Counts, COUNT_NONE, NoCapture, TickReads, Observe, IsSelfWrite, Persist, StillAllowed, Retryable, NoteLocal, Larger, TickEnds, RetryAfter,
           clipVars, loopVars, setVars, rowVars
<1>7. ShownIsNoted'
    BY <1>1, CaptureAssumption
       DEF CaptureInv, Types, ShownIsNoted,
           Counts, COUNT_NONE, NoCapture, TickReads, Observe, IsSelfWrite, Persist, StillAllowed, Retryable, NoteLocal, Larger, TickEnds, RetryAfter,
           clipVars, loopVars, setVars, rowVars
<1> QED
    BY <1>1, <1>2, <1>3, <1>4, <1>5, <1>6, <1>7, TypesAreTypeOK DEF CaptureInv

\* The daemon's own write, disturbed, failed or not, keeps the types.
LEMMA OwnWriteTypes ==
    ASSUME Types, NEW c \in Contents, NEW stamp \in 0..MaxStamp,
           OwnWritten(c, stamp) \/ OwnWriteFails(c)
    PROVE  /\ board' \in [count : Counts, content : Contents \cup {0}, stamp : 0..MaxStamp]
           /\ cursor' \in Counts \cup {COUNT_NONE} /\ sentinel' \in Counts \cup {COUNT_NONE}
           /\ permit' \in BOOLEAN
           /\ mine' \subseteq Counts /\ hidden' \subseteq Counts /\ missed' \subseteq Counts
           /\ uncovered' \subseteq Counts
<1>1. CASE OwnWrite(c, stamp)
    <2>1. board.count + 1 \in Counts
        BY <1>1, CaptureAssumption DEF OwnWrite, Types, Counts
    <2>2. permit' \in BOOLEAN
        BY <1>1 DEF OwnWrite
    <2> QED
        BY <1>1, <2>1, <2>2 DEF OwnWrite, Types
<1>2. CASE \E d \in Contents : OwnWriteContended(d)
    <2>1. PICK d \in Contents : OwnWriteContended(d)
        BY <1>2
    <2>2. board.count + 1 \in Counts /\ board.count + 2 \in Counts /\ 0 \in 0..MaxStamp
        BY <2>1, CaptureAssumption DEF OwnWriteContended, Types, Counts
    <2>3. board' \in [count : Counts, content : Contents \cup {0}, stamp : 0..MaxStamp]
        BY <2>1, <2>2 DEF OwnWriteContended
    <2>4. permit' \in BOOLEAN
        BY <2>1 DEF OwnWriteContended
    <2> QED
        BY <2>1, <2>2, <2>3, <2>4 DEF OwnWriteContended, Types
<1>3. CASE OwnWriteUncovered(c, stamp)
    <2>1. board.count + 1 \in Counts
        BY <1>3, CaptureAssumption DEF OwnWriteUncovered, Types, Counts
    <2> QED
        BY <1>3, <2>1 DEF OwnWriteUncovered, Types
<1>4. CASE OwnWriteFails(c)
    <2>1. board.count + 1 \in Counts /\ 0 \in 0..MaxStamp
        BY <1>4, CaptureAssumption DEF OwnWriteFails, Types, Counts
    <2>2. PICK left \in {0, c} : board' = [count |-> board.count + 1, content |-> left, stamp |-> 0]
        BY <1>4 DEF OwnWriteFails
    <2>3. permit' \in BOOLEAN
        BY <1>4 DEF OwnWriteFails
    <2>4. board' \in [count : Counts, content : Contents \cup {0}, stamp : 0..MaxStamp]
        BY <2>1, <2>2
    <2> QED
        BY <1>4, <2>1, <2>3, <2>4 DEF OwnWriteFails, Types
<1> QED
    BY <1>1, <1>2, <1>3, <1>4 DEF OwnWritten

\* What an own write, failed or not, does beyond the types: the clipboard moves
\* on, and what is on it is not ours, or is armed, or was left uncovered.
LEMMA OwnWriteFacts ==
    ASSUME Types, Past, NEW c, NEW stamp \in 0..MaxStamp,
           OwnWritten(c, stamp) \/ OwnWriteFails(c)
    PROVE  /\ board'.count \in Nat /\ board.count < board'.count
           /\ board'.stamp = stamp \/ board'.stamp = 0
           /\ cursor' = cursor
           /\ sentinel' <= board'.count
           /\ mine' = mine \cup {board.count + 1} /\ board.count + 1 <= board'.count
           /\ board'.count \in mine \/ board'.count = board.count + 1
                => board'.count \in uncovered' \cup {sentinel'}
           /\ uncovered \subseteq uncovered'
           /\ hidden' = hidden \/ (private /\ hidden' = hidden \cup {board'.count})
<1>0. /\ board.count \in Nat
      /\ sentinel \in Int /\ sentinel <= board.count
      /\ board.count + 1 \notin mine /\ board.count + 2 \notin mine
    BY CaptureAssumption DEF Types, Past, Counts, COUNT_NONE
<1>1. CASE OwnWrite(c, stamp)
    BY <1>0, <1>1 DEF OwnWrite
<1>2. CASE \E d \in Contents : OwnWriteContended(d)
    BY <1>0, <1>2 DEF OwnWriteContended, COUNT_NONE
<1>3. CASE OwnWriteUncovered(c, stamp)
    BY <1>0, <1>3 DEF OwnWriteUncovered, COUNT_NONE
<1>4. CASE OwnWriteFails(c)
    BY <1>0, <1>4 DEF OwnWriteFails, COUNT_NONE
<1> QED
    BY <1>1, <1>2, <1>3, <1>4 DEF OwnWritten

\* An own write, made while nobody polls and noted with its stamp, keeps the
\* rest of the invariant.
LEMMA OwnWriteInv ==
    ASSUME CaptureInv, Types', NEW c, NEW stamp \in 0..MaxStamp,
           OwnWritten(c, stamp) \/ OwnWriteFails(c),
           ClipboardFree, UNCHANGED <<loopVars, setVars>>,
           applied <= applied', stamp <= applied'
    PROVE  (/\ Past /\ PollOK /\ SlotOK /\ PrivateIsAcknowledged /\ OwnIsKnown /\ ShownIsNoted
            /\ PrivateStaysPrivate /\ OwnWritesAreNotCaptured /\ AcceptedIsAnsweredFor)'
<1>0. Types /\ Past
    BY TypesAreTypeOK DEF CaptureInv
<1>1. /\ board'.count \in Nat /\ board.count < board'.count
      /\ board'.stamp = stamp \/ board'.stamp = 0
      /\ cursor' = cursor
      /\ sentinel' <= board'.count
      /\ mine' = mine \cup {board.count + 1} /\ board.count + 1 <= board'.count
      /\ board'.count \in mine \/ board'.count = board.count + 1
           => board'.count \in uncovered' \cup {sentinel'}
      /\ uncovered \subseteq uncovered'
      /\ hidden' = hidden \/ (private /\ hidden' = hidden \cup {board'.count})
    BY <1>0, OwnWriteFacts
<1>2. /\ board.count \in Nat /\ cursor \in Int /\ seen \in Int /\ slot.count \in Int
      /\ \A g \in mine \cup hidden \cup stored \cup withdrawn : g \in Int /\ g <= board.count
      /\ cursor <= board.count /\ seen <= board.count /\ slot.count <= board.count
    BY <1>0, CaptureAssumption DEF Types, Past, Counts, COUNT_NONE, NoCapture
<1>3. Past'
    BY <1>1, <1>2 DEF Past, loopVars, setVars
<1>4. PollOK'
    BY DEF CaptureInv, PollOK, ClipboardFree, loopVars, setVars
<1>5. SlotOK'
    <2>1. slot # NoCapture => slot.count < board'.count /\ slot.count # board.count + 1
        BY <1>1, <1>2
    <2> QED
        BY <1>1, <2>1 DEF CaptureInv, SlotOK, loopVars, setVars
<1>6. PrivateIsAcknowledged'
    <2>1. board'.count \notin hidden \cup withdrawn
        BY <1>1, <1>2
    <2> QED
        BY <1>1, <2>1 DEF PrivateIsAcknowledged, setVars
<1>7. OwnIsKnown'
    BY <1>1 DEF OwnIsKnown
<1>8. ShownIsNoted'
    BY <1>0, <1>1, CaptureAssumption DEF ShownIsNoted, Types
<1>9. PrivateStaysPrivate' /\ OwnWritesAreNotCaptured' /\ AcceptedIsAnsweredFor'
    <2>1. board.count + 1 \notin stored /\ board'.count \notin stored
        BY <1>1, <1>2
    <2> QED
        BY <1>1, <2>1 DEF CaptureInv, PrivateStaysPrivate, OwnWritesAreNotCaptured,
           AcceptedIsAnsweredFor, loopVars, setVars
<1> QED
    BY <1>3, <1>4, <1>5, <1>6, <1>7, <1>8, <1>9

\* CopyWrites keeps the invariant.
LEMMA CopyWritesInv == ASSUME CaptureInv, NEW c \in Contents, CopyWrites(c) PROVE CaptureInv'
<1>0. Types /\ 0 \in 0..MaxStamp
    BY CaptureAssumption, TypesAreTypeOK DEF CaptureInv
<1>1. /\ OwnWritten(c, 0) /\ ClipboardFree
      /\ copier' = [step |-> "promote", content |-> c, count |-> board.count + 1, stamp |-> 0]
      /\ UNCHANGED <<backend, loopVars, setVars, rowVars, receiver, now>>
    BY DEF CopyWrites
<1>2. Types'
    <2>1. board.count + 1 \in Counts
        BY <1>0, <1>1, CaptureAssumption
           DEF OwnWritten, OwnWrite, OwnWriteUncovered, OwnWriteContended, Types, Counts
    <2>2. copier' \in [step : {"promote", "note"}, content : Contents,
                       count : Counts, stamp : 0..MaxStamp]
        BY <1>0, <1>1, <2>1
    <2> QED
        BY <1>0, <1>1, <2>2, OwnWriteTypes DEF Types, loopVars, setVars, rowVars
<1>3. applied <= applied' /\ 0 <= applied'
    BY <1>0, <1>1, CaptureAssumption DEF Types, rowVars
<1>4. (/\ Past /\ PollOK /\ SlotOK /\ PrivateIsAcknowledged /\ OwnIsKnown /\ ShownIsNoted
       /\ PrivateStaysPrivate /\ OwnWritesAreNotCaptured /\ AcceptedIsAnsweredFor)'
    BY <1>0, <1>1, <1>2, <1>3, OwnWriteInv
<1> QED
    BY <1>1, <1>2, <1>4, TypesAreTypeOK DEF CaptureInv, rowVars

\* CopyFails keeps the invariant.
LEMMA CopyFailsInv == ASSUME CaptureInv, NEW c \in Contents, CopyFails(c) PROVE CaptureInv'
<1>0. Types /\ 0 \in 0..MaxStamp
    BY CaptureAssumption, TypesAreTypeOK DEF CaptureInv
<1>1. /\ OwnWriteFails(c) /\ ClipboardFree
      /\ UNCHANGED <<backend, loopVars, setVars, rowVars, copier, receiver, now>>
    BY DEF CopyFails
<1>2. Types'
    BY <1>0, <1>1, OwnWriteTypes DEF Types, loopVars, setVars, rowVars
<1>3. applied <= applied' /\ 0 <= applied'
    BY <1>0, <1>1, CaptureAssumption DEF Types, rowVars
<1>4. (/\ Past /\ PollOK /\ SlotOK /\ PrivateIsAcknowledged /\ OwnIsKnown /\ ShownIsNoted
       /\ PrivateStaysPrivate /\ OwnWritesAreNotCaptured /\ AcceptedIsAnsweredFor)'
    BY <1>0, <1>1, <1>2, <1>3, OwnWriteInv
<1> QED
    BY <1>1, <1>2, <1>4, TypesAreTypeOK DEF CaptureInv, rowVars

\* CopyPromotes keeps the invariant.
LEMMA CopyPromotesInv == ASSUME CaptureInv, CopyPromotes PROVE CaptureInv'
<1>0. NewestLive.stamp \in 0..MaxStamp
    BY NewestLiveFacts, TypesAreTypeOK DEF CaptureInv
<1>1. Types /\ Types'
    <2> DEFINE c == copier.content
               stamp == Larger(now, Larger(rows[c], NewestLive.stamp) + 1)
    <2>1. Types
        BY TypesAreTypeOK DEF CaptureInv
    <2>2. copier \in [step : {"promote", "note"}, content : Contents,
                      count : Counts, stamp : 0..MaxStamp]
        BY <2>1 DEF Types, CopyPromotes, NoCopy
    <2>3. stamp \in Nat /\ stamp > 0
        <3>1. rows[c] \in 0..MaxStamp /\ now \in 1..MaxStamp
            BY <2>1, <2>2 DEF Types
        <3> QED
            BY <1>0, <3>1, CaptureAssumption DEF Larger
    <2>4. UNCHANGED <<backend, clipVars, loopVars, setVars, live, applied, receiver, now>>
        BY DEF CopyPromotes
    <2>5. CASE c \in live
        <3>1. /\ stamp <= MaxStamp
              /\ rows' = [rows EXCEPT ![c] = stamp]
              /\ copier' = [copier EXCEPT !.step = "note", !.stamp = stamp]
            BY <2>5 DEF CopyPromotes
        <3> HIDE DEF stamp
        <3>2. stamp \in 1..MaxStamp /\ stamp \in 0..MaxStamp
            BY <2>3, <3>1, CaptureAssumption
        <3>3. copier' \in [step : {"promote", "note"}, content : Contents,
                           count : Counts, stamp : 0..MaxStamp]
            BY <2>2, <3>1, <3>2
        <3>4. rows' \in [Contents -> 0..MaxStamp] /\ live' \subseteq {x \in Contents : rows'[x] > 0}
            BY <2>1, <2>2, <2>4, <3>1, <3>2, CaptureAssumption DEF Types
        <3> QED
            BY <2>1, <2>4, <3>3, <3>4 DEF Types, clipVars, loopVars, setVars
    <2>6. CASE c \notin live
        <3>1. copier' = NoCopy /\ UNCHANGED rows
            BY <2>6 DEF CopyPromotes
        <3> QED
            BY <2>1, <2>4, <3>1 DEF Types, clipVars, loopVars, setVars
    <2> QED
        BY <2>5, <2>6
<1>2. IsFiniteSet(live')
    BY DEF CaptureInv, CopyPromotes, Larger, clipVars, loopVars, setVars, rowVars
<1>3. (/\ Past /\ PollOK /\ SlotOK /\ PrivateIsAcknowledged /\ OwnIsKnown /\ ShownIsNoted
       /\ PrivateStaysPrivate /\ OwnWritesAreNotCaptured /\ AcceptedIsAnsweredFor)'
    BY <1>0, <1>1, CaptureAssumption
       DEF CaptureInv, Types, Past, PollOK, SlotOK, PrivateIsAcknowledged, OwnIsKnown,
           ShownIsNoted, PrivateStaysPrivate, OwnWritesAreNotCaptured, AcceptedIsAnsweredFor,
           Counts, COUNT_NONE, NoCapture, CopyPromotes, Larger,
           clipVars, loopVars, setVars, rowVars
<1> QED
    BY <1>1, <1>2, <1>3, TypesAreTypeOK DEF CaptureInv

\* CopyNotes keeps the invariant.
LEMMA CopyNotesInv == ASSUME CaptureInv, CopyNotes PROVE CaptureInv'
<1>1. Types /\ Types'
    BY CaptureAssumption, TypesAreTypeOK
       DEF CaptureInv, Types, Past, PollOK, Counts, COUNT_NONE, NoCapture, NoCopy, NoClip,
           CopyNotes, NoteLocal, Larger, clipVars, loopVars, setVars, rowVars
<1>2. IsFiniteSet(live')
    BY DEF CaptureInv, CopyNotes, NoteLocal, Larger, clipVars, loopVars, setVars, rowVars
<1>3. (/\ Past /\ PollOK /\ SlotOK /\ PrivateIsAcknowledged /\ OwnIsKnown /\ ShownIsNoted
       /\ PrivateStaysPrivate /\ OwnWritesAreNotCaptured /\ AcceptedIsAnsweredFor)'
    BY <1>1, CaptureAssumption
       DEF CaptureInv, Types, Past, PollOK, SlotOK, PrivateIsAcknowledged, OwnIsKnown,
           ShownIsNoted, PrivateStaysPrivate, OwnWritesAreNotCaptured, AcceptedIsAnsweredFor,
           Counts, COUNT_NONE, NoCapture, CopyNotes, NoteLocal, Larger,
           clipVars, loopVars, setVars, rowVars
<1> QED
    BY <1>1, <1>2, <1>3, TypesAreTypeOK DEF CaptureInv

\* ReceiveStores keeps the invariant.
LEMMA ReceiveStoresInv == ASSUME CaptureInv, NEW c \in Contents, NEW t \in 1..MaxStamp, ReceiveStores(c, t) PROVE CaptureInv'
<1>1. Types /\ Types'
    BY CaptureAssumption, TypesAreTypeOK
       DEF CaptureInv, Types, Past, PollOK, Counts, COUNT_NONE, NoCapture, NoCopy, NoClip,
           ReceiveStores, clipVars, loopVars, setVars, rowVars
<1>2. IsFiniteSet(live')
    BY FS_AddElement DEF CaptureInv, ReceiveStores
<1>3. (/\ Past /\ PollOK /\ SlotOK /\ PrivateIsAcknowledged /\ OwnIsKnown /\ ShownIsNoted
       /\ PrivateStaysPrivate /\ OwnWritesAreNotCaptured /\ AcceptedIsAnsweredFor)'
    BY <1>1, CaptureAssumption
       DEF CaptureInv, Types, Past, PollOK, SlotOK, PrivateIsAcknowledged, OwnIsKnown,
           ShownIsNoted, PrivateStaysPrivate, OwnWritesAreNotCaptured, AcceptedIsAnsweredFor,
           Counts, COUNT_NONE, NoCapture, ReceiveStores,
           clipVars, loopVars, setVars, rowVars
<1> QED
    BY <1>1, <1>2, <1>3, TypesAreTypeOK DEF CaptureInv

\* ReceiveShows keeps the invariant.
LEMMA ReceiveShowsInv == ASSUME CaptureInv, ReceiveShows PROVE CaptureInv'
<1>0. Types
    BY TypesAreTypeOK DEF CaptureInv
<1>1. /\ OwnWritten(receiver.content, receiver.stamp) /\ ClipboardFree
      /\ applied' = receiver.stamp /\ receiver' = NoClip /\ receiver.stamp > applied
      /\ UNCHANGED <<backend, loopVars, setVars, rows, live, copier, now>>
    BY DEF ReceiveShows, MayShow, AuthorityFree, ClipboardFree
<1>2. receiver.content \in Contents /\ receiver.stamp \in 0..MaxStamp
    BY <1>0, CaptureAssumption DEF Types, ReceiveShows
<1>3. Types'
    BY <1>0, <1>1, <1>2, OwnWriteTypes DEF Types, loopVars, setVars
<1>4. applied <= applied' /\ receiver.stamp <= applied'
    BY <1>0, <1>1, <1>2, CaptureAssumption DEF Types
<1>5. (/\ Past /\ PollOK /\ SlotOK /\ PrivateIsAcknowledged /\ OwnIsKnown /\ ShownIsNoted
       /\ PrivateStaysPrivate /\ OwnWritesAreNotCaptured /\ AcceptedIsAnsweredFor)'
    BY <1>1, <1>2, <1>3, <1>4, OwnWriteInv
<1> QED
    BY <1>1, <1>3, <1>5, TypesAreTypeOK DEF CaptureInv

\* ReceiveDeclines keeps the invariant.
LEMMA ReceiveDeclinesInv == ASSUME CaptureInv, ReceiveDeclines PROVE CaptureInv'
<1>1. Types /\ Types'
    BY CaptureAssumption, TypesAreTypeOK
       DEF CaptureInv, Types, Past, PollOK, Counts, COUNT_NONE, NoCapture, NoCopy, NoClip,
           ReceiveDeclines, clipVars, loopVars, setVars, rowVars
<1>2. IsFiniteSet(live')
    BY DEF CaptureInv, ReceiveDeclines, clipVars, loopVars, setVars, rowVars
<1>3. (/\ Past /\ PollOK /\ SlotOK /\ PrivateIsAcknowledged /\ OwnIsKnown /\ ShownIsNoted
       /\ PrivateStaysPrivate /\ OwnWritesAreNotCaptured /\ AcceptedIsAnsweredFor)'
    BY <1>1, CaptureAssumption
       DEF CaptureInv, Types, Past, PollOK, SlotOK, PrivateIsAcknowledged, OwnIsKnown,
           ShownIsNoted, PrivateStaysPrivate, OwnWritesAreNotCaptured, AcceptedIsAnsweredFor,
           Counts, COUNT_NONE, NoCapture, ReceiveDeclines,
           clipVars, loopVars, setVars, rowVars
<1> QED
    BY <1>1, <1>2, <1>3, TypesAreTypeOK DEF CaptureInv

\* ReceiveFails keeps the invariant.
LEMMA ReceiveFailsInv == ASSUME CaptureInv, ReceiveFails PROVE CaptureInv'
<1>0. Types /\ 0 \in 0..MaxStamp
    BY CaptureAssumption, TypesAreTypeOK DEF CaptureInv
<1>1. /\ UNCHANGED clipVars \/ OwnWriteFails(receiver.content)
      /\ ClipboardFree /\ receiver' = NoClip
      /\ UNCHANGED <<backend, loopVars, setVars, rowVars, copier, now>>
    BY DEF ReceiveFails, AuthorityFree, ClipboardFree
<1>2. CASE UNCHANGED clipVars
    <2>1. Types'
        BY <1>0, <1>1, <1>2 DEF Types, clipVars, loopVars, setVars, rowVars
    <2> QED
        BY <1>1, <1>2, <2>1, TypesAreTypeOK
           DEF CaptureInv, Past, PollOK, SlotOK, PrivateIsAcknowledged, OwnIsKnown, ShownIsNoted,
               PrivateStaysPrivate, OwnWritesAreNotCaptured, AcceptedIsAnsweredFor,
               clipVars, loopVars, setVars, rowVars
<1>3. CASE OwnWriteFails(receiver.content)
    <2>1. receiver.content \in Contents
        BY <1>0 DEF Types, ReceiveFails
    <2>2. Types'
        BY <1>0, <1>1, <1>3, <2>1, OwnWriteTypes DEF Types, loopVars, setVars, rowVars
    <2>3. applied <= applied' /\ 0 <= applied'
        BY <1>0, <1>1, CaptureAssumption DEF Types, rowVars
    <2>4. (/\ Past /\ PollOK /\ SlotOK /\ PrivateIsAcknowledged /\ OwnIsKnown /\ ShownIsNoted
           /\ PrivateStaysPrivate /\ OwnWritesAreNotCaptured /\ AcceptedIsAnsweredFor)'
        BY <1>0, <1>1, <1>3, <2>2, <2>3, OwnWriteInv
    <2> QED
        BY <1>1, <2>2, <2>4, TypesAreTypeOK DEF CaptureInv, rowVars
<1> QED
    BY <1>1, <1>2, <1>3

\* DeleteRow keeps the invariant.
LEMMA DeleteRowInv == ASSUME CaptureInv, NEW c \in Contents, DeleteRow(c) PROVE CaptureInv'
<1>1. Types /\ Types'
    BY CaptureAssumption, TypesAreTypeOK
       DEF CaptureInv, Types, Past, PollOK, Counts, COUNT_NONE, NoCapture, NoCopy, NoClip,
           DeleteRow, Larger, clipVars, loopVars, setVars, rowVars
<1>2. IsFiniteSet(live')
    BY FS_RemoveElement DEF CaptureInv, DeleteRow
<1>3. (/\ Past /\ PollOK /\ SlotOK /\ PrivateIsAcknowledged /\ OwnIsKnown /\ ShownIsNoted
       /\ PrivateStaysPrivate /\ OwnWritesAreNotCaptured /\ AcceptedIsAnsweredFor)'
    BY <1>1, CaptureAssumption
       DEF CaptureInv, Types, Past, PollOK, SlotOK, PrivateIsAcknowledged, OwnIsKnown,
           ShownIsNoted, PrivateStaysPrivate, OwnWritesAreNotCaptured, AcceptedIsAnsweredFor,
           Counts, COUNT_NONE, NoCapture, DeleteRow, Larger,
           clipVars, loopVars, setVars, rowVars
<1> QED
    BY <1>1, <1>2, <1>3, TypesAreTypeOK DEF CaptureInv

-----------------------------------------------------------------------------
(* The theorems.                                                           *)

\* Every step keeps the invariant.
LEMMA NextInv == CaptureInv /\ [Next]_vars => CaptureInv'
<1> SUFFICES ASSUME CaptureInv, [Next]_vars
             PROVE  CaptureInv'
    OBVIOUS
<1>1. CASE Loop
    BY <1>1, WakeInv, TickPollsInv, TickRefusedInv, StopInv, TickReadsInv, TickPersistsInv DEF Loop
<1>2. CASE Resume
    BY <1>2, ResumePollsInv, ResumeAcknowledgesInv DEF Resume
<1>3. CASE Copy
    BY <1>3, CopyPromotesInv, CopyNotesInv DEF Copy
<1>4. CASE Receive
    BY <1>4, ReceiveShowsInv, ReceiveDeclinesInv DEF Receive
<1>5. CASE Applications
    BY <1>5, AppCopiesInv DEF Applications
<1>6. CASE Users
    BY <1>6, SetPrivateModeInv, SetCapturePolicyInv, ShutdownInv, CopyWritesInv, DeleteRowInv, ReceiveStoresInv DEF Users
<1>7. CASE Failures
    BY <1>7, TickReadsInv, TickPersistsInv, TickCannotOpenInv, TickCannotAttributeInv,
       ResumeCannotOpenInv, ReceiveFailsInv, CopyFailsInv, RestartInv DEF Failures
<1>8. CASE Clock
    BY <1>8, ClockInv
<1>9. CASE UNCHANGED vars
    BY <1>9 DEF vars, clipVars, loopVars, setVars, rowVars, CaptureInv, TypeOK, Past, PollOK,
       SlotOK, PrivateIsAcknowledged, OwnIsKnown, ShownIsNoted, PrivateStaysPrivate,
       OwnWritesAreNotCaptured, AcceptedIsAnsweredFor, IsSelfWrite
<1> QED
    BY <1>1, <1>2, <1>3, <1>4, <1>5, <1>6, <1>7, <1>8, <1>9 DEF Next

\* The invariant holds in every reachable state.
LEMMA Invariance == Spec => []CaptureInv
    BY InitInv, NextInv, PTL DEF Spec

\* Every reachable state is well typed, and a tick never runs beside the
\* effects of a settings change (Settings::enter_apply).
THEOREM CaptureTypeCorrect == Spec => []TypeOK
    BY Invariance, PTL DEF CaptureInv

\* Nothing copied in private mode, and nothing withdrawn by a switch of it, is
\* stored, whatever the loop, the resume and the back end do in between
\* (host.rs settings_applied, capture.rs persist_pending).
THEOREM PrivateIsNotStored == Spec => []PrivateStaysPrivate
    BY Invariance, PTL DEF CaptureInv

\* The daemon does not capture a write of its own that it armed the sentinel
\* for, whatever is written, polled, acknowledged or received in between
\* (change.rs, windows.rs arm_self_write, macos.rs set_contents).
THEOREM OwnWritesStayOut == Spec => []OwnWritesAreNotCaptured
    BY Invariance, PTL DEF CaptureInv

\* Nothing that was accepted is lost: it is stored, reported, or given up for a
\* setting, through retries, refusals, changes of the settings and the shutdown
\* (capture.rs).
THEOREM AcceptedIsNotDropped == Spec => []AcceptedIsAnsweredFor
    BY Invariance, PTL DEF CaptureInv

\* A received clip is shown only in place of something older
\* (instant_clipboard.rs).
THEOREM ReceivedReplacesOlder == Spec => ReceivedIsNewer
<1> DEFINE Shown == receiver # NoClip /\ receiver' = NoClip /\ mine' # mine
                       => board.stamp < receiver.stamp
<1>1. CaptureInv /\ [Next]_vars => [Shown]_vars
    <2> SUFFICES ASSUME CaptureInv, Next,
                        receiver # NoClip, receiver' = NoClip, mine' # mine
                 PROVE  board.stamp < receiver.stamp
        OBVIOUS
    <2>1. ReceiveShows \/ ReceiveFails
        BY DEF Next, Loop, Resume, Copy, Receive, Applications, Users, Failures,
           Wake, TickPolls, TickRefused, TickReads, TickPersists, TickCannotOpen,
           TickCannotAttribute, Shutdown, Stop, SetPrivateMode, SetCapturePolicy, ResumePolls,
           ResumeAcknowledges, ResumeCannotOpen, CopyWrites, CopyFails, CopyPromotes,
           CopyNotes, ReceiveStores, ReceiveDeclines, DeleteRow, AppCopies, Clock,
           Restart, clipVars
    <2>2. receiver.stamp > applied /\ receiver.stamp \in Nat
        BY <2>1, CaptureAssumption, TypesAreTypeOK
           DEF ReceiveShows, ReceiveFails, MayShow, CaptureInv, Types
    <2> QED
        BY <2>2, CaptureAssumption, TypesAreTypeOK DEF CaptureInv, ShownIsNoted, Types
<1> QED
    BY <1>1, Invariance, PTL DEF Spec, ReceivedIsNewer
=============================================================================
