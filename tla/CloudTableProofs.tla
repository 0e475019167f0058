-------------------------- MODULE CloudTableProofs --------------------------
(***************************************************************************)
(* Proofs about module CloudTable, for every set of devices, every finite  *)
(* set of items and every size of a batch and a page: the types, that the  *)
(* watermark passes no readable row by that the device did not refuse and  *)
(* never moves back, and that a device with a newer version than the       *)
(* table's owes it, will meet the older row, was behind when it arrived,   *)
(* or raised that version itself.                                          *)
(***************************************************************************)
EXTENDS CloudTable, OrderLemmas

(***************************************************************************)
(* The inductive invariant.                                                *)
(***************************************************************************)

Phases == {"idle", "pushing", "pulling", "applying", "committing"}

Rounds == [phase : Phases, send : SUBSET Place, moved : BOOLEAN, sent : SUBSET Place,
           cursor : Place, advanced : Place, page : SUBSET Place, declined : SUBSET Place,
           full : BOOLEAN, pages : 0..MaxPages, again : BOOLEAN]

Types == TypeOK /\ round \in [Devices -> Rounds]

\* Where the row of an item stands.
Pos(x) == At(table[x], x)

RowsAreStamped == \A x \in Items : table[x].readable => table[x].at > 0

\* The rows that a device would not store, and the versions it raised.
RefusedBy(d) == {p \in Place : <<d, p>> \in refused}
RaisedBy(d) == {w \in Items \X Stamps : <<d, w[1], w[2]>> \in raised}
SameOutcomes(e) == RefusedBy(e)' = RefusedBy(e) /\ RaisedBy(e)' = RaisedBy(e)

\* The items whose version here the round under way does not settle: they are
\* owed beyond it, or raised, and then owed to nobody.
Answered(d) ==
    (unsent[d] \ Settled(d)) \cup {x \in Items : <<x, held[d][x]>> \in RaisedBy(d)}

\* The rows at or before a position that a device has not got are in the set
\* given or arrived behind the device.
GotUpTo(d, m, rest) ==
    \A x \in Items : table[x].readable /\ ~After(Pos(x), m)
        => held[d][x] >= table[x].at \/ <<d, x>> \in behind \/ Pos(x) \in rest

\* A stale row is answered for, or lies past the position, or arrived behind the
\* device, or is in the set given.
StaleUpTo(d, m, rest) ==
    \A x \in Items : table[x].readable /\ table[x].at < held[d][x]
        => \/ x \in Answered(d)
           \/ After(Pos(x), m)
           \/ <<d, x>> \in behind
           \/ Pos(x) \in rest

\* What a push is about to send: one version of an item, and the one the device
\* holds unless something was noted since the scan.
SendOK(d) ==
    /\ \A p \in round[d].send : p.at > 0 /\ p.item \in Items
    /\ \A p, q \in round[d].send : p.item = q.item => p = q
    /\ ~round[d].moved => \A p \in round[d].send : p.at = held[d][p.item]

\* The row of an item on the page is the one fetched, or it changed since, and
\* then it arrived past the page or behind the device.
PageIsCurrent(d) ==
    \A p \in round[d].page :
        /\ p.item \in Items
        /\ table[p.item].readable => \/ Pos(p.item) = p
                                     \/ After(Pos(p.item), round[d].advanced)
                                     \/ <<d, p.item>> \in behind

PageOK(d) ==
    /\ ~After(round[d].cursor, round[d].advanced)
    /\ ~After(round[d].advanced, offered[d])
    /\ IsFiniteSet(round[d].page)
    /\ PageIsCurrent(d)
    /\ GotUpTo(d, round[d].advanced, round[d].page \cup RefusedBy(d))
    /\ StaleUpTo(d, round[d].advanced, round[d].page \cup round[d].declined)

PhaseOK(d) ==
    /\ round[d].phase = "idle" => round[d].sent = {}
    /\ round[d].phase = "pushing" => SendOK(d) /\ (~round[d].again => round[d].pages = 0)
    /\ round[d].phase = "pulling" => round[d].pages < MaxPages
    /\ round[d].phase \in {"pulling", "applying"} => round[d].cursor = mark[d]
    /\ round[d].phase = "applying" => PageOK(d)

DeviceInv(d) ==
    /\ ~After(mark[d], offered[d])
    /\ GotUpTo(d, mark[d], RefusedBy(d))
    /\ StaleUpTo(d, mark[d], {})
    /\ PhaseOK(d)

CloudInv == Types /\ RowsAreStamped /\ \A d \in Devices : DeviceInv(d)

(***************************************************************************)
(* Positions.                                                              *)
(***************************************************************************)

\* Positions are compared like the pairs of a lexicographic order.
LEMMA PositionsAreOrdered ==
    /\ \A p \in Place : ~After(p, p)
    /\ \A p, q \in Place : After(p, q) => ~After(q, p)
    /\ \A p, q \in Place : p = q \/ After(p, q) \/ After(q, p)
    /\ \A p, q, r \in Place : After(p, q) /\ After(q, r) => After(p, r)
    /\ \A p, q, r \in Place : ~After(p, q) /\ ~After(q, r) => ~After(p, r)
<1>1. \A p \in Place : /\ p.at \in 0..MaxStamp /\ p.item \in Items \cup {0}
                       /\ p = [at |-> p.at, item |-> p.item]
    BY DEF Place
<1>2. \A p \in Place : p.at \in Int /\ p.item \in Int /\ p = [at |-> p.at, item |-> p.item]
    BY <1>1, CloudTableAssumption
<1> QED
    BY <1>2 DEF After

\* The position reached is one of the two, and neither lies after it.
LEMMA AdvanceIs ==
    ASSUME NEW c \in Place, NEW p \in Place
    PROVE  /\ AdvancePast(c, p) \in Place
           /\ ~After(c, AdvancePast(c, p)) /\ ~After(p, AdvancePast(c, p))
           /\ AdvancePast(c, p) \in {c, p}
    BY PositionsAreOrdered DEF AdvancePast

\* The order on a set of positions, as pairs.
Later(P) == {e \in P \X P : After(e[1], e[2])}

\* A finite set of positions has a last one.
LEMMA LastIs ==
    ASSUME NEW P \in SUBSET Place, IsFiniteSet(P), P # {}, NEW default
    PROVE  LastOf(P, default) \in P /\ \A q \in P : ~After(q, LastOf(P, default))
<1>1. \A x, y \in P : <<x, y>> \in Later(P) <=> After(x, y)
    BY DEF Later
<1>2. /\ \A x \in P : <<x, x>> \notin Later(P)
      /\ \A x, y, z \in P : <<x, y>> \in Later(P) /\ <<y, z>> \in Later(P) => <<x, z>> \in Later(P)
    BY <1>1, PositionsAreOrdered
<1>3. \E x \in P : \A y \in P : <<y, x>> \notin Later(P)
    BY <1>2, FiniteHasFirst
<1>4. \E x \in P : \A y \in P \ {x} : After(x, y)
    BY <1>1, <1>3, PositionsAreOrdered
<1> QED
    BY <1>4, PositionsAreOrdered DEF LastOf

\* And a first one.
LEMMA NextIs ==
    ASSUME NEW P \in SUBSET Place, IsFiniteSet(P), P # {}
    PROVE  NextOf(P) \in P
<1>1. \A x, y \in P : <<x, y>> \in Later(P) <=> After(x, y)
    BY DEF Later
<1>2. /\ \A x \in P : <<x, x>> \notin Later(P)
      /\ \A x, y, z \in P : <<x, y>> \in Later(P) /\ <<y, z>> \in Later(P) => <<x, z>> \in Later(P)
    BY <1>1, PositionsAreOrdered
<1>3. \E x \in P : \A y \in P : <<x, y>> \notin Later(P)
    BY <1>2, FiniteHasLast
<1>4. \E x \in P : \A y \in P \ {x} : After(y, x)
    BY <1>1, <1>3, PositionsAreOrdered
<1> QED
    BY <1>4 DEF NextOf

\* The first positions of a set are closed downwards: fetch_since leaves no row
\* out before one it returns.
LEMMA FirstAreFirst ==
    ASSUME NEW P \in SUBSET Place, IsFiniteSet(P), NEW n \in Nat,
           NEW p \in FirstOf(P, n), NEW q \in P, ~After(q, p)
    PROVE  q \in FirstOf(P, n)
<1> DEFINE Before(s) == {r \in P : After(s, r)}
<1>1. p \in P /\ p \in Place /\ q \in Place
    BY DEF FirstOf
<1>2. Before(q) \subseteq Before(p)
    BY <1>1, PositionsAreOrdered
<1>3. IsFiniteSet(Before(p)) /\ IsFiniteSet(Before(q))
    BY FS_Subset
<1>4. Cardinality(Before(p)) < n
    BY DEF FirstOf
<1>5. Cardinality(Before(q)) < n
    <2> HIDE DEF Before
    <2>1. /\ Cardinality(Before(q)) <= Cardinality(Before(p))
          /\ Cardinality(Before(q)) \in Nat /\ Cardinality(Before(p)) \in Nat
        BY <1>2, <1>3, FS_Subset, FS_CardinalityType
    <2> QED
        BY <1>4, <2>1
<1> QED
    BY <1>5 DEF FirstOf

\* The table has finitely many rows.
LEMMA RowsAreFinite ==
    ASSUME table \in [Items -> [at : 0..MaxStamp, readable : BOOLEAN]]
    PROVE  Positions(table) \subseteq Place /\ IsFiniteSet(Positions(table))
<1> DEFINE S == {y \in Items : table[y].at > 0}
           T == {At(table[x], x) : x \in S}
           f == [x \in S |-> At(table[x], x)]
<1>1. IsFiniteSet(S)
    BY CloudTableAssumption, FS_Subset
<1>2. f \in Surjection(S, T)
    BY Zenon DEF Surjection
<1>3. IsFiniteSet(T)
    <2> HIDE DEF S, T, f
    <2> QED
        BY <1>1, <1>2, FS_Surjection
<1>4. Positions(table) = T
    BY DEF Positions
<1>5. \A x \in Items : At(table[x], x) \in Place
    BY DEF At, Place
<1> QED
    BY <1>3, <1>4, <1>5

(***************************************************************************)
(* The initial state, and what a step leaves alone.                        *)
(***************************************************************************)

\* The round of a device is a record.
LEMMA RoundIs ==
    ASSUME Types, NEW d \in Devices
    PROVE  /\ round[d] \in Rounds
           /\ round[d] = [phase |-> round[d].phase, send |-> round[d].send,
                          moved |-> round[d].moved, sent |-> round[d].sent,
                          cursor |-> round[d].cursor, advanced |-> round[d].advanced,
                          page |-> round[d].page, declined |-> round[d].declined,
                          full |-> round[d].full, pages |-> round[d].pages,
                          again |-> round[d].again]
<1>1. round[d] \in Rounds
    BY DEF Types
<1> QED
    BY <1>1 DEF Rounds

\* The type of the rounds gives what TypeOK says of them.
LEMMA RoundFields ==
    ASSUME NEW r \in Rounds
    PROVE  /\ r.phase \in {"idle", "pushing", "pulling", "applying", "committing"}
           /\ r.send \subseteq Place /\ r.sent \subseteq Place
           /\ r.page \subseteq Place /\ r.declined \subseteq Place
           /\ r.pages \in 0..MaxPages
    BY DEF Rounds, Phases

\* The idle round, and a place to start.
LEMMA IdleIs == Start \in Place /\ Idle \in Rounds
<1>1. Start \in Place
    BY CloudTableAssumption DEF Start, Place
<1>2. 0 \in 0..MaxPages
    BY CloudTableAssumption
<1> QED
    BY <1>1, <1>2 DEF Idle, Rounds, Phases

\* The invariant holds of an empty table and idle devices.
LEMMA InitHolds == Init => CloudInv
<1> SUFFICES ASSUME Init PROVE CloudInv
    OBVIOUS
<1>1. Types
    <2>1. /\ now \in Stamps
          /\ table \in [Items -> [at : 0..MaxStamp, readable : BOOLEAN]]
          /\ held \in [Devices -> [Items -> 0..MaxStamp]]
          /\ unsent \in [Devices -> SUBSET Items]
          /\ \A d \in Devices : \A x \in unsent[d] : held[d][x] > 0
          /\ behind \subseteq Devices \X Items
        BY CloudTableAssumption DEF Init, Stamps, NoRow
    <2>3. refused \subseteq Devices \X Place /\ raised \subseteq Devices \X Items \X Stamps
        BY DEF Init
    <2>2. /\ mark \in [Devices -> Place] /\ offered \in [Devices -> Place]
          /\ round \in [Devices -> Rounds]
        BY IdleIs DEF Init
    <2> QED
        BY <2>1, <2>2, <2>3, RoundFields DEF Types, TypeOK
<1>2. \A x \in Items : ~table[x].readable
    BY DEF Init, NoRow
<1>3. \A d \in Devices : round[d].phase = "idle" /\ round[d].sent = {}
    BY DEF Init, Idle
<1>4. \A d \in Devices : ~After(mark[d], offered[d])
    BY IdleIs, PositionsAreOrdered DEF Init
<1> QED
    BY <1>1, <1>2, <1>3, <1>4
    DEF CloudInv, RowsAreStamped, DeviceInv, GotUpTo, StaleUpTo, PhaseOK

\* What was refused and raised here is what it was.
LEMMA OutcomesKept ==
    ASSUME UNCHANGED <<refused, raised>>, NEW e
    PROVE  SameOutcomes(e)
    BY DEF SameOutcomes, RefusedBy, RaisedBy

\* A device none of whose state changes, while the table keeps its rows.
LEMMA UntouchedKept ==
    ASSUME NEW e \in Devices, DeviceInv(e), UNCHANGED <<table, behind>>, SameOutcomes(e),
           held'[e] = held[e], unsent'[e] = unsent[e], mark'[e] = mark[e],
           round'[e] = round[e], offered'[e] = offered[e]
    PROVE  DeviceInv(e)'
<1>1. Answered(e)' = Answered(e) /\ RefusedBy(e)' = RefusedBy(e)
    BY DEF Answered, SameOutcomes, Settled
<1> QED
    BY <1>1 DEF DeviceInv, GotUpTo, StaleUpTo, PhaseOK, PageOK, SendOK, PageIsCurrent, Pos

\* Only one device's state changes, and no row.
OnlyOf(d) ==
    /\ UNCHANGED <<table, behind>>
    /\ \A e \in Devices \ {d} :
        /\ SameOutcomes(e)
        /\ held'[e] = held[e] /\ unsent'[e] = unsent[e] /\ mark'[e] = mark[e]
        /\ round'[e] = round[e] /\ offered'[e] = offered[e]

\* What is left to show of a step of one device.
LEMMA OneDeviceKept ==
    ASSUME CloudInv, NEW d \in Devices, OnlyOf(d), Types', DeviceInv(d)'
    PROVE  CloudInv'
<1>1. \A e \in Devices : DeviceInv(e)'
    <2> TAKE e \in Devices
    <2>1. CASE e = d
        BY <2>1
    <2>2. CASE e # d
        BY <2>2, UntouchedKept DEF OnlyOf, CloudInv
    <2> QED
        BY <2>1, <2>2
<1>2. RowsAreStamped'
    BY DEF OnlyOf, CloudInv, RowsAreStamped
<1> QED
    BY <1>1, <1>2 DEF CloudInv

(***************************************************************************)
(* The steps that change no row.                                           *)
(***************************************************************************)

\* A version noted on a device is owed, so no row becomes stale unanswered, and
\* what was scanned before is no longer what the push will settle.
LEMMA NoteKept ==
    ASSUME CloudInv, NEW d \in Devices, NEW x \in Items, NEW at \in Stamps,
           at > held[d][x], Note(d, x, at),
           UNCHANGED <<now, table, mark, offered, behind, refused, raised>>
    PROVE  CloudInv'
<1>1. Types
    BY DEF CloudInv
<1>2. /\ held \in [Devices -> [Items -> 0..MaxStamp]] /\ unsent \in [Devices -> SUBSET Items]
      /\ round \in [Devices -> Rounds] /\ MaxStamp \in Nat
    BY <1>1, CloudTableAssumption DEF Types, TypeOK
<1>3. at \in 0..MaxStamp /\ at > 0
    BY <1>2 DEF Stamps
<1>4. /\ held' \in [Devices -> [Items -> 0..MaxStamp]]
      /\ held'[d] = [held[d] EXCEPT ![x] = at]
      /\ \A e \in Devices \ {d} : held'[e] = held[e]
    BY <1>2, <1>3 DEF Note
<1>5. /\ unsent' \in [Devices -> SUBSET Items]
      /\ unsent'[d] = unsent[d] \cup {x}
      /\ \A e \in Devices \ {d} : unsent'[e] = unsent[e]
    BY <1>2 DEF Note
<1>6. /\ round'[d] = [round[d] EXCEPT !.moved = TRUE]
      /\ \A e \in Devices \ {d} : round'[e] = round[e]
      /\ round' = [round EXCEPT ![d] = [round[d] EXCEPT !.moved = TRUE]]
    BY <1>2 DEF Note
<1>7. round'[d] \in Rounds /\ round'[d].moved
    <2>1. round[d] \in Rounds
        BY <1>2
    <2>2. \A r \in Rounds : [r EXCEPT !.moved = TRUE] \in Rounds /\ [r EXCEPT !.moved = TRUE].moved
        BY DEF Rounds
    <2> QED
        BY <1>6, <2>1, <2>2
<1>8. round' \in [Devices -> Rounds]
    BY <1>2, <1>6, <1>7
<1>9. \A e \in Devices : \A y \in unsent'[e] : held'[e][y] > 0
    <2> TAKE e \in Devices
    <2> TAKE y \in unsent'[e]
    <2>1. \A z \in unsent[e] : held[e][z] > 0
        BY <1>1 DEF Types, TypeOK
    <2>2. CASE e = d
        BY <2>1, <2>2, <1>2, <1>3, <1>4, <1>5
    <2>3. CASE e # d
        BY <2>1, <2>3, <1>4, <1>5
    <2> QED
        BY <2>2, <2>3
<1>10. Types'
    BY <1>1, <1>4, <1>5, <1>8, <1>9, RoundFields DEF Types, TypeOK
<1>11. /\ round'[d].phase = round[d].phase /\ round'[d].send = round[d].send
       /\ round'[d].sent = round[d].sent /\ round'[d].cursor = round[d].cursor
       /\ round'[d].advanced = round[d].advanced /\ round'[d].page = round[d].page
       /\ round'[d].declined = round[d].declined /\ round'[d].pages = round[d].pages
       /\ round'[d].again = round[d].again
    BY <1>1, <1>6, RoundIs
<1>12. \A y \in Items :
        /\ held'[d][y] \in Int /\ held[d][y] \in Int /\ table[y].at \in Int
        /\ held'[d][y] >= held[d][y]
        /\ held'[d][y] = held[d][y] \/ y \in unsent'[d]
    <2>1. \A y \in Items : table[y].at \in 0..MaxStamp
        BY <1>1 DEF Types, TypeOK
    <2> QED
        BY <2>1, <1>2, <1>3, <1>4, <1>5
<1>13. Settled(d)' = {}
    BY <1>7 DEF Settled
<1>a. \A y \in Items : y \in unsent'[d] \/ (y \in Answered(d) /\ held'[d][y] = held[d][y])
                            => y \in Answered(d)'
    <2>1. RaisedBy(d)' = RaisedBy(d)
        BY OutcomesKept DEF SameOutcomes
    <2>2. Answered(d)' = unsent'[d] \cup {y \in Items : <<y, held'[d][y]>> \in RaisedBy(d)}
        BY <2>1, <1>13 DEF Answered
    <2>3. \A y \in Items : y \in Answered(d) => y \in unsent[d] \/ <<y, held[d][y]>> \in RaisedBy(d)
        BY DEF Answered
    <2> QED
        BY <2>2, <2>3, <1>5, <1>12
<1>b. RefusedBy(d)' = RefusedBy(d)
    BY OutcomesKept DEF SameOutcomes
<1>14. DeviceInv(d)
    BY DEF CloudInv
<1>15. \A m, rest : GotUpTo(d, m, rest) =>
            \A y \in Items : table[y].readable /\ ~After(Pos(y), m)
                => held'[d][y] >= table[y].at \/ <<d, y>> \in behind \/ Pos(y) \in rest
    BY <1>12 DEF GotUpTo
<1>16. \A m, rest : StaleUpTo(d, m, rest) =>
            \A y \in Items : table[y].readable /\ table[y].at < held'[d][y]
                => y \in Answered(d)' \/ After(Pos(y), m) \/ <<d, y>> \in behind \/ Pos(y) \in rest
    BY <1>a, <1>12 DEF StaleUpTo
<1>17. ASSUME PageOK(d) PROVE PageOK(d)'
    <2>1. PICK a, pg, de : a = round[d].advanced /\ pg = round[d].page /\ de = round[d].declined
        OBVIOUS
    <2>2. /\ round'[d].advanced = a /\ round'[d].page = pg /\ round'[d].declined = de
          /\ round'[d].cursor = round[d].cursor
        BY <2>1, <1>11
    <2>3. GotUpTo(d, a, pg \cup RefusedBy(d)) /\ StaleUpTo(d, a, pg \cup de)
        BY <1>17, <2>1 DEF PageOK
    <2>4. GotUpTo(d, a, pg \cup RefusedBy(d))'
        BY <2>3, <1>15, <1>b DEF GotUpTo, Pos
    <2>5. StaleUpTo(d, a, pg \cup de)'
        BY <2>3, <1>16 DEF StaleUpTo, Pos
    <2>6. PageIsCurrent(d)'
        BY <1>17, <2>1, <2>2, <1>5 DEF PageOK, PageIsCurrent, Pos
    <2> QED
        BY <1>17, <2>1, <2>2, <2>4, <2>5, <2>6, <1>5 DEF PageOK
<1>18. SendOK(d) => SendOK(d)'
    BY <1>7, <1>11 DEF SendOK
<1>19. PhaseOK(d)'
    BY <1>11, <1>14, <1>17, <1>18 DEF DeviceInv, PhaseOK
<1>20. DeviceInv(d)'
    <2>1. PICK m, none : m = mark[d] /\ none = {}
        OBVIOUS
    <2>2. GotUpTo(d, mark[d], RefusedBy(d)) /\ StaleUpTo(d, m, none)
        BY <2>1, <1>14 DEF DeviceInv
    <2>3. GotUpTo(d, mark[d], RefusedBy(d))'
        BY <2>2, <1>15, <1>b DEF GotUpTo, Pos
    <2>4. StaleUpTo(d, m, none)'
        BY <2>2, <1>16 DEF StaleUpTo, Pos
    <2>5. StaleUpTo(d, mark[d], {})'
        BY <2>1, <2>4 DEF StaleUpTo
    <2> QED
        BY <1>14, <1>19, <2>3, <2>5 DEF DeviceInv
<1>21. OnlyOf(d)
    BY <1>4, <1>5, <1>6, OutcomesKept DEF OnlyOf
<1> QED
    BY <1>10, <1>20, <1>21, OneDeviceKept

\* What a scan finds is what is owed, with the stamps that are held.
LEMMA ScanIs ==
    ASSUME Types, NEW d \in Devices, NEW S \in SUBSET Items, \A x \in S : held[d][x] > 0,
           NEW P, P = {[at |-> held[d][x], item |-> x] : x \in S}
    PROVE  /\ P \subseteq Place
           /\ \A p \in P : p.at > 0 /\ p.item \in Items /\ p.at = held[d][p.item]
           /\ \A p, q \in P : p.item = q.item => p = q
<1>1. held[d] \in [Items -> 0..MaxStamp]
    BY DEF Types, TypeOK
<1>2. \A p \in P : \E x \in S : p = [at |-> held[d][x], item |-> x]
    OBVIOUS
<1>3. \A x \in S : held[d][x] \in 0..MaxStamp /\ x \in Items
    BY <1>1
<1> QED
    BY <1>2, <1>3 DEF Place

\* A round that changes only its device's round, what it owes and its watermark.
LEMMA RoundTypes ==
    ASSUME Types, NEW d \in Devices, NEW r \in Rounds, round' = [round EXCEPT ![d] = r],
           UNCHANGED <<now, table, held, mark, offered, behind, refused, raised>>,
           NEW u \in SUBSET Items, unsent' = [unsent EXCEPT ![d] = u],
           \A x \in u : held[d][x] > 0
    PROVE  Types' /\ round'[d] = r /\ unsent'[d] = u /\ OnlyOf(d)
<1>1. /\ unsent \in [Devices -> SUBSET Items] /\ round \in [Devices -> Rounds]
      /\ \A e \in Devices : \A x \in unsent[e] : held[e][x] > 0
    BY DEF Types, TypeOK
<1>2. /\ round' \in [Devices -> Rounds] /\ round'[d] = r
      /\ \A e \in Devices \ {d} : round'[e] = round[e]
    BY <1>1
<1>3. /\ unsent' \in [Devices -> SUBSET Items] /\ unsent'[d] = u
      /\ \A e \in Devices \ {d} : unsent'[e] = unsent[e]
    BY <1>1
<1>4. \A e \in Devices : \A x \in unsent'[e] : held'[e][x] > 0
    BY <1>1, <1>3
<1>5. Types'
    BY <1>2, <1>3, <1>4, RoundFields DEF Types, TypeOK
<1> QED
    BY <1>2, <1>3, <1>5, OutcomesKept DEF OnlyOf

\* A step that moves no version, row or watermark and gives nothing up that the
\* round will not settle anyway.
LEMMA QuietKept ==
    ASSUME CloudInv, NEW d \in Devices, OnlyOf(d), Types',
           UNCHANGED <<held, mark, offered, refused, raised>>,
           \A x \in unsent[d] \ Settled(d) :
                held[d][x] > 0 => x \in unsent'[d] \ Settled(d)',
           PhaseOK(d)'
    PROVE  CloudInv'
<1>1. \A x \in unsent[d] : held[d][x] > 0
    BY DEF CloudInv, Types, TypeOK
<1>2. DeviceInv(d)'
    <2>1. Answered(d) \subseteq Answered(d)'
        BY <1>1, OutcomesKept DEF Answered, SameOutcomes
    <2>2. RefusedBy(d)' = RefusedBy(d)
        BY OutcomesKept DEF SameOutcomes
    <2> QED
        BY <2>1, <2>2 DEF CloudInv, DeviceInv, GotUpTo, StaleUpTo, OnlyOf, Pos
<1> QED
    BY <1>2, OneDeviceKept

\* A round begins with a scan.
LEMMA BeginKept ==
    ASSUME CloudInv, NEW d \in Devices, BeginRound(d)
    PROVE  CloudInv'
<1>1. Types /\ unsent[d] \in SUBSET Items /\ \A x \in unsent[d] : held[d][x] > 0
    BY DEF CloudInv, Types, TypeOK
<1>2. PICK P : P = Owed(d)
    OBVIOUS
<1>3. /\ P \subseteq Place
      /\ \A p \in P : p.at > 0 /\ p.item \in Items /\ p.at = held[d][p.item]
      /\ \A p, q \in P : p.item = q.item => p = q
    BY <1>1, <1>2, ScanIs DEF Owed
<1>4. PICK r : r = [Idle EXCEPT !.phase = "pushing", !.send = P]
    OBVIOUS
<1>5. /\ r.phase = "pushing" /\ r.send = P /\ r.sent = {} /\ r.pages = 0 /\ r \in Rounds
    <2>1. 0 \in 0..MaxPages
        BY CloudTableAssumption
    <2>2. r = [phase |-> "pushing", send |-> P, moved |-> FALSE, sent |-> {}, cursor |-> Start,
               advanced |-> Start, page |-> {}, declined |-> {}, full |-> FALSE,
               pages |-> 0, again |-> FALSE]
        BY <1>4 DEF Idle
    <2> QED
        BY <2>1, <2>2, <1>3, IdleIs DEF Rounds, Phases
<1>6. /\ round' = [round EXCEPT ![d] = r]
      /\ UNCHANGED <<now, table, held, unsent, mark, offered, behind, refused, raised>>
    BY <1>2, <1>4 DEF BeginRound, outcomes
<1>7. unsent' = [unsent EXCEPT ![d] = unsent[d]]
    BY <1>1, <1>6 DEF Types, TypeOK
<1>8. Types' /\ round'[d] = r /\ unsent'[d] = unsent[d] /\ OnlyOf(d)
    <2>1. unsent[d] \in SUBSET Items /\ \A x \in unsent[d] : held[d][x] > 0
        BY <1>1 DEF Types, TypeOK
    <2>2. r \in Rounds /\ round' = [round EXCEPT ![d] = r]
        BY <1>5, <1>6
    <2> QED
        BY <1>1, <1>6, <1>7, <2>1, <2>2, RoundTypes
<1>9. Settled(d)' = {}
    BY <1>5, <1>8 DEF Settled
<1>10. PhaseOK(d)'
    BY <1>3, <1>5, <1>6, <1>8 DEF PhaseOK, SendOK
<1> QED
    BY <1>6, <1>8, <1>9, <1>10, QuietKept

\* The pull starts from the watermark.
LEMMA PushDoneKept ==
    ASSUME CloudInv, NEW d \in Devices, PushDone(d)
    PROVE  CloudInv'
<1>1. /\ Types /\ unsent[d] \in SUBSET Items /\ \A x \in unsent[d] : held[d][x] > 0
      /\ mark[d] \in Place
    BY DEF CloudInv, Types, TypeOK
<1>2. PICK next : next = IF round[d].again THEN "committing" ELSE "pulling"
    OBVIOUS
<1>3. PICK r : r = [round[d] EXCEPT !.phase = next, !.cursor = mark[d]]
    OBVIOUS
<1>4. round[d] \in Rounds
    BY <1>1, RoundIs
<1>5. /\ r.phase = next /\ r.cursor = mark[d] /\ r.moved = round[d].moved /\ r.sent = round[d].sent
      /\ r.pages = round[d].pages
    BY <1>3, <1>4 DEF Rounds
<1>6. r \in Rounds
    <2>1. next \in Phases
        BY <1>2 DEF Phases
    <2> QED
        BY <2>1, <1>1, <1>3, <1>4 DEF Rounds
<1>7. /\ round' = [round EXCEPT ![d] = r]
      /\ UNCHANGED <<now, table, held, unsent, mark, offered, behind, refused, raised>>
    BY <1>1, <1>2, <1>3 DEF PushDone, outcomes, Types
<1>8. unsent' = [unsent EXCEPT ![d] = unsent[d]]
    BY <1>1, <1>7 DEF Types, TypeOK
<1>9. Types' /\ round'[d] = r /\ unsent'[d] = unsent[d] /\ OnlyOf(d)
    BY <1>1, <1>6, <1>7, <1>8, RoundTypes
<1>10. Settled(d)' = Settled(d)
    BY <1>5, <1>9 DEF Settled
<1>11. next = "pulling" => round[d].pages = 0
    BY <1>2 DEF CloudInv, DeviceInv, PhaseOK, PushDone
<1>12. next \in {"committing", "pulling"} /\ 0 < MaxPages
    BY <1>2, CloudTableAssumption
<1>13. PhaseOK(d)'
    BY <1>5, <1>7, <1>9, <1>11, <1>12 DEF PhaseOK
<1> QED
    BY <1>7, <1>9, <1>10, <1>13, QuietKept

\* What a commit settles was never what a stale row relied on.
LEMMA CommitKept ==
    ASSUME CloudInv, NEW d \in Devices, CommitRound(d)
    PROVE  CloudInv'
<1>1. Types /\ unsent[d] \in SUBSET Items /\ \A x \in unsent[d] : held[d][x] > 0
    BY DEF CloudInv, Types, TypeOK
<1>2. PICK u : u = unsent[d] \ Settled(d)
    OBVIOUS
<1>3. /\ round' = [round EXCEPT ![d] = Idle]
      /\ UNCHANGED <<now, table, held, mark, offered, behind, refused, raised>>
      /\ unsent' = [unsent EXCEPT ![d] = u]
    BY <1>2 DEF CommitRound, outcomes
<1>4. Types' /\ round'[d] = Idle /\ unsent'[d] = u /\ OnlyOf(d)
    <2>1. u \in SUBSET Items /\ \A x \in u : held[d][x] > 0
        BY <1>1, <1>2
    <2> QED
        BY <2>1, <1>1, <1>3, RoundTypes, IdleIs
<1>5. Settled(d)' = {}
    BY <1>4 DEF Settled, Idle
<1>6. PhaseOK(d)'
    BY <1>4 DEF PhaseOK, Idle
<1> QED
    BY <1>2, <1>3, <1>4, <1>5, <1>6, QuietKept

\* A round that fails settles nothing.
LEMMA FailKept ==
    ASSUME CloudInv, NEW d \in Devices, RoundFails(d)
    PROVE  CloudInv'
<1>1. Types /\ unsent[d] \in SUBSET Items /\ \A x \in unsent[d] : held[d][x] > 0
    BY DEF CloudInv, Types, TypeOK
<1>2. /\ round' = [round EXCEPT ![d] = Idle]
      /\ UNCHANGED <<now, table, held, unsent, mark, offered, behind, refused, raised>>
    BY DEF RoundFails, outcomes
<1>3. unsent' = [unsent EXCEPT ![d] = unsent[d]]
    BY <1>1, <1>2 DEF Types, TypeOK
<1>4. Types' /\ round'[d] = Idle /\ unsent'[d] = unsent[d] /\ OnlyOf(d)
    BY <1>1, <1>2, <1>3, RoundTypes, IdleIs
<1>5. Settled(d)' = {}
    BY <1>4 DEF Settled, Idle
<1>6. PhaseOK(d)'
    BY <1>4 DEF PhaseOK, Idle
<1> QED
    BY <1>2, <1>4, <1>5, <1>6, QuietKept

\* Signing in again owes every version held.
LEMMA SignInKept ==
    ASSUME CloudInv, NEW d \in Devices, SignInAgain(d)
    PROVE  CloudInv'
<1>1. Types /\ unsent[d] \in SUBSET Items /\ round[d] \in Rounds
    BY RoundIs DEF CloudInv, Types, TypeOK
<1>2. PICK u : u = {x \in Items : held[d][x] > 0}
    OBVIOUS
<1>3. /\ UNCHANGED <<now, table, held, mark, round, offered, behind, refused, raised>>
      /\ unsent' = [unsent EXCEPT ![d] = u]
    BY <1>2 DEF SignInAgain, outcomes
<1>4. round' = [round EXCEPT ![d] = round[d]]
    BY <1>1, <1>3 DEF Types
<1>5. Types' /\ round'[d] = round[d] /\ unsent'[d] = u /\ OnlyOf(d)
    <2>1. u \in SUBSET Items /\ \A x \in u : held[d][x] > 0
        BY <1>1, <1>2
    <2> QED
        BY <2>1, <1>1, <1>3, <1>4, RoundTypes
<1>6. Settled(d)' = {}
    BY <1>5 DEF Settled, SignInAgain, CloudInv, DeviceInv, PhaseOK
<1>7. PhaseOK(d)'
    BY <1>5 DEF PhaseOK, SignInAgain, CloudInv, DeviceInv
<1> QED
    BY <1>1, <1>2, <1>3, <1>5, <1>6, <1>7, QuietKept

\* The clock goes on.
LEMMA TickKept ==
    ASSUME CloudInv, Tick
    PROVE  CloudInv'
<1>1. Types'
    <2>1. now' \in Stamps
        BY CloudTableAssumption DEF CloudInv, Types, TypeOK, Tick, Stamps
    <2> QED
        BY <2>1 DEF CloudInv, Types, TypeOK, Tick, outcomes
<1>2. \A e \in Devices : DeviceInv(e)'
    BY UntouchedKept, OutcomesKept DEF CloudInv, Tick, outcomes
<1>3. RowsAreStamped'
    BY DEF CloudInv, RowsAreStamped, Tick
<1> QED
    BY <1>1, <1>2, <1>3 DEF CloudInv

(***************************************************************************)
(* The steps that change rows.                                             *)
(***************************************************************************)

\* How the row of an item may change, seen from a device: not at all, to one it
\* cannot read, to one past everything it was offered, or to one behind it.
RowArrives(e, x) ==
    \/ table'[x] = table[x] /\ (<<e, x>> \in behind => <<e, x>> \in behind')
    \/ ~table'[x].readable
    \/ After(At(table'[x], x), offered[e])
    \/ <<e, x>> \in behind'

\* Rows that arrive leave what a device has got up to a position it was offered.
LEMMA GotArrives ==
    ASSUME Types, Types', NEW e \in Devices, NEW m \in Place, NEW rest, ~After(m, offered[e]),
           GotUpTo(e, m, rest), \A x \in Items : RowArrives(e, x),
           NEW x \in Items, table'[x].readable, ~After(At(table'[x], x), m)
    PROVE  held[e][x] >= table'[x].at \/ <<e, x>> \in behind' \/ At(table'[x], x) \in rest
<1>1. At(table'[x], x) \in Place /\ offered[e] \in Place
    BY DEF Types, TypeOK, Place, At
<1>2. ~After(At(table'[x], x), offered[e])
    BY <1>1, PositionsAreOrdered
<1>3. RowArrives(e, x)
    OBVIOUS
<1> QED
    BY <1>2, <1>3 DEF RowArrives, GotUpTo, Pos

\* And the same of the rows that are stale.
LEMMA StaleArrives ==
    ASSUME Types, Types', NEW e \in Devices, NEW m \in Place, NEW rest, ~After(m, offered[e]),
           StaleUpTo(e, m, rest), \A x \in Items : RowArrives(e, x),
           NEW x \in Items, table'[x].readable, table'[x].at < held[e][x],
           ~After(At(table'[x], x), m)
    PROVE  x \in Answered(e) \/ <<e, x>> \in behind' \/ At(table'[x], x) \in rest
<1>1. At(table'[x], x) \in Place /\ offered[e] \in Place
    BY DEF Types, TypeOK, Place, At
<1>2. ~After(At(table'[x], x), offered[e])
    BY <1>1, PositionsAreOrdered
<1>3. RowArrives(e, x)
    OBVIOUS
<1> QED
    BY <1>2, <1>3 DEF RowArrives, StaleUpTo, Pos

\* A device that is not the one that writes.
LEMMA ArrivalKept ==
    ASSUME Types, Types', NEW e \in Devices, DeviceInv(e),
           \A x \in Items : RowArrives(e, x), SameOutcomes(e),
           held'[e] = held[e], unsent'[e] = unsent[e], mark'[e] = mark[e],
           round'[e] = round[e], offered'[e] = offered[e]
    PROVE  DeviceInv(e)'
<1>1. /\ mark[e] \in Place /\ offered[e] \in Place /\ round[e] \in Rounds
      /\ round[e].advanced \in Place
    BY RoundIs DEF Types, TypeOK, Rounds
<1>2. Answered(e)' = Answered(e) /\ RefusedBy(e)' = RefusedBy(e)
    BY DEF Answered, Settled, SameOutcomes
<1>3. GotUpTo(e, mark[e], RefusedBy(e))'
    <2>1. GotUpTo(e, mark[e], RefusedBy(e)) /\ ~After(mark[e], offered[e])
        BY DEF DeviceInv
    <2>2. \A x \in Items : table'[x].readable /\ ~After(At(table'[x], x), mark[e])
            => held[e][x] >= table'[x].at \/ <<e, x>> \in behind' \/ At(table'[x], x) \in RefusedBy(e)
        BY <1>1, <2>1, GotArrives
    <2> QED
        BY <2>2, <1>2 DEF GotUpTo, Pos
<1>4. StaleUpTo(e, mark[e], {})'
    <2>1. StaleUpTo(e, mark[e], {}) /\ ~After(mark[e], offered[e])
        BY DEF DeviceInv
    <2>2. \A x \in Items : table'[x].readable /\ table'[x].at < held[e][x] /\ ~After(At(table'[x], x), mark[e])
            => x \in Answered(e) \/ <<e, x>> \in behind' \/ At(table'[x], x) \in {}
        BY <1>1, <2>1, StaleArrives
    <2> QED
        BY <2>2, <1>2 DEF StaleUpTo, Pos
<1>5. ASSUME PageOK(e) PROVE PageOK(e)'
    <2>1. PICK a, pg, de : a = round[e].advanced /\ pg = round[e].page /\ de = round[e].declined
        OBVIOUS
    <2>2. /\ a \in Place /\ ~After(a, offered[e]) /\ StaleUpTo(e, a, pg \cup de)
          /\ GotUpTo(e, a, pg \cup RefusedBy(e))
        BY <1>1, <1>5, <2>1 DEF PageOK
    <2>3. \A x \in Items : table'[x].readable /\ ~After(At(table'[x], x), a)
            => held[e][x] >= table'[x].at \/ <<e, x>> \in behind'
                \/ At(table'[x], x) \in pg \cup RefusedBy(e)
        BY <2>2, GotArrives
    <2>4. \A x \in Items : table'[x].readable /\ table'[x].at < held[e][x] /\ ~After(At(table'[x], x), a)
            => x \in Answered(e) \/ <<e, x>> \in behind' \/ At(table'[x], x) \in pg \cup de
        BY <2>2, StaleArrives
    <2>5. \A p \in pg : p.item \in Items /\ (table'[p.item].readable =>
                \/ At(table'[p.item], p.item) = p
                \/ After(At(table'[p.item], p.item), a)
                \/ <<e, p.item>> \in behind')
        <3> TAKE p \in pg
        <3>1. /\ p.item \in Items
              /\ table[p.item].readable => \/ At(table[p.item], p.item) = p
                                           \/ After(At(table[p.item], p.item), a)
                                           \/ <<e, p.item>> \in behind
            BY <1>5, <2>1 DEF PageOK, PageIsCurrent, Pos
        <3>2. RowArrives(e, p.item) /\ At(table'[p.item], p.item) \in Place
            BY <3>1 DEF Types, TypeOK, Place, At
        <3>3. After(At(table'[p.item], p.item), offered[e]) => After(At(table'[p.item], p.item), a)
            BY <1>1, <2>2, <3>2, PositionsAreOrdered
        <3> QED
            BY <3>1, <3>2, <3>3 DEF RowArrives
    <2> QED
        BY <1>2, <1>5, <2>1, <2>3, <2>4, <2>5
        DEF PageOK, PageIsCurrent, GotUpTo, StaleUpTo, Pos
<1>6. SendOK(e) => SendOK(e)'
    BY DEF SendOK
<1>7. PhaseOK(e)'
    BY <1>5, <1>6 DEF DeviceInv, PhaseOK
<1> QED
    BY <1>3, <1>4, <1>7 DEF DeviceInv

\* Where a row written is, with respect to each device.
LEMMA ArrivedIs ==
    ASSUME NEW P, \A p, q \in P : p.item = q.item => p = q,
           NEW e \in Devices, NEW x \in Items
    PROVE  /\ \A p \in P : p.item = x => (<<e, x>> \in Arrived(P) <=> ~After(p, offered[e]))
           /\ (\A p \in P : p.item # x) => (<<e, x>> \in Arrived(P) <=> <<e, x>> \in behind)
<1> DEFINE mine == {p \in P : p.item = x}
<1>1. <<e, x>> \in Arrived(P) <=>
        IF mine = {} THEN <<e, x>> \in behind ELSE ~After(NextOf(mine), offered[e])
    BY DEF Arrived
<1>2. \A p \in P : p.item = x => mine = {p}
    OBVIOUS
<1>3. \A p : NextOf({p}) = p
    BY DEF NextOf
<1>4. (\A p \in P : p.item # x) => mine = {}
    OBVIOUS
<1> QED
    BY <1>1, <1>2, <1>3, <1>4

\* What an upsert of at most one version of an item leaves.
LEMMA UpsertIs ==
    ASSUME NEW P, \A p, q \in P : p.item = q.item => p = q, NEW x \in Items
    PROVE  /\ \A p \in P : p.item = x => Upsert(table, P, TRUE)[x] = [at |-> p.at, readable |-> TRUE]
           /\ (\A p \in P : p.item # x) => Upsert(table, P, TRUE)[x] = table[x]
<1> DEFINE mine == {p \in P : p.item = x}
<1>1. Upsert(table, P, TRUE)[x] =
        IF mine = {} THEN table[x] ELSE [at |-> NextOf(mine).at, readable |-> TRUE]
    BY DEF Upsert
<1>2. \A p \in P : p.item = x => mine = {p}
    OBVIOUS
<1>3. \A p : NextOf({p}) = p
    BY DEF NextOf
<1>4. (\A p \in P : p.item # x) => mine = {}
    OBVIOUS
<1> QED
    BY <1>1, <1>2, <1>3, <1>4

\* A batch goes up: a row written takes its place past what a device was offered
\* or behind it, and what the sender holds is what it wrote unless it noted more.
LEMMA UploadKept ==
    ASSUME CloudInv, NEW d \in Devices, UploadRows(d)
    PROVE  CloudInv'
<1>1. PICK P : P = FirstOf(round[d].send, UploadBatch)
    OBVIOUS
<1>2. /\ round[d].phase = "pushing" /\ table' = Upsert(table, P, TRUE) /\ behind' = Arrived(P)
      /\ round' = [round EXCEPT ![d].send = @ \ P, ![d].sent = @ \cup P]
      /\ UNCHANGED <<now, held, unsent, mark, offered, refused, raised>>
    BY <1>1 DEF UploadRows, outcomes
<1>3. Types /\ DeviceInv(d) /\ SendOK(d) /\ round[d] \in Rounds /\ round \in [Devices -> Rounds]
    BY <1>2, RoundIs DEF CloudInv, DeviceInv, PhaseOK, Types
<1>4. /\ P \subseteq round[d].send /\ P \subseteq Place
      /\ \A p \in P : p.at > 0 /\ p.item \in Items
      /\ \A p, q \in P : p.item = q.item => p = q
      /\ ~round[d].moved => \A p \in P : p.at = held[d][p.item]
    <2>1. P \subseteq round[d].send
        BY <1>1 DEF FirstOf
    <2>2. round[d].send \subseteq Place
        BY <1>3 DEF Rounds
    <2> QED
        BY <2>1, <2>2, <1>3 DEF SendOK
<1>5. \A p \in P : p.at \in 0..MaxStamp /\ At([at |-> p.at, readable |-> TRUE], p.item) = p
    BY <1>4 DEF Place, At
<1>6. \A x \in Items :
        \/ table'[x] = table[x] /\ \A p \in P : p.item # x
        \/ \E p \in P : p.item = x /\ table'[x] = [at |-> p.at, readable |-> TRUE]
    <2>1. \A p, q \in P : p.item = q.item => p = q
        BY <1>4
    <2>2. \A x \in Items :
            /\ \A p \in P : p.item = x => Upsert(table, P, TRUE)[x] = [at |-> p.at, readable |-> TRUE]
            /\ (\A p \in P : p.item # x) => Upsert(table, P, TRUE)[x] = table[x]
        BY ONLY <2>1, UpsertIs
    <2> QED
        BY <1>2, <2>2
<1>7. \A e \in Devices, x \in Items : RowArrives(e, x)
    <2> TAKE e \in Devices, x \in Items
    <2>1. CASE \A p \in P : p.item # x
        BY <2>1, <1>2, <1>4, <1>6, ArrivedIs DEF RowArrives
    <2>2. CASE \E p \in P : p.item = x
        <3>1. PICK p \in P : p.item = x /\ table'[x] = [at |-> p.at, readable |-> TRUE]
            BY <2>2, <1>6
        <3>2. At(table'[x], x) = p
            BY <3>1, <1>5
        <3>3. <<e, x>> \in behind' <=> ~After(p, offered[e])
            BY <3>1, <1>2, <1>4, ArrivedIs
        <3> QED
            BY <3>2, <3>3 DEF RowArrives
    <2> QED
        BY <2>1, <2>2
<1>8. PICK r : r = [round[d] EXCEPT !.send = @ \ P, !.sent = @ \cup P]
    OBVIOUS
<1>9. /\ round' = [round EXCEPT ![d] = r] /\ r.send = round[d].send \ P
      /\ r.sent = round[d].sent \cup P /\ r.phase = "pushing" /\ r.moved = round[d].moved
      /\ r.again = round[d].again /\ r.pages = round[d].pages
    <2>1. round' = [round EXCEPT ![d] = r]
        BY <1>2, <1>3, <1>8
    <2> QED
        BY <2>1, <1>2, <1>3, <1>8 DEF Rounds
<1>10. r \in Rounds
    BY <1>3, <1>4, <1>8 DEF Rounds
<1>11. round' \in [Devices -> Rounds] /\ round'[d] = r /\ \A e \in Devices \ {d} : round'[e] = round[e]
    BY <1>3, <1>9, <1>10
<1>12. table' \in [Items -> [at : 0..MaxStamp, readable : BOOLEAN]]
    <2>1. \A x \in Items : table'[x] \in [at : 0..MaxStamp, readable : BOOLEAN]
        <3> TAKE x \in Items
        <3>1. table[x] \in [at : 0..MaxStamp, readable : BOOLEAN]
            BY <1>3 DEF Types, TypeOK
        <3>2. \A p \in P : [at |-> p.at, readable |-> TRUE] \in [at : 0..MaxStamp, readable : BOOLEAN]
            BY <1>5
        <3>3. CASE table'[x] = table[x]
            BY <3>1, <3>3
        <3>4. CASE \E p \in P : table'[x] = [at |-> p.at, readable |-> TRUE]
            BY <3>2, <3>4, Zenon
        <3> QED
            BY <1>6, <3>3, <3>4
    <2>2. table' = [x \in Items |-> table'[x]]
        BY <1>2 DEF Upsert
    <2> QED
        BY <2>1, <2>2
<1>13. behind' \subseteq Devices \X Items
    BY <1>2 DEF Arrived
<1>14. Types'
    BY <1>2, <1>3, <1>11, <1>12, <1>13, RoundFields DEF Types, TypeOK
<1>15. RowsAreStamped'
    <2>1. \A x \in Items : table'[x].readable => table'[x].at > 0
        <3> TAKE x \in Items
        <3>1. CASE table'[x] = table[x]
            BY <3>1 DEF CloudInv, RowsAreStamped
        <3>2. CASE \E p \in P : p.item = x /\ table'[x] = [at |-> p.at, readable |-> TRUE]
            BY <3>2, <1>4
        <3> QED
            BY <1>6, <3>1, <3>2
    <2> QED
        BY <2>1 DEF RowsAreStamped
<1>16. ASSUME NEW e \in Devices, e # d PROVE DeviceInv(e)'
    BY <1>2, <1>3, <1>7, <1>11, <1>14, <1>16, ArrivalKept, OutcomesKept DEF CloudInv
<1>17. DeviceInv(d)'
    <2>1. PICK m : m = mark[d]
        OBVIOUS
    <2>2. m \in Place /\ ~After(m, offered[d]) /\ GotUpTo(d, m, RefusedBy(d)) /\ StaleUpTo(d, m, {})
        BY <1>3, <2>1 DEF DeviceInv, Types, TypeOK
    <2>3. \A x \in Items : table'[x].readable /\ ~After(At(table'[x], x), m)
            => held[d][x] >= table'[x].at \/ <<d, x>> \in behind' \/ At(table'[x], x) \in RefusedBy(d)
        BY <2>2, <1>3, <1>7, <1>14, GotArrives
    <2>4. \A x \in Items : table'[x].readable /\ table'[x].at < held[d][x] /\ ~After(At(table'[x], x), m)
            => x \in Answered(d) \/ <<d, x>> \in behind'
        BY <2>2, <1>3, <1>7, <1>14, StaleArrives
    <2>5. \A x \in Items : x \in Settled(d)' \ Settled(d) => table'[x].at = held[d][x]
        <3>1. Settled(d)' = IF round[d].moved THEN {} ELSE {p.item : p \in round[d].sent \cup P}
            BY <1>9, <1>11 DEF Settled
        <3>2. \A x \in Settled(d)' \ Settled(d) : ~round[d].moved /\ \E p \in P : p.item = x
            BY <3>1 DEF Settled
        <3>3. \A x \in Items : (\E p \in P : p.item = x)
                => \E p \in P : p.item = x /\ table'[x] = [at |-> p.at, readable |-> TRUE]
            BY <1>6
        <3> TAKE x \in Items
        <3> HAVE x \in Settled(d)' \ Settled(d)
        <3>4. PICK p \in P : p.item = x /\ table'[x] = [at |-> p.at, readable |-> TRUE]
            BY <3>2, <3>3
        <3> QED
            BY <3>2, <3>4, <1>4
    <2>6. \A x \in Items : table'[x].at \in Int /\ held[d][x] \in Int
        BY <1>3, <1>12 DEF Types, TypeOK
    <2>7. GotUpTo(d, mark[d], RefusedBy(d))' /\ StaleUpTo(d, mark[d], {})'
        <3>1. /\ mark'[d] = m /\ held'[d] = held[d] /\ unsent'[d] = unsent[d]
              /\ RefusedBy(d)' = RefusedBy(d) /\ RaisedBy(d)' = RaisedBy(d)
            BY <1>2, <2>1, OutcomesKept DEF SameOutcomes
        <3>3. \A x \in Items : x \in Answered(d) /\ table'[x].at < held[d][x] => x \in Answered(d)'
            BY <2>5, <2>6, <3>1 DEF Answered
        <3>2. \A x \in Items : table'[x].readable /\ table'[x].at < held[d][x]
                /\ ~After(At(table'[x], x), m)
                    => x \in Answered(d)' \/ <<d, x>> \in behind'
            BY <2>4, <3>3
        <3> QED
            BY <2>3, <3>1, <3>2 DEF GotUpTo, StaleUpTo, Pos
    <2>8. SendOK(d)'
        BY <1>2, <1>3, <1>9, <1>11 DEF SendOK
    <2>9. PhaseOK(d)'
        BY <2>8, <1>2, <1>3, <1>9, <1>11 DEF PhaseOK, DeviceInv
    <2> QED
        BY <2>7, <2>9, <1>2, <1>3 DEF DeviceInv
<1> QED
    BY <1>14, <1>15, <1>16, <1>17 DEF CloudInv

\* A row nobody of the account can read.
LEMMA UnreadableKept ==
    ASSUME CloudInv, NEW x \in Items, NEW at \in Stamps, UnreadableRow(x, at)
    PROVE  CloudInv'
<1>1. PICK P : P = {[at |-> at, item |-> x]}
    OBVIOUS
<1>2. /\ table' = [table EXCEPT ![x] = [at |-> at, readable |-> FALSE]] /\ behind' = Arrived(P)
      /\ UNCHANGED <<now, held, unsent, mark, round, offered, refused, raised>>
    BY <1>1 DEF UnreadableRow, outcomes
<1>3. Types /\ table \in [Items -> [at : 0..MaxStamp, readable : BOOLEAN]] /\ MaxStamp \in Nat
    BY CloudTableAssumption DEF CloudInv, Types, TypeOK
<1>4. /\ table' \in [Items -> [at : 0..MaxStamp, readable : BOOLEAN]] /\ ~table'[x].readable
      /\ \A y \in Items \ {x} : table'[y] = table[y]
    BY <1>2, <1>3 DEF Stamps
<1>5. \A e \in Devices, y \in Items : y # x => (<<e, y>> \in behind' <=> <<e, y>> \in behind)
    <2>1. \A p, q \in P : p.item = q.item => p = q
        BY <1>1
    <2>2. \A e \in Devices, y \in Items :
            (\A p \in P : p.item # y) => (<<e, y>> \in Arrived(P) <=> <<e, y>> \in behind)
        BY ONLY <2>1, ArrivedIs
    <2>3. \A p \in P : p.item = x
        BY <1>1
    <2> QED
        BY <1>2, <2>2, <2>3
<1>6. \A e \in Devices, y \in Items : RowArrives(e, y)
    BY <1>4, <1>5 DEF RowArrives
<1>7. behind' \subseteq Devices \X Items
    BY <1>2 DEF Arrived
<1>8. Types'
    BY <1>2, <1>3, <1>4, <1>7 DEF Types, TypeOK
<1>9. RowsAreStamped'
    BY <1>4 DEF CloudInv, RowsAreStamped
<1>10. \A e \in Devices : DeviceInv(e)'
    BY <1>2, <1>3, <1>6, <1>8, ArrivalKept, OutcomesKept DEF CloudInv
<1> QED
    BY <1>8, <1>9, <1>10 DEF CloudInv

\* A row that is purged.
LEMMA PurgeKept ==
    ASSUME CloudInv, NEW x \in Items, Purge(x)
    PROVE  CloudInv'
<1>1. /\ table' = [table EXCEPT ![x] = NoRow]
      /\ UNCHANGED <<now, held, unsent, mark, round, offered, behind, refused, raised>>
    BY DEF Purge, outcomes
<1>2. Types /\ table \in [Items -> [at : 0..MaxStamp, readable : BOOLEAN]] /\ MaxStamp \in Nat
    BY CloudTableAssumption DEF CloudInv, Types, TypeOK
<1>3. /\ table' \in [Items -> [at : 0..MaxStamp, readable : BOOLEAN]] /\ ~table'[x].readable
      /\ \A y \in Items \ {x} : table'[y] = table[y]
    BY <1>1, <1>2 DEF NoRow
<1>4. \A e \in Devices, y \in Items : RowArrives(e, y)
    BY <1>1, <1>3 DEF RowArrives
<1>5. Types'
    BY <1>1, <1>2, <1>3 DEF Types, TypeOK
<1>6. RowsAreStamped'
    BY <1>3 DEF CloudInv, RowsAreStamped
<1>7. \A e \in Devices : DeviceInv(e)'
    BY <1>1, <1>2, <1>4, <1>5, ArrivalKept, OutcomesKept DEF CloudInv
<1> QED
    BY <1>5, <1>6, <1>7 DEF CloudInv

(***************************************************************************)
(* The pull.                                                               *)
(***************************************************************************)

\* The parts of FetchPage: the rows it takes up after a cursor, those from before
\* the horizon, the batch, the rows that advance, and where they bring the device.
Fetched(c) == FirstOf({p \in Positions(table) : After(p, c)}, PageLimit)
Plausible(c) == {p \in Fetched(c) : p.at <= now + Skew}
Batch(c) == {p \in Plausible(c) : table[p.item].readable}
Advancing(c) == {p \in Plausible(c) \ Batch(c) : RefusalAdvances(p)} \cup Batch(c)
Reached(c) == AdvancePast(c, LastOf(Advancing(c), c))
OfferedBy(c, o) ==
    AdvancePast(o, LastOf({p \in Plausible(c) : p \in Batch(c) \/ p.at <= now}, o))

\* Where a page brings its device: no further than what it was offered, and every
\* readable row up to there that lies past the cursor is on the page.
LEMMA PageReaches ==
    ASSUME Types, RowsAreStamped, NEW c \in Place, NEW o \in Place, ~After(c, o),
           NEW b, b = Batch(c), NEW a, a = Reached(c), NEW n, n = OfferedBy(c, o)
    PROVE  /\ b \subseteq Place /\ IsFiniteSet(b) /\ a \in Place /\ n \in Place
           /\ ~After(c, a) /\ ~After(a, n) /\ ~After(o, n)
           /\ \A p \in b : p.item \in Items /\ Pos(p.item) = p
           /\ \A x \in Items : table[x].readable /\ After(Pos(x), c) /\ ~After(Pos(x), a)
                => Pos(x) \in b
<1> DEFINE F == Fetched(c)
           pl == Plausible(c)
           R == Advancing(c)
<1>1. PICK P : P = {p \in Positions(table) : After(p, c)}
    OBVIOUS
<1>2. Positions(table) \subseteq Place /\ IsFiniteSet(Positions(table))
    BY RowsAreFinite DEF Types, TypeOK
<1>3. P \subseteq Positions(table) /\ P \in SUBSET Place /\ IsFiniteSet(P)
    <2>1. P \subseteq Positions(table)
        BY <1>1
    <2> QED
        BY <2>1, <1>2, FS_Subset
<1>4. F = FirstOf(P, PageLimit) /\ F \subseteq P
    BY <1>1 DEF FirstOf, Fetched
<1>5. /\ pl = {p \in F : p.at <= now + Skew} /\ b = {p \in pl : table[p.item].readable}
      /\ R = {p \in pl \ b : RefusalAdvances(p)} \cup b
      /\ a = AdvancePast(c, LastOf(R, c))
      /\ n = AdvancePast(o, LastOf({p \in pl : p \in b \/ p.at <= now}, o))
    BY DEF Plausible, Batch, Advancing, Reached, OfferedBy
<1> HIDE DEF F, pl, R
<1>parts. pl \subseteq F /\ b \subseteq pl /\ R \subseteq pl /\ b \subseteq R
    BY <1>5
<1>6. R \in SUBSET Place /\ IsFiniteSet(R) /\ b \subseteq Place /\ IsFiniteSet(b)
    <2>1. R \subseteq P /\ b \subseteq P
        BY <1>4, <1>parts
    <2>2. IsFiniteSet(R) /\ IsFiniteSet(b)
        BY ONLY <2>1, <1>3, FS_Subset
    <2> QED
        BY ONLY <2>1, <2>2, <1>3
<1>7. {p \in pl : p \in b \/ p.at <= now} = R
    BY <1>5 DEF RefusalAdvances
<1>8. n = AdvancePast(o, LastOf(R, o))
    BY <1>5, <1>7
<1>9. CASE R = {}
    <2>1. LastOf(R, c) = c /\ LastOf(R, o) = o
        BY <1>9 DEF LastOf
    <2>2. a = c /\ n = o
        BY <2>1, <1>5, <1>8 DEF AdvancePast
    <2>3. b = {}
        BY <1>parts, <1>9
    <2> QED
        BY <2>2, <2>3, <1>6, PositionsAreOrdered
<1>10. CASE R # {}
    <2>1. PICK l : l = LastOf(R, c)
        OBVIOUS
    <2>2. LastOf(R, o) = l
        BY <2>1, <1>10 DEF LastOf
    <2>3. l \in R /\ l \in Place
        BY <2>1, <1>6, <1>10, LastIs
    <2>a. a = AdvancePast(c, l) /\ c \in Place
        BY <1>5, <2>1
    <2>4. /\ a \in Place /\ ~After(c, a) /\ ~After(l, a) /\ a \in {c, l}
        BY ONLY <2>a, <2>3, AdvanceIs
    <2>5. /\ n \in Place /\ ~After(o, n) /\ ~After(l, n)
        BY <1>8, <2>2, <2>3, AdvanceIs
    <2>6. ~After(a, n)
        BY <2>3, <2>4, <2>5, PositionsAreOrdered
    <2>7. \A p \in b : p.item \in Items /\ Pos(p.item) = p
        <3>1. \A p \in b : p \in Positions(table)
            BY <1>3, <1>4, <1>parts
        <3>2. \A p \in Positions(table) : p.item \in Items /\ Pos(p.item) = p
            BY DEF Positions, Pos, At
        <3> QED
            BY <3>1, <3>2
    <2>8. ASSUME NEW x \in Items, table[x].readable, After(Pos(x), c), ~After(Pos(x), a)
          PROVE  Pos(x) \in b
        <3>1. Pos(x) \in Place /\ Pos(x).item = x
            BY DEF Types, TypeOK, Place, Pos, At
        <3>2. Pos(x) \in P
            <4>1. table[x].at > 0
                BY <2>8 DEF RowsAreStamped
            <4>2. Pos(x) \in Positions(table)
                BY <4>1 DEF Positions, Pos
            <4> QED
                BY <4>2, <2>8, <1>1
        <3>3. a = l
            BY <2>4, <2>8
        <3>4. Pos(x) \in FirstOf(P, PageLimit)
            <4>1. l \in FirstOf(P, PageLimit) /\ PageLimit \in Nat
                BY <1>4, <1>parts, <2>3, CloudTableAssumption
            <4>2. ~After(Pos(x), l)
                BY <2>8, <3>3
            <4> QED
                BY <4>1, <4>2, <1>3, <3>2, FirstAreFirst
        <3>5. Pos(x).at <= l.at
            <4>1. Pos(x).at \in 0..MaxStamp /\ l.at \in 0..MaxStamp
                BY <3>1, <2>3 DEF Place
            <4> QED
                BY <4>1, <2>8, <3>3, CloudTableAssumption DEF After
        <3>6. l.at <= now + Skew
            BY <1>5, <1>parts, <2>3
        <3>7. Pos(x).at <= now + Skew
            <4>1. Pos(x).at \in 0..MaxStamp /\ l.at \in 0..MaxStamp /\ now \in 1..MaxStamp
                BY <3>1, <2>3 DEF Place, Types, TypeOK, Stamps
            <4> QED
                BY <4>1, <3>5, <3>6, CloudTableAssumption
        <3> QED
            BY <1>4, <1>5, <2>8, <3>1, <3>4, <3>7
    <2> QED
        BY <1>6, <2>4, <2>5, <2>6, <2>7, <2>8
<1> QED
    BY <1>9, <1>10

\* A page is fetched: the watermark stays, the rows up to where the page brings
\* the device are on it.
LEMMA FetchKept ==
    ASSUME CloudInv, NEW d \in Devices, FetchPage(d)
    PROVE  CloudInv'
<1>1. PICK c, o : c = round[d].cursor /\ o = offered[d]
    OBVIOUS
<1>2. PICK b, a, n :
        /\ b = Batch(round[d].cursor) /\ a = Reached(round[d].cursor)
        /\ n = OfferedBy(round[d].cursor, offered[d])
    OBVIOUS
<1>3. b = Batch(c) /\ a = Reached(c) /\ n = OfferedBy(c, o)
    BY <1>1, <1>2
<1> DEFINE applying == [round[d] EXCEPT
                        !.phase = "applying", !.page = Batch(round[d].cursor), !.declined = {},
                        !.advanced = Reached(round[d].cursor),
                        !.full = Cardinality(Fetched(round[d].cursor)) = PageLimit,
                        !.pages = round[d].pages + 1]
<1>9. PICK r : r = applying
    OBVIOUS
<1>10. /\ round[d].phase = "pulling" /\ round' = [round EXCEPT ![d] = r]
       /\ offered' = [offered EXCEPT ![d] = n]
       /\ UNCHANGED <<now, table, held, unsent, mark, behind, refused, raised>>
    <2>1. /\ round[d].phase = "pulling"
          /\ round' = [round EXCEPT ![d] = applying]
          /\ offered' = [offered EXCEPT ![d] = OfferedBy(round[d].cursor, @)]
          /\ UNCHANGED <<now, table, held, unsent, mark, behind, refused, raised>>
        BY DEF FetchPage, outcomes, Fetched, Plausible, Batch, Advancing, Reached, OfferedBy
    <2>2. offered \in [Devices -> Place] /\ round \in [Devices -> Rounds]
        BY DEF CloudInv, Types, TypeOK
    <2>3. offered' = [offered EXCEPT ![d] = n]
        BY <2>1, <2>2, <1>2
    <2>4. round' = [round EXCEPT ![d] = r]
        <3> HIDE DEF applying
        <3> QED
            BY <2>1, <1>9
    <2> QED
        BY <2>1, <2>3, <2>4
<1>11. /\ Types /\ RowsAreStamped /\ DeviceInv(d) /\ round[d] \in Rounds
       /\ round \in [Devices -> Rounds] /\ offered \in [Devices -> Place]
       /\ unsent \in [Devices -> SUBSET Items] /\ mark[d] \in Place
    BY RoundIs DEF CloudInv, Types, TypeOK
<1>12. c = mark[d] /\ c \in Place /\ o \in Place /\ ~After(c, o) /\ round[d].pages < MaxPages
    BY <1>1, <1>10, <1>11 DEF DeviceInv, PhaseOK
<1>13. /\ b \subseteq Place /\ IsFiniteSet(b) /\ a \in Place /\ n \in Place
       /\ ~After(c, a) /\ ~After(a, n) /\ ~After(o, n)
       /\ \A p \in b : p.item \in Items /\ Pos(p.item) = p
       /\ \A x \in Items : table[x].readable /\ After(Pos(x), c) /\ ~After(Pos(x), a)
                => Pos(x) \in b
    BY <1>3, <1>11, <1>12, PageReaches
<1>14. /\ r.phase = "applying" /\ r.page = b /\ r.declined = {} /\ r.advanced = a
       /\ r.cursor = c /\ r.moved = round[d].moved /\ r.sent = round[d].sent
    BY <1>1, <1>2, <1>9, <1>11 DEF Rounds
<1>15. r \in Rounds
    <2>1. round[d].pages + 1 \in 0..MaxPages
        <3>1. round[d].pages \in 0..MaxPages
            BY <1>11 DEF Rounds
        <3> QED
            BY <3>1, <1>12, CloudTableAssumption
    <2>2. "applying" \in Phases /\ {} \subseteq Place
        BY DEF Phases
    <2> QED
        BY <2>1, <2>2, <1>2, <1>9, <1>11, <1>13 DEF Rounds
<1>16. /\ round' \in [Devices -> Rounds] /\ round'[d] = r
       /\ \A e \in Devices \ {d} : round'[e] = round[e]
    BY <1>10, <1>11, <1>15
<1>17. /\ offered' \in [Devices -> Place] /\ offered'[d] = n
       /\ \A e \in Devices \ {d} : offered'[e] = offered[e]
    BY <1>10, <1>11, <1>13
<1>18. Types'
    BY <1>10, <1>11, <1>16, <1>17, RoundFields DEF Types, TypeOK
<1>19. Answered(d)' = Answered(d) /\ RefusedBy(d)' = RefusedBy(d)
    <2>1. Settled(d)' = Settled(d)
        BY <1>14, <1>16 DEF Settled
    <2> QED
        BY <2>1, <1>10, OutcomesKept DEF Answered, SameOutcomes
<1>20. \A x \in Items : Pos(x)' = Pos(x)
    BY <1>10 DEF Pos
<1>21. GotUpTo(d, c, RefusedBy(d)) /\ StaleUpTo(d, c, {})
    BY <1>11, <1>12 DEF DeviceInv
<1>22. \A x \in Items : table[x].readable /\ ~After(Pos(x), a)
            => held[d][x] >= table[x].at \/ <<d, x>> \in behind
                \/ Pos(x) \in b \cup RefusedBy(d)
    BY <1>13, <1>21 DEF GotUpTo
<1>23. \A x \in Items : table[x].readable /\ table[x].at < held[d][x] /\ ~After(Pos(x), a)
            => x \in Answered(d) \/ <<d, x>> \in behind \/ Pos(x) \in b
    BY <1>13, <1>21 DEF StaleUpTo
<1>24. PageOK(d)'
    <2>1. PageIsCurrent(d)'
        BY <1>10, <1>13, <1>14, <1>16, <1>20 DEF PageIsCurrent
    <2>2. GotUpTo(d, round[d].advanced, round[d].page \cup RefusedBy(d))'
        BY <1>10, <1>14, <1>16, <1>19, <1>20, <1>22 DEF GotUpTo
    <2>3. StaleUpTo(d, round[d].advanced, round[d].page \cup round[d].declined)'
        BY <1>10, <1>14, <1>16, <1>19, <1>20, <1>23 DEF StaleUpTo
    <2> QED
        BY <2>1, <2>2, <2>3, <1>13, <1>14, <1>16, <1>17 DEF PageOK
<1>25. PhaseOK(d)'
    BY <1>10, <1>12, <1>14, <1>16, <1>24 DEF PhaseOK
<1>26. ~After(c, n)
    BY <1>12, <1>13, PositionsAreOrdered
<1>27. GotUpTo(d, mark[d], RefusedBy(d))' /\ StaleUpTo(d, mark[d], {})'
    BY <1>10, <1>12, <1>19, <1>20, <1>21 DEF GotUpTo, StaleUpTo
<1>28. DeviceInv(d)'
    BY <1>10, <1>12, <1>17, <1>25, <1>26, <1>27 DEF DeviceInv
<1>29. OnlyOf(d)
    BY <1>10, <1>16, <1>17, OutcomesKept DEF OnlyOf
<1> QED
    BY <1>18, <1>28, <1>29, OneDeviceKept

\* The row that is applied is one of the page.
LEMMA AppliedIs ==
    ASSUME CloudInv, NEW d \in Devices, NEW p, NEW at, Apply(d, p, at), round[d].page # {}
    PROVE  /\ p \in round[d].page /\ p \in Place /\ p.item \in Items
           /\ p.at \in 0..MaxStamp /\ held[d][p.item] \in 0..MaxStamp
<1>1. /\ round[d] \in Rounds /\ held \in [Devices -> [Items -> 0..MaxStamp]]
    BY RoundIs DEF CloudInv, Types, TypeOK
<1>2. PageOK(d) /\ p = NextOf(round[d].page)
    BY DEF Apply, CloudInv, DeviceInv, PhaseOK
<1>3. round[d].page \in SUBSET Place /\ IsFiniteSet(round[d].page)
    BY <1>1, <1>2 DEF Rounds, PageOK
<1>4. p \in round[d].page
    BY <1>2, <1>3, NextIs
<1>5. p.item \in Items
    BY <1>2, <1>4 DEF PageOK, PageIsCurrent
<1> QED
    BY <1>1, <1>3, <1>4, <1>5 DEF Place

\* A row of the page is applied: it is held now, declined or refused, and what
\* replaced it in the table meanwhile lies past the page or behind the device.
LEMMA AppliedKept ==
    ASSUME CloudInv, NEW d \in Devices, NEW p, round[d].page # {},
           NEW new \in 0..MaxStamp, Apply(d, p, new), new >= held[d][p.item],
           new > held[d][p.item] => p.at > held[d][p.item],
           new >= p.at \/ p \in RefusedBy(d)',
           new = held[d][p.item] \/ new = p.at \/ <<p.item, new>> \in RaisedBy(d)',
           refused' \subseteq Devices \X Place, raised' \subseteq Devices \X Items \X Stamps,
           RefusedBy(d) \subseteq RefusedBy(d)', RaisedBy(d) \subseteq RaisedBy(d)',
           \A e \in Devices \ {d} : SameOutcomes(e)
    PROVE  CloudInv'
<1>1. p = NextOf(round[d].page)
    BY DEF Apply
<1>2. PICK pg, de, a, c : /\ pg = round[d].page /\ de = round[d].declined
                          /\ a = round[d].advanced /\ c = round[d].cursor
    OBVIOUS
<1>4. PICK de2 : de2 = IF new > held[d][p.item] THEN de ELSE de \cup {p}
    OBVIOUS
<1>5. /\ Types /\ DeviceInv(d) /\ round[d] \in Rounds /\ round \in [Devices -> Rounds]
      /\ held \in [Devices -> [Items -> 0..MaxStamp]] /\ mark[d] \in Place
      /\ unsent \in [Devices -> SUBSET Items]
    BY RoundIs DEF CloudInv, Types, TypeOK
<1>6. /\ round[d].phase = "applying" /\ pg # {}
      /\ held' = [held EXCEPT ![d][p.item] = new]
      /\ round' = [round EXCEPT ![d].page = pg \ {p}, ![d].declined = de2]
      /\ UNCHANGED <<now, table, unsent, mark, offered, behind>>
    BY <1>1, <1>2, <1>4, <1>5 DEF Apply
<1>7. /\ PageOK(d) /\ c = mark[d] /\ IsFiniteSet(pg) /\ ~After(c, a)
      /\ GotUpTo(d, a, pg \cup RefusedBy(d)) /\ StaleUpTo(d, a, pg \cup de)
      /\ GotUpTo(d, c, RefusedBy(d)) /\ StaleUpTo(d, c, {})
    BY <1>2, <1>5, <1>6 DEF DeviceInv, PhaseOK, PageOK
<1>8. pg \in SUBSET Place /\ de \in SUBSET Place /\ a \in Place /\ c \in Place
    BY <1>2, <1>5 DEF Rounds
<1>9. p \in pg /\ p \in Place /\ p.at \in 0..MaxStamp
    <2>1. p \in pg
        BY <1>1, <1>2, <1>6, <1>7, <1>8, NextIs
    <2> QED
        BY <2>1, <1>8 DEF Place
<1>10. /\ p.item \in Items
       /\ table[p.item].readable => \/ Pos(p.item) = p
                                    \/ After(Pos(p.item), a)
                                    \/ <<d, p.item>> \in behind
    BY <1>2, <1>7, <1>9 DEF PageOK, PageIsCurrent
<1>11. /\ held[d] \in [Items -> 0..MaxStamp] /\ held[d][p.item] \in 0..MaxStamp
       /\ new \in 0..MaxStamp /\ new >= held[d][p.item]
    BY <1>5, <1>10
<1>12. /\ held' \in [Devices -> [Items -> 0..MaxStamp]]
       /\ held'[d] = [held[d] EXCEPT ![p.item] = new]
       /\ \A e \in Devices \ {d} : held'[e] = held[e]
    BY <1>5, <1>6, <1>10, <1>11
<1>13. \A y \in Items :
        /\ held'[d][y] \in Int /\ held[d][y] \in Int /\ table[y].at \in Int
        /\ held'[d][y] >= held[d][y]
        /\ y # p.item => held'[d][y] = held[d][y]
        /\ held'[d][p.item] = new
        /\ Pos(y).item = y /\ Pos(y).at = table[y].at /\ Pos(y) \in Place
    <2>1. \A y \in Items : table[y].at \in 0..MaxStamp
        BY <1>5 DEF Types, TypeOK
    <2>2. \A y \in Items : Pos(y).item = y /\ Pos(y).at = table[y].at /\ Pos(y) \in Place
        BY <2>1 DEF Pos, At, Place
    <2> QED
        <3>1. \A y \in Items : held'[d][y] = IF y = p.item THEN new ELSE held[d][y]
            BY <1>10, <1>11, <1>12
        <3>2. \A y \in Items : held[d][y] \in 0..MaxStamp /\ MaxStamp \in Nat
            BY <1>11, CloudTableAssumption
        <3> QED
            BY <2>1, <2>2, <3>1, <3>2, <1>10, <1>11
<1>14. PICK r : r = [round[d] EXCEPT !.page = pg \ {p}, !.declined = de2]
    OBVIOUS
<1>15. /\ r.phase = "applying" /\ r.page = pg \ {p} /\ r.declined = de2 /\ r.advanced = a
       /\ r.cursor = c /\ r.moved = round[d].moved /\ r.sent = round[d].sent /\ r \in Rounds
    <2>1. de2 \in SUBSET Place /\ pg \ {p} \in SUBSET Place
        BY <1>4, <1>8, <1>9
    <2> QED
        BY <2>1, <1>2, <1>5, <1>6, <1>14 DEF Rounds
<1>16. round' = [round EXCEPT ![d] = r]
    BY <1>5, <1>6, <1>14
<1>17. /\ round' \in [Devices -> Rounds] /\ round'[d] = r
       /\ \A e \in Devices \ {d} : round'[e] = round[e]
    BY <1>5, <1>15, <1>16
<1>18. \A e \in Devices : \A y \in unsent'[e] : held'[e][y] > 0
    <2> TAKE e \in Devices
    <2> TAKE y \in unsent'[e]
    <2>1. y \in Items /\ held[e][y] > 0
        BY <1>5, <1>6 DEF Types, TypeOK
    <2>2. CASE e = d
        BY <2>1, <2>2, <1>13
    <2>3. CASE e # d
        BY <2>1, <2>3, <1>12
    <2> QED
        BY <2>2, <2>3
<1>19. Types'
    BY <1>5, <1>6, <1>12, <1>17, <1>18, RoundFields DEF Types, TypeOK
<1>20. Settled(d)' = Settled(d) /\ \A x \in Items : Pos(x)' = Pos(x)
    BY <1>6, <1>15, <1>17 DEF Settled, Pos
<1>a. \A x \in Items : x \in Answered(d) /\ held'[d][x] = held[d][x] => x \in Answered(d)'
    <2>1. Answered(d) = (unsent[d] \ Settled(d)) \cup {x \in Items : <<x, held[d][x]>> \in RaisedBy(d)}
        BY DEF Answered
    <2>2. Answered(d)' = (unsent[d] \ Settled(d))
                            \cup {x \in Items : <<x, held'[d][x]>> \in RaisedBy(d)'}
        BY <1>6, <1>20 DEF Answered
    <2> QED
        BY <2>1, <2>2
<1>b. <<p.item, held'[d][p.item]>> \in RaisedBy(d)' => p.item \in Answered(d)'
    BY <1>10 DEF Answered
<1>21. \A x \in Items : table[x].readable /\ ~After(Pos(x), c)
        => held'[d][x] >= table[x].at \/ <<d, x>> \in behind \/ Pos(x) \in RefusedBy(d)'
    BY <1>7, <1>13 DEF GotUpTo
<1>22. \A x \in Items : table[x].readable /\ ~After(Pos(x), a)
        => \/ held'[d][x] >= table[x].at \/ <<d, x>> \in behind
           \/ Pos(x) \in (pg \ {p}) \cup RefusedBy(d)'
    <2> TAKE x \in Items
    <2> HAVE table[x].readable /\ ~After(Pos(x), a)
    <2>1. held[d][x] >= table[x].at \/ <<d, x>> \in behind \/ Pos(x) \in pg \cup RefusedBy(d)
        BY <1>7 DEF GotUpTo
    <2>2. Pos(x) = p => x = p.item /\ (held'[d][x] >= table[x].at \/ p \in RefusedBy(d)')
        BY <1>11, <1>13
    <2> QED
        BY <2>1, <2>2, <1>13
<1>23. ASSUME NEW x \in Items, table[x].readable, table[x].at < held'[d][x],
              held'[d][x] # held[d][x]
       PROVE  After(Pos(x), a) \/ <<d, x>> \in behind \/ x \in Answered(d)'
    <2>1. x = p.item /\ held'[d][x] = new /\ new # held[d][x]
        BY <1>13, <1>23
    <2>2. CASE new = p.at
        <3>1. Pos(x) # p
            BY <1>13, <1>23, <2>1, <2>2
        <3> QED
            BY <2>1, <3>1, <1>10, <1>23
    <2>3. CASE <<p.item, new>> \in RaisedBy(d)'
        BY <2>1, <2>3, <1>b
    <2> QED
        BY <2>1, <2>2, <2>3
<1>24. \A x \in Items : After(Pos(x), a) => After(Pos(x), c)
    BY <1>7, <1>8, <1>13, PositionsAreOrdered
<1>25. \A x \in Items : table[x].readable /\ table[x].at < held'[d][x]
        => x \in Answered(d)' \/ After(Pos(x), c) \/ <<d, x>> \in behind
    BY <1>a, <1>7, <1>23, <1>24 DEF StaleUpTo
<1>26. \A x \in Items : table[x].readable /\ table[x].at < held'[d][x]
        => \/ x \in Answered(d)' \/ After(Pos(x), a) \/ <<d, x>> \in behind
           \/ Pos(x) \in (pg \ {p}) \cup de2
    <2> TAKE x \in Items
    <2> HAVE table[x].readable /\ table[x].at < held'[d][x]
    <2>1. CASE held'[d][x] # held[d][x]
        BY <2>1, <1>23
    <2>2. CASE held'[d][x] = held[d][x]
        <3>1. \/ x \in Answered(d) \/ After(Pos(x), a) \/ <<d, x>> \in behind
              \/ Pos(x) \in pg \cup de
            BY <2>2, <1>7 DEF StaleUpTo
        <3>2. Pos(x) = p => p \in de2
            BY <1>4, <1>13, <2>2, <1>9, <1>11
        <3>3. de \subseteq de2
            BY <1>4
        <3> QED
            BY <3>1, <3>2, <3>3, <2>2, <1>a
    <2> QED
        BY <2>1, <2>2
<1>27. PageOK(d)'
    <2>1. PageIsCurrent(d)'
        <3>1. \A q \in pg : /\ q.item \in Items
                            /\ table[q.item].readable => \/ Pos(q.item) = q
                                                         \/ After(Pos(q.item), a)
                                                         \/ <<d, q.item>> \in behind
            BY <1>2, <1>7 DEF PageOK, PageIsCurrent
        <3>2. round'[d].advanced = a /\ round'[d].page = pg \ {p}
            BY <1>15, <1>17
        <3> QED
            BY <3>1, <3>2, <1>6, <1>20 DEF PageIsCurrent
    <2>2. GotUpTo(d, round[d].advanced, round[d].page \cup RefusedBy(d))'
        <3>1. round'[d].advanced = a /\ round'[d].page = pg \ {p} /\ table' = table /\ behind' = behind
            BY <1>6, <1>15, <1>17
        <3> QED
            BY <3>1, <1>20, <1>22 DEF GotUpTo
    <2>3. StaleUpTo(d, round[d].advanced, round[d].page \cup round[d].declined)'
        <3>1. /\ round'[d].advanced = a
              /\ round'[d].page \cup round'[d].declined = (pg \ {p}) \cup de2
              /\ table' = table /\ unsent' = unsent /\ behind' = behind
            BY <1>6, <1>15, <1>17
        <3> QED
            BY <3>1, <1>20, <1>26 DEF StaleUpTo
    <2>4. IsFiniteSet(pg \ {p})
        BY <1>7, FS_Subset
    <2> QED
        BY <2>1, <2>2, <2>3, <2>4, <1>2, <1>6, <1>7, <1>15, <1>17 DEF PageOK
<1>28. PhaseOK(d)'
    BY <1>6, <1>7, <1>15, <1>17, <1>27 DEF PhaseOK
<1>29. GotUpTo(d, mark[d], RefusedBy(d))' /\ StaleUpTo(d, mark[d], {})'
    BY <1>6, <1>7, <1>20, <1>21, <1>25 DEF GotUpTo, StaleUpTo
<1>30. DeviceInv(d)'
    BY <1>5, <1>6, <1>28, <1>29 DEF DeviceInv
<1>31. OnlyOf(d)
    BY <1>6, <1>12, <1>17 DEF OnlyOf
<1> QED
    BY <1>19, <1>30, <1>31, OneDeviceKept

\* A row that is stored, or declined as it is not newer.
LEMMA ApplyKept ==
    ASSUME CloudInv, NEW d \in Devices, ApplyRow(d)
    PROVE  CloudInv'
<1>1. PICK p, new : /\ p = NextOf(round[d].page)
                    /\ new = IF p.at > held[d][p.item] THEN p.at ELSE held[d][p.item]
    OBVIOUS
<1>2. Apply(d, p, new) /\ round[d].page # {} /\ UNCHANGED <<refused, raised>>
    BY <1>1 DEF ApplyRow, outcomes
<1>3. p.at \in 0..MaxStamp /\ held[d][p.item] \in 0..MaxStamp
    BY <1>1, <1>2, AppliedIs
<1>4. /\ new \in 0..MaxStamp /\ new >= held[d][p.item] /\ new >= p.at
      /\ new > held[d][p.item] => p.at > held[d][p.item]
      /\ new = held[d][p.item] \/ new = p.at
    BY <1>1, <1>3, CloudTableAssumption
<1>5. \A e : SameOutcomes(e)
    BY <1>2, OutcomesKept
<1>6. /\ refused' \subseteq Devices \X Place /\ raised' \subseteq Devices \X Items \X Stamps
      /\ RefusedBy(d) \subseteq RefusedBy(d)' /\ RaisedBy(d) \subseteq RaisedBy(d)'
    BY <1>2, <1>5 DEF SameOutcomes, CloudInv, Types, TypeOK
<1> QED
    BY <1>2, <1>4, <1>5, <1>6, AppliedKept

\* A newer row that the device would not store.
LEMMA RefuseKept ==
    ASSUME CloudInv, NEW d \in Devices, RefuseRow(d)
    PROVE  CloudInv'
<1>1. PICK p, new : p = NextOf(round[d].page) /\ new = held[d][p.item]
    OBVIOUS
<1>2. /\ Apply(d, p, new) /\ round[d].page # {}
      /\ refused' = refused \cup {<<d, p>>} /\ UNCHANGED raised
    BY <1>1 DEF RefuseRow
<1>3. p \in Place /\ held[d][p.item] \in 0..MaxStamp
    BY <1>1, <1>2, AppliedIs
<1>4. new \in 0..MaxStamp /\ new >= held[d][p.item] /\ ~(new > held[d][p.item])
    BY <1>1, <1>3, CloudTableAssumption
<1>5. /\ refused' \subseteq Devices \X Place /\ raised' \subseteq Devices \X Items \X Stamps
      /\ p \in RefusedBy(d)' /\ RefusedBy(d) \subseteq RefusedBy(d)'
      /\ \A e \in Devices \ {d} : RefusedBy(e)' = RefusedBy(e)
    BY <1>2, <1>3 DEF RefusedBy, CloudInv, Types, TypeOK
<1>6. \A e \in Devices : RaisedBy(e)' = RaisedBy(e)
    BY <1>2 DEF RaisedBy
<1>7. \A e \in Devices \ {d} : SameOutcomes(e)
    BY <1>5, <1>6 DEF SameOutcomes
<1> QED
    BY <1>1, <1>2, <1>4, <1>5, <1>6, <1>7, AppliedKept

\* A newer row that is stored above its stamp.
LEMMA RaiseKept ==
    ASSUME CloudInv, NEW d \in Devices, RaiseRow(d)
    PROVE  CloudInv'
<1>1. PICK p, new : p = NextOf(round[d].page) /\ new = p.at + 1
    OBVIOUS
<1>2. /\ Apply(d, p, new) /\ round[d].page # {} /\ p.at > held[d][p.item] /\ p.at < MaxStamp
      /\ raised' = raised \cup {<<d, p.item, new>>} /\ UNCHANGED refused
    BY <1>1 DEF RaiseRow
<1>3. p \in Place /\ p.item \in Items /\ p.at \in 0..MaxStamp /\ held[d][p.item] \in 0..MaxStamp
    BY <1>1, <1>2, AppliedIs
<1>4. /\ new \in 0..MaxStamp /\ new \in Stamps /\ new >= held[d][p.item] /\ new >= p.at
    BY <1>1, <1>2, <1>3, CloudTableAssumption DEF Stamps
<1>5. /\ refused' \subseteq Devices \X Place /\ raised' \subseteq Devices \X Items \X Stamps
      /\ <<p.item, new>> \in RaisedBy(d)' /\ RaisedBy(d) \subseteq RaisedBy(d)'
      /\ \A e \in Devices \ {d} : RaisedBy(e)' = RaisedBy(e)
    BY <1>2, <1>3, <1>4 DEF RaisedBy, CloudInv, Types, TypeOK
<1>6. \A e \in Devices : RefusedBy(e)' = RefusedBy(e)
    BY <1>2 DEF RefusedBy
<1>7. \A e \in Devices \ {d} : SameOutcomes(e)
    BY <1>5, <1>6 DEF SameOutcomes
<1> QED
    BY <1>2, <1>4, <1>5, <1>6, <1>7, AppliedKept

\* What the declined rows of a page owe: versions the device holds.
LEMMA WinnersAre ==
    ASSUME Types, NEW d \in Devices
    PROVE  /\ LocalWinners(d) \subseteq Items
           /\ \A x \in LocalWinners(d) : held[d][x] > 0
<1>1. \A p \in round[d].declined : p.at \in 0..MaxStamp
    <2>1. round[d].declined \subseteq Place
        BY DEF Types, TypeOK
    <2> QED
        BY <2>1 DEF Place
<1>2. held[d] \in [Items -> 0..MaxStamp] /\ MaxStamp \in Nat
    BY CloudTableAssumption DEF Types, TypeOK
<1>3. ASSUME NEW x \in LocalWinners(d) PROVE held[d][x] > 0
    <2>1. PICK p \in round[d].declined : p.item = x /\ held[d][x] > p.at
        BY DEF LocalWinners
    <2>2. x \in Items
        BY DEF LocalWinners
    <2> QED
        BY <1>1, <1>2, <2>1, <2>2
<1> QED
    BY <1>3 DEF LocalWinners

\* The round after a page, in its three cases.
RoundAfter(d, w) ==
    LET more == round[d].full /\ round[d].advanced # round[d].cursor /\ round[d].pages < MaxPages
        again == round[d].again \/ w # {}
    IN  IF more
        THEN [round[d] EXCEPT !.phase = "pulling", !.cursor = round[d].advanced,
                              !.again = again, !.moved = round[d].moved \/ w # {}]
        ELSE IF again
        THEN [round[d] EXCEPT !.phase = "pushing", !.again = TRUE, !.moved = FALSE,
                              !.send = {[at |-> held[d][x], item |-> x] : x \in unsent[d] \cup w},
                              !.sent = {}]
        ELSE [round[d] EXCEPT !.phase = "committing"]

\* What the three cases have: a cursor at the new watermark and pages left, or
\* everything owed to send, or nothing that won.
LEMMA RoundAfterIs ==
    ASSUME Types, NEW d \in Devices, NEW w \in SUBSET Items, \A x \in w : held[d][x] > 0,
           NEW r, r = RoundAfter(d, w)
    PROVE  /\ r \in Rounds
           /\ \/ /\ r.phase = "pulling" /\ r.pages < MaxPages /\ r.cursor = round[d].advanced
                 /\ r.sent = round[d].sent /\ (w # {} \/ round[d].moved => r.moved)
              \/ /\ r.phase = "pushing" /\ r.again /\ r.sent = {}
                 /\ \A p \in r.send : p.at > 0 /\ p.item \in Items /\ p.at = held[d][p.item]
                 /\ \A p, q \in r.send : p.item = q.item => p = q
              \/ /\ r.phase = "committing" /\ w = {}
                 /\ r.sent = round[d].sent /\ r.moved = round[d].moved
<1>1. round[d] \in Rounds /\ round[d].advanced \in Place
    BY RoundIs DEF Rounds
<1>2. PICK S : S = {[at |-> held[d][x], item |-> x] : x \in unsent[d] \cup w}
    OBVIOUS
<1>3. /\ S \subseteq Place
      /\ \A p \in S : p.at > 0 /\ p.item \in Items /\ p.at = held[d][p.item]
      /\ \A p, q \in S : p.item = q.item => p = q
    <2>1. /\ unsent[d] \cup w \in SUBSET Items
          /\ \A x \in unsent[d] \cup w : held[d][x] > 0
        BY DEF Types, TypeOK
    <2>2. PICK T : T = unsent[d] \cup w
        OBVIOUS
    <2>3. /\ T \in SUBSET Items /\ \A x \in T : held[d][x] > 0
          /\ S = {[at |-> held[d][x], item |-> x] : x \in T}
        BY <2>1, <2>2, <1>2
    <2> QED
        BY ONLY Types, d \in Devices, <2>3, ScanIs
<1>4. CASE round[d].full /\ round[d].advanced # round[d].cursor /\ round[d].pages < MaxPages
    <2>1. r = [round[d] EXCEPT !.phase = "pulling", !.cursor = round[d].advanced,
                        !.again = round[d].again \/ w # {}, !.moved = round[d].moved \/ w # {}]
        BY <1>4 DEF RoundAfter
    <2>2. r \in Rounds
        BY <2>1, <1>1 DEF Rounds, Phases
    <2>3. /\ r.phase = "pulling" /\ r.pages < MaxPages /\ r.cursor = round[d].advanced
          /\ r.sent = round[d].sent /\ (w # {} \/ round[d].moved => r.moved)
        BY <2>1, <1>1, <1>4 DEF Rounds
    <2> QED
        BY <2>2, <2>3
<1>5. CASE /\ ~(round[d].full /\ round[d].advanced # round[d].cursor /\ round[d].pages < MaxPages)
           /\ round[d].again \/ w # {}
    <2>1. r = [round[d] EXCEPT !.phase = "pushing", !.again = TRUE, !.moved = FALSE,
                               !.send = S, !.sent = {}]
        BY <1>2, <1>5 DEF RoundAfter
    <2>2. r \in Rounds
        BY <2>1, <1>1, <1>3 DEF Rounds, Phases
    <2>3. r.phase = "pushing" /\ r.again /\ r.sent = {} /\ r.send = S
        BY <2>1, <1>1 DEF Rounds
    <2> QED
        BY <2>2, <2>3, <1>3
<1>6. CASE /\ ~(round[d].full /\ round[d].advanced # round[d].cursor /\ round[d].pages < MaxPages)
           /\ ~(round[d].again \/ w # {})
    <2>1. r = [round[d] EXCEPT !.phase = "committing"] /\ w = {}
        BY <1>6 DEF RoundAfter
    <2>2. r \in Rounds
        BY <2>1, <1>1 DEF Rounds, Phases
    <2>3. r.phase = "committing" /\ r.sent = round[d].sent /\ r.moved = round[d].moved
        BY <2>1, <1>1 DEF Rounds
    <2> QED
        BY <2>1, <2>2, <2>3
<1> QED
    BY <1>4, <1>5, <1>6

\* The page ends: every row up to the new watermark was taken, declined or is
\* behind, and what won over a declined row is owed beyond this round's settling.
LEMMA FinishKept ==
    ASSUME CloudInv, NEW d \in Devices, FinishPage(d)
    PROVE  CloudInv'
<1>1. PICK w, a, r, u : /\ w = LocalWinners(d) /\ a = round[d].advanced
                        /\ r = RoundAfter(d, w) /\ u = unsent[d] \cup w
    OBVIOUS
<1>2. /\ Types /\ DeviceInv(d) /\ round[d] \in Rounds /\ round \in [Devices -> Rounds]
      /\ mark \in [Devices -> Place] /\ unsent \in [Devices -> SUBSET Items]
    BY RoundIs DEF CloudInv, Types, TypeOK
<1>3. /\ round[d].phase = "applying" /\ round[d].page = {}
      /\ unsent' = [unsent EXCEPT ![d] = u] /\ mark' = [mark EXCEPT ![d] = a]
      /\ UNCHANGED <<now, table, held, offered, behind, refused, raised>>
    BY <1>1 DEF FinishPage, outcomes
<1>4. round' = [round EXCEPT ![d] = r]
    <2>1. round' = [round EXCEPT ![d] = RoundAfter(d, LocalWinners(d))]
        BY DEF FinishPage, RoundAfter
    <2> QED
        BY <2>1, <1>1
<1>5. w \in SUBSET Items /\ \A x \in w : held[d][x] > 0
    BY <1>1, <1>2, WinnersAre
<1>6. /\ r \in Rounds
      /\ \/ /\ r.phase = "pulling" /\ r.pages < MaxPages /\ r.cursor = a
            /\ r.sent = round[d].sent /\ (w # {} \/ round[d].moved => r.moved)
         \/ /\ r.phase = "pushing" /\ r.again /\ r.sent = {}
            /\ \A p \in r.send : p.at > 0 /\ p.item \in Items /\ p.at = held[d][p.item]
            /\ \A p, q \in r.send : p.item = q.item => p = q
         \/ /\ r.phase = "committing" /\ w = {}
            /\ r.sent = round[d].sent /\ r.moved = round[d].moved
    BY <1>1, <1>2, <1>5, RoundAfterIs
<1>7. a \in Place /\ PageOK(d)
    BY <1>1, <1>2, <1>3 DEF Rounds, DeviceInv, PhaseOK
<1>8. /\ round' \in [Devices -> Rounds] /\ round'[d] = r
      /\ \A e \in Devices \ {d} : round'[e] = round[e]
    BY <1>2, <1>4, <1>6
<1>9. /\ mark' \in [Devices -> Place] /\ mark'[d] = a
      /\ \A e \in Devices \ {d} : mark'[e] = mark[e]
    BY <1>2, <1>3, <1>7
<1>10. /\ unsent' \in [Devices -> SUBSET Items] /\ unsent'[d] = u
       /\ \A e \in Devices \ {d} : unsent'[e] = unsent[e]
    BY <1>1, <1>2, <1>3, <1>5
<1>11. \A e \in Devices : \A y \in unsent'[e] : held'[e][y] > 0
    <2>1. \A e \in Devices : \A y \in unsent[e] : held[e][y] > 0
        BY <1>2 DEF Types, TypeOK
    <2> QED
        BY <2>1, <1>1, <1>3, <1>5, <1>10
<1>12. Types'
    BY <1>2, <1>3, <1>8, <1>9, <1>10, <1>11, RoundFields DEF Types, TypeOK
<1>13. Settled(d)' \subseteq Settled(d) /\ (w # {} => Settled(d)' = {})
    <2>1. Settled(d)' = IF r.moved THEN {} ELSE {p.item : p \in r.sent}
        BY <1>8 DEF Settled
    <2> QED
        BY <2>1, <1>6 DEF Settled
<1>a. RefusedBy(d)' = RefusedBy(d) /\ RaisedBy(d)' = RaisedBy(d)
    BY <1>3, OutcomesKept DEF SameOutcomes
<1>14. \A x \in Items : table[x].readable /\ ~After(Pos(x), a)
        => held[d][x] >= table[x].at \/ <<d, x>> \in behind \/ Pos(x) \in RefusedBy(d)
    BY <1>1, <1>3, <1>7 DEF PageOK, GotUpTo
<1>15. \A x \in Items : table[x].readable /\ table[x].at < held[d][x]
        => x \in Answered(d)' \/ After(Pos(x), a) \/ <<d, x>> \in behind
    <2> TAKE x \in Items
    <2> HAVE table[x].readable /\ table[x].at < held[d][x]
    <2>1. \/ x \in Answered(d) \/ After(Pos(x), a) \/ <<d, x>> \in behind
          \/ Pos(x) \in round[d].declined
        BY <1>1, <1>3, <1>7 DEF PageOK, StaleUpTo
    <2>2. Pos(x) \in round[d].declined => x \in w
        <3>1. Pos(x).item = x /\ Pos(x).at = table[x].at
            BY DEF Pos, At
        <3>2. \A y \in Items : table[y].at \in Int /\ held[d][y] \in Int
            BY <1>2 DEF Types, TypeOK
        <3> QED
            BY <3>1, <3>2, <1>1 DEF LocalWinners
    <2>3. x \in Answered(d) \/ x \in w => x \in Answered(d)'
        BY <1>a, <1>1, <1>3, <1>10, <1>13 DEF Answered
    <2> QED
        BY <2>1, <2>2, <2>3
<1>16. PhaseOK(d)'
    <2>1. SendOK(d)' \/ r.phase # "pushing"
        BY <1>3, <1>6, <1>8 DEF SendOK
    <2> QED
        BY <2>1, <1>6, <1>8, <1>9 DEF PhaseOK
<1>17. GotUpTo(d, mark[d], RefusedBy(d))' /\ StaleUpTo(d, mark[d], {})'
    BY <1>a, <1>3, <1>9, <1>10, <1>14, <1>15 DEF GotUpTo, StaleUpTo, Pos
<1>18. DeviceInv(d)'
    BY <1>1, <1>3, <1>7, <1>9, <1>16, <1>17 DEF DeviceInv, PageOK
<1>19. OnlyOf(d)
    BY <1>3, <1>8, <1>9, <1>10, OutcomesKept DEF OnlyOf
<1> QED
    BY <1>12, <1>18, <1>19, OneDeviceKept

(***************************************************************************)
(* The theorems.                                                           *)
(***************************************************************************)

\* Every step keeps the invariant.
LEMMA NextKept ==
    ASSUME CloudInv, [Next]_vars
    PROVE  CloudInv'
<1>1. ASSUME NEW d \in Devices, RoundStep(d) PROVE CloudInv'
    BY <1>1, BeginKept, UploadKept, PushDoneKept, FetchKept, ApplyKept, FinishKept, CommitKept
    DEF RoundStep
<1>2. ASSUME NEW d \in Devices, NEW x \in Items, NEW at \in Stamps, Capture(d, x, at)
      PROVE  CloudInv'
    BY <1>2, NoteKept DEF Capture, outcomes
<1>3. ASSUME NEW d \in Devices, NEW from \in Devices, NEW x \in Items, PeerDelivers(d, x, from)
      PROVE  CloudInv'
    <2>1. held[from][x] \in 0..MaxStamp /\ held[d][x] \in 0..MaxStamp
        BY DEF CloudInv, Types, TypeOK
    <2>2. held[from][x] \in Stamps
        BY <2>1, <1>3, CloudTableAssumption DEF PeerDelivers, outcomes, Stamps
    <2> QED
        BY <2>2, <1>3, NoteKept DEF PeerDelivers, outcomes
<1>a. ASSUME NEW d \in Devices, NEW from \in Devices, NEW x \in Items, PeerRaises(d, x, from)
      PROVE  CloudInv'
    <2>1. held[from][x] \in 0..MaxStamp /\ held[d][x] \in 0..MaxStamp
        BY DEF CloudInv, Types, TypeOK
    <2>2. held[from][x] + 1 \in Stamps /\ held[from][x] + 1 > held[d][x]
        BY <2>1, <1>a, CloudTableAssumption DEF PeerRaises, Stamps
    <2> QED
        BY <2>2, <1>a, NoteKept DEF PeerRaises, outcomes
<1>b. ASSUME NEW d \in Devices, Exception(d) PROVE CloudInv'
    BY <1>a, <1>b, RefuseKept, RaiseKept DEF Exception
<1>4. ASSUME NEW d \in Devices, RoundFails(d) \/ SignInAgain(d) PROVE CloudInv'
    BY <1>4, FailKept, SignInKept
<1>5. ASSUME NEW x \in Items, Purge(x) \/ \E at \in Stamps : UnreadableRow(x, at) PROVE CloudInv'
    BY <1>5, PurgeKept, UnreadableKept
<1>6. CASE UNCHANGED vars
    <2>1. Types' /\ RowsAreStamped'
        BY <1>6 DEF CloudInv, Types, TypeOK, RowsAreStamped, vars, outcomes
    <2>2. \A e \in Devices : DeviceInv(e)'
        BY <1>6, UntouchedKept, OutcomesKept DEF CloudInv, vars, outcomes
    <2> QED
        BY <2>1, <2>2 DEF CloudInv
<1> QED
    BY <1>1, <1>b, <1>2, <1>3, <1>4, <1>5, <1>6, TickKept DEF Next, Disturbance

\* The invariant holds in every reachable state.
LEMMA InvariantHolds == Spec => []CloudInv
<1>1. Init => CloudInv
    BY InitHolds
<1>2. CloudInv /\ [Next]_vars => CloudInv'
    BY NextKept
<1> QED
    BY <1>1, <1>2, PTL DEF Spec

\* The clock, the rows, the versions, the rounds and their page count stay in
\* their types, and what is owed is a version that is held.
THEOREM CloudTypeCorrect == Spec => []TypeOK
<1>1. CloudInv => TypeOK
    BY DEF CloudInv, Types
<1> QED
    BY <1>1, InvariantHolds, PTL

\* The watermark passes no readable row that the device has not got, unless the
\* row arrived where the device had already been, or is the very row that the
\* device refused (pull.rs, the cursor, the batch and the refusals; versions.rs,
\* the dedup index): for every page size, skew and number of devices.
THEOREM NoRowIsPassedBy == Spec => []NoRowPassedBy
<1>1. CloudInv => NoRowPassedBy
    BY DEF CloudInv, DeviceInv, GotUpTo, NoRowPassedBy, Pos, RefusedBy
<1> QED
    BY <1>1, InvariantHolds, PTL

\* A device with a newer version than the table's owes it, will meet the older
\* row past its watermark, was behind when it arrived, or raised the version while
\* merging and owes it to nobody (driver.rs, the second push; push.rs, the commit
\* that gives up what was noted since; versions.rs, the privacy choice).
THEOREM StaleRowsAreAnswered == Spec => []StaleRowIsRepublished
<1>1. CloudInv => StaleRowIsRepublished
    BY DEF CloudInv, DeviceInv, StaleUpTo, StaleRowIsRepublished, Pos, Answered, RaisedBy
<1> QED
    BY <1>1, InvariantHolds, PTL

\* Only the end of a page moves the watermark, and never back.
LEMMA MarkMoves ==
    ASSUME CloudInv, [Next]_vars, NEW d \in Devices
    PROVE  ~After(mark[d], mark'[d])
<1>1. mark \in [Devices -> Place]
    BY DEF CloudInv, Types, TypeOK
<1>2. CASE UNCHANGED mark
    BY <1>1, <1>2, PositionsAreOrdered
<1>3. ASSUME NEW e \in Devices, FinishPage(e) PROVE ~After(mark[d], mark'[d])
    <2>1. mark' = [mark EXCEPT ![e] = round[e].advanced] /\ round[e].phase = "applying"
        BY <1>3 DEF FinishPage, outcomes
    <2>2. ~After(mark[e], round[e].advanced)
        BY <2>1 DEF CloudInv, DeviceInv, PhaseOK, PageOK
    <2>3. CASE e = d
        BY <2>1, <2>2, <2>3, <1>1
    <2>4. CASE e # d
        BY <2>1, <2>4, <1>1, PositionsAreOrdered
    <2> QED
        BY <2>3, <2>4
<1> QED
    <2>1. ASSUME NEW e \in Devices, RoundStep(e) PROVE UNCHANGED mark \/ FinishPage(e)
        BY <2>1 DEF RoundStep, BeginRound, UploadRows, PushDone, FetchPage, ApplyRow, Apply, CommitRound
    <2>2. ASSUME NEW e \in Devices, Exception(e) PROVE UNCHANGED mark
        BY <2>2 DEF Exception, RefuseRow, RaiseRow, Apply, PeerRaises
    <2>3. Disturbance \/ Tick \/ UNCHANGED vars => UNCHANGED mark
        BY DEF Disturbance, Tick, vars, Capture, PeerDelivers, RoundFails, SignInAgain, Purge,
            UnreadableRow
    <2> QED
        BY <1>2, <1>3, <2>1, <2>2, <2>3 DEF Next

\* The watermark never moves back, in a round or between rounds (pull.rs, the
\* cursor read at the start of a pull and saved at the end of a page).
THEOREM WatermarkIsMonotonic == Spec => WatermarkMovesForward
<1>1. CloudInv /\ [Next]_vars => [\A d \in Devices : ~After(mark[d], mark'[d])]_vars
    BY MarkMoves
<1> QED
    BY <1>1, InvariantHolds, PTL DEF Spec, WatermarkMovesForward
=============================================================================
