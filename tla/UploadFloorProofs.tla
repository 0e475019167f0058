------------------------- MODULE UploadFloorProofs -------------------------
(***************************************************************************)
(* Proofs about UploadFloor, for any history, page size, bound of the id   *)
(* list and byte budget, and with every fault allowed.                     *)
(*                                                                         *)
(* The argument has three layers: the keyset order and what a page, a      *)
(* bounded read and a last position are in it; what one walk and one scan  *)
(* do to the coverage of a row; and, action by action, that the inductive  *)
(* invariant is preserved.  The last part repeats the second and the third *)
(* for the count that the record reports.                                  *)
(***************************************************************************)
EXTENDS MCUploadFloor, FiniteSetTheorems, WellFoundedInduction, TLAPS

-----------------------------------------------------------------------------
(* Order.                                                                  *)

\* The stamps the keyset order is made of.
Stamped == stamp \in [Rows -> 0..MaxMs]

\* A row has a position, and it is after the origin and after the start of
\* its own millisecond.
LEMMA KeysetType ==
    ASSUME Stamped, NEW i \in Rows
    PROVE  /\ KeysetOf(i) \in Positions
           /\ KeysetOf(i)[1] = stamp[i] /\ KeysetOf(i)[2] = i
           /\ Before(Origin, KeysetOf(i))
           /\ Before(<<stamp[i], 0>>, KeysetOf(i))
    BY UploadFloorAssumption DEF Stamped, KeysetOf, Positions, Before, Origin, Rows

\* Before is a strict total order on positions.
LEMMA OrderFacts ==
    ASSUME NEW a \in Positions, NEW b \in Positions, NEW c \in Positions
    PROVE  /\ ~Before(a, a)
           /\ Before(a, b) \/ a = b \/ Before(b, a)
           /\ Before(a, b) /\ Before(b, c) => Before(a, c)
           /\ NotAfter(a, b) /\ Before(b, c) => Before(a, c)
           /\ Before(a, b) /\ NotAfter(b, c) => Before(a, c)
           /\ NotAfter(a, b) /\ NotAfter(b, c) => NotAfter(a, c)
           /\ Before(a, b) => NotAfter(a, b)
<1>1. /\ a = <<a[1], a[2]>> /\ a[1] \in Int /\ a[2] \in Int
      /\ b = <<b[1], b[2]>> /\ b[1] \in Int /\ b[2] \in Int
      /\ c[1] \in Int /\ c[2] \in Int
    BY UploadFloorAssumption DEF Positions
<1>2. Before(a, b) \/ a = b \/ Before(b, a)
    BY <1>1 DEF Before
<1> QED
    BY <1>1, <1>2 DEF Before, NotAfter

\* Two rows never share a position.
LEMMA KeysetInjective ==
    ASSUME Stamped, NEW i \in Rows, NEW j \in Rows, i # j
    PROVE  Before(KeysetOf(i), KeysetOf(j)) \/ Before(KeysetOf(j), KeysetOf(i))
    BY UploadFloorAssumption DEF Stamped, KeysetOf, Before, Rows

\* Every set of rows is finite.
LEMMA RowsFinite ==
    ASSUME NEW S \in SUBSET Rows
    PROVE  IsFiniteSet(S) /\ Cardinality(S) \in Nat
<1>1. IsFiniteSet(Rows)
    BY UploadFloorAssumption, FS_Interval DEF Rows
<1>2. IsFiniteSet(S)
    BY <1>1, FS_Subset
<1> QED
    BY <1>2, FS_CardinalityType

\* A set of naturals that is not empty has a least element.
LEMMA LeastNatural ==
    ASSUME NEW T \in SUBSET Nat, T # {}
    PROVE  \E x \in T : \A y \in T : x <= y
<1>1. \E x \in T : \A y \in T : ~(<<y, x>> \in OpToRel(<, Nat))
    BY NatLessThanWellFounded, WFMin
<1>2. PICK x \in T : \A y \in T : ~(<<y, x>> \in OpToRel(<, Nat))
    BY <1>1
<1>3. \A y \in T : ~(y < x)
    BY <1>2 DEF OpToRel
<1> QED
    BY <1>3

\* A set of rows that is not empty has a last row.
LEMMA LastRowExists ==
    ASSUME Stamped, NEW S \in SUBSET Rows, S # {}
    PROVE  \E i \in S : \A j \in S : NotAfter(KeysetOf(j), KeysetOf(i))
<1> DEFINE After(i) == {k \in S : Before(KeysetOf(i), KeysetOf(k))}
           Counts == {Cardinality(After(i)) : i \in S}
<1>1. \A i \in S : After(i) \in SUBSET Rows /\ Cardinality(After(i)) \in Nat
    BY RowsFinite
<1>2. PICK n \in Counts : \A m \in Counts : n <= m
    <2>1. Counts \in SUBSET Nat /\ Counts # {}
        BY <1>1
    <2> HIDE DEF Counts
    <2> QED
        BY <2>1, LeastNatural
<1>3. PICK i \in S : n = Cardinality(After(i))
    OBVIOUS
<1>4. ASSUME NEW j \in S, ~NotAfter(KeysetOf(j), KeysetOf(i))
      PROVE  FALSE
    <2>1. Before(KeysetOf(i), KeysetOf(j))
        BY <1>4 DEF NotAfter
    <2>2. After(j) \subseteq After(i)
        <3> SUFFICES ASSUME NEW k \in S, Before(KeysetOf(j), KeysetOf(k))
                     PROVE  Before(KeysetOf(i), KeysetOf(k))
            OBVIOUS
        <3> QED
            BY <2>1, KeysetType, OrderFacts
    <2>3. j \in After(i) /\ j \notin After(j)
        BY <2>1, KeysetType, OrderFacts
    <2>4. Cardinality(After(j)) <= Cardinality(After(i))
             /\ Cardinality(After(j)) # Cardinality(After(i))
        <3> HIDE DEF After
        <3> QED
            BY <1>1, <2>2, <2>3, RowsFinite, FS_Subset
    <2>5. Cardinality(After(i)) <= Cardinality(After(j))
        BY <1>2, <1>3
    <2> QED
        BY <1>1, <2>4, <2>5
<1> QED
    BY <1>4

-----------------------------------------------------------------------------
(* Pages, last positions and bounded reads.                                *)

\* The first n rows of S are a prefix of S, and all of S when it has fewer
\* than n.
LEMMA FirstOfPrefix ==
    ASSUME Stamped, NEW S \in SUBSET Rows, NEW n \in Int
    PROVE  /\ FirstOf(S, n) \subseteq S
           /\ \A i \in S, j \in FirstOf(S, n) :
                  NotAfter(KeysetOf(i), KeysetOf(j)) => i \in FirstOf(S, n)
           /\ Cardinality(S) < n => FirstOf(S, n) = S
<1> DEFINE Earlier(i) == {j \in S : Before(KeysetOf(j), KeysetOf(i))}
<1>1. FirstOf(S, n) = {i \in S : Cardinality(Earlier(i)) < n}
    BY DEF FirstOf
<1>2. \A i \in S : /\ Earlier(i) \in SUBSET S /\ IsFiniteSet(Earlier(i))
                    /\ Cardinality(Earlier(i)) \in Nat
                    /\ Cardinality(Earlier(i)) <= Cardinality(S)
    BY RowsFinite, FS_Subset
<1>3. ASSUME NEW i \in S, NEW j \in S, NotAfter(KeysetOf(i), KeysetOf(j))
      PROVE  Cardinality(Earlier(i)) <= Cardinality(Earlier(j))
    <2>1. Earlier(i) \subseteq Earlier(j)
        <3> SUFFICES ASSUME NEW k \in S, Before(KeysetOf(k), KeysetOf(i))
                     PROVE  Before(KeysetOf(k), KeysetOf(j))
            OBVIOUS
        <3> QED
            BY <1>3, KeysetType, OrderFacts
    <2> HIDE DEF Earlier
    <2> QED
        BY <1>2, <2>1, FS_Subset
<1>4. Cardinality(S) \in Nat
    BY RowsFinite
<1> HIDE DEF Earlier
<1> QED
    BY <1>1, <1>2, <1>3, <1>4

\* There is one when S has any and n is not zero: the first row of S.
LEMMA FirstOfSome ==
    ASSUME Stamped, NEW S \in SUBSET Rows, S # {}, NEW n \in Nat \ {0}
    PROVE  FirstOf(S, n) # {}
<1> DEFINE Earlier(i) == {k \in S : Before(KeysetOf(k), KeysetOf(i))}
           Counts == {Cardinality(Earlier(i)) : i \in S}
<1>1. \A i \in S : Earlier(i) \in SUBSET Rows /\ Cardinality(Earlier(i)) \in Nat
    BY RowsFinite
<1>2. PICK c \in Counts : \A m \in Counts : c <= m
    <2>1. Counts \in SUBSET Nat /\ Counts # {}
        BY <1>1
    <2> HIDE DEF Counts
    <2> QED
        BY <2>1, LeastNatural
<1>3. PICK i \in S : c = Cardinality(Earlier(i))
    OBVIOUS
<1>4. ASSUME NEW j \in Earlier(i)
      PROVE  FALSE
    <2>1. j \in S /\ Before(KeysetOf(j), KeysetOf(i))
        BY <1>4
    <2>2. Earlier(j) \subseteq Earlier(i)
        <3> SUFFICES ASSUME NEW k \in S, Before(KeysetOf(k), KeysetOf(j))
                     PROVE  Before(KeysetOf(k), KeysetOf(i))
            BY <2>1
        <3> QED
            BY <2>1, KeysetType, OrderFacts
    <2>3. j \notin Earlier(j)
        BY <2>1, KeysetType, OrderFacts
    <2>4. Cardinality(Earlier(j)) <= Cardinality(Earlier(i))
             /\ Cardinality(Earlier(j)) # Cardinality(Earlier(i))
        <3> HIDE DEF Earlier
        <3> QED
            BY <1>1, <1>4, <2>1, <2>2, <2>3, RowsFinite, FS_Subset
    <2>5. Cardinality(Earlier(i)) <= Cardinality(Earlier(j))
        BY <1>2, <1>3, <2>1
    <2> QED
        BY <1>1, <2>1, <2>4, <2>5
<1>5. Cardinality(Earlier(i)) = 0
    <2>1. Earlier(i) = {}
        BY <1>4
    <2> QED
        BY <2>1, FS_EmptySet
<1>6. i \in FirstOf(S, n)
    BY <1>5 DEF FirstOf
<1> QED
    BY <1>6

\* They are at most n.
LEMMA FirstOfBound ==
    ASSUME Stamped, NEW S \in SUBSET Rows, NEW n \in Nat
    PROVE  Cardinality(FirstOf(S, n)) <= n
<1> DEFINE T == FirstOf(S, n)
<1>1. T \in SUBSET Rows
    BY DEF FirstOf
<1>2. CASE T = {}
    BY <1>2, FS_EmptySet
<1>3. CASE T # {}
    <2>1. PICK m \in T : \A j \in T : NotAfter(KeysetOf(j), KeysetOf(m))
        BY <1>1, <1>3, LastRowExists
    <2> DEFINE E == {j \in S : Before(KeysetOf(j), KeysetOf(m))}
    <2>2. m \in S /\ Cardinality(E) < n
        BY DEF FirstOf
    <2>3. T \ {m} \subseteq E
        <3> SUFFICES ASSUME NEW j \in T, j # m
                     PROVE  j \in S /\ Before(KeysetOf(j), KeysetOf(m))
            OBVIOUS
        <3> QED
            BY <1>1, <2>1, KeysetInjective DEF FirstOf, NotAfter
    <2>4. E \in SUBSET Rows
        OBVIOUS
    <2> HIDE DEF E, T
    <2>5. Cardinality(T \ {m}) <= Cardinality(E) /\ Cardinality(E) \in Nat
        BY <2>3, <2>4, RowsFinite, FS_Subset
    <2>6. Cardinality(T \ {m}) = Cardinality(T) - 1 /\ Cardinality(T) \in Nat
        BY <1>1, <2>1, RowsFinite, FS_RemoveElement
    <2>7. Cardinality(T) <= n
        BY <2>2, <2>5, <2>6
    <2> QED
        BY <2>7 DEF T
<1> QED
    BY <1>2, <1>3

\* The last position of S is that of a row of S no other row is after, or p.
LEMMA LastOfFacts ==
    ASSUME Stamped, NEW S \in SUBSET Rows, NEW p \in Positions
    PROVE  /\ LastOf(S, p) \in Positions
           /\ S = {} => LastOf(S, p) = p
           /\ S # {} => \E m \in S :
                           /\ LastOf(S, p) = KeysetOf(m)
                           /\ \A j \in S : NotAfter(KeysetOf(j), KeysetOf(m))
    BY LastRowExists, KeysetType DEF LastOf

\* A bounded read stops somewhere: what precedes a row that was read was read.
LEMMA ReadWithinPrefix ==
    ASSUME Stamped, NEW S \in SUBSET Rows, NEW used,
           NEW i \in S, NEW j \in ReadWithin(S, used),
           NotAfter(KeysetOf(i), KeysetOf(j))
    PROVE  i \in ReadWithin(S, used)
<1> SUFFICES ASSUME NEW k \in Opening(S), NotAfter(KeysetOf(k), KeysetOf(i))
             PROVE  NotAfter(KeysetOf(k), KeysetOf(j))
    BY DEF ReadWithin
<1> QED
    BY KeysetType, OrderFacts DEF ReadWithin, Opening

-----------------------------------------------------------------------------
(* One walk and one scan.                                                  *)

\* The part of the type invariant that a scan needs.
LEMMA ScanTypes ==
    ASSUME TypeOK
    PROVE  /\ Stamped
           /\ present \subseteq Rows
           /\ unreadable.ids \subseteq Rows
           /\ unreadable.sweep \in Sweeps
           /\ \A p \in Positions : RowsAfter(p) \in SUBSET Rows
           /\ \A p \in Positions : VersionsAfter(p) \subseteq RowsAfter(p)
           /\ \A p \in Positions : \A i \in RowsAfter(p), j \in VersionsAfter(p) :
                  NotAfter(KeysetOf(i), KeysetOf(j))
                    => i \in VersionsAfter(p)
           /\ \A p \in Positions : Cardinality(RowsAfter(p)) < Limit
                    => VersionsAfter(p) = RowsAfter(p)
           /\ \A p \in Positions : RowsAfter(p) # {} => VersionsAfter(p) # {}
<1>1. Stamped /\ present \subseteq Rows /\ unreadable.ids \subseteq Rows
        /\ unreadable.sweep \in Sweeps
    BY DEF TypeOK, Stamped, Records
<1>2. Limit \in Int
    BY UploadFloorAssumption
<1>3. \A p \in Positions : RowsAfter(p) \in SUBSET Rows
    BY <1>1 DEF RowsAfter
<1>4. \A p \in Positions : RowsAfter(p) # {} => VersionsAfter(p) # {}
    BY <1>1, <1>3, UploadFloorAssumption, FirstOfSome DEF VersionsAfter
<1> QED
    BY <1>1, <1>2, <1>3, <1>4, FirstOfPrefix DEF VersionsAfter

\* The ids a page adds fit beside the ones that were kept.
LEMMA TrackedFits ==
    ASSUME Stamped, NEW held \in SUBSET Rows, NEW bad \in SUBSET Rows,
           Cardinality(held) <= MaxTracked
    PROVE  LET added == Tracked(bad, Cardinality(held)) IN
           /\ added \subseteq bad
           /\ Cardinality(held \cup added) <= MaxTracked
<1> DEFINE added == Tracked(bad, Cardinality(held))
           n == MaxTracked - Cardinality(held)
<1>1. Cardinality(held) \in Nat /\ n \in Nat
    BY RowsFinite, UploadFloorAssumption
<1>2. added \subseteq bad /\ Cardinality(added) <= MaxTracked - Cardinality(held)
    <2>1. added = FirstOf(bad, n)
        BY DEF Tracked
    <2> HIDE DEF added
    <2>2. added \subseteq bad
        BY <2>1 DEF FirstOf
    <2>3. Cardinality(FirstOf(bad, n)) <= n
        <3> HIDE DEF n
        <3> QED
            BY <1>1, FirstOfBound
    <2> QED
        BY <2>1, <2>2, <2>3
<1>3. added \in SUBSET Rows
    BY <1>2
<1> HIDE DEF added
<1>4. /\ IsFiniteSet(added) /\ Cardinality(added) \in Nat /\ IsFiniteSet(held)
      /\ Cardinality(held \cap added) \in Nat
    BY <1>3, RowsFinite
<1>5. Cardinality(held \cup added)
        = Cardinality(held) + Cardinality(added) - Cardinality(held \cap added)
    BY <1>4, FS_Union
<1>6. Cardinality(held \cup added) <= MaxTracked
    BY <1>1, <1>2, <1>4, <1>5, UploadFloorAssumption
<1> QED
    BY <1>2, <1>6 DEF added

\* One page of the walk: what it returns is well formed, no row it was to
\* come to is dropped, and it does not run past its bound.
LEMMA WalkFacts ==
    ASSUME TypeOK, unreadable.sweep.on,
           NEW bound \in Positions, NEW opened,
           NEW kept \in SUBSET Rows, Cardinality(kept) <= MaxTracked
    PROVE  LET walk == WalkLeftBehind(unreadable.sweep, bound, opened, kept) IN
           /\ walk.offered \subseteq present /\ walk.added \subseteq present
           /\ walk.sweep \in Sweeps
           /\ Cardinality(kept \cup walk.added) <= MaxTracked
           /\ walk.sweep.on => \/ walk.sweep.next = walk.sweep.from
                               \/ NotAfter(walk.sweep.next, bound)
           /\ \A i \in present \ unreadable.ids :
                  /\ Swept(unreadable.sweep, i)
                  /\ NotAfter(KeysetOf(i), bound)
                  => i \in walk.offered \/ i \in walk.added \/ Swept(walk.sweep, i)
<1> DEFINE sweep == unreadable.sweep
           page == VersionsAfter(sweep.next)
           behind == {i \in page : NotAfter(KeysetOf(i), bound)}
           read == ReadWithin(behind, Bytes(opened))
           bad == Failing(read)
           added == Tracked(bad, Cardinality(kept))
           seen == sweep.seen + Cardinality(bad \ added)
           cycled == /\ read = behind
                     /\ \/ behind # page
                        \/ Cardinality(RowsAfter(sweep.next)) < Limit
           on == [sweep EXCEPT !.next = LastOf(read, sweep.next), !.seen = seen]
           left == IF ~cycled THEN on ELSE CycleEnd(sweep, seen)
           walk == WalkLeftBehind(sweep, bound, opened, kept)
<1>1. walk = [offered |-> Opening(read), added |-> added, sweep |-> left]
    BY DEF WalkLeftBehind
<1>2. /\ Stamped /\ present \subseteq Rows /\ sweep \in Sweeps
      /\ sweep.next \in Positions /\ sweep.from \in Positions
      /\ sweep.seen \in Nat /\ sweep.on
    BY ScanTypes DEF Sweeps
<1>3. /\ page \subseteq present /\ behind \subseteq page /\ read \subseteq behind
      /\ bad \subseteq read /\ Opening(read) \subseteq read
      /\ read \in SUBSET Rows /\ bad \in SUBSET Rows
    BY <1>2, ScanTypes DEF RowsAfter, ReadWithin, Failing, Opening
<1>4. added \subseteq bad /\ Cardinality(kept \cup added) <= MaxTracked
    BY <1>2, <1>3, TrackedFits
<1>5. Cardinality(bad \ added) \in Nat /\ (Cardinality(bad \ added) = 0 => bad \subseteq added)
    <2> DEFINE D == bad \ added
    <2>1. D \in SUBSET Rows
        BY <1>3
    <2>2. D = {} => bad \subseteq added
        OBVIOUS
    <2> HIDE DEF D
    <2>3. IsFiniteSet(D) /\ Cardinality(D) \in Nat
        BY <2>1, RowsFinite
    <2>4. Cardinality(D) = 0 => D = {}
        BY <2>3, FS_EmptySet
    <2>5. Cardinality(D) \in Nat /\ (Cardinality(D) = 0 => bad \subseteq added)
        BY <2>2, <2>3, <2>4
    <2> QED
        BY <2>5 DEF D
<1>6. LastOf(read, sweep.next) \in Positions
    BY <1>2, <1>3, LastOfFacts
<1> HIDE DEF page, behind, read, bad, added
<1>7. seen \in Nat
    BY <1>2, <1>5
<1>8. left \in Sweeps
    <2> HIDE DEF seen, cycled
    <2>1. on \in Sweeps
        <3> DEFINE p == LastOf(read, sweep.next)
        <3> HIDE DEF p
        <3> QED
            BY <1>2, <1>6, <1>7 DEF Sweeps, p
    <2>2. CycleEnd(sweep, seen) \in Sweeps
        <3>1. NoSweep \in Sweeps
            BY UploadFloorAssumption DEF Sweeps, NoSweep, Origin, Positions
        <3> QED
            BY <1>2, <1>7, <3>1 DEF Sweeps, CycleEnd
    <2> QED
        BY <2>1, <2>2

<1>9. left.on => left.next = left.from \/ NotAfter(left.next, bound)
    <2>1. CASE cycled
        BY <2>1, <1>2 DEF CycleEnd, Sweeps, NoSweep
    <2>2. CASE ~cycled
        <3>1. left.next = LastOf(read, sweep.next)
            BY <2>2, <1>2 DEF Sweeps
        <3>2. CASE read # {}
            <4>1. PICK m \in read : LastOf(read, sweep.next) = KeysetOf(m)
                BY <1>2, <1>3, <3>2, LastOfFacts
            <4> QED
                BY <4>1, <3>1, <1>3 DEF behind
        <3>3. CASE read = {} /\ behind # {}
            <4>1. PICK r \in behind : TRUE
                BY <3>3
            <4>2. Before(sweep.next, KeysetOf(r)) /\ NotAfter(KeysetOf(r), bound)
                BY <4>1, <1>2, <1>3, ScanTypes DEF behind, page, RowsAfter
            <4>3. NotAfter(sweep.next, bound)
                BY <4>2, <1>2, <1>3, KeysetType, OrderFacts
            <4> QED
                BY <4>3, <3>1, <3>3, <1>2, <1>3, LastOfFacts
        <3>4. CASE read = {} /\ behind = {}
            <4>1. page = {} /\ ~(Cardinality(RowsAfter(sweep.next)) < Limit)
                BY <2>2, <3>4
            <4>2. RowsAfter(sweep.next) # {}
                <5>1. Limit > 0 /\ Limit \in Nat
                    BY UploadFloorAssumption
                <5> QED
                    BY <4>1, <5>1, FS_EmptySet
            <4> QED
                BY <4>1, <4>2, <1>2, ScanTypes DEF page
        <3> QED
            BY <3>2, <3>3, <3>4
    <2> QED
        BY <2>1, <2>2
<1>10. ASSUME NEW i \in present \ unreadable.ids, Swept(sweep, i),
              NotAfter(KeysetOf(i), bound)
       PROVE  i \in Opening(read) \/ i \in added \/ Swept(left, i)
    <2>1. KeysetOf(i) \in Positions /\ Before(sweep.from, KeysetOf(i))
        BY <1>2, <1>10, KeysetType DEF Swept
    <2>2. i \in read => i \in Opening(read) \/ i \in bad
        BY <1>10 DEF Opening, Failing, bad
    <2>3. CASE seen > 0
        BY <2>1, <2>3, <1>2 DEF Swept, CycleEnd, Sweeps
    <2>4. CASE ~(seen > 0)
        <3>1. sweep.seen = 0 /\ bad \subseteq added
            BY <2>4, <1>2, <1>5
        <3>2. Before(sweep.next, KeysetOf(i)) /\ i \in RowsAfter(sweep.next)
            BY <3>1, <1>10 DEF Swept, RowsAfter
        <3>3. i \in page => i \in behind
            BY <1>10 DEF behind
        <3>4. CASE cycled
            <4>1. CASE Cardinality(RowsAfter(sweep.next)) < Limit
                BY <4>1, <1>2, <2>2, <3>1, <3>2, <3>3, <3>4, ScanTypes DEF page
            <4>2. CASE behind # page
                <5>1. PICK r \in page : ~NotAfter(KeysetOf(r), bound)
                    BY <4>2 DEF behind
                <5>2. NotAfter(KeysetOf(i), KeysetOf(r))
                    BY <5>1, <1>2, <1>3, <1>10, KeysetType, OrderFacts DEF NotAfter
                <5>3. i \in page
                    BY <5>2, <1>2, <3>2, ScanTypes DEF page
                <5> QED
                    BY <5>3, <2>2, <3>1, <3>3, <3>4
            <4> QED
                BY <3>4, <4>1, <4>2
        <3>5. CASE ~cycled /\ i \in read
            BY <3>5, <2>2, <3>1
        <3>6. CASE ~cycled /\ i \notin read
            <4>1. ASSUME NEW r \in read PROVE Before(KeysetOf(r), KeysetOf(i))
                <5> SUFFICES ASSUME NotAfter(KeysetOf(i), KeysetOf(r)) PROVE FALSE
                    BY DEF NotAfter
                <5>1. i \in behind
                    BY <1>2, <1>3, <3>2, <3>3, ScanTypes DEF page
                <5>2. i \in ReadWithin(behind, Bytes(opened))
                    BY <1>2, <1>3, <5>1, ReadWithinPrefix DEF read
                <5> QED
                    BY <5>2, <3>6 DEF read
            <4>2. Before(LastOf(read, sweep.next), KeysetOf(i))
                BY <4>1, <1>2, <1>3, <3>2, LastOfFacts
            <4>3. left.next = LastOf(read, sweep.next) /\ left.from = sweep.from
                    /\ left.on
                BY <3>6, <1>2 DEF Sweeps
            <4> QED
                BY <4>2, <4>3, <2>1 DEF Swept
        <3> QED
            BY <3>4, <3>5, <3>6
    <2> QED
        BY <2>3, <2>4
<1> HIDE DEF left, walk
<1>11. /\ walk.offered = Opening(read) /\ walk.added = added /\ walk.sweep = left
    BY <1>1
<1>12. walk.offered \subseteq present /\ walk.added \subseteq present
    BY <1>3, <1>4, <1>11
<1> QED
    BY <1>4, <1>8, <1>9, <1>10, <1>11, <1>12 DEF walk

\* A sweep pulled further back still comes to the rows it was to come to.
LEMMA SweepFromKeeps ==
    ASSUME Stamped, NEW sweep \in Sweeps, NEW behind \in Positions,
           NEW i \in Rows, Swept(sweep, i)
    PROVE  Swept(SweepFrom(sweep, behind), i)
<1>1. /\ sweep.from \in Positions /\ KeysetOf(i) \in Positions
      /\ sweep.on /\ Before(sweep.from, KeysetOf(i))
    BY KeysetType DEF Sweeps, Swept
<1>2. CASE NotAfter(sweep.from, behind)
    BY <1>1, <1>2 DEF SweepFrom
<1>3. CASE ~NotAfter(sweep.from, behind)
    <2>1. Before(behind, KeysetOf(i))
        BY <1>1, <1>3, OrderFacts DEF NotAfter
    <2> QED
        BY <1>3, <2>1 DEF SweepFrom, Swept
<1> QED
    BY <1>2, <1>3

\* One scan: what it returns is well formed; a row the record held is handed
\* over or still held; a row the walk was to come to, and that the page does
\* not cover, likewise; and so is every row the offer answers for.
LEMMA ScanFacts ==
    ASSUME TypeOK, NEW from \in Positions,
           NEW opened \in SUBSET (unreadable.ids \cap present)
    PROVE  LET scan == ScanBounded(from, opened)
               Keeps(i) == \/ i \in scan.items
                           \/ i \in scan.ids
                           \/ Swept(scan.sweep, i)
           IN
           /\ scan.items \subseteq present
           /\ scan.ids \subseteq Rows /\ Cardinality(scan.ids) <= MaxTracked
           /\ scan.sweep \in Sweeps
           /\ scan.offer \in Offers /\ scan.offer.started = from
           /\ \A i \in present :
                 /\ i \in unreadable.ids => Keeps(i)
                 /\ Swept(unreadable.sweep, i) /\ NotAfter(KeysetOf(i), from)
                      => Keeps(i)
                 /\ /\ Before(from, KeysetOf(i))
                    /\ scan.offer.truncated
                         => NotAfter(KeysetOf(i), scan.offer.last)
                    => Keeps(i)
<1> DEFINE kept == (unreadable.ids \cap present) \ opened
           walk == IF unreadable.sweep.on
                   THEN WalkLeftBehind(unreadable.sweep, from, opened, kept)
                   ELSE NoWalk
           page == VersionsAfter(from)
           read == ReadWithin(page, Bytes(opened) + Bytes(walk.offered))
           bad == Failing(read)
           held == kept \cup walk.added
           added == Tracked(bad, Cardinality(held))
           left == bad \ added
           early == {i \in read : \A u \in left : Before(KeysetOf(i), KeysetOf(u))}
           behind == LastOf(early, from)
           items == opened \cup walk.offered \cup Opening(read)
           ids == held \cup added
           sweep == IF left = {} THEN walk.sweep ELSE SweepFrom(walk.sweep, behind)
           truncated == \/ Cardinality(RowsAfter(from)) >= Limit
                        \/ read # page
           last == LastOf(read, from)
           scan == ScanBounded(from, opened)
           Keeps(i) == i \in items \/ i \in ids \/ Swept(sweep, i)
<1>1. scan = [items |-> items, ids |-> ids, sweep |-> sweep,
              offer |-> [truncated |-> truncated, last |-> last, started |-> from]]
    BY DEF ScanBounded
<1>2. Stamped /\ present \subseteq Rows /\ unreadable.ids \subseteq Rows
        /\ unreadable.sweep \in Sweeps
    BY ScanTypes
<1>3. kept \in SUBSET Rows /\ kept \subseteq unreadable.ids
        /\ Cardinality(kept) <= MaxTracked
    <2>1. unreadable.ids \in SUBSET Rows /\ kept \in SUBSET unreadable.ids
        BY <1>2
    <2>2. Cardinality(unreadable.ids) <= MaxTracked /\ MaxTracked \in Nat
        BY UploadFloorAssumption DEF TypeOK
    <2> HIDE DEF kept
    <2>3. Cardinality(kept) <= Cardinality(unreadable.ids)
            /\ Cardinality(kept) \in Nat /\ Cardinality(unreadable.ids) \in Nat
        BY <2>1, RowsFinite, FS_Subset
    <2> QED
        BY <2>1, <2>2, <2>3
<1>4. /\ walk.offered \subseteq present /\ walk.added \subseteq present
      /\ walk.sweep \in Sweeps /\ Cardinality(held) <= MaxTracked
      /\ walk.sweep.on => \/ walk.sweep.next = walk.sweep.from
                          \/ NotAfter(walk.sweep.next, from)
      /\ \A i \in present \ unreadable.ids :
             Swept(unreadable.sweep, i) /\ NotAfter(KeysetOf(i), from)
               => i \in walk.offered \/ i \in walk.added \/ Swept(walk.sweep, i)
    <2>1. CASE unreadable.sweep.on
        <3> DEFINE w == WalkLeftBehind(unreadable.sweep, from, opened, kept)
        <3>1. /\ w.offered \subseteq present /\ w.added \subseteq present
              /\ w.sweep \in Sweeps /\ Cardinality(kept \cup w.added) <= MaxTracked
              /\ w.sweep.on => w.sweep.next = w.sweep.from \/ NotAfter(w.sweep.next, from)
              /\ \A i \in present \ unreadable.ids :
                    Swept(unreadable.sweep, i) /\ NotAfter(KeysetOf(i), from)
                      => i \in w.offered \/ i \in w.added \/ Swept(w.sweep, i)
            <4> HIDE DEF kept
            <4> QED
                BY <1>3, <2>1, WalkFacts
        <3>2. walk = w
            BY <2>1
        <3> HIDE DEF w, walk
        <3> QED
            BY <3>1, <3>2
    <2>2. CASE ~unreadable.sweep.on
        <3>1. walk = NoWalk
            BY <2>2
        <3>2. NoSweep \in Sweeps
            BY UploadFloorAssumption DEF Sweeps, NoSweep, Origin, Positions
        <3>3. held = kept
            BY <3>1 DEF NoWalk
        <3> HIDE DEF walk, held, kept
        <3> QED
            BY <1>3, <2>2, <3>1, <3>2, <3>3 DEF NoWalk, NoSweep, Swept
    <2> QED
        BY <2>1, <2>2
<1> HIDE DEF walk, kept
<1>5. /\ page \subseteq present /\ read \subseteq page /\ bad \subseteq read
      /\ Opening(read) \subseteq read /\ early \subseteq read
      /\ read \in SUBSET Rows /\ bad \in SUBSET Rows /\ early \in SUBSET Rows
      /\ held \in SUBSET Rows
    BY <1>2, <1>3, <1>4, ScanTypes DEF RowsAfter, ReadWithin, Failing, Opening
<1>6. added \subseteq bad /\ Cardinality(ids) <= MaxTracked
    <2> HIDE DEF held, bad
    <2> QED
        BY <1>2, <1>4, <1>5, TrackedFits
<1>7. last \in Positions /\ behind \in Positions
    <2> HIDE DEF read, early
    <2> QED
        BY <1>2, <1>5, LastOfFacts
<1>8. sweep \in Sweeps
    <2> HIDE DEF behind, left
    <2> QED
        BY <1>4, <1>7 DEF Sweeps, SweepFrom
<1>9. ASSUME NEW i \in present, i \in unreadable.ids
      PROVE  Keeps(i)
    BY <1>9 DEF kept
<1>10. ASSUME NEW i \in present, Swept(unreadable.sweep, i),
              NotAfter(KeysetOf(i), from)
       PROVE  Keeps(i)
    <2>1. CASE i \in unreadable.ids
        BY <2>1, <1>9
    <2>2. CASE i \in walk.offered \/ i \in walk.added
        BY <2>2
    <2>3. CASE Swept(walk.sweep, i)
        <3>1. Swept(sweep, i)
            <4> HIDE DEF behind, left
            <4> QED
                BY <2>3, <1>2, <1>4, <1>7, SweepFromKeeps
        <3> QED
            BY <3>1
    <2> QED
        BY <1>4, <1>10, <2>1, <2>2, <2>3
<1>11. ASSUME NEW i \in present, Before(from, KeysetOf(i)),
              truncated => NotAfter(KeysetOf(i), last)
       PROVE  Keeps(i)
    <2>1. KeysetOf(i) \in Positions /\ i \in RowsAfter(from)
        BY <1>2, <1>11, KeysetType DEF RowsAfter
    <2>2. i \in read
        <3>1. CASE ~truncated
            <4>1. Cardinality(RowsAfter(from)) < Limit /\ read = page
                <5>1. RowsAfter(from) \in SUBSET Rows
                    BY ScanTypes
                <5>2. Cardinality(RowsAfter(from)) \in Nat /\ Limit \in Nat
                    BY <5>1, RowsFinite, UploadFloorAssumption
                <5> QED
                    BY <3>1, <5>2
            <4> QED
                BY <4>1, <2>1, ScanTypes
        <3>2. CASE truncated
            <4>1. NotAfter(KeysetOf(i), last)
                BY <1>11, <3>2
            <4> HIDE DEF read
            <4>2. read # {}
                <5> SUFFICES ASSUME read = {} PROVE FALSE
                    OBVIOUS
                <5>1. last = from
                    BY <1>2, <1>5, LastOfFacts
                <5> QED
                    BY <4>1, <5>1, <1>11 DEF NotAfter
            <4>3. PICK m \in read : last = KeysetOf(m)
                BY <1>2, <1>5, <4>2, LastOfFacts
            <4>4. i \in page
                BY <4>1, <4>3, <1>5, <2>1, ScanTypes
            <4> QED
                BY <4>1, <4>3, <4>4, <1>2, <1>5, ReadWithinPrefix DEF read
        <3> QED
            BY <3>1, <3>2
    <2>3. CASE i \in unreadable.ids
        BY <2>3, <1>9
    <2>4. CASE i \in Opening(read) \/ i \in added
        BY <2>4
    <2>5. CASE i \in left
        <3>1. Before(behind, KeysetOf(i))
            <4>1. \A r \in early : Before(KeysetOf(r), KeysetOf(i))
                BY <2>5
            <4> HIDE DEF early
            <4> QED
                BY <4>1, <1>2, <1>5, <1>11, LastOfFacts
        <3>2. sweep = SweepFrom(walk.sweep, behind)
            BY <2>5
        <3> HIDE DEF sweep, behind, left
        <3>3. CASE walk.sweep.on /\ NotAfter(walk.sweep.from, behind)
            <4>1. Before(walk.sweep.from, KeysetOf(i))
                BY <3>1, <3>3, <1>4, <1>7, <2>1, OrderFacts DEF Sweeps
            <4>2. Before(walk.sweep.next, KeysetOf(i))
                BY <4>1, <3>3, <1>4, <1>11, <2>1, OrderFacts DEF Sweeps
            <4> QED
                BY <3>2, <3>3, <4>1, <4>2 DEF SweepFrom, Swept
        <3>4. CASE ~(walk.sweep.on /\ NotAfter(walk.sweep.from, behind))
            BY <3>1, <3>2, <3>4 DEF SweepFrom, Swept
        <3> QED
            BY <3>3, <3>4
    <2> QED
        BY <2>2, <2>3, <2>4, <2>5 DEF Opening, Failing
<1>12. items \subseteq present /\ ids \subseteq Rows
    BY <1>2, <1>4, <1>5, <1>6
<1> HIDE DEF items, ids, sweep, truncated, last, scan
<1>13. /\ scan.items = items /\ scan.ids = ids /\ scan.sweep = sweep
       /\ scan.offer = [truncated |-> truncated, last |-> last, started |-> from]
       /\ scan.offer.truncated = truncated /\ scan.offer.last = last
       /\ scan.offer.started = from
    BY <1>1
<1>14. truncated \in BOOLEAN
    BY DEF truncated
<1>15. scan.offer \in Offers
    BY <1>7, <1>13, <1>14 DEF Offers
<1>16. /\ scan.items \subseteq present
       /\ scan.ids \subseteq Rows /\ Cardinality(scan.ids) <= MaxTracked
       /\ scan.sweep \in Sweeps
    BY <1>6, <1>8, <1>12, <1>13
<1> QED
    BY <1>9, <1>10, <1>11, <1>13, <1>15, <1>16 DEF scan

-----------------------------------------------------------------------------
(* Type correctness.                                                       *)

\* What the Scan request leaves behind, from what the scan returns.
LEMMA ScanRequestFacts ==
    ASSUME TypeOK, ScanRequest
    PROVE  LET from == IF unreadable.malformed THEN Origin ELSE since IN
           \E opened \in SUBSET (unreadable.ids \cap present) :
              LET scan == ScanBounded(from, opened) IN
              /\ from \in Positions
              /\ unreadable' = [ids |-> scan.ids, sweep |-> scan.sweep,
                                malformed |-> FALSE]
              /\ offer' = scan.offer
              /\ inflight' = scan.items \ uploaded
<1> DEFINE from == IF unreadable.malformed THEN Origin ELSE since
           cand == unreadable.ids \cap present \cap readable
           Outcome(opened) ==
              LET scan == ScanBounded(from, opened) IN
              /\ unreadable' = [ids |-> scan.ids, sweep |-> scan.sweep,
                                malformed |-> FALSE]
              /\ offer' = scan.offer
              /\ inflight' = scan.items \ uploaded
<1>1. from \in Positions
    BY UploadFloorAssumption DEF TypeOK, Positions, Origin
<1>2. \E opened \in RetryChoices(cand) : Outcome(opened)
    BY DEF ScanRequest
<1>3. RetryChoices(cand) \subseteq SUBSET (unreadable.ids \cap present)
    BY DEF RetryChoices
<1> HIDE DEF cand
<1> QED
    BY <1>1, <1>2, <1>3

\* A scan leaves a record of the right type whose id list is within its bound.
LEMMA ScanKeepsTypes ==
    ASSUME TypeOK, ScanRequest
    PROVE  TypeOK'
<1> DEFINE from == IF unreadable.malformed THEN Origin ELSE since
<1>1. PICK opened \in SUBSET (unreadable.ids \cap present) :
         LET scan == ScanBounded(from, opened) IN
         /\ from \in Positions
         /\ unreadable' = [ids |-> scan.ids, sweep |-> scan.sweep,
                           malformed |-> FALSE]
         /\ offer' = scan.offer
         /\ inflight' = scan.items \ uploaded
    BY ScanRequestFacts
<1> DEFINE scan == ScanBounded(from, opened)
<1>2. /\ scan.items \subseteq present
      /\ scan.ids \subseteq Rows /\ Cardinality(scan.ids) <= MaxTracked
      /\ scan.sweep \in Sweeps /\ scan.offer \in Offers
    BY <1>1, ScanFacts
<1> HIDE DEF scan
<1>3. /\ unreadable' = [ids |-> scan.ids, sweep |-> scan.sweep,
                        malformed |-> FALSE]
      /\ offer' = scan.offer
      /\ inflight' = scan.items \ uploaded
    BY <1>1 DEF scan
<1>4. unreadable' \in Records /\ Cardinality(unreadable'.ids) <= MaxTracked
    BY <1>2, <1>3 DEF Records
<1>5. Origin \in Positions
    BY UploadFloorAssumption DEF Origin, Positions
<1> QED
    BY <1>2, <1>3, <1>4, <1>5 DEF ScanRequest, TypeOK, storeVars, historyVars

\* The values of the record and the offer that no scan made.
LEMMA ConstantTypes ==
    /\ Origin \in Positions /\ NoOffer \in Offers
    /\ EmptyRecord \in Records /\ Cardinality(EmptyRecord.ids) <= MaxTracked
    /\ [EmptyRecord EXCEPT !.malformed = TRUE] \in Records
    /\ [EmptyRecord EXCEPT !.malformed = TRUE].ids = {}
    /\ Cardinality({}) <= MaxTracked
<1>1. Origin \in Positions
    BY UploadFloorAssumption DEF Origin, Positions
<1>2. NoSweep \in Sweeps
    BY <1>1 DEF NoSweep, Sweeps
<1>3. Cardinality({}) <= MaxTracked
    BY FS_EmptySet, UploadFloorAssumption
<1> QED
    BY <1>1, <1>2, <1>3 DEF NoOffer, Offers, EmptyRecord, Records

\* The first state of the host and of the module is well typed.
LEMMA TypeInit == Init => TypeOK
<1> SUFFICES ASSUME Init PROVE TypeOK
    OBVIOUS
<1>1. unreadable \in Records /\ Cardinality(unreadable.ids) <= MaxTracked
        /\ offer \in Offers /\ floor \in Positions /\ since \in Positions
    BY ConstantTypes DEF Init
<1>2. startedMs \in 0..MaxMs
    BY UploadFloorAssumption DEF Init
<1> QED
    BY <1>1, <1>2 DEF Init, TypeOK

\* Every step of the host, the module and the writers keeps the types.
LEMMA TypeStep == TypeOK /\ [Next]_vars => TypeOK'
<1> SUFFICES ASSUME TypeOK, [Next]_vars PROVE TypeOK'
    OBVIOUS
<1> USE DEF storeVars, hostVars, roundVars, historyVars
<1>1. ASSUME NEW ms \in 0..MaxMs, BeginRound(ms) PROVE TypeOK'
    BY <1>1, UploadFloorAssumption DEF BeginRound, TypeOK, Positions
<1>2. CASE ReadFloorItem
    BY <1>2, UploadFloorAssumption DEF ReadFloorItem, TypeOK, Positions
<1>3. CASE ScanRequest
    BY <1>3, ScanKeepsTypes
<1>4. ASSUME NEW S \in SUBSET inflight, UploadBatch(S) PROVE TypeOK'
    BY <1>4 DEF UploadBatch, TypeOK
<1>5. CASE PushDone
    BY <1>5 DEF PushDone, TypeOK
<1>6. CASE PullDone
    BY <1>6, UploadFloorAssumption DEF PullDone, TypeOK, Positions
<1>7. CASE CommitUpload
    <2>1. FloorAfterRound(offer, startedMs) \in Positions
        BY UploadFloorAssumption DEF FloorAfterRound, TypeOK, Offers, Positions
    <2>2. floor' \in Positions
        BY <1>7, <2>1 DEF CommitUpload, Later, TypeOK
    <2> QED
        BY <1>7, <2>2 DEF CommitUpload, TypeOK
<1>8. ASSUME NEW i \in Rows, NEW ms \in 0..MaxMs, NEW opens \in BOOLEAN,
             WriteRow(i, ms, opens)
      PROVE  TypeOK'
    <2>1. stamp' \in [Rows -> 0..MaxMs]
        BY <1>8 DEF WriteRow, TypeOK
    <2>2. pending' \subseteq Rows \X (0..MaxMs)
        BY <1>8 DEF WriteRow, TypeOK
    <2> QED
        BY <1>8, <2>1, <2>2 DEF WriteRow, TypeOK
<1>9. ASSUME NEW i \in Rows, EvictRow(i) PROVE TypeOK'
    <2>1. stamp' \in [Rows -> 0..MaxMs]
        BY <1>9, UploadFloorAssumption DEF EvictRow, TypeOK
    <2> QED
        BY <1>9, <2>1 DEF EvictRow, TypeOK
<1>10. ASSUME NEW i \in Rows, ToggleReadable(i) PROVE TypeOK'
    BY <1>10 DEF ToggleReadable, TypeOK
<1>11. ASSUME NEW w \in pending, NoteVersion(w) PROVE TypeOK'
    <2>1. w[2] \in 0..MaxMs
        BY DEF TypeOK
    <2>2. floor' \in Positions
        BY <1>11, <2>1, UploadFloorAssumption
        DEF NoteVersion, LoweredFloor, TypeOK, Positions
    <2> QED
        BY <1>11, <2>2 DEF NoteVersion, TypeOK
<1>12. ASSUME NEW i \in Rows, RequeueLocalWinner(i) PROVE TypeOK'
    <2>1. floor' \in Positions
        BY <1>12, UploadFloorAssumption
        DEF RequeueLocalWinner, LoweredFloor, TypeOK, Positions
    <2> QED
        BY <1>12, <2>1 DEF RequeueLocalWinner, TypeOK
<1>13. CASE RoundFails
    BY <1>13 DEF RoundFails, TypeOK
<1>14. CASE Crash
    BY <1>14, ConstantTypes DEF Crash, TypeOK
<1>15. CASE RecordCorrupted
    BY <1>15, ConstantTypes DEF RecordCorrupted, TypeOK
<1>16. CASE SignOut
    BY <1>16, ConstantTypes DEF SignOut, TypeOK
<1>17. ASSUME NEW same \in BOOLEAN, SignIn(same) PROVE TypeOK'
    BY <1>17, ConstantTypes DEF SignIn, TypeOK
<1>18. CASE UNCHANGED vars
    BY <1>18 DEF vars, TypeOK
<1>19. ASSUME NEW i \in Rows, NEW ms \in 0..MaxMs, ApplyRemote(i, ms) PROVE TypeOK'
    <2>1. stamp' \in [Rows -> 0..MaxMs]
        BY <1>19 DEF ApplyRemote, TypeOK
    <2> QED
        BY <1>19, <2>1 DEF ApplyRemote, TypeOK
<1>20. ASSUME NEW i \in Rows, NEW ms \in 0..MaxMs, ApplyRemoteMerged(i, ms)
       PROVE  TypeOK'
    <2>1. stamp' \in [Rows -> 0..MaxMs]
        BY <1>20, UploadFloorAssumption DEF ApplyRemoteMerged, TypeOK
    <2> QED
        BY <1>20, <2>1 DEF ApplyRemoteMerged, TypeOK
<1>21. CASE SessionExpired
    BY <1>21, ConstantTypes DEF SessionExpired, TypeOK
<1> QED
    BY <1>1, <1>2, <1>3, <1>4, <1>5, <1>6, <1>7, <1>8, <1>9, <1>10, <1>11,
       <1>12, <1>13, <1>14, <1>15, <1>16, <1>17, <1>18,
       <1>19, <1>20, <1>21
    DEF Next, Round, Writers, Notes, Environment, Accounts

\* The variables keep their types and the list of unreadable ids its bound,
\* MAX_UNREADABLE_TRACKED, whatever is captured, merged, repaired or lost.
THEOREM TypeCorrect == Spec => []TypeOK
<1>1. Init => TypeOK
    BY TypeInit
<1>2. TypeOK /\ [Next]_vars => TypeOK'
    BY TypeStep
<1> QED
    BY <1>1, <1>2, PTL DEF Spec

-----------------------------------------------------------------------------
(* No row is stranded.                                                     *)

\* What the phases of a round promise besides: a round belongs to an account,
\* only its upload phase has rows on their way, and the floor is never past
\* what the round has read of it when the scan starts, torn read or not.
RoundInv ==
    /\ phase # "idle" => signedIn
    /\ phase # "upload" => inflight = {}
    /\ phase = "push" => floor[1] <= since[1]
    /\ phase = "scan" => NotAfter(floor, since)

Inv == TypeOK /\ RoundInv /\ NoStrandedRow /\ OfferAnswersForItsRows

\* The invariant holds before the first round.
LEMMA InvInit == Init => Inv
<1> SUFFICES ASSUME Init PROVE Inv
    OBVIOUS
<1>1. TypeOK
    BY TypeInit
<1>2. NoStrandedRow
    <2> SUFFICES ASSUME NEW i \in present PROVE Before(floor, KeysetOf(i))
        BY DEF NoStrandedRow, Covered
    <2> QED
        BY <1>1, ScanTypes, KeysetType DEF Init
<1>3. OfferAnswersForItsRows /\ RoundInv
    BY DEF OfferAnswersForItsRows, RoundInv, Init
<1> QED
    BY <1>1, <1>2, <1>3 DEF Inv

\* Every step keeps what the phases of a round promise.
LEMMA RoundInvStep == Inv /\ [Next]_vars => RoundInv'
<1> SUFFICES ASSUME Inv, [Next]_vars PROVE RoundInv'
    OBVIOUS
<1> USE DEF storeVars, hostVars, roundVars, historyVars
<1>0. /\ TypeOK /\ RoundInv /\ floor[1] \in Int /\ floor[2] \in Int
      /\ since[1] \in Int /\ since[2] \in Int
    BY UploadFloorAssumption DEF Inv, TypeOK, Positions
<1>1. ASSUME NEW ms \in 0..MaxMs, BeginRound(ms) PROVE RoundInv'
    BY <1>0, <1>1 DEF BeginRound, RoundInv
<1>2. CASE ReadFloorItem
    BY <1>0, <1>2 DEF ReadFloorItem, RoundInv, NotAfter, Before
<1>3. CASE ScanRequest
    BY <1>0, <1>3 DEF ScanRequest, RoundInv
<1>4. ASSUME NEW S \in SUBSET inflight, UploadBatch(S) PROVE RoundInv'
    BY <1>0, <1>4 DEF UploadBatch, RoundInv
<1>5. CASE PushDone
    BY <1>0, <1>5 DEF PushDone, RoundInv
<1>6. CASE PullDone
    BY <1>0, <1>6 DEF PullDone, RoundInv
<1>7. CASE CommitUpload
    BY <1>0, <1>7 DEF CommitUpload, RoundInv
<1>8. ASSUME NEW i \in Rows, NEW ms \in 0..MaxMs, NEW opens \in BOOLEAN,
             WriteRow(i, ms, opens)
      PROVE  RoundInv'
    BY <1>0, <1>8 DEF WriteRow, RoundInv
<1>9. ASSUME NEW i \in Rows, EvictRow(i) PROVE RoundInv'
    BY <1>0, <1>9 DEF EvictRow, RoundInv
<1>10. ASSUME NEW i \in Rows, ToggleReadable(i) PROVE RoundInv'
    BY <1>0, <1>10 DEF ToggleReadable, RoundInv
<1>11. ASSUME NEW w \in pending, NoteVersion(w) PROVE RoundInv'
    <2>1. w[2] \in Int
        BY <1>0, UploadFloorAssumption DEF TypeOK
    <2>2. floor'[1] <= floor[1] /\ floor'[1] \in Int /\ floor'[2] \in Int
            /\ (floor'[1] = floor[1] => floor'[2] <= floor[2])
        BY <1>0, <1>11, <2>1, UploadFloorAssumption DEF NoteVersion, LoweredFloor, TypeOK, Positions
    <2> QED
        BY <1>0, <1>11, <2>2 DEF NoteVersion, RoundInv, NotAfter, Before
<1>12. ASSUME NEW i \in Rows, RequeueLocalWinner(i) PROVE RoundInv'
    BY <1>0, <1>12 DEF RequeueLocalWinner, RoundInv
<1>13. CASE RoundFails
    BY <1>0, <1>13 DEF RoundFails, RoundInv
<1>14. CASE Crash
    BY <1>0, <1>14 DEF Crash, RoundInv
<1>15. CASE RecordCorrupted
    BY <1>0, <1>15 DEF RecordCorrupted, RoundInv
<1>16. CASE SignOut
    BY <1>0, <1>16 DEF SignOut, RoundInv
<1>17. ASSUME NEW same \in BOOLEAN, SignIn(same) PROVE RoundInv'
    BY <1>0, <1>17 DEF SignIn, RoundInv
<1>18. CASE UNCHANGED vars
    BY <1>0, <1>18 DEF vars, RoundInv
<1>19. ASSUME NEW i \in Rows, NEW ms \in 0..MaxMs, ApplyRemote(i, ms) PROVE RoundInv'
    BY <1>0, <1>19 DEF ApplyRemote, RoundInv
<1>20. ASSUME NEW i \in Rows, NEW ms \in 0..MaxMs, ApplyRemoteMerged(i, ms)
       PROVE  RoundInv'
    BY <1>0, <1>20 DEF ApplyRemoteMerged, RoundInv
<1>21. CASE SessionExpired
    BY <1>0, <1>21 DEF SessionExpired, RoundInv
<1> QED
    BY <1>1, <1>2, <1>3, <1>4, <1>5, <1>6, <1>7, <1>8, <1>9, <1>10, <1>11,
       <1>12, <1>13, <1>14, <1>15, <1>16, <1>17, <1>18,
       <1>19, <1>20, <1>21
    DEF Next, Round, Writers, Notes, Environment, Accounts

\* A note or a requeue only lowers the floor, and to before the row it is for.
LEMMA LoweredFloorFacts ==
    ASSUME TypeOK, NEW ms \in 0..MaxMs
    PROVE  /\ \A i \in Rows : Before(floor, KeysetOf(i))
                    => Before(LoweredFloor(ms), KeysetOf(i))
           /\ \A i \in Rows : stamp[i] = ms => Before(LoweredFloor(ms), KeysetOf(i))
<1>1. floor[1] \in Int /\ floor[2] \in Int /\ ms \in Int
    BY UploadFloorAssumption DEF TypeOK, Positions
<1>2. \A i \in Rows : stamp[i] \in Int /\ i \in Int /\ i > 0
    BY UploadFloorAssumption DEF TypeOK, Rows
<1>3. LoweredFloor(ms) = IF ms <= floor[1] THEN <<ms, 0>> ELSE floor
    BY DEF LoweredFloor
<1>4. CASE ms <= floor[1]
    <2>1. LoweredFloor(ms) = <<ms, 0>>
        BY <1>3, <1>4
    <2> QED
        BY <1>1, <1>2, <1>4, <2>1 DEF Before, KeysetOf
<1>5. CASE ~(ms <= floor[1])
    <2>1. LoweredFloor(ms) = floor
        BY <1>3, <1>5
    <2> QED
        BY <1>1, <1>2, <1>5, <2>1 DEF Before, KeysetOf
<1> QED
    BY <1>4, <1>5

\* The scan: rows the record held are kept by it or on their way, and the
\* offer answers for the page.
LEMMA ScanStep ==
    ASSUME Inv, ScanRequest
    PROVE  NoStrandedRow' /\ OfferAnswersForItsRows'
<1> DEFINE from == IF unreadable.malformed THEN Origin ELSE since
<1>1. TypeOK /\ RoundInv /\ NoStrandedRow
    BY DEF Inv
<1>2. PICK opened \in SUBSET (unreadable.ids \cap present) :
         LET scan == ScanBounded(from, opened) IN
         /\ from \in Positions
         /\ unreadable' = [ids |-> scan.ids, sweep |-> scan.sweep,
                           malformed |-> FALSE]
         /\ offer' = scan.offer
         /\ inflight' = scan.items \ uploaded
    BY <1>1, ScanRequestFacts
<1> DEFINE scan == ScanBounded(from, opened)
           Keeps(i) == i \in scan.items \/ i \in scan.ids \/ Swept(scan.sweep, i)
<1>3. /\ scan.offer.started = from
      /\ \A i \in present :
            /\ i \in unreadable.ids => Keeps(i)
            /\ Swept(unreadable.sweep, i) /\ NotAfter(KeysetOf(i), from) => Keeps(i)
            /\ /\ Before(from, KeysetOf(i))
               /\ scan.offer.truncated => NotAfter(KeysetOf(i), scan.offer.last)
               => Keeps(i)
    BY <1>1, <1>2, ScanFacts
<1> HIDE DEF scan
<1>4. /\ unreadable' = [ids |-> scan.ids, sweep |-> scan.sweep, malformed |-> FALSE]
      /\ offer' = scan.offer
      /\ inflight' = scan.items \ uploaded
    BY <1>2 DEF scan
<1>5. /\ UNCHANGED <<stamp, present, readable, pending, signedIn, uploaded, forfeited>>
      /\ floor' = IF unreadable.malformed THEN Origin ELSE floor
      /\ phase = "scan" /\ phase' = "upload" /\ inflight = {}
    BY <1>1 DEF ScanRequest, storeVars, historyVars, RoundInv
<1>6. Stamped /\ present \subseteq Rows
    BY <1>1, ScanTypes
<1>7. \A i \in present \ uploaded : Keeps(i) => Recorded(i)' \/ Owed(i)'
    <2> SUFFICES ASSUME NEW i \in present \ uploaded, Keeps(i)
                 PROVE  Recorded(i)' \/ Owed(i)'
        OBVIOUS
    <2>1. Swept(scan.sweep, i) => Swept(unreadable.sweep, i)'
        <3>1. KeysetOf(i)' = KeysetOf(i)
            BY <1>5 DEF KeysetOf
        <3>2. unreadable'.sweep = scan.sweep
            BY <1>4
        <3> QED
            BY <3>1, <3>2 DEF Swept
    <2>2. i \in scan.items => Owed(i)'
        BY <1>4 DEF Owed
    <2>3. i \in scan.ids => Recorded(i)'
        BY <1>4 DEF Recorded
    <2> QED
        BY <2>1, <2>2, <2>3 DEF Recorded
<1>8. \A i \in present : /\ Before(floor, KeysetOf(i))' <=> Before(floor', KeysetOf(i))
                         /\ KeysetOf(i)' = KeysetOf(i)
    BY <1>5 DEF KeysetOf, Before
<1>9. NoStrandedRow'
    <2> SUFFICES ASSUME signedIn, NEW i \in present \ (uploaded \cup forfeited)
                 PROVE  Covered(i)' \/ Owed(i)'
        BY <1>5 DEF NoStrandedRow
    <2>1. KeysetOf(i) \in Positions /\ Before(Origin, KeysetOf(i))
        BY <1>6, KeysetType
    <2>2. CASE unreadable.malformed
        BY <2>1, <2>2, <1>5, <1>8 DEF Covered
    <2>3. CASE ~unreadable.malformed
        <3>1. from = since /\ floor' = floor /\ NotAfter(floor, since)
            BY <2>3, <1>1, <1>5 DEF RoundInv
        <3>2. Covered(i) \/ Owed(i)
            BY <1>1 DEF NoStrandedRow
        <3>3. CASE Before(floor, KeysetOf(i))
            BY <3>1, <3>3, <1>8 DEF Covered
        <3>4. CASE <<i, stamp[i]>> \in pending
            BY <3>4, <1>5 DEF Owed
        <3>5. CASE i \in unreadable.ids
            BY <3>5, <1>3, <1>7 DEF Covered
        <3>6. CASE Swept(unreadable.sweep, i) /\ NotAfter(KeysetOf(i), from)
            BY <3>6, <1>3, <1>7 DEF Covered
        <3>7. CASE ~NotAfter(KeysetOf(i), from)
            <4>1. Before(floor, KeysetOf(i))
                BY <3>1, <3>7, <2>1, <1>1, OrderFacts DEF NotAfter, TypeOK
            <4> QED
                BY <4>1, <3>3
        <3> QED
            BY <2>3, <3>2, <3>3, <3>4, <3>5, <3>6, <3>7, <1>5
            DEF Covered, Recorded, Owed
    <2> QED
        BY <2>2, <2>3
<1>10. OfferAnswersForItsRows'
    <2> SUFFICES ASSUME NEW i \in present \ (uploaded \cup forfeited),
                        Before(offer.started, KeysetOf(i))',
                        offer'.truncated => NotAfter(KeysetOf(i), offer.last)'
                 PROVE  Recorded(i)' \/ Owed(i)'
        BY <1>5 DEF OfferAnswersForItsRows
    <2>1. /\ Before(from, KeysetOf(i))
          /\ scan.offer.truncated => NotAfter(KeysetOf(i), scan.offer.last)
        BY <1>3, <1>4, <1>8 DEF NotAfter, Before
    <2> QED
        BY <2>1, <1>3, <1>7
<1> QED
    BY <1>9, <1>10

\* The commit: the rows it moves the floor past are the offer's to answer for.
LEMMA CommitStep ==
    ASSUME Inv, CommitUpload
    PROVE  NoStrandedRow' /\ OfferAnswersForItsRows'
<1>1. TypeOK /\ NoStrandedRow /\ OfferAnswersForItsRows
    BY DEF Inv
<1>2. /\ UNCHANGED <<stamp, present, unreadable, pending, signedIn, inflight,
                     uploaded, forfeited>>
      /\ phase = "commit" /\ phase' = "idle"
    BY DEF CommitUpload, storeVars, historyVars
<1>3. OfferAnswersForItsRows'
    BY <1>2 DEF OfferAnswersForItsRows
<1>4. NoStrandedRow'
    <2> SUFFICES ASSUME signedIn, NEW i \in present \ (uploaded \cup forfeited)
                 PROVE  Covered(i)' \/ Owed(i)'
        BY <1>2 DEF NoStrandedRow
    <2>1. /\ KeysetOf(i) \in Positions /\ KeysetOf(i)' = KeysetOf(i)
          /\ floor \in Positions /\ offer.started \in Positions
          /\ offer.last \in Positions /\ startedMs \in 0..MaxMs
        BY <1>1, <1>2, ScanTypes, KeysetType DEF KeysetOf, TypeOK, Offers
    <2>2. Recorded(i) \/ Owed(i) => Covered(i)' \/ Owed(i)'
        BY <1>2 DEF Covered, Recorded, Swept, Owed, KeysetOf
    <2>3. CASE ~Before(floor, KeysetOf(i))
        BY <2>2, <2>3, <1>1 DEF NoStrandedRow, Covered
    <2>4. CASE Before(floor, KeysetOf(i)) /\ ~MayCommit
        BY <2>1, <2>4 DEF CommitUpload, Covered
    <2>5. CASE Before(floor, KeysetOf(i)) /\ MayCommit
        <3> DEFINE target == FloorAfterRound(offer, startedMs)
        <3>1. floor' = floor \/ floor' = target
            BY <2>5 DEF CommitUpload, Later
        <3>2. CASE Before(floor', KeysetOf(i))
            BY <2>1, <3>2 DEF Covered
        <3>3. CASE ~Before(floor', KeysetOf(i))
            <4>1. floor' = target /\ ~Before(target, KeysetOf(i))
                BY <2>5, <3>1, <3>3
            <4>2. offer.truncated => NotAfter(KeysetOf(i), offer.last)
                BY <4>1, <2>1, UploadFloorAssumption
                DEF FloorAfterRound, NotAfter, Before, Positions
            <4>3. Before(offer.started, KeysetOf(i)) /\ ~moved
                BY <2>1, <2>5, OrderFacts DEF MayCommit
            <4>4. Recorded(i) \/ Owed(i)
                BY <4>2, <4>3, <1>1, <1>2 DEF OfferAnswersForItsRows
            <4> QED
                BY <4>4, <2>2
        <3> QED
            BY <3>2, <3>3
    <2> QED
        BY <2>3, <2>4, <2>5
<1> QED
    BY <1>3, <1>4

\* Steps that leave the store, the record and the floor alone, and let no row
\* go: coverage is as it was.
LEMMA QuietStep ==
    ASSUME Inv, UNCHANGED <<stamp, present, floor, unreadable, moved, offer,
                            pending, signedIn, forfeited>>,
           \A i \in present \ uploaded' : i \notin uploaded /\ (i \in inflight => i \in inflight'),
           phase' \in {"upload", "pull", "commit"}
             => phase \in {"upload", "pull", "commit"}
    PROVE  NoStrandedRow' /\ OfferAnswersForItsRows'
    BY DEF Inv, NoStrandedRow, OfferAnswersForItsRows, Covered, Recorded, Swept,
           Owed, KeysetOf, Before, NotAfter

\* A write, a merge or an eviction: only the row itself is touched, and a row
\* that is left to be uploaded is owed a note.
LEMMA StoreStep ==
    ASSUME Inv, NEW r \in Rows,
           \A i \in Rows \ {r} : stamp'[i] = stamp[i],
           present' \ {r} = present \ {r},
           inflight' = inflight \ {r}, uploaded' \ {r} = uploaded \ {r},
           forfeited' \ {r} = forfeited \ {r},
           pending \subseteq pending',
           r \in present' \ (uploaded' \cup forfeited')
             => <<r, stamp'[r]>> \in pending',
           UNCHANGED <<floor, unreadable, moved, offer, signedIn, phase>>
    PROVE  NoStrandedRow' /\ OfferAnswersForItsRows'
<1>1. ASSUME NEW i \in present' \ (uploaded' \cup forfeited'), i # r
      PROVE  /\ i \in present \ (uploaded \cup forfeited)
             /\ KeysetOf(i)' = KeysetOf(i)
             /\ Before(floor, KeysetOf(i)) => Before(floor, KeysetOf(i))'
             /\ Recorded(i) => Recorded(i)'
             /\ Owed(i) => Owed(i)'
    <2>1. i \in present /\ i \in Rows /\ stamp'[i] = stamp[i]
        BY <1>1 DEF Inv, TypeOK
    <2> QED
        BY <1>1, <2>1 DEF KeysetOf, Recorded, Swept, Owed, Before
<1>2. r \in present' \ (uploaded' \cup forfeited') => Owed(r)'
    BY DEF Owed
<1>3. NoStrandedRow'
    <2> SUFFICES ASSUME signedIn, NEW i \in present' \ (uploaded' \cup forfeited'),
                        i # r
                 PROVE  Covered(i)' \/ Owed(i)'
        BY <1>2 DEF NoStrandedRow
    <2>1. Covered(i) \/ Owed(i)
        BY <1>1 DEF Inv, NoStrandedRow
    <2> QED
        BY <1>1, <2>1 DEF Covered
<1>4. OfferAnswersForItsRows'
    <2> SUFFICES ASSUME phase \in {"upload", "pull", "commit"}, ~moved,
                        NEW i \in present' \ (uploaded' \cup forfeited'), i # r,
                        Before(offer.started, KeysetOf(i))',
                        offer.truncated => NotAfter(KeysetOf(i), offer.last)'
                 PROVE  Recorded(i)' \/ Owed(i)'
        BY <1>2 DEF OfferAnswersForItsRows
    <2>1. /\ Before(offer.started, KeysetOf(i))
          /\ offer.truncated => NotAfter(KeysetOf(i), offer.last)
        BY <1>1 DEF Before, NotAfter
    <2> QED
        BY <1>1, <2>1 DEF Inv, OfferAnswersForItsRows
<1> QED
    BY <1>3, <1>4

\* Every step keeps the rows covered and the last scan answerable.
LEMMA InvStep == Inv /\ [Next]_vars => Inv'
<1> SUFFICES ASSUME Inv, [Next]_vars PROVE NoStrandedRow' /\ OfferAnswersForItsRows'
    BY TypeStep, RoundInvStep DEF Inv
<1> DEFINE Goal == NoStrandedRow' /\ OfferAnswersForItsRows'
<1> USE DEF storeVars, hostVars, roundVars, historyVars
<1>0. TypeOK /\ RoundInv /\ NoStrandedRow /\ Stamped /\ present \subseteq Rows
    BY ScanTypes DEF Inv
<1>1. ASSUME NEW ms \in 0..MaxMs, BeginRound(ms) PROVE Goal
    BY <1>1, QuietStep DEF BeginRound
<1>2. CASE ReadFloorItem
    BY <1>2, QuietStep DEF ReadFloorItem
<1>3. CASE ScanRequest
    BY <1>3, ScanStep
<1>4. ASSUME NEW S \in SUBSET inflight, UploadBatch(S) PROVE Goal
    BY <1>4, QuietStep DEF UploadBatch
<1>5. CASE PushDone
    BY <1>5, QuietStep DEF PushDone
<1>6. CASE PullDone
    BY <1>6, QuietStep DEF PullDone
<1>7. CASE CommitUpload
    BY <1>7, CommitStep
<1>8. ASSUME NEW i \in Rows, NEW ms \in 0..MaxMs, NEW opens \in BOOLEAN,
             WriteRow(i, ms, opens)
      PROVE  Goal
    <2>1. (\A j \in Rows \ {i} : stamp'[j] = stamp[j]) /\ stamp'[i] = ms
        BY <1>8, <1>0 DEF WriteRow, TypeOK
    <2>2. /\ present' \ {i} = present \ {i}
          /\ pending \subseteq pending' /\ <<i, stamp'[i]>> \in pending'
        BY <1>8, <2>1 DEF WriteRow
    <2>3. /\ inflight' = inflight \ {i} /\ uploaded' = uploaded \ {i}
          /\ forfeited' = forfeited \ {i}
          /\ UNCHANGED <<floor, unreadable, moved, offer, signedIn, phase>>
        BY <1>8 DEF WriteRow
    <2> QED
        BY <2>1, <2>2, <2>3, StoreStep
<1>9. ASSUME NEW i \in Rows, EvictRow(i) PROVE Goal
    <2>1. \A j \in Rows \ {i} : stamp'[j] = stamp[j]
        BY <1>9, <1>0 DEF EvictRow, TypeOK
    <2> QED
        BY <1>9, <2>1, StoreStep DEF EvictRow
<1>10. ASSUME NEW i \in Rows, ToggleReadable(i) PROVE Goal
    BY <1>10, QuietStep DEF ToggleReadable
<1>11. ASSUME NEW w \in pending, NoteVersion(w) PROVE Goal
    <2>1. OfferAnswersForItsRows'
        BY <1>11 DEF NoteVersion, OfferAnswersForItsRows
    <2>2. ASSUME signedIn, NEW i \in present \ (uploaded \cup forfeited)
          PROVE  Covered(i)' \/ Owed(i)'
        <3>1. w[2] \in 0..MaxMs /\ i \in Rows
            BY <1>0 DEF TypeOK
        <3>2. floor' = LoweredFloor(w[2]) /\ KeysetOf(i)' = KeysetOf(i)
            BY <1>11 DEF NoteVersion, KeysetOf
        <3>3. /\ Before(floor, KeysetOf(i)) => Before(floor, KeysetOf(i))'
              /\ stamp[i] = w[2] => Before(floor, KeysetOf(i))'
            BY <1>0, <3>1, <3>2, LoweredFloorFacts
        <3>4. <<i, stamp[i]>> = w => stamp[i] = w[2]
            OBVIOUS
        <3>5. Recorded(i) => Recorded(i)'
            BY <1>11, <3>2 DEF NoteVersion, Recorded, Swept
        <3> QED
            BY <1>0, <1>11, <2>2, <3>3, <3>4, <3>5
            DEF NoStrandedRow, Covered, Owed, NoteVersion
    <2> QED
        BY <1>11, <2>1, <2>2 DEF NoteVersion, NoStrandedRow
<1>12. ASSUME NEW i \in Rows, RequeueLocalWinner(i) PROVE Goal
    <2>1. OfferAnswersForItsRows'
        BY <1>12 DEF RequeueLocalWinner, OfferAnswersForItsRows
    <2>2. ASSUME signedIn,
                 NEW j \in present \ ((uploaded \cup forfeited) \ {i})
          PROVE  Covered(j)' \/ Owed(j)'
        <3>1. stamp[i] \in 0..MaxMs /\ j \in Rows
            BY <1>0 DEF TypeOK
        <3>2. floor' = LoweredFloor(stamp[i]) /\ KeysetOf(j)' = KeysetOf(j)
            BY <1>12 DEF RequeueLocalWinner, KeysetOf
        <3>3. /\ Before(floor, KeysetOf(j)) => Before(floor, KeysetOf(j))'
              /\ j = i => Before(floor, KeysetOf(j))'
            BY <1>0, <3>1, <3>2, LoweredFloorFacts
        <3>4. Recorded(j) => Recorded(j)'
            BY <1>12, <3>2 DEF RequeueLocalWinner, Recorded, Swept
        <3>5. Owed(j) => Owed(j)'
            BY <1>12 DEF RequeueLocalWinner, Owed
        <3> QED
            BY <1>0, <2>2, <3>3, <3>4, <3>5 DEF NoStrandedRow, Covered
    <2> QED
        BY <1>12, <2>1, <2>2 DEF RequeueLocalWinner, NoStrandedRow
<1>13. CASE RoundFails
    <2>1. OfferAnswersForItsRows'
        BY <1>13 DEF RoundFails, OfferAnswersForItsRows
    <2>2. \A i \in present : (Covered(i) => Covered(i)')
                              /\ (<<i, stamp[i]>> \in pending => Owed(i)')
        BY <1>13 DEF RoundFails, Covered, Recorded, Swept, Owed, KeysetOf
    <2> QED
        BY <1>0, <1>13, <2>1, <2>2 DEF RoundFails, NoStrandedRow, Owed
<1>14. CASE Crash
    <2>1. OfferAnswersForItsRows'
        BY <1>14 DEF Crash, OfferAnswersForItsRows
    <2>2. \A i \in present : Covered(i) => Covered(i)'
        BY <1>14 DEF Crash, Covered, Recorded, Swept, KeysetOf
    <2> QED
        BY <1>0, <1>14, <2>1, <2>2 DEF Crash, NoStrandedRow
<1>15. CASE RecordCorrupted
    <2>1. unreadable'.malformed
        BY <1>15 DEF RecordCorrupted, EmptyRecord
    <2> QED
        BY <2>1 DEF NoStrandedRow, OfferAnswersForItsRows, Covered, Recorded
<1>16. CASE SignOut
    BY <1>16 DEF SignOut, NoStrandedRow, OfferAnswersForItsRows
<1>17. ASSUME NEW same \in BOOLEAN, SignIn(same) PROVE Goal
    <2>1. phase' = "idle"
        BY <1>17 DEF SignIn
    <2>2. \A i \in present' : Covered(i)'
        <3>1. \A i \in present : Before(Origin, KeysetOf(i))
            BY <1>0, KeysetType
        <3>2. floor' = Origin /\ UNCHANGED <<stamp, present>>
            BY <1>17 DEF SignIn
        <3> QED
            BY <3>1, <3>2 DEF Covered, KeysetOf
    <2> QED
        BY <2>1, <2>2 DEF NoStrandedRow, OfferAnswersForItsRows
<1>18. CASE UNCHANGED vars
    BY <1>18, QuietStep DEF vars
<1>19. ASSUME NEW i \in Rows, NEW ms \in 0..MaxMs, ApplyRemote(i, ms) PROVE Goal
    <2>1. \A j \in Rows \ {i} : stamp'[j] = stamp[j]
        BY <1>19, <1>0 DEF ApplyRemote, TypeOK
    <2>2. inflight = {}
        BY <1>19, <1>0 DEF ApplyRemote, RoundInv
    <2>3. /\ present' \ {i} = present \ {i}
          /\ inflight' = inflight \ {i} /\ uploaded' \ {i} = uploaded \ {i}
          /\ forfeited' \ {i} = forfeited \ {i}
          /\ i \in uploaded'
          /\ UNCHANGED <<floor, unreadable, moved, offer, signedIn, phase, pending>>
        BY <1>19, <2>2 DEF ApplyRemote
    <2> QED
        BY <2>1, <2>3, StoreStep
<1>20. ASSUME NEW i \in Rows, NEW ms \in 0..MaxMs, ApplyRemoteMerged(i, ms)
       PROVE  Goal
    <2>1. \A j \in Rows \ {i} : stamp'[j] = stamp[j]
        BY <1>20, <1>0 DEF ApplyRemoteMerged, TypeOK
    <2>2. inflight = {}
        BY <1>20, <1>0 DEF ApplyRemoteMerged, RoundInv
    <2>3. /\ present' \ {i} = present \ {i}
          /\ inflight' = inflight \ {i} /\ uploaded' \ {i} = uploaded \ {i}
          /\ forfeited' \ {i} = forfeited \ {i}
          /\ i \in forfeited'
          /\ UNCHANGED <<floor, unreadable, moved, offer, signedIn, phase, pending>>
        BY <1>20, <2>2 DEF ApplyRemoteMerged
    <2> QED
        BY <2>1, <2>3, StoreStep
<1>21. CASE SessionExpired
    BY <1>21 DEF SessionExpired, NoStrandedRow, OfferAnswersForItsRows
<1> QED
    BY <1>1, <1>2, <1>3, <1>4, <1>5, <1>6, <1>7, <1>8, <1>9, <1>10, <1>11,
       <1>12, <1>13, <1>14, <1>15, <1>16, <1>17, <1>18,
       <1>19, <1>20, <1>21
    DEF Next, Round, Writers, Notes, Environment, Accounts

\* The inductive invariant holds in every reachable state.
LEMMA InvHolds == Spec => []Inv
<1>1. Init => Inv
    BY InvInit
<1>2. Inv /\ [Next]_vars => Inv'
    BY InvStep
<1> QED
    BY <1>1, <1>2, PTL DEF Spec

\* INV-N7 and INV-N7a for histories, pages, lists and budgets of any size: a
\* version the backend has not accepted is after the floor, recorded, on its
\* way or owed a note, unless a fault ended its offer.
THEOREM NoRowIsStranded == Spec => []NoStrandedRow
<1>1. Inv => NoStrandedRow
    BY DEF Inv
<1> QED
    BY <1>1, InvHolds, PTL

\* What entitles CommitUpload to move the floor: until something is noted,
\* the last scan answers for every row between its start and its end.
THEOREM OfferAnswers == Spec => []OfferAnswersForItsRows
<1>1. Inv => OfferAnswersForItsRows
    BY DEF Inv
<1> QED
    BY <1>1, InvHolds, PTL

-----------------------------------------------------------------------------
(* The count of the rows that fail to open.                                *)

\* The rows that fail to open still do, in the same versions.
Stands ==
    \A i \in present \ readable : i \in present' \ readable' /\ stamp'[i] = stamp[i]

Unopened == present \ readable

\* The rows that a walk which has come to `next` can have counted.
Countable(ids, next) == {i \in Unopened \ ids : NotAfter(KeysetOf(i), next)}

\* What a sweep may claim beside the list `ids`: it runs only when the list is
\* full, the cycle under way has counted no more than lies behind it, and the one
\* before no more than there is.
Honest(sweep, ids) ==
    IF sweep.on
    THEN /\ Cardinality(ids) = MaxTracked
         /\ NotAfter(sweep.from, sweep.next)
         /\ sweep.settled <= Cardinality(Unopened \ ids)
         /\ sweep.seen <= Cardinality(Countable(ids, sweep.next))
    ELSE sweep = NoSweep

RecordCounts ==
    unreadable.ids \subseteq Unopened /\ Honest(unreadable.sweep, unreadable.ids)

\* Two sets that share nothing.
LEMMA DisjointSum ==
    ASSUME NEW S, NEW T, IsFiniteSet(S), IsFiniteSet(T), S \cap T = {}
    PROVE  Cardinality(S \cup T) = Cardinality(S) + Cardinality(T)
<1>1. Cardinality(S \cup T) = Cardinality(S) + Cardinality(T) - Cardinality(S \cap T)
    BY FS_Union
<1>2. Cardinality(S \cap T) = 0
    BY FS_EmptySet
<1>3. Cardinality(S) \in Nat /\ Cardinality(T) \in Nat
    BY FS_CardinalityType
<1> QED
    BY <1>1, <1>2, <1>3

\* When the first n rows of S are not all of it, they are n.
LEMMA FirstOfFull ==
    ASSUME Stamped, NEW S \in SUBSET Rows, NEW n \in Nat, S \ FirstOf(S, n) # {}
    PROVE  Cardinality(FirstOf(S, n)) >= n
<1> DEFINE T == S \ FirstOf(S, n)
<1>1. T \in SUBSET Rows /\ FirstOf(S, n) \in SUBSET Rows
    BY DEF FirstOf
<1>2. PICK i \in FirstOf(T, 1) : TRUE
    BY <1>1, FirstOfSome
<1> DEFINE E == {j \in T : Before(KeysetOf(j), KeysetOf(i))}
           F == {j \in S : Before(KeysetOf(j), KeysetOf(i))}
<1>3. i \in T /\ Cardinality(E) < 1
    BY <1>2 DEF FirstOf
<1>4. E = {}
    <2>1. E \in SUBSET Rows
        BY <1>1
    <2>2. IsFiniteSet(E) /\ Cardinality(E) \in Nat
        BY <2>1, RowsFinite
    <2>3. Cardinality(E) = 0
        BY <1>3, <2>2
    <2> HIDE DEF E
    <2> QED
        BY <2>2, <2>3, FS_EmptySet
<1>5. F \subseteq FirstOf(S, n)
    BY <1>4
<1>6. ~(Cardinality(F) < n)
    BY <1>3 DEF FirstOf
<1>7. F \in SUBSET Rows
    OBVIOUS
<1> HIDE DEF F
<1>8. /\ Cardinality(F) <= Cardinality(FirstOf(S, n))
      /\ Cardinality(F) \in Nat /\ Cardinality(FirstOf(S, n)) \in Nat
    BY <1>1, <1>5, <1>7, RowsFinite, FS_Subset
<1> QED
    BY <1>6, <1>8

\* A full list takes nothing, and one that leaves a row is full.
LEMMA TrackedFull ==
    ASSUME Stamped, NEW held \in SUBSET Rows, NEW bad \in SUBSET Rows,
           held \cap bad = {}, Cardinality(held) <= MaxTracked
    PROVE  LET added == Tracked(bad, Cardinality(held)) IN
           /\ Cardinality(held) = MaxTracked => added = {}
           /\ bad \ added # {} => Cardinality(held \cup added) = MaxTracked
<1> DEFINE added == Tracked(bad, Cardinality(held))
           n == MaxTracked - Cardinality(held)
<1>1. Cardinality(held) \in Nat /\ IsFiniteSet(held) /\ n \in Nat
    BY RowsFinite, UploadFloorAssumption
<1>2. added = FirstOf(bad, n)
    BY DEF Tracked
<1>3. added \subseteq bad /\ added \in SUBSET Rows
    BY <1>2 DEF FirstOf
<1>4. Cardinality(added) \in Nat /\ IsFiniteSet(added)
    BY <1>3, RowsFinite
<1> HIDE DEF n
<1>5. Cardinality(added) <= n
    BY <1>1, <1>2, FirstOfBound
<1>6. bad \ added # {} => Cardinality(added) >= n
    BY <1>1, <1>2, FirstOfFull
<1> HIDE DEF added
<1>7. held \cap added = {}
    BY <1>3
<1>8. Cardinality(held \cup added) = Cardinality(held) + Cardinality(added)
    BY <1>1, <1>4, <1>7, DisjointSum
<1>9. bad \ added # {} => Cardinality(held \cup added) = MaxTracked
    BY <1>1, <1>4, <1>5, <1>6, <1>8, UploadFloorAssumption DEF n
<1>10. Cardinality(held) = MaxTracked => added = {}
    <2> SUFFICES ASSUME Cardinality(held) = MaxTracked PROVE added = {}
        OBVIOUS
    <2>1. Cardinality(added) = 0
        BY <1>1, <1>4, <1>5 DEF n
    <2> QED
        BY <1>4, <2>1, FS_EmptySet
<1> QED
    BY <1>9, <1>10 DEF added

\* The rows a page counts are not among those the walk has come past.
LEMMA CountedAgree ==
    ASSUME TypeOK, NEW ids \in SUBSET Unopened, NEW bad \in SUBSET (Unopened \ ids),
           NEW next \in Positions, NEW last \in Positions, NotAfter(next, last),
           \A i \in bad : Before(next, KeysetOf(i)) /\ NotAfter(KeysetOf(i), last)
    PROVE  /\ Cardinality(Countable(ids, next)) + Cardinality(bad)
                 <= Cardinality(Countable(ids, last))
           /\ Cardinality(Countable(ids, next)) + Cardinality(bad)
                 <= Cardinality(Unopened \ ids)
           /\ Cardinality(Countable(ids, next)) \in Nat /\ Cardinality(bad) \in Nat
           /\ Cardinality(Unopened \ ids) \in Nat
<1> DEFINE C == Countable(ids, next)
           L == Countable(ids, last)
           A == Unopened \ ids
<1>1. Stamped /\ Unopened \subseteq Rows
    BY DEF TypeOK, Stamped, Unopened
<1>2. /\ C \in SUBSET A /\ L \in SUBSET A /\ A \in SUBSET Rows
      /\ C \in SUBSET Rows /\ L \in SUBSET Rows /\ bad \in SUBSET Rows
    BY <1>1 DEF Countable
<1>3. C \cap bad = {}
    BY DEF Countable, NotAfter
<1>4. C \subseteq L
    <2> SUFFICES ASSUME NEW i \in A, NotAfter(KeysetOf(i), next)
                 PROVE  NotAfter(KeysetOf(i), last)
        BY DEF Countable
    <2> QED
        BY <1>1, <1>2, KeysetType, OrderFacts
<1>5. bad \subseteq L
    BY DEF Countable
<1> HIDE DEF A, C, L
<1>6. /\ IsFiniteSet(C) /\ IsFiniteSet(bad) /\ IsFiniteSet(L) /\ IsFiniteSet(A)
      /\ Cardinality(C) \in Nat /\ Cardinality(bad) \in Nat /\ Cardinality(A) \in Nat
      /\ Cardinality(L) \in Nat
    BY <1>2, RowsFinite
<1>7. Cardinality(C \cup bad) = Cardinality(C) + Cardinality(bad)
    BY <1>3, <1>6, DisjointSum
<1>8. Cardinality(C \cup bad) <= Cardinality(L) /\ Cardinality(L) <= Cardinality(A)
    BY <1>2, <1>4, <1>5, <1>6, FS_Subset
<1> QED
    BY <1>6, <1>7, <1>8 DEF A, C, L

\* One page of the walk over a full list: it names no row, what it counts is
\* there, and when the whole page is past its bound the cycle ends.
LEMMA WalkCounts ==
    ASSUME TypeOK, RecordCounts, unreadable.sweep.on, NEW bound \in Positions
    PROVE  LET walk == WalkLeftBehind(unreadable.sweep, bound, {}, unreadable.ids) IN
           /\ walk.added = {}
           /\ Honest(walk.sweep, unreadable.ids)
           /\ walk.sweep.on => walk.sweep.from = unreadable.sweep.from
           /\ Before(bound, unreadable.sweep.next) => walk.sweep.seen = 0
<1> DEFINE ids == unreadable.ids
           sweep == unreadable.sweep
           page == VersionsAfter(sweep.next)
           behind == {i \in page : NotAfter(KeysetOf(i), bound)}
           read == ReadWithin(behind, Bytes({}))
           bad == Failing(read)
           added == Tracked(bad, Cardinality(ids))
           seen == sweep.seen + Cardinality(bad \ added)
           cycled == /\ read = behind
                     /\ \/ behind # page
                        \/ Cardinality(RowsAfter(sweep.next)) < Limit
           last == LastOf(read, sweep.next)
           on == [sweep EXCEPT !.next = last, !.seen = seen]
           left == IF ~cycled THEN on ELSE CycleEnd(sweep, seen)
           walk == WalkLeftBehind(sweep, bound, {}, ids)
<1>1. walk = [offered |-> Opening(read), added |-> added, sweep |-> left]
    BY DEF WalkLeftBehind
<1>2. /\ Stamped /\ present \subseteq Rows /\ sweep \in Sweeps
      /\ sweep.next \in Positions /\ sweep.from \in Positions
      /\ sweep.seen \in Nat /\ sweep.settled \in Nat /\ sweep.on
    BY ScanTypes DEF Sweeps
<1>3. /\ ids \in SUBSET Unopened /\ ids \in SUBSET Rows
      /\ Cardinality(ids) = MaxTracked /\ NotAfter(sweep.from, sweep.next)
      /\ sweep.settled <= Cardinality(Unopened \ ids)
      /\ sweep.seen <= Cardinality(Countable(ids, sweep.next))
    BY <1>2, ScanTypes DEF RecordCounts, Honest
<1>4. /\ page \subseteq RowsAfter(sweep.next) /\ read \subseteq behind
      /\ behind \subseteq page /\ read \in SUBSET Rows
    BY <1>2, ScanTypes DEF RowsAfter, ReadWithin
<1>5. bad \in SUBSET (Unopened \ ids) /\ bad \subseteq read /\ bad \in SUBSET Rows
    BY <1>4 DEF Failing, Unopened, RowsAfter
<1>6. added = {}
    <2>1. ids \cap bad = {} /\ Cardinality(ids) <= MaxTracked
        BY <1>3, <1>5, UploadFloorAssumption
    <2> HIDE DEF bad, ids
    <2> QED
        BY <1>2, <1>3, <1>5, <2>1, TrackedFull
<1>7. seen = sweep.seen + Cardinality(bad)
    <2>1. bad \ added = bad
        BY <1>6
    <2> HIDE DEF bad, added
    <2> QED
        BY <2>1
<1>8. /\ last \in Positions /\ NotAfter(sweep.next, last)
      /\ \A i \in bad : Before(sweep.next, KeysetOf(i)) /\ NotAfter(KeysetOf(i), last)
    <2> HIDE DEF bad
    <2>1. \A i \in read : Before(sweep.next, KeysetOf(i))
        BY <1>4 DEF RowsAfter
    <2> HIDE DEF read
    <2>2. CASE read = {}
        <3>1. last = sweep.next
            BY <1>2, <1>4, <2>2, LastOfFacts
        <3> QED
            BY <1>2, <1>5, <2>2, <3>1, OrderFacts DEF NotAfter
    <2>3. CASE read # {}
        <3>1. PICK m \in read : /\ last = KeysetOf(m)
                                /\ \A j \in read : NotAfter(KeysetOf(j), KeysetOf(m))
            BY <1>2, <1>4, <2>3, LastOfFacts
        <3>2. last \in Positions
            BY <1>2, <1>4, LastOfFacts
        <3>3. NotAfter(sweep.next, last)
            BY <1>2, <2>1, <3>1, <3>2, OrderFacts
        <3> QED
            BY <1>5, <2>1, <3>1, <3>2, <3>3
    <2> QED
        BY <2>2, <2>3
<1>9. /\ Cardinality(Countable(ids, sweep.next)) + Cardinality(bad)
            <= Cardinality(Countable(ids, last))
      /\ Cardinality(Countable(ids, sweep.next)) + Cardinality(bad)
            <= Cardinality(Unopened \ ids)
      /\ Cardinality(Countable(ids, sweep.next)) \in Nat /\ Cardinality(bad) \in Nat
      /\ Cardinality(Unopened \ ids) \in Nat
    <2> HIDE DEF ids, bad, last
    <2> QED
        BY <1>2, <1>3, <1>5, <1>8, CountedAgree
<1>10. Cardinality(Countable(ids, last)) \in Nat
    <2>1. Countable(ids, last) \in SUBSET Rows
        BY <1>2 DEF Countable, Unopened
    <2> QED
        BY <2>1, RowsFinite
<1>11. seen \in Nat /\ seen <= Cardinality(Countable(ids, last))
         /\ seen <= Cardinality(Unopened \ ids)
    <2> HIDE DEF seen, bad, last, ids
    <2> QED
        BY <1>2, <1>3, <1>7, <1>9, <1>10
<1>12. Before(bound, sweep.next) => cycled /\ bad = {}
    <2> SUFFICES ASSUME Before(bound, sweep.next) PROVE cycled /\ bad = {}
        OBVIOUS
    <2>1. behind = {}
        <3> SUFFICES ASSUME NEW i \in page PROVE Before(bound, KeysetOf(i))
            BY DEF NotAfter
        <3>1. KeysetOf(i) \in Positions /\ Before(sweep.next, KeysetOf(i))
            BY <1>2, <1>4, KeysetType DEF RowsAfter
        <3> QED
            BY <1>2, <3>1, OrderFacts
    <2>2. read = behind /\ bad = {}
        BY <2>1, <1>4, <1>5
    <2>3. page = {} => Cardinality(RowsAfter(sweep.next)) < Limit
        <3> SUFFICES ASSUME page = {} PROVE Cardinality(RowsAfter(sweep.next)) < Limit
            OBVIOUS
        <3>1. RowsAfter(sweep.next) = {}
            BY <1>2, ScanTypes
        <3> QED
            BY <3>1, FS_EmptySet, UploadFloorAssumption
    <2> QED
        BY <2>1, <2>2, <2>3
<1> HIDE DEF page, behind, read, bad, added, seen, last, cycled
<1>13. /\ ~cycled => /\ left.on /\ left.from = sweep.from /\ left.next = last
                     /\ left.seen = seen /\ left.settled = sweep.settled
       /\ cycled => left = CycleEnd(sweep, seen)
    BY <1>2 DEF Sweeps
<1>14. /\ seen = 0 => CycleEnd(sweep, seen) = NoSweep
       /\ seen # 0 => /\ CycleEnd(sweep, seen).on
                      /\ CycleEnd(sweep, seen).from = sweep.from
                      /\ CycleEnd(sweep, seen).next = sweep.from
                      /\ CycleEnd(sweep, seen).seen = 0
                      /\ CycleEnd(sweep, seen).settled = seen
    BY <1>2 DEF Sweeps, CycleEnd
<1>15. NoSweep.on = FALSE /\ NoSweep.seen = 0
    BY DEF NoSweep
<1> HIDE DEF left, on
<1>16. Honest(left, ids)
    <2>1. CASE ~cycled
        <3>1. NotAfter(sweep.from, last)
            BY <1>2, <1>3, <1>8, OrderFacts
        <3> QED
            BY <1>3, <1>11, <1>13, <2>1, <3>1 DEF Honest
    <2>2. CASE cycled /\ seen = 0
        BY <1>13, <1>14, <1>15, <2>2 DEF Honest
    <2>3. CASE cycled /\ seen # 0
        <3>1. NotAfter(sweep.from, sweep.from)
            BY <1>2, OrderFacts DEF NotAfter
        <3>2. 0 <= Cardinality(Countable(ids, sweep.from))
            <4>1. Countable(ids, sweep.from) \in SUBSET Rows
                BY <1>2 DEF Countable, Unopened
            <4> QED
                BY <4>1, RowsFinite
        <3> QED
            BY <1>3, <1>11, <1>13, <1>14, <2>3, <3>1, <3>2 DEF Honest
    <2> QED
        BY <2>1, <2>2, <2>3
<1>17. left.on => left.from = sweep.from
    BY <1>13, <1>14, <1>15
<1>18. Before(bound, sweep.next) => left.seen = 0
    BY <1>12, <1>13, <1>14, <1>15
<1> HIDE DEF walk
<1>19. walk.added = added /\ walk.sweep = left
    BY <1>1
<1> QED
    BY <1>6, <1>16, <1>17, <1>18, <1>19 DEF walk

\* A sweep that is begun or pulled back beside a full list claims nothing more,
\* if it had counted nothing when it was pulled back.
LEMMA PulledBack ==
    ASSUME TypeOK, NEW ids \in SUBSET Unopened, NEW sweep \in Sweeps,
           NEW behind \in Positions,
           Cardinality(ids) = MaxTracked, Honest(sweep, ids),
           sweep.on /\ Before(behind, sweep.from) => sweep.seen = 0
    PROVE  Honest(SweepFrom(sweep, behind), ids)
<1>1. CASE sweep.on /\ NotAfter(sweep.from, behind)
    BY <1>1 DEF SweepFrom
<1>2. CASE ~(sweep.on /\ NotAfter(sweep.from, behind))
    <2> DEFINE new == SweepFrom(sweep, behind)
    <2>1. /\ new.on /\ new.from = behind /\ new.next = behind
          /\ new.seen = sweep.seen /\ new.settled = sweep.settled
        BY <1>2 DEF SweepFrom
    <2>2. NotAfter(behind, behind)
        BY OrderFacts DEF NotAfter
    <2>3. sweep.seen = 0
        BY <1>2 DEF NotAfter, Honest, NoSweep
    <2>4. /\ Cardinality(Countable(ids, behind)) \in Nat
          /\ Cardinality(Unopened \ ids) \in Nat
        <3>1. Countable(ids, behind) \in SUBSET Rows /\ (Unopened \ ids) \in SUBSET Rows
            BY DEF TypeOK, Countable, Unopened
        <3> QED
            BY <3>1, RowsFinite
    <2>5. sweep.settled <= Cardinality(Unopened \ ids)
        BY <2>4 DEF Honest, NoSweep
    <2> HIDE DEF new
    <2>6. Honest(new, ids)
        BY <2>1, <2>2, <2>3, <2>4, <2>5 DEF Honest
    <2> QED
        BY <2>6 DEF new
<1> QED
    BY <1>1, <1>2

\* One scan that opens no retried row: the list still names rows that fail to
\* open, and the sweep is still honest beside it.
LEMMA ScanCounts ==
    ASSUME TypeOK, RecordCounts, NEW from \in Positions
    PROVE  LET scan == ScanBounded(from, {}) IN
           scan.ids \subseteq Unopened /\ Honest(scan.sweep, scan.ids)
<1> DEFINE ids == unreadable.ids
           old == unreadable.sweep
           kept == (ids \cap present) \ {}
           walk == IF old.on THEN WalkLeftBehind(old, from, {}, kept) ELSE NoWalk
           page == VersionsAfter(from)
           read == ReadWithin(page, Bytes({}) + Bytes(walk.offered))
           bad == Failing(read)
           held == kept \cup walk.added
           added == Tracked(bad, Cardinality(held))
           left == bad \ added
           early == {i \in read : \A u \in left : Before(KeysetOf(i), KeysetOf(u))}
           behind == LastOf(early, from)
           sweep == IF left = {} THEN walk.sweep ELSE SweepFrom(walk.sweep, behind)
           scan == ScanBounded(from, {})
<1>1. scan.ids = held \cup added /\ scan.sweep = sweep
    BY DEF ScanBounded
<1>2. /\ Stamped /\ present \subseteq Rows /\ ids \in SUBSET Rows
      /\ ids \in SUBSET Unopened /\ Unopened \in SUBSET Rows
      /\ old \in Sweeps /\ old.next \in Positions /\ old.from \in Positions
      /\ Cardinality(ids) <= MaxTracked /\ Cardinality(ids) \in Nat
    <2>1. /\ Stamped /\ present \subseteq Rows /\ ids \in SUBSET Rows /\ old \in Sweeps
        BY ScanTypes
    <2> QED
        BY <2>1, RowsFinite DEF RecordCounts, Unopened, Sweeps, TypeOK
<1>3. kept = ids
    BY <1>2 DEF Unopened
<1>4. /\ walk.added = {} /\ walk.sweep \in Sweeps /\ Honest(walk.sweep, ids)
      /\ walk.sweep.on => old.on /\ walk.sweep.from = old.from
      /\ old.on /\ Before(from, old.next) => walk.sweep.seen = 0
    <2>1. CASE old.on
        <3> DEFINE w == WalkLeftBehind(old, from, {}, ids)
        <3>1. /\ w.added = {} /\ Honest(w.sweep, ids)
              /\ w.sweep.on => w.sweep.from = old.from
              /\ Before(from, old.next) => w.sweep.seen = 0
            BY <2>1, WalkCounts
        <3>2. w.sweep \in Sweeps
            BY <1>2, <2>1, WalkFacts
        <3>3. walk = w
            BY <1>3, <2>1
        <3> HIDE DEF w, walk, kept
        <3> QED
            BY <2>1, <3>1, <3>2, <3>3
    <2>2. CASE ~old.on
        <3>1. walk = NoWalk
            BY <2>2
        <3>2. NoSweep \in Sweeps
            BY UploadFloorAssumption DEF Sweeps, NoSweep, Origin, Positions
        <3> HIDE DEF walk
        <3> QED
            BY <2>2, <3>1, <3>2 DEF NoWalk, NoSweep, Honest
    <2> QED
        BY <2>1, <2>2
<1> HIDE DEF walk, kept
<1>5. held = ids
    BY <1>3, <1>4
<1>6. /\ page \subseteq RowsAfter(from) /\ read \subseteq page /\ early \subseteq read
      /\ read \in SUBSET Rows /\ early \in SUBSET Rows
      /\ bad \in SUBSET Rows /\ bad \in SUBSET (Unopened \ ids)
    <2>1. page \subseteq RowsAfter(from)
        BY ScanTypes
    <2>2. read \subseteq page /\ RowsAfter(from) \subseteq present
        BY DEF RowsAfter, ReadWithin
    <2>3. early \subseteq read
        OBVIOUS
    <2> HIDE DEF page, read, early
    <2>4. read \subseteq present
        BY <2>1, <2>2
    <2>5. bad \in SUBSET (Unopened \ ids)
        BY <2>4 DEF Failing, Unopened
    <2> HIDE DEF bad
    <2> QED
        BY <1>2, <2>1, <2>2, <2>3, <2>4, <2>5
<1>7. NotAfter(from, behind) /\ behind \in Positions
    <2>1. \A i \in early : Before(from, KeysetOf(i)) /\ KeysetOf(i) \in Positions
        <3> HIDE DEF early, page
        <3> QED
            BY <1>2, <1>6, KeysetType DEF RowsAfter
    <2>2. early \in SUBSET Rows
        BY <1>6
    <2> HIDE DEF early
    <2>3. behind \in Positions
        BY <1>2, <2>2, LastOfFacts
    <2>4. behind = from \/ Before(from, behind)
        BY <1>2, <2>1, <2>2, LastOfFacts
    <2> QED
        BY <2>3, <2>4, OrderFacts DEF NotAfter
<1> HIDE DEF page, read, bad, early, behind
<1>8. added = Tracked(bad, Cardinality(ids))
    BY <1>5
<1>9. /\ added \subseteq bad
      /\ Cardinality(ids) = MaxTracked => added = {}
      /\ left # {} => Cardinality(ids \cup added) = MaxTracked
    <2>1. ids \cap bad = {}
        BY <1>6
    <2> HIDE DEF ids
    <2>2. Tracked(bad, Cardinality(ids)) \subseteq bad
        BY <1>2, <1>6, TrackedFits
    <2>3. /\ Cardinality(ids) = MaxTracked => Tracked(bad, Cardinality(ids)) = {}
          /\ bad \ Tracked(bad, Cardinality(ids)) # {}
                => Cardinality(ids \cup Tracked(bad, Cardinality(ids))) = MaxTracked
        BY <1>2, <1>6, <2>1, TrackedFull
    <2> QED
        BY <1>8, <2>2, <2>3
<1> HIDE DEF added
<1>10. (ids \cup added) \in SUBSET Unopened
    BY <1>2, <1>6, <1>9
<1>11. Honest(walk.sweep, ids \cup added)
    <2>1. CASE old.on
        <3>1. Cardinality(ids) = MaxTracked
            BY <2>1 DEF RecordCounts, Honest
        <3>2. ids \cup added = ids
            BY <1>9, <3>1
        <3> QED
            BY <1>4, <3>2
    <2>2. CASE ~old.on
        BY <1>4, <2>2 DEF Honest
    <2> QED
        BY <2>1, <2>2
<1>12. Honest(sweep, ids \cup added)
    <2>1. CASE left = {}
        BY <1>11, <2>1
    <2>2. CASE left # {}
        <3>1. ASSUME walk.sweep.on, Before(behind, walk.sweep.from)
              PROVE  walk.sweep.seen = 0
            <4>1. old.on /\ NotAfter(old.from, old.next) /\ Before(behind, old.from)
                BY <1>4, <3>1 DEF RecordCounts, Honest
            <4>2. Before(from, old.from)
                BY <1>2, <1>7, <4>1, OrderFacts
            <4>3. Before(from, old.next)
                BY <1>2, <4>1, <4>2, OrderFacts
            <4> QED
                BY <1>4, <4>1, <4>3
        <3>2. Cardinality(ids \cup added) = MaxTracked
            BY <1>9, <2>2
        <3> DEFINE all == ids \cup added
                   ws == walk.sweep
        <3>3. /\ all \in SUBSET Unopened /\ ws \in Sweeps /\ Cardinality(all) = MaxTracked
              /\ Honest(ws, all) /\ (ws.on /\ Before(behind, ws.from) => ws.seen = 0)
            BY <1>4, <1>10, <1>11, <3>1, <3>2
        <3> HIDE DEF all, ws
        <3>4. Honest(SweepFrom(ws, behind), all)
            BY <1>7, <3>3, PulledBack
        <3> QED
            BY <2>2, <3>4 DEF all, ws
    <2> QED
        BY <2>1, <2>2
<1> HIDE DEF scan, sweep, held
<1>13. scan.ids = ids \cup added
    BY <1>1, <1>5
<1> QED
    BY <1>1, <1>10, <1>12, <1>13 DEF scan

\* The scan request keeps the counts: no retried row opens.
LEMMA ScanKeepsCounts ==
    ASSUME TypeOK, RecordCounts, ScanRequest
    PROVE  RecordCounts'
<1> DEFINE from == IF unreadable.malformed THEN Origin ELSE since
           cand == unreadable.ids \cap present \cap readable
           Outcome(opened) ==
              unreadable' = [ids |-> ScanBounded(from, opened).ids,
                             sweep |-> ScanBounded(from, opened).sweep,
                             malformed |-> FALSE]
<1>1. from \in Positions
    BY UploadFloorAssumption DEF TypeOK, Positions, Origin
<1>2. \E opened \in RetryChoices(cand) : Outcome(opened)
    BY DEF ScanRequest
<1>3. cand = {}
    BY DEF RecordCounts, Unopened
<1>4. RetryChoices(cand) \subseteq SUBSET cand
    BY DEF RetryChoices
<1>5. Outcome({})
    <2> HIDE DEF Outcome, cand
    <2> QED
        BY <1>2, <1>3, <1>4
<1> DEFINE scan == ScanBounded(from, {})
<1>6. scan.ids \subseteq Unopened /\ Honest(scan.sweep, scan.ids)
    <2> HIDE DEF from
    <2> QED
        BY <1>1, ScanCounts
<1>7. unreadable' = [ids |-> scan.ids, sweep |-> scan.sweep, malformed |-> FALSE]
    BY <1>5
<1> HIDE DEF scan
<1>8. unreadable'.ids = scan.ids /\ unreadable'.sweep = scan.sweep
    BY <1>7
<1>9. stamp' = stamp /\ present' = present /\ readable' = readable
    BY DEF ScanRequest, storeVars
<1>10. Unopened' = Unopened
    BY <1>9 DEF Unopened
<1>11. \A I : \A p : Countable(I, p)' = Countable(I, p)
    BY <1>9, <1>10 DEF Countable, KeysetOf
<1> QED
    BY <1>6, <1>8, <1>10, <1>11 DEF RecordCounts, Honest

\* While the rows that fail to open stand, a step that leaves the record alone
\* keeps it honest: there is no less to count than there was.
LEMMA StandingKeepsCounts ==
    ASSUME TypeOK, TypeOK', RecordCounts, Stands, unreadable' = unreadable
    PROVE  RecordCounts'
<1> DEFINE ids == unreadable.ids
           sweep == unreadable.sweep
           U == Unopened
           V == Unopened'
           C == Countable(ids, sweep.next)
           D == Countable(unreadable.ids, unreadable.sweep.next)'
<1>1. U \subseteq V /\ \A i \in U : KeysetOf(i)' = KeysetOf(i)
    BY DEF Stands, Unopened, KeysetOf
<1>2. C \subseteq U \ ids /\ C \subseteq D
    BY <1>1 DEF Countable
<1>3. /\ C \in SUBSET Rows /\ D \in SUBSET Rows
      /\ (U \ ids) \in SUBSET Rows /\ (V \ ids) \in SUBSET Rows
    BY DEF TypeOK, Countable, Unopened
<1>4. (U \ ids) \subseteq (V \ ids)
    BY <1>1
<1> HIDE DEF C, D, U, V
<1>5. /\ Cardinality(C) <= Cardinality(D)
      /\ Cardinality(U \ ids) <= Cardinality(V \ ids)
      /\ Cardinality(C) \in Nat /\ Cardinality(D) \in Nat
      /\ Cardinality(U \ ids) \in Nat /\ Cardinality(V \ ids) \in Nat
    BY <1>2, <1>3, <1>4, RowsFinite, FS_Subset
<1>6. sweep.settled \in Nat /\ sweep.seen \in Nat
    BY ScanTypes DEF Sweeps
<1>7. ids \subseteq V
    BY <1>1 DEF RecordCounts, U
<1>8. CASE ~sweep.on
    BY <1>7, <1>8 DEF RecordCounts, Honest, V
<1>9. CASE sweep.on
    <2>1. /\ Cardinality(ids) = MaxTracked /\ NotAfter(sweep.from, sweep.next)
          /\ sweep.settled <= Cardinality(U \ ids)
          /\ sweep.seen <= Cardinality(C)
        BY <1>9 DEF RecordCounts, Honest, U, C
    <2>2. /\ sweep.settled <= Cardinality(V \ ids)
          /\ sweep.seen <= Cardinality(D)
        BY <1>5, <1>6, <2>1
    <2> QED
        BY <1>7, <1>9, <2>1, <2>2 DEF RecordCounts, Honest, V, D, NotAfter, Before
<1> QED
    BY <1>8, <1>9

\* Only the scan writes the record; whatever else touches it empties it.
LEMMA RecordWriters ==
    ASSUME [Next]_vars
    PROVE  \/ ScanRequest
           \/ unreadable' = unreadable
           \/ unreadable'.ids = {} /\ unreadable'.sweep = NoSweep
<1>1. EmptyRecord.ids = {} /\ EmptyRecord.sweep = NoSweep
    BY DEF EmptyRecord
<1>2. /\ [EmptyRecord EXCEPT !.malformed = TRUE].ids = {}
      /\ [EmptyRecord EXCEPT !.malformed = TRUE].sweep = NoSweep
    BY DEF EmptyRecord
<1>3. CASE UNCHANGED vars
    BY <1>3 DEF vars, hostVars
<1>4. CASE Round
    BY <1>4 DEF Round, BeginRound, ReadFloorItem, UploadBatch, PushDone, PullDone,
        CommitUpload, hostVars
<1>5. CASE Writers
    BY <1>5 DEF Writers, WriteRow, EvictRow, ToggleReadable, hostVars
<1>6. CASE Notes
    BY <1>6 DEF Notes, NoteVersion
<1>7. CASE Environment
    BY <1>1, <1>2, <1>7 DEF Environment, RequeueLocalWinner, ApplyRemote,
        ApplyRemoteMerged, RoundFails, SessionExpired, Crash, RecordCorrupted,
        SignOut, hostVars
<1>8. CASE Accounts
    BY <1>8 DEF Accounts, SignIn
<1> QED
    BY <1>3, <1>4, <1>5, <1>6, <1>7, <1>8 DEF Next

\* A step under which the rows that fail to open stand keeps the record honest.
LEMMA CountsStep ==
    ASSUME TypeOK, TypeOK', RecordCounts, [Next]_vars, Stands
    PROVE  RecordCounts'
<1>1. CASE ScanRequest
    BY <1>1, ScanKeepsCounts
<1>2. CASE unreadable' = unreadable
    BY <1>2, StandingKeepsCounts
<1>3. CASE unreadable'.ids = {} /\ unreadable'.sweep = NoSweep
    BY <1>3 DEF RecordCounts, Honest, NoSweep
<1> QED
    BY <1>1, <1>2, <1>3, RecordWriters

\* The record starts out naming and counting nothing.
LEMMA CountsInit == Init => RecordCounts
    BY DEF Init, RecordCounts, Honest, EmptyRecord, NoSweep

\* An honest record reports no more rows than there are.
LEMMA HonestIsExact ==
    ASSUME TypeOK, RecordCounts
    PROVE  CompletedCycleIsExact
<1> DEFINE ids == unreadable.ids
           sweep == unreadable.sweep
           rest == Unopened \ ids
<1> SUFFICES ASSUME sweep.next = sweep.from PROVE Total <= Cardinality(Unopened)
    BY DEF CompletedCycleIsExact, Unopened
<1>1. ids \in SUBSET Rows /\ rest \in SUBSET Rows /\ ids \cup rest = Unopened
        /\ ids \cap rest = {} /\ sweep.settled \in Nat
    BY ScanTypes DEF RecordCounts, Unopened, TypeOK, Sweeps
<1>2. Total = Cardinality(ids) + sweep.settled
    BY DEF Total
<1>3. Cardinality(rest) \in Nat
    BY <1>1, RowsFinite
<1>4. sweep.settled <= Cardinality(rest)
    <2>1. CASE sweep.on
        BY <2>1 DEF RecordCounts, Honest
    <2>2. CASE ~sweep.on
        <3>1. sweep.settled = 0
            BY <2>2 DEF RecordCounts, Honest, NoSweep
        <3> HIDE DEF rest
        <3> QED
            BY <1>3, <3>1
    <2> QED
        BY <2>1, <2>2
<1> HIDE DEF ids, rest
<1>5. /\ IsFiniteSet(ids) /\ IsFiniteSet(rest) /\ Cardinality(ids) \in Nat
    BY <1>1, RowsFinite
<1>6. Cardinality(ids \cup rest) = Cardinality(ids) + Cardinality(rest)
    BY <1>1, <1>5, DisjointSum
<1>7. Cardinality(Unopened) = Cardinality(ids) + Cardinality(rest)
    BY <1>1, <1>6
<1>8. sweep.settled \in Nat
    BY <1>1
<1> HIDE DEF sweep
<1> QED
    BY <1>2, <1>3, <1>4, <1>5, <1>7, <1>8

\* A completed cycle is exact (INV-N7b): as long as no row that fails to open is
\* repaired, replaced or removed, the record reports, between cycles of the walk,
\* no more rows than fail to open, whatever else is written and noted, however the
\* rounds fail, the process stops, the floor falls and the sweep is pulled back.
THEOREM CountsWhatFails == Spec /\ [][Stands]_vars => []CompletedCycleIsExact
<1>1. Init => RecordCounts
    BY CountsInit
<1>2. TypeOK /\ TypeOK' /\ RecordCounts /\ [Next]_vars /\ [Stands]_vars => RecordCounts'
    <2> SUFFICES ASSUME TypeOK, TypeOK', RecordCounts, [Next]_vars, [Stands]_vars
                 PROVE  RecordCounts'
        OBVIOUS
    <2>1. Stands
        BY DEF Stands, vars, storeVars
    <2> QED
        BY <2>1, CountsStep
<1>3. TypeOK /\ RecordCounts => CompletedCycleIsExact
    BY HonestIsExact
<1>4. Spec => []TypeOK
    BY TypeCorrect
<1> QED
    BY <1>1, <1>2, <1>3, <1>4, PTL DEF Spec

\* In a history that only grows, and in which the rows that are new do not open,
\* the rows that fail to open stand.
LEMMA GrowingStands ==
    ASSUME TypeOK, [MCNext]_mcVars, growing'
    PROVE  growing /\ [Next]_vars /\ Stands
<1>1. CASE UNCHANGED mcVars
    BY <1>1 DEF mcVars, vars, storeVars, budget, Stands
<1>2. CASE MCRound
    BY <1>2 DEF MCRound, budget, Next, Stands, Round, BeginRound, ReadFloorItem,
        ScanRequest, UploadBatch, PushDone, PullDone, CommitUpload, storeVars
<1>3. CASE MCNotes
    BY <1>3 DEF MCNotes, budget, Next, Stands, Notes, NoteVersion, storeVars
<1>4. CASE ~signedIn /\ Accounts /\ UNCHANGED budget
    BY <1>4 DEF budget, Next, Stands, Accounts, SignIn, storeVars
<1>5. CASE /\ Writers \/ Environment \/ Accounts
           /\ growing' = (growing /\ present # present' /\ present \subseteq present'
                              /\ readable' \cap (present' \ present) = {})
    <2>1. /\ growing /\ present # present' /\ present \subseteq present'
          /\ readable' \cap (present' \ present) = {}
        BY <1>5
    <2>2. [Next]_vars
        BY <1>5 DEF Next
    <2>3. CASE Environment \/ Accounts
        BY <2>1, <2>3 DEF Environment, RequeueLocalWinner, ApplyRemote,
            ApplyRemoteMerged, RoundFails, SessionExpired, Crash, RecordCorrupted,
            SignOut, Accounts, SignIn, storeVars
    <2>4. CASE Writers
        <3>1. ASSUME NEW i \in Rows, EvictRow(i) \/ ToggleReadable(i) PROVE FALSE
            BY <2>1, <3>1 DEF EvictRow, ToggleReadable
        <3>2. ASSUME NEW i \in Rows, NEW ms \in 0..MaxMs, NEW opens \in BOOLEAN,
                     WriteRow(i, ms, opens)
              PROVE  Stands
            <4>1. i \notin present /\ i \notin readable'
                BY <2>1, <3>2 DEF WriteRow
            <4>2. /\ present' = present \cup {i} /\ readable' \subseteq readable \cup {i}
                  /\ stamp' = [stamp EXCEPT ![i] = ms]
                BY <3>2 DEF WriteRow
            <4> QED
                BY <4>1, <4>2 DEF Stands, TypeOK
        <3> QED
            BY <2>1, <2>2, <2>4, <3>1, <3>2 DEF Writers
    <2> QED
        BY <1>5, <2>1, <2>2, <2>3, <2>4
<1> QED
    BY <1>1, <1>2, <1>3, <1>4, <1>5 DEF MCNext

\* The count the record shows the user is exact in a history that only grows
\* (INV-N7b), for any number of disturbances: the property the upload_floor run
\* checks, of the specification it checks.
THEOREM CountNeverExceeds == MCSpec => []CountIsExact
<1> DEFINE CInv == TypeOK /\ (growing => RecordCounts)
<1>1. MCInit => CInv
    BY CountsInit, TypeInit DEF MCInit
<1>2. CInv /\ [MCNext]_mcVars => CInv'
    <2> SUFFICES ASSUME CInv, [MCNext]_mcVars PROVE CInv'
        OBVIOUS
    <2>1. [Next]_vars
        <3>1. CASE UNCHANGED mcVars
            BY <3>1 DEF mcVars
        <3>2. CASE MCNext
            BY <3>2 DEF MCNext, MCRound, MCNotes, Next
        <3> QED
            BY <3>1, <3>2
    <2>2. TypeOK'
        BY <2>1, TypeStep
    <2>3. ASSUME growing' PROVE RecordCounts'
        BY <2>2, <2>3, GrowingStands, CountsStep
    <2> QED
        BY <2>2, <2>3
<1>3. CInv => CountIsExact
    BY HonestIsExact DEF CountIsExact
<1> QED
    BY <1>1, <1>2, <1>3, PTL DEF MCSpec
=============================================================================
