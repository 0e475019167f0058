------------------------- MODULE HistoryMergeProofs -------------------------
(***************************************************************************)
(* Proofs about module HistoryMerge, for every finite set of items, every  *)
(* set of transports and whatever pages they bring: the types with the     *)
(* uniqueness the table promises, that the history implements the          *)
(* last-writer-wins register, that what a merge stores is reported, that a *)
(* clear spares what came after it, and that pins move forward.            *)
(***************************************************************************)
EXTENDS HistoryMerge, OrderLemmas, SequenceTheorems

(***************************************************************************)
(* The inductive invariant.                                                *)
(***************************************************************************)

Versions == [at : 0..MaxStamp, hash : Hashes \cup {0}, deleted : BOOLEAN, origin : Nat,
             pinned : BOOLEAN, pinAt : 0..MaxStamp]

\* What a page is decided from: an id that is absent has no pin.
Snapshots == {v \in [Ids -> Versions] : \A id \in Ids : Held(v[id]) \/ v[id].pinAt = 0}

PinRecords == [Ids -> [pinned : BOOLEAN, stamp : 0..MaxStamp]]

Merges == [phase : {"idle", "prepared", "finishing", "redoing"}, page : Seq(Offers),
           snapshot : Snapshots, attempts : Nat, content : SUBSET Nat,
           pins : SUBSET Nat, redo : SUBSET Nat, read : Nat]

\* A table: an id that is absent has no version, one that is present has a stamp,
\* its own place in the dedup index and a rowid of its own.
TableOK(rs) ==
    /\ rs \in [Ids -> Rows]
    /\ \A id \in Ids : rs[id].rowid = 0 => rs[id] = NoRow
    /\ \A id \in Ids : rs[id].rowid > 0 =>
        /\ rs[id].at > 0
        /\ ~Collides(rs, id, rs[id])
        /\ \A other \in Ids \ {id} : rs[other].rowid # rs[id].rowid

Types ==
    /\ now \in Stamps
    /\ pinRecord \in PinRecords
    /\ sweepDue \in BOOLEAN /\ ceiling \in Nat \cup {-1}
    /\ owed \subseteq Mergers \X Ids
    /\ merger \in [Mergers -> Merges]

\* The page deletes the item.
PageDeletes(page, id) == \E j \in 1..Len(page) : page[j].id = id /\ page[j].deleted

\* What a merge has in hand are indices of its page, and only after it has written.
MergeOK(r) ==
    /\ r.content \cup r.pins \cup r.redo \subseteq 1..Len(r.page)
    /\ r.phase \in {"idle", "prepared"} => r.content = {}
    /\ r.phase # "finishing" => r.pins = {}
    /\ r.phase = "redoing" => r.read \in 1..Len(r.page)

\* A pin that waits to be applied was not older than the snapshot's, unless the
\* page deletes the item.
PinsDecided(r) ==
    \A k \in r.pins :
        r.page[k].pinAt >= r.snapshot[r.page[k].id].pinAt \/ PageDeletes(r.page, r.page[k].id)

\* A version stored and not yet reported is on the page of the merge that owes
\* it, and the row is no older than what the merge will report.
Covered(r, id, row) == \E k \in r.content : r.page[k].id = id /\ row.at >= r.page[k].at
\* The cloud's merges owe nothing: they run on a view without the hook.
PeersOwe == \A debt \in owed : IsP2p(debt[1])
DebtsCovered == \A debt \in owed : Covered(merger[debt[1]], debt[2], rows[debt[2]])

HistoryInv ==
    /\ Types /\ TableOK(rows)
    /\ \A m \in Mergers : MergeOK(merger[m]) /\ PinsDecided(merger[m])
    /\ DebtsCovered

(***************************************************************************)
(* Numbers.                                                                *)
(***************************************************************************)

\* A set of naturals with a bound has a highest element.
LEMMA HighestIs ==
    ASSUME NEW T \in SUBSET Nat, T # {}, NEW b \in Nat, \A x \in T : x <= b
    PROVE  Highest(T) \in T /\ \A y \in T : y <= Highest(T)
<1> DEFINE D == {b - x : x \in T}
<1>1. D \in SUBSET Nat /\ D # {}
    <2>1. \A x \in T : b - x \in Nat
        OBVIOUS
    <2> QED
        BY <2>1
<1>2. PICK n \in D : \A m \in D : n <= m
    <2> HIDE DEF D
    <2> QED
        BY <1>1, LeastNat
<1>3. PICK x \in T : n = b - x
    OBVIOUS
<1>4. \A y \in T : y <= x
    <2> TAKE y \in T
    <2>1. b - y \in D
        OBVIOUS
    <2>2. b - x <= b - y
        BY <1>2, <1>3, <2>1
    <2> QED
        BY <2>2
<1>5. \E z \in T : \A y \in T : y <= z
    BY <1>4
<1> QED
    BY <1>5 DEF Highest

\* A set of naturals has a lowest element.
LEMMA LowestIs ==
    ASSUME NEW T \in SUBSET Nat, T # {}
    PROVE  Lowest(T) \in T /\ \A y \in T : Lowest(T) <= y
    BY LeastNat DEF Lowest

\* A finite set of naturals is bounded.
LEMMA FiniteIsBounded ==
    ASSUME NEW T \in SUBSET Nat, T # {}, IsFiniteSet(T)
    PROVE  \E b \in Nat : \A x \in T : x <= b
<1> DEFINE R == {e \in T \X T : e[1] < e[2]}
<1>1. \A x, y \in T : <<x, y>> \in R <=> x < y
    OBVIOUS
<1> HIDE DEF R
<1>2. /\ \A x \in T : <<x, x>> \notin R
      /\ \A x, y, z \in T : <<x, y>> \in R /\ <<y, z>> \in R => <<x, z>> \in R
    BY <1>1
<1>3. PICK x \in T : \A y \in T : <<x, y>> \notin R
    BY <1>2, FiniteHasLast
<1>4. \A y \in T : y <= x
    <2> TAKE y \in T
    <2>1. ~(x < y)
        BY <1>1, <1>3, Zenon
    <2>2. x \in Nat /\ y \in Nat
        OBVIOUS
    <2> QED
        BY <2>1, <2>2
<1> QED
    BY <1>4

\* The largest rowid of a table is one, or there is none.
LEMMA MaxRowidIs ==
    ASSUME NEW rs \in [Ids -> Rows]
    PROVE  MaxRowid(rs) \in Nat /\ \A id \in Ids : rs[id].rowid <= MaxRowid(rs)
<1> DEFINE S == {rs[id].rowid : id \in Ids}
           f == [id \in Ids |-> rs[id].rowid]
<1>1. f \in Surjection(Ids, S)
    BY Zenon DEF Surjection
<1>2. IsFiniteSet(S)
    <2> HIDE DEF S, f
    <2> QED
        BY <1>1, FS_Surjection, HistoryMergeAssumption
<1>3. IsFiniteSet({0} \cup S)
    <2> HIDE DEF S
    <2> QED
        BY <1>2, FS_Singleton, FS_Union
<1>4. {0} \cup S \in SUBSET Nat
    <2>1. \A id \in Ids : rs[id].rowid \in Nat
        BY DEF Rows
    <2> QED
        BY <2>1
<1>5. Highest({0} \cup S) \in {0} \cup S /\ \A y \in {0} \cup S : y <= Highest({0} \cup S)
    <2> HIDE DEF S
    <2>1. PICK b \in Nat : \A x \in {0} \cup S : x <= b
        BY <1>3, <1>4, FiniteIsBounded
    <2> QED
        BY <1>4, <2>1, HighestIs
<1>6. MaxRowid(rs) = Highest({0} \cup S)
    BY DEF MaxRowid
<1>7. \A id \in Ids : rs[id].rowid \in {0} \cup S
    OBVIOUS
<1> HIDE DEF S
<1> QED
    BY <1>4, <1>5, <1>6, <1>7

Iterates(f, N, S, c, step) ==
    f \in [0..N -> S] /\ f[0] = c /\ \A k \in 1..N : f[k] = step[<<f[k - 1], k>>]

\* A step repeated along a sequence defines a function of the step's number:
\* what a definition by recursion over 0..N needs.
LEMMA Iterated ==
    ASSUME NEW N \in Nat, NEW S, NEW c \in S, NEW step \in [S \X (1..N) -> S]
    PROVE  \E f : Iterates(f, N, S, c, step)
<1> DEFINE Good(n) == \E f \in [0..n -> S] :
                        f[0] = c /\ \A k \in 1..n : f[k] = step[<<f[k - 1], k>>]
           Bad == {n \in 0..N : ~Good(n)}
<1>1. SUFFICES ASSUME Bad # {} PROVE FALSE
    <2>1. N \in 0..N
        OBVIOUS
    <2>2. Bad = {} => Good(N)
        BY <2>1
    <2> QED
        BY <2>2 DEF Iterates
<1>2. PICK n \in Bad : \A m \in Bad : n <= m
    <2>1. Bad \in SUBSET Nat
        OBVIOUS
    <2> HIDE DEF Bad
    <2> QED
        BY <1>1, <2>1, LeastNat
<1>3. n \in 0..N /\ ~Good(n)
    BY <1>2
<1>4. Good(0)
    <2> DEFINE g == [k \in 0..0 |-> c]
    <2>1. g \in [0..0 -> S] /\ g[0] = c /\ \A k \in 1..0 : g[k] = step[<<g[k - 1], k>>]
        OBVIOUS
    <2> QED
        BY <2>1
<1>5. n # 0
    BY <1>3, <1>4
<1>6. n - 1 \in 0..N /\ n - 1 \notin Bad /\ n \in 1..N
    BY <1>2, <1>3, <1>5
<1>7. Good(n - 1)
    BY <1>6
<1>8. PICK f \in [0..(n - 1) -> S] : f[0] = c /\ \A k \in 1..(n - 1) : f[k] = step[<<f[k - 1], k>>]
    BY <1>7
<1> DEFINE g == [k \in 0..n |-> IF k = n THEN step[<<f[n - 1], n>>] ELSE f[k]]
<1>9. f[n - 1] \in S /\ step[<<f[n - 1], n>>] \in S
    BY <1>6, <1>8
<1>10. g \in [0..n -> S]
    BY <1>6, <1>8, <1>9
<1>11. g[0] = c
    BY <1>6, <1>8
<1>12. ASSUME NEW k \in 1..n PROVE g[k] = step[<<g[k - 1], k>>]
    <2>1. k \in 0..n /\ k - 1 \in 0..n /\ k - 1 # n
        BY <1>6
    <2>2. g[k - 1] = f[k - 1]
        BY <2>1
    <2>3. CASE k = n
        BY <2>1, <2>2, <2>3
    <2>4. CASE k # n
        <3>1. g[k] = f[k] /\ k \in 1..(n - 1)
            BY <2>1, <2>4, <1>6
        <3> QED
            BY <3>1, <2>2, <1>8
    <2> QED
        BY <2>3, <2>4
<1> QED
    BY <1>3, <1>10, <1>11, <1>12

\* What the assumption says of the numbers.
LEMMA Bounds ==
    /\ MaxStamp \in Nat /\ MaxStamp >= 1 /\ Here \in Nat /\ Here >= 1 /\ BucketMs \in Nat
    /\ \A h \in Hashes \cup {0} : h \in Nat
    /\ \A id \in Ids : id \in Nat
<1>1. /\ MaxStamp \in Nat \ {0} /\ Here \in Nat \ {0} /\ BucketMs \in Nat \ {0}
      /\ Hashes \subseteq Nat \ {0} /\ Ids \subseteq Nat \ {0}
    BY HistoryMergeAssumption, Zenon
<1> QED
    BY <1>1

(***************************************************************************)
(* Versions.                                                               *)
(***************************************************************************)

\* The order of versions is transitive (merge.rs, the four keys).
LEMMA NewerIsTransitive ==
    ASSUME NEW a \in Versions, NEW b \in Versions, NEW c \in Versions, Newer(a, b), Newer(b, c)
    PROVE  Newer(a, c)
<1>1. \A v \in Versions : /\ v.at \in 0..MaxStamp /\ v.hash \in Hashes \cup {0}
                          /\ v.deleted \in BOOLEAN /\ v.origin \in Nat
    BY DEF Versions
<1>2. \A v \in Versions : v.at \in Int /\ v.hash \in Int /\ v.origin \in Int
    BY <1>1, Bounds
<1>3. \A v \in Versions : v.deleted \in BOOLEAN /\ Bit(v.deleted) \in Int
    BY <1>1 DEF Bit
<1> QED
    BY <1>2, <1>3 DEF Newer, Bit

\* A table's rows have versions, and an id that is absent has stamp 0.
LEMMA VersionIs ==
    ASSUME NEW row \in Rows
    PROVE  /\ VersionOf(row) \in Versions
           /\ VersionOf(row).at = row.at /\ VersionOf(row).hash = row.hash
           /\ VersionOf(row).deleted = row.deleted /\ VersionOf(row).pinned = row.pinned
           /\ VersionOf(row).pinAt = row.pinAt
           /\ VersionOf(row).origin = IF row.rowid = 0 THEN 0 ELSE OriginOr(row.origin)
<1>1. /\ row.at \in 0..MaxStamp /\ row.hash \in Hashes \cup {0} /\ row.deleted \in BOOLEAN
      /\ row.origin \in Nat /\ row.pinned \in BOOLEAN /\ row.pinAt \in 0..MaxStamp
    BY DEF Rows
<1>2. OriginOr(row.origin) \in Nat
    BY <1>1, Bounds DEF OriginOr
<1> QED
    BY <1>1, <1>2 DEF VersionOf, Versions

\* The fields of an offer.
LEMMA OfferIs ==
    ASSUME NEW inc \in Offers
    PROVE  /\ inc.id \in Ids /\ inc.at \in 0..MaxStamp /\ inc.at > 0
           /\ inc.hash \in Hashes \cup {0} /\ inc.deleted \in BOOLEAN /\ inc.origin \in Nat
           /\ inc.pinned \in BOOLEAN /\ inc.pinAt \in 0..MaxStamp /\ inc.choice \in 0..MaxStamp
<1>1. inc.at \in 1..MaxStamp
    BY DEF Offers, Stamps
<1>2. inc.at \in 0..MaxStamp /\ inc.at > 0
    BY <1>1, Bounds
<1> QED
    BY <1>2 DEF Offers

\* What a merge plans to write.
Plans == [at : 0..MaxStamp, hash : Hashes \cup {0}, deleted : BOOLEAN, origin : Nat,
          pinned : BOOLEAN, pinAt : 0..MaxStamp, choice : 0..MaxStamp]

\* The plan for a version that won over `before`: its version is newer, and its
\* pin is no older unless it is a tombstone.
LEMMA PreparedIs ==
    ASSUME NEW before \in Versions, Held(before) \/ before.pinAt = 0, NEW inc \in Offers, NEW p2p \in BOOLEAN,
           Takes(before, inc, p2p), NEW w, w = Prepared(before, inc, p2p)
    PROVE  /\ w \in Plans /\ w.at = inc.at /\ w.deleted = inc.deleted
           /\ PreparedVersion(w) \in Versions /\ Newer(PreparedVersion(w), before)
           /\ ~w.deleted => w.pinAt >= before.pinAt
<1>1. /\ inc.id \in Ids /\ inc.at \in 0..MaxStamp /\ inc.at > 0
      /\ inc.hash \in Hashes \cup {0} /\ inc.deleted \in BOOLEAN /\ inc.origin \in Nat
      /\ inc.pinned \in BOOLEAN /\ inc.pinAt \in 0..MaxStamp /\ inc.choice \in 0..MaxStamp
    BY OfferIs
<1>2. /\ before.at \in 0..MaxStamp /\ before.hash \in Hashes \cup {0}
      /\ before.deleted \in BOOLEAN /\ before.origin \in Nat
      /\ before.pinned \in BOOLEAN /\ before.pinAt \in 0..MaxStamp
    BY DEF Versions
<1>3. PICK h : h = RemoteHash(inc, before, p2p)
    OBVIOUS
<1>4. h \in Hashes \cup {0}
    BY <1>1, <1>2, <1>3 DEF RemoteHash
<1>5. PICK pin, at : /\ pin = w.pinned /\ at = w.pinAt
    OBVIOUS
<1>6. /\ w = [at |-> inc.at, hash |-> h, deleted |-> inc.deleted, origin |-> inc.origin,
              pinned |-> pin, pinAt |-> at, choice |-> IF inc.deleted THEN 0 ELSE inc.choice]
      /\ \/ inc.deleted /\ pin = FALSE /\ at = 0
         \/ ~inc.deleted /\ RemotePinWins(before, inc, p2p) /\ pin = inc.pinned /\ at = inc.pinAt
         \/ ~inc.deleted /\ ~RemotePinWins(before, inc, p2p) /\ pin = before.pinned /\ at = before.pinAt
    BY <1>3, <1>5 DEF Prepared
<1>7. /\ pin \in BOOLEAN /\ at \in 0..MaxStamp
      /\ (IF inc.deleted THEN 0 ELSE inc.choice) \in 0..MaxStamp
    <2>1. 0 \in 0..MaxStamp
        BY Bounds
    <2> QED
        BY <2>1, <1>1, <1>2, <1>6
<1>8. w \in Plans /\ w.at = inc.at /\ w.deleted = inc.deleted /\ w.hash = h /\ w.origin = inc.origin
    BY <1>1, <1>4, <1>6, <1>7 DEF Plans
<1>9. OriginOr(inc.origin) \in Nat /\ OriginOr(inc.origin) >= inc.origin
    BY <1>1, Bounds DEF OriginOr
<1>10. PreparedVersion(w) = [at |-> inc.at, hash |-> h, deleted |-> inc.deleted,
                             origin |-> OriginOr(inc.origin), pinned |-> pin, pinAt |-> at]
    BY <1>6 DEF PreparedVersion
<1>11. PreparedVersion(w) \in Versions
    BY <1>1, <1>4, <1>7, <1>9, <1>10 DEF Versions
<1>12. Newer(PreparedVersion(w), before)
    <2>1. Remote(inc, before, p2p) = [at |-> inc.at, hash |-> h, deleted |-> inc.deleted,
                                      origin |-> inc.origin, pinned |-> inc.pinned, pinAt |-> inc.pinAt]
        BY <1>3 DEF Remote
    <2>2. inc.at \in Int /\ before.at \in Int /\ before.origin \in Int /\ before.at >= 0
        BY <1>1, <1>2, Bounds
    <2>3. CASE ~Held(before)
        BY <2>2, <2>3, <1>1, <1>10 DEF Held, Newer
    <2>4. CASE Newer(Remote(inc, before, p2p), before)
        BY <2>1, <2>2, <2>4, <1>1, <1>9, <1>10 DEF Newer
    <2> QED
        BY <2>3, <2>4 DEF Takes
<1>13. ~w.deleted => w.pinAt >= before.pinAt
    <2>1. before.pinAt \in Int /\ inc.pinAt \in Int /\ before.pinAt >= 0 /\ inc.pinAt >= 0
        BY <1>1, <1>2, Bounds
    <2>2. w.pinAt = at
        BY <1>5
    <2>3. CASE ~inc.deleted /\ RemotePinWins(before, inc, p2p) /\ Held(before)
        <3>1. PinNewer(Remote(inc, before, p2p), before)
            BY <2>3 DEF RemotePinWins
        <3>2. Remote(inc, before, p2p).pinAt = inc.pinAt
            BY DEF Remote
        <3>3. inc.pinAt >= before.pinAt
            BY <3>1, <3>2, <2>1 DEF PinNewer
        <3> QED
            BY <3>3, <2>2, <2>3, <1>6
    <2>4. CASE ~Held(before)
        <3>1. before.pinAt = 0 /\ at \in Int /\ at >= 0
            BY <2>4, <1>7, Bounds
        <3> QED
            BY <3>1, <2>2
    <2>5. CASE ~inc.deleted /\ ~RemotePinWins(before, inc, p2p)
        BY <2>1, <2>2, <2>5, <1>6
    <2> QED
        BY <2>3, <2>4, <2>5, <1>8
<1> QED
    BY <1>8, <1>11, <1>12, <1>13

(***************************************************************************)
(* The table.                                                              *)
(***************************************************************************)

\* Two rows that the dedup index does not let stand beside each other.
Clash(row, other) ==
    /\ ~row.deleted /\ row.hash # 0 /\ other.rowid > 0 /\ ~other.deleted
    /\ other.hash = row.hash /\ other.origin = row.origin
    /\ other.at \div BucketMs = row.at \div BucketMs

\* The index refuses a row when it clashes with another one.
LEMMA CollidesIs ==
    ASSUME NEW rs, NEW id, NEW row
    PROVE  Collides(rs, id, row) <=> \E other \in Ids \ {id} : Clash(row, rs[other])
    BY DEF Collides, Clash, Live, Present

\* Clashing is symmetric between rows that are there.
LEMMA ClashIsMutual ==
    ASSUME NEW a, NEW b, a.rowid > 0, Clash(a, b)
    PROVE  Clash(b, a)
    BY DEF Clash

\* A row written under an id keeps the table in order when it has a stamp, the
\* rowid of the id or a new one, and a place in the dedup index.
LEMMA PutRow ==
    ASSUME NEW rs, TableOK(rs), NEW id \in Ids, NEW row \in Rows,
           row.rowid > 0, row.at > 0,
           row.rowid = rs[id].rowid \/ row.rowid > MaxRowid(rs),
           ~Collides(rs, id, row)
    PROVE  TableOK([rs EXCEPT ![id] = row])
<1> DEFINE new == [rs EXCEPT ![id] = row]
<1>1. rs \in [Ids -> Rows]
    BY DEF TableOK
<1>2. new \in [Ids -> Rows] /\ new[id] = row /\ \A x \in Ids \ {id} : new[x] = rs[x]
    BY <1>1
<1> HIDE DEF new
<1>3. \A x \in Ids : rs[x].rowid \in Nat
    BY <1>1 DEF Rows
<1>4. \A x \in Ids \ {id} : rs[x].rowid # row.rowid
    <2> SUFFICES ASSUME NEW x \in Ids \ {id} PROVE rs[x].rowid # row.rowid
        OBVIOUS
    <2>1. CASE row.rowid = rs[id].rowid
        BY <2>1 DEF TableOK
    <2>2. CASE row.rowid > MaxRowid(rs)
        <3>1. MaxRowid(rs) \in Nat /\ rs[x].rowid <= MaxRowid(rs)
            BY <1>1, MaxRowidIs
        <3>2. row.rowid \in Nat /\ rs[x].rowid \in Nat
            BY <1>3 DEF Rows
        <3> QED
            BY <3>1, <3>2, <2>2
    <2> QED
        BY <2>1, <2>2
<1>5. \A x \in Ids : new[x].rowid = 0 => new[x] = NoRow
    <2> SUFFICES ASSUME NEW x \in Ids, new[x].rowid = 0 PROVE new[x] = NoRow
        OBVIOUS
    <2>1. x # id
        <3>1. row.rowid # 0
            BY DEF Rows
        <3> QED
            BY <3>1, <1>2
    <2> QED
        BY <2>1, <1>2 DEF TableOK
<1>6. ASSUME NEW x \in Ids, new[x].rowid > 0
      PROVE  /\ new[x].at > 0 /\ ~Collides(new, x, new[x])
             /\ \A other \in Ids \ {x} : new[other].rowid # new[x].rowid
    <2>1. CASE x = id
        <3>1. \A other \in Ids \ {id} : ~Clash(row, rs[other])
            BY CollidesIs
        <3>2. ~Collides(new, id, row)
            BY <3>1, <1>2, CollidesIs
        <3> QED
            BY <3>2, <2>1, <1>2, <1>4
    <2>2. CASE x # id
        <3>1. new[x] = rs[x] /\ rs[x].rowid > 0
            BY <1>2, <1>6, <2>2
        <3>2. /\ rs[x].at > 0 /\ ~Collides(rs, x, rs[x])
              /\ \A other \in Ids \ {x} : rs[other].rowid # rs[x].rowid
            BY <3>1 DEF TableOK
        <3>3. ~Clash(row, rs[x])
            BY <2>2, CollidesIs
        <3>4. ~Clash(rs[x], row)
            BY <3>3, <3>1, ClashIsMutual
        <3>5. \A other \in Ids \ {x} : ~Clash(rs[x], rs[other])
            BY <3>2, CollidesIs
        <3>6. \A other \in Ids \ {x} : ~Clash(rs[x], new[other])
            BY <3>4, <3>5, <1>2
        <3>7. ~Collides(new, x, rs[x])
            BY <3>6, CollidesIs
        <3> QED
            BY <3>1, <3>2, <3>7, <1>2, <1>4, <2>2
    <2> QED
        BY <2>1, <2>2
<1>7. TableOK(new)
    BY <1>2, <1>5, <1>6 DEF TableOK
<1> QED
    BY <1>7 DEF new

\* Stamps saturate.
LEMMA SaturatedIs ==
    ASSUME NEW at \in 0..MaxStamp
    PROVE  SaturatingNext(at) \in 0..MaxStamp /\ SaturatingNext(at) >= at /\ SaturatingNext(at) > 0
<1>1. at \in Int /\ at >= 0 /\ at <= MaxStamp /\ MaxStamp \in Int /\ MaxStamp >= 1
    BY Bounds
<1>2. SaturatingNext(at) = at + 1 \/ (SaturatingNext(at) = MaxStamp /\ at + 1 >= MaxStamp)
    BY <1>1 DEF SaturatingNext, Lesser
<1>3. SaturatingNext(at) = at + 1 => at + 1 <= MaxStamp
    BY <1>1 DEF SaturatingNext, Lesser
<1> QED
    BY <1>1, <1>2, <1>3

\* The fields of a plan.
LEMMA PlanIs ==
    ASSUME NEW w \in Plans
    PROVE  /\ w.at \in 0..MaxStamp /\ w.hash \in Hashes \cup {0} /\ w.deleted \in BOOLEAN
           /\ w.origin \in Nat /\ w.pinned \in BOOLEAN /\ w.pinAt \in 0..MaxStamp
           /\ w.choice \in 0..MaxStamp
    BY DEF Plans

\* The fields of a row.
LEMMA RowIs ==
    ASSUME NEW row \in Rows
    PROVE  /\ row.rowid \in Nat
           /\ row.at \in 0..MaxStamp /\ row.hash \in Hashes \cup {0} /\ row.deleted \in BOOLEAN
           /\ row.origin \in Nat /\ row.pinned \in BOOLEAN /\ row.pinAt \in 0..MaxStamp
           /\ row.choice \in 0..MaxStamp
    BY DEF Rows

\* A record projected on a row changes its pin state only, and forward only.
LEMMA ProjectedIs ==
    ASSUME NEW row \in Rows, NEW record \in [pinned : BOOLEAN, stamp : 0..MaxStamp],
           NEW p, p = Projected(row, record)
    PROVE  /\ p \in Rows /\ p.rowid = row.rowid /\ p.at = row.at /\ p.hash = row.hash
           /\ p.deleted = row.deleted /\ p.origin = row.origin /\ p.choice = row.choice
           /\ p.pinAt >= row.pinAt
<1>1. /\ row.rowid \in Nat
      /\ row.at \in 0..MaxStamp /\ row.hash \in Hashes \cup {0} /\ row.deleted \in BOOLEAN
      /\ row.origin \in Nat /\ row.pinned \in BOOLEAN /\ row.pinAt \in 0..MaxStamp
      /\ row.choice \in 0..MaxStamp
    BY RowIs
<1>2. record.pinned \in BOOLEAN /\ record.stamp \in 0..MaxStamp
    OBVIOUS
<1>3. row.pinAt \in Int /\ record.stamp \in Int
    BY <1>1, <1>2
<1>4. CASE p = row
    BY <1>3, <1>4
<1>5. CASE record.stamp >= row.pinAt /\ p = [row EXCEPT !.pinned = record.pinned, !.pinAt = record.stamp]
    <2>1. p \in Rows
        BY <1>2, <1>5 DEF Rows
    <2>2. /\ p.rowid = row.rowid /\ p.at = row.at /\ p.hash = row.hash
          /\ p.deleted = row.deleted /\ p.origin = row.origin /\ p.choice = row.choice
          /\ p.pinAt = record.stamp
        BY <1>5 DEF Rows
    <2> QED
        BY <2>1, <2>2, <1>5
<1> QED
    BY <1>4, <1>5 DEF Projected

\* What an upsert leaves: the row keeps its rowid, its version is at least the
\* one planned, and its pin is no older.
LEMMA UpsertedIs ==
    ASSUME NEW rs \in [Ids -> Rows], pinRecord \in PinRecords, NEW id \in Ids,
           NEW w \in Plans, w.at > 0, NEW row, row = Upserted(rs, id, w)
    PROVE  /\ row \in Rows /\ row.rowid > 0 /\ row.at > 0 /\ row.at >= w.at
           /\ Present(rs, id) => row.rowid = rs[id].rowid
           /\ ~Present(rs, id) => row.rowid > MaxRowid(rs)
           /\ row.deleted = w.deleted /\ row.pinAt >= w.pinAt
           /\ \A v \in Versions : Newer(PreparedVersion(w), v) => Newer(VersionOf(row), v)
<1>1. /\ w.at \in 0..MaxStamp /\ w.hash \in Hashes \cup {0} /\ w.deleted \in BOOLEAN
      /\ w.origin \in Nat /\ w.pinned \in BOOLEAN /\ w.pinAt \in 0..MaxStamp
      /\ w.choice \in 0..MaxStamp
    BY PlanIs
<1>2. rs[id] \in Rows
    OBVIOUS
<1>3. rs[id].rowid \in Nat /\ rs[id].choice \in 0..MaxStamp
    BY <1>2, RowIs
<1>4. MaxRowid(rs) \in Nat
    BY MaxRowidIs
<1>5. PICK rowid : rowid = IF Present(rs, id) THEN rs[id].rowid ELSE MaxRowid(rs) + 1
    OBVIOUS
<1>6. /\ rowid \in Nat /\ rowid > 0
      /\ Present(rs, id) => rowid = rs[id].rowid
      /\ ~Present(rs, id) => rowid > MaxRowid(rs)
    BY <1>3, <1>4, <1>5 DEF Present
<1>7. PICK previous : previous = IF rs[id].hash = w.hash THEN rs[id].choice ELSE 0
    OBVIOUS
<1>8. 0 \in 0..MaxStamp
    BY Bounds
<1>9. previous \in 0..MaxStamp
    BY <1>3, <1>7, <1>8
<1>10. PICK choice : choice = IF w.deleted THEN 0 ELSE Greater(w.choice, previous)
    OBVIOUS
<1>11. choice \in 0..MaxStamp
    BY <1>1, <1>8, <1>9, <1>10 DEF Greater
<1>12. PICK at : at = IF choice # w.choice THEN SaturatingNext(w.at) ELSE w.at
    OBVIOUS
<1>13. at \in 0..MaxStamp /\ at \in Int /\ w.at \in Int /\ at >= w.at /\ at > 0
    <2>1. SaturatingNext(w.at) \in 0..MaxStamp /\ SaturatingNext(w.at) >= w.at /\ SaturatingNext(w.at) > 0
        BY <1>1, SaturatedIs
    <2>2. at \in 0..MaxStamp
        BY <2>1, <1>1, <1>12
    <2>3. at \in Int /\ w.at \in Int
        BY <2>2, <1>1
    <2> QED
        BY <2>1, <2>2, <2>3, <1>12
<1>14. PICK r : r = [rowid |-> rowid, at |-> at, hash |-> w.hash, deleted |-> w.deleted,
                     origin |-> w.origin, pinned |-> w.pinned, pinAt |-> w.pinAt, choice |-> choice]
    OBVIOUS
<1>15. r \in Rows
    BY <1>1, <1>6, <1>11, <1>13, <1>14 DEF Rows
<1>16. row = Projected(r, pinRecord[id])
    BY <1>5, <1>7, <1>10, <1>12, <1>14 DEF Upserted
<1>17. pinRecord[id] \in [pinned : BOOLEAN, stamp : 0..MaxStamp]
    BY DEF PinRecords
<1>18. /\ row \in Rows /\ row.rowid = rowid /\ row.at = at /\ row.hash = w.hash
       /\ row.deleted = w.deleted /\ row.origin = w.origin /\ row.pinAt >= w.pinAt
    BY <1>14, <1>15, <1>16, <1>17, ProjectedIs
<1>19. ASSUME NEW v \in Versions, Newer(PreparedVersion(w), v)
       PROVE  Newer(VersionOf(row), v)
    <2>1. v.at \in 0..MaxStamp
        BY DEF Versions
    <2>2. v.at \in Int
        BY <2>1
    <2>3. /\ VersionOf(row).at = at /\ VersionOf(row).hash = w.hash
          /\ VersionOf(row).deleted = w.deleted /\ VersionOf(row).origin = OriginOr(w.origin)
        BY <1>6, <1>18, VersionIs
    <2>4. /\ PreparedVersion(w).at = w.at /\ PreparedVersion(w).hash = w.hash
          /\ PreparedVersion(w).deleted = w.deleted /\ PreparedVersion(w).origin = OriginOr(w.origin)
        BY DEF PreparedVersion
    <2>5. CASE at = w.at
        BY <2>3, <2>4, <2>5, <1>19 DEF Newer
    <2>6. CASE at > w.at
        <3>1. w.at >= v.at
            BY <2>2, <2>4, <1>13, <1>19 DEF Newer
        <3> QED
            BY <3>1, <2>2, <2>3, <2>6, <1>13 DEF Newer
    <2> QED
        BY <2>5, <2>6, <1>13
<1> QED
    BY <1>6, <1>13, <1>18, <1>19

\* A write to one row that is not a drop: the row keeps its rowid, and its
\* version stays or moves up.
Moves(old, new) ==
    /\ new \in Rows /\ new.rowid > 0 /\ new.at >= old.at
    /\ old.rowid > 0 => new.rowid = old.rowid
    /\ \/ /\ new.at = old.at /\ new.hash = old.hash /\ new.deleted = old.deleted
          /\ VersionOf(new).origin = VersionOf(old).origin
       \/ Newer(VersionOf(new), VersionOf(old))

\* A version that moves up has a stamp no lower.
LEMMA NewerIsLater ==
    ASSUME NEW a \in Rows, NEW b \in Rows, Newer(VersionOf(a), VersionOf(b))
    PROVE  a.at >= b.at
<1>1. a.at \in 0..MaxStamp /\ b.at \in 0..MaxStamp
    BY RowIs
<1>2. VersionOf(a).at = a.at /\ VersionOf(b).at = b.at
    BY VersionIs
<1> QED
    BY <1>1, <1>2 DEF Newer

(***************************************************************************)
(* Preparing a page.                                                       *)
(***************************************************************************)

\* Induction along a page, on the set of the indices that are good.
LEMMA Induced ==
    ASSUME NEW N \in Nat, NEW G \in SUBSET (0..N), 0 \in G,
           \A k \in 1..N : k - 1 \in G => k \in G
    PROVE  G = 0..N
<1> DEFINE Bad == (0..N) \ G
<1>1. SUFFICES ASSUME Bad # {} PROVE FALSE
    OBVIOUS
<1>2. PICK n \in Bad : \A m \in Bad : n <= m
    <2>1. Bad \in SUBSET Nat
        OBVIOUS
    <2> HIDE DEF Bad
    <2> QED
        BY <1>1, <2>1, LeastNat
<1>3. n \in 1..N /\ n - 1 \in 0..N /\ n - 1 \notin Bad
    BY <1>2
<1> QED
    BY <1>2, <1>3

SimStep(before, inc, p2p) ==
    IF Takes(before[inc.id], inc, p2p)
    THEN [before EXCEPT ![inc.id] = PreparedVersion(Prepared(before[inc.id], inc, p2p))]
    ELSE before

\* One version decided: its item stays or moves up, its pin too unless the
\* version is a tombstone.
LEMMA SimStepIs ==
    ASSUME NEW before \in Snapshots, NEW inc \in Offers, NEW p2p \in BOOLEAN,
           NEW new, new = SimStep(before, inc, p2p)
    PROVE  /\ new \in Snapshots
           /\ \A id \in Ids : id # inc.id => new[id] = before[id]
           /\ new[inc.id] = before[inc.id] \/ Newer(new[inc.id], before[inc.id])
           /\ ~inc.deleted => new[inc.id].pinAt >= before[inc.id].pinAt
<1>1. before \in [Ids -> Versions] /\ \A id \in Ids : Held(before[id]) \/ before[id].pinAt = 0
    BY DEF Snapshots
<1>2. inc.id \in Ids /\ inc.at \in 0..MaxStamp /\ inc.at > 0
    BY OfferIs
<1>3. before[inc.id] \in Versions
    BY <1>1, <1>2
<1>4. before[inc.id].pinAt \in 0..MaxStamp
    BY <1>3 DEF Versions
<1>5. CASE ~Takes(before[inc.id], inc, p2p)
    BY <1>4, <1>5 DEF SimStep
<1>6. CASE Takes(before[inc.id], inc, p2p)
    <2>1. PICK w : w = Prepared(before[inc.id], inc, p2p)
        OBVIOUS
    <2>2. /\ w \in Plans /\ w.at = inc.at /\ w.deleted = inc.deleted
          /\ PreparedVersion(w) \in Versions /\ Newer(PreparedVersion(w), before[inc.id])
          /\ ~w.deleted => w.pinAt >= before[inc.id].pinAt
        BY <1>1, <1>2, <1>3, <1>6, <2>1, PreparedIs
    <2>3. PICK v : v = PreparedVersion(w)
        OBVIOUS
    <2>4. v.at = inc.at /\ v.pinAt = w.pinAt
        BY <2>2, <2>3 DEF PreparedVersion
    <2>5. new = [before EXCEPT ![inc.id] = v]
        BY <1>6, <2>1, <2>3 DEF SimStep
    <2>6. new \in [Ids -> Versions] /\ new[inc.id] = v /\ \A id \in Ids : id # inc.id => new[id] = before[id]
        BY <1>1, <1>2, <2>2, <2>3, <2>5
    <2>7. Held(v)
        BY <1>2, <2>4 DEF Held
    <2>8. new \in Snapshots
        BY <1>1, <2>6, <2>7 DEF Snapshots
    <2> QED
        BY <2>2, <2>3, <2>4, <2>6, <2>8
<1> QED
    BY <1>5, <1>6

\* The decisions along a page are the repeated step.
LEMMA SimulatedIs ==
    ASSUME NEW local \in Snapshots, NEW page \in Seq(Offers), NEW p2p \in BOOLEAN,
           NEW sim, sim = Simulated(local, page, p2p)
    PROVE  /\ sim \in [0..Len(page) -> Snapshots] /\ sim[0] = local
           /\ \A k \in 1..Len(page) : sim[k] = SimStep(sim[k - 1], page[k], p2p)
<1> DEFINE N == Len(page)
           step == [e \in Snapshots \X (1..N) |-> SimStep(e[1], page[e[2]], p2p)]
           F(f) == [k \in 0..N |-> IF k = 0 THEN local ELSE SimStep(f[k - 1], page[k], p2p)]
<1>1. N \in Nat /\ \A k \in 1..N : page[k] \in Offers
    BY ElementOfSeq, LenProperties
<1>2. step \in [Snapshots \X (1..N) -> Snapshots]
    <2>1. \A b \in Snapshots : \A k \in 1..N : SimStep(b, page[k], p2p) \in Snapshots
        BY <1>1, SimStepIs
    <2> QED
        BY <2>1
<1>3. \A b \in Snapshots : \A k \in 1..N : step[<<b, k>>] = SimStep(b, page[k], p2p)
    OBVIOUS
<1>4. PICK f \in [0..N -> Snapshots] : f[0] = local /\ \A k \in 1..N : f[k] = step[<<f[k - 1], k>>]
    <2>1. PICK st, n, V : st = step /\ n = N /\ V = Snapshots
        OBVIOUS
    <2> HIDE DEF step, N
    <2>2. n \in Nat /\ local \in V /\ st \in [V \X (1..n) -> V]
        BY <1>1, <1>2, <2>1
    <2>3. PICK f : Iterates(f, n, V, local, st)
        BY <2>2, Iterated
    <2> QED
        BY <2>1, <2>3 DEF Iterates
<1>5. \A k \in 1..N : f[k] = SimStep(f[k - 1], page[k], p2p)
    <2> TAKE k \in 1..N
    <2>1. k - 1 \in 0..N
        BY <1>1
    <2>2. f[k - 1] \in Snapshots
        BY <2>1, <1>4
    <2> HIDE DEF step
    <2> QED
        BY <2>2, <1>3, <1>4
<1>6. f = F(f)
    <2>1. \A k \in 0..N : f[k] = IF k = 0 THEN local ELSE SimStep(f[k - 1], page[k], p2p)
        <3> TAKE k \in 0..N
        <3>1. k # 0 => k \in 1..N
            BY <1>1
        <3> HIDE DEF N
        <3> QED
            BY <3>1, <1>4, <1>5
    <2> HIDE DEF N
    <2> QED
        BY <2>1, <1>4
<1>7. sim = CHOOSE g : g = F(g)
    BY DEF Simulated, SimStep
<1>8. sim = F(sim)
    <2> HIDE DEF F
    <2> QED
        BY <1>6, <1>7
<1>9. \A k \in 0..N : sim[k] = IF k = 0 THEN local ELSE SimStep(sim[k - 1], page[k], p2p)
    BY <1>8
<1>10. DOMAIN sim = 0..N /\ sim = [k \in 0..N |-> sim[k]]
    BY <1>8
<1> HIDE DEF F
<1>11. sim[0] = local /\ \A k \in 1..N : sim[k] = SimStep(sim[k - 1], page[k], p2p)
    <2>1. 0 \in 0..N /\ \A k \in 1..N : k \in 0..N /\ k # 0
        BY <1>1
    <2> HIDE DEF N
    <2> QED
        BY <2>1, <1>9
<1>12. {k \in 0..N : sim[k] \in Snapshots} = 0..N
    <2> DEFINE G == {k \in 0..N : sim[k] \in Snapshots}
    <2>1. G \in SUBSET (0..N) /\ 0 \in G
        BY <1>1, <1>11
    <2>2. ASSUME NEW k \in 1..N, k - 1 \in G PROVE k \in G
        <3>1. sim[k - 1] \in Snapshots /\ page[k] \in Offers /\ k \in 0..N
            BY <1>1, <2>2
        <3>2. sim[k] \in Snapshots
            BY <3>1, <1>11, SimStepIs
        <3> QED
            BY <3>1, <3>2
    <2> HIDE DEF G, N
    <2>3. G = 0..N
        BY <1>1, <2>1, <2>2, Induced
    <2> QED
        BY <2>3 DEF G
<1>13. \A k \in 0..N : sim[k] \in Snapshots
    BY <1>12
<1>14. sim \in [0..N -> Snapshots]
    <2> HIDE DEF N
    <2> QED
        BY <1>10, <1>13
<1> QED
    BY <1>11, <1>14

\* Along the page an item stays at the snapshot's version or moves up from it,
\* and its pin stays or moves forward unless the page deletes it.
LEMMA SimulatedKeeps ==
    ASSUME NEW local \in Snapshots, NEW page \in Seq(Offers), NEW p2p \in BOOLEAN,
           NEW sim, sim = Simulated(local, page, p2p)
    PROVE  \A k \in 0..Len(page) : \A id \in Ids :
            /\ sim[k][id] = local[id] \/ Newer(sim[k][id], local[id])
            /\ sim[k][id].pinAt >= local[id].pinAt \/ PageDeletes(page, id)
<1>1. /\ sim \in [0..Len(page) -> Snapshots] /\ sim[0] = local
      /\ \A k \in 1..Len(page) : sim[k] = SimStep(sim[k - 1], page[k], p2p)
    BY SimulatedIs
<1>2. Len(page) \in Nat /\ \A k \in 1..Len(page) : page[k] \in Offers
    BY ElementOfSeq, LenProperties
<1> DEFINE Good(k) == \A id \in Ids :
                        /\ sim[k][id] = local[id] \/ Newer(sim[k][id], local[id])
                        /\ sim[k][id].pinAt >= local[id].pinAt \/ PageDeletes(page, id)
           G == {k \in 0..Len(page) : Good(k)}
<1>3. \A v \in Snapshots : \A id \in Ids : v[id] \in Versions /\ v[id].pinAt \in Int
    <2>1. \A v \in Snapshots : \A id \in Ids : v[id] \in Versions
        BY DEF Snapshots
    <2>2. \A v \in Versions : v.pinAt \in Int
        BY DEF Versions
    <2> QED
        BY <2>1, <2>2
<1>4. G \in SUBSET (0..Len(page)) /\ 0 \in G
    <2>1. Good(0)
        BY <1>1, <1>3
    <2> QED
        BY <1>2, <2>1
<1>5. ASSUME NEW k \in 1..Len(page), k - 1 \in G PROVE k \in G
    <2>1. k - 1 \in 0..Len(page) /\ k \in 0..Len(page) /\ Good(k - 1)
        BY <1>2, <1>5
    <2>2. PICK b, s, inc : b = sim[k - 1] /\ s = sim[k] /\ inc = page[k]
        OBVIOUS
    <2>3. b \in Snapshots /\ s \in Snapshots /\ inc \in Offers
        BY <1>1, <1>2, <2>1, <2>2
    <2>4. /\ \A id \in Ids : id # inc.id => s[id] = b[id]
          /\ s[inc.id] = b[inc.id] \/ Newer(s[inc.id], b[inc.id])
          /\ ~inc.deleted => s[inc.id].pinAt >= b[inc.id].pinAt
        <3>1. s = SimStep(b, inc, p2p)
            BY <1>1, <2>2
        <3> QED
            BY ONLY <3>1, <2>3, p2p \in BOOLEAN, SimStepIs
    <2>5. \A id \in Ids : /\ b[id] = local[id] \/ Newer(b[id], local[id])
                          /\ b[id].pinAt >= local[id].pinAt \/ PageDeletes(page, id)
        BY <2>1, <2>2
    <2>6. ASSUME NEW id \in Ids
          PROVE  /\ s[id] = local[id] \/ Newer(s[id], local[id])
                 /\ s[id].pinAt >= local[id].pinAt \/ PageDeletes(page, id)
        <3>1. /\ s[id] \in Versions /\ b[id] \in Versions /\ local[id] \in Versions
              /\ s[id].pinAt \in Int /\ b[id].pinAt \in Int /\ local[id].pinAt \in Int
            BY <1>3, <2>3
        <3>2. CASE id # inc.id
            BY <2>4, <2>5, <3>2
        <3>3. CASE id = inc.id
            <4>1. s[id] = b[id] \/ Newer(s[id], b[id])
                BY <2>4, <3>3
            <4>2. s[id] = local[id] \/ Newer(s[id], local[id])
                BY <2>5, <3>1, <4>1, NewerIsTransitive
            <4>3. inc.deleted => PageDeletes(page, id)
                BY <2>2, <3>3 DEF PageDeletes
            <4>4. ~inc.deleted => s[id].pinAt >= b[id].pinAt
                BY <2>4, <3>3
            <4> QED
                BY <2>5, <3>1, <4>2, <4>3, <4>4
        <3> QED
            BY <3>2, <3>3
    <2>7. Good(k)
        BY <2>2, <2>6
    <2> QED
        BY <2>1, <2>7
<1>6. G = 0..Len(page)
    <2> HIDE DEF G
    <2> QED
        BY <1>2, <1>4, <1>5, Induced
<1>7. \A k \in 0..Len(page) : Good(k)
    BY <1>6
<1> QED
    BY <1>7

Plan(sim, page, p2p, k) == Prepared(sim[k - 1][page[k].id], page[k], p2p)

\* What is planned for a version of the page that gets a slot: it is newer than
\* the snapshot's, and its pin no older unless the page deletes the item.
LEMMA SlotIs ==
    ASSUME NEW local \in Snapshots, NEW page \in Seq(Offers), NEW p2p \in BOOLEAN,
           NEW sim, sim = Simulated(local, page, p2p),
           NEW k \in Slots(local, page, p2p), NEW w, w = Plan(sim, page, p2p, k),
           NEW id, id = page[k].id
    PROVE  /\ k \in 1..Len(page) /\ id \in Ids /\ page[k] \in Offers
           /\ w \in Plans /\ w.at = page[k].at /\ w.at > 0
           /\ Newer(PreparedVersion(w), local[id])
           /\ w.deleted \/ w.pinAt >= local[id].pinAt \/ PageDeletes(page, id)
<1>1. k \in 1..Len(page) /\ Takes(sim[k - 1][page[k].id], page[k], p2p)
    BY DEF Slots
<1>2. Len(page) \in Nat /\ page[k] \in Offers
    BY <1>1, ElementOfSeq, LenProperties
<1>3. id \in Ids /\ page[k].at \in 0..MaxStamp /\ page[k].at > 0
    BY <1>2, OfferIs
<1>4. k - 1 \in 0..Len(page)
    BY <1>1, <1>2
<1>5. sim[k - 1] \in Snapshots
    BY <1>4, SimulatedIs
<1>6. PICK before : before = sim[k - 1][id]
    OBVIOUS
<1>7. before \in Versions /\ (Held(before) \/ before.pinAt = 0) /\ local[id] \in Versions
    BY <1>3, <1>5, <1>6 DEF Snapshots
<1>8. /\ before = local[id] \/ Newer(before, local[id])
      /\ before.pinAt >= local[id].pinAt \/ PageDeletes(page, id)
    BY <1>3, <1>4, <1>6, SimulatedKeeps
<1>9. /\ w \in Plans /\ w.at = page[k].at /\ w.deleted = page[k].deleted
      /\ PreparedVersion(w) \in Versions /\ Newer(PreparedVersion(w), before)
      /\ ~w.deleted => w.pinAt >= before.pinAt
    BY <1>1, <1>2, <1>6, <1>7, PreparedIs DEF Plan
<1>10. Newer(PreparedVersion(w), local[id])
    BY <1>7, <1>8, <1>9, NewerIsTransitive
<1>11. w.pinAt \in Int /\ before.pinAt \in Int /\ local[id].pinAt \in Int
    BY <1>7, <1>9 DEF Plans, Versions
<1>12. w.deleted \/ w.pinAt >= local[id].pinAt \/ PageDeletes(page, id)
    BY <1>8, <1>9, <1>11
<1> QED
    BY <1>1, <1>2, <1>3, <1>9, <1>10, <1>12

(***************************************************************************)
(* Writing a page.                                                         *)
(***************************************************************************)

WriteStep(rs, page, slots, sim, p2p, k) ==
    IF k \in slots THEN Upsert(rs, page[k].id, Plan(sim, page, p2p, k)) ELSE rs

\* One write of the page leaves a table of rows.
LEMMA WriteStepIs ==
    ASSUME NEW local \in Snapshots, NEW page \in Seq(Offers), NEW p2p \in BOOLEAN,
           NEW sim, sim = Simulated(local, page, p2p), pinRecord \in PinRecords,
           NEW rs \in [Ids -> Rows], NEW k \in 1..Len(page)
    PROVE  WriteStep(rs, page, Slots(local, page, p2p), sim, p2p, k) \in [Ids -> Rows]
<1>1. CASE k \notin Slots(local, page, p2p)
    BY <1>1 DEF WriteStep
<1>2. CASE k \in Slots(local, page, p2p)
    <2>1. PICK w, id : w = Plan(sim, page, p2p, k) /\ id = page[k].id
        OBVIOUS
    <2>2. id \in Ids /\ w \in Plans /\ w.at > 0
        BY <1>2, <2>1, SlotIs
    <2>3. Upserted(rs, id, w) \in Rows
        BY <2>2, UpsertedIs
    <2>4. Upsert(rs, id, w) \in [Ids -> Rows]
        BY <2>3 DEF Upsert
    <2> QED
        BY <1>2, <2>1, <2>4 DEF WriteStep
<1> QED
    BY <1>1, <1>2

\* The writes along a page are the repeated step.
LEMMA WrittenIs ==
    ASSUME NEW local \in Snapshots, NEW page \in Seq(Offers), NEW p2p \in BOOLEAN,
           NEW sim, sim = Simulated(local, page, p2p), pinRecord \in PinRecords,
           NEW rs \in [Ids -> Rows], NEW after, after = Written(rs, local, page, p2p)
    PROVE  /\ after[0] = rs
           /\ \A k \in 1..Len(page) :
                after[k] = WriteStep(after[k - 1], page, Slots(local, page, p2p), sim, p2p, k)
<1> DEFINE N == Len(page)
           slots == Slots(local, page, p2p)
           V == [Ids -> Rows]
           step == [e \in V \X (1..N) |-> WriteStep(e[1], page, slots, sim, p2p, e[2])]
           F(f) == [k \in 0..N |-> IF k = 0 THEN rs ELSE WriteStep(f[k - 1], page, slots, sim, p2p, k)]
<1>1. N \in Nat /\ rs \in V
    BY LenProperties
<1>2. step \in [V \X (1..N) -> V]
    <2>1. \A b \in V : \A k \in 1..N : WriteStep(b, page, slots, sim, p2p, k) \in V
        BY WriteStepIs
    <2> HIDE DEF V, slots
    <2> QED
        BY <2>1
<1>3. \A b \in V : \A k \in 1..N : step[<<b, k>>] = WriteStep(b, page, slots, sim, p2p, k)
    <2> HIDE DEF V, slots
    <2> QED
        OBVIOUS
<1>4. PICK f : Iterates(f, N, V, rs, step)
    <2> HIDE DEF step, N, V
    <2> QED
        BY <1>1, <1>2, Iterated
<1>5. f \in [0..N -> V] /\ f[0] = rs /\ \A k \in 1..N : f[k] = step[<<f[k - 1], k>>]
    <2> HIDE DEF step, N, V
    <2> QED
        BY <1>4 DEF Iterates
<1>6. \A k \in 1..N : f[k] = WriteStep(f[k - 1], page, slots, sim, p2p, k)
    <2> TAKE k \in 1..N
    <2>1. k - 1 \in 0..N
        BY <1>1
    <2> HIDE DEF step, V, N, slots
    <2>2. f[k - 1] \in V
        BY <2>1, <1>5
    <2> QED
        BY <2>2, <1>3, <1>5
<1>7. f = F(f)
    <2>1. \A k \in 0..N : k # 0 => k \in 1..N
        BY <1>1
    <2> HIDE DEF N, V, step, slots
    <2>2. \A k \in 0..N : f[k] = IF k = 0 THEN rs ELSE WriteStep(f[k - 1], page, slots, sim, p2p, k)
        BY <2>1, <1>5, <1>6
    <2> QED
        BY <2>2, <1>5
<1>8. after = CHOOSE g : g = F(g)
    BY DEF Written, WriteStep, Plan
<1>9. after = F(after)
    <2> HIDE DEF F
    <2> QED
        BY <1>7, <1>8
<1>10. \A k \in 0..N : after[k] = IF k = 0 THEN rs ELSE WriteStep(after[k - 1], page, slots, sim, p2p, k)
    <2> HIDE DEF slots
    <2> QED
        BY <1>9
<1>11. 0 \in 0..N /\ \A k \in 1..N : k \in 0..N /\ k # 0
    BY <1>1
<1> HIDE DEF F, N, step, V
<1> QED
    BY <1>10, <1>11 DEF N

\* Where an item stands after the first n writes of the page: no version of it
\* was stored and its row is the one before the page, or the last one stored
\* moved it up from the snapshot.
Reached(row, old, loc, page, stored, id, n) ==
    \/ row = old /\ \A k \in stored : k <= n => page[k].id # id
    \/ \E k \in stored :
        /\ k <= n /\ page[k].id = id /\ row.at >= page[k].at
        /\ Newer(VersionOf(row), loc)
        /\ row.rowid > 0 /\ (old.rowid > 0 => row.rowid = old.rowid)
        /\ row.deleted \/ row.pinAt >= loc.pinAt \/ PageDeletes(page, id)

\* The page's writes keep the table in order and move every item they store up
\* from the snapshot.
LEMMA WrittenKeeps ==
    ASSUME NEW local \in Snapshots, NEW page \in Seq(Offers), NEW p2p \in BOOLEAN,
           pinRecord \in PinRecords, NEW rs, TableOK(rs),
           NEW after, after = Written(rs, local, page, p2p),
           NEW stored, stored = Slots(local, page, p2p) \ RefusedSlots(rs, local, page, p2p)
    PROVE  /\ TableOK(after[Len(page)])
           /\ \A id \in Ids : Reached(after[Len(page)][id], rs[id], local[id], page, stored, id, Len(page))
<1>1. PICK sim, slots : sim = Simulated(local, page, p2p) /\ slots = Slots(local, page, p2p)
    OBVIOUS
<1>2. rs \in [Ids -> Rows]
    BY DEF TableOK
<1>3. /\ after[0] = rs
      /\ \A k \in 1..Len(page) : after[k] = WriteStep(after[k - 1], page, slots, sim, p2p, k)
    BY <1>1, <1>2, WrittenIs
<1>4. Len(page) \in Nat /\ slots \subseteq 1..Len(page)
    BY <1>1, LenProperties DEF Slots
<1>5. \A k \in slots : k \in stored <=> ~UpsertRefused(after[k - 1], page[k].id, Plan(sim, page, p2p, k))
    BY <1>1 DEF RefusedSlots, Plan
<1>6. stored \subseteq slots
    BY <1>1
<1> DEFINE Good(n) == /\ TableOK(after[n])
                      /\ \A id \in Ids : Reached(after[n][id], rs[id], local[id], page, stored, id, n)
           G == {n \in 0..Len(page) : Good(n)}
<1>7. G \in SUBSET (0..Len(page)) /\ 0 \in G
    <2>1. \A k \in stored : ~(k <= 0)
        BY <1>4, <1>6
    <2>2. Good(0)
        BY <1>3, <2>1 DEF Reached
    <2>3. 0 \in 0..Len(page)
        BY <1>4
    <2> QED
        BY <2>2, <2>3
<1>8. ASSUME NEW n \in 1..Len(page), n - 1 \in G PROVE n \in G
    <2>1. n \in 0..Len(page) /\ Good(n - 1)
        <3>1. n \in 0..Len(page)
            BY <1>4
        <3>2. \A j \in G : Good(j)
            OBVIOUS
        <3>3. Good(n - 1)
            <4> HIDE DEF Good, G
            <4> QED
                BY <1>8, <3>2
        <3> QED
            BY <3>1, <3>3
    <2>2. PICK a, b : a = after[n - 1] /\ b = after[n]
        OBVIOUS
    <2>3. /\ TableOK(a)
          /\ \A id \in Ids : Reached(a[id], rs[id], local[id], page, stored, id, n - 1)
        BY <2>1, <2>2
    <2>4. a \in [Ids -> Rows]
        BY <2>3 DEF TableOK
    <2>5. \A k \in stored : k \in Int
        BY <1>4, <1>6
    \* What was reached by an item that this write leaves alone.
    <2>6. ASSUME NEW id \in Ids, b[id] = a[id], n \notin stored \/ page[n].id # id
          PROVE  Reached(b[id], rs[id], local[id], page, stored, id, n)
        <3>1. \A k \in stored : k <= n - 1 => k <= n
            BY <2>5
        <3>2. \A k \in stored : k <= n => k <= n - 1 \/ page[k].id # id
            BY <2>5, <2>6
        <3>3. Reached(a[id], rs[id], local[id], page, stored, id, n - 1)
            BY <2>3
        <3> QED
            BY <3>1, <3>2, <3>3, <2>6 DEF Reached
    <2>7. CASE n \notin stored
        <3>1. b = a
            <4>1. CASE n \notin slots
                BY <4>1, <1>3, <2>2 DEF WriteStep
            <4>2. CASE n \in slots
                <5>1. UpsertRefused(a, page[n].id, Plan(sim, page, p2p, n))
                    BY <1>5, <2>2, <2>7, <4>2
                <5>2. b = Upsert(a, page[n].id, Plan(sim, page, p2p, n))
                    BY <1>3, <2>2, <4>2 DEF WriteStep
                <5> QED
                    BY <5>1, <5>2 DEF Upsert
            <4> QED
                BY <4>1, <4>2
        <3>2. Good(n)
            BY <2>2, <2>3, <2>6, <2>7, <3>1
        <3> QED
            BY <2>1, <3>2
    <2>8. CASE n \in stored
        <3>1. PICK w, id, row : /\ w = Plan(sim, page, p2p, n) /\ id = page[n].id
                                /\ row = Upserted(a, id, w)
            OBVIOUS
        <3>2. n \in Slots(local, page, p2p)
            BY <1>1, <1>6, <2>8
        <3>3. /\ id \in Ids /\ page[n] \in Offers
              /\ w \in Plans /\ w.at = page[n].at /\ w.at > 0
              /\ Newer(PreparedVersion(w), local[id])
              /\ w.deleted \/ w.pinAt >= local[id].pinAt \/ PageDeletes(page, id)
            BY <1>1, <3>1, <3>2, SlotIs
        <3>4. /\ row \in Rows /\ row.rowid > 0 /\ row.at > 0 /\ row.at >= w.at
              /\ Present(a, id) => row.rowid = a[id].rowid
              /\ ~Present(a, id) => row.rowid > MaxRowid(a)
              /\ row.deleted = w.deleted /\ row.pinAt >= w.pinAt
              /\ \A v \in Versions : Newer(PreparedVersion(w), v) => Newer(VersionOf(row), v)
            BY <2>4, <3>1, <3>3, UpsertedIs
        <3>5. ~UpsertRefused(a, id, w)
            BY <1>5, <1>6, <2>2, <2>8, <3>1
        <3>6. ~Collides(a, id, row)
            BY <3>1, <3>5 DEF UpsertRefused
        <3>7. b = [a EXCEPT ![id] = row]
            <4>1. b = Upsert(a, id, w)
                BY <1>3, <1>6, <2>2, <2>8, <3>1 DEF WriteStep
            <4> QED
                BY <4>1, <3>1, <3>5 DEF Upsert
        <3>8. TableOK(b)
            BY <2>3, <3>3, <3>4, <3>6, <3>7, PutRow
        <3>9. b[id] = row /\ \A x \in Ids : x # id => b[x] = a[x]
            BY <2>4, <3>3, <3>7
        <3>10. rs[id].rowid > 0 => row.rowid = rs[id].rowid
            <4>1. Reached(a[id], rs[id], local[id], page, stored, id, n - 1)
                BY <2>3, <3>3
            <4>2. rs[id].rowid > 0 => a[id].rowid = rs[id].rowid
                BY <4>1 DEF Reached
            <4> QED
                BY <4>2, <3>4 DEF Present
        <3>11. row.deleted \/ row.pinAt >= local[id].pinAt \/ PageDeletes(page, id)
            <4>1. row.pinAt \in Int /\ w.pinAt \in Int
                BY <3>3, <3>4 DEF Rows, Plans
            <4>2. local[id].pinAt \in Int
                BY <3>3 DEF Snapshots, Versions
            <4> QED
                BY <3>3, <3>4, <4>1, <4>2
        <3>12. Newer(VersionOf(row), local[id])
            <4>1. local[id] \in Versions
                BY <3>3 DEF Snapshots
            <4> QED
                BY <4>1, <3>3, <3>4
        <3>13. Reached(row, rs[id], local[id], page, stored, id, n)
            <4>1. n <= n /\ page[n].id = id /\ row.at >= page[n].at
                BY <3>1, <3>3, <3>4
            <4> QED
                BY <4>1, <2>8, <3>4, <3>10, <3>11, <3>12 DEF Reached
        <3>14. ASSUME NEW x \in Ids PROVE Reached(b[x], rs[x], local[x], page, stored, x, n)
            BY <2>6, <3>1, <3>9, <3>13
        <3>15. Good(n)
            BY <2>2, <3>8, <3>14
        <3> QED
            BY <2>1, <3>15
    <2> QED
        BY <2>7, <2>8
<1>9. G = 0..Len(page)
    <2> HIDE DEF G
    <2> QED
        BY <1>4, <1>7, <1>8, Induced
<1>10. Good(Len(page))
    <2>1. Len(page) \in 0..Len(page)
        BY <1>4
    <2> QED
        BY <1>9, <2>1
<1> QED
    BY <1>10

(***************************************************************************)
(* Local writes.                                                           *)
(***************************************************************************)

\* What a write of this device does to a row: it moves up with its pin, or it is
\* dropped while it is live.
Advances(old, new) ==
    new = old \/ (Moves(old, new) /\ (new.deleted \/ new.pinAt >= old.pinAt))
Dropped(old, new) == new = NoRow /\ old.rowid > 0 /\ ~old.deleted

\* A row that keeps its content and its origin, does not move back and is not
\* brought back to life has moved up.
LEMMA RowMoves ==
    ASSUME NEW old \in Rows, NEW new \in Rows, old.rowid > 0, new.rowid = old.rowid,
           new.hash = old.hash, new.origin = old.origin, old.deleted => new.deleted,
           new.at >= old.at
    PROVE  Moves(old, new)
<1>1. old.at \in Int /\ new.at \in Int /\ old.deleted \in BOOLEAN /\ new.deleted \in BOOLEAN
    BY DEF Rows
<1>2. old.rowid \in Nat /\ old.rowid # 0
    BY DEF Rows
<1>3. /\ VersionOf(old).at = old.at /\ VersionOf(old).hash = old.hash
      /\ VersionOf(old).deleted = old.deleted /\ VersionOf(old).origin = OriginOr(old.origin)
    BY <1>2, VersionIs
<1>4. /\ VersionOf(new).at = new.at /\ VersionOf(new).hash = old.hash
      /\ VersionOf(new).deleted = new.deleted /\ VersionOf(new).origin = OriginOr(old.origin)
    BY <1>2, VersionIs
<1>5. CASE new.at = old.at /\ new.deleted = old.deleted
    BY <1>1, <1>3, <1>4, <1>5 DEF Moves
<1>6. CASE new.at > old.at
    BY <1>1, <1>3, <1>4, <1>6 DEF Moves, Newer
<1>7. CASE new.at = old.at /\ new.deleted /\ ~old.deleted
    <2>1. Bit(TRUE) > Bit(FALSE)
        BY DEF Bit
    <2>2. VersionOf(new).deleted = TRUE /\ VersionOf(old).deleted = FALSE
        BY <1>1, <1>3, <1>4, <1>7
    <2>3. Newer(VersionOf(new), VersionOf(old))
        BY <1>3, <1>4, <1>7, <2>1, <2>2 DEF Newer
    <2> QED
        BY <2>3, <1>1, <1>7 DEF Moves
<1> QED
    BY <1>1, <1>5, <1>6, <1>7

\* A row that is there clashes with none of the others.
LEMMA PlaceKept ==
    ASSUME NEW rs, TableOK(rs), NEW id \in Ids, rs[id].rowid > 0, NEW row,
           row.deleted \/ ( /\ row.at = rs[id].at /\ row.hash = rs[id].hash
                            /\ row.origin = rs[id].origin /\ row.deleted = rs[id].deleted )
    PROVE  ~Collides(rs, id, row)
<1>1. CASE row.deleted
    BY <1>1 DEF Collides
<1>2. CASE /\ row.at = rs[id].at /\ row.hash = rs[id].hash
           /\ row.origin = rs[id].origin /\ row.deleted = rs[id].deleted
    <2>1. ~Collides(rs, id, rs[id])
        BY DEF TableOK
    <2> QED
        BY <1>2, <2>1 DEF Collides
<1> QED
    BY <1>1, <1>2

\* The table as a step of local writes leaves it.
LocalStep(rs) ==
    /\ TableOK(rs)
    /\ \A id \in Ids : Advances(rows[id], rs[id]) \/ Dropped(rows[id], rs[id])

\* Every row advances, and none is dropped.
Grows(rs) == TableOK(rs) /\ \A id \in Ids : Advances(rows[id], rs[id])

\* One row written in its place.
LEMMA OneRow ==
    ASSUME TableOK(rows), NEW id \in Ids, rows[id].rowid > 0, NEW row \in Rows,
           row.rowid = rows[id].rowid, row.hash = rows[id].hash, row.origin = rows[id].origin,
           rows[id].deleted => row.deleted, row.at >= rows[id].at,
           row.deleted \/ row.pinAt >= rows[id].pinAt,
           ~Collides(rows, id, row)
    PROVE  Grows([rows EXCEPT ![id] = row])
<1>1. rows \in [Ids -> Rows] /\ rows[id].at > 0
    BY DEF TableOK
<1>2. rows[id].at \in Int /\ row.at \in Int
    BY <1>1 DEF Rows
<1>3. TableOK([rows EXCEPT ![id] = row])
    <2>1. row.rowid > 0 /\ row.at > 0
        BY <1>1, <1>2
    <2> QED
        BY <2>1, PutRow
<1>4. Moves(rows[id], row)
    BY <1>1, RowMoves
<1>5. \A x \in Ids : Advances(rows[x], [rows EXCEPT ![id] = row][x])
    BY <1>1, <1>4 DEF Advances
<1> QED
    BY <1>3, <1>5 DEF Grows

\* Nothing written.
LEMMA NoWrite ==
    ASSUME TableOK(rows)
    PROVE  Grows(rows)
    BY DEF Grows, Advances

\* A row whose pin state alone is rewritten, forward only.
LEMMA PinWritten ==
    ASSUME TableOK(rows), NEW id \in Ids, rows[id].rowid > 0, NEW row \in Rows,
           row.rowid = rows[id].rowid, row.hash = rows[id].hash, row.origin = rows[id].origin,
           row.deleted = rows[id].deleted, row.at = rows[id].at, row.pinAt >= rows[id].pinAt
    PROVE  Grows([rows EXCEPT ![id] = row])
<1>1. ~Collides(rows, id, row)
    BY PlaceKept
<1>2. rows[id].at \in Int
    BY DEF TableOK, Rows
<1> QED
    BY <1>1, <1>2, OneRow

\* A table in which rows were replaced by tombstones or removed.
LEMMA Thinned ==
    ASSUME NEW rs, TableOK(rs), NEW new \in [Ids -> Rows],
           \A id \in Ids : \/ new[id] = rs[id] \/ new[id] = NoRow
                           \/ new[id].deleted /\ new[id].rowid = rs[id].rowid /\ new[id].at > 0
                              /\ rs[id].rowid > 0
    PROVE  TableOK(new)
<1>1. \A id \in Ids : rs[id].rowid \in Nat /\ NoRow.rowid = 0
    BY DEF TableOK, Rows, NoRow
<1>2. \A id \in Ids : new[id].rowid = 0 => new[id] = NoRow
    <2> SUFFICES ASSUME NEW id \in Ids, new[id].rowid = 0 PROVE new[id] = NoRow
        OBVIOUS
    <2>1. new[id] = rs[id] => new[id] = NoRow
        BY DEF TableOK
    <2> QED
        BY <1>1, <2>1
<1>3. \A id \in Ids : new[id].rowid > 0 => new[id].rowid = rs[id].rowid
    BY <1>1
<1>4. \A a \in Ids : \A b \in Ids : Clash(new[a], new[b]) => new[a] = rs[a] /\ new[b] = rs[b]
    <2> SUFFICES ASSUME NEW a \in Ids, NEW b \in Ids, Clash(new[a], new[b])
                 PROVE  new[a] = rs[a] /\ new[b] = rs[b]
        OBVIOUS
    <2>1. NoRow.hash = 0
        BY DEF NoRow
    <2>2. /\ ~new[a].deleted /\ new[a].hash # 0 /\ new[b].rowid > 0 /\ ~new[b].deleted
        BY DEF Clash
    <2>3. new[a] # NoRow /\ new[b] # NoRow
        BY <1>1, <2>1, <2>2
    <2> QED
        BY <2>2, <2>3
<1>5. ASSUME NEW id \in Ids, new[id].rowid > 0
      PROVE  /\ new[id].at > 0 /\ ~Collides(new, id, new[id])
             /\ \A other \in Ids \ {id} : new[other].rowid # new[id].rowid
    <2>1. rs[id].rowid > 0 /\ new[id].rowid = rs[id].rowid
        BY <1>3, <1>5
    <2>2. /\ rs[id].at > 0 /\ ~Collides(rs, id, rs[id])
          /\ \A other \in Ids \ {id} : rs[other].rowid # rs[id].rowid
        BY <2>1 DEF TableOK
    <2>3. new[id].at > 0
        BY <1>1, <1>5, <2>2
    <2>4. \A other \in Ids \ {id} : new[other].rowid # new[id].rowid
        <3> SUFFICES ASSUME NEW other \in Ids \ {id} PROVE new[other].rowid # new[id].rowid
            OBVIOUS
        <3>1. rs[other].rowid # rs[id].rowid
            BY <2>2
        <3>2. new[other].rowid = rs[other].rowid \/ new[other].rowid = 0
            BY <1>1
        <3> QED
            BY <3>1, <3>2, <2>1, <1>1
    <2>5. \A other \in Ids \ {id} : ~Clash(new[id], new[other])
        <3>1. \A other \in Ids \ {id} : ~Clash(rs[id], rs[other])
            BY <2>2, CollidesIs
        <3> QED
            BY <3>1, <1>4
    <2>6. ~Collides(new, id, new[id])
        BY <2>5, CollidesIs
    <2> QED
        BY <2>3, <2>4, <2>6
<1> QED
    BY <1>2, <1>5 DEF TableOK

\* The newest of some rows is one of them.
LEMMA NewestIs ==
    ASSUME NEW rs \in [Ids -> Rows], NEW S \in SUBSET Ids, S # {}
    PROVE  NewestOf(rs, S) \in S
<1> DEFINE R == {e \in S \X S : Older(rs, e[1], e[2])}
<1>1. \A x, y \in S : <<x, y>> \in R <=> Older(rs, x, y)
    OBVIOUS
<1>2. \A x \in S : rs[x].at \in Int /\ x \in Int
    <2>1. \A x \in S : x \in Nat /\ rs[x].at \in 0..MaxStamp
        BY Bounds DEF Rows
    <2> QED
        BY <2>1
<1>3. /\ \A x \in S : ~Older(rs, x, x)
      /\ \A x, y, z \in S : Older(rs, x, y) /\ Older(rs, y, z) => Older(rs, x, z)
      /\ \A x, y \in S : x # y => Older(rs, x, y) \/ Older(rs, y, x)
    BY <1>2 DEF Older
<1>4. IsFiniteSet(S)
    <2>1. IsFiniteSet(Ids)
        BY HistoryMergeAssumption, Zenon
    <2> QED
        BY <2>1, FS_Subset
<1> HIDE DEF R
<1>5. PICK x \in S : \A y \in S : <<x, y>> \notin R
    <2>1. /\ \A x \in S : <<x, x>> \notin R
          /\ \A x, y, z \in S : <<x, y>> \in R /\ <<y, z>> \in R => <<x, z>> \in R
        BY <1>1, <1>3
    <2> QED
        BY <1>4, <2>1, FiniteHasLast
<1>6. \A y \in S \ {x} : Older(rs, y, x)
    BY <1>1, <1>3, <1>5
<1> QED
    BY <1>6 DEF NewestOf

\* insert_or_bump.
LEMMA CaptureGrows ==
    ASSUME TableOK(rows), now \in Stamps, NEW id \in LocalIds, NEW hash \in Hashes, Capture(id, hash)
    PROVE  Grows(rows')
<1>1. rows \in [Ids -> Rows] /\ id \in Ids
    <2>1. LocalIds \subseteq Ids
        BY HistoryMergeAssumption, Zenon
    <2> QED
        BY <2>1 DEF TableOK
<1>2. now \in 0..MaxStamp /\ now \in Int /\ now > 0
    BY Bounds DEF Stamps
<1>3. PICK holders : holders = {other \in Ids : Live(rows, other) /\ rows[other].hash = hash}
    OBVIOUS
<1>4. PICK survivor : survivor = NewestOf(rows, holders)
    OBVIOUS
<1>5. PICK bumped : bumped = [rows[survivor] EXCEPT !.at = now]
    OBVIOUS
<1>6. PICK row : row = [NoRow EXCEPT !.rowid = MaxRowid(rows) + 1, !.at = now, !.hash = hash]
    OBVIOUS
<1>7. /\ ~Present(rows, id)
      /\ rows' = IF holders = {} THEN [rows EXCEPT ![id] = row]
                 ELSE IF now > rows[survivor].at /\ ~Collides(rows, survivor, bumped)
                      THEN [rows EXCEPT ![survivor] = bumped]
                      ELSE rows
    BY <1>3, <1>4, <1>5, <1>6 DEF Capture, Write
<1>8. CASE holders = {}
    <2>1. MaxRowid(rows) \in Nat
        BY <1>1, MaxRowidIs
    <2>2. row = [rowid |-> MaxRowid(rows) + 1, at |-> now, hash |-> hash, deleted |-> FALSE,
                 origin |-> 0, pinned |-> FALSE, pinAt |-> 0, choice |-> 0]
        BY <1>6 DEF NoRow
    <2>3. 0 \in 0..MaxStamp
        BY Bounds
    <2>4. /\ row \in Rows /\ row.rowid > MaxRowid(rows) /\ row.rowid > 0 /\ row.at = now
          /\ row.hash = hash /\ row.pinAt = 0
        BY <2>1, <2>2, <2>3, <1>2 DEF Rows
    <2>5. ~Collides(rows, id, row)
        BY <1>3, <1>8, <2>4 DEF Collides
    <2>6. TableOK([rows EXCEPT ![id] = row])
        BY <1>1, <1>2, <2>4, <2>5, PutRow
    <2>7. rows[id].rowid \in Nat
        BY <1>1, RowIs
    <2>8. rows[id] = NoRow
        BY <1>1, <1>7, <2>7 DEF TableOK, Present
    <2>9. rows[id].at = 0 /\ rows[id].rowid = 0 /\ rows[id].pinAt = 0
        BY <2>8 DEF NoRow
    <2>10. VersionOf(row).at = now /\ VersionOf(rows[id]).at = 0
        BY <1>1, <2>4, <2>9, VersionIs
    <2>11. Newer(VersionOf(row), VersionOf(rows[id]))
        BY <2>10, <1>2 DEF Newer
    <2>12. Moves(rows[id], row)
        BY <2>4, <2>9, <2>11, <1>2 DEF Moves
    <2>13. Advances(rows[id], row)
        BY <2>4, <2>9, <2>12 DEF Advances
    <2>14. \A x \in Ids : Advances(rows[x], [rows EXCEPT ![id] = row][x])
        <3> SUFFICES ASSUME NEW x \in Ids PROVE Advances(rows[x], [rows EXCEPT ![id] = row][x])
            OBVIOUS
        <3>1. CASE x = id
            BY <3>1, <1>1, <2>13
        <3>2. CASE x # id
            BY <3>2, <1>1 DEF Advances
        <3> QED
            BY <3>1, <3>2
    <2> QED
        BY <1>7, <1>8, <2>6, <2>14 DEF Grows
<1>9. CASE holders # {} /\ now > rows[survivor].at /\ ~Collides(rows, survivor, bumped)
    <2>1. survivor \in holders
        BY <1>1, <1>3, <1>4, <1>9, NewestIs
    <2>2. survivor \in Ids /\ rows[survivor].rowid > 0 /\ rows[survivor] \in Rows
        BY <1>1, <1>3, <2>1 DEF Live, Present
    <2>3. /\ bumped \in Rows /\ bumped.rowid = rows[survivor].rowid
          /\ bumped.hash = rows[survivor].hash /\ bumped.origin = rows[survivor].origin
          /\ bumped.deleted = rows[survivor].deleted /\ bumped.at = now
          /\ bumped.pinAt = rows[survivor].pinAt
        BY <1>2, <1>5, <2>2 DEF Rows
    <2>4. rows[survivor].at \in Int /\ rows[survivor].pinAt \in Int
        BY <2>2 DEF Rows
    <2>5. Grows([rows EXCEPT ![survivor] = bumped])
        BY <1>2, <1>9, <2>2, <2>3, <2>4, OneRow
    <2> QED
        BY <1>7, <1>9, <2>5
<1>10. CASE holders # {} /\ ~(now > rows[survivor].at /\ ~Collides(rows, survivor, bumped))
    BY <1>7, <1>10, NoWrite
<1> QED
    BY <1>8, <1>9, <1>10

\* The highest of some stamps is one of them.
LEMMA HighestStamp ==
    ASSUME NEW T \in SUBSET (0..MaxStamp), T # {}
    PROVE  Highest(T) \in T /\ Highest(T) \in 0..MaxStamp /\ \A y \in T : y <= Highest(T)
<1>1. T \in SUBSET Nat /\ \A x \in T : x <= MaxStamp
    BY Bounds
<1>2. MaxStamp \in Nat
    BY Bounds
<1>3. Highest(T) \in T /\ \A y \in T : y <= Highest(T)
    BY <1>1, <1>2, HighestIs
<1> QED
    BY <1>3

\* promote_copied.
LEMMA PromoteGrows ==
    ASSUME TableOK(rows), now \in Stamps, NEW id \in Ids, PromoteCopied(id)
    PROVE  Grows(rows')
<1>1. rows \in [Ids -> Rows]
    BY DEF TableOK
<1>2. now \in 0..MaxStamp
    BY Bounds DEF Stamps
<1>3. PICK latest : latest = {SaturatingNext(rows[other].at) : other \in Unpinned(rows)}
    OBVIOUS
<1>4. \A other \in Ids : rows[other].at \in 0..MaxStamp
    BY <1>1, RowIs
<1>5. latest \subseteq 0..MaxStamp
    <2>1. \A other \in Ids : SaturatingNext(rows[other].at) \in 0..MaxStamp
        BY <1>4, SaturatedIs
    <2> QED
        BY <1>3, <2>1 DEF Unpinned
<1>6. PICK T : T = {now, SaturatingNext(rows[id].at)} \cup latest
    OBVIOUS
<1>7. SaturatingNext(rows[id].at) \in 0..MaxStamp /\ SaturatingNext(rows[id].at) >= rows[id].at
    BY <1>4, SaturatedIs
<1>8. Highest(T) \in 0..MaxStamp /\ Highest(T) >= SaturatingNext(rows[id].at)
    <2>1. T \in SUBSET (0..MaxStamp) /\ T # {} /\ SaturatingNext(rows[id].at) \in T
        BY <1>2, <1>5, <1>6, <1>7
    <2>2. Highest(T) \in 0..MaxStamp /\ SaturatingNext(rows[id].at) <= Highest(T)
        BY <2>1, HighestStamp
    <2> QED
        BY <2>2, <1>7
<1>9. PICK promoted : promoted = [rows[id] EXCEPT !.at = Highest(T)]
    OBVIOUS
<1>10. /\ Live(rows, id) /\ ~Collides(rows, id, promoted)
       /\ rows' = [rows EXCEPT ![id] = promoted]
    BY <1>3, <1>6, <1>9 DEF PromoteCopied, Write
<1>11. rows[id] \in Rows /\ rows[id].rowid > 0
    BY <1>1, <1>10 DEF Live, Present
<1>12. /\ promoted \in Rows /\ promoted.rowid = rows[id].rowid /\ promoted.hash = rows[id].hash
       /\ promoted.origin = rows[id].origin /\ promoted.deleted = rows[id].deleted
       /\ promoted.at = Highest(T) /\ promoted.pinAt = rows[id].pinAt
    BY <1>8, <1>9, <1>11 DEF Rows
<1>13. rows[id].pinAt \in Int /\ Highest(T) >= rows[id].at
    <2>1. rows[id].pinAt \in Int
        BY <1>11 DEF Rows
    <2>2. rows[id].at \in Int /\ Highest(T) \in Int /\ SaturatingNext(rows[id].at) \in Int
        BY <1>4, <1>7, <1>8
    <2> QED
        BY <2>1, <2>2, <1>7, <1>8
<1>14. promoted.at >= rows[id].at /\ promoted.pinAt >= rows[id].pinAt
    BY <1>12, <1>13
<1>15. Grows([rows EXCEPT ![id] = promoted])
    BY <1>10, <1>11, <1>12, <1>14, OneRow
<1> QED
    BY <1>10, <1>15

\* The tombstone of a row.
LEMMA TombstoneIs ==
    ASSUME now \in Stamps, NEW row \in Rows, NEW t, t = Tombstone(row)
    PROVE  /\ t \in Rows /\ t.rowid = row.rowid /\ t.hash = row.hash /\ t.origin = row.origin
           /\ t.deleted /\ t.at >= row.at /\ t.at > 0
<1>1. PICK T : T = {SaturatingNext(row.at), Lesser(now, MaxStamp)}
    OBVIOUS
<1>2. row.at \in 0..MaxStamp
    BY RowIs
<1>3. /\ SaturatingNext(row.at) \in 0..MaxStamp /\ SaturatingNext(row.at) >= row.at
      /\ SaturatingNext(row.at) > 0
    BY <1>2, SaturatedIs
<1>4. Lesser(now, MaxStamp) \in 0..MaxStamp
    <2>1. now \in 0..MaxStamp /\ MaxStamp \in 0..MaxStamp
        BY Bounds DEF Stamps
    <2> QED
        BY <2>1 DEF Lesser
<1>5. Highest(T) \in 0..MaxStamp /\ SaturatingNext(row.at) <= Highest(T)
    <2>1. T \in SUBSET (0..MaxStamp) /\ T # {} /\ SaturatingNext(row.at) \in T
        BY <1>1, <1>3, <1>4
    <2> QED
        BY <2>1, HighestStamp
<1>6. Highest(T) >= row.at /\ Highest(T) > 0
    BY <1>2, <1>3, <1>5
<1>7. t = [row EXCEPT !.deleted = TRUE, !.pinned = FALSE, !.choice = 0, !.at = Highest(T)]
    BY <1>1 DEF Tombstone
<1>8. 0 \in 0..MaxStamp
    BY Bounds
<1>9. /\ t \in Rows /\ t.rowid = row.rowid /\ t.hash = row.hash /\ t.origin = row.origin
      /\ t.deleted /\ t.at = Highest(T)
    BY <1>5, <1>7, <1>8 DEF Rows
<1> QED
    BY <1>6, <1>9

\* A single item deleted.
LEMMA DeleteGrows ==
    ASSUME TableOK(rows), now \in Stamps, NEW id \in Ids, Delete(id)
    PROVE  Grows(rows')
<1>1. Live(rows, id) /\ rows' = [rows EXCEPT ![id] = Tombstone(rows[id])]
    BY DEF Delete, Write
<1>2. rows[id] \in Rows /\ rows[id].rowid > 0
    BY <1>1 DEF TableOK, Live, Present
<1>3. PICK t : t = Tombstone(rows[id])
    OBVIOUS
<1>4. /\ t \in Rows /\ t.rowid = rows[id].rowid /\ t.hash = rows[id].hash
      /\ t.origin = rows[id].origin /\ t.deleted /\ t.at >= rows[id].at
    BY <1>2, <1>3, TombstoneIs
<1>5. ~Collides(rows, id, t)
    BY <1>2, <1>4, PlaceKept
<1> QED
    BY <1>1, <1>2, <1>3, <1>4, <1>5, OneRow

\* delete_all_through.
LEMMA ClearGrows ==
    ASSUME TableOK(rows), now \in Stamps, DeleteAllThrough
    PROVE  Grows(rows')
<1>1. rows' = Cleared(rows, ceiling)
    BY DEF DeleteAllThrough
<1>2. rows \in [Ids -> Rows]
    BY DEF TableOK
<1>3. PICK new : new = Cleared(rows, ceiling)
    OBVIOUS
<1>4. ASSUME NEW id \in Ids
      PROVE  /\ new[id] \in Rows
             /\ \/ new[id] = rows[id]
                \/ /\ new[id].deleted /\ new[id].rowid = rows[id].rowid /\ new[id].at > 0
                   /\ rows[id].rowid > 0 /\ Moves(rows[id], new[id])
    <2>1. rows[id] \in Rows
        BY <1>2
    <2>2. \/ new[id] = rows[id]
          \/ id \in Unpinned(rows) /\ new[id] = Tombstone(rows[id])
        BY <1>3 DEF Cleared
    <2>3. CASE new[id] = rows[id]
        BY <2>1, <2>3
    <2>4. CASE id \in Unpinned(rows) /\ new[id] = Tombstone(rows[id])
        <3>1. rows[id].rowid > 0
            BY <2>4 DEF Unpinned, Live, Present
        <3>2. /\ new[id] \in Rows /\ new[id].rowid = rows[id].rowid /\ new[id].hash = rows[id].hash
              /\ new[id].origin = rows[id].origin /\ new[id].deleted /\ new[id].at >= rows[id].at
              /\ new[id].at > 0
            BY <2>1, <2>4, TombstoneIs
        <3>3. Moves(rows[id], new[id])
            BY <2>1, <3>1, <3>2, RowMoves
        <3> QED
            BY <3>1, <3>2, <3>3
    <2> QED
        BY <2>2, <2>3, <2>4
<1>5. new \in [Ids -> Rows]
    <2>1. new = [id \in Ids |-> new[id]]
        BY <1>3 DEF Cleared
    <2> QED
        BY <1>4, <2>1
<1>6. TableOK(new)
    BY <1>4, <1>5, Thinned
<1>7. \A id \in Ids : Advances(rows[id], new[id])
    BY <1>4 DEF Advances
<1> QED
    BY <1>1, <1>3, <1>6, <1>7 DEF Grows

\* set_secret.
LEMMA SecretGrows ==
    ASSUME TableOK(rows), now \in Stamps, NEW id \in Ids, SetSecret(id)
    PROVE  Grows(rows')
<1>1. PICK T : T = {Lesser(now, MaxStamp), SaturatingNext(rows[id].at), SaturatingNext(rows[id].choice)}
    OBVIOUS
<1>2. PICK row : row = [rows[id] EXCEPT !.at = Highest(T), !.choice = Highest(T)]
    OBVIOUS
<1>3. Live(rows, id) /\ ~Collides(rows, id, row) /\ rows' = [rows EXCEPT ![id] = row]
    BY <1>1, <1>2 DEF SetSecret, Write
<1>4. rows[id] \in Rows /\ rows[id].rowid > 0
    BY <1>3 DEF TableOK, Live, Present
<1>5. rows[id].at \in 0..MaxStamp /\ rows[id].choice \in 0..MaxStamp /\ rows[id].pinAt \in 0..MaxStamp
    BY <1>4, RowIs
<1>6. /\ SaturatingNext(rows[id].at) \in 0..MaxStamp /\ SaturatingNext(rows[id].at) >= rows[id].at
      /\ SaturatingNext(rows[id].choice) \in 0..MaxStamp
    BY <1>5, SaturatedIs
<1>7. Lesser(now, MaxStamp) \in 0..MaxStamp
    <2>1. now \in 0..MaxStamp /\ MaxStamp \in 0..MaxStamp
        BY Bounds DEF Stamps
    <2> QED
        BY <2>1 DEF Lesser
<1>8. Highest(T) \in 0..MaxStamp /\ SaturatingNext(rows[id].at) <= Highest(T)
    <2>1. T \in SUBSET (0..MaxStamp) /\ T # {} /\ SaturatingNext(rows[id].at) \in T
        BY <1>1, <1>6, <1>7
    <2> QED
        BY <2>1, HighestStamp
<1>9. Highest(T) >= rows[id].at /\ rows[id].pinAt \in Int
    BY <1>5, <1>6, <1>8
<1>10. /\ row \in Rows /\ row.rowid = rows[id].rowid /\ row.hash = rows[id].hash
       /\ row.origin = rows[id].origin /\ row.deleted = rows[id].deleted
       /\ row.at = Highest(T) /\ row.pinAt = rows[id].pinAt
    BY <1>2, <1>4, <1>8 DEF Rows
<1>11. row.at >= rows[id].at /\ row.pinAt >= rows[id].pinAt
    BY <1>9, <1>10
<1>12. Grows([rows EXCEPT ![id] = row])
    BY <1>3, <1>4, <1>10, <1>11, OneRow
<1> QED
    BY <1>3, <1>12

\* set_pinned_synced, and the type of the record it leaves.
LEMMA PinGrows ==
    ASSUME TableOK(rows), now \in Stamps, pinRecord \in PinRecords,
           NEW id \in Ids, NEW pinned \in BOOLEAN, NEW rewrite \in BOOLEAN,
           SetPinned(id, pinned, rewrite)
    PROVE  Grows(rows') /\ pinRecord' \in PinRecords
<1>1. PICK row : row = IF pinned /\ rows[id].pinned THEN rows[id]
                       ELSE [rows[id] EXCEPT !.pinned = pinned,
                                             !.pinAt = Greater(SaturatingNext(rows[id].pinAt), now)]
    OBVIOUS
<1>2. PICK old : old = pinRecord[id]
    OBVIOUS
<1>3. PICK stamp : stamp = Greater(row.pinAt, IF old.stamp = 0 THEN now
                                              ELSE Greater(SaturatingNext(old.stamp), now))
    OBVIOUS
<1>4. PICK record : record = IF rewrite THEN [pinned |-> pinned, stamp |-> stamp] ELSE old
    OBVIOUS
<1>5. PICK new : new = IF rewrite THEN Projected(row, record) ELSE row
    OBVIOUS
<1>6. /\ Live(rows, id)
      /\ pinRecord' = [pinRecord EXCEPT ![id] = record]
      /\ rows' = [rows EXCEPT ![id] = new]
    BY <1>1, <1>2, <1>3, <1>4, <1>5 DEF SetPinned, Write
<1>7. rows[id] \in Rows /\ rows[id].rowid > 0
    BY <1>6 DEF TableOK, Live, Present
<1>8. rows[id].pinAt \in 0..MaxStamp
    BY <1>7, RowIs
<1>9. now \in 0..MaxStamp
    BY Bounds DEF Stamps
<1>10. \A a \in 0..MaxStamp : \A b \in 0..MaxStamp :
            Greater(a, b) \in 0..MaxStamp /\ Greater(a, b) >= a
    <2>1. \A a \in 0..MaxStamp : a \in Int
        BY Bounds
    <2> QED
        BY <2>1 DEF Greater
<1>11. SaturatingNext(rows[id].pinAt) \in 0..MaxStamp /\ SaturatingNext(rows[id].pinAt) >= rows[id].pinAt
    BY <1>8, SaturatedIs
<1>12. PICK g : g = Greater(SaturatingNext(rows[id].pinAt), now)
    OBVIOUS
<1>13. g \in 0..MaxStamp /\ g >= rows[id].pinAt
    <2>1. g \in 0..MaxStamp /\ g >= SaturatingNext(rows[id].pinAt)
        BY <1>9, <1>10, <1>11, <1>12
    <2> QED
        BY <2>1, <1>8, <1>11
<1>14. /\ row \in Rows /\ row.rowid = rows[id].rowid /\ row.hash = rows[id].hash
       /\ row.origin = rows[id].origin /\ row.deleted = rows[id].deleted
       /\ row.at = rows[id].at /\ row.pinAt >= rows[id].pinAt
    <2>1. CASE row = rows[id]
        <3>1. rows[id].pinAt \in Int
            BY <1>8
        <3> QED
            BY <2>1, <3>1, <1>7
    <2>2. CASE row = [rows[id] EXCEPT !.pinned = pinned, !.pinAt = g]
        <3>1. /\ row \in Rows /\ row.rowid = rows[id].rowid /\ row.hash = rows[id].hash
              /\ row.origin = rows[id].origin /\ row.deleted = rows[id].deleted
              /\ row.at = rows[id].at /\ row.pinAt = g
            BY <1>7, <1>13, <2>2 DEF Rows
        <3> QED
            BY <3>1, <1>13
    <2> QED
        BY <2>1, <2>2, <1>1, <1>12
<1>15. row.pinAt \in 0..MaxStamp
    BY <1>14, RowIs
<1>16. old \in [pinned : BOOLEAN, stamp : 0..MaxStamp]
    BY <1>2 DEF PinRecords
<1>17. stamp \in 0..MaxStamp
    <2>1. old.stamp \in 0..MaxStamp
        BY <1>16
    <2>2. SaturatingNext(old.stamp) \in 0..MaxStamp
        BY <2>1, SaturatedIs
    <2>3. Greater(SaturatingNext(old.stamp), now) \in 0..MaxStamp
        BY <2>2, <1>9, <1>10
    <2>4. (IF old.stamp = 0 THEN now ELSE Greater(SaturatingNext(old.stamp), now)) \in 0..MaxStamp
        BY <2>3, <1>9
    <2> QED
        BY <2>4, <1>3, <1>10, <1>15
<1>18. record \in [pinned : BOOLEAN, stamp : 0..MaxStamp]
    BY <1>4, <1>16, <1>17
<1>19. pinRecord' \in PinRecords
    BY <1>6, <1>18 DEF PinRecords
<1>20. /\ new \in Rows /\ new.rowid = rows[id].rowid /\ new.hash = rows[id].hash
       /\ new.origin = rows[id].origin /\ new.deleted = rows[id].deleted
       /\ new.at = rows[id].at /\ new.pinAt >= rows[id].pinAt
    <2>1. CASE new = row
        BY <2>1, <1>14
    <2>2. CASE new = Projected(row, record)
        <3>1. /\ new \in Rows /\ new.rowid = row.rowid /\ new.at = row.at /\ new.hash = row.hash
              /\ new.deleted = row.deleted /\ new.origin = row.origin /\ new.pinAt >= row.pinAt
            BY <2>2, <1>14, <1>18, ProjectedIs
        <3>2. new.pinAt \in Int /\ row.pinAt \in Int /\ rows[id].pinAt \in Int
            BY <3>1, <1>14, <1>7 DEF Rows
        <3> QED
            BY <3>1, <3>2, <1>14
    <2> QED
        BY <2>1, <2>2, <1>5
<1>21. Grows([rows EXCEPT ![id] = new])
    BY <1>7, <1>20, PinWritten
<1> QED
    BY <1>6, <1>19, <1>21

\* A record of a pin from a peer.
LEMMA PinRecordGrows ==
    ASSUME TableOK(rows), pinRecord \in PinRecords, NEW id \in Ids,
           NEW record \in [pinned : BOOLEAN, stamp : 0..MaxStamp], MergePinRecord(id, record)
    PROVE  Grows(rows') /\ pinRecord' \in PinRecords
<1>1. rows \in [Ids -> Rows] /\ rows[id] \in Rows
    BY DEF TableOK
<1>2. pinRecord' \in PinRecords
    BY DEF MergePinRecord, PinRecords
<1>3. rows' = [rows EXCEPT ![id] = IF Present(rows, id) THEN Projected(rows[id], record) ELSE rows[id]]
    BY DEF MergePinRecord, Write
<1>4. CASE ~Present(rows, id)
    <2>1. rows' = rows
        BY <1>1, <1>3, <1>4
    <2> QED
        BY <1>2, <2>1, NoWrite
<1>5. CASE Present(rows, id)
    <2>1. PICK new : new = Projected(rows[id], record)
        OBVIOUS
    <2>2. /\ new \in Rows /\ new.rowid = rows[id].rowid /\ new.at = rows[id].at
          /\ new.hash = rows[id].hash /\ new.deleted = rows[id].deleted
          /\ new.origin = rows[id].origin /\ new.pinAt >= rows[id].pinAt
        BY <1>1, <2>1, ProjectedIs
    <2>3. Grows([rows EXCEPT ![id] = new])
        BY <1>5, <2>2, PinWritten DEF Present
    <2> QED
        BY <1>2, <1>3, <1>5, <2>1, <2>3
<1> QED
    BY <1>4, <1>5

\* Rows removed from a table, all of them live.
LEMMA WithoutIs ==
    ASSUME NEW rs, TableOK(rs), NEW victims \in SUBSET Unpinned(rs),
           NEW new, new = Without(rs, victims)
    PROVE  TableOK(new) /\ \A id \in Ids : new[id] = rs[id] \/ Dropped(rs[id], new[id])
<1>1. rs \in [Ids -> Rows]
    BY DEF TableOK
<1>2. NoRow \in Rows
    <2>1. 0 \in 0..MaxStamp
        BY Bounds
    <2> QED
        BY <2>1 DEF Rows, NoRow
<1>3. new \in [Ids -> Rows] /\ \A id \in Ids : new[id] = IF id \in victims THEN NoRow ELSE rs[id]
    BY <1>1, <1>2 DEF Without
<1>4. TableOK(new)
    BY <1>3, Thinned
<1>5. \A id \in victims : rs[id].rowid > 0 /\ ~rs[id].deleted
    BY DEF Unpinned, Live, Present
<1> QED
    BY <1>3, <1>4, <1>5 DEF Dropped

\* The three sweeps drop live rows and change none.
LEMMA RetentionStep ==
    ASSUME TableOK(rows), EnforceRetention
    PROVE  LocalStep(rows')
<1>1. PICK capped : capped = Without(rows, Oldest(rows, OverCap(rows)))
    OBVIOUS
<1>2. PICK weighed : weighed = Without(capped, Oldest(capped, OverQuota(capped)))
    OBVIOUS
<1>3. PICK rs : rs = Without(weighed, Expired(weighed))
    OBVIOUS
<1>4. rows' = rs
    BY <1>1, <1>2, <1>3 DEF EnforceRetention
<1>5. \A r, e : Oldest(r, e) \subseteq Unpinned(r)
    BY DEF Oldest
<1>6. \A r : Expired(r) \subseteq Unpinned(r)
    BY DEF Expired
<1>7. TableOK(capped) /\ \A id \in Ids : capped[id] = rows[id] \/ Dropped(rows[id], capped[id])
    BY <1>1, <1>5, WithoutIs
<1>8. TableOK(weighed) /\ \A id \in Ids : weighed[id] = capped[id] \/ Dropped(capped[id], weighed[id])
    BY <1>2, <1>5, <1>7, WithoutIs
<1>9. TableOK(rs) /\ \A id \in Ids : rs[id] = weighed[id] \/ Dropped(weighed[id], rs[id])
    BY <1>3, <1>6, <1>8, WithoutIs
<1>10. NoRow.rowid = 0
    BY DEF NoRow
<1>11. \A id \in Ids : rs[id] = rows[id] \/ Dropped(rows[id], rs[id])
    BY <1>7, <1>8, <1>9, <1>10 DEF Dropped
<1> QED
    BY <1>4, <1>9, <1>11 DEF LocalStep, Advances

(***************************************************************************)
(* What a step does to the table.                                          *)
(***************************************************************************)

\* Every item that no write in hand was decided for keeps its version, moves up
\* or is dropped while live, and its pin does not move back.
TableStep(rs) ==
    /\ TableOK(rs)
    /\ \A id \in Ids : rows[id].rowid > 0 => rs[id].rowid = rows[id].rowid \/ rs[id].rowid = 0
    /\ \A id \in Ids \ Exposed :
        rs[id] = rows[id] \/ Moves(rows[id], rs[id]) \/ Dropped(rows[id], rs[id])
    /\ \A id \in Ids \ (Exposed \cup PinExposed \cup Restarted) :
        Live(rows, id) /\ ~rs[id].deleted /\ rs[id].rowid > 0 => rs[id].pinAt >= rows[id].pinAt

\* Local writes are such steps.
LEMMA LocalIsStep ==
    ASSUME TableOK(rows), NEW rs, LocalStep(rs)
    PROVE  TableStep(rs)
<1>1. NoRow.rowid = 0
    BY DEF NoRow
<1>2. rows \in [Ids -> Rows] /\ TableOK(rs)
    BY DEF TableOK, LocalStep
<1>3. \A id \in Ids : rows[id].pinAt \in Int
    BY <1>2 DEF Rows
<1>4. ASSUME NEW id \in Ids
      PROVE  /\ rows[id].rowid > 0 => rs[id].rowid = rows[id].rowid \/ rs[id].rowid = 0
             /\ rs[id] = rows[id] \/ Moves(rows[id], rs[id]) \/ Dropped(rows[id], rs[id])
             /\ ~rs[id].deleted /\ rs[id].rowid > 0 => rs[id].pinAt >= rows[id].pinAt
    <2>1. CASE rs[id] = rows[id]
        BY <1>3, <2>1
    <2>2. CASE Moves(rows[id], rs[id]) /\ (rs[id].deleted \/ rs[id].pinAt >= rows[id].pinAt)
        BY <2>2 DEF Moves
    <2>3. CASE Dropped(rows[id], rs[id])
        BY <1>1, <2>3 DEF Dropped
    <2> QED
        BY <2>1, <2>2, <2>3 DEF LocalStep, Advances
<1> QED
    BY <1>2, <1>4 DEF TableStep

\* A step in which every row advances is one.
LEMMA GrowthIsLocal ==
    ASSUME NEW rs, Grows(rs)
    PROVE  LocalStep(rs)
    BY DEF Grows, LocalStep

\* What a snapshot of the table is.
LEMMA SummaryIs ==
    ASSUME TableOK(rows)
    PROVE  /\ Summaries(rows) \in Snapshots
           /\ \A id \in Ids : VersionOf(rows[id]) \in Versions
           /\ \A id \in Ids : Held(VersionOf(rows[id])) \/ VersionOf(rows[id]).pinAt = 0
           /\ \A id \in Ids : Held(VersionOf(rows[id])) <=> rows[id].rowid > 0
<1>1. rows \in [Ids -> Rows]
    BY DEF TableOK
<1>2. ASSUME NEW id \in Ids
      PROVE  /\ VersionOf(rows[id]) \in Versions
             /\ Held(VersionOf(rows[id])) \/ VersionOf(rows[id]).pinAt = 0
             /\ Held(VersionOf(rows[id])) <=> rows[id].rowid > 0
    <2>1. /\ VersionOf(rows[id]) \in Versions /\ VersionOf(rows[id]).at = rows[id].at
          /\ VersionOf(rows[id]).pinAt = rows[id].pinAt
        BY <1>1, VersionIs
    <2>2. rows[id].rowid \in Nat
        BY <1>1, RowIs
    <2>3. CASE rows[id].rowid = 0
        <3>1. rows[id] = NoRow
            BY <2>3 DEF TableOK
        <3>2. rows[id].at = 0 /\ rows[id].pinAt = 0
            BY <3>1 DEF NoRow
        <3> QED
            BY <2>1, <2>3, <3>2 DEF Held
    <2>4. CASE rows[id].rowid > 0
        <3>1. rows[id].at > 0
            BY <2>4 DEF TableOK
        <3> QED
            BY <2>1, <2>4, <3>1 DEF Held
    <2> QED
        BY <2>2, <2>3, <2>4
<1>3. Summaries(rows) \in Snapshots
    BY <1>2 DEF Summaries, Snapshots
<1> QED
    BY <1>2, <1>3

\* The fields of a merge.
LEMMA MergeIs ==
    ASSUME Types, NEW m \in Mergers
    PROVE  /\ merger[m].phase \in {"idle", "prepared", "finishing", "redoing"}
           /\ merger[m].page \in Seq(Offers) /\ merger[m].snapshot \in Snapshots
           /\ merger[m].attempts \in Nat /\ merger[m].content \in SUBSET Nat
           /\ merger[m].pins \in SUBSET Nat /\ merger[m].redo \in SUBSET Nat
           /\ merger[m].read \in Nat
<1>1. merger[m] \in Merges
    BY DEF Types
<1> QED
    BY <1>1 DEF Merges

\* The versions a merge's transaction stores.
StoredBy(m) ==
    Slots(merger[m].snapshot, merger[m].page, IsP2p(m))
        \ RefusedSlots(rows, merger[m].snapshot, merger[m].page, IsP2p(m))

\* merge_page: a step, in which exactly the rows of what it stores change.
LEMMA PageStep ==
    ASSUME Types, TableOK(rows), NEW m \in Mergers, MergePage(m)
    PROVE  /\ TableStep(rows') /\ StoredBy(m) \subseteq 1..Len(merger[m].page)
           /\ \A id \in Ids :
                \/ rows'[id] = rows[id] /\ \A k \in StoredBy(m) : merger[m].page[k].id # id
                \/ \E k \in StoredBy(m) :
                    merger[m].page[k].id = id /\ rows'[id].at >= merger[m].page[k].at
<1>1. PICK page, local, p2p : page = merger[m].page /\ local = merger[m].snapshot /\ p2p = IsP2p(m)
    OBVIOUS
<1>2. page \in Seq(Offers) /\ local \in Snapshots /\ p2p \in BOOLEAN
    BY <1>1, MergeIs DEF IsP2p
<1>3. PICK stored, rs, after : /\ stored = Slots(local, page, p2p) \ RefusedSlots(rows, local, page, p2p)
                               /\ after = Written(rows, local, page, p2p) /\ rs = after[Len(page)]
    OBVIOUS
<1>4. rows' = rs /\ SnapshotHolds(m) /\ StoredBy(m) = stored
    BY <1>1, <1>3 DEF MergePage, StoredBy
<1>5. pinRecord \in PinRecords
    BY DEF Types
<1>6. Len(page) \in Nat /\ stored \subseteq 1..Len(page)
    BY <1>2, <1>3, LenProperties DEF Slots
<1>7. TableOK(rs) /\ \A id \in Ids : Reached(rs[id], rows[id], local[id], page, stored, id, Len(page))
    BY <1>2, <1>3, <1>5, WrittenKeeps
<1>8. \A k \in 1..Len(page) : local[page[k].id] = VersionOf(rows[page[k].id])
    BY <1>1, <1>4 DEF SnapshotHolds
<1>9. rows \in [Ids -> Rows] /\ rs \in [Ids -> Rows]
    BY <1>7 DEF TableOK
<1>10. ASSUME NEW id \in Ids
       PROVE  /\ \/ rs[id] = rows[id] /\ \A k \in stored : page[k].id # id
                 \/ \E k \in stored : page[k].id = id /\ rs[id].at >= page[k].at
              /\ rs[id] = rows[id] \/ Moves(rows[id], rs[id])
              /\ rows[id].rowid > 0 => rs[id].rowid = rows[id].rowid
              /\ rs[id].deleted \/ rs[id].pinAt >= rows[id].pinAt \/ PageDeletes(page, id)
    <2>1. Reached(rs[id], rows[id], local[id], page, stored, id, Len(page))
        BY <1>7
    <2>2. CASE rs[id] = rows[id] /\ \A k \in stored : k <= Len(page) => page[k].id # id
        <3>1. \A k \in stored : k <= Len(page)
            BY <1>6
        <3>2. rows[id].pinAt \in Int
            BY <1>9 DEF Rows
        <3> QED
            BY <2>2, <3>1, <3>2
    <2>3. ASSUME NEW k \in stored,
                 /\ k <= Len(page) /\ page[k].id = id /\ rs[id].at >= page[k].at
                 /\ Newer(VersionOf(rs[id]), local[id])
                 /\ rs[id].rowid > 0 /\ (rows[id].rowid > 0 => rs[id].rowid = rows[id].rowid)
                 /\ rs[id].deleted \/ rs[id].pinAt >= local[id].pinAt \/ PageDeletes(page, id)
          PROVE  /\ Moves(rows[id], rs[id])
                 /\ rs[id].deleted \/ rs[id].pinAt >= rows[id].pinAt \/ PageDeletes(page, id)
        <3>1. local[id] = VersionOf(rows[id])
            BY <1>6, <1>8, <2>3
        <3>2. local[id].pinAt = rows[id].pinAt
            BY <3>1, <1>9, VersionIs
        <3>3. Newer(VersionOf(rs[id]), VersionOf(rows[id]))
            BY <2>3, <3>1
        <3>4. rs[id].at >= rows[id].at
            BY <3>3, <1>9, NewerIsLater
        <3>5. rs[id] \in Rows
            BY <1>9
        <3> QED
            BY <2>3, <3>2, <3>3, <3>4, <3>5 DEF Moves
    <2> QED
        BY <2>1, <2>2, <2>3 DEF Reached
<1>11. \A id \in Ids : PageDeletes(page, id) => id \in Restarted
    BY <1>1 DEF PageDeletes, Restarted
<1>12. TableStep(rs)
    BY <1>7, <1>10, <1>11 DEF TableStep
<1> QED
    BY <1>1, <1>4, <1>6, <1>10, <1>12

\* A pin state written on its own.
LEMMA PinAppliedIs ==
    ASSUME TableOK(rows), NEW inc \in Offers, NEW rs, rs = PinApplied(inc)
    PROVE  /\ TableOK(rs)
           /\ \A id \in Ids :
                \/ rs[id] = rows[id]
                \/ /\ id = inc.id /\ PinAccepted(inc) /\ Moves(rows[id], rs[id])
                   /\ rs[id].at = rows[id].at /\ rs[id].pinAt = inc.pinAt
<1>1. rows \in [Ids -> Rows]
    BY DEF TableOK
<1>2. inc.id \in Ids /\ inc.pinned \in BOOLEAN /\ inc.pinAt \in 0..MaxStamp
    BY OfferIs
<1>3. CASE ~PinAccepted(inc)
    BY <1>3 DEF PinApplied
<1>4. CASE PinAccepted(inc)
    <2>1. PICK id, row : id = inc.id /\ row = [rows[id] EXCEPT !.pinned = inc.pinned, !.pinAt = inc.pinAt]
        OBVIOUS
    <2>2. id \in Ids /\ rows[id] \in Rows /\ rows[id].rowid > 0
        BY <1>1, <1>2, <1>4, <2>1 DEF PinAccepted, Live, Present
    <2>3. rs = [rows EXCEPT ![id] = row]
        BY <1>4, <2>1 DEF PinApplied
    <2>4. /\ row \in Rows /\ row.rowid = rows[id].rowid /\ row.hash = rows[id].hash
          /\ row.origin = rows[id].origin /\ row.deleted = rows[id].deleted
          /\ row.at = rows[id].at /\ row.pinAt = inc.pinAt
        BY <1>2, <2>1, <2>2 DEF Rows
    <2>5. rows[id].at > 0 /\ rows[id].at \in Int
        BY <2>2 DEF TableOK, Rows
    <2>6. ~Collides(rows, id, row)
        BY <2>2, <2>4, PlaceKept
    <2>7. row.rowid > 0 /\ row.at > 0 /\ row.at >= rows[id].at
        BY <2>2, <2>4, <2>5
    <2>8. TableOK(rs)
        <3>1. TableOK([rows EXCEPT ![id] = row])
            <4>1. id \in Ids /\ row \in Rows /\ row.rowid > 0 /\ row.at > 0 /\ row.rowid = rows[id].rowid
                BY <2>2, <2>4, <2>7
            <4> QED
                BY ONLY TableOK(rows), <4>1, <2>6, PutRow
        <3> QED
            BY <2>3, <3>1
    <2>9. Moves(rows[id], row)
        BY <2>2, <2>4, <2>7, RowMoves
    <2>10. rs[id] = row /\ \A x \in Ids : x # id => rs[x] = rows[x]
        BY <1>1, <2>2, <2>3
    <2> QED
        BY <1>4, <2>1, <2>4, <2>8, <2>9, <2>10
<1> QED
    BY <1>3, <1>4

\* Rows that change in their pin only, and there by a pin accepted, make a step
\* when that pin is no older than the row's.
LEMMA PinAppliedStep ==
    ASSUME TableOK(rows), NEW inc \in Offers, NEW rs, rs = PinApplied(inc),
           inc.id \in Exposed \cup PinExposed \cup Restarted \/ ~PinAccepted(inc)
                \/ inc.pinAt >= rows[inc.id].pinAt
    PROVE  TableStep(rs) /\ \A id \in Ids : rs[id].at = rows[id].at /\ rs[id].rowid = rows[id].rowid
<1>1. /\ TableOK(rs)
      /\ \A id \in Ids :
            \/ rs[id] = rows[id]
            \/ /\ id = inc.id /\ PinAccepted(inc) /\ Moves(rows[id], rs[id])
               /\ rs[id].at = rows[id].at /\ rs[id].pinAt = inc.pinAt
    BY PinAppliedIs
<1>2. rows \in [Ids -> Rows]
    BY DEF TableOK
<1>3. \A id \in Ids : rows[id].pinAt \in Int
    BY <1>2 DEF Rows
<1>4. PinAccepted(inc) => rows[inc.id].rowid > 0
    BY DEF PinAccepted, Live, Present
<1>5. \A id \in Ids : rs[id].at = rows[id].at /\ rs[id].rowid = rows[id].rowid
    BY <1>1, <1>4 DEF Moves
<1>6. \A id \in Ids : rs[id] = rows[id] \/ Moves(rows[id], rs[id])
    BY <1>1
<1>7. \A id \in Ids \ (Exposed \cup PinExposed \cup Restarted) : rs[id].pinAt >= rows[id].pinAt
    BY <1>1, <1>3
<1> QED
    BY <1>1, <1>5, <1>6, <1>7 DEF TableStep

\* An element of a page.
LEMMA OfferOf ==
    ASSUME Types, NEW m \in Mergers, NEW k \in 1..Len(merger[m].page)
    PROVE  merger[m].page[k] \in Offers /\ merger[m].page[k].id \in Ids
<1>1. merger[m].page \in Seq(Offers)
    BY MergeIs
<1>2. merger[m].page[k] \in Offers
    BY <1>1, ElementOfSeq
<1> QED
    BY <1>2, OfferIs

\* apply_pin_state is a step.
LEMMA ApplyPinStep ==
    ASSUME Types, TableOK(rows), NEW m \in Mergers, MergeOK(merger[m]), PinsDecided(merger[m]), ApplyPinState(m)
    PROVE  /\ TableStep(rows') /\ \A id \in Ids : rows'[id].at = rows[id].at /\ rows'[id].rowid = rows[id].rowid
<1>1. PICK k, inc : k = Lowest(merger[m].pins) /\ inc = merger[m].page[k]
    OBVIOUS
<1>2. merger[m].pins # {} /\ rows' = PinApplied(inc)
    BY <1>1 DEF ApplyPinState
<1>3. k \in merger[m].pins
    BY <1>1, <1>2, MergeIs, LowestIs
<1>4. k \in 1..Len(merger[m].page)
    BY <1>3 DEF MergeOK
<1>5. inc \in Offers /\ inc.id \in Ids
    BY <1>1, <1>4, OfferOf
<1>6. ASSUME inc.id \notin PinExposed \cup Restarted, PinAccepted(inc)
      PROVE  inc.pinAt >= rows[inc.id].pinAt
    <2>1. rows[inc.id] \in Rows
        BY <1>5 DEF TableOK
    <2>2. rows[inc.id].pinAt \in Int /\ inc.pinAt \in Int /\ inc.pinAt >= 0
        <3>1. rows[inc.id].pinAt \in 0..MaxStamp /\ inc.pinAt \in 0..MaxStamp
            BY <1>5, <2>1, RowIs, OfferIs
        <3> QED
            BY <3>1
    <2>3. CASE ~(pinRecord[inc.id].stamp < rows[inc.id].pinAt)
        <3>1. pinRecord[inc.id].stamp \in Int
            BY <1>5 DEF Types, PinRecords
        <3>2. pinRecord[inc.id].stamp = 0 \/ pinRecord[inc.id].stamp < inc.pinAt
            BY <1>6 DEF PinAccepted
        <3> QED
            BY <2>2, <2>3, <3>1, <3>2
    <2>4. CASE merger[m].snapshot[inc.id] = VersionOf(rows[inc.id])
        <3>1. merger[m].snapshot[inc.id].pinAt = rows[inc.id].pinAt
            BY <2>1, <2>4, VersionIs
        <3>2. ~PageDeletes(merger[m].page, inc.id)
            BY <1>5, <1>6 DEF Restarted, PageDeletes
        <3>3. inc.pinAt >= merger[m].snapshot[inc.id].pinAt
            BY <1>1, <1>3, <3>2 DEF PinsDecided
        <3> QED
            BY <3>1, <3>3
    <2>5. \/ ~(pinRecord[inc.id].stamp < rows[inc.id].pinAt)
          \/ merger[m].snapshot[inc.id] = VersionOf(rows[inc.id])
        BY <1>1, <1>3, <1>5, <1>6 DEF PinExposed
    <2> QED
        BY <2>3, <2>4, <2>5
<1> QED
    BY <1>2, <1>5, <1>6, PinAppliedStep

\* What a redo has in hand.
RedoStored(m) ==
    LET inc == merger[m].page[merger[m].read]
        local == merger[m].snapshot[inc.id]
    IN  Takes(local, inc, IsP2p(m)) /\ ~UpsertRefused(rows, inc.id, Prepared(local, inc, IsP2p(m)))

\* redo_after_refusals, the write: a step.
LEMMA RedoStep ==
    ASSUME Types, TableOK(rows), NEW m \in Mergers, MergeOK(merger[m]), RedoWrite(m),
           NEW inc, inc = merger[m].page[merger[m].read]
    PROVE  /\ TableStep(rows') /\ inc \in Offers /\ inc.id \in Ids
           /\ merger[m].read \in 1..Len(merger[m].page)
           /\ \A id \in Ids : id # inc.id \/ ~RedoStored(m) => rows'[id].at = rows[id].at
           /\ RedoStored(m) => rows'[inc.id].at >= inc.at
<1>1. merger[m].phase = "redoing" /\ merger[m].read \in 1..Len(merger[m].page)
    BY DEF RedoWrite, MergeOK
<1>2. inc \in Offers /\ inc.id \in Ids
    BY <1>1, OfferOf
<1>3. PICK id, p2p, local, w : /\ id = inc.id /\ p2p = IsP2p(m) /\ local = merger[m].snapshot[id]
                               /\ w = Prepared(local, inc, p2p)
    OBVIOUS
<1>4. p2p \in BOOLEAN /\ local \in Versions /\ (Held(local) \/ local.pinAt = 0)
    <2>1. merger[m].snapshot \in Snapshots
        BY MergeIs
    <2> QED
        BY <2>1, <1>2, <1>3 DEF Snapshots, IsP2p
<1>5. rows' = IF RedoStored(m) THEN Upsert(rows, id, w)
              ELSE IF RemotePinWins(local, inc, p2p) THEN PinApplied(inc) ELSE rows
    BY <1>3 DEF RedoWrite, RedoStored
<1>6. rows \in [Ids -> Rows] /\ pinRecord \in PinRecords
    BY DEF TableOK, Types
<1>7. id \notin Exposed => local = VersionOf(rows[id])
    BY <1>1, <1>2, <1>3 DEF Exposed
<1>8. CASE RedoStored(m)
    <2>1. Takes(local, inc, p2p) /\ ~UpsertRefused(rows, id, w)
        BY <1>3, <1>8 DEF RedoStored
    <2>2. /\ w \in Plans /\ w.at = inc.at
          /\ Newer(PreparedVersion(w), local)
          /\ ~w.deleted => w.pinAt >= local.pinAt
        <3>1. w = Prepared(local, inc, p2p) /\ inc \in Offers
            BY <1>2, <1>3
        <3> QED
            BY <1>4, <2>1, <3>1, PreparedIs
    <2>3. inc.at > 0
        BY <1>2, OfferIs
    <2>4. PICK row : row = Upserted(rows, id, w)
        OBVIOUS
    <2>5. /\ row \in Rows /\ row.rowid > 0 /\ row.at > 0 /\ row.at >= w.at
          /\ Present(rows, id) => row.rowid = rows[id].rowid
          /\ ~Present(rows, id) => row.rowid > MaxRowid(rows)
          /\ row.deleted = w.deleted /\ row.pinAt >= w.pinAt
          /\ \A v \in Versions : Newer(PreparedVersion(w), v) => Newer(VersionOf(row), v)
        <3>1. id \in Ids /\ w.at > 0
            BY <1>2, <1>3, <2>2, <2>3
        <3> QED
            BY <1>6, <2>2, <2>4, <3>1, UpsertedIs
    <2>6. rows' = [rows EXCEPT ![id] = row] /\ ~Collides(rows, id, row)
        BY <1>5, <1>8, <2>1, <2>4 DEF Upsert, UpsertRefused
    <2>7. TableOK([rows EXCEPT ![id] = row])
        BY <1>2, <1>3, <2>5, <2>6, PutRow
    <2>8. rows'[id] = row /\ \A x \in Ids : x # id => rows'[x] = rows[x]
        BY <1>2, <1>3, <1>6, <2>6
    <2>9. rows[id].rowid > 0 => row.rowid = rows[id].rowid
        BY <2>5 DEF Present
    <2>10. ASSUME id \notin Exposed
           PROVE  Moves(rows[id], row) /\ (row.deleted \/ row.pinAt >= rows[id].pinAt)
        <3>1. local = VersionOf(rows[id]) /\ rows[id] \in Rows
            BY <1>2, <1>3, <1>6, <1>7, <2>10
        <3>2. Newer(VersionOf(row), VersionOf(rows[id]))
            BY <1>4, <2>2, <2>5, <3>1
        <3>3. row.at >= rows[id].at
            BY <2>5, <3>1, <3>2, NewerIsLater
        <3>4. Moves(rows[id], row)
            BY <2>5, <2>9, <3>2, <3>3 DEF Moves
        <3>5. local.pinAt = rows[id].pinAt
            BY <3>1, VersionIs
        <3>6. row.pinAt \in Int /\ w.pinAt \in Int /\ rows[id].pinAt \in Int
            BY <2>2, <2>5, <3>1 DEF Rows, Plans
        <3> QED
            BY <2>2, <2>5, <3>4, <3>5, <3>6
    <2>11. \A x \in Ids : rows[x].pinAt \in Int
        BY <1>6 DEF Rows
    <2>12. TableStep(rows')
        <3>1. TableOK(rows')
            BY <2>6, <2>7
        <3>2. PICK rs : rs = rows'
            OBVIOUS
        <3>3. TableOK(rs) /\ rs[id] = row /\ \A x \in Ids : x # id => rs[x] = rows[x]
            BY <2>8, <3>1, <3>2
        <3>4. \A x \in Ids : rows[x].rowid > 0 => rs[x].rowid = rows[x].rowid
            BY <2>9, <3>3
        <3>5. \A x \in Ids \ Exposed : rs[x] = rows[x] \/ Moves(rows[x], rs[x])
            BY <2>10, <3>3
        <3>6. \A x \in Ids \ Exposed : rs[x].deleted \/ rs[x].pinAt >= rows[x].pinAt
            BY <2>10, <2>11, <3>3
        <3>7. TableStep(rs)
            BY <3>3, <3>4, <3>5, <3>6 DEF TableStep
        <3> QED
            BY <3>2, <3>7
    <2> QED
        BY <1>1, <1>2, <1>3, <1>8, <2>2, <2>5, <2>8, <2>12
<1>9. CASE ~RedoStored(m) /\ RemotePinWins(local, inc, p2p)
    <2>1. rows' = PinApplied(inc)
        BY <1>5, <1>9
    <2>2. ASSUME id \notin Exposed, PinAccepted(inc)
          PROVE  inc.pinAt >= rows[id].pinAt
        <3>1. local = VersionOf(rows[id]) /\ rows[id] \in Rows
            BY <1>2, <1>3, <1>6, <1>7, <2>2
        <3>2. local.pinAt = rows[id].pinAt
            BY <3>1, VersionIs
        <3>3. rows[id].rowid > 0
            BY <1>3, <2>2 DEF PinAccepted, Live, Present
        <3>4. Held(local)
            BY <1>2, <1>3, <3>1, <3>3, SummaryIs
        <3>5. PinNewer(Remote(inc, local, p2p), local)
            BY <1>9, <3>4 DEF RemotePinWins
        <3>6. Remote(inc, local, p2p).pinAt = inc.pinAt
            BY DEF Remote
        <3>7. inc.pinAt \in Int /\ rows[id].pinAt \in Int
            <4>1. inc.pinAt \in 0..MaxStamp /\ rows[id].pinAt \in 0..MaxStamp
                BY <1>2, <3>1, OfferIs, RowIs
            <4> QED
                BY <4>1
        <3> QED
            BY <3>2, <3>5, <3>6, <3>7 DEF PinNewer
    <2>3. TableStep(rows') /\ \A x \in Ids : rows'[x].at = rows[x].at
        BY <1>2, <1>3, <2>1, <2>2, PinAppliedStep
    <2> QED
        BY <1>1, <1>2, <1>9, <2>3
<1>10. CASE ~RedoStored(m) /\ ~RemotePinWins(local, inc, p2p)
    <2>1. rows' = rows
        BY <1>5, <1>10
    <2>2. TableStep(rows)
        BY NoWrite, GrowthIsLocal, LocalIsStep
    <2> QED
        BY <1>1, <1>2, <1>10, <2>1, <2>2
<1> QED
    BY <1>8, <1>9, <1>10

(***************************************************************************)
(* The invariant is kept: what the steps have in common.                   *)
(***************************************************************************)

\* One merge moves on, the others stay.
LEMMA OneMerge ==
    ASSUME HistoryInv, NEW m \in Mergers, NEW x \in Merges, MergeOK(x), PinsDecided(x),
           merger' = [merger EXCEPT ![m] = x]
    PROVE  /\ merger' \in [Mergers -> Merges]
           /\ \A n \in Mergers : MergeOK(merger'[n]) /\ PinsDecided(merger'[n])
           /\ merger'[m] = x /\ \A n \in Mergers : n # m => merger'[n] = merger[n]
<1>1. merger \in [Mergers -> Merges]
    BY DEF HistoryInv, Types
<1>2. merger' \in [Mergers -> Merges] /\ merger'[m] = x /\ \A n \in Mergers : n # m => merger'[n] = merger[n]
    BY <1>1
<1>3. \A n \in Mergers : MergeOK(merger[n]) /\ PinsDecided(merger[n])
    BY DEF HistoryInv
<1> QED
    BY <1>2, <1>3

\* The debts stay covered.
LEMMA DebtsStep ==
    ASSUME HistoryInv, NEW m \in Mergers, owed' \subseteq Mergers \X Ids, TableOK(rows'),
           \A n \in Mergers : n # m => merger'[n] = merger[n],
           \A debt \in owed' : debt[1] # m => debt \in owed /\ rows'[debt[2]].at >= rows[debt[2]].at,
           \A debt \in owed' : debt[1] = m => Covered(merger'[m], debt[2], rows'[debt[2]])
    PROVE  DebtsCovered'
<1>1. SUFFICES ASSUME NEW debt \in owed' PROVE Covered(merger'[debt[1]], debt[2], rows'[debt[2]])
    BY DEF DebtsCovered
<1>2. debt[1] \in Mergers /\ debt[2] \in Ids
    OBVIOUS
<1>3. CASE debt[1] = m
    BY <1>3
<1>4. CASE debt[1] # m
    <2>1. debt \in owed /\ rows'[debt[2]].at >= rows[debt[2]].at /\ merger'[debt[1]] = merger[debt[1]]
        BY <1>2, <1>4
    <2>2. PICK k \in merger[debt[1]].content :
            /\ merger[debt[1]].page[k].id = debt[2]
            /\ rows[debt[2]].at >= merger[debt[1]].page[k].at
        BY <2>1 DEF HistoryInv, DebtsCovered, Covered
    <2>3. k \in 1..Len(merger[debt[1]].page)
        BY <1>2 DEF HistoryInv, MergeOK
    <2>4. merger[debt[1]].page[k].at \in Int
        <3>1. merger[debt[1]].page[k] \in Offers
            BY <1>2, <2>3, OfferOf DEF HistoryInv
        <3>2. merger[debt[1]].page[k].at \in 0..MaxStamp
            BY <3>1, OfferIs
        <3> QED
            BY <3>2
    <2>5. rows[debt[2]].at \in Int /\ rows'[debt[2]].at \in Int
        <3>1. rows[debt[2]] \in Rows /\ rows'[debt[2]] \in Rows
            BY <1>2 DEF HistoryInv, TableOK
        <3>2. rows[debt[2]].at \in 0..MaxStamp /\ rows'[debt[2]].at \in 0..MaxStamp
            BY <3>1, RowIs
        <3> QED
            BY <3>2
    <2>6. rows'[debt[2]].at >= merger[debt[1]].page[k].at
        BY <2>1, <2>2, <2>4, <2>5
    <2> QED
        BY <2>1, <2>2, <2>6 DEF Covered
<1> QED
    BY <1>3, <1>4

\* The same while the merges stay as they are.
LEMMA DebtsGrow ==
    ASSUME HistoryInv, TableOK(rows'), merger' = merger, owed' \subseteq owed,
           \A debt \in owed' : rows'[debt[2]].at >= rows[debt[2]].at
    PROVE  DebtsCovered'
<1>1. owed' \subseteq Mergers \X Ids
    BY DEF HistoryInv, Types
<1>2. SUFFICES ASSUME NEW debt \in owed' PROVE Covered(merger[debt[1]], debt[2], rows'[debt[2]])
    BY DEF DebtsCovered
<1>3. PICK k \in merger[debt[1]].content :
        merger[debt[1]].page[k].id = debt[2] /\ rows[debt[2]].at >= merger[debt[1]].page[k].at
    BY DEF HistoryInv, DebtsCovered, Covered
<1>4. debt[1] \in Mergers /\ debt[2] \in Ids
    BY <1>1
<1>5. merger[debt[1]].page[k].at \in Int
    <2>1. k \in 1..Len(merger[debt[1]].page)
        BY <1>4 DEF HistoryInv, MergeOK
    <2>2. merger[debt[1]].page[k] \in Offers
        BY <1>4, <2>1, OfferOf DEF HistoryInv
    <2>3. merger[debt[1]].page[k].at \in 0..MaxStamp
        BY <2>2, OfferIs
    <2> QED
        BY <2>3
<1>6. rows[debt[2]].at \in Int /\ rows'[debt[2]].at \in Int
    <2>1. rows[debt[2]] \in Rows /\ rows'[debt[2]] \in Rows
        BY <1>4 DEF HistoryInv, TableOK
    <2>2. rows[debt[2]].at \in 0..MaxStamp /\ rows'[debt[2]].at \in 0..MaxStamp
        BY <2>1, RowIs
    <2> QED
        BY <2>2
<1>7. rows'[debt[2]].at >= merger[debt[1]].page[k].at
    BY <1>3, <1>5, <1>6
<1> QED
    BY <1>3, <1>7 DEF Covered

\* A merge that has stored nothing owes nothing.
LEMMA NothingOwed ==
    ASSUME HistoryInv, NEW m \in Mergers, merger[m].content = {}
    PROVE  \A debt \in owed : debt[1] # m
    BY DEF HistoryInv, DebtsCovered, Covered

\* A merge that is not under way.
LEMMA NoMergeIs ==
    /\ NoMerge \in Merges /\ MergeOK(NoMerge) /\ PinsDecided(NoMerge)
    /\ NoMerge.content = {} /\ NoMerge.pins = {} /\ NoMerge.redo = {} /\ NoMerge.page = <<>>
    /\ NoMerge.phase = "idle" /\ NoMerge.read = 0 /\ NoMerge.attempts = 0
    /\ NoMerge.snapshot \in Snapshots
<1>1. PICK v : v = VersionOf(NoRow)
    OBVIOUS
<1>2. NoRow \in Rows
    <2>1. 0 \in 0..MaxStamp
        BY Bounds
    <2> QED
        BY <2>1 DEF Rows, NoRow
<1>3. v \in Versions /\ v.pinAt = 0
    <2>1. NoRow.pinAt = 0
        BY DEF NoRow
    <2> QED
        BY <1>1, <1>2, <2>1, VersionIs
<1>4. PICK s : s = Summaries([id \in Ids |-> NoRow])
    OBVIOUS
<1>5. s = [id \in Ids |-> v]
    BY <1>1, <1>4 DEF Summaries
<1>6. s \in Snapshots
    BY <1>3, <1>5 DEF Snapshots
<1>7. NoMerge = [phase |-> "idle", page |-> <<>>, snapshot |-> s, attempts |-> 0,
                 content |-> {}, pins |-> {}, redo |-> {}, read |-> 0]
    BY <1>4 DEF NoMerge
<1>8. <<>> \in Seq(Offers)
    BY EmptySeq
<1>9. NoMerge \in Merges
    BY <1>6, <1>7, <1>8 DEF Merges
<1>10. /\ NoMerge.content = {} /\ NoMerge.pins = {} /\ NoMerge.redo = {} /\ NoMerge.page = <<>>
       /\ NoMerge.phase = "idle" /\ NoMerge.read = 0 /\ NoMerge.attempts = 0 /\ NoMerge.snapshot = s
    BY <1>7
<1>11. MergeOK(NoMerge) /\ PinsDecided(NoMerge)
    BY <1>10 DEF MergeOK, PinsDecided
<1> QED
    BY <1>6, <1>9, <1>10, <1>11

\* A step that changes a merge and nothing it has stored.
LEMMA MergeAlone ==
    ASSUME HistoryInv, NEW m \in Mergers, NEW x \in Merges, MergeOK(x), PinsDecided(x),
           merger' = [merger EXCEPT ![m] = x],
           UNCHANGED <<now, rows, pinRecord, ceiling>>,
           sweepDue' \in BOOLEAN, owed' \subseteq owed,
           \A debt \in owed' : debt[1] = m => x.content = merger[m].content /\ x.page = merger[m].page
    PROVE  HistoryInv'
<1>1. /\ merger' \in [Mergers -> Merges]
      /\ \A n \in Mergers : MergeOK(merger'[n]) /\ PinsDecided(merger'[n])
      /\ merger'[m] = x /\ \A n \in Mergers : n # m => merger'[n] = merger[n]
    BY OneMerge
<1>2. /\ now' = now /\ rows' = rows /\ pinRecord' = pinRecord /\ ceiling' = ceiling
    OBVIOUS
<1>3. Types /\ TableOK(rows)
    BY DEF HistoryInv
<1>4. owed' \subseteq Mergers \X Ids
    BY <1>3 DEF Types
<1>5. Types'
    BY <1>1, <1>2, <1>3, <1>4 DEF Types
<1>6. TableOK(rows')
    BY <1>2, <1>3
<1>7. DebtsCovered'
    <2>1. \A debt \in owed' : debt[1] # m => debt \in owed /\ rows'[debt[2]].at >= rows[debt[2]].at
        <3> SUFFICES ASSUME NEW debt \in owed' PROVE debt \in owed /\ rows[debt[2]].at >= rows[debt[2]].at
            BY <1>2
        <3>1. debt[2] \in Ids
            BY <1>4
        <3>2. rows[debt[2]].at \in 0..MaxStamp
            BY <1>3, <3>1, RowIs DEF TableOK
        <3>3. rows[debt[2]].at \in Int
            BY <3>2
        <3> QED
            BY <3>3
    <2>2. \A debt \in owed' : debt[1] = m => Covered(merger'[m], debt[2], rows'[debt[2]])
        <3> SUFFICES ASSUME NEW debt \in owed', debt[1] = m
                     PROVE  Covered(x, debt[2], rows[debt[2]])
            BY <1>1, <1>2
        <3>1. Covered(merger[m], debt[2], rows[debt[2]])
            BY DEF HistoryInv, DebtsCovered
        <3> QED
            BY <3>1 DEF Covered
    <2> QED
        BY <1>1, <1>4, <1>6, <2>1, <2>2, DebtsStep
<1> QED
    BY <1>1, <1>5, <1>6, <1>7 DEF HistoryInv

\* The snapshot is read.
LEMMA ReadSnapshotKept ==
    ASSUME HistoryInv, NEW m \in Mergers, NEW page \in Pages[m], ReadSnapshot(m, page)
    PROVE  HistoryInv'
<1>1. page \in Seq(Offers)
    <2>1. \A n \in Mergers : \A p \in Pages[n] : p \in Seq(Offers)
        BY HistoryMergeAssumption, Zenon
    <2> QED
        BY <2>1
<1>2. Summaries(rows) \in Snapshots
    BY SummaryIs DEF HistoryInv
<1>3. PICK x : x = [NoMerge EXCEPT !.phase = "prepared", !.page = page, !.snapshot = Summaries(rows)]
    OBVIOUS
<1>4. /\ x \in Merges /\ x.phase = "prepared" /\ x.content = {} /\ x.pins = {} /\ x.redo = {}
    BY <1>1, <1>2, <1>3, NoMergeIs DEF Merges
<1>5. MergeOK(x) /\ PinsDecided(x)
    BY <1>4 DEF MergeOK, PinsDecided
<1>6. merger[m].phase = "idle" /\ merger' = [merger EXCEPT ![m] = x]
    BY <1>3 DEF ReadSnapshot
<1>7. merger[m].content = {}
    BY <1>6 DEF HistoryInv, MergeOK
<1>8. \A debt \in owed : debt[1] # m
    BY <1>7, NothingOwed
<1>9. UNCHANGED <<now, rows, pinRecord, sweepDue, ceiling, owed>> /\ sweepDue \in BOOLEAN
    BY DEF ReadSnapshot, HistoryInv, Types
<1> QED
    BY <1>4, <1>5, <1>6, <1>8, <1>9, MergeAlone

\* The snapshot has moved.
LEMMA SnapshotMovedKept ==
    ASSUME HistoryInv, NEW m \in Mergers, SnapshotMoved(m)
    PROVE  HistoryInv'
<1>1. PICK x : x = IF merger[m].attempts + 1 < SnapshotAttempts
                   THEN [merger[m] EXCEPT !.attempts = merger[m].attempts + 1,
                                          !.snapshot = Summaries(rows)]
                   ELSE NoMerge
    OBVIOUS
<1>2. merger[m] \in Merges /\ MergeOK(merger[m]) /\ Summaries(rows) \in Snapshots
    BY SummaryIs DEF HistoryInv, Types
<1>3. merger[m].phase = "prepared" /\ merger' = [merger EXCEPT ![m] = x]
    <2>1. merger' = [merger EXCEPT ![m] =
                        IF merger[m].attempts + 1 < SnapshotAttempts
                        THEN [merger[m] EXCEPT !.attempts = merger[m].attempts + 1,
                                               !.snapshot = Summaries(rows)]
                        ELSE NoMerge]
        BY DEF SnapshotMoved
    <2> QED
        BY <1>1, <2>1 DEF SnapshotMoved
<1>4. merger[m].content = {} /\ merger[m].pins = {}
    BY <1>2, <1>3 DEF MergeOK
<1>5. \A debt \in owed : debt[1] # m
    BY <1>4, NothingOwed
<1>6. x \in Merges /\ MergeOK(x) /\ PinsDecided(x)
    <2>1. CASE x = NoMerge
        BY <2>1, NoMergeIs
    <2>2. CASE x = [merger[m] EXCEPT !.attempts = merger[m].attempts + 1, !.snapshot = Summaries(rows)]
        <3>1. merger[m].attempts + 1 \in Nat
            BY <1>2 DEF Merges
        <3>2. /\ x \in Merges /\ x.phase = merger[m].phase /\ x.content = {} /\ x.pins = {}
              /\ x.redo = merger[m].redo /\ x.page = merger[m].page
            BY <1>2, <1>4, <2>2, <3>1 DEF Merges
        <3>3. MergeOK(x) /\ PinsDecided(x)
            BY <1>2, <1>3, <1>4, <3>2 DEF MergeOK, PinsDecided
        <3> QED
            BY <3>2, <3>3
    <2> QED
        BY <1>1, <2>1, <2>2
<1>7. UNCHANGED <<now, rows, pinRecord, sweepDue, ceiling, owed>> /\ sweepDue \in BOOLEAN
    BY DEF SnapshotMoved, HistoryInv, Types
<1> QED
    BY <1>3, <1>5, <1>6, <1>7, MergeAlone

\* A page is given up with an error.
LEMMA FailKept ==
    ASSUME HistoryInv, NEW m \in Mergers, FailWith(m),
           UNCHANGED <<now, rows, pinRecord, sweepDue, ceiling>>
    PROVE  HistoryInv'
<1>1. merger' = [merger EXCEPT ![m] = NoMerge] /\ owed' = {debt \in owed : debt[1] # m}
    BY DEF FailWith
<1>2. sweepDue' \in BOOLEAN
    BY DEF HistoryInv, Types
<1>3. owed' \subseteq owed /\ \A debt \in owed' : debt[1] # m
    BY <1>1
<1> QED
    BY <1>1, <1>2, <1>3, NoMergeIs, MergeAlone

\* redo_after_refusals reads a row.
LEMMA RedoReadKept ==
    ASSUME HistoryInv, NEW m \in Mergers, RedoRead(m)
    PROVE  HistoryInv'
<1>1. PICK r, k : r = merger[m] /\ k = Lowest(r.redo)
    OBVIOUS
<1>2. PICK id : id = r.page[k].id
    OBVIOUS
<1>3. PICK x : x = [r EXCEPT !.phase = "redoing", !.read = k,
                             !.snapshot = [r.snapshot EXCEPT ![id] = VersionOf(rows[id])]]
    OBVIOUS
<1>4. r \in Merges /\ MergeOK(r)
    BY <1>1 DEF HistoryInv, Types
<1>5. r.phase = "finishing" /\ r.pins = {} /\ r.redo # {} /\ merger' = [merger EXCEPT ![m] = x]
    <2>1. r.phase = "finishing" /\ r.pins = {} /\ r.redo # {}
        BY <1>1 DEF RedoRead
    <2>2. merger' = [merger EXCEPT ![m].phase = "redoing", ![m].read = k,
                        ![m].snapshot[id] = VersionOf(rows[id])]
        BY <1>1, <1>2 DEF RedoRead
    <2>3. merger \in [Mergers -> Merges]
        BY DEF HistoryInv, Types
    <2>4. merger' = [merger EXCEPT ![m] = x]
        BY <1>1, <1>3, <1>4, <2>2, <2>3 DEF Merges
    <2> QED
        BY <2>1, <2>4
<1>6. k \in r.redo /\ k \in Nat
    <2>1. r.redo \in SUBSET Nat
        BY <1>4 DEF Merges
    <2> QED
        BY <1>1, <1>5, <2>1, LowestIs
<1>7. k \in 1..Len(r.page)
    BY <1>4, <1>6 DEF MergeOK
<1>8. id \in Ids
    BY <1>1, <1>2, <1>7, OfferOf DEF HistoryInv
<1>9. /\ VersionOf(rows[id]) \in Versions
      /\ Held(VersionOf(rows[id])) \/ VersionOf(rows[id]).pinAt = 0
    BY <1>8, SummaryIs DEF HistoryInv
<1>10. r.snapshot \in Snapshots
    BY <1>4 DEF Merges
<1>11. [r.snapshot EXCEPT ![id] = VersionOf(rows[id])] \in Snapshots
    BY <1>8, <1>9, <1>10 DEF Snapshots
<1>12. /\ x \in Merges /\ x.phase = "redoing" /\ x.read = k /\ x.content = r.content /\ x.pins = {}
       /\ x.redo = r.redo /\ x.page = r.page
    BY <1>3, <1>4, <1>5, <1>6, <1>11 DEF Merges
<1>13. MergeOK(x) /\ PinsDecided(x)
    BY <1>4, <1>5, <1>7, <1>12 DEF MergeOK, PinsDecided
<1>14. UNCHANGED <<now, rows, pinRecord, sweepDue, ceiling, owed>> /\ sweepDue \in BOOLEAN
    BY DEF RedoRead, HistoryInv, Types
<1> QED
    BY <1>1, <1>5, <1>12, <1>13, <1>14, MergeAlone

\* The hook is told: what the merge stored is no older than the floor it reports.
LEMMA ReportKept ==
    ASSUME HistoryInv, PeersOwe, NEW m \in Mergers, Report(m)
    PROVE  HistoryInv'
<1>1. /\ merger' = [merger EXCEPT ![m] = NoMerge]
      /\ owed' = {debt \in owed :
                    IsP2p(m) /\ merger[m].content # {} => rows[debt[2]].at < Floor(m)}
      /\ UNCHANGED <<now, rows, pinRecord, ceiling>>
    BY DEF Report
<1>2. sweepDue' \in BOOLEAN
    BY DEF Report, HistoryInv, Types
<1>3. ASSUME NEW debt \in owed', debt[1] = m
      PROVE  FALSE
    <2>1. debt \in owed /\ debt[2] \in Ids
        BY <1>1 DEF HistoryInv, Types
    <2>2. PICK k \in merger[m].content :
            merger[m].page[k].id = debt[2] /\ rows[debt[2]].at >= merger[m].page[k].at
        BY <1>3, <2>1 DEF HistoryInv, DebtsCovered, Covered
    <2>3. rows[debt[2]].at < Floor(m)
        <3>1. IsP2p(m)
            BY <1>3, <2>1 DEF PeersOwe
        <3> QED
            BY <1>1, <2>2, <3>1
    <2>4. PICK T : T = {merger[m].page[j].at : j \in merger[m].content}
        OBVIOUS
    <2>5. \A j \in merger[m].content : merger[m].page[j].at \in Nat
        <3> SUFFICES ASSUME NEW j \in merger[m].content PROVE merger[m].page[j].at \in Nat
            OBVIOUS
        <3>1. j \in 1..Len(merger[m].page)
            BY DEF HistoryInv, MergeOK
        <3>2. merger[m].page[j] \in Offers
            BY <3>1, OfferOf DEF HistoryInv
        <3>3. merger[m].page[j].at \in 0..MaxStamp
            BY <3>2, OfferIs
        <3> QED
            BY <3>3
    <2>6. T \in SUBSET Nat /\ merger[m].page[k].at \in T
        BY <2>4, <2>5
    <2>7. Floor(m) \in Nat /\ Floor(m) <= merger[m].page[k].at
        <3>1. Lowest(T) \in T /\ Lowest(T) <= merger[m].page[k].at
            BY <2>6, LowestIs
        <3> QED
            BY <2>4, <2>6, <3>1 DEF Floor
    <2>8. rows[debt[2]].at \in Int
        <3>1. rows[debt[2]].at \in 0..MaxStamp
            BY <2>1, RowIs DEF HistoryInv, TableOK
        <3> QED
            BY <3>1
    <2> QED
        BY <2>2, <2>3, <2>5, <2>7, <2>8
<1>4. owed' \subseteq owed
    BY <1>1
<1> QED
    BY <1>1, <1>2, <1>3, <1>4, NoMergeIs, MergeAlone

\* A pin state is applied.
LEMMA ApplyPinKept ==
    ASSUME HistoryInv, NEW m \in Mergers, ApplyPinState(m)
    PROVE  HistoryInv'
<1>1. Types /\ TableOK(rows) /\ MergeOK(merger[m]) /\ PinsDecided(merger[m])
    BY DEF HistoryInv
<1>2. TableStep(rows') /\ \A id \in Ids : rows'[id].at = rows[id].at /\ rows'[id].rowid = rows[id].rowid
    BY <1>1, ApplyPinStep
<1>3. PICK r, k : r = merger[m] /\ k = Lowest(r.pins)
    OBVIOUS
<1>4. PICK redo : redo = IF PinAccepted(r.page[k]) THEN r.redo \ {k} ELSE r.redo
    OBVIOUS
<1>5. PICK x : x = [r EXCEPT !.pins = r.pins \ {k}, !.redo = redo]
    OBVIOUS
<1>6. r \in Merges
    BY <1>1, <1>3 DEF Types
<1>7. r.phase = "finishing" /\ merger' = [merger EXCEPT ![m] = x]
    <2>1. merger' = [merger EXCEPT ![m].pins = r.pins \ {k}, ![m].redo = redo]
        BY <1>3, <1>4 DEF ApplyPinState
    <2>2. merger \in [Mergers -> Merges]
        BY <1>1 DEF Types
    <2> QED
        BY <1>3, <1>5, <1>6, <2>1, <2>2 DEF Merges, ApplyPinState
<1>8. /\ x \in Merges /\ x.phase = "finishing" /\ x.content = r.content /\ x.pins \subseteq r.pins
      /\ x.redo \subseteq r.redo /\ x.page = r.page /\ x.snapshot = r.snapshot
    BY <1>4, <1>5, <1>6, <1>7 DEF Merges
<1>9. MergeOK(x) /\ PinsDecided(x)
    BY <1>1, <1>3, <1>8 DEF MergeOK, PinsDecided
<1>10. /\ merger' \in [Mergers -> Merges]
       /\ \A n \in Mergers : MergeOK(merger'[n]) /\ PinsDecided(merger'[n])
       /\ merger'[m] = x /\ \A n \in Mergers : n # m => merger'[n] = merger[n]
    BY <1>7, <1>8, <1>9, OneMerge
<1>11. /\ now' = now /\ pinRecord' = pinRecord /\ sweepDue' = sweepDue /\ ceiling' = ceiling
       /\ owed' = owed
    BY DEF ApplyPinState
<1>12. Types'
    BY <1>1, <1>10, <1>11 DEF Types
<1>13. TableOK(rows')
    BY <1>2 DEF TableStep
<1>15. DebtsCovered'
    <2>1. owed' \subseteq Mergers \X Ids
        BY <1>12 DEF Types
    <2>2. \A id \in Ids : rows[id].at \in Int
        <3>1. \A id \in Ids : rows[id].at \in 0..MaxStamp
            BY <1>1, RowIs DEF TableOK
        <3> QED
            BY <3>1
    <2>3. \A debt \in owed' : debt \in owed /\ rows'[debt[2]].at = rows[debt[2]].at
                              /\ rows'[debt[2]].at >= rows[debt[2]].at
        BY <1>2, <1>11, <2>1, <2>2
    <2>4. ASSUME NEW debt \in owed', debt[1] = m
          PROVE  Covered(merger'[m], debt[2], rows'[debt[2]])
        <3>1. Covered(merger[m], debt[2], rows[debt[2]])
            BY <2>3, <2>4 DEF HistoryInv, DebtsCovered
        <3> QED
            BY <1>3, <1>8, <1>10, <2>3, <3>1 DEF Covered
    <2> QED
        BY <1>10, <1>13, <2>1, <2>3, <2>4, DebtsStep
<1> QED
    BY <1>10, <1>12, <1>13, <1>15 DEF HistoryInv

\* The pins that a page leaves to be applied were decided against its snapshot.
LEMMA PinOnlyDecided ==
    ASSUME NEW local \in Snapshots, NEW page \in Seq(Offers), NEW p2p \in BOOLEAN,
           NEW k \in PinOnly(local, page, p2p)
    PROVE  /\ k \in 1..Len(page)
           /\ page[k].pinAt >= local[page[k].id].pinAt \/ PageDeletes(page, page[k].id)
<1>1. PICK sim, inc, id : sim = Simulated(local, page, p2p) /\ inc = page[k] /\ id = page[k].id
    OBVIOUS
<1>2. /\ k \in 1..Len(page) /\ RemotePinWins(sim[k - 1][id], inc, p2p)
      /\ ~Takes(sim[k - 1][id], inc, p2p)
    BY <1>1 DEF PinOnly, Slots
<1>3. Len(page) \in Nat /\ inc \in Offers
    BY <1>1, <1>2, ElementOfSeq, LenProperties
<1>4. id \in Ids /\ inc.pinAt \in 0..MaxStamp
    BY <1>1, <1>3, OfferIs
<1>5. k - 1 \in 0..Len(page)
    BY <1>2, <1>3
<1>6. sim[k - 1] \in Snapshots
    BY <1>1, <1>5, SimulatedIs
<1>7. PICK before : before = sim[k - 1][id]
    OBVIOUS
<1>8. before \in Versions /\ local[id] \in Versions
    BY <1>4, <1>6, <1>7 DEF Snapshots
<1>9. before.pinAt \in Int /\ local[id].pinAt \in Int /\ inc.pinAt \in Int
    BY <1>4, <1>8 DEF Versions
<1>10. before.pinAt >= local[id].pinAt \/ PageDeletes(page, id)
    BY <1>1, <1>4, <1>5, <1>7, SimulatedKeeps
<1>11. Held(before) /\ PinNewer(Remote(inc, before, p2p), before)
    BY <1>2, <1>7 DEF Takes, RemotePinWins
<1>12. Remote(inc, before, p2p).pinAt = inc.pinAt
    BY DEF Remote
<1>13. inc.pinAt >= before.pinAt
    BY <1>9, <1>11, <1>12 DEF PinNewer
<1> QED
    BY <1>1, <1>2, <1>9, <1>10, <1>13

\* The page is written.
LEMMA MergePageKept ==
    ASSUME HistoryInv, NEW m \in Mergers, MergePage(m)
    PROVE  HistoryInv'
<1>1. Types /\ TableOK(rows) /\ MergeOK(merger[m])
    BY DEF HistoryInv
<1>2. /\ TableStep(rows') /\ StoredBy(m) \subseteq 1..Len(merger[m].page)
      /\ \A id \in Ids :
            \/ rows'[id] = rows[id] /\ \A k \in StoredBy(m) : merger[m].page[k].id # id
            \/ \E k \in StoredBy(m) :
                merger[m].page[k].id = id /\ rows'[id].at >= merger[m].page[k].at
    BY <1>1, PageStep
<1>3. PICK r, stored, p2p, rs : /\ r = merger[m] /\ stored = StoredBy(m) /\ p2p = IsP2p(m)
                                /\ rs = Written(rows, r.snapshot, r.page, p2p)[Len(r.page)]
    OBVIOUS
<1>4. PICK pins, redo : /\ pins = PinOnly(r.snapshot, r.page, p2p)
                        /\ redo = ToRedo(r.page, RefusedSlots(rows, r.snapshot, r.page, p2p), stored)
    OBVIOUS
<1>5. PICK x : x = [r EXCEPT !.phase = "finishing", !.content = stored, !.pins = pins, !.redo = redo]
    OBVIOUS
<1>6. r \in Merges /\ merger \in [Mergers -> Merges]
    BY <1>1, <1>3 DEF Types
<1>7. r.page \in Seq(Offers) /\ r.snapshot \in Snapshots /\ p2p \in BOOLEAN
    BY <1>3, <1>6 DEF Merges, IsP2p
<1>8. /\ r.phase = "prepared" /\ rows' = rs
      /\ owed' = Owing(m, {r.page[k].id : k \in stored})
      /\ now' = now /\ pinRecord' = pinRecord /\ sweepDue' = sweepDue /\ ceiling' = ceiling
    BY <1>3 DEF MergePage, StoredBy
<1>9. merger' = [merger EXCEPT ![m] = x]
    <2>1. merger' = [merger EXCEPT ![m].phase = "finishing", ![m].content = stored,
                                   ![m].pins = pins, ![m].redo = redo]
        BY <1>3, <1>4 DEF MergePage, StoredBy
    <2> QED
        BY <1>3, <1>5, <1>6, <2>1 DEF Merges
<1>10. Len(r.page) \in Nat
    BY <1>7, LenProperties
<1>11. stored \subseteq 1..Len(r.page) /\ pins \subseteq 1..Len(r.page) /\ redo \subseteq 1..Len(r.page)
    BY <1>2, <1>3, <1>4 DEF PinOnly, ToRedo
<1>12. stored \in SUBSET Nat /\ pins \in SUBSET Nat /\ redo \in SUBSET Nat
    BY <1>10, <1>11
<1>13. /\ x \in Merges /\ x.phase = "finishing" /\ x.content = stored /\ x.pins = pins
       /\ x.redo = redo /\ x.page = r.page /\ x.snapshot = r.snapshot
    BY <1>5, <1>6, <1>12 DEF Merges
<1>14. MergeOK(x)
    BY <1>11, <1>13 DEF MergeOK
<1>15. PinsDecided(x)
    <2>1. \A k \in pins : \/ r.page[k].pinAt >= r.snapshot[r.page[k].id].pinAt
                          \/ PageDeletes(r.page, r.page[k].id)
        BY <1>4, <1>7, PinOnlyDecided
    <2> QED
        BY <1>13, <2>1 DEF PinsDecided
<1>16. /\ merger' \in [Mergers -> Merges]
       /\ \A n \in Mergers : MergeOK(merger'[n]) /\ PinsDecided(merger'[n])
       /\ merger'[m] = x /\ \A n \in Mergers : n # m => merger'[n] = merger[n]
    BY <1>9, <1>13, <1>14, <1>15, OneMerge
<1>18. \A k \in stored : r.page[k].id \in Ids
    BY <1>1, <1>3, <1>11, OfferOf
<1>19. PICK ids : ids = {r.page[k].id : k \in stored}
    OBVIOUS
<1>20. ids \subseteq Ids /\ owed' \subseteq {debt \in owed : debt[2] \notin ids} \cup ({m} \X ids)
    BY <1>8, <1>18, <1>19 DEF Owing
<1>21. owed' \subseteq Mergers \X Ids
    BY <1>1, <1>20 DEF Types
<1>22. Types'
    BY <1>1, <1>8, <1>16, <1>21 DEF Types
<1>23. TableOK(rows')
    BY <1>2 DEF TableStep
<1>24. DebtsCovered'
    <2>1. r.content = {}
        BY <1>1, <1>3, <1>8 DEF MergeOK
    <2>2. \A debt \in owed : debt[1] # m
        BY <1>3, <2>1, NothingOwed
    <2>3. ASSUME NEW debt \in owed', debt[1] # m
          PROVE  debt \in owed /\ rows'[debt[2]].at >= rows[debt[2]].at
        <3>1. debt \in owed /\ debt[2] \notin ids /\ debt[2] \in Ids
            BY <1>20, <1>21, <2>3
        <3>2. rows'[debt[2]] = rows[debt[2]]
            BY <1>2, <1>3, <1>19, <3>1
        <3>3. rows[debt[2]].at \in 0..MaxStamp
            BY <1>1, <3>1, RowIs DEF TableOK
        <3> QED
            BY <3>1, <3>2, <3>3
    <2>4. ASSUME NEW debt \in owed', debt[1] = m
          PROVE  Covered(merger'[m], debt[2], rows'[debt[2]])
        <3>1. debt[2] \in ids
            BY <1>20, <2>2, <2>4
        <3>2. PICK j \in stored : r.page[j].id = debt[2]
            BY <1>19, <3>1
        <3>3. PICK k \in stored : r.page[k].id = debt[2] /\ rows'[debt[2]].at >= r.page[k].at
            BY <1>2, <1>3, <1>20, <3>1, <3>2
        <3> QED
            BY <1>13, <1>16, <3>3 DEF Covered
    <2> QED
        BY <1>16, <1>21, <1>23, <2>3, <2>4, DebtsStep
<1> QED
    BY <1>16, <1>22, <1>23, <1>24 DEF HistoryInv

\* A version is redone.
LEMMA RedoWriteKept ==
    ASSUME HistoryInv, NEW m \in Mergers, RedoWrite(m)
    PROVE  HistoryInv'
<1>1. Types /\ TableOK(rows) /\ MergeOK(merger[m]) /\ PinsDecided(merger[m])
    BY DEF HistoryInv
<1>2. PICK r, k, inc : r = merger[m] /\ k = r.read /\ inc = r.page[k]
    OBVIOUS
<1>3. /\ TableStep(rows') /\ inc \in Offers /\ inc.id \in Ids /\ k \in 1..Len(r.page)
      /\ \A id \in Ids : id # inc.id \/ ~RedoStored(m) => rows'[id].at = rows[id].at
      /\ RedoStored(m) => rows'[inc.id].at >= inc.at
    BY <1>1, <1>2, RedoStep
<1>4. PICK content, ids : /\ content = IF RedoStored(m) THEN r.content \cup {k} ELSE r.content
                          /\ ids = IF RedoStored(m) THEN {inc.id} ELSE {}
    OBVIOUS
<1>5. PICK x : x = [r EXCEPT !.phase = "finishing", !.redo = r.redo \ {k}, !.content = content]
    OBVIOUS
<1>6. r \in Merges /\ merger \in [Mergers -> Merges]
    BY <1>1, <1>2 DEF Types
<1>7. PICK rs : rs = IF RedoStored(m)
                     THEN Upsert(rows, inc.id, Prepared(r.snapshot[inc.id], inc, IsP2p(m)))
                     ELSE IF RemotePinWins(r.snapshot[inc.id], inc, IsP2p(m)) THEN PinApplied(inc)
                     ELSE rows
    OBVIOUS
<1>8. /\ r.phase = "redoing" /\ rows' = rs /\ owed' = Owing(m, ids)
      /\ now' = now /\ pinRecord' = pinRecord /\ sweepDue' = sweepDue /\ ceiling' = ceiling
    BY <1>2, <1>4, <1>7 DEF RedoWrite, RedoStored
<1>9. merger' = [merger EXCEPT ![m] = x]
    <2>1. merger' = [merger EXCEPT ![m].phase = "finishing", ![m].redo = r.redo \ {k},
                                   ![m].content = content]
        BY <1>2, <1>4 DEF RedoWrite, RedoStored
    <2> QED
        BY <1>2, <1>5, <1>6, <2>1 DEF Merges
<1>10. Len(r.page) \in Nat
    <2>1. r.page \in Seq(Offers)
        BY <1>6 DEF Merges
    <2> QED
        BY <2>1, LenProperties
<1>11. content \subseteq 1..Len(r.page) /\ r.content \subseteq content
    BY <1>1, <1>2, <1>3, <1>4 DEF MergeOK
<1>12. content \in SUBSET Nat
    BY <1>10, <1>11
<1>13. /\ x \in Merges /\ x.phase = "finishing" /\ x.content = content /\ x.pins = r.pins
       /\ x.redo = r.redo \ {k} /\ x.page = r.page /\ x.snapshot = r.snapshot
    BY <1>5, <1>6, <1>12 DEF Merges
<1>14. r.pins = {}
    BY <1>1, <1>2, <1>8 DEF MergeOK
<1>15. MergeOK(x) /\ PinsDecided(x)
    BY <1>1, <1>2, <1>11, <1>13, <1>14 DEF MergeOK, PinsDecided
<1>16. /\ merger' \in [Mergers -> Merges]
       /\ \A n \in Mergers : MergeOK(merger'[n]) /\ PinsDecided(merger'[n])
       /\ merger'[m] = x /\ \A n \in Mergers : n # m => merger'[n] = merger[n]
    BY <1>9, <1>13, <1>15, OneMerge
<1>18. ids \subseteq Ids /\ owed' \subseteq {debt \in owed : debt[2] \notin ids} \cup ({m} \X ids)
    BY <1>3, <1>4, <1>8 DEF Owing
<1>19. owed' \subseteq Mergers \X Ids
    BY <1>1, <1>18 DEF Types
<1>20. Types'
    BY <1>1, <1>8, <1>16, <1>19 DEF Types
<1>21. TableOK(rows')
    BY <1>3 DEF TableStep
<1>22. DebtsCovered'
    <2>1. ASSUME NEW debt \in owed, debt[2] \notin ids
          PROVE  debt[2] \in Ids /\ rows'[debt[2]].at = rows[debt[2]].at /\ rows[debt[2]].at \in Int
        <3>1. debt[2] \in Ids
            BY <1>1 DEF Types
        <3>2. debt[2] # inc.id \/ ~RedoStored(m)
            BY <1>4, <2>1
        <3>3. rows[debt[2]].at \in 0..MaxStamp
            BY <1>1, <3>1, RowIs DEF TableOK
        <3> QED
            BY <1>3, <3>1, <3>2, <3>3
    <2>2. ASSUME NEW debt \in owed', debt[1] # m
          PROVE  debt \in owed /\ rows'[debt[2]].at >= rows[debt[2]].at
        <3>1. debt \in owed /\ debt[2] \notin ids
            BY <1>18, <2>2
        <3> QED
            BY <2>1, <3>1
    <2>3. ASSUME NEW debt \in owed', debt[1] = m
          PROVE  Covered(merger'[m], debt[2], rows'[debt[2]])
        <3>1. CASE debt[2] \in ids
            <4>1. RedoStored(m) /\ debt[2] = inc.id
                BY <1>4, <3>1
            <4>2. k \in content /\ r.page[k].id = debt[2] /\ rows'[debt[2]].at >= r.page[k].at
                BY <1>2, <1>3, <1>4, <4>1
            <4> QED
                BY <1>13, <1>16, <4>2 DEF Covered
        <3>2. CASE debt \in owed /\ debt[2] \notin ids
            <4>1. Covered(r, debt[2], rows[debt[2]])
                BY <1>2, <2>3, <3>2 DEF HistoryInv, DebtsCovered
            <4>2. rows'[debt[2]].at = rows[debt[2]].at
                BY <2>1, <3>2
            <4> QED
                BY <1>11, <1>13, <1>16, <4>1, <4>2 DEF Covered
        <3> QED
            BY <1>18, <2>3, <3>1, <3>2
    <2> QED
        BY <1>16, <1>19, <1>21, <2>2, <2>3, DebtsStep
<1> QED
    BY <1>16, <1>20, <1>21, <1>22 DEF HistoryInv

\* A local step keeps the invariant when what it drops is no longer owed.
LEMMA LocalKept ==
    ASSUME HistoryInv, LocalStep(rows'), merger' = merger, ceiling' = ceiling,
           now' \in Stamps, pinRecord' \in PinRecords, sweepDue' \in BOOLEAN, owed' \subseteq owed,
           \A debt \in owed' : ~Dropped(rows[debt[2]], rows'[debt[2]])
    PROVE  HistoryInv'
<1>1. Types /\ TableOK(rows)
    BY DEF HistoryInv
<1>5. TableOK(rows') /\ owed' \subseteq Mergers \X Ids
    BY <1>1 DEF LocalStep, Types
<1>6. Types'
    BY <1>1, <1>5 DEF Types
<1>7. \A m \in Mergers : MergeOK(merger'[m]) /\ PinsDecided(merger'[m])
    BY DEF HistoryInv
<1>8. DebtsCovered'
    <2>1. SUFFICES ASSUME NEW debt \in owed' PROVE rows'[debt[2]].at >= rows[debt[2]].at
        BY <1>5, DebtsGrow
    <2>2. debt[2] \in Ids
        BY <1>5
    <2>3. rows[debt[2]].at \in 0..MaxStamp
        BY <1>1, <2>2, RowIs DEF TableOK
    <2>4. rows[debt[2]].at \in Int
        BY <2>3
    <2>5. Advances(rows[debt[2]], rows'[debt[2]])
        BY <2>2 DEF LocalStep
    <2> QED
        BY <2>4, <2>5 DEF Advances, Moves
<1> QED
    BY <1>5, <1>6, <1>7, <1>8 DEF HistoryInv

\* Writes in which every row advances.
LEMMA WriteKept ==
    ASSUME HistoryInv, Grows(rows'), Write(rows'), pinRecord' \in PinRecords, sweepDue' \in BOOLEAN
    PROVE  HistoryInv'
<1>1. LocalStep(rows')
    BY GrowthIsLocal
<1>2. now' = now /\ merger' = merger /\ ceiling' = ceiling /\ owed' = owed
    BY DEF Write
<1>3. now' \in Stamps
    BY <1>2 DEF HistoryInv, Types
<1>4. ASSUME NEW debt \in owed', Dropped(rows[debt[2]], rows'[debt[2]]) PROVE FALSE
    <2>1. debt[2] \in Ids
        BY <1>2 DEF HistoryInv, Types
    <2>2. rows[debt[2]].rowid > 0 /\ rows'[debt[2]] = NoRow /\ Advances(rows[debt[2]], rows'[debt[2]])
        BY <1>4, <2>1 DEF Grows, Dropped
    <2>3. NoRow.rowid = 0
        BY DEF NoRow
    <2> QED
        BY <2>2, <2>3 DEF Advances, Moves
<1> QED
    BY <1>1, <1>2, <1>3, <1>4, LocalKept

\* The local writes.
LEMMA LocalWritesKept ==
    ASSUME HistoryInv, LocalWrites
    PROVE  HistoryInv' /\ Grows(rows')
<1>1. TableOK(rows) /\ now \in Stamps /\ pinRecord \in PinRecords /\ sweepDue \in BOOLEAN
    BY DEF HistoryInv, Types
<1>2. ASSUME NEW id \in LocalIds, NEW hash \in Hashes, Capture(id, hash) PROVE HistoryInv' /\ Grows(rows')
    <2>1. Grows(rows')
        BY <1>1, <1>2, CaptureGrows
    <2>2. Write(rows') /\ pinRecord' = pinRecord /\ sweepDue' = TRUE
        BY <1>2 DEF Capture, Write
    <2> QED
        BY <1>1, <2>1, <2>2, WriteKept
<1>3. ASSUME NEW id \in Ids, PromoteCopied(id) PROVE HistoryInv' /\ Grows(rows')
    <2>1. Grows(rows')
        BY <1>1, <1>3, PromoteGrows
    <2>2. Write(rows') /\ pinRecord' = pinRecord /\ sweepDue' = sweepDue
        BY <1>3 DEF PromoteCopied, Write
    <2> QED
        BY <1>1, <2>1, <2>2, WriteKept
<1>4. ASSUME NEW id \in Ids, Delete(id) PROVE HistoryInv' /\ Grows(rows')
    <2>1. Grows(rows')
        BY <1>1, <1>4, DeleteGrows
    <2>2. Write(rows') /\ pinRecord' = pinRecord /\ sweepDue' = sweepDue
        BY <1>4 DEF Delete, Write
    <2> QED
        BY <1>1, <2>1, <2>2, WriteKept
<1>5. ASSUME NEW id \in Ids, SetSecret(id) PROVE HistoryInv' /\ Grows(rows')
    <2>1. Grows(rows')
        BY <1>1, <1>5, SecretGrows
    <2>2. Write(rows') /\ pinRecord' = pinRecord /\ sweepDue' = sweepDue
        BY <1>5 DEF SetSecret, Write
    <2> QED
        BY <1>1, <2>1, <2>2, WriteKept
<1>6. ASSUME NEW id \in Ids, NEW pinned \in BOOLEAN, NEW rewrite \in BOOLEAN,
             SetPinned(id, pinned, rewrite)
      PROVE  HistoryInv' /\ Grows(rows')
    <2>1. Grows(rows') /\ pinRecord' \in PinRecords
        BY <1>1, <1>6, PinGrows
    <2>2. Write(rows') /\ sweepDue' = sweepDue
        BY <1>6 DEF SetPinned, Write
    <2> QED
        BY <1>1, <2>1, <2>2, WriteKept
<1>7. ASSUME NEW id \in Ids, NEW pinned \in BOOLEAN, NEW stamp \in Stamps,
             MergePinRecord(id, [pinned |-> pinned, stamp |-> stamp])
      PROVE  HistoryInv' /\ Grows(rows')
    <2>1. PICK record : record = [pinned |-> pinned, stamp |-> stamp]
        OBVIOUS
    <2>2. stamp \in 0..MaxStamp
        BY Bounds DEF Stamps
    <2>3. record \in [pinned : BOOLEAN, stamp : 0..MaxStamp] /\ MergePinRecord(id, record)
        BY <1>7, <2>1, <2>2
    <2>4. Grows(rows') /\ pinRecord' \in PinRecords
        BY <1>1, <2>3, PinRecordGrows
    <2>5. Write(rows') /\ sweepDue' = sweepDue
        BY <2>3 DEF MergePinRecord, Write
    <2> QED
        BY <1>1, <2>4, <2>5, WriteKept
<1> QED
    BY <1>2, <1>3, <1>4, <1>5, <1>6, <1>7 DEF LocalWrites

(***************************************************************************)
(* The invariant holds, and every step is one of the table's.              *)
(***************************************************************************)

\* A merge's steps.
LEMMA MergingKept ==
    ASSUME HistoryInv, PeersOwe, NEW m \in Mergers, Merging(m)
    PROVE  HistoryInv' /\ TableStep(rows')
<1>1. Types /\ TableOK(rows) /\ MergeOK(merger[m]) /\ PinsDecided(merger[m])
    BY DEF HistoryInv
<1>2. TableStep(rows)
    BY <1>1, NoWrite, GrowthIsLocal, LocalIsStep
<1>3. ASSUME NEW page \in Pages[m], ReadSnapshot(m, page) PROVE HistoryInv' /\ TableStep(rows')
    <2>1. rows' = rows
        BY <1>3 DEF ReadSnapshot
    <2> QED
        BY <1>2, <1>3, <2>1, ReadSnapshotKept
<1>4. CASE MergePage(m)
    BY <1>1, <1>4, MergePageKept, PageStep
<1>5. CASE SnapshotMoved(m)
    <2>1. rows' = rows
        BY <1>5 DEF SnapshotMoved
    <2> QED
        BY <1>2, <1>5, <2>1, SnapshotMovedKept
<1>6. CASE ApplyPinState(m)
    BY <1>1, <1>6, ApplyPinKept, ApplyPinStep
<1>7. CASE PinStateFails(m)
    <2>1. /\ rows' = rows /\ FailWith(m)
          /\ UNCHANGED <<now, rows, pinRecord, sweepDue, ceiling>>
        BY <1>7 DEF PinStateFails
    <2> QED
        BY <1>2, <2>1, FailKept
<1>8. CASE RedoRead(m)
    <2>1. rows' = rows
        BY <1>8 DEF RedoRead
    <2> QED
        BY <1>2, <1>8, <2>1, RedoReadKept
<1>9. CASE RedoWrite(m)
    BY <1>1, <1>9, RedoWriteKept, RedoStep
<1>10. CASE RedoFails(m)
    <2>1. /\ rows' = rows /\ FailWith(m)
          /\ UNCHANGED <<now, rows, pinRecord, sweepDue, ceiling>>
        BY <1>10 DEF RedoFails
    <2> QED
        BY <1>2, <2>1, FailKept
<1>11. CASE Report(m)
    <2>1. rows' = rows
        BY <1>11 DEF Report
    <2> QED
        BY <1>2, <1>11, <2>1, ReportKept
<1> QED
    BY <1>3, <1>4, <1>5, <1>6, <1>7, <1>8, <1>9, <1>10, <1>11 DEF Merging

\* The clear, the sweeps and the clock.
LEMMA HousekeepingKept ==
    ASSUME HistoryInv, PressClear \/ DeleteAllThrough \/ EnforceRetention \/ Tick
    PROVE  HistoryInv' /\ TableStep(rows')
<1>1. Types /\ TableOK(rows) /\ DebtsCovered
    BY DEF HistoryInv
<1>2. TableStep(rows)
    BY <1>1, NoWrite, GrowthIsLocal, LocalIsStep
<1>3. \A m \in Mergers : MergeOK(merger[m]) /\ PinsDecided(merger[m])
    BY DEF HistoryInv
<1>4. CASE PressClear
    <2>1. /\ rows' = rows /\ merger' = merger /\ owed' = owed /\ now' = now /\ pinRecord' = pinRecord
          /\ sweepDue' = sweepDue /\ ceiling' = MaxRowid(rows)
        BY <1>4 DEF PressClear
    <2>2. ceiling' \in Nat
        BY <1>1, <2>1, MaxRowidIs DEF TableOK
    <2>3. Types'
        BY <1>1, <2>1, <2>2 DEF Types
    <2>4. DebtsCovered'
        BY <1>1, <2>1 DEF DebtsCovered
    <2> QED
        BY <1>1, <1>2, <1>3, <2>1, <2>3, <2>4 DEF HistoryInv
<1>5. CASE DeleteAllThrough
    <2>1. /\ merger' = merger /\ owed' = owed /\ now' = now /\ pinRecord' = pinRecord
          /\ sweepDue' = sweepDue /\ ceiling' = -1
        BY <1>5 DEF DeleteAllThrough
    <2>2. Grows(rows')
        BY <1>1, <1>5, ClearGrows DEF Types
    <2>3. TableStep(rows')
        BY <1>1, <2>2, GrowthIsLocal, LocalIsStep
    <2>4. TableOK(rows')
        BY <2>2 DEF Grows
    <2>5. Types'
        BY <1>1, <2>1 DEF Types
    <2>7. DebtsCovered'
        <3>1. \A id \in Ids : rows'[id].at >= rows[id].at
            <4> SUFFICES ASSUME NEW id \in Ids PROVE rows'[id].at >= rows[id].at
                OBVIOUS
            <4>1. Advances(rows[id], rows'[id])
                BY <2>2 DEF Grows
            <4>2. rows[id].at \in 0..MaxStamp
                BY <1>1, RowIs DEF TableOK
            <4>3. rows[id].at \in Int
                BY <4>2
            <4> QED
                BY <4>1, <4>3 DEF Advances, Moves
        <3>2. \A debt \in owed' : debt[2] \in Ids
            BY <1>1, <2>1 DEF Types
        <3> QED
            BY <2>1, <2>4, <3>1, <3>2, DebtsGrow
    <2> QED
        BY <1>3, <2>1, <2>3, <2>4, <2>5, <2>7 DEF HistoryInv
<1>6. CASE EnforceRetention
    <2>1. LocalStep(rows')
        BY <1>1, <1>6, RetentionStep
    <2>2. /\ merger' = merger /\ ceiling' = ceiling /\ now' = now
          /\ pinRecord' = pinRecord /\ sweepDue' = FALSE
          /\ owed' = {debt \in owed : Present(rows', debt[2])}
        BY <1>6 DEF EnforceRetention
    <2>3. now' \in Stamps /\ pinRecord' \in PinRecords /\ sweepDue' \in BOOLEAN /\ owed' \subseteq owed
        BY <1>1, <2>2 DEF Types
    <2>4. \A debt \in owed' : ~Dropped(rows[debt[2]], rows'[debt[2]])
        <3>1. NoRow.rowid = 0
            BY DEF NoRow
        <3> QED
            BY <2>2, <3>1 DEF Dropped, Present
    <2>5. HistoryInv'
        BY <2>1, <2>2, <2>3, <2>4, LocalKept
    <2>6. TableStep(rows')
        BY <1>1, <2>1, LocalIsStep
    <2> QED
        BY <2>5, <2>6
<1>7. CASE Tick
    <2>1. /\ rows' = rows /\ merger' = merger /\ owed' = owed /\ pinRecord' = pinRecord
          /\ sweepDue' = sweepDue /\ ceiling' = ceiling
        BY <1>7 DEF Tick
    <2>2. now' \in Stamps
        <3>1. now \in 1..MaxStamp /\ now < MaxStamp /\ now' = now + 1
            BY <1>1, <1>7 DEF Tick, Types, Stamps
        <3>2. now' \in 1..MaxStamp
            BY <3>1, Bounds
        <3> QED
            BY <3>2 DEF Stamps
    <2>3. Types'
        BY <1>1, <2>1, <2>2 DEF Types
    <2>4. DebtsCovered'
        BY <1>1, <2>1 DEF DebtsCovered
    <2> QED
        BY <1>1, <1>2, <1>3, <2>1, <2>3, <2>4 DEF HistoryInv
<1> QED
    BY <1>4, <1>5, <1>6, <1>7

\* Every step keeps the invariant and is a step of the table.
LEMMA StepKept ==
    ASSUME HistoryInv, PeersOwe, [Next]_vars
    PROVE  HistoryInv' /\ TableStep(rows')
<1>1. CASE Next
    <2>1. TableOK(rows)
        BY DEF HistoryInv
    <2>2. CASE LocalWrites
        BY <2>1, <2>2, LocalWritesKept, GrowthIsLocal, LocalIsStep
    <2>3. CASE \E m \in Mergers : Merging(m)
        BY <2>3, MergingKept
    <2> QED
        BY <1>1, <2>2, <2>3, HousekeepingKept DEF Next
<1>2. CASE UNCHANGED vars
    <2>1. /\ now' = now /\ rows' = rows /\ merger' = merger /\ owed' = owed /\ pinRecord' = pinRecord
          /\ sweepDue' = sweepDue /\ ceiling' = ceiling
        BY <1>2 DEF vars
    <2>2. Types /\ TableOK(rows) /\ DebtsCovered
        BY DEF HistoryInv
    <2>3. TableStep(rows')
        BY <2>1, <2>2, NoWrite, GrowthIsLocal, LocalIsStep
    <2>4. Types' /\ TableOK(rows') /\ DebtsCovered'
        BY <2>1, <2>2 DEF Types, DebtsCovered
    <2>5. \A m \in Mergers : MergeOK(merger'[m]) /\ PinsDecided(merger'[m])
        BY <2>1 DEF HistoryInv
    <2> QED
        BY <2>3, <2>4, <2>5 DEF HistoryInv
<1> QED
    BY <1>1, <1>2

\* Only a merge that stores adds a debt, and only a peer's.
LEMMA PeersOweStep ==
    ASSUME PeersOwe, [Next]_vars
    PROVE  PeersOwe'
<1>1. SUFFICES ASSUME NEW debt \in owed', debt \notin owed PROVE IsP2p(debt[1])
    BY DEF PeersOwe
<1>2. ASSUME NEW m \in Mergers, NEW ids, owed' = Owing(m, ids) PROVE IsP2p(debt[1])
    BY <1>1, <1>2 DEF Owing
<1>3. ASSUME NEW m \in Mergers, Merging(m) PROVE IsP2p(debt[1])
    <2>1. CASE MergePage(m)
        BY <1>2, <2>1 DEF MergePage
    <2>2. CASE RedoWrite(m)
        BY <1>2, <2>2 DEF RedoWrite
    <2>3. CASE Report(m)
        BY <1>1, <2>3 DEF Report
    <2> QED
        BY <1>1, <1>3, <2>1, <2>2, <2>3 DEF Merging, ReadSnapshot, SnapshotMoved, ApplyPinState,
            PinStateFails, RedoRead, RedoFails, FailWith
<1>4. CASE LocalWrites
    <2>1. owed' = owed
        <3>1. \A rs : Write(rs) => owed' = owed
            BY DEF Write
        <3>2. ASSUME NEW id \in LocalIds, NEW hash \in Hashes, Capture(id, hash) PROVE owed' = owed
            BY <3>1, <3>2 DEF Capture
        <3>3. ASSUME NEW id \in Ids, PromoteCopied(id) \/ Delete(id) \/ SetSecret(id)
              PROVE  owed' = owed
            BY <3>1, <3>3 DEF PromoteCopied, Delete, SetSecret
        <3>4. ASSUME NEW id \in Ids, NEW pinned \in BOOLEAN, NEW rewrite \in BOOLEAN,
                     SetPinned(id, pinned, rewrite)
              PROVE  owed' = owed
            BY <3>1, <3>4 DEF SetPinned
        <3>5. ASSUME NEW id \in Ids, NEW record, MergePinRecord(id, record) PROVE owed' = owed
            BY <3>1, <3>5 DEF MergePinRecord
        <3> QED
            BY <1>4, <3>2, <3>3, <3>4, <3>5 DEF LocalWrites
    <2> QED
        BY <1>1, <2>1
<1>5. CASE PressClear \/ DeleteAllThrough \/ EnforceRetention \/ Tick
    BY <1>1, <1>5 DEF PressClear, DeleteAllThrough, EnforceRetention, Tick
<1> QED
    BY <1>1, <1>3, <1>4, <1>5 DEF Next, vars

\* The history starts empty, in order.
LEMMA InitKept ==
    ASSUME Init
    PROVE  HistoryInv
<1>1. rows = [id \in Ids |-> NoRow] /\ merger = [m \in Mergers |-> NoMerge]
    BY DEF Init
<1>2. NoRow \in Rows /\ NoRow.rowid = 0
    <2>1. 0 \in 0..MaxStamp
        BY Bounds
    <2> QED
        BY <2>1 DEF Rows, NoRow
<1>3. TableOK(rows)
    BY <1>1, <1>2 DEF TableOK
<1>4. merger \in [Mergers -> Merges] /\ \A m \in Mergers : MergeOK(merger[m]) /\ PinsDecided(merger[m])
    BY <1>1, NoMergeIs
<1>5. pinRecord \in PinRecords
    <2>1. 0 \in 0..MaxStamp
        BY Bounds
    <2>2. pinRecord = [id \in Ids |-> [pinned |-> FALSE, stamp |-> 0]]
        BY DEF Init
    <2> QED
        BY <2>1, <2>2 DEF PinRecords
<1>6. now \in Stamps
    BY Bounds DEF Init, Stamps
<1>7. sweepDue = FALSE /\ ceiling = -1 /\ owed = {}
    BY DEF Init
<1>8. Types
    BY <1>4, <1>5, <1>6, <1>7 DEF Types
<1> QED
    BY <1>3, <1>4, <1>7, <1>8 DEF HistoryInv, DebtsCovered

(***************************************************************************)
(* The theorems.                                                           *)
(***************************************************************************)

\* The inductive invariant holds in every state of the history.
THEOREM HistoryInvariant == Spec => [](HistoryInv /\ PeersOwe)
<1>1. HistoryInv /\ PeersOwe /\ [Next]_vars => HistoryInv' /\ PeersOwe'
    BY StepKept, PeersOweStep
<1>2. Init => PeersOwe
    BY DEF Init, PeersOwe
<1> QED
    BY <1>1, <1>2, InitKept, PTL DEF Spec

\* The state has its types, and every writer keeps the table unique in its
\* rowids and in the dedup index.
THEOREM HistoryTypeCorrect == Spec => []TypeOK
<1>1. HistoryInv => TypeOK
    BY DEF HistoryInv, TypeOK, Types, TableOK, PinRecords, Present
<1> QED
    BY <1>1, HistoryInvariant, PTL

\* Every version that a page of a peer stores is reported to the hook when the page
\* ends: none is owed by a merge that has ended (apply_versions, on_applied).
THEOREM StoredVersionsAreReported == Spec => []StoredIsReported
<1>1. HistoryInv => StoredIsReported
    BY DEF HistoryInv, DebtsCovered, Covered, StoredIsReported
<1> QED
    BY <1>1, HistoryInvariant, PTL

\* The pin of a live item never moves back, whatever pages, redos and records
\* interleave, outside the three gaps that PinsMoveForward names
\* (apply_pin_state, redo_after_refusals).
THEOREM PinsStayForward == Spec => PinsMoveForward
<1>1. HistoryInv /\ PeersOwe /\ [Next]_vars
        => \A id \in Ids \ (Exposed \cup PinExposed \cup Restarted) :
            Live(rows, id) /\ ~rows'[id].deleted /\ rows'[id].rowid > 0
                => rows'[id].pinAt >= rows[id].pinAt
    <2> SUFFICES ASSUME HistoryInv, PeersOwe, [Next]_vars PROVE TableStep(rows')
        BY DEF TableStep
    <2> QED
        BY StepKept
<1> QED
    BY <1>1, HistoryInvariant, PTL DEF Spec, PinsMoveForward

\* The history implements the last-writer-wins register: every step leaves the
\* version of an item, moves it up in the order of versions, or drops a live one.
THEOREM HistoryIsLastWriterWins == Spec => ImplementsLastWriterWins
<1>1. Init => Register!Init
    <2> SUFFICES ASSUME Init PROVE Register!Init
        OBVIOUS
    <2>1. rows = [id \in Ids |-> NoRow] /\ merger = [m \in Mergers |-> NoMerge]
        BY DEF Init
    <2>2. \A id \in Ids : /\ rows[id].at = 0 /\ rows[id].hash = 0 /\ rows[id].deleted = FALSE
                          /\ VersionOf(rows[id]).origin = 0
        BY <2>1 DEF NoRow, VersionOf
    <2>3. Exposed = {}
        <3>1. \A m \in Mergers : merger[m].phase = "idle"
            BY <2>1, NoMergeIs
        <3> QED
            BY <3>1 DEF Exposed
    <2> QED
        BY <2>2, <2>3 DEF Register!Init, Register!NoVersion
<1>2. HistoryInv /\ PeersOwe /\ [Next]_vars => Register!Next
    <2> SUFFICES ASSUME HistoryInv, TableStep(rows') PROVE Register!Next
        BY StepKept
    <2> DEFINE V(row) == [at |-> row.at, hash |-> row.hash, deleted |-> row.deleted,
                          origin |-> VersionOf(row).origin]
    <2>1. ASSUME NEW id \in Ids \ Exposed
          PROVE  \/ V(rows'[id]) = V(rows[id])
                 \/ Register!Newer(V(rows'[id]), V(rows[id]))
                 \/ V(rows'[id]) = Register!NoVersion /\ ~V(rows[id]).deleted
        <3>1. CASE rows'[id] = rows[id]
            BY <3>1
        <3>2. CASE Moves(rows[id], rows'[id])
            <4>1. CASE /\ rows'[id].at = rows[id].at /\ rows'[id].hash = rows[id].hash
                       /\ rows'[id].deleted = rows[id].deleted
                       /\ VersionOf(rows'[id]).origin = VersionOf(rows[id]).origin
                BY <4>1
            <4>2. CASE Newer(VersionOf(rows'[id]), VersionOf(rows[id]))
                <5>1. rows[id] \in Rows /\ rows'[id] \in Rows
                    BY DEF HistoryInv, TableStep, TableOK
                <5>2. \A row \in Rows : /\ V(row).at = VersionOf(row).at /\ V(row).hash = VersionOf(row).hash
                                        /\ V(row).deleted = VersionOf(row).deleted
                                        /\ V(row).origin = VersionOf(row).origin
                    BY VersionIs
                <5> HIDE DEF V
                <5> QED
                    BY <4>2, <5>1, <5>2 DEF Newer, Bit, Register!Newer, Register!Bit
            <4> QED
                BY <3>2, <4>1, <4>2 DEF Moves
        <3>3. CASE Dropped(rows[id], rows'[id])
            <4>1. rows'[id] = NoRow /\ ~rows[id].deleted
                BY <3>3 DEF Dropped
            <4>2. V(NoRow) = Register!NoVersion
                BY DEF NoRow, VersionOf, Register!NoVersion
            <4> QED
                BY <4>1, <4>2
        <3> QED
            BY <2>1, <3>1, <3>2, <3>3 DEF TableStep
    <2> QED
        BY <2>1 DEF Register!Next
<1> QED
    BY <1>1, <1>2, HistoryInvariant, PTL DEF Spec, ImplementsLastWriterWins, Register!Spec
=============================================================================
