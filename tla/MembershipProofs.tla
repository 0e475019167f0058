-------------------------- MODULE MembershipProofs --------------------------
(***************************************************************************)
(* Proofs about Membership, for any devices and any number of ceremonies,  *)
(* removals and faults: the types, that the two ends of a ceremony certify *)
(* the same generations, that nobody holds a generation its device did not *)
(* certify, that a removal is never forgotten, that a removed device can   *)
(* be admitted again, that published removals are known to those who read  *)
(* them, and that rosters which differ have a session that joins them.     *)
(***************************************************************************)
EXTENDS Membership, TLAPS

-----------------------------------------------------------------------------
(* Types, record by record.                                                *)

Ids == [sas : Nat \union {Absent}, local : Nat, remote : Nat]
Rosters == [Devices -> Generations]
Stores == [adm : Rosters, rem : Rosters, slots : [Devices -> Slots],
           revoked : SUBSET (Devices \X Ids)]
Snaps == [issuer : Devices, adm : Rosters, rem : Rosters]
Proposals == [local : Nat, remote : Nat]
Sides == [id : 1..MaxCeremonies, peer : Devices, stored : BOOLEAN,
          mine : Proposals, theirs : Proposals]
Sessions == [stage : {"request", "reply"}, from : Devices, to : Devices,
             fromId : Ids, toId : Ids, snap : Snaps]

Types ==
    /\ mem \in [Devices -> Stores] /\ disk \in [Devices -> Stores]
    /\ ceremonies \in 0..MaxCeremonies
    /\ acks \subseteq [id : 1..MaxCeremonies, from : Devices]
    /\ downloaded \in [Devices -> SUBSET Devices]
    /\ DOMAIN side = Devices /\ \A d \in Devices : side[d] = NoSide \/ side[d] \in Sides
    /\ session = NoSession \/ session \in Sessions
    /\ DOMAIN cloud = Devices /\ DOMAIN outgoing = Devices
    /\ \A d \in Devices : \A snap \in {cloud[d], outgoing[d]} :
          snap = NotPublished \/ (snap \in Snaps /\ snap.issuer = d)
    /\ unconfirmed \subseteq Devices

-----------------------------------------------------------------------------
(* The inductive invariant.                                                *)

\* What the store of d keeps, whoever it hears from: a slot whose mark is fresh
\* was left by a ceremony of an active device and certifies a generation that is
\* not removed; a derived slot certifies the generation of the roster; and the
\* derived credentials that were revoked are of removed generations.
StoreInv(d, st) ==
    /\ st.slots[d] = NoSlot
    /\ st.adm[d] # Absent
    /\ st.rem[d] <= st.adm[d]
    /\ \A x \in Devices :
        LET s == st.slots[x]
        IN  /\ s.fresh => s.sas > 0 /\ Active(st, d) /\ s.remote > st.rem[x]
                          /\ (Active(st, x) => s.remote = st.adm[x])
            /\ s.sas = 0 => Active(st, x) /\ s.remote = st.adm[x]
            /\ s.sas > 0 => s.local <= st.adm[d] + 1
            /\ s.sas = Absent => s = NoSlot
    /\ \A e \in st.revoked : e[2].sas = 0 => e[2].remote <= st.rem[e[1]]

\* A file differs from memory in a slot that could not be taken back.
FilesFollow ==
    \A d \in Devices :
        /\ disk[d].adm = mem[d].adm /\ disk[d].rem = mem[d].rem
        /\ disk[d].revoked = mem[d].revoked
        /\ d \in unconfirmed \/ disk[d] = mem[d]

Own(x) == mem[x].adm[x]

\* No roster names a generation, or a removed one, that its device has not certified.
Bounded(r) ==
    \A x \in Devices \ unconfirmed : r.adm[x] <= Own(x) /\ r.rem[x] <= Own(x)
RostersBounded ==
    /\ \A d \in Devices :
        /\ Bounded(mem[d])
        /\ cloud[d] # NotPublished => Bounded(cloud[d])
        /\ outgoing[d] # NotPublished => Bounded(outgoing[d])
    /\ session # NoSession => Bounded(session.snap)

\* The credentials a device keeps for another, in memory and in its file.
Held(d, x) == {PairingId(mem[d].slots[x]), PairingId(disk[d].slots[x])}

\* The halves of a ceremony hold each other's proposal; only the pairs that
\* stored it hold its credential, which is not fresh before it is confirmed and
\* is what the other half would store.
SideInv(d) ==
    /\ side[d].id <= ceremonies /\ side[d].peer # d
    /\ \A x \in Devices \ {d} : Pairing(x) /\ side[x].id = side[d].id =>
        side[d].peer = x /\ side[x].mine = side[d].theirs /\ side[x].theirs = side[d].mine
    /\ \A x \in Devices : \A id \in Held(d, x) :
        id.sas = side[d].id => x = side[d].peer /\ side[d].stored
    /\ \A x \in Devices : mem[d].slots[x].sas = side[d].id => ~mem[d].slots[x].fresh
    /\ \A id \in Held(side[d].peer, d) : id.sas = side[d].id =>
        /\ id.local = Agree(side[d].theirs, side[d].mine).local
        /\ id.remote = Agree(side[d].theirs, side[d].mine).remote
SidesInv == \A d \in Devices : Pairing(d) => SideInv(d)

\* The credentials ceremonies left: the two ends mirror each other, and their
\* device has certified what they say of it, is still at it, or lost it.
SlotsInv ==
    \A d, x \in Devices : \A id \in Held(d, x) : id.sas > 0 =>
        /\ id.sas <= ceremonies
        /\ \A other \in Held(x, d) : other.sas = id.sas => other = Mirrored(id)
        /\ \/ d \in unconfirmed
           \/ Pairing(d) /\ side[d].id = id.sas
           \/ id.local <= Own(d)

\* A roster exchange, as long as the credentials it began with are there: both
\* ends count themselves in, no ceremony can still mark them fresh, and what
\* is fresh was certified by the other end too, above every removal it sends.
EndInv(d, x, id) ==
    /\ Pairing(d) /\ side[d].id = id.sas => side[d].stored
    /\ PairingId(mem[d].slots[x]) = id =>
        /\ Active(mem[d], d)
        /\ Pairing(d) /\ side[d].id = id.sas => Active(mem[d], x)
        /\ mem[d].slots[x].fresh => x \in unconfirmed \/ id.remote <= Own(x)
SessionInv ==
    session # NoSession =>
        LET d == session.from  x == session.to
        IN  /\ d # x
            /\ EndInv(d, x, session.fromId) /\ EndInv(x, d, session.toId)
            /\ session.fromId.sas # Absent /\ session.toId.sas # Absent
            /\ session.fromId.sas <= ceremonies /\ session.toId.sas <= ceremonies
            /\ Pairing(d) => side[d].id # session.fromId.sas
            /\ session.snap.issuer = IF session.stage = "request" THEN d ELSE x
            /\ session.stage = "request" =>
                    d \in unconfirmed \/ session.snap.rem[d] < Own(d)
            /\ PairingId(mem[d].slots[x]) = session.fromId /\ mem[d].slots[x].fresh =>
                    x \in unconfirmed \/ session.snap.rem[x] < Own(x)
MembershipInv ==
    /\ Types
    /\ \A d \in Devices : StoreInv(d, mem[d]) /\ StoreInv(d, disk[d])
    /\ FilesFollow /\ RostersBounded /\ SidesInv /\ SlotsInv /\ SessionInv

-----------------------------------------------------------------------------
(* Projection: what a store keeps when its credentials follow its roster.  *)

\* What `project` needs of the store it is given.
Projectable(d, st) ==
    /\ st.slots[d] = NoSlot
    /\ st.adm[d] # Absent
    /\ st.rem[d] <= st.adm[d]
    /\ \A x \in Devices :
        LET s == st.slots[x]
        IN  /\ s.fresh => s.sas > 0
            /\ s.sas = 0 /\ Active(st, d) /\ ~RemovedDevice(st, x) => Active(st, x)
            /\ s.sas > 0 => s.local <= st.adm[d] + 1
            /\ s.sas = Absent => s = NoSlot
    /\ \A e \in st.revoked : e[2].sas = 0 => e[2].remote <= st.rem[e[1]]

\* A roster keeps no record of another device but of a member, and only while its
\* own device is one.
Clean(d, st) ==
    \A x \in Devices \ {d} : st.adm[x] = Absent \/ (Active(st, x) /\ Active(st, d))

\* The credentials for members certify the generation their device is at, or the
\* next one.
Current(d, st) ==
    \A x \in Devices \ {d} : HasSlot(st, x) /\ Active(st, d) /\ Active(st, x) =>
        st.slots[x].local >= st.adm[d]

\* The empty slot is a slot, and so is one derived from the roster.
LEMMA SlotTypes ==
    /\ NoSlot \in Slots
    /\ \A d, x \in Devices : \A st \in Stores :
        Active(st, d) /\ Active(st, x) => DerivedSlot(d, st, x) \in Slots
<1>1. NoSlot \in Slots
  BY DEF NoSlot, Slots, Absent
<1>2. ASSUME NEW d \in Devices, NEW x \in Devices, NEW st \in Stores, Active(st, d), Active(st, x)
      PROVE  DerivedSlot(d, st, x) \in Slots
  <2>1. /\ st.adm[d] \in Generations /\ st.adm[x] \in Generations
        /\ st.rem[d] \in Generations /\ st.rem[x] \in Generations
    BY DEF Stores, Rosters
  <2>2. st.adm[d] \in Nat /\ st.adm[x] \in Nat
    BY <1>2, <2>1 DEF Active, Generations, Absent
  <2> QED BY <2>2 DEF DerivedSlot, Slots
<1> QED BY <1>1, <1>2

\* What is revoked is of a removed generation: a rotation to a generation that
\* is not removed never meets a revoked pairing id.
LEMMA ProjectionNeverFails ==
    ASSUME NEW d \in Devices, NEW st \in Stores, Projectable(d, st)
    PROVE  ~ProjectionFails(d, st)
<1> SUFFICES ASSUME ProjectionFails(d, st) PROVE FALSE
  OBVIOUS
<1>1. PICK x \in Rotated(d, st) : <<x, PairingId(DerivedSlot(d, st, x))>> \in st.revoked
  BY DEF ProjectionFails
<1>2. x \in Devices /\ Active(st, x)
  BY DEF Rotated
<1>3. PairingId(DerivedSlot(d, st, x)).sas = 0 /\ PairingId(DerivedSlot(d, st, x)).remote = st.adm[x]
  BY DEF PairingId, DerivedSlot
<1>4. st.adm[x] <= st.rem[x]
  BY <1>1, <1>3 DEF Projectable
<1>5. st.adm[x] \in Generations /\ st.rem[x] \in Generations
  BY <1>2 DEF Stores, Rosters
<1> QED BY <1>2, <1>4, <1>5 DEF Active, Generations, Absent

\* `project` leaves the roster and keeps, replaces or drops each slot.
LEMMA ProjectShape ==
    ASSUME NEW d \in Devices, NEW st \in Stores
    PROVE  /\ Project(d, st) \in Stores
           /\ Project(d, st).adm = st.adm /\ Project(d, st).rem = st.rem
           /\ Project(d, st).revoked = st.revoked
           /\ \A x \in Devices :
                \/ Project(d, st).slots[x] = NoSlot
                   /\ (Active(st, d) => x \notin Rotated(d, st) /\ ~SlotSurvives(st, x))
                \/ Active(st, d) /\ x \in Rotated(d, st)
                   /\ Project(d, st).slots[x] = DerivedSlot(d, st, x)
                \/ Active(st, d) /\ x \notin Rotated(d, st) /\ SlotSurvives(st, x)
                   /\ Project(d, st).slots[x] = st.slots[x]
<1> DEFINE S(x) ==
        CASE Active(st, d) /\ x \in Rotated(d, st) -> DerivedSlot(d, st, x)
          [] Active(st, d) /\ x \notin Rotated(d, st) /\ SlotSurvives(st, x) -> st.slots[x]
          [] OTHER -> NoSlot
<1>1. Project(d, st) = [st EXCEPT !.slots = [x \in Devices |-> S(x)]]
  BY DEF Project
<1>2. ASSUME NEW x \in Devices
      PROVE  \/ S(x) = NoSlot /\ (Active(st, d) => x \notin Rotated(d, st) /\ ~SlotSurvives(st, x))
             \/ Active(st, d) /\ x \in Rotated(d, st) /\ S(x) = DerivedSlot(d, st, x)
             \/ Active(st, d) /\ x \notin Rotated(d, st) /\ SlotSurvives(st, x) /\ S(x) = st.slots[x]
  <2>1. CASE ~Active(st, d)
    BY <2>1
  <2>2. CASE Active(st, d) /\ x \in Rotated(d, st)
    BY <2>2
  <2>3. CASE Active(st, d) /\ x \notin Rotated(d, st) /\ SlotSurvives(st, x)
    BY <2>3
  <2>4. CASE Active(st, d) /\ x \notin Rotated(d, st) /\ ~SlotSurvives(st, x)
    BY <2>4
  <2> QED BY <2>1, <2>2, <2>3, <2>4
<1> HIDE DEF S
<1>3. ASSUME NEW x \in Devices PROVE S(x) \in Slots
  <2>1. x \in Rotated(d, st) => Active(st, x)
    BY DEF Rotated
  <2>2. st.slots[x] \in Slots
    BY DEF Stores
  <2>3. Active(st, d) /\ x \in Rotated(d, st) => DerivedSlot(d, st, x) \in Slots
    BY <2>1, SlotTypes
  <2> QED BY <1>2, <2>2, <2>3, SlotTypes
<1>4. [x \in Devices |-> S(x)] \in [Devices -> Slots]
  BY <1>3
<1>5. Project(d, st) = [adm |-> st.adm, rem |-> st.rem, slots |-> [x \in Devices |-> S(x)], revoked |-> st.revoked]
  BY <1>1 DEF Stores
<1>6. Project(d, st) \in Stores
  BY <1>4, <1>5 DEF Stores
<1>7. \A x \in Devices : Project(d, st).slots[x] = S(x)
  BY <1>5
<1> QED BY <1>2, <1>5, <1>6, <1>7

\* `project` makes every credential follow the roster.
LEMMA ProjectKeepsStore ==
    ASSUME NEW d \in Devices, NEW st \in Stores, Projectable(d, st)
    PROVE  StoreInv(d, Project(d, st))
<1> DEFINE p == Project(d, st)
<1>0. p \in Stores /\ p.adm = st.adm /\ p.rem = st.rem /\ p.revoked = st.revoked
  BY ProjectShape
<1>1. p.slots[d] = NoSlot
  <2>1. ~SlotSurvives(st, d) /\ d \notin Rotated(d, st)
    BY DEF Projectable, SlotSurvives, HasSlot, Rotated
  <2> QED BY <2>1, ProjectShape
<1>2. p.adm[d] # Absent /\ p.rem[d] <= p.adm[d]
  BY <1>0 DEF Projectable
<1>3. \A e \in p.revoked : e[2].sas = 0 => e[2].remote <= p.rem[e[1]]
  BY <1>0 DEF Projectable
<1>4. ASSUME NEW x \in Devices
      PROVE  LET s == p.slots[x]
             IN /\ s.fresh => s.sas > 0 /\ Active(p, d) /\ s.remote > p.rem[x]
                          /\ (Active(p, x) => s.remote = p.adm[x])
                /\ s.sas = 0 => Active(p, x) /\ s.remote = p.adm[x]
                /\ s.sas > 0 => s.local <= p.adm[d] + 1
                /\ s.sas = Absent => s = NoSlot
  <2>0. /\ Active(p, x) = Active(st, x) /\ Active(p, d) = Active(st, d)
        /\ RemovedDevice(p, x) = RemovedDevice(st, x)
    BY <1>0 DEF Active, RemovedDevice
  <2>1. /\ st.adm[d] \in Generations /\ st.adm[x] \in Generations
        /\ st.rem[d] \in Generations /\ st.rem[x] \in Generations /\ st.slots[x] \in Slots
    BY DEF Stores, Rosters
  <2>2. CASE p.slots[x] = NoSlot
    BY <2>2 DEF NoSlot, Absent
  <2>3. CASE Active(st, d) /\ x \in Rotated(d, st) /\ p.slots[x] = DerivedSlot(d, st, x)
    <3>1. Active(st, x)
      BY <2>3 DEF Rotated
    <3> QED BY <3>1, <2>3, <2>0, <1>0 DEF DerivedSlot, Absent
  <2>4. CASE Active(st, d) /\ x \notin Rotated(d, st) /\ SlotSurvives(st, x) /\ p.slots[x] = st.slots[x]
    <3> DEFINE s == st.slots[x]
    <3>1. x # d
      BY <2>4 DEF SlotSurvives, HasSlot, Projectable
    <3>2. Active(st, x) => s.remote = st.adm[x]
      BY <2>4, <3>1 DEF Rotated
    <3>3. s.fresh => s.sas > 0
      BY DEF Projectable
    <3>4. s.sas = 0 => Active(st, x)
      <4>1. s.sas = 0 => ~s.fresh
        BY <3>3
      <4>2. s.sas = 0 => ~RemovedDevice(st, x)
        BY <4>1, <2>4 DEF SlotSurvives
      <4> QED BY <4>2, <2>4 DEF Projectable
    <3>5. s.fresh => s.remote > st.rem[x]
      <4>1. CASE Active(st, x)
        BY <4>1, <3>2 DEF Active
      <4>2. CASE ~Active(st, x) /\ st.rem[x] = Absent
        BY <4>2, <2>1 DEF Slots, Absent
      <4>3. CASE ~Active(st, x) /\ st.rem[x] # Absent
        <5>1. s.fresh => s.remote >= st.rem[x] + 1
          BY <4>3, <2>4 DEF SlotSurvives, RemovedDevice, DesiredAdmission
        <5> QED BY <5>1, <2>1 DEF Slots, Generations, Absent
      <4> QED BY <4>1, <4>2, <4>3
    <3>6. s.sas > 0 => s.local <= st.adm[d] + 1
      BY DEF Projectable
    <3>7. s.sas = Absent => s = NoSlot
      BY DEF Projectable
    <3> QED BY <3>2, <3>3, <3>4, <3>5, <3>6, <3>7, <2>4, <2>0, <1>0
  <2>5. \/ p.slots[x] = NoSlot
        \/ Active(st, d) /\ x \in Rotated(d, st) /\ p.slots[x] = DerivedSlot(d, st, x)
        \/ Active(st, d) /\ x \notin Rotated(d, st) /\ SlotSurvives(st, x) /\ p.slots[x] = st.slots[x]
    BY ProjectShape
  <2> QED BY <2>2, <2>3, <2>4, <2>5
<1> HIDE DEF p
<1>5. StoreInv(d, p)
  BY <1>1, <1>2, <1>3, <1>4 DEF StoreInv
<1> QED BY <1>5 DEF p

\* After `project` the credentials for members are of the generation held.
LEMMA ProjectCurrent ==
    ASSUME NEW d \in Devices, NEW st \in Stores
    PROVE  Current(d, Project(d, st)) /\ (Clean(d, st) => Clean(d, Project(d, st)))
<1> DEFINE p == Project(d, st)
<1>1. /\ p.adm = st.adm /\ p.rem = st.rem
      /\ \A x \in Devices :
            \/ p.slots[x] = NoSlot
            \/ Active(st, d) /\ x \in Rotated(d, st) /\ p.slots[x] = DerivedSlot(d, st, x)
            \/ Active(st, d) /\ x \notin Rotated(d, st) /\ SlotSurvives(st, x) /\ p.slots[x] = st.slots[x]
  BY ProjectShape
<1> HIDE DEF p
<1>2. \A x \in Devices : Active(p, x) = Active(st, x)
  BY <1>1 DEF Active
<1>3. ASSUME NEW x \in Devices \ {d}, HasSlot(p, x), Active(p, x) PROVE p.slots[x].local >= p.adm[d]
  <2>1. p.slots[x] # NoSlot /\ Active(st, x) /\ st.adm[d] \in Generations
    BY <1>2, <1>3 DEF HasSlot, Stores, Rosters
  <2>2. CASE p.slots[x] = DerivedSlot(d, st, x)
    BY <2>1, <2>2, <1>1 DEF DerivedSlot, Generations, Absent
  <2>3. CASE x \notin Rotated(d, st) /\ SlotSurvives(st, x) /\ p.slots[x] = st.slots[x]
    <3>1. st.slots[x].local = st.adm[d]
      BY <2>1, <2>3 DEF Rotated
    <3> QED BY <2>1, <2>3, <3>1, <1>1 DEF Generations, Absent
  <2> QED BY <2>1, <2>2, <2>3, <1>1
<1>4. Current(d, p)
  BY <1>3 DEF Current
<1>5. Clean(d, st) => Clean(d, p)
  BY <1>1, <1>2 DEF Clean
<1> QED BY <1>4, <1>5 DEF p

-----------------------------------------------------------------------------
(* Merging a roster.                                                       *)

\* MaxOf is one of its arguments and no less than either.
LEMMA MaxOfGenerations ==
    ASSUME NEW a \in Int, NEW b \in Int
    PROVE  MaxOf(a, b) \in {a, b} /\ MaxOf(a, b) >= a /\ MaxOf(a, b) >= b
BY DEF MaxOf

\* What `merge`, its refusals apart, makes of a store: the removals are joined, its
\* own generation is raised only for a fresh admission, every other generation is
\* of one of the two rosters, except the issuer's of a fresh admission, and none
\* that is not removed is missed.
MergeFacts(d, st, snap, fresh, m) ==
    /\ m \in Stores /\ m.slots = st.slots /\ m.revoked = st.revoked
    /\ \A x \in Devices : m.rem[x] = MaxOf(st.rem[x], snap.rem[x])
    /\ m.adm[d] = IF fresh THEN MaxOf(st.adm[d], m.rem[d] + 1) ELSE st.adm[d]
    /\ \A x \in Devices \ {d} :
         \/ m.adm[x] \in {Absent, st.adm[x], snap.adm[x]}
         \/ fresh /\ x = snap.issuer /\ m.adm[x] = MaxOf(snap.adm[x], m.rem[x] + 1)
    /\ \A x \in Devices : Active(m, d) /\ st.adm[x] > m.rem[x] => Active(m, x)
    /\ \A x \in Devices \ {d} :
         Active(m, d) /\ snap.adm[x] > m.rem[x] => m.adm[x] >= snap.adm[x]
    /\ Clean(d, m)

\* GroupState::merge does that.
LEMMA MergeShape ==
    ASSUME NEW d \in Devices, NEW st \in Stores, NEW snap \in Snaps, NEW fresh \in BOOLEAN,
           snap.issuer # d
    PROVE  MergeFacts(d, st, snap, fresh, MergeRoster(d, st, snap, fresh))
<1> DEFINE rem == MergedRemovals(st, snap)
           learned == [x \in Devices |->
                IF x = d \/ snap.adm[x] <= rem[x] THEN st.adm[x]
                                                  ELSE MaxOf(st.adm[x], snap.adm[x])]
           admitted == [x \in Devices |->
                CASE fresh /\ x = d           -> MaxOf(learned[x], rem[x] + 1)
                  [] fresh /\ x = snap.issuer -> MaxOf(snap.adm[x], rem[x] + 1)
                  [] OTHER                    -> learned[x]]
           adm == [x \in Devices |-> IF x \in KeptMembers(d, admitted, rem) THEN admitted[x] ELSE Absent]
           m == MergeRoster(d, st, snap, fresh)
<1>1. m = [st EXCEPT !.rem = rem, !.adm = adm]
  BY DEF MergeRoster
<1>2. ASSUME NEW x \in Devices
      PROVE  /\ st.adm[x] \in Generations /\ st.rem[x] \in Generations
             /\ snap.adm[x] \in Generations /\ snap.rem[x] \in Generations
  BY DEF Stores, Rosters, Snaps
<1>3. Generations \subseteq Int /\ \A g \in Generations : g + 1 \in Generations /\ g >= Absent
  BY DEF Generations, Absent
<1>4. \A x \in Devices : rem[x] = MaxOf(st.rem[x], snap.rem[x]) /\ rem[x] \in Generations
  BY <1>2, <1>3 DEF MergedRemovals, MaxOf
<1>5. ASSUME NEW x \in Devices
      PROVE  /\ learned[x] \in {st.adm[x], snap.adm[x]} /\ learned[x] >= st.adm[x]
             /\ learned[x] \in Generations
             /\ x = d => learned[x] = st.adm[x]
             /\ x # d /\ snap.adm[x] > rem[x] => learned[x] >= snap.adm[x]
  <2>1. st.adm[x] \in Int /\ snap.adm[x] \in Int /\ st.adm[x] \in Generations /\ snap.adm[x] \in Generations
    BY <1>2, <1>3
  <2>2. CASE x = d \/ snap.adm[x] <= rem[x]
    <3>1. learned[x] = st.adm[x]
      BY <2>2
    <3>2. rem[x] \in Int
      BY <1>3, <1>4
    <3> QED BY <3>1, <3>2, <2>1, <2>2
  <2>3. CASE ~(x = d \/ snap.adm[x] <= rem[x])
    <3>1. learned[x] = MaxOf(st.adm[x], snap.adm[x])
      BY <2>3
    <3> QED BY <3>1, <2>1, <2>3 DEF MaxOf
  <2> QED BY <2>2, <2>3
<1> HIDE DEF learned
<1>6. ASSUME NEW x \in Devices
      PROVE  /\ fresh /\ x = d => admitted[x] = MaxOf(learned[x], rem[x] + 1)
             /\ fresh /\ x = snap.issuer => admitted[x] = MaxOf(snap.adm[x], rem[x] + 1)
             /\ ~fresh \/ (x # d /\ x # snap.issuer) => admitted[x] = learned[x]
  <2>1. CASE fresh /\ x = d
    BY <2>1
  <2>2. CASE fresh /\ x = snap.issuer
    BY <2>2
  <2>3. CASE ~fresh
    BY <2>3
  <2>4. CASE fresh /\ x # d /\ x # snap.issuer
    BY <2>4
  <2> QED BY <2>1, <2>2, <2>3, <2>4
<1> HIDE DEF admitted, rem
<1>7. ASSUME NEW x \in Devices
      PROVE  /\ admitted[x] \in Generations
             /\ st.adm[x] > rem[x] => admitted[x] > rem[x]
             /\ x # d /\ snap.adm[x] > rem[x] => admitted[x] >= snap.adm[x]
  <2>1. /\ learned[x] \in Int /\ rem[x] \in Int /\ snap.adm[x] \in Int /\ rem[x] + 1 \in Generations
        /\ st.adm[x] \in Int
    BY <1>2, <1>3, <1>4, <1>5
  <2>2. CASE fresh /\ x = d
    BY <2>1, <2>2, <1>6, <1>5 DEF MaxOf
  <2>3. CASE fresh /\ x = snap.issuer
    BY <2>1, <2>3, <1>6, <1>2 DEF MaxOf
  <2>4. CASE ~fresh \/ (x # d /\ x # snap.issuer)
    BY <2>1, <2>4, <1>6, <1>5
  <2> QED BY <2>2, <2>3, <2>4
<1>8. ASSUME NEW x \in Devices
      PROVE  /\ adm[x] \in Generations
             /\ x = d => adm[x] = admitted[x]
             /\ adm[x] \in {Absent, admitted[x]}
             /\ admitted[d] > rem[d] /\ admitted[x] > rem[x] => adm[x] = admitted[x]
             /\ x = d \/ adm[x] = Absent \/ (admitted[d] > rem[d] /\ admitted[x] > rem[x])
  BY <1>7 DEF KeptMembers, Generations, Absent
<1>9. adm \in Rosters /\ rem \in Rosters
  BY <1>8, <1>4 DEF Rosters, rem, MergedRemovals
<1> HIDE DEF adm, m
<1>10. m = [adm |-> adm, rem |-> rem, slots |-> st.slots, revoked |-> st.revoked]
  BY <1>1 DEF Stores
<1>11. m \in Stores /\ m.slots = st.slots /\ m.revoked = st.revoked /\ m.rem = rem /\ m.adm = adm
  BY <1>9, <1>10 DEF Stores
<1>12. m.adm[d] = IF fresh THEN MaxOf(st.adm[d], m.rem[d] + 1) ELSE st.adm[d]
  <2>1. adm[d] = admitted[d] /\ learned[d] = st.adm[d]
    BY <1>5, <1>8
  <2>2. CASE fresh
    BY <2>1, <2>2, <1>6, <1>11
  <2>3. CASE ~fresh
    BY <2>1, <2>3, <1>6, <1>11
  <2> QED BY <2>2, <2>3
<1>13. ASSUME NEW x \in Devices \ {d}
       PROVE  \/ m.adm[x] \in {Absent, st.adm[x], snap.adm[x]}
              \/ fresh /\ x = snap.issuer /\ m.adm[x] = MaxOf(snap.adm[x], m.rem[x] + 1)
  <2>1. CASE fresh /\ x = snap.issuer
    BY <2>1, <1>6, <1>8, <1>11
  <2>2. CASE ~fresh \/ x # snap.issuer
    BY <2>2, <1>5, <1>6, <1>8, <1>11
  <2> QED BY <2>1, <2>2
<1>14. ASSUME NEW x \in Devices, Active(m, d), st.adm[x] > m.rem[x]
       PROVE  Active(m, x)
  BY <1>14, <1>7, <1>8, <1>11 DEF Active
<1>15. ASSUME NEW x \in Devices \ {d}, Active(m, d), snap.adm[x] > m.rem[x]
       PROVE  m.adm[x] >= snap.adm[x]
  <2>1. admitted[x] >= snap.adm[x] /\ snap.adm[x] > rem[x]
    BY <1>7, <1>11, <1>15
  <2>2. admitted[x] > rem[x]
    <3>1. admitted[x] \in Int /\ snap.adm[x] \in Int /\ rem[x] \in Int
      BY <1>2, <1>3, <1>4, <1>7
    <3> QED BY <2>1, <3>1
  <2>3. admitted[d] > rem[d]
    BY <1>8, <1>11, <1>15 DEF Active
  <2> QED BY <2>1, <2>2, <2>3, <1>8, <1>11
<1>16. Clean(d, m)
  BY <1>8, <1>11 DEF Clean, Active
<1>17. MergeFacts(d, st, snap, fresh, m)
  BY <1>4, <1>11, <1>12, <1>13, <1>14, <1>15, <1>16 DEF MergeFacts
<1> QED BY <1>17 DEF m

\* What a merge that is not refused does to the store it is applied to: the
\* invariant of the store is kept, removals and the own generation only grow,
\* and each slot is kept (its mark at most taken off), derived, or dropped.
MergeEffect(d, st, snap, fresh, new) ==
    /\ new \in Stores /\ StoreInv(d, new) /\ new.revoked = st.revoked
    /\ \A x \in Devices : new.rem[x] = MaxOf(st.rem[x], snap.rem[x])
    /\ new.adm[d] >= st.adm[d]
    /\ \A x \in Devices \ {d} :
        \/ new.adm[x] \in {Absent, st.adm[x], snap.adm[x]}
        \/ fresh /\ x = snap.issuer /\ new.adm[x] = MaxOf(snap.adm[x], new.rem[x] + 1)
    /\ Active(new, d) => Active(st, d)
    /\ \A x \in Devices :
        \/ new.slots[x] = NoSlot
        \/ new.slots[x].sas = 0 /\ ~new.slots[x].fresh /\ Active(new, d)
        \/ /\ PairingId(new.slots[x]) = PairingId(st.slots[x])
           /\ new.slots[x].fresh => st.slots[x].fresh
           /\ Active(st, d) => Active(new, d)
           /\ Active(st, x) /\ ~st.slots[x].fresh => Active(new, x)

\* The same of the store merge_group goes on with, whose credentials do not follow
\* yet: it can be projected, and the mark of a fresh admission is used up.
LearnedFacts(d, snap, via, l) ==
    LET st == mem[d]
    IN  /\ l \in Stores /\ Projectable(d, l) /\ Clean(d, l) /\ l.revoked = st.revoked
        /\ \A x \in Devices : l.rem[x] = MaxOf(st.rem[x], snap.rem[x])
        /\ l.adm[d] >= st.adm[d]
        /\ \A x \in Devices \ {d} :
             \/ l.adm[x] \in {Absent, st.adm[x], snap.adm[x]}
             \/ /\ Fresh(d, snap, via) /\ x = snap.issuer
                /\ l.adm[x] = MaxOf(snap.adm[x], l.rem[x] + 1)
        /\ \A x \in Devices \ {d} :
             Active(l, d) /\ snap.adm[x] > l.rem[x] => l.adm[x] >= snap.adm[x]
        /\ Active(l, d) => Active(st, d)
        /\ \A x \in Devices : Active(l, d) /\ st.adm[x] > l.rem[x] => Active(l, x)
        /\ \A x \in Devices : PairingId(l.slots[x]) = PairingId(st.slots[x])
        /\ \A x \in Devices : l.slots[x].fresh => st.slots[x].fresh
        /\ via => ~l.slots[snap.issuer].fresh

\* A roster that is not refused does that.
LEMMA LearnedShape ==
    ASSUME NEW d \in Devices, NEW snap \in Snaps, NEW via \in BOOLEAN, snap.issuer # d,
           mem[d] \in Stores, StoreInv(d, mem[d]),
           ~SnapshotRefused(d, mem[d], snap, Fresh(d, snap, via))
    PROVE  LearnedFacts(d, snap, via, Learned(d, snap, via))
<1> DEFINE st == mem[d]
           i == snap.issuer
           fresh == Fresh(d, snap, via)
           m == MergeRoster(d, st, snap, fresh)
           l == Learned(d, snap, via)
<1>0. i \in Devices /\ st.slots[i] \in Slots /\ i # d
  BY DEF Snaps, Stores
<1>1. fresh \in BOOLEAN /\ (fresh => via /\ st.slots[i].fresh)
  BY <1>0 DEF Fresh, Slots
<1> HIDE DEF fresh
<1>1a. MergeFacts(d, st, snap, fresh, m)
  BY <1>1, MergeShape
<1> HIDE DEF m
<1>2. /\ m \in Stores /\ m.slots = st.slots /\ m.revoked = st.revoked
      /\ \A x \in Devices : m.rem[x] = MaxOf(st.rem[x], snap.rem[x])
      /\ m.adm[d] = IF fresh THEN MaxOf(st.adm[d], m.rem[d] + 1) ELSE st.adm[d]
      /\ \A x \in Devices \ {d} :
            \/ m.adm[x] \in {Absent, st.adm[x], snap.adm[x]}
            \/ fresh /\ x = i /\ m.adm[x] = MaxOf(snap.adm[x], m.rem[x] + 1)
      /\ \A x \in Devices : Active(m, d) /\ st.adm[x] > m.rem[x] => Active(m, x)
      /\ \A x \in Devices \ {d} :
            Active(m, d) /\ snap.adm[x] > m.rem[x] => m.adm[x] >= snap.adm[x]
      /\ Clean(d, m)
  BY <1>1a DEF MergeFacts
<1>3. l = IF via THEN [m EXCEPT !.slots[i].fresh = FALSE] ELSE m
  BY DEF Learned, fresh, m
<1> HIDE DEF l
<1>4. ASSUME NEW x \in Devices
      PROVE  /\ st.adm[x] \in Generations /\ st.rem[x] \in Generations /\ st.slots[x] \in Slots
             /\ snap.adm[x] \in Generations /\ snap.rem[x] \in Generations
             /\ m.adm[x] \in Generations /\ m.rem[x] \in Generations
             /\ m.rem[x] >= st.rem[x]
  <2>1. /\ st.adm[x] \in Generations /\ st.rem[x] \in Generations /\ st.slots[x] \in Slots
        /\ snap.adm[x] \in Generations /\ snap.rem[x] \in Generations
        /\ m.adm[x] \in Generations /\ m.rem[x] \in Generations
    BY <1>2 DEF Stores, Rosters, Snaps
  <2>2. m.rem[x] = MaxOf(st.rem[x], snap.rem[x])
    BY <1>2
  <2> QED BY <2>1, <2>2 DEF MaxOf, Generations, Absent
<1>5. /\ l \in Stores /\ l.adm = m.adm /\ l.rem = m.rem /\ l.revoked = m.revoked
      /\ \A x \in Devices : PairingId(l.slots[x]) = PairingId(st.slots[x])
      /\ \A x \in Devices : l.slots[x].fresh => st.slots[x].fresh
      /\ via => ~l.slots[i].fresh
      /\ \A x \in Devices : l.slots[x] \in Slots
  <2>1. CASE ~via
    BY <2>1, <1>2, <1>3, <1>4 DEF PairingId
  <2>2. CASE via
    <3> DEFINE slot == [st.slots[i] EXCEPT !.fresh = FALSE]
    <3>1. slot \in Slots /\ PairingId(slot) = PairingId(st.slots[i]) /\ ~slot.fresh
      BY <1>0 DEF Slots, PairingId
    <3>2. l = [m EXCEPT !.slots = [st.slots EXCEPT ![i] = slot]]
      BY <2>2, <1>2, <1>3 DEF Stores
    <3> HIDE DEF slot
    <3>3. l = [adm |-> m.adm, rem |-> m.rem, slots |-> [st.slots EXCEPT ![i] = slot], revoked |-> m.revoked]
      BY <3>2, <1>2 DEF Stores
    <3>4. st.slots \in [Devices -> Slots]
      BY DEF Stores
    <3>5. l \in Stores /\ l.adm = m.adm /\ l.rem = m.rem /\ l.revoked = m.revoked
      BY <3>3, <3>4, <3>1, <1>2 DEF Stores
    <3>6. \A x \in Devices : l.slots[x] = IF x = i THEN slot ELSE st.slots[x]
      BY <3>3, <3>4
    <3> QED BY <3>1, <3>5, <3>6, <1>0, <1>4
  <2> QED BY <2>1, <2>2
<1>6. st.adm[d] # Absent /\ st.rem[d] <= st.adm[d] /\ m.adm[d] >= st.adm[d]
  <2>1. st.adm[d] # Absent /\ st.rem[d] <= st.adm[d]
    BY DEF StoreInv
  <2>2. m.adm[d] >= st.adm[d]
    BY <1>2, <1>4 DEF MaxOf, Generations, Absent
  <2> QED BY <2>1, <2>2
<1>7. m.rem[d] <= m.adm[d] /\ m.adm[d] # Absent
  <2>1. ~SnapshotRefused(d, st, snap, fresh)
    BY DEF fresh
  <2>2. snap.rem[d] <= st.adm[d]
    BY <2>1, <1>4 DEF SnapshotRefused, Generations, Absent
  <2>3. m.rem[d] <= st.adm[d]
    BY <2>2, <1>2, <1>4, <1>6 DEF MaxOf
  <2> QED BY <2>3, <1>4, <1>6 DEF Generations, Absent
<1>8. \A e \in l.revoked : e[2].sas = 0 => e[2].remote <= l.rem[e[1]]
  <2> SUFFICES ASSUME NEW e \in st.revoked, e[2].sas = 0 PROVE e[2].remote <= m.rem[e[1]]
    BY <1>2, <1>5
  <2>1. e[2].remote <= st.rem[e[1]]
    BY DEF StoreInv
  <2>2. e[1] \in Devices /\ e[2].remote \in Nat
    BY DEF Stores, Ids
  <2> QED BY <2>1, <2>2, <1>4 DEF Generations, Absent
<1>9. Active(l, d) => Active(st, d)
  <2>1. CASE fresh
    BY <2>1, <1>0, <1>1 DEF StoreInv
  <2>2. CASE ~fresh
    BY <2>2, <1>2, <1>4, <1>5 DEF Active, Generations, Absent
  <2> QED BY <1>1, <2>1, <2>2
<1>10. ASSUME NEW x \in Devices
       PROVE  LET s == l.slots[x]
              IN  /\ s.fresh => s.sas > 0
                  /\ s.sas = 0 /\ Active(l, d) /\ ~RemovedDevice(l, x) => Active(l, x)
                  /\ s.sas > 0 => s.local <= l.adm[d] + 1
                  /\ s.sas = Absent => s = NoSlot
  <2> DEFINE s == l.slots[x]  t == st.slots[x]
  <2>1. s.sas = t.sas /\ s.local = t.local /\ s.remote = t.remote /\ s \in Slots /\ t \in Slots
    BY <1>4, <1>5 DEF PairingId
  <2>2. /\ t.fresh => t.sas > 0
        /\ t.sas = 0 => Active(st, x)
        /\ t.sas > 0 => t.local <= st.adm[d] + 1
        /\ t.sas = Absent => t = NoSlot
    BY DEF StoreInv
  <2>3. s.fresh => s.sas > 0
    BY <2>1, <2>2, <1>5
  <2>4. s.sas > 0 => s.local <= l.adm[d] + 1
    BY <2>1, <2>2, <1>4, <1>5, <1>6 DEF Slots, Generations, Absent
  <2>5. s.sas = Absent => s = NoSlot
    <3>1. s.sas = Absent => t = NoSlot /\ ~t.fresh
      BY <2>1, <2>2 DEF NoSlot
    <3>2. s.sas = Absent => s.fresh = FALSE
      BY <3>1, <2>1, <1>5 DEF Slots
    <3> QED BY <3>1, <3>2, <2>1 DEF Slots, NoSlot
  <2>6. ASSUME s.sas = 0, Active(l, d), ~RemovedDevice(l, x) PROVE Active(l, x)
    <3>1. Active(st, x)
      BY <2>6, <2>1, <2>2
    <3>2. Active(m, d) /\ (Active(l, x) <=> Active(m, x))
      BY <2>6, <1>5 DEF Active
    <3>3. CASE m.rem[x] = Absent
      <4>1. st.adm[x] > m.rem[x]
        BY <3>1, <3>3, <1>4 DEF Active, Generations, Absent
      <4> QED BY <4>1, <3>2, <1>2
    <3>4. CASE m.rem[x] # Absent
      BY <3>4, <2>6, <1>5 DEF RemovedDevice
    <3> QED BY <3>3, <3>4
  <2> QED BY <2>3, <2>4, <2>5, <2>6
<1>11. l.slots[d] = NoSlot
  <2>1. st.slots[d] = NoSlot
    BY DEF StoreInv
  <2>2. l.slots[d].sas = Absent
    <3>1. PairingId(l.slots[d]).sas = PairingId(st.slots[d]).sas
      BY <1>5
    <3>2. NoSlot.sas = Absent
      BY DEF NoSlot
    <3> QED BY <2>1, <3>1, <3>2 DEF PairingId
  <2> QED BY <2>2, <1>10
<1>12. Projectable(d, l)
  BY <1>5, <1>7, <1>8, <1>10, <1>11 DEF Projectable
<1>13. Clean(d, l)
  BY <1>2, <1>5 DEF Clean, Active
<1>14. /\ \A x \in Devices \ {d} :
            Active(l, d) /\ snap.adm[x] > l.rem[x] => l.adm[x] >= snap.adm[x]
       /\ \A x \in Devices : Active(l, d) /\ st.adm[x] > l.rem[x] => Active(l, x)
  BY <1>2, <1>5 DEF Active
<1>15. /\ \A x \in Devices : l.rem[x] = MaxOf(st.rem[x], snap.rem[x])
       /\ l.adm[d] >= st.adm[d] /\ l.revoked = st.revoked
       /\ \A x \in Devices \ {d} :
            \/ l.adm[x] \in {Absent, st.adm[x], snap.adm[x]}
            \/ fresh /\ x = snap.issuer /\ l.adm[x] = MaxOf(snap.adm[x], l.rem[x] + 1)
  BY <1>2, <1>5, <1>6
<1>16. LearnedFacts(d, snap, via, l)
  BY <1>5, <1>9, <1>12, <1>13, <1>14, <1>15 DEF LearnedFacts, fresh
<1> QED BY <1>16 DEF l

\* merge_group has that effect.
LEMMA MergedEffect ==
    ASSUME NEW d \in Devices, NEW snap \in Snaps, NEW via \in BOOLEAN, snap.issuer # d,
           mem[d] \in Stores, StoreInv(d, mem[d]), ~MergeFails(d, snap, via)
    PROVE  /\ MergeEffect(d, mem[d], snap, Fresh(d, snap, via), Merged(d, snap, via))
           /\ via => ~Merged(d, snap, via).slots[snap.issuer].fresh
<1> DEFINE st == mem[d]
           i == snap.issuer
           fresh == Fresh(d, snap, via)
           l == Learned(d, snap, via)
           r == Merged(d, snap, via)
<1>0. i \in Devices /\ st.slots[i] \in Slots /\ ~SnapshotRefused(d, st, snap, fresh)
  BY DEF Snaps, Stores, MergeFails
<1>1. fresh \in BOOLEAN /\ (fresh => st.slots[i].fresh)
  BY <1>0 DEF Fresh, Slots
<1>2. /\ l \in Stores /\ Projectable(d, l) /\ l.revoked = st.revoked
      /\ \A x \in Devices : l.rem[x] = MaxOf(st.rem[x], snap.rem[x])
      /\ l.adm[d] >= st.adm[d]
      /\ \A x \in Devices \ {d} :
            \/ l.adm[x] \in {Absent, st.adm[x], snap.adm[x]}
            \/ fresh /\ x = i /\ l.adm[x] = MaxOf(snap.adm[x], l.rem[x] + 1)
      /\ Active(l, d) => Active(st, d)
      /\ \A x \in Devices : Active(l, d) /\ st.adm[x] > l.rem[x] => Active(l, x)
      /\ \A x \in Devices : PairingId(l.slots[x]) = PairingId(st.slots[x])
      /\ \A x \in Devices : l.slots[x].fresh => st.slots[x].fresh
      /\ via => ~l.slots[i].fresh
  <2>1. LearnedFacts(d, snap, via, l)
    BY <1>0, LearnedShape
  <2> HIDE DEF l
  <2> QED BY <2>1 DEF LearnedFacts
<1> HIDE DEF fresh, l
<1>4. \A x \in Devices : st.adm[x] \in Generations /\ st.rem[x] \in Generations
  BY DEF Stores, Rosters
<1>13. CASE l = st
  <2>1. r = st
    BY <1>13 DEF Merged, l
  <2>2. \A x \in Devices \ {d} :
            \/ st.adm[x] \in {Absent, st.adm[x], snap.adm[x]}
            \/ fresh /\ x = i /\ st.adm[x] = MaxOf(snap.adm[x], st.rem[x] + 1)
    OBVIOUS
  <2>3. \A x \in Devices : st.rem[x] = MaxOf(st.rem[x], snap.rem[x])
    BY <1>13, <1>2, <1>2
  <2>4. st.adm[d] >= st.adm[d]
    BY <1>4 DEF Generations, Absent
  <2>5. MergeEffect(d, st, snap, fresh, st)
    BY <2>2, <2>3, <2>4 DEF MergeEffect
  <2> QED BY <2>1, <2>5, <1>2, <1>13 DEF fresh
<1>14. CASE l # st
  <2>1. r = Project(d, l)
    BY <1>14 DEF Merged, l
  <2> HIDE DEF r
  <2>2. r \in Stores /\ r.adm = l.adm /\ r.rem = l.rem /\ r.revoked = l.revoked /\ StoreInv(d, r)
    BY <2>1, <1>2, ProjectShape, ProjectKeepsStore
  <2>3. ASSUME NEW x \in Devices
        PROVE  /\ \/ r.slots[x] = NoSlot
                  \/ r.slots[x].sas = 0 /\ ~r.slots[x].fresh /\ Active(r, d)
                  \/ /\ PairingId(r.slots[x]) = PairingId(st.slots[x])
                     /\ r.slots[x].fresh => st.slots[x].fresh
                     /\ Active(st, d) => Active(r, d)
                     /\ Active(st, x) /\ ~st.slots[x].fresh => Active(r, x)
               /\ r.slots[x].fresh => l.slots[x].fresh
    <3>1. CASE r.slots[x] = NoSlot
      BY <3>1 DEF NoSlot
    <3>2. CASE Active(l, d) /\ r.slots[x] = DerivedSlot(d, l, x)
      BY <3>2, <2>2 DEF DerivedSlot, Active
    <3>3. CASE Active(l, d) /\ SlotSurvives(l, x) /\ r.slots[x] = l.slots[x]
      <4>1. Active(r, d) /\ (Active(r, x) <=> Active(l, x))
        BY <3>3, <2>2 DEF Active
      <4>2. ASSUME Active(st, x), ~st.slots[x].fresh PROVE Active(l, x)
        <5>1. ~RemovedDevice(l, x)
          BY <3>3, <4>2, <1>2 DEF SlotSurvives
        <5>2. CASE l.rem[x] = Absent
          <6>1. st.adm[x] > l.rem[x]
            BY <5>2, <4>2, <1>4 DEF Active, Generations, Absent
          <6> QED BY <6>1, <3>3, <1>2
        <5>3. CASE l.rem[x] # Absent
          BY <5>1, <5>3, <1>2 DEF RemovedDevice, Active
        <5> QED BY <5>2, <5>3
      <4> QED BY <3>3, <4>1, <4>2, <1>2
    <3> QED BY <3>1, <3>2, <3>3, <2>1, <1>2, ProjectShape
  <2>4. Active(r, d) => Active(st, d)
    BY <2>2, <1>2 DEF Active
  <2>5. MergeEffect(d, st, snap, fresh, r)
    BY <2>2, <2>3, <2>4, <1>2, <1>2, <1>2 DEF MergeEffect
  <2> QED BY <2>3, <2>5, <1>0, <1>2 DEF fresh, r
<1> QED BY <1>13, <1>14

-----------------------------------------------------------------------------
(* The other operations on a store.                                        *)

\* Storing, or taking back, a credential that is neither derived nor fresh.
LEMMA SetSlot ==
    ASSUME NEW d \in Devices, NEW x \in Devices, x # d,
           NEW st \in Stores, StoreInv(d, st),
           NEW s \in Slots, ~s.fresh, s = NoSlot \/ (s.sas > 0 /\ s.local <= st.adm[d] + 1)
    PROVE  LET new == [st EXCEPT !.slots[x] = s]
           IN  /\ new \in Stores /\ StoreInv(d, new)
               /\ new.adm = st.adm /\ new.rem = st.rem /\ new.revoked = st.revoked
               /\ \A y \in Devices : new.slots[y] = IF y = x THEN s ELSE st.slots[y]
<1> DEFINE new == [st EXCEPT !.slots[x] = s]
<1>1. st.slots \in [Devices -> Slots]
  BY DEF Stores
<1>2. new = [adm |-> st.adm, rem |-> st.rem, slots |-> [st.slots EXCEPT ![x] = s], revoked |-> st.revoked]
  BY DEF Stores
<1> HIDE DEF new
<1>3. new \in Stores /\ new.adm = st.adm /\ new.rem = st.rem /\ new.revoked = st.revoked
  BY <1>1, <1>2 DEF Stores
<1>4. \A y \in Devices : new.slots[y] = IF y = x THEN s ELSE st.slots[y]
  BY <1>1, <1>2
<1>5. \A y \in Devices : Active(new, y) = Active(st, y)
  BY <1>3 DEF Active
<1>6. s.sas # 0 /\ (s.sas = Absent => s = NoSlot) /\ (s.sas > 0 => s.local <= st.adm[d] + 1)
  BY DEF NoSlot, Absent, Slots
<1>7. StoreInv(d, new)
  BY <1>3, <1>4, <1>5, <1>6 DEF StoreInv
<1> QED BY <1>3, <1>4, <1>7 DEF new

\* unpair and revoke.
LEMMA RemoveEffect ==
    ASSUME NEW d \in Devices, NEW x \in Devices, x # d, mem[d] \in Stores, StoreInv(d, mem[d]),
           NEW new \in {Unpaired(d, x), Revoked(d, x)}
    PROVE  /\ new \in Stores /\ StoreInv(d, new)
           /\ \A y \in Devices \ {x} : new.adm[y] = mem[d].adm[y] /\ new.rem[y] = mem[d].rem[y]
           /\ new.adm[x] = Absent \/ (new.adm[x] = mem[d].adm[x] /\ new.rem[x] = mem[d].rem[x])
           /\ new.rem[x] \in {mem[d].rem[x], MaxOf(mem[d].adm[x], 0)} /\ new.rem[x] >= mem[d].rem[x]
           /\ \A y \in Devices : new.slots[y] = IF y = x THEN NoSlot ELSE mem[d].slots[y]
<1> DEFINE st == mem[d]
           g == MaxOf(st.adm[x], 0)
           r == RemoveMember(d, st, x)
           id == PairingId(st.slots[x])
<1>1. /\ st.adm \in Rosters /\ st.rem \in Rosters /\ st.slots \in [Devices -> Slots]
      /\ st.revoked \subseteq Devices \X Ids /\ st.slots[x] \in Slots
  BY DEF Stores
<1>2. /\ st.adm \in [Devices -> Generations] /\ st.rem \in [Devices -> Generations]
      /\ \A y \in Devices : st.adm[y] \in Generations /\ st.rem[y] \in Generations
  BY <1>1 DEF Rosters
<1>3. g \in Generations /\ g \in Nat /\ g >= st.adm[x] /\ Absent \in Generations
  BY <1>2 DEF MaxOf, Generations, Absent
<1> HIDE DEF g
<1>4. /\ r \in Stores /\ r.slots = st.slots /\ r.revoked = st.revoked
      /\ \A y \in Devices \ {x} : r.adm[y] = st.adm[y] /\ r.rem[y] = st.rem[y]
      /\ r.adm[x] = Absent \/ (r.adm[x] = st.adm[x] /\ r.rem[x] = st.rem[x])
      /\ r.rem[x] \in {st.rem[x], g} /\ r.rem[x] >= st.rem[x] /\ r.rem[x] >= g
  <2>1. CASE st.rem[x] >= g
    <3>1. r = st
      BY <2>1 DEF RemoveMember, g
    <3> QED BY <3>1, <2>1, <1>2 DEF Generations, Absent
  <2>2. CASE ~(st.rem[x] >= g)
    <3>1. r = [st EXCEPT !.rem[x] = g, !.adm[x] = Absent]
      BY <2>2 DEF RemoveMember, g
    <3>2. r = [adm |-> [st.adm EXCEPT ![x] = Absent], rem |-> [st.rem EXCEPT ![x] = g],
               slots |-> st.slots, revoked |-> st.revoked]
      BY <3>1 DEF Stores
    <3> HIDE DEF r
    <3>3. [st.adm EXCEPT ![x] = Absent] \in Rosters /\ [st.rem EXCEPT ![x] = g] \in Rosters
      BY <1>2, <1>3 DEF Rosters
    <3>4. r \in Stores
      BY <3>2, <3>3 DEF Stores
    <3>5. /\ r.adm = [st.adm EXCEPT ![x] = Absent] /\ r.rem = [st.rem EXCEPT ![x] = g]
          /\ r.slots = st.slots /\ r.revoked = st.revoked
      BY <3>2
    <3>6. r.adm[x] = Absent /\ r.rem[x] = g
      BY <3>5, <1>2
    <3>7. \A y \in Devices \ {x} : r.adm[y] = st.adm[y] /\ r.rem[y] = st.rem[y]
      BY <3>5, <1>2
    <3>8. g >= st.rem[x] /\ g >= g
      BY <2>2, <1>2, <1>3 DEF Generations, Absent
    <3> QED BY <3>4, <3>5, <3>6, <3>7, <3>8
  <2> QED BY <2>1, <2>2
<1> HIDE DEF r, id
<1>5. id \in Ids /\ <<x, id>> \in Devices \X Ids /\ id.sas = st.slots[x].sas /\ id.remote = st.slots[x].remote
  BY <1>1 DEF id, PairingId, Ids, Slots
<1>6. PICK rev : /\ rev \in {st.revoked, st.revoked \union {<<x, id>>}}
                 /\ new = [adm |-> r.adm, rem |-> r.rem, slots |-> [st.slots EXCEPT ![x] = NoSlot], revoked |-> rev]
  <2>1. Unpaired(d, x) = [adm |-> r.adm, rem |-> r.rem, slots |-> [st.slots EXCEPT ![x] = NoSlot], revoked |-> st.revoked]
    <3>1. Unpaired(d, x) = [r EXCEPT !.slots[x] = NoSlot]
      BY DEF Unpaired, r
    <3> QED BY <3>1, <1>4 DEF Stores
  <2>2. Revoked(d, x) = [Unpaired(d, x) EXCEPT !.revoked = @ \union {<<x, id>>}]
    BY DEF Revoked, id
  <2>3. Revoked(d, x) = [adm |-> r.adm, rem |-> r.rem, slots |-> [st.slots EXCEPT ![x] = NoSlot],
                         revoked |-> st.revoked \union {<<x, id>>}]
    <3> DEFINE u == Unpaired(d, x)
               all == st.revoked \union {<<x, id>>}
    <3>1. u.revoked = st.revoked
      BY <2>1
    <3>2. Revoked(d, x) = [u EXCEPT !.revoked = all]
      BY <2>2, <3>1
    <3> HIDE DEF all
    <3>3. Revoked(d, x) = [adm |-> r.adm, rem |-> r.rem, slots |-> [st.slots EXCEPT ![x] = NoSlot], revoked |-> all]
      BY <2>1, <3>2
    <3> QED BY <3>3 DEF all
  <2> QED BY <2>1, <2>3
<1>7. rev \subseteq Devices \X Ids
  BY <1>1, <1>5, <1>6
<1>8. [st.slots EXCEPT ![x] = NoSlot] \in [Devices -> Slots]
  BY <1>1, SlotTypes
<1>9. r.adm \in Rosters /\ r.rem \in Rosters
  BY <1>4 DEF Stores
<1>10. new \in Stores /\ new.adm = r.adm /\ new.rem = r.rem /\ new.revoked = rev
  BY <1>6, <1>7, <1>8, <1>9 DEF Stores
<1>11. \A y \in Devices : new.slots[y] = IF y = x THEN NoSlot ELSE st.slots[y]
  BY <1>1, <1>6
<1>12. \A y \in Devices \ {x} : Active(new, y) = Active(st, y)
  BY <1>4, <1>10 DEF Active
<1>13. \A e \in new.revoked : e[2].sas = 0 => e[2].remote <= new.rem[e[1]]
  <2> SUFFICES ASSUME NEW e \in new.revoked, e[2].sas = 0 PROVE e[2].remote <= new.rem[e[1]]
    OBVIOUS
  <2>1. e \in Devices \X Ids
    BY <1>7, <1>10
  <2>2. e[1] \in Devices /\ e[2].remote \in Nat
    BY <2>1 DEF Ids
  <2>3. new.rem[e[1]] >= st.rem[e[1]] /\ new.rem[e[1]] \in Generations /\ st.rem[e[1]] \in Generations
    <3>1. st.rem[e[1]] \in Generations /\ r.rem[e[1]] \in Generations
      BY <2>2, <1>2, <1>9 DEF Rosters
    <3>2. CASE e[1] = x
      BY <3>1, <3>2, <1>4, <1>10
    <3>3. CASE e[1] # x
      BY <3>1, <3>3, <2>2, <1>4, <1>10 DEF Generations, Absent
    <3> QED BY <3>2, <3>3
  <2>4. CASE e \in st.revoked
    <3>1. e[2].remote <= st.rem[e[1]]
      BY <2>4 DEF StoreInv
    <3> QED BY <3>1, <2>2, <2>3 DEF Generations, Absent
  <2>5. CASE e = <<x, id>>
    <3>1. e[1] = x /\ e[2] = id
      BY <2>5
    <3>2. id.remote = st.adm[x]
      BY <3>1, <1>5 DEF StoreInv
    <3>3. r.rem[x] \in Generations
      BY <1>9 DEF Rosters
    <3> QED BY <3>1, <3>2, <3>3, <1>2, <1>3, <1>4, <1>10 DEF Generations, Absent
  <2> QED BY <2>4, <2>5, <1>6, <1>10
<1>14. ASSUME NEW y \in Devices
       PROVE  LET s == new.slots[y]
              IN /\ s.fresh => s.sas > 0 /\ Active(new, d) /\ s.remote > new.rem[y]
                           /\ (Active(new, y) => s.remote = new.adm[y])
                 /\ s.sas = 0 => Active(new, y) /\ s.remote = new.adm[y]
                 /\ s.sas > 0 => s.local <= new.adm[d] + 1
                 /\ s.sas = Absent => s = NoSlot
  <2>1. CASE y = x
    BY <2>1, <1>11 DEF NoSlot, Absent
  <2>2. CASE y # x
    <3>1. /\ new.slots[y] = st.slots[y] /\ new.adm[y] = st.adm[y] /\ new.rem[y] = st.rem[y]
          /\ new.adm[d] = st.adm[d] /\ Active(new, y) = Active(st, y) /\ Active(new, d) = Active(st, d)
      BY <2>2, <1>4, <1>10, <1>11, <1>12
    <3> QED BY <3>1 DEF StoreInv
  <2> QED BY <2>1, <2>2
<1>15. new.slots[d] = NoSlot /\ new.adm[d] # Absent /\ new.rem[d] <= new.adm[d]
  BY <1>4, <1>10, <1>11 DEF StoreInv
<1>16. StoreInv(d, new)
  BY <1>13, <1>14, <1>15 DEF StoreInv
<1> QED BY <1>4, <1>10, <1>11, <1>16 DEF g

\* confirm_group_admission, where it succeeds: the own generation is the one the
\* credential certifies, and only that credential gets its mark.
ConfirmEffect(d, x, st, new) ==
    /\ new \in Stores /\ StoreInv(d, new) /\ new.rem = st.rem /\ new.revoked = st.revoked
    /\ \A y \in Devices \ {d} : new.adm[y] = st.adm[y]
    /\ new.adm[d] = st.slots[x].local /\ new.adm[d] >= st.adm[d] /\ Active(new, d)
    /\ Current(d, new)
    /\ \A y \in Devices :
        \/ new.slots[y] = NoSlot
        \/ new.slots[y].sas = 0 /\ ~new.slots[y].fresh
        \/ /\ PairingId(new.slots[y]) = PairingId(st.slots[y])
           /\ IF y = x THEN new.slots[y].fresh ELSE new.slots[y] = st.slots[y]

\* Confirm has that effect, and fails only where the generation is not above
\* the one the device holds.
LEMMA ConfirmedEffect ==
    ASSUME NEW d \in Devices, mem[d] \in Stores, StoreInv(d, mem[d]),
           side[d].peer \in Devices, side[d].peer # d, side[d].id > 0,
           Pending(d, side[d].peer)
    PROVE  IF Confirmable(d)
           THEN ConfirmEffect(d, side[d].peer, mem[d], Project(d, Certified(d)))
           ELSE mem[d].slots[side[d].peer].local <= mem[d].adm[d]
<1> DEFINE st == mem[d]
           x == side[d].peer
           c == Certified(d)
           g == st.slots[x].local
           s == [st.slots[x] EXCEPT !.fresh = TRUE]
<1>1. /\ st.adm \in Rosters /\ st.rem \in Rosters /\ st.slots \in [Devices -> Slots]
      /\ st.slots[x] \in Slots /\ g \in Nat
  BY DEF Stores, Slots
<1>2. /\ st.adm \in [Devices -> Generations]
      /\ \A y \in Devices : st.adm[y] \in Generations /\ st.rem[y] \in Generations
  BY <1>1 DEF Rosters
<1>3. s \in Slots /\ PairingId(s) = PairingId(st.slots[x]) /\ s.sas = st.slots[x].sas /\ s.local = g /\ s.fresh
  BY <1>1 DEF Slots, PairingId
<1>4. c = [adm |-> [st.adm EXCEPT ![d] = g], rem |-> st.rem,
           slots |-> [st.slots EXCEPT ![x] = s], revoked |-> st.revoked]
  <2>1. c = [st EXCEPT !.adm[d] = g, !.slots[x].fresh = TRUE]
    BY DEF Certified
  <2>2. c = [st EXCEPT !.adm = [st.adm EXCEPT ![d] = g], !.slots = [st.slots EXCEPT ![x] = s]]
    BY <2>1 DEF Stores
  <2> HIDE DEF c, s
  <2> QED BY <2>2 DEF Stores
<1>5. st.slots[x].sas > 0
  BY DEF Pending
<1>6. st.adm[d] # Absent /\ st.rem[d] <= st.adm[d] /\ g <= st.adm[d] + 1
  BY <1>5 DEF StoreInv
<1> HIDE DEF c, s
<1>7. [st.adm EXCEPT ![d] = g] \in Rosters /\ [st.slots EXCEPT ![x] = s] \in [Devices -> Slots]
  BY <1>1, <1>2, <1>3 DEF Rosters, Generations
<1>8. c \in Stores /\ c.rem = st.rem /\ c.revoked = st.revoked
  BY <1>4, <1>7, <1>1 DEF Stores
<1>9. \A y \in Devices : c.adm[y] = IF y = d THEN g ELSE st.adm[y]
  BY <1>4, <1>2
<1>10. \A y \in Devices : c.slots[y] = IF y = x THEN s ELSE st.slots[y]
  BY <1>4, <1>1
<1>11. ASSUME CheckLocalAdmission(d, st, g)
       PROVE  Active(c, d) /\ g >= st.adm[d] /\ Projectable(d, c)
  <2>1. g >= DesiredAdmission(st, d)
    BY <1>11 DEF CheckLocalAdmission
  <2>2. g > st.rem[d] /\ g >= st.adm[d]
    <3>1. CASE Active(st, d)
      BY <3>1, <2>1, <1>1, <1>2, <1>6 DEF DesiredAdmission, Active, Generations, Absent
    <3>2. CASE ~Active(st, d)
      BY <3>2, <2>1, <1>1, <1>2, <1>6 DEF DesiredAdmission, Active, Generations, Absent
    <3> QED BY <3>1, <3>2
  <2>3. Active(c, d)
    BY <2>2, <1>8, <1>9 DEF Active
  <2>4. \A y \in Devices \ {d} : Active(c, y) = Active(st, y)
    BY <1>8, <1>9 DEF Active
  <2>5. c.slots[d] = NoSlot /\ c.adm[d] # Absent /\ c.rem[d] <= c.adm[d]
    <3>1. c.slots[d] = NoSlot
      BY <1>10 DEF StoreInv
    <3>2. c.adm[d] = g /\ c.rem[d] = st.rem[d]
      BY <1>8, <1>9
    <3> QED BY <3>1, <3>2, <2>2, <1>1, <1>2 DEF Generations, Absent
  <2>6. \A e \in c.revoked : e[2].sas = 0 => e[2].remote <= c.rem[e[1]]
    BY <1>8 DEF StoreInv
  <2>7. ASSUME NEW y \in Devices
        PROVE  LET t == c.slots[y]
               IN  /\ t.fresh => t.sas > 0
                   /\ t.sas = 0 /\ Active(c, d) /\ ~RemovedDevice(c, y) => Active(c, y)
                   /\ t.sas > 0 => t.local <= c.adm[d] + 1
                   /\ t.sas = Absent => t = NoSlot
    <3>1. CASE y = x
      <4>1. c.slots[y] = s /\ s.sas > 0 /\ s.local = g /\ c.adm[d] = g
        BY <3>1, <1>3, <1>5, <1>9, <1>10
      <4>2. s.local <= c.adm[d] + 1 /\ s.sas # 0 /\ s.sas # Absent
        <5>1. s.sas \in Nat \union {Absent} /\ g \in Nat
          BY <1>1, <1>3 DEF Slots
        <5> QED BY ONLY <4>1, <5>1 DEF Absent
      <4> QED BY <4>1, <4>2
    <3>2. CASE y # x
      <4> DEFINE t == st.slots[y]
      <4>1. /\ t.fresh => t.sas > 0
            /\ t.sas = 0 => Active(st, y)
            /\ t.sas > 0 => t.local <= st.adm[d] + 1
            /\ t.sas = Absent => t = NoSlot
        BY DEF StoreInv
      <4>2. c.slots[y] = t /\ t \in Slots /\ c.adm[d] = g
        BY <3>2, <1>1, <1>9, <1>10
      <4>3. t.sas > 0 => t.local <= g + 1
        BY <4>1, <4>2, <2>2, <1>1, <1>2 DEF Slots, Generations, Absent
      <4>4. t.sas = 0 => Active(c, y)
        BY <4>1, <2>3, <2>4
      <4> QED BY <4>1, <4>2, <4>3, <4>4
    <3> QED BY <3>1, <3>2
  <2> QED BY <2>2, <2>3, <2>5, <2>6, <2>7 DEF Projectable
<1>12. CASE Confirmable(d)
  <2>1. CheckLocalAdmission(d, st, g)
    BY <1>12 DEF Confirmable
  <2>2. Active(c, d) /\ g >= st.adm[d] /\ Projectable(d, c)
    BY <2>1, <1>11
  <2> DEFINE p == Project(d, c)
  <2>3. p \in Stores /\ p.adm = c.adm /\ p.rem = c.rem /\ p.revoked = c.revoked /\ StoreInv(d, p)
        /\ Current(d, p)
    BY <2>2, <1>8, ProjectShape, ProjectKeepsStore, ProjectCurrent
  <2>4. ASSUME NEW y \in Devices
        PROVE  \/ p.slots[y] = NoSlot
               \/ p.slots[y].sas = 0 /\ ~p.slots[y].fresh
               \/ /\ PairingId(p.slots[y]) = PairingId(st.slots[y])
                  /\ IF y = x THEN p.slots[y].fresh ELSE p.slots[y] = st.slots[y]
    <3>1. p.slots[y] = NoSlot \/ p.slots[y] = DerivedSlot(d, c, y) \/ p.slots[y] = c.slots[y]
      BY <1>8, ProjectShape
    <3>2. CASE p.slots[y] = DerivedSlot(d, c, y)
      BY <3>2 DEF DerivedSlot
    <3> HIDE DEF p
    <3>3. CASE p.slots[y] = c.slots[y]
      BY <3>3, <1>3, <1>10
    <3> QED BY <3>1, <3>2, <3>3
  <2> HIDE DEF p
  <2>5. Active(p, d) /\ p.adm[d] = g /\ p.rem = st.rem /\ p.revoked = st.revoked
    BY <2>2, <2>3, <1>8, <1>9 DEF Active
  <2>6. \A y \in Devices \ {d} : p.adm[y] = st.adm[y]
    BY <2>3, <1>9
  <2>7. ConfirmEffect(d, x, st, p)
    BY <2>2, <2>3, <2>4, <2>5, <2>6 DEF ConfirmEffect
  <2> QED BY <1>12, <2>7 DEF p, c
<1>13. CASE ~Confirmable(d)
  <2>1. ~CheckLocalAdmission(d, st, g)
    <3>1. CheckLocalAdmission(d, st, g) => ~ProjectionFails(d, c)
      BY <1>8, <1>11, ProjectionNeverFails
    <3> QED BY <3>1, <1>13 DEF Confirmable, c
  <2>2. ~(g >= DesiredAdmission(st, d))
    BY <2>1, <1>6 DEF CheckLocalAdmission
  <2>3. g <= st.adm[d]
    <3>1. CASE Active(st, d)
      BY <3>1, <2>2, <1>1, <1>2, <1>6 DEF DesiredAdmission, Generations, Absent
    <3>2. CASE ~Active(st, d)
      BY <3>2, <2>2, <1>1, <1>2, <1>6 DEF DesiredAdmission, Generations, Absent
    <3> QED BY <3>1, <3>2
  <2> QED BY <2>3, <1>13
<1> QED BY <1>12, <1>13

-----------------------------------------------------------------------------
(* What a step has to respect.                                             *)

\* A device's own generation only grows, and what was lost stays lost.
Grows ==
    /\ unconfirmed \subseteq unconfirmed'
    /\ \A x \in Devices : mem'[x].adm[x] >= mem[x].adm[x]

\* Types of what a device holds, as the steps below need them.
LEMMA HeldTypes ==
    ASSUME Types, NEW d \in Devices, NEW x \in Devices
    PROVE  /\ mem[d] \in Stores /\ disk[d] \in Stores
           /\ mem[d].adm[x] \in Generations /\ mem[d].rem[x] \in Generations
           /\ disk[d].adm[x] \in Generations /\ disk[d].rem[x] \in Generations
           /\ mem[d].slots[x] \in Slots /\ disk[d].slots[x] \in Slots
           /\ PairingId(mem[d].slots[x]) \in Ids /\ PairingId(disk[d].slots[x]) \in Ids
<1>1. mem[d] \in Stores /\ disk[d] \in Stores
  BY DEF Types
<1>2. /\ mem[d].adm[x] \in Generations /\ mem[d].rem[x] \in Generations
      /\ disk[d].adm[x] \in Generations /\ disk[d].rem[x] \in Generations
      /\ mem[d].slots[x] \in Slots /\ disk[d].slots[x] \in Slots
  BY <1>1 DEF Stores, Rosters
<1> QED BY <1>1, <1>2 DEF PairingId, Slots, Ids

\* The same after a step.
LEMMA HeldTypesNext ==
    ASSUME Types', NEW d \in Devices, NEW x \in Devices
    PROVE  /\ mem'[d] \in Stores /\ disk'[d] \in Stores
           /\ mem'[d].adm[x] \in Generations /\ mem'[d].rem[x] \in Generations
           /\ mem'[d].slots[x] \in Slots /\ disk'[d].slots[x] \in Slots
           /\ PairingId(mem'[d].slots[x]) \in Ids /\ PairingId(disk'[d].slots[x]) \in Ids
<1>1. mem'[d] \in Stores /\ disk'[d] \in Stores
  BY DEF Types
<1>2. /\ mem'[d].adm[x] \in Generations /\ mem'[d].rem[x] \in Generations
      /\ mem'[d].slots[x] \in Slots /\ disk'[d].slots[x] \in Slots
  BY <1>1 DEF Stores, Rosters
<1> QED BY <1>1, <1>2 DEF PairingId, Slots, Ids

\* A roster that was bounded stays so.
LEMMA BoundedGrows ==
    ASSUME Types, Types', Grows, NEW r, r.adm \in Rosters, r.rem \in Rosters, Bounded(r)
    PROVE  \A x \in Devices \ unconfirmed' : r.adm[x] <= mem'[x].adm[x] /\ r.rem[x] <= mem'[x].adm[x]
<1> SUFFICES ASSUME NEW x \in Devices \ unconfirmed'
             PROVE  r.adm[x] <= mem'[x].adm[x] /\ r.rem[x] <= mem'[x].adm[x]
  OBVIOUS
<1>1. x \notin unconfirmed /\ mem'[x].adm[x] >= mem[x].adm[x]
  BY DEF Grows
<1>2. r.adm[x] <= mem[x].adm[x] /\ r.rem[x] <= mem[x].adm[x]
  BY <1>1 DEF Bounded, Own
<1>3. mem[x].adm[x] \in Generations /\ mem'[x].adm[x] \in Generations
  BY DEF Types, Stores, Rosters
<1>4. r.adm[x] \in Generations /\ r.rem[x] \in Generations
  BY DEF Rosters
<1> QED BY <1>1, <1>2, <1>3, <1>4 DEF Generations, Absent

\* Rosters travel: what is published, uploaded or sent is a roster some device
\* held, and is bounded if those are.
LEMMA RostersKept ==
    ASSUME Types, Types', RostersBounded, Grows,
           \A d \in Devices : \A x \in Devices \ unconfirmed' :
               mem'[d].adm[x] <= mem'[x].adm[x] /\ mem'[d].rem[x] <= mem'[x].adm[x],
           \A d \in Devices : cloud'[d] \in {cloud[d], outgoing[d]},
           \A d \in Devices : outgoing'[d] \in {outgoing[d], NotPublished, Snapshot(d, mem[d])},
           \/ session' = NoSession
           \/ session # NoSession /\ session'.snap = session.snap
           \/ \E d \in Devices : session'.snap = Snapshot(d, mem'[d])
    PROVE  RostersBounded'
<1> DEFINE B(r) == \A x \in Devices \ unconfirmed' :
                       r.adm[x] <= mem'[x].adm[x] /\ r.rem[x] <= mem'[x].adm[x]
<1>1. \A d \in Devices : B(mem'[d])
  OBVIOUS
<1>2. ASSUME NEW d \in Devices, NEW r \in {cloud[d], outgoing[d]}, r # NotPublished
      PROVE  B(r)
  <2>1. r.adm \in Rosters /\ r.rem \in Rosters
    BY <1>2 DEF Types, Snaps
  <2>2. Bounded(r)
    BY <1>2 DEF RostersBounded
  <2> QED BY <2>1, <2>2, BoundedGrows
<1>3. ASSUME NEW d \in Devices PROVE B(Snapshot(d, mem[d]))
  <2>1. mem[d].adm \in Rosters /\ mem[d].rem \in Rosters
    BY DEF Types, Stores
  <2>2. Bounded(mem[d])
    BY DEF RostersBounded
  <2>3. B(mem[d])
    BY <2>1, <2>2, BoundedGrows
  <2> QED BY <2>3 DEF Snapshot
<1>4. session' # NoSession => B(session'.snap)
  <2>1. CASE session # NoSession /\ session'.snap = session.snap
    <3>1. session.snap.adm \in Rosters /\ session.snap.rem \in Rosters
      BY <2>1 DEF Types, Sessions, Snaps
    <3>2. Bounded(session.snap)
      BY <2>1 DEF RostersBounded
    <3>3. B(session.snap)
      BY <3>1, <3>2, BoundedGrows
    <3> QED BY <2>1, <3>3
  <2>2. CASE \E d \in Devices : session'.snap = Snapshot(d, mem'[d])
    BY <2>2, <1>1 DEF Snapshot
  <2> QED BY <2>1, <2>2
<1>5. \A d \in Devices : cloud'[d] # NotPublished => B(cloud'[d])
  BY <1>2
<1>6. \A d \in Devices : outgoing'[d] # NotPublished => B(outgoing'[d])
  BY <1>2, <1>3
<1> QED BY <1>1, <1>4, <1>5, <1>6 DEF RostersBounded, Bounded, Own

\* A step that starts no ceremony and brings no credential but derived ones
\* keeps what is known of ceremonies, provided a device that leaves one has
\* certified the generation its credential names, or lost the confirmation.
LEMMA CeremoniesKept ==
    ASSUME Types, Types', SidesInv, SlotsInv, Grows, ceremonies' = ceremonies,
           \A d, x \in Devices : \A id \in Held(d, x)' : id.sas <= 0 \/ id \in Held(d, x),
           \A d \in Devices : side'[d] \in {side[d], NoSide},
           \A d \in Devices : Pairing(d) /\ side'[d] = NoSide =>
               \/ d \in unconfirmed'
               \/ \A x \in Devices : \A id \in Held(d, x)' :
                      id.sas = side[d].id => id.local <= mem'[d].adm[d],
           \A d, x \in Devices : mem'[d].slots[x].sas > 0 /\ side'[d] # NoSide =>
               /\ mem'[d].slots[x].sas = mem[d].slots[x].sas
               /\ mem'[d].slots[x].fresh => mem[d].slots[x].fresh
    PROVE  SidesInv' /\ SlotsInv'
<1>1. ASSUME NEW d \in Devices, side'[d] # NoSide
      PROVE  Pairing(d) /\ side'[d] = side[d] /\ SideInv(d) /\ side[d] \in Sides
  BY <1>1 DEF SidesInv, Pairing, Types
<1>2. SidesInv'
  <2> SUFFICES ASSUME NEW d \in Devices, side'[d] # NoSide PROVE SideInv(d)'
    BY DEF SidesInv, Pairing
  <2>1. side'[d] = side[d] /\ SideInv(d) /\ side[d] \in Sides
    BY <1>1
  <2>2. side[d].id \in Nat /\ side[d].id > 0 /\ side[d].peer \in Devices
    BY <2>1 DEF Sides
  <2>3. side'[d].id <= ceremonies' /\ side'[d].peer # d
    BY <2>1 DEF SideInv
  <2>4. \A x \in Devices \ {d} : side'[x] # NoSide /\ side'[x].id = side'[d].id =>
            side'[d].peer = x /\ side'[x].mine = side'[d].theirs /\ side'[x].theirs = side'[d].mine
    BY <1>1, <2>1 DEF SideInv
  <2>5. \A x \in Devices : \A id \in Held(d, x)' :
            id.sas = side'[d].id => x = side'[d].peer /\ side'[d].stored
    BY <2>1, <2>2 DEF SideInv
  <2>6. \A x \in Devices : mem'[d].slots[x].sas = side'[d].id => ~mem'[d].slots[x].fresh
    BY <2>1, <2>2 DEF SideInv
  <2>7. ASSUME NEW p \in Devices, p = side[d].peer,
               NEW id \in {PairingId(mem'[p].slots[d]), PairingId(disk'[p].slots[d])},
               id.sas = side[d].id
        PROVE  /\ id.local = Agree(side[d].theirs, side[d].mine).local
               /\ id.remote = Agree(side[d].theirs, side[d].mine).remote
    <3>1. id \in Held(p, d)'
      BY DEF Held
    <3>2. id \in Held(p, d)
      BY <2>2, <2>7, <3>1
    <3> QED BY <3>2, <2>1, <2>7 DEF SideInv
  <2>8. \A id \in {PairingId(mem'[side'[d].peer].slots[d]), PairingId(disk'[side'[d].peer].slots[d])} :
            id.sas = side'[d].id =>
                /\ id.local = Agree(side'[d].theirs, side'[d].mine).local
                /\ id.remote = Agree(side'[d].theirs, side'[d].mine).remote
    BY <2>1, <2>2, <2>7
  <2> QED BY <2>3, <2>4, <2>5, <2>6, <2>8 DEF SideInv, Pairing, Held
<1>3. ASSUME NEW d \in Devices, NEW x \in Devices, NEW id \in Held(d, x)', id.sas > 0
      PROVE  /\ id.sas <= ceremonies'
             /\ \A other \in Held(x, d)' : other.sas = id.sas => other = Mirrored(id)
             /\ \/ d \in unconfirmed'
                \/ side'[d] # NoSide /\ side'[d].id = id.sas
                \/ id.local <= mem'[d].adm[d]
  <2>0. id \in Ids
    BY HeldTypesNext, <1>3 DEF Held
  <2>1. id \in Held(d, x)
    BY <1>3, <2>0 DEF Ids, Absent
  <2>2. /\ id.sas <= ceremonies
        /\ \A other \in Held(x, d) : other.sas = id.sas => other = Mirrored(id)
        /\ \/ d \in unconfirmed
           \/ Pairing(d) /\ side[d].id = id.sas
           \/ id.local <= mem[d].adm[d]
    BY <1>3, <2>1 DEF SlotsInv, Own
  <2>3. \A other \in Held(x, d)' : other.sas = id.sas => other \in Held(x, d)
    BY <1>3, <2>0 DEF Ids, Absent
  <2>4. \/ d \in unconfirmed'
        \/ side'[d] # NoSide /\ side'[d].id = id.sas
        \/ id.local <= mem'[d].adm[d]
    <3>1. CASE d \in unconfirmed
      BY <3>1 DEF Grows
    <3>2. CASE Pairing(d) /\ side[d].id = id.sas
      BY <3>2 DEF Pairing
    <3>3. CASE id.local <= mem[d].adm[d]
      <4>1. mem[d].adm[d] \in Generations /\ mem'[d].adm[d] \in Generations
        BY DEF Types, Stores, Rosters
      <4> QED BY <3>3, <4>1, <2>0 DEF Grows, Ids, Generations, Absent
    <3> QED BY <2>2, <3>1, <3>2, <3>3
  <2> QED BY <2>2, <2>3, <2>4
<1>4. SlotsInv'
  BY <1>3 DEF SlotsInv, Own, Pairing, Held, Mirrored
<1> QED BY <1>2, <1>4

\* What a step does to the credential d holds for x: it is dropped, derived,
\* kept as it was, stored by a ceremony, or confirmed by one.
SlotStep(d, x) ==
    LET old == mem[d].slots[x]  new == mem'[d].slots[x]
    IN  \/ new = NoSlot
        \/ new.sas = 0 /\ ~new.fresh /\ Active(mem'[d], d)
        \/ /\ PairingId(new) = PairingId(old)
           /\ new.fresh => old.fresh
           /\ Active(mem[d], d) => Active(mem'[d], d)
           /\ Active(mem[d], x) /\ ~old.fresh => Active(mem'[d], x)
        \/ new.sas = side[d].id /\ Pairing(d) /\ ~side[d].stored
        \/ /\ PairingId(new) = PairingId(old)
           /\ Pairing(d) /\ side[d].id = old.sas /\ side'[d] = NoSide
           /\ Active(mem'[d], d)
           /\ Active(mem[d], x) => x \in unconfirmed' \/ new.remote <= mem'[x].adm[x]

\* A half of a ceremony is kept, stored, ended, or begins.
SideStep(d) ==
    \/ side'[d] \in {side[d], NoSide}
    \/ side'[d].id > ceremonies
    \/ Pairing(d) /\ side'[d].id = side[d].id /\ side'[d].stored

\* One end of an exchange, over such a step.
LEMMA EndKept ==
    ASSUME Types, Types', SidesInv, Grows, NEW d \in Devices, NEW x \in Devices, NEW id \in Ids,
           id.sas # Absent, id.sas <= ceremonies, EndInv(d, x, id), SlotStep(d, x), SideStep(d)
    PROVE  EndInv(d, x, id)'
<1> DEFINE old == mem[d].slots[x]  new == mem'[d].slots[x]
           now == side'[d] # NoSide /\ side'[d].id = id.sas
<1>1. old \in Slots /\ new \in Slots /\ mem[x].adm[x] \in Generations /\ mem'[x].adm[x] \in Generations
  BY HeldTypes, HeldTypesNext
<1>2. now => side'[d].stored /\ Pairing(d) /\ side[d].id = id.sas
  <2>1. now => ~(side'[d].id > ceremonies)
    BY DEF Ids, Types
  <2> QED BY <2>1 DEF SideStep, EndInv, Pairing
<1>3. now => side[d] \in Sides /\ id.sas > 0
  BY <1>2 DEF Types, Pairing, Sides
<1>4. ASSUME PairingId(new) = id
      PROVE  /\ Active(mem'[d], d)
             /\ now => Active(mem'[d], x)
             /\ new.fresh => x \in unconfirmed' \/ id.remote <= mem'[x].adm[x]
  <2>1. new.sas = id.sas /\ new.remote = id.remote
    BY <1>4 DEF PairingId
  <2>2. CASE new = NoSlot
    BY <2>1, <2>2 DEF NoSlot
  <2>3. CASE new.sas = 0 /\ ~new.fresh /\ Active(mem'[d], d)
    BY <2>1, <2>3, <1>3
  <2>4. CASE /\ PairingId(new) = PairingId(old)
             /\ new.fresh => old.fresh
             /\ Active(mem[d], d) => Active(mem'[d], d)
             /\ Active(mem[d], x) /\ ~old.fresh => Active(mem'[d], x)
    <3>1. /\ Active(mem[d], d)
          /\ Pairing(d) /\ side[d].id = id.sas => Active(mem[d], x)
          /\ old.fresh => x \in unconfirmed \/ id.remote <= mem[x].adm[x]
      BY <1>4, <2>4 DEF EndInv, Own
    <3>2. now => ~old.fresh
      <4>1. old.sas = id.sas
        BY <2>4, <1>4 DEF PairingId
      <4> QED BY <4>1, <1>2 DEF SidesInv, SideInv
    <3>3. id.remote <= mem[x].adm[x] => id.remote <= mem'[x].adm[x]
      BY <1>1 DEF Grows, Ids, Generations, Absent
    <3> QED BY <2>4, <3>1, <3>2, <3>3, <1>2 DEF Grows
  <2>5. CASE new.sas = side[d].id /\ Pairing(d) /\ ~side[d].stored
    BY <2>1, <2>5 DEF EndInv
  <2>6. CASE /\ PairingId(new) = PairingId(old)
             /\ Pairing(d) /\ side[d].id = old.sas /\ side'[d] = NoSide
             /\ Active(mem'[d], d)
             /\ Active(mem[d], x) => x \in unconfirmed' \/ new.remote <= mem'[x].adm[x]
    <3>1. PairingId(old) = id /\ old.sas = id.sas
      BY <1>4, <2>6 DEF PairingId
    <3>2. Active(mem[d], x)
      BY <3>1, <2>6 DEF EndInv
    <3> QED BY <2>1, <2>6, <3>2
  <2> QED BY <2>2, <2>3, <2>4, <2>5, <2>6 DEF SlotStep
<1> QED BY <1>2, <1>4 DEF EndInv, Pairing, Own

\* The exchange under way, over a step that is not its own.
LEMMA SessionKept ==
    ASSUME Types, Types', SidesInv, SessionInv, Grows, session' = session,
           ceremonies' >= ceremonies,
           \A d \in Devices : SideStep(d),
           session # NoSession =>
               SlotStep(session.from, session.to) /\ SlotStep(session.to, session.from)
    PROVE  SessionInv'
<1> SUFFICES ASSUME session # NoSession PROVE SessionInv'
  BY DEF SessionInv
<1>1. session \in Sessions
  BY DEF Types
<1>2. PICK d \in Devices, x \in Devices, i \in Ids, j \in Ids :
        d = session.from /\ x = session.to /\ i = session.fromId /\ j = session.toId
  BY <1>1 DEF Sessions
<1>3. /\ d # x /\ EndInv(d, x, i) /\ EndInv(x, d, j)
      /\ i.sas # Absent /\ j.sas # Absent /\ i.sas <= ceremonies /\ j.sas <= ceremonies
      /\ Pairing(d) => side[d].id # i.sas
      /\ session.snap.issuer = IF session.stage = "request" THEN d ELSE x
      /\ session.stage = "request" => d \in unconfirmed \/ session.snap.rem[d] < Own(d)
      /\ PairingId(mem[d].slots[x]) = i /\ mem[d].slots[x].fresh =>
                    x \in unconfirmed \/ session.snap.rem[x] < Own(x)
  BY <1>2 DEF SessionInv
<1>4. SlotStep(d, x) /\ SlotStep(x, d) /\ SideStep(d) /\ SideStep(x)
  BY <1>2
<1>5. EndInv(d, x, i)' /\ EndInv(x, d, j)'
  BY <1>3, <1>4, EndKept
<1>6. i.sas <= ceremonies' /\ j.sas <= ceremonies'
  BY <1>3 DEF Types, Ids, Absent
<1>7. side'[d] # NoSide => side'[d].id # i.sas
  <2>1. ~(side'[d].id > ceremonies /\ side'[d].id = i.sas)
    BY <1>3 DEF Ids, Types, Absent
  <2> QED BY <2>1, <1>3, <1>4 DEF SideStep, Pairing
<1>8. ASSUME NEW y \in Devices
      PROVE  /\ session.snap.rem[y] < mem[y].adm[y] => session.snap.rem[y] < mem'[y].adm[y]
             /\ y \in unconfirmed => y \in unconfirmed'
  <2>1. session.snap.rem[y] \in Generations /\ mem[y].adm[y] \in Generations /\ mem'[y].adm[y] \in Generations
    BY <1>1, HeldTypes, HeldTypesNext DEF Sessions, Snaps, Rosters
  <2> QED BY <2>1 DEF Grows, Generations, Absent
<1>9. session.stage = "request" => d \in unconfirmed' \/ session.snap.rem[d] < mem'[d].adm[d]
  BY <1>3, <1>8 DEF Own
<1>10. PairingId(mem'[d].slots[x]) = i /\ mem'[d].slots[x].fresh =>
           x \in unconfirmed' \/ session.snap.rem[x] < mem'[x].adm[x]
  <2> SUFFICES ASSUME PairingId(mem'[d].slots[x]) = i, mem'[d].slots[x].fresh
               PROVE  PairingId(mem[d].slots[x]) = i /\ mem[d].slots[x].fresh
    BY <1>3, <1>8 DEF Own
  <2> DEFINE old == mem[d].slots[x]  new == mem'[d].slots[x]
  <2>1. new.sas = i.sas /\ new # NoSlot
    <3>1. new.sas = i.sas
      BY DEF PairingId
    <3> QED BY <3>1, <1>3 DEF NoSlot
  <2>2. ~(Pairing(d) /\ side[d].id = new.sas)
    BY <2>1, <1>3
  <2>3. PairingId(new) = PairingId(old) => old.sas = new.sas
    BY DEF PairingId
  <2> QED BY <2>1, <2>2, <2>3, <1>4 DEF SlotStep
<1> QED BY <1>2, <1>3, <1>5, <1>6, <1>7, <1>9, <1>10 DEF SessionInv, EndInv, Pairing, Own

-----------------------------------------------------------------------------
(* The initial states.                                                     *)

\* A store at the start is a store, of generation 0 for every member.
LEMMA FirstStores ==
    ASSUME NEW d \in Devices, NEW st \in {Alone(d), Member(d)}
    PROVE  /\ st \in Stores /\ StoreInv(d, st)
           /\ \A x \in Devices : st.adm[x] <= 0 /\ st.rem[x] <= 0
           /\ st.adm[d] = 0
           /\ \A x \in Devices : st.slots[x].sas <= 0
<1>1. 0 \in Generations /\ Absent \in Generations /\ Absent <= 0
  BY DEF Generations, Absent
<1>2. CASE st = Alone(d)
  <2>1. st \in Stores
    BY <1>1, <1>2, SlotTypes DEF Alone, Stores, Rosters
  <2>2. \A x \in Devices : /\ st.adm[x] = IF x = d THEN 0 ELSE Absent
                           /\ st.rem[x] = Absent /\ st.slots[x] = NoSlot
    BY <1>2 DEF Alone
  <2>3. st.revoked = {}
    BY <1>2 DEF Alone
  <2> QED BY <2>1, <2>2, <2>3 DEF StoreInv, NoSlot, Absent
<1>3. CASE st = Member(d)
  <2> DEFINE s == [sas |-> 0, local |-> 0, remote |-> 0, fresh |-> FALSE]
             f == [x \in Devices |-> IF x = d THEN NoSlot ELSE s]
  <2>1. s \in Slots /\ s = [NoSlot EXCEPT !.sas = 0]
    <3>1. s \in Slots
      BY DEF Slots
    <3> DEFINE e == [NoSlot EXCEPT !.sas = 0]
    <3>2. NoSlot \in Slots /\ NoSlot.local = 0 /\ NoSlot.remote = 0 /\ NoSlot.fresh = FALSE
      BY SlotTypes DEF NoSlot
    <3>3. e \in Slots /\ e.sas = 0 /\ e.local = 0 /\ e.remote = 0 /\ e.fresh = FALSE
      BY <3>2 DEF Slots
    <3> HIDE DEF e
    <3>4. e = s
      BY <3>3 DEF Slots
    <3> QED BY <3>1, <3>4 DEF e
  <2>2. st = [adm |-> [x \in Devices |-> 0], rem |-> [x \in Devices |-> Absent],
              slots |-> [x \in Devices |-> IF x = d THEN NoSlot ELSE [NoSlot EXCEPT !.sas = 0]],
              revoked |-> {}]
    BY <1>3 DEF Member, Alone
  <2>3. st = [adm |-> [x \in Devices |-> 0], rem |-> [x \in Devices |-> Absent],
              slots |-> f, revoked |-> {}]
    BY <2>1, <2>2
  <2>4. f \in [Devices -> Slots]
    BY <2>1, SlotTypes
  <2>5. st \in Stores
    BY <1>1, <2>3, <2>4 DEF Stores, Rosters
  <2>6. \A x \in Devices : /\ st.adm[x] = 0 /\ st.rem[x] = Absent
                           /\ st.slots[x] = IF x = d THEN NoSlot ELSE s
    BY <2>3
  <2>7. st.revoked = {}
    BY <2>3
  <2>8. \A x \in Devices : Active(st, x)
    BY <2>6 DEF Active, Absent
  <2>9. ASSUME NEW x \in Devices
        PROVE  /\ ~st.slots[x].fresh
               /\ st.slots[x].sas = 0 => st.slots[x].remote = 0
               /\ st.slots[x].sas <= 0 /\ ~(st.slots[x].sas > 0)
               /\ st.slots[x].sas = Absent => st.slots[x] = NoSlot
    BY <2>6 DEF NoSlot, Absent
  <2> HIDE DEF s, f
  <2>10. StoreInv(d, st)
    <3>1. st.slots[d] = NoSlot /\ st.adm[d] # Absent /\ st.rem[d] <= st.adm[d]
      BY <2>6 DEF Absent
    <3>2. \A x \in Devices : st.adm[x] = 0
      BY <2>6
    <3> QED BY <3>1, <3>2, <2>7, <2>8, <2>9 DEF StoreInv
  <2> QED BY <1>1, <2>5, <2>6, <2>9, <2>10
<1> QED BY <1>2, <1>3

\* The invariant holds at the start.
LEMMA InitInv == Init => MembershipInv
<1> SUFFICES ASSUME Init PROVE MembershipInv
  OBVIOUS
<1>1. PICK new \in Newcomers :
        /\ mem = [d \in Devices |-> IF d \in new THEN Alone(d) ELSE Member(d)]
        /\ downloaded = [d \in Devices |-> IF d \in new THEN {} ELSE Devices \ {d}]
  BY DEF Init
<1>2. \A d \in Devices : mem[d] \in {Alone(d), Member(d)}
  BY <1>1
<1>3. \A d \in Devices : mem[d] \in Stores /\ StoreInv(d, mem[d]) /\ mem[d].adm[d] = 0
  BY <1>2, FirstStores
<1>4. \A d, x \in Devices : mem[d].adm[x] <= 0 /\ mem[d].rem[x] <= 0 /\ mem[d].slots[x].sas <= 0
  BY <1>2, FirstStores
<1>5. mem \in [Devices -> Stores] /\ disk = mem
  BY <1>1, <1>3 DEF Init
<1>6. \A d \in Devices : Snapshot(d, mem[d]) \in Snaps /\ Snapshot(d, mem[d]).issuer = d
  BY <1>3 DEF Snapshot, Snaps, Stores
<1>7. DOMAIN cloud = Devices /\ \A d \in Devices : cloud[d] = Snapshot(d, mem[d])
  BY DEF Init
<1>8. downloaded \in [Devices -> SUBSET Devices]
  BY <1>1
<1>9. Types
  BY <1>5, <1>6, <1>7, <1>8, MembershipAssumption DEF Types, Init
<1>10. FilesFollow
  BY <1>5 DEF FilesFollow
<1>11. RostersBounded
  <2>1. \A d \in Devices : Bounded(mem[d])
    BY <1>3, <1>4 DEF Bounded, Own
  <2>2. \A d \in Devices : Bounded(cloud[d])
    BY <2>1, <1>7 DEF Bounded, Snapshot
  <2> QED BY <2>1, <2>2 DEF RostersBounded, Init
<1>12. SidesInv
  BY DEF SidesInv, Pairing, Init
<1>13. SlotsInv
  <2> SUFFICES ASSUME NEW d \in Devices, NEW x \in Devices, NEW id \in Held(d, x), id.sas > 0 PROVE FALSE
    BY DEF SlotsInv
  <2>1. id = PairingId(mem[d].slots[x])
    BY <1>5 DEF Held
  <2>2. id.sas = mem[d].slots[x].sas
    BY <2>1 DEF PairingId
  <2>3. mem[d].slots[x].sas <= 0 /\ mem[d].slots[x] \in Slots
    BY <1>4, <1>9, HeldTypes
  <2> QED BY <2>2, <2>3 DEF Slots, Absent
<1>14. SessionInv
  BY DEF SessionInv, Init
<1> QED BY <1>3, <1>5, <1>9, <1>10, <1>11, <1>12, <1>13, <1>14 DEF MembershipInv

-----------------------------------------------------------------------------
(* Steps that leave the stores alone.                                      *)

\* Where no store changes, credentials and rosters are what they were.
LEMMA StoresSame ==
    ASSUME MembershipInv, UNCHANGED <<mem, disk>>, unconfirmed \subseteq unconfirmed'
    PROVE  /\ Grows
           /\ \A d \in Devices : StoreInv(d, mem'[d]) /\ StoreInv(d, disk'[d])
           /\ FilesFollow'
           /\ \A d \in Devices : \A x \in Devices \ unconfirmed' :
                 mem'[d].adm[x] <= mem'[x].adm[x] /\ mem'[d].rem[x] <= mem'[x].adm[x]
           /\ \A d, x \in Devices : Held(d, x)' = Held(d, x)
           /\ \A d, x \in Devices : SlotStep(d, x)
<1>1. \A x \in Devices : mem[x].adm[x] \in Generations
  BY HeldTypes DEF MembershipInv
<1>2. Grows
  BY <1>1 DEF Grows, Generations, Absent
<1>3. \A d \in Devices : StoreInv(d, mem'[d]) /\ StoreInv(d, disk'[d])
  BY DEF MembershipInv
<1>4. FilesFollow'
  BY DEF MembershipInv, FilesFollow
<1>5. \A d \in Devices : \A x \in Devices \ unconfirmed' :
                 mem'[d].adm[x] <= mem'[x].adm[x] /\ mem'[d].rem[x] <= mem'[x].adm[x]
  BY DEF MembershipInv, RostersBounded, Bounded, Own
<1>6. \A d, x \in Devices : Held(d, x)' = Held(d, x)
  BY DEF Held
<1>7. \A d, x \in Devices : SlotStep(d, x)
  BY DEF SlotStep
<1> QED BY <1>2, <1>3, <1>4, <1>5, <1>6, <1>7

\* Such a step that only ends halves of ceremonies, which stored nothing, whose
\* confirmation is lost, or whose generation was overtaken.
LEMMA QuietStep ==
    ASSUME MembershipInv, Types', UNCHANGED <<mem, disk, ceremonies>>,
           unconfirmed \subseteq unconfirmed',
           session' \in {session, NoSession},
           \A d \in Devices : cloud'[d] \in {cloud[d], outgoing[d]},
           \A d \in Devices : outgoing'[d] \in {outgoing[d], NotPublished, Snapshot(d, mem[d])},
           \A d \in Devices : side'[d] \in {side[d], NoSide},
           \A d \in Devices : Pairing(d) /\ side'[d] = NoSide =>
               \/ d \in unconfirmed' \/ ~side[d].stored
               \/ \A x \in Devices : \A id \in Held(d, x) :
                      id.sas = side[d].id => id.local <= mem[d].adm[d]
    PROVE  MembershipInv'
<1>1. /\ Grows
      /\ \A d \in Devices : StoreInv(d, mem'[d]) /\ StoreInv(d, disk'[d])
      /\ FilesFollow'
      /\ \A d \in Devices : \A x \in Devices \ unconfirmed' :
            mem'[d].adm[x] <= mem'[x].adm[x] /\ mem'[d].rem[x] <= mem'[x].adm[x]
      /\ \A d, x \in Devices : Held(d, x)' = Held(d, x)
      /\ \A d, x \in Devices : SlotStep(d, x)
  BY StoresSame
<1>2. Types /\ RostersBounded /\ SidesInv /\ SlotsInv /\ SessionInv
  BY DEF MembershipInv
<1>3. RostersBounded'
  <2>1. \/ session' = NoSession
        \/ session # NoSession /\ session'.snap = session.snap
    OBVIOUS
  <2> QED BY <1>1, <1>2, <2>1, RostersKept
<1>4. SidesInv' /\ SlotsInv'
  <2>1. \A d \in Devices : Pairing(d) /\ side'[d] = NoSide =>
               \/ d \in unconfirmed'
               \/ \A x \in Devices : \A id \in Held(d, x)' :
                      id.sas = side[d].id => id.local <= mem'[d].adm[d]
    BY <1>1, <1>2 DEF SidesInv, SideInv
  <2>2. \A d, x \in Devices : \A id \in Held(d, x)' : id.sas <= 0 \/ id \in Held(d, x)
    BY <1>1
  <2> QED BY <1>1, <1>2, <2>1, <2>2, CeremoniesKept
<1>5. SessionInv'
  <2>1. CASE session' = NoSession
    BY <2>1 DEF SessionInv
  <2>2. CASE session' = session /\ session # NoSession
    <3>1. session.from \in Devices /\ session.to \in Devices
      BY <1>2, <2>2 DEF Types, Sessions
    <3>2. \A d \in Devices : SideStep(d)
      BY DEF SideStep
    <3>3. ceremonies' >= ceremonies
      BY <1>2 DEF Types
    <3> QED BY <1>1, <1>2, <2>2, <3>1, <3>2, <3>3, SessionKept
  <2> QED BY <2>1, <2>2
<1> QED BY <1>1, <1>3, <1>4, <1>5 DEF MembershipInv

\* Abandon, PullDone, Publish, Disconnect, ConfirmFails and stuttering.
LEMMA QuietSteps ==
    ASSUME MembershipInv,
           \/ \E d \in Devices : Abandon(d) \/ PullDone(d) \/ Publish(d) \/ ConfirmFails(d)
           \/ Disconnect
           \/ UNCHANGED vars
    PROVE  MembershipInv'
<1>1. Types
  BY DEF MembershipInv
<1>2. ASSUME NEW d \in Devices, Abandon(d) PROVE MembershipInv'
  <2>1. Types'
    BY <1>1, <1>2 DEF Types, Abandon
  <2>2. \A x \in Devices : /\ side'[x] \in {side[x], NoSide}
                           /\ Pairing(x) /\ side'[x] = NoSide => ~side[x].stored
    BY <1>1, <1>2 DEF Abandon, Types, Pairing
  <2>3. UNCHANGED <<mem, disk, ceremonies, session, cloud, outgoing, unconfirmed>>
    BY <1>2 DEF Abandon
  <2> QED BY <2>1, <2>2, <2>3, QuietStep
<1>3. ASSUME NEW d \in Devices, PullDone(d) PROVE MembershipInv'
  <2>1. Snapshot(d, mem[d]) \in Snaps /\ Snapshot(d, mem[d]).issuer = d
    BY <1>1, HeldTypes DEF Snapshot, Snaps, Stores
  <2>2. Types'
    BY <1>1, <1>3, <2>1 DEF Types, PullDone
  <2> QED BY <1>1, <1>3, <2>2, QuietStep DEF PullDone, Types, Pairing
<1>4. ASSUME NEW d \in Devices, Publish(d) PROVE MembershipInv'
  <2>1. DOMAIN cloud' = Devices /\ \A x \in Devices : cloud'[x] \in {cloud[x], outgoing[x]}
    BY <1>1, <1>4 DEF Publish, Types
  <2>2. DOMAIN outgoing' = Devices /\ \A x \in Devices : outgoing'[x] \in {outgoing[x], NotPublished}
    BY <1>1, <1>4 DEF Publish, Types
  <2>3. downloaded' \in [Devices -> SUBSET Devices]
    BY <1>1, <1>4 DEF Publish, Types
  <2>4. UNCHANGED <<mem, disk, side, ceremonies, acks, session, unconfirmed>>
    BY <1>4 DEF Publish
  <2>5. Types'
    BY <1>1, <2>1, <2>2, <2>3, <2>4 DEF Types
  <2> QED BY <2>1, <2>2, <2>4, <2>5, QuietStep DEF Pairing
<1>5. ASSUME NEW d \in Devices, ConfirmFails(d) PROVE MembershipInv'
  <2>1. /\ UNCHANGED <<mem, disk, ceremonies, acks, session, cloud, downloaded, outgoing>>
        /\ unconfirmed' = unconfirmed \union {d} /\ side' = [side EXCEPT ![d] = NoSide]
    BY <1>5 DEF ConfirmFails, Acknowledged
  <2>2. Types'
    BY <1>1, <2>1 DEF Types
  <2>3. \A x \in Devices : /\ side'[x] \in {side[x], NoSide}
                           /\ Pairing(x) /\ side'[x] = NoSide => x \in unconfirmed'
    BY <1>1, <2>1 DEF Types, Pairing
  <2> QED BY <2>1, <2>2, <2>3, QuietStep
<1>6. CASE Disconnect
  <2>1. Types'
    BY <1>1, <1>6 DEF Types, Disconnect
  <2> QED BY <1>6, <2>1, QuietStep DEF Disconnect, Pairing
<1>7. CASE UNCHANGED vars
  <2>1. Types'
    BY <1>1, <1>7 DEF Types, vars
  <2> QED BY <1>7, <2>1, QuietStep DEF vars, Pairing
<1> QED BY <1>2, <1>3, <1>4, <1>5, <1>6, <1>7

-----------------------------------------------------------------------------
(* Steps that write a store.                                               *)

\* Save changes one device's store, in memory and in the file.
LEMMA SaveFacts ==
    ASSUME Types, NEW d \in Devices, NEW st \in Stores, Save(d, st)
    PROVE  /\ mem' \in [Devices -> Stores] /\ disk' \in [Devices -> Stores]
           /\ \A y \in Devices : mem'[y] = IF y = d THEN st ELSE mem[y]
           /\ \A y \in Devices : disk'[y] = IF y = d THEN st ELSE disk[y]
BY DEF Types, Save

\* A store that keeps its invariant and holds no credential it did not hold.
LEMMA SaveKeeps ==
    ASSUME MembershipInv, Types', NEW d \in Devices, NEW st \in Stores, Save(d, st),
           StoreInv(d, st), st.adm[d] >= mem[d].adm[d],
           UNCHANGED <<ceremonies, unconfirmed>>,
           \A x \in Devices : \/ st.slots[x].sas <= 0
                              \/ /\ PairingId(st.slots[x]) = PairingId(mem[d].slots[x])
                                 /\ side'[d] # NoSide /\ st.slots[x].fresh => mem[d].slots[x].fresh,
           \A y \in Devices : side'[y] = side[y] \/ (y = d /\ side'[y] = NoSide),
           \/ side'[d] = side[d]
           \/ \A x \in Devices : st.slots[x].sas = side[d].id => st.slots[x].local <= st.adm[d]
    PROVE  /\ Grows
           /\ \A y \in Devices : StoreInv(y, mem'[y]) /\ StoreInv(y, disk'[y])
           /\ FilesFollow' /\ SidesInv' /\ SlotsInv'
<1>1. Types /\ FilesFollow /\ SidesInv /\ SlotsInv
  BY DEF MembershipInv
<1>2. /\ \A y \in Devices : mem'[y] = IF y = d THEN st ELSE mem[y]
      /\ \A y \in Devices : disk'[y] = IF y = d THEN st ELSE disk[y]
  BY <1>1, SaveFacts
<1>3. Grows
  <2>1. \A x \in Devices : mem[x].adm[x] \in Generations
    BY <1>1, HeldTypes
  <2> QED BY <1>2, <2>1 DEF Grows, Generations, Absent
<1>4. \A y \in Devices : StoreInv(y, mem'[y]) /\ StoreInv(y, disk'[y])
  BY <1>2 DEF MembershipInv
<1>5. FilesFollow'
  BY <1>1, <1>2 DEF FilesFollow
<1>6. ASSUME NEW y \in Devices, NEW x \in Devices, NEW id \in Held(y, x)'
      PROVE  id.sas <= 0 \/ id \in Held(y, x)
  <2>1. CASE y = d
    <3>1. id = PairingId(st.slots[x])
      BY <1>2, <1>6, <2>1 DEF Held
    <3>2. id.sas = st.slots[x].sas
      BY <3>1 DEF PairingId
    <3> QED BY <2>1, <3>1, <3>2 DEF Held
  <2>2. CASE y # d
    BY <1>2, <1>6, <2>2 DEF Held
  <2> QED BY <2>1, <2>2
<1>7. ASSUME NEW y \in Devices, Pairing(y), side'[y] = NoSide,
             NEW x \in Devices, NEW id \in Held(y, x)', id.sas = side[y].id
      PROVE  id.local <= mem'[y].adm[y]
  <2>1. y = d /\ side'[d] # side[d]
    BY <1>7 DEF Pairing
  <2>2. id = PairingId(st.slots[x])
    BY <1>2, <1>7, <2>1 DEF Held
  <2>3. id.sas = st.slots[x].sas /\ id.local = st.slots[x].local
    BY <2>2 DEF PairingId
  <2> QED BY <1>2, <1>7, <2>1, <2>3
<1>8. ASSUME NEW y \in Devices, NEW x \in Devices, mem'[y].slots[x].sas > 0, side'[y] # NoSide
      PROVE  /\ mem'[y].slots[x].sas = mem[y].slots[x].sas
             /\ mem'[y].slots[x].fresh => mem[y].slots[x].fresh
  <2>1. CASE y = d
    <3>1. st.slots[x] \in Slots /\ st.slots[x].sas > 0
      BY <1>2, <1>8, <2>1 DEF Stores
    <3>2. ~(st.slots[x].sas <= 0)
      BY <3>1 DEF Slots, Absent
    <3>3. /\ PairingId(st.slots[x]) = PairingId(mem[d].slots[x])
          /\ st.slots[x].fresh => mem[d].slots[x].fresh
      BY <1>8, <2>1, <3>2
    <3> QED BY <1>2, <2>1, <3>3 DEF PairingId
  <2>2. CASE y # d
    BY <1>2, <2>2
  <2> QED BY <2>1, <2>2
<1>9. SidesInv' /\ SlotsInv'
  <2>1. \A y \in Devices : side'[y] \in {side[y], NoSide}
    OBVIOUS
  <2>2. \A y, x \in Devices : \A id \in Held(y, x)' : id.sas <= 0 \/ id \in Held(y, x)
    BY <1>6
  <2>3. \A y \in Devices : Pairing(y) /\ side'[y] = NoSide =>
               \/ y \in unconfirmed'
               \/ \A x \in Devices : \A id \in Held(y, x)' :
                      id.sas = side[y].id => id.local <= mem'[y].adm[y]
    BY <1>7
  <2>4. \A y, x \in Devices : mem'[y].slots[x].sas > 0 /\ side'[y] # NoSide =>
               /\ mem'[y].slots[x].sas = mem[y].slots[x].sas
               /\ mem'[y].slots[x].fresh => mem[y].slots[x].fresh
    BY <1>8
  <2> QED BY <1>1, <1>3, <2>1, <2>2, <2>3, <2>4, CeremoniesKept
<1> QED BY <1>3, <1>4, <1>5, <1>9

\* Such a store, to which the rosters and the credentials of the exchange under
\* way are no surprise either: the whole invariant.
LEMMA SaveStep ==
    ASSUME MembershipInv, Types', NEW d \in Devices, NEW st \in Stores, Save(d, st),
           StoreInv(d, st), st.adm[d] >= mem[d].adm[d],
           UNCHANGED <<ceremonies, unconfirmed, cloud, outgoing>>,
           session' \in {session, NoSession},
           \A x \in Devices : \/ st.slots[x].sas <= 0
                              \/ /\ PairingId(st.slots[x]) = PairingId(mem[d].slots[x])
                                 /\ side'[d] # NoSide /\ st.slots[x].fresh => mem[d].slots[x].fresh,
           \A y \in Devices : side'[y] = side[y] \/ (y = d /\ side'[y] = NoSide),
           \/ side'[d] = side[d]
           \/ \A x \in Devices : st.slots[x].sas = side[d].id => st.slots[x].local <= st.adm[d],
           \A x \in Devices \ unconfirmed : x # d =>
               st.adm[x] <= mem[x].adm[x] /\ st.rem[x] <= mem[x].adm[x],
           \A x \in Devices : x # d => SlotStep(d, x)
    PROVE  MembershipInv'
<1>1. Types /\ RostersBounded /\ SidesInv /\ SessionInv
  BY DEF MembershipInv
<1>2. \A y \in Devices : mem'[y] = IF y = d THEN st ELSE mem[y]
  BY <1>1, SaveFacts
<1>3. /\ Grows
      /\ \A y \in Devices : StoreInv(y, mem'[y]) /\ StoreInv(y, disk'[y])
      /\ FilesFollow' /\ SidesInv' /\ SlotsInv'
  BY SaveKeeps
<1>4. ASSUME NEW y \in Devices, NEW x \in Devices \ unconfirmed'
      PROVE  mem'[y].adm[x] <= mem'[x].adm[x] /\ mem'[y].rem[x] <= mem'[x].adm[x]
  <2>1. CASE y = d /\ x = d
    <3>1. st.rem[d] <= st.adm[d] /\ st.adm[d] \in Generations
      BY DEF StoreInv, Stores, Rosters
    <3> QED BY <1>2, <2>1, <3>1 DEF Generations, Absent
  <2>2. CASE y = d /\ x # d
    BY <1>2, <2>2
  <2>3. CASE y # d
    <3>1. mem[y].adm \in Rosters /\ mem[y].rem \in Rosters
      BY <1>1 DEF Types, Stores
    <3>2. Bounded(mem[y])
      BY <1>1 DEF RostersBounded
    <3>3. mem[y].adm[x] <= mem'[x].adm[x] /\ mem[y].rem[x] <= mem'[x].adm[x]
      BY <3>1, <3>2, <1>1, <1>3, BoundedGrows
    <3> QED BY <3>3, <1>2, <2>3
  <2> QED BY <2>1, <2>2, <2>3
<1>5. RostersBounded'
  <2>1. \/ session' = NoSession
        \/ session # NoSession /\ session'.snap = session.snap
    OBVIOUS
  <2> QED BY <1>1, <1>3, <1>4, <2>1, RostersKept
<1>6. SessionInv'
  <2>1. CASE session' = NoSession
    BY <2>1 DEF SessionInv
  <2>2. CASE session' = session /\ session # NoSession
    <3>1. session.from \in Devices /\ session.to \in Devices /\ session.from # session.to
      BY <1>1, <2>2 DEF Types, Sessions, SessionInv
    <3>2. \A y \in Devices : SideStep(y)
      BY DEF SideStep
    <3>3. ceremonies' >= ceremonies
      BY <1>1 DEF Types
    <3>4. \A y, x \in Devices : y # d => SlotStep(y, x)
      BY <1>2 DEF SlotStep, Active
    <3> QED BY <1>1, <1>3, <2>2, <3>1, <3>2, <3>3, <3>4, SessionKept
  <2> QED BY <2>1, <2>2
<1> QED BY <1>3, <1>5, <1>6 DEF MembershipInv

\* What the store of d says of another device is bounded, before a step.
LEMMA RosterOfOthers ==
    ASSUME MembershipInv, NEW d \in Devices, NEW x \in Devices \ unconfirmed
    PROVE  mem[d].adm[x] <= mem[x].adm[x] /\ mem[d].rem[x] <= mem[x].adm[x]
BY DEF MembershipInv, RostersBounded, Bounded, Own

\* Cut: the tombstone is of the generation the roster holds.
LEMMA CutStep ==
    ASSUME MembershipInv, NEW d \in Devices, NEW x \in Devices, d # x, Cut(d, x)
    PROVE  MembershipInv'
<1>1. Types /\ mem[d] \in Stores /\ StoreInv(d, mem[d])
  BY HeldTypes DEF MembershipInv
<1>2. PICK st \in {Unpaired(d, x), Revoked(d, x)} : Save(d, st)
  BY DEF Cut
<1>3. /\ st \in Stores /\ StoreInv(d, st)
      /\ \A y \in Devices \ {x} : st.adm[y] = mem[d].adm[y] /\ st.rem[y] = mem[d].rem[y]
      /\ st.adm[x] \in {mem[d].adm[x], Absent}
      /\ st.rem[x] \in {mem[d].rem[x], MaxOf(mem[d].adm[x], 0)}
      /\ \A y \in Devices : st.slots[y] = IF y = x THEN NoSlot ELSE mem[d].slots[y]
  BY <1>1, RemoveEffect
<1>4. /\ mem' \in [Devices -> Stores] /\ disk' \in [Devices -> Stores]
      /\ \A y \in Devices : mem'[y] = IF y = d THEN st ELSE mem[y]
  BY <1>1, <1>2, <1>3, SaveFacts
<1>5. /\ UNCHANGED <<side, ceremonies, acks, cloud, downloaded, outgoing, unconfirmed>>
      /\ session' \in {session, NoSession}
  BY DEF Cut
<1>6. Types'
  BY <1>1, <1>4, <1>5 DEF Types
<1>7. st.adm[d] >= mem[d].adm[d]
  BY <1>1, <1>3, HeldTypes DEF Generations, Absent
<1>8. NoSlot.sas <= 0
  BY DEF NoSlot, Absent
<1>9. ASSUME NEW y \in Devices \ unconfirmed, y # d
      PROVE  st.adm[y] <= mem[y].adm[y] /\ st.rem[y] <= mem[y].adm[y]
  <2>1. mem[d].adm[y] <= mem[y].adm[y] /\ mem[d].rem[y] <= mem[y].adm[y]
    BY RosterOfOthers
  <2>2. mem[y].adm[y] \in Nat
    BY <1>1, HeldTypes DEF MembershipInv, StoreInv, Generations
  <2>3. mem[d].adm[y] \in Generations
    BY <1>1, HeldTypes
  <2>4. MaxOf(mem[d].adm[y], 0) <= mem[y].adm[y] /\ Absent <= mem[y].adm[y]
    BY <2>1, <2>2, <2>3 DEF MaxOf, Generations, Absent
  <2> QED BY <2>1, <2>4, <1>3
<1>10. ASSUME NEW y \in Devices, y # d PROVE SlotStep(d, y)
  <2>1. CASE y = x
    BY <2>1, <1>3, <1>4 DEF SlotStep
  <2>2. CASE y # x
    BY <2>2, <1>3, <1>4 DEF SlotStep, Active
  <2> QED BY <2>1, <2>2
<1> QED BY <1>2, <1>3, <1>5, <1>6, <1>7, <1>8, <1>9, <1>10, SaveStep

\* Rollback: the credential of the ceremony is gone with it.
LEMMA RolledBackFacts ==
    ASSUME MembershipInv, NEW d \in Devices, Pairing(d)
    PROVE  /\ RolledBack(d) \in Stores /\ StoreInv(d, RolledBack(d))
           /\ RolledBack(d).adm = mem[d].adm /\ RolledBack(d).rem = mem[d].rem
           /\ RolledBack(d).revoked = mem[d].revoked
           /\ \A y \in Devices : RolledBack(d).slots[y] \in {mem[d].slots[y], NoSlot}
           /\ \A y \in Devices : RolledBack(d).slots[y].sas # side[d].id
<1> DEFINE x == side[d].peer  st == mem[d]
<1>1. Types /\ st \in Stores /\ StoreInv(d, st) /\ SideInv(d)
  BY HeldTypes DEF MembershipInv, SidesInv
<1>2. side[d] \in Sides
  BY <1>1 DEF Pairing, Types
<1>3. x \in Devices /\ x # d /\ side[d].id > 0 /\ side[d].id \in Nat
  BY <1>1, <1>2 DEF Sides, SideInv
<1>4. \A y \in Devices : st.slots[y].sas = side[d].id => y = x
  BY <1>1 DEF SideInv, Held, PairingId
<1>5. CASE Pending(d, x)
  <2>1. RolledBack(d) = [st EXCEPT !.slots[x] = NoSlot]
    BY <1>5 DEF RolledBack
  <2>2. NoSlot \in Slots /\ ~NoSlot.fresh /\ NoSlot.sas # side[d].id
    BY <1>3, SlotTypes DEF NoSlot, Absent
  <2>3. /\ RolledBack(d) \in Stores /\ StoreInv(d, RolledBack(d))
        /\ RolledBack(d).adm = st.adm /\ RolledBack(d).rem = st.rem /\ RolledBack(d).revoked = st.revoked
        /\ \A y \in Devices : RolledBack(d).slots[y] = IF y = x THEN NoSlot ELSE st.slots[y]
    <3> HIDE DEF x, st
    <3>1. /\ [st EXCEPT !.slots[x] = NoSlot] \in Stores /\ StoreInv(d, [st EXCEPT !.slots[x] = NoSlot])
          /\ [st EXCEPT !.slots[x] = NoSlot].adm = st.adm /\ [st EXCEPT !.slots[x] = NoSlot].rem = st.rem
          /\ [st EXCEPT !.slots[x] = NoSlot].revoked = st.revoked
          /\ \A y \in Devices :
                [st EXCEPT !.slots[x] = NoSlot].slots[y] = IF y = x THEN NoSlot ELSE st.slots[y]
      BY <2>2, <1>1, <1>3, SetSlot
    <3> QED BY <2>1, <3>1
  <2> QED BY <2>2, <2>3, <1>4
<1>6. CASE ~Pending(d, x)
  <2>1. RolledBack(d) = st
    BY <1>6 DEF RolledBack
  <2>2. st.slots[x].sas # side[d].id
    <3>1. NoSlot.sas # side[d].id
      BY <1>3 DEF NoSlot, Absent
    <3> QED BY <3>1, <1>6 DEF Pending, HasSlot
  <2> QED BY <2>1, <2>2, <1>1, <1>4
<1> QED BY <1>5, <1>6

\* Rollback keeps the invariant.
LEMMA RollbackStep ==
    ASSUME MembershipInv, NEW d \in Devices, Rollback(d)
    PROVE  MembershipInv'
<1> DEFINE st == RolledBack(d)
<1>1. Types /\ Pairing(d) /\ Save(d, st)
  BY DEF MembershipInv, Rollback
<1>2. /\ st \in Stores /\ StoreInv(d, st) /\ st.adm = mem[d].adm /\ st.rem = mem[d].rem
      /\ \A y \in Devices : st.slots[y] \in {mem[d].slots[y], NoSlot}
      /\ \A y \in Devices : st.slots[y].sas # side[d].id
  BY <1>1, RolledBackFacts
<1> HIDE DEF st
<1>3. /\ mem' \in [Devices -> Stores] /\ disk' \in [Devices -> Stores]
      /\ \A y \in Devices : mem'[y] = IF y = d THEN st ELSE mem[y]
  BY <1>1, <1>2, SaveFacts
<1>4. /\ UNCHANGED <<ceremonies, acks, session, cloud, downloaded, outgoing, unconfirmed>>
      /\ side' = [side EXCEPT ![d] = NoSide]
  BY DEF Rollback
<1>5. DOMAIN side' = Devices /\ \A y \in Devices : side'[y] = IF y = d THEN NoSide ELSE side[y]
  BY <1>1, <1>4 DEF Types
<1>6. Types'
  BY <1>1, <1>3, <1>4, <1>5 DEF Types
<1>7. st.adm[d] >= mem[d].adm[d]
  BY <1>1, <1>2, HeldTypes DEF Generations, Absent
<1>8. NoSlot.sas <= 0
  BY DEF NoSlot, Absent
<1>9. \A x \in Devices \ unconfirmed : x # d =>
               st.adm[x] <= mem[x].adm[x] /\ st.rem[x] <= mem[x].adm[x]
  BY <1>2, RosterOfOthers
<1>10. \A y \in Devices : SlotStep(d, y)
  BY <1>2, <1>3 DEF SlotStep, Active
<1> QED BY <1>1, <1>2, <1>4, <1>5, <1>6, <1>7, <1>8, <1>9, <1>10, SaveStep

\* Confirm: the own generation becomes the certified one, or already is no less.
LEMMA ConfirmStep ==
    ASSUME MembershipInv, NEW d \in Devices, Confirm(d)
    PROVE  MembershipInv'
<1> DEFINE x == side[d].peer  st == Project(d, Certified(d))
<1>1. Types /\ mem[d] \in Stores /\ StoreInv(d, mem[d]) /\ Pairing(d) /\ SideInv(d)
  BY HeldTypes DEF MembershipInv, SidesInv, Confirm, Acknowledged
<1>2. side[d] \in Sides
  BY <1>1 DEF Pairing, Types
<1>3. x \in Devices /\ x # d /\ side[d].id > 0 /\ side[d].id \in Nat
  BY <1>1, <1>2 DEF Sides, SideInv
<1>4. \A y \in Devices : mem[d].slots[y].sas = side[d].id => y = x
  BY <1>1 DEF SideInv, Held, PairingId
<1>5. /\ UNCHANGED <<ceremonies, acks, session, cloud, downloaded, outgoing, unconfirmed>>
      /\ side' = [side EXCEPT ![d] = NoSide]
  BY DEF Confirm
<1>6. DOMAIN side' = Devices /\ \A y \in Devices : side'[y] = IF y = d THEN NoSide ELSE side[y]
  BY <1>1, <1>5 DEF Types
<1>7. CASE Confirmable(d)
  <2>1. Save(d, st) /\ Pending(d, x)
    BY <1>7 DEF Confirm, Confirmable
  <2>2. ConfirmEffect(d, x, mem[d], st)
    BY <2>1, <1>1, <1>3, <1>7, ConfirmedEffect
  <2> HIDE DEF st
  <2>3. /\ st \in Stores /\ StoreInv(d, st) /\ st.rem = mem[d].rem
        /\ \A y \in Devices \ {d} : st.adm[y] = mem[d].adm[y]
        /\ st.adm[d] = mem[d].slots[x].local /\ st.adm[d] >= mem[d].adm[d] /\ Active(st, d)
    BY <2>2 DEF ConfirmEffect
  <2>4. \A y \in Devices :
        \/ st.slots[y] = NoSlot
        \/ st.slots[y].sas = 0 /\ ~st.slots[y].fresh
        \/ /\ PairingId(st.slots[y]) = PairingId(mem[d].slots[y])
           /\ IF y = x THEN st.slots[y].fresh ELSE st.slots[y] = mem[d].slots[y]
    BY <2>2 DEF ConfirmEffect
  <2>5. /\ mem' \in [Devices -> Stores] /\ disk' \in [Devices -> Stores]
        /\ \A y \in Devices : mem'[y] = IF y = d THEN st ELSE mem[y]
    BY <1>1, <2>1, <2>3, SaveFacts
  <2>6. Types'
    BY <1>1, <1>5, <1>6, <2>5 DEF Types
  <2>7. NoSlot.sas <= 0 /\ NoSlot.sas # side[d].id
    BY <1>3 DEF NoSlot, Absent
  <2>8. \A y \in Devices : \/ st.slots[y].sas <= 0
                           \/ PairingId(st.slots[y]) = PairingId(mem[d].slots[y])
    BY <2>4, <2>7
  <2>9. ASSUME NEW y \in Devices, st.slots[y].sas = side[d].id
        PROVE  st.slots[y].local <= st.adm[d]
    <3>1. PairingId(st.slots[y]) = PairingId(mem[d].slots[y])
      BY <2>4, <2>7, <2>9, <1>3
    <3>2. mem[d].slots[y].sas = side[d].id /\ st.slots[y].local = mem[d].slots[y].local
      BY <2>9, <3>1 DEF PairingId
    <3>3. y = x
      BY <3>2, <1>4
    <3>4. mem[d].slots[x].local \in Nat
      BY <1>1, <1>3, HeldTypes DEF Slots
    <3> QED BY <3>2, <3>3, <3>4, <2>3
  <2>10. \A y \in Devices \ unconfirmed : y # d =>
               st.adm[y] <= mem[y].adm[y] /\ st.rem[y] <= mem[y].adm[y]
    BY <2>3, RosterOfOthers
  <2>11. ASSUME NEW y \in Devices, y # d PROVE SlotStep(d, y)
    <3>1. Active(mem'[d], d) /\ mem'[d] = st /\ (Active(st, y) <=> Active(mem[d], y))
      BY <2>3, <2>5, <2>11 DEF Active
    <3>2. CASE st.slots[y] = NoSlot \/ (st.slots[y].sas = 0 /\ ~st.slots[y].fresh)
      BY <3>1, <3>2 DEF SlotStep
    <3>3. CASE y # x /\ st.slots[y] = mem[d].slots[y]
      BY <3>1, <3>3 DEF SlotStep
    <3>4. CASE y = x /\ PairingId(st.slots[y]) = PairingId(mem[d].slots[y]) /\ st.slots[y].fresh
      <4>1. mem[d].slots[y].sas = side[d].id
        BY <3>4, <2>1 DEF Pending
      <4>2. Active(mem[d], y) => st.slots[y].remote = mem[d].adm[y]
        BY <2>3, <2>11, <3>1, <3>4 DEF StoreInv
      <4>3. Active(mem[d], y) => y \in unconfirmed' \/ mem[d].adm[y] <= mem'[y].adm[y]
        BY <1>5, <2>5, <2>11, RosterOfOthers
      <4> QED BY <1>1, <1>6, <3>1, <3>4, <4>1, <4>2, <4>3 DEF SlotStep
    <3> QED BY <2>4, <3>2, <3>3, <3>4
  <2> QED BY <1>5, <1>6, <2>1, <2>3, <2>6, <2>8, <2>9, <2>10, <2>11, SaveStep
<1>8. CASE ~Confirmable(d)
  <2>1. UNCHANGED <<mem, disk>>
    BY <1>8 DEF Confirm
  <2>2. Types'
    BY <1>1, <1>5, <1>6, <2>1 DEF Types
  <2>3. ASSUME NEW y \in Devices, NEW id \in Held(d, y), id.sas = side[d].id, d \notin unconfirmed
        PROVE  id.local <= mem[d].adm[d]
    <3>1. disk[d] = mem[d]
      BY <2>3 DEF MembershipInv, FilesFollow
    <3>2. id = PairingId(mem[d].slots[y])
      BY <2>3, <3>1 DEF Held
    <3>3. mem[d].slots[y].sas = side[d].id /\ id.local = mem[d].slots[y].local
      BY <2>3, <3>2 DEF PairingId
    <3>4. y = x
      BY <3>3, <1>4
    <3>5. mem[d].slots[x] # NoSlot
      BY <3>3, <3>4, <1>3 DEF NoSlot, Absent
    <3>6. Pending(d, x)
      BY <3>3, <3>4, <3>5, <1>1 DEF Pending, HasSlot
    <3> QED BY <3>3, <3>4, <3>6, <1>1, <1>3, <1>8, ConfirmedEffect
  <2>4. \A y \in Devices : /\ side'[y] \in {side[y], NoSide}
                           /\ Pairing(y) /\ side'[y] = NoSide => y = d
    BY <1>6 DEF Pairing
  <2> QED BY <1>5, <2>1, <2>2, <2>3, <2>4, QuietStep
<1> QED BY <1>7, <1>8

\* A step that leaves a device with less than its file holds, or with what the
\* file holds: RollbackFails and Restart.
LEMMA LossStep ==
    ASSUME MembershipInv, NEW d \in Devices, RollbackFails(d) \/ Restart(d)
    PROVE  MembershipInv'
<1>1. Types /\ RostersBounded /\ SidesInv /\ SlotsInv /\ SessionInv /\ FilesFollow
  BY DEF MembershipInv
<1>2. mem[d] \in Stores /\ disk[d] \in Stores /\ StoreInv(d, disk[d])
  BY <1>1, HeldTypes DEF MembershipInv
<1>3. PICK st \in Stores :
        /\ mem' = [mem EXCEPT ![d] = st] /\ StoreInv(d, st)
        /\ st.adm = mem[d].adm /\ st.rem = mem[d].rem /\ st.revoked = mem[d].revoked
        /\ \A y \in Devices : PairingId(st.slots[y]) \in Held(d, y) \/ st.slots[y] = NoSlot
        /\ d \in unconfirmed' \/ st = disk[d]
        /\ \/ session' = NoSession
           \/ session' = session /\ (session # NoSession => d \notin {session.from, session.to})
           \/ session' = session /\ \A y \in Devices : st.slots[y] \in {mem[d].slots[y], NoSlot}
        /\ Pairing(d) /\ side[d].stored => d \in unconfirmed'
  <2>1. CASE RollbackFails(d)
    <3> DEFINE st == RolledBack(d)
    <3>1. /\ st \in Stores /\ StoreInv(d, st) /\ st.adm = mem[d].adm /\ st.rem = mem[d].rem
          /\ st.revoked = mem[d].revoked
          /\ \A y \in Devices : st.slots[y] \in {mem[d].slots[y], NoSlot}
      BY <2>1, RolledBackFacts DEF RollbackFails
    <3>2. mem' = [mem EXCEPT ![d] = st] /\ d \in unconfirmed' /\ session' = session
      BY <2>1 DEF RollbackFails
    <3> HIDE DEF st
    <3>3. \A y \in Devices : PairingId(st.slots[y]) \in Held(d, y) \/ st.slots[y] = NoSlot
      BY <3>1 DEF Held
    <3> QED BY <3>1, <3>2, <3>3
  <2>2. CASE Restart(d)
    <3>1. mem' = [mem EXCEPT ![d] = disk[d]]
      BY <2>2 DEF Restart
    <3>2. disk[d].adm = mem[d].adm /\ disk[d].rem = mem[d].rem /\ disk[d].revoked = mem[d].revoked
      BY <1>1 DEF FilesFollow
    <3>3. \A y \in Devices : PairingId(disk[d].slots[y]) \in Held(d, y)
      BY DEF Held
    <3>4. Pairing(d) /\ side[d].stored => d \in unconfirmed'
      BY <2>2 DEF Restart
    <3>5. \/ session' = NoSession
          \/ session' = session /\ (session # NoSession => d \notin {session.from, session.to})
      BY <2>2 DEF Restart
    <3> QED BY <1>2, <3>1, <3>2, <3>3, <3>4, <3>5
  <2> QED BY <2>1, <2>2
<1>4. /\ UNCHANGED <<disk, ceremonies, acks, cloud>>
      /\ side' = [side EXCEPT ![d] = NoSide]
      /\ unconfirmed' \subseteq unconfirmed \union {d} /\ unconfirmed \subseteq unconfirmed'
      /\ downloaded' \in [Devices -> SUBSET Devices]
      /\ DOMAIN outgoing' = Devices /\ \A y \in Devices : outgoing'[y] \in {outgoing[y], NotPublished}
  BY <1>1 DEF RollbackFails, Restart, Types
<1>5. mem' \in [Devices -> Stores] /\ \A y \in Devices : mem'[y] = IF y = d THEN st ELSE mem[y]
  BY <1>1, <1>3 DEF Types
<1>6. DOMAIN side' = Devices /\ \A y \in Devices : side'[y] = IF y = d THEN NoSide ELSE side[y]
  BY <1>1, <1>4 DEF Types
<1>7. Types'
  <2>1. session' = NoSession \/ session' \in Sessions
    BY <1>1, <1>3 DEF Types
  <2>2. unconfirmed' \subseteq Devices
    BY <1>1, <1>4 DEF Types
  <2> QED BY <1>1, <1>4, <1>5, <1>6, <2>1, <2>2 DEF Types
<1>8. Grows
  <2>1. \A y \in Devices : mem'[y].adm[y] = mem[y].adm[y] /\ mem[y].adm[y] \in Generations
    BY <1>1, <1>3, <1>5, HeldTypes
  <2> QED BY <2>1, <1>4 DEF Grows, Generations, Absent
<1>9. \A y \in Devices : StoreInv(y, mem'[y]) /\ StoreInv(y, disk'[y])
  BY <1>3, <1>4, <1>5 DEF MembershipInv
<1>10. FilesFollow'
  BY <1>1, <1>3, <1>4, <1>5 DEF FilesFollow
<1>11. RostersBounded'
  <2>1. ASSUME NEW y \in Devices, NEW x \in Devices \ unconfirmed'
        PROVE  mem'[y].adm[x] <= mem'[x].adm[x] /\ mem'[y].rem[x] <= mem'[x].adm[x]
    <3>1. x \notin unconfirmed /\ mem'[y].adm = mem[y].adm /\ mem'[y].rem = mem[y].rem
          /\ mem'[x].adm = mem[x].adm
      BY <1>3, <1>4, <1>5
    <3>2. mem[y].adm[x] <= mem[x].adm[x] /\ mem[y].rem[x] <= mem[x].adm[x]
      BY <3>1, RosterOfOthers
    <3> QED BY <3>1, <3>2
  <2>2. \/ session' = NoSession
        \/ session # NoSession /\ session'.snap = session.snap
    BY <1>3
  <2> QED BY <1>1, <1>4, <1>7, <1>8, <2>1, <2>2, RostersKept
<1>12. SidesInv' /\ SlotsInv'
  <2>1. ASSUME NEW y \in Devices, NEW x \in Devices, NEW id \in Held(y, x)'
        PROVE  id.sas <= 0 \/ id \in Held(y, x)
    <3>1. PairingId(NoSlot).sas <= 0
      BY DEF PairingId, NoSlot, Absent
    <3>2. CASE y = d
      <4>1. id = PairingId(st.slots[x]) \/ id = PairingId(disk[d].slots[x])
        BY <2>1, <3>2, <1>4, <1>5 DEF Held
      <4>2. PairingId(disk[d].slots[x]) \in Held(d, x)
        BY DEF Held
      <4> QED BY <3>1, <3>2, <4>1, <4>2, <1>3
    <3>3. CASE y # d
      BY <2>1, <3>3, <1>4, <1>5 DEF Held
    <3> QED BY <3>2, <3>3
  <2>2. ASSUME NEW y \in Devices, Pairing(y), side'[y] = NoSide, y \notin unconfirmed',
               NEW x \in Devices, NEW id \in Held(y, x)', id.sas = side[y].id
        PROVE  FALSE
    <3>1. y = d /\ ~side[d].stored
      BY <2>2, <1>3, <1>6 DEF Pairing
    <3>2. side[y].id \in Nat /\ side[y].id > 0
      BY <2>2, <1>1 DEF Pairing, Types, Sides
    <3>3. id \in Held(d, x)
      BY <2>1, <2>2, <3>1, <3>2
    <3> QED BY <3>1, <3>3, <2>2, <1>1 DEF SidesInv, SideInv
  <2>3. \A y, x \in Devices : mem'[y].slots[x].sas > 0 /\ side'[y] # NoSide =>
               /\ mem'[y].slots[x].sas = mem[y].slots[x].sas
               /\ mem'[y].slots[x].fresh => mem[y].slots[x].fresh
    BY <1>5, <1>6
  <2>4. \A y \in Devices : side'[y] \in {side[y], NoSide}
    BY <1>6
  <2> QED BY <1>1, <1>4, <1>7, <1>8, <2>1, <2>2, <2>3, <2>4, CeremoniesKept
<1>13. SessionInv'
  <2>1. CASE session' = NoSession
    BY <2>1 DEF SessionInv
  <2>2. CASE session' = session /\ session # NoSession
    <3>1. session.from \in Devices /\ session.to \in Devices
      BY <1>1, <2>2 DEF Types, Sessions
    <3>2. \A y \in Devices : SideStep(y)
      BY <1>6 DEF SideStep
    <3>3. ceremonies' >= ceremonies
      BY <1>1, <1>4 DEF Types
    <3>4. \A y, x \in Devices : y # d => SlotStep(y, x)
      BY <1>5 DEF SlotStep
    <3>5. CASE d \notin {session.from, session.to}
      BY <1>1, <1>7, <1>8, <2>2, <3>1, <3>2, <3>3, <3>4, <3>5, SessionKept
    <3>6. CASE \A y \in Devices : st.slots[y] \in {mem[d].slots[y], NoSlot}
      <4>1. \A x \in Devices : SlotStep(d, x)
        BY <3>6, <1>3, <1>5 DEF SlotStep, Active
      <4> QED BY <1>1, <1>7, <1>8, <2>2, <3>1, <3>2, <3>3, <3>4, <4>1, SessionKept
    <3>7. \/ d \notin {session.from, session.to}
          \/ \A y \in Devices : st.slots[y] \in {mem[d].slots[y], NoSlot}
      BY <1>3, <2>2
    <3> QED BY <3>5, <3>6, <3>7
  <2> QED BY <2>1, <2>2, <1>3
<1> QED BY <1>7, <1>9, <1>10, <1>11, <1>12, <1>13 DEF MembershipInv

-----------------------------------------------------------------------------
(* A ceremony begins, and is stored.                                       *)

\* A proposal names generations.
LEMMA ProposalTypes ==
    ASSUME Types, NEW d \in Devices, NEW x \in Devices
    PROVE  Proposal(d, x) \in Proposals
<1>1. \A y \in Devices : mem[d].adm[y] \in Generations /\ mem[d].rem[y] \in Generations
  BY HeldTypes
<1>2. ASSUME NEW y \in Devices PROVE DesiredAdmission(mem[d], y) \in Nat
  <2>1. CASE Active(mem[d], y)
    BY <1>1, <2>1 DEF DesiredAdmission, Active, Generations, Absent
  <2>2. CASE ~Active(mem[d], y)
    BY <1>1, <2>2 DEF DesiredAdmission, Generations, Absent
  <2> QED BY <2>1, <2>2
<1> QED BY <1>2 DEF Proposal, Proposals

\* Pair: the new id is one no credential carries yet.
LEMMA PairStep ==
    ASSUME MembershipInv, NEW d \in Devices, NEW x \in Devices, d # x, Pair(d, x)
    PROVE  MembershipInv'
<1> DEFINE n == ceremonies + 1
           sd == [id |-> n, peer |-> x, stored |-> FALSE, mine |-> Proposal(d, x), theirs |-> Proposal(x, d)]
           sx == [id |-> n, peer |-> d, stored |-> FALSE, mine |-> Proposal(x, d), theirs |-> Proposal(d, x)]
<1>1. Types /\ RostersBounded /\ SidesInv /\ SlotsInv /\ SessionInv
  BY DEF MembershipInv
<1>2. /\ UNCHANGED <<mem, disk, acks, session, cloud, downloaded, outgoing, unconfirmed>>
      /\ ceremonies' = n /\ ceremonies < MaxCeremonies /\ ~Pairing(d) /\ ~Pairing(x)
      /\ side' = [side EXCEPT ![d] = sd, ![x] = sx]
  BY DEF Pair
<1>3. ceremonies \in Nat /\ n \in 1..MaxCeremonies /\ n > ceremonies /\ MaxCeremonies \in Nat
  BY <1>1, <1>2, MembershipAssumption DEF Types
<1>4. sd \in Sides /\ sx \in Sides
  BY <1>1, <1>3, ProposalTypes DEF Sides
<1>5. DOMAIN side' = Devices /\ side'[d] = sd /\ side'[x] = sx
      /\ \A y \in Devices \ {d, x} : side'[y] = side[y]
  BY <1>1, <1>2 DEF Types
<1>6. /\ sd.id = n /\ sd.peer = x /\ sx.id = n /\ sx.peer = d
      /\ sd.mine = sx.theirs /\ sd.theirs = sx.mine
  OBVIOUS
<1> HIDE DEF sd, sx, n
<1>7. Types'
  <2>1. ceremonies' \in 0..MaxCeremonies
    BY <1>2, <1>3
  <2>2. \A y \in Devices : side'[y] = NoSide \/ side'[y] \in Sides
    BY <1>1, <1>4, <1>5 DEF Types
  <2> QED BY <1>1, <1>2, <1>5, <2>1, <2>2 DEF Types
<1>8. /\ Grows
      /\ \A y \in Devices : StoreInv(y, mem'[y]) /\ StoreInv(y, disk'[y])
      /\ FilesFollow'
      /\ \A y \in Devices : \A z \in Devices \ unconfirmed' :
            mem'[y].adm[z] <= mem'[z].adm[z] /\ mem'[y].rem[z] <= mem'[z].adm[z]
      /\ \A y, z \in Devices : Held(y, z)' = Held(y, z)
      /\ \A y, z \in Devices : SlotStep(y, z)
  BY <1>2, StoresSame
<1>9. RostersBounded'
  <2>1. \/ session' = NoSession
        \/ session # NoSession /\ session'.snap = session.snap
    BY <1>2
  <2> QED BY <1>1, <1>2, <1>7, <1>8, <2>1, RostersKept
<1>10. ASSUME NEW y \in Devices, NEW z \in Devices, NEW id \in Held(y, z)
       PROVE  id.sas # n /\ (id.sas > 0 => id.sas <= ceremonies')
  <2>1. id \in Ids
    BY <1>1, <1>10, HeldTypes DEF Held
  <2>2. id.sas > 0 => id.sas <= ceremonies
    BY <1>1, <1>10 DEF SlotsInv
  <2> QED BY <2>1, <2>2, <1>2, <1>3 DEF Ids, Absent
<1>11. ASSUME NEW y \in Devices, Pairing(y)
       PROVE  y \notin {d, x} /\ side[y].id <= ceremonies /\ side[y].id # n /\ side[y].id <= ceremonies'
              /\ SideInv(y) /\ side'[y] = side[y] /\ side[y] \in Sides
  <2>1. y \notin {d, x} /\ side'[y] = side[y] /\ SideInv(y)
    BY <1>1, <1>2, <1>5, <1>11 DEF SidesInv
  <2>2. side[y].id <= ceremonies /\ side[y] \in Sides /\ side[y].id \in Nat
    BY <2>1, <1>1, <1>11 DEF SideInv, Types, Pairing, Sides
  <2> QED BY <2>1, <2>2, <1>2, <1>3
<1>12. ASSUME NEW y \in Devices, side'[y] # NoSide, y \notin {d, x} PROVE Pairing(y)
  BY <1>5, <1>12 DEF Pairing
<1>13. SidesInv'
  <2> SUFFICES ASSUME NEW y \in Devices, side'[y] # NoSide PROVE SideInv(y)'
    BY DEF SidesInv, Pairing
  <2>1. CASE y \in {d, x}
    <3> DEFINE p == IF y = d THEN x ELSE d
    <3>1. /\ p \in Devices /\ p # y /\ side'[y].id = n /\ side'[y].peer = p /\ side'[p].id = n
          /\ side'[p].mine = side'[y].theirs /\ side'[p].theirs = side'[y].mine
      BY <2>1, <1>5, <1>6
    <3> HIDE DEF p
    <3>2. n <= ceremonies'
      BY <1>2, <1>3
    <3>3. \A z \in Devices \ {y} : side'[z] # NoSide /\ side'[z].id = side'[y].id => z = p
      <4>1. \A z \in Devices \ {d, x} : side'[z] # NoSide => side'[z].id # n
        BY <1>11, <1>12
      <4>2. y \in {d, x} /\ p \in {d, x}
        BY <2>1 DEF p
      <4> QED BY <3>1, <4>1, <4>2
    <3>4. \A z \in Devices : \A id \in {PairingId(mem'[y].slots[z]), PairingId(disk'[y].slots[z])} : id.sas # n
      BY <1>2, <1>10 DEF Held
    <3>5. \A z \in Devices : mem'[y].slots[z].sas # n
      BY <3>4 DEF PairingId
    <3>6. \A id \in {PairingId(mem'[p].slots[y]), PairingId(disk'[p].slots[y])} : id.sas # n
      BY <1>2, <1>10, <3>1 DEF Held
    <3> QED BY <3>1, <3>2, <3>3, <3>4, <3>5, <3>6 DEF SideInv, Pairing, Held
  <2>2. CASE y \notin {d, x}
    <3>1. /\ Pairing(y) /\ SideInv(y) /\ side'[y] = side[y] /\ side[y].id # n
          /\ side[y].id <= ceremonies' /\ side[y] \in Sides
      BY <2>2, <1>11, <1>12
    <3>2. \A z \in Devices \ {y} : side'[z] # NoSide /\ side'[z].id = side[y].id => Pairing(z) /\ side'[z] = side[z]
      BY <3>1, <1>5, <1>6, <1>11, <1>12
    <3>3. \A z \in Devices \ {y} : side'[z] # NoSide /\ side'[z].id = side[y].id =>
             side[y].peer = z /\ side'[z].mine = side[y].theirs /\ side'[z].theirs = side[y].mine
      BY <3>1, <3>2 DEF SideInv
    <3>4. UNCHANGED <<mem, disk>>
      BY <1>2
    <3>5. \A z \in Devices : \A id \in {PairingId(mem'[y].slots[z]), PairingId(disk'[y].slots[z])} :
            id.sas = side'[y].id => z = side'[y].peer /\ side'[y].stored
      BY <3>1, <3>4 DEF SideInv, Held
    <3>6. \A z \in Devices : mem'[y].slots[z].sas = side'[y].id => ~mem'[y].slots[z].fresh
      BY <3>1, <3>4 DEF SideInv
    <3>7. \A id \in {PairingId(mem'[side'[y].peer].slots[y]), PairingId(disk'[side'[y].peer].slots[y])} :
            id.sas = side'[y].id =>
                /\ id.local = Agree(side'[y].theirs, side'[y].mine).local
                /\ id.remote = Agree(side'[y].theirs, side'[y].mine).remote
      BY <3>1, <3>4 DEF SideInv, Held
    <3>8. side'[y].id <= ceremonies' /\ side'[y].peer # y
      BY <3>1 DEF SideInv
    <3>9. \A z \in Devices : \A id \in Held(y, z)' :
            id.sas = side'[y].id => z = side'[y].peer /\ side'[y].stored
      BY <3>5 DEF Held
    <3>10. \A id \in Held(side[y].peer, y)' : id.sas = side'[y].id =>
                /\ id.local = Agree(side'[y].theirs, side'[y].mine).local
                /\ id.remote = Agree(side'[y].theirs, side'[y].mine).remote
      BY <3>7 DEF Held
    <3> QED BY <3>1, <3>3, <3>6, <3>8, <3>9, <3>10 DEF SideInv, Pairing
  <2> QED BY <2>1, <2>2
<1>14. SlotsInv'
  <2> SUFFICES ASSUME NEW y \in Devices, NEW z \in Devices, NEW id \in Held(y, z)', id.sas > 0
               PROVE  /\ id.sas <= ceremonies'
                      /\ \A other \in Held(z, y)' : other.sas = id.sas => other = Mirrored(id)
                      /\ \/ y \in unconfirmed'
                         \/ side'[y] # NoSide /\ side'[y].id = id.sas
                         \/ id.local <= mem'[y].adm[y]
    BY DEF SlotsInv, Own, Pairing, Held, Mirrored
  <2>1. id \in Held(y, z) /\ Held(z, y)' = Held(z, y)
    BY <1>8
  <2>2. /\ \A other \in Held(z, y) : other.sas = id.sas => other = Mirrored(id)
        /\ \/ y \in unconfirmed
           \/ Pairing(y) /\ side[y].id = id.sas
           \/ id.local <= mem[y].adm[y]
    BY <2>1, <1>1 DEF SlotsInv, Own
  <2> QED BY <2>1, <2>2, <1>2, <1>10, <1>11 DEF Pairing
<1>15. SessionInv'
  <2>1. ceremonies' >= ceremonies
    BY <1>2, <1>3
  <2>2. \A y \in Devices : SideStep(y)
    BY <1>3, <1>5, <1>6 DEF SideStep
  <2>3. session # NoSession => session.from \in Devices /\ session.to \in Devices
    BY <1>1 DEF Types, Sessions
  <2> QED BY <1>1, <1>2, <1>7, <1>8, <2>1, <2>2, <2>3, SessionKept
<1> QED BY <1>7, <1>8, <1>9, <1>13, <1>14, <1>15 DEF MembershipInv

\* The two halves agree on mirrored generations, each from its own side.
LEMMA AgreeMirrors ==
    ASSUME NEW mine \in Proposals, NEW theirs \in Proposals
    PROVE  /\ Agree(mine, theirs).local = Agree(theirs, mine).remote
           /\ Agree(mine, theirs).remote = Agree(theirs, mine).local
           /\ Agree(mine, theirs).local \in Nat /\ Agree(mine, theirs).remote \in Nat
BY DEF Agree, MaxOf, Proposals

\* Store: the credential mirrors what the other half stored, or will.
LEMMA StoreStep ==
    ASSUME MembershipInv, NEW d \in Devices, Store(d)
    PROVE  MembershipInv'
<1>0. Types /\ Pairing(d) /\ side[d] \in Sides
  BY DEF MembershipInv, Store, Pairing, Types
<1>00. PICK x \in Devices : x = side[d].peer
  BY <1>0 DEF Sides
<1> DEFINE agreed == Agree(side[d].mine, side[d].theirs)
           s == [sas |-> side[d].id, local |-> agreed.local, remote |-> agreed.remote, fresh |-> FALSE]
           st == [mem[d] EXCEPT !.slots[x] = s]
<1>1. Types /\ RostersBounded /\ SidesInv /\ SlotsInv /\ SessionInv /\ FilesFollow
  BY DEF MembershipInv
<1>2. Pairing(d) /\ ~side[d].stored /\ Storable(d, x, agreed) /\ Save(d, st)
  BY <1>00 DEF Store
<1>3. /\ UNCHANGED <<ceremonies, session, cloud, downloaded, outgoing, unconfirmed>>
      /\ side' = [side EXCEPT ![d].stored = TRUE]
      /\ acks' = acks \union {[id |-> side[d].id, from |-> d]}
  BY DEF Store
<1>4. side[d] \in Sides /\ SideInv(d) /\ mem[d] \in Stores /\ StoreInv(d, mem[d])
  BY <1>1, <1>2, HeldTypes DEF Pairing, Types, SidesInv, MembershipInv
<1>5. /\ x \in Devices /\ x # d /\ side[d].id \in Nat /\ side[d].id > 0
      /\ side[d].id \in 1..MaxCeremonies /\ side[d].id <= ceremonies
      /\ side[d].mine \in Proposals /\ side[d].theirs \in Proposals
  BY <1>00, <1>4, MembershipAssumption DEF Sides, SideInv
<1>6. agreed.local \in Nat /\ agreed.remote \in Nat
  BY <1>5, AgreeMirrors
<1> HIDE DEF agreed
<1>7. /\ s \in Slots /\ ~s.fresh /\ s.sas = side[d].id /\ s.local = agreed.local /\ s.remote = agreed.remote
      /\ PairingId(s) = [sas |-> side[d].id, local |-> agreed.local, remote |-> agreed.remote]
  BY <1>5, <1>6 DEF Slots, PairingId
<1>8. s.local <= mem[d].adm[d] + 1 /\ s.sas > 0
  BY <1>2, <1>5, <1>7 DEF Storable, CheckLocalAdmission
<1> HIDE DEF s
<1>9. /\ st \in Stores /\ StoreInv(d, st)
      /\ st.adm = mem[d].adm /\ st.rem = mem[d].rem /\ st.revoked = mem[d].revoked
      /\ \A y \in Devices : st.slots[y] = IF y = x THEN s ELSE mem[d].slots[y]
  BY <1>4, <1>5, <1>7, <1>8, SetSlot
<1> HIDE DEF st
<1>10. /\ mem' \in [Devices -> Stores] /\ disk' \in [Devices -> Stores]
       /\ \A y \in Devices : mem'[y] = IF y = d THEN st ELSE mem[y]
       /\ \A y \in Devices : disk'[y] = IF y = d THEN st ELSE disk[y]
  BY <1>1, <1>2, <1>9, SaveFacts
<1>11. /\ DOMAIN side' = Devices /\ \A y \in Devices \ {d} : side'[y] = side[y]
       /\ side'[d] \in Sides /\ side'[d].id = side[d].id /\ side'[d].peer = x /\ side'[d].stored
       /\ side'[d].mine = side[d].mine /\ side'[d].theirs = side[d].theirs
  <2>1. DOMAIN side' = Devices /\ \A y \in Devices \ {d} : side'[y] = side[y]
    BY <1>1, <1>3 DEF Types
  <2>2. side'[d] = [side[d] EXCEPT !.stored = TRUE]
    BY <1>1, <1>3 DEF Types
  <2> QED BY <2>1, <2>2, <1>4, <1>00 DEF Sides
<1>12. Types'
  <2>1. acks' \subseteq [id : 1..MaxCeremonies, from : Devices]
    BY <1>1, <1>3, <1>5 DEF Types
  <2>2. \A y \in Devices : side'[y] = NoSide \/ side'[y] \in Sides
    BY <1>1, <1>11 DEF Types
  <2> QED BY <1>1, <1>3, <1>10, <1>11, <2>1, <2>2 DEF Types
<1>13. Grows
  <2>1. \A y \in Devices : mem'[y].adm[y] = mem[y].adm[y] /\ mem[y].adm[y] \in Generations
    BY <1>1, <1>9, <1>10, HeldTypes
  <2> QED BY <2>1, <1>3 DEF Grows, Generations, Absent
<1>14. \A y \in Devices : StoreInv(y, mem'[y]) /\ StoreInv(y, disk'[y])
  BY <1>9, <1>10 DEF MembershipInv
<1>15. FilesFollow'
  BY <1>1, <1>3, <1>10 DEF FilesFollow
<1>16. RostersBounded'
  <2>1. ASSUME NEW y \in Devices, NEW z \in Devices \ unconfirmed'
        PROVE  mem'[y].adm[z] <= mem'[z].adm[z] /\ mem'[y].rem[z] <= mem'[z].adm[z]
    <3>1. z \notin unconfirmed /\ mem'[y].adm = mem[y].adm /\ mem'[y].rem = mem[y].rem
          /\ mem'[z].adm = mem[z].adm
      BY <1>3, <1>9, <1>10
    <3>2. mem[y].adm[z] <= mem[z].adm[z] /\ mem[y].rem[z] <= mem[z].adm[z]
      BY <3>1, RosterOfOthers
    <3> QED BY <3>1, <3>2
  <2>2. \/ session' = NoSession
        \/ session # NoSession /\ session'.snap = session.snap
    BY <1>3
  <2> QED BY <1>1, <1>3, <1>12, <1>13, <2>1, <2>2, RostersKept
<1> DEFINE new == PairingId(s)
<1>17. new.sas = side[d].id /\ new.local = agreed.local /\ new.remote = agreed.remote
  BY <1>7
<1>18. new = PairingId(s)
  OBVIOUS
<1> HIDE DEF new
<1>19. ASSUME NEW y \in Devices, NEW z \in Devices,
              NEW id \in {PairingId(mem'[y].slots[z]), PairingId(disk'[y].slots[z])}
       PROVE  \/ y = d /\ z = x /\ id = new
              \/ ~(y = d /\ z = x) /\ id \in Held(y, z)
  <2>1. CASE y = d /\ z = x
    BY <2>1, <1>9, <1>10, <1>18
  <2>2. CASE y = d /\ z # x
    BY <2>2, <1>9, <1>10 DEF Held
  <2>3. CASE y # d
    BY <2>3, <1>10 DEF Held
  <2> QED BY <2>1, <2>2, <2>3
<1>20. ASSUME NEW y \in Devices, NEW z \in Devices, NEW id \in Held(y, z)'
       PROVE  \/ y = d /\ z = x /\ id = new
              \/ ~(y = d /\ z = x) /\ id \in Held(y, z)
  BY <1>19 DEF Held
<1>21. ASSUME NEW y \in Devices, side'[y] # NoSide
       PROVE  /\ Pairing(y) /\ SideInv(y) /\ side'[y].id = side[y].id /\ side'[y].peer = side[y].peer
              /\ side'[y].mine = side[y].mine /\ side'[y].theirs = side[y].theirs
              /\ side[y].stored => side'[y].stored
              /\ side[y] \in Sides
  <2>1. CASE y = d
    BY <2>1, <1>2, <1>4, <1>11, <1>00
  <2>2. CASE y # d
    BY <2>2, <1>1, <1>11, <1>21 DEF Pairing, SidesInv, Types
  <2> QED BY <2>1, <2>2
<1>22. SidesInv'
  <2> SUFFICES ASSUME NEW y \in Devices, side'[y] # NoSide PROVE SideInv(y)'
    BY DEF SidesInv, Pairing
  <2>1. /\ Pairing(y) /\ SideInv(y) /\ side'[y].id = side[y].id /\ side'[y].peer = side[y].peer
        /\ side'[y].mine = side[y].mine /\ side'[y].theirs = side[y].theirs
        /\ side[y].stored => side'[y].stored
        /\ side[y] \in Sides
    BY <1>21
  <2>2. side'[y].id <= ceremonies' /\ side'[y].peer # y /\ side[y].peer \in Devices
    BY <2>1, <1>3 DEF SideInv, Sides
  <2>3. \A z \in Devices \ {y} : side'[z] # NoSide /\ side'[z].id = side'[y].id =>
            side'[y].peer = z /\ side'[z].mine = side'[y].theirs /\ side'[z].theirs = side'[y].mine
    BY <2>1, <1>21 DEF SideInv
  <2>4. ASSUME NEW z \in Devices, NEW id \in {PairingId(mem'[y].slots[z]), PairingId(disk'[y].slots[z])},
               id.sas = side[y].id
        PROVE  z = side[y].peer /\ side'[y].stored
    <3>1. CASE y = d /\ z = x
      BY <3>1, <1>11, <1>00
    <3>2. CASE ~(y = d /\ z = x) /\ id \in Held(y, z)
      BY <3>2, <2>1, <2>4 DEF SideInv
    <3> QED BY <3>1, <3>2, <1>19
  <2>5. ASSUME NEW z \in Devices, mem'[y].slots[z].sas = side[y].id
        PROVE  ~mem'[y].slots[z].fresh
    <3>1. CASE y = d /\ z = x
      BY <3>1, <1>7, <1>9, <1>10
    <3>2. CASE ~(y = d /\ z = x)
      <4>1. mem'[y].slots[z] = mem[y].slots[z]
        BY <3>2, <1>9, <1>10
      <4> QED BY <4>1, <2>1, <2>5 DEF SideInv
    <3> QED BY <3>1, <3>2
  <2>6. ASSUME NEW p \in Devices, p = side[y].peer,
               NEW id \in {PairingId(mem'[p].slots[y]), PairingId(disk'[p].slots[y])},
               id.sas = side[y].id
        PROVE  /\ id.local = Agree(side[y].theirs, side[y].mine).local
               /\ id.remote = Agree(side[y].theirs, side[y].mine).remote
    <3>1. CASE p = d /\ y = x /\ id = new
      <4>1. side[y].id = side[d].id
        BY <3>1, <2>6, <1>17
      <4>2. side[d].mine = side[y].theirs /\ side[d].theirs = side[y].mine
        BY <4>1, <3>1, <2>1, <1>2, <1>4, <1>5 DEF SideInv
      <4> QED BY <4>2, <3>1, <1>17 DEF agreed
    <3>2. CASE id \in Held(p, y)
      BY <3>2, <2>1, <2>6 DEF SideInv
    <3> QED BY <3>1, <3>2, <1>19
  <2>7. \A id \in {PairingId(mem'[side'[y].peer].slots[y]), PairingId(disk'[side'[y].peer].slots[y])} :
            id.sas = side'[y].id =>
                /\ id.local = Agree(side'[y].theirs, side'[y].mine).local
                /\ id.remote = Agree(side'[y].theirs, side'[y].mine).remote
    BY <2>1, <2>2, <2>6
  <2>8. \A z \in Devices : \A id \in Held(y, z)' :
            id.sas = side'[y].id => z = side'[y].peer /\ side'[y].stored
    BY <2>1, <2>4 DEF Held
  <2>9. \A id \in Held(side[y].peer, y)' : id.sas = side'[y].id =>
                /\ id.local = Agree(side'[y].theirs, side'[y].mine).local
                /\ id.remote = Agree(side'[y].theirs, side'[y].mine).remote
    BY <2>7 DEF Held
  <2>10. \A z \in Devices : mem'[y].slots[z].sas = side'[y].id => ~mem'[y].slots[z].fresh
    BY <2>1, <2>5
  <2> QED BY <2>2, <2>3, <2>8, <2>9, <2>10 DEF SideInv, Pairing
<1>23. SlotsInv'
  <2> SUFFICES ASSUME NEW y \in Devices, NEW z \in Devices, NEW id \in Held(y, z)', id.sas > 0
               PROVE  /\ id.sas <= ceremonies'
                      /\ \A other \in Held(z, y)' : other.sas = id.sas => other = Mirrored(id)
                      /\ \/ y \in unconfirmed'
                         \/ side'[y] # NoSide /\ side'[y].id = id.sas
                         \/ id.local <= mem'[y].adm[y]
    BY DEF SlotsInv, Own, Pairing, Held, Mirrored
  <2>0. side'[d] # NoSide
    BY <1>5, <1>11 DEF NoSide
  <2>1. ASSUME NEW other \in Held(x, d), other.sas = new.sas
        PROVE  other = Mirrored(new) /\ new = Mirrored(other)
    <3>1. /\ other.local = Agree(side[d].theirs, side[d].mine).local
          /\ other.remote = Agree(side[d].theirs, side[d].mine).remote
      BY <2>1, <1>4, <1>17, <1>00 DEF SideInv
    <3>2. other.local = new.remote /\ other.remote = new.local
      BY <3>1, <1>5, <1>17, AgreeMirrors DEF agreed
    <3>3. other \in Ids
      BY <2>1, <1>1, <1>5, HeldTypes DEF Held
    <3>4. new \in Ids
      BY <1>5, <1>6, <1>7, <1>18 DEF Ids
    <3> QED BY <2>1, <3>2, <3>3, <3>4 DEF Mirrored, Ids
  <2>2. CASE y = d /\ z = x /\ id = new
    <3>1. id.sas <= ceremonies' /\ side'[d].id = id.sas
      BY <2>2, <1>3, <1>5, <1>11, <1>17
    <3>2. \A other \in Held(x, d)' : other \in Held(x, d)
      BY <1>5, <1>20
    <3> QED BY <2>0, <2>1, <2>2, <3>1, <3>2
  <2>3. CASE ~(y = d /\ z = x) /\ id \in Held(y, z)
    <3>1. /\ id.sas <= ceremonies
          /\ \A other \in Held(z, y) : other.sas = id.sas => other = Mirrored(id)
          /\ \/ y \in unconfirmed
             \/ Pairing(y) /\ side[y].id = id.sas
             \/ id.local <= mem[y].adm[y]
      BY <2>3, <1>1 DEF SlotsInv, Own
    <3>2. \/ y \in unconfirmed'
          \/ side'[y] # NoSide /\ side'[y].id = id.sas
          \/ id.local <= mem'[y].adm[y]
      <4>1. mem'[y].adm = mem[y].adm
        BY <1>9, <1>10
      <4>2. Pairing(y) => side'[y] # NoSide /\ side'[y].id = side[y].id
        BY <2>0, <1>11 DEF Pairing
      <4> QED BY <3>1, <4>1, <4>2, <1>3
    <3>3. ASSUME NEW other \in Held(z, y)', other.sas = id.sas PROVE other = Mirrored(id)
      <4>1. CASE z = d /\ y = x /\ other = new
        BY <4>1, <3>3, <2>1, <2>3
      <4>2. CASE other \in Held(z, y)
        BY <4>2, <3>1, <3>3
      <4> QED BY <4>1, <4>2, <1>20
    <3> QED BY <3>1, <3>2, <3>3, <1>3
  <2> QED BY <2>2, <2>3, <1>20
<1>24. SessionInv'
  <2>1. ceremonies' >= ceremonies
    BY <1>1, <1>3 DEF Types
  <2>2. \A y \in Devices : SideStep(y)
    BY <1>2, <1>11 DEF SideStep
  <2>3. session # NoSession => session.from \in Devices /\ session.to \in Devices
    BY <1>1 DEF Types, Sessions
  <2>4. ASSUME NEW y \in Devices, NEW z \in Devices PROVE SlotStep(y, z)
    <3>1. CASE y = d /\ z = x
      BY <3>1, <1>2, <1>7, <1>9, <1>10 DEF SlotStep
    <3>2. CASE ~(y = d /\ z = x)
      <4>1. mem'[y].slots[z] = mem[y].slots[z] /\ mem'[y].adm = mem[y].adm /\ mem'[y].rem = mem[y].rem
        BY <3>2, <1>9, <1>10
      <4> QED BY <4>1 DEF SlotStep, Active
    <3> QED BY <3>1, <3>2
  <2> QED BY <1>1, <1>3, <1>12, <1>13, <2>1, <2>2, <2>3, <2>4, SessionKept
<1> QED BY <1>12, <1>14, <1>15, <1>16, <1>22, <1>23, <1>24 DEF MembershipInv

-----------------------------------------------------------------------------
(* Rosters are exchanged.                                                  *)

\* What a store has learned by a merge, for the lemmas on steps: its own
\* generation and its removals do not fall, what it says of others is bounded,
\* and it holds no credential but derived ones that it did not hold.
Learns(d, snap, st) ==
    /\ st \in Stores /\ StoreInv(d, st) /\ st.adm[d] >= mem[d].adm[d]
    /\ \A x \in Devices \ unconfirmed : x # d =>
          st.adm[x] <= mem[x].adm[x] /\ st.rem[x] <= mem[x].adm[x]
    /\ \A x \in Devices : \/ st.slots[x].sas <= 0
                          \/ /\ PairingId(st.slots[x]) = PairingId(mem[d].slots[x])
                             /\ st.slots[x].fresh => mem[d].slots[x].fresh
    /\ mem'[d] = st => \A x \in Devices : SlotStep(d, x)
    /\ \A x \in Devices : st.rem[x] = MaxOf(mem[d].rem[x], snap.rem[x])
    /\ Active(st, d) => Active(mem[d], d)

\* A fresh admission raises the issuer no higher than it has certified.
FreshBelow(d, snap, via) ==
    Fresh(d, snap, via) /\ snap.issuer \notin unconfirmed =>
        /\ snap.rem[snap.issuer] < mem[snap.issuer].adm[snap.issuer]
        /\ mem[d].rem[snap.issuer] < mem[snap.issuer].adm[snap.issuer]

\* A merge that is not refused teaches no more than that.
LEMMA MergedStore ==
    ASSUME MembershipInv, NEW d \in Devices, NEW snap \in Snaps, NEW via \in BOOLEAN,
           snap.issuer # d, ~MergeFails(d, snap, via), Bounded(snap), FreshBelow(d, snap, via)
    PROVE  Learns(d, snap, Merged(d, snap, via))
<1> DEFINE st == Merged(d, snap, via)
<1> DEFINE i == snap.issuer  fresh == Fresh(d, snap, via)
<1>1. Types /\ mem[d] \in Stores /\ StoreInv(d, mem[d]) /\ i \in Devices
  BY HeldTypes DEF MembershipInv, Snaps
<1>2. MergeEffect(d, mem[d], snap, fresh, st)
  BY <1>1, MergedEffect
<1> HIDE DEF fresh, st
<1>3. /\ st \in Stores /\ StoreInv(d, st) /\ st.adm[d] >= mem[d].adm[d]
      /\ \A x \in Devices : st.rem[x] = MaxOf(mem[d].rem[x], snap.rem[x])
      /\ Active(st, d) => Active(mem[d], d)
  BY <1>2 DEF MergeEffect
<1>4. \A x \in Devices \ {d} :
        \/ st.adm[x] \in {Absent, mem[d].adm[x], snap.adm[x]}
        \/ fresh /\ x = i /\ st.adm[x] = MaxOf(snap.adm[x], st.rem[x] + 1)
  BY <1>2 DEF MergeEffect
<1>5. \A x \in Devices :
        \/ st.slots[x] = NoSlot
        \/ st.slots[x].sas = 0 /\ ~st.slots[x].fresh /\ Active(st, d)
        \/ /\ PairingId(st.slots[x]) = PairingId(mem[d].slots[x])
           /\ st.slots[x].fresh => mem[d].slots[x].fresh
           /\ Active(mem[d], d) => Active(st, d)
           /\ Active(mem[d], x) /\ ~mem[d].slots[x].fresh => Active(st, x)
  BY <1>2 DEF MergeEffect
<1>6. \A x \in Devices : \/ st.slots[x].sas <= 0
                         \/ /\ PairingId(st.slots[x]) = PairingId(mem[d].slots[x])
                            /\ st.slots[x].fresh => mem[d].slots[x].fresh
  <2>1. NoSlot.sas <= 0
    BY DEF NoSlot, Absent
  <2> QED BY <1>5, <2>1
<1>7. mem'[d] = st => \A x \in Devices : SlotStep(d, x)
  BY <1>5 DEF SlotStep
<1>8. ASSUME NEW x \in Devices \ unconfirmed, x # d
      PROVE  st.adm[x] <= mem[x].adm[x] /\ st.rem[x] <= mem[x].adm[x]
  <2>1. mem[d].adm[x] <= mem[x].adm[x] /\ mem[d].rem[x] <= mem[x].adm[x]
    BY RosterOfOthers
  <2>2. snap.adm[x] <= mem[x].adm[x] /\ snap.rem[x] <= mem[x].adm[x]
    BY DEF Bounded, Own
  <2>3. /\ mem[x].adm[x] \in Generations /\ mem[d].adm[x] \in Generations /\ mem[d].rem[x] \in Generations
        /\ snap.adm[x] \in Generations /\ snap.rem[x] \in Generations
    BY <1>1, HeldTypes DEF Snaps, Rosters
  <2>4. st.rem[x] = MaxOf(mem[d].rem[x], snap.rem[x])
    BY <1>3
  <2>5. st.rem[x] \in {mem[d].rem[x], snap.rem[x]}
    BY <2>4 DEF MaxOf
  <2>6. CASE st.adm[x] \in {Absent, mem[d].adm[x], snap.adm[x]}
    BY <2>1, <2>2, <2>3, <2>5, <2>6 DEF Generations, Absent
  <2>7. CASE fresh /\ x = i /\ st.adm[x] = MaxOf(snap.adm[x], st.rem[x] + 1)
    <3>1. snap.rem[x] < mem[x].adm[x] /\ mem[d].rem[x] < mem[x].adm[x]
      BY <1>8, <2>7 DEF fresh, FreshBelow
    <3>2. st.rem[x] + 1 <= mem[x].adm[x]
      BY <2>3, <2>5, <3>1 DEF Generations, Absent
    <3> QED BY <2>2, <2>3, <2>5, <2>7, <3>2 DEF MaxOf, Generations, Absent
  <2> QED BY <1>4, <1>8, <2>6, <2>7
<1>9. Learns(d, snap, st)
  BY <1>3, <1>6, <1>7, <1>8 DEF Learns
<1> QED BY <1>9 DEF st

\* Import keeps the invariant.
LEMMA ImportStep ==
    ASSUME MembershipInv, NEW d \in Devices, NEW x \in Devices \ {d}, Import(d, x)
    PROVE  MembershipInv'
<1>1. Types /\ RostersBounded
  BY DEF MembershipInv
<1>2. /\ UNCHANGED <<side, ceremonies, acks, session, cloud, outgoing, unconfirmed>>
      /\ downloaded' \in [Devices -> SUBSET Devices]
      /\ cloud[x] # NotPublished
  <2>1. downloaded' = [downloaded EXCEPT ![d] =
           IF Active(mem'[d], d) THEN downloaded[d] \union {x} ELSE downloaded[d]]
    BY DEF Import
  <2>2. downloaded' \in [Devices -> SUBSET Devices]
    BY <1>1, <2>1 DEF Types
  <2> QED BY <2>2 DEF Import
<1>3. CASE MergeFails(d, cloud[x], FALSE)
  <2>1. UNCHANGED <<mem, disk>>
    BY <1>3 DEF Import
  <2>2. Types'
    BY <1>1, <1>2, <2>1 DEF Types
  <2> QED BY <1>2, <2>1, <2>2, QuietStep DEF Pairing
<1>4. CASE ~MergeFails(d, cloud[x], FALSE)
  <2>1. cloud[x] \in Snaps /\ cloud[x].issuer # d /\ Bounded(cloud[x])
    BY <1>1, <1>2 DEF Types, RostersBounded
  <2>2. FreshBelow(d, cloud[x], FALSE)
    BY DEF Fresh, FreshBelow
  <2>3. PICK st : st = Merged(d, cloud[x], FALSE)
    OBVIOUS
  <2>4. Save(d, st)
    BY <1>4, <2>3 DEF Import
  <2>5. /\ st \in Stores /\ StoreInv(d, st) /\ st.adm[d] >= mem[d].adm[d]
        /\ \A y \in Devices \ unconfirmed : y # d =>
                 st.adm[y] <= mem[y].adm[y] /\ st.rem[y] <= mem[y].adm[y]
        /\ \A y \in Devices : \/ st.slots[y].sas <= 0
                              \/ /\ PairingId(st.slots[y]) = PairingId(mem[d].slots[y])
                                 /\ st.slots[y].fresh => mem[d].slots[y].fresh
        /\ mem'[d] = st => \A y \in Devices : SlotStep(d, y)
    <3>1. Learns(d, cloud[x], st)
      BY <1>4, <2>1, <2>2, <2>3, MergedStore
    <3> QED BY <3>1 DEF Learns
  <2>6. /\ mem' \in [Devices -> Stores] /\ disk' \in [Devices -> Stores]
        /\ \A y \in Devices : mem'[y] = IF y = d THEN st ELSE mem[y]
    BY <1>1, <2>4, <2>5, SaveFacts
  <2>7. Types'
    BY <1>1, <1>2, <2>6 DEF Types
  <2> QED BY <1>2, <2>4, <2>5, <2>6, <2>7, SaveStep
<1> QED BY <1>3, <1>4

\* Over a session, the mark of a fresh admission raises the issuer to a
\* generation it has certified.
LEMMA FreshIsCertified ==
    ASSUME MembershipInv, session # NoSession, NEW d \in Devices, NEW x \in Devices,
           \/ session.stage = "request" /\ d = session.to /\ x = session.from
              /\ PairingId(mem[d].slots[x]) = session.toId
           \/ session.stage = "reply" /\ d = session.from /\ x = session.to
              /\ PairingId(mem[d].slots[x]) = session.fromId
    PROVE  /\ session.snap \in Snaps /\ session.snap.issuer = x /\ x # d /\ Bounded(session.snap)
           /\ Active(mem[d], d)
           /\ FreshBelow(d, session.snap, TRUE)
<1>1. Types /\ SessionInv /\ RostersBounded /\ StoreInv(d, mem[d]) /\ session \in Sessions
  BY DEF MembershipInv, Types
<1>2. session.snap \in Snaps /\ session.fromId \in Ids /\ session.toId \in Ids
  BY <1>1 DEF Sessions
<1>3. session.snap.issuer = x /\ x # d /\ Bounded(session.snap)
  BY <1>1 DEF SessionInv, RostersBounded
<1>4. PICK id \in Ids : PairingId(mem[d].slots[x]) = id /\ EndInv(d, x, id)
  BY <1>1, <1>2 DEF SessionInv
<1>5. Active(mem[d], d)
  BY <1>4 DEF EndInv
<1>6. ASSUME Fresh(d, session.snap, TRUE), x \notin unconfirmed
      PROVE  /\ session.snap.rem[x] < mem[x].adm[x]
             /\ mem[d].rem[x] < mem[x].adm[x]
  <2>1. mem[d].slots[x].fresh
    BY <1>3, <1>6 DEF Fresh
  <2>2. id.remote <= mem[x].adm[x] /\ mem[d].slots[x].remote > mem[d].rem[x] /\ id.remote = mem[d].slots[x].remote
    BY <1>1, <1>4, <1>6, <2>1 DEF EndInv, StoreInv, Own, PairingId
  <2>3. mem[d].rem[x] \in Generations /\ mem[x].adm[x] \in Generations
    BY <1>1, HeldTypes
  <2>4. mem[d].rem[x] < mem[x].adm[x]
    BY <1>4, <2>2, <2>3 DEF Ids, Generations, Absent
  <2>5. session.snap.rem[x] < mem[x].adm[x]
    BY <1>1, <1>6, <2>1 DEF SessionInv, Own
  <2> QED BY <2>4, <2>5
<1>7. FreshBelow(d, session.snap, TRUE)
  BY <1>3, <1>6 DEF FreshBelow
<1> QED BY <1>2, <1>3, <1>5, <1>7

\* Finish keeps the invariant.
LEMMA FinishStep ==
    ASSUME MembershipInv, Finish
    PROVE  MembershipInv'
<1>1. Types /\ session # NoSession /\ session.stage = "reply" /\ session \in Sessions
  BY DEF MembershipInv, Finish, Types
<1>2. PICK d \in Devices, x \in Devices, snap \in Snaps :
        d = session.from /\ x = session.to /\ snap = session.snap
  BY <1>1 DEF Sessions
<1>3. UNCHANGED <<side, ceremonies, acks, cloud, downloaded, outgoing, unconfirmed>> /\ session' = NoSession
  BY DEF Finish
<1>4. CASE UNCHANGED <<mem, disk>>
  <2>1. Types'
    BY <1>1, <1>3, <1>4 DEF Types
  <2> QED BY <1>3, <1>4, <2>1, QuietStep DEF Pairing
<1>5. CASE PairingId(mem[d].slots[x]) = session.fromId /\ ~MergeFails(d, snap, TRUE)
  <2>1. PICK st : st = Merged(d, snap, TRUE)
    OBVIOUS
  <2>2. Save(d, st)
    BY <1>2, <1>5, <2>1 DEF Finish
  <2>3. snap.issuer = x /\ x # d /\ Bounded(snap) /\ FreshBelow(d, snap, TRUE)
    BY <1>1, <1>2, <1>5, FreshIsCertified
  <2>4. /\ st \in Stores /\ StoreInv(d, st) /\ st.adm[d] >= mem[d].adm[d]
        /\ \A y \in Devices \ unconfirmed : y # d =>
                 st.adm[y] <= mem[y].adm[y] /\ st.rem[y] <= mem[y].adm[y]
        /\ \A y \in Devices : \/ st.slots[y].sas <= 0
                              \/ /\ PairingId(st.slots[y]) = PairingId(mem[d].slots[y])
                                 /\ st.slots[y].fresh => mem[d].slots[y].fresh
        /\ mem'[d] = st => \A y \in Devices : SlotStep(d, y)
    <3>1. Learns(d, snap, st)
      BY <1>5, <2>1, <2>3, MergedStore
    <3> QED BY <3>1 DEF Learns
  <2>5. /\ mem' \in [Devices -> Stores] /\ disk' \in [Devices -> Stores]
        /\ \A y \in Devices : mem'[y] = IF y = d THEN st ELSE mem[y]
    BY <1>1, <2>2, <2>4, SaveFacts
  <2>6. Types'
    BY <1>1, <1>3, <2>5 DEF Types
  <2> QED BY <1>3, <2>2, <2>4, <2>5, <2>6, SaveStep
<1> QED BY <1>2, <1>4, <1>5 DEF Finish

\* Respond: what it replies says no more than it holds, and holds it above the
\* removals the other end will weigh against a fresh admission.
LEMMA RespondStep ==
    ASSUME MembershipInv, Respond
    PROVE  MembershipInv'
<1>1. /\ Types /\ SessionInv /\ RostersBounded /\ SidesInv
      /\ session # NoSession /\ session.stage = "request" /\ session \in Sessions
  BY DEF MembershipInv, Respond, Types
<1>2. PICK d \in Devices, x \in Devices, snap \in Snaps, i \in Ids, j \in Ids :
        /\ d = session.to /\ x = session.from /\ snap = session.snap
        /\ i = session.fromId /\ j = session.toId
  BY <1>1 DEF Sessions
<1>3. UNCHANGED <<side, ceremonies, acks, cloud, downloaded, outgoing, unconfirmed>>
  BY DEF Respond
<1>4. CASE session' = NoSession /\ UNCHANGED <<mem, disk>>
  <2>1. Types'
    BY <1>1, <1>3, <1>4 DEF Types
  <2> QED BY <1>3, <1>4, <2>1, QuietStep DEF Pairing
<1>5. CASE PairingId(mem[d].slots[x]) = j /\ ~MergeFails(d, snap, TRUE)
           /\ ~(session' = NoSession /\ UNCHANGED <<mem, disk>>)
  <2>1. PICK st : st = Merged(d, snap, TRUE)
    OBVIOUS
  <2>2. Save(d, st) /\ session' = [session EXCEPT !.stage = "reply", !.snap = Snapshot(d, st)]
    BY <1>2, <1>5, <2>1 DEF Respond
  <2>3. snap.issuer = x /\ x # d /\ Bounded(snap) /\ Active(mem[d], d) /\ FreshBelow(d, snap, TRUE)
    BY <1>1, <1>2, <1>5, FreshIsCertified
  <2>4. /\ st \in Stores /\ StoreInv(d, st) /\ st.adm[d] >= mem[d].adm[d]
        /\ \A y \in Devices \ unconfirmed : y # d =>
                 st.adm[y] <= mem[y].adm[y] /\ st.rem[y] <= mem[y].adm[y]
        /\ \A y \in Devices : \/ st.slots[y].sas <= 0
                              \/ /\ PairingId(st.slots[y]) = PairingId(mem[d].slots[y])
                                 /\ st.slots[y].fresh => mem[d].slots[y].fresh
        /\ mem'[d] = st => \A y \in Devices : SlotStep(d, y)
        /\ \A y \in Devices : st.rem[y] = MaxOf(mem[d].rem[y], snap.rem[y])
    <3>1. Learns(d, snap, st)
      BY <1>5, <2>1, <2>3, MergedStore
    <3> QED BY <3>1 DEF Learns
  <2>5. /\ mem' \in [Devices -> Stores] /\ disk' \in [Devices -> Stores]
        /\ \A y \in Devices : mem'[y] = IF y = d THEN st ELSE mem[y]
    BY <1>1, <2>2, <2>4, SaveFacts
  <2>6. /\ session' \in Sessions /\ session'.stage = "reply" /\ session'.snap = Snapshot(d, st)
        /\ session'.from = x /\ session'.to = d /\ session'.fromId = i /\ session'.toId = j
    <3>1. Snapshot(d, st) \in Snaps
      BY <2>4 DEF Snapshot, Snaps, Stores
    <3> QED BY <1>1, <1>2, <2>2, <3>1 DEF Sessions
  <2>7. Types'
    BY <1>1, <1>3, <2>5, <2>6 DEF Types
  <2>8. /\ Grows
        /\ \A y \in Devices : StoreInv(y, mem'[y]) /\ StoreInv(y, disk'[y])
        /\ FilesFollow' /\ SidesInv' /\ SlotsInv'
    BY <1>3, <2>2, <2>4, <2>7, SaveKeeps
  <2>9. RostersBounded'
    <3>1. ASSUME NEW y \in Devices, NEW z \in Devices \ unconfirmed'
          PROVE  mem'[y].adm[z] <= mem'[z].adm[z] /\ mem'[y].rem[z] <= mem'[z].adm[z]
      <4>1. CASE y = d /\ z = d
        <5>1. st.rem[d] <= st.adm[d] /\ st.adm[d] \in Generations
          BY <2>4 DEF StoreInv, Stores, Rosters
        <5> QED BY <2>5, <4>1, <5>1 DEF Generations, Absent
      <4>2. CASE y = d /\ z # d
        BY <1>3, <2>4, <2>5, <4>2
      <4>3. CASE y # d
        <5>1. mem[y].adm \in Rosters /\ mem[y].rem \in Rosters
          BY <1>1 DEF Types, Stores
        <5>2. Bounded(mem[y])
          BY <1>1 DEF RostersBounded
        <5>3. mem[y].adm[z] <= mem'[z].adm[z] /\ mem[y].rem[z] <= mem'[z].adm[z]
          BY <5>1, <5>2, <1>1, <2>7, <2>8, BoundedGrows
        <5> QED BY <5>3, <2>5, <4>3
      <4> QED BY <4>1, <4>2, <4>3
    <3>2. session'.snap = Snapshot(d, mem'[d])
      BY <2>5, <2>6
    <3> QED BY <1>1, <1>3, <2>7, <2>8, <3>1, <3>2, RostersKept
  <2>10. /\ EndInv(x, d, i) /\ EndInv(d, x, j)
         /\ i.sas # Absent /\ j.sas # Absent /\ i.sas <= ceremonies /\ j.sas <= ceremonies
         /\ Pairing(x) => side[x].id # i.sas
         /\ PairingId(mem[x].slots[d]) = i /\ mem[x].slots[d].fresh =>
                    d \in unconfirmed \/ snap.rem[d] < mem[d].adm[d]
    BY <1>1, <1>2 DEF SessionInv, Own
  <2>11. SlotStep(x, d) /\ SlotStep(d, x) /\ SideStep(x) /\ SideStep(d)
    <3>1. mem'[x] = mem[x]
      BY <2>3, <2>5
    <3> QED BY <3>1, <1>3, <2>4, <2>5 DEF SlotStep, SideStep
  <2>12. EndInv(x, d, i)' /\ EndInv(d, x, j)'
    BY <1>1, <2>7, <2>8, <2>10, <2>11, EndKept
  <2>13. PairingId(mem'[x].slots[d]) = i /\ mem'[x].slots[d].fresh =>
                    d \in unconfirmed' \/ session'.snap.rem[d] < mem'[d].adm[d]
    <3> SUFFICES ASSUME PairingId(mem[x].slots[d]) = i, mem[x].slots[d].fresh, d \notin unconfirmed
                 PROVE  st.rem[d] < st.adm[d]
      BY <1>3, <2>3, <2>5, <2>6 DEF Snapshot
    <3>1. snap.rem[d] < mem[d].adm[d]
      BY <2>10
    <3>2. /\ mem[d].rem[d] < mem[d].adm[d]
          /\ mem[d].rem[d] \in Generations /\ mem[d].adm[d] \in Generations
          /\ snap.rem[d] \in Generations /\ st.adm[d] \in Generations
      BY <1>1, <2>3, <2>4, HeldTypes DEF Active, Snaps, Stores, Rosters, Generations, Absent
    <3>3. st.rem[d] \in {mem[d].rem[d], snap.rem[d]}
      BY <2>4 DEF MaxOf
    <3> QED BY <2>4, <3>1, <3>2, <3>3 DEF Generations, Absent
  <2>14. session'.snap.issuer = d
    BY <2>6 DEF Snapshot
  <2>15. SessionInv'
    BY <1>3, <2>3, <2>6, <2>10, <2>12, <2>13, <2>14 DEF SessionInv, EndInv, Pairing, Own
  <2> QED BY <2>7, <2>8, <2>9, <2>15 DEF MembershipInv
<1> QED BY <1>2, <1>4, <1>5 DEF Respond

\* One end of an exchange that begins: what is fresh there was certified by the
\* other end, over a shared credential or because the roster knows it.
LEMMA DialEnd ==
    ASSUME MembershipInv, NEW d \in Devices, NEW x \in Devices, d # x,
           HasSlot(mem[d], x), HasSlot(mem[x], d), Active(mem[d], d),
           \/ /\ ~Pending(d, x) /\ ~Pending(x, d)
              /\ PairingId(mem[x].slots[d]) = Mirrored(PairingId(mem[d].slots[x]))
           \/ Active(mem[d], x)
    PROVE  /\ EndInv(d, x, PairingId(mem[d].slots[x]))
           /\ PairingId(mem[d].slots[x]).sas # Absent
           /\ PairingId(mem[d].slots[x]).sas <= ceremonies
           /\ mem[d].slots[x].fresh => x \in unconfirmed \/ mem[d].rem[x] < mem[x].adm[x]
<1> DEFINE s == mem[d].slots[x]  t == mem[x].slots[d]
<1>1. Types /\ SidesInv /\ SlotsInv /\ StoreInv(d, mem[d]) /\ StoreInv(x, mem[x])
  BY DEF MembershipInv
<1>2. /\ s \in Slots /\ t \in Slots /\ PairingId(s) \in Ids /\ PairingId(t) \in Ids
      /\ mem[d].rem[x] \in Generations /\ mem[x].adm[x] \in Generations
  BY <1>1, HeldTypes
<1>3. /\ PairingId(s).sas = s.sas /\ PairingId(s).local = s.local /\ PairingId(s).remote = s.remote
      /\ PairingId(t).sas = t.sas /\ PairingId(t).local = t.local /\ PairingId(t).remote = t.remote
  BY DEF PairingId
<1>4. s.sas # Absent
  BY <1>1 DEF StoreInv, HasSlot
<1>5. PairingId(s) \in Held(d, x) /\ PairingId(t) \in Held(x, d)
  BY DEF Held
<1>6. s.sas <= ceremonies
  <2>1. CASE s.sas > 0
    BY <2>1, <1>1, <1>3, <1>5 DEF SlotsInv
  <2>2. CASE ~(s.sas > 0)
    BY <2>2, <1>1, <1>2 DEF Slots, Types, Absent
  <2> QED BY <2>1, <2>2
<1>7. ASSUME s.fresh, x \notin unconfirmed PROVE s.remote <= mem[x].adm[x]
  <2>1. s.sas > 0 /\ (Active(mem[d], x) => s.remote = mem[d].adm[x])
    BY <1>1, <1>7 DEF StoreInv
  <2>2. CASE Active(mem[d], x)
    BY <2>1, <2>2, <1>7, RosterOfOthers
  <2>3. CASE /\ ~Pending(d, x) /\ ~Pending(x, d)
             /\ PairingId(t) = Mirrored(PairingId(s))
    <3>1. t.sas = s.sas /\ t.local = s.remote
      BY <2>3, <1>2, <1>3 DEF Mirrored, Ids
    <3>2. \/ x \in unconfirmed
          \/ Pairing(x) /\ side[x].id = t.sas
          \/ t.local <= mem[x].adm[x]
      BY <3>1, <2>1, <1>1, <1>3, <1>5 DEF SlotsInv, Own
    <3>3. ~(Pairing(x) /\ side[x].id = t.sas)
      BY <2>3 DEF Pending
    <3> QED BY <3>1, <3>2, <3>3, <1>7
  <2> QED BY <2>2, <2>3
<1>8. s.fresh => x \in unconfirmed \/ mem[d].rem[x] < mem[x].adm[x]
  <2>1. s.fresh => s.remote > mem[d].rem[x]
    BY <1>1 DEF StoreInv
  <2> QED BY <2>1, <1>2, <1>7 DEF Slots, Generations, Absent
<1>9. Pairing(d) /\ side[d].id = s.sas => side[d].stored
  BY <1>1, <1>3, <1>5 DEF SidesInv, SideInv
<1>10. Pairing(d) /\ side[d].id = s.sas => Active(mem[d], x)
  BY DEF Pending
<1>11. EndInv(d, x, PairingId(s))
  BY <1>3, <1>7, <1>9, <1>10 DEF EndInv, Own
<1> QED BY <1>3, <1>4, <1>6, <1>8, <1>11

\* Dial keeps the invariant.
LEMMA DialStep ==
    ASSUME MembershipInv, NEW d \in Devices, NEW x \in Devices, d # x, Dial(d, x)
    PROVE  MembershipInv'
<1>1. Types /\ RostersBounded /\ SidesInv /\ SlotsInv /\ mem[d] \in Stores
  BY HeldTypes DEF MembershipInv
<1>2. /\ UNCHANGED <<mem, disk, side, ceremonies, acks, cloud, downloaded, outgoing, unconfirmed>>
      /\ Reachable(d, x)
      /\ session' = [stage |-> "request", from |-> d, to |-> x,
                     fromId |-> PairingId(mem[d].slots[x]),
                     toId |-> PairingId(mem[x].slots[d]),
                     snap |-> Snapshot(d, mem[d])]
  BY DEF Dial
<1>3. PICK i \in Ids, j \in Ids, snap \in Snaps :
        i = PairingId(mem[d].slots[x]) /\ j = PairingId(mem[x].slots[d]) /\ snap = Snapshot(d, mem[d])
  BY <1>1, HeldTypes DEF Snapshot, Snaps, Stores
<1>4. /\ session' \in Sessions /\ session'.stage = "request" /\ session'.from = d /\ session'.to = x
      /\ session'.fromId = i /\ session'.toId = j /\ session'.snap = snap
      /\ snap.issuer = d /\ snap.rem = mem[d].rem
  BY <1>2, <1>3 DEF Sessions, Snapshot
<1>5. Types'
  BY <1>1, <1>2, <1>4 DEF Types
<1>6. /\ Grows
      /\ \A y \in Devices : StoreInv(y, mem'[y]) /\ StoreInv(y, disk'[y])
      /\ FilesFollow'
      /\ \A y \in Devices : \A z \in Devices \ unconfirmed' :
            mem'[y].adm[z] <= mem'[z].adm[z] /\ mem'[y].rem[z] <= mem'[z].adm[z]
      /\ \A y, z \in Devices : Held(y, z)' = Held(y, z)
  BY <1>2, StoresSame
<1>7. RostersBounded'
  <2>1. \E y \in Devices : session'.snap = Snapshot(y, mem'[y])
    BY <1>2, <1>3, <1>4
  <2> QED BY <1>1, <1>2, <1>5, <1>6, <2>1, RostersKept
<1>8. SidesInv' /\ SlotsInv'
  <2>1. \A y \in Devices : side'[y] = side[y] /\ ~(Pairing(y) /\ side'[y] = NoSide)
    BY <1>2 DEF Pairing
  <2>2. \A y, z \in Devices : \A id \in Held(y, z)' : id.sas <= 0 \/ id \in Held(y, z)
    BY <1>6
  <2>3. \A y, z \in Devices : mem'[y].slots[z].sas > 0 /\ side'[y] # NoSide =>
               /\ mem'[y].slots[z].sas = mem[y].slots[z].sas
               /\ mem'[y].slots[z].fresh => mem[y].slots[z].fresh
    BY <1>2
  <2> QED BY <1>1, <1>2, <1>5, <1>6, <2>1, <2>2, <2>3, CeremoniesKept
<1>9. /\ HasSlot(mem[d], x) /\ HasSlot(mem[x], d) /\ Active(mem[d], d) /\ Active(mem[x], x) /\ ~Pending(d, x)
      /\ \/ ~Pending(x, d) /\ j = Mirrored(i)
         \/ Active(mem[d], x) /\ Active(mem[x], d)
  BY <1>2, <1>3 DEF Reachable, CurrentCredential, MetadataKey
<1>10. i = Mirrored(j) \/ (Active(mem[d], x) /\ Active(mem[x], d))
  <2>1. Mirrored(Mirrored(i)) = i
    BY DEF Mirrored, Ids
  <2> QED BY <1>9, <2>1
<1>11. /\ EndInv(d, x, i) /\ i.sas # Absent /\ i.sas <= ceremonies
       /\ mem[d].slots[x].fresh => x \in unconfirmed \/ mem[d].rem[x] < mem[x].adm[x]
  BY <1>3, <1>9, DialEnd
<1>12. EndInv(x, d, j) /\ j.sas # Absent /\ j.sas <= ceremonies
  BY <1>3, <1>9, <1>10, DialEnd
<1>13. Pairing(d) => side[d].id # i.sas
  BY <1>3, <1>9 DEF Pending, PairingId
<1>14. mem[d].rem[d] < mem[d].adm[d]
  BY <1>1, <1>9, HeldTypes DEF Active, Generations, Absent
<1>15. EndInv(d, x, i)' /\ EndInv(x, d, j)'
  BY <1>2, <1>11, <1>12 DEF EndInv, Pairing, Own
<1>16. SessionInv'
  BY <1>2, <1>4, <1>11, <1>12, <1>13, <1>14, <1>15 DEF SessionInv, EndInv, Pairing, Own
<1> QED BY <1>5, <1>6, <1>7, <1>8, <1>16 DEF MembershipInv

-----------------------------------------------------------------------------
(* The theorems.                                                           *)

\* Every step keeps the invariant.
LEMMA StepKeepsInv == MembershipInv /\ [Next]_vars => MembershipInv'
<1> SUFFICES ASSUME MembershipInv, [Next]_vars PROVE MembershipInv'
  OBVIOUS
<1>1. ASSUME NEW d \in Devices, NEW x \in Devices, d # x, Pair(d, x) \/ Cut(d, x) \/ Dial(d, x)
      PROVE  MembershipInv'
  BY <1>1, PairStep, CutStep, DialStep
<1>2. ASSUME NEW d \in Devices, Ceremony(d) PROVE MembershipInv'
  BY <1>2, QuietSteps, StoreStep, ConfirmStep, RollbackStep DEF Ceremony
<1>3. ASSUME NEW d \in Devices, CloudRound(d) PROVE MembershipInv'
  BY <1>3, QuietSteps, ImportStep DEF CloudRound
<1>4. ASSUME NEW d \in Devices, Fault(d) PROVE MembershipInv'
  BY <1>4, QuietSteps, LossStep DEF Fault
<1>5. CASE Respond \/ Finish \/ Disconnect \/ UNCHANGED vars
  BY <1>5, RespondStep, FinishStep, QuietSteps
<1> QED BY <1>1, <1>2, <1>3, <1>4, <1>5 DEF Next, Exchange

\* The inductive invariant holds in every reachable state.
LEMMA InvariantHolds == Spec => []MembershipInv
BY InitInv, StepKeepsInv, PTL DEF Spec

\* The stores are of their types: a device always holds a generation of its own
\* and never a credential for itself, in memory and in its file.
THEOREM MembershipTypeCorrect == Spec => []TypeOK
<1>1. MembershipInv => TypeOK
  <2> SUFFICES ASSUME MembershipInv PROVE TypeOK
    OBVIOUS
  <2>1. Types
    BY DEF MembershipInv
  <2>2. ASSUME NEW d \in Devices PROVE StoreOK(d, mem[d]) /\ StoreOK(d, disk[d])
    <3>1. \A x \in Devices : /\ mem[d].adm[x] \in Generations /\ mem[d].rem[x] \in Generations
                             /\ disk[d].adm[x] \in Generations /\ disk[d].rem[x] \in Generations
      BY <2>1, HeldTypes
    <3>2. mem[d].slots \in [Devices -> Slots] /\ disk[d].slots \in [Devices -> Slots]
      BY <2>1 DEF Types, Stores
    <3>3. /\ mem[d].slots[d] = NoSlot /\ disk[d].slots[d] = NoSlot
          /\ mem[d].adm[d] # Absent /\ disk[d].adm[d] # Absent
      BY DEF MembershipInv, StoreInv
    <3> QED BY <3>1, <3>2, <3>3 DEF StoreOK
  <2> QED BY <2>1, <2>2 DEF TypeOK, Types
<1> QED BY <1>1, InvariantHolds, PTL

\* PairAdmissions::agree: however the proposals crossed, and whatever was rolled
\* back, lost or restarted since, the two credentials of a ceremony certify the
\* same two generations.
THEOREM CredentialsMirror == Spec => []CertificatesMirror
<1>1. MembershipInv => CertificatesMirror
  <2> SUFFICES ASSUME MembershipInv, NEW d \in Devices, NEW x \in Devices,
                      mem[d].slots[x].sas > 0, mem[x].slots[d].sas = mem[d].slots[x].sas
               PROVE  PairingId(mem[x].slots[d]) = Mirrored(PairingId(mem[d].slots[x]))
    BY DEF CertificatesMirror
  <2>1. PairingId(mem[d].slots[x]) \in Held(d, x) /\ PairingId(mem[x].slots[d]) \in Held(x, d)
    BY DEF Held
  <2>2. /\ PairingId(mem[d].slots[x]).sas = mem[d].slots[x].sas
        /\ PairingId(mem[x].slots[d]).sas = mem[x].slots[d].sas
    BY DEF PairingId
  <2> QED BY <2>1, <2>2 DEF MembershipInv, SlotsInv
<1> QED BY <1>1, InvariantHolds, PTL

\* GroupState::merge, "This device participated in every admission of its own
\* identity": no roster names a generation its device did not certify, unless
\* that device left a stored slot neither confirmed nor rolled back.
THEOREM AdmissionsAreCertified == Spec => []AdmissionsAreOwn
<1>1. MembershipInv => AdmissionsAreOwn
  BY DEF MembershipInv, RostersBounded, Bounded, Own, AdmissionsAreOwn
<1> QED BY <1>1, InvariantHolds, PTL

\* A removed device can be admitted again: the proposals always agree and the
\* agreed generations pass upsert_locked_certified, unless a slot was left over.
THEOREM RemovedCanReturn == Spec => []UndisturbedDeviceCanReturn
<1>1. MembershipInv => UndisturbedDeviceCanReturn
  <2> SUFFICES ASSUME MembershipInv, NEW d \in Devices, NEW x \in Devices,
                      Strangers(d, x), {d, x} \intersect unconfirmed = {}
               PROVE  CanReturnTo(d, x)
    BY DEF UndisturbedDeviceCanReturn
  <2> DEFINE mine == Proposal(d, x)  theirs == Proposal(x, d)
  <2>1. Types /\ d \notin unconfirmed /\ x \notin unconfirmed /\ ~HasSlot(mem[d], x)
    BY DEF MembershipInv, Strangers
  <2>2. /\ mine.local = DesiredAdmission(mem[d], d) /\ mine.remote = DesiredAdmission(mem[d], x)
        /\ theirs.remote = DesiredAdmission(mem[x], d) /\ theirs.local = DesiredAdmission(mem[x], x)
    BY DEF Proposal
  <2>3. mine \in Proposals /\ theirs \in Proposals
    BY <2>1, ProposalTypes
  <2>4. /\ mem[d].adm[d] \in Generations /\ mem[d].rem[d] \in Generations
        /\ mem[x].adm[d] \in Generations /\ mem[x].rem[d] \in Generations
        /\ mem[d].rem[d] <= mem[d].adm[d]
        /\ mem[x].adm[d] <= mem[d].adm[d] /\ mem[x].rem[d] <= mem[d].adm[d]
    BY <2>1, HeldTypes, RosterOfOthers DEF MembershipInv, StoreInv
  <2>5. theirs.remote <= mem[d].adm[d] + 1
    BY <2>2, <2>4 DEF DesiredAdmission, Generations, Absent
  <2>6. mine.local >= mem[d].adm[d] /\ mine.local <= mem[d].adm[d] + 1
    <3>1. CASE Active(mem[d], d)
      BY <2>2, <2>4, <3>1 DEF DesiredAdmission, Generations, Absent
    <3>2. CASE ~Active(mem[d], d)
      BY <2>2, <2>4, <3>2 DEF DesiredAdmission, Active, Generations, Absent
    <3> QED BY <3>1, <3>2
  <2>7. mine.local \in Nat /\ mine.remote \in Nat /\ theirs.local \in Nat /\ theirs.remote \in Nat
    BY <2>3 DEF Proposals
  <2> HIDE DEF mine, theirs
  <2>8. Agreeable(mine, theirs)
    BY <2>4, <2>5, <2>6, <2>7 DEF Agreeable, Generations, Absent
  <2>9. CheckLocalAdmission(d, mem[d], Agree(mine, theirs).local)
    <3>1. Agree(mine, theirs).local = MaxOf(mine.local, theirs.remote)
      BY DEF Agree
    <3> QED BY <3>1, <2>2, <2>4, <2>5, <2>6, <2>7 DEF MaxOf, CheckLocalAdmission, Generations, Absent
  <2>10. Agree(mine, theirs).remote >= DesiredAdmission(mem[d], x)
    <3>1. Agree(mine, theirs).remote = MaxOf(mine.remote, theirs.local)
      BY DEF Agree
    <3> QED BY <3>1, <2>2, <2>7 DEF MaxOf
  <2> QED BY <2>1, <2>8, <2>9, <2>10 DEF CanReturnTo, Storable, mine, theirs
<1> QED BY <1>1, InvariantHolds, PTL

\* What NoReturnWithoutCeremony asks of one step.
NoReturn ==
    \A d \in Devices :
        /\ \A x \in Devices : mem'[d].rem[x] >= mem[d].rem[x]
        /\ Active(mem'[d], d) /\ ~Active(mem[d], d) => Acknowledged(d)

\* A step that changes one store, to one whose removals have not fallen and
\* which counts its device in only if it did, or was acknowledged.
LEMMA OneStore ==
    ASSUME Types, NEW d \in Devices, NEW st, \A y \in Devices \ {d} : mem'[y] = mem[y], mem'[d] = st,
           \A x \in Devices : st.rem[x] >= mem[d].rem[x],
           Active(st, d) => Active(mem[d], d) \/ Acknowledged(d)
    PROVE  NoReturn
<1>1. \A y, x \in Devices : mem[y].rem[x] \in Generations
  BY HeldTypes
<1>2. \A y, x \in Devices : mem[y].rem[x] >= mem[y].rem[x]
  BY <1>1 DEF Generations, Absent
<1> QED BY <1>2 DEF NoReturn

\* The same where the roster is what it was.
LEMMA SameRoster ==
    ASSUME Types, NEW d \in Devices, NEW st, \A y \in Devices \ {d} : mem'[y] = mem[y], mem'[d] = st,
           st.rem = mem[d].rem, st.adm = mem[d].adm
    PROVE  NoReturn
<1>1. \A x \in Devices : mem[d].rem[x] \in Generations
  BY HeldTypes
<1>2. \A x \in Devices : st.rem[x] >= mem[d].rem[x]
  BY <1>1 DEF Generations, Absent
<1>3. Active(st, d) => Active(mem[d], d)
  BY DEF Active
<1> QED BY <1>2, <1>3, OneStore

\* The same where the store has merged a snapshot.
LEMMA LearnsNoReturn ==
    ASSUME Types, NEW d \in Devices, NEW snap \in Snaps, NEW st, Save(d, st), Learns(d, snap, st)
    PROVE  NoReturn
<1>1. st \in Stores /\ (Active(st, d) => Active(mem[d], d))
  BY DEF Learns
<1>2. \A y \in Devices : mem'[y] = IF y = d THEN st ELSE mem[y]
  BY <1>1, SaveFacts
<1>3. ASSUME NEW x \in Devices PROVE st.rem[x] >= mem[d].rem[x]
  <2>1. st.rem[x] = MaxOf(mem[d].rem[x], snap.rem[x])
    BY DEF Learns
  <2>2. mem[d].rem[x] \in Generations /\ snap.rem[x] \in Generations
    BY HeldTypes DEF Snaps, Rosters
  <2> QED BY <2>1, <2>2 DEF MaxOf, Generations, Absent
<1> QED BY <1>1, <1>2, <1>3, OneStore

\* No step forgets a removal, and only an acknowledged ceremony brings back.
LEMMA StepNoReturn == MembershipInv /\ Next => NoReturn
<1> SUFFICES ASSUME MembershipInv, Next PROVE NoReturn
  OBVIOUS
<1>1. Types
  BY DEF MembershipInv
<1>2. CASE mem' = mem
  <2>1. \A y, x \in Devices : mem[y].rem[x] \in Generations
    BY <1>1, HeldTypes
  <2> QED BY <1>2, <2>1 DEF NoReturn, Generations, Absent
<1>3. ASSUME NEW d \in Devices, NEW x \in Devices, d # x, Cut(d, x) PROVE NoReturn
  <2>1. PICK st \in {Unpaired(d, x), Revoked(d, x)} : Save(d, st)
    BY <1>3 DEF Cut
  <2>2. mem[d] \in Stores /\ StoreInv(d, mem[d])
    BY <1>1, HeldTypes DEF MembershipInv
  <2>3. /\ st \in Stores
        /\ \A y \in Devices \ {x} : st.adm[y] = mem[d].adm[y] /\ st.rem[y] = mem[d].rem[y]
        /\ st.rem[x] >= mem[d].rem[x]
    BY <1>3, <2>2, RemoveEffect
  <2>4. \A y \in Devices : mem'[y] = IF y = d THEN st ELSE mem[y]
    BY <1>1, <2>1, <2>3, SaveFacts
  <2>5. \A y \in Devices : mem[d].rem[y] \in Generations
    BY <1>1, HeldTypes
  <2>6. \A y \in Devices : st.rem[y] >= mem[d].rem[y]
    BY <2>3, <2>5 DEF Generations, Absent
  <2>7. Active(st, d) => Active(mem[d], d)
    BY <1>3, <2>3 DEF Active
  <2> QED BY <1>1, <2>4, <2>6, <2>7, OneStore
<1>4. ASSUME NEW d \in Devices, Store(d) PROVE NoReturn
  <2>1. PICK x, s : Save(d, [mem[d] EXCEPT !.slots[x] = s])
    BY <1>4 DEF Store
  <2>2. PICK st : st = [mem[d] EXCEPT !.slots[x] = s]
    OBVIOUS
  <2>3. mem[d] \in Stores /\ mem \in [Devices -> Stores]
    BY <1>1 DEF Types
  <2>4. st.adm = mem[d].adm /\ st.rem = mem[d].rem
    BY <2>2, <2>3 DEF Stores
  <2>5. mem'[d] = st /\ \A y \in Devices \ {d} : mem'[y] = mem[y]
    BY <2>1, <2>2, <2>3 DEF Save
  <2> QED BY <1>1, <2>4, <2>5, SameRoster
<1>5. ASSUME NEW d \in Devices, Confirm(d), mem' # mem PROVE NoReturn
  <2> DEFINE st == Project(d, Certified(d))
  <2>1. Confirmable(d) /\ Acknowledged(d) /\ Save(d, st)
    BY <1>5 DEF Confirm
  <2>2. Pairing(d) /\ Pending(d, side[d].peer)
    BY <2>1 DEF Confirmable, Acknowledged
  <2>3. side[d].peer \in Devices /\ side[d].peer # d /\ side[d].id > 0
    BY <1>1, <2>2 DEF MembershipInv, SidesInv, SideInv, Types, Pairing, Sides
  <2>4. mem[d] \in Stores /\ StoreInv(d, mem[d])
    BY <1>1, HeldTypes DEF MembershipInv
  <2>5. ConfirmEffect(d, side[d].peer, mem[d], st)
    BY <2>1, <2>2, <2>3, <2>4, ConfirmedEffect
  <2> HIDE DEF st
  <2>6. st \in Stores /\ st.rem = mem[d].rem
    BY <2>5 DEF ConfirmEffect
  <2>7. \A y \in Devices : mem'[y] = IF y = d THEN st ELSE mem[y]
    BY <1>1, <2>1, <2>6, SaveFacts
  <2>8. \A y \in Devices : mem[d].rem[y] \in Generations
    BY <1>1, HeldTypes
  <2>9. \A y \in Devices : st.rem[y] >= mem[d].rem[y]
    BY <2>6, <2>8 DEF Generations, Absent
  <2> QED BY <1>1, <2>1, <2>7, <2>9, OneStore
<1>6. ASSUME NEW d \in Devices, Rollback(d) \/ RollbackFails(d) PROVE NoReturn
  <2>1. mem' = [mem EXCEPT ![d] = RolledBack(d)] /\ Pairing(d)
    BY <1>6 DEF Rollback, RollbackFails, Save
  <2>2. RolledBack(d).adm = mem[d].adm /\ RolledBack(d).rem = mem[d].rem
    BY <2>1, RolledBackFacts
  <2>3. mem'[d] = RolledBack(d) /\ \A y \in Devices \ {d} : mem'[y] = mem[y]
    BY <1>1, <2>1 DEF Types
  <2> QED BY <1>1, <2>2, <2>3, SameRoster
<1>7. ASSUME NEW d \in Devices, Restart(d) PROVE NoReturn
  <2>1. mem'[d] = disk[d] /\ \A y \in Devices \ {d} : mem'[y] = mem[y]
    BY <1>1, <1>7 DEF Types, Restart
  <2>2. disk[d].adm = mem[d].adm /\ disk[d].rem = mem[d].rem
    BY DEF MembershipInv, FilesFollow
  <2> QED BY <1>1, <2>1, <2>2, SameRoster
<1>8. ASSUME NEW d \in Devices, NEW x \in Devices \ {d}, Import(d, x), mem' # mem PROVE NoReturn
  <2>1. ~MergeFails(d, cloud[x], FALSE) /\ cloud[x] # NotPublished
    BY <1>8 DEF Import
  <2>2. cloud[x] \in Snaps /\ cloud[x].issuer # d /\ Bounded(cloud[x])
    BY <1>1, <2>1 DEF Types, MembershipInv, RostersBounded
  <2>3. FreshBelow(d, cloud[x], FALSE)
    BY DEF Fresh, FreshBelow
  <2>4. Learns(d, cloud[x], Merged(d, cloud[x], FALSE))
    BY <2>1, <2>2, <2>3, MergedStore
  <2>5. Save(d, Merged(d, cloud[x], FALSE))
    BY <1>8, <2>1 DEF Import
  <2> QED BY <1>1, <2>2, <2>4, <2>5, LearnsNoReturn
<1>9. ASSUME Respond \/ Finish, mem' # mem PROVE NoReturn
  <2>1. session # NoSession /\ session \in Sessions /\ session.snap \in Snaps
    BY <1>1, <1>9 DEF Types, Respond, Finish, Sessions
  <2>2. PICK d \in Devices, x \in Devices :
           \/ session.stage = "request" /\ d = session.to /\ x = session.from /\ Respond
           \/ session.stage = "reply" /\ d = session.from /\ x = session.to /\ Finish
    BY <1>9, <2>1 DEF Respond, Finish, Sessions
  <2>3. /\ ~MergeFails(d, session.snap, TRUE) /\ Save(d, Merged(d, session.snap, TRUE))
        /\ \/ session.stage = "request" /\ d = session.to /\ x = session.from
              /\ PairingId(mem[d].slots[x]) = session.toId
           \/ session.stage = "reply" /\ d = session.from /\ x = session.to
              /\ PairingId(mem[d].slots[x]) = session.fromId
    BY <1>9, <2>2 DEF Respond, Finish
  <2>4. /\ session.snap.issuer # d /\ Bounded(session.snap) /\ FreshBelow(d, session.snap, TRUE)
    BY <2>1, <2>3, FreshIsCertified
  <2>5. Learns(d, session.snap, Merged(d, session.snap, TRUE))
    BY <2>1, <2>3, <2>4, MergedStore
  <2> QED BY <1>1, <2>1, <2>3, <2>5, LearnsNoReturn
<1>10. ASSUME NEW d \in Devices, Ceremony(d) \/ CloudRound(d) \/ Fault(d), mem' # mem PROVE NoReturn
  <2>1. \/ Store(d) \/ Confirm(d) \/ Rollback(d) \/ RollbackFails(d) \/ Restart(d)
        \/ \E x \in Devices \ {d} : Import(d, x)
    BY <1>10 DEF Ceremony, CloudRound, Fault, Abandon, PullDone, Publish, ConfirmFails
  <2> QED BY <2>1, <1>10, <1>4, <1>5, <1>6, <1>7, <1>8
<1>11. ASSUME NEW d \in Devices, NEW x \in Devices, d # x, Pair(d, x) \/ Cut(d, x), mem' # mem PROVE NoReturn
  BY <1>11, <1>3 DEF Pair
<1>12. ASSUME Exchange, mem' # mem PROVE NoReturn
  BY <1>12, <1>9 DEF Exchange, Disconnect, Dial
<1> QED BY <1>2, <1>10, <1>11, <1>12 DEF Next

\* GroupState::merge and the peer file: a removal is never forgotten, by no
\* merge, rollback or restart, and a device that was removed counts itself in
\* again only by confirming a ceremony the other side has acknowledged.
THEOREM RemovalIsFinal == Spec => NoReturnWithoutCeremony
<1>1. MembershipInv /\ [Next]_vars => [NoReturn]_vars
  BY StepNoReturn
<1> QED BY <1>1, InvariantHolds, PTL DEF Spec, NoReturnWithoutCeremony, NoReturn

-----------------------------------------------------------------------------
(* The cloud table: what counts as downloaded need not be read again.      *)

\* d knows every removal of the snapshot x published.
Known(d, x) ==
    /\ cloud[x] # NotPublished
    /\ \A y \in Devices : mem[d].rem[y] >= cloud[x].rem[y]

\* What was downloaded and not refused is known.
KnownInv ==
    /\ declined \in [Devices -> SUBSET Devices]
    /\ \A d, x \in Devices : x \in downloaded[d] \ declined[d] => Known(d, x)

\* The removals of a store do not fall in a step.
LEMMA RemovalsGrow ==
    ASSUME MembershipInv, MembershipInv', [Next]_vars, NEW d \in Devices, NEW y \in Devices
    PROVE  mem'[d].rem[y] >= mem[d].rem[y]
<1>1. CASE Next
  BY <1>1, StepNoReturn DEF NoReturn
<1>2. CASE UNCHANGED vars
  <2>1. mem[d].rem[y] \in Generations /\ mem' = mem
    BY <1>2, HeldTypes DEF MembershipInv, vars
  <2> QED BY <2>1 DEF Generations, Absent
<1> QED BY <1>1, <1>2

\* What is known of a published snapshot stays known as long as it is published.
LEMMA KnownStays ==
    ASSUME MembershipInv, MembershipInv', [Next]_vars, NEW d \in Devices, NEW x \in Devices,
           Known(d, x), cloud'[x] = cloud[x]
    PROVE  Known(d, x)'
<1>1. cloud[x] \in Snaps /\ cloud'[x] # NotPublished
  BY DEF Known, MembershipInv, Types
<1>2. ASSUME NEW y \in Devices PROVE mem'[d].rem[y] >= cloud'[x].rem[y]
  <2>1. mem'[d].rem[y] >= mem[d].rem[y] /\ mem[d].rem[y] >= cloud[x].rem[y]
    BY RemovalsGrow DEF Known
  <2>2. mem[d].rem[y] \in Generations /\ cloud[x].rem[y] \in Generations
    BY <1>1, HeldTypes DEF MembershipInv, Snaps, Rosters
  <2>3. mem'[d].rem[y] \in Generations
    <3>1. mem'[d] \in Stores
      BY DEF MembershipInv, Types
    <3> QED BY <3>1 DEF Stores, Rosters
  <2> QED BY <2>1, <2>2, <2>3 DEF Generations, Absent
<1> QED BY <1>1, <1>2 DEF Known

\* A snapshot that was not refused is known once it is imported.
LEMMA ImportKnows ==
    ASSUME MembershipInv, NEW d \in Devices, NEW x \in Devices \ {d}, Import(d, x),
           ~MergeFails(d, cloud[x], FALSE)
    PROVE  Known(d, x)'
<1>1. Types /\ cloud[x] # NotPublished /\ cloud' = cloud
  BY DEF MembershipInv, Import
<1>2. cloud[x] \in Snaps /\ cloud[x].issuer # d /\ Bounded(cloud[x])
  BY <1>1 DEF Types, MembershipInv, RostersBounded
<1>3. FreshBelow(d, cloud[x], FALSE)
  BY DEF Fresh, FreshBelow
<1>4. PICK st : st = Merged(d, cloud[x], FALSE)
  OBVIOUS
<1>5. Learns(d, cloud[x], st) /\ Save(d, st)
  BY <1>2, <1>3, <1>4, MergedStore DEF Import
<1>6. st \in Stores /\ \A y \in Devices : st.rem[y] = MaxOf(mem[d].rem[y], cloud[x].rem[y])
  BY <1>5 DEF Learns
<1>7. mem'[d] = st
  BY <1>1, <1>5, <1>6, SaveFacts
<1>8. ASSUME NEW y \in Devices PROVE st.rem[y] >= cloud[x].rem[y]
  <2>1. mem[d].rem[y] \in Generations /\ cloud[x].rem[y] \in Generations
    BY <1>1, <1>2, HeldTypes DEF Snaps, Rosters
  <2> QED BY <1>6, <2>1 DEF MaxOf, Generations, Absent
<1> QED BY <1>1, <1>7, <1>8 DEF Known

\* Every step keeps what was read known.
LEMMA StepKeepsKnown == MembershipInv /\ MembershipInv' /\ KnownInv /\ [Next]_vars => KnownInv'
<1> SUFFICES ASSUME MembershipInv, MembershipInv', KnownInv, [Next]_vars PROVE KnownInv'
  OBVIOUS
<1>1. downloaded \in [Devices -> SUBSET Devices] /\ declined \in [Devices -> SUBSET Devices]
  BY DEF MembershipInv, Types, KnownInv
<1>2. CASE UNCHANGED <<cloud, downloaded, declined>>
  <2>1. ASSUME NEW d \in Devices, NEW x \in Devices, x \in downloaded[d] \ declined[d] PROVE Known(d, x)'
    BY <2>1, <1>2, KnownStays DEF KnownInv
  <2> QED BY <1>1, <1>2, <2>1 DEF KnownInv
<1>3. ASSUME NEW d \in Devices, Publish(d), ~UNCHANGED <<cloud, downloaded, declined>> PROVE KnownInv'
  <2>1. /\ cloud' = [cloud EXCEPT ![d] = outgoing[d]]
        /\ downloaded' = [x \in Devices |-> downloaded[x] \ {d}]
        /\ declined' = [x \in Devices |-> declined[x] \ {d}]
    BY <1>3 DEF Publish
  <2>2. ASSUME NEW e \in Devices, NEW x \in Devices, x \in downloaded'[e] \ declined'[e] PROVE Known(e, x)'
    <3>1. x # d /\ x \in downloaded[e] \ declined[e]
      BY <2>1, <2>2
    <3>2. cloud'[x] = cloud[x]
      BY <2>1, <3>1 DEF MembershipInv, Types
    <3> QED BY <3>1, <3>2, KnownStays DEF KnownInv
  <2>3. declined' \in [Devices -> SUBSET Devices]
    BY <1>1, <2>1
  <2> QED BY <2>2, <2>3 DEF KnownInv
<1>4. ASSUME NEW d \in Devices, Restart(d) PROVE KnownInv'
  <2>1. /\ cloud' = cloud /\ downloaded' = [downloaded EXCEPT ![d] = {}]
        /\ declined' = [declined EXCEPT ![d] = {}]
    BY <1>4 DEF Restart
  <2>2. ASSUME NEW e \in Devices, NEW x \in Devices, x \in downloaded'[e] \ declined'[e] PROVE Known(e, x)'
    <3>1. x \in downloaded[e] \ declined[e]
      BY <1>1, <2>1, <2>2
    <3> QED BY <2>1, <3>1, KnownStays DEF KnownInv
  <2>3. declined' \in [Devices -> SUBSET Devices]
    BY <1>1, <2>1
  <2> QED BY <2>2, <2>3 DEF KnownInv
<1>5. ASSUME NEW d \in Devices, NEW x \in Devices \ {d}, Import(d, x) PROVE KnownInv'
  <2> DEFINE refused == MergeFails(d, cloud[x], FALSE)
  <2>1. /\ cloud' = cloud
        /\ downloaded' = [downloaded EXCEPT ![d] =
               IF Active(mem'[d], d) THEN downloaded[d] \union {x} ELSE downloaded[d]]
        /\ declined' = [declined EXCEPT ![d] =
               IF refused THEN declined[d] \union {x} ELSE declined[d] \ {x}]
    BY <1>5 DEF Import
  <2>2. ~refused => Known(d, x)'
    BY <1>5, ImportKnows
  <2> HIDE DEF refused
  <2>3. ASSUME NEW e \in Devices, NEW z \in Devices, z \in downloaded'[e] \ declined'[e] PROVE Known(e, z)'
    <3>1. CASE e = d /\ z = x
      <4>1. ~refused
        BY <1>1, <2>1, <2>3, <3>1
      <4> QED BY <2>2, <3>1, <4>1
    <3>2. CASE ~(e = d /\ z = x)
      <4>1. z \in downloaded[e] \ declined[e]
        BY <1>1, <2>1, <2>3, <3>2
      <4> QED BY <2>1, <4>1, KnownStays DEF KnownInv
    <3> QED BY <3>1, <3>2
  <2>4. declined' \in [Devices -> SUBSET Devices]
    BY <1>1, <2>1
  <2> QED BY <2>3, <2>4 DEF KnownInv
<1>6. ASSUME NEW d \in Devices, Ceremony(d) \/ CloudRound(d) \/ Fault(d),
             ~UNCHANGED <<cloud, downloaded, declined>>
      PROVE  KnownInv'
  <2>1. Publish(d) \/ Restart(d) \/ \E x \in Devices \ {d} : Import(d, x)
    <3>1. CASE Ceremony(d)
      BY <1>6, <3>1 DEF Ceremony, Abandon, Store, Confirm, Rollback
    <3>2. CASE CloudRound(d)
      BY <1>6, <3>2 DEF CloudRound, PullDone
    <3>3. CASE Fault(d)
      BY <1>6, <3>3 DEF Fault, ConfirmFails, RollbackFails
    <3> QED BY <1>6, <3>1, <3>2, <3>3
  <2> QED BY <1>3, <1>4, <1>5, <1>6, <2>1
<1>7. ASSUME NEW d \in Devices, NEW x \in Devices, Pair(d, x) \/ Cut(d, x) \/ Dial(d, x)
      PROVE  UNCHANGED <<cloud, downloaded, declined>>
  BY <1>7 DEF Pair, Cut, Dial
<1>8. CASE Respond \/ Finish \/ Disconnect \/ UNCHANGED vars
  <2>1. UNCHANGED <<cloud, downloaded, declined>>
    BY <1>8 DEF Respond, Finish, Disconnect, vars
  <2> QED BY <1>2, <2>1
<1> QED BY <1>2, <1>6, <1>7, <1>8 DEF Next, Exchange

\* A group forms with no removals, and nothing was refused.
LEMMA InitKnown == Init => KnownInv
<1> SUFFICES ASSUME Init PROVE KnownInv
  OBVIOUS
<1>1. \A d \in Devices : mem[d] \in {Alone(d), Member(d)}
  BY DEF Init
<1>2. \A d \in Devices : Alone(d).rem = [x \in Devices |-> Absent] /\ Member(d).rem = [x \in Devices |-> Absent]
  BY DEF Alone, Member
<1>3. \A d \in Devices : mem[d].rem = [x \in Devices |-> Absent]
  BY <1>1, <1>2
<1>4. \A d \in Devices : cloud[d] = Snapshot(d, mem[d])
  BY DEF Init
<1>5. ASSUME NEW d \in Devices PROVE cloud[d] # NotPublished /\ cloud[d].rem = mem[d].rem
  <2>1. "adm" \in DOMAIN Snapshot(d, mem[d]) /\ "adm" \notin DOMAIN NotPublished
    BY DEF Snapshot, NotPublished
  <2>2. Snapshot(d, mem[d]).rem = mem[d].rem
    BY DEF Snapshot
  <2> QED BY <1>4, <2>1, <2>2
<1>6. declined \in [Devices -> SUBSET Devices]
  BY DEF Init
<1>7. \A d, x \in Devices : Known(d, x)
  BY <1>3, <1>5 DEF Known, Absent
<1> QED BY <1>6, <1>7 DEF KnownInv

\* sync_group (copypaste-cloud/src/sync/group.rs) reads a published snapshot once:
\* whatever a device went through since, it knows every removal of a snapshot that
\* counts as downloaded, unless it refused that snapshot.
THEOREM PublishedIsKnown == Spec => []PublishedRemovalsAreKnown
<1>1. KnownInv => PublishedRemovalsAreKnown
  BY DEF KnownInv, Known, PublishedRemovalsAreKnown
<1>2. Spec => []KnownInv
  BY InitKnown, StepKeepsKnown, InvariantHolds, PTL DEF Spec
<1> QED BY <1>1, <1>2, PTL

-----------------------------------------------------------------------------
(* Sessions bring the rosters together.                                    *)

\* What `merge` and `project` leave of a store, which no later step spoils: the
\* roster keeps members only, and the credentials for them are not outdated.
Tidy(d, st) == Clean(d, st) /\ Current(d, st)
TidyInv == \A d \in Devices : Tidy(d, mem[d]) /\ Tidy(d, disk[d])

\* A store whose roster is that of a tidy one, and whose credentials are kept, dropped
\* or of the generation it is at or the next, is tidy.
LEMMA TidyKept ==
    ASSUME NEW d \in Devices, NEW st, NEW new, Tidy(d, st), new.adm = st.adm, new.rem = st.rem,
           \A x \in Devices \ {d} : \/ new.slots[x] \in {st.slots[x], NoSlot}
                                    \/ Active(new, d) => new.slots[x].local >= new.adm[d]
    PROVE  Tidy(d, new)
<1>1. \A x \in Devices : Active(new, x) = Active(st, x)
  BY DEF Active
<1>2. Clean(d, new)
  BY <1>1 DEF Tidy, Clean
<1>3. Current(d, new)
  BY <1>1 DEF Tidy, Current, HasSlot
<1> QED BY <1>2, <1>3 DEF Tidy

\* One store changes.
LEMMA OneTidy ==
    ASSUME TidyInv, NEW d \in Devices, Tidy(d, mem'[d]), Tidy(d, disk'[d]),
           \A y \in Devices \ {d} : mem'[y] = mem[y] /\ disk'[y] = disk[y]
    PROVE  TidyInv'
BY DEF TidyInv, Tidy, Clean, Current, HasSlot, Active

\* merge_group leaves a tidy store.
LEMMA MergedTidy ==
    ASSUME MembershipInv, TidyInv, NEW d \in Devices, NEW snap \in Snaps, NEW via \in BOOLEAN,
           snap.issuer # d, ~MergeFails(d, snap, via)
    PROVE  Tidy(d, Merged(d, snap, via))
<1> DEFINE l == Learned(d, snap, via)
<1>1. mem[d] \in Stores /\ StoreInv(d, mem[d]) /\ Tidy(d, mem[d])
  BY HeldTypes DEF MembershipInv, TidyInv
<1>2. LearnedFacts(d, snap, via, l)
  BY <1>1, LearnedShape DEF MergeFails
<1>3. CASE l = mem[d]
  BY <1>1, <1>3 DEF Merged
<1>4. CASE l # mem[d]
  <2>1. Merged(d, snap, via) = Project(d, l)
    BY <1>4 DEF Merged
  <2> HIDE DEF l
  <2>2. l \in Stores /\ Clean(d, l)
    BY <1>2 DEF LearnedFacts
  <2> QED BY <2>1, <2>2, ProjectCurrent DEF Tidy
<1> QED BY <1>3, <1>4

\* Confirm leaves a tidy store: the device counts itself in at the new generation.
LEMMA ConfirmedTidy ==
    ASSUME MembershipInv, TidyInv, NEW d \in Devices, Acknowledged(d), Confirmable(d)
    PROVE  Project(d, Certified(d)) \in Stores /\ Tidy(d, Project(d, Certified(d)))
<1> DEFINE st == mem[d]  x == side[d].peer  p == Project(d, Certified(d))
<1>1. Types /\ Pairing(d) /\ Pending(d, x)
  BY DEF MembershipInv, Acknowledged, Confirmable
<1>2. x \in Devices /\ x # d /\ side[d].id > 0
  BY <1>1 DEF MembershipInv, SidesInv, SideInv, Types, Pairing, Sides
<1>3. st \in Stores /\ StoreInv(d, st) /\ Tidy(d, st)
  BY <1>1, HeldTypes DEF MembershipInv, TidyInv
<1>4. ConfirmEffect(d, x, st, p)
  BY <1>1, <1>2, <1>3, ConfirmedEffect
<1> HIDE DEF p
<1>5. /\ p \in Stores /\ Current(d, p) /\ Active(p, d) /\ p.rem = st.rem
      /\ \A y \in Devices \ {d} : p.adm[y] = st.adm[y]
  BY <1>4 DEF ConfirmEffect
<1>6. Clean(d, p)
  BY <1>3, <1>5 DEF Tidy, Clean, Active
<1> QED BY <1>5, <1>6 DEF Tidy, p

\* unpair and revoke leave a tidy store.
LEMMA RemovedTidy ==
    ASSUME MembershipInv, TidyInv, NEW d \in Devices, NEW x \in Devices, x # d,
           NEW new \in {Unpaired(d, x), Revoked(d, x)}
    PROVE  new \in Stores /\ Tidy(d, new)
<1> DEFINE st == mem[d]
<1>1. Types /\ st \in Stores /\ StoreInv(d, st) /\ Tidy(d, st)
  BY HeldTypes DEF MembershipInv, TidyInv
<1>2. /\ new \in Stores
      /\ \A y \in Devices \ {x} : new.adm[y] = st.adm[y] /\ new.rem[y] = st.rem[y]
      /\ \A y \in Devices : new.slots[y] = IF y = x THEN NoSlot ELSE st.slots[y]
      /\ new.adm[x] = Absent \/ (new.adm[x] = st.adm[x] /\ new.rem[x] = st.rem[x])
  BY <1>1, RemoveEffect
<1>3. \A y \in Devices \ {x} : Active(new, y) = Active(st, y)
  BY <1>2 DEF Active
<1>4. Clean(d, new)
  BY <1>1, <1>2, <1>3 DEF Tidy, Clean, Active
<1>5. Current(d, new)
  BY <1>1, <1>2, <1>3 DEF Tidy, Current, HasSlot
<1> QED BY <1>2, <1>4, <1>5 DEF Tidy

\* Every step keeps the stores tidy.
LEMMA StepKeepsTidy == MembershipInv /\ TidyInv /\ [Next]_vars => TidyInv'
<1> SUFFICES ASSUME MembershipInv, TidyInv, [Next]_vars PROVE TidyInv'
  OBVIOUS
<1>1. Types
  BY DEF MembershipInv
<1>2. CASE mem' = mem /\ disk' = disk
  BY <1>2 DEF TidyInv, Tidy, Clean, Current, HasSlot, Active
<1>3. ASSUME NEW d \in Devices, NEW st \in Stores, Save(d, st), Tidy(d, st) PROVE TidyInv'
  <2>1. \A y \in Devices : /\ mem'[y] = IF y = d THEN st ELSE mem[y]
                           /\ disk'[y] = IF y = d THEN st ELSE disk[y]
    BY <1>1, <1>3, SaveFacts
  <2> QED BY <1>3, <2>1, OneTidy
<1>4. ASSUME NEW d \in Devices, NEW x \in Devices, d # x, Cut(d, x) PROVE TidyInv'
  <2>1. PICK st \in {Unpaired(d, x), Revoked(d, x)} : Save(d, st)
    BY <1>4 DEF Cut
  <2> QED BY <1>3, <1>4, <2>1, RemovedTidy
<1>5. ASSUME NEW d \in Devices, Store(d) PROVE TidyInv'
  <2>1. mem \in [Devices -> Stores] /\ disk \in [Devices -> Stores] /\ mem[d] \in Stores
    BY <1>1 DEF Types
  <2>2. PICK x, s : /\ Save(d, [mem[d] EXCEPT !.slots[x] = s])
                    /\ CheckLocalAdmission(d, mem[d], s.local)
    <3> DEFINE a == Agree(side[d].mine, side[d].theirs)
               s == [sas |-> side[d].id, local |-> a.local, remote |-> a.remote, fresh |-> FALSE]
    <3>1. Storable(d, side[d].peer, a) /\ Save(d, [mem[d] EXCEPT !.slots[side[d].peer] = s])
      BY <1>5 DEF Store
    <3>2. s.local = a.local
      OBVIOUS
    <3> HIDE DEF a, s
    <3> QED BY <3>1, <3>2 DEF Storable
  <2>3. PICK st : st = [mem[d] EXCEPT !.slots[x] = s]
    OBVIOUS
  <2>4. /\ st.adm = mem[d].adm /\ st.rem = mem[d].rem
        /\ \A y \in Devices : st.slots[y] = IF y = x THEN s ELSE mem[d].slots[y]
    BY <2>1, <2>3 DEF Stores
  <2>5. Active(st, d) => s.local >= st.adm[d]
    BY <2>2, <2>4 DEF CheckLocalAdmission, DesiredAdmission, Active
  <2>6. Tidy(d, st)
    BY <2>4, <2>5, TidyKept DEF TidyInv
  <2>7. /\ mem'[d] = st /\ disk'[d] = st
        /\ \A y \in Devices \ {d} : mem'[y] = mem[y] /\ disk'[y] = disk[y]
    BY <2>1, <2>2, <2>3 DEF Save
  <2> QED BY <2>6, <2>7, OneTidy
<1>6. ASSUME NEW d \in Devices, Confirm(d), ~UNCHANGED <<mem, disk>> PROVE TidyInv'
  <2>1. Confirmable(d) /\ Acknowledged(d) /\ Save(d, Project(d, Certified(d)))
    BY <1>6 DEF Confirm
  <2> QED BY <1>3, <2>1, ConfirmedTidy
<1>7. ASSUME NEW d \in Devices, Rollback(d) \/ RollbackFails(d) PROVE TidyInv'
  <2>1. Pairing(d) /\ mem' = [mem EXCEPT ![d] = RolledBack(d)]
        /\ (disk' = disk \/ disk' = [disk EXCEPT ![d] = RolledBack(d)])
    BY <1>7 DEF Rollback, RollbackFails, Save
  <2>2. /\ RolledBack(d).adm = mem[d].adm /\ RolledBack(d).rem = mem[d].rem
        /\ \A y \in Devices : RolledBack(d).slots[y] \in {mem[d].slots[y], NoSlot}
    BY <2>1, RolledBackFacts
  <2>3. Tidy(d, RolledBack(d))
    BY <2>2, TidyKept DEF TidyInv
  <2>4. /\ mem'[d] = RolledBack(d) /\ disk'[d] \in {disk[d], RolledBack(d)}
        /\ \A y \in Devices \ {d} : mem'[y] = mem[y] /\ disk'[y] = disk[y]
    BY <1>1, <2>1 DEF Types
  <2>5. Tidy(d, disk'[d])
    BY <2>3, <2>4 DEF TidyInv
  <2> QED BY <2>3, <2>4, <2>5, OneTidy
<1>8. ASSUME NEW d \in Devices, Restart(d) PROVE TidyInv'
  <2>1. mem'[d] = disk[d] /\ disk' = disk /\ \A y \in Devices \ {d} : mem'[y] = mem[y]
    BY <1>1, <1>8 DEF Types, Restart
  <2>2. Tidy(d, mem'[d]) /\ Tidy(d, disk'[d])
    BY <2>1 DEF TidyInv
  <2> QED BY <2>1, <2>2, OneTidy
<1>9. ASSUME NEW d \in Devices, NEW snap \in Snaps, NEW via \in BOOLEAN, snap.issuer # d,
             ~MergeFails(d, snap, via), Save(d, Merged(d, snap, via))
      PROVE  TidyInv'
  <2>1. mem[d] \in Stores /\ StoreInv(d, mem[d])
    BY <1>1, HeldTypes DEF MembershipInv
  <2>2. Merged(d, snap, via) \in Stores
    BY <1>9, <2>1, MergedEffect DEF MergeEffect
  <2> QED BY <1>3, <1>9, <2>2, MergedTidy
<1>10. ASSUME NEW d \in Devices, NEW x \in Devices \ {d}, Import(d, x), ~UNCHANGED <<mem, disk>> PROVE TidyInv'
  <2>1. ~MergeFails(d, cloud[x], FALSE) /\ cloud[x] # NotPublished /\ Save(d, Merged(d, cloud[x], FALSE))
    BY <1>10 DEF Import
  <2>2. cloud[x] \in Snaps /\ cloud[x].issuer # d
    BY <1>1, <2>1 DEF Types
  <2> QED BY <1>9, <2>1, <2>2
<1>11. ASSUME Respond \/ Finish, ~UNCHANGED <<mem, disk>> PROVE TidyInv'
  <2>1. session # NoSession /\ session \in Sessions /\ session.snap \in Snaps
    BY <1>1, <1>11 DEF Types, Respond, Finish, Sessions
  <2>2. PICK d \in Devices, x \in Devices :
           \/ session.stage = "request" /\ d = session.to /\ x = session.from /\ Respond
           \/ session.stage = "reply" /\ d = session.from /\ x = session.to /\ Finish
    BY <1>11, <2>1 DEF Respond, Finish, Sessions
  <2>3. ~MergeFails(d, session.snap, TRUE) /\ Save(d, Merged(d, session.snap, TRUE))
    BY <1>11, <2>2 DEF Respond, Finish
  <2>4. session.snap.issuer # d
    BY <2>1, <2>2 DEF MembershipInv, SessionInv
  <2> QED BY <1>9, <2>1, <2>3, <2>4
<1>12. ASSUME NEW d \in Devices, Ceremony(d) \/ CloudRound(d) \/ Fault(d), ~UNCHANGED <<mem, disk>>
       PROVE  TidyInv'
  <2>1. \/ Store(d) \/ Confirm(d) \/ Rollback(d) \/ RollbackFails(d) \/ Restart(d)
        \/ \E x \in Devices \ {d} : Import(d, x)
    BY <1>12 DEF Ceremony, CloudRound, Fault, Abandon, PullDone, Publish, ConfirmFails
  <2> QED BY <2>1, <1>12, <1>5, <1>6, <1>7, <1>8, <1>10
<1>13. ASSUME NEW d \in Devices, NEW x \in Devices, d # x, Pair(d, x) \/ Cut(d, x), ~UNCHANGED <<mem, disk>>
       PROVE  TidyInv'
  BY <1>13, <1>4 DEF Pair
<1>14. ASSUME Exchange, ~UNCHANGED <<mem, disk>> PROVE TidyInv'
  BY <1>14, <1>11 DEF Exchange, Disconnect, Dial
<1>15. CASE UNCHANGED vars
  BY <1>2, <1>15 DEF vars
<1> QED BY <1>2, <1>12, <1>13, <1>14, <1>15 DEF Next

\* A group forms with tidy stores.
LEMMA InitTidy == Init => TidyInv
<1> SUFFICES ASSUME Init, NEW d \in Devices PROVE Tidy(d, mem[d]) /\ Tidy(d, disk[d])
  BY DEF TidyInv
<1>1. mem[d] \in {Alone(d), Member(d)} /\ disk[d] = mem[d]
  BY DEF Init
<1>2. /\ Alone(d).adm = [x \in Devices |-> IF x = d THEN 0 ELSE Absent]
      /\ Alone(d).rem = [x \in Devices |-> Absent]
      /\ Alone(d).slots = [x \in Devices |-> NoSlot]
      /\ Member(d).adm = [x \in Devices |-> 0] /\ Member(d).rem = [x \in Devices |-> Absent]
      /\ Member(d).slots = [x \in Devices |-> IF x = d THEN NoSlot ELSE [NoSlot EXCEPT !.sas = 0]]
  BY DEF Alone, Member
<1>3. Tidy(d, Alone(d))
  BY <1>2 DEF Tidy, Clean, Current, HasSlot
<1>4. Tidy(d, Member(d))
  <2>1. [NoSlot EXCEPT !.sas = 0].local = 0
    BY DEF NoSlot
  <2>2. \A x \in Devices : Active(Member(d), x)
    BY <1>2 DEF Active, Absent
  <2>3. ASSUME NEW x \in Devices \ {d} PROVE Member(d).slots[x].local >= Member(d).adm[d]
    <3>1. Member(d).slots[x].local = 0 /\ Member(d).adm[d] = 0
      BY <1>2, <2>1, Zenon
    <3> QED BY <3>1
  <2> QED BY <2>2, <2>3 DEF Tidy, Clean, Current
<1> QED BY <1>1, <1>3, <1>4

\* The stores are tidy in every reachable state.
LEMMA TidyHolds == Spec => []TidyInv
BY InitTidy, StepKeepsTidy, InvariantHolds, PTL DEF Spec

\* Two devices that count each other and themselves as members, and have a
\* credential for each other.
Settled(d, x) ==
    /\ ~Pairing(d) /\ ~Pairing(x) /\ HasSlot(mem[d], x) /\ HasSlot(mem[x], d)
    /\ Active(mem[d], d) /\ Active(mem[x], x) /\ Active(mem[d], x) /\ Active(mem[x], d)

\* They reach each other, over a scoped key if the credentials differ, and
\* neither refuses the other's roster.
LEMMA SettledReach ==
    ASSUME MembershipInv, TidyInv, NEW d \in Devices \ unconfirmed, NEW x \in Devices \ unconfirmed,
           d # x, Settled(d, x)
    PROVE  Reachable(d, x) /\ ~MergeFails(x, Snapshot(d, mem[d]), TRUE)
<1> DEFINE snap == Snapshot(d, mem[d])
<1>1. /\ Types /\ mem[d] \in Stores /\ mem[x] \in Stores /\ StoreInv(x, mem[x])
      /\ snap.issuer = d /\ snap.adm = mem[d].adm /\ snap.rem = mem[d].rem
  BY HeldTypes DEF MembershipInv, Snapshot
<1>2. snap \in Snaps
  BY <1>1 DEF Snapshot, Snaps, Stores
<1>3. Reachable(d, x)
  <2>1. mem[d].slots[x].local >= DesiredAdmission(mem[d], d)
    BY DEF TidyInv, Tidy, Current, Settled, DesiredAdmission
  <2> QED BY <2>1 DEF Settled, Reachable, CurrentCredential, MetadataKey, Pending
<1> HIDE DEF snap
<1>4. /\ mem[d].adm[d] \in Generations /\ mem[x].adm[d] \in Generations /\ mem[x].rem[d] \in Generations
      /\ mem[d].rem[d] \in Generations
      /\ mem[x].adm[x] \in Generations /\ mem[d].adm[x] \in Generations /\ mem[d].rem[x] \in Generations
  BY <1>1, HeldTypes
<1>5. /\ mem[x].adm[d] <= mem[d].adm[d]
      /\ mem[d].adm[x] <= mem[x].adm[x] /\ mem[d].rem[x] <= mem[x].adm[x]
  BY RosterOfOthers
<1>6. mem[d].adm[d] > mem[d].rem[d] /\ mem[x].adm[d] > mem[x].rem[d]
  BY DEF Settled, Active
<1>7. ~SnapshotRefused(x, mem[x], snap, Fresh(x, snap, TRUE))
  <2>1. ~RemovedDevice(mem[x], snap.issuer)
    BY <1>1 DEF RemovedDevice, Settled
  <2>2. ~(snap.adm[snap.issuer] <= snap.rem[snap.issuer])
    BY <1>1, <1>4, <1>6 DEF Generations, Absent
  <2>3. ~(snap.adm[snap.issuer] <= mem[x].rem[snap.issuer])
    BY <1>1, <1>4, <1>5, <1>6 DEF Generations, Absent
  <2>4. ~(snap.adm[x] > mem[x].adm[x]) /\ ~(snap.rem[x] > mem[x].adm[x])
    BY <1>1, <1>4, <1>5 DEF Generations, Absent
  <2> QED BY <2>1, <2>2, <2>3, <2>4 DEF SnapshotRefused
<1>8. ~ProjectionFails(x, Learned(x, snap, TRUE))
  <2>1. LearnedFacts(x, snap, TRUE, Learned(x, snap, TRUE))
    BY <1>1, <1>2, <1>7, LearnedShape
  <2>2. Learned(x, snap, TRUE) \in Stores /\ Projectable(x, Learned(x, snap, TRUE))
    BY <2>1 DEF LearnedFacts
  <2> QED BY <2>2, ProjectionNeverFails
<1>9. ~MergeFails(x, snap, TRUE)
  BY <1>7, <1>8 DEF MergeFails
<1> QED BY <1>3, <1>9 DEF snap

\* Where one has nothing to teach the other, the other knows its removals and its
\* members.
LEMMA NothingToTeach ==
    ASSUME MembershipInv, TidyInv, NEW d \in Devices \ unconfirmed, NEW x \in Devices \ unconfirmed,
           d # x, Settled(d, x), ~Teaches(d, x), NEW y \in Devices
    PROVE  /\ mem[x].rem[y] >= mem[d].rem[y]
           /\ mem[x].rem[y] = mem[d].rem[y] => mem[x].adm[y] >= mem[d].adm[y]
<1> DEFINE snap == Snapshot(d, mem[d])
           l == Learned(x, snap, TRUE)
<1>1. /\ Types /\ mem[d] \in Stores /\ mem[x] \in Stores /\ StoreInv(x, mem[x])
      /\ snap.issuer = d /\ snap.adm = mem[d].adm /\ snap.rem = mem[d].rem
  BY HeldTypes DEF MembershipInv, Snapshot
<1>2. snap \in Snaps
  BY <1>1 DEF Snapshot, Snaps, Stores
<1>3. ~MergeFails(x, snap, TRUE) /\ Merged(x, snap, TRUE) = mem[x]
  BY SettledReach DEF Teaches
<1> HIDE DEF snap
<1>4. /\ l \in Stores
      /\ l.rem[y] = MaxOf(mem[x].rem[y], snap.rem[y])
      /\ y # x => (Active(l, x) /\ snap.adm[y] > l.rem[y] => l.adm[y] >= snap.adm[y])
  <2>1. ~SnapshotRefused(x, mem[x], snap, Fresh(x, snap, TRUE))
    BY <1>3 DEF MergeFails
  <2>2. LearnedFacts(x, snap, TRUE, l)
    BY <1>1, <1>2, <2>1, LearnedShape
  <2> HIDE DEF l
  <2> QED BY <2>2 DEF LearnedFacts
<1>5. l.adm = mem[x].adm /\ l.rem = mem[x].rem
  <2>1. mem[x] = l \/ mem[x] = Project(x, l)
    BY <1>3 DEF Merged
  <2> HIDE DEF l
  <2> QED BY <1>4, <2>1, ProjectShape
<1> HIDE DEF l
<1>6. /\ mem[x].rem[y] \in Generations /\ mem[d].rem[y] \in Generations
      /\ mem[x].adm[y] \in Generations /\ mem[d].adm[y] \in Generations
  BY <1>1, HeldTypes
<1>7. mem[x].rem[y] >= mem[d].rem[y]
  <2>1. mem[x].rem[y] = MaxOf(mem[x].rem[y], mem[d].rem[y])
    BY <1>1, <1>4, <1>5
  <2> QED BY <2>1, <1>6 DEF MaxOf, Generations, Absent
<1>8. ASSUME mem[x].rem[y] = mem[d].rem[y] PROVE mem[x].adm[y] >= mem[d].adm[y]
  <2>1. CASE y = x
    <3>1. mem[d].adm[x] <= mem[x].adm[x]
      BY RosterOfOthers
    <3> QED BY <2>1, <3>1, <1>6 DEF Generations, Absent
  <2>2. CASE y # x /\ Active(mem[d], y)
    <3>1. Active(l, x) /\ snap.adm[y] > l.rem[y]
      BY <2>2, <1>1, <1>5, <1>8 DEF Active, Settled
    <3>2. l.adm[y] >= snap.adm[y]
      BY <2>2, <3>1, <1>4
    <3> QED BY <3>2, <1>1, <1>5
  <2>3. CASE y # x /\ ~Active(mem[d], y)
    <3>1. y # d
      BY <2>3 DEF Settled
    <3>2. mem[d].adm[y] = Absent
      BY <2>3, <3>1 DEF TidyInv, Tidy, Clean
    <3> QED BY <3>2, <1>6 DEF Generations, Absent
  <2> QED BY <2>1, <2>2, <2>3
<1> QED BY <1>7, <1>8

\* GroupState::merge and the metadata sessions: two devices that count each other
\* as members and have a credential for each other agree about every member and
\* every removal, or a session between them would teach one of them something.
THEOREM RostersComeTogether == Spec => []SettledRostersAgree
<1>1. MembershipInv /\ TidyInv => SettledRostersAgree
  <2> SUFFICES ASSUME MembershipInv, TidyInv, NEW d \in Devices \ unconfirmed,
                      NEW x \in Devices \ unconfirmed, Settled(d, x),
                      ~Teaches(d, x), ~Teaches(x, d)
               PROVE  mem[d].adm = mem[x].adm /\ mem[d].rem = mem[x].rem
    BY DEF SettledRostersAgree, Settled
  <2>1. d # x /\ Settled(x, d)
    BY DEF Settled, MembershipInv, StoreInv, HasSlot
  <2>2. /\ mem[d].adm \in [Devices -> Generations] /\ mem[d].rem \in [Devices -> Generations]
        /\ mem[x].adm \in [Devices -> Generations] /\ mem[x].rem \in [Devices -> Generations]
    BY DEF MembershipInv, Types, Stores, Rosters
  <2>3. ASSUME NEW y \in Devices PROVE mem[d].rem[y] = mem[x].rem[y] /\ mem[d].adm[y] = mem[x].adm[y]
    <3>1. /\ mem[x].rem[y] >= mem[d].rem[y]
          /\ mem[x].rem[y] = mem[d].rem[y] => mem[x].adm[y] >= mem[d].adm[y]
      BY <2>1, NothingToTeach
    <3>2. /\ mem[d].rem[y] >= mem[x].rem[y]
          /\ mem[d].rem[y] = mem[x].rem[y] => mem[d].adm[y] >= mem[x].adm[y]
      BY <2>1, NothingToTeach
    <3>3. /\ mem[x].rem[y] \in Generations /\ mem[d].rem[y] \in Generations
          /\ mem[x].adm[y] \in Generations /\ mem[d].adm[y] \in Generations
      BY <2>2
    <3> QED BY <3>1, <3>2, <3>3 DEF Generations, Absent
  <2> QED BY <2>2, <2>3
<1> QED BY <1>1, InvariantHolds, TidyHolds, PTL
=============================================================================
