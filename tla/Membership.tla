----------------------------- MODULE Membership -----------------------------
(***************************************************************************)
(* The device group: who is a member, which credentials follow from that,  *)
(* and how pairing, removal, sessions and the cloud table change it        *)
(* (crates/copypaste-p2p/src/group.rs, peers/, node/group.rs,              *)
(* node/pairing_ceremony.rs; crates/copypaste-cloud/src/sync/group.rs).    *)
(*                                                                         *)
(* Every device signs a roster: for each member the generation of its      *)
(* admission, and for each removed device the generation that was removed. *)
(* A device that was removed comes back at a higher generation, which only *)
(* a ceremony both devices confirm may certify.  Credentials are derived   *)
(* from the roster or left by a ceremony.                                  *)
(*                                                                         *)
(* A device's identity key never changes here, and names, addresses and    *)
(* profiles are left out: a member is its generation.                      *)
(***************************************************************************)
EXTENDS Integers, FiniteSets

CONSTANTS
    Devices,
    Newcomers,      \* sets of devices that may start out not having read the others
    MaxCeremonies   \* bounds the ceremonies that are started

ASSUME MembershipAssumption ==
    /\ Newcomers \subseteq SUBSET Devices
    /\ MaxCeremonies \in Nat

Absent == -1        \* of a generation: not a member, never removed

VARIABLES
    mem,        \* per device, the state its peer store holds
    disk,       \* per device, what its file holds
    side,       \* per device, its half of a pairing ceremony
    ceremonies, \* ceremonies started so far; the last one's pairing id
    acks,       \* `Stored { ok: true }` messages, as [id, from]
    session,    \* the roster exchange under way
    cloud,      \* per device, the snapshot it published
    downloaded, \* per device, whose published snapshot it has dealt with
    outgoing,   \* per device, the snapshot its cloud round is uploading
    \* History variables.
    unconfirmed,\* devices whose file was left with a slot that is neither
                \* confirmed nor rolled back
    declined    \* per device, whose published snapshot it dealt with by a refusal

vars == <<mem, disk, side, ceremonies, acks, session, cloud, downloaded, outgoing,
          unconfirmed, declined>>

(***************************************************************************)
(* The roster (group.rs).  st is the state of a peer store: `adm` the      *)
(* members' generations, `rem` the removed ones, `slots` the stored peer   *)
(* per device, `revoked` the pairing ids that may not be used again.       *)
(***************************************************************************)

MaxOf(a, b) == IF a >= b THEN a ELSE b

Active(st, x) == st.adm[x] > st.rem[x]
RemovedDevice(st, x) == st.rem[x] # Absent /\ ~Active(st, x)
DesiredAdmission(st, x) == IF Active(st, x) THEN st.adm[x] ELSE st.rem[x] + 1

CheckLocalAdmission(d, st, generation) ==
    /\ generation >= DesiredAdmission(st, d)
    /\ generation <= st.adm[d] + 1

Snapshot(d, st) == [issuer |-> d, adm |-> st.adm, rem |-> st.rem]

\* The refusals of GroupState::merge.
SnapshotRefused(d, st, snap, fresh) ==
    \/ /\ ~fresh
       /\ \/ RemovedDevice(st, snap.issuer)
          \/ snap.adm[snap.issuer] <= snap.rem[snap.issuer]
          \/ snap.adm[snap.issuer] <= st.rem[snap.issuer]
    \/ snap.adm[d] > st.adm[d]
    \/ snap.rem[d] > st.adm[d]

\* Mutants: removals overwritten, and removals not taken over.
TakenRemovals(st, snap) == [x \in Devices |-> MaxOf(snap.rem[x], Absent)]
OwnRemovals(st, snap) == st.rem

MergedRemovals(st, snap) == [x \in Devices |-> MaxOf(st.rem[x], snap.rem[x])]

\* Mutant: an excluded device forgets itself too.
KeptActive(d, adm, rem) == {x \in Devices : adm[d] > rem[d] /\ adm[x] > rem[x]}

\* A device keeps its own record, and the others' while all are active.
KeptMembers(d, adm, rem) ==
    {x \in Devices : x = d \/ (adm[d] > rem[d] /\ adm[x] > rem[x])}

\* GroupState::merge, of a snapshot it does not refuse.
MergeRoster(d, st, snap, fresh) ==
    LET rem == MergedRemovals(st, snap)
        learned == [x \in Devices |->
            IF x = d \/ snap.adm[x] <= rem[x] THEN st.adm[x]
                                              ELSE MaxOf(st.adm[x], snap.adm[x])]
        admitted == [x \in Devices |->
            CASE fresh /\ x = d           -> MaxOf(learned[x], rem[x] + 1)
              [] fresh /\ x = snap.issuer -> MaxOf(snap.adm[x], rem[x] + 1)
              [] OTHER                    -> learned[x]]
        kept == KeptMembers(d, admitted, rem)
    IN [st EXCEPT !.rem = rem,
                  !.adm = [x \in Devices |-> IF x \in kept THEN admitted[x] ELSE Absent]]

\* Mutant: the tombstone covers the next generation as well.
RemoveNext(d, st, x) ==
    [st EXCEPT !.rem[x] = MaxOf(st.adm[x], 0) + 1, !.adm[x] = IF x = d THEN @ ELSE Absent]

\* GroupState::remove: a tombstone for the generation the roster knows.
RemoveMember(d, st, x) ==
    LET generation == MaxOf(st.adm[x], 0)
    IN IF st.rem[x] >= generation THEN st
       ELSE [st EXCEPT !.rem[x] = generation,
                       !.adm[x] = IF x = d THEN @ ELSE Absent]

(***************************************************************************)
(* Credentials.  A slot is a stored peer: `sas` names the ceremony that    *)
(* left it, 0 for one derived from the roster; `local` and `remote` are    *)
(* the generations it certifies; `fresh` marks an admission whose first    *)
(* roster exchange is still to come.                                       *)
(***************************************************************************)

NoSlot == [sas |-> Absent, local |-> 0, remote |-> 0, fresh |-> FALSE]
HasSlot(st, x) == st.slots[x] # NoSlot

\* What a pairing id stands for: a derived one depends on both generations.
PairingId(slot) == [sas |-> slot.sas, local |-> slot.local, remote |-> slot.remote]
Mirrored(id) == [id EXCEPT !.local = id.remote, !.remote = id.local]

DerivedSlot(d, st, x) ==
    [sas |-> 0, local |-> st.adm[d], remote |-> st.adm[x], fresh |-> FALSE]

\* Whether an offered slot outlives the roster beside it.
SlotSurvives(st, x) ==
    /\ HasSlot(st, x)
    /\ \/ ~RemovedDevice(st, x)
       \/ st.slots[x].fresh /\ st.slots[x].remote >= DesiredAdmission(st, x)

\* Members whose stored credential certifies other generations, or none.
Rotated(d, st) ==
    {x \in Devices \ {d} :
        /\ Active(st, x)
        /\ ~ /\ SlotSurvives(st, x)
             /\ st.slots[x].local = st.adm[d]
             /\ st.slots[x].remote = st.adm[x]}

\* `project` fails on a derived pairing id that was revoked.
ProjectionFails(d, st) ==
    /\ Active(st, d)
    /\ \E x \in Rotated(d, st) : <<x, PairingId(DerivedSlot(d, st, x))>> \in st.revoked

Project(d, st) ==
    [st EXCEPT !.slots = [x \in Devices |->
        CASE Active(st, d) /\ x \in Rotated(d, st) -> DerivedSlot(d, st, x)
          [] Active(st, d) /\ x \notin Rotated(d, st) /\ SlotSurvives(st, x) -> st.slots[x]
          [] OTHER -> NoSlot]]

\* is_current_credential: a slot this device would dial with or answer to.
CurrentCredential(d, x) ==
    /\ HasSlot(mem[d], x)
    /\ Active(mem[d], d)
    /\ mem[d].slots[x].local >= DesiredAdmission(mem[d], d)

\* A scoped key for roster exchanges only, derived from the two identities.
MetadataKey(d, x) ==
    HasSlot(mem[d], x) /\ Active(mem[d], d) /\ Active(mem[d], x)

(***************************************************************************)
(* merge_group: the roster, the credentials and the file change together   *)
(* or not at all.                                                          *)
(***************************************************************************)

\* `via`: over a session, which uses up the mark of a fresh admission.
Fresh(d, snap, via) == via /\ mem[d].slots[snap.issuer].fresh

Learned(d, snap, via) ==
    LET next == MergeRoster(d, mem[d], snap, Fresh(d, snap, via))
    IN IF via THEN [next EXCEPT !.slots[snap.issuer].fresh = FALSE] ELSE next

MergeFails(d, snap, via) ==
    \/ SnapshotRefused(d, mem[d], snap, Fresh(d, snap, via))
    \/ ProjectionFails(d, Learned(d, snap, via))

\* The state after a merge that does not fail.
Merged(d, snap, via) ==
    IF Learned(d, snap, via) = mem[d] THEN mem[d]
                                      ELSE Project(d, Learned(d, snap, via))

\* A write of the whole store: memory follows the file.
Save(d, st) ==
    /\ mem' = [mem EXCEPT ![d] = st]
    /\ disk' = [disk EXCEPT ![d] = st]

(***************************************************************************)
(* Pairing.  Both users accepted: each side has the other's proposal.      *)
(***************************************************************************)

NoSide == [id |-> 0]
Pairing(d) == side[d] # NoSide
Pending(d, x) == Pairing(d) /\ HasSlot(mem[d], x) /\ mem[d].slots[x].sas = side[d].id

Proposal(d, x) ==
    [local |-> DesiredAdmission(mem[d], d), remote |-> DesiredAdmission(mem[d], x)]

\* PairAdmissions::agree.
Agreeable(mine, theirs) == theirs.remote <= mine.local + 1

\* Mutant: the other side's view of this device's generation is ignored.
AgreeOwn(mine, theirs) ==
    [local |-> mine.local, remote |-> MaxOf(mine.remote, theirs.local)]

Agree(mine, theirs) ==
    [local |-> MaxOf(mine.local, theirs.remote), remote |-> MaxOf(mine.remote, theirs.local)]

\* upsert_locked_certified.
Storable(d, x, agreed) ==
    /\ CheckLocalAdmission(d, mem[d], agreed.local)
    /\ agreed.remote >= DesiredAdmission(mem[d], x)
    /\ ~HasSlot(mem[d], x)

Pair(d, x) ==
    /\ ceremonies < MaxCeremonies
    /\ ~Pairing(d) /\ ~Pairing(x)
    /\ ~HasSlot(mem[d], x) /\ ~HasSlot(mem[x], d)
    /\ ceremonies' = ceremonies + 1
    /\ side' = [side EXCEPT
           ![d] = [id |-> ceremonies + 1, peer |-> x, stored |-> FALSE,
                   mine |-> Proposal(d, x), theirs |-> Proposal(x, d)],
           ![x] = [id |-> ceremonies + 1, peer |-> d, stored |-> FALSE,
                   mine |-> Proposal(x, d), theirs |-> Proposal(d, x)]]
    /\ UNCHANGED <<mem, disk, acks, session, cloud, downloaded, outgoing,
                   unconfirmed, declined>>

\* Rejected, cancelled, timed out, or the proposals cannot be reconciled.
Abandon(d) ==
    /\ Pairing(d) /\ ~side[d].stored
    /\ side' = [side EXCEPT ![d] = NoSide]
    /\ UNCHANGED <<mem, disk, ceremonies, acks, session, cloud, downloaded, outgoing,
                   unconfirmed, declined>>

\* The first half of persist_bilaterally.
Store(d) ==
    /\ Pairing(d) /\ ~side[d].stored
    /\ Agreeable(side[d].mine, side[d].theirs)
    /\ LET x      == side[d].peer
           agreed == Agree(side[d].mine, side[d].theirs)
       IN /\ Storable(d, x, agreed)
          /\ Save(d, [mem[d] EXCEPT !.slots[x] =
                 [sas |-> side[d].id, local |-> agreed.local, remote |-> agreed.remote,
                  fresh |-> FALSE]])
    /\ side' = [side EXCEPT ![d].stored = TRUE]
    /\ acks' = acks \union {[id |-> side[d].id, from |-> d]}
    /\ UNCHANGED <<ceremonies, session, cloud, downloaded, outgoing,
                   unconfirmed, declined>>

\* confirm_group_admission, which fails when the slot is gone or the local
\* generation was removed meanwhile; the slot then stays as it was stored.
Certified(d) ==
    LET x == side[d].peer
    IN [mem[d] EXCEPT !.adm[d] = mem[d].slots[x].local, !.slots[x].fresh = TRUE]

Confirmable(d) ==
    /\ Pending(d, side[d].peer)
    /\ CheckLocalAdmission(d, mem[d], mem[d].slots[side[d].peer].local)
    /\ ~ProjectionFails(d, Certified(d))

Acknowledged(d) ==
    /\ Pairing(d) /\ side[d].stored
    /\ [id |-> side[d].id, from |-> side[d].peer] \in acks

Confirm(d) ==
    /\ Acknowledged(d)
    /\ IF Confirmable(d) THEN Save(d, Project(d, Certified(d))) ELSE UNCHANGED <<mem, disk>>
    /\ side' = [side EXCEPT ![d] = NoSide]
    /\ UNCHANGED <<ceremonies, acks, session, cloud, downloaded, outgoing,
                   unconfirmed, declined>>

\* The write of a confirmation fails: the ceremony ends, the slot stays.
ConfirmFails(d) ==
    /\ Acknowledged(d)
    /\ side' = [side EXCEPT ![d] = NoSide]
    /\ unconfirmed' = unconfirmed \union {x \in {d} : Pairing(x) /\ side[x].stored}
    /\ UNCHANGED <<mem, disk, ceremonies, acks, session, cloud, downloaded, outgoing,
                   declined>>

\* The other side refused, broke off or stayed silent: `restore`.
RolledBack(d) ==
    LET x == side[d].peer
    IN IF Pending(d, x) THEN [mem[d] EXCEPT !.slots[x] = NoSlot] ELSE mem[d]

Rollback(d) ==
    /\ Pairing(d) /\ side[d].stored
    /\ Save(d, RolledBack(d))
    /\ side' = [side EXCEPT ![d] = NoSide]
    /\ UNCHANGED <<ceremonies, acks, session, cloud, downloaded, outgoing,
                   unconfirmed, declined>>

\* The file could not be written: memory is rolled back all the same.
RollbackFails(d) ==
    /\ Pairing(d) /\ side[d].stored
    /\ mem' = [mem EXCEPT ![d] = RolledBack(d)]
    /\ side' = [side EXCEPT ![d] = NoSide]
    /\ unconfirmed' = unconfirmed \union {d}
    /\ UNCHANGED <<disk, ceremonies, acks, session, cloud, downloaded, outgoing,
                   declined>>

(***************************************************************************)
(* Removal, by the user of d: unpair, and revoke, which also bars the      *)
(* pairing id.  Sessions over the slot are cancelled.                      *)
(***************************************************************************)

NoSession == [stage |-> "none"]
Uses(d, x) == session # NoSession /\ {session.from, session.to} = {d, x}

Unpaired(d, x) == [RemoveMember(d, mem[d], x) EXCEPT !.slots[x] = NoSlot]
Revoked(d, x) ==
    [Unpaired(d, x) EXCEPT !.revoked = @ \union {<<x, PairingId(mem[d].slots[x])>>}]

Cut(d, x) ==
    /\ HasSlot(mem[d], x)
    /\ \/ Save(d, Unpaired(d, x))
       \/ Save(d, Revoked(d, x))
    /\ session' = IF Uses(d, x) THEN NoSession ELSE session
    /\ UNCHANGED <<side, ceremonies, acks, cloud, downloaded, outgoing,
                   unconfirmed, declined>>

(***************************************************************************)
(* A roster exchange between two devices: over a shared credential, before *)
(* a sync session, or over the scoped key when the credentials differ.     *)
(***************************************************************************)

\* Mutant: a slot of an unfinished ceremony is used.
ReachableEarly(d, x) ==
    /\ CurrentCredential(d, x) /\ CurrentCredential(x, d)
    /\ PairingId(mem[x].slots[d]) = Mirrored(PairingId(mem[d].slots[x]))

Reachable(d, x) ==
    /\ CurrentCredential(d, x) /\ ~Pending(d, x)
    /\ \/ /\ CurrentCredential(x, d) /\ ~Pending(x, d)
          /\ PairingId(mem[x].slots[d]) = Mirrored(PairingId(mem[d].slots[x]))
       \/ MetadataKey(d, x) /\ MetadataKey(x, d)

Dial(d, x) ==
    /\ session = NoSession
    /\ Reachable(d, x)
    /\ session' = [stage |-> "request", from |-> d, to |-> x,
                   fromId |-> PairingId(mem[d].slots[x]),
                   toId |-> PairingId(mem[x].slots[d]),
                   snap |-> Snapshot(d, mem[d])]
    /\ UNCHANGED <<mem, disk, side, ceremonies, acks, cloud, downloaded, outgoing,
                   unconfirmed, declined>>

\* respond_group: the reply holds what the merge has just taught.
Respond ==
    /\ session # NoSession /\ session.stage = "request"
    /\ LET d == session.to  x == session.from
       IN IF PairingId(mem[d].slots[x]) # session.toId \/ MergeFails(d, session.snap, TRUE)
          THEN session' = NoSession /\ UNCHANGED <<mem, disk>>
          ELSE LET st == Merged(d, session.snap, TRUE)
               IN /\ Save(d, st)
                  /\ session' = [session EXCEPT !.stage = "reply", !.snap = Snapshot(d, st)]
    /\ UNCHANGED <<side, ceremonies, acks, cloud, downloaded, outgoing,
                   unconfirmed, declined>>

\* initiate_group, once the reply is there.
Finish ==
    /\ session # NoSession /\ session.stage = "reply"
    /\ LET d == session.from  x == session.to
       IN IF PairingId(mem[d].slots[x]) # session.fromId \/ MergeFails(d, session.snap, TRUE)
          THEN UNCHANGED <<mem, disk>>
          ELSE Save(d, Merged(d, session.snap, TRUE))
    /\ session' = NoSession
    /\ UNCHANGED <<side, ceremonies, acks, cloud, downloaded, outgoing,
                   unconfirmed, declined>>

Disconnect ==
    /\ session # NoSession
    /\ session' = NoSession
    /\ UNCHANGED <<mem, disk, side, ceremonies, acks, cloud, downloaded, outgoing,
                   unconfirmed, declined>>

(***************************************************************************)
(* The cloud: a round first deals with every snapshot it has not seen,     *)
(* then publishes its own (sync_group).  A refused snapshot counts as seen.*)
(***************************************************************************)

NotPublished == [issuer |-> "none"]

Import(d, x) ==
    /\ Active(mem[d], d) /\ outgoing[d] = NotPublished
    /\ cloud[x] # NotPublished /\ x \notin downloaded[d]
    /\ IF MergeFails(d, cloud[x], FALSE) THEN UNCHANGED <<mem, disk>>
       ELSE Save(d, Merged(d, cloud[x], FALSE))
    /\ downloaded' = [downloaded EXCEPT ![d] =
           IF Active(mem'[d], d) THEN @ \union {x} ELSE @]
    /\ declined' = [declined EXCEPT ![d] =
           IF MergeFails(d, cloud[x], FALSE) THEN @ \union {x} ELSE @ \ {x}]
    /\ UNCHANGED <<side, ceremonies, acks, session, cloud, outgoing, unconfirmed>>

Published == {x \in Devices : cloud[x] # NotPublished}

\* The table was read to its end: the snapshot to upload, unless it is there.
PullDone(d) ==
    /\ Active(mem[d], d) /\ outgoing[d] = NotPublished
    /\ Published \ {d} \subseteq downloaded[d]
    /\ cloud[d] # Snapshot(d, mem[d])
    /\ outgoing' = [outgoing EXCEPT ![d] = Snapshot(d, mem[d])]
    /\ UNCHANGED <<mem, disk, side, ceremonies, acks, session, cloud, downloaded,
                   unconfirmed, declined>>

\* Mutant: a snapshot goes on counting as downloaded when it changes.
PublishUnseen(d) ==
    /\ outgoing[d] # NotPublished
    /\ outgoing' = [outgoing EXCEPT ![d] = NotPublished]
    /\ cloud' = [cloud EXCEPT ![d] = outgoing[d]]
    /\ UNCHANGED <<mem, disk, side, ceremonies, acks, session, downloaded,
                   unconfirmed, declined>>

Publish(d) ==
    /\ outgoing[d] # NotPublished
    /\ outgoing' = [outgoing EXCEPT ![d] = NotPublished]
    /\ \/ /\ cloud' = [cloud EXCEPT ![d] = outgoing[d]]
          /\ downloaded' = [x \in Devices |-> downloaded[x] \ {d}]
          /\ declined' = [x \in Devices |-> declined[x] \ {d}]
       \/ UNCHANGED <<cloud, downloaded, declined>>     \* the upload failed
    /\ UNCHANGED <<mem, disk, side, ceremonies, acks, session, unconfirmed>>

\* The process ends and starts again from its file.
Restart(d) ==
    /\ mem' = [mem EXCEPT ![d] = disk[d]]
    /\ side' = [side EXCEPT ![d] = NoSide]
    /\ session' = IF session # NoSession /\ d \in {session.from, session.to}
                  THEN NoSession ELSE session
    /\ downloaded' = [downloaded EXCEPT ![d] = {}]
    /\ declined' = [declined EXCEPT ![d] = {}]
    /\ outgoing' = [outgoing EXCEPT ![d] = NotPublished]
    /\ unconfirmed' = unconfirmed \union {x \in {d} : Pairing(x) /\ side[x].stored}
    /\ UNCHANGED <<disk, ceremonies, acks, cloud>>

Alone(d) ==
    [adm |-> [x \in Devices |-> IF x = d THEN 0 ELSE Absent],
     rem |-> [x \in Devices |-> Absent],
     slots |-> [x \in Devices |-> NoSlot],
     revoked |-> {}]

\* A group of generation 0, as it forms over the cloud.
Member(d) ==
    [Alone(d) EXCEPT
        !.adm = [x \in Devices |-> 0],
        !.slots = [x \in Devices |-> IF x = d THEN NoSlot ELSE [NoSlot EXCEPT !.sas = 0]]]

Init ==
    /\ \E new \in Newcomers :
          /\ mem = [d \in Devices |-> IF d \in new THEN Alone(d) ELSE Member(d)]
          /\ downloaded = [d \in Devices |-> IF d \in new THEN {} ELSE Devices \ {d}]
    /\ cloud = [d \in Devices |-> Snapshot(d, mem[d])]
    /\ disk = mem
    /\ side = [d \in Devices |-> NoSide]
    /\ ceremonies = 0
    /\ acks = {}
    /\ session = NoSession
    /\ outgoing = [d \in Devices |-> NotPublished]
    /\ unconfirmed = {}
    /\ declined = [d \in Devices |-> {}]

Ceremony(d) == Abandon(d) \/ Store(d) \/ Confirm(d) \/ Rollback(d)
Exchange == Respond \/ Finish \/ Disconnect \/ \E d, x \in Devices : d # x /\ Dial(d, x)
CloudRound(d) == PullDone(d) \/ Publish(d) \/ \E x \in Devices \ {d} : Import(d, x)
Fault(d) == ConfirmFails(d) \/ RollbackFails(d) \/ Restart(d)

Next ==
    \/ \E d, x \in Devices : d # x /\ (Pair(d, x) \/ Cut(d, x))
    \/ \E d \in Devices : Ceremony(d) \/ CloudRound(d) \/ Fault(d)
    \/ Exchange

Spec == Init /\ [][Next]_vars

-----------------------------------------------------------------------------

Generations == Nat \union {Absent}
Slots == [sas : Nat \union {Absent}, local : Nat, remote : Nat, fresh : BOOLEAN]

StoreOK(d, st) ==
    /\ \A x \in Devices : {st.adm[x], st.rem[x]} \subseteq Generations
    /\ st.slots \in [Devices -> Slots]
    /\ st.slots[d] = NoSlot
    /\ st.adm[d] # Absent

\* The state of every store, in memory and in its file.
TypeOK ==
    /\ \A d \in Devices : StoreOK(d, mem[d]) /\ StoreOK(d, disk[d])
    /\ ceremonies \in 0..MaxCeremonies
    /\ acks \subseteq [id : 1..MaxCeremonies, from : Devices]
    /\ downloaded \in [Devices -> SUBSET Devices]

\* Both devices of a ceremony certify the same two generations
\* (PairAdmissions::agree, each from its own proposal and the other's).
CertificatesMirror ==
    \A d, x \in Devices :
        LET s == mem[d].slots[x]  t == mem[x].slots[d]
        IN s.sas > 0 /\ t.sas = s.sas => PairingId(t) = Mirrored(PairingId(s))

\* Nobody holds a generation of a device which that device has not certified
\* itself ("This device participated in every admission of its own identity"),
\* unless a slot it stored was neither confirmed nor rolled back in its file.
AdmissionsAreOwn ==
    \A d, x \in Devices : mem[d].adm[x] <= mem[x].adm[x] \/ x \in unconfirmed

\* Two devices without a credential for each other can pair.
CanReturnTo(d, x) ==
    LET agreed == Agree(Proposal(d, x), Proposal(x, d))
    IN Agreeable(Proposal(d, x), Proposal(x, d)) /\ Storable(d, x, agreed)

Strangers(d, x) ==
    /\ d # x /\ ~Pairing(d) /\ ~Pairing(x)
    /\ ~HasSlot(mem[d], x) /\ ~HasSlot(mem[x], d)

\* A device that was removed can be admitted again, whatever the rosters and
\* the proposals say, unless either side was left with an unfinished slot.
UndisturbedDeviceCanReturn ==
    \A d, x \in Devices :
        Strangers(d, x) /\ {d, x} \intersect unconfirmed = {} => CanReturnTo(d, x)

\* "... including a deliberate return of a previously removed personal device"
\* (group.rs, merge): the same, with nothing excepted.
RemovedDeviceCanReturn ==
    \A d, x \in Devices : Strangers(d, x) => CanReturnTo(d, x)

\* A session from d would teach x something.
Teaches(d, x) ==
    /\ Reachable(d, x) /\ ~MergeFails(x, Snapshot(d, mem[d]), TRUE)
    /\ Merged(x, Snapshot(d, mem[d]), TRUE) # mem[x]

\* Two devices that count each other as members and have a credential for each
\* other agree about every member and every removal, or a session would bring
\* them closer: neither a refused roster nor credentials of different generations
\* keep them apart (GroupState::merge, metadata sessions).
SettledRostersAgree ==
    \A d, x \in Devices \ unconfirmed :
        /\ ~Pairing(d) /\ ~Pairing(x) /\ HasSlot(mem[d], x) /\ HasSlot(mem[x], d)
        /\ Active(mem[d], d) /\ Active(mem[x], x) /\ Active(mem[d], x) /\ Active(mem[x], d)
        => \/ mem[d].adm = mem[x].adm /\ mem[d].rem = mem[x].rem
           \/ Teaches(d, x) \/ Teaches(x, d)

\* The removals of a published snapshot that a device has dealt with are known
\* to it, also after it was excluded, admitted again or restarted, unless it
\* refused the snapshot (sync_group: what counts as downloaded is not read again).
PublishedRemovalsAreKnown ==
    \A d, x \in Devices : x \in downloaded[d] \ declined[d] =>
        \A y \in Devices : mem[d].rem[y] >= cloud[x].rem[y]

\* A removal is never forgotten, by no merge, rollback or restart, and an
\* excluded device counts itself in again only by confirming a ceremony.
NoReturnWithoutCeremony ==
    [][\A d \in Devices :
        /\ \A x \in Devices : mem'[d].rem[x] >= mem[d].rem[x]
        /\ Active(mem'[d], d) /\ ~Active(mem[d], d) => Acknowledged(d)]_vars
=============================================================================
