--------------------------- MODULE MCHistoryMerge ---------------------------
(***************************************************************************)
(* HistoryMerge for TLC: pages of up to two versions of two items, chosen  *)
(* so that they tie, supersede, delete, collide in the dedup index, and    *)
(* carry pins and privacy choices.  Local writes and pages share a budget.  *)
(***************************************************************************)
EXTENDS HistoryMerge

CONSTANTS MaxPages, MaxEvents

VARIABLES disturbances, pages

Offer(id, at, hash, deleted, origin, pinAt, choice) ==
    [id |-> id, at |-> at, hash |-> hash, deleted |-> deleted, origin |-> origin,
     pinned |-> pinAt > 0, pinAt |-> pinAt, choice |-> choice]

\* Item 3 is a capture of this device, 1 and 2 are the peer's.
PeerOffers ==
    {Offer(1, 2, 1, FALSE, 2, 0, 0), Offer(1, 1, 2, FALSE, 2, 2, 0),
     Offer(2, 2, 1, FALSE, 2, 1, 0), Offer(3, 2, 1, TRUE, 1, 0, 0)}
CloudOffers ==
    {Offer(1, 2, 2, FALSE, 2, 0, 1), Offer(2, 2, 0, TRUE, 2, 0, 0), Offer(3, 1, 1, FALSE, 1, 0, 0)}

\* Item 1's newer version collides with item 2, and its older one is redone.
RefusedThenOlder ==
    <<Offer(2, 2, 1, FALSE, 2, 1, 0), Offer(1, 2, 1, FALSE, 2, 0, 0), Offer(1, 1, 2, FALSE, 2, 2, 0)>>

\* One page deletes item 1 and brings it back.
DeletedThenBack ==
    <<Offer(1, 2, 1, TRUE, 2, 0, 0), Offer(1, 3, 1, FALSE, 2, 0, 0)>>

Singles(S) == {<<a>> : a \in S}
Pairs(S) == {<<a, b>> : a, b \in S}
MCPages == [m \in Mergers |->
    IF m = "cloud" THEN Singles(CloudOffers)
    ELSE Singles(PeerOffers) \cup Pairs(PeerOffers) \cup {RefusedThenOlder, DeletedThenBack}]

MCInit == Init /\ disturbances = 0 /\ pages = 0

MCNext ==
    \/ /\ pages < MaxPages /\ pages + disturbances < MaxEvents
       /\ pages' = pages + 1
       /\ \E m \in Mergers : \E page \in Pages[m] : ReadSnapshot(m, page)
       /\ UNCHANGED disturbances
    \/ /\ \E m \in Mergers : Merging(m) /\ merger[m].phase # "idle"
       /\ UNCHANGED <<disturbances, pages>>
    \/ (DeleteAllThrough \/ EnforceRetention \/ Tick) /\ UNCHANGED <<disturbances, pages>>
    \/ /\ pages + disturbances < MaxEvents
       /\ disturbances' = disturbances + 1
       /\ LocalWrites \/ PressClear
       /\ UNCHANGED pages

MCSpec == MCInit /\ [][MCNext]_<<vars, disturbances, pages>>
=============================================================================
