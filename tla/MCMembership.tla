--------------------------- MODULE MCMembership -----------------------------
(***************************************************************************)
(* Membership for TLC: removals and faults are counted.                    *)
(***************************************************************************)
EXTENDS Membership, TLC

CONSTANTS MaxCuts, MaxFaults

VARIABLES cuts, faults

mcVars == <<vars, cuts, faults>>

MCInit == Init /\ cuts = 0 /\ faults = 0

MCNext ==
    \/ /\ cuts < MaxCuts /\ cuts' = cuts + 1 /\ UNCHANGED faults
       /\ \E d, x \in Devices : d # x /\ Cut(d, x)
    \/ /\ faults < MaxFaults /\ faults' = faults + 1 /\ UNCHANGED cuts
       /\ \E d \in Devices : Fault(d)
    \/ /\ \/ \E d, x \in Devices : d # x /\ Pair(d, x)
          \/ \E d \in Devices : Ceremony(d) \/ CloudRound(d)
          \/ Exchange
       /\ UNCHANGED <<cuts, faults>>

MCSpec == MCInit /\ [][MCNext]_mcVars

\* Everyone has read the others, or all but one device have.
EveryoneRead == {{}}
Settling == {{}} \union {{d} : d \in Devices}
Symmetry == Permutations(Devices)

\* For a run none of whose properties speaks of `declined`, which no action reads.
WithoutDeclined ==
    <<mem, disk, side, ceremonies, acks, session, cloud, downloaded, outgoing, unconfirmed,
      cuts, faults>>
=============================================================================
