---------------------------- MODULE MCCloudTable ----------------------------
(***************************************************************************)
(* CloudTable for TLC: writes, deliveries, failures, unreadable rows and   *)
(* purges share a budget, and rows that are not stored as they are have    *)
(* one of their own; rounds do not count.                                  *)
(***************************************************************************)
EXTENDS CloudTable

CONSTANTS MaxDisturbances, MaxExceptions,
    First           \* the device of the first disturbance, if it is a device's

VARIABLES disturbances, exceptions

budgets == <<disturbances, exceptions>>
mcVars == <<vars, budgets>>

MCInit == Init /\ disturbances = 0 /\ exceptions = 0

\* The devices are alike, so the first disturbance of one may be taken to be the
\* first device's.
FirstIsFirst ==
    disturbances = 0 => \A e \in Devices \ {First} :
        held'[e] = held[e] /\ unsent'[e] = unsent[e] /\ round'[e] = round[e]

MCNext ==
    \/ ((\E d \in Devices : RoundStep(d)) \/ Tick) /\ UNCHANGED budgets
    \/ /\ disturbances < MaxDisturbances
       /\ disturbances' = disturbances + 1
       /\ Disturbance /\ FirstIsFirst
       /\ UNCHANGED exceptions
    \/ /\ exceptions < MaxExceptions
       /\ exceptions' = exceptions + 1
       /\ \E d \in Devices : Exception(d)
       /\ UNCHANGED disturbances

MCSpec == MCInit /\ [][MCNext]_mcVars
MCFairSpec == MCSpec /\ Fairness
=============================================================================
