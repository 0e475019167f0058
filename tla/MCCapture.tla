----------------------------- MODULE MCCapture -----------------------------
(***************************************************************************)
(* Capture for TLC: the users and the faults share bounded budgets.        *)
(***************************************************************************)
EXTENDS Capture

CONSTANTS MaxActs, MaxFailures

VARIABLES acts, failures

mcVars == <<vars, acts, failures>>
budgets == <<acts, failures>>

MCInit == Init /\ acts = 0 /\ failures = 0

MCLoop == Loop /\ UNCHANGED budgets
MCSettle == (Resume \/ Copy \/ Receive) /\ UNCHANGED budgets

\* Applications copy the first content; the clipboard may have any at the start,
\* and the daemon writes any.
MCApplications == Applications /\ board'.content = 1

\* With nothing pending, a change of the policy only moves the epoch, which is
\* compared with that of a pending capture and with nothing else.
PolicyMatters == private' = private /\ epoch' # epoch => slot # NoCapture

MCNext ==
    \/ MCLoop
    \/ MCSettle
    \/ MCApplications /\ UNCHANGED budgets
    \/ Clock /\ UNCHANGED budgets
    \/ acts < MaxActs /\ acts' = acts + 1 /\ Users /\ PolicyMatters /\ UNCHANGED failures
    \/ failures < MaxFailures /\ failures' = failures + 1 /\ Failures /\ UNCHANGED acts

MCSpec == MCInit /\ [][MCNext]_mcVars

\* The loop's timer or its permit comes, a blocking tick runs to its end, and
\* so do the steps of a settings change, of a copy and of a received clip that
\* have begun (each is one function call).
MCFairSpec ==
    /\ MCSpec
    /\ WF_mcVars(MCLoop)
    /\ WF_mcVars(Resume /\ UNCHANGED budgets)
    /\ WF_mcVars(Copy /\ UNCHANGED budgets)
    /\ WF_mcVars(Receive /\ UNCHANGED budgets)
=============================================================================
