--------------------------- MODULE MCUploadFloor ---------------------------
(***************************************************************************)
(* UploadFloor for TLC: the writers, the clients that toggle readability   *)
(* and the faults share a bounded budget, so that every interleaving of a  *)
(* few disturbances with any number of rounds is explored.                 *)
(***************************************************************************)
EXTENDS UploadFloor

CONSTANT MaxDisturbances

VARIABLES
    disturbances,
    growing         \* nothing but new rows that do not open has disturbed so far

budget == <<disturbances, growing>>
mcVars == <<vars, budget>>

MCSize == [i \in Rows |-> 1]

MCInit == Init /\ disturbances = 0 /\ growing = TRUE

MCRound == Round /\ UNCHANGED budget
MCNotes == Notes /\ UNCHANGED budget

MCNext ==
    \/ MCRound
    \/ MCNotes
    \/ ~signedIn /\ Accounts /\ UNCHANGED budget
    \/ /\ disturbances < MaxDisturbances
       /\ disturbances' = disturbances + 1
       /\ Writers \/ Environment \/ Accounts
       /\ growing' = (growing /\ present # present' /\ present \subseteq present'
                              /\ readable' \cap (present' \ present) = {})

MCSpec == MCInit /\ [][MCNext]_mcVars

\* The module's loop always arms the next round (modules/supabase/src/lib.rs,
\* run), a writer that has written goes on to its note, and the wall clock in
\* the end passes every stamp.  A step of the round is always possible while
\* an account is present, so the first conjunct is the weak fairness of
\* MCRound, written without ENABLED, which is costly on the scan.
MCFairness ==
    /\ []<>(~signedIn) \/ []<><<MCRound>>_mcVars
    /\ WF_mcVars(MCNotes)
    /\ SF_mcVars(BeginRound(MaxMs) /\ UNCHANGED budget)

MCFairSpec == MCSpec /\ MCFairness

\* The record never reports more rows than fail to open, between cycles, in a
\* history that only grows, with the rows that do not open among them.
CountIsExact == growing => CompletedCycleIsExact
=============================================================================
