---------------------------- MODULE MCPeerRelay ----------------------------
(***************************************************************************)
(* PeerRelay for TLC: a bounded number of writes, of failures and of       *)
(* sessions open at once, with any number of sessions in all.              *)
(***************************************************************************)
EXTENDS PeerRelay, TLC

CONSTANTS MaxWrites, MaxFailures, MaxOpen, Meetings

VARIABLES writes, failures

mcVars == <<vars, writes, failures>>

MCInit == Init /\ writes = 0 /\ failures = 0

Open == {k \in Pairs : session[k] # NoSession}

MCExchange ==
    /\ Exchange
    /\ Cardinality(Open') <= MaxOpen /\ Open' \subseteq Meetings
    /\ UNCHANGED <<writes, failures>>

MCNext ==
    \/ MCExchange
    \/ Notes /\ UNCHANGED <<writes, failures>>
    \/ TimePasses /\ UNCHANGED <<writes, failures>>
    \/ writes < MaxWrites /\ writes' = writes + 1 /\ Writers /\ UNCHANGED failures
    \/ failures < MaxFailures /\ failures' = failures + 1 /\ Failures /\ UNCHANGED writes

MCSpec == MCInit /\ [][MCNext]_mcVars

\* Anyone may dial anyone.
AllMeet == Pairs

\* Three devices, of which the first and the last never meet: the last has to
\* hear of the first one's row from the one in between.  The first two dial
\* each other, so that two sessions of one pair overlap.
CONSTANTS a, b, c
Chain == {<<a, b>>, <<b, a>>, <<b, c>>}
ChainInit ==
    /\ MCInit /\ horizon = MaxStamp
    /\ \A x \in Items : store[c][x] = 0
ChainSpec == ChainInit /\ [][MCNext]_mcVars

\* The scheduler polls its peers for ever (copypaste-sync peer_driver.rs), a
\* writer goes on to its note, a session that runs comes to an end, and time
\* passes.  Devices are assumed to be in reach of each other again and again.
MCFairness ==
    /\ WF_mcVars(MCExchange)
    /\ WF_mcVars(Notes /\ UNCHANGED <<writes, failures>>)
    /\ WF_mcVars(TimePasses /\ UNCHANGED <<writes, failures>>)
FairSpec == MCSpec /\ MCFairness

Symmetric == Permutations(Devices) \cup Permutations(Items)
SymmetricItems == Permutations(Items)
=============================================================================
