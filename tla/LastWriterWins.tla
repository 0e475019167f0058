--------------------------- MODULE LastWriterWins ---------------------------
(***************************************************************************)
(* What the history promises the two transports about one device: the      *)
(* version of an item only ever moves up in the order of versions, and a   *)
(* deletion is never forgotten.  A live item may be dropped by the         *)
(* retention sweeps, which is local housekeeping.                          *)
(*                                                                         *)
(* `exposed` are the items whose next write was decided from a row that    *)
(* has changed since; the code leaves such writes unprotected on one path, *)
(* and nothing is promised about them.                                     *)
(***************************************************************************)
EXTENDS VersionOrder

CONSTANT Ids

VARIABLES version, exposed

NoVersion == [at |-> 0, hash |-> 0, deleted |-> FALSE, origin |-> 0]

Init == version = [id \in Ids |-> NoVersion] /\ exposed = {}

\* Any number of items move up, stay, or are dropped when they are live.
Next ==
    \A id \in Ids \ exposed :
        \/ version'[id] = version[id]
        \/ Newer(version'[id], version[id])
        \/ version'[id] = NoVersion /\ ~version[id].deleted

Spec == Init /\ [][Next]_<<version, exposed>>
=============================================================================
