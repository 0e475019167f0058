---------------------------- MODULE VersionOrder ----------------------------
(***************************************************************************)
(* Which of two versions of one item survives                              *)
(* (crates/copypaste-p2p/src/sync/merge.rs).  A version is the metadata    *)
(* that is compared: its stamp `at`, the hash of its content, whether it   *)
(* is a tombstone, and the device it comes from.  Hashes and devices are   *)
(* numbered in the order of their strings.                                 *)
(***************************************************************************)
EXTENDS Integers

\* Booleans are compared with FALSE before TRUE.
Bit(b) == IF b THEN 1 ELSE 0

\* The four keys, the first that differs decides; equal versions keep the
\* local copy, so the relation is strict.
Newer(remote, local) ==
    \/ remote.at > local.at
    \/ /\ remote.at = local.at
       /\ \/ remote.hash > local.hash
          \/ /\ remote.hash = local.hash
             /\ \/ Bit(remote.deleted) > Bit(local.deleted)
                \/ /\ remote.deleted = local.deleted
                   /\ remote.origin > local.origin

\* The separate order of pin states: stamp, device of the version that carries
\* it, the state itself.  The position among the pins is left out.
PinNewer(remote, local) ==
    \/ remote.pinAt > local.pinAt
    \/ /\ remote.pinAt = local.pinAt
       /\ \/ remote.origin > local.origin
          \/ remote.origin = local.origin /\ Bit(remote.pinned) > Bit(local.pinned)
=============================================================================
