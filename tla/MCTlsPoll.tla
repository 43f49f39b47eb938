----------------------------- MODULE MCTlsPoll -----------------------------
(***************************************************************************)
(* TlsPoll for TLC.                                                        *)
(***************************************************************************)
EXTENDS TlsPoll, TLC

Symmetry == Permutations(Waiters) \cup Permutations(Flushers)
=============================================================================
