--------------------------- MODULE MCVideoTunnel ---------------------------
(***************************************************************************)
(* VideoTunnel for TLC.                                                    *)
(***************************************************************************)
EXTENDS VideoTunnel, TLC

Symmetry == Permutations(Buffers)
=============================================================================
