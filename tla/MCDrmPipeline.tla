--------------------------- MODULE MCDrmPipeline ---------------------------
(***************************************************************************)
(* DrmPipeline for TLC.                                                    *)
(***************************************************************************)
EXTENDS DrmPipeline, TLC

Symmetry == Permutations(Buffers)
=============================================================================
