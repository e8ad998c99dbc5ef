--------------------------- MODULE MCRateSampler ---------------------------
(***************************************************************************)
(* RateSampler for TLC: the disk alone.                                    *)
(***************************************************************************)
EXTENDS RateSampler

DiskOnly == {{"disk"}}
=============================================================================
