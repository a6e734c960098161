----------------------------- MODULE MCBackfill -----------------------------
(* Backfill for TLC: two servers, given as model values by the cfg files.    *)
EXTENDS Backfill

=============================================================================
