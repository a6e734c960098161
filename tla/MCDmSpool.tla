------------------------------ MODULE MCDmSpool -----------------------------
(* DmSpool for TLC.                                                            *)
EXTENDS DmSpool

=============================================================================
