-------------------------- MODULE MCDiscoveryPolicy --------------------------
(* Small instances of DiscoveryPolicy for TLC.                             *)
EXTENDS DiscoveryPolicy, TLC

CONSTANTS i1, i2, i3, o1, r1, r2, r3, r4

=============================================================================
