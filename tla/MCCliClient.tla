------------------------------ MODULE MCCliClient ------------------------------
(* Instances of CliClient for TLC. *)
EXTENDS CliClient

CONSTANTS r1, r2, r3

ThreeRequests == {r1, r2, r3}
TwoClis == {r1, r2}
=============================================================================
