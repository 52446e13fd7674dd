------------------------- MODULE MCCredentialChain --------------------------
(***************************************************************************)
(* CredentialChain, instantiated for TLC.                                  *)
(***************************************************************************)
EXTENDS CredentialChain

CONSTANTS r1, r2, r3, nobody

MCRequests == {r1, r2, r3}
=============================================================================
