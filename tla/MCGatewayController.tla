------------------------ MODULE MCGatewayController ------------------------
(***************************************************************************)
(* Instance of GatewayController for TLC.  Two keys, so that a device can  *)
(* be paired again under a new key; two runs, so that one finds what the   *)
(* other left in the outbox; two chunks, so that a run can be fenced       *)
(* between two envelopes.                                                  *)
(***************************************************************************)
EXTENDS GatewayController, TLC

CONSTANTS k1, k2
MCKeys == {k1, k2}
=============================================================================
