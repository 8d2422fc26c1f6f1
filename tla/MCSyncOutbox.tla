---------------------------- MODULE MCSyncOutbox ----------------------------
(***************************************************************************)
(* Instance of SyncOutbox for TLC, in the proportions of the code: an      *)
(* envelope lives for a few retry delays, the longest delay exceeds its    *)
(* life, and a run may bring more than half of what the outbox holds.      *)
(***************************************************************************)
EXTENDS SyncOutbox, TLC

MCRetryAfters == {2}
=============================================================================
