-------------------------- MODULE MCToneQueueHistory --------------------------
(***************************************************************************)
(* The tone queue with its histories, for TLC.                             *)
(***************************************************************************)
EXTENDS ToneQueueHistory

CONSTANTS dot, carrier

MCTones == { [payload |-> dot,     is_forever |-> FALSE, is_first |-> TRUE],
             [payload |-> carrier, is_forever |-> TRUE,  is_first |-> FALSE] }
=============================================================================
