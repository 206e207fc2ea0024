----------------------------- MODULE MCGenerator -----------------------------
(***************************************************************************)
(* The generator for TLC.                                                  *)
(***************************************************************************)
EXTENDS Generator

CONSTANTS dot, carrier, hush

(* A mark, and the two "forever" tones of a straight key: one that sounds  *)
(* and one that is silent.                                                 *)
MCTones == { [payload |-> dot,     is_forever |-> FALSE, is_first |-> TRUE],
             [payload |-> carrier, is_forever |-> TRUE,  is_first |-> FALSE],
             [payload |-> hush,    is_forever |-> TRUE,  is_first |-> FALSE] }

MCQuantum == [payload |-> hush, is_forever |-> FALSE, is_first |-> FALSE]
=============================================================================
