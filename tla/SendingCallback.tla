---------------------------- MODULE SendingCallback ----------------------------
(***************************************************************************)
(* Sending, by a client that waits for the low water callback after each   *)
(* space between words.                                                    *)
(***************************************************************************)
EXTENDS Sending

CONSTANT LowWaterMark

VARIABLE unnoticed   \* a space has been sent, and the callback has not been called since

callbackVars == <<vars, unnoticed>>

CallbackInit == Init /\ unnoticed = FALSE

SpaceIsSent == SendSpace /\ ~unnoticed /\ unnoticed' = TRUE

CharacterIsSent ==
    /\ \E r \in Representations : SendCharacter(r, <<"ics">>)
    /\ ~unnoticed
    /\ UNCHANGED unnoticed

ToneIsSent == (Enqueue \/ EnqueueFails) /\ unnoticed' = (unnoticed /\ Len(items) < Capacity)

(* cw_tq_dequeue_sub_internal(), which tells whether to call the callback. *)
PassesLowWaterMark == Len(items) > LowWaterMark /\ Len(items') =< LowWaterMark

TonePlays == Dequeue /\ unnoticed' = (unnoticed /\ ~PassesLowWaterMark)

CallbackSpec ==
    /\ CallbackInit
    /\ [][SpaceIsSent \/ CharacterIsSent \/ ToneIsSent \/ TonePlays]_callbackVars

(* libcw_gen.c:2412, "client applications that rely on low level threshold *)
(* == 1 can correctly work when enqueueing spaces": no space is played to  *)
(* its end without a call of the callback.                                 *)
SpaceIsNoticed == ~(unnoticed /\ steps = <<>> /\ items = <<>>)

-----------------------------------------------------------------------------
(* Values of constants for TLC: an E and an A, and the parameters of a new *)
(* generator.                                                              *)
Characters == { <<"dot">>, <<"dot", "dash">> }
InitialParameters == [speed |-> 12, weighting |-> 50, gap |-> 0]
=============================================================================
