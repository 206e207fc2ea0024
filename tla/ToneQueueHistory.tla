--------------------------- MODULE ToneQueueHistory ---------------------------
(***************************************************************************)
(* The tone queue with two history variables, for what its documentation   *)
(* promises over several steps: a low water callback before the queue runs *)
(* dry, and a wait that lasts as long as the tone being generated.  The    *)
(* code has no counterpart of either variable.                             *)
(***************************************************************************)
EXTENDS ToneQueue

VARIABLES
    armed,   \* a callback is due when the dequeued tones take the length to the mark
    heard    \* heard[t]: what became of the tone that was generated when t began to wait

historyVars == <<vars, armed, heard>>

(* A mark of zero is documented not to work; nothing is expected of it.   *)
Above(n) == low_water_callback' # NULL /\ 0 < low_water_mark' /\ low_water_mark' < n

DequeueNoted ==
    /\ Dequeue
    /\ armed' = (armed /\ deq' # "call")
    /\ heard' = [t \in Clients |-> "over"]

CallbackNoted ==
    /\ CallLowWaterCallback \/ LowWaterCallbackReturns
    /\ UNCHANGED <<armed, heard>>

EnqueueNoted(t) ==
    /\ \E new \in Tones : Enqueue(t, new)
    /\ armed' = (armed \/ Above(len'))
    /\ UNCHANGED heard

(* A flush makes the queue empty "without calling low water mark callback". *)
MakeEmptyNoted(t) ==
    /\ MakeEmpty(t)
    /\ armed' = FALSE
    /\ heard' = [c \in Clients |-> IF heard[c] = "playing" THEN "flushed" ELSE heard[c]]

RemovalNoted(t) == RemoveLastCharacter(t) /\ UNCHANGED <<armed, heard>>

(* A registration is in force from its last assignment on.                 *)
RegistrationNoted(t) ==
    /\ Registration(t)
    /\ armed' = (call'[t].op = "none" /\ Above(len))
    /\ UNCHANGED heard

WaitNoted(t) ==
    /\ Wait(t)
    /\ heard' = IF call[t].op = "none"
                THEN [heard EXCEPT ![t] = IF generating THEN "playing" ELSE "over"]
                ELSE heard
    /\ UNCHANGED armed

HistoryInit == Init /\ armed = FALSE /\ heard = [t \in Clients |-> "over"]

(* A sending application: it does not take characters back.                *)
SendingNext ==
    \/ DequeueNoted
    \/ CallbackNoted
    \/ \E t \in Threads : EnqueueNoted(t) \/ MakeEmptyNoted(t) \/ RegistrationNoted(t)
    \/ \E t \in Clients : WaitNoted(t)

SendingSpec == HistoryInit /\ [][SendingNext]_historyVars

(* An application with a backspace key as well.                            *)
EditingNext == SendingNext \/ \E t \in Threads : RemovalNoted(t)

EditingSpec == HistoryInit /\ [][EditingNext]_historyVars

-----------------------------------------------------------------------------
(* The queue never runs dry from above the low water mark unless the       *)
(* callback has been called on the way, so an application that refills the *)
(* queue in the callback is never late; the mark, the callback and the     *)
(* length are changed by different threads.                                *)
CalledBeforeDry == armed => state # "EMPTY"

Returns(t) == call[t].op = "tone" /\ call'[t].op = "none"

(* A wait for the end of the current tone does not return while the tone   *)
(* that was being generated when it began still is, unless the queue was   *)
(* flushed; the two conditions of the loop look only at head and state.    *)
ToneWaitLastsOrFlushed ==
    [][\A t \in Clients : Returns(t) => heard[t] # "playing"]_historyVars

(* A wait for the end of the current tone returns when that tone is over   *)
(* ("Wait for the current tone to complete"), with no exception.           *)
ToneWaitLasts ==
    [][\A t \in Clients : Returns(t) => heard[t] = "over"]_historyVars

(* The callback gets the argument it was registered with.                  *)
CallbackGetsItsArgument == called[1] = called[2]

(* Registering NULL disables the mechanism: NULL is never called.          *)
NullIsNotCalled == deq = "callback" => called[1] # NULL
=============================================================================
