----------------------------- MODULE MCToneQueue -----------------------------
(***************************************************************************)
(* The ring of the tone queue and the threads that wait on it, for TLC.    *)
(***************************************************************************)
EXTENDS ToneQueue

CONSTANTS dot, space, carrier

(* The first mark of a character, another tone of a character, and the     *)
(* "forever" tone of a straight key.                                       *)
MCTones == { [payload |-> dot,     is_forever |-> FALSE, is_first |-> TRUE],
             [payload |-> space,   is_forever |-> FALSE, is_first |-> FALSE],
             [payload |-> carrier, is_forever |-> TRUE,  is_first |-> FALSE] }

(* Threads wait and use the ring; nobody registers a callback.             *)
RingNext ==
    \/ Dequeue
    \/ \E t \in Clients : RingOperation(t) \/ Wait(t)

(* The generator thread loops for as long as it runs, and a thread that is *)
(* awake gets the mutex and the processor in the end; nothing else is      *)
(* fair: not a client's decision to call a function, not a spurious        *)
(* wakeup.                                                                 *)
Fairness ==
    /\ WF_vars(Dequeue)
    /\ \A t \in Clients : WF_vars(WaitGoesOn(t) \/ WaitReturns(t))

RingSpec == Init /\ [][RingNext]_vars /\ Fairness

(* The one tone of the queue is a "forever" tone, for which a wait is      *)
(* undecided: the tone is dequeued again and again.                         *)
Sustained == len = 1 /\ queue[head].is_forever

(* When the clients stop enqueueing, every wait for a level or for the end *)
(* of the current tone returns, or is left with a "forever" tone, although *)
(* a removal of a character wakes nobody: the generator's later broadcasts *)
(* make up for it.                                                         *)
EveryWaitReturns ==
    <>[][len' =< len]_vars =>
        \A t \in Clients : []<>(call[t].op = "none" \/ Sustained)
=============================================================================
