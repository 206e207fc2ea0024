------------------------------ MODULE ToneQueue ------------------------------
(***************************************************************************)
(* The tone queue of libcw (libcw_tq.c): a ring buffer of tones, guarded   *)
(* by wait_mutex and announced through the condition variable wait_var.    *)
(* Client threads enqueue, flush, remove and wait; the generator thread    *)
(* dequeues, and calls the low water callback after it has unlocked the    *)
(* mutex.  A function that holds the mutex from its first read to its last *)
(* write is one action; a wait is split where pthread_cond_wait() releases *)
(* the mutex; what runs without the mutex (the call of the callback, the   *)
(* three assignments that register it) is split at every shared access.    *)
(*                                                                         *)
(* A call that the code refuses (EINVAL, EAGAIN), or a wait that has       *)
(* nothing to wait for, changes nothing and is a stuttering step.          *)
(***************************************************************************)
EXTENDS Integers, Sequences

CONSTANTS
    Capacity,    \* tq->capacity
    Payloads,    \* what tells one tone from another: frequency, duration, slopes
    Tones,       \* the tones clients enqueue
    Clients,     \* threads of client code
    Gen,         \* the generator thread, the only one that dequeues
    Callbacks,   \* low water callbacks; each is registered with an argument of its own
    NULL

Tone == [payload : Payloads \union {NULL}, is_forever : BOOLEAN, is_first : BOOLEAN]

(* Memory from calloc(): no tone that anyone has enqueued.                 *)
Blank == [payload |-> NULL, is_forever |-> FALSE, is_first |-> FALSE]

ASSUME CapacityAssumption == Capacity \in Nat \ {0}
ASSUME TonesAssumption == Tones \subseteq Tone
ASSUME ThreadsAssumption == Gen \notin Clients
ASSUME CallbacksAssumption == NULL \notin Callbacks

Threads == Clients \union {Gen}
Index == 0..(Capacity - 1)
Funcs == Callbacks \union {NULL}

VARIABLES
    queue, head, tail, len,
    state,                    \* "EMPTY", "JUST_EMPTIED" or "NONEMPTY"
    low_water_mark, low_water_callback, low_water_callback_arg,
    waiters,                  \* the threads asleep on wait_var
    call,                     \* call[t]: the queue function thread t is inside of
    deq,                      \* where the generator thread is in cw_tq_dequeue_internal()
    called,                   \* the function and the argument of the callback being run
    tone,                     \* the tone last dequeued: the generator's own copy
    generating                \* TRUE until the generator comes back for another tone

ring == <<queue, head, tail, len, state>>
lowWater == <<low_water_mark, low_water_callback, low_water_callback_arg>>
dequeuer == <<deq, called, tone, generating>>
vars == <<ring, lowWater, waiters, call, dequeuer>>

(* The function a thread is inside of.  bound is the level or the head     *)
(* index a wait compares with, func the callback being registered.         *)
Ops == {"none", "level", "tone", "set_func", "set_arg"}
Calls == [op : Ops, bound : Nat, func : Funcs]
NoCall == [op |-> "none", bound |-> 0, func |-> NULL]

TypeOK ==
    /\ queue \in [Index -> Tone]
    /\ head \in Index /\ tail \in Index /\ len \in 0..Capacity
    /\ state \in {"EMPTY", "JUST_EMPTIED", "NONEMPTY"}
    /\ low_water_mark \in Index
    /\ low_water_callback \in Funcs /\ low_water_callback_arg \in Funcs
    /\ waiters \subseteq Clients
    /\ call \in [Threads -> Calls]
    /\ deq \in {"ready", "call", "callback"}
    /\ called \in Funcs \X Funcs
    /\ tone \in Tone
    /\ generating \in BOOLEAN

Init ==
    /\ queue = [i \in Index |-> Blank]
    /\ head = 0 /\ tail = 0 /\ len = 0
    /\ state = "EMPTY"
    /\ low_water_mark = 0
    /\ low_water_callback = NULL /\ low_water_callback_arg = NULL
    /\ waiters = {}
    /\ call = [t \in Threads |-> NoCall]
    /\ deq = "ready" /\ called = <<NULL, NULL>>
    /\ tone = Blank /\ generating = FALSE

-----------------------------------------------------------------------------
(* Indices of the ring.                                                    *)

(* Mutant: the index runs past the end of the array.                       *)
NextIndexUnwrapped(ind) == ind + 1

NextIndex(ind) == IF ind = Capacity - 1 THEN 0 ELSE ind + 1

(* cw_tq_prev_index_internal() taken k times.                              *)
StepsBack(ind, k) == IF k <= ind THEN ind - k ELSE ind + Capacity - k

(* The slot of the i-th tone of the queue, the one at head being the 0th.  *)
Slot(i) == IF head + i < Capacity THEN head + i ELSE head + i - Capacity

(* Mutant: pthread_cond_signal() in place of pthread_cond_broadcast().     *)
SignalOne ==
    IF waiters = {} THEN waiters' = {} ELSE \E t \in waiters : waiters' = waiters \ {t}

Broadcast == waiters' = {}

(* Thread t is free to call a function of the queue: the generator thread  *)
(* calls them only from within the low water callback.                     *)
Free(t) == call[t].op = "none" /\ (t = Gen => deq = "callback")

-----------------------------------------------------------------------------
(* Functions that change the ring, each under wait_mutex.                  *)

Enqueue(t, new) ==
    /\ Free(t)
    /\ len # Capacity
    /\ queue' = [queue EXCEPT ![tail] = new]
    /\ tail' = NextIndex(tail)
    /\ len' = len + 1
    /\ state' = "NONEMPTY"
    /\ Broadcast
    /\ UNCHANGED <<head, lowWater, call, dequeuer>>

EmptyRing ==
    /\ head' = 0 /\ tail' = 0 /\ len' = 0
    /\ state' = "EMPTY"
    /\ IF len > 0 \/ state # "EMPTY" THEN Broadcast ELSE UNCHANGED waiters
    /\ UNCHANGED <<queue, lowWater, call, dequeuer>>

MakeEmpty(t) == Free(t) /\ EmptyRing

(* k tones from the end is the first tone of the last character.           *)
LastCharacterLength(k) ==
    /\ queue[StepsBack(tail, k)].is_first
    /\ \A j \in 1..(k - 1) : ~queue[StepsBack(tail, j)].is_first

(* Mutant: a queue that lost its only character is still NONEMPTY.         *)
RemoveLastCharacterKeepsState(t) ==
    /\ Free(t)
    /\ \E k \in 1..len :
          /\ LastCharacterLength(k)
          /\ len' = len - k
          /\ tail' = StepsBack(tail, k)
    /\ UNCHANGED <<queue, head, state, lowWater, waiters, call, dequeuer>>

(* Nobody is told: there is no broadcast here.                             *)
RemoveLastCharacter(t) ==
    /\ Free(t)
    /\ \E k \in 1..len :
          /\ LastCharacterLength(k)
          /\ len' = len - k
          /\ tail' = StepsBack(tail, k)
          /\ state' = IF k = len THEN "JUST_EMPTIED" ELSE state
    /\ UNCHANGED <<queue, head, lowWater, waiters, call, dequeuer>>

-----------------------------------------------------------------------------
(* cw_tq_dequeue_internal(), called by the generator thread.               *)

DequeueNothing ==
    /\ deq = "ready"
    /\ state = "EMPTY"
    /\ generating' = FALSE
    /\ UNCHANGED <<ring, lowWater, waiters, call, deq, called, tone>>

DequeueLastEnded ==
    /\ deq = "ready"
    /\ state = "JUST_EMPTIED"
    /\ state' = "EMPTY"
    /\ generating' = FALSE
    /\ Broadcast
    /\ UNCHANGED <<queue, head, tail, len, lowWater, call, deq, called, tone>>

(* Mutant: a "forever" tone stays whatever comes after it.                 *)
IsKeptAlways == queue[head].is_forever

IsKept == queue[head].is_forever /\ len = 1

(* A "forever" tone that is alone stays in the queue.                      *)
DequeueForever ==
    /\ deq = "ready"
    /\ state = "NONEMPTY"
    /\ IsKept
    /\ tone' = queue[head]
    /\ generating' = TRUE
    /\ UNCHANGED <<ring, lowWater, waiters, call, deq, called>>

(* Mutant: the length after the dequeue has to be below the mark.          *)
PassesBelowLowWaterMark ==
    /\ low_water_callback # NULL
    /\ len > low_water_mark
    /\ len - 1 < low_water_mark

PassesLowWaterMark ==
    /\ low_water_callback # NULL
    /\ len > low_water_mark
    /\ len - 1 <= low_water_mark

DequeueTone ==
    /\ deq = "ready"
    /\ state = "NONEMPTY"
    /\ ~IsKept
    /\ tone' = queue[head]
    /\ generating' = TRUE
    /\ head' = NextIndex(head)
    /\ len' = len - 1
    /\ state' = IF len = 1 THEN "JUST_EMPTIED" ELSE state
    /\ Broadcast
    /\ deq' = IF PassesLowWaterMark THEN "call" ELSE deq
    /\ UNCHANGED <<queue, tail, lowWater, call, called>>

Dequeue == DequeueNothing \/ DequeueLastEnded \/ DequeueForever \/ DequeueTone

(* The mutex is unlocked: the function and its argument are read again.    *)
CallLowWaterCallback ==
    /\ deq = "call"
    /\ deq' = "callback"
    /\ called' = <<low_water_callback, low_water_callback_arg>>
    /\ UNCHANGED <<ring, lowWater, waiters, call, tone, generating>>

LowWaterCallbackReturns ==
    /\ deq = "callback"
    /\ call[Gen].op = "none"
    /\ deq' = "ready"
    /\ called' = <<NULL, NULL>>
    /\ UNCHANGED <<ring, lowWater, waiters, call, tone, generating>>

-----------------------------------------------------------------------------
(* Registration of the low water callback: three assignments, no mutex.    *)

RegisterLevel(t, func, level) ==
    /\ Free(t)
    /\ level < Capacity
    /\ low_water_mark' = level
    /\ call' = [call EXCEPT ![t] = [op |-> "set_func", bound |-> 0, func |-> func]]
    /\ UNCHANGED <<ring, low_water_callback, low_water_callback_arg, waiters, dequeuer>>

RegisterFunc(t) ==
    /\ call[t].op = "set_func"
    /\ low_water_callback' = call[t].func
    /\ call' = [call EXCEPT ![t].op = "set_arg"]
    /\ UNCHANGED <<ring, low_water_mark, low_water_callback_arg, waiters, dequeuer>>

RegisterArg(t) ==
    /\ call[t].op = "set_arg"
    /\ low_water_callback_arg' = call[t].func
    /\ call' = [call EXCEPT ![t] = NoCall]
    /\ UNCHANGED <<ring, low_water_mark, low_water_callback, waiters, dequeuer>>

-----------------------------------------------------------------------------
(* The two waits of client threads.                                        *)

(* Mutant: a queue that has just been emptied is taken for an empty one.   *)
BlockedUntilLastDequeued(t) ==
    \/ call[t].op = "level" /\ len > call[t].bound
    \/ call[t].op = "tone" /\ head = call[t].bound /\ state = "NONEMPTY"

(* The condition of the while loop around pthread_cond_wait().             *)
Blocked(t) ==
    \/ call[t].op = "level" /\ len > call[t].bound
    \/ call[t].op = "tone" /\ head = call[t].bound /\ state # "EMPTY"

WaitForLevel(t, level) ==
    /\ Free(t)
    /\ len > level
    /\ call' = [call EXCEPT ![t] = [op |-> "level", bound |-> level, func |-> NULL]]
    /\ waiters' = waiters \union {t}
    /\ UNCHANGED <<ring, lowWater, dequeuer>>

WaitForEndOfCurrentTone(t) ==
    /\ Free(t)
    /\ state # "EMPTY"
    /\ call' = [call EXCEPT ![t] = [op |-> "tone", bound |-> head, func |-> NULL]]
    /\ waiters' = waiters \union {t}
    /\ UNCHANGED <<ring, lowWater, dequeuer>>

Awake(t) == call[t].op \in {"level", "tone"} /\ t \notin waiters

WaitGoesOn(t) ==
    /\ Awake(t)
    /\ Blocked(t)
    /\ waiters' = waiters \union {t}
    /\ UNCHANGED <<ring, lowWater, call, dequeuer>>

WaitReturns(t) ==
    /\ Awake(t)
    /\ ~Blocked(t)
    /\ call' = [call EXCEPT ![t] = NoCall]
    /\ UNCHANGED <<ring, lowWater, waiters, dequeuer>>

SpuriousWakeup(t) ==
    /\ t \in waiters
    /\ waiters' = waiters \ {t}
    /\ UNCHANGED <<ring, lowWater, call, dequeuer>>

-----------------------------------------------------------------------------
Generator == Dequeue \/ CallLowWaterCallback \/ LowWaterCallbackReturns

RingOperation(t) ==
    \/ \E new \in Tones : Enqueue(t, new)
    \/ MakeEmpty(t)
    \/ RemoveLastCharacter(t)

Registration(t) ==
    \/ \E func \in Funcs, level \in Index : RegisterLevel(t, func, level)
    \/ RegisterFunc(t)
    \/ RegisterArg(t)

Wait(t) ==
    \/ \E level \in 0..Capacity : WaitForLevel(t, level)
    \/ WaitForEndOfCurrentTone(t)
    \/ WaitGoesOn(t)
    \/ WaitReturns(t)
    \/ SpuriousWakeup(t)

Next ==
    \/ Generator
    \/ \E t \in Threads : RingOperation(t) \/ Registration(t)
    \/ \E t \in Clients : Wait(t)

Spec == Init /\ [][Next]_vars

-----------------------------------------------------------------------------
(* Safety.                                                                 *)

(* Head, tail and length describe one window of the ring, and the state    *)
(* tells an empty window from one that holds tones.  The assertions of     *)
(* cw_tq_dequeue_internal() (a NONEMPTY queue has tones) and of            *)
(* cw_tq_dequeue_sub_internal() (head meets tail when the last tone is     *)
(* gone) follow; a flush, a removal and a wrap of an index all go through. *)
RingConsistent ==
    /\ tail = Slot(len)
    /\ state = "NONEMPTY" <=> len > 0

(* No thread is left asleep for good: while anyone sleeps on wait_var the  *)
(* queue is not EMPTY, so the generator has yet to change it and to        *)
(* broadcast.  cw_tq_remove_last_character_internal() satisfies waiters    *)
(* without a broadcast and relies on exactly this.                         *)
SleepersWillBeWoken == state = "EMPTY" => waiters = {}

(* A thread asleep whose wait is already over is one that only a removal   *)
(* of the last character has released: its level has been reached, and the *)
(* tones it waited for have not been dequeued.  A wait for the end of a    *)
(* tone is never released silently.                                        *)
ToneWaitersAreTold == \A t \in waiters : call[t].op = "tone" => Blocked(t)

(* Every critical section leaves a ring that the next one can rely on.     *)
RingIsSound == TypeOK /\ RingConsistent

(* No wait sleeps through the event that ends it, whatever ends it: a      *)
(* dequeue, a flush or a removal that wakes nobody.                        *)
NobodySleepsThrough == SleepersWillBeWoken /\ ToneWaitersAreTold

-----------------------------------------------------------------------------
(* What the ring stands for.                                               *)

(* What the window of the ring holds, oldest tone first.                   *)
Contents == [i \in 1..len |-> queue[Slot(i - 1)]]

Fifo == INSTANCE ToneFifo
            WITH items <- Contents, current <- tone, generating <- generating

(* The ring implements a first-in first-out queue, whatever the threads do *)
(* between the critical sections: what comes out is what went in, in that  *)
(* order, across wraps of the indices, flushes and removals.               *)
RingIsFifo == Fifo!Spec
=============================================================================
