---------------------------- MODULE ToneQueueProofs ----------------------------
(***************************************************************************)
(* Theorems about the tone queue, for every capacity, every set of         *)
(* threads, tones and callbacks.                                           *)
(***************************************************************************)
EXTENDS ToneQueueHistory, SequenceTheorems, TLAPS

(* The inductive invariant: the types, the window of the ring, and that    *)
(* only a thread inside of a wait sleeps.                                  *)
SleepersWait == \A t \in waiters : call[t].op \in {"level", "tone"}

IInv ==
    /\ TypeOK
    /\ RingConsistent
    /\ SleepersWait
    /\ SleepersWillBeWoken
    /\ ToneWaitersAreTold

-----------------------------------------------------------------------------
(* Lemmas about the indices of the ring.                                   *)

(* The slot after the window moves on by one when a tone is enqueued.      *)
LEMMA NextIndexType == ASSUME NEW i \in Index PROVE NextIndex(i) \in Index
  BY CapacityAssumption DEF Index, NextIndex

(* Going back k tones from the end of a window that starts at h and holds  *)
(* n tones ends where a window of n - k tones ends: this is the arithmetic *)
(* of cw_tq_remove_last_character_internal().                              *)
LEMMA StepsBackSlot ==
    ASSUME NEW h \in Index, NEW n \in 0..Capacity, NEW k \in 1..n
    PROVE  LET end(m) == IF h + m < Capacity THEN h + m ELSE h + m - Capacity
           IN  /\ StepsBack(end(n), k) = end(n - k)
               /\ StepsBack(end(n), k) \in Index
  BY CapacityAssumption DEF Index, StepsBack

-----------------------------------------------------------------------------
(* Initially the queue is empty and nobody waits.                          *)
LEMMA InitIInv == Init => IInv
<1> SUFFICES ASSUME Init PROVE IInv
  OBVIOUS
<1>1. Blank \in Tone
  BY DEF Blank, Tone
<1>2. NoCall \in Calls /\ NULL \in Funcs
  BY DEF NoCall, Calls, Ops, Funcs
<1>3. 0 \in Index /\ 0 \in 0..Capacity
  BY CapacityAssumption DEF Index
<1>4. queue \in [Index -> Tone] /\ call \in [Threads -> Calls]
  BY <1>1, <1>2 DEF Init
<1>5. called \in Funcs \X Funcs
  BY <1>2 DEF Init
<1>6. TypeOK
  BY <1>1, <1>2, <1>3, <1>4, <1>5 DEF Init, TypeOK
<1>7. RingConsistent
  BY CapacityAssumption DEF Init, RingConsistent, Slot
<1>8. SleepersWait /\ SleepersWillBeWoken /\ ToneWaitersAreTold
  BY DEF Init, SleepersWait, SleepersWillBeWoken, ToneWaitersAreTold
<1> QED
  BY <1>6, <1>7, <1>8 DEF IInv

-----------------------------------------------------------------------------
(* Each action preserves the invariant.                                    *)

LEMMA EnqueueIInv ==
    ASSUME IInv, NEW t \in Threads, NEW new \in Tone, Enqueue(t, new)
    PROVE  IInv'
<1> USE DEF IInv, Enqueue, Broadcast, ring, lowWater, dequeuer
<1>1. NextIndex(tail) \in Index
  BY NextIndexType DEF TypeOK
<1>2. queue' \in [Index -> Tone] /\ len' \in 0..Capacity
  BY CapacityAssumption DEF TypeOK
<1>3. TypeOK'
  BY <1>1, <1>2 DEF TypeOK
<1>4. RingConsistent'
  BY CapacityAssumption DEF TypeOK, RingConsistent, Slot, NextIndex, Index
<1>5. SleepersWait' /\ SleepersWillBeWoken' /\ ToneWaitersAreTold'
  BY DEF SleepersWait, SleepersWillBeWoken, ToneWaitersAreTold
<1> QED
  BY <1>3, <1>4, <1>5

LEMMA EmptyRingIInv ==
    ASSUME IInv, EmptyRing
    PROVE  IInv'
<1> USE DEF IInv, EmptyRing, Broadcast, ring, lowWater, dequeuer
<1>1. TypeOK'
  BY CapacityAssumption DEF TypeOK, Index
<1>2. RingConsistent'
  BY CapacityAssumption DEF RingConsistent, Slot
<1>3. SleepersWait' /\ SleepersWillBeWoken' /\ ToneWaitersAreTold'
  BY DEF SleepersWait, SleepersWillBeWoken, ToneWaitersAreTold
<1> QED
  BY <1>1, <1>2, <1>3

(* A removal wakes nobody, so the sleepers have to be looked at: the queue *)
(* does not become EMPTY and head stays.                                   *)
LEMMA RemoveLastCharacterIInv ==
    ASSUME IInv, NEW t \in Threads, RemoveLastCharacter(t)
    PROVE  IInv'
<1> USE DEF IInv, ring, lowWater, dequeuer
<1>1. PICK k \in 1..len :
          /\ len' = len - k
          /\ tail' = StepsBack(tail, k)
          /\ state' = IF k = len THEN "JUST_EMPTIED" ELSE state
  BY DEF RemoveLastCharacter
<1>2. UNCHANGED <<queue, head, lowWater, waiters, call, dequeuer>>
  BY DEF RemoveLastCharacter
<1>3. /\ head \in Index /\ len \in 0..Capacity /\ len > 0
      /\ state = "NONEMPTY"
  BY <1>1 DEF TypeOK, RingConsistent
<1>4. /\ tail' = (IF head + (len - k) < Capacity
                  THEN head + (len - k) ELSE head + (len - k) - Capacity)
      /\ tail' \in Index
  BY <1>1, <1>3, StepsBackSlot DEF RingConsistent, Slot
<1>5. TypeOK'
  <2>1. len' \in 0..Capacity
    BY <1>1, <1>3, CapacityAssumption
  <2>2. state' \in {"EMPTY", "JUST_EMPTIED", "NONEMPTY"}
    BY <1>1, <1>3
  <2> QED
    BY <1>2, <1>4, <2>1, <2>2 DEF TypeOK
<1>6. RingConsistent'
  BY <1>1, <1>2, <1>3, <1>4 DEF RingConsistent, Slot
<1>7. state' # "EMPTY"
  BY <1>1, <1>3
<1>8. SleepersWait' /\ SleepersWillBeWoken'
  BY <1>2, <1>7 DEF SleepersWait, SleepersWillBeWoken
<1>9. ToneWaitersAreTold'
  BY <1>2, <1>3, <1>7 DEF ToneWaitersAreTold, Blocked
<1> QED
  BY <1>5, <1>6, <1>8, <1>9

LEMMA DequeueIInv ==
    ASSUME IInv, Dequeue
    PROVE  IInv'
<1> USE DEF IInv, Broadcast, ring, lowWater, dequeuer
<1>1. CASE DequeueNothing
  <2>1. TypeOK' /\ RingConsistent'
    BY <1>1 DEF DequeueNothing, TypeOK, RingConsistent, Slot
  <2>2. SleepersWait' /\ SleepersWillBeWoken' /\ ToneWaitersAreTold'
    BY <1>1 DEF DequeueNothing, SleepersWait, SleepersWillBeWoken, ToneWaitersAreTold, Blocked
  <2> QED
    BY <2>1, <2>2
<1>2. CASE DequeueLastEnded
  <2>1. TypeOK' /\ RingConsistent'
    BY <1>2 DEF DequeueLastEnded, TypeOK, RingConsistent, Slot
  <2>2. SleepersWait' /\ SleepersWillBeWoken' /\ ToneWaitersAreTold'
    BY <1>2 DEF DequeueLastEnded, SleepersWait, SleepersWillBeWoken, ToneWaitersAreTold
  <2> QED
    BY <2>1, <2>2
<1>3. CASE DequeueForever
  <2>1. TypeOK' /\ RingConsistent'
    BY <1>3 DEF DequeueForever, TypeOK, RingConsistent, Slot
  <2>2. SleepersWait' /\ SleepersWillBeWoken' /\ ToneWaitersAreTold'
    BY <1>3 DEF DequeueForever, SleepersWait, SleepersWillBeWoken, ToneWaitersAreTold, Blocked
  <2> QED
    BY <2>1, <2>2
<1>4. CASE DequeueTone
  <2>1. len > 0 /\ len \in 0..Capacity /\ head \in Index /\ tail \in Index
    BY <1>4 DEF DequeueTone, TypeOK, RingConsistent
  <2>2. NextIndex(head) \in Index
    BY <2>1, NextIndexType
  <2>3. TypeOK'
    <3>1. queue[head] \in Tone
      BY <2>1 DEF TypeOK
    <3>2. len' \in 0..Capacity
      BY <1>4, <2>1, CapacityAssumption DEF DequeueTone
    <3>3. /\ state' \in {"EMPTY", "JUST_EMPTIED", "NONEMPTY"}
          /\ deq' \in {"ready", "call", "callback"}
      BY <1>4 DEF DequeueTone, TypeOK
    <3> QED
      BY <1>4, <2>2, <3>1, <3>2, <3>3 DEF DequeueTone, TypeOK
  <2>4. RingConsistent'
    BY <1>4, <2>1, CapacityAssumption DEF DequeueTone, RingConsistent, Slot, NextIndex, Index
  <2>5. SleepersWait' /\ SleepersWillBeWoken' /\ ToneWaitersAreTold'
    BY <1>4 DEF DequeueTone, SleepersWait, SleepersWillBeWoken, ToneWaitersAreTold
  <2> QED
    BY <2>3, <2>4, <2>5
<1> QED
  BY <1>1, <1>2, <1>3, <1>4 DEF Dequeue

(* The callback and its registration touch neither ring nor sleepers: a    *)
(* thread that registers is not asleep.                                    *)
LEMMA CallbackIInv ==
    ASSUME IInv, CallLowWaterCallback \/ LowWaterCallbackReturns
    PROVE  IInv'
<1> USE DEF IInv, CallLowWaterCallback, LowWaterCallbackReturns, ring, lowWater
<1>1. TypeOK'
  <2>1. called' \in Funcs \X Funcs
    BY DEF TypeOK, Funcs
  <2> QED
    BY <2>1 DEF TypeOK
<1>2. RingConsistent' /\ SleepersWait' /\ SleepersWillBeWoken' /\ ToneWaitersAreTold'
  BY DEF RingConsistent, Slot, SleepersWait, SleepersWillBeWoken, ToneWaitersAreTold, Blocked
<1> QED
  BY <1>1, <1>2

LEMMA RegistrationIInv ==
    ASSUME IInv, NEW t \in Threads, Registration(t)
    PROVE  IInv'
<1> USE DEF IInv, ring, dequeuer
<1>1. /\ UNCHANGED <<ring, waiters, dequeuer>>
      /\ call[t].op \notin {"level", "tone"}
      /\ \A u \in Threads \ {t} : call'[u] = call[u]
  BY DEF Registration, RegisterLevel, RegisterFunc, RegisterArg, Free, TypeOK
<1>2. t \notin waiters
  BY <1>1 DEF SleepersWait
<1>3. RingConsistent' /\ SleepersWait' /\ SleepersWillBeWoken' /\ ToneWaitersAreTold'
  <2>1. \A u \in waiters : call'[u] = call[u]
    BY <1>1, <1>2 DEF TypeOK, Threads
  <2> QED
    BY <1>1, <2>1
    DEF RingConsistent, Slot, SleepersWait, SleepersWillBeWoken, ToneWaitersAreTold, Blocked
<1>4. TypeOK'
  <2>1. CASE \E func \in Funcs, level \in Index : RegisterLevel(t, func, level)
    <3>1. PICK func \in Funcs, level \in Index : RegisterLevel(t, func, level)
      BY <2>1
    <3>2. [op |-> "set_func", bound |-> 0, func |-> func] \in Calls
      BY DEF Calls, Ops
    <3>3. call' \in [Threads -> Calls]
      BY <3>1, <3>2 DEF RegisterLevel, TypeOK
    <3> QED
      BY <3>1, <3>3 DEF RegisterLevel, TypeOK
  <2>2. CASE RegisterFunc(t)
    <3>1. call[t] \in Calls
      BY DEF TypeOK
    <3>2. [call[t] EXCEPT !.op = "set_arg"] \in Calls /\ call[t].func \in Funcs
      BY <3>1 DEF Calls, Ops
    <3>3. call' \in [Threads -> Calls]
      BY <2>2, <3>2 DEF RegisterFunc, TypeOK
    <3> QED
      BY <2>2, <3>2, <3>3 DEF RegisterFunc, TypeOK
  <2>3. CASE RegisterArg(t)
    <3>1. call[t] \in Calls
      BY DEF TypeOK
    <3>2. call[t].func \in Funcs /\ NoCall \in Calls
      BY <3>1 DEF Calls, Ops, NoCall, Funcs
    <3>3. call' \in [Threads -> Calls]
      BY <2>3, <3>2 DEF RegisterArg, TypeOK
    <3> QED
      BY <2>3, <3>2, <3>3 DEF RegisterArg, TypeOK
  <2> QED
    BY <2>1, <2>2, <2>3 DEF Registration
<1> QED
  BY <1>3, <1>4

(* A wait that begins, or goes on, is of a thread whose condition holds    *)
(* under the mutex; one that returns is of a thread that is awake.         *)
LEMMA WaitBeginsIInv ==
    ASSUME IInv, NEW t \in Clients, NEW wait \in Calls,
           wait.op \in {"level", "tone"},
           wait.op = "tone" => head = wait.bound,
           state # "EMPTY",
           call' = [call EXCEPT ![t] = wait],
           waiters' = waiters \union {t},
           UNCHANGED <<ring, lowWater, dequeuer>>
    PROVE  IInv'
<1> USE DEF IInv, ring, lowWater, dequeuer
<1>1. call'[t] = wait /\ \A u \in Clients \ {t} : call'[u] = call[u]
  BY DEF TypeOK, Threads
<1>2. TypeOK'
  BY DEF TypeOK
<1>3. RingConsistent' /\ SleepersWillBeWoken'
  BY DEF RingConsistent, Slot, SleepersWillBeWoken
<1>4. SleepersWait' /\ ToneWaitersAreTold'
  BY <1>1 DEF TypeOK, SleepersWait, ToneWaitersAreTold, Blocked
<1> QED
  BY <1>2, <1>3, <1>4

LEMMA WaitIInv ==
    ASSUME IInv, NEW t \in Clients, Wait(t)
    PROVE  IInv'
<1> USE DEF IInv
<1>1. CASE \E level \in 0..Capacity : WaitForLevel(t, level)
  <2>1. PICK level \in 0..Capacity : WaitForLevel(t, level)
    BY <1>1
  <2>2. [op |-> "level", bound |-> level, func |-> NULL] \in Calls
    BY CapacityAssumption DEF Calls, Ops, Funcs
  <2>3. state # "EMPTY"
    BY <2>1, CapacityAssumption DEF WaitForLevel, RingConsistent, TypeOK
  <2> QED
    BY <2>1, <2>2, <2>3, WaitBeginsIInv DEF WaitForLevel
<1>2. CASE WaitForEndOfCurrentTone(t)
  <2>1. [op |-> "tone", bound |-> head, func |-> NULL] \in Calls
    BY CapacityAssumption DEF Calls, Ops, Funcs, TypeOK, Index
  <2> QED
    BY <1>2, <2>1, WaitBeginsIInv DEF WaitForEndOfCurrentTone
<1>3. CASE WaitGoesOn(t)
  <2>1. state # "EMPTY"
    <3>1. call[t].bound \in Nat /\ len \in Nat
      BY CapacityAssumption DEF TypeOK, Threads, Calls
    <3>2. len > call[t].bound \/ state # "EMPTY"
      BY <1>3 DEF WaitGoesOn, Blocked
    <3> QED
      BY <3>1, <3>2 DEF RingConsistent
  <2>2. TypeOK' /\ RingConsistent' /\ SleepersWillBeWoken'
    BY <1>3, <2>1
    DEF WaitGoesOn, TypeOK, RingConsistent, Slot, SleepersWillBeWoken, ring, lowWater, dequeuer
  <2>3. SleepersWait' /\ ToneWaitersAreTold'
    BY <1>3 DEF WaitGoesOn, Awake, SleepersWait, ToneWaitersAreTold, Blocked, ring
  <2> QED
    BY <2>2, <2>3
<1>4. CASE WaitReturns(t)
  <2>1. NoCall \in Calls
    BY DEF NoCall, Calls, Ops, Funcs
  <2>2. TypeOK' /\ RingConsistent' /\ SleepersWillBeWoken'
    BY <1>4, <2>1
    DEF WaitReturns, TypeOK, RingConsistent, Slot, SleepersWillBeWoken, ring, lowWater, dequeuer
  <2>3. \A u \in waiters : call'[u] = call[u]
    BY <1>4 DEF WaitReturns, Awake, TypeOK, Threads
  <2>4. SleepersWait' /\ ToneWaitersAreTold'
    BY <1>4, <2>3 DEF WaitReturns, SleepersWait, ToneWaitersAreTold, Blocked, ring
  <2> QED
    BY <2>2, <2>4
<1>5. CASE SpuriousWakeup(t)
  BY <1>5
  DEF SpuriousWakeup, TypeOK, RingConsistent, Slot, SleepersWait, SleepersWillBeWoken,
      ToneWaitersAreTold, Blocked, ring, lowWater, dequeuer
<1> QED
  BY <1>1, <1>2, <1>3, <1>4, <1>5 DEF Wait

LEMMA NextIInv == IInv /\ [Next]_vars => IInv'
<1> SUFFICES ASSUME IInv, [Next]_vars PROVE IInv'
  OBVIOUS
<1>1. CASE Generator
  BY <1>1, DequeueIInv, CallbackIInv DEF Generator
<1>2. ASSUME NEW t \in Threads, RingOperation(t) PROVE IInv'
  BY <1>2, TonesAssumption, EnqueueIInv, EmptyRingIInv, RemoveLastCharacterIInv DEF RingOperation, MakeEmpty
<1>3. ASSUME NEW t \in Threads, Registration(t) PROVE IInv'
  BY <1>3, RegistrationIInv
<1>4. ASSUME NEW t \in Clients, Wait(t) PROVE IInv'
  BY <1>4, WaitIInv
<1>5. CASE UNCHANGED vars
  BY <1>5
  DEF vars, ring, lowWater, dequeuer, IInv, TypeOK, RingConsistent, Slot, SleepersWait,
      SleepersWillBeWoken, ToneWaitersAreTold, Blocked
<1> QED
  BY <1>1, <1>2, <1>3, <1>4, <1>5 DEF Next

(* The invariant holds in every reachable state.                          *)
THEOREM Inductive == Spec => []IInv
  BY InitIInv, NextIInv, PTL DEF Spec

-----------------------------------------------------------------------------
(* The fields of the queue keep their ranges: no index ever leaves the     *)
(* array, and the length never exceeds the capacity.                       *)
THEOREM TypeCorrect == Spec => []TypeOK
<1>1. IInv => TypeOK
  BY DEF IInv
<1> QED
  BY <1>1, Inductive, PTL

(* Head, tail, length and state agree after every critical section: the    *)
(* assertions in cw_tq_dequeue_internal() never fail.                      *)
THEOREM RingAlwaysConsistent == Spec => []RingConsistent
<1>1. IInv => RingConsistent
  BY DEF IInv
<1> QED
  BY <1>1, Inductive, PTL

(* No thread sleeps on wait_var while the queue is EMPTY, when no later    *)
(* step of the generator would wake it.                                    *)
THEOREM SleepersAlwaysWoken == Spec => []SleepersWillBeWoken
<1>1. IInv => SleepersWillBeWoken
  BY DEF IInv
<1> QED
  BY <1>1, Inductive, PTL

(* Whoever sleeps in a wait for the end of a tone has not been released    *)
(* behind its back: its tone is still at the head of the queue.            *)
THEOREM ToneWaitersAlwaysTold == Spec => []ToneWaitersAreTold
<1>1. IInv => ToneWaitersAreTold
  BY DEF IInv
<1> QED
  BY <1>1, Inductive, PTL

(* Both facts about the fields together: no function of the queue leaves a *)
(* ring that the next one, in whatever thread, would misread.              *)
THEOREM RingAlwaysSound == Spec => []RingIsSound
<1>1. IInv => RingIsSound
  BY DEF IInv, RingIsSound
<1> QED
  BY <1>1, Inductive, PTL

(* And both facts about the sleepers: whoever sleeps on wait_var is still  *)
(* waiting for something, or will be woken by a step that is yet to come.  *)
THEOREM NobodyEverSleepsThrough == Spec => []NobodySleepsThrough
<1>1. IInv => NobodySleepsThrough
  BY DEF IInv, NobodySleepsThrough
<1> QED
  BY <1>1, Inductive, PTL
-----------------------------------------------------------------------------
(* What the documentation promises over several steps, with the history    *)
(* variables of ToneQueueHistory.  A client that takes characters back     *)
(* breaks the promise of the callback, but not that of the wait.           *)

(* As long as a callback is due the queue is still above the mark.         *)
ArmedAboveMark ==
    armed => low_water_callback # NULL /\ 0 < low_water_mark /\ low_water_mark < len

(* Whoever waits for the tone that was playing still finds it at the head. *)
WaitsForItsTone ==
    \A t \in Clients : heard[t] = "playing" /\ call[t].op = "tone" =>
        head = call[t].bound /\ state # "EMPTY"

HeardType == heard \in [Clients -> {"over", "playing", "flushed"}]

(* Each step of the two histories is one of the queue, or none.            *)
LEMMA HistoryStepsAreQueueSteps == [EditingNext]_historyVars => [Next]_vars
<1> SUFFICES ASSUME [EditingNext]_historyVars PROVE [Next]_vars
  OBVIOUS
<1>1. CASE DequeueNoted \/ CallbackNoted
  BY <1>1 DEF DequeueNoted, CallbackNoted, Next, Generator
<1>2. ASSUME NEW t \in Threads,
             EnqueueNoted(t) \/ MakeEmptyNoted(t) \/ RegistrationNoted(t) \/ RemovalNoted(t)
      PROVE  Next
  BY <1>2
  DEF EnqueueNoted, MakeEmptyNoted, RegistrationNoted, RemovalNoted, Next, RingOperation
<1>3. ASSUME NEW t \in Clients, WaitNoted(t) PROVE Next
  BY <1>3 DEF WaitNoted, Next
<1>4. CASE UNCHANGED historyVars
  BY <1>4 DEF historyVars
<1> QED
  BY <1>1, <1>2, <1>3, <1>4 DEF EditingNext, SendingNext

LEMMA SendingIsEditing == SendingSpec => EditingSpec
<1>1. [SendingNext]_historyVars => [EditingNext]_historyVars
  BY DEF EditingNext
<1> QED
  BY <1>1, PTL DEF SendingSpec, EditingSpec

LEMMA EditingInductive == EditingSpec => []IInv
<1>1. HistoryInit => Init
  BY DEF HistoryInit
<1> QED
  BY <1>1, InitIInv, HistoryStepsAreQueueSteps, NextIInv, PTL DEF EditingSpec

-----------------------------------------------------------------------------
(* The callback.                                                           *)

LEMMA ArmedStep ==
    ASSUME IInv, ArmedAboveMark, [SendingNext]_historyVars
    PROVE  ArmedAboveMark'
<1> USE DEF ArmedAboveMark
<1>1. len \in Nat /\ low_water_mark \in Nat
  BY CapacityAssumption DEF IInv, TypeOK, Index
<1>2. CASE DequeueNoted
  <2>1. CASE DequeueNothing \/ DequeueLastEnded \/ DequeueForever
    BY <1>2, <2>1 DEF DequeueNoted, DequeueNothing, DequeueLastEnded, DequeueForever, ring, lowWater
  <2>2. CASE DequeueTone
    <3>1. armed' => armed /\ deq' # "call"
      BY <1>2 DEF DequeueNoted
    <3>2. UNCHANGED <<low_water_mark, low_water_callback>> /\ len' = len - 1
      BY <2>2 DEF DequeueTone, lowWater
    <3>3. PassesLowWaterMark => deq' = "call"
      BY <2>2 DEF DequeueTone
    <3> QED
      BY <1>1, <3>1, <3>2, <3>3 DEF PassesLowWaterMark
  <2> QED
    BY <1>2, <2>1, <2>2 DEF DequeueNoted, Dequeue
<1>3. CASE CallbackNoted
  BY <1>3 DEF CallbackNoted, CallLowWaterCallback, LowWaterCallbackReturns, ring, lowWater
<1>4. ASSUME NEW t \in Threads, EnqueueNoted(t) PROVE ArmedAboveMark'
  <2>1. armed' => armed \/ Above(len')
    BY <1>4 DEF EnqueueNoted
  <2>2. UNCHANGED <<low_water_mark, low_water_callback>> /\ len' = len + 1
    BY <1>4 DEF EnqueueNoted, Enqueue, lowWater
  <2> QED
    BY <1>1, <2>1, <2>2 DEF Above
<1>5. ASSUME NEW t \in Threads, MakeEmptyNoted(t) PROVE ArmedAboveMark'
  BY <1>5 DEF MakeEmptyNoted
<1>6. ASSUME NEW t \in Threads, RegistrationNoted(t) PROVE ArmedAboveMark'
  <2>1. len' = len
    BY <1>6 DEF RegistrationNoted, Registration, RegisterLevel, RegisterFunc, RegisterArg, ring
  <2> QED
    BY <1>6, <2>1 DEF RegistrationNoted, Above
<1>7. ASSUME NEW t \in Clients, WaitNoted(t) PROVE ArmedAboveMark'
  BY <1>7
  DEF WaitNoted, Wait, WaitForLevel, WaitForEndOfCurrentTone, WaitGoesOn, WaitReturns,
      SpuriousWakeup, ring, lowWater
<1>8. CASE UNCHANGED historyVars
  BY <1>8 DEF historyVars, vars, ring, lowWater
<1> QED
  BY <1>2, <1>3, <1>4, <1>5, <1>6, <1>7, <1>8 DEF SendingNext

(* The low water callback is called before the queue runs dry, for every   *)
(* capacity and mark, however many threads enqueue, flush and register.    *)
THEOREM AlwaysCalledBeforeDry == SendingSpec => []CalledBeforeDry
<1>1. HistoryInit => ArmedAboveMark
  BY DEF HistoryInit, ArmedAboveMark
<1>2. SendingSpec => []IInv
  BY SendingIsEditing, EditingInductive
<1>3. IInv /\ ArmedAboveMark => CalledBeforeDry
  BY CapacityAssumption
  DEF IInv, TypeOK, Index, RingConsistent, ArmedAboveMark, CalledBeforeDry
<1> QED
  BY <1>1, <1>2, <1>3, ArmedStep, PTL DEF SendingSpec

-----------------------------------------------------------------------------
(* The wait for the end of the current tone.                               *)

LEMMA HeardStep ==
    ASSUME IInv, HeardType, WaitsForItsTone, [EditingNext]_historyVars
    PROVE  HeardType' /\ WaitsForItsTone'
<1> USE DEF HeardType, WaitsForItsTone
<1>1. CASE DequeueNoted
  BY <1>1 DEF DequeueNoted
<1>2. CASE CallbackNoted
  BY <1>2 DEF CallbackNoted, CallLowWaterCallback, LowWaterCallbackReturns, ring
<1>3. ASSUME NEW t \in Threads, EnqueueNoted(t) PROVE HeardType' /\ WaitsForItsTone'
  BY <1>3 DEF EnqueueNoted, Enqueue
<1>4. ASSUME NEW t \in Threads, MakeEmptyNoted(t) PROVE HeardType' /\ WaitsForItsTone'
  BY <1>4 DEF MakeEmptyNoted
<1>5. ASSUME NEW t \in Threads, RegistrationNoted(t) PROVE HeardType' /\ WaitsForItsTone'
  <2>1. /\ UNCHANGED <<heard, head, state>>
        /\ call'[t].op # "tone"
        /\ \A u \in Threads \ {t} : call'[u] = call[u]
    BY <1>5
    DEF RegistrationNoted, Registration, RegisterLevel, RegisterFunc, RegisterArg, IInv, TypeOK,
        Calls, NoCall, ring
  <2> QED
    BY <2>1 DEF Threads
<1>6. ASSUME NEW t \in Threads, RemovalNoted(t) PROVE HeardType' /\ WaitsForItsTone'
  <2>1. state' # "EMPTY"
    BY <1>6, CapacityAssumption
    DEF RemovalNoted, RemoveLastCharacter, IInv, TypeOK, RingConsistent
  <2> QED
    BY <1>6, <2>1 DEF RemovalNoted, RemoveLastCharacter
<1>7. ASSUME NEW t \in Clients, WaitNoted(t) PROVE HeardType' /\ WaitsForItsTone'
  <2>1. UNCHANGED <<head, state>> /\ \A u \in Clients \ {t} : call'[u] = call[u]
    BY <1>7
    DEF WaitNoted, Wait, WaitForLevel, WaitForEndOfCurrentTone, WaitGoesOn, WaitReturns,
        SpuriousWakeup, ring, IInv, TypeOK, Threads
  <2>2. HeardType'
    BY <1>7 DEF WaitNoted
  <2>3. call'[t].op = "tone" /\ call[t].op # "tone" => head = call'[t].bound /\ state # "EMPTY"
    BY <1>7
    DEF WaitNoted, Wait, WaitForLevel, WaitForEndOfCurrentTone, WaitGoesOn, WaitReturns,
        SpuriousWakeup, NoCall, IInv, TypeOK, Threads
  <2>4. call[t].op = "tone" => call'[t] = call[t] \/ call'[t].op # "tone"
    BY <1>7
    DEF WaitNoted, Wait, WaitForLevel, WaitForEndOfCurrentTone, WaitGoesOn, WaitReturns,
        SpuriousWakeup, NoCall, IInv, TypeOK, Threads, Free
  <2>5. call[t].op # "none" => heard' = heard
    BY <1>7 DEF WaitNoted
  <2>6. \A u \in Clients \ {t} : heard'[u] = heard[u]
    BY <1>7 DEF WaitNoted
  <2> QED
    BY <2>1, <2>2, <2>3, <2>4, <2>5, <2>6
<1>8. CASE UNCHANGED historyVars
  BY <1>8 DEF historyVars, vars, ring
<1> QED
  BY <1>1, <1>2, <1>3, <1>4, <1>5, <1>6, <1>7, <1>8 DEF EditingNext, SendingNext

(* A call is left by nobody but its own thread, and a wait only through    *)
(* the test of its condition.                                              *)
LEMMA OnlyAnUnblockedWaitReturns ==
    ASSUME IInv, [Next]_vars, NEW t \in Clients,
           call[t].op = "tone", call'[t].op = "none"
    PROVE  ~Blocked(t)
<1> USE DEF IInv, TypeOK, Threads
<1>1. call' # call
  OBVIOUS
<1>2. PICK u \in Threads : Registration(u) \/ (u \in Clients /\ Wait(u))
  BY <1>1
  DEF Next, Generator, Dequeue, DequeueNothing, DequeueLastEnded, DequeueForever, DequeueTone,
      CallLowWaterCallback, LowWaterCallbackReturns, RingOperation, Enqueue, MakeEmpty, EmptyRing,
      RemoveLastCharacter, vars
<1>3. \A v \in Threads \ {u} : call'[v] = call[v]
  BY <1>2
  DEF Registration, RegisterLevel, RegisterFunc, RegisterArg, Wait, WaitForLevel,
      WaitForEndOfCurrentTone, WaitGoesOn, WaitReturns, SpuriousWakeup
<1>4. u = t
  BY <1>3
<1>5. WaitReturns(t)
  BY <1>1, <1>2, <1>4
  DEF Registration, RegisterLevel, RegisterFunc, RegisterArg, Wait, WaitForLevel,
      WaitForEndOfCurrentTone, WaitGoesOn, SpuriousWakeup, Free
<1> QED
  BY <1>5 DEF WaitReturns

(* A wait for the end of the current tone does not return while the tone   *)
(* still sounds, unless the queue was flushed: with any number of clients  *)
(* that wait, enqueue, flush and take characters back.                     *)
THEOREM ToneWaitAlwaysLasts == EditingSpec => ToneWaitLastsOrFlushed
<1>1. HistoryInit => HeardType /\ WaitsForItsTone
  BY DEF HistoryInit, HeardType, WaitsForItsTone
<1>2. ASSUME IInv, WaitsForItsTone, [EditingNext]_historyVars,
             NEW t \in Clients, Returns(t)
      PROVE  heard[t] # "playing"
  <2>1. SUFFICES ASSUME heard[t] = "playing" PROVE FALSE
    OBVIOUS
  <2>2. head = call[t].bound /\ state # "EMPTY"
    BY <1>2, <2>1 DEF Returns, WaitsForItsTone
  <2>3. Blocked(t)
    BY <1>2, <2>2 DEF Blocked, Returns
  <2>4. [Next]_vars
    BY <1>2, HistoryStepsAreQueueSteps
  <2> QED
    BY <1>2, <2>3, <2>4, OnlyAnUnblockedWaitReturns DEF Returns
<1>3. IInv /\ WaitsForItsTone /\ [EditingNext]_historyVars
        => [\A t \in Clients : Returns(t) => heard[t] # "playing"]_historyVars
  BY <1>2
<1> QED
  BY <1>1, <1>3, EditingInductive, HeardStep, PTL DEF EditingSpec, ToneWaitLastsOrFlushed

(* The same for an application that does not take characters back.         *)
COROLLARY ToneWaitAlwaysLastsInSending == SendingSpec => ToneWaitLastsOrFlushed
  BY SendingIsEditing, ToneWaitAlwaysLasts
-----------------------------------------------------------------------------
(* The ring implements the first-in first-out queue of ToneFifo.           *)

(* The window of n tones that starts at slot h of a ring q, for the states *)
(* before and after a step alike.                                          *)
At(h, i) == IF h + i < Capacity THEN h + i ELSE h + i - Capacity
Window(q, h, n) == [i \in 1..n |-> q[At(h, i - 1)]]

(* A window is a sequence of tones, each slot in it is read once.          *)
LEMMA WindowType ==
    ASSUME NEW q \in [Index -> Tone], NEW h \in Index, NEW n \in 0..Capacity
    PROVE  /\ Window(q, h, n) \in Seq(Tone)
           /\ Len(Window(q, h, n)) = n
           /\ \A i \in 1..n : Window(q, h, n)[i] = q[At(h, i - 1)] /\ At(h, i - 1) \in Index
<1>1. n \in Nat /\ h \in Nat
  BY CapacityAssumption DEF Index
<1>2. \A i \in 1..n : At(h, i - 1) \in Index
  BY <1>1, CapacityAssumption DEF At, Index
<1>3. Window(q, h, n) \in [1..n -> Tone]
  BY <1>2 DEF Window
<1>4. Window(q, h, n) \in Seq(Tone)
  BY <1>1, <1>3
<1>5. Len(Window(q, h, n)) = n
  BY <1>1, <1>3, <1>4
<1>6. \A i \in 1..n : Window(q, h, n)[i] = q[At(h, i - 1)]
  BY DEF Window
<1> QED
  BY <1>2, <1>4, <1>5, <1>6

LEMMA ContentsAreWindow ==
    /\ Contents = Window(queue, head, len)
    /\ Contents' = Window(queue', head', len')
  BY DEF Contents, Window, Slot, At

(* A tone written behind a window makes it one tone longer.                *)
LEMMA WindowGrows ==
    ASSUME NEW q \in [Index -> Tone], NEW h \in Index, NEW n \in 0..(Capacity - 1),
           NEW new \in Tone
    PROVE  Window([q EXCEPT ![At(h, n)] = new], h, n + 1) = Append(Window(q, h, n), new)
<1> DEFINE q2 == [q EXCEPT ![At(h, n)] = new]
           old == Window(q, h, n)
           next == Window(q2, h, n + 1)
<1>1. At(h, n) \in Index /\ q2 \in [Index -> Tone] /\ n \in 0..Capacity /\ n + 1 \in 0..Capacity
  BY CapacityAssumption DEF At, Index
<1>2. /\ old \in Seq(Tone) /\ Len(old) = n
      /\ \A i \in 1..n : old[i] = q[At(h, i - 1)] /\ At(h, i - 1) \in Index
  BY <1>1, WindowType
<1>3. q2[At(h, n)] = new /\ \A j \in Index \ {At(h, n)} : q2[j] = q[j]
  BY <1>1
<1> HIDE DEF q2
<1>4. /\ next \in Seq(Tone) /\ Len(next) = n + 1
      /\ \A i \in 1..(n + 1) : next[i] = q2[At(h, i - 1)]
  BY <1>1, WindowType
<1>5. \A i \in 1..n : At(h, i - 1) # At(h, n)
  BY CapacityAssumption DEF At, Index
<1>6. Append(old, new) \in Seq(Tone) /\ Len(Append(old, new)) = n + 1
  BY <1>2
<1>7. ASSUME NEW i \in 1..(n + 1) PROVE next[i] = Append(old, new)[i]
  <2>1. CASE i = n + 1
    <3>1. next[i] = q2[At(h, i - 1)] /\ i - 1 = n
      BY <1>4, <2>1
    <3>2. Append(old, new)[i] = new
      BY <1>2, <2>1
    <3> QED
      BY <1>3, <3>1, <3>2
  <2>2. CASE i # n + 1
    <3>1. i \in 1..n
      BY <2>2
    <3>2. next[i] = q2[At(h, i - 1)] /\ At(h, i - 1) \in Index \ {At(h, n)}
      BY <1>2, <1>4, <1>5, <3>1
    <3>3. Append(old, new)[i] = old[i]
      BY <1>2, <3>1
    <3> QED
      BY <1>2, <1>3, <3>1, <3>2, <3>3
  <2> QED
    BY <2>1, <2>2
<1> HIDE DEF old, next
<1>8. next = Append(old, new)
  BY <1>4, <1>6, <1>7, SeqEqual
<1> QED
  BY <1>8 DEF q2, old, next

(* Without its first tone a window is its tail.                            *)
LEMMA WindowLosesHead ==
    ASSUME NEW q \in [Index -> Tone], NEW h \in Index, NEW n \in 1..Capacity
    PROVE  /\ Window(q, h, n) # <<>>
           /\ Head(Window(q, h, n)) = q[h]
           /\ Window(q, NextIndex(h), n - 1) = Tail(Window(q, h, n))
<1> DEFINE old == Window(q, h, n)
           next == Window(q, NextIndex(h), n - 1)
<1>1. NextIndex(h) \in Index /\ n \in 0..Capacity /\ n - 1 \in 0..Capacity
  BY CapacityAssumption, NextIndexType
<1>2. /\ old \in Seq(Tone) /\ Len(old) = n
      /\ \A i \in 1..n : old[i] = q[At(h, i - 1)]
  BY <1>1, WindowType
<1>3. /\ next \in Seq(Tone) /\ Len(next) = n - 1
      /\ \A i \in 1..(n - 1) : next[i] = q[At(NextIndex(h), i - 1)]
  BY <1>1, WindowType
<1>4. \A i \in 1..(n - 1) : At(NextIndex(h), i - 1) = At(h, i)
  BY CapacityAssumption DEF At, Index, NextIndex
<1>5. At(h, 0) = h
  BY CapacityAssumption DEF At, Index
<1> HIDE DEF old, next
<1>6. old # <<>> /\ Head(old) = old[1]
  BY <1>2
<1>7. Tail(old) \in Seq(Tone) /\ Len(Tail(old)) = n - 1 /\ \A i \in 1..(n - 1) : Tail(old)[i] = old[i + 1]
  BY <1>2, <1>6
<1>8. \A i \in 1..(n - 1) : next[i] = Tail(old)[i]
  <2>1. \A i \in 1..(n - 1) : i + 1 \in 1..n /\ (i + 1) - 1 = i
    OBVIOUS
  <2>2. \A i \in 1..(n - 1) : old[i + 1] = q[At(h, i)]
    BY <1>2, <2>1
  <2> QED
    BY <1>3, <1>4, <1>7, <2>2
<1>9. next = Tail(old)
  BY <1>3, <1>7, <1>8, SeqEqual
<1> QED
  BY <1>2, <1>5, <1>6, <1>9 DEF old, next

(* The last k tones of a window are what one finds going back from its end *)
(* k times; without them it is its own beginning.                          *)
LEMMA WindowLosesEnd ==
    ASSUME NEW q \in [Index -> Tone], NEW h \in Index, NEW n \in 0..Capacity, NEW k \in 1..n
    PROVE  /\ Window(q, h, n - k) = SubSeq(Window(q, h, n), 1, n - k)
           /\ \A j \in 1..k : Window(q, h, n)[n - j + 1] = q[StepsBack(At(h, n), j)]
<1> DEFINE old == Window(q, h, n)
           next == Window(q, h, n - k)
<1>1. n \in Nat /\ n - k \in 0..Capacity
  BY CapacityAssumption
<1>2. /\ old \in Seq(Tone) /\ Len(old) = n
      /\ \A i \in 1..n : old[i] = q[At(h, i - 1)]
  BY <1>1, WindowType
<1>3. /\ next \in Seq(Tone) /\ Len(next) = n - k
      /\ \A i \in 1..(n - k) : next[i] = q[At(h, i - 1)]
  BY <1>1, WindowType
<1> HIDE DEF old, next
<1>4. \A i \in 1..(n - k) : old[i] \in Tone
  BY <1>1, <1>2, ElementOfSeq
<1>5. /\ SubSeq(old, 1, n - k) \in Seq(Tone)
      /\ Len(SubSeq(old, 1, n - k)) = n - k
      /\ \A i \in 1..(n - k) : SubSeq(old, 1, n - k)[i] = old[i]
  BY <1>1, <1>2, <1>4
<1>6. ASSUME NEW i \in 1..(n - k) PROVE next[i] = SubSeq(old, 1, n - k)[i]
  <2>1. i \in 1..n
    BY <1>1
  <2>2. next[i] = q[At(h, i - 1)]
    BY <1>3
  <2>3. old[i] = q[At(h, i - 1)]
    BY <1>2, <2>1
  <2> QED
    BY <1>5, <2>2, <2>3
<1>7. next = SubSeq(old, 1, n - k)
  BY <1>3, <1>5, <1>6, SeqEqual
<1>8. ASSUME NEW j \in 1..k PROVE old[n - j + 1] = q[StepsBack(At(h, n), j)]
  <2>1. n - j + 1 \in 1..n /\ (n - j + 1) - 1 = n - j
    BY <1>1
  <2>2. StepsBack(At(h, n), j) = At(h, n - j)
    BY <1>1, CapacityAssumption DEF StepsBack, At, Index
  <2> QED
    BY <1>2, <2>1, <2>2
<1> QED
  BY <1>7, <1>8 DEF old, next

-----------------------------------------------------------------------------
(* Each operation of the ring is one of the queue.                         *)

LEMMA SoundRing ==
    ASSUME IInv
    PROVE  /\ queue \in [Index -> Tone] /\ head \in Index /\ len \in 0..Capacity
           /\ tail = At(head, len)
           /\ Contents = Window(queue, head, len)
           /\ Len(Contents) = len
           /\ Contents = <<>> <=> len = 0
<1>1. queue \in [Index -> Tone] /\ head \in Index /\ len \in 0..Capacity
  BY DEF IInv, TypeOK
<1>2. tail = At(head, len)
  BY DEF IInv, RingConsistent, Slot, At
<1>3. Contents \in Seq(Tone) /\ Len(Contents) = len
  BY <1>1, WindowType, ContentsAreWindow
<1>4. Contents = <<>> <=> len = 0
  BY <1>3
<1> QED
  BY <1>1, <1>2, <1>3, <1>4, ContentsAreWindow

(* Without a change of the ring's window there is none of the queue.       *)
LEMMA ContentsStay ==
    ASSUME UNCHANGED <<queue, head, len>>
    PROVE  UNCHANGED Contents
  BY ContentsAreWindow

LEMMA EnqueuePuts ==
    ASSUME IInv, NEW t \in Threads, NEW new \in Tones, Enqueue(t, new)
    PROVE  Fifo!Put
<1>1. new \in Tone /\ len \in 0..(Capacity - 1)
  BY SoundRing, TonesAssumption, CapacityAssumption DEF Enqueue
<1>2. queue' = [queue EXCEPT ![At(head, len)] = new] /\ head' = head /\ len' = len + 1
  BY SoundRing DEF Enqueue
<1>3. Contents' = Append(Contents, new)
  BY <1>1, <1>2, SoundRing, WindowGrows, ContentsAreWindow
<1>4. UNCHANGED <<tone, generating>>
  BY DEF Enqueue, dequeuer
<1>5. Len(Contents) < Capacity
  BY <1>1, SoundRing, CapacityAssumption
<1> QED
  BY <1>3, <1>4, <1>5 DEF Fifo!Put

LEMMA MakeEmptyFlushes ==
    ASSUME NEW t \in Threads, MakeEmpty(t)
    PROVE  Fifo!Flush
<1>1. Contents' = <<>>
  BY ContentsAreWindow DEF Window, MakeEmpty, EmptyRing
<1> QED
  BY <1>1 DEF Fifo!Flush, MakeEmpty, EmptyRing, dequeuer

LEMMA RemovalDropsLastCharacter ==
    ASSUME IInv, NEW t \in Threads, RemoveLastCharacter(t)
    PROVE  Fifo!DropLastCharacter
<1>1. PICK k \in 1..len : LastCharacterLength(k) /\ len' = len - k
  BY DEF RemoveLastCharacter
<1>2. UNCHANGED <<queue, head, tone, generating>>
  BY DEF RemoveLastCharacter, dequeuer
<1>3. /\ Contents' = SubSeq(Contents, 1, len - k)
      /\ \A j \in 1..k : Contents[len - j + 1] = queue[StepsBack(tail, j)]
  <2>1. Contents = Window(queue, head, len) /\ Contents' = Window(queue, head, len - k)
    BY <1>1, <1>2, ContentsAreWindow
  <2>2. /\ Window(queue, head, len - k) = SubSeq(Window(queue, head, len), 1, len - k)
        /\ \A j \in 1..k :
              Window(queue, head, len)[len - j + 1] = queue[StepsBack(At(head, len), j)]
    BY SoundRing, WindowLosesEnd
  <2> QED
    BY <2>1, <2>2, SoundRing
<1> DEFINE first == len - k + 1
<1>4. first \in 1..len /\ first - 1 = len - k
  BY <1>1, SoundRing, CapacityAssumption
<1>5. Contents[first].is_first
  BY <1>1, <1>3 DEF LastCharacterLength
<1>6. ASSUME NEW j \in (first + 1)..len PROVE ~Contents[j].is_first
  <2>1. len - j + 1 \in 1..(k - 1) /\ len - j + 1 \in 1..k /\ len - (len - j + 1) + 1 = j
    BY <1>1, SoundRing, CapacityAssumption
  <2> QED
    BY <1>1, <1>3, <2>1 DEF LastCharacterLength
<1> QED
  BY <1>2, <1>3, <1>4, <1>5, <1>6, SoundRing DEF Fifo!DropLastCharacter

LEMMA DequeueTakesOrFinishes ==
    ASSUME IInv, Dequeue
    PROVE  Fifo!Take \/ Fifo!Finish
<1>1. CASE DequeueNothing \/ DequeueLastEnded
  <2>1. len = 0
    BY <1>1, SoundRing, CapacityAssumption
    DEF DequeueNothing, DequeueLastEnded, IInv, RingConsistent
  <2>2. UNCHANGED <<queue, head, len, tone>> /\ generating' = FALSE
    BY <1>1 DEF DequeueNothing, DequeueLastEnded, ring
  <2> QED
    BY <2>1, <2>2, SoundRing, ContentsStay DEF Fifo!Finish
<1>2. CASE DequeueForever \/ DequeueTone
  <2>1. len \in 1..Capacity
    BY <1>2, SoundRing, CapacityAssumption DEF DequeueForever, DequeueTone, IInv, RingConsistent
  <2>2. Contents # <<>> /\ Head(Contents) = queue[head]
    BY <2>1, SoundRing, WindowLosesHead
  <2>3. tone' = Head(Contents) /\ generating' = TRUE
    BY <1>2, <2>2 DEF DequeueForever, DequeueTone
  <2>4. Fifo!Stays <=> IsKept
    BY <2>2, SoundRing DEF Fifo!Stays, IsKept
  <2>5. CASE DequeueForever
    BY <2>2, <2>3, <2>4, <2>5, ContentsStay DEF DequeueForever, Fifo!Take, ring
  <2>6. CASE DequeueTone
    <3>1. queue' = queue /\ head' = NextIndex(head) /\ len' = len - 1 /\ ~IsKept
      BY <2>6 DEF DequeueTone
    <3>2. Contents' = Tail(Contents)
      BY <2>1, <3>1, SoundRing, WindowLosesHead, ContentsAreWindow
    <3> QED
      BY <2>2, <2>3, <2>4, <3>1, <3>2 DEF Fifo!Take
  <2> QED
    BY <1>2, <2>5, <2>6
<1> QED
  BY <1>1, <1>2 DEF Dequeue

LEMMA StepsAreFifoSteps ==
    ASSUME IInv, [Next]_vars
    PROVE  [Fifo!Next]_Fifo!vars
<1>1. CASE Dequeue
  BY <1>1, DequeueTakesOrFinishes DEF Fifo!Next
<1>2. ASSUME NEW t \in Threads, RingOperation(t) PROVE Fifo!Next
  BY <1>2, EnqueuePuts, MakeEmptyFlushes, RemovalDropsLastCharacter DEF RingOperation, Fifo!Next
<1>3. ASSUME UNCHANGED <<queue, head, len, tone, generating>> PROVE UNCHANGED Fifo!vars
  BY <1>3, ContentsStay DEF Fifo!vars
<1>4. CASE CallLowWaterCallback \/ LowWaterCallbackReturns \/ UNCHANGED vars
  BY <1>3, <1>4
  DEF CallLowWaterCallback, LowWaterCallbackReturns, vars, ring, dequeuer
<1>5. ASSUME NEW t \in Threads, Registration(t) PROVE UNCHANGED Fifo!vars
  BY <1>3, <1>5 DEF Registration, RegisterLevel, RegisterFunc, RegisterArg, ring, dequeuer
<1>6. ASSUME NEW t \in Clients, Wait(t) PROVE UNCHANGED Fifo!vars
  BY <1>3, <1>6
  DEF Wait, WaitForLevel, WaitForEndOfCurrentTone, WaitGoesOn, WaitReturns, SpuriousWakeup,
      ring, dequeuer
<1> QED
  BY <1>1, <1>2, <1>4, <1>5, <1>6 DEF Next, Generator

(* The ring implements the first-in first-out queue: for every capacity    *)
(* and any number of threads that enqueue, flush, remove, register and     *)
(* wait, the generator gets the tones that were enqueued, in their order.  *)
THEOREM RingIsAlwaysFifo == Spec => RingIsFifo
<1>1. Init => Fifo!Init
  BY ContentsAreWindow DEF Init, Fifo!Init, Window
<1> QED
  BY <1>1, Inductive, StepsAreFifoSteps, PTL DEF Spec, RingIsFifo, Fifo!Spec
=============================================================================
