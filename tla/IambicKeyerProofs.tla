------------------------- MODULE IambicKeyerProofs -------------------------
(***************************************************************************)
(* The keyer's lock is never left behind, whatever the client asks for,    *)
(* however the two threads interleave and whatever the timing.  The lock   *)
(* is a plain flag, tested in one step and set in another, so it does not  *)
(* keep the threads apart: both may be inside, and the first to leave      *)
(* clears it.  What holds is the other direction.                          *)
(*                                                                         *)
(* When updates are faster than tones, that keeps the threads apart, and   *)
(* the keyer's key, state and tone in step.  And when paddle events do not *)
(* fall into an update at all, none of them goes unheard.                  *)
(*                                                                         *)
(* A window in receive mode hears what is keyed and shows it once, while   *)
(* no keying event falls into one of its polls.                            *)
(***************************************************************************)
EXTENDS IambicKeyerHistory, KeyedText, SequenceTheorems, TLAPS

Critical == {"dispatch", "end_mark", "rest", "clear_latch", "choose", "enter", "go_idle", "unlock"}

Places == {"none"} \union InNotify \union InSilence \union InLoop \union InUpdate

IInv ==
    /\ at \in [Threads -> Places]
    /\ LockIsHeld

(* What a step of thread t does to the lock and to t's place: t stays      *)
(* inside, or is outside and stays there, or enters, or leaves.            *)
Moves(t) == \E place \in Places : at' = [at EXCEPT ![t] = place]
StaysInside(t) == at[t] \in Critical /\ at'[t] \in Critical /\ UNCHANGED lock
StaysOutside(t) == at[t] \notin Critical /\ UNCHANGED lock
Enters(t) == at'[t] \in Critical
Leaves(t) == lock' = FALSE
LockStep(t) == Moves(t) /\ (StaysInside(t) \/ StaysOutside(t) \/ Enters(t) \/ Leaves(t))

LEMMA ReturnMoves ==
    ASSUME NEW t \in Threads, Return(t)
    PROVE  Moves(t)
BY DEF Return, Goto, Moves, Places, InLoop

LEMMA UpdateIsLockStep ==
    ASSUME NEW t \in Threads, at \in [Threads -> Places], Update(t)
    PROVE  LockStep(t)
<1>. USE DEF Goto, keyer, Places, InUpdate, Critical
<1>1. ASSUME UpdateFails(t) PROVE LockStep(t)
    <2>1. Moves(t)
        <3>1. CASE Return(t) BY <3>1, ReturnMoves
        <3>2. CASE Goto(t, "retry") BY <3>2 DEF Moves
        <3>. QED BY <1>1, <3>1, <3>2 DEF UpdateFails
    <2>. QED BY <1>1, <2>1 DEF UpdateFails, LockStep, StaysOutside
<1>2. ASSUME UpdateRetries(t) \/ UpdateFindsNoLock(t) PROVE LockStep(t)
    BY <1>2 DEF UpdateRetries, UpdateFindsNoLock, LockStep, Moves, StaysOutside
<1>3. ASSUME UpdateLocks(t) PROVE LockStep(t)
    BY <1>3 DEF UpdateLocks, LockStep, Moves, Enters
<1>4. ASSUME Dispatch(t) PROVE LockStep(t)
    <2>1. PICK place \in {"unlock", "end_mark", "choose", "clear_latch"} : Goto(t, place)
        BY <1>4 DEF Dispatch
    <2>. QED BY <1>4, <2>1 DEF Dispatch, LockStep, Moves, StaysInside
<1>5. ASSUME EndMark(t) \/ Rest(t) \/ ClearLatch(t) PROVE LockStep(t)
    BY <1>5 DEF EndMark, Rest, ClearLatch, LockStep, Moves, StaysInside
<1>6. ASSUME BeginMark(t) PROVE LockStep(t)
    BY <1>6 DEF BeginMark, LockStep, Moves, StaysInside
<1>7. ASSUME EnterMark(t) PROVE LockStep(t)
    BY <1>7 DEF EnterMark, LockStep, Moves, StaysInside
<1>8. ASSUME FindNothingToSend(t) \/ GoIdle(t) PROVE LockStep(t)
    BY <1>8 DEF FindNothingToSend, GoIdle, LockStep, Moves, StaysInside
<1>9. ASSUME UpdateUnlocks(t) PROVE LockStep(t)
    BY <1>9, ReturnMoves DEF UpdateUnlocks, LockStep, Leaves
<1>. QED
    BY <1>1, <1>2, <1>3, <1>4, <1>5, <1>6, <1>7, <1>8, <1>9 DEF Update

(* A step of the client outside of an update: it is outside before.        *)
LEMMA CallIsLockStep ==
    ASSUME at \in [Threads -> Places],
           \/ Request \/ NotifyLatches \/ NotifyCurtis \/ NotifyBusyKeyer \/ NotifyIdleKeyer
           \/ Silence \/ SilenceReachesLevel \/ SilenceEnqueues
    PROVE  LockStep("client") \/ UNCHANGED <<at, lock>>
<1>. USE DEF Goto, keyer, local, Places, InNotify, InSilence, InUpdate, Critical, Threads,
             LockStep, Moves, StaysOutside
<1>1. ASSUME NEW dot \in BOOLEAN, NEW dash \in BOOLEAN, NotifyPaddles(dot, dash)
      PROVE  LockStep("client")
    BY <1>1 DEF NotifyPaddles
<1>2. ASSUME NEW on \in BOOLEAN, SetCurtisModeB(on) PROVE UNCHANGED <<at, lock>>
    BY <1>2 DEF SetCurtisModeB
<1>3. ASSUME SendText PROVE UNCHANGED <<at, lock>>
    BY <1>3 DEF SendText
<1>4. ASSUME FlushQueue PROVE LockStep("client")
    BY <1>4 DEF FlushQueue
<1>5. ASSUME ResetState PROVE LockStep("client")
    BY <1>5 DEF ResetState
<1>6. ASSUME NotifyLatches \/ NotifyCurtis \/ NotifyBusyKeyer PROVE LockStep("client")
    BY <1>6 DEF NotifyLatches, NotifyCurtis, NotifyBusyKeyer
<1>7. ASSUME NotifyIdleKeyer PROVE LockStep("client")
    BY <1>7 DEF NotifyIdleKeyer
<1>8. ASSUME Silence \/ SilenceEnqueues PROVE LockStep("client")
    BY <1>8 DEF Silence, SilenceEnqueues
<1>9. ASSUME SilenceReachesLevel PROVE LockStep("client")
    <2>1. PICK place \in {"quantum", "none"} : Goto("client", place)
        BY <1>9 DEF SilenceReachesLevel
    <2>. QED BY <1>9, <2>1 DEF SilenceReachesLevel
<1>. QED
    BY <1>1, <1>2, <1>3, <1>4, <1>5, <1>6, <1>7, <1>8, <1>9 DEF Request, PaddleEvent

LEMMA LoopIsLockStep ==
    ASSUME at \in [Threads -> Places],
           DequeueLastEnded \/ DequeueTone \/ ToneEnds \/ LoopEnds
    PROVE  LockStep("gen") \/ UNCHANGED <<at, lock>>
<1>. USE DEF Goto, keyer, local, Places, InLoop, InUpdate, Critical, Threads,
             LockStep, Moves, StaysOutside
<1>1. ASSUME DequeueLastEnded PROVE UNCHANGED <<at, lock>>
    BY <1>1 DEF DequeueLastEnded
<1>2. ASSUME DequeueTone PROVE LockStep("gen")
    BY <1>2 DEF DequeueTone
<1>3. ASSUME ToneEnds PROVE LockStep("gen")
    BY <1>3 DEF ToneEnds
<1>4. ASSUME LoopEnds PROVE LockStep("gen")
    BY <1>4 DEF LoopEnds
<1>. QED BY <1>1, <1>2, <1>3, <1>4

LEMMA NextIsLockStep ==
    ASSUME at \in [Threads -> Places], [Next]_vars
    PROVE  (\E t \in Threads : LockStep(t)) \/ UNCHANGED <<at, lock>>
<1>1. CASE UNCHANGED vars
    BY <1>1 DEF vars, keyer, local
<1>2. CASE Request \/ ClientGoesOn
    BY <1>2, CallIsLockStep, UpdateIsLockStep DEF ClientGoesOn, Threads
<1>3. CASE Generator
    BY <1>3, LoopIsLockStep, UpdateIsLockStep DEF Generator, Threads
<1>4. CASE Waiter
    BY <1>4 DEF Waiter, WaitForKeyer, WaitForEndOfCurrentElement, WaitSleeps, WaitGoesOn,
                SpuriousWakeup, keyer, local
<1>. QED
    BY <1>1, <1>2, <1>3, <1>4 DEF Next

LEMMA LockStepKeepsIInv ==
    ASSUME IInv, NEW t \in Threads, LockStep(t)
    PROVE  IInv'
<1>1. PICK place \in Places : at' = [at EXCEPT ![t] = place]
    BY DEF LockStep, Moves
<1>2. at' \in [Threads -> Places]
    BY <1>1 DEF IInv
<1>3. ASSUME lock' PROVE \E u \in Threads : at'[u] \in Critical
    <2>1. CASE StaysInside(t) \/ Enters(t)
        BY <2>1 DEF StaysInside, Enters
    <2>2. CASE StaysOutside(t)
        <3>1. PICK u \in Threads : at[u] \in Critical
            BY <1>3, <2>2 DEF StaysOutside, IInv, LockIsHeld, Critical
        <3>2. at'[u] = at[u]
            BY <1>1, <2>2, <3>1 DEF StaysOutside, IInv
        <3>. QED BY <3>1, <3>2
    <2>3. CASE Leaves(t)
        BY <1>3, <2>3 DEF Leaves
    <2>. QED BY <2>1, <2>2, <2>3 DEF LockStep
<1>. QED
    BY <1>2, <1>3 DEF IInv, LockIsHeld, Critical

(* cw_key_t::lock is set only while a thread is between the line that sets *)
(* it and the line that clears it: no update is ever refused for good.     *)
THEOREM LockAlwaysHeld == Spec => []LockIsHeld
<1>1. Init => IInv
    BY DEF Init, IInv, LockIsHeld, Places, InLoop, Threads
<1>2. IInv /\ [Next]_vars => IInv'
    <2>. SUFFICES ASSUME IInv, [Next]_vars PROVE IInv'
        OBVIOUS
    <2>1. CASE \E t \in Threads : LockStep(t)
        BY <2>1, LockStepKeepsIInv
    <2>2. CASE UNCHANGED <<at, lock>>
        BY <2>2 DEF IInv, LockIsHeld
    <2>. QED BY <2>1, <2>2, NextIsLockStep DEF IInv
<1>3. IInv => LockIsHeld
    BY DEF IInv
<1>. QED
    BY <1>1, <1>2, <1>3, PTL DEF Spec

-----------------------------------------------------------------------------
(* Graph states and symbols.                                               *)

LEMMA GraphFacts ==
    /\ \A g \in Graph : /\ g.phase \in {"idle", "in", "after"}
                        /\ g.symbol \in Symbols /\ g.mode \in {"A", "B"}
                        /\ g = Idle <=> g.phase = "idle"
    /\ Idle \in Graph /\ Idle.phase = "idle" /\ Idle.mode = "A"
    /\ \A s \in Symbols, m \in {"A", "B"} :
          /\ In(s, m) \in Graph /\ In(s, m).phase = "in"
          /\ In(s, m).symbol = s /\ In(s, m).mode = m
          /\ After(s, m) \in Graph /\ After(s, m).phase = "after"
          /\ After(s, m).symbol = s /\ After(s, m).mode = m
          /\ \A g \in Graph : g.phase = "in" /\ g.symbol = s /\ g.mode = m => g = In(s, m)
          /\ \A g \in Graph : g.phase = "after" /\ g.symbol = s /\ g.mode = m => g = After(s, m)
BY DEF Graph, Idle, In, After, Symbols

LEMMA OppositeFacts ==
    \A s \in Symbols : /\ Opposite(s) \in Symbols /\ Opposite(s) # s
                       /\ \A u \in Symbols : u = s \/ u = Opposite(s)
<1>. TAKE s \in Symbols
<1>1. \E other \in Symbols : other # s
    BY DEF Symbols
<1>2. Opposite(s) \in Symbols /\ Opposite(s) # s
    BY <1>1 DEF Opposite
<1>. QED
    BY <1>2 DEF Symbols

-----------------------------------------------------------------------------
(* Types.                                                                  *)

ClientPlaces == {"none"} \union InNotify \union InSilence \union InUpdate
GenPlaces == InLoop \union InUpdate

Types == TypeOK /\ at \in [Threads -> Places]

(* The places of the other parts of the state.                             *)
KeyerTypes ==
    /\ graph_state \in Graph /\ key_value \in BOOLEAN /\ lock \in BOOLEAN
    /\ paddle \in [Symbols -> BOOLEAN] /\ latch \in [Symbols -> BOOLEAN]
    /\ curtis_mode_b \in BOOLEAN /\ curtis_b_latch \in BOOLEAN
ToneTypes ==
    /\ items \in Seq(Sounds) /\ just_emptied \in BOOLEAN
    /\ playing \in Sounds \union {"none"} /\ silencing \in BOOLEAN
ThreadTypes ==
    /\ at \in [Threads -> Places] /\ at["client"] \in ClientPlaces /\ at["gen"] \in GenPlaces
    /\ try \in [Threads -> {1, 2}]
    /\ mark \in [Threads -> [symbol : Symbols, alternates : {"no", "yes", "must"}]]
    /\ wait \in {"none", "idle", "mark", "space"} /\ asleep \in BOOLEAN

LEMMA TypesParts ==
    /\ Types <=> KeyerTypes /\ ToneTypes /\ ThreadTypes
    /\ Types' <=> KeyerTypes' /\ ToneTypes' /\ ThreadTypes'
BY DEF Types, TypeOK, KeyerTypes, ToneTypes, ThreadTypes, ClientPlaces, GenPlaces

LEMMA EnqueueTypes ==
    ASSUME Types, NEW sound \in Sounds, Enqueue(sound)
    PROVE  /\ items' \in Seq(Sounds) /\ Len(items') = Len(items) + 1
           /\ just_emptied' = FALSE /\ asleep' = FALSE /\ UNCHANGED <<playing, wait>>
BY DEF Types, TypeOK, Enqueue, Broadcast

LEMMA SetValueTypes ==
    ASSUME Types, NEW sound \in Sounds, NEW on \in BOOLEAN, SetValue(on, sound)
    PROVE  /\ items' \in Seq(Sounds) /\ key_value' = on
           /\ Len(items') = Len(items) + (IF key_value = on THEN 0 ELSE 1)
           /\ just_emptied' \in BOOLEAN /\ asleep' \in BOOLEAN /\ UNCHANGED <<playing, wait>>
<1>1. CASE key_value = on
    BY <1>1 DEF Types, TypeOK, SetValue, tones, waiting
<1>2. CASE key_value # on
    BY <1>2, EnqueueTypes DEF SetValue
<1>. QED BY <1>1, <1>2

LEMMA UpdateTypes ==
    ASSUME Types, NEW t \in Threads, Update(t)
    PROVE  Types'
<1>. USE TypesParts DEF KeyerTypes, ToneTypes, ThreadTypes, keyer, inputs, tones, waiting
<1>1. ASSUME NEW place \in InUpdate, Goto(t, place) PROVE 
          /\ at' \in [Threads -> Places]
          /\ at'["client"] \in ClientPlaces /\ at'["gen"] \in GenPlaces
    BY <1>1 DEF Goto, Threads, Places, ClientPlaces, GenPlaces
<1>2. ASSUME Return(t) PROVE
          /\ at' \in [Threads -> Places]
          /\ at'["client"] \in ClientPlaces /\ at'["gen"] \in GenPlaces
    BY <1>2 DEF Return, Goto, Threads, Places, ClientPlaces, GenPlaces, InLoop
<1>3. CASE UpdateFails(t)
    BY <1>1, <1>2, <1>3 DEF UpdateFails, InUpdate
<1>4. CASE UpdateRetries(t)
    BY <1>1, <1>4 DEF UpdateRetries, InUpdate
<1>5. CASE UpdateFindsNoLock(t) \/ UpdateLocks(t)
    BY <1>1, <1>5, ZenonT(60) DEF UpdateFindsNoLock, UpdateLocks, InUpdate
<1>6. CASE Dispatch(t)
    <2>1. PICK place \in InUpdate : Goto(t, place)
        BY <1>6 DEF Dispatch, InUpdate
    <2>2. mark' \in [Threads -> [symbol : Symbols, alternates : {"no", "yes", "must"}]]
        BY <1>6, GraphFacts, SMTT(30) DEF Dispatch
    <2>. QED BY <1>1, <1>6, <2>1, <2>2 DEF Dispatch
<1>7. CASE EndMark(t)
    <2>1. "ims" \in Sounds
        BY DEF Sounds
    <2>. QED BY <1>1, <1>7, <2>1, SetValueTypes DEF EndMark, InUpdate
<1>8. CASE Rest(t)
    <2>1. graph_state' \in Graph
        BY <1>8, GraphFacts DEF Rest
    <2>. QED BY <1>1, <1>8, <2>1 DEF Rest, InUpdate
<1>9. CASE ClearLatch(t)
    BY <1>1, <1>9 DEF ClearLatch, InUpdate
<1>10. CASE BeginMark(t)
    <2>1. PICK symbol \in Symbols, alternates \in {"no", "yes", "must"} :
              /\ SetValue(TRUE, symbol)
              /\ mark' = [mark EXCEPT ![t] = [symbol |-> symbol, alternates |-> alternates]]
        BY <1>10, OppositeFacts DEF BeginMark
    <2>2. symbol \in Sounds
        BY DEF Sounds
    <2>3. ToneTypes' /\ key_value' \in BOOLEAN /\ UNCHANGED wait /\ asleep' \in BOOLEAN
        BY <1>10, <2>1, <2>2, SetValueTypes DEF BeginMark
    <2>4. mark' \in [Threads -> [symbol : Symbols, alternates : {"no", "yes", "must"}]]
        BY <2>1
    <2>. QED BY <1>1, <1>10, <2>3, <2>4 DEF BeginMark, InUpdate
<1>11. CASE EnterMark(t)
    <2>1. graph_state' \in Graph
        BY <1>11, GraphFacts DEF EnterMark
    <2>. QED BY <1>1, <1>11, <2>1 DEF EnterMark, InUpdate
<1>12. CASE FindNothingToSend(t)
    BY <1>1, <1>12 DEF FindNothingToSend, InUpdate
<1>13. CASE GoIdle(t)
    BY <1>1, <1>13, GraphFacts DEF GoIdle, InUpdate
<1>14. CASE UpdateUnlocks(t)
    BY <1>2, <1>14 DEF UpdateUnlocks
<1>. QED
    BY <1>3, <1>4, <1>5, <1>6, <1>7, <1>8, <1>9, <1>10, <1>11, <1>12, <1>13, <1>14 DEF Update

LEMMA EmptyQueueTypes ==
    ASSUME Types, EmptyQueue
    PROVE  items' \in Seq(Sounds) /\ just_emptied' = FALSE /\ asleep' \in BOOLEAN /\ wait' = wait
<1>1. items' = <<>> /\ just_emptied' = FALSE /\ ((asleep' = FALSE /\ wait' = wait) \/ UNCHANGED waiting)
    BY DEF EmptyQueue, Broadcast
<1>2. asleep \in BOOLEAN
    BY DEF Types, TypeOK
<1>3. asleep' \in BOOLEAN /\ wait' = wait
    BY <1>1, <1>2 DEF waiting
<1>4. items' \in Seq(Sounds)
    BY <1>1
<1>. QED BY <1>1, <1>3, <1>4

LEMMA CallTypes ==
    ASSUME Types,
           \/ Request \/ NotifyLatches \/ NotifyCurtis \/ NotifyBusyKeyer \/ NotifyIdleKeyer
           \/ Silence \/ SilenceReachesLevel \/ SilenceEnqueues
    PROVE  Types'
<1>. USE TypesParts DEF KeyerTypes, ToneTypes, ThreadTypes, keyer, inputs, tones, waiting, local
<1>1. ASSUME NEW place \in ClientPlaces, Goto("client", place) PROVE
          /\ at' \in [Threads -> Places]
          /\ at'["client"] \in ClientPlaces /\ at'["gen"] \in GenPlaces
    BY <1>1 DEF Goto, Threads, Places, ClientPlaces
<1>2. {"none", "latches", "curtis", "look", "check", "silence", "level", "quantum", "level_again"}
          \subseteq ClientPlaces
    BY DEF ClientPlaces, InNotify, InSilence, InUpdate
<1>3. ASSUME NEW dot \in BOOLEAN, NEW dash \in BOOLEAN, NotifyPaddles(dot, dash) PROVE Types'
    BY <1>1, <1>2, <1>3 DEF NotifyPaddles
<1>4. ASSUME NEW on \in BOOLEAN, SetCurtisModeB(on) PROVE Types'
    BY <1>4 DEF SetCurtisModeB
<1>5. CASE SendText
    BY <1>5, EnqueueTypes DEF SendText, Sounds
<1>6. CASE FlushQueue
    BY <1>1, <1>2, <1>6, EmptyQueueTypes DEF FlushQueue, MakeEmpty
<1>7. CASE ResetState
    BY <1>1, <1>2, <1>7, GraphFacts DEF ResetState
<1>8. CASE NotifyLatches
    BY <1>1, <1>2, <1>8 DEF NotifyLatches
<1>9. CASE NotifyCurtis
    BY <1>1, <1>2, <1>9 DEF NotifyCurtis
<1>10. CASE NotifyBusyKeyer
    BY <1>1, <1>2, <1>10 DEF NotifyBusyKeyer
<1>11. CASE NotifyIdleKeyer
    <2>1. graph_state' \in Graph
        BY <1>11, GraphFacts DEF NotifyIdleKeyer, Symbols
    <2>. QED BY <1>1, <1>2, <1>11, <2>1, ZenonT(60) DEF NotifyIdleKeyer
<1>12. CASE Silence
    BY <1>1, <1>2, <1>12 DEF Silence
<1>13. CASE SilenceReachesLevel
    BY <1>1, <1>2, <1>13 DEF SilenceReachesLevel
<1>14. CASE SilenceEnqueues
    BY <1>1, <1>2, <1>14, EnqueueTypes DEF SilenceEnqueues, Sounds
<1>. QED
    BY <1>3, <1>4, <1>5, <1>6, <1>7, <1>8, <1>9, <1>10, <1>11, <1>12, <1>13, <1>14
    DEF Request, PaddleEvent

LEMMA LoopTypes ==
    ASSUME Types, DequeueLastEnded \/ DequeueTone \/ ToneEnds \/ LoopEnds
    PROVE  Types'
<1>. USE TypesParts
     DEF KeyerTypes, ToneTypes, ThreadTypes, keyer, inputs, tones, waiting, local, Broadcast
<1>1. ASSUME NEW place \in GenPlaces, Goto("gen", place) PROVE
          /\ at' \in [Threads -> Places]
          /\ at'["client"] \in ClientPlaces /\ at'["gen"] \in GenPlaces
    BY <1>1 DEF Goto, Threads, Places, GenPlaces
<1>2. {"ready", "play", "check"} \subseteq GenPlaces
    BY DEF GenPlaces, InLoop, InUpdate
<1>3. CASE DequeueLastEnded
    BY <1>3 DEF DequeueLastEnded
<1>4. CASE DequeueTone
    <2>1. items' \in Seq(Sounds) /\ playing' \in Sounds
        BY <1>4 DEF DequeueTone
    <2>. QED BY <1>1, <1>2, <1>4, <2>1 DEF DequeueTone
<1>5. CASE ToneEnds
    BY <1>1, <1>2, <1>5 DEF ToneEnds, Threads
<1>6. CASE LoopEnds
    BY <1>1, <1>2, <1>6, EmptyQueueTypes DEF LoopEnds
<1>. QED BY <1>3, <1>4, <1>5, <1>6

LEMMA NextTypes ==
    ASSUME Types, [Next]_vars
    PROVE  Types'
<1>1. CASE UNCHANGED vars
    BY <1>1, TypesParts
    DEF KeyerTypes, ToneTypes, ThreadTypes, vars, keyer, inputs, tones, waiting, local
<1>2. CASE Request \/ ClientGoesOn
    BY <1>2, CallTypes, UpdateTypes DEF ClientGoesOn, Threads
<1>3. CASE Generator
    BY <1>3, LoopTypes, UpdateTypes DEF Generator, Threads
<1>4. CASE Waiter
    <2>1. UNCHANGED <<keyer, inputs, tones, silencing, local>>
        BY <1>4
        DEF Waiter, WaitForKeyer, WaitForEndOfCurrentElement, WaitSleeps, WaitGoesOn, SpuriousWakeup
    <2>2. wait' \in {"none", "idle", "mark", "space"} /\ asleep' \in BOOLEAN
        BY <1>4
        DEF Waiter, WaitForKeyer, WaitForEndOfCurrentElement, WaitSleeps, WaitGoesOn,
            SpuriousWakeup, Types, TypeOK
    <2>. QED BY <2>1, <2>2, TypesParts
             DEF KeyerTypes, ToneTypes, ThreadTypes, keyer, inputs, tones, local
<1>. QED
    BY <1>1, <1>2, <1>3, <1>4 DEF Next

LEMMA InitTypes == Init => Types
<1>. SUFFICES ASSUME Init PROVE Types
    OBVIOUS
<1>1. KeyerTypes
    BY GraphFacts DEF Init, KeyerTypes
<1>2. ToneTypes
    <2>1. <<>> \in Seq(Sounds)
        OBVIOUS
    <2>. QED BY <2>1 DEF Init, ToneTypes
<1>3. ThreadTypes
    BY DEF Init, ThreadTypes, Threads, Places, ClientPlaces, GenPlaces, InLoop, Symbols
<1>. QED BY <1>1, <1>2, <1>3, TypesParts

-----------------------------------------------------------------------------
(* The two threads, while nothing but paddle events and changes of the     *)
(* mode reach the library and an update is timely.                         *)

(* The tones that are queued or being played.                              *)
Count == Len(items) + (IF at["gen"] = "play" THEN 1 ELSE 0)

KeyFits == key_value <=> graph_state.phase = "in"

Settled == KeyFits /\ Count = (IF graph_state = Idle THEN 0 ELSE 1)

(* Where thread t is in an update tells the graph state, the key and the   *)
(* number of tones: an update begins when the tone that drove it is gone,  *)
(* and enqueues the next one half way.                                     *)
BeforeTheKey == {"check", "retry", "lock", "dispatch", "end_mark", "clear_latch", "choose", "go_idle"}
AfterTheKey == {"rest", "enter"}
AtMark == {"end_mark", "rest"}
AtSpace == {"clear_latch", "choose", "enter", "go_idle"}

Driven(t) ==
    /\ at[t] \in BeforeTheKey => graph_state.phase # "idle" /\ KeyFits /\ Count = 0
    /\ at[t] \in AfterTheKey => ~KeyFits /\ Count = 1
    /\ at[t] \in AtMark => graph_state.phase = "in"
    /\ at[t] \in AtSpace => graph_state.phase = "after"
    /\ at[t] \in AtMark \union {"clear_latch", "choose"} => mark[t].symbol = graph_state.symbol
    /\ at[t] \notin BeforeTheKey \union AfterTheKey => Settled

(* The client begins an update when the generator thread is about to leave *)
(* its own, at the latest; it is then refused once, and not a second time. *)
Exclusive ==
    at["client"] \in InUpdate /\ at["gen"] \in InUpdate =>
        at["gen"] = "unlock" /\ at["client"] \in {"check", "retry"}
LockIsExact == lock <=> \E t \in Threads : at[t] \in Critical
NotRefusedAgain == at["gen"] # "retry" /\ (at["client"] = "check" /\ try["client"] = 2 => ~lock)
Apart == Exclusive /\ LockIsExact /\ NotRefusedAgain

(* The thread whose update drives the keyer.                               *)
Active == IF at["client"] \in InUpdate THEN "client" ELSE "gen"

Undisturbed == at["client"] \notin InSilence /\ ~silencing /\ Apart /\ Driven(Active)

(* An update leads from one tone to the next.                              *)
LEMMA UpdateKeepsDriven ==
    ASSUME Types, NEW t \in Threads, at[t] \in InUpdate, Driven(t), Update(t),
           at[t] = "check" /\ try[t] = 2 => ~lock
    PROVE  Driven(t)'
<1>1. /\ at \in [Threads -> Places] /\ items \in Seq(Sounds) /\ graph_state \in Graph
      /\ mark[t].symbol \in Symbols /\ key_value \in BOOLEAN
      /\ mark \in [Threads -> [symbol : Symbols, alternates : {"no", "yes", "must"}]]
    BY DEF Types, TypeOK
<1>2. ASSUME NEW place, Goto(t, place) PROVE at'[t] = place
    BY <1>1, <1>2 DEF Goto
<1>3. ASSUME Return(t) PROVE at'[t] \in {"done", "none"}
    BY <1>1, <1>3 DEF Return, Goto
<1>4. at'["gen"] = "play" <=> at["gen"] = "play"
    <2>1. LockStep(t)
        BY <1>1, UpdateIsLockStep
    <2>2. CASE t = "gen"
        <3>1. at["gen"] # "play"
            BY <2>2 DEF InUpdate
        <3>2. at'["gen"] # "play"
            BY <1>1, <1>3, <2>2
            DEF Update, UpdateFails, UpdateRetries, UpdateFindsNoLock, UpdateLocks, Dispatch,
                EndMark, Rest, ClearLatch, BeginMark, EnterMark, FindNothingToSend, GoIdle,
                UpdateUnlocks, Goto
        <3>. QED BY <3>1, <3>2
    <2>3. CASE t # "gen"
        BY <1>1, <2>1, <2>3 DEF LockStep, Moves, Threads
    <2>. QED BY <2>2, <2>3
<1>5. ASSUME UNCHANGED items PROVE Count' = Count
    BY <1>4, <1>5 DEF Count
<1>6. ASSUME NEW sound \in Sounds, NEW on \in BOOLEAN, key_value = ~on, SetValue(on, sound)
      PROVE  key_value' = on /\ Count' = Count + 1
    <2>1. Len(items') = Len(items) + 1 /\ key_value' = on
        BY <1>1, <1>6, SetValueTypes
    <2>. QED BY <1>1, <1>4, <2>1 DEF Count
<1>. USE DEF Driven, BeforeTheKey, AfterTheKey, AtMark, AtSpace
<1>7. CASE UpdateFails(t) \/ UpdateRetries(t) \/ UpdateFindsNoLock(t) \/ UpdateLocks(t)
    <2>1. at[t] \in {"check", "retry", "lock"} /\ UNCHANGED <<graph_state, key_value, items>>
        BY <1>7 DEF UpdateFails, UpdateRetries, UpdateFindsNoLock, UpdateLocks, keyer, tones
    <2>2. at'[t] \in {"check", "retry", "lock", "dispatch"}
        <3>1. CASE UpdateFails(t)
            <4>1. lock /\ try[t] = 1
                BY <3>1 DEF UpdateFails, Types, TypeOK
            <4>. QED BY <1>2, <3>1, <4>1 DEF UpdateFails
        <3>2. CASE UpdateRetries(t) \/ UpdateFindsNoLock(t) \/ UpdateLocks(t)
            BY <1>2, <3>2 DEF UpdateRetries, UpdateFindsNoLock, UpdateLocks
        <3>. QED BY <1>7, <3>1, <3>2
    <2>. QED BY <1>5, <2>1, <2>2 DEF KeyFits
<1>8. CASE Dispatch(t)
    <2>1. at[t] = "dispatch" /\ UNCHANGED <<graph_state, key_value, items>>
        BY <1>8 DEF Dispatch, keyer, tones
    <2>2. mark'[t].symbol = graph_state.symbol
        BY <1>1, <1>8 DEF Dispatch
    <2>3. \/ graph_state.phase = "in" /\ at'[t] = "end_mark"
          \/ graph_state.phase = "after" /\ at'[t] \in {"choose", "clear_latch"}
        BY <1>2, <1>8, <2>1 DEF Dispatch
    <2>. QED BY <1>5, <2>1, <2>2, <2>3 DEF KeyFits
<1>9. CASE EndMark(t)
    <2>1. /\ at[t] = "end_mark" /\ at'[t] = "rest" /\ SetValue(FALSE, "ims")
          /\ UNCHANGED <<graph_state, mark>>
        BY <1>2, <1>9 DEF EndMark
    <2>2. key_value = ~FALSE /\ "ims" \in Sounds
        BY <2>1 DEF KeyFits, Sounds
    <2>3. key_value' = FALSE /\ Count' = Count + 1
        BY <1>6, <2>1, <2>2
    <2>. QED BY <2>1, <2>3 DEF KeyFits
<1>10. CASE Rest(t)
    <2>1. at[t] = "rest" /\ at'[t] = "unlock" /\ UNCHANGED <<key_value, items>>
        BY <1>2, <1>10 DEF Rest, tones
    <2>2. graph_state'.phase = "after" /\ graph_state' # Idle
        BY <1>1, <1>10, GraphFacts DEF Rest
    <2>. QED BY <1>5, <2>1, <2>2 DEF KeyFits, Settled
<1>11. CASE ClearLatch(t)
    <2>1. at[t] = "clear_latch" /\ at'[t] = "choose" /\ UNCHANGED <<graph_state, key_value, items, mark>>
        BY <1>2, <1>11 DEF ClearLatch, tones
    <2>. QED BY <1>5, <2>1 DEF KeyFits
<1>12. CASE BeginMark(t)
    <2>1. at[t] = "choose" /\ at'[t] = "enter" /\ UNCHANGED graph_state
        BY <1>2, <1>12 DEF BeginMark
    <2>2. PICK symbol \in Symbols : SetValue(TRUE, symbol)
        BY <1>1, <1>12, OppositeFacts DEF BeginMark
    <2>3. key_value = ~TRUE /\ symbol \in Sounds
        <3>1. graph_state.phase # "in" /\ KeyFits
            BY <2>1
        <3>. QED BY <1>1, <3>1 DEF KeyFits, Sounds
    <2>4. key_value' = TRUE /\ Count' = Count + 1
        BY <1>6, <2>2, <2>3
    <2>. QED BY <2>1, <2>4 DEF KeyFits
<1>13. CASE EnterMark(t)
    <2>1. at[t] = "enter" /\ at'[t] = "unlock" /\ UNCHANGED <<key_value, items>>
        BY <1>2, <1>13 DEF EnterMark, tones
    <2>2. graph_state'.phase = "in" /\ graph_state' # Idle
        BY <1>1, <1>13, GraphFacts DEF EnterMark
    <2>. QED BY <1>5, <2>1, <2>2 DEF KeyFits, Settled
<1>14. CASE FindNothingToSend(t)
    <2>1. at[t] = "choose" /\ at'[t] = "go_idle" /\ UNCHANGED <<graph_state, key_value, items>>
        BY <1>2, <1>14 DEF FindNothingToSend, keyer, tones
    <2>. QED BY <1>5, <2>1 DEF KeyFits
<1>15. CASE GoIdle(t)
    <2>1. /\ at[t] = "go_idle" /\ at'[t] = "unlock" /\ UNCHANGED <<key_value, items>>
          /\ graph_state' = Idle
        BY <1>2, <1>15 DEF GoIdle, tones
    <2>. QED BY <1>5, <2>1, GraphFacts DEF KeyFits, Settled
<1>16. CASE UpdateUnlocks(t)
    <2>1. /\ at[t] = "unlock" /\ at'[t] \in {"done", "none"}
          /\ UNCHANGED <<graph_state, key_value, items>>
        BY <1>3, <1>16 DEF UpdateUnlocks, tones
    <2>. QED BY <1>5, <2>1 DEF KeyFits, Settled
<1>. QED
    BY <1>7, <1>8, <1>9, <1>10, <1>11, <1>12, <1>13, <1>14, <1>15, <1>16 DEF Update

(* The threads stay apart: whoever is in the critical section is alone     *)
(* there, although the lock is a plain flag.                               *)
LEMMA UpdateKeepsApart ==
    ASSUME Types, Timely, NEW t \in Threads, Apart, Update(t)
    PROVE  Apart'
<1>. USE DEF Threads
<1>1. at \in [Threads -> Places] /\ lock \in BOOLEAN /\ try \in [Threads -> {1, 2}]
    BY DEF Types, TypeOK
<1>2. at["client"] \notin InLoop /\ at["gen"] \notin {"none"}
    BY DEF Types, TypeOK, InLoop, InUpdate, InNotify, InSilence
<1>. USE DEF Apart, Exclusive, LockIsExact, NotRefusedAgain, Critical, InUpdate, Goto, Return
<1>3. CASE UpdateFails(t)
    BY <1>1, <1>2, <1>3 DEF UpdateFails, keyer
<1>4. CASE UpdateRetries(t)
    BY <1>1, <1>2, <1>4 DEF UpdateRetries, keyer
<1>5. CASE UpdateFindsNoLock(t)
    BY <1>1, <1>2, <1>5 DEF UpdateFindsNoLock, keyer
<1>6. CASE UpdateLocks(t)
    BY <1>1, <1>2, <1>6 DEF UpdateLocks
<1>7. CASE Dispatch(t)
    BY <1>1, <1>2, <1>7 DEF Dispatch, keyer
<1>8. CASE EndMark(t) \/ Rest(t) \/ ClearLatch(t)
    BY <1>1, <1>2, <1>8 DEF EndMark, Rest, ClearLatch
<1>9. CASE BeginMark(t) \/ EnterMark(t)
    BY <1>1, <1>2, <1>9 DEF BeginMark, EnterMark
<1>10. CASE FindNothingToSend(t) \/ GoIdle(t)
    BY <1>1, <1>2, <1>10 DEF FindNothingToSend, GoIdle, keyer
<1>11. CASE UpdateUnlocks(t)
    BY <1>1, <1>2, <1>11 DEF UpdateUnlocks
<1>. QED
    BY <1>3, <1>4, <1>5, <1>6, <1>7, <1>8, <1>9, <1>10, <1>11 DEF Update

(* The client's update drives the keyer as soon as it has begun, although  *)
(* the generator thread may still be leaving its own.                      *)
LEMMA UpdateKeepsUndisturbed ==
    ASSUME Types, Timely, NEW t \in Threads, Undisturbed, Update(t)
    PROVE  Undisturbed'
<1>1. Apart'
    BY UpdateKeepsApart DEF Undisturbed
<1>2. UNCHANGED silencing
    BY DEF Update, UpdateFails, UpdateRetries, UpdateFindsNoLock, UpdateLocks, Dispatch, EndMark,
           Rest, ClearLatch, BeginMark, EnterMark, FindNothingToSend, GoIdle, UpdateUnlocks
<1>3. at[t] \in InUpdate
    BY DEF Update, UpdateFails, UpdateRetries, UpdateFindsNoLock, UpdateLocks, Dispatch, EndMark,
           Rest, ClearLatch, BeginMark, EnterMark, FindNothingToSend, GoIdle, UpdateUnlocks,
           InUpdate
<1>4. Types'
    BY UpdateTypes
<1>5. at'[t] \in InUpdate \union {"none", "done"} /\ \A u \in Threads \ {t} : at'[u] = at[u]
    <2>1. at \in [Threads -> Places]
        BY DEF Types
    <2>. QED BY <2>1
             DEF Update, UpdateFails, UpdateRetries, UpdateFindsNoLock, UpdateLocks, Dispatch,
                 EndMark, Rest, ClearLatch, BeginMark, EnterMark, FindNothingToSend, GoIdle,
                 UpdateUnlocks, Return, Goto, InUpdate
<1>6. at[t] = "check" /\ try[t] = 2 => ~lock
    BY DEF Undisturbed, Apart, Exclusive, LockIsExact, NotRefusedAgain, Critical, Threads,
           InUpdate
<1>7. at'["client"] \notin InSilence
    BY <1>5 DEF Undisturbed, Threads, InSilence, InUpdate
<1>8. CASE t = Active
    <2>1. Driven(t)'
        BY <1>3, <1>6, <1>8, UpdateKeepsDriven DEF Undisturbed
    <2>2. CASE Active' = t
        BY <1>1, <1>2, <1>7, <2>1, <2>2 DEF Undisturbed
    <2>3. CASE Active' # t
        <3>1. t = "client" /\ at'["client"] \notin InUpdate /\ Active' = "gen"
            BY <1>5, <1>8, <2>3 DEF Active, Threads
        <3>2. Settled'
            BY <2>1, <3>1 DEF Driven, BeforeTheKey, AfterTheKey, InUpdate
        <3>3. at["client"] \in InUpdate /\ at["client"] \notin {"check", "retry"}
            <4>1. ~UpdateFails(t)
                <5>1. SUFFICES ASSUME UpdateFails(t) PROVE FALSE
                    OBVIOUS
                <5>2. at[t] = "check" /\ lock /\ try[t] = 1
                    BY <1>6, <5>1 DEF UpdateFails, Types, TypeOK
                <5>3. at'["client"] = "retry"
                    BY <3>1, <5>1, <5>2 DEF UpdateFails, Goto, Types
                <5>. QED BY <3>1, <5>3 DEF InUpdate
            <4>2. at'["client"] \in {"check", "lock"} \/ at["client"] \notin {"check", "retry"}
                BY <3>1, <4>1
                DEF Update, UpdateFails, UpdateRetries, UpdateFindsNoLock, UpdateLocks, Dispatch,
                    EndMark, Rest, ClearLatch, BeginMark, EnterMark, FindNothingToSend, GoIdle,
                    UpdateUnlocks, Goto, Types
            <4>. QED BY <1>3, <3>1, <4>2 DEF InUpdate
        <3>4. at'["gen"] \notin InUpdate
            BY <1>5, <3>1, <3>3 DEF Undisturbed, Apart, Exclusive, Threads
        <3>5. Driven("gen")'
            BY <3>2, <3>4 DEF Driven, BeforeTheKey, AfterTheKey, AtMark, AtSpace, InUpdate
        <3>. QED BY <1>1, <1>2, <1>7, <3>1, <3>5 DEF Undisturbed
    <2>. QED BY <2>2, <2>3
<1>9. CASE t # Active
    <2>1. t = "gen" /\ Active = "client" /\ at["client"] \in InUpdate
        BY <1>3, <1>9 DEF Active, Threads
    <2>2. at["gen"] = "unlock" /\ at["client"] \in {"check", "retry"}
        BY <1>3, <2>1 DEF Undisturbed, Apart, Exclusive
    <2>3. UpdateUnlocks("gen")
        BY <2>1, <2>2
        DEF Update, UpdateFails, UpdateRetries, UpdateFindsNoLock, UpdateLocks, Dispatch, EndMark,
            Rest, ClearLatch, BeginMark, EnterMark, FindNothingToSend, GoIdle
    <2>4. /\ UNCHANGED <<graph_state, key_value, items, mark>> /\ at'["client"] = at["client"]
          /\ at'["gen"] = "done"
        BY <2>3 DEF UpdateUnlocks, Return, Goto, Types, tones, Threads
    <2>5. Driven("client")'
        BY <2>1, <2>2, <2>4
        DEF Undisturbed, Driven, BeforeTheKey, AfterTheKey, AtMark, AtSpace, KeyFits, Count
    <2>. QED BY <1>1, <1>2, <1>7, <2>1, <2>4, <2>5 DEF Undisturbed, Active
<1>. QED BY <1>8, <1>9

(* A paddle event starts an idle keyer only; a change of the mode does not *)
(* touch it.                                                               *)
LEMMA PaddlesKeepUndisturbed ==
    ASSUME Types, Undisturbed,
           \/ PaddleEvent \/ NotifyLatches \/ NotifyCurtis \/ NotifyBusyKeyer \/ NotifyIdleKeyer
           \/ \E on \in BOOLEAN : SetCurtisModeB(on)
    PROVE  Undisturbed'
<1>1. at \in [Threads -> Places] /\ try \in [Threads -> {1, 2}]
    BY DEF Types, TypeOK
<1>. USE DEF Undisturbed, Active, Apart, Exclusive, LockIsExact, NotRefusedAgain, Threads
<1>2. ASSUME at["client"] \notin InUpdate, UNCHANGED <<graph_state, key_value, items, lock, silencing, try, mark>>,
             NEW place \in {"none"} \union InNotify, Goto("client", place)
      PROVE  Undisturbed'
    <2>1. at'["client"] = place /\ at'["gen"] = at["gen"] /\ place \notin InUpdate \union InSilence
        BY <1>1, <1>2 DEF Goto, InNotify, InUpdate, InSilence
    <2>2. place \notin Critical /\ at["client"] \notin Critical
        BY <1>2, <2>1 DEF Critical, InUpdate
    <2>3. Apart'
        BY <1>1, <1>2, <2>1, <2>2 DEF InUpdate
    <2>4. Driven("gen")'
        BY <1>1, <1>2, <2>1 DEF Driven, KeyFits, Settled, Count
    <2>. QED BY <1>2, <2>1, <2>3, <2>4
<1>3. CASE PaddleEvent
    BY <1>2, <1>3 DEF PaddleEvent, NotifyPaddles, InNotify, InUpdate, keyer, tones
<1>4. CASE NotifyLatches
    BY <1>2, <1>4 DEF NotifyLatches, InNotify, InUpdate, tones
<1>5. CASE NotifyCurtis
    BY <1>2, <1>5 DEF NotifyCurtis, InNotify, InUpdate, tones
<1>6. CASE NotifyBusyKeyer
    BY <1>2, <1>6 DEF NotifyBusyKeyer, InNotify, InUpdate, tones, keyer
<1>7. CASE \E on \in BOOLEAN : SetCurtisModeB(on)
    BY <1>7 DEF SetCurtisModeB, keyer, tones, local, Driven, KeyFits, Settled, Count
<1>8. CASE NotifyIdleKeyer
    <2>1. /\ at["client"] = "look" /\ graph_state = Idle
          /\ at'["client"] = "check" /\ try'["client"] = 1 /\ at'["gen"] = at["gen"]
          /\ UNCHANGED <<key_value, items, lock, silencing, mark>>
        BY <1>1, <1>8 DEF NotifyIdleKeyer, Goto, tones
    <2>2. at["gen"] \notin InUpdate \ {"unlock"} /\ Settled
        BY <2>1, GraphFacts DEF Driven, BeforeTheKey, AfterTheKey, AtMark, AtSpace, InUpdate
    <2>3. Apart'
        BY <1>1, <2>1, <2>2 DEF Critical, InUpdate
    <2>4. graph_state'.phase = "after"
        BY <1>8, GraphFacts DEF NotifyIdleKeyer, Symbols
    <2>5. Driven("client")'
        BY <2>1, <2>2, <2>4, GraphFacts
        DEF Driven, Settled, KeyFits, Count, BeforeTheKey, AfterTheKey, AtMark, AtSpace
    <2>. QED BY <2>1, <2>3, <2>5 DEF InUpdate, InSilence
<1>. QED BY <1>3, <1>4, <1>5, <1>6, <1>7, <1>8

(* The generator thread's loop around the update: the end of a tone begins *)
(* an update, and there is no other tone then.                             *)
LEMMA LoopKeepsUndisturbed ==
    ASSUME Types, Timely, Undisturbed, DequeueLastEnded \/ DequeueTone \/ ToneEnds \/ LoopEnds
    PROVE  Undisturbed'
<1>1. at \in [Threads -> Places] /\ try \in [Threads -> {1, 2}] /\ items \in Seq(Sounds)
    BY DEF Types, TypeOK
<1>. USE DEF Undisturbed, Active, Apart, Exclusive, LockIsExact, NotRefusedAgain, Threads
<1>2. ASSUME at["gen"] \in InLoop, UNCHANGED <<graph_state, key_value, lock, silencing, try, mark>>,
             Count' = Count, at'["client"] = at["client"], at'["gen"] \in InLoop
      PROVE  Undisturbed'
    <2>1. at["gen"] \notin InUpdate /\ at'["gen"] \notin InUpdate
        BY <1>2 DEF InLoop, InUpdate
    <2>2. at["gen"] \notin Critical /\ at'["gen"] \notin Critical /\ at'["gen"] # "retry"
        BY <2>1 DEF Critical, InUpdate
    <2>3. Apart'
        BY <1>1, <1>2, <2>1, <2>2
    <2>4. ASSUME NEW t \in Threads, Driven(t), t = Active PROVE Driven(t)'
        <3>1. CASE t = "client"
            BY <1>2, <2>4, <3>1 DEF Driven, KeyFits, Settled
        <3>2. CASE t = "gen"
            <4>1. Settled
                BY <2>1, <2>4, <3>2 DEF Driven, BeforeTheKey, AfterTheKey, InUpdate
            <4>2. Settled'
                BY <1>2, <4>1 DEF KeyFits, Settled
            <4>. QED BY <2>1, <3>2, <4>2
                     DEF Driven, BeforeTheKey, AfterTheKey, AtMark, AtSpace, InUpdate
        <3>. QED BY <3>1, <3>2
    <2>. QED BY <1>2, <2>3, <2>4
<1>3. CASE DequeueLastEnded
    <2>1. UNCHANGED <<at, items, graph_state, key_value, lock, silencing, try, mark>> /\ at["gen"] = "ready"
        BY <1>3 DEF DequeueLastEnded, keyer, local
    <2>. QED BY <1>2, <2>1 DEF Count, InLoop
<1>4. CASE DequeueTone
    <2>1. /\ at["gen"] = "ready" /\ at'["gen"] = "play" /\ at'["client"] = at["client"]
          /\ UNCHANGED <<graph_state, key_value, lock, silencing, try, mark>>
          /\ Len(items') = Len(items) - 1
        BY <1>1, <1>4 DEF DequeueTone, keyer, Goto
    <2>2. Count' = Count
        BY <1>1, <2>1 DEF Count
    <2>. QED BY <1>2, <2>1, <2>2 DEF InLoop
<1>5. CASE LoopEnds
    <2>1. /\ at["gen"] = "done" /\ at'["gen"] = "ready" /\ at'["client"] = at["client"]
          /\ UNCHANGED <<graph_state, key_value, lock, try, mark, items>> /\ silencing' = FALSE
        BY <1>1, <1>5 DEF LoopEnds, keyer, Goto
    <2>2. silencing = FALSE
        BY DEF Types, TypeOK
    <2>. QED BY <1>2, <2>1, <2>2 DEF InLoop, Count
<1>6. CASE ToneEnds
    <2>1. /\ at["gen"] = "play" /\ at'["gen"] = "check" /\ at'["client"] = at["client"]
          /\ at["client"] \notin InUpdate
          /\ UNCHANGED <<graph_state, key_value, lock, silencing, mark, items>>
          /\ try'["client"] = try["client"]
        BY <1>1, <1>6 DEF ToneEnds, keyer, Goto, tones
    <2>2. Settled
        BY <2>1 DEF Driven, BeforeTheKey, AfterTheKey
    <2>3. Len(items) \in Nat
        BY <1>1
    <2>4. graph_state # Idle /\ Count' = 0
        BY <2>1, <2>2, <2>3 DEF Settled, Count
    <2>5. graph_state.phase # "idle"
        BY <2>4, GraphFacts DEF Types, TypeOK
    <2>6. Apart'
        BY <2>1 DEF Critical, InUpdate
    <2>7. Driven("gen")'
        BY <2>1, <2>2, <2>4, <2>5
        DEF Driven, Settled, KeyFits, BeforeTheKey, AfterTheKey, AtMark, AtSpace
    <2>. QED BY <2>1, <2>6, <2>7
<1>. QED BY <1>3, <1>4, <1>5, <1>6

(* In an undisturbed keyer an update is run by the active thread; only the *)
(* generator thread's last step out of its own may come in between.        *)
LEMMA UpdaterIsActive ==
    ASSUME Undisturbed, NEW t \in Threads, Update(t), at[t] # "unlock"
    PROVE  t = Active /\ Driven(t)
<1>1. at[t] \in InUpdate
    BY DEF Update, UpdateFails, UpdateRetries, UpdateFindsNoLock, UpdateLocks, Dispatch, EndMark,
           Rest, ClearLatch, BeginMark, EnterMark, FindNothingToSend, GoIdle, UpdateUnlocks,
           InUpdate
<1>. QED BY <1>1 DEF Undisturbed, Apart, Exclusive, Active, Threads

-----------------------------------------------------------------------------
(* A squeeze and its release.                                              *)

(* The marks that are still to come once both paddles are open: one after  *)
(* a B state, one for the latch of the other symbol, and one more if that  *)
(* one begins a B state.                                                   *)
Remaining ==
    IF at["gen"] = "enter" THEN IF mark["gen"].alternates = "yes" /\ curtis_b_latch THEN 1 ELSE 0
    ELSE IF graph_state = Idle THEN 0
    ELSE IF graph_state.mode = "B" THEN 1
    ELSE IF ~latch[Opposite(graph_state.symbol)] THEN 0
    ELSE IF curtis_b_latch THEN 2 ELSE 1

MaxExtra == IF wasB THEN 2 ELSE 1

(* The paddles are open, and the generator thread clears the latch of the  *)
(* symbol just sent before it chooses the next one.                        *)
Released ==
    /\ at["client"] \notin InUpdate
    /\ \A s \in Symbols : ~paddle[s]
    /\ at["gen"] \in {"choose", "enter"} => ~latch[graph_state.symbol]
    /\ at["gen"] = "enter" => mark["gen"].symbol = Opposite(graph_state.symbol)

NeverB == ~curtis_mode_b /\ ~curtis_b_latch /\ graph_state.mode = "A"

HistoryInv ==
    /\ Types /\ extra \in Nat /\ wasB \in BOOLEAN
    /\ ~disturbed => Undisturbed
    /\ ~counting => extra = 0
    /\ counting => ~disturbed /\ Released /\ extra + Remaining <= MaxExtra
    /\ ~disturbed /\ ~wasB => NeverB

LEMMA RemainingType ==
    /\ Remaining \in 0..2 /\ Remaining' \in 0..2
    /\ NeverB => Remaining <= 1
    /\ NeverB' => Remaining' <= 1
BY DEF Remaining, NeverB

LEMMA MarksAddUp ==
    \A e \in Nat, m \in Nat, r \in 0..2, s \in 0..2 :
        /\ s + 1 <= r => s <= r
        /\ e + r <= m /\ s <= r => e + s <= m
        /\ e + r <= m /\ s + 1 <= r => (e + 1) + s <= m
OBVIOUS

(* An update of the generator thread takes one of the remaining marks each *)
(* time it begins one.                                                     *)
LEMMA UpdateSpendsRemaining ==
    ASSUME Types, Undisturbed, Released, Update("gen")
    PROVE  /\ Released' /\ Remaining' <= Remaining
           /\ BeginMark("gen") => Remaining' + 1 <= Remaining
<1>1. /\ at \in [Threads -> Places] /\ graph_state \in Graph /\ latch \in [Symbols -> BOOLEAN]
      /\ curtis_b_latch \in BOOLEAN /\ "gen" \in Threads
      /\ mark \in [Threads -> [symbol : Symbols, alternates : {"no", "yes", "must"}]]
    BY DEF Types, TypeOK, Threads
<1>2. Remaining \in 0..2 /\ Remaining' \in 0..2
    BY RemainingType
<1>3. UNCHANGED paddle /\ at'["client"] = at["client"]
    BY <1>1
    DEF Update, UpdateFails, UpdateRetries, UpdateFindsNoLock, UpdateLocks, Dispatch, EndMark,
        Rest, ClearLatch, BeginMark, EnterMark, FindNothingToSend, GoIdle, UpdateUnlocks, Return,
        Goto, inputs, Threads
<1>4. ASSUME NEW place, Goto("gen", place) PROVE at'["gen"] = place
    BY <1>1, <1>4 DEF Goto
<1>5. Active = "gen" /\ Driven("gen")
    BY DEF Released, Active, Undisturbed
<1>6. graph_state.symbol \in Symbols /\ mark["gen"].symbol \in Symbols
    BY <1>1, GraphFacts
<1>7. CASE \/ UpdateFails("gen") \/ UpdateRetries("gen") \/ UpdateFindsNoLock("gen")
           \/ UpdateLocks("gen") \/ EndMark("gen") \/ UpdateUnlocks("gen")
    <2>1. /\ UNCHANGED <<graph_state, latch, curtis_b_latch>> /\ at["gen"] \notin {"enter", "choose"}
        BY <1>7
        DEF UpdateFails, UpdateRetries, UpdateFindsNoLock, UpdateLocks, EndMark, UpdateUnlocks,
            keyer
    <2>2. at'["gen"] \notin {"enter", "choose"}
        BY <1>4, <1>7
        DEF UpdateFails, UpdateRetries, UpdateFindsNoLock, UpdateLocks, EndMark, UpdateUnlocks,
            Return
    <2>3. ~BeginMark("gen")
        BY <2>1 DEF BeginMark
    <2>. QED BY <1>2, <1>3, <2>1, <2>2, <2>3 DEF Released, Remaining
<1>8. CASE Dispatch("gen")
    <2>1. UNCHANGED <<graph_state, latch, curtis_b_latch>> /\ at["gen"] = "dispatch"
        BY <1>8 DEF Dispatch, keyer
    <2>2. at'["gen"] \notin {"enter", "choose"}
        BY <1>4, <1>6, <1>8 DEF Dispatch, Released
    <2>3. ~BeginMark("gen")
        BY <2>1 DEF BeginMark
    <2>. QED BY <1>2, <1>3, <2>1, <2>2, <2>3 DEF Released, Remaining
<1>9. CASE Rest("gen")
    <2>1. /\ UNCHANGED <<latch, curtis_b_latch>> /\ at["gen"] = "rest" /\ at'["gen"] = "unlock"
          /\ mark["gen"].symbol = graph_state.symbol /\ graph_state.phase = "in"
        BY <1>4, <1>5, <1>9 DEF Rest, Driven, AtMark
    <2>2. graph_state' = After(graph_state.symbol, graph_state.mode)
        BY <1>1, <1>9, <2>1, GraphFacts DEF Rest
    <2>3. /\ graph_state'.symbol = graph_state.symbol /\ graph_state'.mode = graph_state.mode
          /\ graph_state # Idle
        BY <1>1, <1>6, <2>1, <2>2, GraphFacts
    <2>4. ~BeginMark("gen")
        BY <2>1 DEF BeginMark
    <2>5. Released'
        BY <1>3, <2>1 DEF Released
    <2>6. Remaining' <= Remaining
        BY <1>2, <2>1, <2>3 DEF Remaining
    <2>. QED BY <1>2, <2>4, <2>5, <2>6
<1>10. CASE ClearLatch("gen")
    <2>1. /\ at["gen"] = "clear_latch" /\ at'["gen"] = "choose"
          /\ UNCHANGED <<graph_state, curtis_b_latch>>
          /\ latch' = [latch EXCEPT ![graph_state.symbol] = FALSE]
        BY <1>4, <1>5, <1>10 DEF ClearLatch, Driven, AtMark
    <2>2. /\ latch'[graph_state.symbol] = FALSE
          /\ latch'[Opposite(graph_state.symbol)] = latch[Opposite(graph_state.symbol)]
        BY <1>1, <1>6, <2>1, OppositeFacts
    <2>3. ~BeginMark("gen")
        BY <2>1 DEF BeginMark
    <2>4. Released'
        BY <1>3, <2>1, <2>2 DEF Released
    <2>5. Remaining' <= Remaining
        BY <1>2, <2>1, <2>2 DEF Remaining
    <2>. QED BY <1>2, <2>3, <2>4, <2>5
<1>11. CASE BeginMark("gen")
    <2>1. /\ at["gen"] = "choose" /\ at'["gen"] = "enter"
          /\ UNCHANGED <<graph_state, latch, curtis_b_latch>>
          /\ mark["gen"].symbol = graph_state.symbol /\ graph_state.phase = "after"
        BY <1>4, <1>5, <1>11 DEF BeginMark, Driven, AtMark, AtSpace
    <2>2. ~latch[graph_state.symbol] /\ graph_state # Idle
        BY <1>1, <2>1, GraphFacts DEF Released
    <2>3. graph_state = After(graph_state.symbol, "B") <=> graph_state.mode = "B"
        BY <1>1, <1>6, <2>1, GraphFacts
    <2>4. graph_state.mode = "B" \/ latch[Opposite(graph_state.symbol)]
        BY <1>11, <2>1, <2>2, <2>3 DEF BeginMark
    <2>5. mark'["gen"] = [symbol |-> Opposite(graph_state.symbol),
                          alternates |-> IF graph_state.mode = "B" THEN "must" ELSE "yes"]
        BY <1>1, <1>11, <2>1, <2>3, <2>4 DEF BeginMark
    <2>6. Released'
        BY <1>3, <2>1, <2>2, <2>5 DEF Released
    <2>7. Remaining' + 1 <= Remaining
        BY <2>1, <2>2, <2>4, <2>5 DEF Remaining
    <2>8. Remaining' <= Remaining
        BY <1>2, <2>7, MarksAddUp, Zenon
    <2>. QED BY <2>6, <2>7, <2>8
<1>12. CASE EnterMark("gen")
    <2>1. /\ at["gen"] = "enter" /\ at'["gen"] = "unlock" /\ UNCHANGED latch
          /\ ~latch[graph_state.symbol] /\ mark["gen"].symbol = Opposite(graph_state.symbol)
        BY <1>4, <1>12 DEF EnterMark, Released
    <2>2. Opposite(mark["gen"].symbol) = graph_state.symbol
        BY <1>6, <2>1, OppositeFacts
    <2>3. LET usesLatch == mark["gen"].alternates = "yes" /\ curtis_b_latch
          IN  /\ graph_state' = In(mark["gen"].symbol, IF usesLatch THEN "B" ELSE "A")
              /\ graph_state'.symbol = mark["gen"].symbol
              /\ graph_state'.mode = IF usesLatch THEN "B" ELSE "A"
        BY <1>6, <1>12, GraphFacts DEF EnterMark
    <2>4. ~BeginMark("gen")
        BY <2>1 DEF BeginMark
    <2>5. Released'
        BY <1>3, <2>1 DEF Released
    <2>6. Remaining' <= Remaining
        BY <2>1, <2>2, <2>3 DEF Remaining
    <2>. QED BY <1>2, <2>4, <2>5, <2>6
<1>13. CASE FindNothingToSend("gen")
    <2>1. /\ UNCHANGED <<graph_state, latch, curtis_b_latch>>
          /\ at["gen"] = "choose" /\ at'["gen"] = "go_idle"
        BY <1>4, <1>13 DEF FindNothingToSend, keyer
    <2>2. ~BeginMark("gen")
        BY <1>1, <2>1 DEF BeginMark, Goto
    <2>. QED BY <1>2, <1>3, <2>1, <2>2 DEF Released, Remaining
<1>14. CASE GoIdle("gen")
    <2>1. at["gen"] = "go_idle" /\ at'["gen"] = "unlock" /\ graph_state' = Idle
        BY <1>4, <1>14 DEF GoIdle
    <2>2. ~BeginMark("gen")
        BY <2>1 DEF BeginMark
    <2>. QED BY <1>2, <1>3, <2>1, <2>2 DEF Released, Remaining
<1>. QED
    BY <1>7, <1>8, <1>9, <1>10, <1>11, <1>12, <1>13, <1>14 DEF Update

(* The other steps of the two threads leave the released keyer as it is.   *)
LEMMA OtherStepsKeepReleased ==
    ASSUME Types, Undisturbed, Released, ClientGoesOn \/ Generator, ~Update("gen")
    PROVE  Released' /\ Remaining' = Remaining
<1>1. /\ at \in [Threads -> Places] /\ paddle \in [Symbols -> BOOLEAN]
      /\ latch \in [Symbols -> BOOLEAN] /\ curtis_b_latch \in BOOLEAN
    BY DEF Types, TypeOK
<1>. USE DEF Goto, Threads, InUpdate
<1>2. ~Update("client")
    BY DEF Released, Update, UpdateFails, UpdateRetries, UpdateFindsNoLock, UpdateLocks, Dispatch,
           EndMark, Rest, ClearLatch, BeginMark, EnterMark, FindNothingToSend, GoIdle,
           UpdateUnlocks
<1>3. CASE NotifyLatches
    <2>1. latch' = latch
        BY <1>1, <1>3 DEF NotifyLatches, Released
    <2>. QED BY <1>1, <1>3, <2>1 DEF NotifyLatches, Released, Remaining, inputs
<1>4. CASE NotifyCurtis
    <2>1. curtis_b_latch' = curtis_b_latch
        BY <1>1, <1>4 DEF NotifyCurtis, Released, Symbols
    <2>. QED BY <1>1, <1>4, <2>1 DEF NotifyCurtis, Released, Remaining, inputs
<1>5. CASE NotifyBusyKeyer
    BY <1>1, <1>5 DEF NotifyBusyKeyer, Released, Remaining, inputs, keyer
<1>6. CASE NotifyIdleKeyer
    BY <1>6 DEF NotifyIdleKeyer, Released
<1>7. CASE Silence \/ SilenceReachesLevel \/ SilenceEnqueues
    BY <1>7 DEF Silence, SilenceReachesLevel, SilenceEnqueues, Undisturbed, InSilence
<1>8. CASE DequeueLastEnded
    BY <1>8 DEF DequeueLastEnded, Released, Remaining, inputs, keyer, local
<1>9. CASE DequeueTone
    BY <1>1, <1>9 DEF DequeueTone, Released, Remaining, inputs, keyer
<1>10. CASE ToneEnds
    BY <1>1, <1>10 DEF ToneEnds, Released, Remaining, inputs, keyer
<1>11. CASE LoopEnds
    BY <1>1, <1>11 DEF LoopEnds, Released, Remaining, inputs, keyer
<1>. QED
    BY <1>2, <1>3, <1>4, <1>5, <1>6, <1>7, <1>8, <1>9, <1>10, <1>11 DEF ClientGoesOn, Generator

(* Without mode B there is no B state: the mode that ends a mark is the    *)
(* one that began it.                                                      *)
LEMMA StepsKeepNeverB ==
    ASSUME Types, Undisturbed, NeverB, ClientGoesOn \/ Generator
    PROVE  NeverB'
<1>1. graph_state \in Graph /\ mark \in [Threads -> [symbol : Symbols, alternates : {"no", "yes", "must"}]]
    BY DEF Types, TypeOK
<1>. USE DEF NeverB, keyer, inputs
<1>2. ASSUME NEW t \in Threads, Rest(t) PROVE NeverB'
    <2>1. Update(t) /\ at[t] = "rest"
        BY <1>2 DEF Update, Rest
    <2>2. mark[t].symbol = graph_state.symbol /\ graph_state.phase = "in"
        BY <2>1, UpdaterIsActive DEF Driven, AtMark
    <2>3. graph_state = In(mark[t].symbol, "A") /\ mark[t].symbol \in Symbols
        BY <1>1, <2>2, GraphFacts
    <2>4. graph_state'.mode = "A"
        BY <1>2, <2>3, GraphFacts DEF Rest
    <2>. QED BY <1>2, <2>4 DEF Rest
<1>3. ASSUME NEW t \in Threads, EnterMark(t) PROVE NeverB'
    <2>1. ~curtis_b_latch' /\ ~curtis_mode_b'
        BY <1>3 DEF EnterMark
    <2>2. graph_state' = In(mark[t].symbol, "A")
        BY <1>3 DEF EnterMark
    <2>. QED BY <1>1, <2>1, <2>2, GraphFacts
<1>4. ASSUME NEW t \in Threads, Update(t), ~Rest(t), ~EnterMark(t) PROVE NeverB'
    <2>1. UNCHANGED <<curtis_b_latch, curtis_mode_b>> /\ (graph_state' = Idle \/ UNCHANGED graph_state)
        BY <1>4
        DEF Update, UpdateFails, UpdateRetries, UpdateFindsNoLock, UpdateLocks, Dispatch, EndMark,
            ClearLatch, BeginMark, FindNothingToSend, GoIdle, UpdateUnlocks
    <2>. QED BY <2>1, GraphFacts
<1>5. CASE NotifyLatches \/ NotifyCurtis \/ NotifyBusyKeyer
    <2>1. UNCHANGED <<graph_state, curtis_mode_b>>
        BY <1>5 DEF NotifyLatches, NotifyCurtis, NotifyBusyKeyer
    <2>2. ~curtis_b_latch'
        BY <1>5 DEF NotifyLatches, NotifyCurtis, NotifyBusyKeyer
    <2>. QED BY <2>1, <2>2
<1>6. CASE NotifyIdleKeyer
    BY <1>6, GraphFacts DEF NotifyIdleKeyer, Symbols
<1>7. CASE Silence \/ SilenceReachesLevel \/ SilenceEnqueues
    BY <1>7 DEF Silence, SilenceReachesLevel, SilenceEnqueues
<1>8. CASE DequeueLastEnded \/ DequeueTone \/ ToneEnds \/ LoopEnds
    BY <1>8 DEF DequeueLastEnded, DequeueTone, ToneEnds, LoopEnds
<1>. QED
    BY <1>2, <1>3, <1>4, <1>5, <1>6, <1>7, <1>8 DEF ClientGoesOn, Generator, Threads

LEMMA HistoryStepsAreKeyerSteps == [HistoryNext]_historyVars => [Next]_vars
BY DEF HistoryNext, PaddleEventNoted, ModeNoted, RequestNoted, StepNoted, WaiterNoted, PaddleEvent,
       Request, Next, historyVars

(* Undisturbed stays what it says, whatever the threads do.                *)
LEMMA HistoryKeepsUndisturbed ==
    ASSUME Timely, HistoryInv, ~disturbed, [HistoryNext]_historyVars
    PROVE  Undisturbed'
<1>1. Types /\ Undisturbed
    BY DEF HistoryInv
<1>2. CASE UNCHANGED historyVars \/ WaiterNoted
    <2>1. UNCHANGED <<keyer, inputs, tones, silencing, local>>
        BY <1>2
        DEF historyVars, vars, WaiterNoted, Waiter, WaitForKeyer, WaitForEndOfCurrentElement,
            WaitSleeps, WaitGoesOn, SpuriousWakeup
    <2>. QED BY <1>1, <2>1
             DEF keyer, inputs, tones, local, Undisturbed, Active, Apart, Exclusive, LockIsExact,
                 NotRefusedAgain, Driven, KeyFits, Settled, Count
<1>3. CASE PaddleEventNoted \/ ModeNoted
    BY <1>1, <1>3, PaddlesKeepUndisturbed DEF PaddleEventNoted, ModeNoted, PaddleEvent
<1>4. CASE StepNoted
    <2>1. ClientGoesOn \/ Generator
        BY <1>4 DEF StepNoted
    <2>2. CASE Silence \/ SilenceReachesLevel \/ SilenceEnqueues
        BY <1>1, <2>2 DEF Silence, SilenceReachesLevel, SilenceEnqueues, Undisturbed, InSilence
    <2>. QED BY <1>1, <2>1, <2>2, UpdateKeepsUndisturbed, PaddlesKeepUndisturbed, LoopKeepsUndisturbed
             DEF ClientGoesOn, Generator, Threads
<1>. QED BY <1>2, <1>3, <1>4 DEF HistoryNext, RequestNoted

LEMMA HistoryKeepsInv ==
    ASSUME Timely, HistoryInv, [HistoryNext]_historyVars
    PROVE  HistoryInv'
<1>1. Types'
    BY HistoryStepsAreKeyerSteps, NextTypes DEF HistoryInv
<1>2. UNCHANGED disturbed
    BY DEF HistoryNext, PaddleEventNoted, ModeNoted, RequestNoted, StepNoted, WaiterNoted,
           historyVars
<1>3. ~disturbed' => Undisturbed'
    BY <1>2, HistoryKeepsUndisturbed
<1>4. /\ graph_state \in Graph /\ curtis_mode_b \in BOOLEAN /\ curtis_b_latch \in BOOLEAN
      /\ at \in [Threads -> Places] /\ extra \in Nat /\ wasB \in BOOLEAN
    BY DEF HistoryInv, Types, TypeOK
<1>5. CASE UNCHANGED historyVars \/ WaiterNoted
    <2>1. UNCHANGED <<keyer, inputs, tones, silencing, local, counting, extra, wasB, disturbed>>
        BY <1>5
        DEF historyVars, vars, WaiterNoted, Waiter, WaitForKeyer, WaitForEndOfCurrentElement,
            WaitSleeps, WaitGoesOn, SpuriousWakeup
    <2>2. Released' = Released /\ Remaining' = Remaining /\ NeverB' = NeverB /\ MaxExtra' = MaxExtra
        BY <2>1 DEF keyer, inputs, local, Released, Remaining, NeverB, MaxExtra
    <2>. QED BY <1>1, <1>3, <2>1, <2>2 DEF HistoryInv
<1>6. CASE PaddleEventNoted
    <2>1. PICK dot \in BOOLEAN, dash \in BOOLEAN :
              /\ NotifyPaddles(dot, dash)
              /\ counting' = (~disturbed /\ ReleasesSqueeze(dot, dash))
        BY <1>6 DEF PaddleEventNoted
    <2>2. extra' = 0 /\ wasB' = wasB
        BY <1>6 DEF PaddleEventNoted
    <2>3. counting' => ~disturbed /\ ReleasesSqueeze(dot, dash)
        BY <2>1
    <2>4. ~disturbed' /\ ~wasB' => NeverB'
        BY <1>2, <2>1, <2>2 DEF HistoryInv, NeverB, NotifyPaddles, keyer
    <2>5. ASSUME counting' PROVE ~disturbed' /\ Released' /\ extra' + Remaining' <= MaxExtra'
        <3>1. ~disturbed /\ ~dot /\ ~dash /\ at["gen"] = "play"
            BY <2>3, <2>5 DEF ReleasesSqueeze
        <3>2. at'["client"] = "latches" /\ at'["gen"] = "play"
            BY <1>4, <2>1, <3>1 DEF NotifyPaddles, Goto, Threads
        <3>3. \A s \in Symbols : paddle'[s] = (IF s = "dot" THEN dot ELSE dash)
            BY <2>1 DEF NotifyPaddles
        <3>4. Released'
            BY <3>1, <3>2, <3>3 DEF Released, InUpdate
        <3>5. Remaining' \in 0..2 /\ (~wasB' => Remaining' <= 1)
            BY <1>2, <2>4, <3>1, RemainingType
        <3>6. extra' + Remaining' <= MaxExtra'
            <4>1. CASE wasB'
                BY <2>2, <4>1 DEF MaxExtra, Remaining
            <4>2. CASE ~wasB'
                BY <2>2, <3>5, <4>2 DEF MaxExtra, Remaining
            <4>. QED BY <4>1, <4>2
        <3>. QED BY <1>2, <3>1, <3>4, <3>6
    <2>. QED BY <1>1, <1>3, <1>4, <2>2, <2>4, <2>5 DEF HistoryInv
<1>7. CASE ModeNoted
    <2>1. PICK on \in BOOLEAN : SetCurtisModeB(on)
        BY <1>7 DEF ModeNoted
    <2>2. wasB' \in BOOLEAN /\ (wasB => wasB') /\ (curtis_mode_b' => wasB')
        BY <1>1, <1>4, <1>7 DEF ModeNoted, Types, TypeOK
    <2>3. UNCHANGED <<keyer, paddle, local, counting, extra>>
        BY <1>7, <2>1 DEF ModeNoted, SetCurtisModeB
    <2>4. Released' = Released /\ Remaining' = Remaining /\ MaxExtra' >= MaxExtra
        BY <2>2, <2>3 DEF keyer, local, Released, Remaining, MaxExtra
    <2>5. ~disturbed' /\ ~wasB' => NeverB'
        BY <1>2, <2>2, <2>3 DEF HistoryInv, NeverB, keyer
    <2>6. MaxExtra \in Nat /\ MaxExtra' \in Nat
        BY DEF MaxExtra
    <2>7. counting' => ~disturbed' /\ Released' /\ extra' + Remaining' <= MaxExtra'
        BY <1>2, <1>4, <2>3, <2>4, <2>6, RemainingType DEF HistoryInv
    <2>. QED BY <1>1, <1>3, <1>4, <2>2, <2>3, <2>5, <2>7 DEF HistoryInv
<1>8. CASE RequestNoted
    BY <1>1, <1>2, <1>3, <1>8 DEF RequestNoted, HistoryInv
<1>9. CASE StepNoted
    <2>1. UNCHANGED <<counting, wasB>> /\ (ClientGoesOn \/ Generator)
        BY <1>9 DEF StepNoted
    <2>2. ~disturbed' /\ ~wasB' => NeverB'
        BY <1>2, <2>1, StepsKeepNeverB DEF HistoryInv
    <2>3. extra' \in Nat /\ (~counting => extra' = extra)
        BY <1>4, <1>9 DEF StepNoted
    <2>4. ASSUME counting PROVE Released' /\ extra' + Remaining' <= MaxExtra'
        <3>1. Types /\ Undisturbed /\ Released /\ extra + Remaining <= MaxExtra
            BY <2>4 DEF HistoryInv
        <3>2. ~BeginMark("client")
            BY <3>1 DEF BeginMark, Released, InUpdate
        <3>3. extra' = IF BeginMark("gen") THEN extra + 1 ELSE extra
            BY <1>9, <2>4, <3>2 DEF StepNoted, Threads
        <3>4. MaxExtra' = MaxExtra /\ MaxExtra \in Nat
            BY <2>1 DEF MaxExtra
        <3>5. CASE Update("gen")
            <4>1. /\ Released' /\ Remaining' <= Remaining
                  /\ BeginMark("gen") => Remaining' + 1 <= Remaining
                BY <3>1, <3>5, UpdateSpendsRemaining
            <4>2. CASE BeginMark("gen")
                <5>1. extra' = extra + 1 /\ Remaining' + 1 <= Remaining
                    BY <3>3, <4>1, <4>2
                <5>2. (extra + 1) + Remaining' <= MaxExtra
                    BY <1>4, <3>1, <3>4, <5>1, RemainingType, MarksAddUp, Zenon
                <5>. QED BY <3>4, <4>1, <5>1, <5>2
            <4>3. CASE ~BeginMark("gen")
                <5>1. extra' = extra
                    BY <3>3, <4>3
                <5>2. extra + Remaining' <= MaxExtra
                    BY <1>4, <3>1, <3>4, <4>1, RemainingType, MarksAddUp, Zenon
                <5>. QED BY <3>4, <4>1, <5>1, <5>2
            <4>. QED BY <4>2, <4>3
        <3>6. CASE ~Update("gen")
            <4>1. Released' /\ Remaining' = Remaining
                BY <2>1, <3>1, <3>6, OtherStepsKeepReleased
            <4>2. ~BeginMark("gen")
                BY <3>6 DEF Update
            <4>. QED BY <3>1, <3>3, <3>4, <4>1, <4>2
        <3>. QED BY <3>5, <3>6
    <2>. QED BY <1>1, <1>2, <1>3, <1>4, <2>1, <2>2, <2>3, <2>4 DEF HistoryInv
<1>. QED
    BY <1>5, <1>6, <1>7, <1>8, <1>9 DEF HistoryNext

(* With timely updates the keyer goes on as the paddles ask and no         *)
(* further, in every interleaving of paddle events, mode changes and the   *)
(* two threads: its assertions hold, one tone drives it, and after the     *)
(* release of a squeeze it sends one mark at most in mode A, two in B.     *)
THEOREM KeyerIsAlwaysSound ==
    ASSUME Timely
    PROVE  HistorySpec => []KeyerIsSound
<1>1. HistoryInit => HistoryInv
    <2>. SUFFICES ASSUME HistoryInit PROVE HistoryInv
        OBVIOUS
    <2>1. Types
        BY InitTypes DEF HistoryInit
    <2>2. Undisturbed
        BY GraphFacts
        DEF HistoryInit, Init, Undisturbed, Active, Apart, Exclusive, LockIsExact, NotRefusedAgain,
            Driven, Settled, KeyFits, Count, Threads, InUpdate, InSilence, Critical, BeforeTheKey,
            AfterTheKey, AtMark, AtSpace
    <2>3. NeverB
        BY GraphFacts DEF HistoryInit, Init, NeverB
    <2>. QED BY <2>1, <2>2, <2>3 DEF HistoryInit, HistoryInv
<1>2. HistoryInv /\ [HistoryNext]_historyVars => HistoryInv'
    BY HistoryKeepsInv
<1>3. HistoryInv => KeyerIsSound
    <2>. SUFFICES ASSUME HistoryInv PROVE KeyerIsSound
        OBVIOUS
    <2>1. TypeOK
        BY DEF HistoryInv, Types
    <2>2. ASSUME ~disturbed, NEW t \in Threads, at[t] = "dispatch" PROVE KeyFits
        <3>1. t = Active
            BY <2>2 DEF HistoryInv, Undisturbed, Apart, Exclusive, Active, InUpdate, Threads
        <3>. QED BY <2>2, <3>1 DEF HistoryInv, Undisturbed, Driven, BeforeTheKey
    <2>3. KeyFitsWhileUndisturbed
        BY <2>2 DEF KeyFitsWhileUndisturbed, KeyFitsGraphState, KeyFits
    <2>4. ASSUME ~disturbed, \A t \in Threads : at[t] \notin InUpdate PROVE Settled
        BY <2>4
        DEF HistoryInv, Undisturbed, Driven, Active, InUpdate, BeforeTheKey, AfterTheKey, Threads
    <2>5. OneToneWhileUndisturbed
        BY <2>4 DEF OneToneWhileUndisturbed, ClockedByOneTone, Settled, Count
    <2>6. SqueezeEnds
        BY RemainingType DEF HistoryInv, SqueezeEnds, MaxExtra
    <2>. QED BY <2>1, <2>3, <2>5, <2>6 DEF KeyerIsSound
<1>. QED
    BY <1>1, <1>2, <1>3, PTL DEF HistorySpec

-----------------------------------------------------------------------------
(* A press is heard, if paddle events and updates do not interleave.       *)

NoneLatched == \A s \in Symbols : ~latch[s]

PressInv ==
    /\ Types
    /\ at["gen"] \in InUpdate => at["client"] \notin InNotify
    /\ \A t \in Threads : at[t] = "go_idle" => NoneLatched
    /\ graph_state = Idle =>
          \A s \in Symbols : latch[s] => at["client"] \in {"curtis", "look"} /\ paddle[s]

(* An update sets no latch, and becomes idle only with none set.           *)
LEMMA UpdateKeepsPress ==
    ASSUME PressInv, NEW t \in Threads, Update(t)
    PROVE  PressInv'
<1>1. Types' /\ at \in [Threads -> Places] /\ latch \in [Symbols -> BOOLEAN] /\ graph_state \in Graph
      /\ mark[t].symbol \in Symbols
    BY UpdateTypes DEF PressInv, Types, TypeOK
<1>2. /\ UNCHANGED paddle /\ \A u \in Threads \ {t} : at'[u] = at[u]
      /\ at'[t] \in InUpdate \union {"none", "done"} /\ at[t] \in InUpdate
    BY <1>1
    DEF Update, UpdateFails, UpdateRetries, UpdateFindsNoLock, UpdateLocks, Dispatch, EndMark,
        Rest, ClearLatch, BeginMark, EnterMark, FindNothingToSend, GoIdle, UpdateUnlocks, Return,
        Goto, inputs, InUpdate
<1>3. at["client"] \notin {"curtis", "look"} \/ t # "client"
    BY <1>2 DEF InUpdate
<1>4. \A s \in Symbols : latch'[s] => latch[s]
    <2>1. CASE ClearLatch(t)
        BY <1>1, <2>1 DEF ClearLatch
    <2>2. CASE ~ClearLatch(t)
        BY <2>2
        DEF Update, UpdateFails, UpdateRetries, UpdateFindsNoLock, UpdateLocks, Dispatch, EndMark,
            Rest, BeginMark, EnterMark, FindNothingToSend, GoIdle, UpdateUnlocks, keyer
    <2>. QED BY <2>1, <2>2
<1>5. at'[t] = "go_idle" => NoneLatched
    <2>1. CASE FindNothingToSend(t)
        BY <2>1 DEF FindNothingToSend, NoneLatched
    <2>2. CASE ~FindNothingToSend(t)
        BY <1>1, <2>2
        DEF Update, UpdateFails, UpdateRetries, UpdateFindsNoLock, UpdateLocks, Dispatch, EndMark,
            Rest, ClearLatch, BeginMark, EnterMark, GoIdle, UpdateUnlocks, Return, Goto
    <2>. QED BY <2>1, <2>2
<1>6. at'["gen"] \in InUpdate => at'["client"] \notin InNotify
    BY <1>2 DEF PressInv, Threads, InNotify, InUpdate
<1>7. \A u \in Threads : at'[u] = "go_idle" => NoneLatched'
    BY <1>2, <1>4, <1>5 DEF PressInv, NoneLatched
<1>8. ASSUME graph_state' = Idle
      PROVE  \A s \in Symbols : latch'[s] => at'["client"] \in {"curtis", "look"} /\ paddle'[s]
    <2>1. CASE GoIdle(t)
        BY <1>4, <2>1 DEF GoIdle, PressInv, NoneLatched
    <2>2. CASE ~GoIdle(t)
        <3>1. graph_state = Idle
            <4>1. ~Rest(t)
                BY <1>1, <1>8, GraphFacts DEF Rest
            <4>2. ~EnterMark(t)
                BY <1>1, <1>8, GraphFacts DEF EnterMark
            <4>. QED BY <1>8, <2>2, <4>1, <4>2
                     DEF Update, UpdateFails, UpdateRetries, UpdateFindsNoLock, UpdateLocks,
                         Dispatch, EndMark, ClearLatch, BeginMark, FindNothingToSend,
                         UpdateUnlocks, keyer
        <3>. QED BY <1>2, <1>3, <1>4, <3>1 DEF PressInv, Threads
    <2>. QED BY <2>1, <2>2
<1>. QED BY <1>1, <1>6, <1>7, <1>8 DEF PressInv

(* The client latches a paddle before it looks at the graph state.         *)
LEMMA CallKeepsPress ==
    ASSUME PressInv, ~Races,
           \/ Request \/ NotifyLatches \/ NotifyCurtis \/ NotifyBusyKeyer \/ NotifyIdleKeyer
           \/ Silence \/ SilenceReachesLevel \/ SilenceEnqueues
    PROVE  PressInv'
<1>1. Types' /\ at \in [Threads -> Places] /\ latch \in [Symbols -> BOOLEAN]
    BY CallTypes DEF PressInv, Types, TypeOK
<1>. USE <1>1 DEF PressInv, NoneLatched, Goto, Threads, keyer, inputs, local
<1>2. ASSUME NEW dot \in BOOLEAN, NEW dash \in BOOLEAN, NotifyPaddles(dot, dash) PROVE PressInv'
    BY <1>2 DEF NotifyPaddles
<1>3. CASE NotifyLatches
    <2>1. at["client"] = "latches" /\ at'["client"] = "curtis" /\ at'["gen"] = at["gen"]
        BY <1>3 DEF NotifyLatches
    <2>2. at["gen"] \notin InUpdate
        BY <2>1 DEF InNotify
    <2>3. UNCHANGED <<graph_state, paddle>> /\ \A s \in Symbols : latch'[s] => latch[s] \/ paddle[s]
        BY <1>3 DEF NotifyLatches
    <2>4. at["gen"] # "go_idle"
        BY <2>2 DEF InUpdate
    <2>. QED BY <2>1, <2>2, <2>3, <2>4
<1>4. CASE NotifyCurtis
    BY <1>4 DEF NotifyCurtis, InNotify
<1>5. CASE NotifyBusyKeyer
    BY <1>5 DEF NotifyBusyKeyer, InNotify
<1>6. CASE NotifyIdleKeyer
    BY <1>6, GraphFacts DEF NotifyIdleKeyer, InNotify, Symbols
<1>7. CASE Silence \/ SilenceReachesLevel \/ SilenceEnqueues
    BY <1>7 DEF Silence, SilenceReachesLevel, SilenceEnqueues, InNotify
<1>8. ASSUME NEW on \in BOOLEAN, SetCurtisModeB(on) PROVE PressInv'
    BY <1>8 DEF SetCurtisModeB
<1>9. CASE SendText \/ FlushQueue
    BY <1>9 DEF SendText, FlushQueue, InNotify
<1>10. CASE ResetState
    BY <1>10 DEF ResetState, InNotify
<1>. QED
    BY <1>2, <1>3, <1>4, <1>5, <1>6, <1>7, <1>8, <1>9, <1>10 DEF Request, PaddleEvent

LEMMA NextKeepsPress ==
    ASSUME PressInv, ~Races, [Next]_vars
    PROVE  PressInv'
<1>1. Types' /\ at \in [Threads -> Places]
    BY NextTypes DEF PressInv, Types
<1>2. CASE Request \/ ClientGoesOn
    BY <1>2, CallKeepsPress, UpdateKeepsPress DEF ClientGoesOn, Threads
<1>3. CASE DequeueLastEnded \/ DequeueTone \/ ToneEnds \/ LoopEnds
    BY <1>1, <1>3
    DEF DequeueLastEnded, DequeueTone, ToneEnds, LoopEnds, PressInv, NoneLatched, Goto, Threads,
        InUpdate, keyer, inputs, local
<1>4. CASE Update("gen")
    BY <1>4, UpdateKeepsPress DEF Threads
<1>5. CASE Waiter \/ UNCHANGED vars
    <2>1. UNCHANGED <<keyer, inputs, local>>
        BY <1>5
        DEF Waiter, WaitForKeyer, WaitForEndOfCurrentElement, WaitSleeps, WaitGoesOn,
            SpuriousWakeup, vars
    <2>. QED BY <1>1, <2>1 DEF keyer, inputs, local, PressInv, NoneLatched
<1>. QED
    BY <1>2, <1>3, <1>4, <1>5 DEF Next, Generator

(* Every press of a paddle is heard, whatever else is asked of the library *)
(* and whatever the timing, provided that no paddle event comes during an  *)
(* update of the graph state, nor an update during such an event.          *)
THEOREM PressIsAlwaysHeard ==
    ASSUME ~Races
    PROVE  Spec => []PressIsHeard
<1>1. Init => PressInv
    BY InitTypes DEF Init, PressInv, NoneLatched, Threads, InUpdate
<1>2. PressInv /\ [Next]_vars => PressInv'
    BY NextKeepsPress
<1>3. PressInv => PressIsHeard
    BY DEF PressInv, PressIsHeard
<1>. QED
    BY <1>1, <1>2, <1>3, PTL DEF Spec

---------------------------------------------------------------------------
(***************************************************************************)
(* Keys that become text, in a window of xcwcp: what the user holds is what *)
(* is closed in the library; its receiver waits for the end of a mark while *)
(* the key is down, and for a space while it keeps a character that it has  *)
(* shown; and what a poll was told is still so when it acts on it.          *)
(***************************************************************************)

\* What is held is closed in the library, as long as the window is in use.
Buttons ==
  /\ reversed \in BOOLEAN /\ receiving \in BOOLEAN
  /\ is_left_down = (receiving /\ "left" \in held) /\ is_right_down = (receiving /\ "right" \in held)
  /\ straight_key = (receiving /\ "straight" \in held)
  /\ dot_paddle = (IF reversed THEN is_right_down ELSE is_left_down)
  /\ dash_paddle = (IF reversed THEN is_left_down ELSE is_right_down)

\* A mark is waited for exactly while the key is down, and a space exactly while the
\* character before it, which has been shown, is kept.
Hears ==
  /\ heard \in {"idle", "mark", "gap"} /\ silence \in 0..2 /\ known \in BOOLEAN
  /\ tracked_key_state \in BOOLEAN /\ is_pending_iws \in BOOLEAN
  /\ (tracked_key_state <=> heard = "mark") /\ (tracked_key_state => ~is_pending_iws)
  /\ (is_pending_iws => shown = 1) /\ (~is_pending_iws => shown = 0)

\* While an answer is looked at the receiver stays what it was.
Answered ==
  answer # NoAnswer =>
    /\ answer = <<is_pending_iws, answer[2]>>
    /\ answer[2] \in {"nothing", "unknown", "word", "character"}
    /\ answer[2] # "nothing" => heard = "gap"

Written ==
  /\ \/ text = << >>
     \/ \E a \in {"space", "character", "?"} : text = <<a>> /\ (is_pending_iws => a # "space")
     \/ \E a, b \in {"space", "character", "?"} :
          text = <<a, b>> /\ ~(a = "space" /\ b = "space") /\ (is_pending_iws => b # "space")
  /\ text = << >> => ~is_pending_iws

KeyedInv == Buttons /\ Hears /\ Answered /\ Written

---------------------------------------------------------------------------
LEMMA InitIsKeyed == KeyedTextInit => KeyedInv
<1>. SUFFICES ASSUME KeyedTextInit PROVE KeyedInv
  OBVIOUS
<1>1. Buttons
  BY DEF KeyedTextInit, Buttons
<1>2. Hears
  <2>1. heard \in {"idle", "mark", "gap"} /\ silence \in 0..2
    BY DEF KeyedTextInit
  <2>2. known \in BOOLEAN /\ tracked_key_state \in BOOLEAN /\ is_pending_iws \in BOOLEAN
    BY DEF KeyedTextInit
  <2>3. (tracked_key_state <=> heard = "mark") /\ (tracked_key_state => ~is_pending_iws)
    BY DEF KeyedTextInit
  <2>4. (is_pending_iws => shown = 1) /\ (~is_pending_iws => shown = 0)
    BY DEF KeyedTextInit
  <2>. QED
    BY <2>1, <2>2, <2>3, <2>4, Zenon DEF Hears
<1>3. Answered
  BY DEF KeyedTextInit, Answered
<1>4. Written
  BY DEF KeyedTextInit, Written
<1>. QED
  BY <1>1, <1>2, <1>3, <1>4 DEF KeyedInv

\* The receiver is the same after a step that leaves its variables alone.
LEMMA HearsOn ==
  ASSUME KeyedInv, UNCHANGED <<receiverVars, answer, text>>
  PROVE  Hears' /\ Answered' /\ Written'
BY DEF KeyedInv, Hears, Answered, Written, receiverVars

LEMMA ButtonsStay ==
  ASSUME KeyedInv, UNCHANGED <<buttonVars, receiving>>
  PROVE  Buttons'
BY DEF KeyedInv, Buttons, buttonVars

LEMMA ButtonMoves ==
  ASSUME KeyedInv, NEW button \in {"left", "right", "straight"}, NEW down \in BOOLEAN, Event(button, down)
  PROVE  /\ KeyedInv'
         /\ ~dot_paddle /\ ~dash_paddle /\ (dot_paddle' \/ dash_paddle') => fresh'
<1>1. /\ reversed' = reversed /\ receiving' = receiving /\ UNCHANGED <<receiverVars, answer, text>>
      /\ held' = (IF down THEN held \cup {button} ELSE held \ {button})
  BY DEF Event
<1>2. /\ button # "left" => ("left" \in held' <=> "left" \in held)
      /\ button # "right" => ("right" \in held' <=> "right" \in held)
      /\ button # "straight" => ("straight" \in held' <=> "straight" \in held)
      /\ button \in held' <=> down
  BY <1>1
<1>3. CASE ~receiving
  <2>1. UNCHANGED <<is_left_down, is_right_down, dot_paddle, dash_paddle, straight_key, fresh>>
    BY <1>3 DEF Event
  <2>2. Buttons'
    BY <1>1, <1>3, <2>1 DEF KeyedInv, Buttons
  <2>. QED
    BY <1>1, <2>1, <2>2, HearsOn DEF KeyedInv
<1>4. CASE receiving /\ button = "straight"
  <2>1. SkEvent(down)
    BY <1>4 DEF Event
  <2>2. Buttons'
    BY <1>1, <1>2, <1>4, <2>1 DEF KeyedInv, Buttons, SkEvent
  <2>. QED
    BY <1>1, <2>1, <2>2, HearsOn DEF KeyedInv, SkEvent
<1>5. CASE receiving /\ button = "left"
  <2>1. IkLeftEvent(down)
    BY <1>5 DEF Event
  <2>2. Buttons'
    BY <1>1, <1>2, <1>5, <2>1 DEF KeyedInv, Buttons, IkLeftEvent, Paddle
  <2>3. ~dot_paddle /\ ~dash_paddle /\ (dot_paddle' \/ dash_paddle') => fresh'
    BY <1>1, <1>2, <1>5, <2>1 DEF KeyedInv, Buttons, IkLeftEvent, Paddle, Stamps
  <2>. QED
    BY <1>1, <2>2, <2>3, HearsOn DEF KeyedInv
<1>6. CASE receiving /\ button = "right"
  <2>1. IkRightEvent(down)
    BY <1>6 DEF Event
  <2>2. Buttons'
    BY <1>1, <1>2, <1>6, <2>1 DEF KeyedInv, Buttons, IkRightEvent, Paddle
  <2>3. ~dot_paddle /\ ~dash_paddle /\ (dot_paddle' \/ dash_paddle') => fresh'
    BY <1>1, <1>2, <1>6, <2>1 DEF KeyedInv, Buttons, IkRightEvent, Paddle, Stamps
  <2>. QED
    BY <1>1, <2>2, <2>3, HearsOn DEF KeyedInv
<1>. QED
  BY <1>3, <1>4, <1>5, <1>6

LEMMA WindowChanges ==
  ASSUME Careful, KeyedInv, ReversePaddles \/ Clear
  PROVE  KeyedInv' /\ UNCHANGED <<dot_paddle, dash_paddle>>
<1>1. held = {} /\ held' = held /\ UNCHANGED <<is_left_down, is_right_down, dot_paddle, dash_paddle, straight_key>>
  BY DEF ReversePaddles, Clear, Quiet, buttonVars
<1>2. ~is_left_down /\ ~is_right_down /\ ~straight_key /\ ~dot_paddle /\ ~dash_paddle
  BY <1>1 DEF KeyedInv, Buttons
<1>3. reversed' \in BOOLEAN /\ receiving' \in BOOLEAN
  BY DEF ReversePaddles, Clear, KeyedInv, Buttons, buttonVars
<1>4. Buttons'
  BY <1>1, <1>2, <1>3 DEF KeyedInv, Buttons
<1>5. CASE ReversePaddles
  BY <1>1, <1>4, <1>5, HearsOn DEF ReversePaddles, KeyedInv
<1>6. CASE Clear
  <2>1. Hears'
    <3>1. heard' \in {"idle", "mark", "gap"} /\ silence' \in 0..2
      BY <1>6 DEF Clear, KeyedInv, Hears
    <3>2. known' \in BOOLEAN /\ tracked_key_state' \in BOOLEAN /\ is_pending_iws' \in BOOLEAN
      BY <1>6 DEF Clear, KeyedInv, Hears
    <3>3. (tracked_key_state' <=> heard' = "mark") /\ (tracked_key_state' => ~is_pending_iws')
      BY <1>6 DEF Clear, KeyedInv, Hears
    <3>4. (is_pending_iws' => shown' = 1) /\ (~is_pending_iws' => shown' = 0)
      BY <1>6 DEF Clear, KeyedInv, Hears
    <3>. QED
      BY <3>1, <3>2, <3>3, <3>4, Zenon DEF Hears
  <2>2. Answered'
    BY <1>6 DEF Clear, Answered
  <2>3. Written'
    BY <1>6 DEF Clear, KeyedInv, Written
  <2>. QED
    BY <1>1, <1>4, <2>1, <2>2, <2>3 DEF KeyedInv
<1>. QED
  BY <1>5, <1>6

LEMMA KeyMoves ==
  ASSUME Whole, KeyedInv, KeyCloses \/ KeyOpens \/ Time
  PROVE  KeyedInv' /\ UNCHANGED <<dot_paddle, dash_paddle>>
<1>1. /\ UNCHANGED <<buttonVars, receiving, answer, text>> /\ UNCHANGED <<dot_paddle, dash_paddle>>
      /\ answer' = answer /\ text' = text
  BY DEF KeyCloses, KeyOpens, Time, buttonVars
<1>2. Buttons'
  BY <1>1, ButtonsStay
<1>3. CASE KeyCloses
  <2>1. /\ ~tracked_key_state /\ answer = NoAnswer /\ tracked_key_state' = TRUE /\ known' = known
        /\ heard \in {"idle", "gap"}
    BY <1>3 DEF KeyCloses, KeyedInv, Hears
  <2>2. heard' = "mark" /\ silence' = 0 /\ is_pending_iws' = FALSE /\ shown' = 0
    <3>1. CASE is_pending_iws
      BY <1>3, <2>1, <3>1 DEF KeyCloses, SetReceiving, NextCharacter, Cleared, Receiving
    <3>2. CASE ~is_pending_iws
      BY <1>3, <2>1, <3>2 DEF KeyCloses, SetReceiving, NextCharacter, Cleared, Receiving, KeyedInv, Hears
    <3>. QED
      BY <3>1, <3>2
  <2>3. Hears'
    <3>1. heard' \in {"idle", "mark", "gap"} /\ silence' \in 0..2
      BY <2>1, <2>2 DEF KeyedInv, Hears
    <3>2. known' \in BOOLEAN /\ tracked_key_state' \in BOOLEAN /\ is_pending_iws' \in BOOLEAN
      BY <2>1, <2>2 DEF KeyedInv, Hears
    <3>3. (tracked_key_state' <=> heard' = "mark") /\ (tracked_key_state' => ~is_pending_iws')
      BY <2>1, <2>2 DEF KeyedInv, Hears
    <3>4. (is_pending_iws' => shown' = 1) /\ (~is_pending_iws' => shown' = 0)
      BY <2>1, <2>2 DEF KeyedInv, Hears
    <3>. QED
      BY <3>1, <3>2, <3>3, <3>4, Zenon DEF Hears
  <2>4. Answered'
    BY <1>1, <2>1 DEF Answered
  <2>5. Written'
    BY <1>1, <2>2 DEF KeyedInv, Written
  <2>. QED
    BY <1>1, <1>2, <2>3, <2>4, <2>5 DEF KeyedInv
<1>4. CASE KeyOpens
  <2>1. /\ tracked_key_state /\ answer = NoAnswer /\ tracked_key_state' = FALSE
    BY <1>4 DEF KeyOpens
  <2>2. heard = "mark" /\ ~is_pending_iws /\ shown = 0
    BY <2>1 DEF KeyedInv, Hears
  <2>3. /\ heard' \in {"idle", "gap"} /\ silence' = 0 /\ is_pending_iws' = is_pending_iws /\ shown' = 0
        /\ known' \in BOOLEAN
    BY <1>4, <2>2 DEF KeyOpens, SetReceiving, Cleared, Receiving, KeyedInv, Hears
  <2>4. Hears'
    <3>1. heard' \in {"idle", "mark", "gap"} /\ silence' \in 0..2
      BY <2>1, <2>2, <2>3
    <3>2. known' \in BOOLEAN /\ tracked_key_state' \in BOOLEAN /\ is_pending_iws' \in BOOLEAN
      BY <2>1, <2>2, <2>3 DEF KeyedInv, Hears
    <3>3. (tracked_key_state' <=> heard' = "mark") /\ (tracked_key_state' => ~is_pending_iws')
      BY <2>1, <2>2, <2>3
    <3>4. (is_pending_iws' => shown' = 1) /\ (~is_pending_iws' => shown' = 0)
      BY <2>1, <2>2, <2>3
    <3>. QED
      BY <3>1, <3>2, <3>3, <3>4, Zenon DEF Hears
  <2>5. Answered'
    BY <1>1, <2>1 DEF Answered
  <2>6. Written'
    BY <1>1, <2>2, <2>3 DEF KeyedInv, Written
  <2>. QED
    BY <1>1, <1>2, <2>4, <2>5, <2>6 DEF KeyedInv
<1>5. CASE Time
  <2>1. /\ heard = "gap" /\ heard' = heard /\ silence < 2 /\ silence' = silence + 1
        /\ UNCHANGED <<tracked_key_state, is_pending_iws, known, shown>>
    BY <1>5 DEF Time
  <2>2. Hears'
    BY <2>1 DEF KeyedInv, Hears
  <2>3. Answered'
    BY <1>1, <2>1 DEF KeyedInv, Answered
  <2>4. Written'
    BY <1>1, <2>1 DEF KeyedInv, Written
  <2>. QED
    BY <1>1, <1>2, <2>2, <2>3, <2>4 DEF KeyedInv
<1>. QED
  BY <1>3, <1>4, <1>5

LEMMA PairIsAppended ==
  ASSUME NEW a, NEW c
  PROVE  Len(<<a>>) = 1 /\ Append(<<a>>, c) = <<a, c>>
<1>1. <<a>> \in Seq({a, c}) /\ <<a, c>> \in Seq({a, c})
  OBVIOUS
<1>2. Append(<<a>>, c) \in Seq({a, c}) /\ Len(Append(<<a>>, c)) = 2 /\ Len(<<a, c>>) = 2
  OBVIOUS
<1>3. ASSUME NEW i \in 1..2 PROVE Append(<<a>>, c)[i] = <<a, c>>[i]
  <2>1. CASE i = 1
    BY <2>1
  <2>2. CASE i = 2
    BY <2>2
  <2>. QED
    BY <2>1, <2>2
<1>. QED
  BY <1>1, <1>2, <1>3, SeqEqual

\* What is written grows by what is shown, and keeps the latest two.
LEMMA ShownIs ==
  ASSUME NEW c \in {"space", "character", "?"}, Written, Shown(c)
  PROVE  \/ text' = <<c>>
         \/ \E a \in {"space", "character", "?"} : text' = <<a, c>> /\ (is_pending_iws => a # "space")
<1>1. CASE text = << >>
  BY <1>1 DEF Shown
<1>2. ASSUME NEW a \in {"space", "character", "?"}, text = <<a>>, is_pending_iws => a # "space" PROVE text' = <<a, c>>
  BY <1>2, PairIsAppended DEF Shown
<1>3. ASSUME NEW a, NEW b \in {"space", "character", "?"}, text = <<a, b>>, is_pending_iws => b # "space"
      PROVE  text' = <<b, c>>
  BY <1>3 DEF Shown
<1>. QED
  BY <1>1, <1>2, <1>3 DEF Written

LEMMA PollMoves ==
  ASSUME KeyedInv, Ask \/ Act
  PROVE  KeyedInv' /\ UNCHANGED <<dot_paddle, dash_paddle>>
<1>1. /\ UNCHANGED <<buttonVars, receiving, tracked_key_state, known>> /\ UNCHANGED <<dot_paddle, dash_paddle>>
      /\ tracked_key_state' = tracked_key_state /\ known' = known
  BY DEF Ask, Act, buttonVars
<1>2. Buttons'
  BY <1>1, ButtonsStay
<1>3. CASE Ask
  <2>1. /\ answer' = <<is_pending_iws, Found>>
        /\ UNCHANGED <<is_pending_iws, heard, silence, shown, text>>
    BY <1>3 DEF Ask
  <2>2. Found \in {"nothing", "unknown", "word", "character"} /\ (Found # "nothing" => heard = "gap")
    BY DEF Found
  <2>3. answer'[2] = Found /\ answer' = <<is_pending_iws', answer'[2]>>
    BY <2>1
  <2>4. Hears'
    BY <1>1, <2>1 DEF KeyedInv, Hears
  <2>5. Answered'
    BY <2>1, <2>2, <2>3 DEF Answered
  <2>6. Written'
    BY <2>1 DEF KeyedInv, Written
  <2>. QED
    BY <1>1, <1>2, <2>4, <2>5, <2>6 DEF KeyedInv
<1>4. CASE Act /\ PollSpace
  <2>1. answer' = NoAnswer /\ is_pending_iws /\ ~tracked_key_state /\ shown = 1
    BY <1>4 DEF Act, PollSpace, KeyedInv, Answered, Hears
  <2>2. CASE UNCHANGED <<text, heard, silence, is_pending_iws, shown>>
    <3>1. Hears'
      BY <1>1, <2>2 DEF KeyedInv, Hears
    <3>2. Answered'
      BY <2>1 DEF Answered
    <3>3. Written'
      BY <2>2 DEF KeyedInv, Written
    <3>. QED
      BY <1>1, <1>2, <3>1, <3>2, <3>3 DEF KeyedInv
  <2>3. CASE Shown("space") /\ SetReceiving(SpaceIsPolled(Receiving))
    <3>1. heard' = "idle" /\ silence' = 0 /\ is_pending_iws' = FALSE /\ shown' = 0
      BY <2>3 DEF SetReceiving, SpaceIsPolled, Receiving, Cleared
    <3>2. Written'
      BY <2>1, <2>3, <3>1, ShownIs DEF KeyedInv, Written
    <3>5. Hears'
      <4>1. heard' \in {"idle", "mark", "gap"} /\ silence' \in 0..2
        BY <1>1, <2>1, <3>1 DEF KeyedInv, Hears
      <4>2. known' \in BOOLEAN /\ tracked_key_state' \in BOOLEAN /\ is_pending_iws' \in BOOLEAN
        BY <1>1, <2>1, <3>1 DEF KeyedInv, Hears
      <4>3. (tracked_key_state' <=> heard' = "mark") /\ (tracked_key_state' => ~is_pending_iws')
        BY <1>1, <2>1, <3>1 DEF KeyedInv, Hears
      <4>4. (is_pending_iws' => shown' = 1) /\ (~is_pending_iws' => shown' = 0)
        BY <1>1, <2>1, <3>1 DEF KeyedInv, Hears
      <4>. QED
        BY <4>1, <4>2, <4>3, <4>4, Zenon DEF Hears
    <3>6. Answered'
      BY <2>1 DEF Answered
    <3>. QED
      BY <1>1, <1>2, <3>5, <3>6, <3>2 DEF KeyedInv
  <2>. QED
    BY <1>4, <2>2, <2>3 DEF PollSpace
<1>5. CASE Act /\ PollCharacter
  <2>1. answer' = NoAnswer /\ ~is_pending_iws /\ shown = 0
    BY <1>5 DEF Act, PollCharacter, KeyedInv, Answered, Hears
  <2>2. CASE UNCHANGED <<text, heard, silence, is_pending_iws, shown>>
    <3>1. Hears'
      BY <1>1, <2>2 DEF KeyedInv, Hears
    <3>2. Answered'
      BY <2>1 DEF Answered
    <3>3. Written'
      BY <2>2 DEF KeyedInv, Written
    <3>. QED
      BY <1>1, <1>2, <3>1, <3>2, <3>3 DEF KeyedInv
  <2>3. CASE answer[2] \in {"word", "character"}
    <3>1. /\ Shown("character") /\ is_pending_iws' = TRUE /\ shown' = 1
          /\ UNCHANGED <<heard, silence>>
      BY <1>5, <2>1, <2>3 DEF PollCharacter
    <3>2. ~tracked_key_state
      BY <1>5, <2>3 DEF PollCharacter, KeyedInv, Answered, Hears
    <3>3. Written'
      BY <3>1, ShownIs DEF KeyedInv, Written
    <3>5. Hears'
      BY <1>1, <2>1, <3>1, <3>2, <3>3 DEF KeyedInv, Hears
    <3>6. Answered'
      BY <2>1 DEF Answered
    <3>. QED
      BY <1>1, <1>2, <3>5, <3>6, <3>3 DEF KeyedInv
  <2>4. CASE answer[2] = "unknown"
    <3>1. Shown("?") /\ SetReceiving(Cleared(Receiving))
      BY <1>5, <2>4 DEF PollCharacter
    <3>2. heard' = "idle" /\ silence' = 0 /\ is_pending_iws' = is_pending_iws /\ shown' = 0
      BY <3>1 DEF SetReceiving, Receiving, Cleared
    <3>3. ~tracked_key_state
      BY <1>5, <2>4 DEF PollCharacter, KeyedInv, Answered, Hears
    <3>4. Written'
      BY <2>1, <3>1, <3>2, ShownIs DEF KeyedInv, Written
    <3>5. Hears'
      BY <1>1, <2>1, <3>2, <3>3, <3>4 DEF KeyedInv, Hears
    <3>6. Answered'
      BY <2>1 DEF Answered
    <3>. QED
      BY <1>1, <1>2, <3>5, <3>6, <3>4 DEF KeyedInv
  <2>. QED
    BY <1>5, <2>2, <2>3, <2>4 DEF PollCharacter
<1>. QED
  BY <1>3, <1>4, <1>5 DEF Act

LEMMA KeyedGoesOn ==
  ASSUME Careful, Whole, KeyedInv, [KeyedTextNext]_keyedVars
  PROVE  KeyedInv' /\ [~dot_paddle /\ ~dash_paddle /\ (dot_paddle' \/ dash_paddle') => fresh']_keyedVars
<1>1. CASE UNCHANGED keyedVars
  <2>1. UNCHANGED <<receiverVars, answer, text>> /\ UNCHANGED <<buttonVars, receiving>>
    BY <1>1 DEF keyedVars
  <2>. QED
    BY <1>1, <2>1, HearsOn, ButtonsStay DEF KeyedInv
<1>2. ASSUME NEW button \in {"left", "right", "straight"}, NEW down \in BOOLEAN, Event(button, down)
      PROVE  KeyedInv' /\ [~dot_paddle /\ ~dash_paddle /\ (dot_paddle' \/ dash_paddle') => fresh']_keyedVars
  BY <1>2, ButtonMoves
<1>3. ASSUME ReversePaddles \/ Clear \/ KeyCloses \/ KeyOpens \/ Time \/ Ask \/ Act
      PROVE  KeyedInv' /\ [~dot_paddle /\ ~dash_paddle /\ (dot_paddle' \/ dash_paddle') => fresh']_keyedVars
  BY <1>3, WindowChanges, KeyMoves, PollMoves
<1>. QED
  BY <1>1, <1>2, <1>3 DEF KeyedTextNext

\* For a user who holds nothing when the window changes, while no key event falls into
\* a poll: what is keyed is heard and shown once, the keyer starts from a timer that was
\* set for it, and a release releases everything.
THEOREM KeysAlwaysBecomeText ==
  ASSUME Careful, Whole
  PROVE  KeyedTextSpec => KeysBecomeText
<1>1. KeyedTextInit => KeyedInv
  BY InitIsKeyed
<1>2. KeyedInv /\ [KeyedTextNext]_keyedVars => KeyedInv'
  BY KeyedGoesOn
<1>3. KeyedInv /\ [KeyedTextNext]_keyedVars
        => [~dot_paddle /\ ~dash_paddle /\ (dot_paddle' \/ dash_paddle') => fresh']_keyedVars
  BY KeyedGoesOn
<1>4. KeyedInv => NothingIsStuck /\ MarksAreHeard /\ TextIsWhatWasKeyed
  <2>. SUFFICES ASSUME KeyedInv PROVE NothingIsStuck /\ MarksAreHeard /\ TextIsWhatWasKeyed
    OBVIOUS
  <2>1. NothingIsStuck
    BY DEF KeyedInv, Buttons, NothingIsStuck
  <2>2. MarksAreHeard
    BY DEF KeyedInv, Hears, MarksAreHeard
  <2>3. text # <<"space", "space">>
    BY DEF KeyedInv, Written
  <2>4. shown <= 1
    BY DEF KeyedInv, Hears
  <2>. QED
    BY <2>1, <2>2, <2>3, <2>4 DEF TextIsWhatWasKeyed
<1>. QED
  BY <1>1, <1>2, <1>3, <1>4, PTL DEF KeyedTextSpec, KeysBecomeText, KeyerStartsStamped
=============================================================================
