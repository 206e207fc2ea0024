----------------------------- MODULE IambicKeyer -----------------------------
(***************************************************************************)
(* The iambic keyer of libcw (libcw_key.c), with the generator thread that *)
(* clocks it (libcw_gen.c): the keyer enqueues one tone at a time, and the *)
(* end of that tone makes the generator thread call the keyer's graph      *)
(* update.  A client thread reports paddle events, starts the keyer when   *)
(* it is idle, switches modes, sends text, flushes and resets; a third     *)
(* thread waits.  None of the keyer's fields is guarded by a mutex: `lock' *)
(* is a plain flag, tested in one step and set in the next.                *)
(*                                                                         *)
(* The tone queue is the FIFO that ToneFifo describes (and the ring of     *)
(* ToneQueue implements), whose broadcasts wake the waiting thread.  One   *)
(* thread reports paddle events, so that only it takes the keyer out of    *)
(* the IDLE state.                                                         *)
(***************************************************************************)
EXTENDS Sequences, Integers

CONSTANTS
    Requests,  \* what is asked of the library besides paddle events
    MaxItems,  \* bound: the client sends text while fewer tones are queued
    Timely,    \* a graph update takes less time than a tone, and than the 1 ms before a retry
    Races      \* a paddle event may come while the generator thread updates the graph state

ASSUME RequestsAssumption == Requests \subseteq {"mode", "flush", "reset", "text", "wait"}
ASSUME MaxItemsAssumption == MaxItems \in Nat
ASSUME TimingAssumption == Timely \in BOOLEAN /\ Races \in BOOLEAN

Symbols == {"dot", "dash"}
Opposite(symbol) == CHOOSE other \in Symbols : other # symbol

(* What is in the tone queue: a mark of the keyer, the space between two   *)
(* marks, a tone of some other text, the quantum that silences.            *)
Sounds == Symbols \union {"ims", "text", "quantum"}

(* Values of key and paddles: TRUE stands for CW_KEY_VALUE_CLOSED.         *)
(* A graph state: KS_IDLE, or KS_<phase>_<symbol>_<mode>.                  *)
Idle == [phase |-> "idle", symbol |-> "dot", mode |-> "A"]
Graph == {Idle} \union [phase : {"in", "after"}, symbol : Symbols, mode : {"A", "B"}]
In(symbol, mode) == [phase |-> "in", symbol |-> symbol, mode |-> mode]

(* Mutant: the arguments change places.                                    *)
AfterSwapped(symbol, mode) == [phase |-> "after", symbol |-> mode, mode |-> symbol]

After(symbol, mode) == [phase |-> "after", symbol |-> symbol, mode |-> mode]

Threads == {"client", "gen"}

VARIABLES
    graph_state, key_value, paddle, latch, curtis_mode_b, curtis_b_latch, lock,
    items,          \* the tone queue
    just_emptied,   \* an empty queue is CW_TQ_JUST_EMPTIED, not CW_TQ_EMPTY
    playing,        \* the tone the generator plays, or "none"
    silencing,      \* gen->silencing_initialized
    at,             \* at[t]: where thread t is
    try,            \* try[t]: which of its two attempts to update
    mark,           \* mark[t]: the mark that t's update has begun, and whether it alternates
    wait,           \* what the waiting thread waits for
    asleep          \* it is inside of pthread_cond_wait()

keyer == <<graph_state, key_value, latch, curtis_b_latch, lock>>
inputs == <<paddle, curtis_mode_b>>
tones == <<items, just_emptied, playing>>
local == <<at, try, mark>>
waiting == <<wait, asleep>>
vars == <<keyer, inputs, tones, silencing, local, waiting>>

InUpdate == {"check", "lock", "dispatch", "end_mark", "rest", "clear_latch", "choose",
             "enter", "go_idle", "unlock", "retry"}
InNotify == {"latches", "curtis", "look"}
InSilence == {"silence", "level", "quantum", "level_again"}
InLoop == {"ready", "play", "done"}

TypeOK ==
    /\ graph_state \in Graph /\ key_value \in BOOLEAN /\ lock \in BOOLEAN
    /\ paddle \in [Symbols -> BOOLEAN] /\ latch \in [Symbols -> BOOLEAN]
    /\ curtis_mode_b \in BOOLEAN /\ curtis_b_latch \in BOOLEAN
    /\ items \in Seq(Sounds) /\ just_emptied \in BOOLEAN
    /\ playing \in Sounds \union {"none"} /\ silencing \in BOOLEAN
    /\ at["client"] \in {"none"} \union InNotify \union InSilence \union InUpdate /\ at["gen"] \in InLoop \union InUpdate
    /\ try \in [Threads -> {1, 2}]
    /\ mark \in [Threads -> [symbol : Symbols, alternates : {"no", "yes", "must"}]]
    /\ wait \in {"none", "idle", "mark", "space"} /\ asleep \in BOOLEAN

Init ==
    /\ graph_state = Idle /\ key_value = FALSE /\ lock = FALSE
    /\ paddle = [s \in Symbols |-> FALSE] /\ latch = [s \in Symbols |-> FALSE]
    /\ curtis_mode_b = FALSE /\ curtis_b_latch = FALSE
    /\ items = <<>> /\ just_emptied = FALSE /\ playing = "none" /\ silencing = FALSE
    /\ at = [t \in Threads |-> IF t = "gen" THEN "ready" ELSE "none"]
    /\ try = [t \in Threads |-> 1]
    /\ mark = [t \in Threads |-> [symbol |-> "dot", alternates |-> "no"]]
    /\ wait = "none" /\ asleep = FALSE

-----------------------------------------------------------------------------
(* The tone queue.                                                         *)

Broadcast == asleep' = FALSE /\ UNCHANGED wait

Goto(t, place) == at' = [at EXCEPT ![t] = place]

Enqueue(sound) ==
    /\ items' = Append(items, sound)
    /\ just_emptied' = FALSE
    /\ Broadcast
    /\ UNCHANGED playing

(* Nobody is told about a queue that has been CW_TQ_EMPTY already.         *)
EmptyQueue ==
    /\ items' = <<>>
    /\ just_emptied' = FALSE
    /\ IF items # <<>> \/ just_emptied THEN Broadcast ELSE UNCHANGED waiting

MakeEmpty == EmptyQueue /\ UNCHANGED playing

(* Mutant: the new value is not remembered.                                *)
SetValueForgotten(value, sound) ==
    IF key_value = value
    THEN UNCHANGED <<key_value, tones, waiting>>
    ELSE UNCHANGED key_value /\ Enqueue(sound)

(* cw_key_ik_set_value_internal(): a key that has the value already        *)
(* enqueues nothing.                                                       *)
SetValue(value, sound) ==
    IF key_value = value
    THEN UNCHANGED <<key_value, tones, waiting>>
    ELSE key_value' = value /\ Enqueue(sound)

-----------------------------------------------------------------------------
(* cw_key_ik_update_graph_state_internal(), run by thread t.               *)

Return(t) == Goto(t, IF t = "gen" THEN "done" ELSE "none")

UpdateFails(t) ==
    /\ at[t] = "check"
    /\ lock
    /\ IF try[t] = 1 THEN Goto(t, "retry") ELSE Return(t)
    /\ UNCHANGED <<keyer, inputs, tones, silencing, try, mark, waiting>>

(* usleep(1000) is over.                                                   *)
UpdateRetries(t) ==
    /\ at[t] = "retry"
    /\ Timely => ~lock
    /\ Goto(t, "check")
    /\ try' = [try EXCEPT ![t] = 2]
    /\ UNCHANGED <<keyer, inputs, tones, silencing, mark, waiting>>

UpdateFindsNoLock(t) ==
    /\ at[t] = "check"
    /\ ~lock
    /\ Goto(t, "lock")
    /\ UNCHANGED <<keyer, inputs, tones, silencing, try, mark, waiting>>

UpdateLocks(t) ==
    /\ at[t] = "lock"
    /\ lock' = TRUE
    /\ Goto(t, "dispatch")
    /\ UNCHANGED <<graph_state, key_value, latch, curtis_b_latch, inputs, tones, silencing,
                   try, mark, waiting>>

(* Mutant: the return from KS_IDLE leaves the lock behind.                 *)
DispatchKeepsLock(t) ==
    /\ at[t] = "dispatch"
    /\ \/ graph_state.phase = "idle" /\ Return(t)
       \/ graph_state.phase = "in" /\ Goto(t, "end_mark")
       \/ /\ graph_state.phase = "after"
          /\ Goto(t, IF paddle[graph_state.symbol] THEN "choose" ELSE "clear_latch")
    /\ mark' = [mark EXCEPT ![t].symbol = graph_state.symbol]
    /\ UNCHANGED <<keyer, inputs, tones, silencing, try, waiting>>

(* The switch on the graph state; mark remembers which case is taken.      *)
Dispatch(t) ==
    /\ at[t] = "dispatch"
    /\ \/ graph_state.phase = "idle" /\ Goto(t, "unlock")
       \/ graph_state.phase = "in" /\ Goto(t, "end_mark")
       \/ /\ graph_state.phase = "after"
          /\ Goto(t, IF paddle[graph_state.symbol] THEN "choose" ELSE "clear_latch")
    /\ mark' = [mark EXCEPT ![t].symbol = graph_state.symbol]
    /\ UNCHANGED <<keyer, inputs, tones, silencing, try, waiting>>

EndMark(t) ==
    /\ at[t] = "end_mark"
    /\ SetValue(FALSE, "ims")
    /\ Goto(t, "rest")
    /\ UNCHANGED <<graph_state, latch, curtis_b_latch, lock, inputs, silencing, try, mark>>

(* The mode is read from the graph state again: IDLE, after a reset, is    *)
(* not KS_IN_..._A.                                                        *)
Rest(t) ==
    /\ at[t] = "rest"
    /\ graph_state' = After(mark[t].symbol,
                            IF graph_state = In(mark[t].symbol, "A") THEN "A" ELSE "B")
    /\ Goto(t, "unlock")
    /\ UNCHANGED <<key_value, latch, curtis_b_latch, lock, inputs, tones, silencing,
                   try, mark, waiting>>

(* Mutant: the latch of the other symbol is cleared.                       *)
ClearOtherLatch(t) ==
    /\ at[t] = "clear_latch"
    /\ latch' = [latch EXCEPT ![Opposite(mark[t].symbol)] = FALSE]
    /\ Goto(t, "choose")
    /\ UNCHANGED <<graph_state, key_value, curtis_b_latch, lock, inputs, tones, silencing,
                   try, mark, waiting>>

ClearLatch(t) ==
    /\ at[t] = "clear_latch"
    /\ latch' = [latch EXCEPT ![mark[t].symbol] = FALSE]
    /\ Goto(t, "choose")
    /\ UNCHANGED <<graph_state, key_value, curtis_b_latch, lock, inputs, tones, silencing,
                   try, mark, waiting>>

(* A mark follows the space: the opposite one after a B state ("must") or  *)
(* because of its latch ("yes"), or the same one again ("no").             *)
BeginMark(t) ==
    LET same == mark[t].symbol
        mustAlternate == graph_state = After(same, "B")
        alternate == mustAlternate \/ latch[Opposite(same)]
        symbol == IF alternate THEN Opposite(same) ELSE same
    IN  /\ at[t] = "choose"
        /\ alternate \/ latch[same]
        /\ SetValue(TRUE, symbol)
        /\ mark' = [mark EXCEPT ![t] =
                       [symbol |-> symbol,
                        alternates |-> IF mustAlternate THEN "must"
                                       ELSE IF alternate THEN "yes" ELSE "no"]]
        /\ Goto(t, "enter")
        /\ UNCHANGED <<graph_state, latch, curtis_b_latch, lock, inputs, silencing, try>>

EnterMark(t) ==
    LET usesLatch == mark[t].alternates = "yes" /\ curtis_b_latch
    IN  /\ at[t] = "enter"
        /\ graph_state' = In(mark[t].symbol, IF usesLatch THEN "B" ELSE "A")
        /\ curtis_b_latch' = (curtis_b_latch /\ ~usesLatch)
        /\ Goto(t, "unlock")
        /\ UNCHANGED <<key_value, latch, lock, inputs, tones, silencing, try, mark, waiting>>

(* Mutant: only the latch of the other symbol is looked at.                *)
FindNothingElseToSend(t) ==
    /\ at[t] = "choose"
    /\ graph_state # After(mark[t].symbol, "B")
    /\ ~latch[Opposite(mark[t].symbol)]
    /\ Goto(t, "go_idle")
    /\ UNCHANGED <<keyer, inputs, tones, silencing, try, mark, waiting>>

FindNothingToSend(t) ==
    /\ at[t] = "choose"
    /\ graph_state # After(mark[t].symbol, "B")
    /\ \A s \in Symbols : ~latch[s]
    /\ Goto(t, "go_idle")
    /\ UNCHANGED <<keyer, inputs, tones, silencing, try, mark, waiting>>

GoIdle(t) ==
    /\ at[t] = "go_idle"
    /\ graph_state' = Idle
    /\ Goto(t, "unlock")
    /\ UNCHANGED <<key_value, latch, curtis_b_latch, lock, inputs, tones, silencing,
                   try, mark, waiting>>

UpdateUnlocks(t) ==
    /\ at[t] = "unlock"
    /\ lock' = FALSE
    /\ Return(t)
    /\ UNCHANGED <<graph_state, key_value, latch, curtis_b_latch, inputs, tones, silencing,
                   try, mark, waiting>>

Update(t) ==
    \/ UpdateFails(t) \/ UpdateRetries(t) \/ UpdateFindsNoLock(t) \/ UpdateLocks(t)
    \/ Dispatch(t) \/ EndMark(t) \/ Rest(t) \/ ClearLatch(t) \/ BeginMark(t) \/ EnterMark(t)
    \/ FindNothingToSend(t) \/ GoIdle(t) \/ UpdateUnlocks(t)

-----------------------------------------------------------------------------
(* cw_key_ik_notify_paddle_event(), run by the client thread.              *)

NotifyPaddles(dot, dash) ==
    /\ at["client"] = "none"
    /\ Races \/ at["gen"] \notin InUpdate
    /\ paddle' = [s \in Symbols |-> IF s = "dot" THEN dot ELSE dash]
    /\ Goto("client", "latches")
    /\ UNCHANGED <<keyer, curtis_mode_b, tones, silencing, try, mark, waiting>>

NotifyLatches ==
    /\ at["client"] = "latches"
    /\ latch' = [s \in Symbols |-> latch[s] \/ paddle[s]]
    /\ Goto("client", "curtis")
    /\ UNCHANGED <<graph_state, key_value, curtis_b_latch, lock, inputs, tones, silencing,
                   try, mark, waiting>>

NotifyCurtis ==
    /\ at["client"] = "curtis"
    /\ curtis_b_latch' = (curtis_b_latch \/ (curtis_mode_b /\ \A s \in Symbols : paddle[s]))
    /\ Goto("client", "look")
    /\ UNCHANGED <<graph_state, key_value, latch, lock, inputs, tones, silencing,
                   try, mark, waiting>>

NotifyBusyKeyer ==
    /\ at["client"] = "look"
    /\ graph_state # Idle \/ \A s \in Symbols : ~paddle[s]
    /\ Goto("client", "none")
    /\ UNCHANGED <<keyer, inputs, tones, silencing, try, mark, waiting>>

(* Mutant: the keyer is started again although it is in motion.            *)
NotifyAnyKeyer ==
    /\ at["client"] = "look"
    /\ \E s \in Symbols : paddle[s]
    /\ graph_state' = After(IF paddle["dot"] THEN "dash" ELSE "dot",
                            IF curtis_b_latch THEN "B" ELSE "A")
    /\ Goto("client", "check")
    /\ try' = [try EXCEPT !["client"] = 1]
    /\ UNCHANGED <<key_value, latch, curtis_b_latch, lock, inputs, tones, silencing,
                   mark, waiting>>

(* cw_key_ik_update_graph_state_initial_internal(): pretend to be after    *)
(* the other symbol.                                                       *)
NotifyIdleKeyer ==
    /\ at["client"] = "look"
    /\ graph_state = Idle
    /\ \E s \in Symbols : paddle[s]
    /\ graph_state' = After(IF paddle["dot"] THEN "dash" ELSE "dot",
                            IF curtis_b_latch THEN "B" ELSE "A")
    /\ Goto("client", "check")
    /\ try' = [try EXCEPT !["client"] = 1]
    /\ UNCHANGED <<key_value, latch, curtis_b_latch, lock, inputs, tones, silencing,
                   mark, waiting>>

-----------------------------------------------------------------------------
(* Other requests of the client thread.                                    *)

(* cw_key_ik_enable_curtis_mode_b(), cw_key_ik_disable_curtis_mode_b().    *)
SetCurtisModeB(value) ==
    /\ "mode" \in Requests
    /\ at["client"] = "none"
    /\ curtis_mode_b' = value
    /\ UNCHANGED <<keyer, paddle, tones, silencing, local, waiting>>

SendText ==
    /\ "text" \in Requests
    /\ at["client"] = "none"
    /\ Len(items) < MaxItems
    /\ Enqueue("text")
    /\ UNCHANGED <<keyer, inputs, silencing, local>>

(* cw_gen_flush_queue(): flush, then cw_gen_silence_internal().            *)
FlushQueue ==
    /\ "flush" \in Requests
    /\ at["client"] = "none"
    /\ MakeEmpty
    /\ Goto("client", "silence")
    /\ UNCHANGED <<keyer, inputs, silencing, try, mark>>

(* cw_key_ik_reset_internal(): reset the state, then                       *)
(* cw_gen_silence_internal().                                              *)
ResetState ==
    /\ "reset" \in Requests
    /\ at["client"] = "none"
    /\ graph_state' = Idle
    /\ key_value' = FALSE
    /\ paddle' = [s \in Symbols |-> FALSE]
    /\ latch' = [s \in Symbols |-> FALSE]
    /\ curtis_mode_b' = FALSE /\ curtis_b_latch' = FALSE
    /\ Goto("client", "silence")
    /\ UNCHANGED <<lock, tones, silencing, try, mark, waiting>>

(* cw_gen_silence_internal(); its last wait, for the end of the current    *)
(* tone, does not concern the keyer.                                       *)
Silence ==
    /\ at["client"] = "silence"
    /\ silencing' = TRUE
    /\ Goto("client", "level")
    /\ UNCHANGED <<keyer, inputs, tones, try, mark, waiting>>

SilenceReachesLevel ==
    /\ at["client"] \in {"level", "level_again"}
    /\ items = <<>>
    /\ Goto("client", IF at["client"] = "level" THEN "quantum" ELSE "none")
    /\ UNCHANGED <<keyer, inputs, tones, silencing, try, mark, waiting>>

SilenceEnqueues ==
    /\ at["client"] = "quantum"
    /\ Enqueue("quantum")
    /\ Goto("client", "level_again")
    /\ UNCHANGED <<keyer, inputs, silencing, try, mark>>

PaddleEvent == \E dot, dash \in BOOLEAN : NotifyPaddles(dot, dash)

Request ==
    \/ PaddleEvent
    \/ \E value \in BOOLEAN : SetCurtisModeB(value)
    \/ SendText \/ FlushQueue \/ ResetState

ClientGoesOn ==
    \/ NotifyLatches \/ NotifyCurtis \/ NotifyBusyKeyer \/ NotifyIdleKeyer
    \/ Silence \/ SilenceReachesLevel \/ SilenceEnqueues
    \/ Update("client")

-----------------------------------------------------------------------------
(* cw_gen_dequeue_and_generate_internal(), the generator thread.           *)

(* Mutant: nobody is told that the queue has become EMPTY.                 *)
DequeueLastEndedQuietly ==
    /\ at["gen"] = "ready"
    /\ items = <<>> /\ just_emptied
    /\ just_emptied' = FALSE
    /\ UNCHANGED <<keyer, inputs, items, playing, silencing, local, waiting>>

DequeueLastEnded ==
    /\ at["gen"] = "ready"
    /\ items = <<>> /\ just_emptied
    /\ just_emptied' = FALSE
    /\ Broadcast
    /\ UNCHANGED <<keyer, inputs, items, playing, silencing, local>>

DequeueTone ==
    /\ at["gen"] = "ready"
    /\ items # <<>>
    /\ playing' = Head(items)
    /\ items' = Tail(items)
    /\ just_emptied' = (Len(items) = 1)
    /\ Broadcast
    /\ Goto("gen", "play")
    /\ UNCHANGED <<keyer, inputs, silencing, try, mark>>

(* The blocking write returns; the broadcast comes before the update.      *)
ToneEnds ==
    /\ at["gen"] = "play"
    /\ Timely => at["client"] \notin InUpdate
    /\ Races \/ at["client"] \notin InNotify
    /\ Broadcast
    /\ Goto("gen", "check")
    /\ try' = [try EXCEPT !["gen"] = 1]
    /\ UNCHANGED <<keyer, inputs, tones, silencing, mark>>

LoopEnds ==
    /\ at["gen"] = "done"
    /\ IF silencing
       THEN EmptyQueue
       ELSE UNCHANGED <<items, just_emptied, waiting>>
    /\ silencing' = FALSE
    /\ playing' = "none"
    /\ Goto("gen", "ready")
    /\ UNCHANGED <<keyer, inputs, try, mark>>

Generator == DequeueLastEnded \/ DequeueTone \/ ToneEnds \/ LoopEnds \/ Update("gen")

-----------------------------------------------------------------------------
(* cw_key_ik_wait_for_keyer() and                                          *)
(* cw_key_ik_wait_for_end_of_current_element(), in a thread of their own.  *)

(* The conditions of the while loops: not IDLE; nor past the mark; nor     *)
(* past the space that follows.                                            *)
IsOver ==
    \/ graph_state = Idle
    \/ wait = "mark" /\ graph_state.phase = "after"
    \/ wait = "space" /\ graph_state.phase = "in"

WaitForKeyer ==
    /\ "wait" \in Requests
    /\ wait = "none"
    /\ \A s \in Symbols : ~paddle[s]
    /\ wait' = "idle"
    /\ UNCHANGED <<keyer, inputs, tones, silencing, local, asleep>>

WaitForEndOfCurrentElement ==
    /\ "wait" \in Requests
    /\ wait = "none"
    /\ wait' = "mark"
    /\ UNCHANGED <<keyer, inputs, tones, silencing, local, asleep>>

(* The condition is tested and the thread put to sleep under wait_mutex,   *)
(* which the keyer does not take.                                          *)
WaitSleeps ==
    /\ wait # "none" /\ ~asleep
    /\ ~IsOver
    /\ asleep' = TRUE
    /\ UNCHANGED <<keyer, inputs, tones, silencing, local, wait>>

WaitGoesOn ==
    /\ wait # "none" /\ ~asleep
    /\ IsOver
    /\ wait' = IF wait = "mark" THEN "space" ELSE "none"
    /\ UNCHANGED <<keyer, inputs, tones, silencing, local, asleep>>

SpuriousWakeup ==
    /\ asleep
    /\ asleep' = FALSE
    /\ UNCHANGED <<keyer, inputs, tones, silencing, local, wait>>

Waiter ==
    \/ WaitForKeyer \/ WaitForEndOfCurrentElement
    \/ WaitSleeps \/ WaitGoesOn \/ SpuriousWakeup

Next == Request \/ ClientGoesOn \/ Generator \/ Waiter

Spec == Init /\ [][Next]_vars

(* Each thread goes on with what it has begun: the client's call, the      *)
(* generator thread's loop, the waiter that is awake.  That a client calls *)
(* anything, and a spurious wakeup, are not to be relied on.               *)
Fairness ==
    /\ WF_vars(ClientGoesOn)
    /\ WF_vars(Generator)
    /\ WF_vars(WaitSleeps \/ WaitGoesOn)

-----------------------------------------------------------------------------
(* The keyer's own assertions: when a graph update begins, the key is      *)
(* closed at the end of a mark and open at the end of a space.             *)
KeyFitsGraphState ==
    \A t \in Threads : at[t] = "dispatch" =>
        /\ graph_state.phase = "in" => key_value
        /\ graph_state.phase = "after" => ~key_value

(* Outside of an update a keyer that is not idle has exactly one tone in   *)
(* the queue or being played, the one whose end will drive it on, and an   *)
(* idle keyer none: no mark is doubled, none is cut, and it never stalls.  *)
ClockedByOneTone ==
    (\A t \in Threads : at[t] \notin InUpdate) =>
        Len(items) + (IF at["gen"] = "play" THEN 1 ELSE 0) = (IF graph_state = Idle THEN 0 ELSE 1)

(* The lock is never left behind: while it is set some thread is in the    *)
(* critical section that will clear it, so that no later update is refused *)
(* for good.                                                               *)
LockIsHeld ==
    lock => \E t \in Threads :
                at[t] \in {"dispatch", "end_mark", "rest", "clear_latch", "choose", "enter",
                          "go_idle", "unlock"}

(* A paddle that was closed has been heard: when the client's call has     *)
(* returned and no update is running, an idle keyer has no latch set.      *)
PressIsHeard ==
    (at["client"] = "none" /\ at["gen"] \notin InUpdate /\ graph_state = Idle) =>
        \A s \in Symbols : ~latch[s]

(* The paddles are left alone and open from some time on.                  *)
PaddlesComeToRest == <>[](at["client"] = "none" /\ \A s \in Symbols : ~paddle[s])

(* A keyer whose paddles stay open completes its cycle and becomes idle.   *)
KeyerComesToRest == PaddlesComeToRest => <>[](graph_state = Idle)

(* And then whoever waits for the keyer, or for the end of an element, is  *)
(* released, although the keyer changes its state without wait_mutex and   *)
(* without a broadcast of its own: the queue's later broadcasts do it.     *)
WaitsAreReleased == PaddlesComeToRest => []<>(wait = "none")

(* Leaving the paddles alone lets go of everybody: of the keyer, which     *)
(* becomes idle, and of the clients that wait for it.                      *)
KeyerLetsGo == KeyerComesToRest /\ WaitsAreReleased
=============================================================================
