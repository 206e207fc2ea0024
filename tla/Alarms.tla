-------------------------------- MODULE Alarms --------------------------------
(***************************************************************************)
(* Signals and finalization (libcw_signal.c and the end of libcw_utils.c): *)
(* the handler of SIGALRM and its timer, the finalization that is          *)
(* scheduled when the keyer is reset and that a countdown of alarms, a     *)
(* second each, brings about, cw_complete_reset(), and the other signals   *)
(* for which a client registers a callback.                                *)
(*                                                                         *)
(* The client's calls and the handler of the alarm are cut where a signal  *)
(* may come between.  The handler runs on the client's thread, which then  *)
(* stands still, or on another one.                                        *)
(***************************************************************************)
EXTENDS Integers, Sequences, FiniteSets

CONSTANTS
    FinalizationDelay,  \* CW_AUDIO_FINALIZATION_DELAY / CW_USECS_PER_SEC
    Signals,            \* the signals other than SIGALRM
    Callbacks,          \* the functions that clients register
    OtherThread         \* an alarm may be handled by another thread than the client's

ASSUME AlarmsAssumption ==
    FinalizationDelay \in Nat \ {0} /\ OtherThread \in BOOLEAN

VARIABLES
    call,          \* what the client has still to do
    handling,      \* what the handler of the alarm has still to do
    timer,         \* the alarm is set
    installed,     \* cw_is_sigalrm_handlers_caller_installed
    handled,       \* SIGALRM has the library's handler
    registered,    \* the clock is in cw_sigalrm_handlers[]
    pending,       \* cw_is_finalization_pending
    countdown,     \* cw_finalization_countdown
    locked_out,    \* cw_is_finalization_locked_out
    disposition,   \* of the other signals: "default", "ignore", "library", "foreign"
    callback,      \* cw_signal_callbacks[]
    running,       \* the program has not been ended by a signal
    timely         \* no second passes within a call that does not wait; never changes

alarmVars == <<timer, installed, handled, registered, pending, countdown, locked_out>>
signalVars == <<disposition, callback>>
alarmsVars == <<call, handling, alarmVars, signalVars, running, timely>>

Actions == {"default", "ignore"} \cup Callbacks

-----------------------------------------------------------------------------
(* Calls as sequences of steps; those that test something first become the *)
(* steps that they lead to.                                                *)

(* cw_timer_run_with_handler_internal(), with the clock or none to add to  *)
(* the table of handlers; it cancels what is pending.                      *)
RunWithHandler(clock) ==
    <<"install">> \o (IF clock THEN <<"register">> ELSE <<>>) \o <<"cancel", "arm">>

(* cw_finalization_schedule_internal(): pending is set last, since the     *)
(* timer's call clears it.                                                 *)
Schedule == IF locked_out \/ pending THEN <<>> ELSE RunWithHandler(TRUE) \o <<"pending">>

(* cw_sigalrm_restore_internal()                                           *)
\* Mutant: the default action comes back while the alarm is armed.
RestoreSignalFirst == IF installed THEN <<"default", "disarm", "uninstalled">> ELSE <<>>
Restore == IF installed THEN <<"disarm", "default", "uninstalled">> ELSE <<>>

(* cw_finalization_clock_internal(), after its decrement: pending is unset *)
(* and set again around the call that would cancel it.                     *)
\* Mutant: the call cancels what the clock counts down.
ClockStaysPending ==
    IF ~pending THEN <<>>
    ELSE IF countdown - 1 <= 0 THEN <<"restore", "finish">>
    ELSE RunWithHandler(FALSE) \o <<"resume">>
\* Mutant: the alarm is not asked for again.
ClockRunsOnce ==
    IF ~pending THEN <<>>
    ELSE IF countdown - 1 <= 0 THEN <<"restore", "finish">>
    ELSE <<"hold", "resume">>
Clock ==
    IF ~pending THEN <<>>
    ELSE IF countdown - 1 <= 0 THEN <<"restore", "finish">>
    ELSE <<"hold">> \o RunWithHandler(FALSE) \o <<"resume">>

(* cw_complete_reset(): stopping the generator takes more than a second,   *)
(* and the reset of the keyer schedules a finalization.                    *)
\* Mutant: scheduling is not locked out meanwhile.
CompleteResetNotLocked == <<"cancel", "stop", "schedule", "restore", "unlock">>
CompleteReset == <<"cancel", "lock", "stop", "schedule", "restore", "unlock">>

LeadsTo(name) ==
    CASE name = "schedule" -> Schedule
      [] name = "restore" -> Restore
      [] name = "clock" -> Clock
      [] OTHER -> <<>>

(* What a step assigns.                                                    *)
Assign(name) ==
    /\ timer' = ((timer \/ name = "arm") /\ name # "disarm")
    /\ installed' = ((installed \/ name = "install") /\ name # "uninstalled")
    /\ handled' = ((handled \/ (name = "install" /\ ~installed)) /\ name # "default")
    /\ registered' = (registered \/ name = "register")
    /\ pending' = ((pending \/ name \in {"pending", "resume"}) /\ name \notin {"cancel", "hold", "finish"})
    /\ countdown' = CASE name = "pending" -> FinalizationDelay
                      [] name = "clock" /\ pending -> countdown - 1
                      [] name = "finish" \/ (name = "cancel" /\ pending) -> 0
                      [] OTHER -> countdown
    /\ locked_out' = ((locked_out \/ name = "lock") /\ name # "unlock")

-----------------------------------------------------------------------------
(* The client's thread.                                                    *)

Mine == running /\ (OtherThread \/ handling = <<>>)

(* cw_reset_keyer(), cw_complete_reset(), and cw_gen_new(), which installs *)
(* the handler.                                                            *)
Call(steps) ==
    /\ Mine /\ call = <<>>
    /\ call' = steps
    /\ UNCHANGED <<handling, alarmVars, signalVars, running, timely>>

ClientSteps ==
    /\ Mine /\ call # <<>>
    /\ Assign(Head(call))
    /\ call' = LeadsTo(Head(call)) \o Tail(call)
    /\ UNCHANGED <<handling, signalVars, running, timely>>

-----------------------------------------------------------------------------
(* The alarm: the handlers in the table are called; without a handler the  *)
(* signal ends the program.                                                *)

Alarm ==
    /\ running /\ timer /\ handling = <<>>
    /\ timely => (IF call = <<>> THEN TRUE ELSE Head(call) = "stop")
    /\ timer' = FALSE
    /\ running' = handled
    /\ handling' = IF handled /\ registered THEN <<"clock">> ELSE <<>>
    /\ UNCHANGED <<call, installed, handled, registered, pending, countdown, locked_out, signalVars, timely>>

HandlerSteps ==
    /\ running /\ handling # <<>>
    /\ Assign(Head(handling))
    /\ handling' = LeadsTo(Head(handling)) \o Tail(handling)
    /\ UNCHANGED <<call, signalVars, running, timely>>

-----------------------------------------------------------------------------
(* Other signals.                                                          *)

(* cw_register_signal_handler(): a handler that is not the library's is    *)
(* put back.                                                               *)
RegisterSignalHandler(s, function) ==
    /\ Mine /\ call = <<>>
    /\ disposition[s] # "foreign"
    /\ disposition' = [disposition EXCEPT ![s] = "library"]
    /\ callback' = [callback EXCEPT ![s] = function]
    /\ UNCHANGED <<call, handling, alarmVars, running, timely>>

(* cw_unregister_signal_handler()                                          *)
UnregisterSignalHandler(s) ==
    /\ Mine /\ call = <<>>
    /\ disposition[s] = "library"
    /\ disposition' = [disposition EXCEPT ![s] = "default"]
    /\ callback' = [callback EXCEPT ![s] = "default"]
    /\ UNCHANGED <<call, handling, alarmVars, running, timely>>

(* The client sets a disposition by itself.                                *)
SetDisposition(s, value) ==
    /\ Mine /\ call = <<>>
    /\ disposition' = [disposition EXCEPT ![s] = value]
    /\ UNCHANGED <<call, handling, alarmVars, callback, running, timely>>

(* What becomes of a signal: cw_signal_main_handler_internal() calls the   *)
(* callback, and does nothing where there is none.                         *)
Outcome(s) ==
    IF disposition[s] # "library" THEN disposition[s]
    ELSE IF callback[s] \in Callbacks THEN callback[s] ELSE "ignore"

Signal(s) ==
    /\ running
    /\ running' = (Outcome(s) # "default")
    /\ UNCHANGED <<call, handling, alarmVars, signalVars, timely>>

-----------------------------------------------------------------------------
AlarmsInit ==
    /\ call = <<>> /\ handling = <<>>
    /\ timer = FALSE /\ installed = FALSE /\ handled = FALSE /\ registered = FALSE
    /\ pending = FALSE /\ countdown = 0 /\ locked_out = FALSE
    /\ disposition \in [Signals -> {"default", "ignore", "foreign"}]
    /\ callback = [s \in Signals |-> "default"]
    /\ running = TRUE /\ timely \in BOOLEAN

AlarmsNext ==
    \/ Call(<<"schedule">>) \/ Call(CompleteReset) \/ Call(<<"install">>)
    \/ ClientSteps \/ Alarm \/ HandlerSteps
    \/ \E s \in Signals :
          \/ \E function \in Actions : RegisterSignalHandler(s, function)
          \/ UnregisterSignalHandler(s)
          \/ \E value \in {"default", "ignore", "foreign"} : SetDisposition(s, value)
          \/ Signal(s)

AlarmsSpec == AlarmsInit /\ [][AlarmsNext]_alarmsVars

(* Threads go on, and an alarm that is set comes, however many calls the   *)
(* client makes meanwhile.                                                 *)
AlarmsFairness ==
    WF_alarmsVars(ClientSteps) /\ WF_alarmsVars(HandlerSteps) /\ SF_alarmsVars(Alarm)

-----------------------------------------------------------------------------
(* No alarm ends the program: while the timer is set the signal has its    *)
(* handler, also while both are being set up or taken down.                *)
AlarmsAreHandled == timer => handled

(* A finalization that is pending has an alarm to come and seconds to      *)
(* count, as long as no second passes within a call; otherwise it would be *)
(* pending for ever and in the way of every later one.                     *)
PendingCountsDown ==
    pending /\ call = <<>> /\ handling = <<>> /\ timely =>
        timer /\ registered /\ countdown \in 1..FinalizationDelay

(* A complete reset leaves nothing to happen: no finalization, no timer,   *)
(* no handler, although it resets the keyer, which schedules one.          *)
ResetIsComplete == call = <<"unlock">> => ~pending /\ ~timer /\ ~handled /\ handling = <<>>

(* The finalization takes place, or is cancelled by a reset, or the        *)
(* program ends.                                                           *)
FinalizationComes == (pending /\ timely) ~> (~pending \/ ~running)

(* A finalization that is scheduled takes place unless it is cancelled,    *)
(* however alarms fall between the steps of the calls that set them up,    *)
(* and leaves neither an alarm without a handler nor a handler behind.     *)
FinalizationIsSound == FinalizationComes /\ [](AlarmsAreHandled /\ PendingCountsDown /\ ResetIsComplete)

(* What the comment of cw_register_signal_handler() says of SIG_DFL.       *)
DefaultEndsProgram ==
    \A s \in Signals : disposition[s] = "library" /\ callback[s] = "default" => Outcome(s) = "default"

AlarmsLive == AlarmsSpec /\ AlarmsFairness
=============================================================================
