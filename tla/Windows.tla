------------------------------- MODULE Windows -------------------------------
(***************************************************************************)
(* xcwcp: windows that share one library (application.cc), of which one at *)
(* a time uses it, with what they send (sender.cc).  A window keeps the    *)
(* settings of its widgets and hands them to the library when it starts,   *)
(* and while it is using the library; the speed that the adaptive receiver *)
(* has found is saved for the next start.                                  *)
(*                                                                         *)
(* Everything here runs on the thread of the user interface, one event     *)
(* after the other.  Of the settings that are treated alike (speed,        *)
(* frequency, volume, gap, Curtis mode B) the speed stands for all.        *)
(***************************************************************************)
EXTENDS Integers, FiniteSets

CONSTANTS
    WindowNames,    \* the windows that are ever opened
    Speeds,         \* values of the speed's widget and of the receiver
    MaxQueued,      \* bound on the characters in a window's queue
    NoWindow

ASSUME WindowsAssumption == NoWindow \notin WindowNames /\ Speeds # {} /\ MaxQueued \in Nat \ {0}

VARIABLES
    opened, closed,        \* windows that exist, that have been closed and deleted
    is_using_libcw, poll_timer, play,
    user_instance,         \* libcw_user_application_instance
    timer_owner,           \* the window whose main_timer the library has for its key events
    speed_spin, adaptive_checked, saved_receive_speed, current_mode,
    sender_queue, sender_idle, space_pending,
    send_speed, receive_speed, adaptive_state, tones_left,   \* the library
    tracked, steady        \* history: the speed a window's receiver had found, no fixed speed since

windowVars == <<opened, closed, is_using_libcw, poll_timer, play, user_instance, timer_owner>>
settingVars == <<speed_spin, adaptive_checked, saved_receive_speed, current_mode>>
workVars == <<sender_queue, sender_idle, space_pending, tones_left>>
speedVars == <<send_speed, receive_speed, adaptive_state, tracked, steady>>
windowsVars == <<windowVars, settingVars, workVars, speedVars>>

WindowModes == {"dictionary", "keyboard", "receive"}

-----------------------------------------------------------------------------
(* The library's speeds, with what a window does to them; a value that one *)
(* slot hands to the next.                                                 *)

Library == [send |-> send_speed, receive |-> receive_speed, adaptive |-> adaptive_state]
SetLibrary(l) == send_speed' = l.send /\ receive_speed' = l.receive /\ adaptive_state' = l.adaptive

(* change_speed()                                                          *)
ChangedSpeed(l, w) ==
    [l EXCEPT !.send = speed_spin[w], !.receive = IF l.adaptive THEN @ ELSE speed_spin[w]]

(* change_adaptive_receive(): the library and the speed that is saved.     *)
ChangedAdaptive(l, w, checked) ==
    [l EXCEPT !.receive = IF checked THEN saved_receive_speed[w] ELSE speed_spin[w],
              !.adaptive = checked]
SavedBy(l, w, checked) == IF checked THEN saved_receive_speed[w] ELSE l.receive

(* What the slots do on a start, in their order.                           *)
\* Mutant: the speed of the widget is not taken over.
StartedUnsynchronized(w) == ChangedAdaptive(Library, w, adaptive_checked[w])
Started(w) == ChangedAdaptive(ChangedSpeed(Library, w), w, adaptive_checked[w])

-----------------------------------------------------------------------------
(* Application(): the callback of the library gets the new window's timer. *)
NewWindow(w) ==
    /\ w \notin opened \cup closed
    /\ opened' = opened \cup {w} /\ timer_owner' = w
    /\ saved_receive_speed' = [saved_receive_speed EXCEPT ![w] = receive_speed]
    /\ speed_spin' = [speed_spin EXCEPT ![w] = send_speed]
    /\ UNCHANGED <<closed, is_using_libcw, poll_timer, play, user_instance, adaptive_checked,
                   current_mode, workVars, speedVars>>

(* stop(), of a window that uses the library.                              *)
StoppedOf(w, flags) == [flags EXCEPT ![w] = FALSE]
\* Mutant: only the queue is cleared.
ClearedQueueOf(w) ==
    /\ sender_queue' = [sender_queue EXCEPT ![w] = 0] /\ tones_left' = FALSE
    /\ UNCHANGED <<sender_idle, space_pending>>
ClearedOf(w) ==
    /\ sender_queue' = [sender_queue EXCEPT ![w] = 0]
    /\ sender_idle' = [sender_idle EXCEPT ![w] = TRUE]
    /\ space_pending' = [space_pending EXCEPT ![w] = FALSE]
    /\ tones_left' = FALSE
\* Mutant: stop() does not save the speed of the receiver.
SavedOnStopNot(w) == saved_receive_speed
SavedOnStop(w) == [saved_receive_speed EXCEPT ![w] = receive_speed]
Stop(w) ==
    /\ is_using_libcw[w]
    /\ is_using_libcw' = StoppedOf(w, is_using_libcw) /\ poll_timer' = StoppedOf(w, poll_timer)
    /\ play' = StoppedOf(w, play) /\ user_instance' = NoWindow
    /\ ClearedOf(w) /\ saved_receive_speed' = SavedOnStop(w)
    /\ UNCHANGED <<opened, closed, timer_owner, speed_spin, adaptive_checked, current_mode, speedVars>>

(* start(), with the library free or after stopping the window that has it *)
(* (which keeps its speed, as stop() does).                                *)
\* Mutant: the window that has the library goes on.
OthersStopNot(flags) == flags
OthersStop(flags) == [v \in WindowNames |-> flags[v] /\ v # user_instance]
Start(w) ==
    /\ w \in opened /\ ~play[w]
    /\ user_instance' = w
    /\ is_using_libcw' = [OthersStop(is_using_libcw) EXCEPT ![w] = TRUE]
    /\ poll_timer' = [OthersStop(poll_timer) EXCEPT ![w] = TRUE]
    /\ play' = [OthersStop(play) EXCEPT ![w] = TRUE]
    /\ SetLibrary(Started(w))
    /\ saved_receive_speed' =
          [v \in WindowNames |-> IF v = w THEN SavedBy(ChangedSpeed(Library, w), w, adaptive_checked[w])
                                 ELSE IF v = user_instance THEN receive_speed ELSE saved_receive_speed[v]]
    /\ sender_queue' = [v \in WindowNames |-> IF v \in {w, user_instance} THEN 0 ELSE sender_queue[v]]
    /\ sender_idle' = [v \in WindowNames |-> v \in {w, user_instance} \/ sender_idle[v]]
    /\ space_pending' = [v \in WindowNames |-> v \notin {w, user_instance} /\ space_pending[v]]
    /\ tones_left' = FALSE
    /\ steady' = [steady EXCEPT ![w] = @ /\ adaptive_checked[w]]
    /\ UNCHANGED <<opened, closed, timer_owner, speed_spin, adaptive_checked, current_mode, tracked>>

(* closeEvent(), with stop() when the window is busy.                      *)
Close(w) ==
    /\ w \in opened /\ ~is_using_libcw[w]
    /\ opened' = opened \ {w} /\ closed' = closed \cup {w}
    /\ UNCHANGED <<is_using_libcw, poll_timer, play, user_instance, timer_owner, settingVars,
                   workVars, speedVars>>

-----------------------------------------------------------------------------
(* Slots of the widgets, which do nothing to the library for a window that *)
(* does not use it.                                                        *)

ChangeSpeed(w, value) ==
    /\ w \in opened /\ speed_spin' = [speed_spin EXCEPT ![w] = value]
    /\ IF is_using_libcw[w]
       THEN SetLibrary([send |-> value, adaptive |-> adaptive_state,
                        receive |-> IF adaptive_state THEN receive_speed ELSE value])
       ELSE UNCHANGED <<send_speed, receive_speed, adaptive_state>>
    /\ UNCHANGED <<windowVars, adaptive_checked, saved_receive_speed, current_mode, workVars,
                   tracked, steady>>

ToggleAdaptive(w) ==
    /\ w \in opened
    /\ adaptive_checked' = [adaptive_checked EXCEPT ![w] = ~@]
    /\ steady' = [steady EXCEPT ![w] = FALSE]
    /\ IF is_using_libcw[w]
       THEN /\ SetLibrary(ChangedAdaptive(Library, w, ~adaptive_checked[w]))
            /\ saved_receive_speed' = [saved_receive_speed EXCEPT ![w] = SavedBy(Library, w, ~adaptive_checked[w])]
       ELSE UNCHANGED <<send_speed, receive_speed, adaptive_state, saved_receive_speed>>
    /\ UNCHANGED <<windowVars, speed_spin, current_mode, workVars, tracked>>

SyncSpeed(w) ==
    /\ is_using_libcw[w] /\ adaptive_checked[w] /\ current_mode[w] = "receive"
    /\ receive_speed' = speed_spin[w] /\ tracked' = [tracked EXCEPT ![w] = speed_spin[w]]
    /\ steady' = [steady EXCEPT ![w] = TRUE]
    /\ UNCHANGED <<windowVars, settingVars, workVars, send_speed, adaptive_state>>

ChangeMode(w, mode) ==
    /\ w \in opened /\ current_mode' = [current_mode EXCEPT ![w] = mode]
    /\ IF is_using_libcw[w] THEN ClearedOf(w) ELSE UNCHANGED workVars
    /\ UNCHANGED <<windowVars, speed_spin, adaptive_checked, saved_receive_speed, speedVars>>

(* Sender::handle_key_event()                                              *)
Type(w) ==
    /\ is_using_libcw[w] /\ current_mode[w] = "keyboard"
    /\ \/ /\ sender_queue[w] < MaxQueued /\ sender_queue' = [sender_queue EXCEPT ![w] = @ + 1]
          /\ sender_idle' = [sender_idle EXCEPT ![w] = FALSE]
       \/ /\ sender_queue[w] > 0 /\ sender_queue' = [sender_queue EXCEPT ![w] = @ - 1]
          /\ UNCHANGED sender_idle
    /\ UNCHANGED <<windowVars, settingVars, space_pending, tones_left, speedVars>>

(* poll_timer_event(): Sender::poll(), and of Receiver::poll() that a      *)
(* character leaves a space to be expected.                                *)
PollSends(w) ==
    LET fills == current_mode[w] = "dictionary" /\ sender_queue[w] = 0
        idle == sender_idle[w] /\ ~fills
        queued == IF fills THEN MaxQueued ELSE sender_queue[w]
    IN /\ current_mode[w] # "receive" /\ ~tones_left
       /\ sender_queue' = [sender_queue EXCEPT ![w] = IF idle \/ queued = 0 THEN queued ELSE queued - 1]
       /\ sender_idle' = [sender_idle EXCEPT ![w] = idle \/ queued = 0]
       /\ tones_left' = (~idle /\ queued > 0)
       /\ UNCHANGED space_pending
PollReceives(w) ==
    /\ current_mode[w] = "receive"
    /\ \E pending \in BOOLEAN : space_pending' = [space_pending EXCEPT ![w] = pending]
    /\ UNCHANGED <<sender_queue, sender_idle, tones_left>>
PollTimerEvent(w) ==
    /\ poll_timer[w] /\ is_using_libcw[w]
    /\ PollSends(w) \/ PollReceives(w)
    /\ UNCHANGED <<windowVars, settingVars, speedVars>>

(* The library plays its tones, and its receiver finds a speed.            *)
Plays ==
    /\ tones_left /\ tones_left' = FALSE
    /\ UNCHANGED <<windowVars, settingVars, sender_queue, sender_idle, space_pending, speedVars>>
Adapts(value) ==
    /\ adaptive_state /\ user_instance # NoWindow
    /\ current_mode[user_instance] = "receive"
    /\ receive_speed' = value /\ tracked' = [tracked EXCEPT ![user_instance] = value]
    /\ steady' = [steady EXCEPT ![user_instance] = TRUE]
    /\ UNCHANGED <<windowVars, settingVars, workVars, send_speed, adaptive_state>>

-----------------------------------------------------------------------------
WindowsInit ==
    /\ opened = {} /\ closed = {} /\ user_instance = NoWindow /\ timer_owner = NoWindow
    /\ is_using_libcw = [w \in WindowNames |-> FALSE]
    /\ poll_timer = [w \in WindowNames |-> FALSE] /\ play = [w \in WindowNames |-> FALSE]
    /\ \E s \in Speeds :
          /\ speed_spin = [w \in WindowNames |-> s] /\ saved_receive_speed = [w \in WindowNames |-> s]
          /\ send_speed = s /\ receive_speed = s /\ tracked = [w \in WindowNames |-> s]
    /\ adaptive_checked = [w \in WindowNames |-> TRUE] /\ adaptive_state = FALSE
    /\ current_mode = [w \in WindowNames |-> "dictionary"]
    /\ sender_queue = [w \in WindowNames |-> 0] /\ sender_idle = [w \in WindowNames |-> TRUE]
    /\ space_pending = [w \in WindowNames |-> FALSE] /\ tones_left = FALSE
    /\ steady = [w \in WindowNames |-> FALSE]

WindowsNext ==
    \/ Plays \/ \E value \in Speeds : Adapts(value)
    \/ \E w \in WindowNames :
          \/ NewWindow(w) \/ Start(w) \/ Stop(w) \/ Close(w)
          \/ ToggleAdaptive(w) \/ SyncSpeed(w) \/ Type(w) \/ PollTimerEvent(w)
          \/ \E value \in Speeds : ChangeSpeed(w, value)
          \/ \E mode \in WindowModes : ChangeMode(w, mode)

WindowsSpec == WindowsInit /\ [][WindowsNext]_windowsVars

-----------------------------------------------------------------------------
(* At most one window uses the library; it is the one that key events are  *)
(* given to, its timer runs and its button says so, and no other's.        *)
OneWindowUsesLibrary ==
    \A w \in WindowNames :
        /\ is_using_libcw[w] = (user_instance = w)
        /\ poll_timer[w] = (user_instance = w) /\ play[w] = (user_instance = w)

(* The library has the settings of the window that uses it, whatever was   *)
(* set in it and in others, in use or not.                                 *)
LibraryFollowsWindow ==
    \A w \in WindowNames : user_instance = w =>
        /\ send_speed = speed_spin[w] /\ adaptive_state = adaptive_checked[w]
        /\ ~adaptive_state => receive_speed = speed_spin[w]

(* A window gets back the speed that its receiver had found, although      *)
(* others have used the receiver in between.                               *)
SpeedIsRestored ==
    \A w \in WindowNames : user_instance = w /\ adaptive_checked[w] /\ steady[w] => receive_speed = tracked[w]

(* A window that does not use the library has nothing to send and no space *)
(* to expect when it starts.                                               *)
RestingWindowIsClear ==
    \A w \in WindowNames : ~is_using_libcw[w] => sender_queue[w] = 0 /\ sender_idle[w] /\ ~space_pending[w]

(* Windows take turns with the one library: whoever has it has all of it,  *)
(* with his own settings, and what he leaves behind disturbs nobody.       *)
WindowsShareLibrary ==
    OneWindowUsesLibrary /\ LibraryFollowsWindow /\ SpeedIsRestored /\ RestingWindowIsClear

(* What change_adaptive_receive() says of its own: it restores the speed   *)
(* tracked before, also after a stop with a fixed speed.                   *)
TrackedSpeedComesBack ==
    \A w \in WindowNames : user_instance = w /\ adaptive_checked[w] => receive_speed = tracked[w]

(* Key events are stamped with the timer of the window that gets them.     *)
EventsHaveOwnTimer == user_instance # NoWindow => timer_owner = user_instance
=============================================================================
