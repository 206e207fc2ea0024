---------------------------- MODULE ProgramProofs ----------------------------
(* Of the programs: that windows of xcwcp share the library, that the tests   *)
(* of the receiver test what they say, that the options of cw, cwcp and cwgen *)
(* are honoured, that the elements of sound and text are right, that          *)
(* dictionaries survive their files, that combinations of cw end and that     *)
(* the window of cwcp tells the truth, each part by an invariant of its own;  *)
(* and that the composition of the programs is one of the parts.              *)
EXTENDS MCPrograms, FoldTheorems


-----------------------------------------------------------------------------
(* xcwcp.  At most one window uses the library; it has the settings of that   *)
(* window, what is found by its receiver is saved when it stops, and a window *)
(* that stops leaves no work behind.                                          *)
Flags == [WindowNames -> BOOLEAN]

WindowTypes ==
    /\ opened \subseteq WindowNames /\ user_instance \in WindowNames \cup {NoWindow}
    /\ is_using_libcw \in Flags /\ poll_timer \in Flags /\ play \in Flags
    /\ adaptive_checked \in Flags /\ sender_idle \in Flags /\ space_pending \in Flags
    /\ steady \in Flags /\ adaptive_state \in BOOLEAN
    /\ DOMAIN speed_spin = WindowNames /\ DOMAIN saved_receive_speed = WindowNames
    /\ DOMAIN sender_queue = WindowNames /\ DOMAIN tracked = WindowNames
    /\ DOMAIN current_mode = WindowNames

UserIsUsing(w) ==
    /\ is_using_libcw[w] <=> user_instance = w
    /\ poll_timer[w] <=> user_instance = w
    /\ play[w] <=> user_instance = w
    /\ user_instance = w => w \in opened

(* The library has the settings of its user, and the speed that has been   *)
(* found is there, or saved by a window that does not use the library.     *)
SettingsAreKept(w) ==
    /\ user_instance = w =>
          /\ send_speed = speed_spin[w]
          /\ adaptive_state <=> adaptive_checked[w]
          /\ ~adaptive_state => receive_speed = speed_spin[w]
    /\ adaptive_checked[w] /\ steady[w] =>
          tracked[w] = IF user_instance = w THEN receive_speed ELSE saved_receive_speed[w]
    /\ w \notin opened \cup closed => ~steady[w]

NothingIsLeft(w) ==
    user_instance # w => sender_queue[w] = 0 /\ sender_idle[w] /\ ~space_pending[w]

WindowInv(w) == UserIsUsing(w) /\ SettingsAreKept(w) /\ NothingIsLeft(w)

WindowsInv == WindowTypes /\ \A w \in WindowNames : WindowInv(w)

LEMMA InitWindowsInv == WindowsInit => WindowsInv
<1> SUFFICES ASSUME WindowsInit PROVE WindowsInv
  OBVIOUS
<1>1. WindowTypes
  <2>1. PICK s \in Speeds :
          /\ speed_spin = [w \in WindowNames |-> s] /\ saved_receive_speed = [w \in WindowNames |-> s]
          /\ send_speed = s /\ receive_speed = s /\ tracked = [w \in WindowNames |-> s]
    BY DEF WindowsInit
  <2> QED
    BY <2>1 DEF WindowsInit, WindowTypes, Flags
<1>2. ASSUME NEW w \in WindowNames PROVE WindowInv(w)
  <2>1. UserIsUsing(w)
    BY WindowsAssumption DEF WindowsInit, UserIsUsing
  <2>2. SettingsAreKept(w)
    BY WindowsAssumption DEF WindowsInit, SettingsAreKept
  <2>3. NothingIsLeft(w)
    BY DEF WindowsInit, NothingIsLeft
  <2> QED
    BY <2>1, <2>2, <2>3 DEF WindowInv
<1> QED
  BY <1>1, <1>2 DEF WindowsInv

(* Windows that are opened and closed do not use the library.              *)
LEMMA OpeningKeepsWindows ==
    ASSUME WindowsInv, NEW w \in WindowNames, NewWindow(w) \/ Close(w)
    PROVE  WindowsInv'
<1>1. WindowTypes /\ UserIsUsing(w) /\ SettingsAreKept(w)
  BY DEF WindowsInv, WindowInv
<1>2. /\ UNCHANGED <<is_using_libcw, poll_timer, play, user_instance, adaptive_checked, current_mode>>
      /\ UNCHANGED workVars /\ UNCHANGED speedVars
      /\ opened' \cup closed' = opened \cup closed \cup {w}
      /\ opened' \subseteq WindowNames /\ (\A v \in opened : v # w => v \in opened')
      /\ DOMAIN speed_spin' = WindowNames /\ DOMAIN saved_receive_speed' = WindowNames
      /\ \A v \in WindowNames : v # w => speed_spin'[v] = speed_spin[v] /\ saved_receive_speed'[v] = saved_receive_speed[v]
  <2>1. CASE NewWindow(w)
    BY <1>1, <2>1 DEF NewWindow, WindowTypes
  <2>2. CASE Close(w)
    <3>1. opened' = opened \ {w} /\ closed' = closed \cup {w} /\ w \in opened
      BY <2>2 DEF Close
    <3> QED
      BY <1>1, <2>2, <3>1 DEF Close, WindowTypes, settingVars
  <2> QED
    BY <2>1, <2>2
<1>3. user_instance # w
  <2>1. CASE NewWindow(w)
    BY <1>1, <2>1 DEF NewWindow, UserIsUsing
  <2>2. CASE Close(w)
    BY <1>1, <2>2 DEF Close, UserIsUsing
  <2> QED
    BY <2>1, <2>2
<1>4. steady[w] => UNCHANGED saved_receive_speed
  <2>1. CASE NewWindow(w)
    BY <1>1, <2>1 DEF NewWindow, SettingsAreKept
  <2>2. CASE Close(w)
    BY <2>2 DEF Close, settingVars
  <2> QED
    BY <2>1, <2>2
<1>5. WindowTypes'
  BY <1>1, <1>2 DEF WindowTypes, workVars, speedVars
<1>6. ASSUME NEW v \in WindowNames PROVE WindowInv(v)'
  <2>1. UserIsUsing(v) /\ SettingsAreKept(v) /\ NothingIsLeft(v)
    BY DEF WindowsInv, WindowInv
  <2>2. UserIsUsing(v)'
    BY <1>2, <1>3, <2>1 DEF UserIsUsing
  <2>3. SettingsAreKept(v)'
    <3>1. v \notin opened' \cup closed' => v \notin opened \cup closed
      BY <1>2
    <3>2. CASE v = w
      BY <1>2, <1>3, <1>4, <2>1, <3>1, <3>2 DEF SettingsAreKept, speedVars
    <3>3. CASE v # w
      BY <1>2, <2>1, <3>1, <3>3 DEF SettingsAreKept, speedVars
    <3> QED
      BY <3>2, <3>3
  <2>4. NothingIsLeft(v)'
    BY <1>2, <2>1 DEF NothingIsLeft, workVars
  <2> QED
    BY <2>2, <2>3, <2>4 DEF WindowInv
<1> QED
  BY <1>5, <1>6 DEF WindowsInv

(* A window that stops leaves nothing behind, and saves the speed.         *)
LEMMA StopKeepsWindows ==
    ASSUME WindowsInv, NEW w \in WindowNames, Stop(w)
    PROVE  WindowsInv'
<1>1. WindowTypes /\ UserIsUsing(w) /\ SettingsAreKept(w)
  BY DEF WindowsInv, WindowInv
<1>2. /\ user_instance = w /\ user_instance' = NoWindow /\ w # NoWindow
      /\ UNCHANGED <<opened, closed, speed_spin, adaptive_checked, current_mode>> /\ UNCHANGED speedVars
  BY <1>1, WindowsAssumption DEF Stop, UserIsUsing
<1>3. /\ is_using_libcw' \in Flags /\ poll_timer' \in Flags /\ play' \in Flags
      /\ sender_idle' \in Flags /\ space_pending' \in Flags
      /\ DOMAIN sender_queue' = WindowNames /\ DOMAIN saved_receive_speed' = WindowNames
  BY <1>1 DEF Stop, StoppedOf, ClearedOf, SavedOnStop, WindowTypes, Flags
<1>4. /\ ~is_using_libcw'[w] /\ ~poll_timer'[w] /\ ~play'[w]
      /\ sender_queue'[w] = 0 /\ sender_idle'[w] /\ ~space_pending'[w]
      /\ saved_receive_speed'[w] = receive_speed
  BY <1>1 DEF Stop, StoppedOf, ClearedOf, SavedOnStop, WindowTypes, Flags
<1>5. ASSUME NEW v \in WindowNames, v # w
      PROVE  /\ is_using_libcw'[v] <=> is_using_libcw[v]
             /\ poll_timer'[v] <=> poll_timer[v]
             /\ play'[v] <=> play[v]
             /\ sender_queue'[v] = sender_queue[v]
             /\ sender_idle'[v] <=> sender_idle[v]
             /\ space_pending'[v] <=> space_pending[v]
             /\ saved_receive_speed'[v] = saved_receive_speed[v]
  BY <1>1, <1>5 DEF Stop, StoppedOf, ClearedOf, SavedOnStop, WindowTypes, Flags
<1>6. WindowTypes'
  BY <1>1, <1>2, <1>3 DEF WindowTypes, speedVars
<1>7. ASSUME NEW v \in WindowNames PROVE WindowInv(v)'
  <2>1. UserIsUsing(v) /\ SettingsAreKept(v) /\ NothingIsLeft(v) /\ v # NoWindow
    BY WindowsAssumption DEF WindowsInv, WindowInv
  <2>2. UserIsUsing(v)'
    BY <1>2, <1>4, <1>5, <2>1 DEF UserIsUsing
  <2>3. SettingsAreKept(v)'
    BY <1>2, <1>4, <1>5, <2>1 DEF SettingsAreKept, speedVars
  <2>4. NothingIsLeft(v)'
    BY <1>2, <1>4, <1>5, <2>1 DEF NothingIsLeft
  <2> QED
    BY <2>2, <2>3, <2>4 DEF WindowInv
<1> QED
  BY <1>6, <1>7 DEF WindowsInv

(* A window that starts stops the one that uses the library, which saves   *)
(* its speed, and hands its own settings over.                             *)
LEMMA StartKeepsWindows ==
    ASSUME WindowsInv, NEW w \in WindowNames, Start(w)
    PROVE  WindowsInv'
<1>1. WindowTypes /\ UserIsUsing(w) /\ SettingsAreKept(w)
  BY DEF WindowsInv, WindowInv
<1>2. /\ user_instance # w /\ user_instance' = w /\ w \in opened
      /\ UNCHANGED <<opened, closed, speed_spin, adaptive_checked, current_mode, tracked>>
  BY <1>1 DEF Start, UserIsUsing
<1>3. /\ is_using_libcw' \in Flags /\ poll_timer' \in Flags /\ play' \in Flags
      /\ sender_idle' \in Flags /\ space_pending' \in Flags
      /\ DOMAIN sender_queue' = WindowNames /\ DOMAIN saved_receive_speed' = WindowNames
  BY <1>1 DEF Start, OthersStop, WindowTypes, Flags
<1>4. /\ is_using_libcw'[w] /\ poll_timer'[w] /\ play'[w]
      /\ sender_queue'[w] = 0 /\ sender_idle'[w] /\ ~space_pending'[w]
  BY <1>1 DEF Start, OthersStop, WindowTypes, Flags
<1>5. ASSUME NEW v \in WindowNames, v # w
      PROVE  /\ is_using_libcw'[v] <=> is_using_libcw[v] /\ v # user_instance
             /\ poll_timer'[v] <=> poll_timer[v] /\ v # user_instance
             /\ play'[v] <=> play[v] /\ v # user_instance
             /\ sender_queue'[v] = IF v = user_instance THEN 0 ELSE sender_queue[v]
             /\ sender_idle'[v] <=> v = user_instance \/ sender_idle[v]
             /\ space_pending'[v] <=> v # user_instance /\ space_pending[v]
             /\ saved_receive_speed'[v] = IF v = user_instance THEN receive_speed ELSE saved_receive_speed[v]
  BY <1>1, <1>5 DEF Start, OthersStop, WindowTypes, Flags
<1>6. /\ send_speed' = speed_spin[w]
      /\ adaptive_state' = adaptive_checked[w]
      /\ receive_speed' = IF adaptive_checked[w] THEN saved_receive_speed[w] ELSE speed_spin[w]
  BY DEF Start, SetLibrary, Started, ChangedAdaptive, ChangedSpeed, Library
<1>7. /\ steady' \in Flags
      /\ steady'[w] => steady[w]
      /\ \A v \in WindowNames : v # w => (steady'[v] <=> steady[v])
  <2>1. steady' = [steady EXCEPT ![w] = steady[w] /\ adaptive_checked[w]]
    BY DEF Start
  <2> QED
    BY <1>1, <2>1 DEF WindowTypes, Flags
<1>8. WindowTypes'
  BY <1>1, <1>2, <1>3, <1>6, <1>7 DEF WindowTypes, Flags
<1>9. ASSUME NEW v \in WindowNames PROVE WindowInv(v)'
  <2>1. UserIsUsing(v) /\ SettingsAreKept(v) /\ NothingIsLeft(v)
    BY DEF WindowsInv, WindowInv
  <2>2. UserIsUsing(v)'
    BY <1>2, <1>4, <1>5, <2>1 DEF UserIsUsing
  <2>3. SettingsAreKept(v)'
    <3>1. CASE v = w
      BY <1>2, <1>6, <1>7, <2>1, <3>1 DEF SettingsAreKept
    <3>2. CASE v # w
      BY <1>2, <1>5, <1>7, <2>1, <3>2 DEF SettingsAreKept
    <3> QED
      BY <3>1, <3>2
  <2>4. NothingIsLeft(v)'
    <3>1. CASE v = w
      BY <1>2, <3>1 DEF NothingIsLeft
    <3>2. CASE v # w
      BY <1>2, <1>5, <2>1, <3>2 DEF NothingIsLeft
    <3> QED
      BY <3>1, <3>2
  <2> QED
    BY <2>2, <2>3, <2>4 DEF WindowInv
<1> QED
  BY <1>8, <1>9 DEF WindowsInv

(* The slots of the widgets, and the speed that a receiver finds.          *)
LEMMA SpeedsKeepWindows ==
    ASSUME WindowsInv, NEW w \in WindowNames, NEW value,
           ChangeSpeed(w, value) \/ ToggleAdaptive(w) \/ SyncSpeed(w) \/ (Adapts(value) /\ user_instance = w)
    PROVE  WindowsInv'
<1>1. WindowTypes /\ UserIsUsing(w) /\ SettingsAreKept(w) /\ w # NoWindow
  BY WindowsAssumption DEF WindowsInv, WindowInv
<1>2. UNCHANGED windowVars /\ UNCHANGED workVars /\ UNCHANGED current_mode
  BY DEF ChangeSpeed, ToggleAdaptive, SyncSpeed, Adapts, settingVars
<1>3. /\ DOMAIN speed_spin' = WindowNames /\ DOMAIN saved_receive_speed' = WindowNames
      /\ DOMAIN tracked' = WindowNames
      /\ adaptive_checked' \in Flags /\ steady' \in Flags /\ adaptive_state' \in BOOLEAN
  <2>1. CASE ChangeSpeed(w, value)
    BY <1>1, <2>1 DEF ChangeSpeed, SetLibrary, WindowTypes, Flags
  <2>2. CASE ToggleAdaptive(w)
    BY <1>1, <2>2 DEF ToggleAdaptive, SetLibrary, ChangedAdaptive, Library, WindowTypes, Flags
  <2>3. CASE SyncSpeed(w) \/ (Adapts(value) /\ user_instance = w)
    BY <1>1, <2>3 DEF SyncSpeed, Adapts, settingVars, WindowTypes, Flags
  <2> QED
    BY <2>1, <2>2, <2>3
<1>4. WindowTypes'
  BY <1>1, <1>2, <1>3 DEF WindowTypes, windowVars, workVars
<1>5. SettingsAreKept(w)'
  <2>1. CASE ChangeSpeed(w, value)
    <3>1. speed_spin'[w] = value
      BY <1>1, <2>1 DEF ChangeSpeed, WindowTypes
    <3>2. CASE is_using_libcw[w]
      BY <1>1, <2>1, <3>1, <3>2 DEF ChangeSpeed, SetLibrary, UserIsUsing, SettingsAreKept, windowVars
    <3>3. CASE ~is_using_libcw[w]
      BY <1>1, <2>1, <3>1, <3>3 DEF ChangeSpeed, UserIsUsing, SettingsAreKept, windowVars
    <3> QED
      BY <3>2, <3>3
  <2>2. CASE ToggleAdaptive(w)
    <3>1. (adaptive_checked'[w] <=> ~adaptive_checked[w]) /\ ~steady'[w] /\ UNCHANGED speed_spin
      BY <1>1, <2>2 DEF ToggleAdaptive, WindowTypes, Flags
    <3>2. CASE is_using_libcw[w]
      <4>1. /\ send_speed' = send_speed /\ (adaptive_state' <=> ~adaptive_checked[w])
            /\ receive_speed' = IF ~adaptive_checked[w] THEN saved_receive_speed[w] ELSE speed_spin[w]
        BY <2>2, <3>2 DEF ToggleAdaptive, SetLibrary, ChangedAdaptive, Library
      <4> QED
        BY <1>1, <1>2, <3>1, <3>2, <4>1 DEF UserIsUsing, SettingsAreKept, windowVars
    <3>3. CASE ~is_using_libcw[w]
      BY <1>1, <1>2, <3>1, <3>3 DEF UserIsUsing, SettingsAreKept, windowVars
    <3> QED
      BY <3>2, <3>3
  <2>3. CASE SyncSpeed(w) \/ (Adapts(value) /\ user_instance = w)
    <3>1. user_instance = w /\ adaptive_state
      BY <1>1, <2>3 DEF SyncSpeed, Adapts, UserIsUsing, SettingsAreKept
    <3>2. tracked'[w] = receive_speed' /\ UNCHANGED settingVars /\ UNCHANGED <<send_speed, adaptive_state>>
      BY <1>1, <2>3 DEF SyncSpeed, Adapts, WindowTypes
    <3>3. w \in opened
      BY <1>1, <3>1 DEF UserIsUsing
    <3> QED
      BY <1>1, <1>2, <3>1, <3>2, <3>3 DEF SettingsAreKept, settingVars, windowVars
  <2> QED
    BY <2>1, <2>2, <2>3
<1>6. ASSUME NEW v \in WindowNames, v # w PROVE SettingsAreKept(v)'
  <2>1. SettingsAreKept(v)
    BY DEF WindowsInv, WindowInv
  <2>2. /\ speed_spin'[v] = speed_spin[v] /\ (adaptive_checked'[v] <=> adaptive_checked[v])
        /\ saved_receive_speed'[v] = saved_receive_speed[v]
        /\ tracked'[v] = tracked[v] /\ (steady'[v] <=> steady[v])
    <3>1. CASE ChangeSpeed(w, value)
      BY <1>1, <1>6, <3>1 DEF ChangeSpeed, WindowTypes
    <3>2. CASE ToggleAdaptive(w)
      BY <1>1, <1>6, <3>2 DEF ToggleAdaptive, WindowTypes, Flags
    <3>3. CASE SyncSpeed(w) \/ (Adapts(value) /\ user_instance = w)
      BY <1>1, <1>6, <3>3 DEF SyncSpeed, Adapts, settingVars, WindowTypes, Flags
    <3> QED
      BY <3>1, <3>2, <3>3
  <2>3. user_instance = v => UNCHANGED <<send_speed, receive_speed, adaptive_state>>
    <3>1. user_instance = v => ~is_using_libcw[w] /\ user_instance # w
      BY <1>1, <1>6 DEF UserIsUsing
    <3> QED
      BY <3>1 DEF ChangeSpeed, ToggleAdaptive, SyncSpeed
  <2> QED
    BY <1>2, <2>1, <2>2, <2>3 DEF SettingsAreKept, windowVars
<1>7. ASSUME NEW v \in WindowNames PROVE WindowInv(v)'
  <2>1. UserIsUsing(v) /\ NothingIsLeft(v)
    BY DEF WindowsInv, WindowInv
  <2>2. UserIsUsing(v)' /\ NothingIsLeft(v)'
    BY <1>2, <2>1 DEF UserIsUsing, NothingIsLeft, windowVars, workVars
  <2> QED
    BY <1>5, <1>6, <2>2 DEF WindowInv
<1> QED
  BY <1>4, <1>7 DEF WindowsInv

(* What is sent, received and played is the user's.                        *)
LEMMA WorkKeepsWindows ==
    ASSUME WindowsInv, NEW w \in WindowNames, NEW mode,
           ChangeMode(w, mode) \/ Type(w) \/ PollTimerEvent(w) \/ Plays
    PROVE  WindowsInv'
<1>1. WindowTypes /\ UserIsUsing(w)
  BY DEF WindowsInv, WindowInv
<1>2. /\ UNCHANGED windowVars /\ UNCHANGED <<speed_spin, adaptive_checked, saved_receive_speed>>
      /\ UNCHANGED speedVars
      /\ DOMAIN current_mode' = WindowNames
  BY <1>1 DEF ChangeMode, Type, PollTimerEvent, Plays, settingVars, WindowTypes
<1>3. /\ DOMAIN sender_queue' = WindowNames /\ sender_idle' \in Flags /\ space_pending' \in Flags
      /\ \A v \in WindowNames : v # w \/ user_instance # w =>
            /\ sender_queue'[v] = sender_queue[v] /\ (sender_idle'[v] <=> sender_idle[v])
            /\ space_pending'[v] <=> space_pending[v]
  <2>1. CASE ChangeMode(w, mode)
    <3>1. CASE is_using_libcw[w]
      BY <1>1, <2>1, <3>1 DEF ChangeMode, ClearedOf, WindowTypes, Flags, UserIsUsing
    <3>2. CASE ~is_using_libcw[w]
      BY <1>1, <2>1, <3>2 DEF ChangeMode, workVars, WindowTypes
    <3> QED
      BY <3>1, <3>2
  <2>2. CASE Type(w)
    BY <1>1, <2>2 DEF Type, WindowTypes, Flags, UserIsUsing
  <2>3. CASE PollTimerEvent(w)
    <3>1. user_instance = w
      BY <1>1, <2>3 DEF PollTimerEvent, UserIsUsing
    <3>2. CASE PollSends(w)
      <4>1. PICK unsent, idle :
               /\ sender_queue' = [sender_queue EXCEPT ![w] = unsent]
               /\ sender_idle' = [sender_idle EXCEPT ![w] = idle] /\ idle \in BOOLEAN
               /\ UNCHANGED space_pending
        BY <3>2 DEF PollSends
      <4> QED
        BY <1>1, <3>1, <4>1 DEF WindowTypes, Flags
    <3>3. CASE PollReceives(w)
      BY <1>1, <3>1, <3>3 DEF PollReceives, WindowTypes, Flags
    <3> QED
      BY <2>3, <3>2, <3>3 DEF PollTimerEvent
  <2>4. CASE Plays
    BY <1>1, <2>4 DEF Plays, WindowTypes
  <2> QED
    BY <2>1, <2>2, <2>3, <2>4
<1>4. WindowTypes'
  BY <1>1, <1>2, <1>3 DEF WindowTypes, windowVars, speedVars
<1>5. ASSUME NEW v \in WindowNames PROVE WindowInv(v)'
  <2>1. UserIsUsing(v) /\ SettingsAreKept(v) /\ NothingIsLeft(v)
    BY DEF WindowsInv, WindowInv
  <2>2. UserIsUsing(v)' /\ SettingsAreKept(v)'
    BY <1>2, <2>1 DEF UserIsUsing, SettingsAreKept, windowVars, speedVars
  <2>3. NothingIsLeft(v)'
    BY <1>2, <1>3, <2>1 DEF NothingIsLeft, windowVars
  <2> QED
    BY <2>2, <2>3 DEF WindowInv
<1> QED
  BY <1>4, <1>5 DEF WindowsInv

LEMMA NextWindowsInv == WindowsInv /\ [WindowsNext]_windowsVars => WindowsInv'
<1> SUFFICES ASSUME WindowsInv, [WindowsNext]_windowsVars PROVE WindowsInv'
  OBVIOUS
<1>1. CASE UNCHANGED windowsVars
  BY <1>1 DEF windowsVars, windowVars, settingVars, workVars, speedVars, WindowsInv, WindowTypes, WindowInv,
              UserIsUsing, SettingsAreKept, NothingIsLeft
<1>2. ASSUME Plays PROVE WindowsInv'
  <2>1. CASE WindowNames = {}
    BY <1>2, <2>1 DEF Plays, windowVars, settingVars, speedVars, WindowsInv, WindowTypes, Flags
  <2>2. ASSUME NEW w \in WindowNames PROVE WindowsInv'
    BY <1>2, WorkKeepsWindows
  <2> QED
    BY <2>1, <2>2
<1>3. ASSUME NEW value \in Speeds, Adapts(value) PROVE WindowsInv'
  <2>1. user_instance \in WindowNames
    BY <1>3 DEF Adapts, WindowsInv, WindowTypes
  <2> QED
    BY <1>3, <2>1, SpeedsKeepWindows
<1> QED
  BY <1>1, <1>2, <1>3, OpeningKeepsWindows, StartKeepsWindows, StopKeepsWindows, SpeedsKeepWindows,
     WorkKeepsWindows DEF WindowsNext

(* Whoever has the library has all of it, with his own settings and the    *)
(* speed that his receiver had found, and leaves nothing behind, for any   *)
(* number of windows.                                                      *)
THEOREM WindowsAlwaysShareLibrary == WindowsSpec => []WindowsShareLibrary
<1>1. WindowsInv => WindowsShareLibrary
  <2> SUFFICES ASSUME WindowsInv PROVE WindowsShareLibrary
    OBVIOUS
  <2>1. ASSUME NEW w \in WindowNames
        PROVE  /\ is_using_libcw[w] = (user_instance = w)
               /\ poll_timer[w] = (user_instance = w) /\ play[w] = (user_instance = w)
    BY DEF WindowsInv, WindowTypes, Flags, WindowInv, UserIsUsing
  <2>2. ASSUME NEW w \in WindowNames, user_instance = w
        PROVE  /\ send_speed = speed_spin[w] /\ adaptive_state = adaptive_checked[w]
               /\ ~adaptive_state => receive_speed = speed_spin[w]
               /\ adaptive_checked[w] /\ steady[w] => receive_speed = tracked[w]
    BY <2>2 DEF WindowsInv, WindowTypes, Flags, WindowInv, SettingsAreKept
  <2>3. ASSUME NEW w \in WindowNames, ~is_using_libcw[w]
        PROVE  sender_queue[w] = 0 /\ sender_idle[w] /\ ~space_pending[w]
    BY <2>3 DEF WindowsInv, WindowInv, UserIsUsing, NothingIsLeft
  <2> QED
    BY <2>1, <2>2, <2>3 DEF WindowsShareLibrary, OneWindowUsesLibrary, LibraryFollowsWindow, SpeedIsRestored,
                            RestingWindowIsClear
<1> QED
  BY <1>1, InitWindowsInv, NextWindowsInv, PTL DEF WindowsSpec


-----------------------------------------------------------------------------
(* The ranger: a value is repeated until its plateau ends, and values go up   *)
(* and down between the ends without leaving any out.                         *)
RangerTypes ==
    /\ previous_value \in Int /\ upwards \in BOOLEAN /\ on_plateau \in BOOLEAN
    /\ plateau_remaining \in Nat /\ repeated \in Nat
    /\ ranger_setup \in [plateau_length : Plateaus, interval_sec : Intervals]

(* A plateau counts what it returns again; away from one the value can     *)
(* still move in its direction, so that every move changes it.             *)
PlateauIsCounted ==
    /\ on_plateau => repeated + plateau_remaining = ranger_setup.plateau_length
    /\ ~on_plateau => IF upwards THEN previous_value < RangeMax ELSE previous_value > RangeMin

RangerInv == RangerTypes /\ PlateauIsCounted /\ RangeIsSwept

LEMMA InitRangerInv == RangerInit => RangerInv
<1> SUFFICES ASSUME RangerInit PROVE RangerInv
    OBVIOUS
<1>1. RangeMin \in Int /\ RangeMax \in Int /\ RangeMin < RangeMax
    BY RangerAssumption DEF RangerAssumption
<1>2. ranger_setup.plateau_length \in Nat
    BY RangerAssumption DEF RangerInit, RangerAssumption
<1>3. previous_value \in RangeMin..RangeMax /\ repeated = 0 /\ plateau_remaining = 0 /\ on_plateau = FALSE
    BY DEF RangerInit
<1>4. upwards \in BOOLEAN /\ (upwards <=> previous_value # RangeMax)
    BY DEF RangerInit
<1>5. RangerTypes
  <2>1. ranger_setup \in [plateau_length : Plateaus, interval_sec : Intervals]
    BY DEF RangerInit
  <2>2. repeated \in Nat /\ plateau_remaining \in Nat /\ previous_value \in Int
    BY <1>1, <1>3
  <2>3. on_plateau \in BOOLEAN
    BY <1>3
  <2> QED
    BY <1>4, <2>1, <2>2, <2>3 DEF RangerTypes
<1>6. PlateauIsCounted
    BY <1>1, <1>3, <1>4 DEF PlateauIsCounted
<1>7. RangeIsSwept
    BY <1>1, <1>2, <1>3 DEF RangeIsSwept
<1> QED
    BY <1>5, <1>6, <1>7 DEF RangerInv

LEMMA GetNextKeepsRangerInv == RangerInv /\ GetNext => RangerInv'
<1> SUFFICES ASSUME RangerInv, GetNext PROVE RangerInv'
    OBVIOUS
<1>1. /\ RangeMin \in Int /\ RangeMax \in Int /\ RangeMin < RangeMax
      /\ RangeStep \in Nat /\ RangeStep > 0
    BY RangerAssumption DEF RangerAssumption
<1>2. ranger_setup.plateau_length \in Nat
    BY RangerAssumption DEF RangerInv, RangerTypes, RangerAssumption
<1>3. ranger_setup' = ranger_setup
    BY DEF GetNext
<1>4. CASE Move /\ Reached(NextValue)
  <2>1. /\ previous_value' = Limit /\ (upwards' <=> ~upwards)
        /\ (on_plateau' <=> ranger_setup.plateau_length # 0)
        /\ plateau_remaining' = ranger_setup.plateau_length
        /\ upwards' \in BOOLEAN /\ on_plateau' \in BOOLEAN
    BY <1>4 DEF Move
  <2>2. previous_value' # previous_value
    BY <1>1, <1>4, <2>1 DEF Move, RangerInv, RangerTypes, PlateauIsCounted, Limit
  <2>3. repeated' = 0
    BY <2>2 DEF GetNext
  <2>4. IF upwards THEN previous_value' = RangeMax ELSE previous_value' = RangeMin
    BY <2>1 DEF Limit
  <2>5. RangerTypes'
    BY <1>1, <1>2, <1>3, <2>1, <2>3, <2>4 DEF RangerInv, RangerTypes
  <2>6. PlateauIsCounted'
    BY <1>1, <1>2, <1>3, <2>1, <2>3, <2>4 DEF PlateauIsCounted
  <2>7. RangeIsSwept'
    BY <1>1, <1>2, <1>3, <2>1, <2>3, <2>4 DEF RangeIsSwept
  <2> QED
    BY <2>5, <2>6, <2>7 DEF RangerInv
<1>5. CASE Move /\ ~Reached(NextValue)
  <2>1. previous_value' = NextValue /\ UNCHANGED <<upwards, on_plateau, plateau_remaining>> /\ ~on_plateau
    BY <1>5 DEF Move
  <2>2. IF upwards THEN previous_value' = previous_value + RangeStep /\ previous_value' < RangeMax
                   ELSE previous_value' = previous_value - RangeStep /\ previous_value' > RangeMin
    BY <1>1, <1>5, <2>1 DEF NextValue, Reached, RangerInv, RangerTypes
  <2>3. previous_value \in RangeMin..RangeMax
    BY DEF RangerInv, RangeIsSwept
  <2>4. repeated' = 0
    BY <1>1, <2>2, <2>3 DEF GetNext
  <2>5. RangerTypes'
    BY <1>1, <1>3, <2>1, <2>2, <2>3, <2>4 DEF RangerInv, RangerTypes
  <2>6. PlateauIsCounted'
    BY <1>1, <2>1, <2>2 DEF PlateauIsCounted
  <2>7. RangeIsSwept'
    BY <1>1, <1>2, <1>3, <2>1, <2>2, <2>3, <2>4 DEF RangeIsSwept
  <2> QED
    BY <2>5, <2>6, <2>7 DEF RangerInv
<1>6. CASE StayOnPlateau
  <2>1. on_plateau /\ UNCHANGED <<previous_value, upwards>> /\ (on_plateau' <=> plateau_remaining # 0)
        /\ on_plateau' \in BOOLEAN
    BY <1>6 DEF StayOnPlateau, LeavesPlateau
  <2>2. repeated' = repeated + 1
    BY <2>1 DEF GetNext
  <2>3. plateau_remaining \in Nat /\ repeated \in Nat /\ repeated + plateau_remaining = ranger_setup.plateau_length
    BY <2>1 DEF RangerInv, RangerTypes, PlateauIsCounted
  <2>4. plateau_remaining' = IF plateau_remaining > 0 THEN plateau_remaining - 1 ELSE 0
    BY <1>6 DEF StayOnPlateau
  <2>5. previous_value = IF upwards THEN RangeMin ELSE RangeMax
    BY <2>1 DEF RangerInv, RangeIsSwept
  <2>6. RangerTypes'
    BY <1>3, <2>1, <2>2, <2>3, <2>4 DEF RangerInv, RangerTypes
  <2>7. PlateauIsCounted'
    BY <1>1, <1>2, <1>3, <2>1, <2>2, <2>3, <2>4, <2>5 DEF PlateauIsCounted
  <2>8. RangeIsSwept'
    BY <1>1, <1>2, <1>3, <2>1, <2>2, <2>3, <2>5 DEF RangeIsSwept
  <2> QED
    BY <2>6, <2>7, <2>8 DEF RangerInv
<1> QED
    BY <1>4, <1>5, <1>6 DEF GetNext

LEMMA RangerSwept == RangerSpec => []RangeIsSwept
<1>1. RangerInv /\ [RangerNext]_rangerVars => RangerInv'
  <2> SUFFICES ASSUME RangerInv, [RangerNext]_rangerVars PROVE RangerInv'
    OBVIOUS
  <2>1. CASE GetNext
    BY <2>1, GetNextKeepsRangerInv
  <2>2. CASE Second \/ UNCHANGED rangerVars
    <3>1. UNCHANGED <<previous_value, upwards, on_plateau, plateau_remaining, ranger_setup, repeated>>
        BY <2>2 DEF Second, rangerVars
    <3> QED
        BY <3>1 DEF RangerInv, RangerTypes, PlateauIsCounted, RangeIsSwept
  <2> QED
    BY <2>1, <2>2 DEF RangerNext
<1>2. RangerInv => RangeIsSwept
    BY DEF RangerInv
<1> QED
    BY InitRangerInv, <1>1, <1>2, PTL DEF RangerSpec


-----------------------------------------------------------------------------
(* The judgement: a verdict that a text has been received is one of texts    *)
(* that agree but for the first characters.                                   *)
IsText(t) == t \in Seq(Range(t))

ReceptionInv ==
    /\ IsText(input_string) /\ IsText(received_string)
    /\ PassedIsTuned

LEMMA EmptyIsText == IsText(<<>>)
BY DEF IsText

LEMMA TextOf ==
    ASSUME NEW S, NEW t \in Seq(S)
    PROVE  IsText(t)
<1>1. t = [i \in 1..Len(t) |-> t[i]] /\ Len(t) \in Nat /\ DOMAIN t = 1..Len(t)
    OBVIOUS
<1>2. \A i \in 1..Len(t) : t[i] \in Range(t)
    BY <1>1 DEF Range
<1> QED
    BY <1>1, <1>2 DEF IsText

LEMMA AppendedIsText ==
    ASSUME NEW t, NEW c, IsText(t)
    PROVE  IsText(Append(t, c))
<1>1. t \in Seq(Range(t) \cup {c})
    BY DEF IsText
<1>2. Append(t, c) \in Seq(Range(t) \cup {c})
    BY <1>1
<1> QED
    BY <1>2, TextOf

LEMMA TextIsSequence ==
    ASSUME NEW t, IsText(t)
    PROVE  t \in Seq(Range(t)) /\ Len(t) \in Nat /\ DOMAIN t = 1..Len(t)
BY DEF IsText

LEMMA GreatestNatural ==
    ASSUME NEW n \in Nat, NEW T \in SUBSET (0..n), T # {}
    PROVE  \E x \in T : \A y \in T : y <= x
<1> DEFINE below == {n - x : x \in T}
<1>1. below \in SUBSET Nat
    OBVIOUS
<1>2. below # {}
    OBVIOUS
<1> HIDE DEF below
<1>3. PICK b \in below : \A c \in below : b <= c
    BY <1>1, <1>2, LeastNatural
<1>4. PICK x \in T : b = n - x
    BY DEF below
<1>5. \A y \in T : n - y \in below
    BY DEF below
<1>6. \A y \in T : n - x <= n - y
    BY <1>3, <1>4, <1>5
<1>7. \A y \in T : y \in Nat /\ x \in Nat
    OBVIOUS
<1> QED
    BY <1>6, <1>7

LEMMA TrimmedIsText ==
    ASSUME NEW t, IsText(t)
    PROVE  IsText(TrimEnd(t))
<1> DEFINE ends == {n \in DOMAIN t : t[n] # " "}
           last == IF ends = {} THEN 0 ELSE CHOOSE n \in ends : \A m \in ends : m <= n
<1>1. t \in Seq(Range(t)) /\ Len(t) \in Nat /\ DOMAIN t = 1..Len(t)
    BY TextIsSequence
<1>2. TrimEnd(t) = SubSeq(t, 1, last)
    BY DEF TrimEnd
<1>3. last \in 0..Len(t)
  <2>1. ends \subseteq DOMAIN t
    OBVIOUS
  <2> HIDE DEF ends
  <2>2. ends \in SUBSET (0..Len(t)) /\ Len(t) \in Nat
    <3>1. 1..Len(t) \subseteq 0..Len(t)
        BY <1>1
    <3> QED
        BY <1>1, <2>1, <3>1
  <2>3. ends # {} => \E n \in ends : \A m \in ends : m <= n
    BY <2>2, GreatestNatural
  <2>4. ends # {} => last \in ends
    BY <2>3
  <2>5. ends = {} => last = 0
    OBVIOUS
  <2> HIDE DEF last
  <2>6. 0 \in 0..Len(t)
    BY <2>2
  <2> QED
    BY <2>2, <2>4, <2>5, <2>6
<1> HIDE DEF last
<1>4. SubSeq(t, 1, last) \in Seq(Range(t))
    BY <1>1, <1>3
<1> QED
    BY <1>2, <1>4, TextOf

LEMMA LoweredIsText ==
    ASSUME NEW t, IsText(t)
    PROVE  IsText(ToLower(t))
<1> DEFINE lowered(i) == IF t[i] \in ReceivedLetters THEN Lower[t[i]] ELSE t[i]
           all == {lowered(i) : i \in DOMAIN t}
<1>1. DOMAIN t = 1..Len(t) /\ Len(t) \in Nat
    BY DEF IsText
<1>2. ToLower(t) = [i \in 1..Len(t) |-> lowered(i)]
    BY <1>1 DEF ToLower
<1>3. \A i \in 1..Len(t) : lowered(i) \in all
    BY <1>1
<1> HIDE DEF lowered, all
<1>4. ToLower(t) \in Seq(all)
    BY <1>1, <1>2, <1>3
<1> QED
    BY <1>4, TextOf

(* Two texts of which the last k agree, k no more than either has.         *)
LEMMA SuffixByEnds ==
    ASSUME NEW s, NEW t, IsText(s), IsText(t), Len(s) <= Len(t),
           \A i \in 0..Len(s)-1 : s[Len(s) - i] = t[Len(t) - i]
    PROVE  IsSuffix(s, t)
<1> DEFINE n == Len(s)
           m == Len(t)
<1>1. n \in Nat /\ m \in Nat /\ n <= m
    BY DEF IsText
<1>2. Reverse(s) = [i \in 1..n |-> s[n - i + 1]] /\ Reverse(t) = [i \in 1..m |-> t[m - i + 1]]
    BY DEF Reverse
<1>3. Len(Reverse(s)) = n /\ Len(Reverse(t)) = m
    BY <1>1, <1>2
<1>4. \A i \in 1..n : s[n - i + 1] = t[m - i + 1]
  <2> SUFFICES ASSUME NEW i \in 1..n PROVE s[n - i + 1] = t[m - i + 1]
    OBVIOUS
  <2>1. i - 1 \in 0..n-1 /\ n - (i - 1) = n - i + 1 /\ m - (i - 1) = m - i + 1
    BY <1>1
  <2>2. s[n - (i - 1)] = t[m - (i - 1)]
    BY <2>1
  <2> QED
    BY <2>1, <2>2
<1> HIDE DEF n, m
<1>5. SubSeq(Reverse(s), 1, n) = [i \in 1..n |-> Reverse(s)[i]]
    BY <1>1 DEF SubSeq
<1>6. SubSeq(Reverse(t), 1, n) = [i \in 1..n |-> Reverse(t)[i]]
    BY <1>1 DEF SubSeq
<1>7. \A i \in 1..n : Reverse(s)[i] = Reverse(t)[i]
  <2> TAKE i \in 1..n
  <2>1. i \in 1..m
    BY <1>1
  <2> QED
    BY <1>2, <1>4, <2>1
<1>8. SubSeq(Reverse(s), 1, n) = SubSeq(Reverse(t), 1, n)
    BY <1>5, <1>6, <1>7
<1> QED
    BY <1>1, <1>3, <1>8 DEF IsSuffix, IsPrefix

(* Beyond the index that is acceptable everything that is compared agrees. *)
LEMMA MatchedEndsAgree ==
    ASSUME NEW s, NEW t, IsText(s), IsText(t), Match(s, t)
    PROVE  \A i \in 0..ComparisonLength(s, t)-1 :
               i < Len(s) - AcceptableIndex - 1 => s[Len(s) - i] = t[Len(t) - i]
<1> DEFINE wrong == Mismatches(s, t)
           least == CHOOSE i \in wrong : \A j \in wrong : i <= j
<1>0. AcceptableIndex \in Nat
    BY ReceptionAssumption DEF ReceptionAssumption
<1>1. Len(s) \in Nat /\ Len(t) \in Nat /\ AcceptableIndex \in Nat
    BY <1>0, TextIsSequence
<1>2. ComparisonLength(s, t) \in Nat
    BY <1>1 DEF ComparisonLength
<1>3. wrong \in SUBSET Nat
    BY <1>2 DEF Mismatches
<1> SUFFICES ASSUME NEW i \in 0..ComparisonLength(s, t)-1, i < Len(s) - AcceptableIndex - 1,
                    s[Len(s) - i] # t[Len(t) - i]
             PROVE  FALSE
    OBVIOUS
<1>4. i \in wrong
    BY DEF Mismatches
<1>5. Len(s) - 1 - least <= AcceptableIndex
    BY <1>4 DEF Match, LastMismatchIndex
<1>6. \E k \in wrong : \A j \in wrong : k <= j
    BY <1>3, <1>4, LeastNatural
<1>7. least \in wrong /\ \A j \in wrong : least <= j
  <2> HIDE DEF wrong
  <2> QED
    BY <1>6
<1>8. least \in Nat /\ least <= i
    BY <1>3, <1>4, <1>7
<1> HIDE DEF least, wrong
<1> QED
    BY <1>1, <1>2, <1>5, <1>8

LEMMA MatchIsTuned ==
    ASSUME NEW s, NEW t, IsText(s), IsText(t), Match(s, t)
    PROVE  LET tuned == SubSeq(s, AcceptableIndex + 2, Len(s))
           IN  IsSuffix(tuned, t) \/ IsSuffix(t, tuned)
<1> DEFINE tuned == SubSeq(s, AcceptableIndex + 2, Len(s))
           n == Len(s)
           m == Len(t)
           k == IF n < AcceptableIndex + 1 THEN 0 ELSE n - AcceptableIndex - 1
<1>0. AcceptableIndex \in Nat
    BY ReceptionAssumption DEF ReceptionAssumption
<1>1. n \in Nat /\ m \in Nat /\ AcceptableIndex \in Nat /\ s \in Seq(Range(s))
    BY <1>0, TextIsSequence
<1>2. k \in Nat /\ k <= n
    BY <1>1
<1>3. tuned \in Seq(Range(s)) /\ Len(tuned) = k
    BY <1>1
<1>4. IsText(tuned)
    BY <1>3, TextOf
<1>4a. \A j \in 1..k : tuned[j] = s[AcceptableIndex + 2 + j - 1]
    BY <1>1
<1>5. \A i \in 0..k-1 : tuned[k - i] = s[n - i]
  <2> SUFFICES ASSUME NEW i \in 0..k-1 PROVE tuned[k - i] = s[n - i]
    OBVIOUS
  <2>1. k = n - AcceptableIndex - 1 /\ k - i \in 1..k
    BY <1>1, <1>2
  <2> HIDE DEF tuned, k, n
  <2>2. tuned[k - i] = s[AcceptableIndex + 2 + (k - i) - 1]
    BY <1>4a, <2>1
  <2>3. AcceptableIndex + 2 + (k - i) - 1 = n - i
    BY <1>1, <1>2, <2>1
  <2> QED
    BY <2>2, <2>3
<1>6. \A i \in 0..ComparisonLength(s, t)-1 : i < n - AcceptableIndex - 1 => s[n - i] = t[m - i]
    BY MatchedEndsAgree
<1>7. ComparisonLength(s, t) = IF n <= m THEN n ELSE m
    BY DEF ComparisonLength
<1> HIDE DEF tuned, n, m
<1>8. CASE k <= m
  <2>1. \A i \in 0..k-1 : i \in 0..ComparisonLength(s, t)-1 /\ i < n - AcceptableIndex - 1
    BY <1>1, <1>2, <1>7, <1>8
  <2>2. \A i \in 0..k-1 : tuned[k - i] = t[m - i]
    BY <1>5, <1>6, <2>1
  <2>3. \A i \in 0..Len(tuned)-1 : tuned[Len(tuned) - i] = t[Len(t) - i]
    BY <1>3, <2>2 DEF m
  <2>4. Len(tuned) <= Len(t)
    BY <1>3, <1>8 DEF m
  <2>5. IsSuffix(tuned, t)
    BY <1>4, <2>3, <2>4, SuffixByEnds
  <2> QED
    BY <2>5 DEF tuned
<1>9. CASE m < k
  <2>1. \A i \in 0..m-1 : i \in 0..ComparisonLength(s, t)-1 /\ i < n - AcceptableIndex - 1 /\ i \in 0..k-1
    BY <1>1, <1>2, <1>7, <1>9
  <2>2. \A i \in 0..m-1 : t[m - i] = tuned[k - i]
    BY <1>5, <1>6, <2>1
  <2>3. \A i \in 0..Len(t)-1 : t[Len(t) - i] = tuned[Len(tuned) - i]
    BY <1>3, <2>2 DEF m
  <2>4. Len(t) <= Len(tuned)
    BY <1>1, <1>2, <1>3, <1>9 DEF m
  <2>5. IsSuffix(t, tuned)
    BY <1>4, <2>3, <2>4, SuffixByEnds
  <2> QED
    BY <2>5 DEF tuned
<1> QED
    BY <1>1, <1>2, <1>8, <1>9

LEMMA PassedTuned == ReceptionSpec => []PassedIsTuned
<1>1. ReceptionInit => ReceptionInv
  <2> SUFFICES ASSUME ReceptionInit PROVE ReceptionInv
    OBVIOUS
  <2>1. IsText(input_string)
    BY ReceptionAssumption DEF ReceptionInit, ReceptionAssumption, IsText
  <2>2. received_string = <<>> /\ verdict = "none"
    BY DEF ReceptionInit
  <2> QED
    BY <2>1, <2>2, EmptyIsText DEF ReceptionInv, PassedIsTuned
<1>2. ReceptionInv /\ [ReceptionNext]_receptionVars => ReceptionInv'
  <2> SUFFICES ASSUME ReceptionInv, [ReceptionNext]_receptionVars PROVE ReceptionInv'
    OBVIOUS
  <2>1. ASSUME NEW c, verdict = "none", Receive(c) PROVE ReceptionInv'
    <3>1. IsText(input_string')
        BY <2>1 DEF Receive, ReceptionInv
    <3>2. IsText(received_string')
        BY <2>1, AppendedIsText DEF Receive, ReceptionInv
    <3>3. verdict' # "pass"
        BY <2>1 DEF Receive
    <3> QED
        BY <3>1, <3>2, <3>3 DEF ReceptionInv, PassedIsTuned
  <2>2. CASE Evaluate
    <3>1. IsText(input_string')
        BY <2>2, TrimmedIsText DEF Evaluate, ReceptionInv
    <3>2. IsText(received_string')
        BY <2>2, TrimmedIsText, LoweredIsText DEF Evaluate, ReceptionInv
    <3>3. ASSUME verdict' = "pass"
          PROVE  received_string' # <<>> /\ (IsSuffix(TunedPart', received_string') \/ IsSuffix(received_string', TunedPart'))
      <4>1. Match(input_string', received_string')
        BY <2>2, <3>3 DEF Evaluate
      <4>2. TunedPart' = SubSeq(input_string', AcceptableIndex + 2, Len(input_string'))
        BY DEF TunedPart
      <4> QED
        BY <3>1, <3>2, <4>1, <4>2, MatchIsTuned DEF Match
    <3> QED
        BY <3>1, <3>2, <3>3 DEF ReceptionInv, PassedIsTuned
  <2>3. CASE UNCHANGED receptionVars
    BY <2>3 DEF receptionVars, ReceptionInv, PassedIsTuned, TunedPart
  <2> QED
    BY <2>1, <2>2, <2>3 DEF ReceptionNext, OnCharacter, OnSpace
<1>3. ReceptionInv => PassedIsTuned
    BY DEF ReceptionInv
<1> QED
    BY <1>1, <1>2, <1>3, PTL DEF ReceptionSpec


-----------------------------------------------------------------------------
(* The driver: one thread enqueues at a time, the characters from the queue   *)
(* and those sent are the text up to the index, and while some of the text is *)
(* left the callback is registered and still due.                             *)
Threads(places) == [at : places, c : Nat, left : Int]

(* Characters whose tones have been enqueued.                              *)
SentUpTo == IF player.at = "advance" \/ handler.at = "advance" THEN input_string_i ELSE input_string_i - 1

DriverTypes ==
    /\ input_string_i \in 1..TextLength+1
    /\ player \in Threads({"fetch", "enqueue", "advance", "done", "deleted"})
    /\ handler \in Threads({"idle", "fetch", "enqueue", "advance", "done"})
    /\ queue \in Seq(Nat) /\ sent \in Seq(Nat)
    /\ is_registered \in BOOLEAN /\ generating_in_progress \in BOOLEAN

(* One thread after the other: each has the character at the index.        *)
OneThreadEnqueues ==
    /\ player.at \notin {"done", "deleted"} => handler.at = "idle" /\ sent = <<>>
    /\ player.at \in {"enqueue", "advance"} => player.c = input_string_i /\ input_string_i <= TextLength
    /\ handler.at \in {"enqueue", "advance"} => handler.c = input_string_i /\ input_string_i <= TextLength

(* What has been sent and what is in the queue are the characters in their *)
(* order, without a gap, up to the last that has been enqueued.            *)
TextIsInOrder ==
    /\ \A i \in 1..Len(sent) : sent[i] = i
    /\ \A i \in 1..Len(queue) : queue[i] \in 1..SentUpTo
    /\ \A i \in 1..Len(queue)-1 : queue[i + 1] = queue[i] \/ queue[i + 1] = queue[i] + 1
    /\ queue = <<>> => Len(sent) = SentUpTo
    /\ queue # <<>> => queue[Len(queue)] = SentUpTo /\ queue[1] \in {Len(sent), Len(sent) + 1}

(* While there is text to enqueue the queue has not yet passed its level,  *)
(* or the callback is at work.                                             *)
CallbackIsDue(size) ==
    /\ player.at \notin {"done", "deleted"} =>
          Len(queue) >= (InitialCount - player.left + (IF player.at = "advance" THEN 1 ELSE 0)) * size
    /\ input_string_i <= TextLength => is_registered
    /\ handler.at \in {"fetch", "enqueue"} => Len(queue) >= LowLevel
    /\ player.at \in {"done", "deleted"} /\ handler.at \in {"idle", "advance", "done"} /\ input_string_i <= TextLength =>
          Len(queue) > LowLevel

AllIsSent ==
    /\ player.at = "deleted" => handler.at = "idle" /\ Len(sent) = TextLength
    /\ ~generating_in_progress => player.at = "deleted"

DriverInv(size) == DriverTypes /\ OneThreadEnqueues /\ TextIsInOrder /\ CallbackIsDue(size) /\ AllIsSent

LEMMA Copies ==
    ASSUME NEW q \in Seq(Nat), NEW n \in Nat, NEW c \in Nat
    PROVE  LET r == q \o [i \in 1..n |-> c] IN
           /\ r \in Seq(Nat) /\ Len(r) = Len(q) + n
           /\ \A i \in 1..Len(q) : r[i] = q[i]
           /\ \A i \in Len(q)+1..Len(q)+n : r[i] = c
<1>1. [i \in 1..n |-> c] \in Seq(Nat) /\ Len([i \in 1..n |-> c]) = n
    OBVIOUS
<1> QED
    BY <1>1

(* The tones of the next character go on where the queue ends.             *)
LEMMA EnqueuedInOrder ==
    ASSUME NEW size \in Nat \ {0}, \A n \in CharacterSizes : size <= n,
           DriverTypes, NEW c, c = SentUpTo + 1, TextIsInOrder, Enqueue(c), sent' = sent, SentUpTo' = c
    PROVE  TextIsInOrder' /\ queue' \in Seq(Nat) /\ Len(queue') >= Len(queue) + size
<1>1. PICK n \in CharacterSizes : queue' = queue \o [i \in 1..n |-> c]
    BY DEF Enqueue
<1>2. n \in Nat /\ n > 0 /\ size <= n
    BY TestDriverAssumption DEF TestDriverAssumption
<1>3. SentUpTo \in Nat /\ c \in Nat
    BY TestDriverAssumption DEF DriverTypes, SentUpTo, TestDriverAssumption
<1> DEFINE r == queue'
           m == Len(queue)
<1>4. queue \in Seq(Nat) /\ m \in Nat /\ sent \in Seq(Nat)
    BY DEF DriverTypes
<1>5. /\ r \in Seq(Nat) /\ Len(r) = m + n
      /\ \A i \in 1..m : r[i] = queue[i]
      /\ \A i \in m+1..m+n : r[i] = c
    BY <1>1, <1>2, <1>3, <1>4, Copies
<1>6. /\ \A i \in 1..m : queue[i] \in 1..SentUpTo
      /\ \A i \in 1..m-1 : queue[i + 1] = queue[i] \/ queue[i + 1] = queue[i] + 1
      /\ m = 0 => Len(sent) = SentUpTo
      /\ m # 0 => queue[m] = SentUpTo /\ queue[1] \in {Len(sent), Len(sent) + 1}
  <2>1. m = 0 <=> queue = <<>>
    BY <1>4
  <2> QED
    BY <2>1 DEF TextIsInOrder
<1>7. Len(sent) \in Nat /\ sent' = sent
    BY <1>4
<1> HIDE DEF r, m
<1>8. \A i \in 1..Len(r) : r[i] \in 1..c
  <2> TAKE i \in 1..Len(r)
  <2>1. CASE i \in 1..m
    BY <1>3, <1>5, <1>6, <2>1
  <2>2. CASE i \in m+1..m+n
    BY <1>3, <1>5, <2>2
  <2> QED
    BY <1>2, <1>4, <1>5, <2>1, <2>2
<1>9. \A i \in 1..Len(r)-1 : r[i + 1] = r[i] \/ r[i + 1] = r[i] + 1
  <2> TAKE i \in 1..Len(r)-1
  <2>1. CASE i + 1 <= m
    <3>1. i \in 1..m-1 /\ i \in 1..m /\ i + 1 \in 1..m
        BY <1>2, <1>4, <1>5, <2>1
    <3> QED
        BY <1>5, <1>6, <3>1
  <2>2. CASE i = m
    <3>1. m # 0 /\ m \in 1..m /\ m + 1 \in m+1..m+n
        BY <1>2, <1>4, <2>2
    <3> QED
        BY <1>5, <1>6, <2>2, <3>1
  <2>3. CASE i > m
    <3>1. i \in m+1..m+n /\ i + 1 \in m+1..m+n
        BY <1>2, <1>4, <1>5, <2>3
    <3> QED
        BY <1>5, <3>1
  <2> QED
    BY <1>4, <2>1, <2>2, <2>3
<1>10. Len(r) # 0 /\ r[Len(r)] = c
  <2>1. Len(r) \in m+1..m+n
    BY <1>2, <1>4, <1>5
  <2> QED
    BY <1>4, <1>5, <2>1
<1>11. r[1] \in {Len(sent), Len(sent) + 1}
  <2>1. CASE m = 0
    <3>1. 1 \in m+1..m+n
        BY <1>2, <2>1
    <3>2. c = Len(sent) + 1
        BY <1>6, <2>1
    <3> QED
        BY <1>5, <3>1, <3>2
  <2>2. CASE m # 0
    <3>1. 1 \in 1..m
        BY <1>4, <2>2
    <3> QED
        BY <1>5, <1>6, <2>2, <3>1
  <2> QED
    BY <2>1, <2>2
<1>12. r # <<>>
    BY <1>10
<1>13. Len(r) >= m + size
    BY <1>2, <1>4, <1>5
<1>14. TextIsInOrder'
  <2>1. \A i \in 1..Len(sent') : sent'[i] = i
    BY <1>7 DEF TextIsInOrder
  <2>2. queue' = r /\ SentUpTo' = c /\ sent' = sent
    BY <1>7 DEF r
  <2> QED
    BY <1>8, <1>9, <1>10, <1>11, <1>12, <2>1, <2>2 DEF TextIsInOrder
<1> QED
    BY <1>5, <1>13, <1>14 DEF r, m

LEMMA InitDriverInv ==
    ASSUME NEW size \in Nat, DriverInit
    PROVE  DriverInv(size)
<1>1. TextLength \in Nat /\ InitialCount \in Nat
    BY TestDriverAssumption DEF TestDriverAssumption
<1>2. /\ input_string_i = 1 /\ player = [at |-> "fetch", c |-> 0, left |-> InitialCount]
      /\ handler = [at |-> "idle", c |-> 0, left |-> 0]
      /\ is_registered = TRUE /\ queue = <<>> /\ sent = <<>> /\ generating_in_progress = TRUE
    BY DEF DriverInit
<1>3. SentUpTo = 0
    BY <1>2 DEF SentUpTo
<1>4. DriverTypes
  <2>1. input_string_i \in 1..TextLength+1
    BY <1>1, <1>2
  <2>2. player \in Threads({"fetch", "enqueue", "advance", "done", "deleted"})
    BY <1>1, <1>2 DEF Threads
  <2>3. handler \in Threads({"idle", "fetch", "enqueue", "advance", "done"})
    BY <1>2 DEF Threads
  <2> QED
    BY <1>2, <2>1, <2>2, <2>3 DEF DriverTypes
<1>5. OneThreadEnqueues
    BY <1>2 DEF OneThreadEnqueues
<1>6. TextIsInOrder
    BY <1>2, <1>3 DEF TextIsInOrder
<1>7. CallbackIsDue(size)
    BY <1>1, <1>2 DEF CallbackIsDue
<1>8. AllIsSent
    BY <1>2 DEF AllIsSent
<1> QED
    BY <1>4, <1>5, <1>6, <1>7, <1>8 DEF DriverInv

LEMMA PlayStringKeepsInv ==
    ASSUME NEW size \in Nat \ {0}, \A n \in CharacterSizes : size <= n, InitialCount * size > LowLevel,
           DriverInv(size), PlayString
    PROVE  DriverInv(size)'
<1>1. TextLength \in Nat /\ InitialCount \in Nat /\ LowLevel \in Nat
    BY TestDriverAssumption DEF TestDriverAssumption
<1>2. UNCHANGED <<handler, is_registered, sent>>
    BY DEF PlayString
<1>3. /\ input_string_i \in Nat /\ player.left \in Int /\ player.c \in Nat
      /\ player = [at |-> player.at, c |-> player.c, left |-> player.left]
      /\ Len(queue) \in Nat
    BY DEF DriverInv, DriverTypes, Threads
<1>4. CASE /\ player.at = "fetch"
           /\ player' = IF input_string_i > TextLength THEN [player EXCEPT !.at = "done"]
                        ELSE Fetch(player, input_string_i)
           /\ UNCHANGED <<input_string_i, queue, generating_in_progress>>
  <2>1. handler.at = "idle" /\ sent = <<>>
    BY <1>4 DEF DriverInv, OneThreadEnqueues
  <2>2. /\ player'.left = player.left
        /\ \/ player'.at = "done" /\ player'.c = player.c /\ input_string_i > TextLength
           \/ player'.at = "enqueue" /\ player'.c = input_string_i /\ input_string_i <= TextLength
    BY <1>1, <1>3, <1>4 DEF Fetch, DriverInv, DriverTypes, Threads
  <2>3. DriverTypes'
    <3>1. player' \in Threads({"fetch", "enqueue", "advance", "done", "deleted"})
        BY <1>3, <1>4 DEF Fetch, Threads
    <3> QED
        BY <1>2, <1>4, <3>1 DEF DriverInv, DriverTypes
  <2>4. OneThreadEnqueues'
    BY <1>2, <1>4, <2>1, <2>2 DEF OneThreadEnqueues
  <2>5. SentUpTo' = SentUpTo
    BY <1>2, <1>4, <2>1, <2>2 DEF SentUpTo
  <2>6. TextIsInOrder'
    BY <1>2, <1>4, <2>5 DEF DriverInv, TextIsInOrder
  <2>7. CallbackIsDue(size)'
    BY <1>1, <1>2, <1>3, <1>4, <2>1, <2>2 DEF DriverInv, CallbackIsDue
  <2>8. AllIsSent'
    BY <1>2, <1>4, <2>2 DEF DriverInv, AllIsSent
  <2> QED
    BY <2>3, <2>4, <2>6, <2>7, <2>8 DEF DriverInv
<1>5. CASE /\ player.at = "enqueue"
           /\ Enqueue(player.c) /\ player' = [player EXCEPT !.at = "advance"]
           /\ UNCHANGED <<input_string_i, generating_in_progress>>
  <2>1. handler.at = "idle" /\ sent = <<>> /\ player.c = input_string_i /\ input_string_i <= TextLength
    BY <1>5 DEF DriverInv, OneThreadEnqueues
  <2>2. player'.at = "advance" /\ player'.c = input_string_i /\ player'.left = player.left
    BY <1>3, <1>5, <2>1
  <2>3. SentUpTo = player.c - 1 /\ SentUpTo' = player.c
    BY <1>2, <1>5, <2>1, <2>2 DEF SentUpTo
  <2>4. TextIsInOrder' /\ queue' \in Seq(Nat) /\ Len(queue') >= Len(queue) + size
    <3>1. player.c = SentUpTo + 1
        BY <1>3, <2>1, <2>3
    <3> QED
        BY <1>2, <1>5, <2>3, <3>1, EnqueuedInOrder DEF DriverInv
  <2>5. DriverTypes'
    <3>1. player' \in Threads({"fetch", "enqueue", "advance", "done", "deleted"})
        BY <1>3, <1>5 DEF Threads
    <3> QED
        BY <1>2, <1>5, <2>4, <3>1 DEF DriverInv, DriverTypes
  <2>6. OneThreadEnqueues'
    BY <1>2, <1>5, <2>1, <2>2 DEF OneThreadEnqueues
  <2>7. CallbackIsDue(size)'
    <3>1. Len(queue) >= (InitialCount - player.left) * size
        BY <1>1, <1>3, <1>5 DEF DriverInv, CallbackIsDue
    <3>2. (InitialCount - player.left + 1) * size = (InitialCount - player.left) * size + size
        BY <1>1, <1>3
    <3>3. (InitialCount - player.left) * size \in Int
        BY <1>1, <1>3
    <3>4. Len(queue') \in Nat
        BY <2>4
    <3>5. Len(queue') >= (InitialCount - player.left + 1) * size
        BY <1>3, <2>4, <3>1, <3>2, <3>3, <3>4
    <3> QED
        BY <1>2, <1>5, <2>1, <2>2, <3>5 DEF DriverInv, CallbackIsDue
  <2>8. AllIsSent'
    BY <1>2, <1>5, <2>2 DEF DriverInv, AllIsSent
  <2> QED
    BY <2>4, <2>5, <2>6, <2>7, <2>8 DEF DriverInv
<1>6. CASE /\ player.at = "advance"
           /\ input_string_i' = input_string_i + 1 /\ player' = Advance(player)
           /\ UNCHANGED <<queue, generating_in_progress>>
  <2>1. handler.at = "idle" /\ sent = <<>> /\ player.c = input_string_i /\ input_string_i <= TextLength
    BY <1>6 DEF DriverInv, OneThreadEnqueues
  <2>2. /\ player'.at = (IF player.left = 1 THEN "done" ELSE "fetch") /\ player'.c = player.c
        /\ player'.left = player.left - 1
    BY <1>3, <1>6 DEF Advance
  <2>3. SentUpTo' = SentUpTo
    BY <1>2, <1>3, <1>6, <2>1, <2>2 DEF SentUpTo
  <2>4. DriverTypes'
    <3>1. player' \in Threads({"fetch", "enqueue", "advance", "done", "deleted"})
      <4>1. player' = [at |-> IF player.left = 1 THEN "done" ELSE "fetch", c |-> player.c, left |-> player.left - 1]
        BY <1>3, <1>6 DEF Advance
      <4>2. player.left - 1 \in Int
        BY <1>3
      <4> QED
        BY <1>3, <4>1, <4>2 DEF Threads
    <3>2. input_string_i' \in 1..TextLength+1
        BY <1>1, <1>3, <1>6, <2>1
    <3> QED
        BY <1>2, <1>6, <3>1, <3>2 DEF DriverInv, DriverTypes
  <2>5. OneThreadEnqueues'
    BY <1>2, <1>6, <2>1, <2>2 DEF OneThreadEnqueues
  <2>6. TextIsInOrder'
    BY <1>2, <1>6, <2>3 DEF DriverInv, TextIsInOrder
  <2>7. CallbackIsDue(size)'
    <3>1. Len(queue) >= (InitialCount - player.left + 1) * size
        BY <1>1, <1>3, <1>6 DEF DriverInv, CallbackIsDue
    <3>2. InitialCount - player'.left = InitialCount - player.left + 1
        BY <1>1, <1>3, <2>2
    <3>3. player.left = 1 => Len(queue) > LowLevel
      <4>1. player.left = 1 => InitialCount - player.left + 1 = InitialCount
        BY <1>1
      <4>2. player.left = 1 => Len(queue) >= InitialCount * size
        BY <3>1, <4>1
      <4>3. InitialCount * size \in Int
        BY <1>1
      <4> QED
        BY <1>1, <1>3, <4>2, <4>3
    <3>4. is_registered
        BY <2>1 DEF DriverInv, CallbackIsDue
    <3>5. InitialCount - player'.left + 0 = InitialCount - player'.left
        BY <1>1, <1>3, <2>2
    <3> QED
        BY <1>2, <1>6, <2>1, <2>2, <3>1, <3>2, <3>3, <3>4, <3>5 DEF CallbackIsDue
  <2>8. AllIsSent'
    BY <1>2, <1>6, <2>2 DEF DriverInv, AllIsSent
  <2> QED
    BY <2>4, <2>5, <2>6, <2>7, <2>8 DEF DriverInv
<1>7. CASE /\ player.at = "done" /\ queue = <<>> /\ handler.at = "idle"
           /\ player' = [player EXCEPT !.at = "deleted"] /\ generating_in_progress' = FALSE
           /\ UNCHANGED <<input_string_i, queue>>
  <2>1. player'.at = "deleted" /\ player'.c = player.c /\ player'.left = player.left
    BY <1>3, <1>7
  <2>2. Len(queue) = 0
    BY <1>7
  <2>3. ~ (input_string_i <= TextLength)
    BY <1>1, <1>7, <2>2 DEF DriverInv, CallbackIsDue
  <2>4. input_string_i = TextLength + 1
    BY <1>1, <1>3, <2>3 DEF DriverInv, DriverTypes
  <2>5. SentUpTo' = SentUpTo /\ SentUpTo = TextLength
    BY <1>1, <1>2, <1>7, <2>1, <2>4 DEF SentUpTo
  <2>6. Len(sent) = TextLength
    BY <1>7, <2>5 DEF DriverInv, TextIsInOrder
  <2>7. DriverTypes'
    <3>1. player' \in Threads({"fetch", "enqueue", "advance", "done", "deleted"})
        BY <1>3, <1>7 DEF Threads
    <3> QED
        BY <1>2, <1>7, <3>1 DEF DriverInv, DriverTypes
  <2>8. OneThreadEnqueues'
    BY <1>2, <1>7, <2>1 DEF OneThreadEnqueues
  <2>9. TextIsInOrder'
    BY <1>2, <1>7, <2>5 DEF DriverInv, TextIsInOrder
  <2>10. CallbackIsDue(size)'
    BY <1>2, <1>7, <2>1, <2>3 DEF DriverInv, CallbackIsDue
  <2>11. AllIsSent'
    BY <1>2, <1>7, <2>1, <2>6 DEF AllIsSent
  <2> QED
    BY <2>7, <2>8, <2>9, <2>10, <2>11 DEF DriverInv
<1> QED
    BY <1>4, <1>5, <1>6, <1>7 DEF PlayString

LEMMA CallbackKeepsInv ==
    ASSUME NEW size \in Nat \ {0}, \A n \in CharacterSizes : size <= n,
           DriverInv(size), LowToneQueueCallback
    PROVE  DriverInv(size)'
<1>1. TextLength \in Nat /\ LowLevel \in Nat
    BY TestDriverAssumption DEF TestDriverAssumption
<1>2. UNCHANGED <<player, sent, generating_in_progress>>
    BY DEF LowToneQueueCallback
<1>3. /\ input_string_i \in Nat /\ handler.left \in Int /\ handler.c \in Nat
      /\ handler = [at |-> handler.at, c |-> handler.c, left |-> handler.left]
      /\ Len(queue) \in Nat
    BY DEF DriverInv, DriverTypes, Threads
<1>4. handler.at # "idle"
    BY DEF LowToneQueueCallback
<1>5. player.at = "done"
    BY <1>4 DEF DriverInv, DriverTypes, OneThreadEnqueues, AllIsSent, Threads
<1>6. generating_in_progress
    BY <1>5 DEF DriverInv, AllIsSent
<1>7. AllIsSent'
    BY <1>2, <1>5, <1>6 DEF AllIsSent
<1>8. CASE /\ handler.at = "fetch"
           /\ Unregistered
           /\ handler' = IF input_string_i > TextLength THEN [handler EXCEPT !.at = "idle"]
                         ELSE Fetch(handler, input_string_i)
           /\ UNCHANGED <<input_string_i, queue>>
  <2>1. \/ handler'.at = "idle" /\ input_string_i > TextLength
        \/ handler'.at = "enqueue" /\ handler'.c = input_string_i /\ input_string_i <= TextLength
    BY <1>1, <1>3, <1>8 DEF Fetch
  <2>2. handler' \in Threads({"idle", "fetch", "enqueue", "advance", "done"})
    BY <1>3, <1>8 DEF Fetch, Threads
  <2>3. is_registered' \in BOOLEAN
    BY <1>8 DEF Unregistered, DriverInv, DriverTypes
  <2>4. DriverTypes'
    BY <1>2, <1>8, <2>2, <2>3 DEF DriverInv, DriverTypes
  <2>5. OneThreadEnqueues'
    BY <1>2, <1>5, <1>8, <2>1 DEF OneThreadEnqueues
  <2>6. SentUpTo' = SentUpTo
    BY <1>2, <1>8, <2>1 DEF SentUpTo
  <2>7. TextIsInOrder'
    BY <1>2, <1>8, <2>6 DEF DriverInv, TextIsInOrder
  <2>8. input_string_i <= TextLength => is_registered'
    <3> SUFFICES ASSUME input_string_i <= TextLength PROVE is_registered'
        OBVIOUS
    <3>1. is_registered' = is_registered
        BY <1>1, <1>3, <1>8 DEF Unregistered
    <3>2. is_registered
        BY DEF DriverInv, CallbackIsDue
    <3> QED
        BY <3>1, <3>2
  <2>9. Len(queue) >= LowLevel
    BY <1>8 DEF DriverInv, CallbackIsDue
  <2>10. CallbackIsDue(size)'
    BY <1>1, <1>2, <1>3, <1>5, <1>8, <2>1, <2>8, <2>9 DEF CallbackIsDue
  <2> QED
    BY <1>7, <2>4, <2>5, <2>7, <2>10 DEF DriverInv
<1>9. CASE /\ handler.at = "enqueue"
           /\ Enqueue(handler.c) /\ handler' = [handler EXCEPT !.at = "advance"]
           /\ UNCHANGED <<input_string_i, is_registered>>
  <2>1. handler.c = input_string_i /\ input_string_i <= TextLength
    BY <1>9 DEF DriverInv, OneThreadEnqueues
  <2>2. handler'.at = "advance" /\ handler'.c = input_string_i
    BY <1>3, <1>9, <2>1
  <2>3. SentUpTo = handler.c - 1 /\ SentUpTo' = handler.c
    BY <1>2, <1>5, <1>9, <2>1, <2>2 DEF SentUpTo
  <2>4. TextIsInOrder' /\ queue' \in Seq(Nat) /\ Len(queue') >= Len(queue) + size
    <3>1. handler.c = SentUpTo + 1
        BY <1>3, <2>1, <2>3
    <3> QED
        BY <1>2, <1>9, <2>3, <3>1, EnqueuedInOrder DEF DriverInv
  <2>5. handler' \in Threads({"idle", "fetch", "enqueue", "advance", "done"})
    BY <1>3, <1>9 DEF Threads
  <2>6. DriverTypes'
    BY <1>2, <1>9, <2>4, <2>5 DEF DriverInv, DriverTypes
  <2>7. OneThreadEnqueues'
    BY <1>2, <1>5, <1>9, <2>1, <2>2 DEF OneThreadEnqueues
  <2>8. Len(queue') > LowLevel
    <3>1. Len(queue) >= LowLevel
        BY <1>9 DEF DriverInv, CallbackIsDue
    <3>2. Len(queue') \in Nat
        BY <2>4
    <3> QED
        BY <1>1, <1>3, <2>4, <3>1, <3>2
  <2>9. is_registered'
    BY <1>9, <2>1 DEF DriverInv, CallbackIsDue
  <2>10. CallbackIsDue(size)'
    BY <1>2, <1>5, <2>2, <2>8, <2>9 DEF CallbackIsDue
  <2> QED
    BY <1>7, <2>4, <2>6, <2>7, <2>10 DEF DriverInv
<1>10. CASE /\ handler.at = "advance"
            /\ input_string_i' = input_string_i + 1 /\ handler' = Advance(handler)
            /\ UNCHANGED <<queue, is_registered>>
  <2>1. handler.c = input_string_i /\ input_string_i <= TextLength
    BY <1>10 DEF DriverInv, OneThreadEnqueues
  <2>2. handler' = [at |-> IF handler.left = 1 THEN "done" ELSE "fetch", c |-> handler.c, left |-> handler.left - 1]
    BY <1>3, <1>10 DEF Advance
  <2>3. handler' \in Threads({"idle", "fetch", "enqueue", "advance", "done"})
    <3>1. handler.left - 1 \in Int
        BY <1>3
    <3> QED
        BY <1>3, <2>2, <3>1 DEF Threads
  <2>4. handler'.at \in {"fetch", "done"}
    BY <2>2
  <2>5. SentUpTo' = SentUpTo
    BY <1>2, <1>3, <1>5, <1>10, <2>4 DEF SentUpTo
  <2>6. input_string_i' \in 1..TextLength+1
    BY <1>1, <1>3, <1>10, <2>1
  <2>7. DriverTypes'
    BY <1>2, <1>10, <2>3, <2>6 DEF DriverInv, DriverTypes
  <2>8. OneThreadEnqueues'
    BY <1>2, <1>5, <2>4 DEF OneThreadEnqueues
  <2>9. TextIsInOrder'
    BY <1>2, <1>10, <2>5 DEF DriverInv, TextIsInOrder
  <2>10. Len(queue) > LowLevel /\ is_registered
    BY <1>5, <1>10, <2>1 DEF DriverInv, CallbackIsDue
  <2>11. CallbackIsDue(size)'
    BY <1>1, <1>2, <1>3, <1>5, <1>10, <2>4, <2>10 DEF CallbackIsDue
  <2> QED
    BY <1>7, <2>7, <2>8, <2>9, <2>11 DEF DriverInv
<1>11. CASE /\ handler.at = "done"
            /\ handler' = [handler EXCEPT !.at = "idle"]
            /\ UNCHANGED <<input_string_i, queue, is_registered>>
  <2>1. handler'.at = "idle"
    BY <1>3, <1>11
  <2>2. handler' \in Threads({"idle", "fetch", "enqueue", "advance", "done"})
    BY <1>3, <1>11 DEF Threads
  <2>3. DriverTypes'
    BY <1>2, <1>11, <2>2 DEF DriverInv, DriverTypes
  <2>4. OneThreadEnqueues'
    BY <1>2, <1>5, <2>1 DEF OneThreadEnqueues
  <2>5. SentUpTo' = SentUpTo
    BY <1>2, <1>11, <2>1 DEF SentUpTo
  <2>6. TextIsInOrder'
    BY <1>2, <1>11, <2>5 DEF DriverInv, TextIsInOrder
  <2>7. CallbackIsDue(size)'
    BY <1>2, <1>5, <1>11, <2>1 DEF DriverInv, CallbackIsDue
  <2> QED
    BY <1>7, <2>3, <2>4, <2>6, <2>7 DEF DriverInv
<1> QED
    BY <1>8, <1>9, <1>10, <1>11 DEF LowToneQueueCallback

LEMMA DequeueKeepsInv ==
    ASSUME NEW size \in Nat \ {0}, Prompt, DriverInv(size), Dequeue
    PROVE  DriverInv(size)'
<1>1. TextLength \in Nat /\ LowLevel \in Nat /\ CharactersToEnqueue \in Nat
    BY TestDriverAssumption DEF TestDriverAssumption
<1>2. UNCHANGED <<input_string_i, player, is_registered, generating_in_progress>>
    BY DEF Dequeue
<1>3. /\ input_string_i \in Nat /\ queue \in Seq(Nat) /\ sent \in Seq(Nat)
      /\ Len(queue) \in Nat /\ Len(sent) \in Nat
    BY DEF DriverInv, DriverTypes
<1>4. player.at = "done" /\ handler.at = "idle" /\ queue # <<>> /\ queue' = Tail(queue)
    BY DEF Dequeue
<1>5. AllIsSent'
    BY <1>2, <1>4 DEF DriverInv, AllIsSent
<1>6. \/ handler' = handler /\ ~ (is_registered /\ Len(queue) = LowLevel + 1)
      \/ handler' = [at |-> "fetch", c |-> 0, left |-> CharactersToEnqueue] /\ Len(queue) = LowLevel + 1
    BY DEF Dequeue
<1>7. handler'.at \in {"idle", "fetch"} /\ handler' \in Threads({"idle", "fetch", "enqueue", "advance", "done"})
    BY <1>1, <1>4, <1>6 DEF DriverInv, DriverTypes, Threads
<1>8. SentUpTo' = SentUpTo
    BY <1>2, <1>4, <1>7 DEF SentUpTo
<1> DEFINE n == Len(queue)
           k == Len(sent)
<1>9. n > 0 /\ n \in Nat /\ k \in Nat
    BY <1>3, <1>4
<1>10. /\ queue' \in Seq(Nat) /\ Len(queue') = n - 1
       /\ \A i \in 1..n-1 : queue'[i] = queue[i + 1]
       /\ Head(queue) = queue[1] /\ queue[1] \in Nat
    BY <1>3, <1>4
<1>11. /\ \A i \in 1..k : sent[i] = i
       /\ \A i \in 1..n : queue[i] \in 1..SentUpTo
       /\ \A i \in 1..n-1 : queue[i + 1] = queue[i] \/ queue[i + 1] = queue[i] + 1
       /\ queue[n] = SentUpTo /\ queue[1] \in {k, k + 1}
    BY <1>4 DEF DriverInv, TextIsInOrder
(* The tone is one more of the character sent last, or the first of the    *)
(* next one.                                                               *)
<1>12. /\ sent' \in Seq(Nat) /\ Len(sent') = queue[1]
       /\ \A i \in 1..Len(sent') : sent'[i] = i
  <2>1. sent # <<>> => Last(sent) = sent[k] /\ k \in 1..k
    BY <1>3 DEF Last
  <2>2. sent = <<>> => k = 0
    OBVIOUS
  <2>3. CASE queue[1] = k
    <3>1. 1 \in 1..n
        BY <1>9
    <3>2. k # 0
        BY <1>11, <2>3, <3>1
    <3>3. sent # <<>> /\ Last(sent) = k
        BY <1>11, <2>1, <2>2, <3>2
    <3>4. sent' = sent
        BY <1>10, <2>3, <3>3 DEF Dequeue
    <3> QED
        BY <1>3, <1>11, <2>3, <3>4
  <2>4. CASE queue[1] = k + 1
    <3>1. sent # <<>> => Last(sent) = k
        BY <1>11, <2>1
    <3>2. sent' = Append(sent, k + 1)
        BY <1>9, <1>10, <2>4, <3>1 DEF Dequeue
    <3> QED
        BY <1>3, <1>11, <2>4, <3>2
  <2> QED
    BY <1>11, <2>3, <2>4
<1>13. DriverTypes'
    BY <1>2, <1>7, <1>10, <1>12 DEF DriverInv, DriverTypes
<1>14. OneThreadEnqueues'
    BY <1>2, <1>4, <1>7 DEF OneThreadEnqueues
<1> HIDE DEF n, k
<1>15. TextIsInOrder'
  <2>1. \A i \in 1..Len(queue') : queue'[i] \in 1..SentUpTo
    <3> TAKE i \in 1..Len(queue')
    <3>1. i \in 1..n-1 /\ i + 1 \in 1..n
        BY <1>9, <1>10
    <3> QED
        BY <1>10, <1>11, <3>1
  <2>2. \A i \in 1..Len(queue')-1 : queue'[i + 1] = queue'[i] \/ queue'[i + 1] = queue'[i] + 1
    <3> TAKE i \in 1..Len(queue')-1
    <3>1. i \in 1..n-1 /\ i + 1 \in 1..n-1
        BY <1>9, <1>10
    <3> QED
        BY <1>10, <1>11, <3>1
  <2>3. queue' = <<>> => Len(sent') = SentUpTo
    <3> SUFFICES ASSUME queue' = <<>> PROVE Len(sent') = SentUpTo
        OBVIOUS
    <3>1. n = 1
        BY <1>9, <1>10
    <3> QED
        BY <1>11, <1>12, <3>1
  <2>4. queue' # <<>> => queue'[Len(queue')] = SentUpTo /\ queue'[1] \in {Len(sent'), Len(sent') + 1}
    <3> SUFFICES ASSUME queue' # <<>> PROVE queue'[Len(queue')] = SentUpTo /\ queue'[1] \in {Len(sent'), Len(sent') + 1}
        OBVIOUS
    <3>1. n - 1 \in 1..n-1 /\ 1 \in 1..n-1 /\ n - 1 + 1 = n /\ 1 + 1 = 2
      <4>1. Len(queue') # 0
        BY <1>10
      <4> QED
        BY <1>9, <1>10, <4>1
    <3>2. queue'[n - 1] = queue[n] /\ queue'[1] = queue[2]
        BY <1>10, <3>1
    <3>3. queue[2] = queue[1] \/ queue[2] = queue[1] + 1
        BY <1>11, <3>1
    <3> QED
        BY <1>10, <1>11, <1>12, <3>2, <3>3
  <2> QED
    BY <1>8, <1>12, <2>1, <2>2, <2>3, <2>4 DEF TextIsInOrder
<1>16. CallbackIsDue(size)'
  <2>1. input_string_i <= TextLength => is_registered /\ Len(queue) > LowLevel
    BY <1>4 DEF DriverInv, CallbackIsDue
  <2>2. Len(queue') = Len(queue) - 1
    BY <1>10 DEF n
  <2>3. handler'.at = "fetch" => Len(queue') >= LowLevel
    <3>1. handler'.at = "fetch" => Len(queue) = LowLevel + 1
        BY <1>4, <1>6
    <3> QED
        BY <1>1, <2>2, <3>1
  <2>4. handler'.at = "idle" /\ input_string_i <= TextLength => Len(queue') > LowLevel
    BY <1>1, <1>3, <1>6, <2>1, <2>2, SMTT(30)
  <2> QED
    BY <1>2, <1>4, <1>7, <2>1, <2>3, <2>4 DEF CallbackIsDue
<1> QED
    BY <1>5, <1>13, <1>14, <1>15, <1>16 DEF DriverInv

LEMMA TextIsAlwaysSent ==
    ASSUME Prompt, NEW size \in Nat, \A n \in CharacterSizes : size <= n, InitialCount * size > LowLevel
    PROVE  DriverSpec => []TextIsSent
<1>1. size \in Nat \ {0}
  <2>1. InitialCount \in Nat /\ LowLevel \in Nat
    BY TestDriverAssumption DEF TestDriverAssumption
  <2>2. size = 0 => InitialCount * size = 0
    BY <2>1
  <2> QED
    BY <2>1, <2>2
<1>2. DriverInit => DriverInv(size)
    BY InitDriverInv
<1>3. DriverInv(size) /\ [DriverNext]_driverVars => DriverInv(size)'
  <2> SUFFICES ASSUME DriverInv(size), [DriverNext]_driverVars PROVE DriverInv(size)'
    OBVIOUS
  <2>1. CASE PlayString
    BY <1>1, <2>1, PlayStringKeepsInv
  <2>2. CASE LowToneQueueCallback
    BY <1>1, <2>2, CallbackKeepsInv
  <2>3. CASE Dequeue
    BY <1>1, <2>3, DequeueKeepsInv
  <2>4. CASE UNCHANGED driverVars
    BY <2>4 DEF driverVars, DriverInv, DriverTypes, OneThreadEnqueues, TextIsInOrder, CallbackIsDue,
                AllIsSent, SentUpTo
  <2> QED
    BY <2>1, <2>2, <2>3, <2>4 DEF DriverNext
<1>4. DriverInv(size) => TextIsSent
  <2> SUFFICES ASSUME DriverInv(size) PROVE TextIsSent
    OBVIOUS
  <2>1. DOMAIN sent = 1..Len(sent)
    BY DEF DriverInv, DriverTypes
  <2>2. \A i \in DOMAIN sent : sent[i] = i
    BY <2>1 DEF DriverInv, TextIsInOrder
  <2>3. ~generating_in_progress => Len(sent) = TextLength
    BY DEF DriverInv, AllIsSent
  <2> QED
    BY <2>2, <2>3 DEF TextIsSent
<1> QED
    BY <1>2, <1>3, <1>4, PTL DEF DriverSpec


-----------------------------------------------------------------------------
(* The options of cw and cwcp.  While options are processed, the             *)
(* configuration is what the words so far ask for; later it changes only to a *)
(* sound system that is tried for the one asked for.                          *)

(* What the first n words ask for.                                            *)
Given == environment \o arguments

WordUpTo(n, option, otherwise) ==
    LET given == {i \in 1..n : Given[i].option = option} IN
    IF given = {} THEN otherwise ELSE Given[Max(given)].value

(* A word counts for its own option, and leaves the others as they were.      *)
LEMMA NextWordCounts ==
    ASSUME NEW n \in Nat, NEW option, NEW otherwise
    PROVE  WordUpTo(n + 1, option, otherwise) =
               IF Given[n + 1].option = option THEN Given[n + 1].value
               ELSE WordUpTo(n, option, otherwise)
<1>. DEFINE before == {i \in 1..n : Given[i].option = option}
            given == {i \in 1..n + 1 : Given[i].option = option}
<1>1. CASE Given[n + 1].option = option
  <2>1. given \in SUBSET (1..n + 1) /\ n + 1 \in given
    BY <1>1
  <2>2. given # {} /\ Max(given) = n + 1
    <3>. HIDE DEF given
    <3> QED
      BY <2>1, MaxIsLast
  <2> QED
    BY <1>1, <2>2 DEF WordUpTo
<1>2. CASE Given[n + 1].option # option
  <2>1. given = before
    BY <1>2
  <2> QED
    BY <1>2, <2>1 DEF WordUpTo
<1> QED
  BY <1>1, <1>2

LEMMA AllWordsCount ==
    ASSUME Given \in Seq(Words), NEW option, NEW otherwise
    PROVE  LastWord(option, otherwise) = WordUpTo(Len(Given), option, otherwise)
<1>1. DOMAIN Given = 1..Len(Given)
  BY DEF Given
<1> QED
  BY <1>1 DEF LastWord, WordUpTo, Given

(* Before anything is tried the words up to argv have been processed.         *)
Systems == Range(SoundSystems)

ConfigTypes ==
    /\ config = [sound_system |-> config.sound_system, sound_device |-> config.sound_device,
                 values |-> config.values]
    /\ config.values = [p \in Parameters |-> config.values[p]]
    /\ \A p \in Parameters : config.values[p] \in Limits(p)
    /\ config.sound_system \in Systems \cup {"none", "soundcard"}

ValuesAre(n) == \A p \in Parameters : config.values[p] = WordUpTo(n, p, InitialConfig.values[p])
SystemIs(n) == config.sound_system = WordUpTo(n, "s", "none")
DeviceIs(n) ==
    WordUpTo(n, "d", "default") # "default" =>
        config.sound_device = WordUpTo(n, "d", "default") /\ config.sound_device # ""

(* Later the sound system may be one that has been tried.                     *)
Allowed(system) ==
    CASE system = "none" -> {"pa", "oss", "alsa", "console"}
      [] system = "soundcard" -> {"pa", "oss", "alsa"}
      [] OTHER -> {system}

SystemIsAllowed ==
    config.sound_system \in Allowed(LastWord("s", "none")) \cup {LastWord("s", "none")}

OptionsAreRead(n) ==
    /\ n + Len(argv) = Len(Given) /\ argv \in Seq(Words)
    /\ \A i \in 1..Len(argv) : argv[i] = Given[n + i]
    /\ ValuesAre(n) /\ SystemIs(n) /\ DeviceIs(n)

GeneratorIsAsAsked ==
    /\ generator = [sound_system |-> generator.sound_system, sound_device |-> generator.sound_device,
                    values |-> generator.values]
    /\ generator.sound_system \in Allowed(LastWord("s", "none"))
    /\ LastWord("d", "default") # "default" => generator.sound_device = LastWord("d", "default")

StartupInv ==
    /\ program \in Programs /\ environment \in Seq(Words) /\ arguments \in Seq(Words)
    /\ stage \in {"combine", "options", "apply", "run", "exit"} \cup Systems
    /\ ConfigTypes
    /\ stage = "combine" => config = InitialConfig
    /\ stage = "options" => \E n \in Nat : OptionsAreRead(n)
    /\ stage \in Systems \cup {"apply", "run"} =>
           ValuesAre(Len(Given)) /\ SystemIsAllowed /\ DeviceIs(Len(Given))
    /\ stage \in {"apply", "run"} => GeneratorIsAsAsked
    /\ stage = "run" => generator.values = config.values

(* The sound systems, and which of them is tried next.                        *)
LEMMA SystemsAre == Systems = {"null", "pa", "oss", "alsa", "console"}
  <1>1. SoundSystems \in [1..5 -> {"null", "pa", "oss", "alsa", "console"}] /\ DOMAIN SoundSystems = 1..5
    BY DEF SoundSystems
  <1>2. /\ SoundSystems[1] = "null" /\ SoundSystems[2] = "pa" /\ SoundSystems[3] = "oss"
        /\ SoundSystems[4] = "alsa" /\ SoundSystems[5] = "console"
    BY DEF SoundSystems
  <1>3. 1 \in 1..5 /\ 2 \in 1..5 /\ 3 \in 1..5 /\ 4 \in 1..5 /\ 5 \in 1..5
    OBVIOUS
  <1>4. Systems = {SoundSystems[i] : i \in 1..5}
    BY <1>1 DEF Systems, Range
  <1>. HIDE DEF SoundSystems
  <1> QED
    BY <1>1, <1>2, <1>3, <1>4

LEMMA NextSystemIs ==
    ASSUME NEW system \in Systems
    PROVE  NextSystem(system) \in Systems \cup {"exit"}
<1>. DEFINE I == {i \in 1..Len(SoundSystems) : SoundSystems[i] = system}
<1>1. Len(SoundSystems) = 5 /\ \A i \in 1..5 : SoundSystems[i] \in Systems
  BY DEF Systems, Range, SoundSystems
<1>2. SelectInSeq(SoundSystems, LAMBDA s : s = system) \in 0..5
  <2>1. SelectInSeq(SoundSystems, LAMBDA s : s = system) = IF I # {} THEN Min(I) ELSE 0
    BY DEF SelectInSeq
  <2>2. CASE I = {}
    BY <2>1, <2>2
  <2>3. CASE I # {}
    <3>1. I \in SUBSET Nat /\ I \subseteq 1..5
      BY <1>1
    <3>2. \E x \in I : \A y \in I : x <= y
      <4>. HIDE DEF I
      <4> QED
        BY <2>3, <3>1, LeastNatural
    <3>3. Min(I) \in I
      <4>. HIDE DEF I
      <4> QED
        BY <3>2 DEF Min
    <3> QED
      BY <2>1, <2>3, <3>1, <3>3
  <2> QED
    BY <2>2, <2>3
<1>3. \A i \in 0..5 : i # 5 => i + 1 \in 1..5
  OBVIOUS
<1> HIDE DEF SoundSystems
<1> QED
  BY <1>1, <1>2, <1>3 DEF NextSystem

LEMMA NothingAsked ==
    ASSUME NEW option, NEW otherwise
    PROVE  WordUpTo(0, option, otherwise) = otherwise
<1>1. {i \in 1..0 : Given[i].option = option} = {}
  OBVIOUS
<1> QED
  BY <1>1 DEF WordUpTo

(* The defaults are within the limits of their parameters.                    *)
LEMMA InitialConfigTypes ==
    /\ InitialConfig = [sound_system |-> "none", sound_device |-> "", values |-> InitialConfig.values]
    /\ InitialConfig.values = [p \in Parameters |-> InitialConfig.values[p]]
    /\ \A p \in Parameters : InitialConfig.values[p] \in Limits(p)
    /\ InitialConfig.sound_system = "none" /\ InitialConfig.sound_device = ""
<1>1. ASSUME NEW p \in Parameters PROVE InitialConfig.values[p] \in Limits(p)
  BY DEF InitialConfig, Parameters, Limits
<1>2. \A v : LET c == [sound_system |-> "none", sound_device |-> "", values |-> [p \in Parameters |-> v[p]]]
             IN  /\ c = [sound_system |-> "none", sound_device |-> "", values |-> c.values]
                 /\ c.values = [p \in Parameters |-> c.values[p]]
                 /\ c.sound_system = "none" /\ c.sound_device = ""
  OBVIOUS
<1>3. PICK v : InitialConfig = [sound_system |-> "none", sound_device |-> "", values |-> [p \in Parameters |-> v[p]]]
  <2>. DEFINE v == [p \in Parameters |-> CASE p = "w" -> 12 [] p = "t" -> 800 [] p = "v" -> 70
                                        [] p = "g" -> 0 [] p = "k" -> 50]
  <2>1. InitialConfig = [sound_system |-> "none", sound_device |-> "", values |-> v]
    BY DEF InitialConfig
  <2>2. v \in [Parameters -> Nat]
    BY DEF Parameters
  <2>. HIDE DEF v
  <2> QED
    BY <2>1, <2>2
<1> QED
  BY <1>1, <1>2, <1>3

LEMMA InitStartupInv == StartupInit => StartupInv
<1> SUFFICES ASSUME StartupInit PROVE StartupInv
  OBVIOUS
<1>1. environment \in Seq(Words) /\ arguments \in Seq(Words)
  <2>1. environment \in BoundedSeq(Words, 1) /\ arguments \in BoundedSeq(Words, MaxWords)
    BY DEF StartupInit
  <2>2. ASSUME NEW k \in Nat, NEW s \in BoundedSeq(Words, k) PROVE s \in Seq(Words)
    <3>1. PICK m \in 0..k : s \in [1..m -> Words]
      BY DEF BoundedSeq, SeqOf
    <3> QED
      BY <3>1
  <2>3. MaxWords \in Nat /\ 1 \in Nat
    BY StartupAssumption
  <2> QED
    BY <2>1, <2>2, <2>3
<1>2. config = InitialConfig /\ stage = "combine" /\ program \in Programs
  BY DEF StartupInit
<1>3. ConfigTypes
  <2>1. config.sound_system = "none" /\ config.sound_device = ""
    BY <1>2, InitialConfigTypes
  <2> QED
    BY <1>2, <2>1, InitialConfigTypes DEF ConfigTypes
<1>4. stage \notin Systems \cup {"apply", "run", "options"}
  BY <1>2, SystemsAre
<1> QED
  BY <1>1, <1>2, <1>3, <1>4 DEF StartupInv

LEMMA CombineKeepsInv ==
    StartupInv /\ program # "xcwcp" /\ CombineArguments => StartupInv'
<1> SUFFICES ASSUME StartupInv, program # "xcwcp", CombineArguments PROVE StartupInv'
  OBVIOUS
<1>1. /\ stage = "combine" /\ stage' = "options" /\ argv' = Given /\ config = InitialConfig
      /\ UNCHANGED <<program, environment, arguments, sound, config, generator>>
  BY DEF StartupInv, CombineArguments, CombinedArguments, Given
<1>2. Given' = Given /\ Given \in Seq(Words)
  BY <1>1 DEF Given, StartupInv
<1>3. ConfigTypes'
  BY <1>1 DEF ConfigTypes, StartupInv
<1>4. OptionsAreRead(0)'
  <2>1. \A option, otherwise : WordUpTo(0, option, otherwise)' = WordUpTo(0, option, otherwise)
    BY <1>2 DEF WordUpTo
  <2>2. ValuesAre(0)' /\ SystemIs(0)' /\ DeviceIs(0)'
    <3>1. \A option, otherwise : WordUpTo(0, option, otherwise)' = otherwise
      BY <2>1, NothingAsked
    <3>2. config' = InitialConfig /\ InitialConfig.sound_system = "none"
      BY <1>1, InitialConfigTypes
    <3> QED
      BY <3>1, <3>2 DEF ValuesAre, SystemIs, DeviceIs
  <2> QED
    BY <1>1, <1>2, <2>2 DEF OptionsAreRead
<1>5. stage' \notin Systems \cup {"apply", "run", "combine"}
  BY <1>1, SystemsAre
<1>6. program' \in Programs /\ environment' \in Seq(Words) /\ arguments' \in Seq(Words)
  BY <1>1 DEF StartupInv
<1> QED
  BY <1>1, <1>3, <1>4, <1>5, <1>6 DEF StartupInv

(* A word that is accepted is the last one for its option, and changes        *)
(* nothing else.                                                              *)
LEMMA ProcessKeepsInv == StartupInv /\ ProcessOption => StartupInv'
<1> SUFFICES ASSUME StartupInv, ProcessOption PROVE StartupInv'
  OBVIOUS
<1> DEFINE option == Head(argv).option
           value == Head(argv).value
<1>1. stage = "options" /\ argv # <<>> /\ argv' = Tail(argv)
      /\ UNCHANGED <<program, environment, arguments, sound, generator>>
  BY DEF ProcessOption
<1>2. Given' = Given /\ Given \in Seq(Words)
  BY <1>1 DEF Given, StartupInv
<1>3. program' \in Programs /\ environment' \in Seq(Words) /\ arguments' \in Seq(Words)
  BY <1>1 DEF StartupInv
<1>4. CASE stage' = "exit" /\ UNCHANGED config
  <2>1. ConfigTypes'
    BY <1>4 DEF ConfigTypes, StartupInv
  <2>2. stage' \notin Systems \cup {"apply", "run", "combine", "options"}
    BY <1>4, SystemsAre
  <2> QED
    BY <1>3, <1>4, <2>1, <2>2 DEF StartupInv
<1>5. CASE UNCHANGED stage
  <2>1. PICK n \in Nat : OptionsAreRead(n)
    BY <1>1 DEF StartupInv
  <2>2. /\ Head(argv) = Given[n + 1] /\ argv' \in Seq(Words) /\ (n + 1) + Len(argv') = Len(Given)
        /\ \A i \in 1..Len(argv') : argv'[i] = Given[(n + 1) + i]
    <3>1. argv \in Seq(Words) /\ n + Len(argv) = Len(Given) /\ \A i \in 1..Len(argv) : argv[i] = Given[n + i]
      BY <2>1 DEF OptionsAreRead
    <3>2. Head(argv) = argv[1] /\ 1 \in 1..Len(argv) /\ Len(argv') = Len(argv) - 1
          /\ \A i \in 1..Len(argv) - 1 : argv'[i] = argv[i + 1] /\ i + 1 \in 1..Len(argv)
      BY <1>1, <3>1
    <3>3. \A i \in 1..Len(argv) - 1 : n + (i + 1) = (n + 1) + i
      OBVIOUS
    <3> QED
      BY <1>1, <3>1, <3>2, <3>3
  <2>3. \A o, otherwise : WordUpTo(n + 1, o, otherwise)' =
             IF option = o THEN value ELSE WordUpTo(n, o, otherwise)
    <3>1. \A o, otherwise : WordUpTo(n + 1, o, otherwise)' = WordUpTo(n + 1, o, otherwise)
      BY <1>2 DEF WordUpTo
    <3>2. Given[n + 1].option = option /\ Given[n + 1].value = value
      BY <2>2
    <3> HIDE DEF option, value
    <3>3. ASSUME NEW o, NEW otherwise
          PROVE  WordUpTo(n + 1, o, otherwise) = IF option = o THEN value ELSE WordUpTo(n, o, otherwise)
      BY <3>2, NextWordCounts
    <3> QED
      BY <3>1, <3>3
  <2>4. n + 1 \in Nat
    OBVIOUS
  <2>5. \/ option = "s" /\ value \in Systems \cup {"soundcard"} /\ config' = [config EXCEPT !.sound_system = value]
        \/ option = "d" /\ value # "" /\ config' = [config EXCEPT !.sound_device = value]
        \/ option \in Parameters /\ value \in Limits(option) /\ config' = [config EXCEPT !.values[option] = value]
        \/ option = "T" /\ config' = config
    <3>1. stage' # "exit"
      BY <1>1, <1>5
    <3> QED
      BY <3>1, Zenon DEF ProcessOption, Exits, Systems
  <2> HIDE DEF option, value
  <2>6. ConfigTypes /\ ValuesAre(n) /\ SystemIs(n) /\ DeviceIs(n)
    BY <2>1 DEF StartupInv, OptionsAreRead
  <2>7. ConfigTypes' /\ ValuesAre(n + 1)' /\ SystemIs(n + 1)' /\ DeviceIs(n + 1)'
    <3>1. CASE option = "s"
      <4>1. config' = [config EXCEPT !.sound_system = value] /\ value \in Systems \cup {"soundcard"}
        BY <2>5, <3>1 DEF Parameters
      <4>2. /\ config' = [sound_system |-> value, sound_device |-> config.sound_device, values |-> config.values]
        BY <2>6, <4>1 DEF ConfigTypes
      <4>3. ConfigTypes'
        BY <2>6, <4>1, <4>2 DEF ConfigTypes
      <4> QED
        BY <2>3, <2>6, <3>1, <4>2, <4>3 DEF ValuesAre, SystemIs, DeviceIs, Parameters
    <3>2. CASE option = "d"
      <4>1. config' = [config EXCEPT !.sound_device = value] /\ value # ""
        BY <2>5, <3>2 DEF Parameters
      <4>2. /\ config' = [sound_system |-> config.sound_system, sound_device |-> value, values |-> config.values]
        BY <2>6, <4>1 DEF ConfigTypes
      <4>3. ConfigTypes'
        BY <2>6, <4>1, <4>2 DEF ConfigTypes
      <4>4. \A o \in {"s"} \cup Parameters : o # option
        BY <3>2 DEF Parameters
      <4>5. ValuesAre(n + 1)' /\ SystemIs(n + 1)'
        BY <2>3, <2>6, <4>2, <4>4 DEF ValuesAre, SystemIs
      <4>6. config'.sound_device = value /\ WordUpTo(n + 1, "d", "default")' = value
        BY <2>3, <3>2, <4>2
      <4>7. DeviceIs(n + 1)'
        BY <4>1, <4>6 DEF DeviceIs
      <4> QED
        BY <4>3, <4>5, <4>7
    <3>3. CASE option \in Parameters
      <4>1. config' = [config EXCEPT !.values[option] = value] /\ value \in Limits(option)
        BY <2>5, <3>3 DEF Parameters
      <4>2. config' = [sound_system |-> config.sound_system, sound_device |-> config.sound_device,
                       values |-> [config.values EXCEPT ![option] = value]]
        BY <2>6, <4>1 DEF ConfigTypes
      <4>3. /\ config'.values = [p \in Parameters |-> config'.values[p]]
            /\ \A p \in Parameters : config'.values[p] = IF p = option THEN value ELSE config.values[p]
        <5>1. config.values = [p \in Parameters |-> config.values[p]]
          BY <2>6 DEF ConfigTypes
        <5>2. config'.values = [config.values EXCEPT ![option] = value]
          BY <4>2
        <5> QED
          BY <3>3, <5>1, <5>2
      <4>4. ConfigTypes'
        BY <2>6, <4>1, <4>2, <4>3 DEF ConfigTypes
      <4>5. ValuesAre(n + 1)'
        <5>1. \A p \in Parameters : config.values[p] = WordUpTo(n, p, InitialConfig.values[p])
          BY <2>6 DEF ValuesAre
        <5>2. \A p \in Parameters : config'.values[p] = WordUpTo(n + 1, p, InitialConfig.values[p])'
          BY <2>3, <4>3, <5>1
        <5>3. (\A p \in Parameters : config.values[p] = WordUpTo(n + 1, p, InitialConfig.values[p]))'
          BY <5>2
        <5> QED
          BY <5>3 DEF ValuesAre
      <4>6. option # "s" /\ option # "d"
        BY <3>3 DEF Parameters
      <4> QED
        BY <2>3, <2>6, <4>2, <4>4, <4>5, <4>6 DEF SystemIs, DeviceIs
    <3>4. CASE option = "T"
      <4>1. config' = config
        BY <2>5, <3>4 DEF Parameters
      <4>2. \A o \in {"s", "d"} \cup Parameters : o # option
        BY <3>4 DEF Parameters
      <4>3. ValuesAre(n + 1)'
        BY <2>3, <2>6, <4>1, <4>2 DEF ValuesAre
      <4> QED
        BY <2>3, <2>6, <4>1, <4>2, <4>3 DEF ConfigTypes, SystemIs, DeviceIs
    <3> QED
      BY <2>5, <3>1, <3>2, <3>3, <3>4
  <2>8. OptionsAreRead(n + 1)'
    BY <1>2, <2>2, <2>7 DEF OptionsAreRead
  <2>9. stage' \notin Systems \cup {"apply", "run", "combine"} /\ stage' = "options"
    BY <1>1, <1>5, SystemsAre
  <2> QED
    BY <1>3, <2>4, <2>7, <2>8, <2>9 DEF StartupInv
<1>6. UNCHANGED stage \/ (stage' = "exit" /\ UNCHANGED config)
  BY DEF ProcessOption, Exits
<1> QED
  BY <1>4, <1>5, <1>6

LEMMA ValidateKeepsInv == StartupInv /\ Validate => StartupInv'
<1> SUFFICES ASSUME StartupInv, Validate PROVE StartupInv'
  OBVIOUS
<1>1. /\ stage = "options" /\ argv = <<>> /\ stage' \in {"null", "exit"}
      /\ UNCHANGED <<program, environment, arguments, sound, argv, config, generator>>
  BY DEF Validate, SoundSystems
<1>2. PICK n \in Nat : OptionsAreRead(n)
  BY <1>1 DEF StartupInv
<1>3. Given' = Given /\ Given \in Seq(Words)
  BY <1>1 DEF Given, StartupInv
<1>4. n = Len(Given)
  BY <1>1, <1>2 DEF OptionsAreRead
<1>5. ConfigTypes /\ ValuesAre(Len(Given)) /\ SystemIs(Len(Given)) /\ DeviceIs(Len(Given))
  BY <1>2, <1>4 DEF StartupInv, OptionsAreRead
<1>6. SystemIsAllowed
  BY <1>3, <1>5, AllWordsCount DEF SystemIs, SystemIsAllowed
<1>7. ConfigTypes' /\ ValuesAre(Len(Given))' /\ DeviceIs(Len(Given))' /\ SystemIsAllowed'
  <2>1. ConfigTypes'
    BY <1>1, <1>5 DEF ConfigTypes
  <2>2. \A k, o, d : WordUpTo(k, o, d)' = WordUpTo(k, o, d)
    BY <1>3 DEF WordUpTo
  <2>3. LastWord("s", "none")' = LastWord("s", "none")
    BY <1>1 DEF LastWord
  <2>4. ValuesAre(Len(Given))' /\ DeviceIs(Len(Given))'
    BY <1>1, <1>3, <1>5, <2>2 DEF ValuesAre, DeviceIs
  <2>5. SystemIsAllowed'
    BY <1>1, <1>6, <2>3 DEF SystemIsAllowed, Allowed
  <2> QED
    BY <2>1, <2>4, <2>5
<1>8. stage' \in {"exit"} \cup Systems /\ stage' \notin {"apply", "run", "combine", "options"}
  BY <1>1, SystemsAre
<1>9. program' \in Programs /\ environment' \in Seq(Words) /\ arguments' \in Seq(Words)
  BY <1>1 DEF StartupInv
<1> QED
  BY <1>7, <1>8, <1>9 DEF StartupInv

(* A system that is tried has been asked for, and only that one is left to    *)
(* try afterwards; a device that was named stays the device.                  *)
LEMMA TryingKeepsInv ==
    ASSUME StartupInv, NEW system \in Systems, TrySoundSystem(system)
    PROVE  StartupInv'
<1>1. /\ stage = system /\ UNCHANGED <<program, environment, arguments, argv>>
      /\ stage' \in Systems \cup {"exit", "apply"}
  BY NextSystemIs, SystemsAre DEF TrySoundSystem
<1>2. ConfigTypes /\ ValuesAre(Len(Given)) /\ SystemIsAllowed /\ DeviceIs(Len(Given))
  BY <1>1 DEF StartupInv
<1>3. /\ Given' = Given /\ Given \in Seq(Words)
      /\ \A k, o, d : WordUpTo(k, o, d)' = WordUpTo(k, o, d)
      /\ \A o, d : LastWord(o, d)' = LastWord(o, d)
      /\ LastWord("d", "default") = WordUpTo(Len(Given), "d", "default")
  <2>1. Given' = Given /\ Given \in Seq(Words)
    BY <1>1 DEF Given, StartupInv
  <2>2. \A k, o, d : WordUpTo(k, o, d)' = WordUpTo(k, o, d)
    BY <2>1 DEF WordUpTo
  <2>3. \A o, d : LastWord(o, d)' = LastWord(o, d)
    BY <1>1 DEF LastWord
  <2> QED
    BY <2>1, <2>2, <2>3, AllWordsCount
<1>4. program' \in Programs /\ environment' \in Seq(Words) /\ arguments' \in Seq(Words)
  BY <1>1 DEF StartupInv
<1>5. stage' \in {"exit", "apply"} \cup Systems /\ stage' \notin {"run", "combine", "options"}
  BY <1>1, SystemsAre
<1>6. CASE UNCHANGED config /\ stage' \in Systems \cup {"exit"}
  <2>1. ConfigTypes' /\ ValuesAre(Len(Given))' /\ SystemIsAllowed' /\ DeviceIs(Len(Given))'
    <3>1. ConfigTypes'
      BY <1>2, <1>6 DEF ConfigTypes
    <3>2. SystemIsAllowed'
      BY <1>2, <1>3, <1>6 DEF SystemIsAllowed, Allowed
    <3> QED
      BY <1>2, <1>3, <1>6, <3>1, <3>2 DEF ValuesAre, DeviceIs
  <2>2. stage' \notin {"apply", "run"}
    BY <1>6, SystemsAre
  <2> QED
    BY <1>4, <1>5, <2>1, <2>2 DEF StartupInv
<1>7. CASE Asked(system) /\ ~(UNCHANGED config /\ stage' \in Systems \cup {"exit"})
  <2>. DEFINE device == IF system = "null" THEN config.sound_device
                        ELSE PickDeviceName(config.sound_device, system)
  <2>1. /\ config' = [config EXCEPT !.sound_system = system, !.sound_device = device]
        /\ \/ /\ generator' = [sound_system |-> system, sound_device |-> device, values |-> <<>>]
              /\ stage' = "apply"
           \/ stage' = NextSystem(system) /\ UNCHANGED generator
    BY <1>7, NextSystemIs, Zenon DEF TrySoundSystem
  <2>2. config.sound_device \notin {"", "default"} => device = config.sound_device
    BY DEF PickDeviceName
  <2>. HIDE DEF device
  <2>3. config' = [sound_system |-> system, sound_device |-> device, values |-> config.values]
    BY <1>2, <2>1 DEF ConfigTypes
  <2>4. ConfigTypes'
    BY <1>2, <2>3 DEF ConfigTypes
  <2>5. ValuesAre(Len(Given))'
    BY <1>2, <1>3, <2>3 DEF ValuesAre
  <2>6. system \in Allowed(LastWord("s", "none"))
    <3>1. system \in {"null", "pa", "oss", "alsa", "console"}
      BY SystemsAre
    <3>. DEFINE word == LastWord("s", "none")
    <3>2. config.sound_system \in Allowed(word) \cup {word}
      BY <1>2 DEF SystemIsAllowed
    <3>. HIDE DEF word
    <3> QED
      BY <1>7, <3>1, <3>2 DEF Asked, Allowed, word
  <2>7. SystemIsAllowed'
    BY <1>3, <2>3, <2>6 DEF SystemIsAllowed, Allowed
  <2>8. LastWord("d", "default") # "default" =>
            device = LastWord("d", "default") /\ device # ""
    BY <1>2, <1>3, <2>2 DEF DeviceIs
  <2>9. DeviceIs(Len(Given))'
    BY <1>3, <2>3, <2>8 DEF DeviceIs
  <2>10. stage' = "apply" => GeneratorIsAsAsked'
    <3>1. stage' # "apply" \/ generator' = [sound_system |-> system, sound_device |-> device, values |-> <<>>]
      BY <2>1, NextSystemIs, SystemsAre
    <3>2. generator' = [sound_system |-> system, sound_device |-> device, values |-> <<>>] =>
             /\ generator' = [sound_system |-> generator'.sound_system,
                              sound_device |-> generator'.sound_device, values |-> generator'.values]
             /\ generator'.sound_system = system /\ generator'.sound_device = device
      OBVIOUS
    <3> QED
      BY <1>3, <2>6, <2>8, <3>1, <3>2 DEF GeneratorIsAsAsked, Allowed
  <2> QED
    BY <1>4, <1>5, <2>4, <2>5, <2>7, <2>9, <2>10 DEF StartupInv
<1>8. (UNCHANGED config /\ stage' \in Systems \cup {"exit"}) \/ Asked(system)
  BY NextSystemIs DEF TrySoundSystem
<1> QED
  BY <1>6, <1>7, <1>8

LEMMA ApplyKeepsInv == StartupInv /\ ApplyConfig => StartupInv'
<1> SUFFICES ASSUME StartupInv, ApplyConfig PROVE StartupInv'
  OBVIOUS
<1>1. stage = "apply" /\ UNCHANGED <<program, environment, arguments, sound, argv, config>>
  BY DEF ApplyConfig
<1>2. ConfigTypes /\ ValuesAre(Len(Given)) /\ SystemIsAllowed /\ DeviceIs(Len(Given)) /\ GeneratorIsAsAsked
  BY <1>1 DEF StartupInv
<1>3. \A p \in Parameters : config.values[p] \in LibraryLimits(p)
  BY <1>2 DEF ConfigTypes, Limits, LibraryLimits
<1>4. stage' = "run" /\ generator' = [generator EXCEPT !.values = config.values]
  BY <1>3 DEF ApplyConfig
<1>5. /\ Given' = Given /\ \A k, o, d : WordUpTo(k, o, d)' = WordUpTo(k, o, d)
      /\ \A o, d : LastWord(o, d)' = LastWord(o, d)
  <2>1. Given' = Given
    BY <1>1 DEF Given
  <2>2. \A k, o, d : WordUpTo(k, o, d)' = WordUpTo(k, o, d)
    BY <2>1 DEF WordUpTo
  <2> QED
    BY <1>1, <2>1, <2>2 DEF LastWord
<1>6. ConfigTypes'
  BY <1>1, <1>2 DEF ConfigTypes
<1>7. ValuesAre(Len(Given))' /\ DeviceIs(Len(Given))'
  BY <1>1, <1>2, <1>5 DEF ValuesAre, DeviceIs
<1>8. SystemIsAllowed'
  BY <1>1, <1>2, <1>5 DEF SystemIsAllowed, Allowed
<1>9. GeneratorIsAsAsked' /\ generator'.values = config'.values
  <2>1. generator' = [sound_system |-> generator.sound_system, sound_device |-> generator.sound_device,
                      values |-> config.values]
    BY <1>2, <1>4 DEF GeneratorIsAsAsked
  <2>2. generator'.values = config'.values
    BY <1>1, <2>1
  <2>3. GeneratorIsAsAsked'
    BY <1>2, <1>5, <2>1 DEF GeneratorIsAsAsked, Allowed
  <2> QED
    BY <2>2, <2>3
<1>10. stage' \notin Systems \cup {"apply", "combine", "options"}
  BY <1>4, SystemsAre
<1>11. program' \in Programs /\ environment' \in Seq(Words) /\ arguments' \in Seq(Words)
  BY <1>1 DEF StartupInv
<1> QED
  BY <1>4, <1>6, <1>7, <1>8, <1>9, <1>10, <1>11 DEF StartupInv

(* The last word for an option is the one that is used.                       *)
LEMMA SettingsAreAlwaysUsed ==
    ASSUME "xcwcp" \notin Programs
    PROVE  StartupSpec => [](SettingsAreUsed /\ AcceptedIsApplied)
<1>1. StartupInit => StartupInv
  BY InitStartupInv
<1>2. StartupInv /\ [StartupNext]_startupVars => StartupInv'
  <2> SUFFICES ASSUME StartupInv, [StartupNext]_startupVars PROVE StartupInv'
    OBVIOUS
  <2>1. CASE CombineArguments
    <3>1. program # "xcwcp"
      BY DEF StartupInv
    <3> QED
      BY <2>1, <3>1, CombineKeepsInv
  <2>2. CASE UNCHANGED startupVars
    <3>1. UNCHANGED <<program, environment, arguments, argv, config, stage, generator>>
      BY <2>2 DEF startupVars
    <3>2. Given' = Given /\ \A o, d : LastWord(o, d)' = LastWord(o, d)
      BY <3>1 DEF Given, LastWord
    <3>3. \A n, o, d : WordUpTo(n, o, d)' = WordUpTo(n, o, d)
      BY <3>2 DEF WordUpTo
    <3>4. ASSUME NEW n PROVE /\ ValuesAre(n)' <=> ValuesAre(n)
                             /\ SystemIs(n)' <=> SystemIs(n)
                             /\ DeviceIs(n)' <=> DeviceIs(n)
      BY <3>1, <3>3 DEF ValuesAre, SystemIs, DeviceIs
    <3>5. ValuesAre(Len(Given))' = ValuesAre(Len(Given)) /\ DeviceIs(Len(Given))' = DeviceIs(Len(Given))
      BY <3>1, <3>2, <3>3 DEF ValuesAre, DeviceIs
    <3>6. ASSUME NEW n, OptionsAreRead(n) PROVE OptionsAreRead(n)'
      BY <3>1, <3>2, <3>4, <3>6 DEF OptionsAreRead
    <3>7. ConfigTypes' = ConfigTypes /\ SystemIsAllowed' = SystemIsAllowed
      BY <3>1, <3>2 DEF ConfigTypes, SystemIsAllowed, Allowed
    <3>8. GeneratorIsAsAsked' = GeneratorIsAsAsked
      BY <3>1, <3>2 DEF GeneratorIsAsAsked, Allowed
    <3> QED
      BY <3>1, <3>5, <3>6, <3>7, <3>8, Zenon DEF StartupInv
  <2> QED
    BY <2>1, <2>2, ProcessKeepsInv, ValidateKeepsInv, TryingKeepsInv, ApplyKeepsInv DEF StartupNext, Systems
<1>3. StartupInv => SettingsAreUsed /\ AcceptedIsApplied
  <2> SUFFICES ASSUME StartupInv PROVE SettingsAreUsed /\ AcceptedIsApplied
    OBVIOUS
  <2>1. AcceptedIsApplied
    BY SystemsAre DEF StartupInv, AcceptedIsApplied
  <2>2. ASSUME stage = "run"
        PROVE  /\ \A p \in Parameters : generator.values[p] = LastWord(p, InitialConfig.values[p])
               /\ generator.sound_system \in Allowed(LastWord("s", "none"))
               /\ LastWord("d", "default") # "default" => generator.sound_device = LastWord("d", "default")
    <3>1. Given \in Seq(Words)
      BY DEF StartupInv, Given
    <3> QED
      BY <2>2, <3>1, AllWordsCount DEF StartupInv, ValuesAre, GeneratorIsAsAsked
  <2>3. SettingsAreUsed
    BY <2>2 DEF SettingsAreUsed, Allowed
  <2> QED
    BY <2>1, <2>3
<1> QED
  BY <1>1, <1>2, <1>3, PTL DEF StartupSpec

-----------------------------------------------------------------------------
(* The groups of cwgen.  What is printed are all groups before the last one,  *)
(* as often as asked for, and the last one as often as it has been repeated.  *)

(* The characters that groups are made of.                                    *)
Drawable == DefaultCharset \cup UNION {o.value : o \in {x \in Options : x.option = "c"}}

Times(group, k) == FlattenSeq([i \in 1..k |-> group])
Before == FlattenSeq([i \in 1..Len(drawn) - 1 |-> Repeated(drawn[i])])

ConfigsOfGroups ==
    [n_groups : Int, group_size_min : Int, group_size_max : Int, n_repeats : Nat, n_chars_max : Nat,
     charset : SUBSET Drawable]

GroupsTypes ==
    /\ options \in Seq(Options) /\ cwgen_config \in ConfigsOfGroups
    /\ drawn \in Seq(Seq(Drawable)) /\ printed \in Seq(Seq(Drawable)) /\ repeat \in Nat
    /\ phase \in {"options", "aborted", "draw", "print", "exit"}

IsComplete ==
    IF LimitIsReached(AskedFor) THEN chars = SubSeq(AskedFor, 1, cwgen_config.n_chars_max)
    ELSE chars = AskedFor /\ Len(drawn) = cwgen_config.n_groups

GroupsInv ==
    /\ GroupsTypes
    /\ phase \in {"options", "aborted"} => drawn = <<>> /\ printed = <<>>
    /\ phase = "draw" => chars = AskedFor /\ ~LimitIsReached(chars)
    /\ phase = "print" =>
           /\ drawn # <<>> /\ repeat <= cwgen_config.n_repeats
           /\ chars = Before \o Times(Last(drawn), repeat) /\ ~LimitIsReached(chars)
    /\ phase = "exit" => drawn = <<>> \/ IsComplete

(* A group that is repeated: a sequence, one more each time.                  *)
LEMMA TimesIsSequence ==
    ASSUME NEW S, NEW g \in Seq(S), NEW k \in Nat
    PROVE  Times(g, k) \in Seq(S)
<1>1. [i \in 1..k |-> g] \in Seq(Seq(S))
  OBVIOUS
<1> QED
  BY <1>1, FlattenedIsSequence DEF Times

LEMMA NoTimes == ASSUME NEW g PROVE Times(g, 0) = <<>>
<1>1. [i \in 1..0 |-> g] = <<>>
  OBVIOUS
<1> QED
  BY <1>1, FlattenOfNothing DEF Times

LEMMA OnceMore ==
    ASSUME NEW S, NEW g \in Seq(S), NEW k \in Nat
    PROVE  Times(g, k + 1) = Times(g, k) \o g
<1>. DEFINE seqs == [i \in 1..k |-> g]
            more == [i \in 1..k + 1 |-> g]
<1>1. seqs \in Seq(Seq(S)) /\ Len(seqs) = k
  OBVIOUS
<1>2. more = Append(seqs, g)
  <2>1. Append(seqs, g) = [i \in 1..Len(seqs) + 1 |-> IF i = Len(seqs) + 1 THEN g ELSE seqs[i]]
    BY <1>1
  <2> QED
    BY <1>1, <2>1
<1>. HIDE DEF seqs, more
<1>3. FlattenSeq(Append(seqs, g)) = FlattenSeq(seqs) \o g
  BY <1>1, FlattenOfAppend
<1> QED
  BY <1>2, <1>3 DEF Times, seqs, more

(* A group that is repeated more often begins with the fewer repetitions.     *)
LEMMA FewerTimes ==
    ASSUME NEW S, NEW g \in Seq(S), NEW k \in Nat, NEW m \in Nat
    PROVE  \E rest \in Seq(S) : Times(g, k + m) = Times(g, k) \o rest
<1>. DEFINE T == {j \in 0..m : \E rest \in Seq(S) : Times(g, k + j) = Times(g, k) \o rest}
<1>0. Times(g, k) \in Seq(S)
  BY TimesIsSequence
<1>1. 0 \in T
  <2>1. <<>> \in Seq(S) /\ Times(g, k) \o <<>> = Times(g, k) /\ k + 0 = k
    BY <1>0
  <2>2. Times(g, k + 0) = Times(g, k) \o <<>>
    BY <2>1, Zenon
  <2>3. 0 \in 0..m
    OBVIOUS
  <2> QED
    BY <2>1, <2>2, <2>3, Zenon
<1>2. ASSUME NEW j \in 0..m - 1, j \in T PROVE j + 1 \in T
  <2>1. PICK rest \in Seq(S) : Times(g, k + j) = Times(g, k) \o rest
    BY <1>2
  <2>2. Times(g, k + (j + 1)) = Times(g, k + j) \o g
    <3>1. k + j \in Nat /\ k + (j + 1) = (k + j) + 1
      OBVIOUS
    <3> QED
      BY <3>1, OnceMore
  <2>3. (Times(g, k) \o rest) \o g = Times(g, k) \o (rest \o g) /\ rest \o g \in Seq(S)
    BY <1>0, <2>1, SMTT(30)
  <2>4. Times(g, k + (j + 1)) = Times(g, k) \o (rest \o g)
    BY <2>1, <2>2, <2>3, Zenon
  <2>5. j + 1 \in 0..m
    OBVIOUS
  <2> QED
    BY <2>3, <2>4, <2>5
<1>3. 0..m \subseteq T
  <2>. HIDE DEF T
  <2> QED
    BY <1>1, <1>2, InductionUpTo
<1>4. m \in 0..m
  OBVIOUS
<1> QED
  BY <1>3, <1>4

(* A cut in the middle of a part cuts the whole at the same place.            *)
LEMMA CutAtLimit ==
    ASSUME NEW S, NEW a \in Seq(S), NEW b \in Seq(S), NEW c \in Seq(S), NEW n \in Nat,
           Len(a) < n, n <= Len(a) + Len(b)
    PROVE  a \o SubSeq(b, 1, n - Len(a)) = SubSeq(a \o (b \o c), 1, n)
<1>. DEFINE cut == SubSeq(b, 1, n - Len(a))
            all == a \o (b \o c)
<1>1. cut \in Seq(S) /\ Len(cut) = n - Len(a) /\ \A i \in 1..n - Len(a) : cut[i] = b[i]
  OBVIOUS
<1>2. all \in Seq(S) /\ Len(all) = Len(a) + (Len(b) + Len(c))
  OBVIOUS
<1>3. /\ \A i \in 1..Len(a) : all[i] = a[i]
      /\ \A i \in 1..Len(b) : all[Len(a) + i] = b[i]
  <2>1. b \o c \in Seq(S) /\ Len(b \o c) = Len(b) + Len(c) /\ \A i \in 1..Len(b) : (b \o c)[i] = b[i]
    OBVIOUS
  <2>. DEFINE bc == b \o c
  <2>. HIDE DEF bc
  <2>2. /\ \A i \in 1..Len(a) : (a \o bc)[i] = a[i]
        /\ \A i \in 1..Len(bc) : (a \o bc)[Len(a) + i] = bc[i]
    BY <2>1 DEF bc
  <2> QED
    BY <2>1, <2>2 DEF bc
<1>. HIDE DEF cut, all
<1>4. /\ a \o cut \in Seq(S) /\ Len(a \o cut) = n
      /\ \A i \in 1..n : (a \o cut)[i] = IF i <= Len(a) THEN a[i] ELSE cut[i - Len(a)]
  BY <1>1
<1>5. SubSeq(all, 1, n) \in Seq(S) /\ Len(SubSeq(all, 1, n)) = n
      /\ \A i \in 1..n : SubSeq(all, 1, n)[i] = all[i]
  BY <1>2
<1>6. ASSUME NEW i \in 1..n PROVE (a \o cut)[i] = SubSeq(all, 1, n)[i]
  <2>1. CASE i <= Len(a)
    <3>1. i \in 1..Len(a)
      BY <2>1
    <3> QED
      BY <1>3, <1>4, <1>5, <2>1, <3>1
  <2>2. CASE i > Len(a)
    <3>1. i - Len(a) \in 1..n - Len(a) /\ i - Len(a) \in 1..Len(b) /\ Len(a) + (i - Len(a)) = i
      BY <2>2
    <3>2. all[Len(a) + (i - Len(a))] = b[i - Len(a)]
      BY <1>3, <3>1
    <3>3. all[i] = b[i - Len(a)]
      BY <3>1, <3>2
    <3>4. (a \o cut)[i] = cut[i - Len(a)]
      BY <1>4, <2>2
    <3> QED
      BY <1>1, <1>5, <3>1, <3>3, <3>4
  <2>3. i <= Len(a) \/ i > Len(a)
    OBVIOUS
  <2> QED
    BY <2>1, <2>2, <2>3, Zenon
<1>7. a \o cut = SubSeq(all, 1, n)
  BY <1>4, <1>5, <1>6
<1> QED
  BY <1>7 DEF cut, all

LEMMA InitGroupsInv == GroupsInit => GroupsInv
<1> SUFFICES ASSUME GroupsInit PROVE GroupsInv
  OBVIOUS
<1>1. options \in Seq(Options)
  <2>1. options \in BoundedSeq(Options, MaxOptions) /\ MaxOptions \in Nat
    BY GroupsAssumption DEF GroupsInit
  <2>2. PICK m \in 0..MaxOptions : options \in [1..m -> Options]
    BY <2>1 DEF BoundedSeq, SeqOf
  <2> QED
    BY <2>1, <2>2
<1>2. cwgen_config \in ConfigsOfGroups
  BY GroupsAssumption DEF GroupsInit, ConfigsOfGroups, NoCharset
<1>3. drawn = <<>> /\ printed = <<>> /\ repeat = 0 /\ phase = "options"
  BY DEF GroupsInit
<1> QED
  BY <1>1, <1>2, <1>3 DEF GroupsInv, GroupsTypes

(* Options leave nothing drawn.                                               *)
LEMMA ParseKeepsGroups == GroupsInv /\ ParseOption => GroupsInv'
<1> SUFFICES ASSUME GroupsInv, ParseOption PROVE GroupsInv'
  OBVIOUS
<1>. DEFINE option == Head(options).option
            value == Head(options).value
<1>1. /\ phase = "options" /\ options # <<>> /\ options' = Tail(options) /\ UNCHANGED <<drawn, repeat, printed>>
      /\ drawn = <<>> /\ printed = <<>> /\ options \in Seq(Options) /\ cwgen_config \in ConfigsOfGroups
  BY DEF ParseOption, GroupsInv, GroupsTypes
<1>2. Head(options) \in Options /\ options' \in Seq(Options)
  BY <1>1
<1>3. /\ option \in {"g", "r", "x"} => value \in Int
      /\ option = "n" => value[1] \in Int /\ value[2] \in Int
      /\ option = "c" => value \subseteq Drawable
  BY <1>2, GroupsAssumption DEF Drawable
<1>4. phase' \in {"options", "exit", "aborted"} /\ cwgen_config' \in ConfigsOfGroups
  <2>1. \/ phase' \in {"options", "exit", "aborted"} /\ UNCHANGED cwgen_config
        \/ phase' = "options" /\ option = "g" /\ cwgen_config' = [cwgen_config EXCEPT !.n_groups = value]
        \/ phase' = "options" /\ option = "n" /\ cwgen_config' = [cwgen_config EXCEPT !.group_size_min = value[1], !.group_size_max = value[2]]
        \/ phase' = "options" /\ option = "r" /\ value >= 0 /\ cwgen_config' = [cwgen_config EXCEPT !.n_repeats = value]
        \/ phase' = "options" /\ option = "x" /\ value >= 0 /\ cwgen_config' = [cwgen_config EXCEPT !.n_chars_max = value]
        \/ phase' = "options" /\ option = "c" /\ cwgen_config' = [cwgen_config EXCEPT !.charset = value]
    BY <1>1, Zenon DEF ParseOption, Accepted, Rejected
  <2>. HIDE DEF option, value
  <2>2. ASSUME NEW c \in ConfigsOfGroups
        PROVE  /\ \A v \in Int : [c EXCEPT !.n_groups = v] \in ConfigsOfGroups
               /\ \A v, w \in Int : [c EXCEPT !.group_size_min = v, !.group_size_max = w] \in ConfigsOfGroups
               /\ \A v \in Nat : [c EXCEPT !.n_repeats = v] \in ConfigsOfGroups
               /\ \A v \in Nat : [c EXCEPT !.n_chars_max = v] \in ConfigsOfGroups
               /\ \A v \in SUBSET Drawable : [c EXCEPT !.charset = v] \in ConfigsOfGroups
    BY DEF ConfigsOfGroups
  <2>3. value \in Int /\ value >= 0 => value \in Nat
    OBVIOUS
  <2>4. phase' \in {"options", "exit", "aborted"}
    BY <2>1
  <2>5. CASE UNCHANGED cwgen_config
    BY <1>1, <2>4, <2>5
  <2>6. CASE option = "g" /\ cwgen_config' = [cwgen_config EXCEPT !.n_groups = value]
    BY <1>1, <1>3, <2>2, <2>4, <2>6
  <2>7. CASE option = "n" /\ cwgen_config' = [cwgen_config EXCEPT !.group_size_min = value[1], !.group_size_max = value[2]]
    BY <1>1, <1>3, <2>2, <2>4, <2>7
  <2>8. CASE option = "r" /\ value >= 0 /\ cwgen_config' = [cwgen_config EXCEPT !.n_repeats = value]
    BY <1>1, <1>3, <2>2, <2>3, <2>4, <2>8
  <2>9. CASE option = "x" /\ value >= 0 /\ cwgen_config' = [cwgen_config EXCEPT !.n_chars_max = value]
    BY <1>1, <1>3, <2>2, <2>3, <2>4, <2>9
  <2>10. CASE option = "c" /\ cwgen_config' = [cwgen_config EXCEPT !.charset = value]
    BY <1>1, <1>3, <2>2, <2>4, <2>10
  <2> QED
    BY <2>1, <2>5, <2>6, <2>7, <2>8, <2>9, <2>10, Zenon
<1> QED
  BY <1>1, <1>2, <1>4 DEF GroupsInv, GroupsTypes

LEMMA ParsedKeepsGroups == GroupsInv /\ Parsed => GroupsInv'
<1> SUFFICES ASSUME GroupsInv, Parsed PROVE GroupsInv'
  OBVIOUS
<1>1. /\ phase = "options" /\ phase' = "draw" /\ UNCHANGED <<options, drawn, repeat, printed>>
      /\ drawn = <<>> /\ printed = <<>> /\ cwgen_config \in ConfigsOfGroups
  BY DEF Parsed, GroupsInv, GroupsTypes
<1>2. cwgen_config' \in ConfigsOfGroups
  <2>1. cwgen_config' = [cwgen_config EXCEPT !.charset = IF @ = NoCharset THEN DefaultCharset ELSE @]
    BY DEF Parsed
  <2> QED
    BY <1>1, <2>1 DEF ConfigsOfGroups, Drawable
<1>3. chars' = <<>> /\ AskedFor' = <<>>
  <2>1. drawn' = <<>> /\ printed' = <<>>
    BY <1>1
  <2>2. [i \in DOMAIN drawn' |-> Repeated(drawn[i])'] = <<>>
    BY <2>1
  <2> QED
    BY <2>1, <2>2, FlattenOfNothing DEF chars, AskedFor
<1>4. ~LimitIsReached(chars)'
  BY <1>2, <1>3 DEF LimitIsReached, ConfigsOfGroups
<1> QED
  BY <1>1, <1>2, <1>3, <1>4 DEF GroupsInv, GroupsTypes

(* All that was asked for is what was before the last group, and that one.    *)
LEMMA AskedForGroups ==
    ASSUME GroupsTypes, drawn # <<>>
    PROVE  AskedFor = Before \o Times(Last(drawn), cwgen_config.n_repeats + 1)
<1>. DEFINE n == Len(drawn)
            seqs == [i \in 1..n - 1 |-> Repeated(drawn[i])]
            all == [i \in DOMAIN drawn |-> Repeated(drawn[i])]
<1>1. /\ n \in Nat /\ n # 0 /\ DOMAIN drawn = 1..n /\ \A i \in 1..n : drawn[i] \in Seq(Drawable)
      /\ cwgen_config.n_repeats + 1 \in Nat /\ Last(drawn) = drawn[n]
  BY DEF GroupsTypes, ConfigsOfGroups, Last
<1>2. \A g : Repeated(g) = Times(g, cwgen_config.n_repeats + 1)
  BY DEF Repeated, Times
<1>3. \A i \in 1..n : Repeated(drawn[i]) \in Seq(Drawable)
  BY <1>1, <1>2, TimesIsSequence
<1>. HIDE DEF n
<1>4. seqs \in Seq(Seq(Drawable)) /\ Len(seqs) = n - 1
  BY <1>1, <1>3
<1>5. all = Append(seqs, Repeated(drawn[n]))
  <2>1. Append(seqs, Repeated(drawn[n])) =
            [i \in 1..Len(seqs) + 1 |-> IF i = Len(seqs) + 1 THEN Repeated(drawn[n]) ELSE seqs[i]]
    BY <1>1, <1>4
  <2>2. Len(seqs) + 1 = n
    BY <1>1, <1>4
  <2> QED
    BY <1>1, <2>1, <2>2
<1>. HIDE DEF seqs, all
<1>6. FlattenSeq(Append(seqs, Repeated(drawn[n]))) = FlattenSeq(seqs) \o Repeated(drawn[n])
  <2>1. n \in 1..n
    BY <1>1
  <2> QED
    BY <1>3, <1>4, <2>1, FlattenOfAppend
<1>7. AskedFor = FlattenSeq(all) /\ Before = FlattenSeq(seqs)
  BY DEF AskedFor, Before, all, seqs, n
<1> QED
  BY <1>1, <1>2, <1>5, <1>6, <1>7

LEMMA DrawKeepsGroups == GroupsInv /\ DrawGroup => GroupsInv'
<1> SUFFICES ASSUME GroupsInv, DrawGroup PROVE GroupsInv'
  OBVIOUS
<1>1. /\ phase = "draw" /\ UNCHANGED <<options, cwgen_config, printed>> /\ GroupsTypes
      /\ chars = AskedFor /\ ~LimitIsReached(chars)
  BY DEF DrawGroup, GroupsInv
<1>2. CASE Len(drawn) = cwgen_config.n_groups
  <2>1. phase' = "exit" /\ UNCHANGED <<drawn, repeat>>
    BY <1>2 DEF DrawGroup
  <2>2. IsComplete
    BY <1>1, <1>2 DEF IsComplete
  <2>3. IsComplete' = IsComplete
    BY <1>1, <2>1 DEF IsComplete, LimitIsReached, AskedFor, Repeated, chars
  <2> QED
    BY <1>1, <2>1, <2>2, <2>3 DEF GroupsInv, GroupsTypes
<1>3. CASE Len(drawn) # cwgen_config.n_groups
  <2>1. PICK size \in cwgen_config.group_size_min .. cwgen_config.group_size_max :
             \E group \in [1..size -> cwgen_config.charset] : drawn' = Append(drawn, group)
    BY <1>3 DEF DrawGroup
  <2>2. PICK group \in [1..size -> cwgen_config.charset] : drawn' = Append(drawn, group)
    BY <2>1
  <2>3. repeat' = 0 /\ phase' = "print"
    BY <1>3 DEF DrawGroup
  <2>4. cwgen_config \in ConfigsOfGroups /\ drawn \in Seq(Seq(Drawable))
    BY <1>1 DEF GroupsTypes
  <2>5. group \in Seq(Drawable)
    <3>1. size \in Int /\ cwgen_config.charset \subseteq Drawable
      BY <2>4 DEF ConfigsOfGroups
    <3>2. group \in [1..size -> Drawable]
      BY <2>2, <3>1
    <3>3. CASE size \in Nat
      BY <3>2, <3>3
    <3>4. CASE size \notin Nat
      <4>1. 1..size = 1..0
        BY <3>1, <3>4
      <4>2. group \in [1..0 -> Drawable]
        BY <3>2, <4>1
      <4> QED
        BY <4>2
    <3> QED
      BY <3>3, <3>4
  <2>6. /\ drawn' \in Seq(Seq(Drawable)) /\ Len(drawn') = Len(drawn) + 1 /\ drawn' # <<>>
        /\ \A i \in 1..Len(drawn) : drawn'[i] = drawn[i]
    BY <2>2, <2>4, <2>5
  <2>7. Before' = AskedFor
    <3>1. Len(drawn') - 1 = Len(drawn) /\ DOMAIN drawn = 1..Len(drawn)
      BY <2>4, <2>6
    <3>2. \A i \in 1..Len(drawn) : Repeated(drawn[i])' = Repeated(drawn[i])
      BY <1>1, <2>6 DEF Repeated
    <3>3. [i \in 1..Len(drawn') - 1 |-> Repeated(drawn[i])'] = [i \in DOMAIN drawn |-> Repeated(drawn[i])]
      BY <3>1, <3>2
    <3> QED
      BY <3>3 DEF Before, AskedFor
  <2>8. chars' = Before' \o Times(Last(drawn'), repeat')
    <3>1. Times(Last(drawn'), repeat') = <<>>
      BY <2>3, NoTimes
    <3>2. chars' = chars /\ chars \in Seq(Drawable)
      BY <1>1, FlattenedIsSequence DEF chars, GroupsTypes
    <3>3. chars \o <<>> = chars
      BY <3>2
    <3> QED
      BY <1>1, <2>7, <3>1, <3>2, <3>3
  <2>9. ~LimitIsReached(chars)'
    BY <1>1 DEF LimitIsReached, chars
  <2>10. (chars = Before \o Times(Last(drawn), repeat))'
    BY <2>8
  <2>11. GroupsTypes'
    BY <1>1, <2>3, <2>6 DEF GroupsTypes
  <2>12. (repeat <= cwgen_config.n_repeats)'
    BY <1>1, <2>3, <2>4 DEF ConfigsOfGroups
  <2> QED
    BY <2>3, <2>6, <2>9, <2>10, <2>11, <2>12 DEF GroupsInv
<1> QED
  BY <1>2, <1>3

(* A group is printed whole, or cut where all that was asked for is cut.      *)
LEMMA PrintKeepsGroups == GroupsInv /\ PrintGroup => GroupsInv'
<1> SUFFICES ASSUME GroupsInv, PrintGroup PROVE GroupsInv'
  OBVIOUS
<1>. DEFINE group == Last(drawn)
            limit == cwgen_config.n_chars_max
            repeats == cwgen_config.n_repeats
<1>1. /\ phase = "print" /\ UNCHANGED <<options, cwgen_config, drawn>>
      /\ GroupsTypes /\ drawn # <<>> /\ repeat <= repeats
      /\ chars = Before \o Times(group, repeat) /\ ~LimitIsReached(chars)
      /\ printed' = Append(printed, PutGroup(group))
  BY DEF PrintGroup, GroupsInv
<1>2. /\ cwgen_config \in ConfigsOfGroups /\ drawn \in Seq(Seq(Drawable))
      /\ printed \in Seq(Seq(Drawable)) /\ repeat \in Nat /\ limit \in Nat /\ repeats \in Nat
  BY <1>1 DEF GroupsTypes, ConfigsOfGroups
<1>3. group \in Seq(Drawable)
  BY <1>1, <1>2 DEF Last
<1>4. Before \in Seq(Drawable)
  <2>1. \A i \in 1..Len(drawn) - 1 : Repeated(drawn[i]) \in Seq(Drawable)
    <3>1. \A i \in 1..Len(drawn) - 1 : drawn[i] \in Seq(Drawable)
      BY <1>2
    <3>2. \A g : Repeated(g) = Times(g, repeats + 1)
      BY DEF Repeated, Times
    <3>3. repeats + 1 \in Nat
      BY <1>2
    <3>. HIDE DEF repeats
    <3>4. \A g \in Seq(Drawable) : Times(g, repeats + 1) \in Seq(Drawable)
      BY <3>3, TimesIsSequence
    <3> QED
      BY <3>1, <3>2, <3>4, Zenon
  <2>2. [i \in 1..Len(drawn) - 1 |-> Repeated(drawn[i])] \in Seq(Seq(Drawable))
    <3>1. Len(drawn) - 1 \in Nat
      BY <1>1, <1>2
    <3> QED
      BY <2>1, <3>1
  <2> QED
    BY <2>2, FlattenedIsSequence DEF Before
<1>5. chars \in Seq(Drawable)
  BY <1>2, FlattenedIsSequence DEF chars
<1>. HIDE DEF group, limit, repeats
<1>6. chars \o group = Before \o Times(group, repeat + 1)
  <2>1. Times(group, repeat + 1) = Times(group, repeat) \o group /\ Times(group, repeat) \in Seq(Drawable)
    BY <1>2, <1>3, OnceMore, TimesIsSequence
  <2>2. (Before \o Times(group, repeat)) \o group = Before \o (Times(group, repeat) \o group)
    BY <1>3, <1>4, <2>1
  <2> QED
    BY <1>1, <2>1, <2>2, Zenon
<1>7. PutGroup(group) \in Seq(Drawable)
  <2>1. CASE LimitIsReached(chars \o group)
    <3>1. limit <= Len(chars) + Len(group)
      BY <1>2, <1>3, <1>5, <2>1 DEF LimitIsReached, limit
    <3>2. PutGroup(group) = SubSeq(group, 1, limit - Len(chars))
      BY <2>1 DEF PutGroup, limit
    <3>3. limit - Len(chars) \in Int /\ limit - Len(chars) <= Len(group)
      BY <1>2, <1>3, <1>5, <3>1
    <3> QED
      BY <1>3, <3>2, <3>3
  <2>2. CASE ~LimitIsReached(chars \o group)
    BY <1>3, <2>2 DEF PutGroup
  <2> QED
    BY <2>1, <2>2
<1>8. LimitIsReached(chars \o PutGroup(group)) <=> LimitIsReached(chars \o group)
  <2>1. CASE LimitIsReached(chars \o group)
    <3>1. limit # 0 /\ Len(chars) < limit /\ limit <= Len(chars) + Len(group)
      BY <1>1, <1>2, <1>3, <1>5, <2>1 DEF LimitIsReached, limit
    <3>2. PutGroup(group) = SubSeq(group, 1, limit - Len(chars))
      BY <2>1 DEF PutGroup, limit
    <3>3. Len(PutGroup(group)) = limit - Len(chars)
      BY <1>2, <1>3, <1>5, <3>1, <3>2
    <3>4. Len(chars \o PutGroup(group)) = limit
      BY <1>2, <1>5, <1>7, <3>3
    <3> QED
      BY <1>2, <2>1, <3>1, <3>4 DEF LimitIsReached, limit
  <2>2. CASE ~LimitIsReached(chars \o group)
    <3>1. PutGroup(group) = group
      BY <2>2 DEF PutGroup
    <3> QED
      BY <3>1
  <2> QED
    BY <2>1, <2>2
<1>9. \/ LimitIsReached(chars \o group) /\ phase' = "exit" /\ UNCHANGED repeat
      \/ ~LimitIsReached(chars \o group) /\ repeat < repeats /\ repeat' = repeat + 1 /\ phase' = "print"
      \/ ~LimitIsReached(chars \o group) /\ ~(repeat < repeats) /\ repeat' = repeat + 1 /\ phase' = "draw"
  <2>1. \/ LimitIsReached(chars \o PutGroup(group)) /\ phase' = "exit" /\ UNCHANGED repeat
        \/ ~LimitIsReached(chars \o PutGroup(group)) /\ repeat < repeats /\ repeat' = repeat + 1 /\ phase' = phase
        \/ ~LimitIsReached(chars \o PutGroup(group)) /\ ~(repeat < repeats) /\ repeat' = repeat + 1 /\ phase' = "draw"
    BY Zenon DEF PrintGroup, Repeats, group, repeats
  <2>2. phase = "print"
    BY <1>1
  <2>3. CASE LimitIsReached(chars \o group)
    <3>1. LimitIsReached(chars \o PutGroup(group))
      BY <1>8, <2>3, Zenon
    <3>2. phase' = "exit" /\ repeat' = repeat
      BY <2>1, <3>1
    <3> QED
      BY <2>3, <3>2
  <2>4. CASE ~LimitIsReached(chars \o group)
    <3>1. ~LimitIsReached(chars \o PutGroup(group))
      BY <1>8, <2>4, Zenon
    <3>2. \/ repeat < repeats /\ repeat' = repeat + 1 /\ phase' = "print"
          \/ ~(repeat < repeats) /\ repeat' = repeat + 1 /\ phase' = "draw"
      BY <2>1, <2>2, <3>1
    <3> QED
      BY <2>4, <3>2
  <2> QED
    BY <2>3, <2>4
<1>10. chars' = chars \o PutGroup(group) /\ printed' \in Seq(Seq(Drawable))
  <2>1. FlattenSeq(Append(printed, PutGroup(group))) = FlattenSeq(printed) \o PutGroup(group)
    BY <1>2, <1>7, FlattenOfAppend
  <2>2. chars' = FlattenSeq(printed') /\ chars = FlattenSeq(printed)
    BY DEF chars
  <2>3. chars' = chars \o PutGroup(group)
    BY <1>1, <2>1, <2>2, Zenon
  <2>4. Append(printed, PutGroup(group)) \in Seq(Seq(Drawable))
    BY <1>2, <1>7
  <2> QED
    BY <1>1, <2>3, <2>4
<1>11. AskedFor = Before \o Times(group, repeats + 1)
  BY <1>1, AskedForGroups DEF group, repeats
<1>12. CASE LimitIsReached(chars \o group)
  <2>1. phase' = "exit" /\ UNCHANGED repeat
    BY <1>12, <1>9
  <2>2. PICK rest \in Seq(Drawable) : AskedFor = (chars \o group) \o rest
    <3>1. repeats - repeat \in Nat /\ repeats + 1 = (repeat + 1) + (repeats - repeat) /\ repeat + 1 \in Nat
      BY <1>1, <1>2
    <3>. DEFINE k == repeat + 1
                m == repeats - repeat
    <3>2. PICK rest \in Seq(Drawable) : Times(group, k + m) = Times(group, k) \o rest
      <4>1. k \in Nat /\ m \in Nat
        BY <3>1
      <4>. HIDE DEF k, m
      <4>2. \A g \in Seq(Drawable) : \A a, b \in Nat :
                 \E rest \in Seq(Drawable) : Times(g, a + b) = Times(g, a) \o rest
        <5> TAKE g \in Seq(Drawable)
        <5> TAKE a, b \in Nat
        <5>1. \E rest \in Seq(Drawable) : Times(g, a + b) = Times(g, a) \o rest
          BY FewerTimes, ZenonT(60)
        <5> QED
          BY <5>1
      <4> QED
        BY <1>3, <4>1, <4>2, Zenon
    <3>3. Times(group, repeats + 1) = Times(group, repeat + 1) \o rest
      BY <3>1, <3>2
    <3>4. Before \o (Times(group, repeat + 1) \o rest) = (Before \o Times(group, repeat + 1)) \o rest
      <4>1. Times(group, k) \in Seq(Drawable)
        <5>1. k \in Nat
          BY <3>1
        <5>. HIDE DEF k
        <5> QED
          BY <1>3, <5>1, TimesIsSequence
      <4>. DEFINE t == Times(group, k)
      <4>. HIDE DEF t, k
      <4>2. Before \o (t \o rest) = (Before \o t) \o rest
        BY <1>4, <3>2, <4>1 DEF t
      <4> QED
        BY <4>2 DEF t, k
    <3>5. AskedFor = (chars \o group) \o rest
      BY <1>6, <1>11, <3>3, <3>4, Zenon
    <3> QED
      BY <3>5
  <2>3. /\ limit # 0 /\ Len(chars) < limit /\ limit <= Len(chars) + Len(group)
        /\ PutGroup(group) = SubSeq(group, 1, limit - Len(chars))
    <3>1. limit # 0 /\ limit <= Len(chars \o group) /\ Len(chars \o group) = Len(chars) + Len(group)
      BY <1>2, <1>3, <1>5, <1>12 DEF LimitIsReached, limit
    <3>2. Len(chars) < limit
      BY <1>1, <1>2, <1>5, <3>1 DEF LimitIsReached, limit
    <3>3. PutGroup(group) = SubSeq(group, 1, limit - Len(chars))
      BY <1>12, Zenon DEF PutGroup, limit
    <3> QED
      BY <3>1, <3>2, <3>3
  <2>4. (chars \o group) \o rest = chars \o (group \o rest)
    BY <1>3, <1>5
  <2>5. chars' = SubSeq(AskedFor, 1, limit)
    <3>1. chars \o SubSeq(group, 1, limit - Len(chars)) = SubSeq(chars \o (group \o rest), 1, limit)
      BY <1>2, <1>3, <1>5, <2>3, CutAtLimit, SMTT(30)
    <3> QED
      BY <1>10, <2>2, <2>3, <2>4, <3>1, Zenon
  <2>6. LimitIsReached(AskedFor)
    <3>1. Len(AskedFor) = (Len(chars) + Len(group)) + Len(rest)
      BY <1>3, <1>5, <2>2
    <3>2. Len(chars) \in Nat /\ Len(group) \in Nat /\ Len(rest) \in Nat
      BY <1>3, <1>5
    <3>3. Len(AskedFor) >= limit
      BY <1>2, <2>3, <3>1, <3>2
    <3> QED
      BY <2>3, <3>3 DEF LimitIsReached, limit
  <2>7. AskedFor' = AskedFor /\ limit' = limit
    BY <1>1 DEF AskedFor, Repeated, limit
  <2>8. LimitIsReached(AskedFor)'
    BY <1>1, <2>6, <2>7 DEF LimitIsReached
  <2>9. IsComplete'
    BY <1>1, <2>5, <2>7, <2>8 DEF IsComplete, limit
  <2>10. GroupsTypes'
    BY <1>1, <1>2, <1>10, <2>1 DEF GroupsTypes
  <2> QED
    BY <2>1, <2>9, <2>10 DEF GroupsInv
<1>13. CASE ~LimitIsReached(chars \o group)
  <2>1. chars' = Before \o Times(group, repeat + 1)
    BY <1>6, <1>10, <1>13 DEF PutGroup
  <2>2. ~LimitIsReached(chars)'
    <3>1. chars' = chars \o group
      BY <1>6, <2>1
    <3> QED
      BY <1>1, <1>13, <3>1 DEF LimitIsReached
  <2>3. Before' = Before /\ AskedFor' = AskedFor /\ group' = group /\ repeats' = repeats
    BY <1>1 DEF Before, AskedFor, Repeated, group, repeats
  <2>4. repeat' = repeat + 1
    BY <1>13, <1>9
  <2>5. GroupsTypes' /\ phase' \in {"print", "draw"}
    BY <1>1, <1>2, <1>10, <1>13, <1>9, <2>4 DEF GroupsTypes
  <2>6. CASE phase' = "print"
    <3>1. repeat < repeats
      BY <1>9, <2>6
    <3>2. repeat' <= repeats'
      BY <1>2, <2>3, <2>4, <3>1
    <3>3. (chars = Before \o Times(group, repeat))'
      BY <2>1, <2>3, <2>4
    <3> QED
      BY <1>1, <2>2, <2>5, <2>6, <3>2, <3>3 DEF GroupsInv, group, repeats
  <2>7. CASE phase' = "draw"
    <3>1. ~(repeat < repeats)
      BY <1>9, <2>7
    <3>2. repeat = repeats
      BY <1>1, <1>2, <3>1
    <3>3. chars' = AskedFor'
      BY <1>11, <2>1, <2>3, <3>2
    <3> QED
      BY <2>2, <2>5, <2>7, <3>3 DEF GroupsInv
  <2> QED
    BY <2>5, <2>6, <2>7
<1> QED
  BY <1>12, <1>13

(* Groups are printed as they were asked for.                                 *)
LEMMA GroupsAlwaysAsAsked == GroupsSpec => []GroupsAreAsAsked
<1>1. GroupsInv /\ [GroupsNext]_groupsVars => GroupsInv'
  <2> SUFFICES ASSUME GroupsInv, [GroupsNext]_groupsVars PROVE GroupsInv'
    OBVIOUS
  <2>1. CASE UNCHANGED groupsVars
    <3>1. UNCHANGED <<options, cwgen_config, phase, drawn, repeat, printed>>
      BY <2>1 DEF groupsVars
    <3>2. /\ chars' = chars /\ AskedFor' = AskedFor /\ Before' = Before
          /\ LimitIsReached(chars)' = LimitIsReached(chars) /\ GroupsTypes' = GroupsTypes
      BY <3>1 DEF chars, AskedFor, Before, Repeated, LimitIsReached, GroupsTypes
    <3>3. IsComplete' = IsComplete
      BY <3>1, <3>2 DEF IsComplete, LimitIsReached
    <3> QED
      BY <3>1, <3>2, <3>3 DEF GroupsInv
  <2> QED
    BY <2>1, ParseKeepsGroups, ParsedKeepsGroups, DrawKeepsGroups, PrintKeepsGroups DEF GroupsNext
<1>2. GroupsInv => GroupsAreAsAsked
  BY DEF GroupsInv, GroupsAreAsAsked, IsComplete
<1> QED
  BY <1>1, <1>2, InitGroupsInv, PTL DEF GroupsSpec

-----------------------------------------------------------------------------
(* The elements of sound and text.  A file is told run by run: as long as all *)
(* its runs so far are at least as long as the memory, all but the last of    *)
(* them have been told, and the last one as soon as it fills the memory; and  *)
(* what is made of a text is made of its marks, each with the space after it. *)

(* Parts of one state, and samples of which they consist.                     *)
Run == [state : {"space", "mark"}, timespan : Int]
Sample == {0, 1}

LongerRuns == [x \in Seq(Run) \X Sample |-> Longer(x[1], x[2])]

(* A sample makes the last run longer, or begins one of its own.              *)
LEMMA LongerIs ==
    ASSUME NEW runs \in Seq(Run), NEW sample \in Sample
    PROVE  /\ Longer(runs, sample) \in Seq(Run)
           /\ \/ /\ runs = << >> \/ runs[Len(runs)].state # StateOf(sample)
                 /\ Longer(runs, sample) = Append(runs, [state |-> StateOf(sample), timespan |-> 1])
              \/ /\ runs # << >> /\ runs[Len(runs)].state = StateOf(sample)
                 /\ Len(Longer(runs, sample)) = Len(runs)
                 /\ \A i \in 1..Len(runs) - 1 : Longer(runs, sample)[i] = runs[i]
                 /\ Longer(runs, sample)[Len(runs)] =
                        [state |-> StateOf(sample), timespan |-> runs[Len(runs)].timespan + 1]
<1>. DEFINE n == Len(runs)
            new == [state |-> StateOf(sample), timespan |-> 1]
            old == [state |-> StateOf(sample), timespan |-> runs[n].timespan + 1]
<1>1. StateOf(sample) \in {"space", "mark"} /\ new \in Run
  BY DEF StateOf, Run
<1>2. CASE runs = << >> \/ runs[n].state # StateOf(sample)
  <2>1. Longer(runs, sample) = Append(runs, new)
    BY <1>2 DEF Longer, Last
  <2>2. Append(runs, new) \in Seq(Run)
    BY <1>1
  <2>. QED
    BY <1>2, <2>1, <2>2
<1>3. CASE runs # << >> /\ runs[n].state = StateOf(sample)
  <2>1. Longer(runs, sample) = [runs EXCEPT ![n].timespan = runs[n].timespan + 1]
    BY <1>3, Zenon DEF Longer, Last
  <2>2. n \in 1..n /\ n \in Nat /\ runs[n] \in Run /\ DOMAIN runs = 1..n
    BY <1>3
  <2>3. [runs[n] EXCEPT !.timespan = runs[n].timespan + 1] = old /\ old \in Run
    BY <1>1, <1>3, <2>2 DEF Run
  <2>4. Longer(runs, sample) = [runs EXCEPT ![n] = [runs[n] EXCEPT !.timespan = runs[n].timespan + 1]]
    BY <2>1
  <2>5. Longer(runs, sample) = [runs EXCEPT ![n] = old]
    BY <2>3, <2>4
  <2>. HIDE DEF old
  <2>6. [runs EXCEPT ![n] = old] \in Seq(Run) /\ Len([runs EXCEPT ![n] = old]) = n
    BY <2>2, <2>3
  <2>7. [runs EXCEPT ![n] = old][n] = old /\ \A i \in 1..n - 1 : [runs EXCEPT ![n] = old][i] = runs[i]
    <3>. HIDE DEF n
    <3>1. \A i \in 1..n - 1 : i \in DOMAIN runs /\ i # n
      BY <2>2
    <3>2. n \in DOMAIN runs
      BY <2>2
    <3>. QED
      BY <3>1, <3>2
  <2>8. Longer(runs, sample)[n] = old
    BY <2>5, <2>7
  <2>. QED
    BY <1>3, <2>5, <2>6, <2>7, <2>8 DEF old
<1>. QED
  BY <1>2, <1>3

\* The function that Runs chooses, and the fold that it makes.
IsRuns(f, wave) ==
    f = [s \in SUBSET (DOMAIN wave) |-> IF s = {} THEN << >> ELSE Longer(f[s \ {Max(s)}], wave[Max(s)])]

LEMMA RunsIsChosen ==
    ASSUME NEW wave
    PROVE  Runs(wave) = (CHOOSE f : IsRuns(f, wave))[DOMAIN wave]
  BY DEF Runs, FoldLeft, MapThenFoldSet, IsRuns

LEMMA LongerStays ==
    /\ StaysIn(LongerRuns, Seq(Run), Sample)
    /\ \A runs \in Seq(Run) : \A sample \in Sample : LongerRuns[<<runs, sample>>] = Longer(runs, sample)
<1>1. ASSUME NEW runs \in Seq(Run), NEW sample \in Sample
      PROVE  LongerRuns[<<runs, sample>>] = Longer(runs, sample) /\ Longer(runs, sample) \in Seq(Run)
  <2>1. Longer(runs, sample) \in Seq(Run)
    BY LongerIs
  <2>2. <<runs, sample>> \in Seq(Run) \X Sample
    OBVIOUS
  <2>. QED
    BY <2>1, <2>2 DEF LongerRuns
<1>. QED
  BY <1>1 DEF StaysIn

(* The runs of a file are a fold, which grows with the file.                  *)
LEMMA RunsIsFold ==
    ASSUME NEW wave \in Seq(Sample)
    PROVE  Runs(wave) = FoldOf(LongerRuns, << >>, wave)
<1>. DEFINE n == Len(wave)
            g == Chosen(LongerRuns, << >>, wave)
            f == CHOOSE h : IsRuns(h, wave)
<1>1. n \in Nat /\ DOMAIN wave = 1..n /\ \A k \in 1..n : wave[k] \in Sample
  OBVIOUS
<1>2. << >> \in Seq(Run)
  OBVIOUS
<1>3. IsFoldOf(g, LongerRuns, << >>, wave)
  BY ChosenIsFold
<1>4. ChoiceFolds(g, LongerRuns, Seq(Run), << >>, wave)
  BY <1>2, LongerStays, ChosenFolds
<1>. HIDE DEF g, f, n
<1>5. ASSUME NEW s \in SUBSET (1..n), s # {}
      PROVE  LongerRuns[<<g[s \ {Max(s)}], wave[Max(s)]>>] = Longer(g[s \ {Max(s)}], wave[Max(s)])
  <2>. DEFINE m == Max(s)
  <2>1. m \in 1..n
    BY <1>1, <1>5, MaxIsMember
  <2>. HIDE DEF m
  <2>2. wave[m] \in Sample
    BY <1>1, <2>1
  <2>3. s \ {m} \in SUBSET (1..n)
    OBVIOUS
  <2>4. g[s \ {m}] \in Seq(Run)
    BY <1>4, <2>3 DEF ChoiceFolds, n
  <2>5. LongerRuns[<<g[s \ {m}], wave[m]>>] = Longer(g[s \ {m}], wave[m])
    BY <2>2, <2>4, LongerStays
  <2>. QED
    BY <2>5 DEF m
<1>6. IsRuns(g, wave)
  <2>1. g = [s \in SUBSET (1..n) |->
               IF s = {} THEN << >> ELSE LongerRuns[<<g[s \ {Max(s)}], wave[Max(s)]>>]]
    BY <1>1, <1>3 DEF IsFoldOf
  <2>2. [s \in SUBSET (1..n) |-> IF s = {} THEN << >> ELSE LongerRuns[<<g[s \ {Max(s)}], wave[Max(s)]>>]]
      = [s \in SUBSET (1..n) |-> IF s = {} THEN << >> ELSE Longer(g[s \ {Max(s)}], wave[Max(s)])]
    BY <1>5
  <2>. QED
    BY <1>1, <2>1, <2>2, Zenon DEF IsRuns
<1>7. IsRuns(f, wave)
  BY <1>6, Zenon DEF f
<1>8. \A s \in SUBSET (1..n) : f[s] = IF s = {} THEN << >> ELSE Longer(f[s \ {Max(s)}], wave[Max(s)])
  <2>. DEFINE h == [s \in SUBSET (1..n) |-> IF s = {} THEN << >> ELSE Longer(f[s \ {Max(s)}], wave[Max(s)])]
  <2>1. f = h
    BY <1>1, <1>7, Zenon DEF IsRuns
  <2>2. \A s \in SUBSET (1..n) : h[s] = IF s = {} THEN << >> ELSE Longer(f[s \ {Max(s)}], wave[Max(s)])
    OBVIOUS
  <2>. HIDE DEF h
  <2>. QED
    BY <2>1, <2>2, Zenon
<1>9. f[{}] = << >>
  <2>1. {} \in SUBSET (1..n)
    OBVIOUS
  <2>. QED
    BY <1>8, <2>1
<1>10. ASSUME NEW k \in 1..n, NEW s \in SUBSET (1..k), k \in s, f[s \ {k}] \in Seq(Run)
       PROVE  f[s] = LongerRuns[<<f[s \ {k}], wave[k]>>]
  <2>1. Max(s) = k
    <3>1. k - 1 \in Nat /\ (k - 1) + 1 = k
      BY <1>1
    <3>. QED
      BY <1>10, <3>1, MaxIsLast
  <2>2. s \in SUBSET (1..n) /\ s # {}
    <3>1. \A x \in 1..k : x \in 1..n
      BY <1>1
    <3>. QED
      BY <1>10, <3>1
  <2>3. f[s] = Longer(f[s \ {k}], wave[k])
    BY <1>8, <2>1, <2>2
  <2>4. wave[k] \in Sample
    BY <1>1
  <2>. QED
    BY <1>10, <2>3, <2>4, LongerStays
<1>11. f[1..Len(wave)] = FoldOf(LongerRuns, << >>, wave)
  <2>1. AlsoFolds(f, LongerRuns, Seq(Run), << >>, wave)
    BY <1>9, <1>10 DEF AlsoFolds, n
  <2>. DEFINE none == << >>
  <2>2. none \in Seq(Run) /\ AlsoFolds(f, LongerRuns, Seq(Run), none, wave)
    BY <1>2, <2>1
  <2>. HIDE DEF none
  <2>3. f[1..Len(wave)] = FoldOf(LongerRuns, none, wave)
    BY <2>2, LongerStays, SameFold
  <2>. QED
    BY <2>3 DEF none
<1>12. Runs(wave) = f[DOMAIN wave]
  BY RunsIsChosen DEF f
<1>. QED
  BY <1>1, <1>11, <1>12 DEF n

LEMMA RunsGrow ==
    /\ Runs(<< >>) = << >>
    /\ \A wave \in Seq(Sample) : Runs(wave) \in Seq(Run)
    /\ \A wave \in Seq(Sample) : \A sample \in Sample :
          Runs(Append(wave, sample)) = Longer(Runs(wave), sample)
<1>1. << >> \in Seq(Run) /\ << >> \in Seq(Sample)
  OBVIOUS
<1>2. StaysIn(LongerRuns, Seq(Run), Sample)
  BY LongerStays
<1>3. Runs(<< >>) = << >>
  <2>1. FoldOf(LongerRuns, << >>, << >>) = << >>
    BY <1>1, <1>2, FoldOfNothing
  <2>. QED
    BY <1>1, <2>1, RunsIsFold
<1>4. ASSUME NEW wave \in Seq(Sample) PROVE Runs(wave) \in Seq(Run)
  <2>1. FoldOf(LongerRuns, << >>, wave) \in Seq(Run)
    BY <1>1, <1>2, FoldInRange
  <2>. QED
    BY <2>1, RunsIsFold
<1>5. ASSUME NEW wave \in Seq(Sample), NEW sample \in Sample
      PROVE  Runs(Append(wave, sample)) = Longer(Runs(wave), sample)
  <2>. DEFINE more == Append(wave, sample)
              none == << >>
  <2>1. more \in Seq(Sample)
    OBVIOUS
  <2>2. FoldOf(LongerRuns, << >>, more) = LongerRuns[<<FoldOf(LongerRuns, << >>, wave), sample>>]
    <3>1. none \in Seq(Run)
      BY <1>1
    <3>. HIDE DEF none
    <3>2. FoldOf(LongerRuns, none, Append(wave, sample)) = LongerRuns[<<FoldOf(LongerRuns, none, wave), sample>>]
      BY <1>2, <3>1, FoldOfAppend
    <3>. QED
      BY <3>2 DEF none
  <2>. HIDE DEF more
  <2>3. Runs(more) = FoldOf(LongerRuns, << >>, more) /\ Runs(wave) = FoldOf(LongerRuns, << >>, wave)
    BY <2>1, RunsIsFold
  <2>4. LongerRuns[<<Runs(wave), sample>>] = Longer(Runs(wave), sample)
    BY <1>4, LongerStays
  <2>5. Runs(more) = Longer(Runs(wave), sample)
    BY <2>2, <2>3, <2>4, Zenon
  <2>. QED
    BY <2>5 DEF more
<1>. QED
  BY <1>3, <1>4, <1>5

LEMMA MemoryIsSome == MemorySize \in Nat /\ MemorySize >= 1
<1>1. MemorySize \in Nat \ {0}
  BY ElementsAssumption, Zenon
<1>. QED
  BY <1>1

AllOf(wave, from, to, state) == \A i \in from..to : StateOf(wave[i]) = state

(* What is detected is the state that all of the memory has.                  *)
LEMMA DetectedMeans ==
    ASSUME NEW wave \in Seq(Sample), NEW s
    PROVE  s \in Detected(wave) <=>
               /\ s \in {"space", "mark"} /\ Len(wave) >= MemorySize
               /\ AllOf(wave, Len(wave) - MemorySize + 1, Len(wave), s)
<1>. DEFINE n == Len(wave)
            memory == SubSeq(wave, n - MemorySize + 1, n)
<1>1. n \in Nat /\ MemorySize \in Nat /\ MemorySize >= 1 /\ \A i \in 1..n : wave[i] \in {0, 1}
  BY MemoryIsSome DEF Sample
<1>2. CASE n < MemorySize
  BY <1>1, <1>2 DEF Detected
<1>3. CASE n >= MemorySize
  <2>1. /\ DOMAIN memory = 1..MemorySize
        /\ \A i \in 1..MemorySize : memory[i] = wave[n - MemorySize + i] /\ wave[n - MemorySize + i] \in {0, 1}
    <3>1. n - MemorySize + 1 \in 1..n /\ (n - MemorySize + 1) - 1 = n - MemorySize
      BY <1>1, <1>3
    <3>2. Len(memory) = MemorySize /\ DOMAIN memory = 1..MemorySize
      BY <1>1, <3>1
    <3>3. \A i \in 1..MemorySize : memory[i] = wave[(n - MemorySize + 1) + i - 1]
      BY <1>1, <3>1, <3>2
    <3>4. \A i \in 1..MemorySize : (n - MemorySize + 1) + i - 1 = n - MemorySize + i /\ n - MemorySize + i \in 1..n
      BY <1>1, <1>3
    <3>. QED
      BY <1>1, <3>2, <3>3, <3>4
  <2>2. s \in Detected(wave) <=>
            s \in {"space", "mark"} /\ \A i \in DOMAIN memory : memory[i] = IF s = "space" THEN 0 ELSE 1
    BY <1>1, <1>3 DEF Detected
  <2>. HIDE DEF memory, n
  <2>3. ASSUME s \in {"space", "mark"}
        PROVE  (\A i \in DOMAIN memory : memory[i] = IF s = "space" THEN 0 ELSE 1)
               <=> \A i \in 1..MemorySize : StateOf(wave[n - MemorySize + i]) = s
    BY <2>1, <2>3 DEF StateOf
  <2>4. (\A i \in 1..MemorySize : StateOf(wave[n - MemorySize + i]) = s)
            <=> AllOf(wave, n - MemorySize + 1, n, s)
    <3>1. ASSUME \A i \in 1..MemorySize : StateOf(wave[n - MemorySize + i]) = s, NEW j \in n - MemorySize + 1..n
          PROVE  StateOf(wave[j]) = s
      <4>1. j - (n - MemorySize) \in 1..MemorySize /\ n - MemorySize + (j - (n - MemorySize)) = j
        BY <1>1, <1>3
      <4>2. StateOf(wave[n - MemorySize + (j - (n - MemorySize))]) = s
        BY <3>1, <4>1
      <4>. QED
        BY <4>1, <4>2
    <3>2. ASSUME AllOf(wave, n - MemorySize + 1, n, s), NEW i \in 1..MemorySize
          PROVE  StateOf(wave[n - MemorySize + i]) = s
      <4>1. n - MemorySize + i \in n - MemorySize + 1..n
        BY <1>1, <1>3
      <4>. QED
        BY <3>2, <4>1 DEF AllOf
    <3>. QED
      BY <3>1, <3>2 DEF AllOf
  <2>. QED
    BY <1>3, <2>2, <2>3, <2>4 DEF n
<1>. QED
  BY <1>1, <1>2, <1>3

\* The runs of a file are maximal: the last one began after another state.
IsMaximal(wave, runs) ==
    /\ runs = << >> <=> wave = << >>
    /\ runs # << >> =>
          /\ runs[Len(runs)].timespan \in 1..Len(wave)
          /\ AllOf(wave, Len(wave) - runs[Len(runs)].timespan + 1, Len(wave), runs[Len(runs)].state)
          /\ runs[Len(runs)].timespan < Len(wave) =>
                StateOf(wave[Len(wave) - runs[Len(runs)].timespan]) # runs[Len(runs)].state
    /\ \A i \in 1..Len(runs) - 1 : runs[i].state # runs[i + 1].state

(* Runs are as long as they can be: each differs from the one before it.      *)
LEMMA MaximalGrows ==
    ASSUME NEW wave \in Seq(Sample), NEW runs \in Seq(Run), IsMaximal(wave, runs), NEW sample \in Sample
    PROVE  IsMaximal(Append(wave, sample), Longer(runs, sample))
<1>. DEFINE n == Len(wave)
            r == Len(runs)
            more == Append(wave, sample)
            longer == Longer(runs, sample)
<1>1. /\ n \in Nat /\ r \in Nat /\ Len(more) = n + 1 /\ more # << >>
      /\ more[n + 1] = sample /\ \A i \in 1..n : more[i] = wave[i]
  OBVIOUS
<1>2. \A i \in 1..r : runs[i] \in Run
  OBVIOUS
<1>3. /\ n = 0 <=> wave = << >>
      /\ r = 0 <=> runs = << >>
  OBVIOUS
<1>. HIDE DEF more
<1>4. CASE runs = << >> \/ runs[r].state # StateOf(sample)
  <2>1. longer = Append(runs, [state |-> StateOf(sample), timespan |-> 1])
    BY <1>4, LongerIs
  <2>2. /\ Len(longer) = r + 1 /\ longer # << >> /\ \A i \in 1..r : longer[i] = runs[i]
        /\ longer[r + 1].state = StateOf(sample) /\ longer[r + 1].timespan = 1
    BY <1>1, <2>1
  <2>. HIDE DEF longer, n, r
  <2>3. AllOf(more, n + 1, n + 1, StateOf(sample))
    BY <1>1 DEF AllOf
  <2>4. 1 < n + 1 => StateOf(more[n]) # StateOf(sample)
    <3>1. SUFFICES ASSUME n >= 1 PROVE StateOf(more[n]) # StateOf(sample)
      BY <1>1
    <3>2. runs # << >>
      BY <1>1, <1>3, <3>1 DEF IsMaximal
    <3>3. runs[r].timespan \in 1..n /\ AllOf(wave, n - runs[r].timespan + 1, n, runs[r].state)
      BY <3>2 DEF IsMaximal, n, r
    <3>4. n \in n - runs[r].timespan + 1..n
      BY <1>1, <3>1, <3>3
    <3>5. StateOf(wave[n]) = runs[r].state
      BY <3>3, <3>4 DEF AllOf
    <3>6. more[n] = wave[n]
      BY <1>1, <3>1
    <3>. QED
      BY <1>4, <3>2, <3>5, <3>6
  <2>5. ASSUME NEW i \in 1..r PROVE longer[i].state # longer[i + 1].state
    <3>1. CASE i = r
      <4>1. runs # << >>
        BY <1>1, <1>3, <3>1
      <4>. QED
        BY <1>4, <2>2, <3>1, <4>1
    <3>2. CASE i # r
      <4>1. i \in 1..r - 1 /\ i + 1 \in 1..r
        BY <1>1, <3>2
      <4>2. runs[i].state # runs[i + 1].state
        BY <4>1 DEF IsMaximal, r
      <4>. QED
        BY <2>2, <4>1, <4>2
    <3>. QED
      BY <3>1, <3>2
  <2>6. (n + 1) - 1 + 1 = n + 1 /\ (n + 1) - 1 = n /\ 1 \in 1..n + 1 /\ (r + 1) - 1 = r
    BY <1>1
  <2>7. IsMaximal(more, longer)
    BY <1>1, <2>2, <2>3, <2>4, <2>5, <2>6 DEF IsMaximal
  <2>. QED
    BY <2>7 DEF more, longer
<1>5. CASE runs # << >> /\ runs[r].state = StateOf(sample)
  <2>1. /\ Len(longer) = r /\ \A i \in 1..r - 1 : longer[i] = runs[i]
        /\ longer[r] = [state |-> StateOf(sample), timespan |-> runs[r].timespan + 1]
    BY <1>5, LongerIs
  <2>. DEFINE l == runs[r].timespan
  <2>2. /\ l \in 1..n /\ AllOf(wave, n - l + 1, n, runs[r].state)
        /\ l < n => StateOf(wave[n - l]) # runs[r].state
    BY <1>5 DEF IsMaximal
  <2>3. /\ Len(longer) = r /\ longer # << >> /\ longer[r].state = StateOf(sample) /\ longer[r].timespan = l + 1
    <3>1. r # 0
      BY <1>3, <1>5
    <3>2. longer \in Seq(Run)
      BY LongerIs
    <3>. HIDE DEF longer, l
    <3>3. longer # << >>
      BY <2>1, <3>1, <3>2
    <3>. QED
      BY <2>1, <3>3 DEF l
  <2>4. \A i \in 1..r - 1 : runs[i].state # runs[i + 1].state
    BY DEF IsMaximal
  <2>. HIDE DEF longer, n, r, l
  <2>5. (n + 1) - (l + 1) = n - l /\ n - l + 1 \in Int /\ l + 1 \in 1..n + 1
    BY <1>1, <2>2
  <2>6. AllOf(more, n - l + 1, n + 1, StateOf(sample))
    <3>1. ASSUME NEW i \in n - l + 1..n + 1 PROVE StateOf(more[i]) = StateOf(sample)
      <4>1. CASE i = n + 1
        BY <1>1, <4>1
      <4>2. CASE i # n + 1
        <5>1. i \in n - l + 1..n /\ i \in 1..n
          BY <1>1, <2>2, <4>2
        <5>. QED
          BY <1>1, <1>5, <2>2, <5>1 DEF AllOf
      <4>. QED
        BY <4>1, <4>2
    <3>. QED
      BY <3>1 DEF AllOf
  <2>7. l + 1 < n + 1 => StateOf(more[n - l]) # StateOf(sample)
    <3>1. l < n => n - l \in 1..n
      BY <1>1, <2>2
    <3>. QED
      BY <1>1, <1>5, <2>2, <3>1
  <2>8. ASSUME NEW i \in 1..r - 1 PROVE longer[i].state # longer[i + 1].state
    <3>1. CASE i + 1 = r
      BY <1>5, <2>1, <2>3, <2>4, <3>1
    <3>2. CASE i + 1 # r
      <4>1. i + 1 \in 1..r - 1
        BY <1>1, <3>2
      <4>. QED
        BY <2>1, <2>4, <4>1
    <3>. QED
      BY <3>1, <3>2
  <2>9. IsMaximal(more, longer)
    BY <1>1, <2>3, <2>5, <2>6, <2>7, <2>8 DEF IsMaximal
  <2>. QED
    BY <2>9 DEF more, longer
<1>. QED
  BY <1>4, <1>5

\* A state is detected when the last run is as long as the memory.
(* Of a file in clean runs, the last run decides what is detected.            *)
LEMMA DetectedInRun ==
    ASSUME NEW wave \in Seq(Sample), NEW runs \in Seq(Run), IsMaximal(wave, runs), runs # << >>
    PROVE  Detected(wave) = IF runs[Len(runs)].timespan >= MemorySize THEN {runs[Len(runs)].state} ELSE {}
<1>. DEFINE n == Len(wave)
            l == runs[Len(runs)].timespan
            state == runs[Len(runs)].state
<1>1. /\ l \in 1..n /\ AllOf(wave, n - l + 1, n, state)
      /\ l < n => StateOf(wave[n - l]) # state
  BY DEF IsMaximal
<1>2. n \in Nat /\ MemorySize \in Nat /\ MemorySize >= 1
  BY MemoryIsSome
<1>3. \A s : s \in Detected(wave) <=>
          s \in {"space", "mark"} /\ n >= MemorySize /\ AllOf(wave, n - MemorySize + 1, n, s)
  BY DetectedMeans
<1>. HIDE DEF n, l, state
<1>4. StateOf(wave[n]) = state /\ state \in {"space", "mark"}
  <2>1. n \in n - l + 1..n
    BY <1>1, <1>2
  <2>. QED
    BY <1>1, <2>1 DEF AllOf, StateOf
<1>5. ASSUME NEW s \in Detected(wave) PROVE s = state /\ l >= MemorySize
  <2>1. n >= MemorySize /\ AllOf(wave, n - MemorySize + 1, n, s)
    BY <1>3
  <2>2. n \in n - MemorySize + 1..n
    BY <1>2
  <2>3. s = state
    BY <1>4, <2>1, <2>2 DEF AllOf
  <2>4. ASSUME l < MemorySize PROVE FALSE
    <3>1. l < n /\ n - l \in n - MemorySize + 1..n
      BY <1>1, <1>2, <2>1, <2>4
    <3>2. StateOf(wave[n - l]) = s
      BY <2>1, <3>1 DEF AllOf
    <3>. QED
      BY <1>1, <2>3, <3>1, <3>2
  <2>. QED
    BY <1>1, <1>2, <2>3, <2>4
<1>6. ASSUME l >= MemorySize PROVE state \in Detected(wave)
  <2>1. n >= MemorySize
    BY <1>1, <1>2, <1>6
  <2>2. \A i \in n - MemorySize + 1..n : i \in n - l + 1..n
    BY <1>1, <1>2, <1>6
  <2>. QED
    BY <1>1, <1>3, <1>4, <2>1, <2>2 DEF AllOf
<1>7. Detected(wave) = IF l >= MemorySize THEN {state} ELSE {}
  BY <1>5, <1>6
<1>. QED
  BY <1>7 DEF l, state

Element == [state : {"space", "mark"}, timespan : Int]

WavTypes ==
    /\ samples \in Seq(Sample) /\ prev_state \in {"space", "mark"} /\ prev_start \in Nat
    /\ wav_elements \in Seq(Element) /\ detecting \in {"beginning", "reading", "done", "failed"}

\* What has been detected so far in any file.
AlternatesSoFar ==
    /\ detecting = "beginning" => wav_elements = << >> /\ prev_start = 0
    /\ detecting = "reading" =>
          /\ MemorySize - 1 <= prev_start /\ prev_start < Len(samples)
          /\ AllOf(samples, prev_start + 2 - MemorySize, prev_start + 1, prev_state)
          /\ \A i \in 1..Len(wav_elements) : wav_elements[i].timespan >= MemorySize
          /\ wav_elements # << >> => wav_elements[Len(wav_elements)].state # prev_state
    /\ \A i \in 1..Len(wav_elements) - 1 :
          /\ wav_elements[i].state # wav_elements[i + 1].state
          /\ wav_elements[i].timespan >= MemorySize

\* In a file whose runs are long enough so far: the last of them has been
\* detected, or it is not yet as long as the memory.
InLastRun(n, runs) ==
    LET r == Len(runs)
        l == runs[r].timespan IN
    \/ /\ l >= MemorySize /\ detecting = "reading" /\ prev_state = runs[r].state
       /\ prev_start = n - l + MemorySize - 1 /\ wav_elements = SubSeq(runs, 1, r - 1)
    \/ l < MemorySize /\ r = 1 /\ detecting = "beginning"
    \/ /\ l < MemorySize /\ r > 1 /\ detecting = "reading" /\ prev_state = runs[r - 1].state
       /\ prev_start = n - l - runs[r - 1].timespan + MemorySize - 1
       /\ wav_elements = SubSeq(runs, 1, r - 2)

AreLong(runs) == \A k \in 1..Len(runs) - 1 : runs[k].timespan >= MemorySize

WavInv ==
    /\ WavTypes /\ AlternatesSoFar
    /\ IsMaximal(samples, Runs(samples))
    /\ samples # << >> /\ detecting \in {"beginning", "reading"} /\ AreLong(Runs(samples)) =>
           InLastRun(Len(samples), Runs(samples))
    /\ SignalIsDetected

LEMMA InitWavInv == ElementsInit => WavInv
<1>. SUFFICES ASSUME ElementsInit PROVE WavInv
  OBVIOUS
<1>1. samples = << >> /\ prev_state = "space" /\ prev_start = 0 /\ wav_elements = << >> /\ detecting = "beginning"
  BY DEF ElementsInit
<1>2. << >> \in Seq(Sample) /\ << >> \in Seq(Element)
  OBVIOUS
<1>3. WavTypes
  BY <1>1, <1>2 DEF WavTypes
<1>4. AlternatesSoFar
  BY <1>1 DEF AlternatesSoFar
<1>5. IsMaximal(samples, Runs(samples))
  BY <1>1, RunsGrow DEF IsMaximal
<1>6. SignalIsDetected
  BY <1>1 DEF SignalIsDetected
<1>. QED
  BY <1>1, <1>3, <1>4, <1>5, <1>6 DEF WavInv

LEMMA EndKeepsWav == WavInv /\ EndOfFile => WavInv'
<1>. SUFFICES ASSUME WavInv, EndOfFile PROVE WavInv'
  OBVIOUS
<1>. DEFINE n == Len(samples)
            new == [state |-> prev_state, timespan |-> n - prev_start]
<1>1. /\ WavTypes /\ AlternatesSoFar /\ UNCHANGED <<samples, prev_state, prev_start>>
      /\ IsMaximal(samples, Runs(samples)) /\ detecting \in {"beginning", "reading"}
  BY DEF WavInv, EndOfFile
<1>2. n \in Nat /\ new \in Element
  BY <1>1 DEF WavTypes, Element
<1>3. \/ wav_elements' = wav_elements /\ detecting' = "failed"
      \/ wav_elements' = Append(wav_elements, new) /\ detecting' = "done"
  BY DEF EndOfFile, AppendElement
<1>4. /\ wav_elements \in Seq(Element) /\ wav_elements' \in Seq(Element)
  <2>. HIDE DEF new
  <2>1. wav_elements \in Seq(Element)
    BY <1>1 DEF WavTypes
  <2>2. Append(wav_elements, new) \in Seq(Element)
    BY <1>2, <2>1
  <2>. QED
    BY <1>3, <2>1, <2>2, Zenon
<1>5. WavTypes'
  BY <1>1, <1>3, <1>4 DEF WavTypes
<1>. HIDE DEF new
<1>6. AlternatesSoFar'
  <2>1. ASSUME NEW i \in 1..Len(wav_elements') - 1
        PROVE  /\ wav_elements'[i].state # wav_elements'[i + 1].state
               /\ wav_elements'[i].timespan >= MemorySize
    <3>1. CASE wav_elements' = wav_elements
      BY <1>1, <2>1, <3>1 DEF AlternatesSoFar
    <3>2. CASE wav_elements' = Append(wav_elements, new)
      <4>1. /\ Len(wav_elements') = Len(wav_elements) + 1 /\ wav_elements'[Len(wav_elements) + 1] = new
            /\ \A j \in 1..Len(wav_elements) : wav_elements'[j] = wav_elements[j]
        BY <1>4, <3>2
      <4>2. i \in 1..Len(wav_elements) /\ wav_elements # << >>
        BY <1>4, <4>1
      <4>3. detecting = "reading"
        BY <1>1, <4>2 DEF AlternatesSoFar
      <4>4. wav_elements[i].timespan >= MemorySize
        BY <1>1, <4>2, <4>3 DEF AlternatesSoFar
      <4>5. wav_elements'[i].state # wav_elements'[i + 1].state
        <5>1. CASE i = Len(wav_elements)
          <6>1. new.state = prev_state
            BY DEF new
          <6>2. wav_elements[Len(wav_elements)].state # prev_state
            BY <1>1, <4>2, <4>3 DEF AlternatesSoFar
          <6>. QED
            BY <4>1, <4>2, <5>1, <6>1, <6>2
        <5>2. CASE i # Len(wav_elements)
          <6>1. i \in 1..Len(wav_elements) - 1 /\ i + 1 \in 1..Len(wav_elements)
            BY <1>4, <4>2, <5>2
          <6>. QED
            BY <1>1, <4>1, <6>1 DEF AlternatesSoFar
        <5>. QED
          BY <5>1, <5>2
      <4>. QED
        BY <4>1, <4>2, <4>4, <4>5
    <3>. QED
      BY <1>3, <3>1, <3>2
  <2>2. detecting' \notin {"beginning", "reading"}
    BY <1>3
  <2>. QED
    BY <2>1, <2>2 DEF AlternatesSoFar
<1>7. SignalIsDetected'
  <2>. DEFINE runs == Runs(samples)
              r == Len(runs)
              last == [state |-> runs[r].state, timespan |-> runs[r].timespan - (MemorySize - 1)]
  <2>1. SUFFICES ASSUME detecting' = "done", samples # << >>, \A k \in DOMAIN runs : runs[k].timespan >= MemorySize
        PROVE  wav_elements' = [runs EXCEPT ![r].timespan = runs[r].timespan - (MemorySize - 1)]
    BY <1>1, Zenon DEF SignalIsDetected, IsClean
  <2>2. runs \in Seq(Run) /\ runs # << >>
    BY <1>1, <2>1, RunsGrow DEF IsMaximal, WavTypes
  <2>. HIDE DEF runs
  <2>3. r \in Nat /\ r \in 1..r /\ DOMAIN runs = 1..r /\ r \in DOMAIN runs /\ \A k \in 1..r : runs[k] \in Run
    BY <2>2
  <2>4. AreLong(runs)
    BY <2>1, <2>3 DEF AreLong
  <2>5. InLastRun(n, runs)
    BY <1>1, <2>1, <2>4 DEF WavInv, runs
  <2>6. runs[r].timespan >= MemorySize /\ MemorySize \in Nat /\ runs[r].timespan \in Int
    BY <2>1, <2>3, MemoryIsSome DEF Run
  <2>7. /\ prev_state = runs[r].state /\ prev_start = n - runs[r].timespan + MemorySize - 1
        /\ wav_elements = SubSeq(runs, 1, r - 1)
    BY <2>5, <2>6 DEF InLastRun
  <2>8. new = last
    <3>1. n - prev_start = runs[r].timespan - (MemorySize - 1)
      BY <1>2, <2>6, <2>7
    <3>. QED
      BY <2>7, <3>1 DEF new
  <2>9. wav_elements' = Append(SubSeq(runs, 1, r - 1), last)
    BY <1>3, <2>1, <2>7, <2>8
  <2>10. [runs EXCEPT ![r].timespan = runs[r].timespan - (MemorySize - 1)] = [runs EXCEPT ![r] = last]
    <3>1. [runs[r] EXCEPT !.timespan = runs[r].timespan - (MemorySize - 1)] = last
      BY <2>3 DEF Run
    <3>2. [runs EXCEPT ![r].timespan = runs[r].timespan - (MemorySize - 1)] =
             [runs EXCEPT ![r] = [runs[r] EXCEPT !.timespan = runs[r].timespan - (MemorySize - 1)]]
      OBVIOUS
    <3>. QED
      BY <3>1, <3>2
  <2>11. last \in Run
    BY <2>3, <2>6 DEF Run
  <2>. HIDE DEF last
  <2>12. Append(SubSeq(runs, 1, r - 1), last) = [runs EXCEPT ![r] = last]
    <3>. DEFINE front == SubSeq(runs, 1, r - 1)
                changed == [runs EXCEPT ![r] = last]
                appended == Append(front, last)
    <3>1. front \in Seq(Run) /\ Len(front) = r - 1 /\ \A k \in 1..r - 1 : front[k] = runs[k]
      BY <2>2, <2>3
    <3>2. /\ appended \in Seq(Run) /\ Len(appended) = (r - 1) + 1
          /\ appended[(r - 1) + 1] = last /\ \A k \in 1..r - 1 : appended[k] = front[k]
      <4>. HIDE DEF front
      <4>. QED
        BY <2>11, <3>1
    <3>3. changed \in Seq(Run) /\ Len(changed) = r
      BY <2>2, <2>3, <2>11
    <3>4. changed[r] = last /\ \A k \in 1..r - 1 : changed[k] = runs[k]
      <4>. HIDE DEF r
      <4>1. \A k \in 1..r - 1 : k \in DOMAIN runs /\ k # r
        BY <2>3
      <4>. QED
        BY <2>3, <4>1
    <3>. HIDE DEF front, changed, appended
    <3>5. (r - 1) + 1 = r
      BY <2>3
    <3>6. \A k \in 1..r : appended[k] = changed[k]
      <4>. HIDE DEF r
      <4>1. \A k \in 1..r : k = r \/ k \in 1..r - 1
        BY <2>3
      <4>. QED
        BY <3>1, <3>2, <3>4, <3>5, <4>1
    <3>7. appended = changed
      BY <3>2, <3>3, <3>5, <3>6
    <3>. QED
      BY <3>7 DEF front, changed, appended
  <2>. QED
    BY <2>9, <2>10, <2>12
<1>8. detecting' \notin {"beginning", "reading"}
  BY <1>3
<1>9. IsMaximal(samples, Runs(samples))'
  BY <1>1
<1>. QED
  BY <1>5, <1>6, <1>7, <1>8, <1>9 DEF WavInv

LEMMA SameBeginning ==
    ASSUME NEW S, NEW s \in Seq(S), NEW t \in Seq(S), NEW k \in Nat, k <= Len(s), k <= Len(t),
           \A i \in 1..k : s[i] = t[i]
    PROVE  SubSeq(s, 1, k) = SubSeq(t, 1, k)
  OBVIOUS

LEMMA OneMoreOf ==
    ASSUME NEW S, NEW s \in Seq(S), NEW k \in 1..Len(s)
    PROVE  Append(SubSeq(s, 1, k - 1), s[k]) = SubSeq(s, 1, k)
  OBVIOUS

LEMMA ReadKeepsWav == ASSUME WavInv, NEW sample \in Sample, ReadSample(sample) PROVE WavInv'
<1>. DEFINE n == Len(samples)
            more == Append(samples, sample)
            runs == Runs(samples)
            longer == Longer(runs, sample)
            new == [state |-> prev_state, timespan |-> n - prev_start]
            M == MemorySize
<1>1. /\ WavTypes /\ AlternatesSoFar /\ samples' = more
      /\ IsMaximal(samples, runs) /\ detecting \in {"beginning", "reading"}
  BY DEF WavInv, ReadSample
<1>2. /\ samples \in Seq(Sample) /\ n \in Nat /\ more \in Seq(Sample) /\ Len(more) = n + 1 /\ more # << >>
      /\ \A i \in 1..n : more[i] = samples[i]
      /\ n = 0 <=> samples = << >>
  BY <1>1 DEF WavTypes
<1>3. runs \in Seq(Run) /\ longer \in Seq(Run) /\ Runs(more) = longer /\ IsMaximal(more, longer)
  BY <1>1, <1>2, RunsGrow, LongerIs, MaximalGrows
<1>4. longer # << >>
  BY <1>2, <1>3 DEF IsMaximal
<1>5. Detected(more) = IF longer[Len(longer)].timespan >= M THEN {longer[Len(longer)].state} ELSE {}
  BY <1>2, <1>3, <1>4, DetectedInRun
<1>6. \A s \in Detected(more) : s \in {"space", "mark"} /\ n + 1 >= M /\ AllOf(more, (n + 1) - M + 1, n + 1, s)
  <2>1. \A s \in Detected(more) :
            s \in {"space", "mark"} /\ Len(more) >= M /\ AllOf(more, Len(more) - M + 1, Len(more), s)
    <3>. HIDE DEF more
    <3>. QED
      BY <1>2, DetectedMeans
  <2>2. Len(more) = n + 1
    BY <1>2
  <2>. HIDE DEF more, n, M
  <2>. TAKE s \in Detected(more)
  <2>3. s \in {"space", "mark"} /\ Len(more) >= M /\ AllOf(more, Len(more) - M + 1, Len(more), s)
    BY <2>1
  <2>. QED
    BY <2>2, <2>3
<1>7. \/ /\ Detected(more) = {} \/ (detecting = "reading" /\ prev_state \in Detected(more))
         /\ UNCHANGED <<prev_state, prev_start, wav_elements, detecting>>
      \/ /\ detecting = "beginning" /\ prev_state' \in Detected(more) /\ prev_start' = n
         /\ detecting' = "reading" /\ UNCHANGED wav_elements
      \/ /\ detecting = "reading" /\ prev_state \notin Detected(more)
         /\ prev_state' \in Detected(more) /\ prev_start' = n
         /\ \/ wav_elements' = wav_elements /\ detecting' = "failed"
            \/ wav_elements' = Append(wav_elements, new) /\ detecting' = "reading"
  BY DEF ReadSample, BeginsAt, AppendElement
<1>8. M \in Nat /\ M >= 1
  BY MemoryIsSome
<1>9. new \in Element /\ prev_start \in Nat /\ wav_elements \in Seq(Element)
  BY <1>1, <1>2 DEF WavTypes, Element
<1>. HIDE DEF more, longer, new, runs, M
<1>10. WavTypes'
  <2>1. wav_elements' \in Seq(Element)
    <3>1. wav_elements' = wav_elements \/ wav_elements' = Append(wav_elements, new)
      BY <1>7
    <3>. QED
      BY <1>9, <3>1
  <2>2. prev_state' \in {"space", "mark"} /\ prev_start' \in Nat
    BY <1>1, <1>2, <1>6, <1>7 DEF WavTypes
  <2>3. detecting' \in {"beginning", "reading", "done", "failed"}
    BY <1>1, <1>7
  <2>. QED
    BY <1>1, <1>2, <2>1, <2>2, <2>3 DEF WavTypes
<1>11. AlternatesSoFar'
  <2>1. CASE UNCHANGED <<prev_state, prev_start, wav_elements, detecting>>
    <3>1. detecting = "reading" =>
             AllOf(more, prev_start + 2 - M, prev_start + 1, prev_state) /\ prev_start < n + 1
      <4>1. SUFFICES ASSUME detecting = "reading"
            PROVE  AllOf(more, prev_start + 2 - M, prev_start + 1, prev_state) /\ prev_start < n + 1
        OBVIOUS
      <4>2. /\ M - 1 <= prev_start /\ prev_start < n
            /\ AllOf(samples, prev_start + 2 - M, prev_start + 1, prev_state)
        BY <1>1, <4>1 DEF AlternatesSoFar, M
      <4>3. \A i \in prev_start + 2 - M..prev_start + 1 : i \in 1..n
        BY <1>2, <1>8, <1>9, <4>2
      <4>4. prev_start < n + 1
        BY <1>2, <1>9, <4>2
      <4>. QED
        BY <1>2, <4>2, <4>3, <4>4 DEF AllOf
    <3>2. Len(samples') = n + 1
      BY <1>1, <1>2
    <3>. QED
      BY <1>1, <2>1, <3>1, <3>2 DEF AlternatesSoFar, M
  <2>2. ASSUME prev_state' \in Detected(more), prev_start' = n
        PROVE  /\ M - 1 <= prev_start' /\ prev_start' < Len(samples')
               /\ AllOf(samples', prev_start' + 2 - M, prev_start' + 1, prev_state')
    <3>1. n + 1 >= M /\ AllOf(more, (n + 1) - M + 1, n + 1, prev_state')
      BY <1>6, <2>2
    <3>2. (n + 1) - M + 1 = n + 2 - M /\ M - 1 <= n /\ n < n + 1
      BY <1>2, <1>8, <3>1
    <3>. QED
      BY <1>1, <1>2, <2>2, <3>1, <3>2
  <2>3. CASE detecting = "beginning" /\ prev_state' \in Detected(more) /\ prev_start' = n
             /\ detecting' = "reading" /\ UNCHANGED wav_elements
    <3>1. wav_elements' = << >>
      BY <1>1, <2>3 DEF AlternatesSoFar
    <3>. QED
      BY <2>2, <2>3, <3>1 DEF AlternatesSoFar, M
  <2>4. CASE /\ detecting = "reading" /\ prev_state \notin Detected(more)
             /\ prev_state' \in Detected(more) /\ prev_start' = n
             /\ \/ wav_elements' = wav_elements /\ detecting' = "failed"
                \/ wav_elements' = Append(wav_elements, new) /\ detecting' = "reading"
    <3>1. /\ M - 1 <= prev_start /\ prev_start < n
          /\ AllOf(samples, prev_start + 2 - M, prev_start + 1, prev_state)
          /\ \A i \in 1..Len(wav_elements) : wav_elements[i].timespan >= M
          /\ wav_elements # << >> => wav_elements[Len(wav_elements)].state # prev_state
          /\ \A i \in 1..Len(wav_elements) - 1 : wav_elements[i].state # wav_elements[i + 1].state
      BY <1>1, <2>4 DEF AlternatesSoFar, M
    <3>2. prev_state' # prev_state
      BY <2>4
    <3>3. CASE wav_elements' = wav_elements /\ detecting' = "failed"
      BY <1>1, <3>3 DEF AlternatesSoFar
    <3>4. CASE wav_elements' = Append(wav_elements, new) /\ detecting' = "reading"
      <4>1. new.state = prev_state /\ new.timespan = n - prev_start
        BY DEF new
      <4>2. n - prev_start >= M
        <5>1. SUFFICES ASSUME n - prev_start < M PROVE FALSE
          BY <1>2, <1>8, <1>9
        <5>2. AllOf(more, (n + 1) - M + 1, n + 1, prev_state')
          BY <1>6, <2>4
        <5>3. /\ prev_start + 1 \in (n + 1) - M + 1..n + 1 /\ prev_start + 1 \in prev_start + 2 - M..prev_start + 1
              /\ prev_start + 1 \in 1..n
          BY <1>2, <1>8, <1>9, <3>1, <5>1
        <5>4. StateOf(more[prev_start + 1]) = prev_state' /\ StateOf(samples[prev_start + 1]) = prev_state
          BY <3>1, <5>2, <5>3 DEF AllOf
        <5>. QED
          BY <1>2, <3>2, <5>3, <5>4
      <4>3. /\ Len(wav_elements') = Len(wav_elements) + 1 /\ wav_elements'[Len(wav_elements) + 1] = new
            /\ \A j \in 1..Len(wav_elements) : wav_elements'[j] = wav_elements[j]
            /\ Len(wav_elements) \in Nat
        BY <1>9, <3>4
      <4>. DEFINE w == Len(wav_elements)
      <4>4. wav_elements # << >> <=> w # 0
        BY <1>9
      <4>. HIDE DEF w
      <4>5. ASSUME NEW i \in 1..w + 1 PROVE wav_elements'[i].timespan >= M
        <5>1. CASE i = w + 1
          BY <4>1, <4>2, <4>3, <5>1 DEF w
        <5>2. CASE i # w + 1
          <6>1. i \in 1..w
            BY <4>3, <5>2 DEF w
          <6>. QED
            BY <3>1, <4>3, <6>1 DEF w
        <5>. QED
          BY <5>1, <5>2
      <4>6. ASSUME NEW i \in 1..w PROVE wav_elements'[i].state # wav_elements'[i + 1].state
        <5>1. CASE i = w
          <6>1. w # 0
            BY <4>3, <5>1 DEF w
          <6>. QED
            BY <3>1, <4>1, <4>3, <4>4, <5>1, <6>1 DEF w
        <5>2. CASE i # w
          <6>1. i \in 1..w - 1 /\ i + 1 \in 1..w
            BY <4>3, <5>2 DEF w
          <6>. QED
            BY <3>1, <4>3, <6>1 DEF w
        <5>. QED
          BY <5>1, <5>2
      <4>7. Len(wav_elements') = w + 1 /\ (w + 1) - 1 = w /\ \A i \in 1..w : i \in 1..w + 1
        BY <4>3 DEF w
      <4>8. wav_elements'[Len(wav_elements')].state # prev_state'
        BY <3>2, <4>1, <4>3
      <4>9. \A i \in 1..Len(wav_elements') : wav_elements'[i].timespan >= MemorySize
        BY <4>5, <4>7 DEF M
      <4>10. \A i \in 1..Len(wav_elements') - 1 :
                /\ wav_elements'[i].state # wav_elements'[i + 1].state
                /\ wav_elements'[i].timespan >= MemorySize
        BY <4>5, <4>6, <4>7 DEF M
      <4>. QED
        BY <2>2, <2>4, <3>4, <4>8, <4>9, <4>10 DEF AlternatesSoFar, M
    <3>. QED
      BY <2>4, <3>3, <3>4
  <2>. QED
    BY <1>7, <2>1, <2>3, <2>4
<1>12. IsMaximal(samples, Runs(samples))' /\ Runs(samples)' = longer
  BY <1>1, <1>3
<1>13. (samples # << >> /\ detecting \in {"beginning", "reading"} /\ AreLong(Runs(samples)) =>
           InLastRun(Len(samples), Runs(samples)))'
  <2>. DEFINE r == Len(runs)
              l == runs[r].timespan
              r2 == Len(longer)
              l2 == longer[r2].timespan
              Complete == /\ l2 >= M /\ detecting' = "reading" /\ prev_state' = longer[r2].state
                       /\ prev_start' = (n + 1) - l2 + M - 1 /\ wav_elements' = SubSeq(longer, 1, r2 - 1)
              First == l2 < M /\ r2 = 1 /\ detecting' = "beginning"
              Short == /\ l2 < M /\ r2 > 1 /\ detecting' = "reading" /\ prev_state' = longer[r2 - 1].state
                       /\ prev_start' = (n + 1) - l2 - longer[r2 - 1].timespan + M - 1
                       /\ wav_elements' = SubSeq(longer, 1, r2 - 2)
  <2>1. SUFFICES ASSUME detecting' \in {"beginning", "reading"}, AreLong(longer)
        PROVE  Complete \/ First \/ Short
    <3>1. Len(samples)' = n + 1 /\ Runs(samples)' = longer
      BY <1>1, <1>2, <1>12
    <3>. DEFINE Formula(k, q) ==
            \/ /\ q[Len(q)].timespan >= M /\ detecting' = "reading" /\ prev_state' = q[Len(q)].state
               /\ prev_start' = k - q[Len(q)].timespan + M - 1 /\ wav_elements' = SubSeq(q, 1, Len(q) - 1)
            \/ q[Len(q)].timespan < M /\ Len(q) = 1 /\ detecting' = "beginning"
            \/ /\ q[Len(q)].timespan < M /\ Len(q) > 1 /\ detecting' = "reading"
               /\ prev_state' = q[Len(q) - 1].state
               /\ prev_start' = k - q[Len(q)].timespan - q[Len(q) - 1].timespan + M - 1
               /\ wav_elements' = SubSeq(q, 1, Len(q) - 2)
    <3>4. Complete \/ First \/ Short => Formula(n + 1, longer)
      BY Zenon
    <3>5. Formula(Len(samples)', Runs(samples)') => InLastRun(Len(samples), Runs(samples))'
      BY DEF InLastRun, M
    <3>. HIDE DEF Formula, Complete, First, Short
    <3>2. Complete \/ First \/ Short => InLastRun(Len(samples), Runs(samples))'
      BY <3>1, <3>4, <3>5
    <3>3. AreLong(Runs(samples))' => AreLong(longer)
      BY <1>12 DEF AreLong
    <3>. QED
      BY <3>2, <3>3
  <2>2. /\ r \in Nat /\ \A k \in 1..r : runs[k] \in Run /\ runs[k].timespan \in Int
        /\ r = 0 <=> runs = << >>
    <3>1. r \in Nat /\ \A k \in 1..r : runs[k] \in Run
      BY <1>3
    <3>2. r = 0 <=> runs = << >>
      BY <1>3
    <3>3. \A run \in Run : run.timespan \in Int
      BY DEF Run
    <3>. QED
      BY <3>1, <3>2, <3>3
  <2>3. runs = << >> <=> samples = << >>
    BY <1>1 DEF IsMaximal
  <2>4. detecting = "reading" => samples # << >>
    BY <1>1, <1>2, <1>8, <1>9 DEF AlternatesSoFar, M
  <2>5. \A k \in 1..r2 - 1 : longer[k].timespan >= M
    BY <2>1 DEF AreLong, M
  <2>6. samples # << >> /\ AreLong(runs) =>
          \/ /\ l >= M /\ detecting = "reading" /\ prev_state = runs[r].state
             /\ prev_start = n - l + M - 1 /\ wav_elements = SubSeq(runs, 1, r - 1)
          \/ l < M /\ r = 1 /\ detecting = "beginning"
          \/ /\ l < M /\ r > 1 /\ detecting = "reading" /\ prev_state = runs[r - 1].state
             /\ prev_start = n - l - runs[r - 1].timespan + M - 1 /\ wav_elements = SubSeq(runs, 1, r - 2)
    BY <1>1, Zenon DEF WavInv, InLastRun, n, runs, M
  <2>7. detecting = "beginning" => wav_elements = << >>
    BY <1>1 DEF AlternatesSoFar
  <2>8. detecting' # "failed"
    BY <2>1
  <2>9. CASE runs = << >> \/ runs[r].state # StateOf(sample)
    <3>1. longer = Append(runs, [state |-> StateOf(sample), timespan |-> 1])
      BY <1>3, <2>9, LongerIs DEF longer
    <3>2. /\ r2 = r + 1 /\ \A k \in 1..r : longer[k] = runs[k]
          /\ longer[r + 1] = [state |-> StateOf(sample), timespan |-> 1]
      BY <1>3, <2>2, <3>1
    <3>3. l2 = 1 /\ longer[r2].state = StateOf(sample)
      BY <3>2
    <3>4. Detected(more) = IF M <= 1 THEN {StateOf(sample)} ELSE {}
      BY <1>5, <1>8, <3>3
    <3>5. CASE runs = << >>
      <4>1. r2 = 1 /\ n = 0 /\ detecting = "beginning" /\ wav_elements = << >>
        BY <1>1, <1>2, <2>2, <2>3, <2>4, <2>7, <3>2, <3>5
      <4>2. SubSeq(longer, 1, 0) = << >>
        BY <1>3
      <4>3. CASE M <= 1
        <5>1. Detected(more) = {StateOf(sample)}
          BY <3>4, <4>3
        <5>2. prev_state' = StateOf(sample) /\ prev_start' = n /\ detecting' = "reading" /\ wav_elements' = wav_elements
          BY <1>7, <4>1, <5>1
        <5>3. r2 - 1 = 0 /\ (n + 1) - 1 + M - 1 = n
          BY <1>8, <4>1, <4>3
        <5>. QED
          BY <3>3, <4>1, <4>2, <4>3, <5>2, <5>3
      <4>4. CASE ~(M <= 1)
        <5>1. Detected(more) = {}
          BY <3>4, <4>4
        <5>2. detecting' = "beginning"
          BY <1>7, <4>1, <5>1
        <5>. QED
          BY <1>8, <3>3, <4>1, <4>4, <5>2
      <4>. QED
        BY <4>3, <4>4
    <3>6. CASE runs # << >>
      <4>1. r >= 1 /\ r \in 1..r /\ samples # << >> /\ runs[r].state # StateOf(sample)
        BY <2>2, <2>3, <2>9, <3>6
      <4>2. \A k \in 1..r : runs[k].timespan >= M
        <5>1. r2 - 1 = r
          BY <2>2, <3>2
        <5>. QED
          BY <2>5, <3>2, <5>1
      <4>3. AreLong(runs)
        <5>1. \A k \in 1..r - 1 : k \in 1..r
          BY <2>2
        <5>. QED
          BY <4>2, <5>1 DEF AreLong, M
      <4>4. /\ l >= M /\ detecting = "reading" /\ prev_state = runs[r].state
            /\ prev_start = n - l + M - 1 /\ wav_elements = SubSeq(runs, 1, r - 1) /\ l \in Int
        <5>1. l >= M /\ l \in Int
          BY <2>2, <4>1, <4>2
        <5>. HIDE DEF l
        <5>. QED
          BY <1>8, <2>6, <4>1, <4>3, <5>1
      <4>5. SubSeq(runs, 1, r - 1) = SubSeq(longer, 1, r - 1)
        <5>1. r - 1 \in Nat /\ r - 1 <= Len(runs) /\ r - 1 <= Len(longer) /\ \A k \in 1..r - 1 : runs[k] = longer[k]
          BY <2>2, <3>2, <4>1
        <5>. HIDE DEF r
        <5>. QED
          BY <1>3, <5>1, SameBeginning
      <4>6. CASE M <= 1
        <5>1. Detected(more) = {StateOf(sample)} /\ M = 1
          BY <1>8, <3>4, <4>6
        <5>2. /\ prev_state' = StateOf(sample) /\ prev_start' = n /\ detecting' = "reading"
              /\ wav_elements' = Append(wav_elements, new)
          BY <1>7, <2>8, <4>1, <4>4, <5>1
        <5>3. new = runs[r]
          <6>1. n - prev_start = l
            BY <1>2, <4>4, <5>1
          <6>2. runs[r] = [state |-> runs[r].state, timespan |-> l]
            BY <2>2, <4>1 DEF Run
          <6>. HIDE DEF l, r
          <6>. QED
            BY <4>4, <6>1, <6>2 DEF new
        <5>4. Append(SubSeq(longer, 1, r - 1), longer[r]) = SubSeq(longer, 1, r)
          <6>1. r \in 1..Len(longer)
            BY <2>2, <3>2, <4>1
          <6>. HIDE DEF r
          <6>. QED
            BY <1>3, <6>1, OneMoreOf
        <5>5. wav_elements' = SubSeq(longer, 1, r)
          <6>1. longer[r] = runs[r]
            BY <3>2, <4>1
          <6>. QED
            BY <4>4, <4>5, <5>2, <5>3, <5>4, <6>1
        <5>6. r2 - 1 = r /\ (n + 1) - 1 + M - 1 = n
          BY <1>2, <2>2, <3>2, <5>1
        <5>. QED
          BY <3>3, <4>6, <5>2, <5>5, <5>6
      <4>7. CASE ~(M <= 1)
        <5>1. Detected(more) = {}
          BY <3>4, <4>7
        <5>2. UNCHANGED <<prev_state, prev_start, wav_elements, detecting>>
          BY <1>7, <4>4, <5>1
        <5>3. l2 < M /\ r2 > 1 /\ r2 - 1 = r /\ r2 - 2 = r - 1
          BY <1>8, <2>2, <3>2, <3>3, <4>1, <4>7
        <5>4. longer[r2 - 1] = runs[r]
          BY <3>2, <4>1, <5>3
        <5>5. (n + 1) - l2 - l + M - 1 = n - l + M - 1
          BY <1>2, <1>8, <3>3, <4>4
        <5>6. Short
          BY <4>4, <4>5, <5>2, <5>3, <5>4, <5>5
        <5>. QED
          BY <5>6
      <4>. QED
        BY <4>6, <4>7
    <3>. QED
      BY <3>5, <3>6
  <2>10. CASE runs # << >> /\ runs[r].state = StateOf(sample)
    <3>1. /\ r2 = r /\ \A k \in 1..r - 1 : longer[k] = runs[k]
          /\ longer[r] = [state |-> runs[r].state, timespan |-> l + 1]
      BY <1>3, <2>10, LongerIs DEF longer
    <3>2. l2 = l + 1 /\ longer[r2].state = runs[r].state /\ r >= 1 /\ samples # << >> /\ l \in Int
      BY <2>2, <2>3, <2>10, <3>1
    <3>3. AreLong(runs)
      <4>1. \A k \in 1..r - 1 : runs[k].timespan >= M
        BY <2>5, <3>1
      <4>. QED
        BY <4>1 DEF AreLong, M
    <3>4. Detected(more) = IF l + 1 >= M THEN {runs[r].state} ELSE {}
      BY <1>5, <3>1, <3>2
    <3>5. ASSUME NEW k \in 0..r - 1 PROVE SubSeq(runs, 1, k) = SubSeq(longer, 1, k)
      <4>1. k \in Nat /\ k <= Len(runs) /\ k <= Len(longer) /\ \A i \in 1..k : runs[i] = longer[i]
        BY <2>2, <3>1
      <4>. QED
        BY <1>3, <4>1, SameBeginning
    <3>6. CASE /\ l >= M /\ detecting = "reading" /\ prev_state = runs[r].state
               /\ prev_start = n - l + M - 1 /\ wav_elements = SubSeq(runs, 1, r - 1)
      <4>1. Detected(more) = {runs[r].state} /\ l2 >= M
        BY <1>8, <3>2, <3>4, <3>6
      <4>2. UNCHANGED <<prev_state, prev_start, wav_elements, detecting>>
        BY <1>7, <3>6, <4>1
      <4>3. (n + 1) - l2 + M - 1 = n - l + M - 1 /\ r - 1 \in 0..r - 1
        <5>1. l2 = l + 1 /\ l \in Int /\ r \in Nat /\ r >= 1 /\ n \in Nat
          BY <1>2, <2>2, <3>2
        <5>. HIDE DEF l, l2, r, n
        <5>. QED
          BY <1>8, <5>1
      <4>4. Complete
        BY <3>1, <3>2, <3>5, <3>6, <4>1, <4>2, <4>3
      <4>. QED
        BY <4>4
    <3>7. CASE l < M /\ r = 1 /\ detecting = "beginning"
      <4>1. CASE l + 1 >= M
        <5>1. Detected(more) = {runs[r].state}
          BY <3>4, <4>1
        <5>2. prev_state' = runs[r].state /\ prev_start' = n /\ detecting' = "reading" /\ wav_elements' = << >>
          BY <1>7, <2>7, <3>7, <5>1
        <5>3. (n + 1) - l2 + M - 1 = n
          BY <1>2, <1>8, <3>2, <3>7, <4>1
        <5>4. SubSeq(longer, 1, r2 - 1) = << >>
          BY <1>3, <3>1, <3>7
        <5>5. Complete
          BY <3>2, <4>1, <5>2, <5>3, <5>4
        <5>. QED
          BY <5>5
      <4>2. CASE ~(l + 1 >= M)
        <5>1. Detected(more) = {}
          BY <3>4, <4>2
        <5>2. detecting' = "beginning"
          BY <1>7, <3>7, <5>1
        <5>3. l2 < M
          BY <1>8, <3>2, <4>2
        <5>. QED
          BY <3>1, <3>7, <5>2, <5>3
      <4>. QED
        BY <4>1, <4>2
    <3>8. CASE /\ l < M /\ r > 1 /\ detecting = "reading" /\ prev_state = runs[r - 1].state
               /\ prev_start = n - l - runs[r - 1].timespan + M - 1 /\ wav_elements = SubSeq(runs, 1, r - 2)
      <4>. DEFINE t == runs[r - 1].timespan
      <4>1. /\ r - 1 \in 1..r - 1 /\ r - 1 \in 1..r /\ r - 2 \in 0..r - 1 /\ longer[r - 1] = runs[r - 1]
            /\ (r - 1) - 1 = r - 2 /\ (r - 1) + 1 = r
        BY <2>2, <3>1, <3>8
      <4>2. t \in Int /\ runs[r - 1] = [state |-> runs[r - 1].state, timespan |-> t] /\ runs[r - 1].state # runs[r].state
        <5>1. runs[r - 1].state # runs[(r - 1) + 1].state
          BY <1>1, <4>1 DEF IsMaximal
        <5>2. runs[r - 1] \in Run
          BY <2>2, <4>1
        <5>. QED
          BY <4>1, <5>1, <5>2 DEF Run
      <4>. HIDE DEF t
      <4>3. CASE l + 1 >= M
        <5>1. Detected(more) = {runs[r].state} /\ l = M - 1
          BY <1>8, <3>2, <3>4, <3>8, <4>3
        <5>2. /\ prev_state' = runs[r].state /\ prev_start' = n /\ detecting' = "reading"
              /\ wav_elements' = Append(wav_elements, new)
          BY <1>7, <2>8, <3>8, <4>2, <5>1
        <5>3. n - prev_start = t
          <6>1. prev_start = n - l - t + M - 1
            BY <3>8 DEF t
          <6>. QED
            BY <1>2, <1>8, <3>2, <4>2, <5>1, <6>1
        <5>4. new = runs[r - 1]
          BY <3>8, <4>2, <5>3, Zenon DEF new
        <5>5. Append(SubSeq(longer, 1, (r - 1) - 1), longer[r - 1]) = SubSeq(longer, 1, r - 1)
          <6>1. r - 1 \in 1..Len(longer)
            BY <2>2, <3>1, <4>1
          <6>. HIDE DEF r
          <6>. QED
            BY <1>3, <6>1, OneMoreOf
        <5>6. wav_elements' = SubSeq(longer, 1, r - 1)
          BY <3>5, <3>8, <4>1, <5>2, <5>4, <5>5
        <5>7. (n + 1) - l2 + M - 1 = n /\ l2 >= M
          BY <1>2, <1>8, <3>2, <5>1
        <5>8. Complete
          BY <3>1, <3>2, <5>2, <5>6, <5>7
        <5>. QED
          BY <5>8
      <4>4. CASE ~(l + 1 >= M)
        <5>1. Detected(more) = {}
          BY <3>4, <4>4
        <5>2. UNCHANGED <<prev_state, prev_start, wav_elements, detecting>>
          BY <1>7, <3>8, <5>1
        <5>3. l2 < M /\ (n + 1) - l2 - t + M - 1 = n - l - t + M - 1
          <6>1. l2 = l + 1 /\ l \in Int /\ t \in Int /\ n \in Nat
            BY <1>2, <3>2, <4>2
          <6>. HIDE DEF l, l2, n
          <6>. QED
            BY <1>8, <4>4, <6>1
        <5>4. Short
          BY <3>1, <3>5, <3>8, <4>1, <5>2, <5>3 DEF t
        <5>. QED
          BY <5>4
      <4>. QED
        BY <4>3, <4>4
    <3>. QED
      BY <2>6, <3>2, <3>3, <3>6, <3>7, <3>8
  <2>. QED
    BY <2>9, <2>10
<1>14. SignalIsDetected'
  <2>1. detecting' # "done"
    BY <1>1, <1>7
  <2>. QED
    BY <2>1 DEF SignalIsDetected
<1>. QED
  BY <1>10, <1>11, <1>12, <1>13, <1>14 DEF WavInv

\* The elements of a text: pairs of a mark and the space after it.
Mark == [mark : {"dot", "dash"}, space : {"ims", "ics", "iws"}]
Names == {"dot", "dash", "ims", "ics", "iws"}
PairsOf(marks) == FlattenSeq([i \in DOMAIN marks |-> <<marks[i].mark, marks[i].space>>])

(* Pairs of a mark and a space, of marks that follow each other.              *)
LEMMA PairsAreNames ==
    ASSUME NEW marks \in Seq(Mark)
    PROVE  [i \in DOMAIN marks |-> <<marks[i].mark, marks[i].space>>] \in Seq(Seq(Names))
<1>1. ASSUME NEW i \in 1..Len(marks) PROVE <<marks[i].mark, marks[i].space>> \in Seq(Names)
  <2>1. marks[i] \in Mark
    OBVIOUS
  <2>2. marks[i].mark \in Names /\ marks[i].space \in Names
    BY <2>1 DEF Mark, Names
  <2>. QED
    BY <2>2
<1>2. DOMAIN marks = 1..Len(marks) /\ Len(marks) \in Nat
  OBVIOUS
<1>. QED
  BY <1>1, <1>2

LEMMA PairsAreSequence == ASSUME NEW marks \in Seq(Mark) PROVE PairsOf(marks) \in Seq(Names)
  BY PairsAreNames, FlattenedIsSequence DEF PairsOf

LEMMA PairsOfConcat ==
    ASSUME NEW a \in Seq(Mark), NEW b \in Seq(Mark)
    PROVE  PairsOf(a \o b) = PairsOf(a) \o PairsOf(b)
<1>. DEFINE pairs(m) == [i \in DOMAIN m |-> <<m[i].mark, m[i].space>>]
            pa == pairs(a)
            pb == pairs(b)
            all == a \o b
<1>1. pa \in Seq(Seq(Names)) /\ pb \in Seq(Seq(Names))
  BY PairsAreNames
<1>2. /\ DOMAIN a = 1..Len(a) /\ DOMAIN b = 1..Len(b) /\ DOMAIN all = 1..Len(a) + Len(b)
      /\ Len(a) \in Nat /\ Len(b) \in Nat
      /\ \A i \in 1..Len(a) + Len(b) : all[i] = IF i <= Len(a) THEN a[i] ELSE b[i - Len(a)]
  OBVIOUS
<1>3. Len(pa) = Len(a) /\ Len(pb) = Len(b)
  BY <1>2
<1>4. /\ \A i \in 1..Len(a) : pa[i] = <<a[i].mark, a[i].space>>
      /\ \A i \in 1..Len(b) : pb[i] = <<b[i].mark, b[i].space>>
  BY <1>2
<1>. HIDE DEF all, pa, pb
<1>5. /\ DOMAIN (pa \o pb) = 1..Len(a) + Len(b)
      /\ \A i \in 1..Len(a) + Len(b) : (pa \o pb)[i] = IF i <= Len(a) THEN pa[i] ELSE pb[i - Len(a)]
      /\ pa \o pb = [i \in 1..Len(a) + Len(b) |-> (pa \o pb)[i]]
  <2>. DEFINE both == pa \o pb
  <2>1. /\ both \in Seq(Seq(Names)) /\ Len(both) = Len(pa) + Len(pb)
        /\ \A i \in 1..Len(pa) + Len(pb) : both[i] = IF i <= Len(pa) THEN pa[i] ELSE pb[i - Len(pa)]
    <3>1. \A p, q \in Seq(Seq(Names)) :
             /\ p \o q \in Seq(Seq(Names)) /\ Len(p \o q) = Len(p) + Len(q)
             /\ \A i \in 1..Len(p) + Len(q) : (p \o q)[i] = IF i <= Len(p) THEN p[i] ELSE q[i - Len(p)]
      OBVIOUS
    <3>. QED
      BY <1>1, <3>1, Zenon
  <2>. HIDE DEF both
  <2>2. DOMAIN both = 1..Len(both) /\ both = [i \in 1..Len(both) |-> both[i]]
    BY <2>1
  <2>3. /\ DOMAIN both = 1..Len(a) + Len(b) /\ both = [i \in 1..Len(a) + Len(b) |-> both[i]]
        /\ \A i \in 1..Len(a) + Len(b) : both[i] = IF i <= Len(a) THEN pa[i] ELSE pb[i - Len(a)]
    BY <1>3, <2>1, <2>2, Zenon
  <2>. QED
    BY <2>3 DEF both
<1>6. ASSUME NEW i \in 1..Len(a) + Len(b) PROVE (pa \o pb)[i] = <<all[i].mark, all[i].space>>
  <2>1. CASE i <= Len(a)
    <3>1. i \in 1..Len(a)
      BY <2>1
    <3>. QED
      BY <1>2, <1>4, <1>5, <2>1, <3>1
  <2>2. CASE ~(i <= Len(a))
    <3>1. i - Len(a) \in 1..Len(b)
      BY <1>2, <2>2
    <3>. QED
      BY <1>2, <1>4, <1>5, <2>2, <3>1
  <2>. QED
    BY <2>1, <2>2
<1>7. pairs(all) = pa \o pb
  BY <1>2, <1>5, <1>6
<1>8. FlattenSeq(pa \o pb) = FlattenSeq(pa) \o FlattenSeq(pb)
  BY <1>1, FlattenOfConcat
<1>. QED
  BY <1>7, <1>8 DEF PairsOf, all, pa, pb

LEMMA PairsOfOne ==
    ASSUME NEW x \in Mark PROVE PairsOf(<<x>>) = <<x.mark, x.space>>
<1>. DEFINE pair == <<x.mark, x.space>>
<1>1. x.mark \in Names /\ x.space \in Names
  BY DEF Mark, Names
<1>2. pair \in Seq(Names) /\ << >> \in Seq(Seq(Names))
  BY <1>1
<1>3. [i \in DOMAIN <<x>> |-> <<(<<x>>[i]).mark, (<<x>>[i]).space>>] = Append(<< >>, pair)
  OBVIOUS
<1>. HIDE DEF pair
<1>4. FlattenSeq(Append(<< >>, pair)) = FlattenSeq(<< >>) \o pair
  BY <1>2, FlattenOfAppend
<1>5. << >> \o pair = pair
  BY <1>2
<1>. QED
  BY <1>3, <1>4, <1>5, FlattenOfNothing DEF PairsOf, pair

LEMMA PairsOfAppend ==
    ASSUME NEW marks \in Seq(Mark), NEW x \in Mark
    PROVE  PairsOf(Append(marks, x)) = PairsOf(marks) \o <<x.mark, x.space>>
<1>1. Append(marks, x) = marks \o <<x>> /\ <<x>> \in Seq(Mark)
  OBVIOUS
<1>. QED
  BY <1>1, PairsOfConcat, PairsOfOne

\* The marks of a character, with a space after the last one.
MarkAt(c, j) == IF Representations[c][j] = 0 THEN "dot" ELSE "dash"
MarksOf(c, after) ==
    [j \in DOMAIN Representations[c] |->
        [mark |-> IF Representations[c][j] = 0 THEN "dot" ELSE "dash",
         space |-> IF j < Len(Representations[c]) THEN "ims" ELSE after]]
InnerMarks(c) == [j \in 1..Len(Representations[c]) - 1 |-> [mark |-> MarkAt(c, j), space |-> "ims"]]
LastMark(c) == MarkAt(c, Len(Representations[c]))

(* Only the space after its last mark depends on what follows a character.    *)
LEMMA LastMarkIs ==
    ASSUME NEW c \in DOMAIN Representations, NEW after \in {"ims", "ics", "iws"}
    PROVE  /\ InnerMarks(c) \in Seq(Mark) /\ LastMark(c) \in {"dot", "dash"}
           /\ [mark |-> LastMark(c), space |-> after] \in Mark
           /\ MarksOf(c, after) = Append(InnerMarks(c), [mark |-> LastMark(c), space |-> after])
           /\ MarksOf(c, after) \in Seq(Mark)
           /\ PairsOf(MarksOf(c, after)) = PairsOf(InnerMarks(c)) \o <<LastMark(c), after>>
<1>. DEFINE n == Len(Representations[c])
            last == [mark |-> LastMark(c), space |-> after]
<1>1. n \in Nat /\ n >= 1 /\ DOMAIN Representations[c] = 1..n
  <2>1. Representations[c] \in Seq({0, 1}) \ {<< >>}
    BY ElementsAssumption, Zenon
  <2>. QED
    BY <2>1
<1>2. \A j : MarkAt(c, j) \in {"dot", "dash"}
  BY DEF MarkAt
<1>3. /\ \A j : [mark |-> MarkAt(c, j), space |-> "ims"] \in Mark
      /\ LastMark(c) \in {"dot", "dash"} /\ last \in Mark
  BY <1>2 DEF Mark, LastMark
<1>4. InnerMarks(c) \in Seq(Mark) /\ Len(InnerMarks(c)) = n - 1
  BY <1>1, <1>3 DEF InnerMarks
<1>5. Append(InnerMarks(c), last) = [j \in 1..n |-> IF j = n THEN last ELSE InnerMarks(c)[j]]
  <2>1. Append(InnerMarks(c), last) =
          [j \in 1..Len(InnerMarks(c)) + 1 |-> IF j = Len(InnerMarks(c)) + 1 THEN last ELSE InnerMarks(c)[j]]
    BY <1>3, <1>4
  <2>2. Len(InnerMarks(c)) + 1 = n
    BY <1>1, <1>4
  <2>. QED
    BY <2>1, <2>2
<1>6. ASSUME NEW j \in 1..n
      PROVE  MarksOf(c, after)[j] = IF j = n THEN last ELSE InnerMarks(c)[j]
  <2>1. MarksOf(c, after)[j] = [mark |-> MarkAt(c, j), space |-> IF j < n THEN "ims" ELSE after]
    BY <1>1 DEF MarksOf, MarkAt
  <2>2. CASE j = n
    BY <1>1, <2>1, <2>2 DEF LastMark
  <2>3. CASE j # n
    <3>1. j < n /\ j \in 1..n - 1
      <4>. HIDE DEF n
      <4>. QED
        BY <1>1, <2>3
    <3>. QED
      BY <2>1, <2>3, <3>1 DEF InnerMarks
  <2>. QED
    BY <2>2, <2>3
<1>7. MarksOf(c, after) = [j \in 1..n |-> MarksOf(c, after)[j]]
  BY <1>1 DEF MarksOf
<1>8. MarksOf(c, after) = Append(InnerMarks(c), last)
  BY <1>5, <1>6, <1>7
<1>9. MarksOf(c, after) \in Seq(Mark)
  BY <1>3, <1>4, <1>8
<1>10. PairsOf(MarksOf(c, after)) = PairsOf(InnerMarks(c)) \o <<LastMark(c), after>>
  <2>1. last.mark = LastMark(c) /\ last.space = after
    OBVIOUS
  <2>. HIDE DEF last
  <2>2. PairsOf(Append(InnerMarks(c), last)) = PairsOf(InnerMarks(c)) \o <<last.mark, last.space>>
    BY <1>3, <1>4, PairsOfAppend
  <2>. QED
    BY <1>8, <2>1, <2>2
<1>. QED
  BY <1>3, <1>4, <1>8, <1>9, <1>10

EndingIn(s, a, b) == s \o <<a, b>>
EndingWith(s, x) == Front(s) \o <<x>>

(* What it takes to exchange the last element.                                *)
LEMMA EndIs ==
    ASSUME NEW s \in Seq(Names), NEW a \in Names, NEW b \in Names, NEW x \in Names
    PROVE  /\ EndingIn(s, a, b) # << >> /\ Last(EndingIn(s, a, b)) = b
           /\ EndingWith(EndingIn(s, a, b), x) = EndingIn(s, a, x)
<1>. DEFINE all == s \o <<a, b>>
            n == Len(s)
<1>1. /\ n \in Nat /\ all \in Seq(Names) /\ Len(all) = n + 2 /\ all[n + 2] = b /\ all[n + 1] = a
      /\ \A i \in 1..n : all[i] = s[i]
  OBVIOUS
<1>. HIDE DEF all, n
<1>2. all # << >> /\ Last(all) = b
  BY <1>1 DEF Last
<1>3. /\ Front(all) \in Seq(Names) /\ Len(Front(all)) = n + 1
      /\ \A i \in 1..n + 1 : Front(all)[i] = all[i]
  BY <1>1 DEF Front
<1>4. /\ Front(all) \o <<x>> \in Seq(Names) /\ Len(Front(all) \o <<x>>) = n + 2
      /\ \A i \in 1..n + 1 : (Front(all) \o <<x>>)[i] = Front(all)[i]
      /\ (Front(all) \o <<x>>)[n + 2] = x
  <2>. DEFINE f == Front(all)
  <2>. HIDE DEF f
  <2>1. f \in Seq(Names) /\ Len(f) = n + 1
    BY <1>3 DEF f
  <2>2. /\ f \o <<x>> \in Seq(Names) /\ Len(f \o <<x>>) = n + 2
        /\ \A i \in 1..n + 1 : (f \o <<x>>)[i] = f[i]
        /\ (f \o <<x>>)[n + 2] = x
    BY <1>1, <2>1
  <2>. QED
    BY <2>2 DEF f
<1>5. /\ s \o <<a, x>> \in Seq(Names) /\ Len(s \o <<a, x>>) = n + 2
      /\ \A i \in 1..n : (s \o <<a, x>>)[i] = s[i]
      /\ (s \o <<a, x>>)[n + 1] = a /\ (s \o <<a, x>>)[n + 2] = x
  BY DEF n
<1>. DEFINE one == Front(all) \o <<x>>
            other == s \o <<a, x>>
<1>. HIDE DEF one, other
<1>6. \A i \in 1..n + 2 : one[i] = other[i]
  <2>1. \A i \in 1..n : i \in 1..n + 1 /\ one[i] = other[i]
    <3>1. \A i \in 1..n : i \in 1..n + 1
      BY <1>1
    <3>2. \A i \in 1..n : one[i] = Front(all)[i] /\ Front(all)[i] = all[i]
      BY <1>3, <1>4, <3>1, Zenon DEF one
    <3>3. \A i \in 1..n : other[i] = s[i]
      BY <1>5, Zenon DEF other
    <3>4. \A i \in 1..n : all[i] = s[i]
      BY <1>1, Zenon
    <3>. QED
      BY <3>1, <3>2, <3>3, <3>4, Zenon
  <2>2. n + 1 \in 1..n + 1 /\ one[n + 1] = other[n + 1] /\ one[n + 2] = other[n + 2]
    BY <1>1, <1>3, <1>4, <1>5 DEF one, other
  <2>3. \A i \in 1..n + 2 : i \in 1..n \/ i = n + 1 \/ i = n + 2
    BY <1>1
  <2>. QED
    BY <2>1, <2>2, <2>3
<1>7. one = other
  <2>1. one \in Seq(Names) /\ other \in Seq(Names) /\ Len(one) = n + 2 /\ Len(other) = n + 2
    BY <1>4, <1>5 DEF one, other
  <2>. QED
    BY <1>6, <2>1
<1>. QED
  BY <1>2, <1>7, Zenon DEF all, one, other, EndingIn, EndingWith

\* The marks of a text: those of its characters, one after the other.
SpaceAfter(written, i) == IF i < Len(written) /\ written[i + 1] = TextBlank THEN "iws" ELSE "ics"
MarksIn(written, i) == IF written[i] = TextBlank THEN << >> ELSE MarksOf(written[i], SpaceAfter(written, i))
AllMarks(written) == FlattenSeq([i \in DOMAIN written |-> MarksIn(written, i)])

Characters == DOMAIN Representations \cup {TextBlank}

LEMMA MarksInAre ==
    ASSUME NEW written \in Seq(Characters)
    PROVE  /\ [i \in DOMAIN written |-> MarksIn(written, i)] \in Seq(Seq(Mark))
           /\ \A i \in 1..Len(written) : MarksIn(written, i) \in Seq(Mark)
<1>1. ASSUME NEW i \in 1..Len(written) PROVE MarksIn(written, i) \in Seq(Mark)
  <2>1. written[i] \in Characters /\ << >> \in Seq(Mark)
    OBVIOUS
  <2>2. CASE written[i] = TextBlank
    BY <2>1, <2>2 DEF MarksIn
  <2>3. CASE written[i] # TextBlank
    <3>1. written[i] \in DOMAIN Representations /\ SpaceAfter(written, i) \in {"ims", "ics", "iws"}
      BY <2>1, <2>3 DEF Characters, SpaceAfter
    <3>2. MarksOf(written[i], SpaceAfter(written, i)) \in Seq(Mark)
      BY <3>1, LastMarkIs
    <3>. QED
      BY <2>3, <3>2 DEF MarksIn
  <2>. QED
    BY <2>2, <2>3
<1>2. DOMAIN written = 1..Len(written) /\ Len(written) \in Nat
  OBVIOUS
<1>. QED
  BY <1>1, <1>2

LEMMA AppendIs ==
    ASSUME NEW S, NEW s \in Seq(S), NEW x \in S
    PROVE  /\ Len(s) \in Nat /\ Append(s, x) \in Seq(S) /\ Len(Append(s, x)) = Len(s) + 1
           /\ DOMAIN s = 1..Len(s) /\ DOMAIN Append(s, x) = 1..Len(s) + 1
           /\ Append(s, x)[Len(s) + 1] = x
           /\ \A i \in 1..Len(s) : Append(s, x)[i] = s[i]
           /\ Append(s, x) = [i \in 1..Len(s) + 1 |-> IF i = Len(s) + 1 THEN x ELSE s[i]]
<1>1. /\ Len(s) \in Nat /\ Append(s, x) \in Seq(S) /\ Len(Append(s, x)) = Len(s) + 1
      /\ Append(s, x)[Len(s) + 1] = x
      /\ \A i \in 1..Len(s) : Append(s, x)[i] = s[i]
  OBVIOUS
<1>2. \A q \in Seq(S) : DOMAIN q = 1..Len(q) /\ q = [i \in 1..Len(q) |-> q[i]]
  OBVIOUS
<1>. DEFINE n == Len(s)
            more == Append(s, x)
<1>3. DOMAIN s = 1..n /\ DOMAIN more = 1..n + 1 /\ more = [i \in 1..n + 1 |-> more[i]]
  BY <1>1, <1>2, Zenon
<1>. HIDE DEF n, more
<1>4. \A i \in 1..n + 1 : more[i] = IF i = n + 1 THEN x ELSE s[i]
  <2>1. \A i \in 1..n + 1 : i = n + 1 \/ (i # n + 1 /\ i \in 1..n)
    BY <1>1 DEF n
  <2>. QED
    BY <1>1, <2>1 DEF n, more
<1>. QED
  BY <1>1, <1>3, <1>4 DEF n, more

(* A character adds its marks, and leaves the others as they are.             *)
LEMMA MarksOfCharacter ==
    ASSUME NEW written \in Seq(Characters), NEW c \in DOMAIN Representations
    PROVE  AllMarks(Append(written, c)) = AllMarks(written) \o MarksOf(c, "ics")
<1>. DEFINE n == Len(written)
            more == Append(written, c)
            groups == [i \in DOMAIN written |-> MarksIn(written, i)]
<1>1. /\ n \in Nat /\ Len(more) = n + 1 /\ more[n + 1] = c
      /\ DOMAIN written = 1..n /\ DOMAIN more = 1..n + 1
      /\ \A i \in 1..n : more[i] = written[i]
  <2>1. c \in Characters
    BY DEF Characters
  <2>. QED
    BY <2>1, AppendIs
<1>2. c # TextBlank
  BY ElementsAssumption, Zenon
<1>. HIDE DEF more
<1>3. groups \in Seq(Seq(Mark)) /\ Len(groups) = n
  <2>1. groups \in Seq(Seq(Mark)) /\ DOMAIN groups = 1..n
    BY <1>1, MarksInAre
  <2>. QED
    BY <1>1, <2>1, LenProperties
<1>. HIDE DEF n
<1>4. \A i \in 1..n : MarksIn(more, i) = MarksIn(written, i)
  <2>1. ASSUME NEW i \in 1..n PROVE SpaceAfter(more, i) = SpaceAfter(written, i)
    <3>1. CASE i = n
      <4>1. more[i + 1] # TextBlank /\ ~(i < n)
        BY <1>1, <1>2, <3>1
      <4>. QED
        BY <4>1 DEF SpaceAfter, n
    <3>2. CASE i # n
      <4>1. i < n /\ i < n + 1 /\ i + 1 \in 1..n /\ more[i + 1] = written[i + 1]
        BY <1>1, <3>2
      <4>. QED
        BY <1>1, <4>1 DEF SpaceAfter, n
    <3>. QED
      BY <3>1, <3>2
  <2>. QED
    BY <1>1, <2>1 DEF MarksIn
<1>5. MarksIn(more, n + 1) = MarksOf(c, "ics")
  <2>1. SpaceAfter(more, n + 1) = "ics"
    BY <1>1 DEF SpaceAfter
  <2>. QED
    BY <1>1, <1>2, <2>1 DEF MarksIn
<1>6. MarksOf(c, "ics") \in Seq(Mark)
  BY LastMarkIs
<1>. DEFINE last == MarksOf(c, "ics")
<1>. HIDE DEF last
<1>7. [i \in DOMAIN more |-> MarksIn(more, i)] = Append(groups, last)
  <2>1. \A i \in 1..n : groups[i] = MarksIn(written, i)
    BY <1>1
  <2>. HIDE DEF groups
  <2>2. Append(groups, last) = [i \in 1..n + 1 |-> IF i = n + 1 THEN last ELSE groups[i]]
    <3>. DEFINE MM == Seq(Mark)
    <3>1. last \in MM /\ groups \in Seq(MM) /\ Len(groups) = n
      BY <1>3, <1>6 DEF last
    <3>. HIDE DEF MM
    <3>2. Append(groups, last)
            = [i \in 1..Len(groups) + 1 |-> IF i = Len(groups) + 1 THEN last ELSE groups[i]]
      BY <3>1, AppendIs
    <3>. QED
      BY <3>1, <3>2, Zenon
  <2>3. \A i \in 1..n + 1 : MarksIn(more, i) = IF i = n + 1 THEN last ELSE groups[i]
    <3>1. \A i \in 1..n + 1 : i = n + 1 \/ i \in 1..n
      BY <1>1
    <3>2. \A i \in 1..n : i # n + 1
      BY <1>1
    <3>. QED
      BY <1>4, <1>5, <2>1, <3>1, <3>2 DEF last
  <2>. QED
    BY <1>1, <2>2, <2>3
<1>. HIDE DEF groups
<1>8. FlattenSeq(Append(groups, last)) = FlattenSeq(groups) \o last
  BY <1>3, <1>6, FlattenOfAppend DEF last
<1>. QED
  BY <1>7, <1>8 DEF AllMarks, groups, last, more

\* A blank changes the space after the last mark.
LEMMA MarksOfBlank ==
    ASSUME NEW written \in Seq(Characters), written # << >>, written[Len(written)] # TextBlank
    PROVE  \E before \in Seq(Mark) : \E c \in DOMAIN Representations :
             /\ AllMarks(written) = before \o MarksOf(c, "ics")
             /\ AllMarks(Append(written, TextBlank)) = before \o MarksOf(c, "iws")
<1>. DEFINE n == Len(written)
            c == written[n]
            more == Append(written, TextBlank)
            groups == [i \in 1..n - 1 |-> MarksIn(written, i)]
<1>1. /\ n \in Nat /\ n >= 1 /\ Len(more) = n + 1 /\ more[n + 1] = TextBlank
      /\ DOMAIN written = 1..n /\ DOMAIN more = 1..n + 1
      /\ \A i \in 1..n : more[i] = written[i]
  <2>1. TextBlank \in Characters /\ n >= 1
    BY EmptySeq DEF Characters
  <2>. QED
    BY <2>1, AppendIs
<1>2. c \in DOMAIN Representations /\ c # TextBlank
  <2>1. c \in Characters /\ c # TextBlank
    BY <1>1
  <2>. HIDE DEF c
  <2>. QED
    BY <2>1 DEF Characters
<1>. HIDE DEF more
<1>3. \A i \in 1..n : MarksIn(written, i) \in Seq(Mark)
  BY MarksInAre
<1>4. groups \in Seq(Seq(Mark)) /\ Len(groups) = n - 1 /\ \A i \in 1..n - 1 : groups[i] = MarksIn(written, i)
  BY <1>1, <1>3
<1>. HIDE DEF n, c, groups
<1>5. \A i \in 1..n - 1 : MarksIn(more, i) = MarksIn(written, i)
  <2>1. ASSUME NEW i \in 1..n - 1 PROVE SpaceAfter(more, i) = SpaceAfter(written, i) /\ more[i] = written[i]
    <3>1. i < n /\ i < n + 1 /\ i + 1 \in 1..n /\ more[i + 1] = written[i + 1] /\ i \in 1..n
      BY <1>1
    <3>. QED
      BY <1>1, <3>1 DEF SpaceAfter, n
  <2>. QED
    BY <2>1 DEF MarksIn
<1>6. MarksIn(written, n) = MarksOf(c, "ics") /\ MarksIn(more, n) = MarksOf(c, "iws") /\ MarksIn(more, n + 1) = << >>
  <2>1. SpaceAfter(written, n) = "ics" /\ SpaceAfter(more, n) = "iws"
    BY <1>1 DEF SpaceAfter, n
  <2>2. more[n] = c /\ written[n] = c /\ more[n + 1] = TextBlank
    BY <1>1 DEF c
  <2>. QED
    BY <1>2, <2>1, <2>2 DEF MarksIn
<1>7. MarksOf(c, "ics") \in Seq(Mark) /\ MarksOf(c, "iws") \in Seq(Mark) /\ << >> \in Seq(Mark)
  <2>1. "ics" \in {"ims", "ics", "iws"} /\ "iws" \in {"ims", "ics", "iws"}
    OBVIOUS
  <2>2. MarksOf(c, "ics") \in Seq(Mark) /\ MarksOf(c, "iws") \in Seq(Mark)
    BY <1>2, <2>1, LastMarkIs, Zenon
  <2>. QED
    BY <2>2
<1>. DEFINE x == MarksOf(c, "ics")
            y == MarksOf(c, "iws")
            none == << >>
            long == Append(groups, y)
<1>8. x \in Seq(Mark) /\ y \in Seq(Mark) /\ none \in Seq(Mark)
  BY <1>7
<1>. HIDE DEF x, y, none
<1>9. [i \in DOMAIN written |-> MarksIn(written, i)] = Append(groups, x)
  <2>1. Append(groups, x) = [i \in 1..n |-> IF i = n THEN x ELSE groups[i]]
    <3>1. Append(groups, x) =
            [i \in 1..Len(groups) + 1 |-> IF i = Len(groups) + 1 THEN x ELSE groups[i]]
      BY <1>4, <1>8, AppendIs
    <3>2. Len(groups) + 1 = n
      BY <1>1, <1>4
    <3>. QED
      BY <3>1, <3>2
  <2>2. \A i \in 1..n : MarksIn(written, i) = IF i = n THEN x ELSE groups[i]
    <3>1. \A i \in 1..n : i # n => i \in 1..n - 1
      BY <1>1
    <3>. QED
      BY <1>4, <1>6, <3>1 DEF x
  <2>. QED
    BY <1>1, <2>1, <2>2
<1>10. long \in Seq(Seq(Mark)) /\ Len(long) = n /\ long[n] = y /\ \A i \in 1..n - 1 : long[i] = groups[i]
  BY <1>1, <1>4, <1>8
<1>. HIDE DEF long
<1>11. [i \in DOMAIN more |-> MarksIn(more, i)] = Append(long, none)
  <2>1. Append(long, none) = [i \in 1..n + 1 |-> IF i = n + 1 THEN none ELSE long[i]]
    BY <1>8, <1>10, AppendIs
  <2>2. \A i \in 1..n + 1 : MarksIn(more, i) = IF i = n + 1 THEN none ELSE long[i]
    <3>1. \A i \in 1..n + 1 : i = n + 1 \/ i = n \/ i \in 1..n - 1
      BY <1>1
    <3>2. n # n + 1 /\ \A i \in 1..n - 1 : i # n + 1
      BY <1>1
    <3>3. \A i \in 1..n - 1 : MarksIn(more, i) = long[i]
      BY <1>4, <1>5, <1>10
    <3>. QED
      BY <1>6, <1>10, <3>1, <3>2, <3>3 DEF y, none
  <2>. QED
    BY <1>1, <2>1, <2>2
<1>12. FlattenSeq(Append(groups, x)) = FlattenSeq(groups) \o x /\ FlattenSeq(long) = FlattenSeq(groups) \o y
  <2>1. FlattenSeq(Append(groups, x)) = FlattenSeq(groups) \o x
    BY <1>4, <1>8, FlattenOfAppend
  <2>2. FlattenSeq(Append(groups, y)) = FlattenSeq(groups) \o y
    BY <1>4, <1>8, FlattenOfAppend
  <2>. QED
    BY <2>1, <2>2 DEF long
<1>13. FlattenSeq(Append(long, none)) = FlattenSeq(long)
  <2>1. FlattenSeq(Append(long, none)) = FlattenSeq(long) \o none
    BY <1>8, <1>10, FlattenOfAppend
  <2>2. FlattenSeq(long) \in Seq(Mark)
    BY <1>10, FlattenedIsSequence
  <2>3. FlattenSeq(long) \o none = FlattenSeq(long)
    BY <2>2, ConcatEmptySeq DEF none
  <2>. QED
    BY <2>1, <2>3
<1>14. FlattenSeq(groups) \in Seq(Mark)
  BY <1>4, FlattenedIsSequence
<1>15. AllMarks(written) = FlattenSeq(groups) \o x /\ AllMarks(more) = FlattenSeq(groups) \o y
  BY <1>9, <1>11, <1>12, <1>13 DEF AllMarks
<1>. QED
  BY <1>2, <1>14, <1>15 DEF x, y, more

LEMMA NamesAssociated == \A p, q, r \in Seq(Names) : (p \o q) \o r = p \o (q \o r)
<1>. TAKE p, q, r \in Seq(Names)
<1>. QED
  BY ConcatAssociative, SMTT(30)

\* What the code makes of a character, and of a blank after one.
LEMMA ElementsOfCharacter ==
    ASSUME NEW c \in DOMAIN Representations
    PROVE  CharacterElements(c) = PairsOf(MarksOf(c, "ics"))
<1>. DEFINE inner == PairsOf(InnerMarks(c))
            mark == LastMark(c)
<1>1. /\ InnerMarks(c) \in Seq(Mark) /\ mark \in {"dot", "dash"}
      /\ PairsOf(MarksOf(c, "ims")) = inner \o <<mark, "ims">>
      /\ PairsOf(MarksOf(c, "ics")) = inner \o <<mark, "ics">>
  <2>1. "ics" \in {"ims", "ics", "iws"} /\ "ims" \in {"ims", "ics", "iws"}
    OBVIOUS
  <2>. QED
    BY <2>1, LastMarkIs, Zenon
<1>2. inner \in Seq(Names) /\ mark \in Names /\ "ims" \in Names /\ "ics" \in Names
  <2>1. inner \in Seq(Names)
    BY <1>1, PairsAreSequence
  <2>. HIDE DEF inner, mark
  <2>. QED
    BY <1>1, <2>1 DEF Names
<1>3. ElementsOfMarks(c) = PairsOf(MarksOf(c, "ims"))
  <2>1. DOMAIN MarksOf(c, "ims") = DOMAIN Representations[c]
    BY DEF MarksOf
  <2>2. ASSUME NEW i \in DOMAIN Representations[c]
        PROVE  /\ MarksOf(c, "ims")[i].mark = IF Representations[c][i] = 0 THEN "dot" ELSE "dash"
               /\ MarksOf(c, "ims")[i].space = "ims"
    BY DEF MarksOf
  <2>. QED
    BY <2>1, <2>2 DEF ElementsOfMarks, PairsOf
<1>. HIDE DEF inner, mark
<1>4. Front(inner \o <<mark, "ims">>) \o <<"ics">> = inner \o <<mark, "ics">>
  <2>1. EndingWith(EndingIn(inner, mark, "ims"), "ics") = EndingIn(inner, mark, "ics")
    BY <1>2, EndIs
  <2>. QED
    BY <2>1, Zenon DEF EndingIn, EndingWith
<1>. QED
  BY <1>1, <1>3, <1>4, Zenon DEF CharacterElements

LEMMA ElementsOfBlank ==
    ASSUME NEW written \in Seq(Characters), written # << >>, written[Len(written)] # TextBlank
    PROVE  BlankElements(PairsOf(AllMarks(written))) = PairsOf(AllMarks(Append(written, TextBlank)))
<1>1. PICK before \in Seq(Mark), c \in DOMAIN Representations :
             /\ AllMarks(written) = before \o MarksOf(c, "ics")
             /\ AllMarks(Append(written, TextBlank)) = before \o MarksOf(c, "iws")
  BY MarksOfBlank
<1>. DEFINE first == PairsOf(before)
            inner == PairsOf(InnerMarks(c))
            mark == LastMark(c)
            ics == MarksOf(c, "ics")
            iws == MarksOf(c, "iws")
<1>2. /\ InnerMarks(c) \in Seq(Mark) /\ mark \in {"dot", "dash"}
      /\ ics \in Seq(Mark) /\ PairsOf(ics) = inner \o <<mark, "ics">>
      /\ iws \in Seq(Mark) /\ PairsOf(iws) = inner \o <<mark, "iws">>
  <2>1. "ics" \in {"ims", "ics", "iws"} /\ "iws" \in {"ims", "ics", "iws"}
    OBVIOUS
  <2>. QED
    BY <2>1, LastMarkIs, Zenon
<1>3. first \in Seq(Names) /\ inner \in Seq(Names)
  BY <1>2, PairsAreSequence
<1>4. PairsOf(before \o ics) = first \o PairsOf(ics) /\ PairsOf(before \o iws) = first \o PairsOf(iws)
  <2>. HIDE DEF ics, iws
  <2>. QED
    BY <1>2, PairsOfConcat
<1>. HIDE DEF first, inner, mark, ics, iws
<1>5. mark \in Names /\ "ics" \in Names /\ "iws" \in Names
  BY <1>2 DEF Names
<1>6. <<mark, "ics">> \in Seq(Names) /\ <<mark, "iws">> \in Seq(Names) /\ first \o inner \in Seq(Names)
  BY <1>3, <1>5
<1>7. /\ first \o (inner \o <<mark, "ics">>) = (first \o inner) \o <<mark, "ics">>
      /\ first \o (inner \o <<mark, "iws">>) = (first \o inner) \o <<mark, "iws">>
  <2>. DEFINE p == <<mark, "ics">>
              q == <<mark, "iws">>
  <2>1. p \in Seq(Names) /\ q \in Seq(Names)
    BY <1>6
  <2>. HIDE DEF p, q
  <2>2. first \o (inner \o p) = (first \o inner) \o p /\ first \o (inner \o q) = (first \o inner) \o q
    BY <1>3, <2>1, NamesAssociated, Zenon
  <2>. QED
    BY <2>2 DEF p, q
<1>8. /\ PairsOf(AllMarks(written)) = (first \o inner) \o <<mark, "ics">>
      /\ PairsOf(AllMarks(Append(written, TextBlank))) = (first \o inner) \o <<mark, "iws">>
  BY <1>1, <1>2, <1>4, <1>7, Zenon DEF ics, iws
<1>. DEFINE all == first \o inner
<1>. HIDE DEF all
<1>9. /\ all \o <<mark, "ics">> # << >> /\ Last(all \o <<mark, "ics">>) = "ics"
      /\ Front(all \o <<mark, "ics">>) \o <<"iws">> = all \o <<mark, "iws">>
  <2>1. all \in Seq(Names)
    BY <1>6 DEF all
  <2>2. /\ EndingIn(all, mark, "ics") # << >> /\ Last(EndingIn(all, mark, "ics")) = "ics"
        /\ EndingWith(EndingIn(all, mark, "ics"), "iws") = EndingIn(all, mark, "iws")
    BY <1>5, <2>1, EndIs
  <2>. QED
    BY <2>2, Zenon DEF EndingIn, EndingWith
<1>10. IsSpace("ics")
  BY DEF IsSpace
<1>11. BlankElements(all \o <<mark, "ics">>) = all \o <<mark, "iws">>
  BY <1>9, <1>10, Zenon DEF BlankElements
<1>. QED
  BY <1>8, <1>11, Zenon DEF all

\* The elements made so far are those of the marks of the text so far.
TextInv == text_read \in Seq(Characters) /\ string_elements = PairsOf(AllMarks(text_read))

LEMMA MarksAreSequence == ASSUME NEW written \in Seq(Characters) PROVE AllMarks(written) \in Seq(Mark)
  BY MarksInAre, FlattenedIsSequence DEF AllMarks

LEMMA InitTextInv == ElementsInit => TextInv
<1>1. [i \in DOMAIN << >> |-> MarksIn(<< >>, i)] = << >>
  OBVIOUS
<1>2. AllMarks(<< >>) = << >>
  BY <1>1, FlattenOfNothing DEF AllMarks
<1>3. [i \in DOMAIN << >> |-> <<(<< >>)[i].mark, (<< >>)[i].space>>] = << >>
  OBVIOUS
<1>4. PairsOf(<< >>) = << >>
  BY <1>3, FlattenOfNothing DEF PairsOf
<1>5. << >> \in Seq(Characters)
  OBVIOUS
<1>. QED
  BY <1>2, <1>4, <1>5, Zenon DEF ElementsInit, TextInv

LEMMA CharacterKeepsText ==
    ASSUME TextInv, NEW c \in DOMAIN Representations \cup {TextBlank}, ReadCharacterOfText(c)
    PROVE  TextInv'
<1>1. /\ text_read \in Seq(Characters) /\ string_elements = PairsOf(AllMarks(text_read))
      /\ text_read' = Append(text_read, c)
      /\ string_elements' = IF c = TextBlank THEN BlankElements(string_elements)
                            ELSE string_elements \o CharacterElements(c)
  BY DEF TextInv, ReadCharacterOfText
<1>2. text_read' \in Seq(Characters)
  <2>1. c \in Characters
    BY DEF Characters
  <2>. QED
    BY <1>1, <2>1, AppendIs
<1>3. string_elements' = PairsOf(AllMarks(Append(text_read, c)))
  <2>1. CASE c = TextBlank
    <3>1. text_read # << >> /\ text_read[Len(text_read)] # TextBlank
      BY <2>1 DEF ReadCharacterOfText, Last
    <3>2. BlankElements(PairsOf(AllMarks(text_read))) = PairsOf(AllMarks(Append(text_read, TextBlank)))
      BY <1>1, <3>1, ElementsOfBlank
    <3>. QED
      BY <1>1, <2>1, <3>2, Zenon
  <2>2. CASE c # TextBlank
    <3>1. c \in DOMAIN Representations
      BY <2>2
    <3>2. AllMarks(Append(text_read, c)) = AllMarks(text_read) \o MarksOf(c, "ics")
      BY <1>1, <3>1, MarksOfCharacter
    <3>3. AllMarks(text_read) \in Seq(Mark) /\ MarksOf(c, "ics") \in Seq(Mark)
      <4>1. "ics" \in {"ims", "ics", "iws"}
        OBVIOUS
      <4>. QED
        BY <1>1, <3>1, <4>1, MarksAreSequence, LastMarkIs, Zenon
    <3>4. PairsOf(AllMarks(text_read) \o MarksOf(c, "ics")) =
            PairsOf(AllMarks(text_read)) \o PairsOf(MarksOf(c, "ics"))
      BY <3>3, PairsOfConcat
    <3>5. CharacterElements(c) = PairsOf(MarksOf(c, "ics"))
      BY <3>1, ElementsOfCharacter
    <3>. QED
      BY <1>1, <2>2, <3>2, <3>4, <3>5, Zenon
  <2>. QED
    BY <2>1, <2>2
<1>. QED
  BY <1>1, <1>2, <1>3, Zenon DEF TextInv

LEMMA TextMarksAre == TextMarks = AllMarks(text_read)
<1>1. ASSUME NEW i \in DOMAIN text_read
      PROVE  MarksIn(text_read, i) =
               IF text_read[i] = TextBlank THEN << >>
               ELSE [j \in DOMAIN Representations[text_read[i]] |->
                       [mark |-> IF Representations[text_read[i]][j] = 0 THEN "dot" ELSE "dash",
                        space |-> IF j < Len(Representations[text_read[i]]) THEN "ims"
                                  ELSE IF i < Len(text_read) /\ text_read[i + 1] = TextBlank THEN "iws" ELSE "ics"]]
  BY Zenon DEF MarksIn, MarksOf, SpaceAfter
<1>. QED
  BY <1>1, Zenon DEF TextMarks, AllMarks

\* Each step keeps what is known of the detected elements and of those of the text.
LEMMA ElementsStep ==
    ASSUME WavInv, TextInv, [ElementsNext]_elementsVars
    PROVE  WavInv' /\ TextInv'
<1>1. UNCHANGED wavVars => WavInv'
  <2>. SUFFICES ASSUME UNCHANGED wavVars PROVE WavInv'
    OBVIOUS
  <2>1. UNCHANGED <<samples, prev_state, prev_start, wav_elements, detecting>>
    BY DEF wavVars
  <2>2. WavTypes'
    BY <2>1 DEF WavInv, WavTypes
  <2>3. AlternatesSoFar'
    BY <2>1, Zenon DEF WavInv, AlternatesSoFar
  <2>4. IsMaximal(samples, Runs(samples))'
    BY <2>1, Zenon DEF WavInv
  <2>5. samples' # << >> /\ detecting' \in {"beginning", "reading"} /\ AreLong(Runs(samples')) =>
          InLastRun(Len(samples), Runs(samples))'
    BY <2>1, Zenon DEF WavInv, InLastRun
  <2>6. SignalIsDetected'
    BY <2>1, Zenon DEF WavInv, SignalIsDetected
  <2>. QED
    BY <2>2, <2>3, <2>4, <2>5, <2>6, Zenon DEF WavInv
<1>2. UNCHANGED textVars => TextInv'
  BY Zenon DEF textVars, TextInv, AllMarks
<1>3. CASE EndOfFile
  <2>1. UNCHANGED textVars
    BY <1>3 DEF EndOfFile, textVars
  <2>. QED
    BY <1>2, <1>3, <2>1, EndKeepsWav
<1>4. ASSUME NEW sample \in {0, 1}, ReadSample(sample) PROVE WavInv' /\ TextInv'
  <2>1. sample \in Sample
    BY DEF Sample
  <2>2. UNCHANGED textVars
    BY <1>4 DEF ReadSample
  <2>. QED
    BY <1>2, <1>4, <2>1, <2>2, ReadKeepsWav
<1>5. ASSUME NEW c \in DOMAIN Representations \cup {TextBlank}, ReadCharacterOfText(c)
      PROVE  WavInv' /\ TextInv'
  <2>1. UNCHANGED wavVars
    BY <1>5 DEF ReadCharacterOfText
  <2>2. TextInv'
    BY <1>5, CharacterKeepsText
  <2>. QED
    BY <1>1, <2>1, <2>2
<1>6. CASE UNCHANGED elementsVars
  <2>1. UNCHANGED wavVars /\ UNCHANGED textVars
    BY <1>6 DEF elementsVars
  <2>. QED
    BY <1>1, <1>2, <2>1
<1>. QED
  BY <1>3, <1>4, <1>5, <1>6 DEF ElementsNext

LEMMA KnownElementsAreRight == WavInv /\ TextInv => ElementsAreRight
<1>. SUFFICES ASSUME WavInv, TextInv PROVE ElementsAreRight
  OBVIOUS
<1>1. SignalIsDetected
  BY Zenon DEF WavInv
<1>2. ElementsAlternate
  BY Zenon DEF WavInv, AlternatesSoFar, ElementsAlternate
<1>3. ElementsAreOfText
  BY TextMarksAre, Zenon DEF TextInv, ElementsAreOfText, PairsOf
<1>. QED
  BY <1>1, <1>2, <1>3, Zenon DEF ElementsAreRight

LEMMA ElementsHold == ElementsSpec => []ElementsAreRight
<1>1. ElementsInit => WavInv /\ TextInv
  BY InitWavInv, InitTextInv
<1>2. WavInv /\ TextInv /\ [ElementsNext]_elementsVars => WavInv' /\ TextInv'
  BY ElementsStep
<1>. QED
  BY <1>1, <1>2, KnownElementsAreRight, PTL DEF ElementsSpec

-----------------------------------------------------------------------------
(* The dictionaries.  Reading a file is a fold of its lines and laying out a   *)
(* dictionary one of its words, in which none is lost; a section that has     *)
(* been written adds its dictionary to what has been read before it.  Lines   *)
(* are plain when a word in brackets is alone on its line, and none is blank. *)

\* Words and names of sections: what lines consist of.
WordsOfLines == UNION {{line[i] : i \in DOMAIN line} : line \in Lines}
Titles == {"", "default"} \cup {w.text : w \in WordsOfLines}
PlainWords ==
    {w \in WordsOfLines \cup {DefaultWords[i] : i \in DOMAIN DefaultWords} :
        w # Blank /\ ~w.bracketed /\ w.length \in Nat}

LinesArePlain ==
    /\ DefaultWords \in Seq(PlainWords) /\ DefaultWords # << >>
    /\ \A line \in Lines : line \in Seq(WordsOfLines) /\ (IsSection(line) \/ line \in Seq(PlainWords))

Headers == {line \in Lines : IsSection(line)} \cup {Header(t) : t \in Titles}
AnyLine == Headers \cup Seq(PlainWords)

LEMMA HeaderIs ==
    ASSUME LinesArePlain, NEW line \in Headers
    PROVE  line # << >> /\ IsSection(line) /\ line[1].text \in Titles
<1>1. CASE line \in Lines /\ IsSection(line)
  <2>1. line \in Seq(WordsOfLines) /\ Len(line) = 1
    BY <1>1, Zenon DEF LinesArePlain, IsSection
  <2>2. line[1] \in WordsOfLines /\ line # << >>
    BY <2>1
  <2>. QED
    BY <1>1, <2>2 DEF Titles
<1>2. ASSUME NEW t \in Titles, line = Header(t) PROVE line # << >> /\ IsSection(line) /\ line[1].text \in Titles
  BY <1>2 DEF Header, IsSection
<1>. QED
  BY <1>1, <1>2 DEF Headers

LEMMA PlainIs ==
    ASSUME NEW line \in Seq(PlainWords)
    PROVE  ~IsSection(line)
<1>1. CASE Len(line) = 1
  <2>1. line[1] \in PlainWords
    BY <1>1
  <2>. QED
    BY <2>1 DEF PlainWords, IsSection
<1>. QED
  BY <1>1 DEF IsSection

\* Words without blanks make a list as they are.
LEMMA PlainWordlist ==
    ASSUME NEW content \in Seq(PlainWords)
    PROVE  BuildWordlist(content) = content
<1>. DEFINE n == Len(content)
            one(c) == [i \in DOMAIN c |-> IF c[i] = Blank THEN << >> ELSE <<c[i]>>]
            single == [i \in 1..n |-> <<content[i]>>]
            T == {k \in 0..n : FlattenSeq(SubSeq(single, 1, k)) = SubSeq(content, 1, k)}
<1>1. /\ n \in Nat /\ DOMAIN content = 1..n
      /\ \A i \in 1..n : content[i] \in PlainWords
  OBVIOUS
<1>2. \A i \in 1..n : content[i] # Blank
  BY <1>1, Zenon DEF PlainWords
<1>3. one(content) = single
  BY <1>1, <1>2
<1>. HIDE DEF n
<1>4. /\ Len(single) = n /\ single \in Seq(Seq(PlainWords))
      /\ \A i \in 1..n : single[i] = <<content[i]>> /\ single[i] \in Seq(PlainWords)
  BY <1>1
<1>. HIDE DEF single
<1>5. 0 \in T
  <2>1. SubSeq(single, 1, 0) = << >> /\ SubSeq(content, 1, 0) = << >> /\ 0 \in 0..n
    BY <1>1
  <2>. QED
    BY <2>1, FlattenOfNothing
<1>6. ASSUME NEW k \in 0..n - 1, k \in T PROVE k + 1 \in T
  <2>1. k + 1 \in 1..n /\ k \in Nat /\ k + 1 \in 0..n
    BY <1>1
  <2>2. SubSeq(single, 1, k + 1) = Append(SubSeq(single, 1, k), single[k + 1])
    BY <1>1, <1>4, <2>1
  <2>3. SubSeq(content, 1, k + 1) = SubSeq(content, 1, k) \o <<content[k + 1]>>
    BY <1>1, <2>1 DEF n
  <2>4. SubSeq(single, 1, k) \in Seq(Seq(PlainWords))
    BY <1>4, <2>1
  <2>5. FlattenSeq(SubSeq(single, 1, k + 1)) = FlattenSeq(SubSeq(single, 1, k)) \o single[k + 1]
    BY <1>4, <2>1, <2>2, <2>4, FlattenOfAppend
  <2>. QED
    BY <1>4, <1>6, <2>1, <2>3, <2>5
<1>7. 0..n \subseteq T
  <2>. HIDE DEF T
  <2>. QED
    BY <1>1, <1>5, <1>6, InductionUpTo
<1>8. SubSeq(single, 1, n) = single /\ SubSeq(content, 1, n) = content /\ n \in 0..n
  BY <1>1, <1>4 DEF n
<1>9. FlattenSeq(single) = content
  <2>1. n \in T
    BY <1>7, <1>8
  <2>. QED
    BY <1>8, <2>1
<1>. QED
  BY <1>3, <1>9, Zenon DEF BuildWordlist

-----------------------------------------------------------------------------
\* Dictionaries that can be read, and the progress of reading them.
Dict == {NewDictionary(x[1], x[2]) : x \in Titles \X (Seq(PlainWords) \ {<< >>})}

LEMMA DictIs ==
    /\ \A t \in Titles : \A ws \in Seq(PlainWords) : ws # << >> => NewDictionary(t, ws) \in Dict
    /\ \A d \in Dict : /\ d.description \in Titles /\ d.words \in Seq(PlainWords) /\ d.words # << >>
                       /\ NewDictionary(d.description, d.words) = d
<1>1. ASSUME NEW t \in Titles, NEW ws \in Seq(PlainWords), ws # << >> PROVE NewDictionary(t, ws) \in Dict
  <2>1. <<t, ws>> \in Titles \X (Seq(PlainWords) \ {<< >>})
    BY <1>1
  <2>. QED
    BY <2>1 DEF Dict
<1>2. ASSUME NEW d \in Dict
      PROVE  /\ d.description \in Titles /\ d.words \in Seq(PlainWords) /\ d.words # << >>
             /\ NewDictionary(d.description, d.words) = d
  <2>1. PICK x \in Titles \X (Seq(PlainWords) \ {<< >>}) : d = NewDictionary(x[1], x[2])
    BY DEF Dict
  <2>2. x[1] \in Titles /\ x[2] \in Seq(PlainWords) /\ x[2] # << >>
    BY <2>1
  <2>3. d.description = x[1] /\ d.words = x[2]
    BY <2>1 DEF NewDictionary
  <2>. QED
    BY <2>1, <2>2, <2>3, Zenon
<1>. QED
  BY <1>1, <1>2

Progress ==
    {p \in [named : BOOLEAN, name : Titles, has_content : BOOLEAN,
            content : Seq(PlainWords), read : Seq(Dict)] :
        p.has_content => p.content # << >>}

LEMMA FinishedIs ==
    ASSUME NEW p \in Progress
    PROVE  /\ Finished(p) \in Seq(Dict)
           /\ p.has_content => /\ Finished(p) = Append(p.read, NewDictionary(p.name, p.content))
                               /\ NewDictionary(p.name, p.content) \in Dict
<1>1. /\ p.name \in Titles /\ p.has_content \in BOOLEAN /\ p.content \in Seq(PlainWords)
      /\ p.read \in Seq(Dict)
      /\ p.has_content => p.content # << >>
  BY DEF Progress
<1>2. CASE p.has_content
  <2>1. BuildWordlist(p.content) = p.content
    BY <1>1, PlainWordlist
  <2>2. NewDictionary(p.name, p.content) \in Dict
    BY <1>1, <1>2, DictIs
  <2>3. Finished(p) = Append(p.read, NewDictionary(p.name, p.content))
    BY <1>2, <2>1, Zenon DEF Finished
  <2>. QED
    BY <1>1, <2>2, <2>3
<1>3. CASE ~p.has_content
  BY <1>1, <1>3 DEF Finished
<1>. QED
  BY <1>2, <1>3

\* What has been read of a section, with more words.
WithWords(p, ws) ==
    [named |-> p.named, name |-> p.name, has_content |-> p.has_content \/ ws # << >>,
     content |-> p.content \o ws, read |-> p.read]
NewSection(p, name) ==
    [named |-> TRUE, name |-> name, has_content |-> FALSE, content |-> << >>, read |-> Finished(p)]

LEMMA ReadLineIs ==
    ASSUME LinesArePlain, NEW p \in Progress, NEW line \in AnyLine
    PROVE  /\ ReadLine(p, line) \in Progress
           /\ line \in Headers => ReadLine(p, line) = NewSection(p, line[1].text)
           /\ line \in Seq(PlainWords) /\ p.named => ReadLine(p, line) = WithWords(p, line)
<1>1. /\ p.name \in Titles /\ p.has_content \in BOOLEAN /\ p.named \in BOOLEAN
      /\ p.content \in Seq(PlainWords) /\ p.read \in Seq(Dict)
      /\ p = [named |-> p.named, name |-> p.name, has_content |-> p.has_content, content |-> p.content, read |-> p.read]
      /\ p.has_content => p.content # << >>
  BY DEF Progress
<1>2. CASE line \in Headers
  <2>1. line # << >> /\ IsSection(line) /\ line[1].text \in Titles
    BY <1>2, HeaderIs
  <2>2. line \notin Seq(PlainWords)
    BY <2>1, PlainIs
  <2>3. ReadLine(p, line) = NewSection(p, line[1].text)
    BY <2>1, Zenon DEF ReadLine, IsComment, NewSection
  <2>4. NewSection(p, line[1].text) \in Progress
    <3>1. Finished(p) \in Seq(Dict) /\ << >> \in Seq(PlainWords)
      BY FinishedIs
    <3>. QED
      BY <2>1, <3>1 DEF NewSection, Progress
  <2>. QED
    BY <2>2, <2>3, <2>4, Zenon
<1>3. CASE line \notin Headers
  <2>1. line \in Seq(PlainWords) /\ ~IsSection(line)
    BY <1>3, PlainIs DEF AnyLine
  <2>2. CASE line = << >>
    <3>1. ReadLine(p, line) = p
      BY <2>1, <2>2, Zenon DEF ReadLine, IsComment
    <3>2. p.content \o << >> = p.content
      BY <1>1
    <3>3. (p.has_content \/ line # << >>) = p.has_content
      BY <1>1, <2>2
    <3>4. WithWords(p, line) = p
      BY <1>1, <2>2, <3>2, <3>3 DEF WithWords
    <3>. QED
      BY <1>3, <3>1, <3>4, Zenon
  <2>3. CASE line # << >> /\ p.named
    <3>1. ReadLine(p, line) = [named |-> TRUE, name |-> p.name, has_content |-> TRUE,
                               content |-> p.content \o line, read |-> p.read]
      BY <2>1, <2>3, Zenon DEF ReadLine, IsComment
    <3>2. p.content \o line \in Seq(PlainWords) /\ p.content \o line # << >>
      BY <1>1, <2>1, <2>3
    <3>3. (p.has_content \/ line # << >>) = TRUE /\ p.named = TRUE
      BY <1>1, <2>3
    <3>4. WithWords(p, line) = [named |-> TRUE, name |-> p.name, has_content |-> TRUE,
                                content |-> p.content \o line, read |-> p.read]
      BY <3>3, Zenon DEF WithWords
    <3>6. ReadLine(p, line) \in Progress
      BY <1>1, <3>1, <3>2 DEF Progress
    <3>. QED
      BY <1>3, <3>1, <3>4, <3>6, Zenon
  <2>4. CASE line # << >> /\ ~p.named
    <3>1. ReadLine(p, line) = p
      BY <2>1, <2>4, Zenon DEF ReadLine, IsComment
    <3>. QED
      BY <1>3, <2>4, <3>1, Zenon
  <2>. QED
    BY <2>2, <2>3, <2>4
<1>. QED
  BY <1>2, <1>3

-----------------------------------------------------------------------------
\* Reading is a fold.
ReadLines == [x \in Progress \X AnyLine |-> ReadLine(x[1], x[2])]

LEMMA ReadStays ==
    ASSUME LinesArePlain
    PROVE  /\ StaysIn(ReadLines, Progress, AnyLine)
           /\ \A p \in Progress : \A line \in AnyLine : ReadLines[<<p, line>>] = ReadLine(p, line)
<1>1. ASSUME NEW p \in Progress, NEW line \in AnyLine
      PROVE  ReadLines[<<p, line>>] = ReadLine(p, line) /\ ReadLine(p, line) \in Progress
  <2>1. ReadLine(p, line) \in Progress
    BY ReadLineIs
  <2>2. <<p, line>> \in Progress \X AnyLine
    OBVIOUS
  <2>. QED
    BY <2>1, <2>2 DEF ReadLines
<1>. QED
  BY <1>1 DEF StaysIn

IsReading(f, lines) ==
    f = [s \in SUBSET (DOMAIN lines) |->
            IF s = {} THEN NothingRead ELSE ReadLine(f[s \ {Max(s)}], lines[Max(s)])]

LEMMA ReadingIsChosen ==
    ASSUME NEW lines
    PROVE  FoldLeft(ReadLine, NothingRead, lines) = (CHOOSE f : IsReading(f, lines))[DOMAIN lines]
  BY DEF FoldLeft, MapThenFoldSet, IsReading

LEMMA NothingIsProgress == NothingRead \in Progress /\ Finished(NothingRead) = << >>
<1>1. "" \in Titles /\ << >> \in Seq(PlainWords) /\ << >> \in Seq(Dict)
  BY DEF Titles
<1>. QED
  BY <1>1 DEF NothingRead, Progress, Finished

LEMMA ReadingIsFold ==
    ASSUME LinesArePlain, NEW lines \in Seq(AnyLine)
    PROVE  /\ CreateFromStream(lines) = Finished(FoldOf(ReadLines, NothingRead, lines))
           /\ FoldOf(ReadLines, NothingRead, lines) \in Progress
<1>. DEFINE F == ReadLines
            A == Progress
            g == Chosen(F, NothingRead, lines)
            f == CHOOSE h : IsReading(h, lines)
            O == [s \in SUBSET (DOMAIN lines) |-> ReadLine(f[s \ {Max(s)}], lines[Max(s)])]
<1>1. DOMAIN lines = 1..Len(lines) /\ Len(lines) \in Nat /\ \A k \in 1..Len(lines) : lines[k] \in AnyLine
  OBVIOUS
<1>2. StaysIn(F, A, AnyLine) /\ NothingRead \in A
  BY ReadStays, NothingIsProgress
<1>3. \A p \in A : \A line \in AnyLine : F[<<p, line>>] = ReadLine(p, line)
  BY ReadStays
<1>4. ChosenStays(g, F, A, AnyLine, NothingRead, lines)
  <2>. HIDE DEF F, A
  <2>. QED
    BY <1>2, ChosenInRange
<1>. HIDE DEF g, f, F, A
<1>5. IsReading(g, lines)
  <2>1. \A s \in SUBSET (DOMAIN lines) :
           s # {} => F[<<g[s \ {Max(s)}], lines[Max(s)]>>] = ReadLine(g[s \ {Max(s)}], lines[Max(s)])
    BY <1>3, <1>4 DEF ChosenStays
  <2>2. [s \in SUBSET (DOMAIN lines) |-> IF s = {} THEN NothingRead ELSE F[<<g[s \ {Max(s)}], lines[Max(s)]>>]]
      = [s \in SUBSET (DOMAIN lines) |-> IF s = {} THEN NothingRead ELSE ReadLine(g[s \ {Max(s)}], lines[Max(s)])]
    BY <2>1
  <2>. QED
    BY <1>4, <2>2, Zenon DEF ChosenStays, IsReading
<1>6. IsReading(f, lines)
  BY <1>5, Zenon DEF f
<1>7. Operates(f, O, NothingRead, lines)
  <2>1. \A s \in SUBSET (DOMAIN lines) : O[s] = ReadLine(f[s \ {Max(s)}], lines[Max(s)])
    OBVIOUS
  <2>. HIDE DEF O
  <2>2. [s \in SUBSET (DOMAIN lines) |-> IF s = {} THEN NothingRead ELSE O[s]]
      = [s \in SUBSET (DOMAIN lines) |-> IF s = {} THEN NothingRead ELSE ReadLine(f[s \ {Max(s)}], lines[Max(s)])]
    BY <2>1
  <2>. QED
    BY <1>6, <2>2, Zenon DEF IsReading, Operates
<1>8. AgreesWith(O, f, F, A, lines)
  <2>1. ASSUME NEW s \in SUBSET (DOMAIN lines), s # {}, f[s \ {Max(s)}] \in A
        PROVE  O[s] = F[<<f[s \ {Max(s)}], lines[Max(s)]>>]
    <3>1. Max(s) \in 1..Len(lines)
      BY <1>1, <2>1, MaxIsMember
    <3>2. O[s] = ReadLine(f[s \ {Max(s)}], lines[Max(s)])
      OBVIOUS
    <3>. HIDE DEF O
    <3>3. lines[Max(s)] \in AnyLine
      BY <1>1, <3>1
    <3>. QED
      BY <1>3, <2>1, <3>2, <3>3, Zenon
  <2>. QED
    BY <2>1 DEF AgreesWith
<1>. HIDE DEF O
<1>9. f[DOMAIN lines] = FoldOf(F, NothingRead, lines)
  BY <1>2, <1>7, <1>8, OperationFolds
<1>10. FoldOf(F, NothingRead, lines) \in A
  BY <1>2, FoldInRange
<1>. QED
  BY <1>9, <1>10, ReadingIsChosen, Zenon DEF CreateFromStream, f, F, A

LEMMA PlainAssociated == \A q, r, t \in Seq(PlainWords) : (q \o r) \o t = q \o (r \o t)
<1>. TAKE q, r, t \in Seq(PlainWords)
<1>. QED
  BY ConcatAssociative, SMTT(30)

\* The lines of a section add their words.
LEMMA WordsAreRead ==
    ASSUME LinesArePlain, NEW p \in Progress, p.named, NEW lines \in Seq(Seq(PlainWords))
    PROVE  FoldOf(ReadLines, p, lines) = WithWords(p, FlattenSeq(lines))
<1>. DEFINE n == Len(lines)
            upTo(k) == SubSeq(lines, 1, k)
            T == {k \in 0..n : FoldOf(ReadLines, p, upTo(k)) = WithWords(p, FlattenSeq(upTo(k)))}
            F == ReadLines
<1>1. /\ n \in Nat /\ \A k \in 1..n : lines[k] \in Seq(PlainWords)
      /\ \A q \in Seq(Seq(PlainWords)) : q \in Seq(AnyLine)
  BY DEF AnyLine
<1>2. /\ p.named = TRUE /\ p.has_content \in BOOLEAN /\ p.content \in Seq(PlainWords)
      /\ p = [named |-> p.named, name |-> p.name, has_content |-> p.has_content, content |-> p.content, read |-> p.read]
  BY DEF Progress
<1>3. StaysIn(F, Progress, AnyLine)
  BY ReadStays
<1>4. 0 \in T
  <2>1. upTo(0) = << >> /\ 0 \in 0..n
    BY <1>1
  <2>2. FoldOf(F, p, << >>) = p
    BY <1>3, FoldOfNothing
  <2>3. WithWords(p, << >>) = p
    <3>1. p.content \o << >> = p.content /\ (p.has_content \/ << >> # << >>) = p.has_content
      BY <1>2
    <3>. QED
      BY <1>2, <3>1 DEF WithWords
  <2>. QED
    BY <2>1, <2>2, <2>3, FlattenOfNothing
<1>5. ASSUME NEW k \in 0..n - 1, k \in T PROVE k + 1 \in T
  <2>. DEFINE q == upTo(k)
              line == lines[k + 1]
              ws == FlattenSeq(q)
              made == FoldOf(F, p, q)
  <2>1. k + 1 \in 1..n /\ k \in Nat /\ k + 1 \in 0..n
    BY <1>1
  <2>2. upTo(k + 1) = Append(q, line) /\ q \in Seq(Seq(PlainWords)) /\ line \in Seq(PlainWords)
    <3>1. \A t \in Seq(Seq(PlainWords)), j \in Nat :
             j + 1 \in 1..Len(t) => SubSeq(t, 1, j + 1) = Append(SubSeq(t, 1, j), t[j + 1])
      OBVIOUS
    <3>2. upTo(k + 1) = Append(q, line)
      BY <2>1, <3>1
    <3>3. q \in Seq(Seq(PlainWords))
      BY <2>1
    <3>. QED
      BY <1>1, <2>1, <3>2, <3>3
  <2>3. made = WithWords(p, ws)
    BY <1>5
  <2>. HIDE DEF q, line
  <2>4. q \in Seq(AnyLine) /\ line \in AnyLine
    BY <1>1, <2>2 DEF AnyLine
  <2>5. made \in Progress
    BY <1>3, <2>4, FoldInRange
  <2>6. FoldOf(F, p, Append(q, line)) = F[<<made, line>>]
    BY <1>3, <2>4, FoldOfAppend
  <2>7. F[<<made, line>>] = ReadLine(made, line)
    BY <2>4, <2>5, ReadStays
  <2>8. ws \in Seq(PlainWords) /\ FlattenSeq(Append(q, line)) = ws \o line
    BY <2>2, FlattenedIsSequence, FlattenOfAppend
  <2>. HIDE DEF made, ws
  <2>9. made.named /\ made.content = p.content \o ws /\ made.read = p.read /\ made.name = p.name
        /\ made.has_content = (p.has_content \/ ws # << >>)
    BY <1>2, <2>3 DEF WithWords
  <2>10. ReadLine(made, line) = WithWords(made, line)
    BY <2>2, <2>4, <2>5, <2>9, ReadLineIs
  <2>11. WithWords(made, line) = WithWords(p, ws \o line)
    <3>1. (p.content \o ws) \o line = p.content \o (ws \o line)
      BY <1>2, <2>2, <2>8, PlainAssociated, Zenon
    <3>2. ws \o line # << >> <=> ws # << >> \/ line # << >>
      BY <2>2, <2>8
    <3>3. (made.has_content \/ line # << >>) = (p.has_content \/ ws \o line # << >>)
      BY <2>9, <3>2
    <3>4. made.named = p.named
      BY <2>3 DEF WithWords
    <3>. QED
      BY <2>9, <3>1, <3>3, <3>4, Zenon DEF WithWords
  <2>. QED
    BY <2>1, <2>2, <2>6, <2>7, <2>8, <2>10, <2>11
<1>6. 0..n \subseteq T
  <2>. HIDE DEF T
  <2>. QED
    BY <1>1, <1>4, <1>5, InductionUpTo
<1>7. upTo(n) = lines /\ n \in 0..n
  BY <1>1
<1>. QED
  BY <1>6, <1>7

-----------------------------------------------------------------------------
\* Laying out words is a fold, which leaves none out and keeps their order.
Layout == [lines : Seq(Seq(PlainWords)), line : Seq(PlainWords), chars : Int]
EmptyLayout == [lines |-> << >>, line |-> << >>, chars |-> 0]
LaidOut(p) == FlattenSeq(p.lines) \o p.line

AddWords == [x \in Layout \X PlainWords |-> AddWord(x[1], x[2])]

LEMMA WordIsAdded ==
    ASSUME NEW p \in Layout, NEW w \in PlainWords
    PROVE  /\ AddWord(p, w) \in Layout
           /\ LaidOut(p) \in Seq(PlainWords)
           /\ LaidOut(AddWord(p, w)) = Append(LaidOut(p), w)
<1>. DEFINE c == p.chars + w.length + 1
            line == Append(p.line, w)
            longer == Append(p.lines, line)
            flat == FlattenSeq(p.lines)
<1>1. p.lines \in Seq(Seq(PlainWords)) /\ p.line \in Seq(PlainWords) /\ p.chars \in Int
  BY DEF Layout
<1>2. w.length \in Nat
  BY DEF PlainWords
<1>3. c \in Int
  BY <1>1, <1>2
<1>4. line \in Seq(PlainWords) /\ << >> \in Seq(PlainWords)
  BY <1>1
<1>5. longer \in Seq(Seq(PlainWords))
  BY <1>1, <1>4
<1>6. flat \in Seq(PlainWords)
  BY <1>1, FlattenedIsSequence
<1>7. FlattenSeq(longer) = flat \o line
  <2>. HIDE DEF line
  <2>. QED
    BY <1>1, <1>4, FlattenOfAppend
<1>8. LaidOut(p) = flat \o p.line /\ LaidOut(p) \in Seq(PlainWords)
  <2>. DEFINE l == p.line
  <2>1. l \in Seq(PlainWords)
    BY <1>1
  <2>. HIDE DEF l, flat
  <2>2. flat \o l \in Seq(PlainWords)
    BY <1>6, <2>1
  <2>. QED
    BY <2>2 DEF LaidOut, l, flat
<1>9. flat \o line = Append(flat \o p.line, w)
  <2>. DEFINE l == p.line
  <2>1. l \in Seq(PlainWords)
    BY <1>1
  <2>. HIDE DEF l, flat
  <2>2. flat \o Append(l, w) = Append(flat \o l, w)
    BY <1>6, <2>1, AppendedToConcat
  <2>. QED
    BY <2>2 DEF l
<1>. HIDE DEF c, line, longer, flat
<1>10. CASE c > LineWidth
  <2>1. AddWord(p, w) = [lines |-> longer, line |-> << >>, chars |-> 0]
    BY <1>10, Zenon DEF AddWord, c, line, longer
  <2>2. LaidOut(AddWord(p, w)) = FlattenSeq(longer) \o << >>
    BY <2>1 DEF LaidOut
  <2>3. (flat \o line) \o << >> = flat \o line
    BY <1>4, <1>6
  <2>4. AddWord(p, w) \in Layout
    BY <1>4, <1>5, <2>1 DEF Layout
  <2>. QED
    BY <1>7, <1>8, <1>9, <2>2, <2>3, <2>4, Zenon
<1>11. CASE ~(c > LineWidth)
  <2>1. AddWord(p, w) = [lines |-> p.lines, line |-> line, chars |-> c]
    BY <1>11, Zenon DEF AddWord, c, line
  <2>2. LaidOut(AddWord(p, w)) = flat \o line
    BY <2>1 DEF LaidOut, flat
  <2>3. AddWord(p, w) \in Layout
    BY <1>1, <1>3, <1>4, <2>1 DEF Layout
  <2>. QED
    BY <1>8, <1>9, <2>2, <2>3, Zenon
<1>. QED
  BY <1>10, <1>11

LEMMA AddStays ==
    /\ StaysIn(AddWords, Layout, PlainWords)
    /\ \A p \in Layout : \A w \in PlainWords : AddWords[<<p, w>>] = AddWord(p, w)
    /\ EmptyLayout \in Layout /\ LaidOut(EmptyLayout) = << >>
<1>1. ASSUME NEW p \in Layout, NEW w \in PlainWords
      PROVE  AddWords[<<p, w>>] = AddWord(p, w) /\ AddWord(p, w) \in Layout
  <2>1. AddWord(p, w) \in Layout
    BY WordIsAdded
  <2>2. <<p, w>> \in Layout \X PlainWords
    OBVIOUS
  <2>. QED
    BY <2>1, <2>2 DEF AddWords
<1>2. EmptyLayout \in Layout
  <2>1. << >> \in Seq(Seq(PlainWords)) /\ << >> \in Seq(PlainWords) /\ 0 \in Int
    OBVIOUS
  <2>. QED
    BY <2>1 DEF EmptyLayout, Layout
<1>3. LaidOut(EmptyLayout) = << >>
  <2>1. << >> \in Seq(PlainWords)
    OBVIOUS
  <2>2. << >> \o << >> = << >>
    BY <2>1, ConcatEmptySeq
  <2>. QED
    BY <2>2, FlattenOfNothing DEF EmptyLayout, LaidOut
<1>. QED
  BY <1>1, <1>2, <1>3 DEF StaysIn

IsLayingOut(f, words) ==
    f = [s \in SUBSET (DOMAIN words) |->
            IF s = {} THEN EmptyLayout ELSE AddWord(f[s \ {Max(s)}], words[Max(s)])]

LEMMA LayoutIsChosen ==
    ASSUME NEW words
    PROVE  FoldLeft(AddWord, EmptyLayout, words) = (CHOOSE f : IsLayingOut(f, words))[DOMAIN words]
  BY DEF FoldLeft, MapThenFoldSet, IsLayingOut

LEMMA LayoutIsFold ==
    ASSUME NEW words \in Seq(PlainWords)
    PROVE  FoldLeft(AddWord, EmptyLayout, words) = FoldOf(AddWords, EmptyLayout, words)
<1>. DEFINE F == AddWords
            A == Layout
            g == Chosen(F, EmptyLayout, words)
            f == CHOOSE h : IsLayingOut(h, words)
            O == [s \in SUBSET (DOMAIN words) |-> AddWord(f[s \ {Max(s)}], words[Max(s)])]
<1>1. DOMAIN words = 1..Len(words) /\ Len(words) \in Nat /\ \A k \in 1..Len(words) : words[k] \in PlainWords
  OBVIOUS
<1>2. StaysIn(F, A, PlainWords) /\ EmptyLayout \in A
  BY AddStays
<1>3. \A p \in A : \A w \in PlainWords : F[<<p, w>>] = AddWord(p, w)
  BY AddStays
<1>4. ChosenStays(g, F, A, PlainWords, EmptyLayout, words)
  <2>. HIDE DEF F, A
  <2>. QED
    BY <1>2, ChosenInRange
<1>. HIDE DEF g, f, F, A
<1>5. IsLayingOut(g, words)
  <2>1. \A s \in SUBSET (DOMAIN words) :
           s # {} => F[<<g[s \ {Max(s)}], words[Max(s)]>>] = AddWord(g[s \ {Max(s)}], words[Max(s)])
    BY <1>3, <1>4 DEF ChosenStays
  <2>2. [s \in SUBSET (DOMAIN words) |-> IF s = {} THEN EmptyLayout ELSE F[<<g[s \ {Max(s)}], words[Max(s)]>>]]
      = [s \in SUBSET (DOMAIN words) |-> IF s = {} THEN EmptyLayout ELSE AddWord(g[s \ {Max(s)}], words[Max(s)])]
    BY <2>1
  <2>. QED
    BY <1>4, <2>2, Zenon DEF ChosenStays, IsLayingOut
<1>6. IsLayingOut(f, words)
  BY <1>5, Zenon DEF f
<1>7. Operates(f, O, EmptyLayout, words)
  <2>1. \A s \in SUBSET (DOMAIN words) : O[s] = AddWord(f[s \ {Max(s)}], words[Max(s)])
    OBVIOUS
  <2>. HIDE DEF O
  <2>2. [s \in SUBSET (DOMAIN words) |-> IF s = {} THEN EmptyLayout ELSE O[s]]
      = [s \in SUBSET (DOMAIN words) |-> IF s = {} THEN EmptyLayout ELSE AddWord(f[s \ {Max(s)}], words[Max(s)])]
    BY <2>1
  <2>. QED
    BY <1>6, <2>2, Zenon DEF IsLayingOut, Operates
<1>8. AgreesWith(O, f, F, A, words)
  <2>1. ASSUME NEW s \in SUBSET (DOMAIN words), s # {}, f[s \ {Max(s)}] \in A
        PROVE  O[s] = F[<<f[s \ {Max(s)}], words[Max(s)]>>]
    <3>1. Max(s) \in 1..Len(words)
      BY <1>1, <2>1, MaxIsMember
    <3>2. O[s] = AddWord(f[s \ {Max(s)}], words[Max(s)])
      OBVIOUS
    <3>. HIDE DEF O
    <3>3. words[Max(s)] \in PlainWords
      BY <1>1, <3>1
    <3>. QED
      BY <1>3, <2>1, <3>2, <3>3, Zenon
  <2>. QED
    BY <2>1 DEF AgreesWith
<1>. HIDE DEF O
<1>9. f[DOMAIN words] = FoldOf(F, EmptyLayout, words)
  BY <1>2, <1>7, <1>8, OperationFolds
<1>. QED
  BY <1>9, LayoutIsChosen, Zenon DEF f, F

LEMMA WordsAreLaidOut ==
    ASSUME NEW words \in Seq(PlainWords)
    PROVE  /\ FoldOf(AddWords, EmptyLayout, words) \in Layout
           /\ LaidOut(FoldOf(AddWords, EmptyLayout, words)) = words
<1>. DEFINE n == Len(words)
            F == AddWords
            upTo(k) == SubSeq(words, 1, k)
            made(k) == FoldOf(F, EmptyLayout, upTo(k))
            T == {k \in 0..n : LaidOut(made(k)) = upTo(k)}
<1>1. n \in Nat /\ \A k \in 1..n : words[k] \in PlainWords
  OBVIOUS
<1>2. StaysIn(F, Layout, PlainWords) /\ EmptyLayout \in Layout
  BY AddStays
<1>. HIDE DEF F
<1>3. 0 \in T
  <2>1. upTo(0) = << >> /\ 0 \in 0..n
    BY <1>1
  <2>2. FoldOf(F, EmptyLayout, << >>) = EmptyLayout
    BY <1>2, FoldOfNothing
  <2>. QED
    BY <2>1, <2>2, AddStays
<1>4. ASSUME NEW k \in 0..n - 1, k \in T PROVE k + 1 \in T
  <2>. DEFINE q == upTo(k)
              w == words[k + 1]
              p == FoldOf(F, EmptyLayout, q)
  <2>1. k + 1 \in 1..n /\ k \in Nat /\ k + 1 \in 0..n
    BY <1>1
  <2>2. upTo(k + 1) = Append(q, w) /\ q \in Seq(PlainWords) /\ w \in PlainWords
    BY <1>1, <2>1
  <2>3. LaidOut(p) = q
    BY <1>4
  <2>. HIDE DEF q, w
  <2>4. p \in Layout
    BY <1>2, <2>2, FoldInRange
  <2>5. FoldOf(F, EmptyLayout, Append(q, w)) = F[<<p, w>>]
    BY <1>2, <2>2, FoldOfAppend
  <2>. HIDE DEF p
  <2>6. F[<<p, w>>] = AddWord(p, w)
    BY <2>2, <2>4, AddStays DEF F
  <2>7. LaidOut(AddWord(p, w)) = Append(q, w)
    BY <2>2, <2>3, <2>4, WordIsAdded
  <2>8. LaidOut(made(k + 1)) = upTo(k + 1)
    BY <2>2, <2>5, <2>6, <2>7, Zenon
  <2>. QED
    BY <2>1, <2>8
<1>5. 0..n \subseteq T
  <2>. HIDE DEF T
  <2>. QED
    BY <1>1, <1>3, <1>4, InductionUpTo
<1>6. upTo(n) = words /\ n \in 0..n
  BY <1>1
<1>7. FoldOf(F, EmptyLayout, words) \in Layout
  BY <1>2, FoldInRange
<1>. QED
  BY <1>5, <1>6, <1>7 DEF F

\* A section that has been written adds its dictionary when it is read.
LEMMA DictionaryIsRead ==
    ASSUME LinesArePlain, NEW p \in Progress, NEW d \in Dict
    PROVE  /\ WrittenDictionary(d) \in Seq(AnyLine)
           /\ FoldOf(ReadLines, p, WrittenDictionary(d)) \in Progress
           /\ Finished(FoldOf(ReadLines, p, WrittenDictionary(d))) = Append(Finished(p), d)
<1>. DEFINE F == ReadLines
            title == d.description
            head == Header(title)
            layout == FoldLeft(AddWord, EmptyLayout, d.words)
            none == << >>
            body == <<none>> \o layout.lines \o <<layout.line, none>>
            written == WrittenDictionary(d)
            section == NewSection(p, title)
            q == FoldOf(F, p, written)
<1>1. title \in Titles /\ d.words \in Seq(PlainWords) /\ d.words # << >> /\ NewDictionary(title, d.words) = d
  BY DictIs
<1>2. layout \in Layout /\ LaidOut(layout) = d.words
  BY <1>1, LayoutIsFold, WordsAreLaidOut, Zenon
<1>3. written = <<head, none>> \o layout.lines \o <<layout.line, none>>
  BY Zenon DEF WrittenDictionary, EmptyLayout
<1>. HIDE DEF layout
<1>4. layout.lines \in Seq(Seq(PlainWords)) /\ layout.line \in Seq(PlainWords)
  BY <1>2 DEF Layout
<1>5. none \in Seq(PlainWords)
  OBVIOUS
<1>6. head \in Headers /\ head \in AnyLine /\ head[1].text = title
  BY <1>1 DEF Headers, AnyLine, Header
<1>7. body \in Seq(Seq(PlainWords)) /\ FlattenSeq(body) = d.words
  <2>1. /\ body \in Seq(Seq(PlainWords))
        /\ FlattenSeq(body) = FlattenSeq(layout.lines) \o layout.line
    BY <1>4, FlattenOfFramed
  <2>. QED
    BY <1>2, <2>1, Zenon DEF LaidOut
<1>8. written = <<head>> \o body
  <2>. DEFINE ls == layout.lines
              l == layout.line
  <2>1. \A r \in Seq(PlainWords) : r \in AnyLine
    BY DEF AnyLine
  <2>2. ls \in Seq(AnyLine) /\ l \in AnyLine /\ none \in AnyLine
    <3>1. \A k \in 1..Len(ls) : ls[k] \in AnyLine
      BY <1>4, <2>1
    <3>2. ls \in Seq(AnyLine)
      <4>1. ls \in [1..Len(ls) -> AnyLine] /\ Len(ls) \in Nat
        BY <1>4, <3>1
      <4>. QED
        BY <4>1
    <3>. QED
      BY <1>4, <1>5, <2>1, <3>2
  <2>. DEFINE A == AnyLine
  <2>. HIDE DEF ls, l, none, head
  <2>4. head \in A /\ none \in A /\ l \in A /\ ls \in Seq(A)
    BY <1>6, <2>2
  <2>. HIDE DEF A
  <2>3. InFrame(head, none, ls, l) = <<head>> \o InRest(none, ls, l)
    BY <2>4, Framed
  <2>. QED
    BY <1>3, <2>3, Zenon DEF ls, l, InFrame, InRest
<1>9. body \in Seq(AnyLine)
  <2>1. \A r \in Seq(Seq(PlainWords)) : r \in Seq(AnyLine)
    BY DEF AnyLine
  <2>. HIDE DEF body
  <2>. QED
    BY <1>7, <2>1
<1>. HIDE DEF body, head, title, written
<1>10. <<head>> \in Seq(AnyLine)
  BY <1>6
<1>11. written \in Seq(AnyLine)
  BY <1>8, <1>9, <1>10
<1>12. StaysIn(F, Progress, AnyLine)
  BY ReadStays
<1>13. FoldOf(F, p, <<head>>) = section /\ section \in Progress
  <2>1. FoldOf(F, p, <<head>>) = F[<<p, head>>]
    BY <1>6, <1>12, FoldOfOne
  <2>2. F[<<p, head>>] = ReadLine(p, head)
    BY <1>6, ReadStays
  <2>3. ReadLine(p, head) = section /\ ReadLine(p, head) \in Progress
    BY <1>6, ReadLineIs
  <2>. QED
    BY <2>1, <2>2, <2>3, Zenon
<1>14. section.named /\ section.read = Finished(p) /\ section.name = title /\ section.content = << >>
  BY DEF NewSection
<1>15. q = FoldOf(F, section, body)
  <2>1. FoldOf(F, p, <<head>> \o body) = FoldOf(F, FoldOf(F, p, <<head>>), body)
    <3>. DEFINE one == <<head>>
    <3>1. one \in Seq(AnyLine)
      BY <1>10
    <3>. HIDE DEF one, F
    <3>2. FoldOf(F, p, one \o body) = FoldOf(F, FoldOf(F, p, one), body)
      BY <1>9, <1>12, <3>1, FoldGoesOn
    <3>. QED
      BY <3>2 DEF one
  <2>. QED
    BY <1>8, <1>13, <2>1, Zenon
<1>. HIDE DEF section
<1>16. q = WithWords(section, d.words)
  BY <1>7, <1>13, <1>14, <1>15, WordsAreRead
<1>17. q \in Progress
  BY <1>11, <1>12, FoldInRange
<1>18. q.has_content /\ q.content = d.words /\ q.name = title /\ q.read = Finished(p)
  <2>1. << >> \o d.words = d.words
    BY <1>1
  <2>. HIDE DEF q
  <2>. QED
    BY <1>1, <1>14, <1>16, <2>1 DEF WithWords
<1>. HIDE DEF q
<1>19. Finished(q) = Append(Finished(p), d)
  BY <1>1, <1>17, <1>18, FinishedIs
<1>. QED
  BY <1>11, <1>17, <1>19 DEF q, written

\* What has been written is read.
LEMMA WrittenIsReadBack ==
    ASSUME LinesArePlain, NEW ds \in Seq(Dict)
    PROVE  Written(ds) \in Seq(AnyLine) /\ CreateFromStream(Written(ds)) = ds
<1>. DEFINE n == Len(ds)
            F == ReadLines
            parts == [i \in 1..n |-> WrittenDictionary(ds[i])]
            upTo(k) == FlattenSeq(SubSeq(parts, 1, k))
            made(k) == FoldOf(F, NothingRead, upTo(k))
            T == {k \in 0..n : Finished(made(k)) = SubSeq(ds, 1, k)}
<1>1. n \in Nat /\ DOMAIN ds = 1..n /\ \A k \in 1..n : ds[k] \in Dict
  OBVIOUS
<1>2. \A k \in 1..n : WrittenDictionary(ds[k]) \in Seq(AnyLine)
  BY <1>1, DictionaryIsRead, NothingIsProgress
<1>3. Written(ds) = FlattenSeq(parts)
  BY <1>1, Zenon DEF Written
<1>4. /\ Len(parts) = n /\ parts \in Seq(Seq(AnyLine))
      /\ \A k \in 1..n : parts[k] = WrittenDictionary(ds[k])
  <2>. DEFINE LL == Seq(AnyLine)
  <2>1. \A k \in 1..n : WrittenDictionary(ds[k]) \in LL
    BY <1>2
  <2>. HIDE DEF LL, n
  <2>2. parts \in [1..n -> LL] /\ \A k \in 1..n : parts[k] = WrittenDictionary(ds[k])
    BY <2>1
  <2>. HIDE DEF parts
  <2>3. parts \in Seq(LL) /\ Len(parts) = n
    BY <1>1, <2>2
  <2>. QED
    BY <2>2, <2>3 DEF LL
<1>. HIDE DEF parts, n
<1>5. StaysIn(F, Progress, AnyLine) /\ NothingRead \in Progress /\ Finished(NothingRead) = << >>
  BY ReadStays, NothingIsProgress
<1>. HIDE DEF F
<1>6. 0 \in T
  <2>1. SubSeq(parts, 1, 0) = << >> /\ SubSeq(ds, 1, 0) = << >> /\ 0 \in 0..n
    BY <1>1, <1>4
  <2>2. upTo(0) = << >>
    BY <2>1, FlattenOfNothing
  <2>3. FoldOf(F, NothingRead, << >>) = NothingRead
    BY <1>5, FoldOfNothing
  <2>. QED
    BY <1>5, <2>1, <2>2, <2>3
<1>7. ASSUME NEW k \in 0..n - 1, k \in T PROVE k + 1 \in T
  <2>. DEFINE u == SubSeq(parts, 1, k)
              x == parts[k + 1]
              d == ds[k + 1]
              s == FlattenSeq(u)
              p == FoldOf(F, NothingRead, s)
              LL == Seq(AnyLine)
  <2>1. k + 1 \in 1..n /\ k \in Nat /\ k + 1 \in 0..n
    BY <1>1
  <2>2. d \in Dict /\ x = WrittenDictionary(d)
    BY <1>1, <1>4, <2>1
  <2>3. SubSeq(parts, 1, k + 1) = Append(u, x)
    <3>1. \A t \in Seq(LL), j \in Nat :
             j + 1 \in 1..Len(t) => SubSeq(t, 1, j + 1) = Append(SubSeq(t, 1, j), t[j + 1])
      OBVIOUS
    <3>. QED
      BY <1>4, <2>1, <3>1
  <2>4. SubSeq(ds, 1, k + 1) = Append(SubSeq(ds, 1, k), d)
    BY <1>1, <2>1 DEF n
  <2>5. x \in LL
    BY <1>4, <2>1
  <2>6. u \in Seq(LL)
    <3>. HIDE DEF LL
    <3>. QED
      BY <1>4, <2>1 DEF LL
  <2>7. Finished(p) = SubSeq(ds, 1, k)
    BY <1>7
  <2>. HIDE DEF u, x, d
  <2>8. FlattenSeq(Append(u, x)) = s \o x
    BY <2>5, <2>6, FlattenOfAppend
  <2>9. s \in Seq(AnyLine)
    BY <2>6, FlattenedIsSequence
  <2>. HIDE DEF s, LL
  <2>10. FoldOf(F, NothingRead, s \o x) = FoldOf(F, p, x)
    BY <1>5, <2>5, <2>9, FoldGoesOn DEF LL
  <2>11. p \in Progress
    BY <1>5, <2>9, FoldInRange
  <2>. HIDE DEF p
  <2>12. Finished(FoldOf(F, p, x)) = Append(Finished(p), d)
    BY <2>2, <2>11, DictionaryIsRead DEF F
  <2>13. Finished(made(k + 1)) = SubSeq(ds, 1, k + 1)
    BY <2>3, <2>4, <2>7, <2>8, <2>10, <2>12, Zenon
  <2>. QED
    BY <2>1, <2>13
<1>8. 0..n \subseteq T
  <2>. HIDE DEF T
  <2>. QED
    BY <1>1, <1>6, <1>7, InductionUpTo
<1>9. SubSeq(parts, 1, n) = parts /\ SubSeq(ds, 1, n) = ds /\ n \in 0..n
  <2>1. SubSeq(ds, 1, n) = ds /\ n \in 0..n
    BY <1>1 DEF n
  <2>2. \A t \in Seq(Seq(AnyLine)) : SubSeq(t, 1, Len(t)) = t
    OBVIOUS
  <2>. QED
    BY <1>4, <2>1, <2>2
<1>10. Finished(FoldOf(F, NothingRead, FlattenSeq(parts))) = ds
  <2>1. n \in T
    BY <1>8, <1>9
  <2>. QED
    BY <1>9, <2>1, Zenon
<1>11. FlattenSeq(parts) \in Seq(AnyLine)
  BY <1>4, FlattenedIsSequence
<1>. QED
  BY <1>3, <1>10, <1>11, ReadingIsFold DEF F

-----------------------------------------------------------------------------
LEMMA StreamsAreLines ==
    ASSUME LinesArePlain, NEW stream \in BoundedSeq(Lines, MaxLines)
    PROVE  stream \in Seq(AnyLine)
<1>1. PICK m \in 0..MaxLines : stream \in [1..m -> Lines]
  BY DEF BoundedSeq, SeqOf
<1>2. \A line \in Lines : line \in AnyLine
  BY DEF LinesArePlain, AnyLine, Headers
<1>3. m \in Nat
  BY DictionariesAssumption
<1>. QED
  BY <1>1, <1>2, <1>3

LEMMA CreatedIs ==
    ASSUME LinesArePlain, NEW lines \in Seq(AnyLine)
    PROVE  CreateFromStream(lines) \in Seq(Dict)
  BY ReadingIsFold, FinishedIs

LEMMA DefaultIs ==
    ASSUME LinesArePlain
    PROVE  DefaultDictionaries \in Seq(Dict) /\ DefaultDictionaries # << >>
<1>1. NewDictionary("default", DefaultWords) \in Dict
  BY DictIs DEF Titles, LinesArePlain
<1>. QED
  BY <1>1 DEF DefaultDictionaries

\* The dictionaries have words, the file has been written, and what has been
\* asked is there.
DictionariesInv ==
    /\ dictionaries \in Seq(Dict)
    /\ \E ds \in Seq(Dict) : file = Written(ds)
    /\ asked \in 0..Len(dictionaries)

LEMMA DictionariesStart == DictionariesInit => DictionariesInv
<1>. SUFFICES ASSUME DictionariesInit PROVE DictionariesInv
  OBVIOUS
<1>. DEFINE none == << >>
<1>1. dictionaries = none /\ file = none /\ asked = 0
  BY DEF DictionariesInit
<1>2. none \in Seq(Dict) /\ Len(none) = 0 /\ DOMAIN none = {}
  OBVIOUS
<1>3. Written(none) = none
  <2>1. [i \in DOMAIN none |-> WrittenDictionary(none[i])] = none
    OBVIOUS
  <2>. QED
    BY <2>1, FlattenOfNothing, Zenon DEF Written
<1>4. \E ds \in Seq(Dict) : file = Written(ds)
  BY <1>1, <1>2, <1>3, Zenon
<1>. QED
  BY <1>1, <1>2, <1>4 DEF DictionariesInv

LEMMA ReadKeeps ==
    ASSUME LinesArePlain, DictionariesInv, NEW stream \in Seq(AnyLine), Read(stream)
    PROVE  DictionariesInv'
<1>. DEFINE made == CreateFromStream(stream)
<1>1. made \in Seq(Dict)
  BY CreatedIs
<1>2. /\ dictionaries' = IF made = << >> THEN dictionaries ELSE made
      /\ asked' = IF made = << >> THEN asked ELSE 0
      /\ file' = file
  BY DEF Read
<1>. HIDE DEF made
<1>3. CASE made = << >>
  BY <1>2, <1>3 DEF DictionariesInv
<1>4. CASE made # << >>
  BY <1>1, <1>2, <1>4 DEF DictionariesInv
<1>. QED
  BY <1>3, <1>4

LEMMA DictionariesGoOn ==
    ASSUME LinesArePlain, DictionariesInv, [DictionariesNext]_dictionariesVars
    PROVE  DictionariesInv'
<1>1. /\ dictionaries \in Seq(Dict) /\ asked \in 0..Len(dictionaries)
      /\ OrDefault \in Seq(Dict) /\ OrDefault # << >>
      /\ dictionaries # << >> => OrDefault = dictionaries
  BY DefaultIs DEF DictionariesInv, OrDefault
<1>2. ASSUME NEW stream \in BoundedSeq(Lines, MaxLines), Read(stream) PROVE DictionariesInv'
  BY <1>2, StreamsAreLines, ReadKeeps
<1>3. CASE Read(file)
  <2>1. file \in Seq(AnyLine)
    BY WrittenIsReadBack DEF DictionariesInv
  <2>. QED
    BY <1>3, <2>1, ReadKeeps
<1>4. CASE Write
  <2>1. dictionaries' = OrDefault /\ file' = Written(OrDefault) /\ asked' = asked
    BY <1>4 DEF Write
  <2>2. asked \in 0..Len(OrDefault)
    BY <1>1
  <2>. QED
    BY <1>1, <2>1, <2>2, Zenon DEF DictionariesInv
<1>5. CASE GetRandomWord
  <2>1. dictionaries' = OrDefault /\ file' = file /\ asked' \in DOMAIN OrDefault
    BY <1>5 DEF GetRandomWord
  <2>2. asked' \in 0..Len(OrDefault)
    BY <1>1, <2>1
  <2>. QED
    BY <1>1, <2>1, <2>2, Zenon DEF DictionariesInv
<1>6. CASE Unload
  <2>1. << >> \in Seq(Dict) /\ 0 \in 0..Len(<< >>)
    OBVIOUS
  <2>. QED
    BY <1>6, <2>1 DEF Unload, DictionariesInv
<1>7. CASE UNCHANGED dictionariesVars
  BY <1>7 DEF dictionariesVars, DictionariesInv
<1>. QED
  BY <1>2, <1>3, <1>4, <1>5, <1>6, <1>7 DEF DictionariesNext

LEMMA KnownDictionariesAreKept ==
    ASSUME LinesArePlain, DictionariesInv
    PROVE  DictionariesAreKept
<1>1. dictionaries \in Seq(Dict) /\ asked \in 0..Len(dictionaries)
  BY DEF DictionariesInv
<1>2. WrittenIsRead
  BY <1>1, WrittenIsReadBack DEF WrittenIsRead
<1>3. RandomWordExists
  <2>. SUFFICES ASSUME asked # 0 PROVE dictionaries[asked].words # << >>
    BY DEF RandomWordExists
  <2>1. dictionaries[asked] \in Dict
    BY <1>1
  <2>. QED
    BY <2>1, DictIs
<1>. QED
  BY <1>2, <1>3 DEF DictionariesAreKept

LEMMA DictionariesHold == ASSUME LinesArePlain PROVE DictionariesSpec => []DictionariesAreKept
<1>1. DictionariesInit => DictionariesInv
  BY DictionariesStart
<1>2. DictionariesInv /\ [DictionariesNext]_dictionariesVars => DictionariesInv'
  BY DictionariesGoOn
<1>3. DictionariesInv => DictionariesAreKept
  BY KnownDictionariesAreKept
<1>. QED
  BY <1>1, <1>2, <1>3, PTL DEF DictionariesSpec

-----------------------------------------------------------------------------
(* A step of the composition is one of a part, or leaves it alone.            *)
LEMMA PartsAreRun ==
    /\ ProgramsInit => /\ WindowsInit /\ StartupInit /\ GroupsInit
                       /\ DriverInit /\ RangerInit /\ ReceptionInit /\ ElementsInit /\ DictionariesInit
    /\ [ProgramsNext]_programsVars =>
          /\ [WindowsNext]_windowsVars /\ [StartupNext]_startupVars /\ [GroupsNext]_groupsVars
          /\ [DriverNext]_driverVars /\ [RangerNext]_rangerVars /\ [ReceptionNext]_receptionVars
          /\ [ElementsNext]_elementsVars /\ [DictionariesNext]_dictionariesVars
<1>1. ProgramsInit => /\ WindowsInit /\ StartupInit /\ GroupsInit
                     /\ DriverInit /\ RangerInit /\ ReceptionInit /\ ElementsInit /\ DictionariesInit
  BY DEF ProgramsInit
<1>2. ASSUME ProgramsNext
      PROVE  /\ WindowsNext \/ UNCHANGED windowsVars
             /\ StartupNext \/ UNCHANGED startupVars
             /\ GroupsNext \/ UNCHANGED groupsVars
             /\ DriverNext \/ UNCHANGED driverVars
             /\ RangerNext \/ UNCHANGED rangerVars
             /\ ReceptionNext \/ UNCHANGED receptionVars
             /\ ElementsNext \/ UNCHANGED elementsVars
             /\ DictionariesNext \/ UNCHANGED dictionariesVars
  BY <1>2, Zenon DEF ProgramsNext, testsVars
<1>3. UNCHANGED programsVars =>
          /\ UNCHANGED windowsVars /\ UNCHANGED startupVars /\ UNCHANGED groupsVars
          /\ UNCHANGED driverVars /\ UNCHANGED rangerVars /\ UNCHANGED receptionVars
          /\ UNCHANGED elementsVars /\ UNCHANGED dictionariesVars
  BY DEF programsVars, testsVars
<1> QED
  BY <1>1, <1>2, <1>3

(* A behaviour of the programs is one of each of these parts.                 *)
LEMMA ProgramsAreParts ==
    ProgramsSpec => /\ WindowsSpec /\ StartupSpec /\ GroupsSpec
                    /\ DriverSpec /\ RangerSpec /\ ReceptionSpec /\ ElementsSpec /\ DictionariesSpec
  BY PartsAreRun, PTL
  DEF ProgramsSpec, WindowsSpec, StartupSpec, GroupsSpec, DriverSpec, RangerSpec, ReceptionSpec,
      ElementsSpec, DictionariesSpec

(* Tests test what they say: when the first characters are there before the   *)
(* first tone is taken, and their tones are more than the level of the        *)
(* callback (InitialCount characters of at least size tones), all of the text *)
(* is sent; parameters sweep their range; what passes has been received.      *)
THEOREM TestsAreAlwaysRight ==
    ASSUME Prompt, NEW size \in Nat, \A n \in CharacterSizes : size <= n, InitialCount * size > LowLevel
    PROVE  ProgramsSpec => []TestsAreRight
<1>1. DriverSpec => []TextIsSent
  BY TextIsAlwaysSent
<1>2. TextIsSent /\ RangeIsSwept /\ PassedIsTuned => TestsAreRight
  BY DEF TestsAreRight
<1> QED
  BY <1>1, <1>2, ProgramsAreParts, RangerSwept, PassedTuned, PTL

(* So is each window of xcwcp, whatever the others do.                        *)
COROLLARY WindowsShareLibraryInPrograms == ProgramsSpec => []WindowsShareLibrary
  BY ProgramsAreParts, WindowsAlwaysShareLibrary, PTL

(* Options are honoured: of cw and cwcp every setting is the last word for it *)
(* of the environment and then the command line, and what has been accepted   *)
(* is applied; cwgen prints the groups asked for, as often as asked for, up   *)
(* to the limit.  In xcwcp the environment comes after the command line.      *)
THEOREM OptionsAreAlwaysHonoured ==
    ASSUME "xcwcp" \notin Programs
    PROVE  ProgramsSpec => []OptionsAreHonoured
<1>1. SettingsAreUsed /\ AcceptedIsApplied /\ GroupsAreAsAsked => OptionsAreHonoured
  BY DEF OptionsAreHonoured
<1> QED
  BY <1>1, ProgramsAreParts, SettingsAreAlwaysUsed, GroupsAlwaysAsAsked, PTL

(* Durations that tests compare are right: a file of clean marks and spaces   *)
(* is told as it is, but for the end of its last one; in any file they        *)
(* alternate and none is shorter than what shows one; and the elements of a   *)
(* text are its marks, each with the space that follows it.                   *)
THEOREM ElementsAreAlwaysRight == ProgramsSpec => []ElementsAreRight
  BY ProgramsAreParts, ElementsHold, PTL

(* A dictionary survives its file: what has been written and is read gives    *)
(* the same dictionaries, in their order, with all of their words; and a      *)
(* dictionary that a random word is asked of has one.  This is so when a word *)
(* in brackets is alone on its line and no line is blank but not empty.       *)
THEOREM DictionariesAreAlwaysKept ==
    ASSUME LinesArePlain PROVE ProgramsSpec => []DictionariesAreKept
  BY ProgramsAreParts, DictionariesHold, PTL

-----------------------------------------------------------------------------
(* cw.  Outside of combinations the last character has its space.           *)
\* Where in the program the character that has been read is still to be sent.
StreamHolds == place \in {"parse", "look"}

\* The inductive invariant: a ] that is to be read comes after a character
\* that is sent, so the character before it is the last one of its combination.
StreamInv ==
  /\ comment_state \in {"NONE", "COMMENT"} => ~is_glued
  /\ place = "look" => comment_state = "COMBINATION"
  /\ ~cw_is_running => next_character = EOF
  /\ next_character \notin {Nothing, EOF} => typed = next_character
  /\ StreamHolds /\ next_character = Nothing => reading = typed
  /\ StreamHolds /\ next_character = "]" => reading = "letter"
  /\ comment_state = "COMBINATION" /\ next_character = Nothing /\ typed = "letter" => StreamHolds \/ place = "ended"
  /\ comment_state = "COMBINATION" /\ next_character = "]" => StreamHolds \/ place = "ended" \/ ~is_glued
  /\ comment_state = "COMBINATION" /\ place = "parse" /\ reading = "]" => ~is_glued

LEMMA StreamBegins == StreamInit => StreamInv
  BY DEF StreamInit, StreamInv, StreamHolds, Nothing, EOF

LEMMA StreamReadKeeps == ASSUME StreamInv, ReadCharacter PROVE StreamInv'
  BY DEF ReadCharacter, StreamInv, StreamHolds, Nothing, EOF

LEMMA StreamParseKeeps == ASSUME StreamInv, Parse PROVE StreamInv'
<1>1. place = "parse" /\ UNCHANGED <<next_character, typed, cw_is_running>>
  BY DEF Parse
<1>2. CASE ParseNone
  <2>1. CASE /\ StartsComment \/ StartsCombination
             /\ comment_state' = IF StartsComment THEN "COMMENT" ELSE "COMBINATION"
             /\ GoOn /\ UNCHANGED <<optionVars, is_glued, tones>>
    BY <1>1, <1>2, <2>1 DEF ParseNone, GoOn, StartsComment, StartsCombination, StreamInv, StreamHolds, Nothing, EOF
  <2>2. CASE ParseStreamCommand
    BY <1>1, <1>2, <2>2 DEF ParseNone, ParseStreamCommand, ParseStreamParameter, ParseStreamQuery, ParseStreamCwquery,
        ParseStreamQuit, WriteToCwSender, GoOn, Waits, StreamInv, StreamHolds, Nothing, EOF
  <2>3. CASE SendCharacter(FALSE) /\ UNCHANGED <<comment_state, optionVars>>
    BY <1>1, <1>2, <2>3 DEF ParseNone, SendCharacter, GoOn, Waits, StreamInv, StreamHolds, Nothing, EOF
  <2>. QED
    BY <1>2, <2>1, <2>2, <2>3 DEF ParseNone
<1>3. CASE ParseCombination
  <2>0. comment_state = "COMBINATION"
    BY <1>3 DEF ParseCombination
  <2>1. CASE /\ StartsComment \/ reading = "]"
             /\ comment_state' = IF StartsComment THEN "NESTED_COMMENT" ELSE "NONE"
             /\ GoOn /\ UNCHANGED <<optionVars, is_glued, tones>>
    BY <1>1, <2>0, <2>1 DEF GoOn, StreamInv, StreamHolds, Nothing, EOF
  <2>2. CASE IsCommand /\ ParseStreamCommand
    BY <1>1, <2>0, <2>2 DEF IsCommand, ParseStreamCommand, ParseStreamParameter, ParseStreamQuery, ParseStreamCwquery,
        ParseStreamQuit, WriteToCwSender, GoOn, Waits, StreamInv, StreamHolds, Nothing, EOF
  <2>3. CASE place' = "look" /\ UNCHANGED <<comment_state, optionVars, is_glued, tones, reading>>
    BY <1>1, <2>0, <2>3 DEF StreamInv, StreamHolds, Nothing, EOF
  <2>. QED
    BY <1>3, <2>1, <2>2, <2>3 DEF ParseCombination
<1>4. CASE ParseComment
  BY <1>1, <1>4 DEF ParseComment, CommentEnded, GoOn, StreamInv, StreamHolds, Nothing, EOF
<1>. QED
  BY <1>2, <1>3, <1>4 DEF Parse

LEMMA StreamLookKeeps == ASSUME StreamInv, LookAhead PROVE StreamInv'
  BY DEF LookAhead, SendCharacter, IsPartial, GoOn, Waits, StreamInv, StreamHolds, Nothing, EOF

LEMMA StreamTypingKeeps == ASSUME Tidy, StreamInv, NEW c \in Typeable \cup {EOF}, Types(c) PROVE StreamInv'
  BY DEF Types, StreamInv, StreamHolds, Nothing, EOF, Typeable, Letters

LEMMA StreamOthersKeep == ASSUME StreamInv, WaitEnds \/ Drained \/ ToneEnds \/ Signals \/ UNCHANGED streamVars PROVE StreamInv'
<1>1. CASE WaitEnds
  BY <1>1 DEF WaitEnds, StreamInv, StreamHolds, Nothing, EOF
<1>2. CASE Drained
  BY <1>2 DEF Drained, StreamInv, StreamHolds, Nothing, EOF
<1>3. CASE ToneEnds
  BY <1>3 DEF ToneEnds, StreamInv, StreamHolds, Nothing, EOF
<1>4. CASE Signals
  BY <1>4 DEF Signals, SignalHandler, StreamInv, StreamHolds, Nothing, EOF
<1>5. CASE UNCHANGED streamVars
  BY <1>5 DEF streamVars, optionVars, StreamInv, StreamHolds, Nothing, EOF
<1>. QED
  BY <1>1, <1>2, <1>3, <1>4, <1>5

(* As long as a ] comes after a character that can be sent, no combination *)
(* of cw runs into the character after it, whatever comments and commands  *)
(* are in it, and however far the user is ahead.                           *)
THEOREM CombinationsAlwaysEnd ==
  ASSUME Tidy
  PROVE  StreamSpec => []CombinationsEnd
<1>1. StreamInit => StreamInv
  BY StreamBegins
<1>2. StreamInv /\ [StreamNext]_streamVars => StreamInv'
  BY StreamReadKeeps, StreamParseKeeps, StreamLookKeeps, StreamTypingKeeps, StreamOthersKeep DEF StreamNext, StreamProgram
<1>3. StreamInv => CombinationsEnd
  BY DEF StreamInv, CombinationsEnd
<1>. QED
  BY <1>1, <1>2, <1>3, PTL DEF StreamSpec

-----------------------------------------------------------------------------
(* cwcp.  Queue, window and library, as one call after the other leaves     *)
(* them: the window ends in what is queued, at most the cell before it is   *)
(* highlighted, and with the character that the library has been given.     *)

LEMMA Wraps ==
    ASSUME NEW n \in Nat, n > 0, NEW x \in Int
    PROVE  /\ x >= 0 /\ x < n => x % n = x
           /\ x >= n /\ x < n + n => x % n = x - n
           /\ x < 0 /\ x >= -n => x % n = x + n
<1>1. x % n \in 0..n-1
  OBVIOUS
<1>2. x = n * (x \div n) + (x % n)
  OBVIOUS
<1>. QED
  BY <1>1, <1>2

\* What can be in the queue, the cells of the window, and both together.
Symbols == Keys \cup {Space}
Cells == [char : Symbols, lit : BOOLEAN]
Slots == 0..QueueCapacity - 1
Displays == [data : [Slots -> Symbols], tail : Slots, head : Slots, idle : BOOLEAN, cells : Seq(Cells)]

\* The i-th of the characters that are queued, from the last one on.
Queued(data, tail, i) == data[(tail - i + 1) % QueueCapacity]
BeforeQueued(d) == Len(d.cells) - LengthOf(d)
Lit(cells) == {i \in DOMAIN cells : cells[i].lit}

ShowsQueue(d) ==
    \A i \in 1..LengthOf(d) :
        i <= Len(d.cells) => d.cells[Len(d.cells) - i + 1].char = Queued(d.data, d.tail, i)
LightsOnly(cells, at, s) ==
    /\ Lit(cells) \subseteq {at}
    /\ s # <<>> /\ at >= 1 => Lit(cells) = {at} /\ <<cells[at].char>> = s
    /\ s = <<>> => Lit(cells) = {}
Rests(d, s) == d.idle => LengthOf(d) = 0 /\ s = <<>>
Tells(d, s) ==
    /\ d \in Displays
    /\ ShowsQueue(d)
    /\ LightsOnly(d.cells, BeforeQueued(d), s)
    /\ Rests(d, s)

\* What the indices come to.
Distance(t, h) == (t - h) % QueueCapacity
LEMMA Ring ==
    ASSUME NEW t \in Slots, NEW h \in Slots
    PROVE  /\ QueueCapacity \in Nat /\ QueueCapacity >= 2
           /\ Distance(t, h) \in Slots
           /\ t >= h => Distance(t, h) = t - h
           /\ t < h => Distance(t, h) = (t - h) + QueueCapacity
           /\ NextIndex(t) \in Slots
           /\ t + 1 < QueueCapacity => NextIndex(t) = t + 1
           /\ t + 1 = QueueCapacity => NextIndex(t) = 0
           /\ PriorIndex(t) \in Slots
           /\ t > 0 => PriorIndex(t) = t - 1
           /\ t = 0 => PriorIndex(t) = QueueCapacity - 1
<1>1. QueueCapacity \in Nat /\ QueueCapacity >= 2 /\ QueueCapacity > 0
  BY TutorAssumption
<1>2. t - h \in Int /\ t + 1 \in Int /\ t \in 0..QueueCapacity-1 /\ h \in 0..QueueCapacity-1
  BY <1>1 DEF Slots
<1>3. (t >= h => Distance(t, h) = t - h) /\ (t < h => Distance(t, h) = (t - h) + QueueCapacity)
  BY <1>1, <1>2, Wraps DEF Distance
<1>4. (t + 1 < QueueCapacity => NextIndex(t) = t + 1) /\ (t + 1 = QueueCapacity => NextIndex(t) = 0)
  BY <1>1, <1>2, Wraps DEF NextIndex
<1>5. (t > 0 => PriorIndex(t) = t - 1) /\ (t = 0 => PriorIndex(t) = QueueCapacity - 1)
  BY <1>2 DEF PriorIndex
<1>. QED
  BY <1>1, <1>2, <1>3, <1>4, <1>5 DEF Slots

Place(t, i) == (t - i + 1) % QueueCapacity
LEMMA Places ==
    ASSUME NEW t \in Slots, NEW i \in Slots, i >= 1
    PROVE  /\ Place(t, i) \in Slots
           /\ t + 1 >= i => Place(t, i) = t - i + 1
           /\ t + 1 < i => Place(t, i) = t - i + 1 + QueueCapacity
<1>1. QueueCapacity \in Nat /\ QueueCapacity >= 2 /\ QueueCapacity > 0
  BY TutorAssumption
<1>2. t - i + 1 \in Int /\ t \in 0..QueueCapacity-1 /\ i \in 0..QueueCapacity-1
  BY <1>1 DEF Slots
<1>3. (t + 1 >= i => Place(t, i) = t - i + 1) /\ (t + 1 < i => Place(t, i) = t - i + 1 + QueueCapacity)
  BY <1>1, <1>2, Wraps DEF Place
<1>. QED
  BY <1>1, <1>2, <1>3 DEF Slots

\* How the distance and the places change as an index goes on.
LEMMA TailGoesOn ==
    ASSUME NEW t \in Slots, NEW h \in Slots, NextIndex(t) # h
    PROVE  /\ Distance(NextIndex(t), h) = Distance(t, h) + 1
           /\ \A i \in 1..Distance(t, h) : Place(NextIndex(t), i + 1) = Place(t, i) /\ Place(t, i) # NextIndex(t)
           /\ Place(NextIndex(t), 1) = NextIndex(t)
<1>. DEFINE n == NextIndex(t)
            d == Distance(t, h)
            N == QueueCapacity
<1>1. /\ N \in Nat /\ N >= 2 /\ d \in 0..N-1 /\ n \in 0..N-1
      /\ t \in 0..N-1 /\ h \in 0..N-1 /\ n # h
      /\ t >= h => d = t - h
      /\ t < h => d = (t - h) + N
      /\ t + 1 < N => n = t + 1
      /\ t + 1 = N => n = 0
  BY Ring DEF Slots
<1>2. (n >= h => Distance(n, h) = n - h) /\ (n < h => Distance(n, h) = (n - h) + N)
  <2>1. n \in Slots
    BY <1>1 DEF Slots
  <2>. QED
    BY <2>1, Ring
<1>. HIDE DEF n, d, N
<1>3. Distance(n, h) = d + 1 /\ d + 1 < N
  BY <1>1, <1>2
<1>4. ASSUME NEW i \in 1..d
      PROVE  Place(n, i + 1) = Place(t, i) /\ Place(t, i) # n
  <2>1. i \in 0..N-1 /\ i >= 1 /\ i + 1 \in 0..N-1 /\ i + 1 >= 1
    BY <1>1, <1>3
  <2>2. i \in Slots /\ i + 1 \in Slots /\ n \in Slots
    BY <1>1, <2>1 DEF Slots, N
  <2>3. (t + 1 >= i => Place(t, i) = t - i + 1) /\ (t + 1 < i => Place(t, i) = t - i + 1 + N)
    BY <2>1, <2>2, Places DEF N
  <2>4. /\ n + 1 >= i + 1 => Place(n, i + 1) = n - (i + 1) + 1
        /\ n + 1 < i + 1 => Place(n, i + 1) = n - (i + 1) + 1 + N
    BY <2>1, <2>2, Places DEF N
  <2>. QED
    BY <1>1, <1>3, <2>1, <2>3, <2>4
<1>5. Place(n, 1) = n
  <2>1. 1 \in Slots /\ n \in Slots
    BY <1>1 DEF Slots, N
  <2>2. n + 1 >= 1 => Place(n, 1) = n - 1 + 1
    BY <2>1, Places
  <2>. QED
    BY <1>1, <2>2
<1>. QED
  BY <1>3, <1>4, <1>5 DEF n, d

LEMMA TailGoesBack ==
    ASSUME NEW t \in Slots, NEW h \in Slots, Distance(t, h) # 0
    PROVE  /\ Distance(PriorIndex(t), h) = Distance(t, h) - 1
           /\ \A i \in 1..Distance(t, h) - 1 : Place(PriorIndex(t), i) = Place(t, i + 1)
<1>. DEFINE p == PriorIndex(t)
            d == Distance(t, h)
            N == QueueCapacity
<1>1. /\ N \in Nat /\ N >= 2 /\ d \in 0..N-1 /\ p \in 0..N-1 /\ d # 0
      /\ t \in 0..N-1 /\ h \in 0..N-1
      /\ t >= h => d = t - h
      /\ t < h => d = (t - h) + N
      /\ t > 0 => p = t - 1
      /\ t = 0 => p = N - 1
  BY Ring DEF Slots
<1>2. (p >= h => Distance(p, h) = p - h) /\ (p < h => Distance(p, h) = (p - h) + N)
  <2>1. p \in Slots
    BY <1>1 DEF Slots
  <2>. QED
    BY <2>1, Ring
<1>. HIDE DEF p, d, N
<1>3. Distance(p, h) = d - 1
  BY <1>1, <1>2
<1>4. ASSUME NEW i \in 1..d - 1 PROVE Place(p, i) = Place(t, i + 1)
  <2>1. i \in 0..N-1 /\ i >= 1 /\ i + 1 \in 0..N-1 /\ i + 1 >= 1
    BY <1>1
  <2>2. i \in Slots /\ i + 1 \in Slots /\ p \in Slots
    BY <1>1, <2>1 DEF Slots, N
  <2>3. (p + 1 >= i => Place(p, i) = p - i + 1) /\ (p + 1 < i => Place(p, i) = p - i + 1 + N)
    BY <2>1, <2>2, Places DEF N
  <2>4. /\ t + 1 >= i + 1 => Place(t, i + 1) = t - (i + 1) + 1
        /\ t + 1 < i + 1 => Place(t, i + 1) = t - (i + 1) + 1 + N
    BY <2>1, <2>2, Places DEF N
  <2>. QED
    BY <1>1, <2>1, <2>3, <2>4
<1>. QED
  BY <1>3, <1>4 DEF p, d

LEMMA HeadGoesOn ==
    ASSUME NEW t \in Slots, NEW h \in Slots, Distance(t, h) # 0
    PROVE  /\ Distance(t, NextIndex(h)) = Distance(t, h) - 1
           /\ Place(t, Distance(t, h)) = NextIndex(h)
<1>. DEFINE n == NextIndex(h)
            d == Distance(t, h)
            N == QueueCapacity
<1>1. /\ N \in Nat /\ N >= 2 /\ d \in 0..N-1 /\ n \in 0..N-1 /\ d # 0
      /\ t \in 0..N-1 /\ h \in 0..N-1
      /\ t >= h => d = t - h
      /\ t < h => d = (t - h) + N
      /\ h + 1 < N => n = h + 1
      /\ h + 1 = N => n = 0
  BY Ring DEF Slots
<1>2. (t >= n => Distance(t, n) = t - n) /\ (t < n => Distance(t, n) = (t - n) + N)
  <2>1. n \in Slots
    BY <1>1 DEF Slots
  <2>. QED
    BY <2>1, Ring
<1>3. (t + 1 >= d => Place(t, d) = t - d + 1) /\ (t + 1 < d => Place(t, d) = t - d + 1 + N)
  <2>1. d \in Slots /\ d >= 1
    BY <1>1 DEF Slots
  <2>. HIDE DEF d
  <2>. QED
    BY <2>1, Places
<1>. HIDE DEF n, d, N
<1>4. Distance(t, n) = d - 1 /\ Place(t, d) = n
  BY <1>1, <1>2, <1>3
<1>. QED
  BY <1>4 DEF n, d

\* What is highlighted in windows made from others.
LEMMA LitAdded ==
    ASSUME NEW cells \in Seq(Cells), NEW c \in Symbols
    PROVE  /\ Append(cells, Cell(c, FALSE)) \in Seq(Cells)
           /\ Lit(Append(cells, Cell(c, FALSE))) = Lit(cells)
<1>1. Cell(c, FALSE) \in Cells /\ Cell(c, FALSE).lit = FALSE
  BY DEF Cell, Cells
<1>. DEFINE x == Cell(c, FALSE)
<1>. HIDE DEF x
<1>2. x \in Cells /\ ~x.lit
  BY <1>1 DEF x
<1>3. Append(cells, x) \in Seq(Cells) /\ DOMAIN Append(cells, x) = 1..Len(cells) + 1
  BY <1>2
<1>4. Lit(Append(cells, x)) = Lit(cells)
  BY <1>2, <1>3 DEF Lit
<1>. QED
  BY <1>3, <1>4 DEF x

LEMMA LitOfTail ==
    ASSUME NEW cells \in Seq(Cells), cells # <<>>
    PROVE  /\ Tail(cells) \in Seq(Cells) /\ Len(Tail(cells)) = Len(cells) - 1
           /\ Lit(Tail(cells)) = {i \in 1..Len(cells) - 1 : i + 1 \in Lit(cells)}
<1>1. Tail(cells) \in Seq(Cells) /\ Len(Tail(cells)) = Len(cells) - 1 /\ Len(cells) \in Nat
  OBVIOUS
<1>2. \A i \in 1..Len(cells) - 1 : Tail(cells)[i] = cells[i + 1]
  OBVIOUS
<1>. QED
  BY <1>1, <1>2 DEF Lit

LEMMA LitOfFront ==
    ASSUME NEW cells \in Seq(Cells), cells # <<>>
    PROVE  /\ Front(cells) \in Seq(Cells) /\ Len(Front(cells)) = Len(cells) - 1
           /\ \A i \in 1..Len(cells) - 1 : Front(cells)[i] = cells[i]
           /\ Lit(Front(cells)) = Lit(cells) \ {Len(cells)}
<1>1. Front(cells) = SubSeq(cells, 1, Len(cells) - 1)
  BY DEF Front
<1>2. /\ Front(cells) \in Seq(Cells) /\ Len(Front(cells)) = Len(cells) - 1 /\ Len(cells) \in Nat
      /\ \A i \in 1..Len(cells) - 1 : Front(cells)[i] = cells[i]
  <2>1. Len(cells) \in Nat /\ Len(cells) >= 1 /\ DOMAIN cells = 1..Len(cells)
    OBVIOUS
  <2>2. \A i \in 1..Len(cells) - 1 : cells[i] \in Cells
    BY <2>1
  <2>. DEFINE f == SubSeq(cells, 1, Len(cells) - 1)
  <2>3. f \in Seq(Cells) /\ Len(f) = Len(cells) - 1 /\ \A i \in 1..Len(cells) - 1 : f[i] = cells[i]
    BY <2>1, <2>2
  <2>. HIDE DEF f
  <2>. QED
    BY <1>1, <2>1, <2>3 DEF f
<1>3. DOMAIN Front(cells) = 1..Len(cells) - 1 /\ DOMAIN cells = 1..Len(cells)
  BY <1>2
<1>. QED
  BY <1>2, <1>3 DEF Lit

LEMMA StoredIs ==
    ASSUME NEW data, NEW tail, NEW head, NEW idle, NEW cells
    PROVE  /\ Stored(data, tail, head, idle, cells).data = data
           /\ Stored(data, tail, head, idle, cells).tail = tail
           /\ Stored(data, tail, head, idle, cells).head = head
           /\ Stored(data, tail, head, idle, cells).idle = idle
           /\ Stored(data, tail, head, idle, cells).cells = cells
  BY Zenon DEF Stored

LEMMA StoredFits ==
    ASSUME NEW data \in [Slots -> Symbols], NEW tail \in Slots, NEW head \in Slots,
           NEW idle \in BOOLEAN, NEW cells \in Seq(Cells)
    PROVE  Stored(data, tail, head, idle, cells) \in Displays
  BY DEF Stored, Displays

LEMMA FieldsFit ==
    ASSUME NEW d \in Displays
    PROVE  /\ d.data \in [Slots -> Symbols] /\ d.tail \in Slots /\ d.head \in Slots
           /\ d.idle \in BOOLEAN /\ d.cells \in Seq(Cells)
           /\ LengthOf(d) = Distance(d.tail, d.head) /\ LengthOf(d) \in Nat
           /\ Len(d.cells) \in Nat /\ BeforeQueued(d) \in Int /\ BeforeQueued(d) <= Len(d.cells)
<1>1. /\ d.data \in [Slots -> Symbols] /\ d.tail \in Slots /\ d.head \in Slots
      /\ d.idle \in BOOLEAN /\ d.cells \in Seq(Cells)
  BY DEF Displays
<1>2. LengthOf(d) = Distance(d.tail, d.head)
  BY DEF LengthOf, Distance
<1>3. LengthOf(d) \in Nat
  <2>1. LengthOf(d) \in Slots
    <3>1. Distance(d.tail, d.head) \in Slots
      BY <1>1, Ring
    <3>. QED
      BY <1>2, <3>1, Zenon
  <2>. QED
    BY <2>1, TutorAssumption DEF Slots
<1>4. Len(d.cells) \in Nat
  BY <1>1
<1>. QED
  BY <1>1, <1>2, <1>3, <1>4 DEF BeforeQueued

LEMMA Highlighted ==
    ASSUME NEW d \in Displays, NEW lit \in BOOLEAN
    PROVE  /\ Highlight(d, lit) \in Seq(Cells) /\ Len(Highlight(d, lit)) = Len(d.cells)
           /\ \A i \in DOMAIN d.cells : Highlight(d, lit)[i].char = d.cells[i].char
           /\ lit => Lit(Highlight(d, lit)) = Lit(d.cells) \cup ({BeforeQueued(d)} \cap DOMAIN d.cells)
           /\ ~lit => Lit(Highlight(d, lit)) = Lit(d.cells) \ {BeforeQueued(d)}
<1>. DEFINE cells == d.cells
            at == BeforeQueued(d)
            new == Highlight(d, lit)
<1>1. cells \in Seq(Cells)
  BY FieldsFit
<1>2. new = IF at \in DOMAIN cells THEN [cells EXCEPT ![at] = Cell(cells[at].char, lit)] ELSE cells
  BY Zenon DEF Highlight, BeforeQueued
<1>. HIDE DEF cells, at, new
<1>3. CASE at \in DOMAIN cells
  <2>1. new = [cells EXCEPT ![at] = Cell(cells[at].char, lit)]
    BY <1>2, <1>3, Zenon
  <2>2. /\ new \in Seq(Cells) /\ Len(new) = Len(cells)
        /\ \A i \in DOMAIN cells : new[i].char = cells[i].char
        /\ lit => Lit(new) = Lit(cells) \cup {at}
        /\ ~lit => Lit(new) = Lit(cells) \ {at}
    <3>. DEFINE x == Cell(cells[at].char, lit)
    <3>1. x \in Cells /\ x.char = cells[at].char /\ (x.lit <=> lit)
      <4>1. cells[at] \in Cells
        BY <1>1, <1>3
      <4>2. cells[at].char \in Symbols
        BY <4>1 DEF Cells
      <4>. DEFINE c == cells[at].char
      <4>. HIDE DEF c
      <4>3. c \in Symbols => Cell(c, lit) \in Cells /\ Cell(c, lit).char = c
        BY DEF Cell, Cells
      <4>4. Cell(c, lit).lit = lit
        BY Zenon DEF Cell
      <4>. QED
        BY <4>2, <4>3, <4>4, Zenon DEF c
    <3>2. new = [cells EXCEPT ![at] = x]
      BY <2>1
    <3>. HIDE DEF x
    <3>3. new \in Seq(Cells) /\ Len(new) = Len(cells) /\ DOMAIN new = DOMAIN cells
      <4>1. x \in Cells
        BY <3>1
      <4>. QED
        BY <1>1, <1>3, <3>2, <4>1
    <3>4. new[at] = x /\ \A i \in DOMAIN cells : i # at => new[i] = cells[i]
      BY <1>1, <1>3, <3>2
    <3>5. \A i \in DOMAIN cells : new[i].char = cells[i].char
      BY <3>1, <3>4
    <3>6. \A i \in DOMAIN cells : i # at => (new[i].lit <=> cells[i].lit)
      BY <3>4
    <3>7. new[at].lit <=> lit
      BY <3>1, <3>4
    <3>. QED
      BY <1>3, <3>3, <3>5, <3>6, <3>7 DEF Lit
  <2>3. {at} \cap DOMAIN cells = {at}
    BY <1>3
  <2>. QED
    BY <2>2, <2>3, Zenon DEF cells, at, new
<1>4. CASE at \notin DOMAIN cells
  <2>1. new = cells
    BY <1>2, <1>4, Zenon
  <2>2. {at} \cap DOMAIN cells = {} /\ Lit(cells) \ {at} = Lit(cells) /\ Lit(cells) \cup {} = Lit(cells)
    BY <1>4 DEF Lit
  <2>. QED
    BY <1>1, <2>1, <2>2, Zenon DEF cells, at, new
<1>. QED
  BY <1>3, <1>4

\* One character more.
LEMMA AddedTells ==
    ASSUME NEW s, NEW d, Tells(d, s), NEW c \in Symbols
    PROVE  Tells(Added(d, c), s)
<1>. DEFINE tail == NextIndex(d.tail)
            longer == Append(d.cells, Cell(c, FALSE))
            cells == IF Len(longer) > WindowSize THEN Tail(longer) ELSE longer
            data == [d.data EXCEPT ![tail] = c]
            e == Stored(data, tail, d.head, FALSE, cells)
            n == LengthOf(d)
            L == Len(d.cells)
<1>1. CASE c \notin Sendable \cup {Space} \/ tail = d.head
  <2>1. Added(d, c) = d
    BY <1>1, Zenon DEF Added
  <2>. QED
    BY <2>1
<1>2. CASE ~(c \notin Sendable \cup {Space} \/ tail = d.head)
  <2>1. Added(d, c) = e
    BY <1>2, Zenon DEF Added
  <2>2. /\ d \in Displays /\ d.data \in [Slots -> Symbols] /\ d.tail \in Slots /\ d.head \in Slots
        /\ d.cells \in Seq(Cells) /\ n = Distance(d.tail, d.head) /\ n \in Nat /\ L \in Nat
        /\ BeforeQueued(d) = L - n /\ tail # d.head
    BY <1>2, FieldsFit DEF Tells, BeforeQueued
  <2>3. tail \in Slots /\ data \in [Slots -> Symbols]
    BY <2>2, Ring
  <2>4. /\ longer \in Seq(Cells) /\ Len(longer) = L + 1 /\ Lit(longer) = Lit(d.cells)
        /\ longer[L + 1].char = c /\ \A i \in 1..L : longer[i] = d.cells[i]
    <3>1. longer \in Seq(Cells) /\ Lit(longer) = Lit(d.cells)
      BY <2>2, LitAdded
    <3>. DEFINE x == Cell(c, FALSE)
    <3>2. x \in Cells /\ x.char = c
      BY DEF Cell, Cells
    <3>. HIDE DEF x
    <3>3. Len(Append(d.cells, x)) = L + 1 /\ Append(d.cells, x)[L + 1] = x /\ \A i \in 1..L : Append(d.cells, x)[i] = d.cells[i]
      BY <2>2, <3>2
    <3>. QED
      BY <3>1, <3>2, <3>3 DEF x
  <2>. HIDE DEF longer
  <2>5. PICK k \in {0, 1} :
           /\ cells \in Seq(Cells) /\ Len(cells) = L + 1 - k
           /\ \A i \in 1..L + 1 - k : cells[i] = longer[i + k]
           /\ Lit(cells) = {i \in 1..L + 1 - k : i + k \in Lit(longer)}
    <3>1. CASE Len(longer) > WindowSize
      <4>1. cells = Tail(longer) /\ longer # <<>>
        BY <2>2, <2>4, <3>1
      <4>2. /\ Tail(longer) \in Seq(Cells) /\ Len(Tail(longer)) = Len(longer) - 1
            /\ Lit(Tail(longer)) = {i \in 1..Len(longer) - 1 : i + 1 \in Lit(longer)}
        BY <2>4, <4>1, LitOfTail
      <4>3. \A i \in 1..L + 1 - 1 : Tail(longer)[i] = longer[i + 1]
        BY <2>2, <2>4
      <4>4. Len(longer) - 1 = L + 1 - 1
        BY <2>4
      <4>. HIDE DEF cells
      <4>. QED
        BY <4>1, <4>2, <4>3, <4>4
    <3>2. CASE ~(Len(longer) > WindowSize)
      <4>1. cells = longer
        BY <3>2
      <4>2. \A i \in 1..L + 1 - 0 : longer[i] = longer[i + 0]
        BY <2>2
      <4>3. DOMAIN longer = 1..L + 1 - 0
        BY <2>2, <2>4
      <4>4. Lit(longer) = {i \in 1..L + 1 - 0 : i + 0 \in Lit(longer)}
        BY <2>2, <4>3 DEF Lit
      <4>. HIDE DEF cells
      <4>. QED
        BY <2>2, <2>4, <4>1, <4>2, <4>4
    <3>. QED
      BY <3>1, <3>2
  <2>. HIDE DEF cells
  <2>6. /\ e.data = data /\ e.tail = tail /\ e.head = d.head /\ e.idle = FALSE /\ e.cells = cells
        /\ e \in Displays
    <3>1. e \in Displays
      BY <2>2, <2>3, <2>5, StoredFits, FALSE \in BOOLEAN, Zenon
    <3>2. e.data = data /\ e.tail = tail /\ e.head = d.head /\ e.idle = FALSE /\ e.cells = cells
      BY Zenon DEF Stored
    <3>. QED
      BY <3>1, <3>2
  <2>. HIDE DEF e
  <2>7. LengthOf(e) = n + 1
    <3>1. LengthOf(e) = Distance(tail, d.head)
      BY <2>6 DEF LengthOf, Distance
    <3>2. Distance(tail, d.head) = Distance(d.tail, d.head) + 1
      BY <2>2, TailGoesOn
    <3>. QED
      BY <2>2, <3>1, <3>2
  <2>8. ShowsQueue(e)
    <3>0. ASSUME \A i \in 1..n + 1 : i <= L + 1 - k => cells[L + 1 - k - i + 1].char = data[Place(tail, i)]
          PROVE  ShowsQueue(e)
      <4>1. SUFFICES ASSUME NEW i \in 1..LengthOf(e), i <= Len(e.cells)
                     PROVE  e.cells[Len(e.cells) - i + 1].char = Queued(e.data, e.tail, i)
        BY Zenon DEF ShowsQueue
      <4>2. i \in 1..n + 1 /\ i <= L + 1 - k /\ Len(e.cells) = L + 1 - k /\ e.cells = cells
        BY <2>5, <2>6, <2>7, <4>1
      <4>3. cells[L + 1 - k - i + 1].char = data[Place(tail, i)]
        BY <3>0, <4>2
      <4>4. Queued(e.data, e.tail, i) = data[Place(tail, i)]
        BY <2>6, Zenon DEF Queued, Place
      <4>. QED
        <5>1. e.cells[Len(e.cells) - i + 1] = cells[L + 1 - k - i + 1]
          <6>1. Len(e.cells) - i + 1 = L + 1 - k - i + 1
            <7>1. L \in Nat /\ k \in {0, 1} /\ i \in Int
              BY <2>2, <4>1, <4>2
            <7>. HIDE DEF L
            <7>. QED
              BY <4>2, <7>1
          <6>2. e.cells[Len(e.cells) - i + 1] = cells[Len(e.cells) - i + 1]
            BY <4>2, Zenon
          <6>. QED
            BY <6>1, <6>2, Zenon
        <5>. QED
          BY <4>3, <4>4, <5>1, Zenon
    <3>. SUFFICES ASSUME NEW i \in 1..n + 1, i <= L + 1 - k
                  PROVE  cells[L + 1 - k - i + 1].char = data[Place(tail, i)]
      BY <3>0
    <3>00. L \in Nat /\ n \in Nat /\ k \in {0, 1} /\ i \in 1..n + 1 /\ i <= L + 1 - k
      BY <2>2
    <3>1. CASE i = 1
      <4>1. cells[L + 1 - k] = longer[L + 1]
        BY <2>2, <2>5, <3>1
      <4>2. data[tail] = c
        BY <2>2, <2>3
      <4>3. Place(tail, 1) = tail
        BY <2>2, TailGoesOn
      <4>4. L + 1 - k - i + 1 = L + 1 - k
        <5>. HIDE DEF L, n
        <5>. QED
          BY <3>00, <3>1
      <4>. QED
        BY <2>4, <3>1, <4>1, <4>2, <4>3, <4>4
    <3>2. CASE i # 1
      <4>1. i - 1 \in 1..n /\ i - 1 <= L /\ L + 1 - k - i + 1 \in 1..L + 1 - k
        BY <2>2, <3>2
      <4>2. cells[L + 1 - k - i + 1] = longer[L - (i - 1) + 1]
        <5>1. L + 1 - k - i + 1 + k = L - (i - 1) + 1
          BY <2>2
        <5>2. cells[L + 1 - k - i + 1] = longer[L + 1 - k - i + 1 + k]
          BY <2>5, <4>1
        <5>. QED
          BY <5>1, <5>2, Zenon
      <4>3. longer[L - (i - 1) + 1] = d.cells[L - (i - 1) + 1]
        <5>1. L - (i - 1) + 1 \in 1..L
          <6>. HIDE DEF L, n
          <6>. QED
            BY <3>00, <4>1
        <5>. QED
          BY <2>4, <5>1
      <4>4. d.cells[L - (i - 1) + 1].char = d.data[Place(d.tail, i - 1)]
        BY <4>1 DEF Tells, ShowsQueue, Queued, Place
      <4>5. Place(tail, (i - 1) + 1) = Place(d.tail, i - 1) /\ Place(d.tail, i - 1) # tail
        BY <2>2, <4>1, TailGoesOn
      <4>6. Place(d.tail, i - 1) \in Slots
        <5>1. i - 1 \in Slots
          <6>1. n \in Slots
            BY <2>2, Ring
          <6>. HIDE DEF n
          <6>. QED
            BY <4>1, <6>1, TutorAssumption DEF Slots
        <5>. QED
          BY <2>2, <4>1, <5>1, Places
      <4>7. data[Place(d.tail, i - 1)] = d.data[Place(d.tail, i - 1)]
        BY <2>2, <4>5, <4>6
      <4>8. (i - 1) + 1 = i
        BY <2>2
      <4>. HIDE DEF data, tail
      <4>. QED
        BY <4>2, <4>3, <4>4, <4>5, <4>7, <4>8, Zenon
    <3>. QED
      BY <3>1, <3>2
  <2>9. LightsOnly(cells, BeforeQueued(e), s)
    <3>1. BeforeQueued(e) = L - n - k
      BY <2>2, <2>5, <2>6, <2>7 DEF BeforeQueued
    <3>2. /\ Lit(d.cells) \subseteq {L - n}
          /\ s # <<>> /\ L - n >= 1 => Lit(d.cells) = {L - n} /\ <<d.cells[L - n].char>> = s
          /\ s = <<>> => Lit(d.cells) = {}
      BY <2>2 DEF Tells, LightsOnly
    <3>3. Lit(cells) = {i \in 1..L + 1 - k : i + k \in Lit(d.cells)}
      BY <2>4, <2>5
    <3>4. Lit(cells) \subseteq {L - n - k}
      BY <2>2, <3>2, <3>3
    <3>5. ASSUME s # <<>>, L - n - k >= 1
          PROVE  Lit(cells) = {L - n - k} /\ <<cells[L - n - k].char>> = s
      <4>1. Lit(d.cells) = {L - n} /\ <<d.cells[L - n].char>> = s
        BY <2>2, <3>2, <3>5
      <4>2. L - n - k \in 1..L + 1 - k /\ L - n - k + k = L - n /\ L - n \in 1..L
        BY <2>2, <3>5
      <4>3. cells[L - n - k] = d.cells[L - n]
        BY <2>4, <2>5, <4>2
      <4>. QED
        BY <3>3, <3>4, <4>1, <4>2, <4>3
    <3>6. s = <<>> => Lit(cells) = {}
      BY <3>2, <3>3
    <3>. QED
      BY <3>1, <3>4, <3>5, <3>6 DEF LightsOnly
  <2>10. Rests(e, s)
    BY <2>6 DEF Rests
  <2>. QED
    BY <2>1, <2>6, <2>8, <2>9, <2>10, Zenon DEF Tells
<1>. QED
  BY <1>1, <1>2

LEMMA UnlitTells ==
    ASSUME NEW s, NEW d, Tells(d, s)
    PROVE  Lit(Highlight(d, FALSE)) = {}
<1>1. d \in Displays /\ Lit(d.cells) \subseteq {BeforeQueued(d)}
  BY Zenon DEF Tells, LightsOnly
<1>2. Lit(Highlight(d, FALSE)) = Lit(d.cells) \ {BeforeQueued(d)}
  BY <1>1, Highlighted, FALSE \in BOOLEAN, Zenon
<1>. QED
  BY <1>1, <1>2

\* The queue is given up.
LEMMA DiscardedTells ==
    ASSUME NEW s, NEW d, Tells(d, s)
    PROVE  Tells(Discarded(d), <<>>) /\ Discarded(d).idle
<1>1. CASE d.idle
  <2>1. Discarded(d) = d
    BY <1>1, Zenon DEF Discarded
  <2>2. s = <<>>
    BY <1>1, Zenon DEF Tells, Rests
  <2>. QED
    BY <1>1, <2>1, <2>2, Zenon
<1>2. CASE ~d.idle
  <2>. DEFINE cells == Highlight(d, FALSE)
              e == Stored(d.data, d.tail, d.tail, TRUE, cells)
  <2>1. Discarded(d) = e
    BY <1>2, Zenon DEF Discarded
  <2>2. d.data \in [Slots -> Symbols] /\ d.tail \in Slots /\ d \in Displays
    BY FieldsFit DEF Tells
  <2>3. cells \in Seq(Cells) /\ Lit(cells) = {}
    BY <2>2, UnlitTells, Highlighted, FALSE \in BOOLEAN, Zenon
  <2>. HIDE DEF cells
  <2>4. e \in Displays
    BY <2>2, <2>3, StoredFits, TRUE \in BOOLEAN, Zenon
  <2>5. e.tail = d.tail /\ e.head = d.tail /\ e.idle = TRUE /\ e.cells = cells
    BY Zenon DEF Stored
  <2>. HIDE DEF e
  <2>6. LengthOf(e) = 0
    <3>1. LengthOf(e) = Distance(d.tail, d.tail)
      BY <2>5, Zenon DEF LengthOf, Distance
    <3>. QED
      BY <2>2, <3>1, Ring DEF Slots
  <2>7. ShowsQueue(e)
    BY <2>6 DEF ShowsQueue
  <2>8. LightsOnly(e.cells, BeforeQueued(e), <<>>)
    BY <2>3, <2>5 DEF LightsOnly
  <2>9. Rests(e, <<>>)
    BY <2>6, Zenon DEF Rests
  <2>. QED
    BY <2>1, <2>4, <2>5, <2>7, <2>8, <2>9, Zenon DEF Tells
<1>. QED
  BY <1>1, <1>2

\* The window is made anew, or cleared, while the queue is idle.
LEMMA RebuiltTells ==
    ASSUME NEW d, Tells(d, <<>>), d.idle
    PROVE  Tells(Rebuilt(d), <<>>)
<1>. DEFINE e == Stored(d.data, d.tail, d.head, d.idle, <<>>)
<1>1. Rebuilt(d) = e
  BY Zenon DEF Rebuilt
<1>2. /\ d \in Displays /\ d.data \in [Slots -> Symbols] /\ d.tail \in Slots /\ d.head \in Slots
      /\ d.idle \in BOOLEAN /\ LengthOf(d) = 0
  <2>1. d \in Displays /\ LengthOf(d) = 0
    BY Zenon DEF Tells, Rests
  <2>. QED
    BY <2>1, FieldsFit, Zenon
<1>3. <<>> \in Seq(Cells) /\ Lit(<<>>) = {}
  BY DEF Lit
<1>4. e \in Displays
  BY <1>2, <1>3, StoredFits, Zenon
<1>5. e.tail = d.tail /\ e.head = d.head /\ e.cells = <<>>
  BY Zenon DEF Stored
<1>. HIDE DEF e
<1>6. LengthOf(e) = 0
  BY <1>2, <1>5, Zenon DEF LengthOf
<1>7. ShowsQueue(e)
  BY <1>6 DEF ShowsQueue
<1>8. LightsOnly(e.cells, BeforeQueued(e), <<>>)
  BY <1>3, <1>5 DEF LightsOnly
<1>9. Rests(e, <<>>)
  BY <1>6, Zenon DEF Rests
<1>. QED
  BY <1>1, <1>4, <1>7, <1>8, <1>9, Zenon DEF Tells

\* The last character is taken back.
LEMMA DeletedTells ==
    ASSUME NEW s, NEW d, Tells(d, s)
    PROVE  Tells(Deleted(d), s)
<1>. DEFINE tail == PriorIndex(d.tail)
            cells == IF d.cells = <<>> THEN <<>> ELSE Front(d.cells)
            e == Stored(d.data, tail, d.head, d.idle, cells)
            n == LengthOf(d)
            L == Len(d.cells)
<1>1. CASE n = 0
  <2>1. Deleted(d) = d
    BY <1>1, Zenon DEF Deleted
  <2>. QED
    BY <2>1
<1>2. CASE n # 0
  <2>1. Deleted(d) = e
    BY <1>2, Zenon DEF Deleted
  <2>2. /\ d \in Displays /\ d.data \in [Slots -> Symbols] /\ d.tail \in Slots /\ d.head \in Slots
        /\ d.idle \in BOOLEAN
        /\ d.cells \in Seq(Cells) /\ n = Distance(d.tail, d.head) /\ n \in Nat /\ L \in Nat
        /\ BeforeQueued(d) = L - n
    BY FieldsFit, Zenon DEF Tells, BeforeQueued
  <2>3. tail \in Slots
    BY <2>2, Ring
  <2>4. PICK m \in Nat :
           /\ cells \in Seq(Cells) /\ Len(cells) = m /\ m = (IF L = 0 THEN 0 ELSE L - 1)
           /\ \A i \in 1..m : cells[i] = d.cells[i]
           /\ Lit(cells) = Lit(d.cells) \ {L}
    <3>1. CASE d.cells = <<>>
      <4>1. cells = <<>> /\ L = 0 /\ Lit(<<>>) = {}
        BY <3>1 DEF Lit
      <4>2. Lit(cells) = Lit(d.cells) \ {L}
        BY <3>1, <4>1
      <4>. QED
        BY <4>1, <4>2
    <3>2. CASE d.cells # <<>>
      <4>1. cells = Front(d.cells)
        BY <3>2
      <4>2. L # 0 /\ L - 1 \in Nat
        BY <2>2, <3>2
      <4>3. /\ Front(d.cells) \in Seq(Cells) /\ Len(Front(d.cells)) = L - 1
            /\ \A i \in 1..L - 1 : Front(d.cells)[i] = d.cells[i]
            /\ Lit(Front(d.cells)) = Lit(d.cells) \ {L}
        BY <2>2, <3>2, LitOfFront
      <4>. HIDE DEF cells
      <4>. QED
        BY <4>1, <4>2, <4>3
    <3>. QED
      BY <3>1, <3>2
  <2>. HIDE DEF cells
  <2>5. /\ e.data = d.data /\ e.tail = tail /\ e.head = d.head /\ e.idle = d.idle /\ e.cells = cells
        /\ e \in Displays
    <3>1. e \in Displays
      BY <2>2, <2>3, <2>4, StoredFits, Zenon
    <3>2. e.data = d.data /\ e.tail = tail /\ e.head = d.head /\ e.idle = d.idle /\ e.cells = cells
      BY Zenon DEF Stored
    <3>. QED
      BY <3>1, <3>2, Zenon
  <2>. HIDE DEF e
  <2>6. LengthOf(e) = n - 1
    <3>1. LengthOf(e) = Distance(tail, d.head)
      BY <2>5, Zenon DEF LengthOf, Distance
    <3>2. Distance(tail, d.head) = Distance(d.tail, d.head) - 1
      BY <1>2, <2>2, TailGoesBack
    <3>. QED
      BY <2>2, <3>1, <3>2
  <2>7. ShowsQueue(e)
    <3>1. SUFFICES ASSUME NEW i \in 1..LengthOf(e), i <= Len(e.cells)
                   PROVE  e.cells[Len(e.cells) - i + 1].char = Queued(e.data, e.tail, i)
      BY Zenon DEF ShowsQueue
    <3>2. i \in 1..n - 1 /\ i <= m /\ Len(e.cells) = m /\ e.cells = cells
      BY <2>4, <2>5, <2>6, <3>1
    <3>. HIDE DEF n, L
    <3>3. /\ m = L - 1 /\ m - i + 1 \in 1..m /\ m - i + 1 = L - (i + 1) + 1
          /\ i + 1 \in 1..n /\ i + 1 <= L
      <4>1. L \in Nat /\ n \in Nat /\ i \in Nat /\ i >= 1 /\ i <= n - 1 /\ i <= m
        BY <2>2, <3>2
      <4>2. m = L - 1 /\ m \in Nat
        BY <2>4, <4>1
      <4>. QED
        BY <4>1, <4>2
    <3>4. e.cells[Len(e.cells) - i + 1] = d.cells[L - (i + 1) + 1]
      BY <2>4, <3>2, <3>3
    <3>5. d.cells[L - (i + 1) + 1].char = d.data[Place(d.tail, i + 1)]
      BY <3>3 DEF Tells, ShowsQueue, Queued, Place, n, L
    <3>6. Place(tail, i) = Place(d.tail, i + 1)
      BY <1>2, <2>2, <3>2, TailGoesBack
    <3>7. Queued(e.data, e.tail, i) = d.data[Place(tail, i)]
      BY <2>5, Zenon DEF Queued, Place
    <3>. QED
      BY <3>4, <3>5, <3>6, <3>7, Zenon
  <2>8. LightsOnly(cells, BeforeQueued(e), s)
    <3>1. /\ Lit(d.cells) \subseteq {L - n}
          /\ s # <<>> /\ L - n >= 1 => Lit(d.cells) = {L - n} /\ <<d.cells[L - n].char>> = s
          /\ s = <<>> => Lit(d.cells) = {}
      BY <2>2 DEF Tells, LightsOnly
    <3>2. \A i \in Lit(d.cells) : i >= 1
      BY <2>2 DEF Lit
    <3>3. BeforeQueued(e) = m - (n - 1)
      BY <2>4, <2>5, <2>6 DEF BeforeQueued
    <3>. HIDE DEF n, L
    <3>4. L - n < L /\ (m - (n - 1) = L - n \/ (L = 0 /\ m - (n - 1) < 1 /\ L - n < 1))
      BY <1>2, <2>2, <2>4
    <3>5. Lit(cells) = Lit(d.cells)
      BY <2>2, <2>4, <3>1, <3>4
    <3>6. Lit(cells) \subseteq {m - (n - 1)}
      <4>1. ASSUME NEW x \in Lit(cells) PROVE x = m - (n - 1)
        <5>1. x = L - n /\ x >= 1
          BY <3>1, <3>2, <3>5, <4>1
        <5>. QED
          BY <3>4, <5>1
      <4>. QED
        BY <4>1
    <3>7. ASSUME s # <<>>, m - (n - 1) >= 1
          PROVE  Lit(cells) = {m - (n - 1)} /\ <<cells[m - (n - 1)].char>> = s
      <4>1. m - (n - 1) = L - n /\ L - n >= 1
        BY <2>2, <3>4, <3>7
      <4>2. Lit(d.cells) = {L - n} /\ <<d.cells[L - n].char>> = s
        BY <3>1, <3>7, <4>1
      <4>3. L - n \in 1..m
        BY <1>2, <2>2, <2>4, <4>1
      <4>4. cells[m - (n - 1)] = d.cells[L - n]
        BY <2>4, <4>1, <4>3
      <4>. QED
        BY <3>5, <4>1, <4>2, <4>4
    <3>. QED
      BY <3>1, <3>3, <3>5, <3>6, <3>7 DEF LightsOnly
  <2>9. Rests(e, s)
    <3>1. d.idle => FALSE
      BY <1>2, Zenon DEF Tells, Rests
    <3>. QED
      BY <2>5, <3>1, Zenon DEF Rests
  <2>. QED
    BY <2>1, <2>5, <2>7, <2>8, <2>9, Zenon DEF Tells
<1>. QED
  BY <1>1, <1>2

\* What Dequeued_ takes, or that nothing is left.
Taken(d, s) == IF d.idle THEN s ELSE IF Takes(d) THEN <<d.data[NextIndex(d.head)]>> ELSE <<>>

LEMMA DequeuedTells ==
    ASSUME NEW s, NEW d, Tells(d, s)
    PROVE  Tells(Dequeued_(d), Taken(d, s))
<1>. DEFINE head == NextIndex(d.head)
            dark == Highlight(d, FALSE)
            unlit == Stored(d.data, d.tail, head, FALSE, dark)
            n == LengthOf(d)
            L == Len(d.cells)
<1>1. CASE d.idle
  <2>1. Dequeued_(d) = d /\ Taken(d, s) = s
    BY <1>1, Zenon DEF Dequeued_, Taken
  <2>. QED
    BY <2>1, Zenon
<1>2. /\ d \in Displays /\ d.data \in [Slots -> Symbols] /\ d.tail \in Slots /\ d.head \in Slots
      /\ d.idle \in BOOLEAN
      /\ d.cells \in Seq(Cells) /\ n = Distance(d.tail, d.head) /\ n \in Nat /\ L \in Nat
      /\ BeforeQueued(d) = L - n
  BY FieldsFit, Zenon DEF Tells, BeforeQueued
<1>3. /\ dark \in Seq(Cells) /\ Len(dark) = L /\ Lit(dark) = {}
      /\ \A i \in DOMAIN d.cells : dark[i].char = d.cells[i].char
  BY <1>2, UnlitTells, Highlighted, FALSE \in BOOLEAN, Zenon
<1>4. CASE ~d.idle /\ ~(n > 0)
  <2>. DEFINE e == Stored(d.data, d.tail, d.head, TRUE, dark)
  <2>1. Dequeued_(d) = e /\ Taken(d, s) = <<>>
    BY <1>4, Zenon DEF Dequeued_, Taken, Takes
  <2>. HIDE DEF dark
  <2>2. e \in Displays
    BY <1>2, <1>3, StoredFits, TRUE \in BOOLEAN, Zenon
  <2>3. e.tail = d.tail /\ e.head = d.head /\ e.idle = TRUE /\ e.cells = dark
    BY Zenon DEF Stored
  <2>. HIDE DEF e
  <2>4. LengthOf(e) = 0
    <3>1. LengthOf(e) = n
      BY <2>3, Zenon DEF LengthOf
    <3>. HIDE DEF n
    <3>. QED
      BY <1>2, <1>4, <3>1
  <2>5. ShowsQueue(e)
    BY <2>4 DEF ShowsQueue
  <2>6. LightsOnly(e.cells, BeforeQueued(e), <<>>)
    BY <1>3, <2>3 DEF LightsOnly
  <2>7. Rests(e, <<>>)
    BY <2>4, Zenon DEF Rests
  <2>. QED
    BY <2>1, <2>2, <2>5, <2>6, <2>7, Zenon DEF Tells
<1>5. CASE ~d.idle /\ n > 0
  <2>. DEFINE cells == Highlight(unlit, TRUE)
              e == Stored(d.data, d.tail, head, FALSE, cells)
              new == <<d.data[head]>>
  <2>1. Dequeued_(d) = e /\ Taken(d, s) = new
    <3>1. unlit.head = head
      BY Zenon DEF Stored
    <3>2. Dequeued_(d) = Stored(d.data, d.tail, unlit.head, FALSE, cells)
      BY <1>5, Zenon DEF Dequeued_
    <3>3. Taken(d, s) = new
      BY <1>5, Zenon DEF Taken, Takes
    <3>. QED
      BY <3>1, <3>2, <3>3, Zenon
  <2>2. head \in Slots
    BY <1>2, Ring
  <2>. HIDE DEF dark
  <2>3. /\ unlit \in Displays /\ unlit.data = d.data /\ unlit.tail = d.tail /\ unlit.head = head
        /\ unlit.cells = dark
    <3>1. unlit \in Displays
      BY <1>2, <1>3, <2>2, StoredFits, FALSE \in BOOLEAN, Zenon
    <3>2. unlit.data = d.data /\ unlit.tail = d.tail /\ unlit.head = head /\ unlit.cells = dark
      BY Zenon DEF Stored
    <3>. QED
      BY <3>1, <3>2
  <2>. HIDE DEF unlit
  <2>4. Distance(d.tail, head) = n - 1 /\ Place(d.tail, n) = head
    <3>1. Distance(d.tail, d.head) # 0
      <4>. HIDE DEF n
      <4>. QED
        BY <1>2, <1>5
    <3>2. Distance(d.tail, head) = Distance(d.tail, d.head) - 1 /\ Place(d.tail, Distance(d.tail, d.head)) = head
      BY <1>2, <3>1, HeadGoesOn, Zenon
    <3>. QED
      BY <1>2, <3>2, Zenon
  <2>5. LengthOf(unlit) = n - 1
    BY <2>3, <2>4, Zenon DEF LengthOf, Distance
  <2>6. BeforeQueued(unlit) = L - (n - 1)
    BY <1>3, <2>3, <2>5, Zenon DEF BeforeQueued
  <2>7. /\ cells \in Seq(Cells) /\ Len(cells) = L
        /\ \A i \in DOMAIN dark : cells[i].char = dark[i].char
        /\ Lit(cells) = {} \cup ({L - (n - 1)} \cap DOMAIN dark)
    BY <1>3, <2>3, <2>6, Highlighted, TRUE \in BOOLEAN, Zenon
  <2>. HIDE DEF cells
  <2>8. /\ e \in Displays /\ e.data = d.data /\ e.tail = d.tail /\ e.head = head /\ e.idle = FALSE
        /\ e.cells = cells
    <3>1. e \in Displays
      BY <1>2, <2>2, <2>7, StoredFits, FALSE \in BOOLEAN, Zenon
    <3>2. e.data = d.data /\ e.tail = d.tail /\ e.head = head /\ e.idle = FALSE /\ e.cells = cells
      BY Zenon DEF Stored
    <3>. QED
      BY <3>1, <3>2
  <2>. HIDE DEF e
  <2>9. LengthOf(e) = n - 1
    BY <2>4, <2>8, Zenon DEF LengthOf, Distance
  <2>10. \A i \in 1..L : cells[i].char = d.cells[i].char
    BY <1>2, <1>3, <2>7
  <2>11. \A i \in 1..n : i <= L => d.cells[L - i + 1].char = d.data[Place(d.tail, i)]
    BY Zenon DEF Tells, ShowsQueue, Queued, Place
  <2>12. L \in Nat /\ n \in Nat /\ n > 0
    BY <1>2, <1>5
  <2>13. ShowsQueue(e)
    <3>1. SUFFICES ASSUME NEW i \in 1..LengthOf(e), i <= Len(e.cells)
                   PROVE  e.cells[Len(e.cells) - i + 1].char = Queued(e.data, e.tail, i)
      BY Zenon DEF ShowsQueue
    <3>. HIDE DEF n, L
    <3>2. i \in 1..n - 1 /\ i <= L /\ Len(e.cells) = L /\ e.cells = cells
      BY <2>7, <2>8, <2>9, <3>1
    <3>3. i \in 1..n /\ L - i + 1 \in 1..L
      BY <2>12, <3>2
    <3>4. e.cells[Len(e.cells) - i + 1].char = d.cells[L - i + 1].char
      BY <2>10, <3>2, <3>3
    <3>5. d.cells[L - i + 1].char = d.data[Place(d.tail, i)]
      BY <2>11, <3>2, <3>3
    <3>6. Queued(e.data, e.tail, i) = d.data[Place(d.tail, i)]
      BY <2>8, Zenon DEF Queued, Place
    <3>. QED
      BY <3>4, <3>5, <3>6, Zenon
  <2>14. LightsOnly(cells, BeforeQueued(e), new)
    <3>1. BeforeQueued(e) = L - (n - 1)
      BY <2>7, <2>8, <2>9, Zenon DEF BeforeQueued
    <3>2. DOMAIN dark = 1..L
      BY <1>3
    <3>. HIDE DEF n, L
    <3>3. Lit(cells) \subseteq {L - (n - 1)}
      BY <2>7
    <3>4. ASSUME L - (n - 1) >= 1
          PROVE  Lit(cells) = {L - (n - 1)} /\ <<cells[L - (n - 1)].char>> = new
      <4>1. L - (n - 1) \in 1..L /\ n \in 1..n /\ n <= L /\ L - n + 1 = L - (n - 1)
        BY <2>12, <3>4
      <4>2. Lit(cells) = {L - (n - 1)}
        BY <2>7, <3>2, <4>1
      <4>3. cells[L - (n - 1)].char = d.cells[L - n + 1].char
        BY <2>10, <4>1
      <4>4. d.cells[L - n + 1].char = d.data[head]
        BY <2>4, <2>11, <4>1
      <4>. QED
        BY <4>2, <4>3, <4>4, Zenon
    <3>5. new # <<>>
      OBVIOUS
    <3>. HIDE DEF new
    <3>. QED
      BY <3>1, <3>3, <3>4, <3>5, Zenon DEF LightsOnly
  <2>15. Rests(e, new)
    BY <2>8, Zenon DEF Rests
  <2>. QED
    BY <2>1, <2>8, <2>13, <2>14, <2>15, Zenon DEF Tells
<1>. QED
  BY <1>1, <1>4, <1>5, Zenon

\* A string of characters, one after the other.
Adding(s) ==
  [p \in {d \in Displays : Tells(d, s)} \X Symbols |-> Added(p[1], p[2])]
Adds(f, d, symbols) ==
  f = [S \in SUBSET (DOMAIN symbols) |-> IF S = {} THEN d ELSE Added(f[S \ {Max(S)}], symbols[Max(S)])]

LEMMA AddingIsChosen ==
    ASSUME NEW d, NEW symbols
    PROVE  Enqueued(d, symbols) = (CHOOSE f : Adds(f, d, symbols))[DOMAIN symbols]
  BY DEF Enqueued, FoldLeft, MapThenFoldSet, Adds

LEMMA AddingStays ==
    ASSUME NEW s
    PROVE  /\ \A d \in {e \in Displays : Tells(e, s)} : \A c \in Symbols : Adding(s)[<<d, c>>] = Added(d, c)
           /\ StaysIn(Adding(s), {e \in Displays : Tells(e, s)}, Symbols)
<1>. DEFINE A == {e \in Displays : Tells(e, s)}
<1>1. ASSUME NEW d \in A, NEW c \in Symbols
      PROVE  Adding(s)[<<d, c>>] = Added(d, c) /\ Added(d, c) \in A
  <2>1. Adding(s)[<<d, c>>] = Added(d, c)
    BY DEF Adding
  <2>2. Tells(d, s)
    OBVIOUS
  <2>3. Tells(Added(d, c), s)
    BY <2>2, AddedTells
  <2>4. Added(d, c) \in Displays
    BY <2>3 DEF Tells
  <2>. QED
    BY <2>1, <2>3, <2>4
<1>. QED
  BY <1>1 DEF StaysIn

LEMMA EnqueuedTells ==
    ASSUME NEW s, NEW d, Tells(d, s), NEW symbols \in Seq(Symbols)
    PROVE  Tells(Enqueued(d, symbols), s)
<1>. DEFINE F == Adding(s)
            A == {e \in Displays : Tells(e, s)}
            g == Chosen(F, d, symbols)
            f == CHOOSE h : Adds(h, d, symbols)
            O == [S \in SUBSET (DOMAIN symbols) |-> Added(f[S \ {Max(S)}], symbols[Max(S)])]
<1>1. DOMAIN symbols = 1..Len(symbols) /\ Len(symbols) \in Nat /\ \A k \in 1..Len(symbols) : symbols[k] \in Symbols
  OBVIOUS
<1>2. StaysIn(F, A, Symbols) /\ d \in A
  <2>1. StaysIn(F, A, Symbols)
    BY AddingStays
  <2>2. d \in Displays
    BY DEF Tells
  <2>. QED
    BY <2>1, <2>2
<1>3. \A e \in A : \A c \in Symbols : F[<<e, c>>] = Added(e, c)
  BY AddingStays
<1>4. \A e \in A : Tells(e, s)
  OBVIOUS
<1>. HIDE DEF F, A
<1>5. ChosenStays(g, F, A, Symbols, d, symbols)
  BY <1>2, ChosenInRange
<1>. HIDE DEF g, f
<1>6. Adds(g, d, symbols)
  <2>1. \A S \in SUBSET (DOMAIN symbols) :
           S # {} => F[<<g[S \ {Max(S)}], symbols[Max(S)]>>] = Added(g[S \ {Max(S)}], symbols[Max(S)])
    BY <1>3, <1>5 DEF ChosenStays
  <2>2. [S \in SUBSET (DOMAIN symbols) |-> IF S = {} THEN d ELSE F[<<g[S \ {Max(S)}], symbols[Max(S)]>>]]
      = [S \in SUBSET (DOMAIN symbols) |-> IF S = {} THEN d ELSE Added(g[S \ {Max(S)}], symbols[Max(S)])]
    BY <2>1
  <2>. QED
    BY <1>5, <2>2, Zenon DEF ChosenStays, Adds
<1>7. Adds(f, d, symbols)
  BY <1>6, Zenon DEF f
<1>8. Operates(f, O, d, symbols)
  <2>1. \A S \in SUBSET (DOMAIN symbols) : O[S] = Added(f[S \ {Max(S)}], symbols[Max(S)])
    OBVIOUS
  <2>. HIDE DEF O
  <2>2. [S \in SUBSET (DOMAIN symbols) |-> IF S = {} THEN d ELSE O[S]]
      = [S \in SUBSET (DOMAIN symbols) |-> IF S = {} THEN d ELSE Added(f[S \ {Max(S)}], symbols[Max(S)])]
    BY <2>1
  <2>. QED
    BY <1>7, <2>2, Zenon DEF Adds, Operates
<1>9. AgreesWith(O, f, F, A, symbols)
  <2>1. ASSUME NEW S \in SUBSET (DOMAIN symbols), S # {}, f[S \ {Max(S)}] \in A
        PROVE  O[S] = F[<<f[S \ {Max(S)}], symbols[Max(S)]>>]
    <3>1. Max(S) \in 1..Len(symbols)
      BY <1>1, <2>1, MaxIsMember
    <3>2. O[S] = Added(f[S \ {Max(S)}], symbols[Max(S)])
      OBVIOUS
    <3>. HIDE DEF O
    <3>3. symbols[Max(S)] \in Symbols
      BY <1>1, <3>1
    <3>. QED
      BY <1>3, <2>1, <3>2, <3>3, Zenon
  <2>. QED
    BY <2>1 DEF AgreesWith
<1>. HIDE DEF O
<1>10. f[DOMAIN symbols] = FoldOf(F, d, symbols)
  BY <1>2, <1>8, <1>9, OperationFolds
<1>11. FoldOf(F, d, symbols) \in A
  BY <1>2, FoldInRange
<1>. QED
  BY <1>4, <1>10, <1>11, AddingIsChosen, Zenon DEF f

\* What the window tells, and that only who sends has something in the queue.
TutorInv == Tells(Display, sounding) /\ (~is_sending_active => is_queue_idle)

LEMMA DisplayIs ==
    /\ Display.data = queue_data /\ Display.tail = queue_tail /\ Display.head = queue_head
    /\ Display.idle = is_queue_idle /\ Display.cells = window
  BY Zenon DEF Display, Stored

LEMMA ShownIs ==
    ASSUME NEW d \in Displays, Show(d)
    PROVE  Display' = d
<1>1. /\ queue_data' = d.data /\ queue_tail' = d.tail /\ queue_head' = d.head
      /\ is_queue_idle' = d.idle /\ window' = d.cells
  BY Zenon DEF Show
<1>2. Display' = Stored(d.data, d.tail, d.head, d.idle, d.cells)
  BY <1>1, Zenon DEF Display, Stored
<1>3. d = Stored(d.data, d.tail, d.head, d.idle, d.cells)
  BY DEF Displays, Stored
<1>. QED
  BY <1>2, <1>3, Zenon

LEMMA TutorStarts ==
    ASSUME TutorInit
    PROVE  TutorInv
<1>1. /\ queue_data = [i \in 0..QueueCapacity - 1 |-> Space] /\ queue_tail = 0 /\ queue_head = 0
      /\ is_queue_idle = TRUE /\ window = <<>> /\ sounding = <<>>
  BY DEF TutorInit
<1>2. queue_data \in [Slots -> Symbols] /\ queue_tail \in Slots /\ queue_head \in Slots
  BY <1>1, TutorAssumption DEF Slots, Symbols
<1>3. window \in Seq(Cells) /\ Lit(window) = {}
  BY <1>1 DEF Lit
<1>4. Display \in Displays
  BY <1>1, <1>2, <1>3, StoredFits, TRUE \in BOOLEAN, Zenon DEF Display
<1>5. LengthOf(Display) = 0
  <2>1. LengthOf(Display) = Distance(queue_tail, queue_head)
    BY DisplayIs, Zenon DEF LengthOf, Distance
  <2>. QED
    BY <1>1, <1>2, <2>1, Ring
<1>6. ShowsQueue(Display)
  BY <1>5 DEF ShowsQueue
<1>7. LightsOnly(Display.cells, BeforeQueued(Display), sounding)
  <2>1. LightsOnly(window, BeforeQueued(Display), <<>>)
    BY <1>3 DEF LightsOnly
  <2>. QED
    BY <1>1, <2>1, DisplayIs, Zenon
<1>8. Rests(Display, sounding)
  BY <1>1, <1>5, Zenon DEF Rests
<1>. QED
  BY <1>1, <1>4, <1>6, <1>7, <1>8, Zenon DEF TutorInv, Tells

\* What queue and window tell is what the three properties say.
LEMMA TutorInvImplies ==
    ASSUME TutorInv
    PROVE  WindowShowsQueue /\ HighlightIsSounding /\ IdleQueueIsEmpty
<1>1. /\ Display \in Displays /\ ShowsQueue(Display) /\ LightsOnly(Display.cells, BeforeQueued(Display), sounding)
      /\ Rests(Display, sounding)
  BY Zenon DEF TutorInv, Tells
<1>2. WindowShowsQueue
  <2>1. \A i \in 1..LengthOf(Display) :
           i <= Len(window) => window[Len(window) - i + 1].char = queue_data[(queue_tail - i + 1) % QueueCapacity]
    BY <1>1, DisplayIs, Zenon DEF ShowsQueue, Queued
  <2>. QED
    BY <2>1, Zenon DEF WindowShowsQueue
<1>3. HighlightIsSounding
  <2>1. LightsOnly(window, Len(window) - LengthOf(Display), sounding)
    BY <1>1, DisplayIs, Zenon DEF BeforeQueued
  <2>. QED
    BY <2>1, Zenon DEF HighlightIsSounding, LightsOnly, Lit
<1>4. IdleQueueIsEmpty
  BY <1>1, DisplayIs, Zenon DEF Rests, IdleQueueIsEmpty
<1>. QED
  BY <1>2, <1>3, <1>4

\* The queue is shown as it has been, or given up.
LEMMA NothingShown ==
    ASSUME TutorInv, UNCHANGED <<queueVars, is_sending_active>>
    PROVE  TutorInv'
<1>1. UNCHANGED <<queue_data, queue_tail, queue_head, is_queue_idle, window, sounding, is_sending_active>>
  BY DEF queueVars, ringVars
<1>2. Display' = Display
  BY <1>1, Zenon DEF Display, Stored
<1>3. /\ sounding' = sounding
      /\ is_sending_active' <=> is_sending_active
      /\ is_queue_idle' <=> is_queue_idle
  BY <1>1
<1>. QED
  BY <1>2, <1>3, Zenon DEF TutorInv

LEMMA ShownTells ==
    ASSUME NEW d, NEW s, Tells(d, s), Show(d), sounding' = s, ~is_sending_active' => d.idle
    PROVE  TutorInv'
<1>1. d \in Displays
  BY Zenon DEF Tells
<1>2. Display' = d
  BY <1>1, ShownIs
<1>3. is_queue_idle' = d.idle
  BY Zenon DEF Show
<1>. QED
  BY <1>2, <1>3, Zenon DEF TutorInv

LEMMA ToIdleKeeps ==
    ASSUME TutorInv, ToIdle
    PROVE  TutorInv'
<1>1. CASE is_sending_active
  <2>1. Tells(Discarded(Display), <<>>) /\ Discarded(Display).idle
    BY DiscardedTells, Zenon DEF TutorInv
  <2>2. Show(Discarded(Display)) /\ sounding' = <<>>
    BY <1>1, Zenon DEF ToIdle
  <2>. QED
    BY <2>1, <2>2, ShownTells, Zenon
<1>2. CASE ~is_sending_active
  <2>1. UNCHANGED <<is_sending_active, queueVars>>
    BY <1>2, Zenon DEF ToIdle
  <2>2. UNCHANGED <<queueVars, is_sending_active>>
    BY <2>1
  <2>. QED
    BY <2>2, NothingShown
<1>. QED
  BY <1>1, <1>2

\* Who does not send has nothing queued.
LEMMA IdleTells ==
    ASSUME TutorInv, ~is_sending_active
    PROVE  sounding = <<>> /\ Display.idle /\ Tells(Display, <<>>)
  BY DisplayIs, Zenon DEF TutorInv, Tells, Rests

\* The window alone is cleared.
LEMMA ClearedTells ==
    ASSUME TutorInv, ~is_sending_active, window' = <<>>, UNCHANGED <<ringVars, sounding>>
    PROVE  TutorInv'
<1>1. sounding = <<>> /\ Display.idle /\ Tells(Display, <<>>)
  BY IdleTells
<1>2. Tells(Rebuilt(Display), <<>>)
  BY <1>1, RebuiltTells
<1>3. UNCHANGED <<queue_data, queue_tail, queue_head, is_queue_idle, sounding>>
  BY DEF ringVars
<1>. DEFINE e == Rebuilt(Display)
<1>4. Show(e) /\ e.idle
  <2>1. e = Stored(queue_data, queue_tail, queue_head, is_queue_idle, <<>>)
    BY DisplayIs, Zenon DEF Rebuilt
  <2>. HIDE DEF e
  <2>3. /\ e.data = queue_data /\ e.tail = queue_tail /\ e.head = queue_head
        /\ e.idle = is_queue_idle /\ e.cells = <<>>
    BY <2>1, Zenon DEF Stored
  <2>4. /\ queue_data' = queue_data /\ queue_tail' = queue_tail /\ queue_head' = queue_head
        /\ is_queue_idle' = is_queue_idle
    BY <1>3
  <2>2. is_queue_idle
    BY <1>1, DisplayIs, Zenon
  <2>. QED
    BY <2>2, <2>3, <2>4, Zenon DEF Show
<1>5. sounding' = <<>>
  BY <1>1, <1>3
<1>. QED
  BY <1>2, <1>4, <1>5, ShownTells, Zenon

LEMMA ToActiveKeeps ==
    ASSUME TutorInv, ToActive
    PROVE  TutorInv'
<1>1. ~is_sending_active /\ is_sending_active' /\ UNCHANGED <<ringVars, sounding>>
  BY DEF ToActive
<1>2. CASE window' = <<>>
  BY <1>1, <1>2, ClearedTells
<1>3. CASE window' = window
  <2>1. UNCHANGED <<queue_data, queue_tail, queue_head, is_queue_idle, window, sounding>>
    BY <1>1, <1>3 DEF ringVars
  <2>2. Display' = Display
    BY <2>1, Zenon DEF Display, Stored
  <2>. QED
    BY <1>1, <2>1, <2>2, Zenon DEF TutorInv
<1>4. window' = <<>> \/ window' = window
  BY DEF ToActive
<1>. QED
  BY <1>2, <1>3, <1>4

LEMMA TransferKeeps ==
    ASSUME TutorInv, Expire \/ Transfer
    PROVE  TutorInv'
<1>1. CASE Expire
  <2>1. ToIdle
    BY <1>1 DEF Expire, TransferExpired
  <2>. QED
    BY <2>1, ToIdleKeeps
<1>2. ASSUME NEW d, Tells(d, sounding), Show(Dequeued_(d)), Sends(d), is_sending_active'
      PROVE  TutorInv'
  <2>1. sounding' = Taken(d, sounding)
    BY <1>2, Zenon DEF Sends, Taken
  <2>2. Tells(Dequeued_(d), Taken(d, sounding))
    BY <1>2, DequeuedTells
  <2>. QED
    BY <1>2, <2>1, <2>2, ShownTells, Zenon
<1>3. CASE Transfer
  <2>1. is_sending_active'
    BY <1>3 DEF Transfer, Polls, TransferWords, TransferQueued
  <2>2. CASE TransferWords
    <3>1. PICK words \in [1..GroupSize -> DictionaryWords] :
             LET d == Enqueued(Display, (IF beginning_of_buffer THEN <<>> ELSE <<Space>>) \o FlattenSeq(words))
             IN Show(Dequeued_(d)) /\ Sends(d)
      BY <2>2 DEF TransferWords
    <3>. DEFINE first == IF beginning_of_buffer THEN <<>> ELSE <<Space>>
                symbols == first \o FlattenSeq(words)
    <3>2. first \in Seq(Symbols)
      <4>1. <<>> \in Seq(Symbols) /\ <<Space>> \in Seq(Symbols)
        BY DEF Symbols
      <4>. QED
        BY <4>1, Zenon
    <3>3. FlattenSeq(words) \in Seq(Symbols)
      <4>1. words \in Seq(Seq(Symbols))
        <5>1. GroupSize \in Nat /\ DictionaryWords \subseteq Seq(Keys)
          BY TutorAssumption
        <5>2. \A w \in Seq(Keys) : w \in Seq(Symbols)
          BY DEF Symbols
        <5>3. \A i \in 1..GroupSize : words[i] \in Seq(Symbols)
          BY <5>1, <5>2
        <5>. QED
          BY <5>1, <5>3
      <4>. QED
        BY <4>1, FlattenedIsSequence
    <3>. HIDE DEF first
    <3>4. symbols \in Seq(Symbols)
      BY <3>2, <3>3
    <3>5. Show(Dequeued_(Enqueued(Display, symbols))) /\ Sends(Enqueued(Display, symbols))
      BY <3>1, Zenon DEF first
    <3>. HIDE DEF symbols
    <3>6. Tells(Enqueued(Display, symbols), sounding)
      BY <3>4, EnqueuedTells, Zenon DEF TutorInv
    <3>. QED
      BY <1>2, <2>1, <3>5, <3>6
  <2>3. CASE TransferQueued
    <3>1. Show(Dequeued_(Display)) /\ Sends(Display)
      BY <2>3 DEF TransferQueued
    <3>2. Tells(Display, sounding)
      BY Zenon DEF TutorInv
    <3>. QED
      BY <1>2, <2>1, <3>1, <3>2
  <2>. QED
    BY <1>3, <2>2, <2>3 DEF Transfer
<1>. QED
  BY <1>1, <1>3

LEMMA PressKeeps ==
    ASSUME TutorInv,
           \/ PressStart \/ PressEscape \/ PressClear \/ PressQuit \/ PressResize \/ PressBackspace
           \/ \E step \in {-1, 1} : PressMode(step) \/ PressTime(step)
           \/ \E c \in Keys : PressCharacter(c)
    PROVE  TutorInv'
<1>1. CASE PressStart
  <2>1. ToActive \/ ToIdle \/ UNCHANGED <<queueVars, is_sending_active>>
    BY <1>1 DEF PressStart, modeVars
  <2>. QED
    BY <2>1, ToActiveKeeps, ToIdleKeeps, NothingShown
<1>2. CASE PressEscape
  <2>1. ToIdle
    BY <1>2 DEF PressEscape
  <2>. QED
    BY <2>1, ToIdleKeeps
<1>3. CASE PressClear
  <2>1. ~is_sending_active /\ window' = <<>> /\ UNCHANGED <<ringVars, sounding>>
    BY <1>3 DEF PressClear
  <2>. QED
    BY <2>1, ClearedTells
<1>4. CASE PressQuit
  <2>1. Show(Discarded(Display)) /\ sounding' = <<>>
    BY <1>4 DEF PressQuit
  <2>2. Tells(Discarded(Display), <<>>) /\ Discarded(Display).idle
    BY DiscardedTells, Zenon DEF TutorInv
  <2>. QED
    BY <2>1, <2>2, ShownTells, Zenon
<1>5. CASE PressResize
  <2>1. PICK d : Tells(d, <<>>) /\ d.idle /\ Show(Rebuilt(d)) /\ sounding' = <<>>
    <3>1. CASE is_sending_active
      <4>1. Show(Rebuilt(Discarded(Display))) /\ sounding' = <<>>
        BY <1>5, <3>1, Zenon DEF PressResize
      <4>2. Tells(Discarded(Display), <<>>) /\ Discarded(Display).idle
        BY DiscardedTells, Zenon DEF TutorInv
      <4>. QED
        BY <4>1, <4>2, Zenon
    <3>2. CASE ~is_sending_active
      <4>1. Show(Rebuilt(Display)) /\ UNCHANGED <<sounding, tutor_sounds>>
        BY <1>5, <3>2, Zenon DEF PressResize
      <4>2. sounding' = sounding
        BY <4>1
      <4>. QED
        BY <3>2, <4>1, <4>2, IdleTells, Zenon
    <3>. QED
      BY <3>1, <3>2
  <2>2. Tells(Rebuilt(d), <<>>)
    BY <2>1, RebuiltTells, Zenon
  <2>3. Rebuilt(d).idle
    BY <2>1, Zenon DEF Rebuilt, Stored
  <2>. QED
    BY <2>1, <2>2, <2>3, ShownTells, Zenon
<1>6. ASSUME NEW d, Tells(d, sounding), Show(d), sounding' = sounding, is_sending_active'
      PROVE  TutorInv'
  BY <1>6, ShownTells, Zenon
<1>7. CASE PressBackspace
  <2>1. Show(Deleted(Display)) /\ sounding' = sounding /\ is_sending_active'
    BY <1>7 DEF PressBackspace, Typed, modeVars
  <2>2. Tells(Deleted(Display), sounding)
    BY DeletedTells, Zenon DEF TutorInv
  <2>. QED
    BY <1>6, <2>1, <2>2
<1>8. CASE \E step \in {-1, 1} : PressMode(step) \/ PressTime(step)
  <2>1. ToIdle \/ UNCHANGED <<queueVars, is_sending_active>>
    BY <1>8 DEF PressMode, PressTime, modeVars
  <2>. QED
    BY <2>1, ToIdleKeeps, NothingShown
<1>9. CASE \E c \in Keys : PressCharacter(c)
  <2>1. PICK c \in Keys : PressCharacter(c)
    BY <1>9
  <2>2. Show(Enqueued(Display, <<c>>)) /\ sounding' = sounding /\ is_sending_active'
    BY <2>1 DEF PressCharacter, Typed, modeVars
  <2>3. <<c>> \in Seq(Symbols)
    BY DEF Symbols
  <2>4. Tells(Enqueued(Display, <<c>>), sounding)
    BY <2>3, EnqueuedTells, Zenon DEF TutorInv
  <2>. QED
    BY <1>6, <2>2, <2>4
<1>. QED
  BY <1>1, <1>2, <1>3, <1>4, <1>5, <1>7, <1>8, <1>9

(* cwcp: the window shows what is queued, in its order and before the       *)
(* cursor; the one highlighted character is the one that the library has    *)
(* been given; and a queue that is thought to be idle is empty.             *)
THEOREM WindowIsAlwaysTrue ==
    TutorSpec => [](WindowShowsQueue /\ HighlightIsSounding /\ IdleQueueIsEmpty)
<1>1. TutorInit => TutorInv
  BY TutorStarts
<1>2. ASSUME TutorInv, [TutorNext]_tutorVars PROVE TutorInv'
  <2>1. CASE TutorNext
    <3>1. CASE SoundEnds \/ Minute \/ Signalled
      <4>1. UNCHANGED <<ringVars, window, sounding, is_sending_active>>
        BY <3>1 DEF SoundEnds, Minute, Signalled, queueVars, modeVars
      <4>2. UNCHANGED <<queue_data, queue_tail, queue_head, is_queue_idle, window, sounding, is_sending_active>>
        BY <4>1 DEF ringVars
      <4>3. Display' = Display
        BY <4>2, Zenon DEF Display, Stored
      <4>. QED
        BY <1>2, <4>2, <4>3, Zenon DEF TutorInv
    <3>2. CASE Expire \/ Transfer
      BY <1>2, <3>2, TransferKeeps
    <3>3. CASE \/ PressStart \/ PressEscape \/ PressClear \/ PressQuit \/ PressResize \/ PressBackspace
               \/ \E step \in {-1, 1} : PressMode(step) \/ PressTime(step)
               \/ \E c \in Keys : PressCharacter(c)
      BY <1>2, <3>3, PressKeeps
    <3>. QED
      BY <2>1, <3>1, <3>2, <3>3, Zenon DEF TutorNext
  <2>2. CASE UNCHANGED tutorVars
    <3>1. UNCHANGED <<queueVars, is_sending_active>>
      BY <2>2 DEF tutorVars, modeVars
    <3>. QED
      BY <1>2, <3>1, NothingShown
  <2>. QED
    BY <1>2, <2>1, <2>2
<1>3. TutorInv => WindowShowsQueue /\ HighlightIsSounding /\ IdleQueueIsEmpty
  BY TutorInvImplies
<1>. QED
  BY <1>1, <1>2, <1>3, PTL DEF TutorSpec

=============================================================================
