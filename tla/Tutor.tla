-------------------------------- MODULE Tutor --------------------------------
(***************************************************************************)
(* cwcp: the character queue between the keyboard or the dictionaries and  *)
(* the library, the window that shows what is queued with the character    *)
(* that is being sent highlighted, the modes, the practice timer and the   *)
(* way out of the program.                                                 *)
(*                                                                         *)
(* The program has one thread.  Its loop polls the library until a key     *)
(* comes, and handles the key; a signal may come at any time.  The library *)
(* is external here: a character that is sent keeps it busy for a while.   *)
(* The window is the line of cells that end at the cursor, of which the    *)
(* oldest scroll away.                                                     *)
(***************************************************************************)
EXTENDS Integers, Sequences, SequencesExt

CONSTANTS
    QueueCapacity,   \* QUEUE_CAPACITY
    WindowSize,      \* the cells of the text window
    Keys,            \* the characters that can be typed
    Sendable,        \* those for which cw_character_is_valid()
    DictionaryWords, \* the words that a dictionary hands out
    GroupSize,       \* cw_dictionary_get_group_size()
    Modes,           \* the modes in their order, by type
    MaxPracticeTime  \* TIMER_MAX_TIME

ASSUME TutorAssumption ==
    /\ QueueCapacity \in Nat /\ QueueCapacity >= 2
    /\ WindowSize \in Nat \ {0} /\ GroupSize \in Nat \ {0} /\ MaxPracticeTime \in Nat \ {0}
    /\ Sendable \subseteq Keys /\ DictionaryWords \subseteq Seq(Keys)

VARIABLES
    queue_data, queue_tail, queue_head, is_queue_idle,
    window,          \* cells: the character and whether it is highlighted
    g_current_mode, last_mode, is_sending_active, beginning_of_buffer,
    elapsed,         \* minutes since timer_practice_start
    total_time,      \* timer_total_practice_time
    tutor_sounds,    \* more than one tone is in the library's queue
    sounding,        \* what was sent last and has not been followed: <<>> or <<char>>
    cwcp_is_running, tutor_left

ringVars == <<queue_data, queue_tail, queue_head, is_queue_idle>>
queueVars == <<ringVars, window, tutor_sounds, sounding>>
modeVars == <<g_current_mode, last_mode, is_sending_active, beginning_of_buffer>>
tutorVars == <<queueVars, modeVars, elapsed, total_time, cwcp_is_running, tutor_left>>

Mode == Modes[g_current_mode]
Space == "space"

-----------------------------------------------------------------------------
(* The queue and the window, as a value that one call hands to the next.   *)

Stored(data, tail, head, idle, cells) ==
    [data |-> data, tail |-> tail, head |-> head, idle |-> idle, cells |-> cells]
Display == Stored(queue_data, queue_tail, queue_head, is_queue_idle, window)
Show(d) ==
    /\ queue_data' = d.data /\ queue_tail' = d.tail /\ queue_head' = d.head
    /\ is_queue_idle' = d.idle /\ window' = d.cells

NextIndex(i) == (i + 1) % QueueCapacity
PriorIndex(i) == IF i = 0 THEN QueueCapacity - 1 ELSE i - 1
LengthOf(d) == (d.tail - d.head) % QueueCapacity

(* queue_display_highlight_character(): the cell before what is queued.    *)
Cell(c, lit) == [char |-> c, lit |-> lit]
\* Mutant: the first queued character is highlighted.
HighlightFirst(d, lit) ==
    LET at == Len(d.cells) - LengthOf(d) + 1
    IN IF at \in DOMAIN d.cells THEN [d.cells EXCEPT ![at] = Cell(@.char, lit)] ELSE d.cells
Highlight(d, lit) ==
    LET at == Len(d.cells) - LengthOf(d)
    IN IF at \in DOMAIN d.cells THEN [d.cells EXCEPT ![at] = Cell(@.char, lit)] ELSE d.cells

(* queue_enqueue_string(): what is not valid and what finds no room is     *)
(* left out.                                                               *)
\* Mutant: a character that finds no room is shown.
AddedShownAnyway(d, c) ==
    LET tail == NextIndex(d.tail)
        cells == Append(d.cells, Cell(c, FALSE))
        shown == IF Len(cells) > WindowSize THEN Tail(cells) ELSE cells
    IN IF c \notin Sendable \cup {Space} THEN d
       ELSE IF tail = d.head THEN Stored(d.data, d.tail, d.head, d.idle, shown)
       ELSE Stored([d.data EXCEPT ![tail] = c], tail, d.head, FALSE, shown)
Added(d, c) ==
    LET tail == NextIndex(d.tail)
        cells == Append(d.cells, Cell(c, FALSE))
    IN IF c \notin Sendable \cup {Space} \/ tail = d.head THEN d
       ELSE Stored([d.data EXCEPT ![tail] = c], tail, d.head, FALSE,
                   IF Len(cells) > WindowSize THEN Tail(cells) ELSE cells)
Enqueued(d, s) == FoldLeft(Added, d, s)

(* queue_discard_contents()                                                *)
Discarded(d) == IF d.idle THEN d ELSE Stored(d.data, d.tail, d.tail, TRUE, Highlight(d, FALSE))

(* queue_dequeue_character()                                               *)
Dequeued_(d) ==
    LET unlit == Stored(d.data, d.tail, NextIndex(d.head), FALSE, Highlight(d, FALSE))
    IN IF d.idle THEN d
       ELSE IF LengthOf(d) > 0 THEN Stored(d.data, d.tail, unlit.head, FALSE, Highlight(unlit, TRUE))
       ELSE Stored(d.data, d.tail, d.head, TRUE, Highlight(d, FALSE))

(* cw_send_character() of what Dequeued_ took, and the end of it.          *)
Takes(d) == ~d.idle /\ LengthOf(d) > 0
Sends(d) ==
    /\ sounding' = IF d.idle THEN sounding
                   ELSE IF Takes(d) THEN <<d.data[NextIndex(d.head)]>> ELSE <<>>
    /\ tutor_sounds' = (tutor_sounds \/ Takes(d))

-----------------------------------------------------------------------------
(* state_change_to_active(): the window is cleared and the timer started   *)
(* for another mode than the last one only.                                *)
ToActive ==
    /\ ~is_sending_active
    /\ is_sending_active' = TRUE /\ tutor_sounds' = FALSE
    /\ last_mode' = g_current_mode
    /\ IF g_current_mode # last_mode
       THEN window' = <<>> /\ elapsed' = 0 /\ beginning_of_buffer' = TRUE
       ELSE UNCHANGED <<window, elapsed, beginning_of_buffer>>
    /\ UNCHANGED <<ringVars, sounding, g_current_mode, total_time>>

(* state_change_to_idle(), which discards the queue; the beep flushes the  *)
(* library's.                                                              *)
ToIdle ==
    IF is_sending_active
    THEN /\ is_sending_active' = FALSE
         /\ Show(Discarded(Display)) /\ sounding' = <<>> /\ tutor_sounds' = FALSE
    ELSE UNCHANGED <<is_sending_active, queueVars>>

(* One round of ui_poll_user_input(): queue_transfer_character_to_libcw(). *)
\* Mutant: > in place of >=.
ExpiredAfter == elapsed > total_time
Expired == elapsed >= total_time
TransferExpired ==
    /\ Mode = "dictionary" /\ Expired
    /\ ToIdle
    /\ UNCHANGED beginning_of_buffer
TransferWords ==
    /\ Mode = "dictionary" /\ ~Expired /\ LengthOf(Display) = 0
    /\ \E words \in [1..GroupSize -> DictionaryWords] :
          LET d == Enqueued(Display,
                            (IF beginning_of_buffer THEN <<>> ELSE <<Space>>) \o FlattenSeq(words))
          IN Show(Dequeued_(d)) /\ Sends(d)
    /\ beginning_of_buffer' = FALSE
    /\ UNCHANGED is_sending_active
TransferQueued ==
    /\ Mode = "keyboard" \/ (~Expired /\ LengthOf(Display) > 0)
    /\ Show(Dequeued_(Display)) /\ Sends(Display)
    /\ UNCHANGED <<is_sending_active, beginning_of_buffer>>
Polls == ~tutor_left /\ is_sending_active /\ ~tutor_sounds
    /\ UNCHANGED <<g_current_mode, last_mode, elapsed, total_time, cwcp_is_running, tutor_left>>
Expire == Polls /\ TransferExpired
Transfer == Polls /\ (TransferWords \/ TransferQueued)

-----------------------------------------------------------------------------
(* Keys: interface_interpret() and what ui_handle_event() leaves to the    *)
(* keyboard mode; after each the main loop asks cwcp_is_running.              *)

Handled == ~tutor_left /\ tutor_left' = ~cwcp_is_running'

PressStart ==
    /\ IF Mode = "exit"
       THEN cwcp_is_running' = FALSE /\ UNCHANGED <<queueVars, modeVars, elapsed, total_time>>
       ELSE /\ \/ ToActive
               \/ /\ is_sending_active /\ ToIdle
                  /\ UNCHANGED <<g_current_mode, last_mode, beginning_of_buffer, elapsed, total_time>>
            /\ UNCHANGED cwcp_is_running
    /\ Handled
PressEscape ==
    /\ ToIdle
    /\ UNCHANGED <<g_current_mode, last_mode, beginning_of_buffer, elapsed, total_time, cwcp_is_running>>
    /\ Handled
PressMode(step) ==
    /\ ToIdle
    /\ g_current_mode' = IF g_current_mode + step \in DOMAIN Modes THEN g_current_mode + step ELSE g_current_mode
    /\ UNCHANGED <<last_mode, beginning_of_buffer, elapsed, total_time, cwcp_is_running>>
    /\ Handled
PressTime(step) ==
    /\ total_time' = IF total_time + step \in 1..MaxPracticeTime THEN total_time + step ELSE total_time
    /\ UNCHANGED <<queueVars, modeVars, elapsed, cwcp_is_running>>
    /\ Handled
(* The size of the terminal changed: all windows are deleted and made anew,*)
(* the one of the text without the introduction.                           *)
Rebuilt(d) == Stored(d.data, d.tail, d.head, d.idle, <<>>)
PressResize ==
    /\ is_sending_active' = FALSE
    /\ IF is_sending_active
       THEN Show(Rebuilt(Discarded(Display))) /\ sounding' = <<>> /\ tutor_sounds' = FALSE
       ELSE Show(Rebuilt(Display)) /\ UNCHANGED <<sounding, tutor_sounds>>
    /\ UNCHANGED <<g_current_mode, last_mode, beginning_of_buffer, elapsed, total_time, cwcp_is_running>>
    /\ Handled
PressClear ==
    /\ ~is_sending_active /\ window' = <<>>
    /\ UNCHANGED <<ringVars, tutor_sounds, sounding, modeVars, elapsed, total_time, cwcp_is_running>>
    /\ Handled
PressQuit ==
    /\ Show(Discarded(Display)) /\ sounding' = <<>> /\ tutor_sounds' = FALSE
    /\ cwcp_is_running' = FALSE
    /\ UNCHANGED <<modeVars, elapsed, total_time>>
    /\ Handled
Typed == is_sending_active /\ Mode = "keyboard"
PressCharacter(c) ==
    /\ Typed /\ Show(Enqueued(Display, <<c>>))
    /\ UNCHANGED <<tutor_sounds, sounding, modeVars, elapsed, total_time, cwcp_is_running>>
    /\ Handled
(* queue_delete_character()                                                *)
\* Mutant: nothing asks whether the queue is empty.
DeletedAlways(d) ==
    Stored(d.data, PriorIndex(d.tail), d.head, d.idle, IF d.cells = <<>> THEN <<>> ELSE Front(d.cells))
Deleted(d) ==
    IF LengthOf(d) = 0 THEN d
    ELSE Stored(d.data, PriorIndex(d.tail), d.head, d.idle, IF d.cells = <<>> THEN <<>> ELSE Front(d.cells))
PressBackspace ==
    /\ Typed /\ Show(Deleted(Display))
    /\ UNCHANGED <<tutor_sounds, sounding, modeVars, elapsed, total_time, cwcp_is_running>>
    /\ Handled

(* The library comes to the last tone, a minute passes, and a signal.      *)
SoundEnds == tutor_sounds /\ tutor_sounds' = FALSE
    /\ UNCHANGED <<ringVars, window, sounding, modeVars, elapsed, total_time, cwcp_is_running, tutor_left>>
Minute == elapsed < MaxPracticeTime /\ elapsed' = elapsed + 1
    /\ UNCHANGED <<queueVars, modeVars, total_time, cwcp_is_running, tutor_left>>
Signalled == cwcp_is_running /\ cwcp_is_running' = FALSE
    /\ UNCHANGED <<queueVars, modeVars, elapsed, total_time, tutor_left>>

-----------------------------------------------------------------------------
TutorInit ==
    /\ queue_data = [i \in 0..QueueCapacity - 1 |-> Space] /\ queue_tail = 0 /\ queue_head = 0
    /\ is_queue_idle = TRUE /\ window = <<>> /\ tutor_sounds = FALSE /\ sounding = <<>>
    /\ g_current_mode = 1 /\ last_mode = 0 /\ is_sending_active = FALSE /\ beginning_of_buffer = TRUE
    /\ elapsed = 0 /\ total_time = 1 /\ cwcp_is_running = TRUE /\ tutor_left = FALSE

TutorNext ==
    \/ Expire \/ Transfer \/ SoundEnds \/ Minute \/ Signalled
    \/ PressStart \/ PressEscape \/ PressClear \/ PressQuit \/ PressResize \/ PressBackspace
    \/ \E step \in {-1, 1} : PressMode(step) \/ PressTime(step)
    \/ \E c \in Keys : PressCharacter(c)

TutorSpec == TutorInit /\ [][TutorNext]_tutorVars

(* The loop goes round (of its rounds only the one that finds the time to  *)
(* be over has to be assumed), the library plays, and time passes; nobody  *)
(* has to press a key.                                                     *)
TutorFairness == WF_tutorVars(Expire) /\ WF_tutorVars(SoundEnds) /\ WF_tutorVars(Minute)
TutorLive == TutorSpec /\ TutorFairness

-----------------------------------------------------------------------------
(* The window shows what is queued, in its order, before the cursor.       *)
WindowShowsQueue ==
    \A i \in 1..LengthOf(Display) :
        i <= Len(window) =>
            window[Len(window) - i + 1].char = queue_data[(queue_tail - i + 1) % QueueCapacity]

(* One character is highlighted, the one that the library is sending or    *)
(* has sent last, for as long as the queue is not idle.                    *)
HighlightIsSounding ==
    LET lit == {i \in DOMAIN window : window[i].lit}
        at == Len(window) - LengthOf(Display)
    IN /\ lit \subseteq {at}
       /\ sounding # <<>> /\ at >= 1 => lit = {at} /\ <<window[at].char>> = sounding
       /\ sounding = <<>> => lit = {}

(* Nothing is left in a queue that is thought to be idle.                  *)
IdleQueueIsEmpty == is_queue_idle => LengthOf(Display) = 0 /\ sounding = <<>>

(* Practice from a dictionary comes to an end by itself, although its time *)
(* can be changed meanwhile.                                               *)
PracticeEnds == (is_sending_active /\ Mode = "dictionary") ~> (~is_sending_active \/ tutor_left)

(* Queue, window and library tell the same story while characters are      *)
(* typed, deleted, drawn and played, and practice ends.                    *)
TutorIsSound == PracticeEnds /\ [](WindowShowsQueue /\ HighlightIsSounding /\ IdleQueueIsEmpty)

(* What the manual says of F9: practice that is over can be started again  *)
(* and lasts for its time.                                                 *)
PracticeCanBeRepeated == [][~is_sending_active /\ is_sending_active' => ~Expired']_tutorVars

(* A signal ends the program.                                              *)
SignalEndsProgram == ~cwcp_is_running ~> tutor_left
=============================================================================
