------------------------------ MODULE KeyedText ------------------------------
(***************************************************************************)
(* xcwcp in receive mode (receiver.cc): mouse buttons and keys that close  *)
(* the library's paddles and straight key, the keying events that come     *)
(* back and are stamped and given to the library's receiver, and the poll  *)
(* that turns what it finds into text.                                     *)
(*                                                                         *)
(* Buttons and polls are events of the user interface's thread.  Keying    *)
(* events come on the generator's thread; unless Whole, one may come       *)
(* between the library's answer to a poll and what is done with it.        *)
(* The library's receiver is known by what it waits for: a mark, the end   *)
(* of a mark, or the end of a character, which silence brings.             *)
(***************************************************************************)
EXTENDS Integers, Sequences

CONSTANTS
    Careful,     \* nothing is held when the window stops, starts or reverses its paddles
    Whole        \* no keying event comes in the middle of a poll

ASSUME KeyedTextAssumption == Careful \in BOOLEAN /\ Whole \in BOOLEAN

VARIABLES
    held,                                  \* what the user holds down
    is_left_down, is_right_down, reversed, receiving,
    dot_paddle, dash_paddle, straight_key, \* the library's
    fresh,                                 \* main_timer was set when the key was last at rest
    tracked_key_state, is_pending_iws, libcw_receive_errno,
    heard, silence, known,                 \* the library's receiver, its representation
    answer,                                \* of a poll that is not done with it
    text,                                  \* the last two characters of the text
    shown                                  \* how often the representation has been shown

buttonVars == <<held, is_left_down, is_right_down, reversed, dot_paddle, dash_paddle, straight_key, fresh>>
receiverVars == <<tracked_key_state, is_pending_iws, libcw_receive_errno, heard, silence, known, shown>>
keyedVars == <<buttonVars, receiverVars, receiving, answer, text>>

NoAnswer == <<>>
Quiet == held = {} \/ ~Careful

-----------------------------------------------------------------------------
(* Buttons: sk_event(), ik_left_event() and ik_right_event().              *)

\* Mutant: the timer is left as it is.
StampsNever(down, other) == FALSE
Stamps(down, other) == down /\ ~other

\* Mutant: a release is not passed on.
PaddleOnPress(dash, down) ==
    IF ~down THEN UNCHANGED <<dot_paddle, dash_paddle>>
    ELSE IF dash THEN dash_paddle' = TRUE /\ UNCHANGED dot_paddle
    ELSE dot_paddle' = TRUE /\ UNCHANGED dash_paddle
Paddle(dash, down) ==
    IF dash THEN dash_paddle' = down /\ UNCHANGED dot_paddle
    ELSE dot_paddle' = down /\ UNCHANGED dash_paddle

SkEvent(down) ==
    /\ straight_key' = down /\ fresh' = TRUE
    /\ UNCHANGED <<is_left_down, is_right_down, dot_paddle, dash_paddle>>
IkLeftEvent(down) ==
    /\ is_left_down' = down /\ fresh' = Stamps(down, is_right_down)
    /\ Paddle(reversed, down)
    /\ UNCHANGED <<is_right_down, straight_key>>
IkRightEvent(down) ==
    /\ is_right_down' = down /\ fresh' = Stamps(down, is_left_down)
    /\ Paddle(~reversed, down)
    /\ UNCHANGED <<is_left_down, straight_key>>

(* handle_key_event() and handle_mouse_event(), when the window is in use. *)
Event(button, down) ==
    /\ (button \in held) # down
    /\ held' = IF down THEN held \cup {button} ELSE held \ {button}
    /\ IF ~receiving THEN UNCHANGED <<is_left_down, is_right_down, dot_paddle, dash_paddle,
                                      straight_key, fresh>>
       ELSE \/ button = "straight" /\ SkEvent(down)
            \/ button = "left" /\ IkLeftEvent(down)
            \/ button = "right" /\ IkRightEvent(down)
    /\ UNCHANGED <<reversed, receiverVars, receiving, answer, text>>

ReversePaddles ==
    /\ Quiet /\ reversed' = ~reversed
    /\ UNCHANGED <<held, is_left_down, is_right_down, dot_paddle, dash_paddle, straight_key, fresh,
                   receiverVars, receiving, answer, text>>

(* clear(), on start, stop and a change of the mode.                       *)
Clear ==
    /\ Quiet /\ answer = NoAnswer
    /\ receiving' = ~receiving
    /\ tracked_key_state' = FALSE /\ is_pending_iws' = FALSE /\ libcw_receive_errno' = FALSE
    /\ heard' = "idle" /\ silence' = 0 /\ shown' = 0
    /\ UNCHANGED <<buttonVars, known, answer, text>>

-----------------------------------------------------------------------------
(* handle_libcw_keying_event(): the receiver, which a key that closes      *)
(* clears when a space is still expected.                                  *)

Cleared(r) == [r EXCEPT !.heard = "idle", !.silence = 0, !.shown = 0]
Receiving == [heard |-> heard, silence |-> silence, pending |-> is_pending_iws, shown |-> shown]
SetReceiving(r) == heard' = r.heard /\ silence' = r.silence /\ is_pending_iws' = r.pending /\ shown' = r.shown
\* Mutant: a character that has been shown stays in the receiver.
NextCharacterWaits(r) == r
\* Mutant: only the flag is reset.
NextCharacterKept(r) == [r EXCEPT !.pending = FALSE]
NextCharacter(r) == IF r.pending THEN [Cleared(r) EXCEPT !.pending = FALSE] ELSE r

(* cw_start_receive_tone() fails unless a mark is waited for.              *)
KeyCloses ==
    /\ receiving /\ ~tracked_key_state /\ (dot_paddle \/ dash_paddle \/ straight_key)
    /\ Whole => answer = NoAnswer
    /\ tracked_key_state' = TRUE
    /\ LET r == NextCharacter(Receiving)
       IN SetReceiving(IF r.heard \in {"idle", "gap"} THEN [r EXCEPT !.heard = "mark", !.silence = 0] ELSE r)
    /\ UNCHANGED <<buttonVars, libcw_receive_errno, known, receiving, answer, text>>

(* cw_end_receive_tone(): a mark that is not recognized, or that was not   *)
(* begun, clears the receiver; noise leaves it as it was before.           *)
KeyOpens ==
    /\ receiving /\ tracked_key_state /\ (Whole => answer = NoAnswer)
    /\ tracked_key_state' = FALSE
    /\ \/ heard = "mark" /\ known' \in BOOLEAN
          /\ SetReceiving([Receiving EXCEPT !.heard = "gap", !.silence = 0]) /\ UNCHANGED libcw_receive_errno
       \/ heard = "mark" /\ UNCHANGED <<libcw_receive_errno, known>>
          /\ \E before \in {"idle", "gap"} : SetReceiving([Receiving EXCEPT !.heard = before, !.silence = 0])
       \/ SetReceiving(Cleared(Receiving)) /\ libcw_receive_errno' = TRUE /\ UNCHANGED known
    /\ UNCHANGED <<buttonVars, receiving, answer, text>>

(* Silence: 1 ends a character, 2 a word.                                  *)
Time ==
    /\ heard = "gap" /\ silence < 2 /\ silence' = silence + 1
    /\ UNCHANGED <<buttonVars, tracked_key_state, is_pending_iws, libcw_receive_errno, heard,
                   known, shown, receiving, answer, text>>

-----------------------------------------------------------------------------
(* poll(): what cw_receive_character() answers, and, in a second step,     *)
(* what poll_character() or poll_space() does with it.  A call that fails  *)
(* leaves is_end_of_word unset in poll_space().                            *)

Found == IF heard # "gap" \/ silence = 0 THEN "nothing"
         ELSE IF ~known THEN "unknown" ELSE IF silence = 2 THEN "word" ELSE "character"

Ask ==
    /\ receiving /\ answer = NoAnswer
    /\ answer' = <<is_pending_iws, Found>>
    /\ libcw_receive_errno' = FALSE
    /\ UNCHANGED <<buttonVars, tracked_key_state, is_pending_iws, heard, silence, known, shown,
                   receiving, text>>

Shown(c) == text' = IF Len(text) < 2 THEN Append(text, c) ELSE <<text[2], c>>

SpaceIsPolled(r) == [Cleared(r) EXCEPT !.pending = FALSE]
PollSpace ==
    /\ answer # NoAnswer /\ answer[1]
    /\ \/ /\ answer[2] \in {"word", "nothing", "unknown"}
          /\ Shown("space") /\ SetReceiving(SpaceIsPolled(Receiving))
       \/ /\ answer[2] # "word" /\ UNCHANGED <<text, heard, silence, is_pending_iws, shown>>
PollCharacter ==
    /\ answer # NoAnswer /\ ~answer[1]
    /\ CASE answer[2] \in {"word", "character"} ->
              /\ Shown("character") /\ is_pending_iws' = TRUE /\ shown' = shown + 1
              /\ UNCHANGED <<heard, silence>>
         [] answer[2] = "unknown" -> Shown("?") /\ SetReceiving(Cleared(Receiving))
         [] OTHER -> UNCHANGED <<text, heard, silence, is_pending_iws, shown>>
Act ==
    /\ PollSpace \/ PollCharacter
    /\ answer' = NoAnswer
    /\ UNCHANGED <<buttonVars, tracked_key_state, libcw_receive_errno, known, receiving>>

-----------------------------------------------------------------------------
KeyedTextInit ==
    /\ held = {} /\ is_left_down = FALSE /\ is_right_down = FALSE
    /\ reversed = FALSE /\ receiving = FALSE
    /\ dot_paddle = FALSE /\ dash_paddle = FALSE /\ straight_key = FALSE /\ fresh = TRUE
    /\ tracked_key_state = FALSE /\ is_pending_iws = FALSE /\ libcw_receive_errno = FALSE
    /\ heard = "idle" /\ silence = 0 /\ known = TRUE /\ answer = NoAnswer /\ text = <<>> /\ shown = 0

KeyedTextNext ==
    \/ \E button \in {"left", "right", "straight"}, down \in BOOLEAN : Event(button, down)
    \/ ReversePaddles \/ Clear
    \/ KeyCloses \/ KeyOpens \/ Time \/ Ask \/ Act

KeyedTextSpec == KeyedTextInit /\ [][KeyedTextNext]_keyedVars

-----------------------------------------------------------------------------
(* When everything is released, nothing stays closed in the library, which *)
(* would go on keying by itself.                                           *)
NothingIsStuck == held = {} => ~dot_paddle /\ ~dash_paddle /\ ~straight_key

(* The keyer starts from rest with a timer that was set for it; otherwise  *)
(* its first mark begins in the past.                                      *)
KeyerStartsStamped ==
    [][~dot_paddle /\ ~dash_paddle /\ (dot_paddle' \/ dash_paddle') => fresh']_keyedVars

(* A key that is down is a mark to the receiver, not part of a character   *)
(* that was shown before.                                                  *)
MarksAreHeard == tracked_key_state => heard = "mark" /\ ~is_pending_iws

(* A character is shown once, and no space is shown twice.                 *)
TextIsWhatWasKeyed == shown <= 1 /\ text # <<"space", "space">>

(* Keys, mouse buttons and polls work together: what is keyed is heard and *)
(* shown once, from a timer that fits, and a release releases everything.  *)
KeysBecomeText == KeyerStartsStamped /\ [](NothingIsStuck /\ MarksAreHeard /\ TextIsWhatWasKeyed)
=============================================================================
