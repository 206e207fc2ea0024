---------------------------- MODULE CommandStream ----------------------------
(***************************************************************************)
(* cw (cw.c): text from a stream with comments {}, combinations [] and     *)
(* commands %, sent character by character.  The characters of a           *)
(* combination are sent as one, without the spaces between them; the last  *)
(* one is told by reading ahead.                                           *)
(*                                                                         *)
(* The stream gives its characters as they are typed; a signal closes it.  *)
(* The tone queue is the number of its tones, and what a character adds is *)
(* any number of them up to CharacterTones.                                *)
(***************************************************************************)
EXTENDS Integers

CONSTANTS
    CharacterTones,  \* bound
    Tidy             \* a ] comes after a character that can be sent

ASSUME StreamAssumption == CharacterTones \in Nat \ {0} /\ Tidy \in BOOLEAN

VARIABLES
    place,           \* in the program
    reading,         \* the character that has been read
    next_character,  \* the one that will be
    typed,           \* the last one in the stream
    comment_state,   \* state
    do_comments, do_combinations, do_commands,
    is_glued,        \* the last character was sent without its space
    tones,
    cw_is_running

optionVars == <<do_comments, do_combinations, do_commands>>
streamVars == <<place, reading, next_character, typed, comment_state, optionVars, is_glued, tones, cw_is_running>>

Letters == {"letter", "other"}      \* characters with and without a representation
Typeable == Letters \cup {"{", "}", "[", "]", "%"}
Nothing == "none"
EOF == "EOF"

-----------------------------------------------------------------------------
(* send_cw_character() and the wait after it; an unknown character is      *)
(* reported.                                                               *)
GoOn == place' = "read" /\ reading' = Nothing
Waits == place' = "wait" /\ reading' = Nothing

SendCharacter(partial) ==
    IF reading = "letter"
    THEN /\ Waits /\ is_glued' = partial
         /\ \E n \in 1..CharacterTones : tones' = tones + n
    ELSE GoOn /\ UNCHANGED <<is_glued, tones>>

(* write_to_cw_sender()                                                    *)
WriteToCwSender ==
    /\ Waits /\ is_glued' = FALSE
    /\ \E n \in 1..CharacterTones : tones' = tones + n

-----------------------------------------------------------------------------
(* parse_stream_command(): the rest of the command is read at once.        *)

Flag(option, value) == IF value THEN {TRUE, FALSE} ELSE {option}
(* parse_stream_parameter(): other parameters, wrong values and what is no *)
(* number change nothing here.                                             *)
ParseStreamParameter ==
    /\ GoOn
    /\ \E which \in 1..4 :
         /\ do_comments' \in Flag(do_comments, which = 1)
         /\ do_combinations' \in Flag(do_combinations, which = 2)
         /\ do_commands' \in Flag(do_commands, which = 3)
    /\ UNCHANGED <<is_glued, tones>>
ParseStreamQuery == GoOn /\ UNCHANGED <<optionVars, is_glued, tones>>
ParseStreamCwquery ==
    /\ WriteToCwSender /\ UNCHANGED optionVars
ParseStreamQuit ==
    /\ place' = "ended" /\ tones' = 0 /\ reading' = Nothing
    /\ UNCHANGED <<optionVars, is_glued>>
ParseStreamCommand ==
    /\ ParseStreamParameter \/ ParseStreamQuery \/ ParseStreamCwquery \/ ParseStreamQuit
    /\ UNCHANGED comment_state

-----------------------------------------------------------------------------
(* parse_stream()                                                          *)

ReadCharacter ==
    /\ place = "read" /\ next_character # Nothing
    /\ reading' = next_character
    /\ place' = IF cw_is_running /\ next_character # EOF THEN "parse" ELSE "drain"
    /\ next_character' = IF next_character = EOF THEN EOF ELSE Nothing
    /\ UNCHANGED <<typed, comment_state, optionVars, is_glued, tones, cw_is_running>>

StartsComment == do_comments /\ reading = "{"
StartsCombination == do_combinations /\ reading = "["
IsCommand == do_commands /\ reading = "%"

ParseNone ==
    /\ comment_state = "NONE"
    /\ \/ /\ StartsComment \/ StartsCombination
          /\ comment_state' = IF StartsComment THEN "COMMENT" ELSE "COMBINATION"
          /\ GoOn /\ UNCHANGED <<optionVars, is_glued, tones>>
       \/ IsCommand /\ ParseStreamCommand
       \/ /\ ~(StartsComment \/ StartsCombination \/ IsCommand)
          /\ SendCharacter(FALSE) /\ UNCHANGED <<comment_state, optionVars>>

ParseCombination ==
    /\ comment_state = "COMBINATION"
    /\ \/ /\ StartsComment \/ reading = "]"
          /\ comment_state' = IF StartsComment THEN "NESTED_COMMENT" ELSE "NONE"
          /\ GoOn /\ UNCHANGED <<optionVars, is_glued, tones>>
       \/ IsCommand /\ ParseStreamCommand
       \/ /\ ~(StartsComment \/ reading = "]" \/ IsCommand)
          /\ place' = "look"
          /\ UNCHANGED <<comment_state, optionVars, is_glued, tones, reading>>

CommentEnded == IF comment_state = "NESTED_COMMENT" THEN "COMBINATION" ELSE "NONE"
ParseComment ==
    /\ comment_state \in {"COMMENT", "NESTED_COMMENT"}
    /\ comment_state' = IF reading = "}" THEN CommentEnded ELSE comment_state
    /\ GoOn /\ UNCHANGED <<optionVars, is_glued, tones>>

Parse ==
    /\ place = "parse"
    /\ ParseNone \/ ParseCombination \/ ParseComment
    /\ UNCHANGED <<next_character, typed, cw_is_running>>

\* Mutant: the last character of a combination is sent like the others.
IsPartialToTheEnd == TRUE
IsPartial == next_character # "]"
LookAhead ==
    /\ place = "look" /\ next_character # Nothing
    /\ SendCharacter(IsPartial)
    /\ UNCHANGED <<next_character, typed, comment_state, optionVars, cw_is_running>>

(* cw_wait_for_tone_queue_critical(1)                                      *)
WaitEnds ==
    /\ place = "wait" /\ tones <= 1
    /\ place' = "read"
    /\ UNCHANGED <<reading, next_character, typed, comment_state, optionVars, is_glued, tones, cw_is_running>>

(* cw_wait_for_tone_queue() and the end of the program                     *)
Drained ==
    /\ place = "drain" /\ tones = 0
    /\ place' = "ended"
    /\ UNCHANGED <<reading, next_character, typed, comment_state, optionVars, is_glued, tones, cw_is_running>>

-----------------------------------------------------------------------------
(* The user, the generator, and signals.                                   *)

Types(c) ==
    /\ place # "ended" /\ next_character = Nothing
    /\ Tidy /\ c = "]" => typed = "letter"
    /\ typed' = c
    /\ next_character' = c
    /\ UNCHANGED <<place, reading, comment_state, optionVars, is_glued, tones, cw_is_running>>

ToneEnds ==
    /\ tones > 0 /\ tones' = tones - 1
    /\ UNCHANGED <<place, reading, next_character, typed, comment_state, optionVars, is_glued, cw_is_running>>

(* signal_handler(): a stream that is closed is at its end.                *)
\* Mutant: the stream is left open.
SignalledOnly == cw_is_running' = FALSE /\ UNCHANGED next_character
SignalHandler == cw_is_running' = FALSE /\ next_character' = EOF
Signals ==
    /\ cw_is_running /\ place # "ended"
    /\ SignalHandler
    /\ UNCHANGED <<place, reading, typed, comment_state, optionVars, is_glued, tones>>

-----------------------------------------------------------------------------
StreamInit ==
    /\ place = "read" /\ reading = Nothing /\ next_character = Nothing /\ typed = Nothing
    /\ comment_state = "NONE"
    /\ do_comments \in BOOLEAN /\ do_combinations \in BOOLEAN /\ do_commands \in BOOLEAN
    /\ is_glued = FALSE /\ tones = 0 /\ cw_is_running = TRUE

StreamProgram == ReadCharacter \/ Parse \/ LookAhead \/ WaitEnds \/ Drained
StreamNext == StreamProgram \/ ToneEnds \/ Signals \/ \E c \in Typeable \cup {EOF} : Types(c)

StreamSpec == StreamInit /\ [][StreamNext]_streamVars

(* The program goes on, and the generator plays what is queued.            *)
StreamFairness == WF_streamVars(StreamProgram) /\ WF_streamVars(ToneEnds)
StreamLive == StreamSpec /\ StreamFairness

-----------------------------------------------------------------------------
(* Outside of combinations the last character has been sent with its       *)
(* space: no combination runs into the character after it.                 *)
CombinationsEnd == comment_state = "NONE" => ~is_glued

(* After a signal or at the end of the stream everything that was queued   *)
(* is played and the program ends.                                         *)
StreamIsEnded == (next_character = EOF \/ ~cw_is_running) ~> place = "ended"

(* The stream is sent as its commands and combinations ask, and ends.      *)
StreamIsSent == StreamIsEnded /\ []CombinationsEnd
=============================================================================
