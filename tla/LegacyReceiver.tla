--------------------------- MODULE LegacyReceiver ---------------------------
(***************************************************************************)
(* The easy receiver for the legacy interface (cw_easy_legacy_receiver.c)  *)
(* as the test of legacy polling uses it.  A generator's thread keys a     *)
(* straight key and so tells the library's receiver of marks; the thread   *)
(* of the test polls for a character or for its representation, and each   *)
(* time that it gets one asks for the other, which has to agree.           *)
(* The library's receiver is known by what it waits for, by whether it     *)
(* holds marks, and by whether they make up a character.                   *)
(***************************************************************************)
EXTENDS Integers, Sequences

CONSTANT Undivided     \* no key event comes in the middle of a poll

ASSUME LegacyAssumption == Undivided \in BOOLEAN

VARIABLES
    get_representation, \* what the test polls for
    key_state,          \* tracked_key_state
    pending_iws, receive_errno,
    library,            \* the library's receiver
    keyed,              \* the sender: its key, and the marks of its character
    pause, waited,      \* the space it makes, and how much of it is over: of a
                        \* mark is 0, of a character 1, of a word 2
    inquiry,            \* what is asked for, and the answer: a poll under way
    is_polled,          \* there was a poll since waited has changed
    due_text,           \* what has been sent and not been received
    astray,             \* something else was received
    test_ok

senderVars == <<keyed, pause, waited>>
resultVars == <<due_text, astray, test_ok>>
legacyVars == <<get_representation, key_state, pending_iws, receive_errno, library, senderVars, inquiry,
                is_polled, resultVars>>

AtRest == <<"none", "none">>
ClearedLibrary == [state |-> "idle", marks |-> FALSE, known |-> FALSE]
Calm == inquiry = AtRest \/ ~Undivided

-----------------------------------------------------------------------------
(* cw_easy_legacy_receiver_handle_libcw_keying_event(), for a key that has *)
(* closed.  cw_start_receive_tone() fails in the state of a character that *)
(* has been polled.                                                        *)

\* Mutant: only the flag is reset.
WaitForgotten == library
WaitCancelled == IF pending_iws THEN ClearedLibrary ELSE library

SenderCloses ==
    /\ ~keyed.key /\ waited = pause /\ (is_polled \/ inquiry # AtRest) /\ Calm
    /\ keyed' = [keyed EXCEPT !.key = TRUE]
    /\ key_state' = TRUE /\ pending_iws' = FALSE
    /\ library' = IF WaitCancelled.state \in {"idle", "gap"} THEN [WaitCancelled EXCEPT !.state = "mark"]
                  ELSE WaitCancelled
    /\ UNCHANGED <<get_representation, receive_errno, pause, waited, inquiry, is_polled, resultVars>>

(* The same, for a key that has opened: the mark is a dot or dash, noise,  *)
(* or wrong.  A key that is not known to be closed is ignored.             *)

\* Mutant: noise is always followed by the space after a mark.
GapAfterNoise(marks) == "gap"
BeforeNoise(marks) == IF marks THEN "gap" ELSE "idle"

(* cw_end_receive_tone() and the handling of its errors                    *)
MarkEnds(mark, known) ==
    CASE ~key_state -> UNCHANGED <<library, receive_errno>>
      [] key_state /\ library.state = "mark" /\ mark = "mark" ->
            library' = [state |-> "gap", marks |-> TRUE, known |-> known] /\ UNCHANGED receive_errno
      [] key_state /\ library.state = "mark" /\ mark = "noise" ->
            library' = [library EXCEPT !.state = BeforeNoise(library.marks)] /\ UNCHANGED receive_errno
      [] OTHER -> library' = ClearedLibrary /\ receive_errno' = TRUE

(* What the sender has sent: a mark that is wrong takes those before it    *)
(* with it; nobody hears one that a clear has fallen into.                 *)
Extend(mark, known) ==
    IF ~key_state \/ mark = "wrong" THEN "nothing"
    ELSE IF mark = "noise" THEN keyed.character
    ELSE IF known THEN "character" ELSE "unknown"

(* A representation that is not one of a character is received by those    *)
(* who ask for representations.                                            *)
IsReceived(character) == character = "character" \/ (character = "unknown" /\ get_representation)

SenderOpens ==
    /\ keyed.key /\ Calm
    /\ \E mark \in {"mark", "noise", "wrong"}, known \in BOOLEAN, length \in 0..2 :
          /\ MarkEnds(mark, known)
          /\ pause' = length
          /\ keyed' = [key |-> FALSE, character |-> IF length = 0 THEN Extend(mark, known) ELSE "nothing"]
          /\ due_text' = IF length = 0 \/ ~IsReceived(Extend(mark, known)) THEN due_text
                         ELSE due_text \o SubSeq(<<"character", "space">>, 1, length)
    /\ key_state' = FALSE /\ waited' = 0 /\ is_polled' = TRUE
    /\ UNCHANGED <<get_representation, pending_iws, inquiry, astray, test_ok>>

(* Polls come often.                                                       *)
SpaceLasts ==
    /\ ~keyed.key /\ waited < pause /\ is_polled /\ inquiry = AtRest
    /\ waited' = waited + 1 /\ is_polled' = FALSE
    /\ UNCHANGED <<get_representation, key_state, pending_iws, receive_errno, library, keyed, pause, inquiry,
                   resultVars>>

(* cw_easy_legacy_receiver_clear()                                         *)
ClearLegacy ==
    /\ inquiry = AtRest
    /\ library' = ClearedLibrary
    /\ pending_iws' = FALSE /\ receive_errno' = FALSE /\ key_state' = FALSE
    /\ keyed' = [keyed EXCEPT !.character = "nothing"] /\ due_text' = <<>>
    /\ UNCHANGED <<get_representation, pause, waited, inquiry, is_polled, astray, test_ok>>

-----------------------------------------------------------------------------
(* cw_receive_representation() and cw_receive_character(), which also      *)
(* looks the representation up.                                            *)

\* Mutant: a representation is never said to end a word.
AnswerInCharacters(representation) ==
    IF library.state \notin {"gap", "told"} \/ waited = 0 THEN "nothing"
    ELSE IF representation THEN "character"
    ELSE IF ~library.known THEN "unknown" ELSE IF waited = 2 THEN "word" ELSE "character"
AnswerTo(representation) ==
    IF library.state \notin {"gap", "told"} \/ waited = 0 THEN "nothing"
    ELSE IF ~representation /\ ~library.known THEN "unknown"
    ELSE IF waited = 2 THEN "word" ELSE "character"

ToldOf(r) == IF r.state = "gap" /\ waited > 0 THEN [r EXCEPT !.state = "told"] ELSE r

AskFor(what) ==
    /\ inquiry' = <<what, AnswerTo(get_representation)>>
    /\ library' = ToldOf(library)

(* receiver_poll_data()                                                    *)
BeginPoll ==
    /\ inquiry = AtRest
    /\ receive_errno' = FALSE
    /\ AskFor(IF pending_iws THEN "space" ELSE "character")
    /\ UNCHANGED <<get_representation, key_state, pending_iws, senderVars, is_polled, resultVars>>

(* After a space there may be a character.                                 *)
PollAgain ==
    /\ inquiry = <<"again", "none">>
    /\ AskFor("character")
    /\ UNCHANGED <<get_representation, key_state, pending_iws, receive_errno, senderVars, is_polled, resultVars>>

(* cw_rec_tester_t.received_string                                         *)
Received(item) ==
    IF due_text # <<>> /\ Head(due_text) = item THEN due_text' = Tail(due_text) /\ UNCHANGED astray
    ELSE astray' = TRUE /\ UNCHANGED due_text

(* expect_correct_receive_on_character_c_r() and its three fellows         *)
Verified(answer) == test_ok' = (test_ok /\ AnswerTo(~get_representation) = answer)

EndPoll(next) == inquiry' = next /\ is_polled' = (next = AtRest)

(* receiver_poll_space(), cw_easy_legacy_receiver_poll_iws()               *)
PollIws ==
    /\ inquiry[1] = "space"
    /\ IF inquiry[2] = "word"
       THEN /\ Verified("word") /\ Received("space")
            /\ library' = ClearedLibrary /\ pending_iws' = FALSE
            /\ EndPoll(<<"again", "none">>)
       ELSE /\ EndPoll(IF pending_iws THEN AtRest ELSE <<"again", "none">>)
            /\ UNCHANGED <<library, pending_iws, resultVars>>
    /\ UNCHANGED <<get_representation, key_state, receive_errno, senderVars>>

(* receiver_poll_character(), cw_easy_legacy_receiver_poll_character()     *)
PollACharacter ==
    /\ inquiry[1] = "character"
    /\ CASE inquiry[2] \in {"word", "character"} ->
              Verified("character") /\ Received("character") /\ pending_iws' = TRUE /\ UNCHANGED library
         [] inquiry[2] = "unknown" -> library' = ClearedLibrary /\ UNCHANGED <<pending_iws, resultVars>>
         [] OTHER -> UNCHANGED <<library, pending_iws, resultVars>>
    /\ EndPoll(AtRest)
    /\ UNCHANGED <<get_representation, key_state, receive_errno, senderVars>>

-----------------------------------------------------------------------------
LegacyInit ==
    /\ get_representation \in BOOLEAN
    /\ key_state = FALSE /\ pending_iws = FALSE /\ receive_errno = FALSE
    /\ library = ClearedLibrary
    /\ keyed = [key |-> FALSE, character |-> "nothing"] /\ pause = 0 /\ waited = 0
    /\ inquiry = AtRest /\ is_polled = TRUE
    /\ due_text = <<>> /\ astray = FALSE /\ test_ok = TRUE

LegacyNext ==
    \/ SenderCloses \/ SenderOpens \/ SpaceLasts \/ ClearLegacy
    \/ BeginPoll \/ PollAgain \/ PollIws \/ PollACharacter

LegacySpec == LegacyInit /\ [][LegacyNext]_legacyVars

-----------------------------------------------------------------------------
(* What is received is what was sent, in its order and each part once; and *)
(* when a space has been polled in, nothing of it is left to be received.  *)
ReceivedIsSent ==
    ~astray /\ (~keyed.key /\ waited = pause /\ is_polled /\ inquiry = AtRest => due_text = <<>>)

(* Both ways of polling say the same of the same space; except that a      *)
(* representation may be one of no character.                              *)
PollsAgree == [][test_ok /\ ~test_ok' => ~library.known]_legacyVars

(* A key that closes begins a mark, whatever the receiver was left in.     *)
ClosedKeyIsMark == key_state => library.state = "mark" /\ ~pending_iws

(* What is keyed arrives, in its order and once, whichever of the two ways *)
(* of polling asks for it and whenever the key closes again.               *)
LegacyTextArrives == PollsAgree /\ [](ReceivedIsSent /\ ClosedKeyIsMark)
=============================================================================
