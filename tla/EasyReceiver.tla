----------------------------- MODULE EasyReceiver -----------------------------
(* The easy receiver (cwutils/cw_easy_rec.c): a receiver between two threads.  *)
(* The generator's thread tells it of each change of the key, a thread of its *)
(* own polls it for characters and for the spaces between words and hands     *)
(* them to the application.  The two share the receiver and is_pending_iws    *)
(* without a mutex.                                                           *)
(*                                                                            *)
(* The sender is exact: marks, and spaces of one, three or seven units; but   *)
(* some of its marks are of no known length, and some characters are unknown. *)
(* None of its marks is so short that the receiver takes it for noise.        *)
(* Each call of the receiver is one step, at the time its caller has read     *)
(* from the clock.                                                            *)
EXTENDS Receiver

CONSTANTS
  Lengths,    \* durations of the sender's marks
  Unit,       \* the unit of its spaces
  Known,      \* representations of characters
  Races       \* the two threads may be inside of the easy receiver at once

ASSUME SenderAssumption ==
  /\ Lengths \subseteq Nat \ {0} /\ \A length \in Lengths : length > Noise
  /\ Unit \in Nat \ {0} /\ Races \in BOOLEAN /\ << >> \notin Known

VARIABLES
  tracked,    \* tracked_key_state
  pending,    \* is_pending_iws
  handler,    \* where the generator's thread is in the key event
  poller,     \* where the polling thread is
  erd,        \* what it has polled
  sure,       \* a space has been polled: the callback is called in any case
  polled,     \* it has polled since the clock has last moved
  key,        \* the value of the key
  lasted,     \* for how long it has had it
  due,        \* the time until the sender changes it
  current,    \* the marks of the character that is being sent
  resting,    \* the sender need not go on after the space
  expected    \* what has been sent and not been handed over yet

keying == <<tracked, handler>>
polling == <<poller, erd, sure, polled>>
sending == <<key, lasted, due, current, resting>>
easyVars == <<vars, pending, keying, polling, sending, expected>>

Nothing == [character |-> << >>, is_iws |-> FALSE]
Space == <<"space">>
Item == IF erd.is_iws THEN Space ELSE erd.character

EasyTypeOK ==
  /\ TypeOK
  /\ tracked \in BOOLEAN /\ pending \in BOOLEAN
  /\ handler \in {"none", "event", "cancel", "cancelled", "call", "recover"}
  /\ poller \in {"sleep", "iws", "drop", "clear", "again", "character", "hold", "forget",
                 "callback"}
  /\ sure \in BOOLEAN /\ polled \in BOOLEAN
  /\ erd.character \in Known \union {<< >>} /\ erd.is_iws \in BOOLEAN
  /\ key \in BOOLEAN /\ resting \in BOOLEAN /\ lasted \in Nat /\ due \in Nat
  /\ current \in Seq(Marks) /\ Len(current) < Capacity
  /\ \A i \in DOMAIN expected : expected[i] \in Known \union {Space}

EasyInit ==
  /\ Init
  /\ tracked = FALSE /\ pending = FALSE
  /\ handler = "none" /\ poller = "sleep" /\ erd = Nothing /\ sure = FALSE /\ polled = FALSE
  /\ key = FALSE /\ lasted = 0 /\ due = 0 /\ current = << >> /\ resting = TRUE
  /\ expected = << >>

---------------------------------------------------------------------------
(* The sender and the clock.                                                  *)

Enters == handler = "none" /\ (Races \/ poller = "sleep")

KeyDown ==
  /\ ~key /\ due = 0 /\ Enters
  /\ \E length \in Lengths : due' = length
  /\ key' = TRUE /\ lasted' = 0
  /\ handler' = "event"
  /\ UNCHANGED <<vars, pending, tracked, polling, current, resting, expected>>

\* A mark of no known length, or one too many, spoils the marks before it; one
\* that a clear has fallen into is not received.
Extended ==
  IF ~tracked \/ Identified(lasted, timing) = "error" \/ Len(current) + 1 = Capacity - 1
  THEN << >>
  ELSE Append(current, Identified(lasted, timing))

KeyUp ==
  /\ key /\ due = 0 /\ Enters
  /\ key' = FALSE
  /\ handler' = "event"
  /\ \E units \in {1, 3, 7} :
       /\ due' = units * Unit
       /\ resting' = (units = 7)
       /\ current' = IF units = 1 THEN Extended ELSE << >>
       /\ expected' = IF units = 1 \/ Extended \notin Known THEN expected
                      ELSE IF units = 3 THEN Append(expected, Extended)
                      ELSE expected \o << Extended, Space >>
  /\ UNCHANGED <<vars, pending, tracked, polling, lasted>>

\* cw_easy_rec_clear(), by the application.
Clear ==
  /\ Enters
  /\ ResetState
  /\ pending' = FALSE /\ tracked' = FALSE
  /\ current' = << >> /\ expected' = << >>
  /\ UNCHANGED <<handler, polling, key, lasted, due, resting>>

\* The threads are fast, and the polling period is short: they do what there is
\* to do before the clock moves on.
Tick ==
  /\ handler = "none" /\ poller = "sleep" /\ polled
  /\ due > 0 \/ (resting /\ ~key)
  /\ due' = IF due > 0 THEN due - 1 ELSE 0
  /\ lasted' = IF key THEN lasted + 1 ELSE 0
  /\ space' = Later(1)
  /\ polled' = FALSE
  /\ UNCHANGED <<state, representation, timing, averages, pending, keying, poller, erd, sure,
                 key, current, resting, expected>>

---------------------------------------------------------------------------
(* cw_easy_rec_handle_libcw_keying_event(), in the generator's thread.        *)

RestOfEvent == UNCHANGED <<polling, sending, expected>>

EventIsOld ==
  /\ handler = "event" /\ key = tracked
  /\ handler' = "none"
  /\ UNCHANGED <<vars, pending, tracked>> /\ RestOfEvent

EventIsTracked ==
  /\ handler = "event" /\ key # tracked
  /\ tracked' = key
  /\ handler' = IF key /\ pending THEN "cancel" ELSE "call"
  /\ UNCHANGED <<vars, pending>> /\ RestOfEvent

CancelResets ==
  /\ handler = "cancel"
  /\ ResetState
  /\ handler' = "cancelled"
  /\ UNCHANGED <<pending, tracked>> /\ RestOfEvent

\* Mutant: the word space is still waited for.
CancelForgets ==
  /\ handler = "cancelled"
  /\ handler' = "call"
  /\ UNCHANGED <<vars, pending, tracked>> /\ RestOfEvent

CancelClears ==
  /\ handler = "cancelled"
  /\ pending' = FALSE
  /\ handler' = "call"
  /\ UNCHANGED <<vars, tracked>> /\ RestOfEvent

MarkBeginIsTold ==
  /\ handler = "call" /\ key
  /\ MarkBegin(0, "good")
  /\ handler' = "none"
  /\ UNCHANGED <<pending, tracked>> /\ RestOfEvent

\* Noise is no error; ERANGE, ENOENT and ENOMEM are.
MarkEndIsTold ==
  /\ handler = "call" /\ ~key
  /\ MarkEnd(lasted, "good")
  /\ handler' = IF state # "mark" \/ state' \in GapStates THEN "recover" ELSE "none"
  /\ UNCHANGED <<pending, tracked>> /\ RestOfEvent

\* Mutant: the receiver is left in its error.
LeaveError ==
  /\ handler = "recover"
  /\ handler' = "none"
  /\ UNCHANGED <<vars, pending, tracked>> /\ RestOfEvent

Recover ==
  /\ handler = "recover"
  /\ ResetState
  /\ handler' = "none"
  /\ UNCHANGED <<pending, tracked>> /\ RestOfEvent

Handler ==
  \/ EventIsOld \/ EventIsTracked \/ CancelResets \/ CancelClears
  \/ MarkBeginIsTold \/ MarkEndIsTold \/ Recover

---------------------------------------------------------------------------
(* The polling thread.                                                        *)

RestOfPoll == UNCHANGED <<polled, keying, sending, expected>>

Wake ==
  /\ poller = "sleep" /\ ~polled /\ (Races \/ handler = "none")
  /\ poller' = IF pending THEN "iws" ELSE "character"
  /\ erd' = Nothing /\ sure' = FALSE
  /\ UNCHANGED <<vars, pending>> /\ RestOfPoll

Finds == PollFinds(0, "good")

\* Mutant: a representation of no character is handed over as well.
IsPolledUnchecked == Finds \in {"character", "word"}

IsPolled == Finds \in {"character", "word"} /\ representation \in Known
Received == [character |-> representation, is_iws |-> Finds = "word"]

\* cw_easy_rec_poll_iws_internal()
PollSpace ==
  /\ poller = "iws"
  /\ Poll(0, "good")
  /\ erd' = IF IsPolled THEN Received ELSE erd
  /\ poller' = IF IsPolled /\ Finds = "word" THEN "drop" ELSE "again"
  /\ UNCHANGED <<pending, sure>> /\ RestOfPoll

DropCharacter ==
  /\ poller = "drop"
  /\ ResetState
  /\ poller' = "clear"
  /\ UNCHANGED <<pending, erd, sure>> /\ RestOfPoll

ClearPending ==
  /\ poller = "clear"
  /\ pending' = FALSE
  /\ poller' = "again"
  /\ UNCHANGED <<vars, erd, sure>> /\ RestOfPoll

\* cw_easy_rec_poll_data_internal() takes the cleared flag for a polled space.
LookAgain ==
  /\ poller = "again" /\ ~pending
  /\ poller' = "character"
  /\ sure' = TRUE
  /\ UNCHANGED <<vars, pending, erd>> /\ RestOfPoll

\* cw_easy_rec_poll_character_internal()
PollCharacter ==
  /\ poller = "character"
  /\ Poll(0, "good")
  /\ IF IsPolled
     THEN erd' = Received /\ poller' = "hold"
     ELSE /\ erd' = erd
          /\ \/ Finds \in {"character", "word"} /\ poller' = "forget"
             \/ Finds \notin {"character", "word"} /\ sure /\ poller' = "callback"
             \/ Finds \notin {"character", "word"} /\ ~sure /\ poller' = "sleep"
  /\ polled' = (poller' = "sleep")
  /\ UNCHANGED <<pending, sure, keying, sending, expected>>

\* Mutant: no word space is waited for.
HoldNothing ==
  /\ poller = "hold"
  /\ poller' = "callback"
  /\ UNCHANGED <<vars, pending, erd, sure>> /\ RestOfPoll

Hold ==
  /\ poller = "hold"
  /\ pending' = TRUE
  /\ poller' = "callback"
  /\ UNCHANGED <<vars, erd, sure>> /\ RestOfPoll

\* ENOENT: the representation is of no character.
Forget ==
  /\ poller = "forget"
  /\ ResetState
  /\ poller' = IF sure THEN "callback" ELSE "sleep"
  /\ polled' = ~sure
  /\ UNCHANGED <<pending, erd, sure, keying, sending, expected>>

FindNoSpace ==
  /\ poller = "again" /\ pending
  /\ poller' = "sleep" /\ polled' = TRUE
  /\ UNCHANGED <<vars, pending, erd, sure, keying, sending, expected>>

Callback ==
  /\ poller = "callback"
  /\ expected' = IF expected = << >> THEN expected ELSE Tail(expected)
  /\ poller' = "sleep" /\ polled' = TRUE
  /\ UNCHANGED <<vars, pending, erd, sure, keying, sending>>

Poller ==
  \/ Wake \/ PollSpace \/ DropCharacter \/ ClearPending \/ LookAgain \/ FindNoSpace
  \/ PollCharacter \/ Hold \/ Forget \/ Callback

EasyNext == KeyDown \/ KeyUp \/ Clear \/ Tick \/ Handler \/ Poller

\* The threads and the clock go on, and the sender with a character it has
\* begun.
EasySpec ==
  /\ EasyInit /\ [][EasyNext]_easyVars
  /\ WF_easyVars(Tick) /\ WF_easyVars(Handler) /\ WF_easyVars(Poller)
  /\ WF_easyVars(KeyUp) /\ WF_easyVars(KeyDown /\ ~resting)

---------------------------------------------------------------------------
AtRest == handler = "none" /\ poller = "sleep" /\ polled

\* The application is handed the characters and the spaces between words that
\* were sent, each one once and in their order.
DeliversWhatWasSent ==
  poller = "callback" => expected # << >> /\ Item = Head(expected)

\* When a new character begins, all that was sent before has been handed over.
NothingIsLate == (AtRest /\ key /\ current = << >>) => expected = << >>

\* A word space is waited for exactly as long as the receiver holds the
\* character before it, so that neither a mark nor a space is turned away.
PendingFitsReceiver == AtRest => (pending <=> state \in {"eoc", "eow"})

\* Everything that was sent is handed over in the end.
EverythingArrives == expected # << >> ~> expected = << >>

\* What was sent is handed over, in its order and before the next character begins,
\* because the flag of the poller and the state of the receiver agree whenever both
\* are at rest.
DeliversInTime == EasyTypeOK /\ PendingFitsReceiver /\ DeliversWhatWasSent /\ NothingIsLate

-----------------------------------------------------------------------------
\* For TLC: E, T, A, N and I; two dashes stand for a representation of no character.
Characters == { <<"dot">>, <<"dash">>, <<"dot", "dash">>, <<"dash", "dot">>, <<"dot", "dot">> }
=============================================================================
