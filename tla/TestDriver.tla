------------------------------ MODULE TestDriver ------------------------------
(***************************************************************************)
(* The driver of receive tests (cw_rec_tester.c): a thread starts the      *)
(* generator and enqueues the first characters of a text; the rest of them *)
(* is enqueued by the low water callback, in the generator's thread.  Both *)
(* use the same index.                                                     *)
(*                                                                         *)
(* The tones of a character are as many copies of its position.            *)
(***************************************************************************)
EXTENDS Integers, Sequences, SequencesExt

CONSTANTS
    TextLength,              \* of input_string
    CharacterSizes,          \* numbers of tones of a character
    InitialCount,            \* initial_count, in the code 5
    CharactersToEnqueue,     \* characters_to_enqueue
    LowLevel,                \* the level of the callback, in the code 5
    Prompt                   \* the first characters are enqueued before the first tone is taken

ASSUME TestDriverAssumption ==
    /\ TextLength \in Nat /\ CharacterSizes \subseteq Nat \ {0} /\ Prompt \in BOOLEAN
    /\ InitialCount \in Nat /\ CharactersToEnqueue \in Nat /\ LowLevel \in Nat

VARIABLES
    input_string_i,  \* shared by the two threads
    player,          \* [at, c, left] of cw_rec_tester_play_string()
    handler,         \* [at, c, left] of low_tone_queue_callback()
    is_registered,   \* the callback
    queue, sent,
    generating_in_progress

driverVars == <<input_string_i, player, handler, is_registered, queue, sent, generating_in_progress>>

-----------------------------------------------------------------------------
(* The body of both loops: the character at the index, none beyond the end;*)
(* its tones; and the index, which is read again to be increased.          *)
Fetch(thread, c) == [thread EXCEPT !.at = "enqueue", !.c = c]
Enqueue(c) == \E n \in CharacterSizes : queue' = queue \o [i \in 1..n |-> c]
Advance(thread) == [thread EXCEPT !.at = IF thread.left = 1 THEN "done" ELSE "fetch", !.left = @ - 1]

PlayString ==
    /\ \/ /\ player.at = "fetch"
          /\ player' = IF input_string_i > TextLength THEN [player EXCEPT !.at = "done"]
                       ELSE Fetch(player, input_string_i)
          /\ UNCHANGED <<input_string_i, queue, generating_in_progress>>
       \/ /\ player.at = "enqueue"
          /\ Enqueue(player.c) /\ player' = [player EXCEPT !.at = "advance"]
          /\ UNCHANGED <<input_string_i, generating_in_progress>>
       \/ /\ player.at = "advance"
          /\ input_string_i' = input_string_i + 1 /\ player' = Advance(player)
          /\ UNCHANGED <<queue, generating_in_progress>>
       \/ /\ player.at = "done" /\ queue = <<>> /\ handler.at = "idle"
          /\ player' = [player EXCEPT !.at = "deleted"] /\ generating_in_progress' = FALSE
          /\ UNCHANGED <<input_string_i, queue>>
    /\ UNCHANGED <<handler, is_registered, sent>>

\* Mutant: the callback runs once.
UnregisteredAlways == is_registered' = FALSE
Unregistered == IF input_string_i > TextLength THEN is_registered' = FALSE ELSE UNCHANGED is_registered

LowToneQueueCallback ==
    /\ \/ /\ handler.at = "fetch"
          /\ Unregistered
          /\ handler' = IF input_string_i > TextLength THEN [handler EXCEPT !.at = "idle"]
                        ELSE Fetch(handler, input_string_i)
          /\ UNCHANGED <<input_string_i, queue>>
       \/ /\ handler.at = "enqueue"
          /\ Enqueue(handler.c) /\ handler' = [handler EXCEPT !.at = "advance"]
          /\ UNCHANGED <<input_string_i, is_registered>>
       \/ /\ handler.at = "advance"
          /\ input_string_i' = input_string_i + 1 /\ handler' = Advance(handler)
          /\ UNCHANGED <<queue, is_registered>>
       \/ /\ handler.at = "done"
          /\ handler' = [handler EXCEPT !.at = "idle"]
          /\ UNCHANGED <<input_string_i, queue, is_registered>>
    /\ UNCHANGED <<player, sent, generating_in_progress>>

(* The generator's thread goes on to the next tone.                        *)
Dequeue ==
    /\ handler.at = "idle" /\ queue # <<>>
    /\ Prompt => player.at = "done"
    /\ queue' = Tail(queue)
    /\ sent' = IF sent = <<>> \/ Last(sent) # Head(queue) THEN Append(sent, Head(queue)) ELSE sent
    /\ handler' = IF is_registered /\ Len(queue) = LowLevel + 1
                  THEN [at |-> "fetch", c |-> 0, left |-> CharactersToEnqueue] ELSE handler
    /\ UNCHANGED <<input_string_i, player, is_registered, generating_in_progress>>

-----------------------------------------------------------------------------
DriverInit ==
    /\ input_string_i = 1
    /\ player = [at |-> "fetch", c |-> 0, left |-> InitialCount]
    /\ handler = [at |-> "idle", c |-> 0, left |-> 0]
    /\ is_registered = TRUE /\ queue = <<>> /\ sent = <<>> /\ generating_in_progress = TRUE

DriverNext == PlayString \/ LowToneQueueCallback \/ Dequeue
DriverSpec == DriverInit /\ [][DriverNext]_driverVars

-----------------------------------------------------------------------------
(* The receiver is keyed with the text: its characters in their order, and *)
(* all of them before the driver says that it has finished.                *)
TextIsSent ==
    /\ \A i \in DOMAIN sent : sent[i] = i
    /\ ~generating_in_progress => Len(sent) = TextLength
=============================================================================
