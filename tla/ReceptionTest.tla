---------------------------- MODULE ReceptionTest ----------------------------
(***************************************************************************)
(* The judgement of a test of reception (cw_rec_tester.c): what a receiver *)
(* has heard is collected, and compared with what was sent.  The beginning *)
(* may be wrong, as an adaptive receiver has to find the speed first.      *)
(***************************************************************************)
EXTENDS Integers, Sequences, FiniteSets, SequencesExt

CONSTANTS
    ReceivedLetters, \* what can be received; Lower has each of them in lower case
    Lower,
    SentTexts,       \* input_string, in lower case
    ReceivedSize,    \* REC_TEST_RECEIVED_BUFFER_SIZE
    AcceptableRate,  \* acceptable_error_rate_percent; the code has 1
    AcceptableIndex  \* acceptable_last_mismatch_index; the code has 10

ASSUME ReceptionAssumption ==
    /\ " " \notin ReceivedLetters /\ \A l \in ReceivedLetters : Lower[l] # " "
    /\ \A t \in SentTexts : t \in Seq(Range(t))
    /\ ReceivedSize \in Nat \ {0} /\ AcceptableRate \in Nat /\ AcceptableIndex \in Nat

VARIABLES
    input_string,
    received_string,
    verdict          \* "none", "pass", "fail", or "error" where receiving has failed

receptionVars == <<input_string, received_string, verdict>>

-----------------------------------------------------------------------------
(* cw_rec_tester_on_character() and cw_rec_tester_on_space(): a space that *)
(* is received follows a character.  The receiver is polled once more, and *)
(* has to say the same again.                                              *)
Receive(c) ==
    /\ IF Len(received_string) >= ReceivedSize - 1
       THEN verdict' = "error" /\ UNCHANGED received_string
       ELSE received_string' = Append(received_string, c) /\ verdict' \in {verdict, "error"}
    /\ UNCHANGED input_string

OnCharacter == \E c \in ReceivedLetters : Receive(c)
OnSpace == received_string # <<>> /\ Last(received_string) # " " /\ Receive(" ")

(* string_trim_end() and string_tolower()                                  *)
TrimEnd(text) ==
    LET ends == {n \in DOMAIN text : text[n] # " "} IN
    SubSeq(text, 1, IF ends = {} THEN 0 ELSE CHOOSE n \in ends : \A m \in ends : m <= n)
ToLower(text) == [i \in DOMAIN text |-> IF text[i] \in ReceivedLetters THEN Lower[text[i]] ELSE text[i]]

(* cw_rec_tester_input_and_received_match(): both from their ends, as far  *)
(* as the shorter goes; indices of the input count from 0.                 *)
ComparisonLength(input, received) == IF Len(input) <= Len(received) THEN Len(input) ELSE Len(received)
Mismatches(input, received) ==
    {i \in 0..ComparisonLength(input, received)-1 : input[Len(input) - i] # received[Len(received) - i]}

\* Mutant: each mismatch on the way to the beginning takes the place of the last.
LastMismatchOverwritten(input, received) ==
    Len(input) - 1 - (CHOOSE i \in Mismatches(input, received) : \A j \in Mismatches(input, received) : j <= i)
LastMismatchIndex(input, received) ==
    Len(input) - 1 - (CHOOSE i \in Mismatches(input, received) : \A j \in Mismatches(input, received) : i <= j)

Match(input, received) ==
    /\ input # <<>> /\ received # <<>>
    /\ Mismatches(input, received) # {} =>
          /\ 100 * Cardinality(Mismatches(input, received)) <= AcceptableRate * ComparisonLength(input, received)
          /\ LastMismatchIndex(input, received) <= AcceptableIndex

(* cw_rec_tester_evaluate_receive_correctness()                            *)
Evaluate ==
    /\ input_string' = TrimEnd(input_string)
    /\ received_string' = ToLower(TrimEnd(received_string))
    /\ verdict' = IF Match(input_string', received_string') THEN "pass" ELSE "fail"

-----------------------------------------------------------------------------
ReceptionInit == input_string \in SentTexts /\ received_string = <<>> /\ verdict = "none"

ReceptionNext == verdict = "none" /\ (OnCharacter \/ OnSpace \/ Evaluate)

ReceptionSpec == ReceptionInit /\ [][ReceptionNext]_receptionVars

-----------------------------------------------------------------------------
(* Where the receiver was to be tuned: the end of the input.               *)
TunedPart == SubSeq(input_string, AcceptableIndex + 2, Len(input_string))

(* A receiver passes if all that it heard after the beginning is what was  *)
(* sent: one text ends with the other, beginnings aside.                   *)
PassedIsTuned ==
    verdict = "pass" => received_string # <<>> /\ (IsSuffix(TunedPart, received_string) \/ IsSuffix(received_string, TunedPart))

(* "Comparing from the end makes sure that after first 5-10 characters the *)
(* receiver performs 100% correctly."                                      *)
PassedIsReceived == verdict = "pass" => IsSuffix(TunedPart, received_string)
=============================================================================
