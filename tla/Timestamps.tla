------------------------------ MODULE Timestamps ------------------------------
(***************************************************************************)
(* Timestamps of key events (libcw_utils.c): how they are validated and    *)
(* compared.  The receiver keeps one and compares the next one with it;    *)
(* what it takes for the length of a mark or a space is the answer.        *)
(*                                                                         *)
(* The caller's clock goes on, or is set back; a caller may also give what *)
(* is no time.  A second has few microseconds here, and an int few values. *)
(***************************************************************************)
EXTENDS Integers

CONSTANTS
    UsecsPerSec,     \* CW_USECS_PER_SEC
    IntMax,          \* INT_MAX
    MaxSec           \* bound: the latest time

ASSUME TimestampAssumption ==
    UsecsPerSec \in Nat \ {0} /\ IntMax \in Nat /\ IntMax > UsecsPerSec /\ MaxSec \in Nat

VARIABLES
    kept,            \* the timestamp kept last
    clock,           \* [tv_sec, tv_usec] of the caller
    compared         \* [elapsed, answer] of the last comparison

timeVars == <<kept, clock, compared>>

Usecs(t) == t.tv_sec * UsecsPerSec + t.tv_usec
Times == [tv_sec : 0..MaxSec, tv_usec : 0..UsecsPerSec-1]

(* A long that is converted to int.                                        *)
ToInt(n) == ((n + IntMax + 1) % (2 * (IntMax + 1))) - (IntMax + 1)

-----------------------------------------------------------------------------
(* cw_timestamp_validate_internal()                                        *)
IsValid(t) == t.tv_sec >= 0 /\ t.tv_usec >= 0 /\ t.tv_usec < UsecsPerSec

(* cw_timestamp_compare_internal()                                         *)
Delta(earlier, later) == (later.tv_sec - earlier.tv_sec) * UsecsPerSec + later.tv_usec - earlier.tv_usec
\* Mutant: only the seconds are compared with the limit.
IsTooLongInSeconds(earlier, later) == later.tv_sec - earlier.tv_sec > (IntMax \div UsecsPerSec) + 1
IsTooLong(earlier, later) ==
    later.tv_sec - earlier.tv_sec > (IntMax \div UsecsPerSec) + 1 \/ Delta(earlier, later) < 0
Compare(earlier, later) == IF IsTooLong(earlier, later) THEN IntMax ELSE ToInt(Delta(earlier, later))

-----------------------------------------------------------------------------
KeyingEvent(t) ==
    /\ IF IsValid(t)
       THEN kept' = t /\ compared' = [elapsed |-> Delta(kept, t), answer |-> Compare(kept, t)]
       ELSE UNCHANGED <<kept, compared>>
    /\ UNCHANGED clock

(* What a caller may take for its time: the clock, or one that carries     *)
(* microseconds or borrows them.                                           *)
Events ==
    \/ KeyingEvent(clock)
    \/ clock.tv_sec > 0 /\ KeyingEvent([tv_sec |-> clock.tv_sec - 1, tv_usec |-> clock.tv_usec + UsecsPerSec])
    \/ KeyingEvent([tv_sec |-> clock.tv_sec + 1, tv_usec |-> clock.tv_usec - UsecsPerSec])

SetClock == clock' \in Times /\ UNCHANGED <<kept, compared>>

TimestampsInit ==
    /\ clock \in Times /\ kept = [tv_sec |-> 0, tv_usec |-> 0]
    /\ compared = [elapsed |-> 0, answer |-> 0]
TimestampsNext == Events \/ SetClock
TimestampsSpec == TimestampsInit /\ [][TimestampsNext]_timeVars

-----------------------------------------------------------------------------
(* An interval that fits an int is told exactly, and a clock that was set  *)
(* back makes the longest interval, never a short or a negative one.       *)
IntervalsAreTold ==
    /\ compared.elapsed \in 0..IntMax => compared.answer = compared.elapsed
    /\ compared.elapsed < 0 => compared.answer = IntMax

(* "This routine always returns a positive integer in the range 0 to       *)
(* INT_MAX": up to a second and a half beyond INT_MAX it does not.         *)
IntervalsArePositive == compared.answer \in 0..IntMax
=============================================================================
