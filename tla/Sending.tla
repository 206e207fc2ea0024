-------------------------------- MODULE Sending --------------------------------
(***************************************************************************)
(* Sending text and keying with a straight key (libcw_gen.c, libcw_key.c): *)
(* characters, representations and strings become tones, a mark or a space *)
(* each; spaces are made up from parts, and space_units_count remembers    *)
(* which parts are in the queue already.  The generator takes tones out    *)
(* while a call puts them in, one critical section for each tone.          *)
(*                                                                         *)
(* One client calls.  The queue is that of ToneFifo.  Assertions are off,  *)
(* as with NDEBUG: a key value that finds no room fails.                   *)
(***************************************************************************)
EXTENDS Sequences, Integers

CONSTANTS
    Capacity, HighWaterMark,   \* of the tone queue
    Representations,           \* what is sent: sequences of marks
    Strings,                   \* sequences of representations and blanks
    DotCalibration,            \* the duration of a dot at 1 wpm
    MinSpeed, MaxSpeed, MinWeighting, MaxWeighting,
    Initial,                   \* speed, weighting and gap of a new generator
    Speeds, Weightings, Gaps,  \* what the client asks for
    Console                    \* the sound system is the console buzzer

(* The queue has room above its high water mark for any character: 2900    *)
(* and 3000 tones in the library, and at most two tones for each mark.     *)
ASSUME QueueAssumption ==
    /\ Capacity \in Nat /\ HighWaterMark \in 1..Capacity
    /\ \A r \in Representations : r \in Seq({"dot", "dash"}) /\ r # <<>>
    /\ \A r \in Representations : 2 * Len(r) =< Capacity - HighWaterMark
    /\ Console \in BOOLEAN

Blank == <<>>
ASSUME StringsAssumption == Strings \subseteq Seq(Representations \union {Blank})
ASSUME ParametersAssumption ==
    /\ DotCalibration \in Nat /\ MinSpeed \in Nat \ {0} /\ MaxSpeed \in Nat
    /\ MinWeighting \in Nat /\ MaxWeighting \in Nat
    /\ Speeds \subseteq Int /\ Weightings \subseteq Int /\ Gaps \subseteq Nat
    /\ Initial \in [speed : MinSpeed..MaxSpeed, weighting : MinWeighting..MaxWeighting, gap : Nat]

(* The limits of libcw.h, which are far from what the durations need.      *)
ASSUME LimitsAssumption ==
    /\ MaxSpeed =< DotCalibration
    /\ 20 =< MinWeighting /\ MaxWeighting =< 80

VARIABLES
    items,       \* the tone queue
    current,     \* the tone the generator plays, or "none"
    count,       \* gen->space_units_count
    text,        \* what the string that is being sent has left
    steps,       \* the tones that the current call has left to enqueue
    part,        \* the duration of one half of the inter-word-space
    key,         \* key->sk.key_value: the straight key is closed
    parameters   \* speed, weighting and gap

call == <<text, steps, part>>
vars == <<items, current, count, call, key, parameters>>

(* The steps of a call, each of which enqueues a tone: the first mark of a *)
(* character, another mark, the parts of a space; slope, "forever" tone of *)
(* a closed key, slope and silent "forever" tone of an open key, and a     *)
(* quantum of silence.                                                     *)
Marks == {"first", "mark", "rising", "hold", "falling"}
Spaces == {"ims", "ics", "half", "adjust", "rest", "quantum"}
TextSteps == {"first", "mark", "ims", "ics"}

(* What the queue tells apart.                                             *)
Tones == {"first", "mark", "hold", "space", "rest"}
Tone(step) ==
    CASE step \in {"first", "hold", "rest"} -> step
      [] step \in {"mark", "rising", "falling"} -> "mark"
      [] OTHER -> "space"

Init ==
    /\ items = <<>> /\ current = "none"
    /\ count = 0
    /\ text = <<>> /\ steps = <<>> /\ part = 0
    /\ key = FALSE
    /\ parameters = Initial

-----------------------------------------------------------------------------
(* Durations.                                                              *)

(* C's division.                                                           *)
Quotient(n, d) == IF n >= 0 THEN n \div d ELSE -((-n) \div d)

(* cw_gen_sync_parameters_internal(); the setters call it, so that the     *)
(* durations are always those of the parameters.                           *)
Durations(p) ==
    LET unit == DotCalibration \div p.speed
        weighting == Quotient(2 * (p.weighting - 50) * unit, 100)
        w == Quotient(28 * weighting, 22)
        dot == unit + weighting
    IN  [dot |-> dot, dash |-> 3 * dot,
         ims |-> unit - w, ics |-> 3 * unit + w, iws |-> 7 * unit - w,
         additional |-> p.gap * unit,
         adjustment |-> (7 * p.gap * unit) \div 3]

Now == Durations(parameters)

(* A negative duration is replaced by that of the whole space.             *)
FailSafe(duration, whole) == IF duration < 0 THEN whole ELSE duration

(* Mutant: what is in the queue already is not taken off.                  *)
RestOfIcsUncounted == FailSafe(Now.ics, Now.ics)

RestOfIcs == FailSafe(IF count = 1 THEN Now.ics - Now.ims ELSE Now.ics, Now.ics)

RestOfIws ==
    FailSafe(CASE count = 1 -> Now.iws - Now.ims
               [] count = 3 -> Now.iws - Now.ics
               [] OTHER -> Now.iws, Now.iws)

(* How much silence a tone adds; the "forever" one lasts as long as the    *)
(* client wants.                                                           *)
Silence(step) ==
    CASE step = "ims" -> Now.ims
      [] step = "ics" -> RestOfIcs + Now.additional
      [] step = "half" -> part
      [] step = "adjust" -> Now.adjustment
      [] OTHER -> 0

-----------------------------------------------------------------------------
(* Parameters.                                                             *)

IsFree == steps = <<>> /\ text = <<>>

Tune(p) ==
    /\ IsFree
    /\ p # parameters
    /\ parameters' = p
    /\ UNCHANGED <<items, current, count, call, key>>

SetSpeed(wpm) == wpm \in MinSpeed..MaxSpeed /\ Tune([parameters EXCEPT !.speed = wpm])

(* Mutant: any weighting is taken.                                         *)
SetWeightingUnchecked(percent) == Tune([parameters EXCEPT !.weighting = percent])

SetWeighting(percent) ==
    /\ percent \in MinWeighting..MaxWeighting
    /\ Tune([parameters EXCEPT !.weighting = percent])

SetGap(gap) == Tune([parameters EXCEPT !.gap = gap])

-----------------------------------------------------------------------------
(* The calls.  A character is refused when the queue is filled up to the   *)
(* high water mark.                                                        *)

MarksAndSpaces(representation) ==
    [i \in 1..(2 * Len(representation)) |->
        IF i = 1 THEN "first" ELSE IF i % 2 = 1 THEN "mark" ELSE "ims"]

IwsParts ==
    IF Now.adjustment > 0 THEN <<"half", "half", "adjust">> ELSE <<"half", "half">>

(* Mutant: a character is sent as long as there is room for one more tone. *)
HasRoomForOne == Len(items) < Capacity

HasRoom == Len(items) < HighWaterMark

(* cw_gen_enqueue_representation() and ..._no_ics(), and the functions for *)
(* a single character.                                                     *)
SendCharacter(representation, last) ==
    /\ IsFree
    /\ HasRoom
    /\ steps' = MarksAndSpaces(representation) \o last
    /\ UNCHANGED <<items, current, count, text, part, key, parameters>>

BeginSpace ==
    /\ steps' = IwsParts
    /\ part' = RestOfIws \div 2
    /\ UNCHANGED <<items, current, count, key, parameters>>

SendSpace ==
    /\ IsFree
    /\ BeginSpace
    /\ UNCHANGED text

SendString(string) ==
    /\ IsFree
    /\ text' = string
    /\ UNCHANGED <<items, current, count, steps, part, key, parameters>>

(* The next character of a string; the rest is dropped when one fails.     *)
NextOfString ==
    /\ steps = <<>> /\ text # <<>>
    /\ \/ /\ Head(text) = Blank
          /\ BeginSpace
          /\ text' = Tail(text)
       \/ /\ Head(text) # Blank /\ HasRoom
          /\ steps' = Append(MarksAndSpaces(Head(text)), "ics")
          /\ text' = Tail(text)
          /\ UNCHANGED <<items, current, count, part, key, parameters>>
       \/ /\ Head(text) # Blank /\ ~HasRoom
          /\ text' = <<>>
          /\ UNCHANGED <<items, current, count, steps, part, key, parameters>>

KeyUpSteps == IF Console THEN <<"quantum">> ELSE <<"falling", "rest">>

SetKey(value) ==
    /\ IsFree
    /\ value # key
    /\ key' = value
    /\ steps' = IF value THEN <<"rising", "hold">> ELSE KeyUpSteps
    /\ UNCHANGED <<items, current, count, text, part, parameters>>

RemoveLastCharacter ==
    /\ IsFree
    /\ \E i \in DOMAIN items :
          /\ items[i] = "first"
          /\ \A j \in DOMAIN items : j > i => items[j] # "first"
          /\ items' = SubSeq(items, 1, i - 1)
    /\ UNCHANGED <<current, count, call, key, parameters>>

(* cw_gen_flush_queue() and cw_key_sk_reset_internal(): the queue is       *)
(* discarded, at once or by the generator's thread, and a quantum of       *)
(* silence is waited for.  Generator has the way to it.                    *)
Silenced ==
    /\ IsFree
    /\ items' = <<>>
    /\ steps' = <<"quantum", "wait">>
    /\ UNCHANGED <<current, count, text, part, parameters>>

FlushQueue == Silenced /\ UNCHANGED key
ResetKey == Silenced /\ key' = FALSE

WaitForSilence ==
    /\ steps = <<"wait">>
    /\ items = <<>>
    /\ steps' = <<>>
    /\ UNCHANGED <<items, current, count, text, part, key, parameters>>

-----------------------------------------------------------------------------
(* The tones of a call, one critical section after the other.              *)

(* The counter after a tone, enqueued or not.                              *)
Counted(step) == CASE step = "ims" -> 1 [] step = "ics" -> 3 [] OTHER -> 0

(* The counter still has its old value between the parts of a space.       *)
IsLastOfSpace == steps = <<"half">> \/ Head(steps) = "adjust"

Enqueues == steps # <<>> /\ Head(steps) # "wait"

Enqueue ==
    /\ Enqueues
    /\ Len(items) < Capacity
    /\ items' = Append(items, Tone(Head(steps)))
    /\ count' = IF Head(steps) = "half" /\ ~IsLastOfSpace THEN count ELSE Counted(Head(steps))
    /\ steps' = Tail(steps)
    /\ part' = IF IsLastOfSpace THEN 0 ELSE part
    /\ UNCHANGED <<current, text, key, parameters>>

(* A call ends when a tone finds no room, but for the slope before a mark  *)
(* of the straight key.                                                    *)
EnqueueFails ==
    /\ Enqueues
    /\ Len(items) = Capacity
    /\ count' = Counted(Head(steps))
    /\ steps' = IF Head(steps) = "rising" THEN Tail(steps) ELSE <<>>
    /\ text' = <<>>
    /\ part' = 0
    /\ UNCHANGED <<items, current, key, parameters>>

-----------------------------------------------------------------------------
(* The generator.                                                          *)

IsForever(tone) == tone \in {"hold", "rest"}
(* Mutant: a "forever" tone does not give way.                             *)
StaysForever == IsForever(Head(items))

Stays == Len(items) = 1 /\ IsForever(Head(items))

Dequeue ==
    /\ items # <<>>
    /\ current' = Head(items)
    /\ items' = IF Stays THEN items ELSE Tail(items)
    /\ UNCHANGED <<count, call, key, parameters>>

FindEmpty ==
    /\ items = <<>> /\ current # "none"
    /\ current' = "none"
    /\ UNCHANGED <<items, count, call, key, parameters>>

Client ==
    \/ \E wpm \in Speeds : SetSpeed(wpm)
    \/ \E percent \in Weightings : SetWeighting(percent)
    \/ \E gap \in Gaps : SetGap(gap)
    \/ \E r \in Representations, last \in {<<>>, <<"ics">>} : SendCharacter(r, last)
    \/ SendSpace
    \/ \E string \in Strings : SendString(string)
    \/ \E value \in BOOLEAN : SetKey(value)
    \/ RemoveLastCharacter \/ FlushQueue \/ ResetKey
    \/ NextOfString \/ Enqueue \/ EnqueueFails \/ WaitForSilence

Next == Client \/ Dequeue \/ FindEmpty

Spec == Init /\ [][Next]_vars

-----------------------------------------------------------------------------
TypeOK ==
    /\ items \in Seq(Tones) /\ Len(items) =< Capacity
    /\ current \in Tones \union {"none"}
    /\ count \in {0, 1, 3}
    /\ text \in Seq(Representations \union {Blank})
    /\ steps \in Seq(Marks \union Spaces \union {"wait"})
    /\ part \in Int
    /\ key \in BOOLEAN
    /\ parameters \in [speed : MinSpeed..MaxSpeed, weighting : MinWeighting..MaxWeighting,
                       gap : Nat]

(* A character is enqueued as a whole or not at all: there is always room  *)
(* for the tones that a character which was not refused has left, so that  *)
(* no half of one is ever sent.                                            *)
CharactersAreWhole ==
    (steps # <<>> /\ Head(steps) \in TextSteps) => Len(items) + Len(steps) =< Capacity

(* No parameters make a duration negative or empty, and a space is never   *)
(* shorter than the part of it that has been enqueued: the failsafes of    *)
(* cw_gen_enqueue_ics_internal() and ..._iws_internal() are not needed.    *)
DurationsArePositive ==
    /\ 0 < Now.dot /\ 0 < Now.ims
    /\ Now.ims < Now.ics /\ Now.ics < Now.iws
=============================================================================
