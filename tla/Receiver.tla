------------------------------ MODULE Receiver ------------------------------
(* The receiver of libcw (libcw_rec.c): it is told when marks begin and end,  *)
(* identifies each mark as a dot or a dash by its duration, collects the marks *)
(* of a character, and hands the character over once the space after it is    *)
(* long enough.  In adaptive mode it follows the speed of the sender with     *)
(* moving averages of the durations it has seen.                              *)
(*                                                                            *)
(* Every function that writes a parameter the timings depend on calls         *)
(* cw_rec_sync_parameters_internal() before it returns, so between two calls  *)
(* the flag parameters_in_sync is always set and the synchronisations that    *)
(* identify_mark and poll_representation begin with find nothing to do: the   *)
(* flag is not a variable here.  The duration statistics are left out.        *)
EXTENDS Sequences, Integers

CONSTANTS
  DotCalibration,   \* CW_DOT_CALIBRATION: a dot at 1 wpm, in units of time
  MinSpeed, MaxSpeed, InitialSpeed,
  Speeds, Tolerances, Gaps,  \* values the clients set; 0 is a gap
  InitialTolerance,
  Noise,            \* noise_spike_threshold; 0 filters nothing
  Count,            \* CW_REC_AVERAGING_DURATIONS_COUNT
  Capacity,         \* CW_REC_REPRESENTATION_CAPACITY
  IntMax,           \* INT_MAX
  Steps,            \* how much later than the previous one a timestamp can be
  Horizon,          \* spaces longer than this are not told apart
  Requests          \* the requests the clients make, besides keying and polling

ASSUME SpeedAssumption ==
  /\ {MinSpeed, MaxSpeed, InitialSpeed, DotCalibration} \subseteq Nat \ {0}
  /\ MinSpeed =< InitialSpeed /\ InitialSpeed =< MaxSpeed
  /\ DotCalibration % MaxSpeed = 0 /\ DotCalibration % MinSpeed = 0
  /\ Speeds \subseteq Nat /\ Tolerances \subseteq 0..90 /\ Gaps \subseteq Nat
  /\ InitialTolerance \in 0..90
ASSUME SizeAssumption ==
  /\ Count \in Nat \ {0} /\ Capacity \in Nat /\ Capacity > 2
  /\ Noise \in Nat /\ IntMax \in Nat /\ Horizon \in Nat
  /\ Steps \subseteq 0..IntMax
ASSUME ReceiverRequestsAssumption ==
  Requests \subseteq {"speed", "tolerance", "gap", "adaptive", "reset", "add"}

VARIABLES
  state,            \* where the receiver is in its state graph
  representation,   \* the marks of the character being received
  space,            \* the time that has passed since mark_end
  timing,           \* speed, tolerance, gap, mode, threshold, ideal dot
  averages          \* the moving averages of dots and of dashes

vars == <<state, representation, space, timing, averages>>

Marks == {"dot", "dash"}
GapStates == {"eoc", "eow", "eocErr", "eowErr"}
States == {"idle", "mark", "ims"} \union GapStates

\* A timestamp is well formed, refused by cw_timestamp_validate_internal(), or
\* before the one it is compared with (the clock was set back), for which
\* cw_timestamp_compare_internal() answers INT_MAX.
Stamps == {"good", "bad", "early"}
Measured(stamp, duration) == IF stamp = "early" THEN IntMax ELSE duration

---------------------------------------------------------------------------
(* Timing parameters.                                                         *)

\* A C int after an addition, and C's division, which truncates towards zero.
CInt(n) == ((n + IntMax + 1) % (2 * (IntMax + 1))) - IntMax - 1
Quotient(n, d) == IF n >= 0 THEN n \div d ELSE -((-n) \div d)

\* The speed is a fraction, wpm = num / den; a zero threshold makes it infinite.
TooSlow(speed) == speed.den < 0 \/ speed.num < MinSpeed * speed.den
TooFast(speed) == speed.den >= 0 /\ speed.num > MaxSpeed * speed.den

\* The unit is calculated from the speed before the speed is.
Synced(t) ==
  LET unit == (DotCalibration * t.speed.den) \div t.speed.num
  IN  IF t.adaptive
      THEN [t EXCEPT !.unit = unit,
                     !.speed = [num |-> 2 * DotCalibration, den |-> t.threshold]]
      ELSE [t EXCEPT !.unit = unit, !.threshold = 2 * unit]

Margin(t) == (t.unit * t.tolerance) \div 100
DotMin(t) == IF t.adaptive THEN 0 ELSE t.unit - Margin(t)
DotMax(t) == IF t.adaptive THEN 2 * t.unit ELSE t.unit + Margin(t)
DashMin(t) == IF t.adaptive THEN DotMax(t) ELSE 3 * t.unit - Margin(t)
DashMaxOfFixedMode(t) == 3 * t.unit + Margin(t)
DashMax(t) == IF t.adaptive THEN IntMax ELSE 3 * t.unit + Margin(t)
CharacterMin(t) == DashMin(t)
CharacterMax(t) == IF t.adaptive
                   THEN 5 * t.unit
                   ELSE DashMax(t) + t.gap * t.unit + (7 * t.gap * t.unit) \div 3

NewTiming == Synced([speed |-> [num |-> InitialSpeed, den |-> 1],
                     tolerance |-> InitialTolerance, gap |-> 0, adaptive |-> FALSE,
                     threshold |-> 2 * (DotCalibration \div InitialSpeed), unit |-> 0])

Zero == [buffer |-> [i \in 0..Count - 1 |-> 0], cursor |-> 0, sum |-> 0, average |-> 0]

Init ==
  /\ state = "idle" /\ representation = << >>
  /\ space = Horizon
  /\ timing = NewTiming
  /\ averages = [mark \in Marks |-> Zero]

---------------------------------------------------------------------------
(* The clients' requests.                                                     *)

Tune(t) ==
  /\ timing' = t
  /\ UNCHANGED <<state, representation, space, averages>>

\* A speed within half a word per minute of the current one changes nothing.
Differs(speed, wpm) ==
  LET d == wpm * speed.den - speed.num
  IN  2 * (IF d < 0 THEN -d ELSE d) >= speed.den

SetSpeedUnchecked(wpm) ==
  /\ "speed" \in Requests /\ ~timing.adaptive /\ wpm > 0
  /\ Tune(Synced([timing EXCEPT !.speed = [num |-> wpm, den |-> 1]]))

SetSpeed(wpm) ==
  /\ "speed" \in Requests
  /\ ~timing.adaptive /\ wpm \in MinSpeed..MaxSpeed
  /\ Differs(timing.speed, wpm)
  /\ Tune(Synced([timing EXCEPT !.speed = [num |-> wpm, den |-> 1]]))

SetTolerance(percent) ==
  /\ "tolerance" \in Requests
  /\ percent # timing.tolerance
  /\ Tune(Synced([timing EXCEPT !.tolerance = percent]))

SetGap(gap) ==
  /\ "gap" \in Requests
  /\ gap # timing.gap
  /\ Tune(Synced([timing EXCEPT !.gap = gap]))

Filled(avg, duration) ==
  [avg EXCEPT !.buffer = [i \in 0..Count - 1 |-> duration],
              !.sum = duration * Count, !.cursor = 0]

\* The averages are those of the new unit, but for the field "average".
SetAdaptiveMode(mode) ==
  /\ "adaptive" \in Requests
  /\ mode # timing.adaptive
  /\ LET t == Synced([timing EXCEPT !.adaptive = mode])
     IN  /\ timing' = t
         /\ averages' = IF mode
                        THEN [dot |-> Filled(averages["dot"], t.unit),
                              dash |-> Filled(averages["dash"], 3 * t.unit)]
                        ELSE averages
  /\ UNCHANGED <<state, representation, space>>

\* cw_reset_send_receive_parameters(): resets and synchronises; the gap stays.
ResetParameters ==
  /\ "reset" \in Requests
  /\ Tune(Synced([NewTiming EXCEPT !.gap = timing.gap]))

ResetState ==
  /\ state' = "idle" /\ representation' = << >>
  /\ UNCHANGED <<space, timing, averages>>

---------------------------------------------------------------------------
(* Marks.  d is the time since the previous call: for the end of a mark, the  *)
(* duration of the mark.  A call that fails leaves the receiver as it was.    *)

Later(d) == IF space + d > Horizon THEN Horizon ELSE space + d

Passes(d) ==
  /\ space' = Later(d)
  /\ UNCHANGED <<state, representation, timing, averages>>

MarkBeginRefused(d, stamp) ==
  /\ (state \in {"mark"} \union GapStates \/ stamp = "bad")
  /\ Passes(d)

MarkBeginsAnytime(d, stamp) ==
  /\ stamp # "bad"
  /\ state' = "mark"
  /\ space' = Later(d)
  /\ UNCHANGED <<representation, timing, averages>>

MarkBegins(d, stamp) ==
  /\ state \in {"idle", "ims"} /\ stamp # "bad"
  /\ state' = "mark"
  /\ space' = Later(d)
  /\ UNCHANGED <<representation, timing, averages>>

MarkBegin(d, stamp) == MarkBeginRefused(d, stamp) \/ MarkBegins(d, stamp)

\* cw_rec_identify_mark_internal(): the mark, or "error".
Identified(duration, t) ==
  IF duration \in DotMin(t)..DotMax(t) THEN "dot"
  ELSE IF duration >= DashMin(t) /\ duration =< DashMax(t) THEN "dash"
  ELSE "error"

AveragedOverOldest(avg, duration) ==
  LET sum == CInt(avg.sum - avg.buffer[avg.cursor] + duration)
  IN  [buffer |-> [avg.buffer EXCEPT ![avg.cursor] = duration],
       cursor |-> avg.cursor, sum |-> sum, average |-> Quotient(sum, Count)]

AveragedUnwrapped(avg, duration) ==
  LET sum == CInt(avg.sum - avg.buffer[avg.cursor] + duration)
  IN  [buffer |-> [avg.buffer EXCEPT ![avg.cursor] = duration],
       cursor |-> avg.cursor + 1, sum |-> sum, average |-> Quotient(sum, Count)]

\* The oldest duration goes out, the new one comes in.
Averaged(avg, duration) ==
  LET sum == CInt(avg.sum - avg.buffer[avg.cursor] + duration)
  IN  [buffer |-> [avg.buffer EXCEPT ![avg.cursor] = duration],
       cursor |-> (avg.cursor + 1) % Count,
       sum |-> sum, average |-> Quotient(sum, Count)]

NewThreshold(avgs) ==
  LET dot == avgs["dot"].average
  IN  Quotient(avgs["dash"].average - dot, 2) + dot

Clamped(t, wpm) ==
  LET fixed == Synced([t EXCEPT !.speed = [num |-> wpm, den |-> 1], !.adaptive = FALSE])
  IN  Synced([fixed EXCEPT !.adaptive = TRUE])

AdaptedUnclamped(t, threshold) == Synced([t EXCEPT !.threshold = threshold])

Adapted(t, threshold) ==
  LET tracked == Synced([t EXCEPT !.threshold = threshold])
  IN  IF TooSlow(tracked.speed) THEN Clamped(tracked, MinSpeed)
      ELSE IF TooFast(tracked.speed) THEN Clamped(tracked, MaxSpeed)
      ELSE tracked

UpdateAverages(mark, duration) ==
  IF timing.adaptive
  THEN LET avgs == [averages EXCEPT ![mark] = Averaged(@, duration)]
       IN  /\ averages' = avgs
           /\ timing' = Adapted(timing, NewThreshold(avgs))
  ELSE UNCHANGED <<timing, averages>>

\* A full buffer ends the character at once, as an error.
AppendMark(mark) ==
  /\ representation' = Append(representation, mark)
  /\ state' = IF Len(representation) + 1 = Capacity - 1 THEN "eocErr" ELSE "ims"
  /\ space' = 0

IsNoise(duration) == Noise > 0 /\ duration =< Noise

MarkEndRefused(d, stamp) ==
  /\ (state # "mark" \/ stamp = "bad")
  /\ Passes(d)

MarkIsNoiseBetweenCharacters(d, stamp) ==
  /\ state = "mark" /\ stamp # "bad"
  /\ IsNoise(Measured(stamp, d))
  /\ state' = "idle"
  /\ space' = Later(d)
  /\ UNCHANGED <<representation, timing, averages>>

\* The state before the mark is told by the number of marks in the buffer.
MarkIsNoise(d, stamp) ==
  /\ state = "mark" /\ stamp # "bad"
  /\ IsNoise(Measured(stamp, d))
  /\ state' = IF representation = << >> THEN "idle" ELSE "ims"
  /\ space' = Later(d)
  /\ UNCHANGED <<representation, timing, averages>>

MarkIsUnknown(d, stamp) ==
  /\ state = "mark" /\ stamp # "bad"
  /\ LET duration == Measured(stamp, d)
     IN  /\ ~IsNoise(duration)
         /\ Identified(duration, timing) = "error"
         /\ state' = IF duration > CharacterMax(timing) THEN "eowErr" ELSE "eocErr"
  /\ space' = 0
  /\ UNCHANGED <<representation, timing, averages>>

MarkIsKnown(d, stamp) ==
  /\ state = "mark" /\ stamp # "bad"
  /\ LET duration == Measured(stamp, d)
     IN  /\ ~IsNoise(duration)
         /\ Identified(duration, timing) \in Marks
         /\ UpdateAverages(Identified(duration, timing), duration)
         /\ AppendMark(Identified(duration, timing))

MarkEnd(d, stamp) ==
  \/ MarkEndRefused(d, stamp) \/ MarkIsNoise(d, stamp)
  \/ MarkIsUnknown(d, stamp) \/ MarkIsKnown(d, stamp)

\* The client has identified the mark itself (a keyer's contacts, say).
AddMark(d, stamp, mark) ==
  /\ "add" \in Requests
  /\ \/ /\ (state \notin {"idle", "ims"} \/ stamp = "bad")
        /\ Passes(d)
     \/ /\ state \in {"idle", "ims"} /\ stamp # "bad"
        /\ AppendMark(mark)
        /\ UNCHANGED <<timing, averages>>

---------------------------------------------------------------------------
(* Polls, for a representation or for a character.                            *)

\* What a poll finds: "none" (ERANGE), "invalid" (EINVAL), "early" (EAGAIN), a
\* "character" followed by a short space or the last one of a "word".
PollFinds(d, stamp) ==
  LET duration == Measured(stamp, Later(d))
  IN  IF state \in {"eow", "eowErr"} THEN "word"
      ELSE IF state \in {"idle", "mark"} THEN "none"
      ELSE IF stamp = "bad" THEN "invalid"
      ELSE IF duration = IntMax \/ duration < CharacterMin(timing) THEN "early"
      ELSE IF duration > CharacterMax(timing) THEN "word"
      ELSE "character"

PollRefused(d, stamp) ==
  /\ PollFinds(d, stamp) \in {"none", "invalid", "early"}
  /\ Passes(d)

CharacterEnds(d, stamp) ==
  /\ PollFinds(d, stamp) = "character"
  /\ state' = IF state = "ims" THEN "eoc" ELSE state
  /\ space' = Later(d)
  /\ UNCHANGED <<representation, timing, averages>>

WordEndsWithoutError(d, stamp) ==
  /\ PollFinds(d, stamp) = "word"
  /\ state' = "eow"
  /\ space' = Later(d)
  /\ UNCHANGED <<representation, timing, averages>>

WordEnds(d, stamp) ==
  /\ PollFinds(d, stamp) = "word"
  /\ state' = CASE state \in {"eoc", "ims"} -> "eow"
                [] state = "eocErr" -> "eowErr"
                [] OTHER -> state
  /\ space' = Later(d)
  /\ UNCHANGED <<representation, timing, averages>>

Poll(d, stamp) == PollRefused(d, stamp) \/ CharacterEnds(d, stamp) \/ WordEnds(d, stamp)

---------------------------------------------------------------------------
Request ==
  \/ \E wpm \in Speeds : SetSpeed(wpm)
  \/ \E percent \in Tolerances : SetTolerance(percent)
  \/ \E gap \in Gaps : SetGap(gap)
  \/ \E mode \in BOOLEAN : SetAdaptiveMode(mode)
  \/ ResetParameters
  \/ ResetState

Call ==
  \E d \in Steps, stamp \in Stamps :
    \/ MarkBegin(d, stamp) \/ MarkEnd(d, stamp) \/ Poll(d, stamp)
    \/ \E mark \in Marks : AddMark(d, stamp, mark)

Next == Request \/ Call

Spec == Init /\ [][Next]_vars

---------------------------------------------------------------------------
\* The types of the variables: no timing is ever negative or without a speed,
\* although the averages may overflow.
TypeOK ==
  /\ state \in States
  /\ representation \in Seq(Marks)
  /\ space \in 0..Horizon
  /\ timing.tolerance \in Nat /\ timing.gap \in Nat /\ timing.adaptive \in BOOLEAN
  /\ timing.threshold \in Nat /\ timing.unit \in Nat
  /\ timing.speed \in [num : Nat \ {0}, den : Nat \ {0}]
  /\ \A mark \in Marks : averages[mark].cursor \in 0..Count - 1

\* The buffer never overflows, and its contents agree with the state: nothing is
\* left in it when the receiver is idle, and a character is never handed over
\* without a mark unless it is in error.  The branch of cw_rec_mark_end() for
\* noise relies on it: it guesses the state before the mark from the buffer.
BufferFitsState ==
  /\ Len(representation) =< Capacity - 1
  /\ state \in {"idle", "mark", "ims"} => Len(representation) < Capacity - 1
  /\ state = "idle" => representation = << >>
  /\ state \in {"ims", "eoc", "eow"} => representation # << >>

KeptOrDropped ==
  \/ state' \in GapStates /\ UNCHANGED representation
  \/ state' = "idle" /\ representation' = << >>
\* Once the receiver has seen the end of a character, or an error in it, it
\* holds on to the marks until the client resets it, whatever comes in meanwhile.
CompletedCharacterIsKept == [][(state \in GapStates) => KeptOrDropped]_vars

\* An error is not forgotten: a character with an unrecognised mark, or too
\* long, is in error when its word ends too.
ErrorsAreKept ==
  [][(state \in {"eocErr", "eowErr"}) => state' \in {"eocErr", "eowErr", "idle"}]_vars

\* What has been received of a character, its marks and its errors, survives until
\* the client resets the receiver.
CharactersAreKept == CompletedCharacterIsKept /\ ErrorsAreKept

\* In adaptive mode every mark is a dot or a dash, whatever its duration and
\* whatever the averages are: the only error is that of a full buffer.
AdaptiveIdentifiesAll ==
  [][timing.adaptive /\ state = "mark" /\ state' \in GapStates
       => Len(representation') = Capacity - 1]_vars

\* The speed stays within the limits, however wrong the averages are (they
\* overflow when a mark lasts INT_MAX, and are off until both have been updated).
SpeedIsInRange == ~TooSlow(timing.speed) /\ ~TooFast(timing.speed)

\* libcw.c:763, resetting the parameters sets "gap 0 dots".
ResetClearsGap == [][ResetParameters => timing'.gap = 0]_vars
=============================================================================
