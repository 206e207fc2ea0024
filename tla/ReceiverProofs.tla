--------------------------- MODULE ReceiverProofs ---------------------------
(* The receiver's buffer never overflows, never disagrees with its state, and *)
(* a character the receiver has completed stays as it is until it is reset:   *)
(* for every capacity, every setting and every timing of marks and polls.     *)
(* None of that depends on how marks are told apart, so the timing parameters *)
(* and the averages stay closed there.  They are opened for the speed, which  *)
(* keeps its limits through conversions that round; for the adaptive mode,    *)
(* which identifies every mark; and for the averages, whose running sums are  *)
(* those of the latest marks.  The easy receiver is proved to deliver what is *)
(* sent by its invariant: for each place of its two threads, how far the      *)
(* receiver, the flag of the poller and the sender have come.                 *)
EXTENDS EasyReceiver, ReceiverHistory, FoldTheorems

Buffer == <<state, representation>>

IInv ==
  /\ state \in States
  /\ representation \in Seq(Marks)
  /\ BufferFitsState

\* What a step does to the buffer and the state, the rest forgotten: the steps
\* of the state graph drawn above cw_rec_set_state_internal().
Resets == state' = "idle" /\ representation' = << >>
Begins == state \in {"idle", "ims"} /\ state' = "mark" /\ UNCHANGED representation
Collects ==
  /\ state \in {"idle", "mark", "ims"}
  /\ \E mark \in Marks : AppendMark(mark)
Ignores ==
  /\ state = "mark" /\ state' = (IF representation = << >> THEN "idle" ELSE "ims")
  /\ UNCHANGED representation
Fails ==
  /\ state = "mark" /\ state' \in {"eocErr", "eowErr"} /\ UNCHANGED representation
  /\ \E duration \in 0..IntMax : Identified(duration, timing) = "error"
Completes ==
  /\ \/ state = "ims" /\ state' \in {"eoc", "eow"}
     \/ state = "eoc" /\ state' \in {"eoc", "eow"}
     \/ state = "eow" /\ state' = "eow"
     \/ state = "eocErr" /\ state' \in {"eocErr", "eowErr"}
     \/ state = "eowErr" /\ state' = "eowErr"
  /\ UNCHANGED representation
GraphStep ==
  Resets \/ Begins \/ Collects \/ Ignores \/ Fails \/ Completes \/ UNCHANGED Buffer

LEMMA RequestsFollowGraph ==
  ASSUME Request
  PROVE  GraphStep
<1>1. ASSUME NEW wpm \in Speeds, SetSpeed(wpm) PROVE UNCHANGED Buffer
  BY <1>1 DEF SetSpeed, Tune, Buffer
<1>2. ASSUME NEW percent \in Tolerances, SetTolerance(percent) PROVE UNCHANGED Buffer
  BY <1>2 DEF SetTolerance, Tune, Buffer
<1>3. ASSUME NEW gap \in Gaps, SetGap(gap) PROVE UNCHANGED Buffer
  BY <1>3 DEF SetGap, Tune, Buffer
<1>4. ASSUME NEW mode \in BOOLEAN, SetAdaptiveMode(mode) PROVE UNCHANGED Buffer
  BY <1>4 DEF SetAdaptiveMode, Buffer
<1>5. ASSUME ResetParameters PROVE UNCHANGED Buffer
  BY <1>5 DEF ResetParameters, Tune, Buffer
<1>6. ASSUME ResetState PROVE Resets
  BY <1>6 DEF ResetState, Resets
<1>. QED
  BY <1>1, <1>2, <1>3, <1>4, <1>5, <1>6 DEF Request, GraphStep

LEMMA MarksFollowGraph ==
  ASSUME NEW d \in Steps, NEW stamp \in Stamps,
         MarkBegin(d, stamp) \/ MarkEnd(d, stamp)
  PROVE  GraphStep
<1>1. ASSUME MarkBeginRefused(d, stamp) \/ MarkEndRefused(d, stamp)
      PROVE  UNCHANGED Buffer
  BY <1>1 DEF MarkBeginRefused, MarkEndRefused, Passes, Buffer
<1>2. ASSUME MarkBegins(d, stamp) PROVE Begins
  BY <1>2 DEF MarkBegins, Begins
<1>3. ASSUME MarkIsNoise(d, stamp) PROVE Ignores
  BY <1>3 DEF MarkIsNoise, Ignores
<1>4. ASSUME MarkIsUnknown(d, stamp) PROVE Fails
  <2>1. Measured(stamp, d) \in 0..IntMax
    BY SizeAssumption DEF Measured
  <2>. QED
    BY <1>4, <2>1 DEF MarkIsUnknown, Fails
<1>5. ASSUME MarkIsKnown(d, stamp) PROVE Collects
  BY <1>5 DEF MarkIsKnown, Collects
<1>. QED
  BY <1>1, <1>2, <1>3, <1>4, <1>5 DEF MarkBegin, MarkEnd, GraphStep

LEMMA PollsFollowGraph ==
  ASSUME NEW d \in Steps, NEW stamp \in Stamps, state \in States,
         Poll(d, stamp)
  PROVE  GraphStep
<1>1. ASSUME PollRefused(d, stamp) PROVE UNCHANGED Buffer
  BY <1>1 DEF PollRefused, Passes, Buffer
<1>2. ASSUME CharacterEnds(d, stamp) PROVE Completes
  <2>1. state \in {"ims", "eoc", "eocErr"}
    BY <1>2 DEF CharacterEnds, PollFinds, States, GapStates
  <2>. QED
    BY <1>2, <2>1 DEF CharacterEnds, Completes
<1>3. ASSUME WordEnds(d, stamp) PROVE Completes
  <2>1. state \in {"ims"} \union GapStates
    BY <1>3 DEF WordEnds, PollFinds, States, GapStates
  <2>2. CASE state \in {"ims", "eoc"}
    BY <1>3, <2>2 DEF WordEnds, Completes
  <2>3. CASE state = "eocErr"
    BY <1>3, <2>3 DEF WordEnds, Completes
  <2>4. CASE state \in {"eow", "eowErr"}
    BY <1>3, <2>4 DEF WordEnds, Completes
  <2>. QED
    BY <2>1, <2>2, <2>3, <2>4 DEF GapStates
<1>. QED
  BY <1>1, <1>2, <1>3 DEF Poll, GraphStep

LEMMA StepsFollowGraph ==
  ASSUME state \in States, [Next]_vars
  PROVE  GraphStep
<1>1. CASE UNCHANGED vars
  BY <1>1 DEF vars, GraphStep, Buffer
<1>2. CASE Request
  BY <1>2, RequestsFollowGraph
<1>3. CASE Call
  <2>. PICK d \in Steps, stamp \in Stamps :
         \/ MarkBegin(d, stamp) \/ MarkEnd(d, stamp) \/ Poll(d, stamp)
         \/ \E mark \in Marks : AddMark(d, stamp, mark)
    BY <1>3 DEF Call
  <2>1. ASSUME NEW mark \in Marks, AddMark(d, stamp, mark) PROVE GraphStep
    BY <2>1 DEF AddMark, Passes, Collects, GraphStep, Buffer
  <2>. QED
    BY <2>1, MarksFollowGraph, PollsFollowGraph
<1>. QED
  BY <1>1, <1>2, <1>3 DEF Next

---------------------------------------------------------------------------
LEMMA GraphKeepsIInv ==
  ASSUME IInv, GraphStep
  PROVE  IInv'
<1>. USE SizeAssumption DEF IInv, BufferFitsState, States, GapStates, Marks
<1>1. CASE Resets
  BY <1>1 DEF Resets
<1>2. CASE Begins
  BY <1>2 DEF Begins
<1>3. CASE Collects
  <2>1. PICK mark \in Marks : AppendMark(mark)
    BY <1>3 DEF Collects
  <2>2. /\ representation' \in Seq(Marks)
        /\ Len(representation') = Len(representation) + 1
        /\ Len(representation) < Capacity - 1
    BY <1>3, <2>1 DEF Collects, AppendMark
  <2>3. representation' # << >>
    BY <2>2
  <2>. QED
    BY <2>1, <2>2, <2>3 DEF AppendMark
<1>4. CASE Ignores
  BY <1>4 DEF Ignores
<1>5. CASE Fails
  BY <1>5 DEF Fails
<1>6. CASE Completes
  BY <1>6 DEF Completes
<1>7. CASE UNCHANGED Buffer
  BY <1>7 DEF Buffer
<1>. QED
  BY GraphStep, <1>1, <1>2, <1>3, <1>4, <1>5, <1>6, <1>7 DEF GraphStep

LEMMA Inductive == Spec => []IInv
<1>1. Init => IInv
  BY SizeAssumption DEF Init, IInv, BufferFitsState, States, GapStates
<1>2. IInv /\ [Next]_vars => IInv'
  BY StepsFollowGraph, GraphKeepsIInv DEF IInv
<1>. QED
  BY <1>1, <1>2, PTL DEF Spec

\* The buffer of cw_rec_t never overflows and always agrees with the state.
THEOREM BufferAlwaysFits == Spec => []BufferFitsState
<1>1. IInv => BufferFitsState
  BY DEF IInv
<1>. QED
  BY <1>1, Inductive, PTL

\* A completed character stays in the buffer, whatever marks and polls come,
\* until cw_rec_reset_state() drops it as a whole.
THEOREM CompletedAlwaysKept == Spec => CompletedCharacterIsKept
<1>1. IInv /\ [Next]_vars => [(state \in GapStates) => KeptOrDropped]_vars
  <2>. SUFFICES ASSUME IInv, [Next]_vars, state \in GapStates
                PROVE  KeptOrDropped \/ UNCHANGED vars
    OBVIOUS
  <2>1. GraphStep
    BY StepsFollowGraph DEF IInv
  <2>. QED
    BY <2>1 DEF GraphStep, Resets, Begins, Collects, Ignores, Fails, Completes,
                Buffer, KeptOrDropped, GapStates
<1>. QED
  BY <1>1, Inductive, PTL DEF Spec, CompletedCharacterIsKept

\* An error in a character survives until the reset, through the end of the word.
THEOREM ErrorsAlwaysKept == Spec => ErrorsAreKept
<1>1. IInv /\ [Next]_vars
        => [(state \in {"eocErr", "eowErr"}) => state' \in {"eocErr", "eowErr", "idle"}]_vars
  <2>. SUFFICES ASSUME IInv, [Next]_vars, state \in {"eocErr", "eowErr"}
                PROVE  state' \in {"eocErr", "eowErr", "idle"}
    OBVIOUS
  <2>1. GraphStep
    BY StepsFollowGraph DEF IInv
  <2>. QED
    BY <2>1 DEF GraphStep, Resets, Begins, Collects, Ignores, Fails, Completes, Buffer
<1>. QED
  BY <1>1, Inductive, PTL DEF Spec, ErrorsAreKept

\* A finished character is neither lost nor mended before the client takes it.
THEOREM CharactersAlwaysKept == Spec => CharactersAreKept
  BY CompletedAlwaysKept, ErrorsAlwaysKept DEF CharactersAreKept
---------------------------------------------------------------------------
(* Timing.  A speed within the limits gives a unit and a threshold within the *)
(* limits, and these a speed within the limits: although both conversions     *)
(* round down, because the extreme speeds divide DotCalibration.              *)

Speed == [num : Nat \ {0}, den : Nat \ {0}]
Timing == [speed : Speed, tolerance : Nat, gap : Nat, adaptive : BOOLEAN,
           threshold : Nat, unit : Nat]

ShortestUnit == DotCalibration \div MaxSpeed
LongestUnit == DotCalibration \div MinSpeed

InLimits(speed) ==
  /\ MinSpeed * speed.den =< speed.num
  /\ speed.num =< MaxSpeed * speed.den

TimingIsSound(t) ==
  /\ t \in Timing
  /\ InLimits(t.speed)
  /\ t.threshold \in 2 * ShortestUnit..2 * LongestUnit
  /\ t.unit \in ShortestUnit..LongestUnit

Average == [buffer : [0..Count - 1 -> Int], cursor : 0..Count - 1,
            sum : Int, average : Int]

TimingIInv == TimingIsSound(timing) /\ averages \in [Marks -> Average]

LEMMA UnitsOfLimits ==
  /\ ShortestUnit \in Nat /\ LongestUnit \in Nat
  /\ DotCalibration = MaxSpeed * ShortestUnit
  /\ DotCalibration = MinSpeed * LongestUnit
  BY SpeedAssumption DEF ShortestUnit, LongestUnit

LEMMA DivisionIsBounded ==
  ASSUME NEW n \in Nat, NEW d \in Nat \ {0}, NEW low \in Nat, NEW high \in Nat,
         low * d =< n, n =< high * d
  PROVE  n \div d \in low..high
<1>. DEFINE q == n \div d
            r == n % d
<1>1. q \in Int /\ r \in Int /\ n = d * q + r /\ 0 =< r /\ r < d
  OBVIOUS
<1>. HIDE DEF q, r
<1>2. q >= low
  <2>. SUFFICES ASSUME q + 1 =< low PROVE FALSE
    BY <1>1
  <2>1. d * (q + 1) =< d * low
    BY <1>1
  <2>. QED
    BY <1>1, <2>1
<1>3. q =< high
  <2>. SUFFICES ASSUME high + 1 =< q PROVE FALSE
    BY <1>1
  <2>1. d * (high + 1) =< d * q
    BY <1>1
  <2>. QED
    BY <1>1, <2>1
<1>. QED
  BY <1>1, <1>2, <1>3 DEF q

LEMMA UnitIsBounded ==
  ASSUME NEW speed \in Speed, InLimits(speed)
  PROVE  (DotCalibration * speed.den) \div speed.num \in ShortestUnit..LongestUnit
<1>. DEFINE num == speed.num
            den == speed.den
<1>1. num \in Nat \ {0} /\ den \in Nat \ {0} /\ DotCalibration \in Nat
  BY SpeedAssumption DEF Speed
<1>2. MinSpeed * den =< num /\ num =< MaxSpeed * den
  BY DEF InLimits
<1>3. ShortestUnit \in Nat /\ LongestUnit \in Nat /\ MaxSpeed \in Nat /\ MinSpeed \in Nat
  BY UnitsOfLimits, SpeedAssumption
<1>. HIDE DEF num, den
<1>4. ShortestUnit * num =< DotCalibration * den
  <2>1. ShortestUnit * num =< ShortestUnit * (MaxSpeed * den)
    BY <1>1, <1>2, <1>3
  <2>2. ShortestUnit * (MaxSpeed * den) = (MaxSpeed * ShortestUnit) * den
    BY <1>1, <1>3
  <2>. QED
    BY <2>1, <2>2, UnitsOfLimits
<1>5. DotCalibration * den =< LongestUnit * num
  <2>1. LongestUnit * (MinSpeed * den) =< LongestUnit * num
    BY <1>1, <1>2, <1>3
  <2>2. LongestUnit * (MinSpeed * den) = (MinSpeed * LongestUnit) * den
    BY <1>1, <1>3
  <2>. QED
    BY <2>1, <2>2, UnitsOfLimits
<1>6. DotCalibration * den \in Nat
  BY <1>1
<1>. QED
  BY <1>1, <1>3, <1>4, <1>5, <1>6, DivisionIsBounded DEF num, den

\* Synchronisation in fixed mode: the threshold follows the unit.
LEMMA SyncedInFixedMode ==
  ASSUME NEW t \in Timing, InLimits(t.speed), ~t.adaptive
  PROVE  TimingIsSound(Synced(t)) /\ ~Synced(t).adaptive
<1>. DEFINE unit == (DotCalibration * t.speed.den) \div t.speed.num
<1>1. t.speed \in Speed
  BY DEF Timing
<1>2. unit \in ShortestUnit..LongestUnit
  BY <1>1, UnitIsBounded
<1>3. Synced(t) = [t EXCEPT !.unit = unit, !.threshold = 2 * unit]
  BY DEF Synced
<1>. HIDE DEF unit
<1>4. unit \in Nat /\ 2 * unit \in Nat /\ 2 * unit \in 2 * ShortestUnit..2 * LongestUnit
  BY <1>2, UnitsOfLimits
<1>5. Synced(t) \in Timing
  BY <1>3, <1>4 DEF Timing
<1>6. /\ Synced(t).speed = t.speed /\ Synced(t).threshold = 2 * unit
      /\ Synced(t).adaptive = t.adaptive /\ Synced(t).unit = unit
  BY <1>3 DEF Timing
<1>. QED
  BY <1>2, <1>4, <1>5, <1>6 DEF TimingIsSound

\* A threshold within its limits stands for a speed within its limits.
LEMMA SpeedOfThreshold ==
  ASSUME NEW threshold \in 2 * ShortestUnit..2 * LongestUnit
  PROVE  /\ [num |-> 2 * DotCalibration, den |-> threshold] \in Speed
         /\ InLimits([num |-> 2 * DotCalibration, den |-> threshold])
<1>1. /\ ShortestUnit \in Nat \ {0} /\ LongestUnit \in Nat
      /\ MinSpeed \in Nat /\ MaxSpeed \in Nat /\ DotCalibration \in Nat \ {0}
  BY UnitsOfLimits, SpeedAssumption
<1>2. threshold \in Nat \ {0}
  BY <1>1
<1>3. MinSpeed * threshold =< 2 * DotCalibration
  <2>1. MinSpeed * threshold =< MinSpeed * (2 * LongestUnit)
    BY <1>1
  <2>2. MinSpeed * (2 * LongestUnit) = 2 * (MinSpeed * LongestUnit)
    BY <1>1
  <2>. QED
    BY <2>1, <2>2, UnitsOfLimits
<1>4. 2 * DotCalibration =< MaxSpeed * threshold
  <2>1. MaxSpeed * (2 * ShortestUnit) =< MaxSpeed * threshold
    BY <1>1
  <2>2. MaxSpeed * (2 * ShortestUnit) = 2 * (MaxSpeed * ShortestUnit)
    BY <1>1
  <2>. QED
    BY <2>1, <2>2, UnitsOfLimits
<1>. QED
  BY <1>1, <1>2, <1>3, <1>4 DEF Speed, InLimits

\* And the other way round: a speed within the limits, as a threshold.
LEMMA ThresholdOfSpeed ==
  ASSUME NEW threshold \in Nat,
         MinSpeed * threshold =< 2 * DotCalibration,
         2 * DotCalibration =< MaxSpeed * threshold
  PROVE  threshold \in 2 * ShortestUnit..2 * LongestUnit
<1>1. /\ ShortestUnit \in Nat /\ LongestUnit \in Nat
      /\ MinSpeed \in Nat \ {0} /\ MaxSpeed \in Nat \ {0}
  BY UnitsOfLimits, SpeedAssumption
<1>2. MinSpeed * threshold =< MinSpeed * (2 * LongestUnit)
  BY UnitsOfLimits, <1>1
<1>3. MaxSpeed * (2 * ShortestUnit) =< MaxSpeed * threshold
  BY UnitsOfLimits, <1>1
<1>4. threshold =< 2 * LongestUnit
  <2>. SUFFICES ASSUME 2 * LongestUnit + 1 =< threshold PROVE FALSE
    BY <1>1
  <2>1. MinSpeed * (2 * LongestUnit + 1) =< MinSpeed * threshold
    BY <1>1
  <2>. QED
    BY <1>1, <1>2, <2>1
<1>5. 2 * ShortestUnit =< threshold
  <2>. SUFFICES ASSUME threshold + 1 =< 2 * ShortestUnit PROVE FALSE
    BY <1>1
  <2>1. MaxSpeed * (threshold + 1) =< MaxSpeed * (2 * ShortestUnit)
    BY <1>1
  <2>. QED
    BY <1>1, <1>3, <2>1
<1>. QED
  BY <1>1, <1>4, <1>5

\* Synchronisation in adaptive mode: the unit follows the speed it had, and the
\* speed follows the threshold.
LEMMA SyncedInAdaptiveMode ==
  ASSUME NEW t \in Timing, InLimits(t.speed), t.adaptive,
         t.threshold \in 2 * ShortestUnit..2 * LongestUnit
  PROVE  TimingIsSound(Synced(t))
<1>. DEFINE unit == (DotCalibration * t.speed.den) \div t.speed.num
            speed == [num |-> 2 * DotCalibration, den |-> t.threshold]
<1>1. t.speed \in Speed
  BY DEF Timing
<1>2. unit \in Nat /\ unit \in ShortestUnit..LongestUnit
  BY <1>1, UnitIsBounded, UnitsOfLimits
<1>3. Synced(t) = [t EXCEPT !.unit = unit, !.speed = speed]
  BY DEF Synced
<1>4. speed \in Speed /\ InLimits(speed)
  BY SpeedOfThreshold
<1>. HIDE DEF unit, speed
<1>. QED
  BY <1>2, <1>3, <1>4 DEF Timing, TimingIsSound

LEMMA WholeSpeed ==
  ASSUME NEW wpm \in MinSpeed..MaxSpeed
  PROVE  [num |-> wpm, den |-> 1] \in Speed /\ InLimits([num |-> wpm, den |-> 1])
  BY SpeedAssumption DEF Speed, InLimits

LEMMA ClampedIsSound ==
  ASSUME NEW t \in [speed : [num : Int, den : Int], tolerance : Nat, gap : Nat,
                    adaptive : BOOLEAN, threshold : Int, unit : Nat],
         NEW wpm \in MinSpeed..MaxSpeed
  PROVE  TimingIsSound(Clamped(t, wpm))
<1>. DEFINE speed == [num |-> wpm, den |-> 1]
            asked == [t EXCEPT !.speed = speed, !.adaptive = FALSE]
            unit == (DotCalibration * asked.speed.den) \div asked.speed.num
            fixed == [asked EXCEPT !.unit = unit, !.threshold = 2 * unit]
            turned == [fixed EXCEPT !.adaptive = TRUE]
<1>1. speed \in Speed /\ InLimits(speed)
  BY WholeSpeed
<1>2. asked.speed = speed /\ ~asked.adaptive
  OBVIOUS
<1>3. unit \in ShortestUnit..LongestUnit
  BY <1>1, <1>2, UnitIsBounded
<1>4. Clamped(t, wpm) = Synced(turned)
  BY <1>2 DEF Clamped, Synced
<1>. HIDE DEF speed, unit
<1>5. unit \in Nat /\ 2 * unit \in Nat /\ 2 * unit \in 2 * ShortestUnit..2 * LongestUnit
  BY <1>3, UnitsOfLimits
<1>6. /\ turned \in Timing /\ turned.speed = speed /\ turned.adaptive
      /\ turned.threshold = 2 * unit
  BY <1>1, <1>5 DEF Timing
<1>. QED
  BY <1>1, <1>4, <1>5, <1>6, SyncedInAdaptiveMode

\* Whatever threshold the averages give, negative or overflown, the receiver
\* ends up with a speed within the limits.
LEMMA AdaptedIsSound ==
  ASSUME TimingIsSound(timing), timing.adaptive, NEW threshold \in Int
  PROVE  TimingIsSound(Adapted(timing, threshold))
<1>. DEFINE asked == [timing EXCEPT !.threshold = threshold]
            unit == (DotCalibration * asked.speed.den) \div asked.speed.num
            speed == [num |-> 2 * DotCalibration, den |-> threshold]
            followed == [asked EXCEPT !.unit = unit, !.speed = speed]
<1>1. asked.speed = timing.speed /\ asked.speed \in Speed
  BY DEF TimingIsSound, Timing
<1>2. unit \in Nat /\ unit \in ShortestUnit..LongestUnit
  BY <1>1, UnitIsBounded, UnitsOfLimits DEF TimingIsSound
<1>3. Synced(asked) = followed
  BY DEF Synced, TimingIsSound, Timing
<1>4. DotCalibration \in Nat \ {0} /\ MinSpeed \in MinSpeed..MaxSpeed
                                   /\ MaxSpeed \in MinSpeed..MaxSpeed
  BY SpeedAssumption
<1>. HIDE DEF unit
<1>9. speed \in [num : Int, den : Int]
  BY <1>4
<1>. HIDE DEF speed
<1>5. followed \in [speed : [num : Int, den : Int], tolerance : Nat, gap : Nat,
                   adaptive : BOOLEAN, threshold : Int, unit : Nat]
  <2>1. timing \in [speed : Speed, tolerance : Nat, gap : Nat, adaptive : BOOLEAN,
                    threshold : Nat, unit : Nat]
    BY DEF TimingIsSound, Timing
  <2>. QED
    BY <1>2, <1>9, <2>1
<1>6. Adapted(timing, threshold)
        = IF TooSlow(followed.speed) THEN Clamped(followed, MinSpeed)
          ELSE IF TooFast(followed.speed) THEN Clamped(followed, MaxSpeed)
          ELSE followed
  BY <1>3 DEF Adapted
<1>7. followed.speed = speed
  BY DEF TimingIsSound, Timing
<1>8. CASE ~TooSlow(followed.speed) /\ ~TooFast(followed.speed)
  <2>1. /\ threshold >= 0
        /\ 2 * DotCalibration >= MinSpeed * threshold
        /\ 2 * DotCalibration =< MaxSpeed * threshold
    BY <1>4, <1>7, <1>8, SpeedAssumption DEF TooSlow, TooFast, speed
  <2>2. threshold \in 2 * ShortestUnit..2 * LongestUnit
    BY <2>1, ThresholdOfSpeed
  <2>3. speed \in Speed /\ InLimits(speed)
    BY <2>2, SpeedOfThreshold DEF speed
  <2>4. followed \in Timing /\ followed.threshold = threshold
    <3>1. timing \in [speed : Speed, tolerance : Nat, gap : Nat, adaptive : BOOLEAN,
                      threshold : Nat, unit : Nat]
      BY DEF TimingIsSound, Timing
    <3>2. threshold \in Nat
      BY <2>1
    <3>. QED
      BY <1>2, <2>3, <3>1, <3>2 DEF Timing
  <2>5. followed.unit = unit
    BY DEF TimingIsSound, Timing
  <2>. QED
    BY <1>2, <1>6, <1>7, <1>8, <2>2, <2>3, <2>4, <2>5 DEF TimingIsSound
<1>. QED
  BY <1>4, <1>5, <1>6, <1>8, ClampedIsSound

LEMMA CIntIsInt ==
  ASSUME NEW n \in Int
  PROVE  CInt(n) \in Int
  BY SizeAssumption DEF CInt

LEMMA QuotientIsInt ==
  ASSUME NEW n \in Int, NEW d \in Nat \ {0}
  PROVE  Quotient(n, d) \in Int
  BY DEF Quotient

LEMMA AveragedIsAverage ==
  ASSUME NEW avg \in Average, NEW duration \in Int
  PROVE  Averaged(avg, duration) \in Average
<1>. DEFINE sum == CInt(avg.sum - avg.buffer[avg.cursor] + duration)
<1>1. /\ Count \in Nat \ {0} /\ avg.cursor \in 0..Count - 1 /\ avg.sum \in Int
      /\ avg.buffer \in [0..Count - 1 -> Int]
  BY SizeAssumption DEF Average
<1>2. sum \in Int
  <2>. DEFINE n == avg.sum - avg.buffer[avg.cursor] + duration
  <2>1. n \in Int
    BY <1>1
  <2>2. sum = CInt(n)
    OBVIOUS
  <2>. HIDE DEF n, sum
  <2>. QED
    BY <2>1, <2>2, CIntIsInt
<1>3. Quotient(sum, Count) \in Int
  BY <1>1, <1>2, QuotientIsInt
<1>4. (avg.cursor + 1) % Count \in 0..Count - 1
  BY <1>1
<1>5. [avg.buffer EXCEPT ![avg.cursor] = duration] \in [0..Count - 1 -> Int]
  BY <1>1
<1>6. Averaged(avg, duration)
        = [buffer |-> [avg.buffer EXCEPT ![avg.cursor] = duration],
           cursor |-> (avg.cursor + 1) % Count,
           sum |-> sum, average |-> Quotient(sum, Count)]
  BY DEF Averaged
<1>. HIDE DEF sum
<1>. QED
  BY <1>2, <1>3, <1>4, <1>5, <1>6 DEF Average

LEMMA FilledIsAverage ==
  ASSUME NEW avg \in Average, NEW duration \in Int
  PROVE  Filled(avg, duration) \in Average
<1>1. Count \in Nat \ {0} /\ duration * Count \in Int /\ 0 \in 0..Count - 1
  BY SizeAssumption
<1>. QED
  BY <1>1 DEF Filled, Average

LEMMA NewTimingIsSound == TimingIsSound(NewTiming) /\ ~NewTiming.adaptive
<1>. DEFINE t == [speed |-> [num |-> InitialSpeed, den |-> 1],
                  tolerance |-> InitialTolerance, gap |-> 0, adaptive |-> FALSE,
                  threshold |-> 2 * (DotCalibration \div InitialSpeed), unit |-> 0]
<1>1. [num |-> InitialSpeed, den |-> 1] \in Speed /\ InLimits([num |-> InitialSpeed, den |-> 1])
  BY SpeedAssumption, WholeSpeed
<1>2. InitialTolerance \in Nat /\ 2 * (DotCalibration \div InitialSpeed) \in Nat
  BY SpeedAssumption
<1>3. t \in Timing /\ InLimits(t.speed) /\ ~t.adaptive
  BY <1>1, <1>2 DEF Timing
<1>4. NewTiming = Synced(t)
  BY DEF NewTiming
<1>. HIDE DEF t
<1>. QED
  BY <1>3, <1>4, SyncedInFixedMode

LEMMA SyncedIsSound ==
  ASSUME NEW t \in Timing, InLimits(t.speed),
         t.threshold \in 2 * ShortestUnit..2 * LongestUnit
  PROVE  TimingIsSound(Synced(t))
  BY SyncedInFixedMode, SyncedInAdaptiveMode

---------------------------------------------------------------------------
LEMMA RequestsKeepTiming ==
  ASSUME TimingIInv, Request
  PROVE  TimingIInv'
<1>. USE DEF TimingIInv
<1>0. ASSUME NEW t, Tune(t), TimingIsSound(t) PROVE TimingIInv'
  BY <1>0 DEF Tune
<1>t. /\ timing \in Timing /\ InLimits(timing.speed)
      /\ timing.threshold \in 2 * ShortestUnit..2 * LongestUnit
  BY DEF TimingIsSound
<1>1. ASSUME NEW wpm \in Speeds, SetSpeed(wpm) PROVE TimingIInv'
  <2>. DEFINE t == [timing EXCEPT !.speed = [num |-> wpm, den |-> 1]]
  <2>1. [num |-> wpm, den |-> 1] \in Speed /\ InLimits([num |-> wpm, den |-> 1])
    BY <1>1, WholeSpeed DEF SetSpeed
  <2>2. /\ t \in Timing /\ InLimits(t.speed)
        /\ t.threshold \in 2 * ShortestUnit..2 * LongestUnit
    BY <1>t, <2>1 DEF Timing
  <2>3. TimingIsSound(Synced(t))
    BY <2>2, SyncedIsSound
  <2>. QED
    BY <1>0, <1>1, <2>3 DEF SetSpeed
<1>2. ASSUME NEW percent \in Tolerances, SetTolerance(percent) PROVE TimingIInv'
  <2>. DEFINE t == [timing EXCEPT !.tolerance = percent]
  <2>2. /\ t \in Timing /\ InLimits(t.speed)
        /\ t.threshold \in 2 * ShortestUnit..2 * LongestUnit
    BY <1>t, SpeedAssumption DEF Timing
  <2>3. TimingIsSound(Synced(t))
    BY <2>2, SyncedIsSound
  <2>. QED
    BY <1>0, <1>2, <2>3 DEF SetTolerance
<1>3. ASSUME NEW gap \in Gaps, SetGap(gap) PROVE TimingIInv'
  <2>. DEFINE t == [timing EXCEPT !.gap = gap]
  <2>2. /\ t \in Timing /\ InLimits(t.speed)
        /\ t.threshold \in 2 * ShortestUnit..2 * LongestUnit
    BY <1>t, SpeedAssumption DEF Timing
  <2>3. TimingIsSound(Synced(t))
    BY <2>2, SyncedIsSound
  <2>. QED
    BY <1>0, <1>3, <2>3 DEF SetGap
<1>4. ASSUME NEW mode \in BOOLEAN, SetAdaptiveMode(mode) PROVE TimingIInv'
  <2>. DEFINE t == Synced([timing EXCEPT !.adaptive = mode])
  <2>1. /\ [timing EXCEPT !.adaptive = mode] \in Timing
        /\ InLimits([timing EXCEPT !.adaptive = mode].speed)
        /\ [timing EXCEPT !.adaptive = mode].threshold \in 2 * ShortestUnit..2 * LongestUnit
    BY <1>t DEF Timing
  <2>2. TimingIsSound(t)
    BY <2>1, SyncedIsSound
  <2>3. timing' = t
    BY <1>4 DEF SetAdaptiveMode
  <2>. HIDE DEF t
  <2>4. t.unit \in Int /\ 3 * t.unit \in Int
    BY <2>2 DEF TimingIsSound, Timing
  <2>5. /\ Filled(averages["dot"], t.unit) \in Average
        /\ Filled(averages["dash"], 3 * t.unit) \in Average
    BY <2>4, FilledIsAverage DEF Marks
  <2>6. averages' = IF mode
                    THEN [dot |-> Filled(averages["dot"], t.unit),
                          dash |-> Filled(averages["dash"], 3 * t.unit)]
                    ELSE averages
    BY <1>4 DEF SetAdaptiveMode, t
  <2>7. averages' \in [Marks -> Average]
    BY <2>5, <2>6 DEF Marks
  <2>. QED
    BY <2>2, <2>3, <2>7
<1>5. ASSUME ResetParameters PROVE TimingIInv'
  <2>. DEFINE t == [NewTiming EXCEPT !.gap = timing.gap]
  <2>1. timing.gap \in Nat
    BY <1>t DEF Timing
  <2>2. /\ t \in Timing /\ InLimits(t.speed)
        /\ t.threshold \in 2 * ShortestUnit..2 * LongestUnit
    BY <2>1, NewTimingIsSound DEF TimingIsSound, Timing
  <2>3. TimingIsSound(Synced(t))
    BY <2>2, SyncedIsSound
  <2>. QED
    BY <1>0, <1>5, <2>3 DEF ResetParameters
<1>6. ASSUME ResetState PROVE TimingIInv'
  BY <1>6 DEF ResetState
<1>. QED
  BY <1>1, <1>2, <1>3, <1>4, <1>5, <1>6 DEF Request

LEMMA MarksKeepTiming ==
  ASSUME TimingIInv, NEW d \in Steps, NEW stamp \in Stamps, MarkIsKnown(d, stamp)
  PROVE  TimingIInv'
<1>. DEFINE duration == Measured(stamp, d)
            mark == Identified(duration, timing)
            avgs == [averages EXCEPT ![mark] = Averaged(@, duration)]
<1>1. mark \in Marks /\ UpdateAverages(mark, duration)
  BY DEF MarkIsKnown
<1>2. duration \in Int
  BY SizeAssumption DEF Measured
<1>. HIDE DEF mark, duration
<1>3. CASE ~timing.adaptive
  BY <1>1, <1>3 DEF UpdateAverages, TimingIInv
<1>4. CASE timing.adaptive
  <2>1. averages' = avgs /\ timing' = Adapted(timing, NewThreshold(avgs))
    BY <1>1, <1>4 DEF UpdateAverages
  <2>2. averages \in [Marks -> Average] /\ Averaged(averages[mark], duration) \in Average
    BY <1>1, <1>2, AveragedIsAverage DEF TimingIInv
  <2>3. avgs \in [Marks -> Average]
    BY <1>1, <2>2
  <2>. HIDE DEF avgs
  <2>4. avgs["dot"].average \in Int /\ avgs["dash"].average \in Int
    BY <2>3 DEF Marks, Average
  <2>5. Quotient(avgs["dash"].average - avgs["dot"].average, 2) \in Int
    BY <2>4, QuotientIsInt
  <2>6. NewThreshold(avgs) \in Int
    BY <2>4, <2>5 DEF NewThreshold
  <2>7. TimingIsSound(Adapted(timing, NewThreshold(avgs)))
    BY <1>4, <2>6, AdaptedIsSound DEF TimingIInv
  <2>. QED
    BY <2>1, <2>3, <2>7 DEF TimingIInv
<1>. QED
  BY <1>3, <1>4

LEMMA StepsKeepTiming ==
  ASSUME TimingIInv, [Next]_vars
  PROVE  TimingIInv'
<1>1. CASE UNCHANGED vars
  BY <1>1 DEF vars, TimingIInv
<1>2. CASE Request
  BY <1>2, RequestsKeepTiming
<1>3. CASE Call
  <2>. PICK d \in Steps, stamp \in Stamps :
         \/ MarkBegin(d, stamp) \/ MarkEnd(d, stamp) \/ Poll(d, stamp)
         \/ \E mark \in Marks : AddMark(d, stamp, mark)
    BY <1>3 DEF Call
  <2>0. ASSUME UNCHANGED <<timing, averages>> PROVE TimingIInv'
    BY <2>0 DEF TimingIInv
  <2>1. ASSUME NEW mark \in Marks, AddMark(d, stamp, mark)
        PROVE  UNCHANGED <<timing, averages>>
    BY <2>1 DEF AddMark, Passes
  <2>2. ASSUME MarkBegin(d, stamp) PROVE UNCHANGED <<timing, averages>>
    BY <2>2 DEF MarkBegin, MarkBeginRefused, MarkBegins, Passes
  <2>3. ASSUME Poll(d, stamp) PROVE UNCHANGED <<timing, averages>>
    BY <2>3 DEF Poll, PollRefused, CharacterEnds, WordEnds, Passes
  <2>4. ASSUME MarkEnd(d, stamp), ~MarkIsKnown(d, stamp)
        PROVE  UNCHANGED <<timing, averages>>
    BY <2>4 DEF MarkEnd, MarkEndRefused, MarkIsNoise, MarkIsUnknown, Passes
  <2>. QED
    BY <2>0, <2>1, <2>2, <2>3, <2>4, MarksKeepTiming
<1>. QED
  BY <1>1, <1>2, <1>3 DEF Next

LEMMA TimingInductive == Spec => []TimingIInv
<1>1. Init => TimingIInv
  <2>1. Zero \in Average
    BY SizeAssumption DEF Zero, Average
  <2>. QED
    BY <2>1, NewTimingIsSound DEF Init, TimingIInv
<1>. QED
  BY <1>1, StepsKeepTiming, PTL DEF Spec

\* The speed of the receiver, which cw_rec_sync_parameters_internal() divides by,
\* never leaves its limits, whatever overflows in the averages.
THEOREM SpeedIsAlwaysInRange == Spec => []SpeedIsInRange
<1>1. TimingIInv => SpeedIsInRange
  BY SpeedAssumption
     DEF TimingIInv, TimingIsSound, Timing, Speed, InLimits, SpeedIsInRange, TooSlow, TooFast
<1>. QED
  BY <1>1, TimingInductive, PTL

\* In adaptive mode the receiver tells every mark apart, whatever the averages
\* have come to: the thresholds of cw_rec_identify_mark_internal() leave no gap
\* between the dots and the dashes, and no duration beyond the dashes.
THEOREM AdaptiveAlwaysIdentifies == Spec => AdaptiveIdentifiesAll
<1>1. IInv /\ TimingIInv /\ [Next]_vars
        => [timing.adaptive /\ state = "mark" /\ state' \in GapStates
              => Len(representation') = Capacity - 1]_vars
  <2>. SUFFICES ASSUME IInv, TimingIInv, [Next]_vars, timing.adaptive, state = "mark",
                       state' \in GapStates
                PROVE  Len(representation') = Capacity - 1
    OBVIOUS
  <2>1. GraphStep
    BY StepsFollowGraph DEF IInv
  <2>2. ASSUME Fails PROVE FALSE
    <3>1. PICK duration \in 0..IntMax : Identified(duration, timing) = "error"
      BY <2>2 DEF Fails
    <3>2. timing.unit \in Nat
      BY DEF TimingIInv, TimingIsSound, Timing
    <3>. QED
      BY <3>1, <3>2, SizeAssumption DEF Identified, DotMin, DotMax, DashMin, DashMax
  <2>3. Collects
    BY <2>1, <2>2 DEF GraphStep, Resets, Begins, Ignores, Completes, Buffer, GapStates
  <2>4. PICK mark \in Marks : AppendMark(mark)
    BY <2>3 DEF Collects
  <2>5. Len(representation) + 1 = Capacity - 1
    BY <2>4 DEF AppendMark, GapStates
  <2>6. Len(representation') = Len(representation) + 1
    BY <2>4 DEF AppendMark, IInv
  <2>. QED
    BY <2>5, <2>6
<1>. QED
  BY <1>1, Inductive, TimingInductive, PTL DEF Spec, AdaptiveIdentifiesAll

SpaceIInv == space \in 0..Horizon

LEMMA StepsKeepSpace ==
  ASSUME SpaceIInv, [Next]_vars
  PROVE  SpaceIInv'
<1>. USE DEF SpaceIInv
<1>1. ASSUME NEW d \in Steps PROVE Later(d) \in 0..Horizon
  BY SizeAssumption DEF Later
<1>2. ASSUME UNCHANGED space PROVE SpaceIInv'
  BY <1>2
<1>3. CASE Request
  BY <1>2, <1>3 DEF Request, SetSpeed, SetTolerance, SetGap, SetAdaptiveMode,
                    ResetParameters, ResetState, Tune
<1>4. CASE Call
  <2>. PICK d \in Steps, stamp \in Stamps :
         \/ MarkBegin(d, stamp) \/ MarkEnd(d, stamp) \/ Poll(d, stamp)
         \/ \E mark \in Marks : AddMark(d, stamp, mark)
    BY <1>4 DEF Call
  <2>1. space' = Later(d) \/ space' = 0
    BY DEF MarkBegin, MarkBeginRefused, MarkBegins, MarkEnd, MarkEndRefused, MarkIsNoise,
           MarkIsUnknown, MarkIsKnown, AddMark, AppendMark, Poll, PollRefused,
           CharacterEnds, WordEnds, Passes
  <2>. QED
    BY <1>1, <2>1, SizeAssumption
<1>. QED
  BY <1>2, <1>3, <1>4 DEF Next, vars

\* Every variable keeps its type; in particular no unit, threshold or speed is
\* ever negative or zero, although averages and sums may overflow.
THEOREM ReceiverTypes == Spec => []TypeOK
<1>1. Init => SpaceIInv
  BY SizeAssumption DEF Init, SpaceIInv
<1>2. Spec => []SpaceIInv
  BY <1>1, StepsKeepSpace, PTL DEF Spec
<1>3. IInv /\ TimingIInv /\ SpaceIInv => TypeOK
  BY DEF SpaceIInv, IInv, TimingIInv, TimingIsSound, Timing, Speed, Average, TypeOK
<1>. QED
  BY <1>2, <1>3, Inductive, TimingInductive, PTL

---------------------------------------------------------------------------
(* The sums.                                                                  *)

LEMMA RemainderIsUnique ==
  ASSUME NEW m \in Nat \ {0}, NEW p \in Int, NEW q \in Int,
         NEW r \in 0..m - 1, NEW s \in 0..m - 1, m * p + r = m * q + s
  PROVE  r = s
<1>1. m * (p - q) = s - r
  OBVIOUS
<1>2. CASE p - q >= 1
  <2>1. m * (p - q) >= m * 1
    BY <1>2
  <2>. QED
    BY <1>1, <2>1
<1>3. CASE p - q =< -1
  <2>1. m * (p - q) =< m * (-1)
    BY <1>3
  <2>. QED
    BY <1>1, <2>1
<1>. QED
  BY <1>1, <1>2, <1>3

LEMMA RemainderOfSum ==
  ASSUME NEW m \in Nat \ {0}, NEW x \in Int, NEW y \in Int
  PROVE  ((x % m) + y) % m = (x + y) % m
<1>. DEFINE q == x \div m
            r == x % m
            u == (r + y) \div m
            v == (r + y) % m
            w == (x + y) \div m
            z == (x + y) % m
<1>1. q \in Int /\ r \in 0..m - 1 /\ x = m * q + r
  OBVIOUS
<1>. HIDE DEF q, r
<1>2. u \in Int /\ v \in 0..m - 1 /\ r + y = m * u + v
  BY <1>1
<1>3. w \in Int /\ z \in 0..m - 1 /\ x + y = m * w + z
  OBVIOUS
<1>. HIDE DEF u, v, w, z
<1>4. m * (q + u) + v = m * w + z
  <2>1. m * (q + u) = m * q + m * u
    BY <1>1, <1>2
  <2>. QED
    BY <1>1, <1>2, <1>3, <2>1
<1>5. v = z
  <2>1. q + u \in Int
    BY <1>1, <1>2
  <2>. QED
    BY <1>2, <1>3, <1>4, <2>1, RemainderIsUnique
<1>. QED
  BY <1>5 DEF v, z, r

\* A sum that wraps around at each addition is the sum that wraps around once.
LEMMA CIntOfSum ==
  ASSUME NEW x \in Int, NEW y \in Int
  PROVE  CInt(CInt(x) + y) = CInt(x + y)
<1>. DEFINE h == IntMax + 1
            m == 2 * (IntMax + 1)
            r == (x + h) % m
<1>1. h \in Nat /\ m \in Nat \ {0}
  BY SizeAssumption
<1>0. ASSUME NEW n \in Int PROVE CInt(n) = ((n + h) % m) - h
  <2>1. n + IntMax + 1 = n + h /\ \A k \in Int : k - IntMax - 1 = k - h
    BY SizeAssumption
  <2>2. (n + h) % m \in Int
    BY <1>1
  <2>. HIDE DEF h
  <2>. QED
    BY <2>1, <2>2 DEF CInt
<1>2. CInt(x) = r - h /\ r \in Int
  <2>1. x + h \in Int
    BY <1>1
  <2>. HIDE DEF h, m
  <2>. QED
    BY <1>0, <1>1, <2>1
<1>. HIDE DEF r, h, m
<1>3. (r - h) + y + h = r + y
  BY <1>1, <1>2
<1>4. (r + y) % m = (x + h + y) % m
  <2>1. x + h \in Int
    BY <1>1
  <2>. QED
    BY <1>1, <2>1, RemainderOfSum DEF r
<1>5. x + h + y = x + y + h /\ (r - h) + y \in Int /\ x + y \in Int
  BY <1>1, <1>2
<1>. QED
  BY <1>0, <1>2, <1>3, <1>4, <1>5

LEMMA CIntOfInt ==
  ASSUME NEW x \in 0..IntMax
  PROVE  CInt(x) = x
<1>. DEFINE h == IntMax + 1
            m == 2 * (IntMax + 1)
            y == x + h
<1>1. h \in Nat /\ m \in Nat \ {0} /\ y \in 0..m - 1
  BY SizeAssumption
<1>. HIDE DEF m, y
<1>2. y % m \in 0..m - 1 /\ y \div m \in Int /\ y = m * (y \div m) + (y % m)
  BY <1>1
<1>3. y = m * 0 + y
  BY <1>1
<1>4. y % m = y
  BY <1>1, <1>2, <1>3, RemainderIsUnique
<1>. QED
  BY <1>1, <1>4, SizeAssumption DEF CInt, y, m

---------------------------------------------------------------------------
\* The circular buffer of a kind of mark holds the latest durations, the oldest
\* one at the cursor, and the sum is theirs.
Latest(avg, durations) ==
  /\ durations \in Seq(Int) /\ Len(durations) = Count
  /\ \A i \in 1..Count : avg.buffer[(avg.cursor + (i - 1)) % Count] = durations[i]
  /\ avg.sum = CInt(Total(durations))

LatestIInv ==
  /\ recent \in [Marks -> Seq(Int)]
  /\ \A mark \in Marks : Latest(averages[mark], recent[mark])

LEMMA CursorMoves ==
  ASSUME NEW cursor \in 0..Count - 1, NEW i \in 0..Count - 1
  PROVE  /\ (((cursor + 1) % Count) + i) % Count = (cursor + (i + 1)) % Count
         /\ i + 1 < Count => (cursor + (i + 1)) % Count # cursor
         /\ (cursor + Count) % Count = cursor
         /\ (cursor + (i + 1)) % Count \in 0..Count - 1
         /\ (cursor + 0) % Count = cursor
<1>1. Count \in Nat \ {0}
  BY SizeAssumption
<1>2. (((cursor + 1) % Count) + i) % Count = (cursor + (i + 1)) % Count
  <2>1. (((cursor + 1) % Count) + i) % Count = ((cursor + 1) + i) % Count
    <3>1. cursor + 1 \in Int /\ i \in Int
      BY <1>1
    <3>. QED
      BY <1>1, <3>1, RemainderOfSum
  <2>2. (cursor + 1) + i = cursor + (i + 1)
    BY <1>1
  <2>. QED
    BY <2>1, <2>2
<1>3. ASSUME NEW n \in Int, NEW q \in Int, NEW r \in 0..Count - 1, n = Count * q + r
      PROVE  n % Count = r
  <2>1. n % Count \in 0..Count - 1 /\ n \div Count \in Int
        /\ n = Count * (n \div Count) + (n % Count)
    BY <1>1
  <2>2. Count * (n \div Count) + (n % Count) = Count * q + r
    BY <1>3, <2>1
  <2>. QED
    BY <1>1, <2>1, <2>2, RemainderIsUnique
<1>4. (cursor + Count) % Count = cursor
  <2>1. cursor + Count = Count * 1 + cursor /\ cursor + Count \in Int
    BY <1>1
  <2>. QED
    BY <1>3, <2>1
<1>5. (cursor + 0) % Count = cursor
  <2>1. cursor + 0 = Count * 0 + cursor /\ cursor + 0 \in Int
    BY <1>1
  <2>. QED
    BY <1>3, <2>1
<1>6. ASSUME i + 1 < Count PROVE (cursor + (i + 1)) % Count # cursor
  <2>1. CASE cursor + (i + 1) < Count
    <3>1. /\ cursor + (i + 1) = Count * 0 + (cursor + (i + 1))
          /\ cursor + (i + 1) \in 0..Count - 1
      BY <1>1, <2>1
    <3>2. (cursor + (i + 1)) % Count = cursor + (i + 1)
      BY <1>3, <3>1
    <3>. QED
      BY <1>1, <3>2
  <2>2. CASE cursor + (i + 1) >= Count
    <3>1. /\ cursor + (i + 1) = Count * 1 + (cursor + (i + 1) - Count)
          /\ cursor + (i + 1) - Count \in 0..Count - 1 /\ cursor + (i + 1) \in Int
      BY <1>1, <1>6, <2>2
    <3>2. (cursor + (i + 1)) % Count = cursor + (i + 1) - Count
      BY <1>3, <3>1
    <3>. QED
      BY <1>1, <1>6, <3>2
  <2>. QED
    BY <1>1, <2>1, <2>2
<1>7. (cursor + (i + 1)) % Count \in 0..Count - 1
  BY <1>1
<1>. QED
  BY <1>2, <1>4, <1>5, <1>6, <1>7

\* A new duration takes the place of the oldest one.
LEMMA AveragedKeepsLatest ==
  ASSUME NEW avg \in Average, NEW durations, Latest(avg, durations), NEW d \in Int
  PROVE  Latest(Averaged(avg, d), Append(Tail(durations), d))
<1>. DEFINE now == Append(Tail(durations), d)
            new == Averaged(avg, d)
            cursor == avg.cursor
<1>1. Count \in Nat \ {0} /\ cursor \in 0..Count - 1 /\ avg.sum \in Int
      /\ avg.buffer \in [0..Count - 1 -> Int]
  BY SizeAssumption DEF Average
<1>2. durations \in Seq(Int) /\ Len(durations) = Count /\ durations # << >>
  BY <1>1 DEF Latest
<1>3. Tail(durations) \in Seq(Int) /\ Len(Tail(durations)) = Count - 1
  BY <1>1, <1>2
<1>4. /\ now \in Seq(Int) /\ Len(now) = Count /\ now[Count] = d
      /\ \A i \in 1..Count - 1 : now[i] = durations[i + 1]
  BY <1>1, <1>2, <1>3
<1>5. /\ new.buffer = [avg.buffer EXCEPT ![cursor] = d]
      /\ new.cursor = (cursor + 1) % Count
      /\ new.sum = CInt(avg.sum - avg.buffer[cursor] + d)
  BY DEF Averaged
<1>. HIDE DEF new, now, cursor
<1>6. avg.buffer[cursor] = durations[1] /\ durations[1] = Head(durations)
  <2>1. 1 \in 1..Count /\ (cursor + (1 - 1)) % Count = cursor
    <3>1. 0 \in 0..Count - 1 /\ 1 \in 1..Count /\ 1 - 1 = 0
      BY <1>1
    <3>2. (cursor + 0) % Count = cursor
      BY <1>1, <3>1, CursorMoves
    <3>. QED
      BY <3>1, <3>2
  <2>. QED
    BY <1>2, <2>1 DEF Latest, cursor
<1>7. new.sum = CInt(Total(now))
  <2>1. Total(durations) \in Int /\ avg.sum = CInt(Total(durations))
    BY <1>2, TotalIsInt DEF Latest
  <2>2. durations[1] \in Int
    BY <1>1, <1>2
  <2>3. avg.sum - durations[1] + d = CInt(Total(durations)) + (d - durations[1])
    BY <1>1, <2>1, <2>2
  <2>4. d - durations[1] \in Int
    BY <2>2
  <2>5. CInt(CInt(Total(durations)) + (d - durations[1]))
          = CInt(Total(durations) + (d - durations[1]))
    BY <2>1, <2>4, CIntOfSum
  <2>6. Total(durations) + (d - durations[1]) = Total(now)
    <3>1. Total(now) = Total(durations) - Head(durations) + d
      BY <1>2, TotalOfWindow DEF now
    <3>. QED
      BY <1>6, <2>1, <2>2, <3>1
  <2>. QED
    BY <1>5, <1>6, <2>3, <2>5, <2>6
<1>8. ASSUME NEW i \in 1..Count PROVE new.buffer[(new.cursor + (i - 1)) % Count] = now[i]
  <2>1. /\ i - 1 \in 0..Count - 1 /\ (i - 1) + 1 = i
        /\ (new.cursor + (i - 1)) % Count = (cursor + i) % Count
        /\ (cursor + i) % Count \in 0..Count - 1
    <3>1. i - 1 \in 0..Count - 1 /\ (i - 1) + 1 = i
      BY <1>1
    <3>2. /\ (((cursor + 1) % Count) + (i - 1)) % Count = (cursor + ((i - 1) + 1)) % Count
          /\ (cursor + ((i - 1) + 1)) % Count \in 0..Count - 1
      BY <1>1, <3>1, CursorMoves
    <3>. QED
      BY <1>5, <3>1, <3>2
  <2>2. CASE i = Count
    <3>1. (cursor + i) % Count = cursor
      BY <1>1, <2>1, <2>2, CursorMoves
    <3>. QED
      BY <1>1, <1>4, <1>5, <2>1, <2>2, <3>1, SMTT(30)
  <2>3. CASE i < Count
    <3>1. (cursor + i) % Count # cursor
      BY <1>1, <2>1, <2>3, CursorMoves, ZenonT(60)
    <3>2. i + 1 \in 1..Count /\ (i + 1) - 1 = i
      BY <1>1, <2>3
    <3>3. avg.buffer[(cursor + i) % Count] = durations[i + 1]
      BY <3>2 DEF Latest, cursor
    <3>4. new.buffer[(cursor + i) % Count] = avg.buffer[(cursor + i) % Count]
      BY <1>1, <1>5, <2>1, <3>1
    <3>5. now[i] = durations[i + 1]
      <4>1. i \in 1..Count - 1
        BY <1>1, <2>3
      <4>. QED
        BY <1>4, <4>1, Zenon
    <3>6. new.buffer[(new.cursor + (i - 1)) % Count] = new.buffer[(cursor + i) % Count]
      BY <2>1, Zenon
    <3>. QED
      BY <3>3, <3>4, <3>5, <3>6, Zenon
  <2>. QED
    BY <1>1, <2>2, <2>3
<1>9. Latest(new, now)
  BY <1>4, <1>7, <1>8 DEF Latest
<1>. QED
  BY <1>9 DEF new, now

\* A buffer that is filled with one duration has its sum.
LEMMA FilledIsLatest ==
  ASSUME NEW avg \in Average, NEW c \in Int, c * Count \in 0..IntMax
  PROVE  Latest(Filled(avg, c), [i \in 1..Count |-> c])
<1>1. Count \in Nat \ {0} /\ avg.cursor \in 0..Count - 1
  BY SizeAssumption DEF Average
<1>2. /\ [i \in 1..Count |-> c] \in Seq(Int) /\ Len([i \in 1..Count |-> c]) = Count
      /\ \A i \in 1..Count : [j \in 1..Count |-> c][i] = c
  BY <1>1
<1>3. Total([i \in 1..Count |-> c]) = c * Count
  BY <1>1, TotalOfConstant
<1>4. CInt(c * Count) = c * Count
  BY CIntOfInt
<1>5. /\ Filled(avg, c).buffer = [i \in 0..Count - 1 |-> c]
      /\ Filled(avg, c).cursor = 0 /\ Filled(avg, c).sum = c * Count
  BY DEF Filled, Average
<1>6. ASSUME NEW i \in 1..Count PROVE (0 + (i - 1)) % Count \in 0..Count - 1
  BY <1>1
<1>. QED
  BY <1>2, <1>3, <1>4, <1>5, <1>6 DEF Latest

---------------------------------------------------------------------------
LEMMA HistoryStepsAreSteps ==
  ASSUME [HistoryNext]_<<vars, historyVars>>
  PROVE  [Next]_vars
<1>1. CASE UNCHANGED <<vars, historyVars>>
  BY <1>1
<1>2. CASE Enable
  BY <1>2 DEF Enable, Next, Request
<1>3. ASSUME NEW d \in Steps, NEW stamp \in Stamps, Learn(d, stamp) PROVE Next
  BY <1>3 DEF Learn, MarkEnd, Call, Next
<1>4. CASE SetAdaptiveMode(FALSE) \/ ResetState
  BY <1>4 DEF Next, Request
<1>5. ASSUME NEW d \in Steps, NEW stamp \in Stamps,
             \/ MarkBegin(d, stamp) \/ MarkEndRefused(d, stamp) \/ MarkIsNoise(d, stamp)
             \/ MarkIsUnknown(d, stamp) \/ Poll(d, stamp)
             \/ ~timing.adaptive /\ MarkIsKnown(d, stamp)
      PROVE  Next
  BY <1>5 DEF MarkEnd, Call, Next
<1>. QED
  BY <1>1, <1>2, <1>3, <1>4, <1>5 DEF HistoryNext

LEMMA HistoryIsSpec == HistorySpec => Spec
<1>1. HistoryInit => Init
  BY DEF HistoryInit
<1>. QED
  BY <1>1, HistoryStepsAreSteps, PTL DEF HistorySpec, Spec

\* The steps that leave the averages alone.
LEMMA OthersKeepLatest ==
  ASSUME LatestIInv, UNCHANGED <<averages, recent>>
  PROVE  LatestIInv'
  BY DEF LatestIInv, Latest

LEMMA EnableKeepsLatest ==
  ASSUME TimingIInv, LatestIInv, Enable
  PROVE  LatestIInv'
<1>. DEFINE unit == timing'.unit
<1>1. timing' = Synced([timing EXCEPT !.adaptive = TRUE])
  BY DEF Enable, SetAdaptiveMode
<1>2. unit \in ShortestUnit..LongestUnit
  <2>1. /\ [timing EXCEPT !.adaptive = TRUE] \in Timing
        /\ InLimits([timing EXCEPT !.adaptive = TRUE].speed)
        /\ [timing EXCEPT !.adaptive = TRUE].threshold \in 2 * ShortestUnit..2 * LongestUnit
    BY DEF TimingIInv, TimingIsSound, Timing
  <2>. QED
    BY <1>1, <2>1, SyncedIsSound DEF TimingIsSound
<1>3. averages' = [dot |-> Filled(averages["dot"], unit),
                   dash |-> Filled(averages["dash"], 3 * unit)]
  BY <1>1 DEF Enable, SetAdaptiveMode
<1>4. recent' = [dot |-> [i \in 1..Count |-> unit], dash |-> [i \in 1..Count |-> 3 * unit]]
  BY DEF Enable
<1>5. averages["dot"] \in Average /\ averages["dash"] \in Average
  BY DEF TimingIInv, Marks
<1>. HIDE DEF unit
<1>6. /\ unit \in Int /\ 3 * unit \in Int
      /\ unit * Count \in 0..IntMax /\ (3 * unit) * Count \in 0..IntMax
  <2>1. /\ Count \in Nat /\ IntMax \in Nat /\ LongestUnit \in Nat /\ unit \in Nat
        /\ unit =< LongestUnit /\ (3 * LongestUnit) * Count =< IntMax
    BY <1>2, UnitsOfLimits, SizeAssumption, SumAssumption DEF LongestUnit
  <2>2. (3 * unit) * Count =< (3 * LongestUnit) * Count
    BY <2>1
  <2>3. unit * Count =< (3 * unit) * Count
    BY <2>1
  <2>4. (3 * unit) * Count \in Nat /\ unit * Count \in Nat
    BY <2>1
  <2>. QED
    BY <2>1, <2>2, <2>3, <2>4
<1>7. /\ Latest(Filled(averages["dot"], unit), [i \in 1..Count |-> unit])
      /\ Latest(Filled(averages["dash"], 3 * unit), [i \in 1..Count |-> 3 * unit])
  BY <1>5, <1>6, FilledIsLatest
<1>8. /\ [i \in 1..Count |-> unit] \in Seq(Int)
      /\ [i \in 1..Count |-> 3 * unit] \in Seq(Int)
  BY <1>7 DEF Latest
<1>. DEFINE dots == [i \in 1..Count |-> unit]
            dashes == [i \in 1..Count |-> 3 * unit]
            dotsAverage == Filled(averages["dot"], unit)
            dashesAverage == Filled(averages["dash"], 3 * unit)
<1>a. /\ averages' = [dot |-> dotsAverage, dash |-> dashesAverage]
      /\ recent' = [dot |-> dots, dash |-> dashes]
      /\ dots \in Seq(Int) /\ dashes \in Seq(Int)
      /\ Latest(dotsAverage, dots) /\ Latest(dashesAverage, dashes)
  BY <1>3, <1>4, <1>7, <1>8
<1>. HIDE DEF dots, dashes, dotsAverage, dashesAverage
<1>9. recent' \in [Marks -> Seq(Int)]
  BY <1>a DEF Marks
<1>10. ASSUME NEW mark \in Marks PROVE Latest(averages'[mark], recent'[mark])
  <2>1. CASE mark = "dot"
    <3>1. averages'[mark] = dotsAverage /\ recent'[mark] = dots
      BY <1>a, <2>1
    <3>. QED
      BY <1>a, <3>1
  <2>2. CASE mark = "dash"
    <3>1. averages'[mark] = dashesAverage /\ recent'[mark] = dashes
      BY <1>a, <2>2
    <3>. QED
      BY <1>a, <3>1
  <2>. QED
    BY <2>1, <2>2 DEF Marks
<1>. QED
  BY <1>9, <1>10 DEF LatestIInv, Latest

LEMMA LearnKeepsLatest ==
  ASSUME TimingIInv, LatestIInv, NEW d \in Steps, NEW stamp \in Stamps, Learn(d, stamp)
  PROVE  LatestIInv'
<1>. DEFINE duration == Measured(stamp, d)
            mark == Identified(duration, timing)
<1>1. mark \in Marks
  BY DEF Learn, MarkIsKnown
<1>2. /\ averages' = [averages EXCEPT ![mark] = Averaged(@, duration)]
      /\ recent' = [recent EXCEPT ![mark] = Append(Tail(@), duration)]
  BY DEF Learn, MarkIsKnown, UpdateAverages
<1>3. duration \in Int
  BY SizeAssumption DEF Measured
<1>. HIDE DEF mark, duration
<1>4. averages \in [Marks -> Average] /\ recent \in [Marks -> Seq(Int)]
  BY DEF TimingIInv, LatestIInv
<1>5. Latest(Averaged(averages[mark], duration), Append(Tail(recent[mark]), duration))
  BY <1>1, <1>3, <1>4, AveragedKeepsLatest DEF LatestIInv
<1>6. Append(Tail(recent[mark]), duration) \in Seq(Int)
  BY <1>5 DEF Latest
<1>7. recent' \in [Marks -> Seq(Int)]
  BY <1>1, <1>2, <1>4, <1>6
<1>8. \A m \in Marks : Latest(averages'[m], recent'[m])
  BY <1>1, <1>2, <1>4, <1>5 DEF LatestIInv
<1>. QED
  BY <1>7, <1>8 DEF LatestIInv, Latest

LEMMA HistoryKeepsLatest ==
  ASSUME TimingIInv, LatestIInv, [HistoryNext]_<<vars, historyVars>>
  PROVE  LatestIInv'
<1>1. ASSUME UNCHANGED <<averages, recent>> PROVE LatestIInv'
  BY <1>1, OthersKeepLatest
<1>2. CASE UNCHANGED <<vars, historyVars>>
  BY <1>1, <1>2 DEF vars, historyVars
<1>3. CASE Enable
  BY <1>3, EnableKeepsLatest
<1>4. ASSUME NEW d \in Steps, NEW stamp \in Stamps, Learn(d, stamp) PROVE LatestIInv'
  BY <1>4, LearnKeepsLatest
<1>5. ASSUME SetAdaptiveMode(FALSE) \/ ResetState PROVE UNCHANGED averages
  BY <1>5 DEF SetAdaptiveMode, ResetState
<1>6. ASSUME NEW d \in Steps, NEW stamp \in Stamps,
             \/ MarkBegin(d, stamp) \/ MarkEndRefused(d, stamp) \/ MarkIsNoise(d, stamp)
             \/ MarkIsUnknown(d, stamp) \/ Poll(d, stamp)
             \/ ~timing.adaptive /\ MarkIsKnown(d, stamp)
      PROVE  UNCHANGED averages
  BY <1>6 DEF MarkBegin, MarkBeginRefused, MarkBegins, MarkEndRefused, MarkIsNoise,
              MarkIsUnknown, MarkIsKnown, UpdateAverages, Poll, PollRefused,
              CharacterEnds, WordEnds, Passes
<1>. QED
  BY <1>1, <1>2, <1>3, <1>4, <1>5, <1>6 DEF HistoryNext, historyVars

LEMMA HistoryInitIsLatest ==
  ASSUME HistoryInit
  PROVE  LatestIInv
<1>. DEFINE zeros == [i \in 1..Count |-> 0]
<1>1. Count \in Nat \ {0}
  BY SizeAssumption
<1>2. averages = [mark \in Marks |-> Zero] /\ recent = [mark \in Marks |-> zeros]
  BY DEF HistoryInit, Init
<1>3. /\ zeros \in Seq(Int) /\ Len(zeros) = Count /\ \A i \in 1..Count : zeros[i] = 0
  BY <1>1
<1>4. Total(zeros) = 0
  <2>1. Total(zeros) = 0 * Count
    BY <1>1, 0 \in Int, TotalOfConstant
  <2>. QED
    BY <1>1, <2>1
<1>. HIDE DEF zeros
<1>5. CInt(0) = 0
  BY SizeAssumption, CIntOfInt
<1>6. \A i \in 1..Count : (0 + (i - 1)) % Count \in 0..Count - 1
  BY <1>1
<1>7. /\ \A i \in 1..Count : Zero.buffer[(Zero.cursor + (i - 1)) % Count] = zeros[i]
      /\ Zero.sum = 0
  BY <1>3, <1>6 DEF Zero
<1>8. Latest(Zero, zeros)
  BY <1>3, <1>4, <1>5, <1>7 DEF Latest
<1>. QED
  BY <1>2, <1>3, <1>8 DEF LatestIInv

\* cw_rec_update_average_internal() keeps, for dots and for dashes, the sum of the
\* latest durations, as an int has it: through every mixture of marks, every
\* change of mode and every overflow.  The speed that follows from them stays in range.
THEOREM AveragesAreAlwaysSound == HistorySpec => []AveragesAreSound
<1>1. HistorySpec => []LatestIInv
  <2>1. HistorySpec => []TimingIInv
    BY HistoryIsSpec, TimingInductive, PTL
  <2>2. HistoryInit => LatestIInv
    BY HistoryInitIsLatest
  <2>. QED
    BY <2>1, <2>2, HistoryKeepsLatest, PTL DEF HistorySpec
<1>2. LatestIInv => SumsAreOfLatest
  BY DEF LatestIInv, Latest, SumsAreOfLatest, Total
<1>3. TypeOK /\ SumsAreOfLatest /\ SpeedIsInRange => AveragesAreSound
  BY DEF AveragesAreSound
<1>. QED
  BY <1>1, <1>2, <1>3, HistoryIsSpec, ReceiverTypes, SpeedIsAlwaysInRange, PTL

---------------------------------------------------------------------------
(* The easy receiver.                                                         *)

LeastEnd == CharacterMin(NewTiming)
MostEnd == CharacterMax(NewTiming)

\* A space within a character is shorter than one after a character, which is shorter
\* than one between words, for the receiver as for the sender.
SpacesAreTold ==
  /\ ~Races
  /\ Unit < LeastEnd /\ LeastEnd < 3 * Unit /\ 3 * Unit =< MostEnd /\ MostEnd + 1 < 7 * Unit
  /\ MostEnd < Horizon /\ Horizon < IntMax

\* What is handed over after character c, and what is left of it after c; the space
\* that the sender makes.
Awaited(c) == IF resting THEN <<c, Space>> ELSE <<c>>
LastSpace == IF resting THEN <<Space>> ELSE << >>
Spacing == IF resting THEN 7 * Unit ELSE 3 * Unit

EasyTypes ==
  /\ state \in States /\ representation \in Seq(Marks) /\ space \in 0..Horizon
  /\ timing = NewTiming /\ averages = [mark \in Marks |-> Zero]
  /\ tracked \in BOOLEAN /\ pending \in BOOLEAN
  /\ handler \in {"none", "event", "cancel", "cancelled", "call", "recover"}
  /\ poller \in {"sleep", "iws", "drop", "clear", "again", "character", "hold", "forget",
                 "callback"}
  /\ sure \in BOOLEAN /\ polled \in BOOLEAN
  /\ erd.character \in Known \union {<< >>} /\ erd.is_iws \in BOOLEAN
  /\ key \in BOOLEAN /\ resting \in BOOLEAN /\ lasted \in Nat /\ due \in Nat
  /\ key => lasted + due \in Lengths
  /\ current \in Seq(Marks) /\ Len(current) < Capacity - 1

\* Between any two calls of the threads: nothing is sent, or a mark has to be followed
\* by one more (Within), or by nothing that belongs to the character (Ended), or its
\* character has been handed over and a space between words may follow (Held), or it
\* sounds (InMark).  The time since the mark and the time that is left make the space.
Reset == state = "idle" /\ representation = << >> /\ current = << >>
Alone == Reset /\ expected = << >> /\ ~pending
Within ==
  /\ state = "ims" /\ representation = current /\ current # << >>
  /\ expected = << >> /\ ~pending /\ ~resting /\ space + due = Unit
Ended ==
  /\ state = "ims" /\ representation # << >> /\ current = << >> /\ ~pending
  /\ expected = IF representation \in Known THEN Awaited(representation) ELSE << >>
  /\ space + due = Spacing
  /\ space =< LeastEnd
  /\ (polled => space < LeastEnd)
Complete ==
  /\ state = "eoc" /\ representation \in Known /\ current = << >> /\ space + due = Spacing
Held ==
  /\ Complete /\ pending /\ expected = LastSpace
  /\ space =< MostEnd + 1
  /\ (polled => space =< MostEnd)
InMark == state = "mark" /\ representation = current /\ expected = << >> /\ ~pending

\* What the receiver makes of a mark that has ended, before it is told of it.
Made ==
  IF Identified(lasted, NewTiming) = "error" \/ Len(representation) + 1 = Capacity - 1 THEN << >>
  ELSE Append(representation, Identified(lasted, NewTiming))
MarkDone ==
  /\ state = "mark" /\ ~pending /\ lasted \in Lengths /\ Len(representation) < Capacity - 1
  /\ \/ /\ due = Unit /\ ~resting /\ current = Made /\ expected = << >>
     \/ /\ due = Spacing /\ current = << >>
        /\ expected = IF Made \in Known THEN Awaited(Made) ELSE << >>

Up == ~key /\ ~tracked
Quiet ==
  \/ key /\ tracked /\ InMark
  \/ ~tracked /\ Alone
  \/ Up /\ (Within \/ Ended \/ Held)

\* The polling thread has a space, or a character, that it has not handed over.
Spaced == Up /\ Reset /\ expected = <<Space>> /\ erd.is_iws
Handing ==
  /\ Up /\ Complete /\ space =< MostEnd /\ expected = Awaited(representation)
  /\ ~erd.is_iws /\ erd.character = representation

\* In a key event.
EventIs ==
  \/ ~tracked /\ Alone
  \/ /\ key /\ ~tracked /\ expected = << >>
     /\ \/ state = "ims" /\ representation = current /\ ~pending
        \/ state = "eoc" /\ current = << >> /\ pending
  \/ ~key /\ tracked /\ MarkDone
CallIs ==
  \/ /\ key /\ tracked /\ ~pending /\ state \in {"idle", "ims"}
     /\ representation = current /\ expected = << >>
  \/ Up /\ MarkDone
CancelIs == key /\ tracked /\ pending /\ current = << >> /\ expected = << >>

HandlerIs ==
  /\ handler = "event" => EventIs
  /\ handler = "cancel" => CancelIs
  /\ handler = "cancelled" => (CancelIs /\ Reset)
  /\ handler = "call" => CallIs
  /\ handler = "recover" => (Up /\ ~pending /\ current = << >> /\ expected = << >>)

\* In a poll.
Clearing == Up /\ state = "eow" /\ current = << >> /\ expected = <<Space>> /\ erd.is_iws
Forgetting == Up /\ state = "eoc" /\ current = << >> /\ expected = << >> /\ ~sure
AtPolling == poller = "sleep" \/ (poller = "character" /\ ~sure)
PollerIs ==
  /\ (handler = "none" /\ AtPolling) => Quiet
  /\ poller = "character" => (~pending /\ (sure => Spaced))
  /\ poller = "iws" => (Up /\ Held)
  /\ poller = "drop" => (Clearing /\ pending)
  /\ poller = "clear" => (Spaced /\ pending)
  /\ poller = "again" => (IF pending THEN Up /\ Held /\ space =< MostEnd ELSE Spaced)
  /\ poller = "hold" => (Handing /\ ~pending)
  /\ poller = "callback" => (IF pending THEN Handing ELSE Spaced)
  /\ poller = "forget" => (Forgetting /\ ~pending)
EasyInv ==
  /\ EasyTypes /\ HandlerIs /\ PollerIs
  /\ (handler = "none" \/ poller = "sleep")
  /\ (poller # "sleep" => ~polled)

---------------------------------------------------------------------------
LEMMA TimesAre ==
  /\ LeastEnd \in Int /\ MostEnd \in Int /\ ~NewTiming.adaptive
  /\ Horizon \in Nat /\ IntMax \in Nat /\ Unit \in Nat \ {0} /\ Spacing \in Nat \ {0}
  /\ Capacity \in Nat /\ Capacity > 2
<1>. DEFINE t == NewTiming
<1>1. t.unit \in Nat /\ t.tolerance \in Nat /\ t.gap \in Nat /\ ~t.adaptive
  BY NewTimingIsSound DEF TimingIsSound, Timing
<1>. HIDE DEF t
<1>2. (t.unit * t.tolerance) \div 100 \in Int
  <2>1. t.unit * t.tolerance \in Nat
    BY <1>1
  <2>. QED
    BY <2>1
<1>3. CharacterMin(t) \in Int
  BY <1>1, <1>2 DEF CharacterMin, DashMin, Margin
<1>4. (7 * t.gap * t.unit) \div 3 \in Int /\ t.gap * t.unit \in Int
  <2>1. 7 * t.gap * t.unit \in Nat /\ t.gap * t.unit \in Nat
    BY <1>1
  <2>. QED
    BY <2>1
<1>5. CharacterMax(t) \in Int
  BY <1>1, <1>2, <1>4 DEF CharacterMax, DashMax, Margin
<1>. QED
  BY <1>1, <1>3, <1>5, SizeAssumption, SenderAssumption DEF LeastEnd, MostEnd, Spacing, t

LEMMA LaterIs ==
  ASSUME space \in 0..Horizon
  PROVE  /\ Later(0) = space /\ Later(1) \in 0..Horizon
         /\ space < Horizon => Later(1) = space + 1
  BY SizeAssumption DEF Later

\* What a poll finds, and does.
Unheard == UNCHANGED <<representation, space, timing, averages>>

LEMMA PollIs ==
  ASSUME SpacesAreTold, EasyTypes, Poll(0, "good")
  PROVE  /\ Unheard
         /\ \/ /\ PollFinds(0, "good") \in {"none", "early"} /\ state' = state
               /\ state \in {"idle", "mark"} \/ space < LeastEnd
            \/ /\ PollFinds(0, "good") = "character"
               /\ state' = (IF state = "ims" THEN "eoc" ELSE state)
               /\ state \notin {"idle", "mark"} /\ LeastEnd =< space /\ space =< MostEnd
            \/ /\ PollFinds(0, "good") = "word"
               /\ state \in {"eoc", "ims"} => state' = "eow"
               /\ state \notin {"idle", "mark"} /\ (state \in {"eow", "eowErr"} \/ MostEnd < space)
         /\ state' \in States
<1>1. /\ state \in States /\ space \in 0..Horizon /\ timing = NewTiming /\ Later(0) = space
  BY LaterIs DEF EasyTypes
<1>2. Measured("good", Later(0)) = space /\ space # IntMax
  BY <1>1, TimesAre DEF Measured, SpacesAreTold
<1>3. PollFinds(0, "good") =
        IF state \in {"eow", "eowErr"} THEN "word"
        ELSE IF state \in {"idle", "mark"} THEN "none"
        ELSE IF space < LeastEnd THEN "early"
        ELSE IF space > MostEnd THEN "word" ELSE "character"
  BY <1>1, <1>2, Zenon DEF PollFinds, LeastEnd, MostEnd
<1>. QED
  BY <1>1, <1>3, TimesAre DEF Poll, PollRefused, CharacterEnds, WordEnds, Passes, Unheard, States, GapStates

LEMMA MarkBeginIs ==
  ASSUME EasyTypes, state \in {"idle", "ims"}, MarkBegin(0, "good")
  PROVE  state' = "mark" /\ Unheard
  BY LaterIs DEF EasyTypes, MarkBegin, MarkBeginRefused, MarkBegins, GapStates, Unheard

LEMMA MarkEndIs ==
  ASSUME EasyTypes, state = "mark", lasted \in Lengths, MarkEnd(lasted, "good")
  PROVE  /\ UNCHANGED <<timing, averages>> /\ space' = 0
         /\ representation' \in Seq(Marks) /\ state' \in States
         /\ \/ Made = << >> /\ state' \in GapStates
            \/ Made # << >> /\ state' = "ims" /\ representation' = Made
<1>1. timing = NewTiming /\ ~timing.adaptive /\ representation \in Seq(Marks)
  BY TimesAre DEF EasyTypes
<1>2. Measured("good", lasted) = lasted /\ ~IsNoise(lasted)
  BY SenderAssumption, SizeAssumption DEF Measured, IsNoise
<1>3. CASE MarkIsUnknown(lasted, "good")
  <2>1. Identified(lasted, NewTiming) = "error" /\ Made = << >>
    BY <1>1, <1>2, <1>3 DEF MarkIsUnknown, Made
  <2>. QED
    BY <1>1, <1>3, <2>1 DEF MarkIsUnknown, GapStates, States
<1>4. CASE MarkIsKnown(lasted, "good")
  <2>. DEFINE mark == Identified(lasted, NewTiming)
  <2>1. /\ mark \in Marks /\ UNCHANGED <<timing, averages>>
        /\ AppendMark(mark)
    BY <1>1, <1>2, <1>4 DEF MarkIsKnown, UpdateAverages
  <2>2. mark # "error" /\ Append(representation, mark) \in Seq(Marks) /\ Append(representation, mark) # << >>
    BY <1>1, <2>1 DEF Marks
  <2>3. Made = IF Len(representation) + 1 = Capacity - 1 THEN << >> ELSE Append(representation, mark)
    BY <2>2, Zenon DEF Made
  <2>. HIDE DEF mark
  <2>. QED
    BY <2>1, <2>2, <2>3 DEF AppendMark, GapStates, States
<1>. QED
  BY <1>2, <1>3, <1>4 DEF MarkEnd, MarkEndRefused, MarkIsNoise

LEMMA MadeIs ==
  ASSUME representation \in Seq(Marks), Len(representation) < Capacity - 1
  PROVE  Made \in Seq(Marks) /\ Len(Made) < Capacity - 1
<1>. DEFINE mark == Identified(lasted, NewTiming)
<1>1. mark \in Marks \union {"error"}
  BY DEF Identified, Marks
<1>2. Made = IF mark = "error" \/ Len(representation) + 1 = Capacity - 1 THEN << >>
             ELSE Append(representation, mark)
  BY Zenon DEF Made
<1>. HIDE DEF mark
<1>. QED
  BY <1>1, <1>2, TimesAre

---------------------------------------------------------------------------
LEMMA InitIsEasy == SpacesAreTold /\ EasyInit => EasyInv
<1>. SUFFICES ASSUME SpacesAreTold, EasyInit PROVE EasyInv
  OBVIOUS
<1>1. EasyTypes
  <2>1. << >> \in Seq(Marks) /\ Len(<< >>) < Capacity - 1
    BY TimesAre
  <2>2. erd.character = << >> /\ erd.is_iws = FALSE
    BY DEF EasyInit, Nothing
  <2>3. /\ state = "idle" /\ representation = << >> /\ space = Horizon /\ timing = NewTiming
        /\ averages = [mark \in Marks |-> Zero]
    BY Zenon DEF EasyInit, Init
  <2>4. /\ handler = "none" /\ poller = "sleep" /\ tracked = FALSE /\ pending = FALSE
        /\ sure = FALSE /\ polled = FALSE /\ key = FALSE /\ lasted = 0 /\ due = 0
        /\ current = << >> /\ resting = TRUE
    BY Zenon DEF EasyInit
  <2>5. Horizon \in 0..Horizon /\ "idle" \in States
    BY TimesAre DEF States
  <2>. QED
    BY <2>1, <2>2, <2>3, <2>4, <2>5 DEF EasyTypes
<1>2. Reset /\ Alone
  BY DEF EasyInit, Init, Reset, Alone
<1>. QED
  BY <1>1, <1>2 DEF EasyInit, EasyInv, HandlerIs, PollerIs, Quiet

LEMMA SenderPresses ==
  ASSUME SpacesAreTold, EasyInv, KeyDown
  PROVE  EasyInv'
<1>. USE DEF EasyInv
<1>1. /\ ~key /\ due = 0 /\ handler = "none" /\ poller = "sleep"
      /\ key' /\ lasted' = 0 /\ due' \in Lengths /\ handler' = "event" /\ poller' = "sleep"
      /\ UNCHANGED <<vars, pending, tracked, polling, current, resting, expected>>
  BY DEF KeyDown, Enters, SpacesAreTold, polling
<1>2. EasyTypes'
  BY <1>1, SenderAssumption DEF EasyTypes, vars, polling
<1>3. ~tracked /\ (Alone \/ (Up /\ (Within \/ Ended \/ Held)))
  <2>1. Quiet
    BY <1>1 DEF PollerIs, AtPolling
  <2>. QED
    BY <1>1, <2>1, Zenon DEF Quiet, Up
<1>4. ~Ended
  BY <1>1, TimesAre DEF Ended, SpacesAreTold, Spacing, EasyTypes
<1>5. Held => ~resting
  BY <1>1, TimesAre DEF Held, Complete, SpacesAreTold, Spacing, EasyTypes
<1>6. EventIs'
  BY <1>1, <1>3, <1>4, <1>5 DEF EventIs, Alone, Reset, Within, Held, Complete, LastSpace, vars
<1>. QED
  BY <1>1, <1>2, <1>6 DEF HandlerIs, PollerIs

LEMMA SenderReleases ==
  ASSUME SpacesAreTold, EasyInv, KeyUp
  PROVE  EasyInv'
<1>. USE DEF EasyInv
<1>1. /\ key /\ due = 0 /\ handler = "none" /\ poller = "sleep"
      /\ ~key' /\ handler' = "event" /\ poller' = "sleep"
      /\ key' \in BOOLEAN
      /\ UNCHANGED <<vars, pending, tracked, polling, lasted>>
  BY DEF KeyUp, Enters, SpacesAreTold, polling
<1>2. PICK units \in {1, 3, 7} :
        /\ due' = units * Unit
        /\ resting' = (units = 7)
        /\ current' = IF units = 1 THEN Extended ELSE << >>
        /\ expected' = IF units = 1 \/ Extended \notin Known THEN expected
                       ELSE IF units = 3 THEN Append(expected, Extended)
                       ELSE expected \o << Extended, Space >>
  BY DEF KeyUp
<1>3. (key /\ tracked /\ InMark) \/ (~tracked /\ Alone)
  <2>1. Quiet
    BY <1>1 DEF PollerIs, AtPolling
  <2>. QED
    BY <1>1, <2>1, Zenon DEF Quiet, Up
<1>4. expected = << >> /\ representation = current /\ ~pending /\ lasted \in Lengths
  BY <1>1, <1>3, SenderAssumption DEF InMark, Alone, Reset, EasyTypes
<1>5. due' \in Nat /\ resting' \in BOOLEAN
  BY <1>2, TimesAre
<1>6. CASE ~tracked
  <2>1. Extended = << >> /\ Alone
    BY <1>3, <1>6 DEF Extended
  <2>2. current' = << >> /\ expected' = << >>
    BY <1>2, <1>4, <2>1, SenderAssumption
  <2>3. EasyTypes'
    BY <1>1, <1>5, <2>2, TimesAre DEF EasyTypes, vars, polling
  <2>4. Alone' /\ ~tracked'
    BY <1>1, <1>6, <2>1, <2>2 DEF Alone, Reset, vars
  <2>. QED
    BY <1>1, <2>3, <2>4 DEF HandlerIs, PollerIs, EventIs
<1>7. CASE tracked
  <2>1. Extended = Made /\ InMark /\ representation \in Seq(Marks) /\ Len(representation) < Capacity - 1
    BY <1>3, <1>4, <1>7 DEF Extended, Made, EasyTypes
  <2>2. Made \in Seq(Marks) /\ Len(Made) < Capacity - 1 /\ Made' = Made
    BY <1>1, <2>1, MadeIs DEF Made, vars
  <2>3. current' \in Seq(Marks) /\ Len(current') < Capacity - 1
    BY <1>2, <2>1, <2>2, TimesAre
  <2>4. EasyTypes'
    BY <1>1, <1>5, <2>2, <2>3, TimesAre DEF EasyTypes, vars, polling
  <2>5. MarkDone'
    <3>1. CASE units = 1
      <4>1. due' = Unit /\ ~resting' /\ current' = Made /\ expected' = << >>
        <5>1. 1 * Unit = Unit
          BY TimesAre
        <5>2. due' = 1 * Unit /\ resting' = FALSE
          <6>1. (units = 7) = FALSE
            BY <3>1
          <6>. QED
            BY <1>2, <3>1, <6>1, Zenon
        <5>. QED
          BY <1>2, <1>4, <2>1, <3>1, <5>1, <5>2, Zenon
      <4>. QED
        BY <1>1, <1>4, <2>1, <2>2, <4>1 DEF MarkDone, InMark, vars
    <3>2. CASE units # 1
      <4>1. due' = Spacing' /\ current' = << >> /\ resting' = (units = 7)
        BY <1>2, <3>2 DEF Spacing
      <4>2. expected' = IF Made \in Known THEN (IF resting' THEN <<Made, Space>> ELSE <<Made>>) ELSE << >>
        <5>1. CASE units = 3
          <6>1. Append(<< >>, Made) = <<Made>>
            OBVIOUS
          <6>2. (units = 7) = FALSE /\ (units = 1) = FALSE
            BY <5>1
          <6>3. resting' = FALSE
            BY <1>2, <6>2, Zenon
          <6>4. expected' = IF Made \in Known THEN <<Made>> ELSE << >>
            BY <1>2, <1>4, <2>1, <5>1, <6>1, <6>2, Zenon
          <6>. QED
            BY <6>3, <6>4, Zenon
        <5>2. CASE units = 7
          <6>1. << >> \o <<Made, Space>> = <<Made, Space>>
            OBVIOUS
          <6>2. (units = 7) = TRUE /\ (units = 1) = FALSE /\ (units = 3) = FALSE
            BY <5>2
          <6>3. resting' = TRUE
            BY <1>2, <6>2, Zenon
          <6>4. expected' = IF Made \in Known THEN <<Made, Space>> ELSE << >>
            BY <1>2, <1>4, <2>1, <6>1, <6>2, Zenon
          <6>. QED
            BY <6>3, <6>4, Zenon
        <5>. QED
          BY <3>2, <5>1, <5>2
      <4>3. expected' = IF Made' \in Known THEN Awaited(Made)' ELSE << >>
        BY <2>2, <4>2 DEF Awaited
      <4>. QED
        BY <1>1, <1>4, <2>1, <2>2, <4>1, <4>3 DEF MarkDone, InMark, vars
    <3>. QED
      BY <3>1, <3>2
  <2>. QED
    BY <1>1, <1>7, <2>4, <2>5 DEF HandlerIs, PollerIs, EventIs
<1>. QED
  BY <1>6, <1>7

LEMMA ClearIsEasy ==
  ASSUME SpacesAreTold, EasyInv, Clear
  PROVE  EasyInv'
<1>. USE DEF EasyInv
<1>1. /\ handler = "none" /\ poller = "sleep" /\ handler' = "none" /\ poller' = "sleep"
      /\ ResetState /\ ~pending' /\ ~tracked' /\ current' = << >> /\ expected' = << >>
      /\ pending' \in BOOLEAN /\ tracked' \in BOOLEAN
      /\ UNCHANGED <<handler, polling, key, lasted, due, resting>>
  BY DEF Clear, Enters, SpacesAreTold, polling
<1>2. EasyTypes'
  BY <1>1, TimesAre DEF EasyTypes, ResetState, States, polling
<1>3. Alone'
  BY <1>1 DEF Alone, Reset, ResetState
<1>. QED
  BY <1>1, <1>2, <1>3 DEF HandlerIs, PollerIs, Quiet

LEMMA TimePasses ==
  ASSUME SpacesAreTold, EasyInv, Tick
  PROVE  EasyInv'
<1>. USE DEF EasyInv
<1>1. /\ handler = "none" /\ poller = "sleep" /\ handler' = "none" /\ poller' = "sleep" /\ polled
      /\ due > 0 \/ (resting /\ ~key)
      /\ due' = (IF due > 0 THEN due - 1 ELSE 0) /\ lasted' = (IF key THEN lasted + 1 ELSE 0)
      /\ space' = Later(1) /\ ~polled' /\ polled' \in BOOLEAN
      /\ UNCHANGED <<state, representation, timing, averages, pending, tracked, erd, sure, key,
                     current, resting, expected>>
  BY DEF Tick, keying
<1>2. EasyTypes'
  <2>1. Later(1) \in 0..Horizon /\ due \in Nat /\ lasted \in Nat
    BY LaterIs DEF EasyTypes
  <2>2. due' \in Nat /\ lasted' \in Nat /\ (key => lasted' + due' = lasted + due)
    BY <1>1, <2>1
  <2>. QED
    BY <1>1, <2>1, <2>2 DEF EasyTypes
<1>3. Quiet
  BY <1>1 DEF PollerIs, AtPolling
<1>4. space < Horizon => space' = space + 1
  BY <1>1, LaterIs DEF EasyTypes
<1>5. Spacing' = Spacing
  BY <1>1 DEF Spacing
<1>6. ASSUME key /\ tracked /\ InMark PROVE Quiet'
  BY <1>1, <1>6 DEF Quiet, InMark
<1>7. ASSUME ~tracked /\ Alone PROVE Quiet'
  BY <1>1, <1>7 DEF Quiet, Alone, Reset
<1>8. ASSUME Up /\ Within PROVE Quiet'
  BY <1>1, <1>4, <1>8, TimesAre DEF Quiet, Up, Within, SpacesAreTold, EasyTypes
<1>9. ASSUME Up /\ Ended PROVE Quiet'
  <2>1. due > 0 /\ space < Horizon /\ space < LeastEnd
    BY <1>1, <1>9, TimesAre DEF Ended, SpacesAreTold, Spacing, EasyTypes
  <2>2. Ended'
    BY <1>1, <1>4, <1>5, <1>9, <2>1, TimesAre DEF Ended, Awaited, EasyTypes
  <2>. QED
    BY <1>1, <1>9, <2>2 DEF Quiet, Up
<1>10. ASSUME Up /\ Held PROVE Quiet'
  <2>1. due > 0 /\ space < Horizon /\ space =< MostEnd
    BY <1>1, <1>10, TimesAre DEF Held, Complete, SpacesAreTold, Spacing, EasyTypes
  <2>2. Held'
    BY <1>1, <1>4, <1>5, <1>10, <2>1, TimesAre DEF Held, Complete, LastSpace, EasyTypes
  <2>. QED
    BY <1>1, <1>10, <2>2 DEF Quiet, Up
<1>11. Quiet'
  BY <1>3, <1>6, <1>7, <1>8, <1>9, <1>10 DEF Quiet
<1>. QED
  BY <1>1, <1>2, <1>11 DEF HandlerIs, PollerIs


---------------------------------------------------------------------------
LEMMA EventFinds ==
  ASSUME SpacesAreTold, EasyInv, EventIsOld \/ EventIsTracked
  PROVE  EasyInv'
<1>. USE DEF EasyInv
<1>1. /\ handler = "event" /\ poller = "sleep" /\ poller' = "sleep" /\ EventIs
      /\ UNCHANGED <<vars, pending, polling, sending, expected>>
      /\ tracked' \in BOOLEAN
  BY DEF EventIsOld, EventIsTracked, RestOfEvent, HandlerIs, polling, EasyTypes, sending
<1>2. EasyTypes' \/ handler' \notin {"none", "call", "cancel"}
  BY <1>1 DEF EasyTypes, vars, polling, sending
<1>3. CASE EventIsOld
  <2>1. handler' = "none" /\ tracked' = tracked /\ key = tracked
    BY <1>3 DEF EventIsOld
  <2>2. ~tracked /\ Alone
    BY <1>1, <2>1, Zenon DEF EventIs
  <2>3. ~tracked' /\ Alone'
    BY <1>1, <2>1, <2>2 DEF Alone, Reset, vars, sending
  <2>. QED
    BY <1>1, <1>2, <2>1, <2>3 DEF HandlerIs, PollerIs, Quiet, polling
<1>4. CASE EventIsTracked
  <2>1. /\ handler' = (IF key /\ pending THEN "cancel" ELSE "call") /\ tracked' = key /\ key # tracked
        /\ key' = key /\ pending' = pending /\ lasted' = lasted /\ due' = due /\ current' = current
        /\ resting' = resting /\ expected' = expected /\ state' = state
        /\ representation' = representation
        /\ pending \in BOOLEAN /\ key \in BOOLEAN /\ tracked \in BOOLEAN
    BY <1>1, <1>4 DEF EventIsTracked, vars, sending, EasyTypes
  <2>2. CASE key /\ pending
    <3>1. current = << >> /\ expected = << >>
      BY <1>1, <2>1, <2>2, Zenon DEF EventIs, Alone
    <3>2. CancelIs' /\ handler' = "cancel"
      BY <2>1, <2>2, <3>1 DEF CancelIs
    <3>. QED
      BY <1>1, <1>2, <3>2 DEF HandlerIs, PollerIs, polling
  <2>3. CASE key /\ ~pending
    <3>1. state \in {"idle", "ims"} /\ representation = current /\ expected = << >>
      BY <1>1, <2>1, <2>3 DEF EventIs, Alone, Reset
    <3>2. CallIs' /\ handler' = "call"
      BY <2>1, <2>3, <3>1 DEF CallIs
    <3>. QED
      BY <1>1, <1>2, <3>2 DEF HandlerIs, PollerIs, polling
  <2>4. CASE ~key
    <3>1. MarkDone
      BY <1>1, <2>1, <2>4, Zenon DEF EventIs
    <3>2. Made' = Made /\ Spacing' = Spacing /\ (\A c : Awaited(c)' = Awaited(c))
      BY <2>1 DEF Made, Spacing, Awaited
    <3>3. MarkDone'
      BY <2>1, <3>1, <3>2 DEF MarkDone
    <3>4. CallIs' /\ handler' = "call"
      BY <2>1, <2>4, <3>3 DEF CallIs, Up
    <3>. QED
      BY <1>1, <1>2, <3>4 DEF HandlerIs, PollerIs, polling
  <2>. QED
    BY <2>2, <2>3, <2>4
<1>. QED
  BY <1>3, <1>4

LEMMA CancelEnds ==
  ASSUME SpacesAreTold, EasyInv, CancelResets \/ CancelClears
  PROVE  EasyInv'
<1>. USE DEF EasyInv
<1>1. /\ handler \in {"cancel", "cancelled"} /\ poller = "sleep" /\ poller' = "sleep" /\ CancelIs
      /\ UNCHANGED <<tracked, polling, sending, expected>>
  BY DEF CancelResets, CancelClears, RestOfEvent, HandlerIs, polling
<1>2. CASE CancelResets
  <2>1. handler' = "cancelled" /\ ResetState /\ pending' = pending
    BY <1>2 DEF CancelResets
  <2>2. EasyTypes'
    BY <1>1, <2>1 DEF EasyTypes, ResetState, polling, sending, States
  <2>3. CancelIs' /\ Reset'
    BY <1>1, <2>1 DEF CancelIs, Reset, ResetState, sending
  <2>. QED
    BY <1>1, <2>1, <2>2, <2>3 DEF HandlerIs, PollerIs, polling
<1>3. CASE CancelClears
  <2>1. handler' = "call" /\ UNCHANGED vars /\ pending' = FALSE /\ Reset
    BY <1>3 DEF CancelClears, HandlerIs
  <2>2. EasyTypes'
    BY <1>1, <2>1 DEF EasyTypes, vars, polling, sending
  <2>3. CallIs'
    BY <1>1, <2>1 DEF CancelIs, Reset, CallIs, vars, sending
  <2>. QED
    BY <1>1, <2>1, <2>2, <2>3 DEF HandlerIs, PollerIs, polling
<1>. QED
  BY <1>2, <1>3

LEMMA MarkBegan ==
  ASSUME SpacesAreTold, EasyInv, MarkBeginIsTold
  PROVE  EasyInv'
<1>. USE DEF EasyInv
<1>1. /\ handler = "call" /\ handler' = "none" /\ poller = "sleep" /\ poller' = "sleep" /\ key
      /\ CallIs /\ MarkBegin(0, "good")
      /\ UNCHANGED <<pending, tracked, polling, sending, expected>>
  BY DEF MarkBeginIsTold, RestOfEvent, HandlerIs, polling
<1>2. tracked /\ ~pending /\ state \in {"idle", "ims"} /\ representation = current /\ expected = << >>
  BY <1>1, Zenon DEF CallIs, Up
<1>3. state' = "mark" /\ Unheard
  BY <1>1, <1>2, MarkBeginIs
<1>4. EasyTypes'
  BY <1>1, <1>3 DEF EasyTypes, Unheard, polling, sending, States
<1>5. key' /\ tracked' /\ InMark'
  BY <1>1, <1>2, <1>3 DEF InMark, Unheard, sending
<1>. QED
  BY <1>1, <1>4, <1>5 DEF HandlerIs, PollerIs, Quiet, polling

LEMMA MarkEnded ==
  ASSUME SpacesAreTold, EasyInv, MarkEndIsTold
  PROVE  EasyInv'
<1>. USE DEF EasyInv
<1>1. /\ handler = "call" /\ poller = "sleep" /\ poller' = "sleep" /\ ~key
      /\ CallIs /\ MarkEnd(lasted, "good")
      /\ handler' = (IF state # "mark" \/ state' \in GapStates THEN "recover" ELSE "none")
      /\ UNCHANGED <<pending, tracked, polling, sending, expected>>
  BY DEF MarkEndIsTold, RestOfEvent, HandlerIs, polling
<1>2. Up /\ MarkDone
  BY <1>1, Zenon DEF CallIs
<1>3. Up' /\ ~pending' /\ state = "mark" /\ lasted \in Lengths
  BY <1>1, <1>2 DEF Up, MarkDone, sending
<1>4. /\ UNCHANGED <<timing, averages>> /\ space' = 0
      /\ representation' \in Seq(Marks) /\ state' \in States
      /\ \/ Made = << >> /\ state' \in GapStates
         \/ Made # << >> /\ state' = "ims" /\ representation' = Made
  BY <1>1, <1>3, MarkEndIs
<1>5. EasyTypes'
  BY <1>1, <1>4, TimesAre DEF EasyTypes, polling, sending
<1>6. CASE Made = << >>
  <2>1. handler' = "recover"
    BY <1>1, <1>4, <1>6
  <2>2. current = << >> /\ expected = << >>
    BY <1>2, <1>6, SenderAssumption DEF MarkDone
  <2>. QED
    BY <1>1, <1>3, <1>5, <2>1, <2>2 DEF HandlerIs, PollerIs, polling, sending
<1>7. CASE Made # << >>
  <2>1. handler' = "none" /\ state' = "ims" /\ representation' = Made
    BY <1>1, <1>3, <1>4, <1>7 DEF GapStates
  <2>2. due' = due /\ current' = current /\ resting' = resting /\ expected' = expected /\ due \in Nat
    BY <1>1 DEF sending, EasyTypes
  <2>3. ASSUME due = Unit, ~resting, current = Made, expected = << >> PROVE Within'
    BY <1>3, <1>4, <1>7, <2>1, <2>2, <2>3, TimesAre DEF Within
  <2>4. ASSUME due = Spacing, current = << >>,
               expected = IF Made \in Known THEN Awaited(Made) ELSE << >>
        PROVE  Ended'
    <3>1. Spacing' = Spacing /\ Awaited(Made)' = (IF resting THEN <<Made', Space>> ELSE <<Made'>>)
      BY <2>2 DEF Spacing, Awaited
    <3>2. expected' = IF representation' \in Known
                      THEN (IF resting' THEN <<representation', Space>> ELSE <<representation'>>)
                      ELSE << >>
      BY <2>1, <2>2, <2>4, Zenon DEF Awaited
    <3>3. expected' = IF representation' \in Known THEN Awaited(representation)' ELSE << >>
      BY <3>2, Zenon DEF Awaited
    <3>4. 0 + due = due /\ 0 < LeastEnd
      BY <2>2, TimesAre DEF SpacesAreTold
    <3>. QED
      BY <1>3, <1>4, <1>7, <2>1, <2>2, <2>4, <3>1, <3>3, <3>4, TimesAre DEF Ended, LeastEnd
  <2>5. Within' \/ Ended'
    BY <1>2, <2>3, <2>4, Zenon DEF MarkDone
  <2>. QED
    BY <1>1, <1>3, <1>5, <2>1, <2>5 DEF HandlerIs, PollerIs, Quiet, polling
<1>. QED
  BY <1>6, <1>7

LEMMA Recovered ==
  ASSUME SpacesAreTold, EasyInv, Recover
  PROVE  EasyInv'
<1>. USE DEF EasyInv
<1>1. /\ handler = "recover" /\ handler' = "none" /\ poller = "sleep" /\ poller' = "sleep"
      /\ ResetState /\ Up /\ ~pending /\ current = << >> /\ expected = << >>
      /\ UNCHANGED <<pending, tracked, polling, sending, expected>>
  BY DEF Recover, RestOfEvent, HandlerIs, polling
<1>2. EasyTypes'
  BY <1>1 DEF EasyTypes, ResetState, polling, sending, States
<1>3. ~tracked' /\ Alone'
  BY <1>1 DEF Alone, Reset, ResetState, Up, sending
<1>. QED
  BY <1>1, <1>2, <1>3 DEF HandlerIs, PollerIs, Quiet, polling

---------------------------------------------------------------------------
LEMMA PollerWakes ==
  ASSUME SpacesAreTold, EasyInv, Wake
  PROVE  EasyInv'
<1>. USE DEF EasyInv
<1>1. /\ poller = "sleep" /\ ~polled /\ handler = "none" /\ handler' = "none"
      /\ poller' = (IF pending THEN "iws" ELSE "character")
      /\ erd' = Nothing /\ sure' = FALSE
      /\ UNCHANGED <<vars, pending, polled, tracked, sending, expected>>
  BY DEF Wake, SpacesAreTold, RestOfPoll, keying
<1>2. Quiet
  BY <1>1 DEF PollerIs, AtPolling
<1>3. EasyTypes'
  <2>1. erd'.character = << >> /\ erd'.is_iws = FALSE
    BY <1>1 DEF Nothing
  <2>. QED
    BY <1>1, <2>1 DEF EasyTypes, vars, sending
<1>4. CASE pending
  <2>1. Up /\ Held
    BY <1>2, <1>4, Zenon DEF Quiet, InMark, Alone, Within, Ended
  <2>2. Up' /\ Held'
    BY <1>1, <2>1 DEF Up, Held, Complete, Spacing, LastSpace, vars, sending
  <2>. QED
    BY <1>1, <1>3, <1>4, <2>2 DEF HandlerIs, PollerIs, AtPolling
<1>5. CASE ~pending
  <2>1. Quiet'
    BY <1>1, <1>2 DEF Quiet, InMark, Alone, Reset, Up, Within, Ended, Held, Complete, Spacing, LastSpace,
                      Awaited, vars, sending
  <2>. QED
    BY <1>1, <1>3, <1>5, <2>1 DEF HandlerIs, PollerIs, AtPolling
<1>. QED
  BY <1>4, <1>5

LEMMA SpacePolled ==
  ASSUME SpacesAreTold, EasyInv, PollSpace
  PROVE  EasyInv'
<1>. USE DEF EasyInv
<1>1. /\ poller = "iws" /\ handler = "none" /\ handler' = "none" /\ Poll(0, "good") /\ Up /\ Held /\ ~polled
      /\ erd' = (IF IsPolled THEN Received ELSE erd)
      /\ poller' = (IF IsPolled /\ Finds = "word" THEN "drop" ELSE "again")
      /\ UNCHANGED <<pending, sure, polled, tracked, sending, expected>>
  BY DEF PollSpace, RestOfPoll, keying, PollerIs
<1>2. /\ state = "eoc" /\ representation \in Known /\ current = << >> /\ space + due = Spacing
      /\ pending /\ expected = LastSpace /\ space =< MostEnd + 1
      /\ space \in Nat /\ due \in Nat /\ resting \in BOOLEAN
  BY <1>1, TimesAre DEF Held, Complete, EasyTypes
<1>3. Unheard /\ state' \in States
  BY <1>1, PollIs
<1>4. \/ /\ Finds \in {"none", "early"} /\ state' = "eoc" /\ space < LeastEnd
      \/ /\ Finds = "character" /\ state' = "eoc" /\ space =< MostEnd
      \/ /\ Finds = "word" /\ state' = "eow" /\ MostEnd < space
  BY <1>1, <1>2, PollIs DEF Finds
<1>5. EasyTypes'
  <2>1. Received.character = representation /\ Received.is_iws = (Finds = "word")
    BY DEF Received
  <2>2. IsPolled => representation \in Known
    BY Zenon DEF IsPolled
  <2>3. erd'.character \in Known \union {<< >>} /\ erd'.is_iws \in BOOLEAN
    BY <1>1, <2>1, <2>2 DEF EasyTypes
  <2>. QED
    BY <1>1, <1>3, <2>3 DEF EasyTypes, Unheard, sending
<1>6. CASE Finds = "word"
  <2>1. IsPolled /\ erd'.is_iws /\ poller' = "drop"
    BY <1>1, <1>2, <1>6 DEF IsPolled, Received
  <2>2. resting
    BY <1>2, <1>4, <1>6, TimesAre DEF Spacing, SpacesAreTold
  <2>3. expected' = <<Space>>
    BY <1>1, <1>2, <2>2, Zenon DEF LastSpace
  <2>4. Clearing' /\ pending'
    BY <1>1, <1>2, <1>4, <1>6, <2>1, <2>3 DEF Clearing, Up, sending
  <2>. QED
    BY <1>1, <1>5, <2>1, <2>4 DEF HandlerIs, PollerIs, AtPolling
<1>7. CASE Finds # "word"
  <2>1. poller' = "again" /\ state' = "eoc" /\ space =< MostEnd
    BY <1>1, <1>2, <1>4, <1>7, TimesAre DEF SpacesAreTold
  <2>2. Up' /\ Held' /\ (space =< MostEnd)' /\ pending'
    BY <1>1, <1>2, <1>3, <2>1, TimesAre DEF Up, Held, Complete, Unheard, Spacing, LastSpace, sending, MostEnd
  <2>. QED
    BY <1>1, <1>5, <2>1, <2>2 DEF HandlerIs, PollerIs, AtPolling
<1>. QED
  BY <1>6, <1>7

LEMMA SpaceTaken ==
  ASSUME SpacesAreTold, EasyInv, DropCharacter \/ ClearPending \/ LookAgain \/ FindNoSpace
  PROVE  EasyInv'
<1>. USE DEF EasyInv
<1>1. /\ handler = "none" /\ handler' = "none" /\ ~polled
      /\ UNCHANGED <<erd, tracked, sending, expected>>
  BY DEF DropCharacter, ClearPending, LookAgain, FindNoSpace, RestOfPoll, keying
<1>2. CASE DropCharacter
  <2>1. /\ ResetState /\ Clearing /\ pending /\ poller' = "clear" /\ UNCHANGED <<pending, sure, polled>>
    BY <1>2 DEF DropCharacter, RestOfPoll, PollerIs
  <2>2. EasyTypes'
    BY <1>1, <2>1 DEF EasyTypes, ResetState, sending, States
  <2>3. Spaced'
    BY <1>1, <2>1 DEF Clearing, Spaced, Up, Reset, ResetState, sending
  <2>. QED
    BY <1>1, <2>1, <2>2, <2>3 DEF HandlerIs, PollerIs, AtPolling
<1>3. CASE ClearPending
  <2>1. /\ Spaced /\ pending' = FALSE /\ poller' = "again" /\ UNCHANGED <<vars, sure, polled>>
    BY <1>3 DEF ClearPending, RestOfPoll, PollerIs
  <2>2. EasyTypes'
    BY <1>1, <2>1 DEF EasyTypes, vars, sending
  <2>3. Spaced'
    BY <1>1, <2>1 DEF Spaced, Up, Reset, vars, sending
  <2>. QED
    BY <1>1, <2>1, <2>2, <2>3 DEF HandlerIs, PollerIs, AtPolling
<1>4. CASE LookAgain
  <2>1. /\ Spaced /\ ~pending /\ poller' = "character" /\ sure' = TRUE /\ UNCHANGED <<vars, pending, polled>>
    BY <1>4 DEF LookAgain, RestOfPoll, PollerIs
  <2>2. EasyTypes'
    BY <1>1, <2>1 DEF EasyTypes, vars, sending
  <2>3. Spaced'
    BY <1>1, <2>1 DEF Spaced, Up, Reset, vars, sending
  <2>. QED
    BY <1>1, <2>1, <2>2, <2>3 DEF HandlerIs, PollerIs, AtPolling
<1>5. CASE FindNoSpace
  <2>1. /\ Up /\ Held /\ space =< MostEnd /\ poller' = "sleep" /\ polled' = TRUE
        /\ UNCHANGED <<vars, pending, sure>>
    BY <1>5 DEF FindNoSpace, PollerIs
  <2>2. EasyTypes'
    BY <1>1, <2>1 DEF EasyTypes, vars, sending
  <2>3. Up' /\ Held'
    BY <1>1, <2>1 DEF Up, Held, Complete, Spacing, LastSpace, vars, sending, MostEnd
  <2>. QED
    BY <1>1, <2>1, <2>2, <2>3 DEF HandlerIs, PollerIs, Quiet
<1>. QED
  BY <1>2, <1>3, <1>4, <1>5

LEMMA CharacterPolled ==
  ASSUME SpacesAreTold, EasyInv, PollCharacter
  PROVE  EasyInv'
<1>. USE DEF EasyInv
<1>. DEFINE Heard == Finds \in {"character", "word"}
<1>1. /\ poller = "character" /\ handler = "none" /\ handler' = "none" /\ Poll(0, "good") /\ ~pending
      /\ UNCHANGED <<pending, sure, tracked, sending, expected>>
      /\ polled' = (poller' = "sleep")
      /\ \/ IsPolled /\ erd' = Received /\ poller' = "hold"
         \/ ~IsPolled /\ erd' = erd /\ Heard /\ poller' = "forget"
         \/ ~IsPolled /\ erd' = erd /\ ~Heard /\ sure /\ poller' = "callback"
         \/ ~IsPolled /\ erd' = erd /\ ~Heard /\ ~sure /\ poller' = "sleep"
  BY DEF PollCharacter, keying, PollerIs
<1>2. IsPolled <=> (Heard /\ representation \in Known)
  BY Zenon DEF IsPolled
<1>3. Unheard /\ state' \in States
  BY <1>1, PollIs
<1>4. \/ /\ ~Heard /\ state' = state
         /\ state \in {"idle", "mark"} \/ space < LeastEnd
      \/ /\ Finds = "character" /\ Heard
         /\ state' = (IF state = "ims" THEN "eoc" ELSE state)
         /\ state \notin {"idle", "mark"} /\ LeastEnd =< space /\ space =< MostEnd
      \/ /\ Finds = "word" /\ Heard
         /\ state \notin {"idle", "mark"} /\ (state \in {"eow", "eowErr"} \/ MostEnd < space)
  BY <1>1, PollIs DEF Finds
<1>5. EasyTypes'
  <2>1. Received.character = representation /\ Received.is_iws = (Finds = "word")
    BY DEF Received
  <2>2. erd'.character \in Known \union {<< >>} /\ erd'.is_iws \in BOOLEAN
    BY <1>1, <1>2, <2>1 DEF EasyTypes
  <2>3. polled' \in BOOLEAN /\ poller' \in {"sleep", "callback", "hold", "forget"}
    BY <1>1
  <2>. QED
    BY <1>1, <1>3, <2>2, <2>3 DEF EasyTypes, Unheard, sending
<1>. HIDE DEF Heard
<1>6. ASSUME ~Heard, ~sure, Quiet', state' = state PROVE EasyInv'
  BY <1>1, <1>2, <1>5, <1>6 DEF HandlerIs, PollerIs
<1>7. CASE sure
  <2>1. Spaced
    BY <1>1, <1>7 DEF PollerIs
  <2>2. ~Heard /\ state' = state
    BY <1>4, <2>1 DEF Spaced, Reset
  <2>3. poller' = "callback" /\ erd' = erd
    BY <1>1, <1>2, <1>7, <2>2
  <2>4. Spaced'
    BY <1>1, <1>3, <2>1, <2>2, <2>3 DEF Spaced, Up, Reset, Unheard, sending
  <2>. QED
    BY <1>1, <1>5, <2>3, <2>4 DEF HandlerIs, PollerIs, AtPolling
<1>8. CASE ~sure
  <2>1. Quiet
    BY <1>1, <1>8 DEF PollerIs, AtPolling
  <2>2. CASE key /\ tracked /\ InMark
    <3>1. ~Heard /\ state' = state
      BY <1>4, <2>2 DEF InMark
    <3>2. Quiet'
      BY <1>1, <1>3, <2>2, <3>1 DEF Quiet, InMark, Unheard, sending
    <3>. QED
      BY <1>6, <1>8, <3>1, <3>2
  <2>3. CASE ~tracked /\ Alone
    <3>1. ~Heard /\ state' = state
      BY <1>4, <2>3 DEF Alone, Reset
    <3>2. Quiet'
      BY <1>1, <1>3, <2>3, <3>1 DEF Quiet, Alone, Reset, Unheard, sending
    <3>. QED
      BY <1>6, <1>8, <3>1, <3>2
  <2>4. CASE Up /\ Within
    <3>1. space < LeastEnd /\ space =< MostEnd /\ state = "ims"
      BY <2>4, TimesAre DEF Within, EasyTypes, SpacesAreTold
    <3>2. ~Heard /\ state' = state
      BY <1>4, <3>1, TimesAre DEF EasyTypes
    <3>3. Quiet'
      BY <1>1, <1>3, <2>4, <3>2 DEF Quiet, Up, Within, Unheard, sending
    <3>. QED
      BY <1>6, <1>8, <3>2, <3>3
  <2>5. CASE Up /\ Ended
    <3>1. space =< LeastEnd /\ space =< MostEnd /\ state = "ims"
      BY <2>5, TimesAre DEF Ended, EasyTypes, SpacesAreTold
    <3>2. Finds # "word" /\ (Heard => state' = "eoc")
      BY <1>4, <3>1, TimesAre DEF EasyTypes, Heard
    <3>3. CASE ~Heard
      <4>1. state' = state /\ space < LeastEnd
        BY <1>4, <3>1, <3>3
      <4>2. Quiet'
        BY <1>1, <1>3, <2>5, <4>1 DEF Quiet, Up, Ended, Unheard, Spacing, Awaited, sending, LeastEnd
      <4>. QED
        BY <1>6, <1>8, <3>3, <4>1, <4>2
    <3>4. CASE IsPolled
      <4>1. /\ representation \in Known /\ Heard /\ erd' = Received /\ poller' = "hold"
            /\ Finds = "character"
        BY <1>1, <1>2, <1>4, <3>2, <3>4
      <4>2. erd'.character = representation /\ erd'.is_iws = FALSE
        BY <4>1 DEF Received
      <4>3. expected = Awaited(representation) /\ current = << >> /\ space + due = Spacing /\ Up
        BY <2>5, <4>1 DEF Ended
      <4>4. /\ representation' = representation /\ space' = space /\ due' = due
            /\ expected' = expected /\ current' = current /\ Spacing' = Spacing /\ Up'
            /\ Awaited(representation)' = Awaited(representation) /\ state' = "eoc"
        BY <1>1, <1>3, <3>2, <4>1, <4>3 DEF Unheard, sending, Spacing, Awaited, Up
      <4>5. Handing' /\ ~pending'
        BY <1>1, <3>1, <4>1, <4>2, <4>3, <4>4 DEF Handing, Complete, MostEnd
      <4>. QED
        BY <1>1, <1>5, <4>1, <4>5 DEF HandlerIs, PollerIs, AtPolling
    <3>5. CASE Heard /\ ~IsPolled
      <4>1. poller' = "forget" /\ state' = "eoc" /\ representation \notin Known
        BY <1>1, <1>2, <3>2, <3>5
      <4>2. Forgetting' /\ ~pending'
        BY <1>1, <1>8, <2>5, <4>1 DEF Ended, Forgetting, Up, sending
      <4>. QED
        BY <1>1, <1>5, <4>1, <4>2 DEF HandlerIs, PollerIs, AtPolling
    <3>. QED
      BY <1>2, <3>3, <3>4, <3>5
  <2>6. CASE Up /\ Held
    BY <1>1, <2>6 DEF Held
  <2>. QED
    BY <2>1, <2>2, <2>3, <2>4, <2>5, <2>6, Zenon DEF Quiet
<1>. QED
  BY <1>7, <1>8

LEMMA CharacterHeld ==
  ASSUME SpacesAreTold, EasyInv, Hold \/ Forget
  PROVE  EasyInv'
<1>. USE DEF EasyInv
<1>1. /\ handler = "none" /\ handler' = "none" /\ ~pending
      /\ UNCHANGED <<erd, sure, tracked, sending, expected>>
  BY DEF Hold, Forget, RestOfPoll, keying, PollerIs
<1>2. CASE Hold
  <2>1. Handing /\ pending' = TRUE /\ poller' = "callback" /\ UNCHANGED <<vars, polled>> /\ ~polled
    BY <1>2 DEF Hold, RestOfPoll, PollerIs
  <2>2. EasyTypes'
    BY <1>1, <2>1 DEF EasyTypes, vars, sending
  <2>3. Handing'
    BY <1>1, <2>1 DEF Handing, Complete, Up, Spacing, Awaited, vars, sending, MostEnd
  <2>. QED
    BY <1>1, <2>1, <2>2, <2>3 DEF HandlerIs, PollerIs, AtPolling
<1>3. CASE Forget
  <2>1. Forgetting /\ ResetState /\ poller' = "sleep" /\ polled' = TRUE /\ pending' = pending
    BY <1>3 DEF Forget, PollerIs, Forgetting
  <2>2. EasyTypes'
    BY <1>1, <2>1 DEF EasyTypes, ResetState, sending, States
  <2>3. ~tracked' /\ Alone'
    BY <1>1, <2>1 DEF Forgetting, Alone, Reset, ResetState, Up, sending
  <2>. QED
    BY <1>1, <2>1, <2>2, <2>3 DEF HandlerIs, PollerIs, Quiet
<1>. QED
  BY <1>2, <1>3

LEMMA HandedOver ==
  ASSUME SpacesAreTold, EasyInv, Callback
  PROVE  EasyInv'
<1>. USE DEF EasyInv
<1>1. /\ handler = "none" /\ handler' = "none" /\ poller = "callback" /\ poller' = "sleep" /\ polled' = TRUE
      /\ expected' = (IF expected = << >> THEN expected ELSE Tail(expected))
      /\ UNCHANGED <<vars, pending, erd, sure, tracked, sending>>
  BY DEF Callback, keying
<1>2. EasyTypes'
  BY <1>1 DEF EasyTypes, vars, sending
<1>3. CASE pending
  <2>1. Handing
    BY <1>1, <1>3 DEF PollerIs
  <2>2. expected' = LastSpace
    <3>. DEFINE c == representation
    <3>1. expected = IF resting THEN <<c, Space>> ELSE <<c>>
      BY <2>1, Zenon DEF Handing, Awaited
    <3>. HIDE DEF c
    <3>2. /\ <<c, Space>> # << >> /\ <<c>> # << >>
          /\ Tail(<<c, Space>>) = <<Space>> /\ Tail(<<c>>) = << >>
      OBVIOUS
    <3>3. CASE resting
      BY <1>1, <3>1, <3>2, <3>3, Zenon DEF LastSpace
    <3>4. CASE ~resting
      BY <1>1, <3>1, <3>2, <3>4, Zenon DEF LastSpace
    <3>. QED
      BY <3>3, <3>4
  <2>3. Up' /\ Held' /\ LastSpace' = LastSpace
    <3>1. LastSpace' = LastSpace /\ Spacing' = Spacing
      BY <1>1 DEF LastSpace, Spacing, sending
    <3>2. expected' = LastSpace'
      BY <2>2, <3>1
    <3>. QED
      BY <1>1, <1>3, <2>1, <3>1, <3>2, TimesAre
      DEF Handing, Held, Complete, Up, vars, sending, MostEnd, EasyTypes
  <2>. QED
    BY <1>1, <1>2, <2>3 DEF HandlerIs, PollerIs, Quiet
<1>4. CASE ~pending
  <2>1. Spaced
    BY <1>1, <1>4 DEF PollerIs
  <2>2. expected' = << >>
    BY <1>1, <2>1 DEF Spaced
  <2>3. ~tracked' /\ Alone'
    BY <1>1, <1>4, <2>1, <2>2 DEF Spaced, Alone, Reset, Up, vars, sending
  <2>. QED
    BY <1>1, <1>2, <2>3 DEF HandlerIs, PollerIs, Quiet
<1>. QED
  BY <1>3, <1>4

LEMMA EasyStands ==
  ASSUME EasyInv, UNCHANGED easyVars
  PROVE  EasyInv'
<1>1. /\ UNCHANGED <<state, representation, space, timing, averages, pending, tracked, handler>>
      /\ UNCHANGED <<poller, erd, sure, polled, key, lasted, due, current, resting, expected>>
  BY DEF easyVars, vars, keying, polling, sending
<1>2. EasyTypes'
  BY <1>1 DEF EasyInv, EasyTypes
<1>3. /\ LeastEnd' = LeastEnd /\ MostEnd' = MostEnd /\ Made' = Made /\ Spacing' = Spacing
      /\ LastSpace' = LastSpace /\ Awaited(representation)' = Awaited(representation)
      /\ Awaited(Made)' = Awaited(Made)
  BY <1>1 DEF LeastEnd, MostEnd, Made, Spacing, LastSpace, Awaited
<1>4. /\ Up' = Up /\ Reset' = Reset /\ Alone' = Alone /\ Complete' = Complete /\ InMark' = InMark
  BY <1>1, <1>3 DEF Up, Reset, Alone, Complete, InMark
<1>5. /\ (Within => Within') /\ (Ended => Ended') /\ (Held => Held') /\ (Spaced => Spaced')
      /\ (Handing => Handing') /\ (MarkDone => MarkDone')
      /\ (Clearing => Clearing') /\ (Forgetting => Forgetting') /\ (CancelIs => CancelIs')
  BY <1>1, <1>3, <1>4
  DEF Within, Ended, Held, Spaced, Handing, MarkDone, Clearing, Forgetting, CancelIs
<1>6. (EventIs => EventIs') /\ (CallIs => CallIs') /\ (Quiet => Quiet')
  BY <1>1, <1>4, <1>5 DEF EventIs, CallIs, Quiet
<1>7. HandlerIs'
  BY <1>1, <1>4, <1>5, <1>6 DEF EasyInv, HandlerIs
<1>8. PollerIs'
  BY <1>1, <1>3, <1>4, <1>5, <1>6 DEF EasyInv, PollerIs, AtPolling
<1>. QED
  BY <1>1, <1>2, <1>7, <1>8 DEF EasyInv

LEMMA EasyGoesOn ==
  ASSUME SpacesAreTold, EasyInv, [EasyNext]_easyVars
  PROVE  EasyInv'
<1>1. ASSUME Handler PROVE EasyInv'
  BY <1>1, EventFinds, CancelEnds, MarkBegan, MarkEnded, Recovered DEF Handler
<1>2. ASSUME Poller PROVE EasyInv'
  BY <1>2, PollerWakes, SpacePolled, SpaceTaken, CharacterPolled, CharacterHeld, HandedOver DEF Poller
<1>. QED
  BY <1>1, <1>2, SenderPresses, SenderReleases, ClearIsEasy, TimePasses, EasyStands DEF EasyNext

---------------------------------------------------------------------------
\* At most one character and the space after it are yet to be handed over.
LEMMA ExpectedIs ==
  ASSUME EasyInv
  PROVE  \/ expected = << >>
         \/ expected = <<Space>>
         \/ \E c \in Known : expected = <<c>> \/ expected = <<c, Space>>
<1>. USE DEF EasyInv
<1>. DEFINE Short == \/ expected = << >>
                     \/ expected = <<Space>>
                     \/ \E c \in Known : expected = <<c>> \/ expected = <<c, Space>>
<1>1. ASSUME NEW c \in Known, expected = Awaited(c) PROVE Short
  BY <1>1, Zenon DEF Awaited
<1>2. ASSUME expected = LastSpace PROVE Short
  BY <1>2, Zenon DEF LastSpace
<1>3. expected = << >> \/ expected = <<Space>> => Short
  OBVIOUS
<1>. HIDE DEF Short
<1>4. (Quiet \/ Spaced \/ Handing \/ Clearing \/ Forgetting \/ (Up /\ Held)) => Short
  BY <1>1, <1>2, <1>3
  DEF Quiet, InMark, Alone, Within, Ended, Held, Spaced, Handing, Complete, Clearing, Forgetting
<1>5. (EventIs \/ CallIs \/ CancelIs) => Short
  BY <1>1, <1>3 DEF EventIs, CallIs, CancelIs, Alone, MarkDone
<1>6. handler # "none" => Short
  BY <1>3, <1>5 DEF HandlerIs, EasyTypes
<1>7. handler = "none" => Short
  BY <1>4 DEF PollerIs, AtPolling, EasyTypes
<1>. QED
  BY <1>6, <1>7 DEF Short

LEMMA EasyDelivers ==
  ASSUME SpacesAreTold, EasyInv
  PROVE  DeliversInTime
<1>. USE DEF EasyInv
<1>1. EasyTypeOK
  <2>1. TypeOK
    <3>. DEFINE t == NewTiming
    <3>1. /\ t.tolerance \in Nat /\ t.gap \in Nat /\ t.adaptive \in BOOLEAN
          /\ t.threshold \in Nat /\ t.unit \in Nat /\ t.speed \in [num : Nat \ {0}, den : Nat \ {0}]
      BY NewTimingIsSound DEF TimingIsSound, Timing, Speed
    <3>. HIDE DEF t
    <3>2. \A mark \in Marks : averages[mark].cursor = 0
      BY DEF EasyTypes, Zero
    <3>3. 0 \in 0..Count - 1
      BY SizeAssumption
    <3>4. timing = t
      BY DEF EasyTypes, t
    <3>. QED
      BY <3>1, <3>2, <3>3, <3>4 DEF EasyTypes, TypeOK
  <2>2. \A i \in DOMAIN expected : expected[i] \in Known \union {Space}
    BY ExpectedIs
  <2>. QED
    BY <2>1, <2>2, TimesAre DEF EasyTypes, EasyTypeOK
<1>2. AtRest => Quiet
  BY DEF AtRest, PollerIs, AtPolling
<1>3. PendingFitsReceiver
  BY <1>2 DEF PendingFitsReceiver, Quiet, InMark, Alone, Reset, Within, Ended, Held, Complete
<1>4. NothingIsLate
  BY <1>2, Zenon DEF NothingIsLate, AtRest, Quiet, InMark, Alone, Up
<1>5. DeliversWhatWasSent
  <2>. SUFFICES ASSUME poller = "callback" PROVE expected # << >> /\ Item = Head(expected)
    BY DEF DeliversWhatWasSent
  <2>1. Item = IF erd.is_iws THEN Space ELSE erd.character
    BY DEF Item
  <2>2. CASE pending
    <3>1. ~erd.is_iws /\ erd.character = representation /\ expected = Awaited(representation)
      BY <2>2 DEF PollerIs, Handing
    <3>. DEFINE c == representation
    <3>2. expected = <<c, Space>> \/ expected = <<c>>
      BY <3>1, Zenon DEF Awaited
    <3>3. Item = c
      BY <2>1, <3>1
    <3>. HIDE DEF c
    <3>. QED
      BY <3>2, <3>3
  <2>3. CASE ~pending
    <3>1. erd.is_iws /\ expected = <<Space>>
      BY <2>3 DEF PollerIs, Spaced
    <3>2. Item = Space
      BY <2>1, <3>1
    <3>. QED
      BY <3>1, <3>2
  <2>. QED
    BY <2>2, <2>3
<1>. QED
  BY <1>1, <1>3, <1>4, <1>5 DEF DeliversInTime

\* A sender whose spaces the receiver tells apart, two threads that are not inside
\* of the easy receiver at once: whatever is sent, with whatever errors and clears in
\* between, is handed over once and in its order before the next character begins.
THEOREM DeliversAlwaysInTime ==
  ASSUME SpacesAreTold
  PROVE  EasySpec => []DeliversInTime
<1>1. EasyInit => EasyInv
  BY InitIsEasy
<1>2. EasyInv /\ [EasyNext]_easyVars => EasyInv'
  BY EasyGoesOn
<1>3. EasyInv => DeliversInTime
  BY EasyDelivers
<1>. QED
  BY <1>1, <1>2, <1>3, PTL DEF EasySpec

\* The spaces of a sender at the receiver's own speed are told apart: the margin of
\* the tolerance is neither nothing nor two units.
LEMMA OwnSpeedIsTold ==
  ASSUME ~Races, Unit = NewTiming.unit, 0 < Margin(NewTiming), Margin(NewTiming) < 2 * Unit,
         MostEnd < Horizon, Horizon < IntMax
  PROVE  SpacesAreTold
<1>. DEFINE t == NewTiming
<1>1. t.gap = 0 /\ ~t.adaptive
  <2>. DEFINE s == [speed |-> [num |-> InitialSpeed, den |-> 1],
                    tolerance |-> InitialTolerance, gap |-> 0, adaptive |-> FALSE,
                    threshold |-> 2 * (DotCalibration \div InitialSpeed), unit |-> 0]
  <2>1. t = Synced(s)
    BY DEF NewTiming
  <2>2. s.gap = 0 /\ ~s.adaptive
    OBVIOUS
  <2>. HIDE DEF s, t
  <2>. QED
    BY <2>1, <2>2 DEF Synced
<1>2. 7 * t.gap * t.unit = 0 /\ t.gap * t.unit = 0
  BY <1>1, SenderAssumption
<1>. DEFINE m == Margin(t)
<1>3. m \in Int
  <2>1. t.unit * t.tolerance \in Nat
    BY NewTimingIsSound DEF TimingIsSound, Timing
  <2>. QED
    BY <2>1 DEF Margin
<1>. HIDE DEF t, m
<1>4. CharacterMin(t) = 3 * t.unit - m
  BY <1>1 DEF CharacterMin, DashMin, m
<1>5. CharacterMax(t) = 3 * t.unit + m
  <2>1. 0 \div 3 = 0
    OBVIOUS
  <2>. QED
    BY <1>1, <1>2, <1>3, <2>1, SenderAssumption DEF CharacterMax, DashMax, m, t
<1>6. Unit = t.unit /\ 0 < m /\ m < 2 * Unit /\ LeastEnd = 3 * Unit - m /\ MostEnd = 3 * Unit + m
  BY <1>4, <1>5 DEF t, m, LeastEnd, MostEnd
<1>. QED
  BY <1>3, <1>6, SenderAssumption DEF SpacesAreTold

=============================================================================
