-------------------------- MODULE ReceiverHistory --------------------------
(* The receiver together with what its sender has done since adaptive mode    *)
(* was enabled, which the receiver itself only keeps as sums and averages.    *)
EXTENDS Receiver, SequencesExt

\* A buffer full of the longest dashes adds up to an int, as it does in libcw:
\* 4 dashes at 4 wpm are 3.6 seconds.
ASSUME SumAssumption == 3 * (DotCalibration \div MinSpeed) * Count =< IntMax

VARIABLES
  recent,  \* the latest Count durations of dots and of dashes
  base,    \* the ideal dot when adaptive mode was enabled
  exact    \* every mark since then has been a multiple of it, as it should be

historyVars == <<recent, base, exact>>

Ideal(mark) == IF mark = "dot" THEN base ELSE 3 * base

HistoryInit ==
  /\ Init
  /\ recent = [mark \in Marks |-> [i \in 1..Count |-> 0]]
  /\ base = 0
  /\ exact = FALSE

Enable ==
  /\ SetAdaptiveMode(TRUE)
  /\ recent' = [dot |-> [i \in 1..Count |-> timing'.unit],
                dash |-> [i \in 1..Count |-> 3 * timing'.unit]]
  /\ base' = timing'.unit
  /\ exact' = TRUE

Learn(d, stamp) ==
  /\ timing.adaptive
  /\ MarkIsKnown(d, stamp)
  /\ LET duration == Measured(stamp, d)
         mark == Identified(duration, timing)
     IN  /\ recent' = [recent EXCEPT ![mark] = Append(Tail(@), duration)]
         /\ exact' = (exact /\ duration \in {base, 3 * base})
  /\ UNCHANGED base

HistoryNext ==
  \/ Enable
  \/ \E d \in Steps, stamp \in Stamps : Learn(d, stamp)
  \/ /\ \/ SetAdaptiveMode(FALSE)
        \/ ResetState
        \/ \E d \in Steps, stamp \in Stamps :
             \/ MarkBegin(d, stamp) \/ MarkEndRefused(d, stamp) \/ MarkIsNoise(d, stamp)
             \/ MarkIsUnknown(d, stamp) \/ Poll(d, stamp)
             \/ ~timing.adaptive /\ MarkIsKnown(d, stamp)
     /\ UNCHANGED historyVars

HistorySpec == HistoryInit /\ [][HistoryNext]_<<vars, historyVars>>

\* The running sums are the sums (as a C int has them) of the latest durations,
\* no older and no newer one: the circular buffers drop the right duration
\* through any mixture of dots and dashes and through mode changes.
SumsAreOfLatest ==
  \A mark \in Marks :
    averages[mark].sum = CInt(FoldLeft(LAMBDA a, b : a + b, 0, recent[mark]))

\* The averages and what follows from them stay sound through overflow, mode changes
\* and resets: they sum the latest marks, and the speed stays within its limits.
AveragesAreSound == TypeOK /\ SumsAreOfLatest /\ SpeedIsInRange

\* libcw_rec.c:870, when adaptive mode is enabled the averages are initialized
\* "so that initial averages match the current speed": a sender who keeps
\* exactly to the current speed does not move the threshold.
ExactSenderMovesNothing ==
  (exact /\ timing.adaptive) => timing.threshold = 2 * base

\* libcw_rec.c:1356, an update of the averages leaves the low-level parameters
\* "re-synchronized to new threshold/speed".
TimingFollowsSpeed ==
  timing.adaptive => timing.unit = (DotCalibration * timing.speed.den) \div timing.speed.num
=============================================================================
