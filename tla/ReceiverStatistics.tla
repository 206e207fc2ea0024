-------------------------- MODULE ReceiverStatistics --------------------------
(***************************************************************************)
(* The statistics of a receiver (libcw_rec.c): for each mark and space how *)
(* far it was from its ideal duration, in a ring of the latest ones.  The  *)
(* ring is read from its beginning up to the first slot that is free.      *)
(*                                                                         *)
(* The ideals follow the speed; they are synchronized before they are used *)
(* and so are functions of the unit.                                       *)
(***************************************************************************)
EXTENDS Integers, Sequences, FiniteSets, FiniteSetsExt, SequencesExt

CONSTANTS
    StatsCapacity,   \* CW_REC_DURATION_STATS_CAPACITY; the code has 256
    Units,           \* durations of a dot at the speeds of the receiver
    StatDurations,   \* of what is received
    StatIntMax       \* INT_MAX

ASSUME StatisticsAssumption ==
    /\ StatsCapacity \in Nat \ {0} /\ StatIntMax \in Nat
    /\ Units \subseteq Nat \ {0} /\ StatDurations \subseteq Nat

VARIABLES
    unit_duration,
    duration_stats,      \* the ring of [type, duration_delta]
    duration_stats_idx,
    recorded             \* history: the latest records since the last reset

statisticsVars == <<unit_duration, duration_stats, duration_stats_idx, recorded>>

RecordTypes == {"dot", "dash", "inter mark space", "inter character space"}
Slots == 0..StatsCapacity-1
Free == [type |-> "none", duration_delta |-> 0]

-----------------------------------------------------------------------------
(* cw_rec_sync_parameters_internal()                                       *)
Ideal(type) == unit_duration * (IF type \in {"dash", "inter character space"} THEN 3 ELSE 1)

(* cw_rec_duration_stats_update_internal()                                 *)
\* Mutant: the record goes to the slot after the index.
StoredAfterIndex(record) ==
    [duration_stats EXCEPT ![(duration_stats_idx + 1) % StatsCapacity] = record]
Stored(record) == [duration_stats EXCEPT ![duration_stats_idx] = record]

UpdateStatistics(type, duration) ==
    LET record == [type |-> type, duration_delta |-> duration - Ideal(type)] IN
    /\ duration_stats' = Stored(record)
    /\ duration_stats_idx' = (duration_stats_idx + 1) % StatsCapacity
    /\ recorded' = <<record>> \o (IF Len(recorded) < StatsCapacity THEN recorded ELSE Front(recorded))
    /\ UNCHANGED unit_duration

(* cw_rec_duration_stats_get_internal(): what it squares, and the sum of   *)
(* it in an int.                                                           *)
BeforeFree(slot) == \A s \in 0..slot : duration_stats[s].type # "none"
Considered(type) == {s \in Slots : BeforeFree(s) /\ duration_stats[s].type = type}
SumOfSquares(type) ==
    LET sum == MapThenSumSet(LAMBDA s : duration_stats[s].duration_delta * duration_stats[s].duration_delta,
                             Considered(type))
    IN ((sum + StatIntMax + 1) % (2 * (StatIntMax + 1))) - (StatIntMax + 1)

(* cw_rec_reset_statistics()                                               *)
ResetStatistics ==
    /\ duration_stats' = [s \in Slots |-> Free]
    /\ duration_stats_idx' = 0
    /\ recorded' = <<>>
    /\ UNCHANGED unit_duration

(* A new speed, of the client or of the adaptive mode.                     *)
ChangeUnit ==
    /\ unit_duration' \in Units
    /\ UNCHANGED <<duration_stats, duration_stats_idx, recorded>>

-----------------------------------------------------------------------------
StatisticsInit ==
    /\ unit_duration \in Units
    /\ duration_stats = [s \in Slots |-> Free] /\ duration_stats_idx = 0
    /\ recorded = <<>>

StatisticsNext ==
    \/ \E type \in RecordTypes, duration \in StatDurations : UpdateStatistics(type, duration)
    \/ ResetStatistics \/ ChangeUnit

StatisticsSpec == StatisticsInit /\ [][StatisticsNext]_statisticsVars

-----------------------------------------------------------------------------
(* The statistics of a type are those of the latest records since a reset, *)
(* each of them measured against the ideal at its time, and all of them:   *)
(* no free slot comes before one that is in use.                           *)
StatisticsAreOfLatest ==
    \A type \in RecordTypes :
        /\ \A slot \in Considered(type) : duration_stats[slot] \in Range(recorded)
        /\ \A record \in {r \in Range(recorded) : r.type = type} :
              Cardinality({s \in Considered(type) : duration_stats[s] = record})
                  = Cardinality({i \in DOMAIN recorded : recorded[i] = record})

(* "If any statistic cannot be calculated, because no records for it       *)
(* exist, the returned value is 0.0": otherwise it is the deviation.  A    *)
(* dot may be half of its duration too long or too short, 50 ms at 12 WPM, *)
(* of which the square in microseconds is no int any more.                 *)
SquaresAreSummed ==
    \A type \in RecordTypes : \A slot \in Considered(type) :
        SumOfSquares(type) >= duration_stats[slot].duration_delta * duration_stats[slot].duration_delta
=============================================================================
