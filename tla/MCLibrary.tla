------------------------------ MODULE MCLibrary ------------------------------
(***************************************************************************)
(* The parts of the library that share no state with each other nor with   *)
(* the queue: sound buffer, sound sinks, alarms, tables, timestamps,       *)
(* objects and statistics.  A behaviour is one of one part, while the      *)
(* others rest in their first state; so the instance has the sum of their  *)
(* states and not the product.                                             *)
(***************************************************************************)
EXTENDS SoundBuffer, SoundSinks, Alarms, DataTables, Timestamps, Objects, ReceiverStatistics

(* The sizes of this instance are those of sound without clicks.           *)
ASSUME MCSizesAreFit == SizesAreFit

(* The entries of the tables are as the proofs take them to be.            *)
ASSUME MCTablesAreFit == EntriesDiffer /\ ProsignsAreSpelled

VARIABLE part

MCRates == <<44100, 8000>>

libraryVars == <<soundVars, sinkVars, alarmsVars, dataVars, timeVars, objectsVars, statisticsVars, part>>

LibraryInit ==
    /\ part \in {"sound", "sinks", "alarms", "data", "time", "objects", "statistics"}
    /\ SoundInit /\ SinksInit /\ AlarmsInit /\ DataInit /\ TimestampsInit /\ ObjectsInit
    /\ StatisticsInit
    /\ part # "alarms" => timely /\ \A s \in Signals : disposition[s] = "default"
    /\ part # "data" => max_length = 7
    /\ part # "time" => clock = kept
    /\ part # "statistics" => \A u \in Units : unit_duration <= u

LibraryNext ==
    /\ UNCHANGED part
    /\ \/ /\ part = "sound" /\ SoundNext
          /\ UNCHANGED <<sinkVars, alarmsVars, dataVars, timeVars, objectsVars, statisticsVars>>
       \/ /\ part = "sinks" /\ SinksNext
          /\ UNCHANGED <<soundVars, alarmsVars, dataVars, timeVars, objectsVars, statisticsVars>>
       \/ /\ part = "alarms" /\ AlarmsNext
          /\ UNCHANGED <<soundVars, sinkVars, dataVars, timeVars, objectsVars, statisticsVars>>
       \/ /\ part = "data" /\ DataNext
          /\ UNCHANGED <<soundVars, sinkVars, alarmsVars, timeVars, objectsVars, statisticsVars>>
       \/ /\ part = "time" /\ TimestampsNext
          /\ UNCHANGED <<soundVars, sinkVars, alarmsVars, dataVars, objectsVars, statisticsVars>>
       \/ /\ part = "objects" /\ ObjectsNext
          /\ UNCHANGED <<soundVars, sinkVars, alarmsVars, dataVars, timeVars, statisticsVars>>
       \/ /\ part = "statistics" /\ StatisticsNext
          /\ UNCHANGED <<soundVars, sinkVars, alarmsVars, dataVars, timeVars, objectsVars>>

(* In its first state no part has a step that fairness is assumed of, so a *)
(* part that rests is fair.                                                *)
LibrarySpec == LibraryInit /\ [][LibraryNext]_libraryVars /\ SinksFairness /\ AlarmsFairness
=============================================================================
