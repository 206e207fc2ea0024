---------------------------- MODULE GeneratorProofs ----------------------------
(***************************************************************************)
(* Theorems about the life of a generator, for every capacity, every set   *)
(* of tones and any number of clients.                                     *)
(***************************************************************************)
EXTENDS Generator, ToneQueueProofs

(* The inductive invariant.  The queue's own invariant IInv goes on to     *)
(* hold among the steps of the generator; only the owner is ever inside of *)
(* a start or a stop; the thread runs between them.                        *)
StartsOrStops(t) == stopping[t] \/ job[t] \in {"started", "halt", "check", "kick", "join"}
OwnerStartsAndStops == \A t \in Clients : StartsOrStops(t) => t = Owner

RunsWhileStarted ==
    /\ loop \in {"absent", "drain", "last", "gone"} => ~do_dequeue
    /\ job[Owner] = "started" => do_dequeue
    /\ loop \notin {"absent", "gone"} => running \/ job[Owner] = "started"

(* A client that is inside of a wait of the queue is there to silence.     *)
WaitsToSilence == \A t \in Clients : call[t].op # "none" => InWait(t)

RestsWithKeyOpen == loop \in {"about_to_sleep", "asleep"} => ~value

SleepsUntilKicked ==
    loop = "asleep" =>
        /\ state = "EMPTY"
        /\ do_dequeue \/ job[Owner] \in {"check", "kick"}

GenInv ==
    /\ IInv
    /\ GenTypeOK
    /\ OwnerStartsAndStops
    /\ RunsWhileStarted
    /\ WaitsToSilence
    /\ RestsWithKeyOpen
    /\ SleepsUntilKicked

(* What the flags and the thread have to keep, apart from the queue.       *)
ThreadInv ==
    OwnerStartsAndStops /\ RunsWhileStarted /\ RestsWithKeyOpen /\ SleepsUntilKicked

FlagTypes ==
    /\ do_dequeue \in BOOLEAN /\ running \in BOOLEAN /\ silencing \in BOOLEAN
    /\ value \in BOOLEAN /\ prev_forever \in BOOLEAN
    /\ loop \in Places
    /\ written \in {"nothing", "tone", "silencing"}
    /\ job \in [Clients -> Jobs] /\ stopping \in [Clients -> BOOLEAN]

LEMMA GenInvParts ==
    /\ GenInv <=> IInv /\ FlagTypes /\ ThreadInv /\ WaitsToSilence
    /\ GenInv' <=> IInv' /\ FlagTypes' /\ ThreadInv' /\ WaitsToSilence'
  BY DEF GenInv, GenTypeOK, FlagTypes, ThreadInv, IInv

-----------------------------------------------------------------------------
(* The queue's invariant, among the steps of the generator.                *)

(* The broadcast at the end of a tone, of the thread and of a stop.        *)
LEMMA TellIInv ==
    ASSUME IInv, Tell
    PROVE  IInv'
  BY DEF Tell, Broadcast, IInv, TypeOK, RingConsistent, Slot, SleepersWait, SleepersWillBeWoken,
         ToneWaitersAreTold, Blocked, ring, lowWater, dequeuer

(* The thread writes to its own copy of the tone.                          *)
LEMMA ToneIInv ==
    ASSUME IInv, tone' \in Tone,
           UNCHANGED <<ring, lowWater, waiters, call, deq, called, generating>>
    PROVE  IInv'
  BY DEF IInv, TypeOK, RingConsistent, Slot, SleepersWait, SleepersWillBeWoken,
         ToneWaitersAreTold, Blocked, ring, lowWater

LEMMA StutterIInv ==
    ASSUME IInv, UNCHANGED vars
    PROVE  IInv'
  BY NextIInv

LEMMA ThreadStepIInv ==
    ASSUME GenInv, ThreadStep \/ SpuriousKick
    PROVE  IInv'
<1>1. IInv /\ prev_forever \in BOOLEAN
  BY DEF GenInv, GenTypeOK
<1>2. CASE \/ TestFlag \/ FindEmpty \/ Sleep \/ TrackValue \/ EndTone \/ ClearSilencing
           \/ Exit \/ SpuriousKick
  BY <1>1, <1>2, StutterIInv
  DEF TestFlag, FindEmpty, Sleep, TrackValue, EndTone, ClearSilencing, Exit, SpuriousKick
<1>3. CASE DequeueNext
  BY <1>1, <1>3, DequeueIInv DEF DequeueNext
<1>4. CASE BeginWrite
  <2>1. tone \in Tone
    BY <1>1 DEF IInv, TypeOK
  <2>2. [tone EXCEPT !.is_forever = prev_forever] \in Tone
    BY <1>1, <2>1 DEF Tone
  <2>3. tone' \in Tone
    BY <1>4, <2>1, <2>2 DEF BeginWrite
  <2> QED
    BY <1>1, <1>4, <2>3, ToneIInv DEF BeginWrite
<1>5. CASE EndWrite
  BY <1>1, <1>5, StutterIInv, TellIInv DEF EndWrite
<1>6. CASE DiscardRemaining
  BY <1>1, <1>6, EmptyRingIInv DEF DiscardRemaining
<1>7. CASE Drain
  BY <1>1, <1>7, TellIInv DEF Drain
<1> QED
  BY <1>2, <1>3, <1>4, <1>5, <1>6, <1>7 DEF ThreadStep

LEMMA ClientStepIInv ==
    ASSUME GenInv, NEW t \in Clients, Calling(t) \/ Continuing(t)
    PROVE  IInv'
<1>1. IInv /\ t \in Threads
  BY DEF GenInv, Threads
<1>2. CASE Send(t)
  BY <1>1, <1>2, TonesAssumption, EnqueueIInv DEF Send
<1>3. CASE \E stops \in BOOLEAN : FlushAndSilence(t, stops)
  BY <1>1, <1>3, EmptyRingIInv DEF FlushAndSilence, MakeEmpty
<1>4. CASE \/ Start(t) \/ JustSilence(t) \/ Started(t) \/ BeginSilence(t)
           \/ HasNothingToWaitFor(t) \/ Halt(t) \/ Check(t) \/ Join(t)
  BY <1>1, <1>4, StutterIInv
  DEF Start, JustSilence, Started, BeginSilence, HasNothingToWaitFor, Halt, Check, Join
<1>5. CASE BeginWait(t) \/ GoOnWaiting(t) \/ EndWait(t)
  <2>1. 0 \in 0..Capacity
    BY CapacityAssumption
  <2>2. Wait(t)
    BY <1>5, <2>1 DEF BeginWait, GoOnWaiting, EndWait, Wait
  <2> QED
    BY <1>1, <2>2, WaitIInv
<1>6. CASE EnqueueQuantum(t)
  <2>1. Quantum \in Tone /\ Enqueue(t, Quantum)
    BY <1>6, QuantumAssumption DEF EnqueueQuantum
  <2> QED
    BY <1>1, <2>1, EnqueueIInv
<1>7. CASE Kick(t)
  BY <1>1, <1>7, TellIInv DEF Kick
<1> QED
  BY <1>2, <1>3, <1>4, <1>5, <1>6, <1>7 DEF Calling, Continuing

-----------------------------------------------------------------------------
(* The flags, the places of the thread and those of the clients.           *)

LEMMA InitGenInv == GenInit => GenInv
<1> SUFFICES ASSUME GenInit PROVE GenInv
  OBVIOUS
<1>1. IInv
  BY InitIInv DEF GenInit
<1>2. FlagTypes
  BY DEF GenInit, FlagTypes, Places, Jobs
<1>3. ThreadInv
  BY OwnerAssumption
  DEF GenInit, ThreadInv, OwnerStartsAndStops, StartsOrStops, RunsWhileStarted,
      RestsWithKeyOpen, SleepsUntilKicked
<1>4. WaitsToSilence
  BY DEF GenInit, Init, WaitsToSilence, NoCall, Threads
<1> QED
  BY <1>1, <1>2, <1>3, <1>4, GenInvParts

(* The thread changes no client's place, and leaves its loop only when it  *)
(* has been told to.                                                       *)
LEMMA ThreadStepInv ==
    ASSUME GenInv, ThreadStep \/ SpuriousKick
    PROVE  FlagTypes' /\ ThreadInv'
<1> USE DEF GenInv, GenTypeOK, FlagTypes, ThreadInv, OwnerStartsAndStops, StartsOrStops,
            RunsWhileStarted, RestsWithKeyOpen, SleepsUntilKicked, Places, flags, jobs
<1>1. CASE TestFlag
  BY <1>1 DEF TestFlag
<1>2. CASE DequeueNext
  BY <1>2 DEF DequeueNext
<1>3. CASE FindEmpty
  BY <1>3 DEF FindEmpty
<1>4. CASE Sleep
  BY <1>4 DEF Sleep, vars, ring
<1>5. CASE TrackValue
  BY <1>5 DEF TrackValue
<1>6. CASE BeginWrite
  BY <1>6 DEF BeginWrite
<1>7. CASE EndWrite
  BY <1>7 DEF EndWrite
<1>8. CASE EndTone
  <2>1. tone.is_forever \in BOOLEAN
    BY DEF IInv, TypeOK, Tone
  <2> QED
    BY <1>8, <2>1 DEF EndTone
<1>9. CASE DiscardRemaining
  BY <1>9 DEF DiscardRemaining
<1>10. CASE ClearSilencing
  <2>1. tone.is_forever \in BOOLEAN
    BY DEF IInv, TypeOK, Tone
  <2> QED
    BY <1>10, <2>1 DEF ClearSilencing
<1>11. CASE Drain
  BY <1>11 DEF Drain
<1>12. CASE Exit
  BY <1>12 DEF Exit
<1>13. CASE SpuriousKick
  BY <1>13 DEF SpuriousKick, Woken
<1> QED
  BY <1>1, <1>2, <1>3, <1>4, <1>5, <1>6, <1>7, <1>8, <1>9, <1>10, <1>11, <1>12, <1>13
  DEF ThreadStep

LEMMA CallingInv ==
    ASSUME GenInv, NEW t \in Clients, Calling(t)
    PROVE  FlagTypes' /\ ThreadInv'
<1> USE OwnerAssumption
    DEF GenInv, GenTypeOK, FlagTypes, ThreadInv, OwnerStartsAndStops, StartsOrStops,
        RunsWhileStarted, RestsWithKeyOpen, SleepsUntilKicked, Places, Jobs, flags, jobs, thread,
        Goto, Woken, Idle
<1>1. CASE Send(t)
  BY <1>1 DEF Send
<1>2. CASE Start(t)
  BY <1>2 DEF Start
<1>3. CASE JustSilence(t)
  BY <1>3 DEF JustSilence, vars, ring
<1>4. CASE \E stops \in BOOLEAN : FlushAndSilence(t, stops)
  BY <1>4 DEF FlushAndSilence
<1> QED
  BY <1>1, <1>2, <1>3, <1>4 DEF Calling

(* The owner halts a thread that runs, and is not yet past its kick while  *)
(* the thread sleeps.                                                      *)
LEMMA ContinuingInv ==
    ASSUME GenInv, NEW t \in Clients, Continuing(t)
    PROVE  FlagTypes' /\ ThreadInv'
<1> USE OwnerAssumption
    DEF GenInv, GenTypeOK, FlagTypes, ThreadInv, OwnerStartsAndStops, StartsOrStops,
        RunsWhileStarted, RestsWithKeyOpen, SleepsUntilKicked, Places, Jobs, flags, jobs, thread,
        Goto, Woken
<1>1. CASE Started(t)
  BY <1>1 DEF Started, vars, ring
<1>2. CASE BeginSilence(t)
  BY <1>2 DEF BeginSilence, AfterSilence, vars, ring
<1>3. CASE BeginWait(t)
  BY <1>3 DEF BeginWait, WaitForEndOfCurrentTone, WaitForLevel, ring
<1>4. CASE HasNothingToWaitFor(t)
  BY <1>4 DEF HasNothingToWaitFor, InWait, NextJob, AfterSilence, vars, ring
<1>5. CASE GoOnWaiting(t)
  BY <1>5 DEF GoOnWaiting, WaitGoesOn, ring
<1>6. CASE EndWait(t)
  <2>1. t \in Threads /\ call[t].op # "none"
    BY <1>6 DEF EndWait, WaitReturns, Awake, Threads
  <2>2. InWait(t)
    BY <2>1 DEF WaitsToSilence
  <2> QED
    BY <1>6, <2>2 DEF EndWait, WaitReturns, ring, NextJob, InWait, AfterSilence
<1>7. CASE EnqueueQuantum(t)
  BY <1>7 DEF EnqueueQuantum
<1>8. CASE Halt(t)
  BY <1>8, ZenonT(60) DEF Halt, vars, ring
<1>9. CASE Check(t)
  BY <1>9 DEF Check, vars, ring
<1>10. CASE Kick(t)
  BY <1>10 DEF Kick
<1>11. CASE Join(t)
  BY <1>11 DEF Join, vars, ring
<1> QED
  BY <1>1, <1>2, <1>3, <1>4, <1>5, <1>6, <1>7, <1>8, <1>9, <1>10, <1>11 DEF Continuing

(* The thread changes neither a client's place nor its call.               *)
LEMMA ThreadLeavesClients ==
    ASSUME ThreadStep \/ SpuriousKick
    PROVE  UNCHANGED <<job, stopping, call>>
<1>1. UNCHANGED <<job, stopping>>
  BY DEF ThreadStep, TestFlag, DequeueNext, FindEmpty, Sleep, TrackValue, BeginWrite, EndWrite,
         EndTone, DiscardRemaining, ClearSilencing, Drain, Exit, SpuriousKick, jobs
<1>2. UNCHANGED call
  BY DEF ThreadStep, TestFlag, DequeueNext, FindEmpty, Sleep, TrackValue, BeginWrite, EndWrite,
         EndTone, DiscardRemaining, ClearSilencing, Drain, Exit, SpuriousKick, vars, Tell,
         EmptyRing, Dequeue, DequeueNothing, DequeueLastEnded, DequeueForever, DequeueTone
<1> QED
  BY <1>1, <1>2

(* A place changes only while its client is outside of the queue, or just  *)
(* returns from a wait.                                                    *)
LEMMA WaitsToSilenceInv ==
    ASSUME GenInv, [GenNext]_genVars
    PROVE  WaitsToSilence'
<1> USE DEF GenInv, GenTypeOK, IInv, TypeOK, WaitsToSilence, InWait, Threads
<1>1. CASE UNCHANGED <<call, job>>
  BY <1>1
<1>2. CASE ThreadStep \/ SpuriousKick
  BY <1>1, <1>2, ThreadLeavesClients
<1>3. ASSUME NEW t \in Clients, UNCHANGED call, call[t].op = "none",
             \A u \in Clients \ {t} : job'[u] = job[u]
      PROVE  WaitsToSilence'
  BY <1>3
<1>4. ASSUME NEW t \in Clients, Calling(t) PROVE WaitsToSilence'
  BY <1>3, <1>1, <1>4
  DEF Calling, Send, Start, JustSilence, FlushAndSilence, Idle, Free, Goto, vars, jobs, Enqueue,
      MakeEmpty, EmptyRing
<1>5. ASSUME NEW t \in Clients, Continuing(t) PROVE WaitsToSilence'
  <2>1. CASE BeginWait(t)
    BY <2>1 DEF BeginWait, WaitForEndOfCurrentTone, WaitForLevel, jobs
  <2>2. CASE GoOnWaiting(t)
    BY <1>1, <2>2 DEF GoOnWaiting, WaitGoesOn, jobs
  <2>3. CASE EndWait(t)
    <3>1. call'[t].op = "none" /\ \A u \in Clients \ {t} : call'[u] = call[u] /\ job'[u] = job[u]
      BY <2>3 DEF EndWait, WaitReturns, NoCall, Goto
    <3> QED
      BY <3>1
  <2>4. CASE \/ Started(t) \/ BeginSilence(t) \/ HasNothingToWaitFor(t) \/ EnqueueQuantum(t)
             \/ Halt(t) \/ Check(t) \/ Kick(t) \/ Join(t)
    <3>1. \A u \in Clients \ {t} : job'[u] = job[u]
      BY <2>4
      DEF Started, BeginSilence, HasNothingToWaitFor, EnqueueQuantum, Halt, Check, Kick, Join, Goto
    <3>2. UNCHANGED call
      BY <2>4
      DEF Started, BeginSilence, HasNothingToWaitFor, EnqueueQuantum, Halt, Check, Kick, Join,
          vars, Enqueue, Tell
    <3>3. call[t].op = "none"
      BY <2>4
      DEF Started, BeginSilence, HasNothingToWaitFor, EnqueueQuantum, Halt, Check, Kick, Join
    <3> QED
      BY <1>3, <3>1, <3>2, <3>3
  <2> QED
    BY <1>5, <2>1, <2>2, <2>3, <2>4 DEF Continuing
<1> QED
  BY <1>1, <1>2, <1>4, <1>5 DEF GenNext, genVars, vars, jobs

LEMMA GenNextInv == GenInv /\ [GenNext]_genVars => GenInv'
<1> SUFFICES ASSUME GenInv, [GenNext]_genVars PROVE GenInv'
  OBVIOUS
<1>1. CASE ThreadStep \/ SpuriousKick
  BY <1>1, ThreadStepIInv, ThreadStepInv, WaitsToSilenceInv, GenInvParts
<1>2. ASSUME NEW t \in Clients, Calling(t) \/ Continuing(t) PROVE GenInv'
  BY <1>2, ClientStepIInv, CallingInv, ContinuingInv, WaitsToSilenceInv, GenInvParts
<1>3. CASE UNCHANGED genVars
  <2>1. IInv'
    BY <1>3, StutterIInv DEF GenInv, genVars
  <2>2. FlagTypes' /\ ThreadInv'
    BY <1>3
    DEF GenInv, GenTypeOK, FlagTypes, ThreadInv, OwnerStartsAndStops, StartsOrStops,
        RunsWhileStarted, RestsWithKeyOpen, SleepsUntilKicked, genVars, vars, ring, thread, jobs
  <2> QED
    BY <2>1, <2>2, WaitsToSilenceInv, GenInvParts
<1> QED
  BY <1>1, <1>2, <1>3 DEF GenNext

-----------------------------------------------------------------------------
(* The generator's thread sleeps only while its queue is empty, with its   *)
(* key open, and never through a stop: for any number of clients that      *)
(* send, flush and silence while one of them starts and stops.             *)
THEOREM GeneratorSleepsRightly == GenSpec => []SleepsRightly
<1>1. GenInv => SleepsRightly
  BY OwnerAssumption
  DEF GenInv, SleepsRightly, SleepsWithReason, SleepsWithKeyOpen, RestsWithKeyOpen,
      SleepsUntilKicked
<1> QED
  BY <1>1, InitGenInv, GenNextInv, PTL DEF GenSpec

-----------------------------------------------------------------------------
(* A silencing call, of a generator with a single client.                  *)

Silences == {"level", "quantum", "level_again", "tone"}

(* The queue that the silencing has waited for is empty, or all it still   *)
(* holds is the quantum.                                                   *)
QueueIsSilenced ==
    /\ job[Owner] \in {"quantum", "tone"} => len = 0
    /\ job[Owner] = "level_again" => len = 0 \/ (len = 1 /\ queue[head] = Quantum)

(* Once the quantum has been taken from the queue, by the dequeue or by    *)
(* the flush of the thread, the thread generates nothing audible, and if   *)
(* the flag is still up the thread is on its way to the flush.             *)
ThreadIsSilenced ==
    job[Owner] \in {"level_again", "tone"} /\ len = 0 =>
        /\ loop \in {"track", "write", "tell"} => tone.payload \notin Audible
        /\ silencing =>
              \/ loop = "clear"
              \/ loop \in {"track", "write", "tell", "keyed", "flush"} /\ state # "EMPTY"

(* The waits are those of the silencing: for an empty queue, and for a     *)
(* tone that nothing but the end of the queue can replace.                 *)
WaitsForSilence ==
    /\ call[Owner].op \in {"none", "level", "tone"}
    /\ call[Owner].op = "level" =>
          job[Owner] \in {"level", "level_again"} /\ call[Owner].bound = 0
    /\ call[Owner].op = "tone" =>
          job[Owner] = "tone" /\ (head = call[Owner].bound \/ state = "EMPTY")

FlagIsLowered == job[Owner] \notin Silences => (silencing => loop = "clear")

SilenceInv == QueueIsSilenced /\ ThreadIsSilenced /\ WaitsForSilence /\ FlagIsLowered

LEMMA InitSilenceInv == GenInit => SilenceInv
  BY OwnerAssumption
  DEF GenInit, Init, NoCall, Threads, SilenceInv, QueueIsSilenced, ThreadIsSilenced,
      WaitsForSilence, FlagIsLowered

(* What the steps below use of the generator's invariant.                  *)
LEMMA SilenceTypes ==
    ASSUME GenInv
    PROVE  /\ call \in [Threads -> Calls] /\ job \in [Clients -> Jobs] /\ Owner \in Clients
           /\ Owner \in Threads
           /\ queue \in [Index -> Tone] /\ head \in Index /\ len \in Nat /\ tone \in Tone
           /\ state = "NONEMPTY" <=> len > 0
           /\ len = 0 => tail = head
<1>1. call \in [Threads -> Calls] /\ job \in [Clients -> Jobs] /\ len \in Nat
  BY CapacityAssumption DEF GenInv, GenTypeOK, TypeOK
<1>2. queue \in [Index -> Tone] /\ head \in Index /\ tone \in Tone
  BY DEF GenInv, GenTypeOK, TypeOK
<1>3. Owner \in Clients /\ Owner \in Threads
  BY OwnerAssumption DEF Threads
<1>4. (state = "NONEMPTY" <=> len > 0) /\ tail = Slot(len)
  BY DEF GenInv, IInv, RingConsistent
<1>5. len = 0 => tail = head
  BY <1>2, <1>4, CapacityAssumption DEF Slot, Index
<1> QED
  BY <1>1, <1>2, <1>3, <1>4, <1>5

LEMMA ThreadSilenceInv ==
    ASSUME GenInv, SilenceInv, ThreadStep \/ SpuriousKick
    PROVE  SilenceInv'
<1>1. UNCHANGED <<job, call>>
  BY ThreadLeavesClients
<1> USE <1>1, SilenceTypes
    DEF SilenceInv, QueueIsSilenced, ThreadIsSilenced, WaitsForSilence, FlagIsLowered, Silences,
        flags
<1>2. CASE \/ TestFlag \/ FindEmpty \/ Sleep \/ TrackValue \/ EndTone \/ ClearSilencing
           \/ Exit \/ SpuriousKick
  <2>1. UNCHANGED <<queue, head, len, state, tone>>
    BY <1>2
    DEF TestFlag, FindEmpty, Sleep, TrackValue, EndTone, ClearSilencing, Exit, SpuriousKick, vars,
        ring, dequeuer
  <2>2. (silencing' => silencing /\ (loop = "clear" => loop' = "clear"))
    BY <1>2
    DEF TestFlag, FindEmpty, Sleep, TrackValue, EndTone, ClearSilencing, Exit, SpuriousKick
  <2>3. loop' \in {"track", "write", "tell"} => loop \in {"track", "write", "tell"}
    BY <1>2
    DEF TestFlag, FindEmpty, Sleep, TrackValue, EndTone, ClearSilencing, Exit, SpuriousKick,
        Woken
  <2>4. silencing /\ loop \in {"track", "write", "tell", "keyed", "flush"}
            => loop' \in {"track", "write", "tell", "keyed", "flush"}
    BY <1>2
    DEF TestFlag, FindEmpty, Sleep, TrackValue, EndTone, ClearSilencing, Exit, SpuriousKick
  <2> QED
    BY <2>1, <2>2, <2>3, <2>4
<1>3. CASE DequeueNext
  <2>1. CASE DequeueNothing \/ DequeueLastEnded
    BY <1>3, <2>1 DEF DequeueNext, DequeueNothing, DequeueLastEnded, ring
  <2>2. CASE DequeueForever
    BY <1>3, <2>2 DEF DequeueNext, DequeueForever, ring
  <2>3. CASE DequeueTone
    <3>1. /\ len > 0 /\ len' = len - 1 /\ state' # "EMPTY" /\ tone' = queue[head]
          /\ loop = "dequeue" /\ loop' = "track" /\ UNCHANGED <<queue, silencing>>
      BY <1>3, <2>3 DEF DequeueNext, DequeueTone
    <3>2. len' = 0 /\ job[Owner] = "level_again" => tone'.payload \notin Audible
      BY <3>1, QuantumAssumption
    <3> QED
      BY <3>1, <3>2
  <2> QED
    BY <1>3, <2>1, <2>2, <2>3 DEF DequeueNext, Dequeue
<1>4. CASE BeginWrite
  <2>1. tone'.payload = tone.payload
    BY <1>4 DEF BeginWrite, Tone
  <2> QED
    BY <1>4, <2>1 DEF BeginWrite, ring
<1>5. CASE EndWrite
  BY <1>5 DEF EndWrite, Tell, vars, ring, dequeuer
<1>6. CASE DiscardRemaining
  BY <1>6 DEF DiscardRemaining, EmptyRing, dequeuer
<1>7. CASE Drain
  BY <1>7 DEF Drain, Tell, ring, dequeuer
<1> QED
  BY <1>2, <1>3, <1>4, <1>5, <1>6, <1>7 DEF ThreadStep

LEMMA ClientSilenceInv ==
    ASSUME GenInv, SilenceInv, Calling(Owner) \/ Continuing(Owner)
    PROVE  SilenceInv'
<1> USE SilenceTypes
    DEF SilenceInv, QueueIsSilenced, ThreadIsSilenced, WaitsForSilence, FlagIsLowered, Silences,
        flags, thread, jobs, Goto, Idle, Woken
<1>1. CASE Send(Owner)
  BY <1>1 DEF Send, Enqueue
<1>2. CASE Start(Owner)
  BY <1>2 DEF Start, vars, ring
<1>3. CASE JustSilence(Owner)
  BY <1>3 DEF JustSilence, vars, ring
<1>4. CASE \E stops \in BOOLEAN : FlushAndSilence(Owner, stops)
  BY <1>4 DEF FlushAndSilence, MakeEmpty, EmptyRing
<1>5. CASE Started(Owner)
  BY <1>5 DEF Started, vars, ring
<1>6. CASE BeginSilence(Owner)
  BY <1>6 DEF BeginSilence, AfterSilence, vars, ring
<1>7. CASE BeginWait(Owner)
  BY <1>7 DEF BeginWait, InWait, WaitForEndOfCurrentTone, WaitForLevel, Free, ring, dequeuer
<1>8. CASE HasNothingToWaitFor(Owner)
  BY <1>8 DEF HasNothingToWaitFor, InWait, NextJob, AfterSilence, vars, ring, dequeuer
<1>9. CASE GoOnWaiting(Owner)
  BY <1>9 DEF GoOnWaiting, WaitGoesOn, ring, dequeuer
<1>10. CASE EndWait(Owner)
  BY <1>10 DEF EndWait, WaitReturns, Awake, Blocked, NoCall, NextJob, AfterSilence, ring, dequeuer
<1>11. CASE EnqueueQuantum(Owner)
  BY <1>11 DEF EnqueueQuantum, Enqueue, dequeuer
<1>12. CASE Halt(Owner) \/ Check(Owner)
  BY <1>12 DEF Halt, Check, vars, ring
<1>13. CASE Kick(Owner)
  BY <1>13 DEF Kick, Tell, ring
<1>14. CASE Join(Owner)
  BY <1>14 DEF Join, vars, ring
<1> QED
  BY <1>1, <1>2, <1>3, <1>4, <1>5, <1>6, <1>7, <1>8, <1>9, <1>10, <1>11, <1>12, <1>13, <1>14
  DEF Calling, Continuing

LEMMA NextSilenceInv ==
    ASSUME Clients = {Owner}, GenInv, SilenceInv, [GenNext]_genVars
    PROVE  SilenceInv'
<1>1. CASE UNCHANGED genVars
  BY <1>1
  DEF SilenceInv, QueueIsSilenced, ThreadIsSilenced, WaitsForSilence, FlagIsLowered, genVars, vars,
      ring, dequeuer, thread, jobs
<1> QED
  BY <1>1, ThreadSilenceInv, ClientSilenceInv DEF GenNext

(* A silencing returns only from its last wait, with the queue EMPTY.      *)
LEMMA ReturnsSilent ==
    ASSUME Clients = {Owner}, GenInv, SilenceInv, [GenNext]_genVars, ReturnsFromSilence(Owner)
    PROVE  /\ len = 0
           /\ loop = "tell" => written = "silencing" \/ tone.payload \notin Audible
<1>1. job[Owner] = "tone"
  <2>1. job'[Owner] # job[Owner] /\ job'[Owner] \notin {"quantum", "tone"}
    BY DEF ReturnsFromSilence, InWait, AfterSilence
  <2>2. HasNothingToWaitFor(Owner) \/ EndWait(Owner)
    BY <2>1, SilenceTypes, ThreadLeavesClients
    DEF GenNext, genVars, Calling, Continuing, ReturnsFromSilence, InWait, jobs, Send, Start,
        JustSilence, FlushAndSilence, Idle, Started, BeginSilence, BeginWait, GoOnWaiting,
        EnqueueQuantum, Halt, Check, Kick, Join
  <2>3. job'[Owner] = NextJob(Owner)
    BY <2>2, SilenceTypes DEF HasNothingToWaitFor, EndWait, Goto
  <2> QED
    BY <2>1, <2>3 DEF NextJob, ReturnsFromSilence, InWait
<1> QED
  BY <1>1 DEF SilenceInv, QueueIsSilenced, ThreadIsSilenced

(* With one client a silencing reaches exactly as far as its call, for     *)
(* every capacity and every set of tones: what the thread writes when the  *)
(* call returns is inaudible, and the flag does not outlive the call.      *)
THEOREM SilencingIsAlwaysSound ==
    ASSUME Clients = {Owner}
    PROVE  GenSpec => SilencingIsSound
<1>1. GenInv /\ SilenceInv /\ [GenNext]_genVars => SilenceInv'
  BY NextSilenceInv
<1>2. GenInv /\ SilenceInv /\ [GenNext]_genVars
        => [\A t \in Clients : ReturnsFromSilence(t) =>
               /\ len = 0
               /\ loop = "tell" => written = "silencing" \/ tone.payload \notin Audible]_genVars
  BY ReturnsSilent
<1>3. GenInv /\ SilenceInv /\ [GenNext]_genVars => [SilencingEndsWithTheCall']_genVars
  <2>1. SilenceInv' => SilencingEndsWithTheCall'
    BY OwnerAssumption DEF SilenceInv, FlagIsLowered, Silences, SilencingEndsWithTheCall
  <2> QED
    BY <1>1, <2>1
<1> QED
  BY <1>1, <1>2, <1>3, InitGenInv, GenNextInv, InitSilenceInv, PTL
  DEF GenSpec, SilencingIsSound, SilenceIsSilent
=============================================================================
