------------------------------ MODULE Generator ------------------------------
(***************************************************************************)
(* The life of a generator (libcw_gen.c), on top of its tone queue: the    *)
(* thread that dequeues and generates, and the client calls that start,    *)
(* silence, flush and stop it.  The flags do_dequeue_and_generate,         *)
(* silencing_initialized and thread.running are shared without a mutex;    *)
(* the thread sleeps on the queue's condition variable, with the clients   *)
(* that wait.  The sound device is a sound card (OSS, ALSA, PulseAudio);   *)
(* a call of the keyer at the end of a tone is the subject of IambicKeyer. *)
(***************************************************************************)
EXTENDS ToneQueue

CONSTANTS
    Owner,          \* the client that starts and stops the generator
    SilencesAlone,  \* clients silence without a flush, as a reset of the keyer does
    Quantum,        \* the silent tone that cw_gen_silence_internal() enqueues
    Audible         \* the payloads with a frequency other than zero

ASSUME OwnerAssumption == Owner \in Clients
ASSUME SilencesAssumption == SilencesAlone \in BOOLEAN
ASSUME QuantumAssumption == Quantum \in Tone /\ Quantum.payload \notin Audible

VARIABLES
    do_dequeue,     \* gen->do_dequeue_and_generate
    running,        \* gen->thread.running
    silencing,      \* gen->silencing_initialized
    value,          \* gen->value_tracking.value: TRUE stands for CW_KEY_VALUE_CLOSED
    loop,           \* where the generator thread is
    written,        \* what the thread has last written to the sound card
    prev_forever,   \* prev_tone.is_forever
    job,            \* job[t]: where client t is in silence, stop or start
    stopping        \* stopping[t]: t silences because it stops the generator

thread == <<value, loop, written, prev_forever>>
jobs == <<job, stopping>>
genVars == <<vars, do_dequeue, running, silencing, thread, jobs>>

Places == {"absent", "test", "dequeue", "empty", "about_to_sleep", "asleep", "track", "write",
           "tell", "keyed", "flush", "clear", "drain", "last", "gone"}
Jobs == {"none", "started", "silence", "level", "quantum", "level_again", "tone", "halt",
         "check", "kick", "join"}

GenTypeOK ==
    /\ TypeOK
    /\ do_dequeue \in BOOLEAN /\ running \in BOOLEAN /\ silencing \in BOOLEAN
    /\ value \in BOOLEAN /\ prev_forever \in BOOLEAN
    /\ loop \in Places
    /\ written \in {"nothing", "tone", "silencing"}
    /\ job \in [Clients -> Jobs] /\ stopping \in [Clients -> BOOLEAN]

GenInit ==
    /\ Init
    /\ do_dequeue = FALSE /\ running = FALSE /\ silencing = FALSE
    /\ value = FALSE /\ prev_forever = FALSE
    /\ loop = "absent"
    /\ written = "nothing"
    /\ job = [t \in Clients |-> "none"] /\ stopping = [t \in Clients |-> FALSE]

-----------------------------------------------------------------------------
(* cw_gen_dequeue_and_generate_internal(), the thread function.            *)

flags == <<do_dequeue, running, silencing>>

(* The thread sleeps on wait_var as well: whoever broadcasts wakes it.     *)
Woken == IF loop = "asleep" THEN "about_to_sleep" ELSE loop

Tell == Broadcast /\ UNCHANGED <<ring, lowWater, call, dequeuer>>

TestFlag ==
    /\ loop = "test"
    /\ loop' = IF do_dequeue THEN "dequeue" ELSE "drain"
    /\ UNCHANGED <<vars, flags, value, written, prev_forever, jobs>>

(* The state after the dequeue tells whether there is a tone.              *)
DequeueNext ==
    /\ loop = "dequeue"
    /\ Dequeue
    /\ loop' = IF state' = "EMPTY" THEN "empty" ELSE "track"
    /\ UNCHANGED <<flags, value, written, prev_forever, jobs>>

(* Mutant: an empty queue does not change the reported value.              *)
FindEmptyUntracked ==
    /\ loop = "empty"
    /\ loop' = "about_to_sleep"
    /\ UNCHANGED <<vars, flags, value, written, prev_forever, jobs>>

FindEmpty ==
    /\ loop = "empty"
    /\ value' = FALSE
    /\ loop' = "about_to_sleep"
    /\ UNCHANGED <<vars, flags, written, prev_forever, jobs>>

(* The condition is tested under wait_mutex.                               *)
Sleep ==
    /\ loop = "about_to_sleep"
    /\ loop' = IF state = "EMPTY" /\ do_dequeue THEN "asleep" ELSE "test"
    /\ UNCHANGED <<vars, flags, value, written, prev_forever, jobs>>

TrackValue ==
    /\ loop = "track"
    /\ value' = (tone.payload \in Audible)
    /\ loop' = "write"
    /\ UNCHANGED <<vars, flags, written, prev_forever, jobs>>

(* A silencing tone is made from the previous one; then the blocking write *)
(* begins.                                                                 *)
BeginWrite ==
    /\ loop = "write"
    /\ IF silencing
       THEN written' = "silencing" /\ tone' = [tone EXCEPT !.is_forever = prev_forever]
       ELSE written' = "tone" /\ UNCHANGED tone
    /\ loop' = "tell"
    /\ UNCHANGED <<ring, lowWater, waiters, call, deq, called, generating, flags, value,
                   prev_forever, jobs>>

(* The write has returned.  Two "forever" tones in a row are one tone.     *)
EndWrite ==
    /\ loop = "tell"
    /\ IF prev_forever /\ tone.is_forever THEN UNCHANGED vars ELSE Tell
    /\ loop' = "keyed"
    /\ UNCHANGED <<flags, value, written, prev_forever, jobs>>

EndTone ==
    /\ loop = "keyed"
    /\ loop' = IF silencing THEN "flush" ELSE "test"
    /\ prev_forever' = IF silencing THEN prev_forever ELSE tone.is_forever
    /\ UNCHANGED <<vars, flags, value, written, jobs>>

DiscardRemaining ==
    /\ loop = "flush"
    /\ EmptyRing
    /\ loop' = "clear"
    /\ UNCHANGED <<flags, value, written, prev_forever, jobs>>

ClearSilencing ==
    /\ loop = "clear"
    /\ silencing' = FALSE
    /\ prev_forever' = tone.is_forever
    /\ loop' = "test"
    /\ UNCHANGED <<vars, do_dequeue, running, value, written, jobs>>

(* The last broadcast, half a second after the loop has ended.             *)
Drain ==
    /\ loop = "drain"
    /\ Tell
    /\ loop' = "last"
    /\ UNCHANGED <<flags, value, written, prev_forever, jobs>>

Exit ==
    /\ loop = "last"
    /\ running' = FALSE
    /\ loop' = "gone"
    /\ UNCHANGED <<vars, do_dequeue, silencing, value, written, prev_forever, jobs>>

ThreadStep ==
    \/ TestFlag \/ DequeueNext \/ FindEmpty \/ Sleep \/ TrackValue \/ BeginWrite \/ EndWrite
    \/ EndTone \/ DiscardRemaining \/ ClearSilencing \/ Drain \/ Exit

SpuriousKick ==
    /\ loop = "asleep"
    /\ loop' = Woken
    /\ UNCHANGED <<vars, flags, value, written, prev_forever, jobs>>

-----------------------------------------------------------------------------
(* Calls of client t.                                                      *)

Goto(t, place) == job' = [job EXCEPT ![t] = place]

Idle(t) == job[t] = "none" /\ Free(t)

Send(t) ==
    /\ Idle(t)
    /\ \E new \in Tones : Enqueue(t, new)
    /\ loop' = Woken
    /\ UNCHANGED <<flags, value, written, prev_forever, jobs>>

(* cw_gen_start(), by a client that does not start a generator twice.  It  *)
(* sets thread.running without a mutex after it has created the thread:    *)
(* one client starts and stops, as in every program that uses the library, *)
(* any of them sends, flushes and silences.                                *)
Start(t) ==
    /\ t = Owner
    /\ Idle(t)
    /\ ~do_dequeue /\ loop \in {"absent", "gone"}
    /\ do_dequeue' = TRUE
    /\ loop' = "test" /\ prev_forever' = FALSE /\ written' = "nothing"
    /\ Goto(t, "started")
    /\ UNCHANGED <<vars, running, silencing, value, stopping>>

Started(t) ==
    /\ job[t] = "started"
    /\ running' = TRUE
    /\ Goto(t, "none")
    /\ UNCHANGED <<vars, do_dequeue, silencing, thread, stopping>>

(* cw_gen_flush_queue() and cw_gen_stop() begin alike.                     *)
FlushAndSilence(t, stops) ==
    /\ stops => t = Owner
    /\ Idle(t)
    /\ MakeEmpty(t)
    /\ loop' = Woken
    /\ Goto(t, "silence")
    /\ stopping' = [stopping EXCEPT ![t] = stops]
    /\ UNCHANGED <<flags, value, written, prev_forever>>

(* cw_gen_silence_internal() on its own, as the keyer's reset calls it.    *)
JustSilence(t) ==
    /\ SilencesAlone
    /\ Idle(t)
    /\ Goto(t, "silence")
    /\ stopping' = [stopping EXCEPT ![t] = FALSE]
    /\ UNCHANGED <<vars, flags, thread>>

AfterSilence(t) == IF stopping[t] THEN "halt" ELSE "none"

BeginSilence(t) ==
    /\ job[t] = "silence"
    /\ silencing' = (silencing \/ running)
    /\ Goto(t, IF running THEN "level" ELSE AfterSilence(t))
    /\ UNCHANGED <<vars, do_dequeue, running, thread, stopping>>

(* Mutant: the silencing ends when the queue is empty, one wait early.     *)
NextJobWithoutLastWait(t) ==
    CASE job[t] = "level" -> "quantum"
      [] job[t] = "level_again" -> AfterSilence(t)
      [] job[t] = "tone" -> AfterSilence(t)

(* Mutant: the silencing ends with the first wait.                         *)
NextJobAfterFirstWait(t) == AfterSilence(t)

(* The three waits of the silencing: for an empty queue, for an empty      *)
(* queue again, for the end of the current tone.                           *)
NextJob(t) ==
    CASE job[t] = "level" -> "quantum"
      [] job[t] = "level_again" -> "tone"
      [] job[t] = "tone" -> AfterSilence(t)

InWait(t) == job[t] \in {"level", "level_again", "tone"}

BeginWait(t) ==
    /\ InWait(t)
    /\ IF job[t] = "tone" THEN WaitForEndOfCurrentTone(t) ELSE WaitForLevel(t, 0)
    /\ UNCHANGED <<flags, thread, jobs>>

HasNothingToWaitFor(t) ==
    /\ InWait(t) /\ call[t].op = "none"
    /\ IF job[t] = "tone" THEN state = "EMPTY" ELSE len = 0
    /\ Goto(t, NextJob(t))
    /\ UNCHANGED <<vars, flags, thread, stopping>>

GoOnWaiting(t) == WaitGoesOn(t) /\ UNCHANGED <<flags, thread, jobs>>

EndWait(t) ==
    /\ WaitReturns(t)
    /\ Goto(t, NextJob(t))
    /\ UNCHANGED <<flags, thread, stopping>>

EnqueueQuantum(t) ==
    /\ job[t] = "quantum"
    /\ Enqueue(t, Quantum)
    /\ loop' = Woken
    /\ Goto(t, "level_again")
    /\ UNCHANGED <<flags, value, written, prev_forever, stopping>>

(* The rest of cw_gen_stop().                                              *)
Halt(t) ==
    /\ job[t] = "halt"
    /\ do_dequeue' = FALSE
    /\ Goto(t, "check")
    /\ UNCHANGED <<vars, running, silencing, thread, stopping>>

Check(t) ==
    /\ job[t] = "check"
    /\ Goto(t, IF running THEN "kick" ELSE "none")
    /\ UNCHANGED <<vars, flags, thread, stopping>>

(* Mutant: the thread is not told that the flag has changed.               *)
KickNobody(t) ==
    /\ job[t] = "kick"
    /\ Goto(t, "join")
    /\ UNCHANGED <<vars, flags, thread, stopping>>

Kick(t) ==
    /\ job[t] = "kick"
    /\ Tell
    /\ loop' = Woken
    /\ Goto(t, "join")
    /\ UNCHANGED <<flags, value, written, prev_forever, stopping>>

Join(t) ==
    /\ job[t] = "join"
    /\ loop = "gone"
    /\ loop' = "absent"
    /\ running' = FALSE
    /\ Goto(t, "none")
    /\ UNCHANGED <<vars, do_dequeue, silencing, value, written, prev_forever, stopping>>

Calling(t) ==
    \/ Send(t) \/ Start(t) \/ JustSilence(t)
    \/ \E stops \in BOOLEAN : FlushAndSilence(t, stops)

Continuing(t) ==
    \/ Started(t) \/ BeginSilence(t) \/ BeginWait(t) \/ HasNothingToWaitFor(t) \/ GoOnWaiting(t)
    \/ EndWait(t) \/ EnqueueQuantum(t) \/ Halt(t) \/ Check(t) \/ Kick(t) \/ Join(t)

GenNext ==
    \/ ThreadStep \/ SpuriousKick
    \/ \E t \in Clients : Calling(t) \/ Continuing(t)

GenSpec == GenInit /\ [][GenNext]_genVars

(* The thread and the calls that have begun go on; no client has to call   *)
(* anything.                                                               *)
GenLiveSpec == GenSpec /\ WF_genVars(ThreadStep) /\ \A t \in Clients : WF_genVars(Continuing(t))

-----------------------------------------------------------------------------
(* The thread sleeps only while there is nothing for it to do: the queue   *)
(* is empty, and whoever has told it to end has yet to broadcast.  No      *)
(* wakeup is lost between a tone's arrival, the flag and the wait.         *)
SleepsWithReason ==
    loop = "asleep" =>
        /\ state = "EMPTY"
        /\ do_dequeue \/ \E t \in Clients : job[t] \in {"check", "kick"}

(* The generator never goes to sleep with the key reported as closed,      *)
(* however its queue was emptied: played, flushed or silenced.             *)
SleepsWithKeyOpen == loop = "asleep" => ~value

(* The thread sleeps for a reason, with its queue and its key at rest: the *)
(* wakeup, the flags and the reported value are kept in step although each *)
(* is changed under a different mutex, or none.                            *)
SleepsRightly == GenTypeOK /\ SleepsWithReason /\ SleepsWithKeyOpen

(* When a silencing returns the queue is empty, and what the thread may    *)
(* still be writing is not a tone for anybody's ears.                      *)
ReturnsFromSilence(t) == InWait(t) /\ job'[t] = AfterSilence(t)

SilenceIsSilent ==
    [][\A t \in Clients : ReturnsFromSilence(t) =>
           /\ len = 0
           /\ loop = "tell" => written = "silencing" \/ tone.payload \notin Audible]_genVars

(* No silencing outlives the call that asked for it: while no client       *)
(* silences, the flag is up only if its flush is over, so that no tone     *)
(* enqueued later is discarded.                                            *)
SilencingEndsWithTheCall ==
    (\A t \in Clients : job[t] = "none") => (silencing => loop = "clear")

(* A silencing reaches as far as its call and no further: it silences what *)
(* sounds when it returns, and nothing that is enqueued afterwards.        *)
SilencingIsSound == SilenceIsSilent /\ [][SilencingEndsWithTheCall']_genVars

(* The tone in front of a silencing flush was a silencing tone: "a last    *)
(* tone (silencing tone) has been played".                                 *)
FlushFollowsSilencingTone == loop = "flush" => written = "silencing"

(* A call that silences, flushes, stops or starts returns.                 *)
EveryCallReturns == \A t \in Clients : job[t] # "none" ~> job[t] = "none"

(* A call that does not return has been left alone with a "forever" tone:  *)
(* it waits in cw_tq_wait_for_level_internal() for a queue that is never   *)
(* going to be empty.  Nothing else holds up a stop, a flush or a start.   *)
Sustained == len > 0 /\ queue[head].is_forever /\ ~silencing
OnlySustainedCallsLast ==
    \A t \in Clients : []<>(job[t] = "none" \/ (Sustained /\ InWait(t)))
=============================================================================
