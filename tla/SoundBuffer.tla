----------------------------- MODULE SoundBuffer -----------------------------
(***************************************************************************)
(* How the generator's thread turns tones into samples (libcw_gen.c): the  *)
(* sizes of a tone and of its slopes, the amplitude of each sample, and    *)
(* the buffer that is filled part by part, over tones whose ends do not    *)
(* fall together with its own, and written to the device when it is full.  *)
(* A client may change the slopes and silence the generator.               *)
(*                                                                         *)
(* The queue is abstracted to the tones it may hand out: characters,       *)
(* spaces, and the three kinds of tone of a straight key.  The sine is     *)
(* kept as its amplitude and its phase.                                    *)
(***************************************************************************)
EXTENDS Integers, Sequences, FiniteSets

CONSTANTS
    BufferSize,     \* gen->buffer_n_samples
    SampleRate,     \* gen->sample_rate, samples in a second
    Durations,      \* of marks and spaces, in microseconds
    Quantum,        \* gen->quantum_duration
    SlopeDurations, \* that a client asks for
    Frequencies,    \* of tones, in steps of the phase for a sample
    Circle,         \* the steps of a full period
    Volume,         \* gen->volume_abs
    Careful         \* clients set slopes between tones, and no length for rectangular ones

ASSUME SoundAssumption ==
    /\ BufferSize \in Nat \ {0} /\ SampleRate \in Nat
    /\ Durations \subseteq Nat /\ Quantum \in Nat /\ SlopeDurations \subseteq Nat
    /\ Frequencies \subseteq Nat \ {0} /\ Circle \in Nat \ {0} /\ Volume \in Nat
    /\ Careful \in BOOLEAN

VARIABLES
    buffer, buffer_sub_start, buffer_sub_stop,
    tone,            \* the tone being generated, with its sizes
    prev_tone,       \* the one before
    samples_to_write,
    generating,      \* between a dequeue and the end of the loop's body
    phase_offset,
    tone_slope,      \* [shape, duration, n_amplitudes]
    reallocating,    \* cw_gen_set_tone_slope() is between its assignments and the table
    silencing_initialized,
    carrier,         \* what the straight key has in the queue
    written,         \* the buffer written last, after the last sample before it
    flushed          \* tones were discarded after one that ends at full level

sound == <<buffer, buffer_sub_start, buffer_sub_stop, samples_to_write, phase_offset, written>>
soundVars == <<sound, tone, prev_tone, generating, tone_slope, reallocating,
               silencing_initialized, carrier, flushed>>

SlopeModes == {"standard", "rising", "falling", "none"}
Silence == [level |-> 0, phase |-> 0, frequency |-> 0, index |-> 0, step |-> 0]
NoTone == [slope_mode |-> "none", frequency |-> 0, n_samples |-> 0, sample_iterator |-> 0,
           rising_slope_n_samples |-> 0, falling_slope_n_samples |-> 0, step |-> Volume]

-----------------------------------------------------------------------------
(* Sizes.                                                                  *)

Samples(duration) == ((SampleRate \div 100) * duration) \div 10000
SlopeSamples == Samples(tone_slope.duration)

(* The largest change of level from a sample to the next that slopes of    *)
(* the present length make; it is noted in tones and samples for what is   *)
(* claimed of them, the code has no counterpart of it.                     *)
Step == IF SlopeSamples = 0 \/ flushed \/ carrier = "cut" THEN Volume
        ELSE (Volume + SlopeSamples - 1) \div SlopeSamples

(* Mutant: the iterator is not reset for a new tone.                       *)
SizedToneGoesOn(slope_mode, frequency, duration) ==
    [slope_mode |-> slope_mode, frequency |-> frequency,
     n_samples |-> Samples(duration), sample_iterator |-> prev_tone.sample_iterator,
     rising_slope_n_samples |-> IF slope_mode \in {"rising", "standard"} THEN SlopeSamples ELSE 0,
     falling_slope_n_samples |-> IF slope_mode \in {"falling", "standard"} THEN SlopeSamples ELSE 0,
     step |-> Step]

SizedTone(slope_mode, frequency, duration) ==
    [slope_mode |-> slope_mode, frequency |-> frequency,
     n_samples |-> Samples(duration), sample_iterator |-> 0,
     rising_slope_n_samples |-> IF slope_mode \in {"rising", "standard"} THEN SlopeSamples ELSE 0,
     falling_slope_n_samples |-> IF slope_mode \in {"falling", "standard"} THEN SlopeSamples ELSE 0,
     step |-> Step]

(* The tone that silences: the one before, ending.  Its length is to fill  *)
(* the buffer, and five more.                                              *)
SilencingTone ==
    LET sounds == prev_tone.slope_mode \in {"none", "rising"} IN
    [prev_tone EXCEPT
        !.n_samples = BufferSize - (buffer_sub_stop + 1) + 5 * BufferSize,
        !.slope_mode = IF sounds THEN "falling" ELSE "none",
        !.frequency = IF sounds THEN @ ELSE 0,
        !.rising_slope_n_samples = 0,
        !.falling_slope_n_samples = SlopeSamples,
        !.sample_iterator = 0,
        !.step = Step]

-----------------------------------------------------------------------------
(* Samples.                                                                *)

InRisingSlope(t, i) == i < t.rising_slope_n_samples
InFallingSlope(t, i) == ~InRisingSlope(t, i) /\ i >= t.n_samples - t.falling_slope_n_samples

(* Mutant: the last sample of a tone reads the cell of a length.           *)
TableIndexFromLength(t, i) == IF InRisingSlope(t, i) THEN i ELSE t.n_samples - i

(* The cell of the table of amplitudes that a sample in a slope reads.     *)
TableIndex(t, i) == IF InRisingSlope(t, i) THEN i ELSE t.n_samples - i - 1

(* Linear slopes; the other shapes rise through the same end points.       *)
Amplitude(index) == (index * Volume) \div tone_slope.n_amplitudes

Level(t, i) ==
    IF t.frequency = 0 THEN 0
    ELSE IF InRisingSlope(t, i) \/ InFallingSlope(t, i) THEN Amplitude(TableIndex(t, i))
    ELSE Volume

(* Mutant: the part is a sample too long.                                  *)
SubareaStopPastTone ==
    IF samples_to_write >= BufferSize - buffer_sub_start THEN BufferSize - 1
    ELSE buffer_sub_start + samples_to_write

SubareaStop ==
    IF samples_to_write >= BufferSize - buffer_sub_start THEN BufferSize - 1
    ELSE buffer_sub_start + samples_to_write - 1

(* Mutant: the phase is counted from the start of the tone.                *)
SampleOfTone(i) ==
    LET t == i - buffer_sub_start
        index == tone.sample_iterator + t
    IN [level |-> Level(tone, index),
        phase |-> (tone.frequency * index + phase_offset) % Circle,
        frequency |-> tone.frequency, index |-> index, step |-> tone.step]

(* The sample for cell i of the buffer.                                    *)
Sample(i) ==
    LET t == i - buffer_sub_start
        index == tone.sample_iterator + t
    IN [level |-> Level(tone, index),
        phase |-> (tone.frequency * t + phase_offset) % Circle,
        frequency |-> tone.frequency, index |-> index, step |-> tone.step]

-----------------------------------------------------------------------------
(* The generator's thread.                                                 *)

(* The tones the queue may hand out next, and what the key has in it then: *)
(* a straight key that is closed enqueues a rising slope and a tone        *)
(* without end, and a falling slope when it is opened.  The queue takes no *)
(* tone of no length: without slopes there is only the tone without end.   *)
KeyOpened == carrier = "open" \/ (carrier \in {"held", "cut"} /\ tone_slope.duration = 0)

Dequeued(slope_mode, frequency, duration) ==
    /\ duration > 0
    /\ \/ /\ KeyOpened /\ carrier' = "open"
          /\ \/ slope_mode = "standard" /\ frequency \in Frequencies /\ duration \in Durations
             \/ slope_mode = "none" /\ frequency = 0 /\ duration \in Durations \cup {Quantum}
       \/ /\ KeyOpened /\ carrier' = "rising"
          /\ slope_mode = "rising" /\ frequency \in Frequencies /\ duration = tone_slope.duration
       \/ /\ KeyOpened /\ tone_slope.duration = 0 /\ carrier' = "held"
          /\ slope_mode = "none" /\ frequency \in Frequencies /\ duration = Quantum
       \/ /\ carrier \in {"rising", "held"} /\ carrier' = "held"
          /\ slope_mode = "none" /\ frequency = prev_tone.frequency /\ duration = Quantum
       \/ /\ carrier = "cut" /\ UNCHANGED carrier
          /\ slope_mode = "none" /\ frequency = 0 /\ duration = Quantum
       \/ /\ carrier \in {"held", "cut"} /\ carrier' = "open"
          /\ slope_mode = "falling" /\ frequency \in Frequencies /\ duration = tone_slope.duration

DequeueTone ==
    /\ ~generating /\ (Careful => ~reallocating)
    /\ \E slope_mode \in SlopeModes, frequency \in Frequencies \cup {0},
          duration \in Durations \cup {Quantum, tone_slope.duration} :
          /\ Dequeued(slope_mode, frequency, duration)
          /\ tone' = IF silencing_initialized THEN SilencingTone
                     ELSE SizedTone(slope_mode, frequency, duration)
    /\ samples_to_write' = tone'.n_samples
    /\ flushed' = FALSE
    /\ generating' = TRUE
    /\ UNCHANGED <<buffer, buffer_sub_start, buffer_sub_stop, phase_offset, written, prev_tone,
                   tone_slope, reallocating, silencing_initialized>>

(* One round of the loop that writes a tone: a part of the buffer is       *)
(* calculated, and the buffer is written when that part reaches its end.   *)
WriteSubarea ==
    LET count == SubareaStop - buffer_sub_start + 1
        filled == [i \in 0..BufferSize-1 |->
                      IF i \in buffer_sub_start..SubareaStop THEN Sample(i) ELSE buffer[i]]
    IN
    /\ generating /\ samples_to_write > 0
    /\ buffer' = filled
    /\ phase_offset' = (tone.frequency * count + phase_offset) % Circle
    /\ tone' = [tone EXCEPT !.sample_iterator = @ + count]
    /\ IF SubareaStop = BufferSize - 1
       THEN /\ written' = [before |-> written.cells[BufferSize - 1], cells |-> filled]
            /\ buffer_sub_start' = 0
            /\ buffer_sub_stop' = 0
       ELSE /\ buffer_sub_start' = SubareaStop + 1
            /\ buffer_sub_stop' = SubareaStop
            /\ UNCHANGED written
    /\ samples_to_write' = samples_to_write - count
    /\ UNCHANGED <<prev_tone, generating, tone_slope, reallocating, silencing_initialized,
                   carrier, flushed>>

(* The end of the body of the loop.  A request to be silent is answered by *)
(* a flush, also one that came after the tone was calculated; a key that   *)
(* has tones in the queue loses them, perhaps with its falling slope.      *)
EndTone ==
    /\ generating /\ samples_to_write = 0
    /\ generating' = FALSE
    /\ prev_tone' = tone
    /\ silencing_initialized' = FALSE
    /\ IF silencing_initialized /\ carrier # "open" THEN carrier' \in {"cut", "open"}
       ELSE UNCHANGED carrier
    /\ flushed' = (silencing_initialized /\ tone.frequency # 0 /\ tone.slope_mode \in {"rising", "none"})
    /\ UNCHANGED <<sound, tone, tone_slope, reallocating>>

-----------------------------------------------------------------------------
(* Clients.                                                                *)

SilenceGenerator ==
    /\ ~silencing_initialized
    /\ silencing_initialized' = TRUE
    /\ UNCHANGED <<sound, tone, prev_tone, generating, tone_slope, reallocating, carrier, flushed>>

(* -1 for a parameter that is not to be changed.                          *)
Unset == -1

(* cw_gen_set_tone_slope() up to its assignments...                        *)
SetToneSlope(shape, duration) ==
    /\ ~reallocating /\ (Careful => ~generating)
    /\ ~(shape = "rectangular" /\ duration \notin {Unset, 0})
    /\ (Careful /\ shape = "unset" /\ tone_slope.shape = "rectangular") => duration \in {Unset, 0}
    /\ tone_slope' = [tone_slope EXCEPT
           !.shape = IF shape = "unset" THEN @ ELSE shape,
           !.duration = IF shape = "rectangular" THEN 0
                        ELSE IF duration = Unset THEN @ ELSE duration]
    /\ reallocating' = TRUE
    /\ UNCHANGED <<sound, tone, prev_tone, generating, silencing_initialized, carrier, flushed>>

(* ... and from there: the table gets its size, and its values.            *)
Reallocate ==
    /\ reallocating
    /\ tone_slope' = [tone_slope EXCEPT !.n_amplitudes = SlopeSamples]
    /\ reallocating' = FALSE
    /\ UNCHANGED <<sound, tone, prev_tone, generating, silencing_initialized, carrier, flushed>>

-----------------------------------------------------------------------------
SoundInit ==
    /\ buffer = [i \in 0..BufferSize-1 |-> Silence]
    /\ buffer_sub_start = 0 /\ buffer_sub_stop = 0
    /\ tone = NoTone /\ prev_tone = NoTone
    /\ samples_to_write = 0 /\ generating = FALSE
    /\ phase_offset = 0
    /\ \E duration \in SlopeDurations :
          tone_slope = [shape |-> "linear", duration |-> duration, n_amplitudes |-> Samples(duration)]
    /\ reallocating = FALSE /\ silencing_initialized = FALSE
    /\ carrier = "open" /\ flushed = FALSE
    /\ written = [before |-> Silence, cells |-> [i \in 0..BufferSize-1 |-> Silence]]

SetSlope ==
    \E shape \in {"linear", "rectangular", "unset"}, duration \in SlopeDurations \cup {0, Unset} :
        SetToneSlope(shape, duration)

SoundNext == DequeueTone \/ WriteSubarea \/ EndTone \/ SilenceGenerator \/ SetSlope \/ Reallocate

SoundSpec == SoundInit /\ [][SoundNext]_soundVars

-----------------------------------------------------------------------------
(* Types, and the cursors: a part never ends beyond the buffer, and what   *)
(* is left of a tone is what its iterator has not passed.                  *)
Sounds == [level : 0..Volume, phase : 0..Circle-1, frequency : Frequencies \cup {0},
           index : Nat, step : 0..Volume]

SoundTypeOK ==
    /\ buffer \in [0..BufferSize-1 -> Sounds] /\ written.cells \in [0..BufferSize-1 -> Sounds]
    /\ buffer_sub_start \in 0..BufferSize-1 /\ buffer_sub_stop \in 0..BufferSize-1
    /\ tone.slope_mode \in SlopeModes /\ carrier \in {"open", "rising", "held", "cut"}
    /\ tone.frequency \in Frequencies \cup {0}
    /\ samples_to_write \in Nat
    /\ samples_to_write = tone.n_samples - tone.sample_iterator

(* The amplitudes that the next round of the loop reads are in the table:  *)
(* the sizes of slopes are calculated for each tone, from the parameters   *)
(* and not from the table that was allocated for them.                     *)
TableCoversSlopes ==
    generating /\ tone.frequency # 0 =>
        \A i \in tone.sample_iterator .. tone.n_samples - 1 :
            InRisingSlope(tone, i) \/ InFallingSlope(tone, i) =>
                TableIndex(tone, i) \in 0 .. tone_slope.n_amplitudes - 1

(* From a sample to the next one that reaches the device, over the ends of *)
(* parts, buffers and tones, the level changes by no more than a slope     *)
(* makes it, and the phase by what the frequency of the tone asks for.     *)
Distance(a, b) == IF a < b THEN b - a ELSE a - b

SoundIsContinuous ==
    \A i \in 0..BufferSize-1 :
        LET this == written.cells[i]
            last == IF i = 0 THEN written.before ELSE written.cells[i - 1]
            steps == {this.step, last.step}
        IN /\ \E step \in steps : Distance(this.level, last.level) <= step
           /\ (this.phase - last.phase) % Circle = last.frequency

(* What that asks of sizes: no tone is shorter than its slopes, none is of *)
(* no sample, and the tone that silences ends within the buffers it fills. *)
SizesAreFit ==
    /\ \A d \in Durations \cup {Quantum} : Samples(d) > 0
    /\ \A d \in Durations, s \in SlopeDurations : Samples(d) >= 2 * Samples(s)
    /\ \A s \in SlopeDurations \ {0} : Samples(s) > 0
    /\ \A s \in SlopeDurations : Samples(s) < 5 * BufferSize
    /\ Frequencies \subseteq 1..Circle-1

(* The buffer hands out the samples of all tones, in order, each once.     *)
Kept == [i \in 1..buffer_sub_start |-> buffer[i - 1].index]
Block == [i \in 1..BufferSize |-> written.cells[i - 1].index]

Stream == INSTANCE SampleStream WITH length <- tone.n_samples, position <- tone.sample_iterator,
                                     kept <- Kept, block <- Block
SamplesAreStreamed == Stream!StreamSpec

(* What reaches the sink is the sequence of the tones' samples, each once  *)
(* and whole however tones and buffers meet, and it makes no clicks.       *)
SoundIsStreamed == SamplesAreStreamed /\ [](SoundTypeOK /\ SoundIsContinuous)

(* After a silencing tone no sample of it waits in the buffer: what the    *)
(* comment in cw_gen_silencing_tone_calculate_samples_size_internal() says *)
(* ("make sure that we fill a buffer to the end").                         *)
SilencingFillsBuffer ==
    [][EndTone /\ silencing_initialized /\ tone.n_samples >= 5 * BufferSize
       => buffer_sub_start = 0]_soundVars

(* Slopes that are rectangular have no length, as the comment of           *)
(* cw_generator_set_tone_slope() says ("You just can't have...").          *)
RectangularHasNoLength == tone_slope.shape = "rectangular" => tone_slope.duration = 0
=============================================================================
