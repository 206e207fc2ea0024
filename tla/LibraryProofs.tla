----------------------------- MODULE LibraryProofs -----------------------------
(***************************************************************************)
(* Theorems about the parts of the library that share no state: the        *)
(* cursors of the sound buffer and the reads of the table of amplitudes    *)
(* stay within bounds, and what it makes of tones is a stream of samples   *)
(* that has no clicks; timestamps are told apart as they should be; keys   *)
(* and generators know of each other; the statistics of a receiver are     *)
(* those of its latest marks and spaces; what is keyed arrives through the *)
(* legacy interface; the tables of characters answer alike; and generators *)
(* give back the libraries of sound systems that they have loaded; and no  *)
(* alarm is lost or left behind.                                           *)
(***************************************************************************)
EXTENDS SoundBuffer, Timestamps, Objects, ReceiverStatistics, LegacyReceiver, DataTables, SoundSinks,
        Alarms, FiniteSetTheorems, FoldTheorems

(***************************************************************************)
(* The sound buffer: for every size of it, sample rate, duration and slope. *)
(***************************************************************************)

Tones == [slope_mode : SlopeModes, frequency : Frequencies \cup {0}, n_samples : Nat,
          sample_iterator : Nat, rising_slope_n_samples : Nat, falling_slope_n_samples : Nat,
          step : Int]

(* The cursors are in the buffer, and the tone has as many samples left as *)
(* are to be written.                                                      *)
CursorsInBounds ==
    /\ buffer_sub_start \in 0..BufferSize-1
    /\ buffer_sub_stop \in 0..BufferSize-1
    /\ samples_to_write \in Nat
    /\ samples_to_write = tone.n_samples - tone.sample_iterator

TypesOfTones ==
    /\ tone \in Tones /\ prev_tone \in Tones
    /\ tone_slope \in [shape : {"linear", "rectangular"}, duration : Nat, n_amplitudes : Nat]
    /\ generating \in BOOLEAN /\ reallocating \in BOOLEAN

(* While a tone is being written its slopes are as long as the table.      *)
SlopesFitTable ==
    Careful =>
        /\ ~reallocating => tone_slope.n_amplitudes = SlopeSamples
        /\ generating => /\ ~reallocating
                         /\ tone.rising_slope_n_samples \in {0, tone_slope.n_amplitudes}
                         /\ tone.falling_slope_n_samples \in {0, tone_slope.n_amplitudes}

SoundInv == CursorsInBounds /\ TypesOfTones /\ SlopesFitTable

-----------------------------------------------------------------------------
LEMMA SamplesAreNatural ==
    ASSUME NEW duration \in Nat
    PROVE  Samples(duration) \in Nat
<1>1. SampleRate \div 100 \in Nat
    BY SoundAssumption
<1>2. (SampleRate \div 100) * duration \in Nat
    BY <1>1
<1>. DEFINE x == (SampleRate \div 100) * duration
<1>3. ASSUME NEW y \in Nat PROVE y \div 10000 \in Nat
    OBVIOUS
<1>4. x \div 10000 \in Nat
    BY <1>2, <1>3
<1> QED
    BY <1>4 DEF Samples

(* What the invariant says of slopes is what the table has to cover.       *)
LEMMA FittingSlopesAreCovered ==
    ASSUME SoundInv, Careful
    PROVE  TableCoversSlopes
<1> SUFFICES ASSUME generating, NEW i \in tone.sample_iterator .. tone.n_samples - 1,
                    InRisingSlope(tone, i) \/ InFallingSlope(tone, i)
             PROVE  TableIndex(tone, i) \in 0 .. tone_slope.n_amplitudes - 1
    BY DEF TableCoversSlopes
<1>1. /\ tone.n_samples \in Nat /\ tone.sample_iterator \in Nat
      /\ tone_slope.n_amplitudes \in Nat
      /\ tone.rising_slope_n_samples \in {0, tone_slope.n_amplitudes}
      /\ tone.falling_slope_n_samples \in {0, tone_slope.n_amplitudes}
    BY DEF SoundInv, TypesOfTones, SlopesFitTable, Tones
<1>2. CASE InRisingSlope(tone, i)
    BY <1>1, <1>2 DEF InRisingSlope, TableIndex
<1>3. CASE ~InRisingSlope(tone, i) /\ InFallingSlope(tone, i)
    BY <1>1, <1>3 DEF InFallingSlope, TableIndex
<1> QED
    BY <1>2, <1>3

LEMMA InitEstablishesSoundInv == SoundInit => SoundInv
<1> SUFFICES ASSUME SoundInit PROVE SoundInv
    OBVIOUS
<1>1. PICK duration \in SlopeDurations :
          tone_slope = [shape |-> "linear", duration |-> duration, n_amplitudes |-> Samples(duration)]
    BY DEF SoundInit
<1>2. duration \in Nat /\ Samples(duration) \in Nat
    BY SamplesAreNatural, SoundAssumption
<1>3. NoTone \in [slope_mode : SlopeModes, frequency : Frequencies \cup {0}, n_samples : Nat,
          sample_iterator : Nat, rising_slope_n_samples : Nat, falling_slope_n_samples : Nat,
          step : Int]
    BY SoundAssumption DEF NoTone, SlopeModes
<1>4. CursorsInBounds
    BY SoundAssumption DEF SoundInit, CursorsInBounds, NoTone
<1>5. TypesOfTones
  <2>1. tone_slope \in [shape : {"linear", "rectangular"}, duration : Nat, n_amplitudes : Nat]
    BY <1>1, <1>2
  <2>2. tone = NoTone /\ prev_tone = NoTone /\ generating = FALSE /\ reallocating = FALSE
    BY DEF SoundInit
  <2> QED
    BY <1>3, <2>1, <2>2 DEF TypesOfTones, Tones
<1>6. SlopesFitTable
    BY <1>1 DEF SoundInit, SlopesFitTable, SlopeSamples
<1> QED
    BY <1>4, <1>5, <1>6 DEF SoundInv

LEMMA SizedTonesAreTones ==
    ASSUME SoundInv, NEW slope_mode \in SlopeModes, NEW frequency \in Frequencies \cup {0},
           NEW duration \in Nat
    PROVE  /\ SizedTone(slope_mode, frequency, duration) \in Tones
           /\ SizedTone(slope_mode, frequency, duration).sample_iterator = 0
           /\ SizedTone(slope_mode, frequency, duration).rising_slope_n_samples \in {0, SlopeSamples}
           /\ SizedTone(slope_mode, frequency, duration).falling_slope_n_samples \in {0, SlopeSamples}
<1>1. tone_slope.duration \in Nat
    BY DEF SoundInv, TypesOfTones
<1>2. SlopeSamples \in Nat /\ Samples(duration) \in Nat
    BY <1>1, SamplesAreNatural DEF SlopeSamples
<1>3. Step \in Int
    BY <1>2, SoundAssumption DEF Step
<1> QED
    BY <1>2, <1>3 DEF SizedTone, Tones

LEMMA SilencingTonesAreTones ==
    ASSUME SoundInv
    PROVE  /\ SilencingTone \in Tones
           /\ SilencingTone.sample_iterator = 0
           /\ SilencingTone.rising_slope_n_samples = 0
           /\ SilencingTone.falling_slope_n_samples = SlopeSamples
<1>1. tone_slope.duration \in Nat /\ prev_tone \in Tones /\ buffer_sub_stop \in 0..BufferSize-1
    BY DEF SoundInv, TypesOfTones, CursorsInBounds
<1>2. SlopeSamples \in Nat
    BY <1>1, SamplesAreNatural DEF SlopeSamples
<1>3. Step \in Int
    BY <1>2, SoundAssumption DEF Step
<1>4. BufferSize - (buffer_sub_stop + 1) + 5 * BufferSize \in Nat
    BY <1>1, SoundAssumption
<1> QED
    BY <1>1, <1>2, <1>3, <1>4 DEF SilencingTone, Tones, SlopeModes

-----------------------------------------------------------------------------
LEMMA DequeueToneKeepsSoundInv == SoundInv /\ DequeueTone => SoundInv'
<1> SUFFICES ASSUME SoundInv, DequeueTone PROVE SoundInv'
    OBVIOUS
<1>1. PICK slope_mode \in SlopeModes, frequency \in Frequencies \cup {0},
           duration \in Durations \cup {Quantum, tone_slope.duration} :
          tone' = IF silencing_initialized THEN SilencingTone
                  ELSE SizedTone(slope_mode, frequency, duration)
    BY DEF DequeueTone
<1>2. duration \in Nat
    BY SoundAssumption DEF SoundInv, TypesOfTones
<1>3. /\ tone' \in Tones /\ tone'.sample_iterator = 0
      /\ tone'.rising_slope_n_samples \in {0, SlopeSamples}
      /\ tone'.falling_slope_n_samples \in {0, SlopeSamples}
    BY <1>1, <1>2, SizedTonesAreTones, SilencingTonesAreTones
<1>4. CursorsInBounds'
    BY <1>3 DEF DequeueTone, SoundInv, CursorsInBounds, Tones
<1>5. TypesOfTones'
    BY <1>3 DEF DequeueTone, SoundInv, TypesOfTones, Tones
<1>6. SlopesFitTable'
    BY <1>3 DEF DequeueTone, SoundInv, SlopesFitTable, SlopeSamples, Samples
<1> QED
    BY <1>4, <1>5, <1>6 DEF SoundInv

LEMMA WriteSubareaKeepsSoundInv == SoundInv /\ WriteSubarea => SoundInv'
<1> SUFFICES ASSUME SoundInv, WriteSubarea PROVE SoundInv'
    OBVIOUS
<1> DEFINE count == SubareaStop - buffer_sub_start + 1
<1>1. /\ buffer_sub_start \in 0..BufferSize-1 /\ samples_to_write \in Nat /\ samples_to_write > 0
      /\ samples_to_write = tone.n_samples - tone.sample_iterator /\ tone \in Tones
    BY DEF SoundInv, CursorsInBounds, TypesOfTones, WriteSubarea
<1>2. /\ SubareaStop \in buffer_sub_start..BufferSize-1
      /\ count \in 1..samples_to_write
    BY <1>1, SoundAssumption DEF SubareaStop
<1>3. /\ tone' = [tone EXCEPT !.sample_iterator = @ + count]
      /\ samples_to_write' = samples_to_write - count
    BY DEF WriteSubarea
<1>4. /\ tone' \in Tones
      /\ tone'.sample_iterator = tone.sample_iterator + count
      /\ tone'.n_samples = tone.n_samples
      /\ tone'.rising_slope_n_samples = tone.rising_slope_n_samples
      /\ tone'.falling_slope_n_samples = tone.falling_slope_n_samples
    BY <1>1, <1>2, <1>3 DEF Tones
<1>5. /\ buffer_sub_start' \in 0..BufferSize-1
      /\ buffer_sub_stop' \in 0..BufferSize-1
  <2>1. CASE SubareaStop = BufferSize - 1
    BY <2>1, SoundAssumption DEF WriteSubarea
  <2>2. CASE SubareaStop # BufferSize - 1
    <3>1. buffer_sub_start' = SubareaStop + 1 /\ buffer_sub_stop' = SubareaStop
        BY <2>2 DEF WriteSubarea
    <3> QED
        BY <1>1, <1>2, <2>2, <3>1, SoundAssumption
  <2> QED
    BY <2>1, <2>2
<1>6. CursorsInBounds'
  <2>1. samples_to_write' \in Nat
    BY <1>1, <1>2, <1>3
  <2>2. samples_to_write' = tone'.n_samples - tone'.sample_iterator
    BY <1>1, <1>2, <1>3, <1>4 DEF Tones
  <2> QED
    BY <1>5, <2>1, <2>2 DEF CursorsInBounds
<1>7. TypesOfTones'
    BY <1>4 DEF WriteSubarea, SoundInv, TypesOfTones, Tones
<1>8. SlopesFitTable'
    BY <1>4 DEF WriteSubarea, SoundInv, SlopesFitTable, SlopeSamples, Samples
<1> QED
    BY <1>6, <1>7, <1>8 DEF SoundInv

LEMMA SetSlopeKeepsSoundInv == SoundInv /\ SetSlope => SoundInv'
<1> SUFFICES ASSUME SoundInv,
                    NEW shape \in {"linear", "rectangular", "unset"},
                    NEW duration \in SlopeDurations \cup {0, Unset},
                    SetToneSlope(shape, duration)
             PROVE  SoundInv'
    BY DEF SetSlope
<1>1. tone_slope' \in [shape : {"linear", "rectangular"}, duration : Nat, n_amplitudes : Nat]
  <2>1. tone_slope \in [shape : {"linear", "rectangular"}, duration : Nat, n_amplitudes : Nat]
    BY DEF SoundInv, TypesOfTones
  <2>2. tone_slope' = [tone_slope EXCEPT
            !.shape = IF shape = "unset" THEN @ ELSE shape,
            !.duration = IF shape = "rectangular" THEN 0
                         ELSE IF duration = Unset THEN @ ELSE duration]
    BY DEF SetToneSlope
  <2>3. duration \in Nat \/ duration = Unset
    BY SoundAssumption
  <2>4. /\ (IF shape = "unset" THEN tone_slope.shape ELSE shape) \in {"linear", "rectangular"}
        /\ (IF shape = "rectangular" THEN 0
            ELSE IF duration = Unset THEN tone_slope.duration ELSE duration) \in Nat
    BY <2>1, <2>3
  <2> QED
    BY <2>1, <2>2, <2>4
<1>2. CursorsInBounds'
    BY DEF SetToneSlope, SoundInv, CursorsInBounds, sound
<1>3. TypesOfTones'
    BY <1>1 DEF SetToneSlope, SoundInv, TypesOfTones, Tones
<1>4. SlopesFitTable'
    BY DEF SetToneSlope, SoundInv, SlopesFitTable, TypesOfTones
<1> QED
    BY <1>2, <1>3, <1>4 DEF SoundInv

LEMMA ReallocateKeepsSoundInv == SoundInv /\ Reallocate => SoundInv'
<1> SUFFICES ASSUME SoundInv, Reallocate PROVE SoundInv'
    OBVIOUS
<1>1. tone_slope \in [shape : {"linear", "rectangular"}, duration : Nat, n_amplitudes : Nat]
    BY DEF SoundInv, TypesOfTones
<1>2. SlopeSamples \in Nat
    BY <1>1, SamplesAreNatural DEF SlopeSamples
<1>3. /\ tone_slope' \in [shape : {"linear", "rectangular"}, duration : Nat, n_amplitudes : Nat]
      /\ tone_slope'.duration = tone_slope.duration
      /\ tone_slope'.n_amplitudes = SlopeSamples
    BY <1>1, <1>2 DEF Reallocate
<1>4. CursorsInBounds'
    BY DEF Reallocate, SoundInv, CursorsInBounds, sound
<1>5. TypesOfTones'
    BY <1>3 DEF Reallocate, SoundInv, TypesOfTones, Tones
<1>6. SlopesFitTable'
    BY <1>3 DEF Reallocate, SoundInv, SlopesFitTable, SlopeSamples, Samples
<1> QED
    BY <1>4, <1>5, <1>6 DEF SoundInv

LEMMA StepKeepsSoundInv == SoundInv /\ [SoundNext]_soundVars => SoundInv'
<1> SUFFICES ASSUME SoundInv, [SoundNext]_soundVars PROVE SoundInv'
    OBVIOUS
<1>1. CASE EndTone
  <2>1. CursorsInBounds'
    BY <1>1 DEF EndTone, SoundInv, CursorsInBounds, sound
  <2>2. TypesOfTones'
    BY <1>1 DEF EndTone, SoundInv, TypesOfTones, Tones
  <2>3. SlopesFitTable'
    BY <1>1 DEF EndTone, SoundInv, SlopesFitTable, SlopeSamples, Samples
  <2> QED
    BY <2>1, <2>2, <2>3 DEF SoundInv
<1>2. CASE SilenceGenerator \/ UNCHANGED soundVars
    BY <1>2 DEF SilenceGenerator, SoundInv, CursorsInBounds, TypesOfTones, SlopesFitTable,
                SlopeSamples, Samples, Tones, sound, soundVars
<1> QED
    BY <1>1, <1>2, DequeueToneKeepsSoundInv, WriteSubareaKeepsSoundInv, SetSlopeKeepsSoundInv,
       ReallocateKeepsSoundInv DEF SoundNext

-----------------------------------------------------------------------------
(* Whatever tones come, the parts of the buffer stay within it, and a tone *)
(* has as many samples left as the loop that writes it still counts.       *)
THEOREM CursorsStayInBounds == SoundSpec => []CursorsInBounds
<1>1. SoundInv => CursorsInBounds
    BY DEF SoundInv
<1> QED
    BY <1>1, InitEstablishesSoundInv, StepKeepsSoundInv, PTL DEF SoundSpec

(* With clients that set slopes between tones only, no sample reads beyond *)
(* the table of amplitudes, whatever the sample rate, the slopes and the   *)
(* length of tones, shorter than their slopes included.                    *)
THEOREM TableAlwaysCoversSlopes == Careful /\ SoundSpec => []TableCoversSlopes
<1> SUFFICES ASSUME Careful PROVE SoundSpec => []TableCoversSlopes
    OBVIOUS
<1>1. SoundInv => TableCoversSlopes
    BY FittingSlopesAreCovered
<1> QED
    BY <1>1, InitEstablishesSoundInv, StepKeepsSoundInv, PTL DEF SoundSpec

-----------------------------------------------------------------------------
(* Samples of tones reach the device in their order.                       *)
(* Between tones nothing is left of the last one.                          *)
StreamInv == SoundInv /\ (~generating => samples_to_write = 0)

LEMMA StreamInvHolds ==
    /\ SoundInit => StreamInv
    /\ StreamInv /\ [SoundNext]_soundVars => StreamInv'
<1>1. SoundInit => StreamInv
    BY InitEstablishesSoundInv DEF StreamInv, SoundInit
<1>2. ASSUME StreamInv, [SoundNext]_soundVars PROVE StreamInv'
  <2>1. SoundInv'
    BY <1>2, StepKeepsSoundInv DEF StreamInv
  <2>2. ASSUME ~generating' PROVE samples_to_write' = 0
    <3>1. CASE DequeueTone \/ WriteSubarea
        BY <2>2, <3>1 DEF DequeueTone, WriteSubarea
    <3>2. CASE EndTone
        BY <3>2 DEF EndTone, sound
    <3>3. CASE SilenceGenerator \/ SetSlope \/ Reallocate \/ UNCHANGED soundVars
        BY <1>2, <2>2, <3>3 DEF SilenceGenerator, SetSlope, SetToneSlope, Reallocate, sound, soundVars, StreamInv
    <3> QED
        BY <1>2, <3>1, <3>2, <3>3 DEF SoundNext
  <2> QED
    BY <2>1, <2>2 DEF StreamInv
<1> QED
    BY <1>1, <1>2

LEMMA ConcatenationByIndex ==
    ASSUME NEW S, NEW s \in Seq(S), NEW t \in Seq(S)
    PROVE  s \o t = [i \in 1..Len(s)+Len(t) |-> IF i <= Len(s) THEN s[i] ELSE t[i - Len(s)]]
<1> DEFINE r == s \o t
<1>1. /\ r \in Seq(S) /\ Len(r) = Len(s) + Len(t)
      /\ \A i \in 1..Len(s)+Len(t) : r[i] = IF i <= Len(s) THEN s[i] ELSE t[i - Len(s)]
    OBVIOUS
<1> HIDE DEF r
<1>2. r = [i \in 1..Len(r) |-> r[i]]
    BY <1>1
<1>3. r = [i \in 1..Len(s)+Len(t) |-> IF i <= Len(s) THEN s[i] ELSE t[i - Len(s)]]
    BY <1>1, <1>2
<1> QED
    BY <1>3 DEF r

LEMMA InitStreams == SoundInit => Stream!StreamInit
<1> SUFFICES ASSUME SoundInit PROVE Stream!StreamInit
    OBVIOUS
<1>1. tone.n_samples = 0 /\ tone.sample_iterator = 0
    BY DEF SoundInit, NoTone
<1>2. Kept = <<>>
    BY DEF SoundInit, Kept
<1>3. Block = [i \in 1..BufferSize |-> 0]
  <2>1. \A i \in 1..BufferSize : i - 1 \in 0..BufferSize-1
    BY SoundAssumption
  <2> QED
    BY <2>1 DEF SoundInit, Block, Silence
<1> QED
    BY <1>1, <1>2, <1>3 DEF Stream!StreamInit

LEMMA DequeueStreams == StreamInv /\ DequeueTone => Stream!Begin
<1> SUFFICES ASSUME StreamInv, DequeueTone PROVE Stream!Begin
    OBVIOUS
<1>1. tone.sample_iterator = tone.n_samples
    BY DEF StreamInv, SoundInv, CursorsInBounds, TypesOfTones, Tones, DequeueTone
<1>2. PICK slope_mode \in SlopeModes, frequency \in Frequencies \cup {0},
           duration \in Durations \cup {Quantum, tone_slope.duration} :
          tone' = IF silencing_initialized THEN SilencingTone
                  ELSE SizedTone(slope_mode, frequency, duration)
    BY DEF DequeueTone
<1>3. duration \in Nat
    BY SoundAssumption DEF StreamInv, SoundInv, TypesOfTones
<1>4. tone' \in Tones /\ tone'.sample_iterator = 0
    BY <1>2, <1>3, SizedTonesAreTones, SilencingTonesAreTones DEF StreamInv
<1>5. tone'.n_samples \in Nat
    BY <1>4 DEF Tones
<1>6. Kept' = Kept /\ Block' = Block
    BY DEF DequeueTone, Kept, Block
<1> QED
    BY <1>1, <1>4, <1>5, <1>6 DEF Stream!Begin

(* The part that is filled goes on where the buffer has been filled up to. *)
LEMMA SubareaStreams ==
    ASSUME StreamInv, WriteSubarea
    PROVE  LET count == SubareaStop - buffer_sub_start + 1
           IN  count \in 1..BufferSize /\ tone.sample_iterator + count <= tone.n_samples /\ Stream!Move(count)
<1> DEFINE count == SubareaStop - buffer_sub_start + 1
           s == buffer_sub_start
           p == tone.sample_iterator
           samples == Kept \o [i \in 1..count |-> p + i - 1]
<1>1. /\ s \in 0..BufferSize-1 /\ samples_to_write \in Nat /\ samples_to_write > 0
      /\ samples_to_write = tone.n_samples - p /\ tone \in Tones
    BY DEF StreamInv, SoundInv, CursorsInBounds, TypesOfTones, WriteSubarea
<1>2. p \in Nat /\ tone.n_samples \in Nat /\ BufferSize \in Nat /\ BufferSize > 0
    BY <1>1, SoundAssumption DEF Tones
<1>3. /\ SubareaStop \in s..BufferSize-1
      /\ count \in 1..samples_to_write /\ count \in 1..BufferSize
    BY <1>1, <1>2 DEF SubareaStop
<1>3a. s \in Nat /\ count \in Nat /\ s + count = SubareaStop + 1
    BY <1>1, <1>2, <1>3
<1>4. p + count <= tone.n_samples
    BY <1>1, <1>2, <1>3
<1>5. /\ tone'.sample_iterator = p + count /\ tone'.n_samples = tone.n_samples
    BY <1>1 DEF WriteSubarea, Tones
<1> DEFINE value(i) == IF i <= s THEN buffer[i - 1].index ELSE p + (i - s) - 1
<1>6. samples = [i \in 1..s+count |-> value(i)]
  <2> DEFINE all == {buffer[i - 1].index : i \in 1..s}
             more == [i \in 1..count |-> p + i - 1]
  <2>1. Kept = [i \in 1..s |-> buffer[i - 1].index]
    BY DEF Kept
  <2>2. \A i \in 1..s : buffer[i - 1].index \in all
    OBVIOUS
  <2> HIDE DEF all, count
  <2>3. Kept \in Seq(all \cup Nat) /\ Len(Kept) = s
    BY <1>1, <2>1, <2>2
  <2>4. more \in Seq(all \cup Nat) /\ Len(more) = count
    BY <1>2, <1>3
  <2>5. \A i \in 1..s : Kept[i] = buffer[i - 1].index
    BY <2>1
  <2>6. \A i \in 1..count : more[i] = p + i - 1
    OBVIOUS
  <2> HIDE DEF more, s, p
  <2>7. Kept \o more = [i \in 1..s+count |-> IF i <= s THEN Kept[i] ELSE more[i - s]]
    <3>1. Kept \o more = [i \in 1..Len(Kept)+Len(more) |->
                              IF i <= Len(Kept) THEN Kept[i] ELSE more[i - Len(Kept)]]
        BY <2>3, <2>4, ConcatenationByIndex
    <3> QED
        BY <2>3, <2>4, <3>1, Zenon
  <2>8. \A i \in 1..s+count : (IF i <= s THEN Kept[i] ELSE more[i - s]) = value(i)
    <3> TAKE i \in 1..s+count
    <3>1. CASE i <= s
        <4>1. i \in 1..s
            BY <1>1, <1>3, <3>1
        <4> QED
            BY <2>5, <3>1, <4>1 DEF s
    <3>2. CASE ~(i <= s)
        <4>1. i - s \in 1..count
            BY <1>1, <1>3, <3>2
        <4> QED
            BY <2>6, <3>2, <4>1 DEF s, p
    <3> QED
        BY <3>1, <3>2
  <2> HIDE DEF value
  <2>9. Kept \o more = [i \in 1..s+count |-> value(i)]
    BY <2>7, <2>8
  <2> QED
    BY <2>9 DEF more
<1>7. Len(samples) = s + count
  <2> HIDE DEF samples, s, count, value
  <2> QED
    BY <1>1, <1>3, <1>6
<1>8. buffer' = [i \in 0..BufferSize-1 |-> IF i \in s..SubareaStop THEN Sample(i) ELSE buffer[i]]
    BY DEF WriteSubarea
(* Up to the end of the part the buffer has these samples.                 *)
<1>9. \A i \in 1..s+count : i - 1 \in 0..BufferSize-1 /\ buffer'[i - 1].index = value(i)
  <2> TAKE i \in 1..s+count
  <2>1. i \in Nat /\ i - 1 \in 0..BufferSize-1 /\ i - 1 <= SubareaStop
    <3>1. i \in 1..SubareaStop+1
        BY <1>3a
    <3> QED
        BY <1>1, <1>2, <1>3, <3>1
  <2>2. CASE i <= s
    <3>1. i - 1 \notin s..SubareaStop
        BY <1>1, <2>1, <2>2
    <3> QED
        BY <1>8, <2>1, <2>2, <3>1
  <2>3. CASE ~(i <= s)
    <3>1. i - 1 \in s..SubareaStop
        BY <1>1, <1>3, <2>1, <2>3
    <3>2. buffer'[i - 1] = Sample(i - 1)
        BY <1>8, <2>1, <3>1
    <3>3. Sample(i - 1).index = p + (i - 1 - s)
        BY DEF Sample
    <3>4. p + (i - 1 - s) = p + (i - s) - 1
        BY <1>1, <1>2, <2>1
    <3> QED
        BY <2>1, <2>3, <3>2, <3>3, <3>4
  <2> QED
    BY <2>2, <2>3
<1>10. CASE SubareaStop = BufferSize - 1
  <2>1. s + count = BufferSize
    BY <1>1, <1>2, <1>10
  <2>2. buffer_sub_start' = 0 /\ written'.cells = buffer'
    BY <1>10 DEF WriteSubarea
  <2>3. Kept' = <<>>
    BY <2>2 DEF Kept
  <2>4. Block' = [i \in 1..BufferSize |-> buffer'[i - 1].index]
    BY <2>2 DEF Block
  <2> HIDE DEF s, count, value, samples
  <2>5. Block' = samples
    BY <1>6, <1>9, <2>1, <2>4
  <2>6. Len(samples) = BufferSize
    BY <1>7, <2>1
  <2>7. Stream!Move(count)
    BY <1>5, <2>3, <2>5, <2>6 DEF Stream!Move, samples, p
  <2> QED
    BY <1>3, <1>4, <2>7 DEF count, p
<1>11. CASE SubareaStop # BufferSize - 1
  <2>1. s + count < BufferSize /\ s + count = SubareaStop + 1
    BY <1>1, <1>2, <1>3, <1>11
  <2>2. buffer_sub_start' = SubareaStop + 1 /\ written' = written
    BY <1>11 DEF WriteSubarea
  <2>3. Kept' = [i \in 1..s+count |-> buffer'[i - 1].index]
    BY <2>1, <2>2 DEF Kept
  <2>4. Block' = Block
    BY <2>2 DEF Block
  <2> HIDE DEF s, count, value, samples
  <2>5. Kept' = samples
    BY <1>6, <1>9, <2>3
  <2>6. Len(samples) < BufferSize
    BY <1>7, <2>1
  <2>7. Stream!Move(count)
    BY <1>5, <2>4, <2>5, <2>6 DEF Stream!Move, samples, p
  <2> QED
    BY <1>3, <1>4, <2>7 DEF count, p
<1> QED
    BY <1>10, <1>11

(* Whatever tones come and however they are cut, the device is given all   *)
(* of their samples, in their order, each once.                            *)
THEOREM SamplesAreAlwaysStreamed == SoundSpec => SamplesAreStreamed
<1>1. StreamInv /\ [SoundNext]_soundVars => [Stream!StreamNext]_(Stream!streamVars)
  <2> SUFFICES ASSUME StreamInv, [SoundNext]_soundVars PROVE Stream!StreamNext \/ UNCHANGED Stream!streamVars
    OBVIOUS
  <2>1. CASE DequeueTone
    BY <2>1, DequeueStreams DEF Stream!StreamNext
  <2>2. CASE WriteSubarea
    BY <2>2, SubareaStreams DEF Stream!StreamNext
  <2>3. CASE EndTone \/ SilenceGenerator \/ SetSlope \/ Reallocate \/ UNCHANGED soundVars
    <3>1. UNCHANGED <<sound, tone>>
        BY <2>3 DEF EndTone, SilenceGenerator, SetSlope, SetToneSlope, Reallocate, soundVars
    <3> QED
        BY <3>1 DEF Stream!streamVars, sound, Kept, Block
  <2> QED
    BY <2>1, <2>2, <2>3 DEF SoundNext
<1> QED
    BY <1>1, StreamInvHolds, InitStreams, PTL DEF SoundSpec, SamplesAreStreamed, Stream!StreamSpec

-----------------------------------------------------------------------------
(* Quotients and remainders: of products, of steps along a slope and around*)
(* a circle.                                                                *)
LEMMA ProductOrder ==
    ASSUME NEW n \in Nat, n > 0, NEW x \in Int, NEW y \in Int, n * x < n * y
    PROVE  x < y
<1> SUFFICES ASSUME y <= x PROVE FALSE
    OBVIOUS
<1>1. x - y \in Nat
    OBVIOUS
<1>2. n * (x - y) \in Nat
    BY <1>1
<1>3. n * x = n * y + n * (x - y)
    OBVIOUS
<1> QED
    BY <1>2, <1>3

LEMMA DivisionTheorem ==
    ASSUME NEW n \in Nat, n > 0, NEW x \in Int
    PROVE  x = n * (x \div n) + (x % n)
OBVIOUS

LEMMA RemainderRange ==
    ASSUME NEW n \in Nat, n > 0, NEW x \in Int
    PROVE  x \div n \in Int /\ x % n \in 0..n-1
<1>1. x \div n \in Int
    OBVIOUS
<1>2. x % n \in 0..n-1
    OBVIOUS
<1> QED
    BY <1>1, <1>2

LEMMA Division ==
    ASSUME NEW n \in Nat, n > 0, NEW x \in Nat
    PROVE  x \div n \in Nat /\ \E r \in 0..n-1 : x = n * (x \div n) + r
<1> DEFINE q == x \div n
<1>1. x \in Int
    OBVIOUS
<1>2. PICK r \in 0..n-1 : x = n * q + r
    BY <1>1, DivisionTheorem, RemainderRange
<1>3. q \in Int
    BY <1>1, RemainderRange
<1> HIDE DEF q
<1>4. n * (-1) = -n /\ n * q \in Int
    BY <1>3
<1>5. n * (-1) < n * q
    BY <1>2, <1>4
<1>6. -1 < q
    BY <1>3, <1>5, ProductOrder
<1>7. q \in Nat
    BY <1>3, <1>6
<1>8. q \in Nat /\ \E s \in 0..n-1 : x = n * q + s
    BY <1>2, <1>7
<1> QED
    BY <1>8 DEF q

LEMMA QuotientOrder ==
    ASSUME NEW n \in Nat, n > 0, NEW x \in Nat, NEW y \in Nat, x <= y
    PROVE  x \div n <= y \div n
<1> DEFINE q == x \div n
           p == y \div n
<1>0. PICK r \in 0..n-1, s \in 0..n-1 : x = n * q + r /\ y = n * p + s
    BY Division
<1>1. q \in Nat /\ p \in Nat /\ x = n * q + r /\ y = n * p + s
    BY <1>0, Division
<1> HIDE DEF q, p
<1>2. n * q < n * p + n
  <2>1. n * q \in Int /\ n * p \in Int
    BY <1>1
  <2> QED
    BY <1>1, <2>1
<1>3. n * (p + 1) = n * p + n
    BY <1>1
<1>4. q < p + 1
    BY <1>1, <1>2, <1>3, ProductOrder
<1>5. q <= p
    BY <1>1, <1>4
<1> QED
    BY <1>5 DEF q, p

LEMMA QuotientOfProduct ==
    ASSUME NEW n \in Nat, n > 0, NEW x \in Nat
    PROVE  (n * x) \div n = x
<1>1. n * x \in Nat
    OBVIOUS
<1>2. \A a \in Nat : a = n * x => a \div n = x
  <2> TAKE a \in Nat
  <2> HAVE a = n * x
  <2> DEFINE q == a \div n
  <2>0. PICK r \in 0..n-1 : a = n * q + r
    BY Division
  <2>1. q \in Nat /\ a = n * q + r
    BY <2>0, Division
  <2> HIDE DEF q
  <2>2. n * (x + 1) = n * x + n /\ n * (q + 1) = n * q + n
    BY <2>1
  <2>3. n * q < n * (x + 1) /\ n * x < n * (q + 1)
    <3>1. n * q \in Int /\ n * x \in Int
        BY <2>1
    <3> QED
        BY <1>1, <2>1, <2>2, <3>1
  <2>4. q < x + 1 /\ x < q + 1
    BY <2>1, <2>3, ProductOrder
  <2> QED
    BY <2>1, <2>4 DEF q
<1> QED
    BY <1>1, <1>2

(* A slope of n steps to v rises by no more than v / n at each of them.     *)
LEMMA SlopeRises ==
    ASSUME NEW n \in Nat, n > 0, NEW v \in Nat, NEW i \in Nat
    PROVE  /\ (i * v) \div n \in Nat /\ (v + n - 1) \div n \in Nat
           /\ (i * v) \div n <= ((i + 1) * v) \div n
           /\ ((i + 1) * v) \div n <= (i * v) \div n + (v + n - 1) \div n
<1> DEFINE a == i * v
           b == (i + 1) * v
           c == v + n - 1
           q == a \div n
           p == b \div n
           s == c \div n
<1>1. a \in Nat /\ b \in Nat /\ b = a + v /\ c \in Nat
    OBVIOUS
<1>2. q <= p
    BY <1>1, QuotientOrder
<1>0. PICK u \in 0..n-1, w \in 0..n-1, z \in 0..n-1 : a = n * q + u /\ b = n * p + w /\ c = n * s + z
    BY <1>1, Division
<1>3. /\ q \in Nat /\ a = n * q + u
      /\ p \in Nat /\ b = n * p + w
      /\ s \in Nat /\ c = n * s + z
    BY <1>0, <1>1, Division
<1> HIDE DEF a, b, c
<1>4. n * s \in Int /\ n * q \in Int /\ n * p \in Int
  <2> HIDE DEF s, q, p
  <2> QED
    BY <1>3
<1> HIDE DEF q, p, s
<1>5. v <= n * s
    BY <1>1, <1>3, <1>4 DEF c
<1>6. n * p < n * q + n * s + n
  <2>1. b = a + v /\ a \in Nat
    BY <1>1
  <2> QED
    BY <1>3, <1>4, <1>5, <2>1
<1>7. n * (q + s + 1) = n * q + n * s + n
    BY <1>3
<1>8. p < q + s + 1
    BY <1>3, <1>6, <1>7, ProductOrder
<1>9. p <= q + s
    BY <1>3, <1>8
<1> QED
    BY <1>2, <1>3, <1>9 DEF a, b, c, q, p, s

(* It stays between the levels at its ends.                                *)
LEMMA SlopeIsBetween ==
    ASSUME NEW n \in Nat, n > 0, NEW v \in Nat, NEW i \in 0..n-1
    PROVE  (i * v) \div n \in 0..v
<1> DEFINE a == i * v
           m == n * v
<1>1. a \in Nat /\ m \in Nat /\ a <= m
  <2>1. (n - i) * v \in Nat /\ m = a + (n - i) * v
    OBVIOUS
  <2> QED
    BY <2>1
<1>2. m \div n = v
    BY QuotientOfProduct
<1> HIDE DEF a, m
<1>3. a \div n <= m \div n /\ a \div n \in Nat
    BY <1>1, QuotientOrder, Division
<1>4. a \div n \in 0..v
    BY <1>2, <1>3
<1> QED
    BY <1>4 DEF a

(* From the last step of a slope there is one more to the full level.      *)
LEMMA SlopeEnds ==
    ASSUME NEW n \in Nat, n > 0, NEW v \in Nat
    PROVE  v - ((n - 1) * v) \div n <= (v + n - 1) \div n
<1>1. n - 1 \in Nat
    OBVIOUS
<1>2. (((n - 1) + 1) * v) \div n <= ((n - 1) * v) \div n + (v + n - 1) \div n
    BY <1>1, SlopeRises
<1>3. ((n - 1) + 1) * v = n * v
    OBVIOUS
<1>4. (n * v) \div n = v
    BY QuotientOfProduct
<1>5. ((n - 1) * v) \div n \in Nat /\ (v + n - 1) \div n \in Nat
    BY <1>1, SlopeRises
<1> QED
    BY <1>2, <1>3, <1>4, <1>5

(* No step is larger than the full level.                                   *)
LEMMA StepIsBounded ==
    ASSUME NEW n \in Nat, n > 0, NEW v \in Nat
    PROVE  (v + n - 1) \div n \in 0..v
<1>1. v + n - 1 \in Nat /\ n * v \in Nat
    OBVIOUS
<1>2. CASE v = 0
  <2> DEFINE c == n - 1
             q == c \div n
  <2>0. c \in Nat
    OBVIOUS
  <2>0a. PICK r \in 0..n-1 : c = n * q + r
    BY <2>0, Division
  <2>1. c \in Nat /\ q \in Nat /\ c = n * q + r
    BY <2>0, <2>0a, Division
  <2> HIDE DEF q
  <2>2. n * q < n * 1
    <3>1. n * 1 = n /\ n * q \in Int
        BY <2>1
    <3> QED
        BY <2>1, <3>1
  <2>3. q < 1
    BY <2>1, <2>2, ProductOrder
  <2>4. q = 0
    BY <2>1, <2>3
  <2>5. v + n - 1 = c
    BY <1>2
  <2> QED
    BY <1>2, <2>4, <2>5 DEF q
<1>3. CASE v > 0
  <2>1. v + n - 1 <= n * v
    <3>1. (n - 1) * (v - 1) \in Nat
        BY <1>3
    <3>2. n * v = (n - 1) * (v - 1) + (v + n - 1)
        OBVIOUS
    <3> QED
        BY <1>1, <3>1, <3>2
  <2>2. (v + n - 1) \div n <= (n * v) \div n
    BY <1>1, <2>1, QuotientOrder
  <2>3. (n * v) \div n = v
    BY QuotientOfProduct
  <2>4. (v + n - 1) \div n \in Nat
    BY <1>1, Division
  <2> QED
    BY <2>2, <2>3, <2>4
<1> QED
    BY <1>2, <1>3

(* Steps around a circle.                                                   *)
LEMMA RemainderOf ==
    ASSUME NEW c \in Nat, c > 0, NEW q \in Int, NEW r \in 0..c-1
    PROVE  (c * q + r) % c = r
<1> DEFINE x == c * q + r
<1>1. x \in Int
    OBVIOUS
<1>2. x % c \in 0..c-1 /\ x \div c \in Int /\ x = c * (x \div c) + (x % c)
    BY <1>1, DivisionTheorem, RemainderRange
<1> DEFINE p == x \div c
           s == x % c
<1>3. x = c * p + s /\ p \in Int /\ s \in 0..c-1 /\ x = c * q + r
    BY <1>2
<1> HIDE DEF x, p, s
<1>4. c * (q + 1) = c * q + c /\ c * (p + 1) = c * p + c
    BY <1>3
<1>5. c * q \in Int /\ c * p \in Int
    BY <1>3
<1>6. c * p < c * (q + 1) /\ c * q < c * (p + 1)
    BY <1>3, <1>4, <1>5
<1>7. p < q + 1 /\ q < p + 1
    BY <1>3, <1>6, ProductOrder
<1>8. p = q
    BY <1>3, <1>7
<1>9. s = r
    BY <1>3, <1>5, <1>8
<1> QED
    BY <1>9 DEF s, x

LEMMA StepOnCircle ==
    ASSUME NEW c \in Nat, c > 0, NEW x \in Nat, NEW f \in 0..c-1
    PROVE  /\ (((x + f) % c) - (x % c)) % c = f
           /\ ((x % c) + f) % c = (x + f) % c
           /\ x % c \in 0..c-1
<1> DEFINE q == x \div c
           r == x % c
<1>1. q \in Nat /\ r \in 0..c-1 /\ x = c * q + r
    BY DivisionTheorem, RemainderRange, Division
<1> HIDE DEF q, r
<1>2. CASE r + f < c
  <2>1. x + f = c * q + (r + f) /\ r + f \in 0..c-1
    BY <1>1, <1>2
  <2>2. (x + f) % c = r + f
    BY <1>1, <2>1, RemainderOf
  <2>3. (r + f) % c = r + f
    <3>1. c * 0 + (r + f) = r + f
        BY <2>1
    <3> QED
        BY <2>1, <3>1, RemainderOf
  <2>4. (r + f) - r = f /\ c * 0 + f = f
    BY <1>1
  <2>5. f % c = f
    BY <2>4, RemainderOf
  <2>6. x % c = r
    BY DEF r
  <2>7. ((x + f) % c) - (x % c) = f
    BY <2>2, <2>4, <2>6
  <2>8. (((x + f) % c) - (x % c)) % c = f
    BY <2>5, <2>7, Zenon
  <2>9. ((x % c) + f) % c = (x + f) % c
    BY <2>2, <2>3, <2>6, Zenon
  <2>10. x % c \in 0..c-1
    BY <1>1, <2>6, Zenon
  <2> QED
    BY <2>8, <2>9, <2>10, Zenon
<1>3. CASE r + f >= c
  <2>1. x + f = c * (q + 1) + (r + f - c) /\ r + f - c \in 0..c-1 /\ q + 1 \in Int
    BY <1>1, <1>3
  <2>2. (x + f) % c = r + f - c
    BY <1>1, <2>1, RemainderOf
  <2>3. (r + f) % c = r + f - c
    <3>1. c * 1 + (r + f - c) = r + f
        BY <1>1
    <3> QED
        BY <2>1, <3>1, RemainderOf, 1 \in Int
  <2>4. (r + f - c) - r = c * (-1) + f
    BY <1>1
  <2>5. (c * (-1) + f) % c = f
    BY RemainderOf
  <2>6. x % c = r
    BY DEF r
  <2>7. ((x + f) % c) - (x % c) = c * (-1) + f
    BY <2>2, <2>4, <2>6
  <2>8. (((x + f) % c) - (x % c)) % c = f
    BY <2>5, <2>7, Zenon
  <2>9. ((x % c) + f) % c = (x + f) % c
    BY <2>2, <2>3, <2>6, Zenon
  <2>10. x % c \in 0..c-1
    BY <1>1, <2>6, Zenon
  <2> QED
    BY <2>8, <2>9, <2>10, Zenon
<1> QED
    BY <1>1, <1>2, <1>3

-----------------------------------------------------------------------------
(* The levels within a tone: they change by no more than a slope makes      *)
(* them, and begin and end as the kind of tone says.                        *)
SlopeLevel(n, j) == (j * Volume) \div n
SlopeStep(n) == (Volume + n - 1) \div n

LevelOf(n, t, i) ==
    IF t.frequency = 0 THEN 0
    ELSE IF InRisingSlope(t, i) \/ InFallingSlope(t, i) THEN SlopeLevel(n, TableIndex(t, i))
    ELSE Volume

Ends(t, level, step) ==
    /\ t.slope_mode \in {"standard", "falling"} \/ t.frequency = 0 => level = 0 \/ step = Volume
    /\ t.slope_mode = "none" /\ t.frequency # 0 => level = Volume
    /\ t.slope_mode = "rising" /\ t.frequency # 0 => Volume - level <= step

IsSmooth(n, t) ==
    /\ t.n_samples > 0 /\ t.step \in 0..Volume
    /\ \A i \in 0..t.n_samples-1 : LevelOf(n, t, i) \in 0..Volume
    /\ \A i \in 1..t.n_samples-1 : Distance(LevelOf(n, t, i), LevelOf(n, t, i - 1)) <= t.step
    /\ Ends(t, LevelOf(n, t, t.n_samples - 1), t.step)

(* The level at which a tone begins, as seen from the one before.          *)
Starts(n, t) ==
    LET level == LevelOf(n, t, 0) IN
    /\ t.frequency = 0 => level = 0
    /\ t.slope_mode \in {"standard", "rising"} => level = 0 \/ t.step = Volume
    /\ t.slope_mode = "none" /\ t.frequency # 0 => level = Volume
    /\ t.slope_mode = "falling" /\ t.frequency # 0 =>
          Volume - level <= t.step /\ (t.n_samples > n => level = Volume)

(* Sizes of the tones that have a sound.                                   *)
HasShape(n, t) ==
    /\ t.rising_slope_n_samples = IF t.slope_mode \in {"rising", "standard"} THEN n ELSE 0
    /\ t.falling_slope_n_samples = IF t.slope_mode \in {"falling", "standard"} THEN n ELSE 0
    /\ t.slope_mode = "standard" => t.n_samples >= 2 * n
    /\ t.slope_mode = "rising" => t.n_samples = n
    /\ t.slope_mode = "falling" => t.n_samples >= n

LEMMA LevelsOfSlope ==
    ASSUME NEW n \in Nat, n > 0
    PROVE  /\ SlopeStep(n) \in 0..Volume
           /\ \A j \in 0..n-1 : SlopeLevel(n, j) \in 0..Volume
           /\ \A j \in 0..n-2 : /\ SlopeLevel(n, j) <= SlopeLevel(n, j + 1)
                                /\ SlopeLevel(n, j + 1) <= SlopeLevel(n, j) + SlopeStep(n)
           /\ SlopeLevel(n, 0) = 0
           /\ Volume - SlopeLevel(n, n - 1) <= SlopeStep(n)
<1>1. Volume \in Nat
    BY SoundAssumption
<1>2. SlopeStep(n) \in 0..Volume
    BY <1>1, StepIsBounded DEF SlopeStep
<1>3. \A j \in 0..n-1 : SlopeLevel(n, j) \in 0..Volume
    BY <1>1, SlopeIsBetween DEF SlopeLevel
<1>4. \A j \in 0..n-2 : /\ SlopeLevel(n, j) <= SlopeLevel(n, j + 1)
                        /\ SlopeLevel(n, j + 1) <= SlopeLevel(n, j) + SlopeStep(n)
  <2> TAKE j \in 0..n-2
  <2>1. j \in Nat
    OBVIOUS
  <2> QED
    BY <1>1, <2>1, SlopeRises DEF SlopeLevel, SlopeStep
<1>5. SlopeLevel(n, 0) = 0
  <2>1. 0 * Volume = n * 0
    BY <1>1
  <2>2. (n * 0) \div n = 0
    BY QuotientOfProduct
  <2> QED
    BY <2>1, <2>2 DEF SlopeLevel
<1>6. Volume - SlopeLevel(n, n - 1) <= SlopeStep(n)
    BY <1>1, SlopeEnds DEF SlopeLevel, SlopeStep
<1> QED
    BY <1>2, <1>3, <1>4, <1>5, <1>6

LEMMA SilentTonesAreSmooth ==
    ASSUME NEW n \in Nat, NEW t \in Tones, t.frequency = 0, t.n_samples > 0, t.step \in 0..Volume
    PROVE  IsSmooth(n, t) /\ Starts(n, t)
<1>1. \A i : LevelOf(n, t, i) = 0
    BY DEF LevelOf
<1>2. Volume \in Nat /\ t.n_samples \in Nat
    BY SoundAssumption DEF Tones
<1>3. Distance(0, 0) <= t.step
    BY <1>2 DEF Distance
<1>4. IsSmooth(n, t)
    BY <1>1, <1>2, <1>3 DEF IsSmooth, Ends
<1>5. Starts(n, t)
    BY <1>1 DEF Starts
<1> QED
    BY <1>4, <1>5

LEMMA SoundingTonesAreSmooth ==
    ASSUME NEW n \in Nat, NEW t \in Tones, t.frequency # 0, t.n_samples > 0, HasShape(n, t),
           t.step = Volume \/ (n > 0 /\ t.step = SlopeStep(n)), n = 0 => t.step = Volume
    PROVE  IsSmooth(n, t) /\ Starts(n, t)
<1> DEFINE R == t.rising_slope_n_samples
           F == t.falling_slope_n_samples
           N == t.n_samples
           L(i) == LevelOf(n, t, i)
<1>1. Volume \in Nat /\ N \in Nat /\ N > 0 /\ R \in Nat /\ F \in Nat /\ t.slope_mode \in SlopeModes
    BY SoundAssumption DEF Tones
<1>2. \A i \in 0..N-1 : L(i) = IF i < R THEN SlopeLevel(n, i)
                               ELSE IF i >= N - F THEN SlopeLevel(n, N - i - 1)
                               ELSE Volume
    BY DEF LevelOf, InRisingSlope, InFallingSlope, TableIndex
<1>3. /\ R \in {0, n} /\ F \in {0, n}
      /\ R = n /\ F = n => N >= 2 * n \/ n = 0 \/ N = n
    BY DEF HasShape
<1>4. t.step \in 0..Volume
    BY <1>1, LevelsOfSlope
<1>5. \A i \in 0..N-1 : L(i) \in 0..Volume
  <2> TAKE i \in 0..N-1
  <2>1. CASE i < R
    <3>1. n > 0 /\ i \in 0..n-1
        BY <1>1, <1>3, <2>1
    <3> QED
        BY <1>2, <2>1, <3>1, LevelsOfSlope
  <2>2. CASE ~(i < R) /\ i >= N - F
    <3>1. n > 0 /\ N - i - 1 \in 0..n-1
        BY <1>1, <1>3, <2>2
    <3> QED
        BY <1>2, <2>2, <3>1, LevelsOfSlope
  <2>3. CASE ~(i < R) /\ ~(i >= N - F)
    BY <1>1, <1>2, <2>3
  <2> QED
    BY <2>1, <2>2, <2>3
<1> HIDE DEF L
<1>6. \A i \in 1..N-1 : Distance(L(i), L(i - 1)) <= t.step
  <2> TAKE i \in 1..N-1
  <2>1. i \in 0..N-1 /\ i - 1 \in 0..N-1
    BY <1>1
  <2>2. L(i) \in 0..Volume /\ L(i - 1) \in 0..Volume
    BY <1>5, <2>1
  <2>3. CASE t.step = Volume
    BY <1>1, <2>2, <2>3 DEF Distance
  <2>4. CASE n > 0 /\ t.step = SlopeStep(n)
    <3> DEFINE S(j) == SlopeLevel(n, j)
               step == SlopeStep(n)
    <3>1. /\ step \in 0..Volume
          /\ \A j \in 0..n-1 : S(j) \in 0..Volume
          /\ \A j \in 0..n-2 : S(j) <= S(j + 1) /\ S(j + 1) <= S(j) + step
          /\ Volume - S(n - 1) <= step
        BY <2>4, LevelsOfSlope
    <3>2. /\ L(i) = IF i < R THEN S(i) ELSE IF i >= N - F THEN S(N - i - 1) ELSE Volume
          /\ L(i - 1) = IF i - 1 < R THEN S(i - 1) ELSE IF i - 1 >= N - F THEN S(N - i) ELSE Volume
      <4>1. N - (i - 1) - 1 = N - i
        BY <1>1, <2>1
      <4> QED
        BY <1>2, <2>1, <4>1
    <3> HIDE DEF S, step
    <3>3. CASE i < R
      <4>1. R = n /\ i - 1 \in 0..n-2 /\ i - 1 < R /\ (i - 1) + 1 = i /\ i \in 0..n-1 /\ i - 1 \in 0..n-1
        BY <1>1, <1>3, <2>1, <3>3
      <4>2. L(i) = S(i) /\ L(i - 1) = S(i - 1) /\ S(i - 1) <= S(i) /\ S(i) <= S(i - 1) + step
        BY <3>1, <3>2, <3>3, <4>1
      <4> QED
        BY <2>2, <2>4, <3>1, <4>2 DEF Distance, step
    <3>4. CASE i = R
      <4>1. R = n /\ i - 1 = n - 1 /\ i - 1 < R /\ ~(i < R) /\ n - 1 \in 0..n-1
        BY <1>1, <1>3, <2>1, <2>4, <3>4
      <4>2. L(i - 1) = S(n - 1)
        BY <3>2, <4>1
      <4>3. CASE i >= N - F
        <5>1. F = n /\ N - i - 1 = n - 1
            BY <1>1, <1>3, <2>1, <3>4, <4>1, <4>3
        <5>2. L(i) = S(n - 1)
            BY <3>2, <4>1, <4>3, <5>1
        <5> QED
            BY <2>2, <2>4, <3>1, <4>2, <5>2 DEF Distance, step
      <4>4. CASE ~(i >= N - F)
        <5>1. L(i) = Volume
            BY <3>2, <4>1, <4>4
        <5> QED
            BY <1>1, <2>2, <2>4, <3>1, <4>2, <5>1 DEF Distance, step
      <4> QED
        BY <4>3, <4>4
    <3>5. CASE i > R
      <4>1. ~(i < R) /\ ~(i - 1 < R)
        BY <1>1, <2>1, <3>5
      <4>2. CASE i - 1 >= N - F
        <5>1. F = n /\ N - i - 1 \in 0..n-2 /\ (N - i - 1) + 1 = N - i /\ i >= N - F
            BY <1>1, <1>3, <2>1, <4>2
        <5>2. L(i) = S(N - i - 1) /\ L(i - 1) = S(N - i)
            BY <3>2, <4>1, <4>2, <5>1
        <5>3. S(N - i - 1) <= S(N - i) /\ S(N - i) <= S(N - i - 1) + step
            BY <3>1, <5>1
        <5> QED
            BY <2>2, <2>4, <3>1, <5>2, <5>3 DEF Distance, step
      <4>3. CASE ~(i - 1 >= N - F) /\ i >= N - F
        <5>1. F = n /\ N - i - 1 = n - 1 /\ n - 1 \in 0..n-1
            BY <1>1, <1>3, <2>1, <2>4, <4>3
        <5>2. L(i) = S(n - 1) /\ L(i - 1) = Volume
            BY <3>2, <4>1, <4>3, <5>1
        <5> QED
            BY <1>1, <2>2, <2>4, <3>1, <5>1, <5>2 DEF Distance, step
      <4>4. CASE ~(i - 1 >= N - F) /\ ~(i >= N - F)
        <5>1. L(i) = Volume /\ L(i - 1) = Volume
            BY <3>2, <4>1, <4>4
        <5> QED
            BY <1>1, <2>4, <3>1, <5>1 DEF Distance, step
      <4>5. i - 1 >= N - F => i >= N - F
        BY <1>1, <2>1
      <4> QED
        BY <4>2, <4>3, <4>4, <4>5
    <3> QED
        BY <1>1, <2>1, <3>3, <3>4, <3>5
  <2> QED
    BY <2>3, <2>4
<1>7. Ends(t, L(N - 1), t.step)
  <2>1. N - 1 \in 0..N-1
    BY <1>1
  <2>2. L(N - 1) \in 0..Volume
    BY <1>5, <2>1
  <2>3. CASE t.step = Volume
    <3>1. t.slope_mode = "none" => L(N - 1) = Volume
      <4> HAVE t.slope_mode = "none"
      <4>1. R = 0 /\ F = 0
        BY DEF HasShape
      <4> QED
        BY <1>1, <1>2, <2>1, <4>1
    <3>2. Volume - L(N - 1) <= t.step
        BY <1>1, <2>2, <2>3
    <3> QED
        BY <2>3, <3>1, <3>2 DEF Ends
  <2>4. CASE n > 0 /\ t.step = SlopeStep(n)
    <3>1. CASE t.slope_mode \in {"standard", "falling"}
      <4>1. ~(N - 1 < R) /\ N - 1 >= N - F /\ N - (N - 1) - 1 = 0
        BY <1>1, <2>4, <3>1 DEF HasShape
      <4>2. L(N - 1) = 0
        BY <1>2, <2>1, <2>4, <4>1, LevelsOfSlope
      <4> QED
        BY <3>1, <4>2 DEF Ends
    <3>2. CASE t.slope_mode = "none"
      <4>1. R = 0 /\ F = 0
        BY <3>2 DEF HasShape
      <4>2. L(N - 1) = Volume
        BY <1>1, <1>2, <2>1, <4>1
      <4> QED
        BY <3>2, <4>2 DEF Ends
    <3>3. CASE t.slope_mode = "rising"
      <4>1. R = n /\ N = n
        BY <3>3 DEF HasShape
      <4>2. N - 1 < R
        BY <1>1, <4>1
      <4>3. L(N - 1) = SlopeLevel(n, n - 1)
        BY <1>2, <2>1, <4>1, <4>2
      <4>4. Volume - L(N - 1) <= t.step
        BY <2>4, <4>3, LevelsOfSlope
      <4> QED
        BY <3>3, <4>4 DEF Ends
    <3> QED
        BY <1>1, <3>1, <3>2, <3>3 DEF SlopeModes
  <2> QED
    BY <2>3, <2>4
<1>8. Starts(n, t)
  <2>1. 0 \in 0..N-1
    BY <1>1
  <2>2. L(0) = IF 0 < R THEN SlopeLevel(n, 0) ELSE IF 0 >= N - F THEN SlopeLevel(n, N - 0 - 1) ELSE Volume
    BY <1>2, <2>1
  <2>3. L(0) \in 0..Volume
    BY <1>5, <2>1
  <2>4. CASE t.slope_mode \in {"standard", "rising"}
    <3>1. n = 0 \/ L(0) = 0
      <4> SUFFICES ASSUME n > 0 PROVE L(0) = 0
        OBVIOUS
      <4>1. 0 < R
        BY <2>4 DEF HasShape
      <4> QED
        BY <2>2, <4>1, LevelsOfSlope
    <3> QED
        BY <2>4, <3>1 DEF Starts, L
  <2>5. CASE t.slope_mode = "none"
    <3>1. R = 0 /\ F = 0
        BY <2>5 DEF HasShape
    <3>2. L(0) = Volume
        BY <1>1, <2>2, <3>1
    <3> QED
        BY <2>5, <3>2 DEF Starts, L
  <2>6. CASE t.slope_mode = "falling"
    <3>1. R = 0 /\ F = n /\ N >= n
        BY <2>6 DEF HasShape
    <3>2. N > n => L(0) = Volume
        BY <1>1, <2>2, <3>1
    <3>3. N = n => Volume - L(0) <= t.step
      <4> HAVE N = n
      <4>1. n > 0 /\ L(0) = SlopeLevel(n, n - 1)
        BY <1>1, <2>2, <3>1
      <4>2. CASE t.step = Volume
        BY <1>1, <2>3, <4>2
      <4>3. CASE t.step = SlopeStep(n)
        BY <4>1, <4>3, LevelsOfSlope
      <4> QED
        BY <4>2, <4>3
    <3>4. Volume - L(0) <= t.step
        BY <1>1, <1>4, <3>1, <3>2, <3>3
    <3> QED
        BY <2>6, <3>2, <3>4 DEF Starts, L
  <2> QED
    BY <1>1, <2>4, <2>5, <2>6 DEF SlopeModes
<1>9. IsSmooth(n, t)
    BY <1>1, <1>4, <1>5, <1>6, <1>7 DEF IsSmooth, L
<1> QED
    BY <1>8, <1>9

-----------------------------------------------------------------------------
(* From a tone to the next: what was generated last is what the next sample *)
(* goes on from, in its level and in its phase.                             *)
(* The last sample that has been generated.                                *)
LastSample == IF buffer_sub_start = 0 THEN written.cells[BufferSize - 1] ELSE buffer[buffer_sub_start - 1]

(* A sample that may come after another one.                               *)
Joins(level, step, a) == \E s \in {step, a.step} : Distance(level, a.level) <= s
Follows(a, b) == Joins(b.level, b.step, a) /\ (b.phase - a.phase) % Circle = a.frequency

(* The kinds of tone that a straight key and the others leave behind.      *)
ToneFitsCarrier ==
    /\ carrier = "open" /\ ~flushed => tone.slope_mode \in {"standard", "falling"} \/ tone.frequency = 0
    /\ ~(generating /\ silencing_initialized) =>
          /\ carrier = "rising" => tone.slope_mode = "rising" /\ tone.frequency # 0
          /\ carrier = "held" => tone.slope_mode = "none" /\ tone.frequency # 0

(* The tone that is generated is smooth, and goes on where the samples     *)
(* end; between tones they end as the last tone does.                      *)
ToneGoesOn ==
    /\ generating =>
          /\ IsSmooth(tone_slope.n_amplitudes, tone) /\ ~flushed
          /\ tone.sample_iterator = 0 =>
                Joins(LevelOf(tone_slope.n_amplitudes, tone, 0), tone.step, LastSample)
          /\ tone.sample_iterator > 0 =>
                /\ LastSample.level = LevelOf(tone_slope.n_amplitudes, tone, tone.sample_iterator - 1)
                /\ LastSample.step = tone.step
    /\ ~generating => prev_tone = tone /\ Ends(tone, LastSample.level, LastSample.step)

Before(i) == IF i = 0 THEN written.cells[BufferSize - 1] ELSE buffer[i - 1]

BufferGoesOn ==
    /\ \A i \in 0..buffer_sub_start-1 : Follows(Before(i), buffer[i])
    /\ phase_offset = (LastSample.phase + LastSample.frequency) % Circle

SamplesHaveTypes ==
    /\ buffer \in [0..BufferSize-1 -> Sounds] /\ written.cells \in [0..BufferSize-1 -> Sounds]
    /\ written.before \in Sounds /\ phase_offset \in 0..Circle-1
    /\ carrier \in {"open", "rising", "held", "cut"}
    /\ tone_slope.duration \in SlopeDurations \cup {0}

SoundGoesOn == SamplesHaveTypes /\ ToneFitsCarrier /\ ToneGoesOn /\ BufferGoesOn /\ SoundIsContinuous

LEMMA LastSampleIsSound ==
    ASSUME StreamInv, SamplesHaveTypes
    PROVE  LastSample \in Sounds
<1>1. buffer_sub_start \in 0..BufferSize-1 /\ BufferSize \in Nat /\ BufferSize > 0
    BY SoundAssumption DEF StreamInv, SoundInv, CursorsInBounds
<1>2. CASE buffer_sub_start = 0
  <2>1. BufferSize - 1 \in 0..BufferSize-1
    BY <1>1
  <2> QED
    BY <1>2, <2>1 DEF LastSample, SamplesHaveTypes
<1>3. CASE buffer_sub_start # 0
  <2>1. buffer_sub_start - 1 \in 0..BufferSize-1
    BY <1>1, <1>3
  <2> QED
    BY <1>3, <2>1 DEF LastSample, SamplesHaveTypes
<1> QED
    BY <1>2, <1>3

(* Between tones the table is as long as the slopes.                       *)
LEMMA SlopesOfNextTone ==
    ASSUME Careful, SizesAreFit, StreamInv, SamplesHaveTypes, ~generating, ~reallocating
    PROVE  /\ tone_slope.n_amplitudes = SlopeSamples /\ SlopeSamples \in Nat
           /\ tone_slope.duration = 0 => SlopeSamples = 0
           /\ tone_slope.duration > 0 => SlopeSamples > 0
           /\ SlopeSamples < 5 * BufferSize
           /\ \A d \in Durations : Samples(d) >= 2 * SlopeSamples
           /\ Step = IF SlopeSamples = 0 \/ flushed \/ carrier = "cut" THEN Volume ELSE SlopeStep(SlopeSamples)
<1>1. Samples(0) = 0
  <2>1. SampleRate \div 100 \in Nat
    BY SoundAssumption
  <2>2. (SampleRate \div 100) * 0 = 10000 * 0
    BY <2>1
  <2>3. (10000 * 0) \div 10000 = 0
    BY QuotientOfProduct
  <2> QED
    BY <2>2, <2>3 DEF Samples
<1>2. tone_slope.duration \in SlopeDurations \cup {0} /\ tone_slope.duration \in Nat
  <2>1. tone_slope.duration \in Nat
    BY DEF StreamInv, SoundInv, TypesOfTones
  <2> QED
    BY <2>1 DEF SamplesHaveTypes
<1>3. SlopeSamples \in Nat
    BY <1>2, SamplesAreNatural DEF SlopeSamples
<1>4. tone_slope.n_amplitudes = SlopeSamples
    BY DEF StreamInv, SoundInv, SlopesFitTable
<1>5. tone_slope.duration = 0 => SlopeSamples = 0
    BY <1>1 DEF SlopeSamples
<1>6. tone_slope.duration > 0 => SlopeSamples > 0
    BY <1>2 DEF SlopeSamples, SizesAreFit
<1>7. SlopeSamples < 5 * BufferSize
  <2>1. CASE tone_slope.duration = 0
    BY <1>5, <2>1, SoundAssumption
  <2>2. CASE tone_slope.duration # 0
    BY <1>2, <2>2 DEF SlopeSamples, SizesAreFit
  <2> QED
    BY <2>1, <2>2
<1>8. ASSUME NEW d \in Durations PROVE Samples(d) >= 2 * SlopeSamples
  <2>1. Samples(d) \in Nat
    BY SamplesAreNatural, SoundAssumption
  <2>2. CASE tone_slope.duration = 0
    BY <1>5, <2>1, <2>2
  <2>3. CASE tone_slope.duration # 0
    BY <1>2, <2>3 DEF SlopeSamples, SizesAreFit
  <2> QED
    BY <2>2, <2>3
<1>9. Step = IF SlopeSamples = 0 \/ flushed \/ carrier = "cut" THEN Volume ELSE SlopeStep(SlopeSamples)
    BY DEF Step, SlopeStep
<1> QED
    BY <1>3, <1>4, <1>5, <1>6, <1>7, <1>8, <1>9

(* A tone from the queue is smooth, and joins what has been generated.     *)
LEMMA QueuedTonesJoin ==
    ASSUME Careful, SizesAreFit, StreamInv, SoundGoesOn, ~generating, ~reallocating,
           NEW slope_mode \in SlopeModes, NEW frequency \in Frequencies \cup {0},
           NEW duration \in Durations \cup {Quantum, tone_slope.duration},
           Dequeued(slope_mode, frequency, duration)
    PROVE  LET n == tone_slope.n_amplitudes
               t == SizedTone(slope_mode, frequency, duration)
           IN  /\ IsSmooth(n, t) /\ Joins(LevelOf(n, t, 0), t.step, LastSample)
               /\ carrier' = "open" => slope_mode \in {"standard", "falling"} \/ frequency = 0
               /\ carrier' = "rising" => slope_mode = "rising" /\ frequency # 0
               /\ carrier' = "held" => slope_mode = "none" /\ frequency # 0
<1> DEFINE n == tone_slope.n_amplitudes
           t == SizedTone(slope_mode, frequency, duration)
           level == LevelOf(n, t, 0)
           L == LastSample
<1>1. /\ n = SlopeSamples /\ n \in Nat
      /\ tone_slope.duration = 0 => n = 0
      /\ tone_slope.duration > 0 => n > 0
      /\ \A d \in Durations : Samples(d) >= 2 * n
      /\ Step = IF n = 0 \/ flushed \/ carrier = "cut" THEN Volume ELSE SlopeStep(n)
    BY SlopesOfNextTone DEF SoundGoesOn
<1>2. L \in Sounds /\ L.level \in 0..Volume /\ L.step \in 0..Volume
  <2>1. L \in Sounds
    BY LastSampleIsSound DEF SoundGoesOn
  <2> QED
    BY <2>1 DEF Sounds
<1>3. tone_slope.duration \in SlopeDurations \cup {0} /\ duration \in Nat /\ duration > 0
    BY SoundAssumption DEF SoundGoesOn, SamplesHaveTypes, Dequeued
<1>4. t \in Tones
    BY <1>3, SizedTonesAreTones DEF StreamInv
<1>5. /\ t.slope_mode = slope_mode /\ t.frequency = frequency /\ t.n_samples = Samples(duration)
      /\ t.step = Step
      /\ t.rising_slope_n_samples = IF slope_mode \in {"rising", "standard"} THEN n ELSE 0
      /\ t.falling_slope_n_samples = IF slope_mode \in {"falling", "standard"} THEN n ELSE 0
    BY <1>1 DEF SizedTone
<1>6. t.n_samples > 0
    BY <1>3, <1>5 DEF SizesAreFit
<1>7. /\ t.step = Volume \/ (n > 0 /\ t.step = SlopeStep(n) /\ ~flushed /\ carrier # "cut")
      /\ n = 0 => t.step = Volume
    BY <1>1, <1>5
<1>8. HasShape(n, t)
  <2>1. slope_mode = "standard" => duration \in Durations
    BY DEF Dequeued
  <2>2. slope_mode \in {"rising", "falling"} => duration = tone_slope.duration
    BY DEF Dequeued
  <2>3. duration = tone_slope.duration => t.n_samples = n
    BY <1>1, <1>5 DEF SlopeSamples
  <2> QED
    BY <1>1, <1>5, <2>1, <2>2, <2>3 DEF HasShape
<1>9. Volume \in Nat /\ t.step \in 0..Volume
    BY <1>1, <1>7, SoundAssumption, LevelsOfSlope
<1>10. IsSmooth(n, t) /\ Starts(n, t)
  <2> HIDE DEF n, t
  <2>1. CASE t.frequency = 0
    BY <1>1, <1>4, <1>6, <1>9, <2>1, SilentTonesAreSmooth
  <2>2. CASE t.frequency # 0
    BY <1>1, <1>4, <1>6, <1>7, <1>8, <2>2, SoundingTonesAreSmooth
  <2> QED
    BY <2>1, <2>2
<1>11. level \in 0..Volume
  <2>1. 0 \in 0..t.n_samples-1
    BY <1>4, <1>6 DEF Tones
  <2> QED
    BY <1>10, <2>1 DEF IsSmooth
<1>12. /\ t.frequency = 0 => level = 0
       /\ t.slope_mode \in {"standard", "rising"} => level = 0 \/ t.step = Volume
       /\ t.slope_mode = "none" /\ t.frequency # 0 => level = Volume
       /\ t.slope_mode = "falling" /\ t.frequency # 0 => Volume - level <= t.step
    BY <1>10 DEF Starts
<1>13. \A f \in Frequencies : f # 0
    BY DEF SizesAreFit
<1>14. /\ carrier = "open" /\ ~flushed => L.level = 0 \/ L.step = Volume
       /\ carrier = "rising" => tone.frequency # 0 /\ Volume - L.level <= L.step
       /\ carrier = "held" => tone.frequency # 0 /\ L.level = Volume
       /\ prev_tone = tone
  <2>1. prev_tone = tone /\ Ends(tone, L.level, L.step)
    BY DEF SoundGoesOn, ToneGoesOn
  <2> QED
    BY <2>1 DEF SoundGoesOn, ToneFitsCarrier, Ends
<1> HIDE DEF level, L, n, t
<1>15. ASSUME Distance(level, L.level) <= t.step \/ Distance(level, L.level) <= L.step
       PROVE  Joins(level, t.step, L)
    BY <1>15 DEF Joins
<1>16. t.step = Volume \/ L.step = Volume => Joins(level, t.step, L)
    BY <1>2, <1>9, <1>11, <1>15 DEF Distance
<1>17. level = 0 /\ L.level = 0 => Joins(level, t.step, L)
    BY <1>2, <1>9, <1>11, <1>15 DEF Distance
<1>18. CASE /\ KeyOpened /\ carrier' = "open"
            /\ \/ slope_mode = "standard" /\ frequency \in Frequencies /\ duration \in Durations
               \/ slope_mode = "none" /\ frequency = 0 /\ duration \in Durations \cup {Quantum}
  <2>1. level = 0 \/ t.step = Volume
    BY <1>5, <1>12, <1>18
  <2>2. t.step = Volume \/ L.level = 0 \/ L.step = Volume
    BY <1>1, <1>3, <1>7, <1>14, <1>18 DEF KeyOpened
  <2> QED
    BY <1>10, <1>16, <1>17, <1>18, <2>1, <2>2 DEF n, t, level, L
<1>19. CASE /\ KeyOpened /\ carrier' = "rising"
            /\ slope_mode = "rising" /\ frequency \in Frequencies /\ duration = tone_slope.duration
  <2>1. level = 0 \/ t.step = Volume
    BY <1>5, <1>12, <1>19
  <2>2. t.step = Volume \/ L.level = 0 \/ L.step = Volume
    BY <1>1, <1>3, <1>7, <1>14, <1>19 DEF KeyOpened
  <2> QED
    BY <1>10, <1>13, <1>16, <1>17, <1>19, <2>1, <2>2 DEF n, t, level, L
<1>20. CASE /\ KeyOpened /\ tone_slope.duration = 0 /\ carrier' = "held"
            /\ slope_mode = "none" /\ frequency \in Frequencies /\ duration = Quantum
  <2>1. t.step = Volume
    BY <1>1, <1>7, <1>20
  <2> QED
    BY <1>10, <1>13, <1>16, <1>20, <2>1 DEF n, t, level, L
<1>21. CASE /\ carrier \in {"rising", "held"} /\ carrier' = "held"
            /\ slope_mode = "none" /\ frequency = prev_tone.frequency /\ duration = Quantum
  <2>1. frequency # 0 /\ level = Volume
    BY <1>5, <1>12, <1>14, <1>21
  <2>2. Distance(level, L.level) <= L.step
    BY <1>2, <1>9, <1>14, <1>21, <2>1 DEF Distance
  <2> QED
    BY <1>10, <1>15, <1>21, <2>1, <2>2 DEF n, t, level, L
<1>22. CASE /\ carrier = "cut" /\ UNCHANGED carrier
            /\ slope_mode = "none" /\ frequency = 0 /\ duration = Quantum
  <2>1. t.step = Volume
    BY <1>7, <1>22
  <2> QED
    BY <1>10, <1>16, <1>22, <2>1 DEF n, t, level, L
<1>23. CASE /\ carrier \in {"held", "cut"} /\ carrier' = "open"
            /\ slope_mode = "falling" /\ frequency \in Frequencies /\ duration = tone_slope.duration
  <2>1. CASE carrier = "cut"
    <3>1. t.step = Volume
        BY <1>7, <2>1
    <3> QED
        BY <1>10, <1>16, <1>23, <3>1 DEF n, t, level, L
  <2>2. CASE carrier = "held"
    <3>1. L.level = Volume /\ Volume - level <= t.step
        BY <1>5, <1>12, <1>13, <1>14, <1>23, <2>2
    <3>2. Distance(level, L.level) <= t.step
        BY <1>9, <1>11, <3>1 DEF Distance
    <3> QED
        BY <1>10, <1>15, <1>23, <3>2 DEF n, t, level, L
  <2> QED
    BY <1>23, <2>1, <2>2
<1> QED
    BY <1>18, <1>19, <1>20, <1>21, <1>22, <1>23 DEF Dequeued

(* So is the tone that silences.                                           *)
LEMMA SilencingTonesJoin ==
    ASSUME Careful, SizesAreFit, StreamInv, SoundGoesOn, ~generating, ~reallocating
    PROVE  LET n == tone_slope.n_amplitudes
               t == SilencingTone
           IN  /\ IsSmooth(n, t) /\ Joins(LevelOf(n, t, 0), t.step, LastSample)
               /\ t.slope_mode = "falling" \/ t.frequency = 0
<1> DEFINE n == tone_slope.n_amplitudes
           t == SilencingTone
           level == LevelOf(n, t, 0)
           L == LastSample
<1>1. /\ n = SlopeSamples /\ n \in Nat /\ n < 5 * BufferSize
      /\ Step = IF n = 0 \/ flushed \/ carrier = "cut" THEN Volume ELSE SlopeStep(n)
    BY SlopesOfNextTone DEF SoundGoesOn
<1>2. L \in Sounds /\ L.level \in 0..Volume /\ L.step \in 0..Volume
  <2>1. L \in Sounds
    BY LastSampleIsSound DEF SoundGoesOn
  <2> QED
    BY <2>1 DEF Sounds
<1>3. t \in Tones
    BY SilencingTonesAreTones DEF StreamInv
<1>4. /\ t.n_samples = BufferSize - (buffer_sub_stop + 1) + 5 * BufferSize
      /\ t.step = Step /\ t.rising_slope_n_samples = 0 /\ t.falling_slope_n_samples = n
      /\ prev_tone.slope_mode \in {"none", "rising"} => t.slope_mode = "falling" /\ t.frequency = prev_tone.frequency
      /\ prev_tone.slope_mode \notin {"none", "rising"} => t.slope_mode = "none" /\ t.frequency = 0
  <2>1. prev_tone \in Tones
    BY DEF StreamInv, SoundInv, TypesOfTones
  <2> QED
    BY <1>1, <2>1 DEF SilencingTone, Tones
<1>5. t.n_samples > n
  <2>1. buffer_sub_stop \in 0..BufferSize-1 /\ BufferSize \in Nat
    BY SoundAssumption DEF StreamInv, SoundInv, CursorsInBounds
  <2> QED
    BY <1>1, <1>4, <2>1
<1>6. t.n_samples > 0
    BY <1>1, <1>3, <1>5 DEF Tones
<1>7. t.step = Volume \/ (n > 0 /\ t.step = SlopeStep(n))
    BY <1>1, <1>4
<1>8. n = 0 => t.step = Volume
    BY <1>1, <1>4
<1>9. Volume \in Nat /\ t.step \in 0..Volume
    BY <1>1, <1>7, SoundAssumption, LevelsOfSlope
<1>10. prev_tone = tone /\ Ends(prev_tone, L.level, L.step) /\ prev_tone.slope_mode \in SlopeModes
    BY DEF SoundGoesOn, ToneGoesOn, StreamInv, SoundInv, TypesOfTones, Tones
<1> HIDE DEF level, L, n, t
<1>11. ASSUME Distance(level, L.level) <= t.step \/ Distance(level, L.level) <= L.step
       PROVE  Joins(level, t.step, L)
    BY <1>11 DEF Joins
<1>12. CASE t.frequency = 0
  <2>1. IsSmooth(n, t) /\ level = 0
    BY <1>1, <1>3, <1>6, <1>9, <1>12, SilentTonesAreSmooth DEF Starts, level
  <2>2. L.level = 0 \/ L.step = Volume
    <3>1. CASE prev_tone.slope_mode \in {"none", "rising"}
        BY <1>4, <1>10, <1>12, <3>1 DEF Ends
    <3>2. CASE prev_tone.slope_mode \notin {"none", "rising"}
        BY <1>10, <3>2 DEF Ends, SlopeModes
    <3> QED
        BY <3>1, <3>2
  <2>3. Distance(level, L.level) <= t.step \/ Distance(level, L.level) <= L.step
    BY <1>2, <1>9, <2>1, <2>2 DEF Distance
  <2> QED
    BY <1>11, <1>12, <2>1, <2>3 DEF n, t, level, L
<1>13. CASE t.frequency # 0
  <2>1. t.slope_mode = "falling" /\ prev_tone.slope_mode \in {"none", "rising"} /\ prev_tone.frequency # 0
    BY <1>4, <1>13
  <2>2. HasShape(n, t)
    BY <1>1, <1>3, <1>4, <1>5, <2>1 DEF HasShape, Tones
  <2>3. IsSmooth(n, t) /\ Starts(n, t)
    BY <1>1, <1>3, <1>6, <1>7, <1>8, <1>13, <2>2, SoundingTonesAreSmooth
  <2>4. level = Volume
    BY <1>5, <1>13, <2>1, <2>3 DEF Starts, level
  <2>5. Volume - L.level <= L.step
    BY <1>2, <1>9, <1>10, <2>1 DEF Ends
  <2>6. Distance(level, L.level) <= L.step
    BY <1>2, <1>9, <2>4, <2>5 DEF Distance
  <2> QED
    BY <1>11, <2>1, <2>3, <2>6 DEF n, t, level, L
<1> QED
    BY <1>12, <1>13

LEMMA DequeueGoesOn ==
    ASSUME Careful, SizesAreFit, StreamInv, SoundGoesOn, DequeueTone
    PROVE  SoundGoesOn'
<1> DEFINE n == tone_slope.n_amplitudes
<1>1. ~generating /\ ~reallocating
    BY DEF DequeueTone
<1>2. PICK slope_mode \in SlopeModes, frequency \in Frequencies \cup {0},
           duration \in Durations \cup {Quantum, tone_slope.duration} :
          /\ Dequeued(slope_mode, frequency, duration)
          /\ tone' = IF silencing_initialized THEN SilencingTone
                     ELSE SizedTone(slope_mode, frequency, duration)
    BY DEF DequeueTone
<1>3. /\ UNCHANGED <<buffer, buffer_sub_start, phase_offset, written, prev_tone, tone_slope, silencing_initialized>>
      /\ flushed' = FALSE /\ generating' = TRUE
    BY DEF DequeueTone
<1>4. tone'.sample_iterator = 0
  <2>1. duration \in Nat
    BY SoundAssumption DEF StreamInv, SoundInv, TypesOfTones
  <2> QED
    BY <1>2, <2>1, SizedTonesAreTones, SilencingTonesAreTones DEF StreamInv
<1>5. LastSample' = LastSample
    BY <1>3 DEF LastSample
<1>6. IsSmooth(n, tone') /\ Joins(LevelOf(n, tone', 0), tone'.step, LastSample)
    BY <1>1, <1>2, QueuedTonesJoin, SilencingTonesJoin
<1>7. ToneFitsCarrier'
  <2>1. CASE silencing_initialized
    <3>1. tone'.slope_mode = "falling" \/ tone'.frequency = 0
        BY <1>1, <1>2, <2>1, SilencingTonesJoin
    <3> QED
        BY <1>3, <2>1, <3>1 DEF ToneFitsCarrier
  <2>2. CASE ~silencing_initialized
    <3>1. tone'.slope_mode = slope_mode /\ tone'.frequency = frequency
        BY <1>2, <2>2 DEF SizedTone
    <3>2. /\ carrier' = "open" => slope_mode \in {"standard", "falling"} \/ frequency = 0
          /\ carrier' = "rising" => slope_mode = "rising" /\ frequency # 0
          /\ carrier' = "held" => slope_mode = "none" /\ frequency # 0
        BY <1>1, <1>2, QueuedTonesJoin
    <3> QED
        BY <3>1, <3>2 DEF ToneFitsCarrier
  <2> QED
    BY <2>1, <2>2
<1>8. ToneGoesOn'
    BY <1>3, <1>4, <1>5, <1>6 DEF ToneGoesOn
<1>9. BufferGoesOn'
    BY <1>3, <1>5 DEF SoundGoesOn, BufferGoesOn, Before
<1>10. SoundIsContinuous'
    BY <1>3 DEF SoundGoesOn, SoundIsContinuous
<1>11. SamplesHaveTypes'
  <2>1. carrier' \in {"open", "rising", "held", "cut"}
    BY <1>2 DEF Dequeued
  <2> QED
    BY <1>3, <2>1 DEF SoundGoesOn, SamplesHaveTypes
<1> QED
    BY <1>7, <1>8, <1>9, <1>10, <1>11 DEF SoundGoesOn

LEMMA EndGoesOn ==
    ASSUME StreamInv, SoundGoesOn, EndTone
    PROVE  SoundGoesOn'
<1>1. /\ generating /\ samples_to_write = 0 /\ generating' = FALSE /\ prev_tone' = tone
      /\ UNCHANGED <<buffer, buffer_sub_start, phase_offset, written, tone, tone_slope>>
    BY DEF EndTone, sound
<1>2. LastSample' = LastSample
    BY <1>1 DEF LastSample
<1>3. tone.sample_iterator = tone.n_samples /\ tone.n_samples \in Nat
    BY <1>1 DEF StreamInv, SoundInv, CursorsInBounds, TypesOfTones, Tones
<1>4. IsSmooth(tone_slope.n_amplitudes, tone) /\ ~flushed
    BY <1>1 DEF SoundGoesOn, ToneGoesOn
<1>5. /\ LastSample.level = LevelOf(tone_slope.n_amplitudes, tone, tone.n_samples - 1)
      /\ LastSample.step = tone.step
    BY <1>1, <1>3, <1>4 DEF SoundGoesOn, ToneGoesOn, IsSmooth
<1>6. ToneGoesOn'
    BY <1>1, <1>2, <1>4, <1>5 DEF ToneGoesOn, IsSmooth
<1>7. ToneFitsCarrier' /\ carrier' \in {"open", "rising", "held", "cut"}
  <2>1. tone.slope_mode \in SlopeModes
    BY DEF StreamInv, SoundInv, TypesOfTones, Tones
  <2>2. CASE silencing_initialized
    <3>1. carrier' \in {"cut", "open"}
        BY <2>2 DEF EndTone
    <3>2. ~flushed' => tone.frequency = 0 \/ tone.slope_mode \notin {"rising", "none"}
        BY <2>2 DEF EndTone
    <3> QED
        BY <1>1, <2>1, <3>1, <3>2 DEF ToneFitsCarrier, SlopeModes
  <2>3. CASE ~silencing_initialized
    <3>1. UNCHANGED carrier
        BY <2>3 DEF EndTone
    <3> QED
        BY <1>1, <1>4, <2>3, <3>1 DEF SoundGoesOn, ToneFitsCarrier, SamplesHaveTypes
  <2> QED
    BY <2>2, <2>3
<1>8. BufferGoesOn' /\ SoundIsContinuous' /\ SamplesHaveTypes'
    BY <1>1, <1>2, <1>7 DEF SoundGoesOn, BufferGoesOn, Before, SoundIsContinuous, SamplesHaveTypes
<1> QED
    BY <1>6, <1>7, <1>8 DEF SoundGoesOn

(* Clients that are careful change slopes between tones only.              *)
LEMMA ClientsGoOn ==
    ASSUME Careful, StreamInv, SoundGoesOn,
           SilenceGenerator \/ SetSlope \/ Reallocate \/ UNCHANGED soundVars
    PROVE  SoundGoesOn'
<1>1. UNCHANGED <<buffer, buffer_sub_start, phase_offset, written, tone, prev_tone, generating, carrier, flushed>>
    BY DEF SilenceGenerator, SetSlope, SetToneSlope, Reallocate, sound, soundVars
<1>2. LastSample' = LastSample
    BY <1>1 DEF LastSample
<1>3. generating => UNCHANGED tone_slope
    BY DEF SilenceGenerator, SetSlope, SetToneSlope, Reallocate, soundVars, StreamInv, SoundInv, SlopesFitTable
<1>4. ToneGoesOn'
    BY <1>1, <1>2, <1>3 DEF SoundGoesOn, ToneGoesOn
<1>5. ToneFitsCarrier'
  <2>1. silencing_initialized => silencing_initialized'
    BY DEF SilenceGenerator, SetSlope, SetToneSlope, Reallocate, soundVars
  <2> QED
    BY <1>1, <2>1 DEF SoundGoesOn, ToneFitsCarrier
<1>6. BufferGoesOn' /\ SoundIsContinuous'
    BY <1>1, <1>2 DEF SoundGoesOn, BufferGoesOn, Before, SoundIsContinuous
<1>7. tone_slope'.duration \in SlopeDurations \cup {0}
  <2>1. tone_slope \in [shape : {"linear", "rectangular"}, duration : Nat, n_amplitudes : Nat]
    BY DEF StreamInv, SoundInv, TypesOfTones
  <2>2. tone_slope.duration \in SlopeDurations \cup {0}
    BY DEF SoundGoesOn, SamplesHaveTypes
  <2>3. CASE SetSlope
    BY <2>1, <2>2, <2>3 DEF SetSlope, SetToneSlope
  <2>4. CASE SilenceGenerator \/ Reallocate \/ UNCHANGED soundVars
    BY <2>1, <2>2, <2>4 DEF SilenceGenerator, Reallocate, soundVars
  <2> QED
    BY <2>3, <2>4
<1>8. SamplesHaveTypes'
    BY <1>1, <1>7 DEF SoundGoesOn, SamplesHaveTypes
<1> QED
    BY <1>4, <1>5, <1>6, <1>8 DEF SoundGoesOn

(* The phase of a sample, as it is reached from the start of a part.       *)
LEMMA PhaseGoesOn ==
    ASSUME Circle \in Nat, Circle > 0, NEW f \in 0..Circle-1, NEW o \in 0..Circle-1, NEW j \in Nat
    PROVE  /\ (f * j + o) % Circle \in 0..Circle-1
           /\ (((f * (j + 1) + o) % Circle) - ((f * j + o) % Circle)) % Circle = f
           /\ (((f * j + o) % Circle) + f) % Circle = (f * (j + 1) + o) % Circle
<1> DEFINE x == f * j + o
<1>1. f * j \in Nat
    OBVIOUS
<1>2. x \in Nat
    BY <1>1
<1>3. f * (j + 1) = f * j + f
    OBVIOUS
<1>4. f * (j + 1) + o = x + f
    BY <1>1, <1>3
<1> HIDE DEF x
<1>5. /\ (((x + f) % Circle) - (x % Circle)) % Circle = f
      /\ ((x % Circle) + f) % Circle = (x + f) % Circle
      /\ x % Circle \in 0..Circle-1
    BY <1>2, StepOnCircle
<1> QED
    BY <1>4, <1>5, Zenon DEF x

LEMMA PhaseStays ==
    ASSUME Circle \in Nat, Circle > 0, NEW o \in 0..Circle-1
    PROVE  o % Circle = o
<1>1. Circle * 0 + o = o
    OBVIOUS
<1>2. (Circle * 0 + o) % Circle = o
    BY RemainderOf
<1> QED
    BY <1>1, <1>2

LEMMA FrequenciesFitCircle ==
    ASSUME SizesAreFit
    PROVE  \A g \in Frequencies \cup {0} : g \in 0..Circle-1
<1>1. Circle \in Nat /\ Circle > 0
    BY SoundAssumption
<1> TAKE g \in Frequencies \cup {0}
<1>2. CASE g = 0
    BY <1>1, <1>2
<1>3. CASE g # 0
  <2>1. g \in 1..Circle-1
    BY <1>3 DEF SizesAreFit
  <2> QED
    BY <1>1, <2>1
<1> QED
    BY <1>2, <1>3

(* The samples of a part.                                                  *)
LEMMA SamplesGoOn ==
    ASSUME SizesAreFit, StreamInv, SoundGoesOn, WriteSubarea
    PROVE  LET s == buffer_sub_start IN
           /\ s \in 0..BufferSize-1 /\ SubareaStop \in s..BufferSize-1
           /\ tone.sample_iterator \in Nat /\ tone.n_samples \in Nat
           /\ tone.sample_iterator + (SubareaStop - s) < tone.n_samples
           /\ IsSmooth(tone_slope.n_amplitudes, tone)
           /\ \A i \in s..SubareaStop : Sample(i) \in Sounds
           /\ Follows(LastSample, Sample(s))
           /\ \A i \in s+1..SubareaStop : Follows(Sample(i - 1), Sample(i))
           /\ phase_offset' = (Sample(SubareaStop).phase + tone.frequency) % Circle
           /\ phase_offset' \in 0..Circle-1
<1> DEFINE s == buffer_sub_start
           p == tone.sample_iterator
           N == tone.n_samples
           n == tone_slope.n_amplitudes
           f == tone.frequency
           o == phase_offset
           L(i) == LevelOf(n, tone, i)
<1>1. /\ generating /\ s \in 0..BufferSize-1 /\ samples_to_write \in Nat /\ samples_to_write > 0
      /\ samples_to_write = N - p /\ tone \in Tones
    BY DEF StreamInv, SoundInv, CursorsInBounds, TypesOfTones, WriteSubarea
<1>2. p \in Nat /\ N \in Nat /\ f \in Frequencies \cup {0} /\ BufferSize \in Nat /\ BufferSize > 0
    BY <1>1, SoundAssumption DEF Tones
<1>3. SubareaStop \in s..BufferSize-1 /\ SubareaStop - s < samples_to_write
    BY <1>1, <1>2 DEF SubareaStop
<1>4. p + (SubareaStop - s) < N
    BY <1>1, <1>2, <1>3
<1>5. IsSmooth(n, tone)
    BY <1>1 DEF SoundGoesOn, ToneGoesOn
<1>6. Circle \in Nat /\ Circle > 0 /\ f \in 0..Circle-1 /\ o \in 0..Circle-1
  <2>1. Circle \in Nat /\ Circle > 0
    BY SoundAssumption
  <2>2. \A g \in Frequencies \cup {0} : g \in 0..Circle-1
    BY <2>1, FrequenciesFitCircle
  <2>3. o \in 0..Circle-1
    BY DEF SoundGoesOn, SamplesHaveTypes
  <2> QED
    BY <1>2, <2>1, <2>2, <2>3
<1>7. \A i \in s..SubareaStop :
          /\ Sample(i) = [level |-> L(p + (i - s)), phase |-> (f * (i - s) + o) % Circle,
                          frequency |-> f, index |-> p + (i - s), step |-> tone.step]
          /\ i - s \in Nat /\ p + (i - s) \in 0..N-1
  <2> TAKE i \in s..SubareaStop
  <2>1. i - s \in Nat /\ p + (i - s) \in 0..N-1
    BY <1>1, <1>2, <1>3, <1>4
  <2>2. Sample(i) = [level |-> L(p + (i - s)), phase |-> (f * (i - s) + o) % Circle,
                     frequency |-> f, index |-> p + (i - s), step |-> tone.step]
    BY DEF Sample, Level, LevelOf, Amplitude, SlopeLevel
  <2> QED
    BY <2>1, <2>2
<1> HIDE DEF s, p, N, n, f, o, L
<1>8. \A i \in 0..N-1 : L(i) \in 0..Volume
    BY <1>5 DEF IsSmooth, L, N
<1>9. \A i \in 1..N-1 : Distance(L(i), L(i - 1)) <= tone.step
    BY <1>5 DEF IsSmooth, L, N
<1>10. tone.step \in 0..Volume
    BY <1>5 DEF IsSmooth
<1>11. \A i \in s..SubareaStop : Sample(i) \in Sounds
  <2> TAKE i \in s..SubareaStop
  <2>1. (f * (i - s) + o) % Circle \in 0..Circle-1
    BY <1>6, <1>7, PhaseGoesOn
  <2>2. f \in Frequencies \cup {0}
    BY <1>2
  <2>3. L(p + (i - s)) \in 0..Volume /\ p + (i - s) \in Nat
    BY <1>2, <1>7, <1>8
  <2> DEFINE phase == (f * (i - s) + o) % Circle
  <2> HIDE DEF phase
  <2>4. Sample(i) = [level |-> L(p + (i - s)), phase |-> phase,
                     frequency |-> f, index |-> p + (i - s), step |-> tone.step]
    BY <1>7 DEF phase
  <2>5. phase \in 0..Circle-1
    BY <2>1 DEF phase
  <2> QED
    BY <1>10, <2>2, <2>3, <2>4, <2>5 DEF Sounds
<1>12. Follows(LastSample, Sample(s))
  <2>1. LastSample \in Sounds
    BY LastSampleIsSound DEF SoundGoesOn
  <2>2. s \in s..SubareaStop /\ s - s = 0
    BY <1>1, <1>3
  <2>3. p + (s - s) = p /\ f * (s - s) + o = o
    BY <1>2, <1>6, <2>2
  <2>4. Sample(s).level = L(p) /\ Sample(s).step = tone.step
    BY <1>7, <2>2, <2>3
  <2>5. Sample(s).phase = o
    <3>1. Sample(s).phase = (f * (s - s) + o) % Circle
        BY <1>7, <2>2
    <3>2. (f * (s - s) + o) % Circle = o % Circle
        BY <2>3
    <3>3. o % Circle = o
        BY <1>6, PhaseStays
    <3> QED
        BY <3>1, <3>2, <3>3, Zenon
  <2>6. Joins(L(p), tone.step, LastSample)
    <3>1. CASE p = 0
        BY <1>1, <3>1 DEF SoundGoesOn, ToneGoesOn, L, n, p
    <3>2. CASE p > 0
      <4>1. LastSample.level = L(p - 1) /\ LastSample.step = tone.step
        BY <1>1, <3>2 DEF SoundGoesOn, ToneGoesOn, L, n, p
      <4>2. p \in 1..N-1
        BY <1>2, <1>7, <2>2, <2>3, <3>2
      <4>3. Distance(L(p), L(p - 1)) <= tone.step
        BY <1>9, <4>2
      <4> QED
        BY <4>1, <4>3 DEF Joins
    <3> QED
        BY <1>2, <3>1, <3>2
  <2>7. (Sample(s).phase - LastSample.phase) % Circle = LastSample.frequency
    <3> DEFINE x == LastSample.phase
               g == LastSample.frequency
    <3>1. x \in 0..Circle-1 /\ g \in 0..Circle-1
      <4>1. x \in 0..Circle-1 /\ g \in Frequencies \cup {0}
        BY <2>1 DEF Sounds
      <4> QED
        BY <4>1, FrequenciesFitCircle
    <3>2. o = (x + g) % Circle
        BY DEF SoundGoesOn, BufferGoesOn, o
    <3> HIDE DEF x, g
    <3>3. x % Circle = x
        BY <1>6, <3>1, PhaseStays
    <3>4. x \in Nat
        BY <1>6, <3>1
    <3>5. (((x + g) % Circle) - (x % Circle)) % Circle = g
        BY <1>6, <3>1, <3>4, StepOnCircle
    <3>6. (o - x) % Circle = g
        BY <3>2, <3>3, <3>5, Zenon
    <3> QED
        BY <2>5, <3>6, Zenon DEF x, g
  <2> QED
    BY <2>4, <2>6, <2>7, Zenon DEF Follows
<1>13. ASSUME NEW i \in s+1..SubareaStop PROVE Follows(Sample(i - 1), Sample(i))
  <2> DEFINE j == i - 1 - s
             k == p + (i - s)
  <2>1. /\ i \in s..SubareaStop /\ i - 1 \in s..SubareaStop /\ j \in Nat /\ i - s = j + 1
        /\ p + (i - 1 - s) = k - 1 /\ k \in 1..N-1
    <3>1. i \in s..SubareaStop /\ i - 1 \in s..SubareaStop
        BY <1>1, <1>2, <1>3
    <3>2. j \in Nat /\ p + (i - 1 - s) = k - 1 /\ i - s = j + 1 /\ k \in Int /\ k - 1 \in Int
        BY <1>1, <1>2, <1>3
    <3>3. k \in 0..N-1 /\ k - 1 \in 0..N-1
        BY <1>7, <3>1, <3>2
    <3> QED
        BY <1>2, <3>1, <3>2, <3>3
  <2> DEFINE x == (f * j + o) % Circle
             y == (f * (j + 1) + o) % Circle
  <2> HIDE DEF x, y
  <2>2. Sample(i) = [level |-> L(k), phase |-> y, frequency |-> f, index |-> k, step |-> tone.step]
    BY <1>7, <2>1 DEF y
  <2>3. /\ Sample(i - 1).level = L(k - 1) /\ Sample(i - 1).phase = x
        /\ Sample(i - 1).frequency = f /\ Sample(i - 1).step = tone.step
    BY <1>7, <2>1 DEF x
  <2>4. (y - x) % Circle = f
    BY <1>6, <2>1, PhaseGoesOn DEF x, y
  <2>5. Distance(L(k), L(k - 1)) <= tone.step
    BY <1>9, <2>1
  <2> HIDE DEF k, j
  <2>6. Joins(Sample(i).level, Sample(i).step, Sample(i - 1))
    BY <2>2, <2>3, <2>5 DEF Joins
  <2>7. (Sample(i).phase - Sample(i - 1).phase) % Circle = Sample(i - 1).frequency
    <3>1. Sample(i).phase = y
        BY <2>2
    <3> QED
        BY <2>3, <2>4, <3>1, Zenon
  <2> QED
    BY <2>6, <2>7, Zenon DEF Follows
<1>14. /\ phase_offset' = (Sample(SubareaStop).phase + tone.frequency) % Circle
       /\ phase_offset' \in 0..Circle-1
  <2> DEFINE j == SubareaStop - s
  <2>1. j \in Nat /\ SubareaStop \in s..SubareaStop /\ SubareaStop - s + 1 = j + 1
    BY <1>1, <1>3
  <2>2. phase_offset' = (f * (SubareaStop - s + 1) + o) % Circle
    BY DEF WriteSubarea, f, s, o
  <2>3. Sample(SubareaStop).phase = (f * j + o) % Circle
    BY <1>7, <2>1
  <2> HIDE DEF j
  <2>4. /\ (((f * j + o) % Circle) + f) % Circle = (f * (j + 1) + o) % Circle
    BY <1>6, <2>1, PhaseGoesOn
  <2>5. (f * (j + 1) + o) % Circle \in 0..Circle-1
    <3>1. j + 1 \in Nat
        BY <2>1
    <3> QED
        BY <1>6, <3>1, PhaseGoesOn
  <2>6. phase_offset' = (f * (j + 1) + o) % Circle
    BY <2>1, <2>2, Zenon
  <2>7. phase_offset' \in 0..Circle-1
    BY <2>5, <2>6, Zenon
  <2>8. phase_offset' = (Sample(SubareaStop).phase + tone.frequency) % Circle
    BY <2>3, <2>4, <2>6, Zenon DEF f
  <2> QED
    BY <2>7, <2>8
<1> QED
    BY <1>1, <1>2, <1>3, <1>4, <1>5, <1>11, <1>12, <1>13, <1>14 DEF s, p, N, n

(* What comes before a sample in the buffer when a part has been filled.   *)
LEMMA FilledGoesOn ==
    ASSUME SizesAreFit, StreamInv, SoundGoesOn, WriteSubarea
    PROVE  LET s == buffer_sub_start
               before(i) == IF i = 0 THEN written.cells[BufferSize - 1] ELSE buffer'[i - 1]
           IN  /\ buffer' \in [0..BufferSize-1 -> Sounds]
               /\ \A i \in s..SubareaStop : buffer'[i] = Sample(i)
               /\ \A i \in 0..SubareaStop : Follows(before(i), buffer'[i])
<1> DEFINE s == buffer_sub_start
           before(i) == IF i = 0 THEN written.cells[BufferSize - 1] ELSE buffer'[i - 1]
<1>1. /\ s \in 0..BufferSize-1 /\ SubareaStop \in s..BufferSize-1
      /\ \A i \in s..SubareaStop : Sample(i) \in Sounds
      /\ Follows(LastSample, Sample(s))
      /\ \A i \in s+1..SubareaStop : Follows(Sample(i - 1), Sample(i))
      /\ BufferSize \in Nat
    BY SamplesGoOn, SoundAssumption
<1>2. buffer' = [i \in 0..BufferSize-1 |-> IF i \in s..SubareaStop THEN Sample(i) ELSE buffer[i]]
    BY DEF WriteSubarea
<1>3. buffer' \in [0..BufferSize-1 -> Sounds]
    BY <1>1, <1>2 DEF SoundGoesOn, SamplesHaveTypes
<1>4. \A i \in s..SubareaStop : buffer'[i] = Sample(i)
    BY <1>1, <1>2
<1>5. \A i \in 0..s-1 : buffer'[i] = buffer[i]
  <2> TAKE i \in 0..s-1
  <2>1. i \in 0..BufferSize-1 /\ i \notin s..SubareaStop
    BY <1>1
  <2> QED
    BY <1>2, <2>1
<1>6. ASSUME NEW i \in 0..SubareaStop PROVE Follows(before(i), buffer'[i])
  <2>1. i \in Int /\ s \in Int
    BY <1>1
  <2>2. CASE i < s
    <3>1. i \in 0..s-1 /\ (i # 0 => i - 1 \in 0..s-1)
        BY <1>1, <2>2
    <3>2. Follows(Before(i), buffer[i])
        BY <3>1 DEF SoundGoesOn, BufferGoesOn
    <3>3. Before(i) = before(i) /\ buffer'[i] = buffer[i]
        BY <1>5, <3>1 DEF Before
    <3> QED
        BY <3>2, <3>3
  <2>3. CASE i = s
    <3>1. before(i) = LastSample
      <4>1. s # 0 => s - 1 \in 0..s-1
        BY <1>1
      <4> QED
        BY <1>5, <2>3, <4>1 DEF LastSample
    <3>2. buffer'[i] = Sample(s)
        BY <1>1, <1>4, <2>3
    <3> QED
        BY <1>1, <3>1, <3>2
  <2>4. CASE i > s
    <3>1. i \in s+1..SubareaStop /\ i \in s..SubareaStop /\ i - 1 \in s..SubareaStop /\ i # 0
        BY <1>1, <2>4
    <3>2. buffer'[i] = Sample(i) /\ before(i) = Sample(i - 1)
        BY <1>4, <3>1
    <3> QED
        BY <1>1, <3>1, <3>2
  <2> QED
    BY <2>1, <2>2, <2>3, <2>4
<1> QED
    BY <1>3, <1>4, <1>6

LEMMA WriteGoesOn ==
    ASSUME SizesAreFit, StreamInv, SoundGoesOn, WriteSubarea
    PROVE  SoundGoesOn'
<1> DEFINE s == buffer_sub_start
           before(i) == IF i = 0 THEN written.cells[BufferSize - 1] ELSE buffer'[i - 1]
           n == tone_slope.n_amplitudes
           count == SubareaStop - s + 1
<1>1. /\ s \in 0..BufferSize-1 /\ SubareaStop \in s..BufferSize-1
      /\ tone.sample_iterator \in Nat /\ tone.n_samples \in Nat
      /\ tone.sample_iterator + (SubareaStop - s) < tone.n_samples
      /\ IsSmooth(n, tone)
      /\ phase_offset' = (Sample(SubareaStop).phase + tone.frequency) % Circle
      /\ phase_offset' \in 0..Circle-1
    BY SamplesGoOn
<1>2. BufferSize \in Nat /\ BufferSize > 0
    BY SoundAssumption
<1>3. /\ buffer' \in [0..BufferSize-1 -> Sounds]
      /\ \A i \in s..SubareaStop : buffer'[i] = Sample(i)
      /\ \A i \in 0..SubareaStop : Follows(before(i), buffer'[i])
    BY FilledGoesOn
<1>4. /\ generating /\ ~flushed
      /\ UNCHANGED <<prev_tone, generating, tone_slope, silencing_initialized, carrier, flushed>>
      /\ tone' = [tone EXCEPT !.sample_iterator = @ + count]
    BY DEF WriteSubarea, SoundGoesOn, ToneGoesOn
<1>5. tone \in Tones
    BY DEF StreamInv, SoundInv, TypesOfTones
<1>6. /\ tone'.sample_iterator = tone.sample_iterator + count
      /\ tone'.slope_mode = tone.slope_mode /\ tone'.frequency = tone.frequency
      /\ tone'.n_samples = tone.n_samples /\ tone'.step = tone.step
      /\ tone'.rising_slope_n_samples = tone.rising_slope_n_samples
      /\ tone'.falling_slope_n_samples = tone.falling_slope_n_samples
    BY <1>4, <1>5 DEF Tones
<1>7. \/ /\ SubareaStop = BufferSize - 1 /\ buffer_sub_start' = 0
         /\ written' = [before |-> written.cells[BufferSize - 1], cells |-> buffer']
      \/ /\ SubareaStop # BufferSize - 1 /\ buffer_sub_start' = SubareaStop + 1 /\ UNCHANGED written
    BY DEF WriteSubarea
<1>8. LastSample' = Sample(SubareaStop)
  <2>1. SubareaStop \in s..SubareaStop
    BY <1>1
  <2>2. LastSample' = buffer'[SubareaStop]
    <3>1. CASE SubareaStop = BufferSize - 1
        BY <1>7, <3>1 DEF LastSample
    <3>2. CASE SubareaStop # BufferSize - 1
      <4>1. buffer_sub_start' # 0 /\ buffer_sub_start' - 1 = SubareaStop
        BY <1>1, <1>7, <3>2
      <4> QED
        BY <4>1 DEF LastSample
    <3> QED
        BY <3>1, <3>2
  <2> QED
    BY <1>3, <2>1, <2>2
<1>9. /\ Sample(SubareaStop).level = LevelOf(n, tone, tone'.sample_iterator - 1)
      /\ Sample(SubareaStop).step = tone.step /\ Sample(SubareaStop).frequency = tone.frequency
      /\ tone'.sample_iterator > 0
  <2>1. tone.sample_iterator + (SubareaStop - s) = tone'.sample_iterator - 1 /\ tone'.sample_iterator > 0
    BY <1>1, <1>6
  <2>2. Sample(SubareaStop).level = LevelOf(n, tone, tone.sample_iterator + (SubareaStop - s))
    BY DEF Sample, Level, LevelOf, Amplitude, SlopeLevel
  <2>3. Sample(SubareaStop).step = tone.step /\ Sample(SubareaStop).frequency = tone.frequency
    BY DEF Sample
  <2> QED
    BY <2>1, <2>2, <2>3
<1>10. \A i : LevelOf(n, tone', i) = LevelOf(n, tone, i)
    BY <1>6 DEF LevelOf, InRisingSlope, InFallingSlope, TableIndex
<1>11. IsSmooth(n, tone')
    BY <1>1, <1>6, <1>10 DEF IsSmooth, Ends
<1>12. ToneGoesOn'
  <2>1. LastSample'.level = LevelOf(n, tone', tone'.sample_iterator - 1) /\ LastSample'.step = tone'.step
    BY <1>6, <1>8, <1>9, <1>10
  <2>2. ~(tone'.sample_iterator = 0)
    BY <1>1, <1>6, <1>9
  <2> QED
    BY <1>4, <1>11, <2>1, <2>2 DEF ToneGoesOn
<1>13. ToneFitsCarrier'
    BY <1>4, <1>6 DEF SoundGoesOn, ToneFitsCarrier
<1>14. BufferGoesOn' /\ SoundIsContinuous' /\ written'.before \in Sounds
       /\ written'.cells \in [0..BufferSize-1 -> Sounds] 
  <2>1. phase_offset' = (LastSample'.phase + LastSample'.frequency) % Circle
    BY <1>1, <1>8, <1>9
  <2>2. written.cells[BufferSize - 1] \in Sounds
    <3>1. BufferSize - 1 \in 0..BufferSize-1
        BY <1>2
    <3> QED
        BY <3>1 DEF SoundGoesOn, SamplesHaveTypes
  <2>3. CASE SubareaStop = BufferSize - 1
    <3>1. BufferGoesOn'
        BY <1>7, <2>1, <2>3 DEF BufferGoesOn
    <3>2. SoundIsContinuous'
      <4>1. SUFFICES ASSUME NEW i \in 0..BufferSize-1
                     PROVE  Follows(IF i = 0 THEN written'.before ELSE written'.cells[i - 1], written'.cells[i])
        BY DEF SoundIsContinuous, Follows, Joins
      <4>2. Follows(before(i), buffer'[i])
        BY <1>3, <2>3
      <4>3. written'.cells = buffer' /\ written'.before = written.cells[BufferSize - 1]
        BY <1>7, <2>3
      <4> QED
        BY <4>2, <4>3
    <3> QED
        BY <1>3, <1>7, <2>2, <2>3, <3>1, <3>2
  <2>4. CASE SubareaStop # BufferSize - 1
    <3>1. UNCHANGED written /\ buffer_sub_start' = SubareaStop + 1
        BY <1>7, <2>4
    <3>2. \A i \in 0..SubareaStop : Follows(Before(i)', buffer'[i])
        BY <1>3, <3>1 DEF Before
    <3>3. buffer_sub_start' - 1 = SubareaStop
        BY <1>1, <3>1
    <3>4. BufferGoesOn'
        BY <2>1, <3>2, <3>3 DEF BufferGoesOn
    <3>5. SoundIsContinuous'
        BY <3>1 DEF SoundGoesOn, SoundIsContinuous
    <3> QED
        BY <3>1, <3>4, <3>5 DEF SoundGoesOn, SamplesHaveTypes
  <2> QED
    BY <2>3, <2>4
<1>15. SamplesHaveTypes'
    BY <1>1, <1>3, <1>4, <1>14 DEF SoundGoesOn, SamplesHaveTypes
<1> QED
    BY <1>12, <1>13, <1>14, <1>15 DEF SoundGoesOn

LEMMA InitGoesOn ==
    ASSUME SizesAreFit, SoundInit
    PROVE  SoundGoesOn
<1>1. /\ Circle \in Nat /\ Circle > 0 /\ BufferSize \in Nat /\ BufferSize > 0 /\ Volume \in Nat
    BY SoundAssumption
<1>2. Silence \in Sounds
    BY <1>1 DEF Silence, Sounds
<1>3. /\ written.before = Silence /\ written.cells = [i \in 0..BufferSize-1 |-> Silence]
      /\ buffer = [i \in 0..BufferSize-1 |-> Silence] /\ buffer_sub_start = 0 /\ phase_offset = 0
      /\ tone = NoTone /\ prev_tone = NoTone /\ generating = FALSE /\ carrier = "open"
    BY DEF SoundInit
<1>4. tone_slope.duration \in SlopeDurations \cup {0}
    BY DEF SoundInit
<1>5. SamplesHaveTypes
    BY <1>1, <1>2, <1>3, <1>4 DEF SamplesHaveTypes
<1>6. LastSample = Silence
  <2>1. BufferSize - 1 \in 0..BufferSize-1
    BY <1>1
  <2> QED
    BY <1>3, <2>1 DEF LastSample
<1>7. ToneFitsCarrier
    BY <1>3 DEF ToneFitsCarrier, NoTone
<1>8. ToneGoesOn
    BY <1>3, <1>6 DEF ToneGoesOn, Ends, NoTone, Silence
<1>9. Silence.phase = 0 /\ Silence.frequency = 0 /\ Silence.level = 0 /\ Silence.step = 0
    BY DEF Silence
<1>10. 0 % Circle = 0
    BY <1>1, PhaseStays
<1>11. BufferGoesOn
  <2>1. Silence.phase + Silence.frequency = 0
    BY <1>9
  <2>2. phase_offset = (LastSample.phase + LastSample.frequency) % Circle
    BY <1>3, <1>6, <1>10, <2>1
  <2>3. ~ \E i \in 0..buffer_sub_start-1 : TRUE
    BY <1>3
  <2> QED
    BY <2>2, <2>3 DEF BufferGoesOn
<1>12. SoundIsContinuous
  <2>1. SUFFICES ASSUME NEW i \in 0..BufferSize-1
                 PROVE  Follows(IF i = 0 THEN written.before ELSE written.cells[i - 1], written.cells[i])
    BY DEF SoundIsContinuous, Follows, Joins
  <2>2. written.cells[i] = Silence /\ (i # 0 => written.cells[i - 1] = Silence)
    BY <1>1, <1>3
  <2>3. Distance(0, 0) <= 0 /\ 0 - 0 = 0
    BY DEF Distance
  <2>4. Follows(Silence, Silence)
    BY <1>9, <1>10, <2>3 DEF Follows, Joins
  <2> QED
    BY <1>3, <2>2, <2>4
<1> QED
    BY <1>5, <1>7, <1>8, <1>11, <1>12 DEF SoundGoesOn

(* Tones of a key and others make no clicks, whatever their frequencies,    *)
(* slopes and lengths and however they are cut into buffers or silenced: in *)
(* what reaches the device the level changes by no more than a slope makes  *)
(* it, and the phase goes on; for clients that change slopes between tones, *)
(* and tones that have room for their slopes.                               *)
THEOREM SoundIsAlwaysStreamed ==
    ASSUME Careful, SizesAreFit
    PROVE  SoundSpec => SoundIsStreamed
<1>1. SoundInit => StreamInv /\ SoundGoesOn
    BY StreamInvHolds, InitGoesOn
<1>2. StreamInv /\ SoundGoesOn /\ [SoundNext]_soundVars => (StreamInv /\ SoundGoesOn)'
  <2> SUFFICES ASSUME StreamInv, SoundGoesOn, [SoundNext]_soundVars PROVE StreamInv' /\ SoundGoesOn'
    OBVIOUS
  <2>1. SoundGoesOn'
    BY DequeueGoesOn, WriteGoesOn, EndGoesOn, ClientsGoOn DEF SoundNext
  <2> QED
    BY <2>1, StreamInvHolds
<1>3. StreamInv /\ SoundGoesOn => SoundTypeOK /\ SoundIsContinuous
  <2> SUFFICES ASSUME StreamInv, SoundGoesOn PROVE SoundTypeOK /\ SoundIsContinuous
    OBVIOUS
  <2>1. tone.slope_mode \in SlopeModes /\ tone.frequency \in Frequencies \cup {0}
    BY DEF StreamInv, SoundInv, TypesOfTones, Tones
  <2> QED
    BY <2>1 DEF StreamInv, SoundInv, CursorsInBounds, SoundGoesOn, SamplesHaveTypes, SoundTypeOK
<1>4. SoundSpec => [](SoundTypeOK /\ SoundIsContinuous)
    BY <1>1, <1>2, <1>3, PTL DEF SoundSpec
<1> QED
    BY <1>4, SamplesAreAlwaysStreamed DEF SoundIsStreamed

-----------------------------------------------------------------------------
(***************************************************************************)
(* Timestamps.                                                             *)
(***************************************************************************)

(* A conversion to int leaves alone what an int can hold.                  *)
LEMMA ToIntOfInt ==
    ASSUME NEW n \in 0..IntMax
    PROVE  ToInt(n) = n
<1>1. IntMax \in Nat /\ n + IntMax + 1 \in Nat /\ n + IntMax + 1 < 2 * (IntMax + 1)
  BY TimestampAssumption
<1>2. \A m \in Nat, d \in Nat \ {0} : m < d => m % d = m
  OBVIOUS
<1>3. (n + IntMax + 1) % (2 * (IntMax + 1)) = n + IntMax + 1
  BY <1>1, <1>2
<1> QED
  BY <1>1, <1>3 DEF ToInt

(* The seconds of two times are no further apart than the interval allows, *)
(* which is why the test of the seconds alone turns no such interval away. *)
LEMMA SecondsOfInterval ==
    ASSUME NEW earlier \in [tv_sec : Nat, tv_usec : 0..UsecsPerSec-1],
           NEW later \in [tv_sec : Nat, tv_usec : 0..UsecsPerSec-1],
           Delta(earlier, later) =< IntMax
    PROVE  later.tv_sec - earlier.tv_sec =< (IntMax \div UsecsPerSec) + 1
<1>. DEFINE s == later.tv_sec - earlier.tv_sec
            u == later.tv_usec - earlier.tv_usec
            q == IntMax \div UsecsPerSec
            r == IntMax % UsecsPerSec
<1>1. s \in Int /\ u \in Int /\ u > -UsecsPerSec /\ UsecsPerSec \in Nat \ {0} /\ IntMax \in Nat
  BY TimestampAssumption
<1>2. q \in Int /\ r \in Int /\ r < UsecsPerSec /\ IntMax = UsecsPerSec * q + r
  BY <1>1
<1>3. s * UsecsPerSec + u =< IntMax
  BY <1>1 DEF Delta
<1>. HIDE DEF s, u, q, r
<1>4. SUFFICES ASSUME s >= q + 2 PROVE FALSE
  BY <1>1, <1>2 DEF s, q
<1>5. s * UsecsPerSec >= (q + 2) * UsecsPerSec
  BY <1>1, <1>2, <1>4
<1>6. (q + 2) * UsecsPerSec = UsecsPerSec * q + 2 * UsecsPerSec
  BY <1>1, <1>2
<1>7. s * UsecsPerSec \in Int /\ UsecsPerSec * q \in Int
  BY <1>1, <1>2
<1>8. s * UsecsPerSec > IntMax - u
  BY <1>1, <1>2, <1>5, <1>6, <1>7
<1> QED
  BY <1>1, <1>3, <1>7, <1>8

LEMMA ComparisonIsTold ==
    ASSUME NEW earlier \in [tv_sec : Nat, tv_usec : 0..UsecsPerSec-1],
           NEW later \in [tv_sec : Nat, tv_usec : 0..UsecsPerSec-1]
    PROVE  /\ Delta(earlier, later) \in 0..IntMax => Compare(earlier, later) = Delta(earlier, later)
           /\ Delta(earlier, later) < 0 => Compare(earlier, later) = IntMax
<1>1. Delta(earlier, later) \in Int /\ IntMax \in Nat
  BY TimestampAssumption DEF Delta
<1>2. ASSUME Delta(earlier, later) \in 0..IntMax PROVE Compare(earlier, later) = Delta(earlier, later)
  <2>1. later.tv_sec - earlier.tv_sec =< (IntMax \div UsecsPerSec) + 1
    BY <1>1, <1>2, SecondsOfInterval
  <2>2. later.tv_sec - earlier.tv_sec \in Int /\ (IntMax \div UsecsPerSec) + 1 \in Int
    BY <1>1, TimestampAssumption
  <2>3. ~IsTooLong(earlier, later)
    BY <1>1, <1>2, <2>1, <2>2 DEF IsTooLong
  <2> QED
    BY <1>2, <2>3, ToIntOfInt DEF Compare
<1>3. ASSUME Delta(earlier, later) < 0 PROVE Compare(earlier, later) = IntMax
  BY <1>3 DEF Compare, IsTooLong
<1> QED
  BY <1>2, <1>3

(* What is kept has been validated.                                        *)
TimestampsInv ==
    /\ kept \in [tv_sec : Nat, tv_usec : 0..UsecsPerSec-1]
    /\ clock \in Times
    /\ IntervalsAreTold

(* An interval that an int can hold is told exactly, and a clock that was  *)
(* set back as the longest one, for every time and every resolution.       *)
THEOREM IntervalsAlwaysTold == TimestampsSpec => []IntervalsAreTold
<1>1. TimestampsInit => TimestampsInv
  BY TimestampAssumption DEF TimestampsInit, TimestampsInv, IntervalsAreTold
<1>2. TimestampsInv /\ [TimestampsNext]_timeVars => TimestampsInv'
  <2> SUFFICES ASSUME TimestampsInv, [TimestampsNext]_timeVars PROVE TimestampsInv'
    OBVIOUS
  <2>1. ASSUME NEW t \in [tv_sec : Int, tv_usec : Int], KeyingEvent(t) PROVE TimestampsInv'
    <3>1. CASE ~IsValid(t)
      BY <2>1, <3>1 DEF KeyingEvent, TimestampsInv, IntervalsAreTold
    <3>2. CASE IsValid(t)
      <4>1. t \in [tv_sec : Nat, tv_usec : 0..UsecsPerSec-1]
        BY <3>2, TimestampAssumption DEF IsValid
      <4>2. /\ compared'.elapsed = Delta(kept, t) /\ compared'.answer = Compare(kept, t)
            /\ kept' = t /\ UNCHANGED clock
        BY <2>1, <3>2 DEF KeyingEvent
      <4>3. IntervalsAreTold'
        BY <4>1, <4>2, ComparisonIsTold DEF TimestampsInv, IntervalsAreTold
      <4> QED
        BY <4>1, <4>2, <4>3 DEF TimestampsInv
    <3> QED
      BY <3>1, <3>2
  <2>2. clock \in [tv_sec : Int, tv_usec : Int]
    BY TimestampAssumption DEF TimestampsInv, Times
  <2>3. CASE Events
    <3>1. /\ [tv_sec |-> clock.tv_sec - 1, tv_usec |-> clock.tv_usec + UsecsPerSec] \in [tv_sec : Int, tv_usec : Int]
          /\ [tv_sec |-> clock.tv_sec + 1, tv_usec |-> clock.tv_usec - UsecsPerSec] \in [tv_sec : Int, tv_usec : Int]
      BY <2>2, TimestampAssumption
    <3> QED
      BY <2>1, <2>2, <2>3, <3>1 DEF Events
  <2>4. CASE SetClock
    BY <2>4 DEF SetClock, TimestampsInv, IntervalsAreTold
  <2>5. CASE UNCHANGED timeVars
    BY <2>5 DEF timeVars, TimestampsInv, IntervalsAreTold
  <2> QED
    BY <2>3, <2>4, <2>5 DEF TimestampsNext
<1>3. TimestampsInv => IntervalsAreTold
  BY DEF TimestampsInv
<1> QED
  BY <1>1, <1>2, <1>3, PTL DEF TimestampsSpec

-----------------------------------------------------------------------------
(***************************************************************************)
(* The objects of a client.                                                *)
(***************************************************************************)

GeneratorRecords ==
    [life : {"none", "alive", "deleted"}, key : KeyObjects \cup {None}, generating : BOOLEAN, gap : Gaps]

(* Of each generator and key: what is not there yet is known to nobody,    *)
(* and what exists knows only what exists and knows it.                    *)
ObjectTypes ==
    /\ generators \in [GeneratorObjects -> GeneratorRecords]
    /\ keys \in [KeyObjects -> [life : {"none", "alive", "deleted"}, gen : GeneratorObjects \cup {None}]]
    /\ cw_generator \in GeneratorObjects \cup {None}
    /\ receiver_gap \in Gaps /\ misused \in BOOLEAN

GeneratorIsKnown(g) ==
    /\ generators[g].life = "none" => generators[g].key = None
    /\ generators[g].generating => generators[g].life = "alive"
    /\ generators[g].life = "alive" /\ generators[g].key # None =>
          /\ keys[generators[g].key].life = "alive"
          /\ keys[generators[g].key].gen = g
          /\ generators[g].key = GlobalKey <=> g = cw_generator

KeyIsKnown(k) ==
    /\ keys[k].life = "none" => keys[k].gen = None
    /\ keys[k].life = "alive" /\ keys[k].gen # None /\ k # GlobalKey =>
          generators[keys[k].gen].life = "alive" /\ generators[keys[k].gen].key = k

GlobalsAreKnown ==
    /\ keys[GlobalKey].life = "alive"
    /\ cw_generator # None =>
          /\ generators[cw_generator].life = "alive"
          /\ generators[cw_generator].key = GlobalKey
          /\ keys[GlobalKey].gen = cw_generator
    /\ keys[GlobalKey].gen \notin {None, cw_generator} => generators[keys[GlobalKey].gen].life = "deleted"

ObjectsInv ==
    /\ ObjectTypes
    /\ \A g \in GeneratorObjects : GeneratorIsKnown(g)
    /\ \A k \in KeyObjects : KeyIsKnown(k)
    /\ GlobalsAreKnown /\ ~misused

LEMMA UpdatedRecords ==
    ASSUME NEW f \in [GeneratorObjects -> GeneratorRecords], NEW g \in GeneratorObjects,
           NEW life \in {"none", "alive", "deleted"}, NEW key \in KeyObjects \cup {None}, NEW gap \in Gaps
    PROVE  /\ [f EXCEPT ![g].life = life, ![g].gap = gap] \in [GeneratorObjects -> GeneratorRecords]
           /\ [f EXCEPT ![g].life = life, ![g].generating = FALSE] \in [GeneratorObjects -> GeneratorRecords]
           /\ [f EXCEPT ![g].key = key] \in [GeneratorObjects -> GeneratorRecords]
<1>. DEFINE r1 == [f[g] EXCEPT !.life = life, !.gap = gap]
            r2 == [f[g] EXCEPT !.life = life, !.generating = FALSE]
            r3 == [f[g] EXCEPT !.key = key]
<1>1. f[g] \in GeneratorRecords
  OBVIOUS
<1>2. r1 \in GeneratorRecords /\ r2 \in GeneratorRecords /\ r3 \in GeneratorRecords
  BY <1>1 DEF GeneratorRecords
<1>3. /\ [f EXCEPT ![g].life = life, ![g].gap = gap] = [f EXCEPT ![g] = r1]
      /\ [f EXCEPT ![g].life = life, ![g].generating = FALSE] = [f EXCEPT ![g] = r2]
      /\ [f EXCEPT ![g].key = key] = [f EXCEPT ![g] = r3]
  OBVIOUS
<1>. HIDE DEF r1, r2, r3
<1> QED
  BY <1>2, <1>3

LEMMA InitObjectsInv == ObjectsInit => ObjectsInv
<1> SUFFICES ASSUME ObjectsInit PROVE ObjectsInv
  OBVIOUS
<1>1. ObjectTypes
  BY ObjectsAssumption DEF ObjectsInit, ObjectTypes, GeneratorRecords
<1>2. /\ \A g \in GeneratorObjects : generators[g].life = "none" /\ generators[g].key = None
                                        /\ ~generators[g].generating
      /\ \A k \in KeyObjects : keys[k].gen = None /\ keys[k].life \in {"none", "alive"}
      /\ keys[GlobalKey].life = "alive" /\ keys[GlobalKey].gen = None
      /\ cw_generator = None /\ ~misused
  BY ObjectsAssumption DEF ObjectsInit
<1> QED
  BY <1>1, <1>2, ObjectsAssumption DEF ObjectsInv, GeneratorIsKnown, KeyIsKnown, GlobalsAreKnown

(* The steps that change no more than the gap or that a thread runs.       *)
LEMMA QuietObjects ==
    ASSUME ObjectsInv, ObjectTypes',
           UNCHANGED <<keys, cw_generator, misused>>,
           \A g \in GeneratorObjects :
               /\ generators'[g].life = generators[g].life
               /\ generators'[g].key = generators[g].key
               /\ generators'[g].generating => generators'[g].life = "alive"
    PROVE  ObjectsInv'
<1>1. ASSUME NEW g \in GeneratorObjects PROVE GeneratorIsKnown(g)'
  <2>1. GeneratorIsKnown(g)
    BY DEF ObjectsInv
  <2> QED
    BY <2>1 DEF GeneratorIsKnown
<1>2. ASSUME NEW k \in KeyObjects PROVE KeyIsKnown(k)'
  <2>1. KeyIsKnown(k) /\ keys[k].gen \in GeneratorObjects \cup {None}
    BY DEF ObjectsInv, ObjectTypes, GeneratorRecords
  <2> QED
    BY <2>1 DEF KeyIsKnown
<1>3. GlobalsAreKnown'
  BY ObjectsAssumption DEF ObjectsInv, ObjectTypes, GeneratorRecords, GlobalsAreKnown
<1> QED
  BY <1>1, <1>2, <1>3 DEF ObjectsInv

LEMMA GeneratorStepsKeepObjects ==
    ASSUME CarefulClient, ObjectsInv, NEW g \in GeneratorObjects,
           GenNew(g) \/ GenDelete(g) \/ GenStart(g) \/ Clocked(g)
    PROVE  ObjectsInv'
<1> USE ObjectsAssumption
<1>1. ObjectTypes
  BY DEF ObjectsInv
<1>2. GeneratorIsKnown(g)
  BY DEF ObjectsInv
<1>3. CASE Clocked(g)
  <2>1. generators[g].key \in LiveKeys
    <3>1. generators[g].key \in KeyObjects /\ keys[generators[g].key].life = "alive"
      BY <1>1, <1>2, <1>3 DEF Clocked, GeneratorIsKnown, ObjectTypes, GeneratorRecords
    <3> QED
      BY <1>1, <3>1 DEF LiveKeys, Lives, ObjectTypes, GeneratorRecords
  <2>2. ~misused
    BY DEF ObjectsInv
  <2>3. UNCHANGED <<generators, keys, cw_generator, receiver_gap>> /\ misused' = FALSE
    BY <1>3, <2>1, <2>2 DEF Clocked
  <2>4. \A h \in GeneratorObjects : generators[h].generating => generators[h].life = "alive"
    BY DEF ObjectsInv, GeneratorIsKnown
  <2>5. UNCHANGED misused
    BY <2>2, <2>3, <1>1 DEF ObjectTypes, GeneratorRecords
  <2>6. ObjectTypes'
    BY <1>1, <2>3 DEF ObjectTypes, GeneratorRecords
  <2> QED
    BY <2>3, <2>4, <2>5, <2>6, QuietObjects
<1>4. CASE GenStart(g)
  <2>1. generators[g].life = "alive"
    BY <1>1, <1>4 DEF GenStart, LiveGenerators, Lives, ObjectTypes, GeneratorRecords
  <2>2. /\ ObjectTypes'
        /\ \A h \in GeneratorObjects :
               /\ generators'[h].life = generators[h].life
               /\ generators'[h].key = generators[h].key
               /\ generators'[h].generating => h = g \/ generators[h].generating
    BY <1>1, <1>4, ZenonT(60) DEF GenStart, ObjectTypes, GeneratorRecords
  <2>3. \A h \in GeneratorObjects : generators[h].generating => generators[h].life = "alive"
    BY DEF ObjectsInv, GeneratorIsKnown
  <2> QED
    BY <1>4, <2>1, <2>2, <2>3, QuietObjects DEF GenStart
<1>5. CASE GenNew(g) \/ GenDelete(g)
  <2>1. /\ generators[g].key = None
        /\ g # cw_generator
        /\ UNCHANGED <<keys, cw_generator, receiver_gap, misused>>
        /\ generators' \in {CreatedGenerator(g), WithoutGenerator(g)}
        /\ generators[g].life = "none" \/ generators' = WithoutGenerator(g)
    BY <1>1, <1>2, <1>5 DEF GenNew, GenDelete, GeneratorIsKnown, ObjectsInv, GlobalsAreKnown
  <2>2. /\ ObjectTypes'
        /\ \A h \in GeneratorObjects \ {g} : generators'[h] = generators[h]
        /\ generators'[g].life \in {"alive", "deleted"} /\ generators'[g].key = None
        /\ generators'[g].generating => generators[g].generating /\ generators'[g].life = "alive"
    <3>1. CASE generators' = CreatedGenerator(g)
      <4>1. generators'[g] = [generators[g] EXCEPT !.life = "alive", !.gap = InitialGap]
        BY <1>1, <3>1 DEF CreatedGenerator, ObjectTypes, GeneratorRecords
      <4>2. \A h \in GeneratorObjects \ {g} : generators'[h] = generators[h]
        BY <1>1, <3>1 DEF CreatedGenerator, ObjectTypes, GeneratorRecords
      <4>3. ObjectTypes'
        BY <1>1, <2>1, <3>1, UpdatedRecords, ZenonT(60) DEF CreatedGenerator, ObjectTypes
      <4> QED
        BY <1>1, <2>1, <4>1, <4>2, <4>3 DEF ObjectTypes, GeneratorRecords
    <3>2. CASE generators' = WithoutGenerator(g)
      <4>1. generators'[g] = [generators[g] EXCEPT !.life = "deleted", !.generating = FALSE]
        BY <1>1, <3>2 DEF WithoutGenerator, ObjectTypes, GeneratorRecords
      <4>2. \A h \in GeneratorObjects \ {g} : generators'[h] = generators[h]
        BY <1>1, <3>2 DEF WithoutGenerator, ObjectTypes, GeneratorRecords
      <4>3. ObjectTypes'
        BY <1>1, <2>1, <3>2, UpdatedRecords DEF WithoutGenerator, ObjectTypes
      <4> QED
        BY <1>1, <2>1, <4>1, <4>2, <4>3 DEF ObjectTypes, GeneratorRecords
    <3> QED
      BY <2>1, <3>1, <3>2
  <2>3. ASSUME NEW h \in GeneratorObjects PROVE GeneratorIsKnown(h)'
    <3>1. CASE h = g
      BY <2>2, <3>1 DEF GeneratorIsKnown
    <3>2. CASE h # g
      <4>1. GeneratorIsKnown(h)
        BY DEF ObjectsInv
      <4> QED
        BY <2>1, <2>2, <3>2, <4>1 DEF GeneratorIsKnown
    <3> QED
      BY <3>1, <3>2
  <2>4. ASSUME NEW k \in KeyObjects PROVE KeyIsKnown(k)'
    <3>1. KeyIsKnown(k) /\ keys[k].gen \in GeneratorObjects \cup {None}
      BY <1>1 DEF ObjectsInv, ObjectTypes, GeneratorRecords
    <3>2. CASE keys[k].gen \in {None, g}
      BY <2>1, <2>2, <3>1, <3>2 DEF KeyIsKnown
    <3>3. CASE keys[k].gen \notin {None, g}
      BY <2>1, <2>2, <3>1, <3>3 DEF KeyIsKnown
    <3> QED
      BY <3>2, <3>3
  <2>5. GlobalsAreKnown'
    <3>1. GlobalsAreKnown
      BY DEF ObjectsInv
    <3>2. keys[GlobalKey].gen \in GeneratorObjects \cup {None} /\ cw_generator \in GeneratorObjects \cup {None}
      BY <1>1 DEF ObjectTypes, GeneratorRecords
    <3>3. ASSUME keys[GlobalKey].gen = g PROVE generators'[g].life = "deleted"
      <4>1. generators[g].life = "deleted"
        BY <2>1, <3>1, <3>3 DEF GlobalsAreKnown
      <4>2. generators' = WithoutGenerator(g)
        BY <2>1, <4>1
      <4> QED
        BY <1>1, <4>2 DEF WithoutGenerator, ObjectTypes, GeneratorRecords
    <3>4. CASE keys[GlobalKey].gen = g
      BY <2>1, <2>2, <3>1, <3>2, <3>3, <3>4 DEF GlobalsAreKnown
    <3>5. CASE keys[GlobalKey].gen # g
      BY <2>1, <2>2, <3>1, <3>2, <3>5 DEF GlobalsAreKnown
    <3> QED
      BY <3>4, <3>5
  <2> QED
    BY <2>1, <2>2, <2>3, <2>4, <2>5 DEF ObjectsInv
<1> QED
  BY <1>3, <1>4, <1>5

LEMMA KeyStepsKeepObjects ==
    ASSUME CarefulClient, ObjectsInv, NEW k \in KeyObjects, KeyNew(k) \/ KeyDelete(k) \/ KeyEvent(k)
    PROVE  ObjectsInv'
<1> USE ObjectsAssumption
<1>1. ObjectTypes
  BY DEF ObjectsInv
<1>2. KeyIsKnown(k)
  BY DEF ObjectsInv
<1>3. CASE KeyEvent(k)
  <2>1. ~misused
    BY DEF ObjectsInv
  <2>2. UNCHANGED <<generators, keys, cw_generator, receiver_gap>> /\ misused' = FALSE
    BY <1>3, <2>1 DEF KeyEvent
  <2>3. \A h \in GeneratorObjects : generators[h].generating => generators[h].life = "alive"
    BY DEF ObjectsInv, GeneratorIsKnown
  <2>4. UNCHANGED misused
    BY <1>1, <2>1, <2>2 DEF ObjectTypes, GeneratorRecords
  <2>5. ObjectTypes'
    BY <1>1, <2>2 DEF ObjectTypes, GeneratorRecords
  <2> QED
    BY <2>2, <2>3, <2>4, <2>5, QuietObjects
<1>4. CASE KeyNew(k)
  <2>1. /\ keys[k].gen = None
        /\ k # GlobalKey
        /\ UNCHANGED <<generators, cw_generator, receiver_gap, misused>>
    BY <1>2, <1>4 DEF KeyNew, KeyIsKnown, ObjectsInv, GlobalsAreKnown
  <2>2. /\ ObjectTypes'
        /\ \A j \in KeyObjects \ {k} : keys'[j] = keys[j]
        /\ keys'[k].life = "alive" /\ keys'[k].gen = None
    BY <1>1, <1>4, <2>1 DEF KeyNew, ObjectTypes, GeneratorRecords
  <2>3. ASSUME NEW g \in GeneratorObjects PROVE GeneratorIsKnown(g)'
    <3>1. GeneratorIsKnown(g) /\ generators[g].key \in KeyObjects \cup {None} /\ g # None
      BY <1>1 DEF ObjectsInv, ObjectTypes, GeneratorRecords
    <3> QED
      BY <2>1, <2>2, <3>1 DEF GeneratorIsKnown
  <2>4. ASSUME NEW j \in KeyObjects PROVE KeyIsKnown(j)'
    <3>1. KeyIsKnown(j)
      BY DEF ObjectsInv
    <3> QED
      BY <2>1, <2>2, <3>1 DEF KeyIsKnown
  <2>5. GlobalsAreKnown'
    BY <2>1, <2>2 DEF ObjectsInv, GlobalsAreKnown
  <2> QED
    BY <2>1, <2>2, <2>3, <2>4, <2>5 DEF ObjectsInv
<1>5. CASE KeyDelete(k)
  <2>1. keys[k].life = "alive" /\ k # GlobalKey
    BY <1>1, <1>5 DEF KeyDelete, LiveKeys, Lives, ObjectTypes, GeneratorRecords
  <2>2. keys[k].gen \in LiveGenerators \cup {None}
    BY <1>1, <1>2, <2>1 DEF KeyIsKnown, ObjectTypes, GeneratorRecords, LiveGenerators, Lives
  <2>3. ~misused
    BY DEF ObjectsInv
  <2>4. misused' = FALSE /\ UNCHANGED <<cw_generator, receiver_gap>>
    BY <1>5, <2>2, <2>3 DEF KeyDelete
  <2>5. /\ keys' \in [KeyObjects -> [life : {"none", "alive", "deleted"}, gen : GeneratorObjects \cup {None}]]
        /\ \A j \in KeyObjects \ {k} : keys'[j] = keys[j]
        /\ keys'[k].life = "deleted" /\ keys'[k].gen = keys[k].gen
    BY <1>1, <1>5 DEF KeyDelete, ObjectTypes, GeneratorRecords
  <2>6. /\ generators' \in [GeneratorObjects -> GeneratorRecords]
        /\ \A g \in GeneratorObjects :
              /\ generators'[g].life = generators[g].life
              /\ generators'[g].generating => generators[g].generating
              /\ generators'[g].key = IF g = keys[k].gen THEN None ELSE generators[g].key
    <3>1. keys[k].gen \in GeneratorObjects \cup {None}
      BY <1>1 DEF ObjectTypes, GeneratorRecords
    <3>2. CASE keys[k].gen = None
      BY <1>1, <1>5, <3>2 DEF KeyDelete, ForgottenByGenerator, ObjectTypes, GeneratorRecords
    <3>3. CASE keys[k].gen # None
      <4>1. generators' = [generators EXCEPT ![keys[k].gen].key = None]
        BY <1>5, <3>3 DEF KeyDelete, ForgottenByGenerator
      <4> QED
        BY <1>1, <3>1, <3>3, <4>1 DEF ObjectTypes, GeneratorRecords
    <3> QED
      BY <3>2, <3>3
  <2>7. ObjectTypes'
    BY <1>1, <2>4, <2>5, <2>6 DEF ObjectTypes, GeneratorRecords
  <2>8. ASSUME NEW g \in GeneratorObjects PROVE GeneratorIsKnown(g)'
    <3>1. GeneratorIsKnown(g) /\ generators[g].key \in KeyObjects \cup {None}
      BY <1>1 DEF ObjectsInv, ObjectTypes, GeneratorRecords
    <3>2. CASE g = keys[k].gen
      BY <2>4, <2>6, <3>1, <3>2 DEF GeneratorIsKnown
    <3>3. CASE g # keys[k].gen
      <4>1. generators[g].life = "alive" => generators[g].key # k
        BY <3>1, <3>3 DEF GeneratorIsKnown
      <4> QED
        BY <2>4, <2>5, <2>6, <3>1, <3>3, <4>1 DEF GeneratorIsKnown
    <3> QED
      BY <3>2, <3>3
  <2>9. ASSUME NEW j \in KeyObjects PROVE KeyIsKnown(j)'
    <3>1. KeyIsKnown(j) /\ keys[j].gen \in GeneratorObjects \cup {None}
      BY <1>1 DEF ObjectsInv, ObjectTypes, GeneratorRecords
    <3>2. CASE j = k
      BY <2>5, <3>2 DEF KeyIsKnown
    <3>3. CASE j # k
      <4>1. ASSUME keys[j].life = "alive", keys[j].gen # None, j # GlobalKey PROVE keys[j].gen # keys[k].gen
        BY <1>2, <2>1, <3>1, <3>3, <4>1 DEF KeyIsKnown
      <4> QED
        BY <2>5, <2>6, <3>1, <3>3, <4>1 DEF KeyIsKnown
    <3> QED
      BY <3>2, <3>3
  <2>10. GlobalsAreKnown'
    <3>1. GlobalsAreKnown /\ keys[GlobalKey].gen \in GeneratorObjects \cup {None}
          /\ cw_generator \in GeneratorObjects \cup {None}
      BY <1>1 DEF ObjectsInv, ObjectTypes, GeneratorRecords
    <3>2. cw_generator # None => cw_generator # keys[k].gen
      BY <1>2, <2>1, <3>1 DEF GlobalsAreKnown, KeyIsKnown
    <3> QED
      BY <2>1, <2>4, <2>5, <2>6, <3>1, <3>2 DEF GlobalsAreKnown
  <2> QED
    BY <2>4, <2>7, <2>8, <2>9, <2>10 DEF ObjectsInv
<1> QED
  BY <1>3, <1>4, <1>5

(* Register needs a generator and a key that are not global and know       *)
(* nobody; the global ones are registered when the generator is made.      *)
LEMMA RegistrationKeepsObjects ==
    ASSUME CarefulClient, ObjectsInv, NEW k \in KeyObjects, NEW g \in GeneratorObjects,
           \/ Register(k, g)
           \/ GeneratorNew(g) /\ cw_generator' = g /\ k = GlobalKey
    PROVE  ObjectsInv'
<1> USE ObjectsAssumption
<1>1. ObjectTypes
  BY DEF ObjectsInv
<1>2. /\ keys[k].life = "alive" /\ g # None
      /\ generators[g].key = None
      /\ keys' = KeyRegistered(k, g) /\ UNCHANGED <<receiver_gap, misused>>
      /\ \/ /\ generators[g].life = "alive" /\ keys[k].gen = None
            /\ g # cw_generator /\ k # GlobalKey
            /\ generators' = GeneratorRegistered(generators, k, g) /\ UNCHANGED cw_generator
         \/ /\ generators[g].life = "none" /\ cw_generator = None
            /\ cw_generator' = g /\ k = GlobalKey
            /\ generators' = GeneratorRegistered(CreatedGenerator(g), k, g)
  <2>1. CASE Register(k, g)
    BY <1>1, <2>1 DEF Register, LiveKeys, LiveGenerators, Lives, ObjectTypes, GeneratorRecords
  <2>2. CASE GeneratorNew(g) /\ cw_generator' = g /\ k = GlobalKey
    <3>1. generators[g].life = "none" => generators[g].key = None
      BY DEF ObjectsInv, GeneratorIsKnown
    <3>2. keys[GlobalKey].life = "alive" /\ g # None
      BY DEF ObjectsInv, GlobalsAreKnown
    <3> QED
      BY <2>2, <3>1, <3>2 DEF GeneratorNew
  <2> QED
    BY <2>1, <2>2
<1>3. /\ keys' \in [KeyObjects -> [life : {"none", "alive", "deleted"}, gen : GeneratorObjects \cup {None}]]
      /\ \A j \in KeyObjects \ {k} : keys'[j] = keys[j]
      /\ keys'[k].life = "alive" /\ keys'[k].gen = g
  BY <1>1, <1>2 DEF KeyRegistered, ObjectTypes, GeneratorRecords
<1>4. /\ generators' \in [GeneratorObjects -> GeneratorRecords]
      /\ \A h \in GeneratorObjects \ {g} : generators'[h] = generators[h]
      /\ generators'[g].life = "alive" /\ generators'[g].key = k
  <2>1. CASE generators[g].life = "alive" /\ generators' = GeneratorRegistered(generators, k, g)
    <3>1. generators' \in [GeneratorObjects -> GeneratorRecords]
      BY <1>1, <2>1, UpdatedRecords DEF GeneratorRegistered, ObjectTypes
    <3> QED
      BY <1>1, <1>2, <2>1, <3>1 DEF GeneratorRegistered, ObjectTypes, GeneratorRecords
  <2>2. CASE generators' = GeneratorRegistered(CreatedGenerator(g), k, g)
    <3>1. /\ CreatedGenerator(g) \in [GeneratorObjects -> GeneratorRecords]
          /\ \A h \in GeneratorObjects \ {g} : CreatedGenerator(g)[h] = generators[h]
          /\ CreatedGenerator(g)[g].life = "alive"
      <4>1. CreatedGenerator(g) \in [GeneratorObjects -> GeneratorRecords]
        BY <1>1, UpdatedRecords, ZenonT(60) DEF CreatedGenerator, ObjectTypes
      <4> QED
        BY <1>1, <4>1 DEF CreatedGenerator, ObjectTypes, GeneratorRecords
    <3> DEFINE created == CreatedGenerator(g)
    <3> HIDE DEF created
    <3>2. generators' = [created EXCEPT ![g].key = k]
      BY <2>2 DEF GeneratorRegistered, created
    <3>3. /\ created \in [GeneratorObjects -> GeneratorRecords]
          /\ \A h \in GeneratorObjects \ {g} : created[h] = generators[h]
          /\ created[g].life = "alive"
      BY <3>1 DEF created
    <3>4. generators' \in [GeneratorObjects -> GeneratorRecords]
      BY <3>2, <3>3, UpdatedRecords, ZenonT(60)
    <3> QED
      BY <3>2, <3>3, <3>4 DEF GeneratorRecords
  <2> QED
    BY <1>2, <2>1, <2>2
<1>5. cw_generator' \in {cw_generator, g} /\ ObjectTypes'
  BY <1>1, <1>2, <1>3, <1>4 DEF ObjectTypes, GeneratorRecords
<1>6. ASSUME NEW h \in GeneratorObjects PROVE GeneratorIsKnown(h)'
  <2>1. GeneratorIsKnown(h) /\ generators[h].key \in KeyObjects \cup {None}
    BY <1>1 DEF ObjectsInv, ObjectTypes, GeneratorRecords
  <2>2. CASE h = g
    <3>1. cw_generator' = g <=> k = GlobalKey
      BY <1>2
    <3> QED
      BY <1>2, <1>3, <1>4, <2>1, <2>2, <3>1 DEF GeneratorIsKnown
  <2>3. CASE h # g
    <3>1. ASSUME generators[h].life = "alive" PROVE generators[h].key # k
      <4>1. CASE keys[k].gen = None
        BY <2>1, <3>1, <4>1 DEF GeneratorIsKnown
      <4>2. CASE cw_generator = None /\ k = GlobalKey
        BY <2>1, <3>1, <4>2 DEF GeneratorIsKnown
      <4> QED
        BY <1>2, <4>1, <4>2
    <3>2. generators[h].life = "alive" =>
             (generators[h].key = GlobalKey <=> h = cw_generator) \/ generators[h].key = None
      BY <2>1 DEF GeneratorIsKnown
    <3>3. generators[h].life = "alive" /\ generators[h].key = GlobalKey => cw_generator' = cw_generator
      BY <1>2, <3>1
    <3>4. h = cw_generator => cw_generator' = cw_generator
      BY <1>2
    <3>5. h = cw_generator' => h = cw_generator
      BY <1>5, <2>3
    <3> QED
      BY <1>3, <1>4, <2>1, <2>3, <3>1, <3>2, <3>3, <3>4, <3>5 DEF GeneratorIsKnown
  <2> QED
    BY <2>2, <2>3
<1>7. ASSUME NEW j \in KeyObjects PROVE KeyIsKnown(j)'
  <2>1. KeyIsKnown(j) /\ keys[j].gen \in GeneratorObjects \cup {None}
    BY <1>1 DEF ObjectsInv, ObjectTypes, GeneratorRecords
  <2>2. CASE j = k
    BY <1>3, <1>4, <2>2 DEF KeyIsKnown
  <2>3. CASE j # k
    <3>1. ASSUME keys[j].life = "alive", j # GlobalKey, keys[j].gen # None PROVE keys[j].gen # g
      BY <1>2, <2>1, <3>1 DEF KeyIsKnown
    <3> QED
      BY <1>3, <1>4, <2>1, <2>3, <3>1 DEF KeyIsKnown
  <2> QED
    BY <2>2, <2>3
<1>8. GlobalsAreKnown'
  <2>1. /\ GlobalsAreKnown /\ keys[GlobalKey].gen \in GeneratorObjects \cup {None}
        /\ cw_generator \in GeneratorObjects \cup {None}
    BY <1>1 DEF ObjectsInv, ObjectTypes, GeneratorRecords
  <2>2. CASE k = GlobalKey
    BY <1>2, <1>3, <1>4, <2>1, <2>2 DEF GlobalsAreKnown
  <2>3. CASE k # GlobalKey
    <3>1. cw_generator' = cw_generator /\ g # cw_generator /\ generators[g].life = "alive"
      BY <1>2, <2>3
    <3>2. keys'[GlobalKey] = keys[GlobalKey] /\ keys[GlobalKey].gen # g
      BY <1>3, <2>1, <2>3, <3>1, <1>2 DEF GlobalsAreKnown
    <3> QED
      BY <1>4, <2>1, <3>1, <3>2 DEF GlobalsAreKnown
  <2> QED
    BY <2>2, <2>3
<1>9. ~misused'
  BY <1>2 DEF ObjectsInv
<1> QED
  BY <1>5, <1>6, <1>7, <1>8, <1>9 DEF ObjectsInv

LEMMA GlobalStepsKeepObjects ==
    ASSUME ObjectsInv, GeneratorDelete \/ \E gap \in Gaps : SetGap(gap)
    PROVE  ObjectsInv'
<1> USE ObjectsAssumption
<1>1. ObjectTypes /\ GlobalsAreKnown
  BY DEF ObjectsInv
<1>2. ASSUME NEW gap \in Gaps, SetGap(gap) PROVE ObjectsInv'
  <2>1. /\ ObjectTypes'
        /\ \A h \in GeneratorObjects :
               /\ generators'[h].life = generators[h].life
               /\ generators'[h].key = generators[h].key
               /\ generators'[h].generating => generators[h].generating
    BY <1>1, <1>2 DEF SetGap, ObjectTypes, GeneratorRecords
  <2>2. \A h \in GeneratorObjects : generators[h].generating => generators[h].life = "alive"
    BY DEF ObjectsInv, GeneratorIsKnown
  <2> QED
    BY <1>2, <2>1, <2>2, QuietObjects DEF SetGap
<1>3. CASE GeneratorDelete
  <2>. DEFINE g == cw_generator
  <2>1. /\ g \in GeneratorObjects /\ generators[g].life = "alive" /\ generators[g].key = GlobalKey
        /\ keys[GlobalKey].gen = g /\ g # None
        /\ cw_generator' = None
        /\ generators' = WithoutGenerator(g)
        /\ UNCHANGED <<keys, receiver_gap, misused>>
    BY <1>1, <1>3 DEF GeneratorDelete, GlobalsAreKnown, ObjectTypes, GeneratorRecords
  <2>. HIDE DEF g
  <2>2. /\ ObjectTypes'
        /\ \A h \in GeneratorObjects \ {g} : generators'[h] = generators[h]
        /\ generators'[g].life = "deleted" /\ ~generators'[g].generating
    <3>1. generators'[g] = [generators[g] EXCEPT !.life = "deleted", !.generating = FALSE]
      BY <1>1, <2>1 DEF WithoutGenerator, ObjectTypes, GeneratorRecords
    <3>2. \A h \in GeneratorObjects \ {g} : generators'[h] = generators[h]
      BY <1>1, <2>1 DEF WithoutGenerator, ObjectTypes, GeneratorRecords
    <3>3. ObjectTypes'
      BY <1>1, <2>1, UpdatedRecords DEF WithoutGenerator, ObjectTypes
    <3> QED
      BY <1>1, <2>1, <3>1, <3>2, <3>3 DEF ObjectTypes, GeneratorRecords
  <2>3. ASSUME NEW h \in GeneratorObjects PROVE GeneratorIsKnown(h)'
    <3>1. GeneratorIsKnown(h) /\ generators[h].key \in KeyObjects \cup {None}
      BY <1>1 DEF ObjectsInv, ObjectTypes, GeneratorRecords
    <3>2. CASE h = g
      BY <2>2, <3>2 DEF GeneratorIsKnown
    <3>3. CASE h # g
      <4>1. generators[h].life = "alive" => generators[h].key # GlobalKey
        BY <2>1, <3>1, <3>3 DEF GeneratorIsKnown
      <4>2. h # cw_generator'
        BY <2>1
      <4> QED
        BY <2>1, <2>2, <3>1, <3>3, <4>1, <4>2 DEF GeneratorIsKnown
    <3> QED
      BY <3>2, <3>3
  <2>4. ASSUME NEW k \in KeyObjects PROVE KeyIsKnown(k)'
    <3>1. KeyIsKnown(k) /\ keys[k].gen \in GeneratorObjects \cup {None}
      BY <1>1 DEF ObjectsInv, ObjectTypes, GeneratorRecords
    <3>2. keys[k].life = "alive" /\ k # GlobalKey /\ keys[k].gen # None => keys[k].gen # g
      BY <2>1, <3>1 DEF KeyIsKnown
    <3> QED
      BY <2>1, <2>2, <3>1, <3>2 DEF KeyIsKnown
  <2>5. GlobalsAreKnown'
    BY <1>1, <2>1, <2>2 DEF GlobalsAreKnown
  <2> QED
    BY <2>1, <2>2, <2>3, <2>4, <2>5 DEF ObjectsInv
<1> QED
  BY <1>2, <1>3

LEMMA NextObjectsInv ==
    ASSUME CarefulClient, ObjectsInv, [ObjectsNext]_objectsVars
    PROVE  ObjectsInv'
<1>1. ASSUME NEW g \in GeneratorObjects, GeneratorNew(g) PROVE ObjectsInv'
  <2>1. CASE cw_generator' = g /\ generators[g].life = "none"
    BY <1>1, <2>1, RegistrationKeepsObjects, ObjectsAssumption
  <2>2. CASE cw_generator' = None /\ UNCHANGED <<keys, generators>>
    <3>1. cw_generator = None
      BY <1>1 DEF GeneratorNew
    <3>2. UNCHANGED objectsVars
      BY <1>1, <2>2, <3>1 DEF GeneratorNew, objectsVars
    <3> QED
      BY <3>2 DEF objectsVars, ObjectsInv, ObjectTypes, GeneratorRecords, GeneratorIsKnown, KeyIsKnown, GlobalsAreKnown
  <2> QED
    BY <1>1, <2>1, <2>2 DEF GeneratorNew
<1>2. CASE UNCHANGED objectsVars
  BY <1>2 DEF objectsVars, ObjectsInv, ObjectTypes, GeneratorRecords, GeneratorIsKnown, KeyIsKnown, GlobalsAreKnown
<1>3. CASE ResetParameters
  BY <1>3, GlobalStepsKeepObjects, ObjectsAssumption DEF ResetParameters
<1> QED
  BY <1>1, <1>2, <1>3, GeneratorStepsKeepObjects, KeyStepsKeepObjects, RegistrationKeepsObjects,
     GlobalStepsKeepObjects DEF ObjectsNext

(* Keys and generators that know each other keep doing so, and nobody uses *)
(* what has been deleted, for any number of both, as long as the client    *)
(* registers a key once, deletes it before its generator and does not use  *)
(* it afterwards.                                                          *)
THEOREM ObjectsAlwaysAgree ==
    ASSUME CarefulClient
    PROVE  ObjectsSpec => []ObjectsAgree
<1>1. ObjectsInv => ObjectsAgree
  <2> SUFFICES ASSUME ObjectsInv PROVE ObjectsAgree
    OBVIOUS
  <2>1. ASSUME NEW g \in LiveGenerators, generators[g].key # None
        PROVE  keys[generators[g].key].gen = g
    BY <2>1 DEF LiveGenerators, Lives, ObjectsInv, ObjectTypes, GeneratorRecords, GeneratorIsKnown
  <2>2. ASSUME NEW k \in LiveKeys, keys[k].gen \in LiveGenerators
        PROVE  generators[keys[k].gen].key = k
    <3>1. /\ k \in KeyObjects /\ keys[k].life = "alive" /\ keys[k].gen # None
          /\ generators[keys[k].gen].life = "alive"
      BY <2>2, ObjectsAssumption DEF LiveKeys, LiveGenerators, Lives, ObjectsInv, ObjectTypes, GeneratorRecords
    <3>2. CASE k = GlobalKey
      BY <3>1, <3>2 DEF ObjectsInv, GlobalsAreKnown
    <3>3. CASE k # GlobalKey
      BY <3>1, <3>3 DEF ObjectsInv, KeyIsKnown
    <3> QED
      BY <3>2, <3>3
  <2> QED
    BY <2>1, <2>2 DEF ObjectsAgree, NothingIsMisused, RegistrationsAgree, ObjectsInv
<1>2. ObjectsInv /\ [ObjectsNext]_objectsVars => ObjectsInv'
  BY NextObjectsInv
<1> QED
  BY <1>1, <1>2, InitObjectsInv, PTL DEF ObjectsSpec

-----------------------------------------------------------------------------
(***************************************************************************)
(* The statistics of a receiver.                                           *)
(***************************************************************************)

Records == [type : RecordTypes, duration_delta : Int]

(* Where the record before the latest i - 1 ones is.                       *)
SlotOf(i, idx) == IF i =< idx THEN idx - i ELSE idx - i + StatsCapacity

StatisticsTypes ==
    /\ unit_duration \in Nat \ {0}
    /\ duration_stats \in [Slots -> Records \cup {Free}]
    /\ duration_stats_idx \in Slots
    /\ recorded \in Seq(Records) /\ Len(recorded) =< StatsCapacity

(* The ring has the latest records behind its index, one after the other,  *)
(* and before it is full nothing else.                                     *)
RingHasLatest ==
    /\ Len(recorded) < StatsCapacity => duration_stats_idx = Len(recorded)
    /\ \A i \in 1..Len(recorded) : duration_stats[SlotOf(i, duration_stats_idx)] = recorded[i]
    /\ \A s \in Slots : s >= Len(recorded) => duration_stats[s] = Free

StatisticsInv == StatisticsTypes /\ RingHasLatest

-----------------------------------------------------------------------------
LEMMA SlotsOfRing ==
    ASSUME NEW idx \in Slots, NEW n \in 0..StatsCapacity, n < StatsCapacity => idx = n
    PROVE  /\ \A i \in 1..n : SlotOf(i, idx) \in 0..n-1
           /\ \A i, j \in 1..n : SlotOf(i, idx) = SlotOf(j, idx) => i = j
           /\ \A s \in 0..n-1 : \E i \in 1..n : SlotOf(i, idx) = s
           /\ 0..n-1 \subseteq Slots
<1>1. /\ StatsCapacity \in Nat \ {0} /\ idx \in Nat /\ idx < StatsCapacity
      /\ n \in Nat /\ n =< StatsCapacity /\ (n = StatsCapacity \/ idx = n)
  BY StatisticsAssumption DEF Slots
<1>2. \A i \in 1..n : SlotOf(i, idx) \in 0..n-1
  BY <1>1 DEF SlotOf
<1>3. \A i, j \in 1..n : SlotOf(i, idx) = SlotOf(j, idx) => i = j
  BY <1>1 DEF SlotOf
<1>4. ASSUME NEW s \in 0..n-1 PROVE \E i \in 1..n : SlotOf(i, idx) = s
  <2>1. CASE s < idx
    <3>1. idx - s \in 1..n /\ SlotOf(idx - s, idx) = s
      BY <1>1, <2>1 DEF SlotOf
    <3> QED
      BY <3>1
  <2>2. CASE s >= idx
    <3>1. idx - s + StatsCapacity \in 1..n /\ SlotOf(idx - s + StatsCapacity, idx) = s
      BY <1>1, <2>2 DEF SlotOf
    <3> QED
      BY <3>1
  <2> QED
    BY <1>1, <2>1, <2>2
<1>5. 0..n-1 \subseteq Slots
  BY <1>1 DEF Slots
<1> QED
  BY <1>2, <1>3, <1>4, <1>5

LEMMA InitStatisticsInv == StatisticsInit => StatisticsInv
<1> SUFFICES ASSUME StatisticsInit PROVE StatisticsInv
  OBVIOUS
<1>1. StatisticsTypes
  <2>1. recorded = <<>> /\ <<>> \in Seq(Records) /\ Len(<<>>) = 0
    BY DEF StatisticsInit
  <2> QED
    BY <2>1, StatisticsAssumption DEF StatisticsInit, StatisticsTypes, Slots
<1>2. RingHasLatest
  BY StatisticsAssumption DEF StatisticsInit, RingHasLatest, Slots
<1> QED
  BY <1>1, <1>2 DEF StatisticsInv

(* A record takes the place of the oldest one when the ring is full.       *)
LEMMA UpdateKeepsRing ==
    ASSUME StatisticsInv, NEW type \in RecordTypes, NEW duration \in StatDurations,
           UpdateStatistics(type, duration)
    PROVE  StatisticsInv'
<1>. DEFINE record == [type |-> type, duration_delta |-> duration - Ideal(type)]
            n == Len(recorded)
            idx == duration_stats_idx
            older == IF n < StatsCapacity THEN recorded ELSE Front(recorded)
            m == IF n < StatsCapacity THEN n ELSE n - 1
<1>1. record \in Records
  <2>1. duration - Ideal(type) \in Int
    <3>1. Ideal(type) \in Int
      BY DEF StatisticsInv, StatisticsTypes, Ideal
    <3> QED
      BY <3>1, StatisticsAssumption
  <2> QED
    BY <2>1 DEF Records
<1>2. /\ recorded' = <<record>> \o older
      /\ duration_stats' = [duration_stats EXCEPT ![idx] = record]
      /\ idx' = (idx + 1) % StatsCapacity
      /\ UNCHANGED unit_duration
  BY DEF UpdateStatistics, Stored
<1>3. /\ StatsCapacity \in Nat \ {0} /\ idx \in Nat /\ idx < StatsCapacity
      /\ n \in Nat /\ n =< StatsCapacity /\ recorded \in Seq(Records)
      /\ idx \in Slots
  BY StatisticsAssumption DEF StatisticsInv, StatisticsTypes, Slots
<1>. HIDE DEF record
<1>4. older \in Seq(Records) /\ Len(older) = m /\ \A i \in 1..m : older[i] = recorded[i]
  BY <1>3 DEF Front
<1>5. m \in Nat /\ m < StatsCapacity /\ (n < StatsCapacity => m = n) /\ (n = StatsCapacity => m = n - 1)
  BY <1>3
<1>. HIDE DEF older, m
<1>6. /\ recorded' \in Seq(Records) /\ Len(recorded') = m + 1
      /\ recorded'[1] = record
      /\ \A i \in 1..m : recorded'[i + 1] = recorded[i]
  <2>1. <<record>> \in Seq(Records) /\ Len(<<record>>) = 1 /\ <<record>>[1] = record
    BY <1>1
  <2> QED
    BY <1>2, <1>4, <1>5, <2>1
<1>7. idx' = (IF idx + 1 = StatsCapacity THEN 0 ELSE idx + 1)
  <2>1. \A k \in Nat, d \in Nat \ {0} : k < d => k % d = k
    OBVIOUS
  <2>2. \A d \in Nat \ {0} : d % d = 0
    OBVIOUS
  <2>3. idx + 1 \in Nat /\ (idx + 1 < StatsCapacity \/ idx + 1 = StatsCapacity)
    BY <1>3
  <2>4. (idx + 1) % StatsCapacity = (IF idx + 1 = StatsCapacity THEN 0 ELSE idx + 1)
    <3>. HIDE DEF idx
    <3> QED
      BY <1>3, <2>1, <2>2, <2>3
  <2> QED
    BY <1>2, <2>4
<1>8. idx' \in Slots
  BY <1>3, <1>7 DEF Slots
<1>9. /\ duration_stats' \in [Slots -> Records \cup {Free}]
      /\ duration_stats'[idx] = record
      /\ \A s \in Slots : s # idx => duration_stats'[s] = duration_stats[s]
  BY <1>1, <1>2, <1>3 DEF StatisticsInv, StatisticsTypes
<1>10. StatisticsTypes'
  BY <1>2, <1>3, <1>5, <1>6, <1>8, <1>9 DEF StatisticsInv, StatisticsTypes
<1>11. n < StatsCapacity => idx = n
  BY DEF StatisticsInv, RingHasLatest
<1>12. m + 1 < StatsCapacity => idx' = m + 1
  BY <1>3, <1>5, <1>7, <1>11
<1>13. ASSUME NEW i \in 1..m + 1 PROVE duration_stats'[SlotOf(i, idx')] = recorded'[i]
  <2>1. CASE i = 1
    <3>1. SlotOf(1, idx') = idx
      BY <1>3, <1>7 DEF SlotOf
    <3> QED
      BY <1>6, <1>9, <2>1, <3>1
  <2>2. CASE i > 1
    <3>1. i - 1 \in 1..m /\ i - 1 \in 1..n /\ i = (i - 1) + 1
      BY <1>3, <1>5, <2>2
    <3>2. SlotOf(i, idx') = SlotOf(i - 1, idx)
      BY <1>3, <1>5, <1>7, <2>2, <3>1 DEF SlotOf
    <3>3. SlotOf(i - 1, idx) \in Slots /\ SlotOf(i - 1, idx) # idx
      BY <1>3, <1>5, <1>11, <2>2, <3>1 DEF SlotOf, Slots
    <3>4. duration_stats[SlotOf(i - 1, idx)] = recorded[i - 1]
      BY <3>1 DEF StatisticsInv, RingHasLatest
    <3>5. recorded'[i] = recorded[i - 1]
      BY <1>6, <3>1
    <3> QED
      BY <1>9, <3>2, <3>3, <3>4, <3>5
  <2> QED
    BY <1>5, <2>1, <2>2
<1>14. ASSUME NEW s \in Slots, s >= m + 1 PROVE duration_stats'[s] = Free
  <2>1. s \in Nat /\ s < StatsCapacity
    BY <1>3 DEF Slots
  <2>2. n < StatsCapacity /\ s >= n /\ s # idx
    BY <1>3, <1>5, <1>11, <1>14, <2>1
  <2>3. duration_stats[s] = Free
    BY <2>2 DEF StatisticsInv, RingHasLatest
  <2> QED
    BY <1>9, <2>2, <2>3
<1>15. RingHasLatest'
  BY <1>6, <1>12, <1>13, <1>14 DEF RingHasLatest
<1> QED
  BY <1>10, <1>15 DEF StatisticsInv

LEMMA NextStatisticsInv == StatisticsInv /\ [StatisticsNext]_statisticsVars => StatisticsInv'
<1> SUFFICES ASSUME StatisticsInv, [StatisticsNext]_statisticsVars PROVE StatisticsInv'
  OBVIOUS
<1>1. CASE \E type \in RecordTypes, duration \in StatDurations : UpdateStatistics(type, duration)
  BY <1>1, UpdateKeepsRing
<1>2. CASE ResetStatistics
  <2>1. /\ recorded' = <<>> /\ duration_stats_idx' = 0 /\ UNCHANGED unit_duration
        /\ duration_stats' = [s \in Slots |-> Free]
    BY <1>2 DEF ResetStatistics
  <2>2. StatisticsTypes'
    <3>1. <<>> \in Seq(Records) /\ Len(<<>>) = 0
      OBVIOUS
    <3> QED
      BY <2>1, <3>1, StatisticsAssumption DEF StatisticsInv, StatisticsTypes, Slots
  <2>3. RingHasLatest'
    BY <2>1, StatisticsAssumption DEF RingHasLatest, Slots
  <2> QED
    BY <2>2, <2>3 DEF StatisticsInv
<1>3. CASE ChangeUnit \/ UNCHANGED statisticsVars
  <2>1. /\ UNCHANGED <<duration_stats, duration_stats_idx, recorded>>
        /\ unit_duration' \in Nat \ {0}
    BY <1>3, StatisticsAssumption DEF ChangeUnit, statisticsVars, StatisticsInv, StatisticsTypes
  <2> QED
    BY <2>1 DEF StatisticsInv, StatisticsTypes, RingHasLatest
<1> QED
  BY <1>1, <1>2, <1>3 DEF StatisticsNext

-----------------------------------------------------------------------------
(* What is read are the slots that have been written: all up to the first  *)
(* free one.                                                               *)
LEMMA ConsideredSlots ==
    ASSUME StatisticsInv, NEW type \in RecordTypes
    PROVE  Considered(type) = {s \in 0..Len(recorded)-1 : duration_stats[s].type = type}
<1>. DEFINE n == Len(recorded)
            idx == duration_stats_idx
<1>1. /\ StatsCapacity \in Nat \ {0} /\ n \in Nat /\ n \in 0..StatsCapacity
      /\ idx \in Slots /\ recorded \in Seq(Records)
  BY StatisticsAssumption DEF StatisticsInv, StatisticsTypes
<1>2. n < StatsCapacity => idx = n
  BY DEF StatisticsInv, RingHasLatest
<1>3. /\ \A s \in 0..n-1 : \E i \in 1..n : SlotOf(i, idx) = s
      /\ 0..n-1 \subseteq Slots
  BY <1>1, <1>2, SlotsOfRing
<1>4. \A s \in 0..n-1 : duration_stats[s].type # "none"
  <2> SUFFICES ASSUME NEW s \in 0..n-1 PROVE duration_stats[s].type # "none"
    OBVIOUS
  <2>1. PICK i \in 1..n : SlotOf(i, idx) = s
    BY <1>3
  <2>2. duration_stats[s] = recorded[i]
    BY <2>1 DEF StatisticsInv, RingHasLatest
  <2>3. recorded[i] \in Records
    BY <1>1
  <2> QED
    BY <2>2, <2>3 DEF Records, RecordTypes
<1>5. \A s \in Slots : s >= n => duration_stats[s].type = "none"
  BY DEF StatisticsInv, RingHasLatest, Free
<1>6. ASSUME NEW s \in Slots PROVE BeforeFree(s) <=> s < n
  <2>1. s \in Nat /\ s \in 0..s
    BY <1>1 DEF Slots
  <2>2. ASSUME s < n PROVE BeforeFree(s)
    <3>1. \A r \in 0..s : r \in 0..n-1
      BY <1>1, <2>1, <2>2
    <3> QED
      BY <1>4, <3>1 DEF BeforeFree
  <2>3. ASSUME ~(s < n) PROVE ~BeforeFree(s)
    <3>1. s >= n
      BY <1>1, <2>1, <2>3
    <3> QED
      BY <1>5, <2>1, <3>1 DEF BeforeFree
  <2> QED
    BY <2>2, <2>3
<1>7. \A s \in Slots : s < n <=> s \in 0..n-1
  BY <1>1 DEF Slots
<1> QED
  BY <1>3, <1>6, <1>7 DEF Considered

(* The statistics that are read are those of the latest records, as many   *)
(* as the ring has room for, each of them once.                            *)
THEOREM StatisticsAlwaysOfLatest == StatisticsSpec => []StatisticsAreOfLatest
<1>1. StatisticsInv => StatisticsAreOfLatest
  <2> SUFFICES ASSUME StatisticsInv, NEW type \in RecordTypes
               PROVE  /\ \A slot \in Considered(type) : duration_stats[slot] \in Range(recorded)
                      /\ \A record \in {r \in Range(recorded) : r.type = type} :
                            Cardinality({s \in Considered(type) : duration_stats[s] = record})
                                = Cardinality({i \in DOMAIN recorded : recorded[i] = record})
    BY DEF StatisticsAreOfLatest
  <2>. DEFINE n == Len(recorded)
              idx == duration_stats_idx
  <2>1. /\ n \in Nat /\ n \in 0..StatsCapacity /\ idx \in Slots
        /\ DOMAIN recorded = 1..n
        /\ n < StatsCapacity => idx = n
    BY StatisticsAssumption DEF StatisticsInv, StatisticsTypes, RingHasLatest
  <2>2. /\ \A i \in 1..n : SlotOf(i, idx) \in 0..n-1
        /\ \A i, j \in 1..n : SlotOf(i, idx) = SlotOf(j, idx) => i = j
        /\ \A s \in 0..n-1 : \E i \in 1..n : SlotOf(i, idx) = s
    BY <2>1, SlotsOfRing
  <2>3. Considered(type) = {s \in 0..n-1 : duration_stats[s].type = type}
    BY ConsideredSlots
  <2>4. \A i \in 1..n : duration_stats[SlotOf(i, idx)] = recorded[i]
    BY DEF StatisticsInv, RingHasLatest
  <2>. HIDE DEF n, idx
  <2>5. ASSUME NEW slot \in Considered(type) PROVE duration_stats[slot] \in Range(recorded)
    <3>1. PICK i \in 1..n : SlotOf(i, idx) = slot
      BY <2>2, <2>3
    <3>2. duration_stats[slot] = recorded[i] /\ i \in DOMAIN recorded
      BY <2>1, <2>4, <3>1
    <3> QED
      BY <3>2 DEF Range
  <2>6. ASSUME NEW record \in {r \in Range(recorded) : r.type = type}
        PROVE  Cardinality({s \in Considered(type) : duration_stats[s] = record})
                   = Cardinality({i \in DOMAIN recorded : recorded[i] = record})
    <3>. DEFINE S == {i \in DOMAIN recorded : recorded[i] = record}
                T == {s \in Considered(type) : duration_stats[s] = record}
                f == [i \in S |-> SlotOf(i, idx)]
    <3>1. IsFiniteSet(S)
      <4>1. IsFiniteSet(1..n)
        BY <2>1, FS_Interval
      <4>2. S \in SUBSET (1..n)
        BY <2>1
      <4> QED
        BY <4>1, <4>2, FS_Subset
    <3>2. S \subseteq 1..n /\ (\A i \in S : recorded[i] = record) /\ record.type = type
      BY <2>1
    <3>3. ASSUME NEW i \in S PROVE SlotOf(i, idx) \in T
      <4>1. SlotOf(i, idx) \in 0..n-1 /\ duration_stats[SlotOf(i, idx)] = record
        BY <2>2, <2>4, <3>2
      <4> QED
        BY <2>3, <3>2, <4>1
    <3>4. ASSUME NEW s \in T PROVE \E i \in S : SlotOf(i, idx) = s
      <4>1. s \in 0..n-1 /\ duration_stats[s] = record
        BY <2>3
      <4>2. PICK i \in 1..n : SlotOf(i, idx) = s
        BY <2>2, <4>1
      <4>3. recorded[i] = record
        BY <2>4, <4>1, <4>2
      <4> QED
        BY <2>1, <4>2, <4>3
    <3>. HIDE DEF S, T
    <3>5. f \in [S -> T] /\ \A i \in S : f[i] = SlotOf(i, idx)
      BY <3>3
    <3>6. IsInjective(f)
      BY <2>2, <3>2, <3>5 DEF IsInjective
    <3>7. \A s \in T : \E i \in S : f[i] = s
      BY <3>4, <3>5
    <3>. HIDE DEF f
    <3>8. f \in Bijection(S, T)
      BY <3>5, <3>6, <3>7 DEF Bijection, Injection, Surjection
    <3>9. Cardinality(T) = Cardinality(S)
      BY <3>1, <3>8, FS_Bijection DEF ExistsBijection
    <3> QED
      BY <3>9 DEF S, T
  <2> QED
    BY <2>5, <2>6
<1> QED
  BY <1>1, InitStatisticsInv, NextStatisticsInv, PTL DEF StatisticsSpec

---------------------------------------------------------------------------
(***************************************************************************)
(* The easy receiver for the legacy interface: where the sender is in its   *)
(* character and where the poll is in its questions tell what the library's *)
(* receiver holds, and what of the text is still to be received.            *)
(***************************************************************************)

\* The library holds the marks of the character that the sender has begun or sent,
\* and which of them a poll would receive, and what is to come of it and its space.
Listening == library.state = "gap" /\ library.marks
Matches(character) == library.marks = (character # "nothing") /\ library.known = (character = "character")
IsWanted == library.known \/ get_representation
Yet(from) == SubSeq(<<"character", "space">>, from, pause)

LibraryStates == [state : {"idle", "mark", "gap", "told"}, marks : BOOLEAN, known : BOOLEAN]
SenderStates == [key : BOOLEAN, character : {"nothing", "character", "unknown"}]
LegacyTypes ==
  /\ library \in LibraryStates /\ keyed \in SenderStates
  /\ pause \in 0..2 /\ waited \in 0..pause
  /\ astray = FALSE
  /\ keyed.key \/ ~key_state

\* Before a space: the sender's key is down and heard, nothing was sent, or a mark has
\* ended and more of them may come.
Silent == ~pending_iws /\ due_text = << >>
Closed == keyed.key /\ key_state /\ library.state = "mark" /\ Matches(keyed.character) /\ Silent
Idle == ~key_state /\ library = ClearedLibrary /\ keyed.character = "nothing" /\ Silent
Going == ~keyed.key /\ pause = 0 /\ Listening /\ Matches(keyed.character) /\ Silent
\* In the space after a character: it is not received yet, or it is and the space is
\* waited for.
Finished == ~keyed.key /\ pause > 0 /\ library.marks /\ keyed.character = "nothing"
Heard ==
  /\ Finished /\ library.state = "gap" /\ ~pending_iws
  /\ due_text = IF IsWanted THEN Yet(1) ELSE << >>
Retained ==
  /\ Finished /\ library.state = "told" /\ waited > 0 /\ pending_iws /\ IsWanted /\ due_text = Yet(2)

\* Between polls; a poll comes before a space goes on.
Rested ==
  \/ Closed \/ Idle \/ Going
  \/ Heard /\ (waited = 0 \/ (waited = 1 /\ ~is_polled))
  \/ Retained /\ (waited = 1 \/ ~is_polled)

\* In a poll, after an answer of the library or before the other question.
Asked ==
  \/ inquiry = <<"again", "none">> /\ Idle /\ ~keyed.key
  \/ inquiry = <<"character", "nothing">> /\ (Closed \/ Idle \/ Going \/ (Heard /\ waited = 0))
  \/ /\ Finished /\ library.state = "told" /\ waited = 1 /\ ~pending_iws
     /\ \/ inquiry = <<"character", "character">> /\ IsWanted /\ due_text = Yet(1)
        \/ inquiry = <<"character", "unknown">> /\ ~IsWanted /\ due_text = << >>
  \/ inquiry = <<"space", "character">> /\ Retained /\ waited = 1
  \/ inquiry = <<"space", "word">> /\ Retained /\ waited = 2

LegacyInv == LegacyTypes /\ ((inquiry = AtRest /\ Rested) \/ Asked)

---------------------------------------------------------------------------
LEMMA YetIs ==
  /\ pause = 1 => Yet(1) = <<"character">> /\ Yet(2) = << >>
  /\ pause = 2 => Yet(1) = <<"character", "space">> /\ Yet(2) = <<"space">>
<1>1. /\ SubSeq(<<"character", "space">>, 1, 1) = <<"character">>
      /\ SubSeq(<<"character", "space">>, 2, 1) = << >>
      /\ SubSeq(<<"character", "space">>, 1, 2) = <<"character", "space">>
      /\ SubSeq(<<"character", "space">>, 2, 2) = <<"space">>
  <2>. DEFINE two == <<"character", "space">>
              Words == {"character", "space"}
              Part(m, n) == SubSeq(two, m, n)
  <2>1. /\ two \in Seq(Words) /\ Len(two) = 2 /\ two[1] = "character" /\ two[2] = "space"
        /\ two[1] \in Words /\ two[2] \in Words
    OBVIOUS
  <2>. HIDE DEF two, Words
  <2>2. /\ Part(1, 1) \in Seq(Words) /\ Len(Part(1, 1)) = 1 /\ Part(1, 1)[1] = two[1]
        /\ Part(2, 1) \in Seq(Words) /\ Len(Part(2, 1)) = 0
        /\ Part(1, 2) \in Seq(Words) /\ Len(Part(1, 2)) = 2 /\ Part(1, 2)[1] = two[1] /\ Part(1, 2)[2] = two[2]
        /\ Part(2, 2) \in Seq(Words) /\ Len(Part(2, 2)) = 1 /\ Part(2, 2)[1] = two[2]
    <3>1. \A m, n \in 1..2 : \A i \in m..n : two[i] \in Words
      <4>1. \A i \in 1..2 : two[i] \in Words
        <5>1. \A i \in 1..2 : i = 1 \/ i = 2
          OBVIOUS
        <5>. QED
          BY <2>1, <5>1, Zenon
      <4>2. \A m, n \in 1..2 : \A i \in m..n : i \in 1..2
        OBVIOUS
      <4>. QED
        BY <4>1, <4>2, Zenon
    <3>2. ASSUME NEW m \in 1..2, NEW n \in 1..2
          PROVE  /\ Part(m, n) \in Seq(Words) /\ Len(Part(m, n)) = (IF m <= n THEN n - m + 1 ELSE 0)
                 /\ \A i \in 1..n - m + 1 : Part(m, n)[i] = two[m + i - 1]
      BY <3>1, SubSeqProperties
    <3>. HIDE DEF Part
    <3>3. 1 \in 1..2 /\ 2 \in 1..2
      OBVIOUS
    <3>4. /\ Part(1, 1) \in Seq(Words) /\ Len(Part(1, 1)) = 1 /\ Part(1, 1)[1] = two[1]
      BY <3>2, <3>3
    <3>5. /\ Part(2, 1) \in Seq(Words) /\ Len(Part(2, 1)) = 0
      BY <3>2, <3>3
    <3>6. /\ Part(1, 2) \in Seq(Words) /\ Len(Part(1, 2)) = 2 /\ Part(1, 2)[1] = two[1] /\ Part(1, 2)[2] = two[2]
      BY <3>2, <3>3
    <3>7. /\ Part(2, 2) \in Seq(Words) /\ Len(Part(2, 2)) = 1 /\ Part(2, 2)[1] = two[2]
      BY <3>2, <3>3
    <3>. QED
      BY <3>4, <3>5, <3>6, <3>7
  <2>. HIDE DEF Part
  <2>3. /\ Part(1, 1) = <<two[1]>> /\ Part(2, 1) = << >> /\ Part(1, 2) = <<two[1], two[2]>> /\ Part(2, 2) = <<two[2]>>
    BY <2>2
  <2>. QED
    BY <2>1, <2>3 DEF Part, two
<1>. QED
  BY <1>1 DEF Yet

LEMMA InitIsLegacy == LegacyInit => LegacyInv
<1>. SUFFICES ASSUME LegacyInit PROVE LegacyInv
  OBVIOUS
<1>1. LegacyTypes
  <2>1. library \in LibraryStates /\ keyed \in SenderStates
    BY DEF LegacyInit, ClearedLibrary, LibraryStates, SenderStates
  <2>. QED
    BY <2>1 DEF LegacyInit, LegacyTypes, AtRest
<1>2. Idle /\ inquiry = AtRest
  BY DEF LegacyInit, Idle, Silent
<1>. QED
  BY <1>1, <1>2 DEF LegacyInv, Rested

LEMMA AtRestIsRested ==
  ASSUME LegacyInv, inquiry = AtRest
  PROVE  LegacyTypes /\ Rested
BY DEF LegacyInv, Asked, AtRest

LEMMA SenderHasClosed ==
  ASSUME Undivided, LegacyInv, SenderCloses
  PROVE  LegacyInv'
<1>1. /\ ~keyed.key /\ waited = pause /\ inquiry = AtRest /\ is_polled
      /\ keyed' = [keyed EXCEPT !.key = TRUE] /\ key_state' = TRUE /\ pending_iws' = FALSE
      /\ library' = (IF WaitCancelled.state \in {"idle", "gap"} THEN [WaitCancelled EXCEPT !.state = "mark"]
                     ELSE WaitCancelled)
      /\ UNCHANGED <<get_representation, receive_errno, pause, waited, inquiry, is_polled, resultVars>>
  BY DEF SenderCloses, Calm
<1>2. LegacyTypes /\ Rested
  BY <1>1, AtRestIsRested
<1>3. WaitCancelled = IF pending_iws THEN ClearedLibrary ELSE library
  BY DEF WaitCancelled
<1>4. /\ keyed' = [key |-> TRUE, character |-> keyed.character]
      /\ keyed.character \in {"nothing", "character", "unknown"}
  BY <1>1, <1>2 DEF LegacyTypes, SenderStates
<1>5. library' = [state |-> "mark", marks |-> library'.marks, known |-> library'.known]
      /\ Matches(keyed.character)' /\ due_text = << >>
      /\ library'.marks \in BOOLEAN /\ library'.known \in BOOLEAN
  <2>1. CASE Idle
    BY <1>1, <1>2, <1>3, <1>4, <2>1 DEF Idle, ClearedLibrary, Matches, Silent
  <2>2. CASE Going
    BY <1>1, <1>2, <1>3, <1>4, <2>2 DEF Going, Listening, Matches, Silent, LegacyTypes, LibraryStates
  <2>3. CASE Retained /\ waited = 1
    BY <1>1, <1>2, <1>3, <1>4, <2>3, YetIs DEF Retained, Finished, ClearedLibrary, Matches, Silent, LegacyTypes
  <2>. QED
    BY <1>1, <1>2, <2>1, <2>2, <2>3 DEF Rested, Closed, Heard, Finished, LegacyTypes
<1>6. LegacyTypes'
  <2>1. library' \in LibraryStates /\ keyed' \in SenderStates /\ keyed'.key
    BY <1>4, <1>5 DEF LibraryStates, SenderStates
  <2>. QED
    BY <1>1, <1>2, <2>1 DEF LegacyTypes, resultVars
<1>7. Closed'
  BY <1>1, <1>4, <1>5 DEF Closed, Silent, resultVars
<1>. QED
  BY <1>1, <1>6, <1>7 DEF LegacyInv, Rested, AtRest

LEMMA SenderHasOpened ==
  ASSUME Undivided, LegacyInv, SenderOpens
  PROVE  LegacyInv'
<1>1. /\ keyed.key /\ inquiry = AtRest
      /\ key_state' = FALSE /\ waited' = 0 /\ is_polled' = TRUE
      /\ UNCHANGED <<get_representation, pending_iws, inquiry, astray, test_ok>>
  BY DEF SenderOpens, Calm
<1>2. PICK mark \in {"mark", "noise", "wrong"}, known \in BOOLEAN, length \in 0..2 :
          /\ MarkEnds(mark, known)
          /\ pause' = length
          /\ keyed' = [key |-> FALSE, character |-> IF length = 0 THEN Extend(mark, known) ELSE "nothing"]
          /\ due_text' = IF length = 0 \/ ~IsReceived(Extend(mark, known)) THEN due_text
                         ELSE due_text \o SubSeq(<<"character", "space">>, 1, length)
  BY DEF SenderOpens
<1>3. LegacyTypes /\ (Closed \/ Idle) /\ due_text = << >> /\ ~pending_iws
  BY <1>1, AtRestIsRested DEF Rested, Closed, Idle, Silent, Going, Heard, Retained, Finished
<1>. DEFINE ext == Extend(mark, known)
<1>4. ext \in {"nothing", "character", "unknown"}
  BY <1>2, <1>3 DEF Extend, LegacyTypes, SenderStates
<1>5. \/ library' = ClearedLibrary /\ ext = "nothing"
      \/ /\ library' = [state |-> "gap", marks |-> TRUE, known |-> library'.known] /\ library'.known \in BOOLEAN
         /\ ext # "nothing" /\ library'.known = (ext = "character")
  <2>1. CASE ~key_state
    BY <1>2, <1>3, <2>1 DEF MarkEnds, Extend, Closed, Idle
  <2>2. CASE key_state
    <3>1. library.state = "mark" /\ Matches(keyed.character)
      BY <1>3, <2>2 DEF Closed, Idle
    <3>2. CASE mark = "mark"
      <4>1. library' = [state |-> "gap", marks |-> TRUE, known |-> known]
        BY <1>2, <2>2, <3>1, <3>2 DEF MarkEnds
      <4>2. ext = IF known THEN "character" ELSE "unknown"
        BY <2>2, <3>2 DEF Extend
      <4>. QED
        BY <1>2, <4>1, <4>2
    <3>3. CASE mark = "noise"
      <4>1. library' = [library EXCEPT !.state = BeforeNoise(library.marks)] /\ ext = keyed.character
        BY <1>2, <2>2, <3>1, <3>3 DEF MarkEnds, Extend
      <4>. QED
        BY <1>3, <3>1, <4>1 DEF BeforeNoise, Matches, LegacyTypes, LibraryStates, SenderStates, ClearedLibrary
    <3>4. CASE mark = "wrong"
      BY <1>2, <2>2, <3>1, <3>4 DEF MarkEnds, Extend
    <3>. QED
      BY <3>2, <3>3, <3>4
  <2>. QED
    BY <1>3, <2>1, <2>2 DEF LegacyTypes
<1>6. LegacyTypes'
  <2>1. library' \in LibraryStates
    <3>1. ClearedLibrary \in LibraryStates
      BY DEF LibraryStates, ClearedLibrary
    <3>2. ASSUME NEW k \in BOOLEAN PROVE [state |-> "gap", marks |-> TRUE, known |-> k] \in LibraryStates
      BY DEF LibraryStates
    <3>. QED
      BY <1>5, <3>1, <3>2, Zenon
  <2>2. keyed' \in SenderStates
    BY <1>2, <1>4 DEF SenderStates
  <2>. QED
    BY <1>1, <1>2, <1>3, <2>1, <2>2 DEF LegacyTypes
<1>. DEFINE wanted == ext = "character" \/ (ext = "unknown" /\ get_representation)
<1>7. IsReceived(ext) = wanted
  BY DEF IsReceived
<1>8. due_text' = IF length = 0 \/ ~wanted THEN << >> ELSE Yet(1)'
  <2>1. << >> \o SubSeq(<<"character", "space">>, 1, length) = SubSeq(<<"character", "space">>, 1, length)
    BY <1>2
  <2>2. Yet(1)' = SubSeq(<<"character", "space">>, 1, length)
    BY <1>2 DEF Yet
  <2>. QED
    BY <1>2, <1>3, <1>7, <2>1, <2>2, Zenon
<1>. HIDE DEF ext
<1>9. CASE library' = ClearedLibrary /\ ext = "nothing"
  BY <1>1, <1>2, <1>3, <1>6, <1>8, <1>9 DEF LegacyInv, Rested, Idle, Silent, ext
<1>10. CASE /\ library' = [state |-> "gap", marks |-> TRUE, known |-> library'.known] /\ library'.known \in BOOLEAN
            /\ ext # "nothing" /\ library'.known = (ext = "character")
  <2>0. library'.state = "gap" /\ library'.marks = TRUE
    BY <1>10
  <2>1. CASE length = 0
    <3>1. keyed'.key = FALSE /\ keyed'.character = ext /\ pause' = 0 /\ due_text' = << >>
      BY <1>2, <1>8, <2>1 DEF ext
    <3>2. Going'
      BY <1>1, <1>3, <1>10, <2>0, <3>1 DEF Going, Silent, Listening, Matches
    <3>. QED
      BY <1>1, <1>6, <3>2 DEF LegacyInv, Rested
  <2>2. CASE length # 0
    <3>1. keyed'.key = FALSE /\ keyed'.character = "nothing" /\ pause' > 0
      BY <1>2, <2>2
    <3>2. IsWanted' = wanted
      BY <1>1, <1>4, <1>10 DEF IsWanted
    <3>3. due_text' = IF IsWanted' THEN Yet(1)' ELSE << >>
      BY <1>8, <2>2, <3>2, Zenon
    <3>4. Heard'
      BY <1>1, <1>3, <2>0, <3>1, <3>3 DEF Heard, Finished
    <3>. QED
      BY <1>1, <1>6, <3>4 DEF LegacyInv, Rested
  <2>. QED
    BY <2>1, <2>2
<1>. QED
  BY <1>5, <1>9, <1>10

LEMMA SpaceHasLasted ==
  ASSUME LegacyInv, SpaceLasts
  PROVE  LegacyInv'
<1>1. /\ ~keyed.key /\ waited < pause /\ is_polled /\ inquiry = AtRest
      /\ waited' = waited + 1 /\ is_polled' = FALSE
      /\ UNCHANGED <<get_representation, key_state, pending_iws, receive_errno, library, keyed, pause, inquiry,
                     resultVars>>
  BY DEF SpaceLasts
<1>2. LegacyTypes /\ Rested
  BY <1>1, AtRestIsRested
<1>3. LegacyTypes'
  BY <1>1, <1>2 DEF LegacyTypes, resultVars
<1>4. Rested'
  BY <1>1, <1>2 DEF Rested, Closed, Idle, Going, Heard, Retained, Finished, Silent, Listening, Matches, IsWanted, Yet,
                    resultVars, LegacyTypes
<1>. QED
  BY <1>1, <1>3, <1>4 DEF LegacyInv, AtRest

LEMMA LegacyIsCleared ==
  ASSUME LegacyInv, ClearLegacy
  PROVE  LegacyInv'
<1>1. /\ inquiry = AtRest /\ inquiry' = AtRest
      /\ library' = ClearedLibrary
      /\ pending_iws' = FALSE /\ key_state' = FALSE
      /\ keyed' = [keyed EXCEPT !.character = "nothing"] /\ due_text' = << >>
      /\ UNCHANGED <<get_representation, pause, waited, inquiry, is_polled, astray, test_ok>>
  BY DEF ClearLegacy
<1>2. LegacyTypes
  BY <1>1, AtRestIsRested
<1>3. keyed' \in SenderStates /\ keyed'.character = "nothing"
  BY <1>1, <1>2 DEF LegacyTypes, SenderStates
<1>4. LegacyTypes'
  BY <1>1, <1>2, <1>3 DEF LegacyTypes, ClearedLibrary, LibraryStates
<1>5. Idle'
  BY <1>1, <1>3 DEF Idle, Silent
<1>. QED
  BY <1>1, <1>4, <1>5 DEF LegacyInv, Rested

---------------------------------------------------------------------------
\* What is asked for is answered by what the library holds.
LEMMA AnswerIs ==
  ASSUME LegacyTypes, NEW what, AskFor(what), ~pending_iws \/ Retained,
         Closed \/ Idle \/ Going \/ (Heard /\ waited \in {0, 1}) \/ Retained
  PROVE  /\ library' \in LibraryStates
         /\ \/ /\ Closed \/ Idle \/ Going \/ (Heard /\ waited = 0)
               /\ inquiry' = <<what, "nothing">> /\ library' = library
            \/ /\ Heard /\ waited = 1 /\ library'.state = "told" 
               /\ library'.marks = library.marks /\ library'.known = library.known
               /\ inquiry' = IF IsWanted THEN <<what, "character">> ELSE <<what, "unknown">>
            \/ /\ Retained /\ library' = library
               /\ inquiry' = IF waited = 2 THEN <<what, "word">> ELSE <<what, "character">>
<1>. DEFINE answer == AnswerTo(get_representation)
<1>1. inquiry' = <<what, answer>> /\ library' = ToldOf(library)
  BY DEF AskFor
<1>2. ASSUME Closed \/ Idle \/ Going \/ (Heard /\ waited = 0)
      PROVE  answer = "nothing" /\ library' = library
  BY <1>1, <1>2 DEF AnswerTo, ToldOf, Closed, Idle, Going, Heard, LegacyTypes, ClearedLibrary
<1>3. ASSUME Heard, waited = 1
      PROVE  /\ answer = (IF IsWanted THEN "character" ELSE "unknown")
             /\ library' = [library EXCEPT !.state = "told"]
  BY <1>1, <1>3 DEF AnswerTo, ToldOf, Heard, LegacyTypes, IsWanted
<1>4. ASSUME Retained
      PROVE  /\ answer = (IF waited = 2 THEN "word" ELSE "character") /\ library' = library
  BY <1>1, <1>4 DEF AnswerTo, ToldOf, Retained, LegacyTypes, IsWanted
<1>. HIDE DEF answer
<1>5. library' \in LibraryStates /\ library \in LibraryStates
  BY <1>1 DEF ToldOf, LegacyTypes, LibraryStates
<1>6. CASE Heard /\ waited = 1
  <2>1. library' = [library EXCEPT !.state = "told"] /\ answer = (IF IsWanted THEN "character" ELSE "unknown")
    BY <1>3, <1>6
  <2>2. library'.state = "told" /\ library'.marks = library.marks /\ library'.known = library.known
    BY <1>5, <2>1 DEF LibraryStates
  <2>. QED
    BY <1>1, <1>5, <1>6, <2>1, <2>2
<1>7. CASE Retained
  BY <1>1, <1>4, <1>5, <1>7
<1>8. CASE Closed \/ Idle \/ Going \/ (Heard /\ waited = 0)
  BY <1>1, <1>2, <1>5, <1>8
<1>. QED
  BY <1>6, <1>7, <1>8

LEMMA PollBegins ==
  ASSUME LegacyInv, BeginPoll \/ PollAgain
  PROVE  LegacyInv'
<1>1. /\ UNCHANGED <<get_representation, key_state, pending_iws, senderVars, is_polled, resultVars>>
      /\ UNCHANGED <<keyed, pause, waited, due_text, astray, test_ok>>
  BY DEF BeginPoll, PollAgain, senderVars, resultVars
<1>. DEFINE what == IF inquiry = AtRest /\ pending_iws THEN "space" ELSE "character"
<1>2. AskFor(what)
  BY DEF BeginPoll, PollAgain, AtRest
<1>3. LegacyTypes /\ (Closed \/ Idle \/ Going \/ (Heard /\ waited \in {0, 1}) \/ Retained)
  <2>1. CASE inquiry = AtRest
    BY <2>1, AtRestIsRested DEF Rested
  <2>2. CASE inquiry = <<"again", "none">>
    BY <2>2 DEF LegacyInv, Asked, AtRest
  <2>. QED
    BY <2>1, <2>2 DEF BeginPoll, PollAgain
<1>4. (Retained => what = "space") /\ (Closed \/ Idle \/ Going \/ Heard => what = "character")
  <2>1. Retained => inquiry = AtRest /\ pending_iws
    <3>1. inquiry = AtRest \/ inquiry = <<"again", "none">>
      BY DEF BeginPoll, PollAgain
    <3>2. ASSUME inquiry = <<"again", "none">> PROVE Idle
      BY <3>2 DEF LegacyInv, Asked, AtRest
    <3>3. ~(Retained /\ Idle) /\ (Retained => pending_iws)
      BY DEF Retained, Idle, Silent
    <3>. QED
      BY <3>1, <3>2, <3>3
  <2>2. Closed \/ Idle \/ Going \/ Heard => ~pending_iws
    BY DEF Closed, Idle, Going, Heard, Silent
  <2>. QED
    BY <2>1, <2>2
<1>. HIDE DEF what
<1>5. /\ library' \in LibraryStates
      /\ \/ /\ Closed \/ Idle \/ Going \/ (Heard /\ waited = 0)
            /\ inquiry' = <<what, "nothing">> /\ library' = library
         \/ /\ Heard /\ waited = 1 /\ library'.state = "told" 
            /\ library'.marks = library.marks /\ library'.known = library.known
            /\ inquiry' = IF IsWanted THEN <<what, "character">> ELSE <<what, "unknown">>
         \/ /\ Retained /\ library' = library
            /\ inquiry' = IF waited = 2 THEN <<what, "word">> ELSE <<what, "character">>
  <2>1. ~pending_iws \/ Retained
    BY <1>3 DEF Closed, Idle, Going, Heard, Silent
  <2>. QED
    BY <1>2, <1>3, <2>1, AnswerIs
<1>6. LegacyTypes'
  BY <1>1, <1>3, <1>5 DEF LegacyTypes
<1>7. CASE Closed \/ Idle \/ Going \/ (Heard /\ waited = 0)
  <2>0. ~Retained /\ ~(Heard /\ waited = 1) /\ what = "character"
    BY <1>3, <1>4, <1>7 DEF Closed, Idle, Going, Heard, Finished, Retained, ClearedLibrary, Listening, LegacyTypes
  <2>1. inquiry' = <<"character", "nothing">> /\ library' = library
    BY <1>5, <2>0
  <2>2. Closed' \/ Idle' \/ Going' \/ (Heard' /\ waited' = 0)
    BY <1>1, <1>7, <2>1 DEF Closed, Idle, Going, Heard, Finished, Listening, Matches, Silent, IsWanted, Yet
  <2>. QED
    BY <1>6, <2>1, <2>2 DEF LegacyInv, Asked
<1>8. CASE Heard /\ waited = 1
  <2>1. /\ library'.state = "told" /\ library'.marks = library.marks /\ library'.known = library.known
        /\ inquiry' = (IF IsWanted THEN <<"character", "character">> ELSE <<"character", "unknown">>)
    <3>1. ~Retained /\ ~Closed /\ ~Idle /\ ~Going /\ ~(Heard /\ waited = 0) /\ what = "character"
      BY <1>3, <1>4, <1>8 DEF Closed, Idle, Going, Heard, Finished, Retained, ClearedLibrary, Listening, LegacyTypes
    <3>. QED
      BY <1>5, <3>1
  <2>2. IsWanted' = IsWanted /\ Yet(1)' = Yet(1)
    BY <1>1, <2>1 DEF IsWanted, Yet
  <2>3. Finished' /\ waited' = 1 /\ ~pending_iws'
    BY <1>1, <1>8, <2>1 DEF Heard, Finished
  <2>. QED
    BY <1>1, <1>6, <1>8, <2>1, <2>2, <2>3 DEF LegacyInv, Asked, Heard
<1>9. CASE Retained
  <2>1. waited \in {1, 2} /\ library' = library
        /\ inquiry' = (IF waited = 2 THEN <<"space", "word">> ELSE <<"space", "character">>)
    BY <1>3, <1>4, <1>5, <1>9 DEF Closed, Idle, Going, Heard, Retained, Finished, ClearedLibrary, LegacyTypes
  <2>2. Retained'
    BY <1>1, <1>9, <2>1 DEF Retained, Finished, IsWanted, Yet
  <2>. QED
    BY <1>1, <1>6, <2>1, <2>2 DEF LegacyInv, Asked
<1>. QED
  BY <1>3, <1>7, <1>8, <1>9

\* What is received is the next part of what was sent.
LEMMA IsReceivedInOrder ==
  ASSUME NEW item, NEW rest, due_text # << >>, Head(due_text) = item, Tail(due_text) = rest, Received(item)
  PROVE  due_text' = rest /\ astray' = astray
BY DEF Received

LEMMA SpaceIsPolled ==
  ASSUME LegacyInv, PollIws
  PROVE  LegacyInv'
<1>1. /\ inquiry[1] = "space"
      /\ UNCHANGED <<get_representation, key_state, receive_errno, senderVars>>
      /\ UNCHANGED <<keyed, pause, waited>>
  BY DEF PollIws, senderVars
<1>2. \/ inquiry = <<"space", "character">> /\ Retained /\ waited = 1
      \/ inquiry = <<"space", "word">> /\ Retained /\ waited = 2
  BY <1>1 DEF LegacyInv, Asked, AtRest
<1>3. LegacyTypes
  BY DEF LegacyInv
<1>4. CASE inquiry = <<"space", "word">> /\ Retained /\ waited = 2
  <2>1. /\ Received("space") /\ library' = ClearedLibrary /\ pending_iws' = FALSE
        /\ inquiry' = <<"again", "none">>
    BY <1>4 DEF PollIws, EndPoll
  <2>2. due_text = <<"space">>
    BY <1>3, <1>4, YetIs DEF Retained, LegacyTypes
  <2>3. due_text' = << >> /\ astray' = astray
    <3>1. <<"space">> # << >> /\ Head(<<"space">>) = "space" /\ Tail(<<"space">>) = << >>
      OBVIOUS
    <3>. QED
      BY <2>1, <2>2, <3>1, IsReceivedInOrder, Zenon
  <2>4. LegacyTypes'
    BY <1>1, <1>3, <2>1, <2>3 DEF LegacyTypes, ClearedLibrary, LibraryStates
  <2>5. Idle' /\ ~keyed'.key
    BY <1>1, <1>3, <1>4, <2>1, <2>3 DEF Idle, Silent, Retained, Finished, LegacyTypes
  <2>. QED
    BY <2>1, <2>4, <2>5 DEF LegacyInv, Asked
<1>5. CASE inquiry = <<"space", "character">> /\ Retained /\ waited = 1
  <2>1. /\ inquiry' = AtRest /\ UNCHANGED <<library, pending_iws, due_text, astray>>
    BY <1>5 DEF PollIws, EndPoll, Retained, resultVars
  <2>2. LegacyTypes'
    BY <1>1, <1>3, <2>1 DEF LegacyTypes
  <2>3. Retained' /\ waited' = 1
    BY <1>1, <1>5, <2>1 DEF Retained, Finished, IsWanted, Yet
  <2>. QED
    BY <2>1, <2>2, <2>3 DEF LegacyInv, Rested
<1>. QED
  BY <1>2, <1>4, <1>5

LEMMA CharacterIsPolled ==
  ASSUME LegacyInv, PollACharacter
  PROVE  LegacyInv'
<1>1. /\ inquiry[1] = "character" /\ inquiry' = AtRest /\ is_polled' = TRUE
      /\ UNCHANGED <<get_representation, key_state, receive_errno, senderVars>>
      /\ UNCHANGED <<keyed, pause, waited>>
  BY DEF PollACharacter, senderVars, EndPoll
<1>2. LegacyTypes
  BY DEF LegacyInv
<1>3. \/ inquiry = <<"character", "nothing">> /\ (Closed \/ Idle \/ Going \/ (Heard /\ waited = 0))
      \/ /\ Finished /\ library.state = "told" /\ waited = 1 /\ ~pending_iws
         /\ \/ inquiry = <<"character", "character">> /\ IsWanted /\ due_text = Yet(1)
            \/ inquiry = <<"character", "unknown">> /\ ~IsWanted /\ due_text = << >>
  BY <1>1 DEF LegacyInv, Asked, AtRest
<1>4. CASE inquiry = <<"character", "nothing">> /\ (Closed \/ Idle \/ Going \/ (Heard /\ waited = 0))
  <2>1. UNCHANGED <<library, pending_iws, due_text, astray>>
    BY <1>4 DEF PollACharacter, resultVars
  <2>2. LegacyTypes'
    BY <1>1, <1>2, <2>1 DEF LegacyTypes
  <2>3. Closed' \/ Idle' \/ Going' \/ (Heard' /\ waited' = 0)
    BY <1>1, <1>4, <2>1 DEF Closed, Idle, Going, Heard, Finished, Listening, Matches, Silent, IsWanted, Yet
  <2>. QED
    BY <1>1, <2>2, <2>3 DEF LegacyInv, Rested
<1>5. CASE /\ Finished /\ library.state = "told" /\ waited = 1 /\ ~pending_iws
           /\ inquiry = <<"character", "character">> /\ IsWanted /\ due_text = Yet(1)
  <2>1. Received("character") /\ pending_iws' = TRUE /\ library' = library
    BY <1>5 DEF PollACharacter
  <2>2. Yet(1) # << >> /\ Head(Yet(1)) = "character" /\ Tail(Yet(1)) = Yet(2)
    <3>1. pause = 1 \/ pause = 2
      BY <1>2, <1>5 DEF LegacyTypes, Finished
    <3>2. /\ <<"character">> # << >> /\ Head(<<"character">>) = "character" /\ Tail(<<"character">>) = << >>
          /\ <<"character", "space">> # << >> /\ Head(<<"character", "space">>) = "character"
          /\ Tail(<<"character", "space">>) = <<"space">>
      OBVIOUS
    <3>. QED
      BY <3>1, <3>2, YetIs, Zenon
  <2>3. due_text' = Yet(2) /\ astray' = astray
    BY <1>5, <2>1, <2>2, IsReceivedInOrder, Zenon
  <2>4. LegacyTypes'
    BY <1>1, <1>2, <2>1, <2>3 DEF LegacyTypes
  <2>5. Yet(2)' = Yet(2)
    BY <1>1 DEF Yet
  <2>6. Retained' /\ waited' = 1
    BY <1>1, <1>5, <2>1, <2>3, <2>5 DEF Retained, Finished, IsWanted
  <2>. QED
    BY <1>1, <2>4, <2>6 DEF LegacyInv, Rested
<1>6. CASE /\ Finished /\ library.state = "told" /\ waited = 1 /\ ~pending_iws
           /\ inquiry = <<"character", "unknown">> /\ ~IsWanted /\ due_text = << >>
  <2>1. library' = ClearedLibrary /\ UNCHANGED <<pending_iws, due_text, astray>>
    BY <1>6 DEF PollACharacter, resultVars
  <2>2. LegacyTypes'
    BY <1>1, <1>2, <2>1 DEF LegacyTypes, ClearedLibrary, LibraryStates
  <2>3. Idle'
    BY <1>1, <1>2, <1>6, <2>1 DEF Idle, Silent, Finished, LegacyTypes
  <2>. QED
    BY <1>1, <2>2, <2>3 DEF LegacyInv, Rested
<1>. QED
  BY <1>3, <1>4, <1>5, <1>6

LEMMA LegacyGoesOn ==
  ASSUME Undivided, LegacyInv, [LegacyNext]_legacyVars
  PROVE  LegacyInv'
<1>1. ASSUME UNCHANGED legacyVars PROVE LegacyInv'
  BY <1>1 DEF legacyVars, senderVars, resultVars, LegacyInv, LegacyTypes, Rested, Asked, Closed, Idle, Going,
              Heard, Retained, Finished, Listening, Matches, Silent, IsWanted, Yet, AtRest
<1>. QED
  BY <1>1, SenderHasClosed, SenderHasOpened, SpaceHasLasted, LegacyIsCleared, PollBegins, SpaceIsPolled,
     CharacterIsPolled DEF LegacyNext

---------------------------------------------------------------------------
LEMMA LegacyArrives ==
  ASSUME LegacyInv
  PROVE  ReceivedIsSent /\ ClosedKeyIsMark
<1>1. ~astray
  BY DEF LegacyInv, LegacyTypes
<1>2. ASSUME ~keyed.key, waited = pause, is_polled, inquiry = AtRest PROVE due_text = << >>
  <2>1. LegacyTypes /\ Rested
    BY <1>2, AtRestIsRested
  <2>2. CASE Retained
    BY <1>2, <2>1, <2>2, YetIs DEF Rested, Retained, Heard, Closed, Idle, Going, Finished, Silent, LegacyTypes
  <2>3. CASE ~Retained
    BY <1>2, <2>1, <2>3 DEF Rested, Heard, Closed, Idle, Going, Finished, Silent, LegacyTypes
  <2>. QED
    BY <2>2, <2>3
<1>3. ASSUME key_state PROVE library.state = "mark" /\ ~pending_iws
  BY <1>3 DEF LegacyInv, LegacyTypes, Rested, Asked, Closed, Idle, Going, Heard, Retained, Finished, Silent
<1>. QED
  BY <1>1, <1>2, <1>3 DEF ReceivedIsSent, ClosedKeyIsMark

\* The two ways of polling differ for what is no character only.
LEMMA PollsDoAgree ==
  ASSUME LegacyInv, [LegacyNext]_legacyVars
  PROVE  [test_ok /\ ~test_ok' => ~library.known]_legacyVars
<1>. SUFFICES ASSUME LegacyNext, test_ok, ~test_ok', library.known PROVE FALSE
  BY DEF legacyVars
<1>1. \/ PollIws /\ inquiry[2] = "word"
      \/ PollACharacter /\ inquiry[2] \in {"word", "character"}
  BY DEF LegacyNext, SenderCloses, SenderOpens, SpaceLasts, ClearLegacy, BeginPoll, PollAgain, PollIws, PollACharacter,
         resultVars
<1>2. \/ inquiry = <<"space", "word">> /\ Retained /\ waited = 2 /\ Verified("word")
      \/ inquiry = <<"character", "character">> /\ library.state = "told" /\ waited = 1 /\ Verified("character")
  BY <1>1 DEF LegacyInv, Asked, AtRest, PollIws, PollACharacter
<1>. QED
  <2>1. CASE inquiry = <<"space", "word">> /\ Retained /\ waited = 2 /\ Verified("word")
    <3>1. AnswerTo(~get_representation) = "word"
      BY <2>1 DEF AnswerTo, Retained
    <3>. QED
      BY <2>1, <3>1, Zenon DEF Verified
  <2>2. CASE inquiry = <<"character", "character">> /\ library.state = "told" /\ waited = 1 /\ Verified("character")
    <3>1. AnswerTo(~get_representation) = "character"
      BY <2>2 DEF AnswerTo
    <3>. QED
      BY <2>2, <3>1, Zenon DEF Verified
  <2>. QED
    BY <1>2, <2>1, <2>2

\* While no key event falls into a poll, all that is keyed is received, once and in its
\* order, by whichever of the two ways of polling; and a key that closes is heard as a mark.
THEOREM LegacyTextAlwaysArrives ==
  ASSUME Undivided
  PROVE  LegacySpec => LegacyTextArrives
<1>1. LegacyInit => LegacyInv
  BY InitIsLegacy
<1>2. LegacyInv /\ [LegacyNext]_legacyVars => LegacyInv'
  BY LegacyGoesOn
<1>3. LegacyInv => ReceivedIsSent /\ ClosedKeyIsMark
  BY LegacyArrives
<1>4. LegacyInv /\ [LegacyNext]_legacyVars => [test_ok /\ ~test_ok' => ~library.known]_legacyVars
  BY PollsDoAgree
<1>. QED
  BY <1>1, <1>2, <1>3, <1>4, PTL DEF LegacySpec, LegacyTextArrives, PollsAgree

---------------------------------------------------------------------------
(***************************************************************************)
(* The tables of characters: a hash is a number in binary that begins with  *)
(* a one, so it tells which marks it is of; and what is keyed letter by     *)
(* letter has the marks of its letters.                                     *)
(***************************************************************************)

Bits == {0, 1}
Codes == Nat \ {0}
Doubled == [p \in Codes \X Bits |-> 2 * p[1] + p[2]]
Code(r) == FoldOf(Doubled, 1, r)

LEMMA CodesStay ==
    /\ StaysIn(Doubled, Codes, Bits) /\ 1 \in Codes
    /\ \A c \in Codes : \A b \in Bits : Doubled[<<c, b>>] = 2 * c + b
  BY DEF StaysIn, Doubled, Codes, Bits

\* A fold of bits with the operation that the library hashes with.
IsHashing(f, r) ==
    f = [s \in SUBSET (DOMAIN r) |-> IF s = {} THEN 1 ELSE 2 * f[s \ {Max(s)}] + r[Max(s)]]

LEMMA HashIsChosen ==
    ASSUME NEW r
    PROVE  FoldLeft(LAMBDA hash, mark : 2 * hash + mark, 1, r) = (CHOOSE f : IsHashing(f, r))[DOMAIN r]
  BY DEF FoldLeft, MapThenFoldSet, IsHashing

LEMMA HashIsCode ==
    ASSUME NEW r \in Seq(Bits)
    PROVE  FoldLeft(LAMBDA hash, mark : 2 * hash + mark, 1, r) = Code(r)
<1>. DEFINE F == Doubled
            A == Codes
            g == Chosen(F, 1, r)
            f == CHOOSE h : IsHashing(h, r)
            O == [s \in SUBSET (DOMAIN r) |-> 2 * f[s \ {Max(s)}] + r[Max(s)]]
<1>1. DOMAIN r = 1..Len(r) /\ Len(r) \in Nat /\ \A k \in 1..Len(r) : r[k] \in Bits
  OBVIOUS
<1>2. StaysIn(F, A, Bits) /\ 1 \in A
  BY CodesStay
<1>3. \A c \in A : \A b \in Bits : F[<<c, b>>] = 2 * c + b
  BY CodesStay
<1>4. ChosenStays(g, F, A, Bits, 1, r)
  <2>. HIDE DEF F, A
  <2>. QED
    BY <1>2, ChosenInRange
<1>. HIDE DEF g, f, F, A
<1>5. IsHashing(g, r)
  <2>1. \A s \in SUBSET (DOMAIN r) :
           s # {} => F[<<g[s \ {Max(s)}], r[Max(s)]>>] = 2 * g[s \ {Max(s)}] + r[Max(s)]
    BY <1>3, <1>4 DEF ChosenStays
  <2>2. [s \in SUBSET (DOMAIN r) |-> IF s = {} THEN 1 ELSE F[<<g[s \ {Max(s)}], r[Max(s)]>>]]
      = [s \in SUBSET (DOMAIN r) |-> IF s = {} THEN 1 ELSE 2 * g[s \ {Max(s)}] + r[Max(s)]]
    BY <2>1
  <2>. QED
    BY <1>4, <2>2, Zenon DEF ChosenStays, IsHashing
<1>6. IsHashing(f, r)
  BY <1>5, Zenon DEF f
<1>7. Operates(f, O, 1, r)
  <2>1. \A s \in SUBSET (DOMAIN r) : O[s] = 2 * f[s \ {Max(s)}] + r[Max(s)]
    OBVIOUS
  <2>. HIDE DEF O
  <2>2. [s \in SUBSET (DOMAIN r) |-> IF s = {} THEN 1 ELSE O[s]]
      = [s \in SUBSET (DOMAIN r) |-> IF s = {} THEN 1 ELSE 2 * f[s \ {Max(s)}] + r[Max(s)]]
    BY <2>1
  <2>. QED
    BY <1>6, <2>2, Zenon DEF IsHashing, Operates
<1>8. AgreesWith(O, f, F, A, r)
  <2>1. ASSUME NEW s \in SUBSET (DOMAIN r), s # {}, f[s \ {Max(s)}] \in A
        PROVE  O[s] = F[<<f[s \ {Max(s)}], r[Max(s)]>>]
    <3>1. Max(s) \in 1..Len(r)
      BY <1>1, <2>1, MaxIsMember
    <3>2. O[s] = 2 * f[s \ {Max(s)}] + r[Max(s)]
      OBVIOUS
    <3>. HIDE DEF O
    <3>3. r[Max(s)] \in Bits
      BY <1>1, <3>1
    <3>. QED
      BY <1>3, <2>1, <3>2, <3>3, Zenon
  <2>. QED
    BY <2>1 DEF AgreesWith
<1>. HIDE DEF O
<1>9. f[DOMAIN r] = FoldOf(F, 1, r)
  BY <1>2, <1>7, <1>8, OperationFolds
<1>. QED
  BY <1>9, HashIsChosen, Zenon DEF f, F, Code

LEMMA CodeOfAppend ==
    ASSUME NEW r \in Seq(Bits), NEW b \in Bits
    PROVE  Code(r) \in Codes /\ Code(Append(r, b)) = 2 * Code(r) + b
<1>. DEFINE F == Doubled
<1>1. StaysIn(F, Codes, Bits) /\ 1 \in Codes
  BY CodesStay
<1>. HIDE DEF F
<1>2. FoldOf(F, 1, r) \in Codes
  BY <1>1, FoldInRange
<1>3. FoldOf(F, 1, Append(r, b)) = F[<<FoldOf(F, 1, r), b>>]
  BY <1>1, FoldOfAppend
<1>. QED
  BY <1>2, <1>3, CodesStay DEF Code, F

LEMMA LastIsAppended ==
    ASSUME NEW S, NEW s \in Seq(S), Len(s) > 0
    PROVE  \E q \in Seq(S) : \E y \in S : s = Append(q, y) /\ Len(q) = Len(s) - 1
<1>. DEFINE n == Len(s)
            q == [i \in 1..n - 1 |-> s[i]]
<1>1. n \in Nat /\ n - 1 \in Nat /\ s[n] \in S /\ \A i \in 1..n - 1 : s[i] \in S
  OBVIOUS
<1>2. q \in Seq(S) /\ Len(q) = n - 1
  BY <1>1
<1>3. \A i \in 1..n - 1 : q[i] = s[i]
  OBVIOUS
<1>. HIDE DEF q
<1>4. Append(q, s[n]) \in Seq(S) /\ Len(Append(q, s[n])) = n
  BY <1>1, <1>2
<1>5. ASSUME NEW i \in 1..n PROVE Append(q, s[n])[i] = s[i]
  BY <1>1, <1>2, <1>3
<1>6. s = Append(q, s[n])
  BY <1>4, <1>5, SeqEqual
<1>. QED
  BY <1>1, <1>2, <1>6

LEMMA OneSum ==
    ASSUME NEW c \in Nat, NEW d \in Nat, NEW x \in {0, 1}, NEW y \in {0, 1}, 2 * c + x = 2 * d + y
    PROVE  c = d /\ x = y
<1>1. CASE x = y
  BY <1>1
<1>2. CASE x = 0 /\ y = 1
  BY <1>2
<1>3. CASE x = 1 /\ y = 0
  BY <1>3
<1>. QED
  BY <1>1, <1>2, <1>3

\* A code tells which marks it is of.
LEMMA CodesDiffer ==
    ASSUME NEW r \in Seq(Bits), NEW s \in Seq(Bits), Code(r) = Code(s)
    PROVE  r = s
<1>. DEFINE n == Len(r)
            Tells(k) == \A p, q \in Seq(Bits) : Len(p) = k /\ Code(p) = Code(q) => p = q
            T == {k \in 0..n : Tells(k)}
<1>1. n \in Nat
  OBVIOUS
<1>2. Code(<< >>) = 1
  BY FoldOfNothing, CodesStay DEF Code
<1>3. ASSUME NEW q \in Seq(Bits), Len(q) > 0 PROVE Code(q) > 1
  <2>1. PICK p \in Seq(Bits), b \in Bits : q = Append(p, b)
    BY <1>3, LastIsAppended
  <2>. QED
    BY <2>1, CodeOfAppend DEF Codes, Bits
<1>4. 0 \in T
  <2>1. ASSUME NEW p \in Seq(Bits), NEW q \in Seq(Bits), Len(p) = 0, Code(p) = Code(q) PROVE p = q
    <3>1. p = << >>
      BY <2>1
    <3>2. ~ (Len(q) > 0)
      BY <1>2, <1>3, <2>1, <3>1
    <3>. QED
      BY <3>1, <3>2
  <2>. QED
    BY <1>1, <2>1
<1>5. ASSUME NEW k \in 0..n - 1, k \in T PROVE k + 1 \in T
  <2>1. ASSUME NEW p \in Seq(Bits), NEW q \in Seq(Bits), Len(p) = k + 1, Code(p) = Code(q) PROVE p = q
    <3>1. PICK u \in Seq(Bits), a \in Bits : p = Append(u, a) /\ Len(u) = k
      <4>1. Len(p) > 0 /\ Len(p) - 1 = k
        BY <1>1, <2>1
      <4>. QED
        BY <4>1, LastIsAppended
    <3>2. Code(p) > 1
      BY <1>1, <1>3, <2>1
    <3>3. Len(q) > 0
      <4>1. CASE q = << >>
        BY <1>2, <2>1, <3>2, <4>1
      <4>2. CASE q # << >>
        BY <4>2
      <4>. QED
        BY <4>1, <4>2
    <3>4. PICK v \in Seq(Bits), b \in Bits : q = Append(v, b)
      BY <3>3, LastIsAppended
    <3>5. /\ Code(p) = 2 * Code(u) + a /\ Code(q) = 2 * Code(v) + b
          /\ Code(u) \in Codes /\ Code(v) \in Codes
      BY <3>1, <3>4, CodeOfAppend
    <3>6. Code(u) = Code(v) /\ a = b
      <4>1. Code(u) \in Nat /\ Code(v) \in Nat /\ 2 * Code(u) + a = 2 * Code(v) + b
        BY <2>1, <3>5 DEF Codes
      <4>. QED
        BY <4>1, OneSum DEF Bits
    <3>7. u = v
      BY <1>5, <3>1, <3>6
    <3>. QED
      BY <3>1, <3>4, <3>6, <3>7
  <2>2. Tells(k + 1)
    BY <2>1
  <2>3. k + 1 \in 0..n
    BY <1>1
  <2>. HIDE DEF Tells
  <2>. QED
    BY <2>2, <2>3
<1>6. 0..n \subseteq T
  <2>. HIDE DEF T
  <2>. QED
    BY <1>1, <1>4, <1>5, InductionUpTo
<1>7. n \in T
  <2>1. n \in 0..n
    BY <1>1
  <2>. HIDE DEF T
  <2>. QED
    BY <1>6, <2>1
<1>. QED
  BY <1>7

---------------------------------------------------------------------------
LEMMA HashIs ==
    ASSUME NEW r \in Seq(Bits)
    PROVE  /\ Hash(r) # 0 <=> Len(r) \in 1..max_length
           /\ Hash(r) # 0 => Hash(r) = Code(r)
<1>1. Hash(r) = IF Len(r) \notin 1..max_length THEN 0 ELSE Code(r)
  BY HashIsCode, Zenon DEF Hash
<1>2. Code(r) # 0
  <2>1. Code(r) \in Codes
    BY CodeOfAppend DEF Bits
  <2>. QED
    BY <2>1 DEF Codes
<1>. QED
  BY <1>1, <1>2, Zenon

LEMMA HashesDiffer ==
    ASSUME NEW r \in Seq(Bits), NEW s \in Seq(Bits), Hash(r) = Hash(s), Hash(r) # 0
    PROVE  r = s
<1>1. Code(r) = Code(s)
  BY HashIs, Zenon
<1>. QED
  BY <1>1, CodesDiffer

LEMMA MinIsMember ==
    ASSUME NEW n \in Nat, NEW s \in SUBSET (1..n), s # {}
    PROVE  Min(s) \in s
<1>1. \E x \in s : \A y \in s : x =< y
  <2>1. s \in SUBSET Nat
    OBVIOUS
  <2>. QED
    BY <2>1, LeastNatural
<1>. QED
  BY <1>1, Zenon DEF Min

LEMMA EntriesAre ==
    ASSUME EntriesDiffer
    PROVE  /\ Len(CW_TABLE) \in Nat /\ DOMAIN CW_TABLE = 1..Len(CW_TABLE)
           /\ \A i \in DOMAIN CW_TABLE : CW_TABLE[i][2] \in Seq(Bits) /\ CW_TABLE[i] = <<CW_TABLE[i][1], CW_TABLE[i][2]>>
           /\ \A i, j \in DOMAIN CW_TABLE : CW_TABLE[i][2] = CW_TABLE[j][2] => i = j
<1>. DEFINE R == Seq(Bits)
<1>1. CW_TABLE \in Seq(STRING \X R)
  BY DEF EntriesDiffer, Bits
<1>. HIDE DEF R
<1>2. /\ Len(CW_TABLE) \in Nat /\ DOMAIN CW_TABLE = 1..Len(CW_TABLE)
      /\ \A i \in DOMAIN CW_TABLE : CW_TABLE[i] \in STRING \X R
  BY <1>1
<1>3. \A i \in DOMAIN CW_TABLE : CW_TABLE[i][2] \in R /\ CW_TABLE[i] = <<CW_TABLE[i][1], CW_TABLE[i][2]>>
  BY <1>2
<1>4. \A i, j \in DOMAIN CW_TABLE : CW_TABLE[i][2] = CW_TABLE[j][2] => i = j
  BY Zenon DEF EntriesDiffer
<1>. QED
  BY <1>2, <1>3, <1>4, Zenon DEF R

\* The places that Lookup() and Direct() choose.
LEMMA LookupFinds ==
    ASSUME EntriesDiffer, NEW h
    PROVE  \/ Lookup(h) = 0 /\ (h = 0 \/ \A i \in DOMAIN CW_TABLE : Hash(CW_TABLE[i][2]) # h)
           \/ h # 0 /\ Lookup(h) # 0 /\ Lookup(h) \in DOMAIN CW_TABLE /\ Hash(CW_TABLE[Lookup(h)][2]) = h
<1>. DEFINE I == {i \in 1..Len(CW_TABLE) : Hash(CW_TABLE[i][2]) = h}
<1>1. Lookup(h) = IF h = 0 THEN 0 ELSE IF I # {} THEN Max(I) ELSE 0
  BY Zenon DEF Lookup, SelectLastInSeq
<1>2. Len(CW_TABLE) \in Nat /\ DOMAIN CW_TABLE = 1..Len(CW_TABLE)
  BY EntriesAre
<1>3. I \in SUBSET (1..Len(CW_TABLE))
  OBVIOUS
<1>4. \A i \in 1..Len(CW_TABLE) : i \in I <=> Hash(CW_TABLE[i][2]) = h
  OBVIOUS
<1>. HIDE DEF I
<1>5. I # {} => Max(I) \in I /\ Max(I) \in 1..Len(CW_TABLE) /\ Max(I) # 0
  BY <1>2, <1>3, MaxIsMember
<1>. QED
  BY <1>1, <1>2, <1>3, <1>4, <1>5, Zenon

LEMMA DirectFinds ==
    ASSUME EntriesDiffer, NEW r
    PROVE  \/ Direct(r) = 0 /\ \A i \in DOMAIN CW_TABLE : CW_TABLE[i][2] # r
           \/ Direct(r) # 0 /\ Direct(r) \in DOMAIN CW_TABLE /\ CW_TABLE[Direct(r)][2] = r
<1>. DEFINE I == {i \in 1..Len(CW_TABLE) : CW_TABLE[i][2] = r}
<1>1. Direct(r) = IF I # {} THEN Min(I) ELSE 0
  BY Zenon DEF Direct, SelectInSeq
<1>2. Len(CW_TABLE) \in Nat /\ DOMAIN CW_TABLE = 1..Len(CW_TABLE)
  BY EntriesAre
<1>3. I \in SUBSET (1..Len(CW_TABLE))
  OBVIOUS
<1>4. \A i \in 1..Len(CW_TABLE) : i \in I <=> CW_TABLE[i][2] = r
  OBVIOUS
<1>. HIDE DEF I
<1>5. I # {} => Min(I) \in I
  BY <1>2, <1>3, MinIsMember
<1>6. I # {} => Min(I) \in 1..Len(CW_TABLE) /\ Min(I) # 0
  <2>1. \A x \in 1..Len(CW_TABLE) : x # 0
    BY <1>2
  <2>2. \A x \in I : x \in 1..Len(CW_TABLE)
    BY <1>3
  <2>. QED
    BY <1>5, <2>1, <2>2, Zenon
<1>. QED
  BY <1>1, <1>2, <1>4, <1>5, <1>6, Zenon

\* By hash or by search, what is found is the same.
LEMMA BothFindIt ==
    ASSUME EntriesDiffer, NEW r \in Seq(Bits)
    PROVE  RepresentationToCharacter(r) = RepresentationToCharacterDirect(r)
<1>. DEFINE found == Lookup(Hash(r))
            direct == Direct(r)
<1>1. RepresentationToCharacter(r)
        = IF IsComplete \/ (found # 0 /\ CW_TABLE[found][2] = r) THEN Entry(found) ELSE Entry(direct)
  BY Zenon DEF RepresentationToCharacter
<1>2. RepresentationToCharacterDirect(r) = Entry(direct)
  BY Zenon DEF RepresentationToCharacterDirect
<1>3. \/ found = 0 /\ (Hash(r) = 0 \/ \A i \in DOMAIN CW_TABLE : Hash(CW_TABLE[i][2]) # Hash(r))
      \/ Hash(r) # 0 /\ found # 0 /\ found \in DOMAIN CW_TABLE /\ Hash(CW_TABLE[found][2]) = Hash(r)
  BY LookupFinds
<1>4. \/ direct = 0 /\ \A i \in DOMAIN CW_TABLE : CW_TABLE[i][2] # r
      \/ direct # 0 /\ direct \in DOMAIN CW_TABLE /\ CW_TABLE[direct][2] = r
  BY DirectFinds
<1>. HIDE DEF found, direct
<1>5. found # 0 => CW_TABLE[found][2] = r
  BY <1>3, EntriesAre, HashesDiffer
<1>6. found # 0 => found = direct
  BY <1>3, <1>4, <1>5, EntriesAre
<1>7. IsComplete /\ direct # 0 => found # 0
  <2>1. IsComplete => \A i \in DOMAIN CW_TABLE : Hash(CW_TABLE[i][2]) # 0
    BY Zenon DEF IsComplete
  <2>. QED
    BY <1>3, <1>4, <2>1, Zenon
<1>. QED
  BY <1>1, <1>2, <1>6, <1>7, Zenon

---------------------------------------------------------------------------
Names == {CW_TABLE[k][1] : k \in DOMAIN CW_TABLE}

\* What is keyed letter by letter has the marks of its letters.
DataInv ==
    /\ marks \in Seq(Bits) /\ letters \in Seq(Names)
    /\ letters # << >> => marks = MarksOf(letters)

LEMMA LettersHaveMarks ==
    ASSUME EntriesDiffer, NEW c \in Names
    PROVE  CharacterToRepresentation(c) \in Seq(Bits)
<1>. DEFINE I == {i \in 1..Len(CW_TABLE) : CW_TABLE[i][1] = c}
<1>1. CharacterToRepresentation(c) = CW_TABLE[IF I # {} THEN Max(I) ELSE 0][2]
  BY Zenon DEF CharacterToRepresentation, SelectLastInSeq
<1>2. Len(CW_TABLE) \in Nat /\ DOMAIN CW_TABLE = 1..Len(CW_TABLE)
  BY EntriesAre
<1>3. I \in SUBSET (1..Len(CW_TABLE)) /\ I # {}
  BY <1>2 DEF Names
<1>. HIDE DEF I
<1>4. Max(I) \in DOMAIN CW_TABLE
  BY <1>2, <1>3, MaxIsMember
<1>. QED
  BY <1>1, <1>3, <1>4, EntriesAre, Zenon

LEMMA MarksOfMore ==
    ASSUME EntriesDiffer, NEW names \in Seq(Names), NEW c \in Names
    PROVE  /\ MarksOf(Append(names, c)) = MarksOf(names) \o CharacterToRepresentation(c)
           /\ MarksOf(names) \in Seq(Bits)
<1>. DEFINE M(s) == [k \in DOMAIN s |-> CharacterToRepresentation(s[k])]
            R == Seq(Bits)
            n == Len(names)
<1>1. n \in Nat /\ DOMAIN names = 1..n /\ \A k \in 1..n : names[k] \in Names
  OBVIOUS
<1>2. \A k \in 1..n : CharacterToRepresentation(names[k]) \in R
  BY <1>1, LettersHaveMarks
<1>3. CharacterToRepresentation(c) \in R
  BY LettersHaveMarks
<1>4. M(names) \in Seq(R) /\ Len(M(names)) = n /\ \A k \in 1..n : M(names)[k] = CharacterToRepresentation(names[k])
  <2>. HIDE DEF R
  <2>. QED
    BY <1>1, <1>2
<1>5. M(Append(names, c)) = Append(M(names), CharacterToRepresentation(c))
  <2>. DEFINE more == Append(names, c)
              x == CharacterToRepresentation(c)
  <2>1. more \in Seq(Names) /\ Len(more) = n + 1 /\ DOMAIN more = 1..n + 1
    BY <1>1
  <2>2. more[n + 1] = c /\ \A k \in 1..n : more[k] = names[k]
    BY <1>1
  <2>3. M(more) = [k \in 1..n + 1 |-> CharacterToRepresentation(more[k])]
    BY <2>1
  <2>. HIDE DEF more
  <2>4. /\ \A k \in 1..n + 1 : k = n + 1 => M(more)[k] = x
        /\ \A k \in 1..n + 1 : k # n + 1 => M(more)[k] = M(names)[k]
    <3>1. \A k \in 1..n + 1 : M(more)[k] = CharacterToRepresentation(more[k])
      BY <2>3
    <3>2. ASSUME NEW k \in 1..n + 1, k = n + 1 PROVE M(more)[k] = x
      BY <2>2, <3>1, <3>2, Zenon
    <3>3. ASSUME NEW k \in 1..n + 1, k # n + 1 PROVE M(more)[k] = M(names)[k]
      <4>1. k \in 1..n
        BY <1>1, <3>3
      <4>. QED
        BY <1>4, <2>2, <3>1, <4>1, Zenon
    <3>. QED
      BY <3>2, <3>3, Zenon
  <2>5. M(more) \in Seq(R) /\ Len(M(more)) = n + 1
    <3>1. \A k \in 1..n + 1 : CharacterToRepresentation(more[k]) \in R
      <4>1. \A k \in 1..n + 1 : k = n + 1 \/ k \in 1..n
        BY <1>1
      <4>. QED
        BY <1>2, <1>3, <2>2, <4>1, Zenon
    <3>. HIDE DEF R
    <3>. QED
      BY <1>1, <2>3, <3>1
  <2>. DEFINE u == M(names)
              v == M(more)
  <2>6. /\ u \in Seq(R) /\ Len(u) = n /\ v \in Seq(R) /\ Len(v) = n + 1
        /\ x \in R
        /\ \A k \in 1..n + 1 : k = n + 1 => v[k] = x
        /\ \A k \in 1..n + 1 : k # n + 1 => v[k] = u[k]
    BY <1>3, <1>4, <2>4, <2>5, Zenon
  <2>. HIDE DEF u, v, x, R
  <2>7. Append(u, x) \in Seq(R) /\ Len(Append(u, x)) = n + 1
    BY <1>1, <2>6
  <2>8. ASSUME NEW k \in 1..n + 1 PROVE Append(u, x)[k] = v[k]
    BY <1>1, <2>6
  <2>9. v = Append(u, x)
    BY <2>6, <2>7, <2>8, SeqEqual
  <2>. QED
    BY <2>9 DEF u, v, x, more
<1>. DEFINE u == M(names)
            x == CharacterToRepresentation(c)
<1>6. u \in Seq(Seq(Bits)) /\ x \in Seq(Bits)
  BY <1>3, <1>4, Zenon
<1>. HIDE DEF u, x
<1>7. FlattenSeq(Append(u, x)) = FlattenSeq(u) \o x /\ FlattenSeq(u) \in Seq(Bits)
  BY <1>6, FlattenOfAppend, FlattenedIsSequence
<1>. QED
  BY <1>5, <1>7 DEF u, x, MarksOf

LEMMA MarksOfNothing == MarksOf(<< >>) = << >>
<1>1. [k \in DOMAIN << >> |-> CharacterToRepresentation(<< >>[k])] = << >>
  OBVIOUS
<1>. QED
  BY <1>1, FlattenOfNothing, Zenon DEF MarksOf

LEMMA FrontAndLast ==
    ASSUME NEW S, NEW s \in Seq(S), Len(s) > 0
    PROVE  s = Append(Front(s), Last(s)) /\ Front(s) \in Seq(S) /\ Last(s) \in S
<1>. DEFINE n == Len(s)
<1>1. n \in Nat /\ n - 1 \in Nat /\ s[n] \in S /\ \A i \in 1..n - 1 : s[i] \in S
  OBVIOUS
<1>2. Front(s) \in Seq(S) /\ Len(Front(s)) = n - 1 /\ \A i \in 1..n - 1 : Front(s)[i] = s[i]
  <2>1. SubSeq(s, 1, n - 1) = [i \in 1..n - 1 |-> s[i]]
    BY <1>1
  <2>2. Front(s) = [i \in 1..n - 1 |-> s[i]]
    BY <2>1 DEF Front
  <2>. QED
    BY <1>1, <2>2
<1>3. Last(s) = s[n]
  BY DEF Last
<1>. DEFINE q == Front(s)
<1>. HIDE DEF q
<1>4. Append(q, s[n]) \in Seq(S) /\ Len(Append(q, s[n])) = n
  BY <1>1, <1>2 DEF q
<1>5. ASSUME NEW i \in 1..n PROVE Append(q, s[n])[i] = s[i]
  <2>1. q \in Seq(S) /\ Len(q) = n - 1 /\ \A k \in 1..n - 1 : q[k] = s[k]
    BY <1>2 DEF q
  <2>. QED
    BY <1>1, <2>1
<1>6. s = Append(q, s[n])
  BY <1>4, <1>5, SeqEqual
<1>. QED
  BY <1>1, <1>2, <1>3, <1>6 DEF q

LEMMA InitHasMarks ==
    ASSUME DataInit
    PROVE  DataInv
  BY DEF DataInit, DataInv

LEMMA NextHasMarks ==
    ASSUME EntriesDiffer, ProsignsAreSpelled, DataInv, [DataNext]_dataVars
    PROVE  DataInv'
<1>1. ASSUME NEW mark \in {0, 1}, KeyMark(mark) PROVE DataInv'
  <2>1. letters = << >> /\ letters' = letters /\ marks' = Append(marks, mark)
    BY <1>1 DEF KeyMark
  <2>2. marks' \in Seq(Bits)
    BY <2>1 DEF DataInv, Bits
  <2>. QED
    BY <2>1, <2>2 DEF DataInv
<1>2. ASSUME KeyLetter PROVE DataInv'
  <2>1. PICK i \in DOMAIN g_prosign_table, n \in 1..3 :
           /\ n <= Len(g_prosign_table[i][2])
           /\ letters' = SubSeq(g_prosign_table[i][2], 1, n)
           /\ Front(letters') = letters
    BY <1>2 DEF KeyLetter
  <2>. DEFINE p == g_prosign_table[i][2]
  <2>2. p \in Seq(Names)
    BY DEF ProsignsAreSpelled, Names
  <2>. HIDE DEF p
  <2>3. letters' \in Seq(Names) /\ Len(letters') = n /\ n > 0
    <3>1. n <= Len(p) /\ letters' = SubSeq(p, 1, n)
      BY <2>1 DEF p
    <3>. QED
      BY <2>2, <3>1
  <2>. DEFINE s == letters'
              c == Last(s)
  <2>4. s = Append(Front(s), c) /\ c \in Names
    <3>. HIDE DEF s
    <3>. QED
      BY <2>3, FrontAndLast DEF s
  <2>5. s = Append(letters, c)
    BY <2>1, <2>4
  <2>6. marks' = marks \o CharacterToRepresentation(c) /\ (marks = << >> \/ letters # << >>)
    BY <1>2 DEF KeyLetter
  <2>7. marks = MarksOf(letters)
    BY <2>6, MarksOfNothing DEF DataInv
  <2>. HIDE DEF s, c
  <2>8. letters \in Seq(Names) /\ marks \in Seq(Bits) /\ CharacterToRepresentation(c) \in Seq(Bits)
    BY <2>4, LettersHaveMarks DEF DataInv
  <2>9. MarksOf(s) = marks' /\ marks' \in Seq(Bits)
    <3>1. MarksOf(Append(letters, c)) = MarksOf(letters) \o CharacterToRepresentation(c)
      BY <2>4, <2>8, MarksOfMore
    <3>2. marks' \in Seq(Bits)
      BY <2>6, <2>8, ConcatProperties
    <3>. QED
      BY <2>5, <2>6, <2>7, <3>1, <3>2, Zenon
  <2>. QED
    BY <2>3, <2>9 DEF DataInv, s
<1>3. ASSUME UNCHANGED dataVars PROVE DataInv'
  BY <1>3 DEF DataInv, dataVars
<1>. QED
  BY <1>1, <1>2, <1>3 DEF DataNext

\* However long the representations with a hash are, and whatever is keyed, a
\* representation is looked up alike by hash, by search, and letter by letter of a
\* procedural signal: a hash tells which marks it is of.  Of the entries of the tables
\* it takes that they differ, and that those of procedural signals are spelled.
THEOREM TablesAlwaysAgree ==
    ASSUME EntriesDiffer, ProsignsAreSpelled
    PROVE  DataSpec => []TablesAgree
<1>1. DataInit => DataInv
  BY InitHasMarks
<1>2. DataInv /\ [DataNext]_dataVars => DataInv'
  BY NextHasMarks
<1>3. ASSUME DataInv PROVE TablesAgree
  <2>1. marks \in Seq(Bits)
    BY <1>3 DEF DataInv
  <2>2. LookupsAgree
    BY <2>1, BothFindIt DEF LookupsAgree
  <2>3. ASSUME letters # << >>, NEW i \in DOMAIN g_prosign_table, letters = g_prosign_table[i][2]
        PROVE  RepresentationToCharacter(marks) = g_prosign_table[i][1]
    <3>1. marks = MarksOf(letters)
      BY <1>3, <2>3 DEF DataInv
    <3>2. PICK k \in DOMAIN CW_TABLE : CW_TABLE[k] = <<g_prosign_table[i][1], marks>>
      BY <2>3, <3>1 DEF ProsignsAreSpelled
    <3>3. CW_TABLE[k][1] = g_prosign_table[i][1] /\ CW_TABLE[k][2] = marks
      BY <3>2
    <3>4. Direct(marks) = k /\ k # 0
      BY <3>3, EntriesAre, DirectFinds
    <3>5. Entry(Direct(marks)) = g_prosign_table[i][1]
      BY <3>3, <3>4, Zenon DEF Entry
    <3>. QED
      BY <2>1, <3>5, BothFindIt, Zenon DEF RepresentationToCharacterDirect
  <2>. QED
    BY <2>2, <2>3 DEF TablesAgree, ProsignsAreCharacters
<1>. QED
  BY <1>1, <1>2, <1>3, PTL DEF DataSpec

---------------------------------------------------------------------------
(***************************************************************************)
(* Sound sinks: each library is counted once for every generator whose     *)
(* sink is of it.                                                          *)
(***************************************************************************)
\* The sinks that generators have, and the speakers of their consoles.
SinkStates ==
  [system : Systems \cup {"none"}, device : Devices, sample_rate : Nat, buffer_n_samples : Nat,
   asked : Nat, misused : BOOLEAN]

\* The samples of the shortest dot, and a sink that has as much of it as it should.
DotSamples(rate) == (rate * ShortestDot) \div 1000000
FitsDot(s) ==
  s.system = "alsa" /\ s.asked = 0 /\ s.buffer_n_samples \notin PeriodSizes =>
     3 * s.buffer_n_samples <= DotSamples(s.sample_rate)

\* The generators that a library is loaded for.
Users(l) == {g \in Generators : sink[g].system = l}

Speakers == [cw_value : {"open", "closed"}, beeping : BOOLEAN, volume : BOOLEAN]

SinksInv ==
  /\ sink \in [Generators -> SinkStates] /\ \A g \in Generators : FitsDot(sink[g])
  /\ loaded \in [Libraries -> Int] /\ probes \in [Libraries -> Nat]
  /\ \A l \in Libraries : loaded[l] = probes[l] + Cardinality(Users(l))
  /\ console \in [Generators -> Speakers]

---------------------------------------------------------------------------
LEMMA NoSinkIs ==
  NoSink \in SinkStates /\ NoSink.system = "none" /\ FitsDot(NoSink)
  BY DEF NoSink, SinkStates, FitsDot, Devices

LEMMA ClosedIs ==
  ASSUME NEW s
  PROVE  CloseSink(s).system = "none" /\ CloseSink(s) \in SinkStates /\ FitsDot(CloseSink(s))
<1>. DEFINE m == s.misused \/ OssClosesStale(s) \/ AlsaClosesNothing(s)
<1>1. m \in BOOLEAN
  OBVIOUS
<1>. HIDE DEF m
<1>2. CloseSink(s) = [NoSink EXCEPT !.misused = m]
  BY DEF CloseSink, m
<1>. QED
  BY <1>1, <1>2 DEF NoSink, SinkStates, FitsDot, Devices

LEMMA AcceptedIsRate ==
  ASSUME NEW accepted \in SUBSET {SampleRates[i] : i \in DOMAIN SampleRates}, accepted # {}
  PROVE  FirstAccepted(accepted) \in Nat
<1>. DEFINE D == DOMAIN SampleRates
            T == {i \in D : SampleRates[i] \in accepted}
            IsFirst(i) == SampleRates[i] \in accepted /\ \A j \in 1..i-1 : SampleRates[j] \notin accepted
<1>1. D = 1..Len(SampleRates) /\ Len(SampleRates) \in Nat /\ \A i \in D : SampleRates[i] \in Nat
  BY SinksAssumption
<1>2. T \in SUBSET Nat /\ T # {}
  BY <1>1
<1>3. PICK i \in T : \A j \in T : i =< j
  BY <1>2, LeastNatural
<1>4. i \in D /\ IsFirst(i)
  <2>1. ASSUME NEW j \in 1..i-1, SampleRates[j] \in accepted PROVE FALSE
    <3>1. j \in D /\ ~ (i =< j)
      BY <1>1, <1>3
    <3>. QED
      BY <1>3, <2>1, <3>1
  <2>. QED
    BY <1>3, <2>1
<1>5. FirstAccepted(accepted) = SampleRates[CHOOSE k \in D : IsFirst(k)]
  BY DEF FirstAccepted
<1>6. (CHOOSE k \in D : IsFirst(k)) \in D
  <2>. HIDE DEF D, IsFirst
  <2>. QED
    BY <1>4
<1>. QED
  BY <1>1, <1>5, <1>6

\* The period that ALSA gets, if it asks for the library's.
LEMMA PeriodFits ==
  ASSUME NEW rate \in Nat, NEW size \in {0} \cup PeriodSizes,
         NEW smallest \in PeriodSizes, NEW largest \in PeriodSizes
  PROVE  LET p == ActualPeriodSize(IntendedPeriodSize(rate, size), smallest, largest)
         IN /\ p \in Nat
            /\ size = 0 /\ p \notin PeriodSizes => 3 * p <= (rate * ShortestDot) \div 1000000
<1>. DEFINE y == rate * ShortestDot
            z == y \div 1000000
            p == ActualPeriodSize(IntendedPeriodSize(rate, size), smallest, largest)
<1>1. y \in Nat
  BY SinksAssumption
<1>2. IntendedPeriodSize(rate, size) = IF size # 0 THEN size ELSE z \div 3
  BY DEF IntendedPeriodSize
<1>. HIDE DEF y
<1>3. z \in Nat
  BY <1>1
<1>. HIDE DEF z
<1>4. z \div 3 \in Nat /\ 3 * (z \div 3) <= z
  BY <1>3
<1>5. smallest \in Nat /\ largest \in Nat /\ size \in Nat
  BY SinksAssumption
<1>6. p \in {smallest, largest, IF size # 0 THEN size ELSE z \div 3}
  BY <1>2 DEF ActualPeriodSize
<1>. HIDE DEF p
<1>7. p \in Nat /\ (size = 0 /\ p \notin PeriodSizes => 3 * p <= z)
  BY <1>4, <1>5, <1>6
<1>. QED
  BY <1>7 DEF p, z, y

---------------------------------------------------------------------------
\* What may become of a new generator's sink when it is opened.
IsOpening(r, name) ==
  /\ r.done \in BOOLEAN
  /\ r.sink.system = name
  /\ r.done => r.sink \in SinkStates /\ FitsDot(r.sink)

IsFresh(s, name) == s \in SinkStates /\ s.system = name /\ s.asked = 0

LEMMA FreshIs ==
  ASSUME NEW name \in Systems
  PROVE  IsFresh([NoSink EXCEPT !.system = name], name)
<1>. DEFINE n == NoSink
<1>1. n \in SinkStates
  BY NoSinkIs
<1>2. n.asked = 0
  BY DEF NoSink
<1>. HIDE DEF n
<1>. QED
  BY <1>1, <1>2 DEF n, IsFresh, SinkStates

LEMMA DoneIs ==
  ASSUME NEW s, NEW name, s \in SinkStates, s.system = name, FitsDot(s)
  PROVE  IsOpening(Done(s), name)
<1>1. Done(s).done = TRUE /\ Done(s).sink = s
  BY DEF Done
<1>. DEFINE d == Done(s)
<1>. HIDE DEF d
<1>2. d.done \in BOOLEAN /\ d.sink = s
  BY <1>1, Zenon DEF d
<1>. QED
  BY <1>2, Zenon DEF IsOpening, d

LEMMA OpenedIs ==
  ASSUME NEW name \in Systems, NEW s, IsFresh(s, name),
         NEW device \in Devices, NEW rate \in Nat, NEW size \in Nat, name # "alsa"
  PROVE  IsOpening(Done(Opened(s, device, rate, size)), name)
<1>. DEFINE o == Opened(s, device, rate, size)
<1>1. o \in SinkStates /\ o.system = name
  BY DEF IsFresh, Opened, SinkStates
<1>. HIDE DEF o
<1>2. FitsDot(o)
  BY <1>1 DEF FitsDot
<1>. QED
  BY <1>1, <1>2, DoneIs DEF o

LEMMA FailedIs ==
  ASSUME NEW s, NEW name, s.system = name
  PROVE  IsOpening(Failed(s), name)
<1>1. Failed(s).done = FALSE /\ Failed(s).sink = s
  BY DEF Failed
<1>. DEFINE d == Failed(s)
<1>. HIDE DEF d
<1>2. d.done \in BOOLEAN /\ ~d.done /\ d.sink = s
  BY <1>1, Zenon DEF d
<1>. QED
  BY <1>2, Zenon DEF IsOpening, d

LEMMA OssRates ==
  ASSUME NEW p \in OssConfigurations
  PROVE  p[1] \in Nat /\ p[2] \in Nat
<1>1. PICK d \in OssDevices : OssIoctls(d) /\ d.fragment = OssFragment /\ p = <<FirstAccepted(d.accepted), d.fragment>>
  BY DEF OssConfigurations
<1>2. d.accepted \in SUBSET {SampleRates[i] : i \in DOMAIN SampleRates} /\ d.accepted # {}
  BY <1>1 DEF OssDevices, OssIoctls
<1>3. FirstAccepted(d.accepted) \in Nat
  BY <1>2, AcceptedIsRate
<1>. QED
  BY <1>1, <1>3 DEF OssFragment

LEMMA AlsaOpens ==
  ASSUME NEW size \in {0} \cup PeriodSizes, NEW s, NEW r \in OpenAlsa(s, size), IsFresh(s, "alsa")
  PROVE  IsOpening(r, "alsa")
<1>. DEFINE stuck == [s EXCEPT !.device = "setup"]
<1>0. s.system = "alsa" /\ stuck.system = "alsa"
  BY DEF IsFresh, SinkStates
<1>. HIDE DEF stuck
<1>1. CASE r = Failed(s)
  BY <1>0, <1>1, FailedIs
<1>2. CASE r = Failed(stuck)
  BY <1>0, <1>2, FailedIs
<1>3. ASSUME NEW q \in HwParams(s, size), r = IF q.done THEN Done([q.sink EXCEPT !.device = "prepared"]) ELSE q
      PROVE  IsOpening(r, "alsa")
  <2>. DEFINE A == (SUBSET {SampleRates[i] : i \in DOMAIN SampleRates}) \ {{}}
              P == {x \in PeriodSizes \X PeriodSizes : x[1] <= x[2]}
              p(a, x) == ActualPeriodSize(IntendedPeriodSize(FirstAccepted(a), size), x[1], x[2])
              Configured(a, x) == Opened([s EXCEPT !.asked = size], "setup", FirstAccepted(a), p(a, x))
  <2>1. CASE q = Failed(stuck)
    <3>1. r = q
      BY <1>3, <2>1 DEF Failed
    <3>. QED
      BY <1>0, <2>1, <3>1, FailedIs
  <2>2. ASSUME NEW a \in A, NEW x \in P, q = Done(Configured(a, x)) PROVE IsOpening(r, "alsa")
    <3>1. FirstAccepted(a) \in Nat
      BY AcceptedIsRate
    <3>2. x[1] \in PeriodSizes /\ x[2] \in PeriodSizes
      OBVIOUS
    <3>3. p(a, x) \in Nat /\ (size = 0 /\ p(a, x) \notin PeriodSizes
                                => 3 * p(a, x) <= DotSamples(FirstAccepted(a)))
      BY <3>1, <3>2, PeriodFits DEF DotSamples
    <3>. DEFINE rate == FirstAccepted(a)
                n == p(a, x)
    <3>. DEFINE c == Configured(a, x)
                e == [c EXCEPT !.device = "prepared"]
    <3>4. size \in Nat
      BY SinksAssumption
    <3>5. c \in SinkStates /\ c.system = "alsa" /\ c.asked = size /\ c.sample_rate = rate /\ c.buffer_n_samples = n
      <4>. DEFINE f == [s EXCEPT !.asked = size]
      <4>1. f \in SinkStates /\ f.system = "alsa" /\ f.asked = size
        BY <3>4 DEF IsFresh, SinkStates
      <4>2. c = Opened(f, "setup", rate, n) /\ rate \in Nat /\ n \in Nat
        BY <3>1, <3>3
      <4>. HIDE DEF f, rate, n, c
      <4>. QED
        BY <4>1, <4>2 DEF Opened, SinkStates, Devices
    <3>6. /\ rate \in Nat /\ n \in Nat
          /\ size = 0 /\ n \notin PeriodSizes => 3 * n <= DotSamples(rate)
      BY <3>1, <3>3
    <3>7. q = Done(c)
      BY <2>2
    <3>. HIDE DEF rate, n, c
    <3>8. /\ e \in SinkStates /\ e.system = "alsa"
          /\ e.asked = size /\ e.sample_rate = rate /\ e.buffer_n_samples = n
      BY <3>5 DEF SinkStates, Devices
    <3>9. r = Done(e)
      <4>1. q.done /\ q.sink = c
        BY <3>7 DEF Done
      <4>. QED
        BY <1>3, <4>1, Zenon
    <3>. HIDE DEF e
    <3>10. FitsDot(e)
      BY <3>6, <3>8 DEF FitsDot
    <3>. QED
      BY <3>8, <3>9, <3>10, DoneIs
  <2>3. q = Failed(stuck) \/ \E a \in A : \E x \in P : q = Done(Configured(a, x))
    BY <1>3 DEF HwParams, stuck
  <2>. QED
    BY <2>1, <2>2, <2>3
<1>. QED
  BY <1>1, <1>2, <1>3 DEF OpenAlsa, stuck

LEMMA SinkOpens ==
  ASSUME NEW system \in Systems, NEW size \in {0} \cup PeriodSizes, NEW r \in OpenAndConfigure(system, size)
  PROVE  IsOpening(r, system)
<1>. DEFINE fresh == [NoSink EXCEPT !.system = system]
<1>1. IsFresh(fresh, system)
  BY FreshIs
<1>0. fresh.system = system /\ [fresh EXCEPT !.device = "stale"].system = system
  <2>. HIDE DEF fresh
  <2>. QED
    BY <1>1 DEF IsFresh, SinkStates
<1>. HIDE DEF fresh
<1>2. CASE system = "null"
  <2>1. r = Done(Opened(fresh, "running", 48000, 0))
    BY <1>2 DEF OpenAndConfigure, OpenNull, fresh
  <2>. QED
    BY <1>0, <1>1, <1>2, <2>1, OpenedIs DEF Devices
<1>3. CASE system = "console"
  <2>1. r = Done(Opened(fresh, "running", 44100, 0)) \/ r = Failed(fresh)
    BY <1>3 DEF OpenAndConfigure, OpenConsole, fresh
  <2>. QED
    BY <1>0, <1>1, <1>3, <2>1, OpenedIs, FailedIs DEF Devices
<1>4. CASE system = "pa"
  <2>1. r = Done(Opened(fresh, "running", 44100, PaBufferSize)) \/ r = Failed(fresh)
    BY <1>4 DEF OpenAndConfigure, OpenPa, fresh
  <2>. QED
    BY <1>0, <1>1, <1>4, <2>1, OpenedIs, FailedIs DEF Devices, PaBufferSize
<1>5. CASE system = "oss"
  <2>1. \/ \E p \in OssConfigurations : r = Done(Opened(fresh, "running", p[1], p[2]))
        \/ r = Failed(fresh) \/ r = Failed([fresh EXCEPT !.device = "stale"])
    BY <1>5 DEF OpenAndConfigure, OpenOss, fresh
  <2>. QED
    BY <1>0, <1>1, <1>5, <2>1, OpenedIs, FailedIs, OssRates DEF Devices
<1>6. CASE system = "alsa"
  <2>1. r \in OpenAlsa(fresh, size)
    BY <1>6 DEF OpenAndConfigure, fresh
  <2>. QED
    BY <1>0, <1>1, <1>6, <2>1, AlsaOpens
<1>. QED
  BY <1>2, <1>3, <1>4, <1>5, <1>6 DEF Systems, Soundcards

---------------------------------------------------------------------------
\* A generator's sink becomes another: the users of the libraries with it.
LEMMA SinkBecomes ==
  ASSUME SinksInv, NEW g \in Generators, NEW s \in SinkStates, FitsDot(s),
         sink' = [sink EXCEPT ![g] = s]
  PROVE  /\ sink' \in [Generators -> SinkStates] /\ \A h \in Generators : FitsDot(sink'[h])
         /\ \A l \in Libraries :
               Users(l)' = IF s.system = l THEN Users(l) \cup {g} ELSE Users(l) \ {g}
<1>1. sink \in [Generators -> SinkStates]
  BY DEF SinksInv
<1>2. sink' \in [Generators -> SinkStates] /\ sink'[g] = s /\ \A h \in Generators \ {g} : sink'[h] = sink[h]
  BY <1>1
<1>3. \A h \in Generators : FitsDot(sink'[h])
  <2>. TAKE h \in Generators
  <2>1. CASE h = g
    BY <1>2, <2>1, Zenon
  <2>2. CASE h # g
    <3>1. FitsDot(sink[h])
      BY DEF SinksInv
    <3>2. sink'[h] = sink[h]
      BY <1>2, <2>2
    <3>. QED
      BY <3>1, <3>2, Zenon
  <2>. QED
    BY <2>1, <2>2
<1>4. ASSUME NEW l \in Libraries
      PROVE  Users(l)' = IF s.system = l THEN Users(l) \cup {g} ELSE Users(l) \ {g}
  BY <1>2 DEF Users
<1>. QED
  BY <1>2, <1>3, <1>4

LEMMA UsersCount ==
  ASSUME NEW l, NEW g \in Generators
  PROVE  /\ IsFiniteSet(Users(l)) /\ Cardinality(Users(l)) \in Nat
         /\ g \notin Users(l) => Cardinality(Users(l) \cup {g}) = Cardinality(Users(l)) + 1
         /\ g \in Users(l) => Cardinality(Users(l) \ {g}) = Cardinality(Users(l)) - 1
         /\ g \notin Users(l) => Users(l) \ {g} = Users(l)
         /\ g \in Users(l) => Users(l) \cup {g} = Users(l)
<1>1. IsFiniteSet(Users(l))
  BY SinksAssumption, FS_Subset DEF Users
<1>. DEFINE u == Users(l)
<1>. HIDE DEF u
<1>2. Cardinality(u) \in Nat
  BY <1>1, FS_CardinalityType DEF u
<1>3. g \notin u => Cardinality(u \cup {g}) = Cardinality(u) + 1
  BY <1>1, FS_AddElement DEF u
<1>4. g \in u => Cardinality(u \ {g}) = Cardinality(u) - 1
  BY <1>1, FS_RemoveElement DEF u
<1>5. (g \notin u => u \ {g} = u) /\ (g \in u => u \cup {g} = u)
  OBVIOUS
<1>. QED
  BY <1>1, <1>2, <1>3, <1>4, <1>5, Zenon DEF u

\* Writing changes a device only.
LEMMA DeviceBecomes ==
  ASSUME SinksInv, NEW g \in Generators, NEW e \in SinkStates, sink' = [sink EXCEPT ![g] = e],
         e.system = sink[g].system, e.asked = sink[g].asked,
         e.sample_rate = sink[g].sample_rate, e.buffer_n_samples = sink[g].buffer_n_samples,
         UNCHANGED <<loaded, probes, console>>
  PROVE  SinksInv'
<1>. DEFINE b == sink[g]
<1>1. FitsDot(b)
  BY DEF SinksInv
<1>2. /\ e.system = b.system
      /\ e.asked = b.asked /\ e.sample_rate = b.sample_rate /\ e.buffer_n_samples = b.buffer_n_samples
  OBVIOUS
<1>. HIDE DEF b
<1>4. FitsDot(e)
  BY <1>1, <1>2, Zenon DEF FitsDot
<1>5. /\ sink' \in [Generators -> SinkStates] /\ \A h \in Generators : FitsDot(sink'[h])
      /\ \A l \in Libraries : Users(l)' = IF e.system = l THEN Users(l) \cup {g} ELSE Users(l) \ {g}
  BY <1>4, SinkBecomes
<1>6. ASSUME NEW l \in Libraries PROVE Users(l)' = Users(l)
  <2>1. g \in Users(l) <=> e.system = l
    BY <1>2 DEF Users, b
  <2>. QED
    BY <1>5, <2>1, UsersCount
<1>7. ASSUME NEW l \in Libraries PROVE loaded'[l] = probes'[l] + Cardinality(Users(l)')
  BY <1>6 DEF SinksInv
<1>8. /\ loaded' \in [Libraries -> Int] /\ probes' \in [Libraries -> Nat] /\ console' \in [Generators -> Speakers]
  BY DEF SinksInv
<1>. QED
  BY <1>5, <1>7, <1>8 DEF SinksInv, Users

\* The sinks stay, the speakers and what clients were told may change.
LEMMA SinksStay ==
  ASSUME SinksInv, UNCHANGED sink,
         loaded' \in [Libraries -> Int], probes' \in [Libraries -> Nat],
         console' \in [Generators -> Speakers],
         \A l \in Libraries : loaded'[l] - loaded[l] = probes'[l] - probes[l]
  PROVE  SinksInv'
<1>1. \A l \in Libraries : Users(l)' = Users(l)
  BY DEF Users
<1>2. ASSUME NEW l \in Libraries PROVE loaded'[l] = probes'[l] + Cardinality(Users(l)')
  <2>1. loaded[l] = probes[l] + Cardinality(Users(l)) /\ loaded[l] \in Int /\ probes[l] \in Int
        /\ loaded'[l] \in Int /\ probes'[l] \in Int /\ loaded'[l] - loaded[l] = probes'[l] - probes[l]
    BY DEF SinksInv
  <2>3. Cardinality(Users(l)) \in Nat
    <3>1. IsFiniteSet(Users(l))
      BY SinksAssumption, FS_Subset DEF Users
    <3>. QED
      BY <3>1, FS_CardinalityType
  <2>4. Users(l)' = Users(l)
    BY <1>1
  <2>. DEFINE c == Cardinality(Users(l))
  <2>5. Cardinality(Users(l)') = c
    BY <2>4, Zenon
  <2>. HIDE DEF c
  <2>. QED
    BY <2>1, <2>3, <2>5 DEF c
<1>. QED
  BY <1>2 DEF SinksInv, Users

\* Whatever a probe finds, it has loaded the library it has found once more.
LEMMA ProbeLoads ==
  ASSUME SinksInv, NEW name \in Systems, NEW probe \in Probe(name, loaded), probe.possible
  PROVE  /\ name \in Libraries => probe.libraries = [loaded EXCEPT ![name] = @ + 1]
         /\ name \notin Libraries => probe.libraries = loaded
<1>1. CASE name = "alsa"
  BY <1>1 DEF Probe, AlsaIsPossible, Libraries
<1>2. CASE name = "pa"
  BY <1>2 DEF Probe, PaIsPossible, Libraries
<1>3. CASE name \in {"oss", "console", "null"}
  BY <1>3 DEF Probe, OssIsPossible, ConsoleIsPossible, NullIsPossible, Libraries
<1>. QED
  BY <1>1, <1>2, <1>3 DEF Systems, Soundcards

---------------------------------------------------------------------------
\* A speaker becomes another.
LEMMA SpeakerBecomes ==
  ASSUME SinksInv, NEW g \in Generators, NEW c \in Speakers, console' = [console EXCEPT ![g] = c]
  PROVE  console' \in [Generators -> Speakers]
  BY DEF SinksInv

\* What a client has been told stays to be told.
LEMMA AskingKeeps ==
  ASSUME SinksInv, NEW l \in Libraries, IsPossible(l)
  PROVE  SinksInv'
<1>1. PICK probe \in Probe(l, loaded) : probe.possible /\ loaded' = probe.libraries
  BY DEF IsPossible
<1>2. loaded' = [loaded EXCEPT ![l] = @ + 1]
  BY <1>1, ProbeLoads DEF Systems, Soundcards, Libraries
<1>3. probes' = [probes EXCEPT ![l] = @ + 1] /\ UNCHANGED <<sink, console>>
  BY DEF IsPossible
<1>4. /\ loaded' \in [Libraries -> Int] /\ probes' \in [Libraries -> Nat] /\ console' \in [Generators -> Speakers]
      /\ \A m \in Libraries : loaded'[m] - loaded[m] = probes'[m] - probes[m]
  BY <1>2, <1>3 DEF SinksInv
<1>. QED
  BY <1>3, <1>4, SinksStay

\* A system that a generator may be created with.
LEMMA TriedIs ==
  ASSUME NEW name \in Systems \cup {"soundcard"}, NEW i \in DOMAIN Tried(name)
  PROVE  Tried(name)[i] \in Systems
<1>1. CASE name = "soundcard"
  <2>1. Tried(name) = <<"pa", "oss", "alsa">>
    BY <1>1 DEF Tried
  <2>. QED
    BY <2>1 DEF Systems, Soundcards
<1>2. CASE name # "soundcard"
  <2>1. Tried(name) = <<name>>
    BY <1>2 DEF Tried
  <2>. QED
    BY <1>2, <2>1
<1>. QED
  BY <1>1, <1>2

\* The libraries that a generator keeps, and that it gives back.
LEMMA CreationKeeps ==
  ASSUME SinksInv, NEW g \in Generators, NEW name \in Systems \cup {"soundcard"},
         NEW size \in {0} \cup PeriodSizes, NewGenerator(g, name, size)
  PROVE  SinksInv'
<1>1. PICK i \in DOMAIN Tried(name) :
         \E probe \in {p \in Probe(Tried(name)[i], loaded) : p.possible},
            result \in OpenAndConfigure(Tried(name)[i], size) :
            \/ /\ result.done
               /\ sink' = [sink EXCEPT ![g] = result.sink]
               /\ loaded' = probe.libraries
            \/ /\ sink' = [sink EXCEPT ![g] = CloseSink(result.sink)]
               /\ loaded' = Unload(probe.libraries, Tried(name)[i])
  BY DEF NewGenerator
<1>. DEFINE sys == Tried(name)[i]
<1>2. sys \in Systems
  BY TriedIs
<1>. HIDE DEF sys
<1>3. PICK probe \in {p \in Probe(sys, loaded) : p.possible}, result \in OpenAndConfigure(sys, size) :
            \/ /\ result.done
               /\ sink' = [sink EXCEPT ![g] = result.sink]
               /\ loaded' = probe.libraries
            \/ /\ sink' = [sink EXCEPT ![g] = CloseSink(result.sink)]
               /\ loaded' = Unload(probe.libraries, sys)
  BY <1>1, Zenon DEF sys
<1>4. /\ sys \in Libraries => probe.libraries = [loaded EXCEPT ![sys] = @ + 1]
      /\ sys \notin Libraries => probe.libraries = loaded
  BY <1>2, ProbeLoads
<1>5. IsOpening(result, sys)
  BY <1>2, SinkOpens
<1>6. sink[g].system = "none" /\ UNCHANGED probes
  BY DEF NewGenerator
<1>7. console' \in [Generators -> Speakers]
  <2>. DEFINE c == [cw_value |-> "open", beeping |-> FALSE, volume |-> TRUE]
  <2>1. c \in Speakers
    BY DEF Speakers
  <2>2. console' = [console EXCEPT ![g] = c]
    BY DEF NewGenerator
  <2>. HIDE DEF c
  <2>. QED
    BY <2>1, <2>2, SpeakerBecomes
<1>8. \A l \in Libraries : g \notin Users(l)
  BY <1>6 DEF Users, Libraries
<1>9. CASE /\ result.done
           /\ sink' = [sink EXCEPT ![g] = result.sink]
           /\ loaded' = probe.libraries
  <2>. DEFINE e == result.sink
  <2>1. e \in SinkStates /\ FitsDot(e) /\ e.system = sys
    BY <1>5, <1>9, Zenon DEF IsOpening
  <2>. HIDE DEF e
  <2>2. /\ sink' \in [Generators -> SinkStates] /\ \A h \in Generators : FitsDot(sink'[h])
        /\ \A l \in Libraries : Users(l)' = IF sys = l THEN Users(l) \cup {g} ELSE Users(l) \ {g}
    BY <1>9, <2>1, SinkBecomes DEF e
  <2>3. loaded' \in [Libraries -> Int] /\ \A l \in Libraries : loaded'[l] = IF sys = l THEN loaded[l] + 1 ELSE loaded[l]
    <3>1. loaded' = probe.libraries /\ loaded \in [Libraries -> Int]
      BY <1>9 DEF SinksInv
    <3>2. CASE sys \in Libraries
      <4>1. loaded' = [loaded EXCEPT ![sys] = @ + 1]
        BY <1>4, <3>1, <3>2
      <4>. QED
        BY <3>1, <3>2, <4>1
    <3>3. CASE sys \notin Libraries
      BY <1>4, <3>1, <3>3
    <3>. QED
      BY <3>2, <3>3
  <2>4. ASSUME NEW l \in Libraries PROVE loaded'[l] = probes'[l] + Cardinality(Users(l)')
    <3>1. /\ Cardinality(Users(l)) \in Nat /\ Cardinality(Users(l) \cup {g}) = Cardinality(Users(l)) + 1
          /\ Users(l) \ {g} = Users(l)
      BY <1>8, UsersCount
    <3>2. loaded[l] = probes[l] + Cardinality(Users(l)) /\ probes[l] \in Nat /\ probes'[l] = probes[l]
      BY <1>6 DEF SinksInv
    <3>3. CASE sys = l
      <4>1. Cardinality(Users(l)') = Cardinality(Users(l)) + 1
        BY <2>2, <3>1, <3>3
      <4>2. loaded'[l] = loaded[l] + 1
        BY <2>3, <3>3
      <4>. QED
        BY <3>1, <3>2, <4>1, <4>2
    <3>4. CASE sys # l
      <4>1. Cardinality(Users(l)') = Cardinality(Users(l))
        BY <2>2, <3>1, <3>4
      <4>2. loaded'[l] = loaded[l]
        BY <2>3, <3>4
      <4>. QED
        BY <3>1, <3>2, <4>1, <4>2
    <3>. QED
      BY <3>3, <3>4
  <2>. QED
    BY <1>6, <1>7, <2>2, <2>3, <2>4 DEF SinksInv, Users
<1>10. CASE /\ sink' = [sink EXCEPT ![g] = CloseSink(result.sink)]
            /\ loaded' = Unload(probe.libraries, sys)
  <2>. DEFINE e == CloseSink(result.sink)
  <2>1. e \in SinkStates /\ FitsDot(e) /\ e.system = "none"
    BY ClosedIs
  <2>. HIDE DEF e
  <2>2. /\ sink' \in [Generators -> SinkStates] /\ \A h \in Generators : FitsDot(sink'[h])
        /\ \A l \in Libraries : Users(l)' = IF "none" = l THEN Users(l) \cup {g} ELSE Users(l) \ {g}
    BY <1>10, <2>1, SinkBecomes DEF e
  <2>3. loaded' = loaded
    <3>1. loaded \in [Libraries -> Int]
      BY DEF SinksInv
    <3>2. CASE sys \in Libraries
      <4>1. loaded' = [[loaded EXCEPT ![sys] = @ + 1] EXCEPT ![sys] = @ - 1]
        BY <1>4, <1>10, <3>2 DEF Unload
      <4>2. loaded' \in [Libraries -> Int] /\ \A l \in Libraries : loaded'[l] = loaded[l]
        BY <3>1, <3>2, <4>1
      <4>. QED
        BY <3>1, <4>2
    <3>3. CASE sys \notin Libraries
      BY <1>4, <1>10, <3>3 DEF Unload
    <3>. QED
      BY <3>2, <3>3
  <2>4. ASSUME NEW l \in Libraries PROVE loaded'[l] = probes'[l] + Cardinality(Users(l)')
    <3>1. Users(l)' = Users(l)
      BY <1>8, <2>2 DEF Libraries
    <3>. QED
      BY <1>6, <2>3, <3>1 DEF SinksInv
  <2>. QED
    BY <1>6, <1>7, <2>2, <2>3, <2>4 DEF SinksInv, Users
<1>. QED
  BY <1>3, <1>9, <1>10

LEMMA DeletionKeeps ==
  ASSUME SinksInv, NEW g \in Generators, DeleteGenerator(g)
  PROVE  SinksInv'
<1>. DEFINE e == CloseSink(sink[g])
            sys == sink[g].system
<1>1. e \in SinkStates /\ FitsDot(e) /\ e.system = "none"
  BY ClosedIs
<1>2. sink' = [sink EXCEPT ![g] = e] /\ loaded' = Unload(loaded, sys) /\ UNCHANGED probes
  BY DEF DeleteGenerator
<1>. HIDE DEF e
<1>3. /\ sink' \in [Generators -> SinkStates] /\ \A h \in Generators : FitsDot(sink'[h])
      /\ \A l \in Libraries : Users(l)' = Users(l) \ {g}
  <2>1. \A l \in Libraries : l # "none"
    BY DEF Libraries
  <2>. QED
    BY <1>1, <1>2, <2>1, SinkBecomes
<1>4. \A l \in Libraries : g \in Users(l) <=> sys = l
  BY DEF Users
<1>. HIDE DEF sys
<1>5. loaded' \in [Libraries -> Int] /\ \A l \in Libraries : loaded'[l] = IF sys = l THEN loaded[l] - 1 ELSE loaded[l]
  BY <1>2 DEF Unload, SinksInv
<1>6. ASSUME NEW l \in Libraries PROVE loaded'[l] = probes'[l] + Cardinality(Users(l)')
  <2>1. /\ Cardinality(Users(l)) \in Nat
        /\ g \in Users(l) => Cardinality(Users(l) \ {g}) = Cardinality(Users(l)) - 1
        /\ g \notin Users(l) => Users(l) \ {g} = Users(l)
    BY UsersCount
  <2>2. loaded[l] = probes[l] + Cardinality(Users(l)) /\ probes[l] \in Nat /\ loaded[l] \in Int
    BY DEF SinksInv
  <2>. QED
    <3>1. probes'[l] = probes[l]
      BY <1>2
    <3>2. CASE sys = l
      <4>1. Cardinality(Users(l)') = Cardinality(Users(l)) - 1
        BY <1>3, <1>4, <2>1, <3>2
      <4>2. loaded'[l] = loaded[l] - 1
        BY <1>5, <3>2
      <4>. QED
        BY <2>1, <2>2, <3>1, <4>1, <4>2
    <3>3. CASE sys # l
      <4>1. Cardinality(Users(l)') = Cardinality(Users(l))
        BY <1>3, <1>4, <2>1, <3>3
      <4>2. loaded'[l] = loaded[l]
        BY <1>5, <3>3
      <4>. QED
        BY <2>1, <2>2, <3>1, <4>1, <4>2
    <3>. QED
      BY <3>2, <3>3
<1>7. console' \in [Generators -> Speakers]
  BY DEF DeleteGenerator, SinksInv, Speakers
<1>. QED
  BY <1>2, <1>3, <1>5, <1>6, <1>7 DEF SinksInv, Users

\* Writing, and what the device does meanwhile.
LEMMA WritingKeeps ==
  ASSUME SinksInv, NEW g \in Generators, WriteBuffer(g) \/ OnEmptyQueue(g) \/ Underrun(g)
  PROVE  SinksInv'
<1>1. UNCHANGED <<loaded, probes, console>>
  BY DEF WriteBuffer, OnEmptyQueue, Underrun
<1>2. \/ UNCHANGED sink
      \/ \E d \in Devices : sink' = [sink EXCEPT ![g].device = d]
  BY DEF WriteBuffer, OnEmptyQueue, Underrun, Prepare, Devices
<1>3. CASE UNCHANGED sink
  <2>1. /\ loaded' \in [Libraries -> Int] /\ probes' \in [Libraries -> Nat] /\ console' \in [Generators -> Speakers]
        /\ \A l \in Libraries : loaded'[l] - loaded[l] = probes'[l] - probes[l]
    BY <1>1 DEF SinksInv
  <2>. QED
    BY <1>3, <2>1, SinksStay
<1>4. ASSUME NEW d \in Devices, sink' = [sink EXCEPT ![g].device = d] PROVE SinksInv'
  <2>1. sink \in [Generators -> SinkStates]
    BY DEF SinksInv
  <2>. DEFINE e == sink'[g]
              k == [sink EXCEPT ![g] = e]
  <2>2. /\ sink' \in [Generators -> SinkStates] /\ e \in SinkStates
        /\ \A x \in Generators \ {g} : sink'[x] = sink[x]
        /\ e.system = sink[g].system /\ e.asked = sink[g].asked
        /\ e.sample_rate = sink[g].sample_rate /\ e.buffer_n_samples = sink[g].buffer_n_samples
    BY <1>4, <2>1 DEF SinkStates
  <2>3. e = sink'[g]
    OBVIOUS
  <2>. HIDE DEF e
  <2>4. k \in [Generators -> SinkStates] /\ \A x \in Generators : k[x] = sink'[x]
    BY <2>1, <2>2, <2>3
  <2>. HIDE DEF k
  <2>5. k = sink'
    BY <2>2, <2>4
  <2>6. sink' = [sink EXCEPT ![g] = e]
    BY <2>5 DEF k
  <2>. QED
    BY <1>1, <2>2, <2>6, DeviceBecomes
<1>. QED
  BY <1>2, <1>3, <1>4

---------------------------------------------------------------------------
\* What the speaker of a console becomes, if it can be told.
LEMMA SpeakerIsTold ==
  ASSUME "ioctl" \notin Faults, NEW c \in Speakers, NEW v \in {"open", "closed"},
         NEW mode \in {"standard", "rising", "none"},
         NEW told \in Kiocsound(c, v), NEW ended \in Silenced(told, mode)
  PROVE  /\ ended \in Speakers
         /\ ended.beeping <=> (v = "closed" /\ c.volume /\ mode # "standard")
<1>. DEFINE K(d, w) == [cw_value |-> w, beeping |-> w = "closed" /\ d.volume, volume |-> d.volume]
<1>1. ASSUME NEW d \in Speakers, NEW w \in {"open", "closed"}
      PROVE  /\ Kiocsound(d, w) = {K(d, w)}
             /\ K(d, w) \in Speakers
             /\ K(d, w).beeping <=> (w = "closed" /\ d.volume)
             /\ K(d, w).volume <=> d.volume
  <2>1. Kiocsound(d, w) = {K(d, w)}
    BY DEF Kiocsound, Fails
  <2>2. K(d, w) \in Speakers
    BY DEF Speakers
  <2>3. K(d, w).beeping <=> (w = "closed" /\ d.volume)
    OBVIOUS
  <2>4. K(d, w).volume <=> d.volume
    OBVIOUS
  <2>. QED
    BY <2>1, <2>2, <2>3, <2>4, Zenon
<1>. HIDE DEF K
<1>2. told \in Speakers /\ (told.beeping <=> (v = "closed" /\ c.volume))
  <2>1. told = K(c, v)
    BY <1>1
  <2>. QED
    BY <1>1, <2>1, Zenon
<1>3. CASE mode = "standard"
  <2>1. ended \in Kiocsound(told, "open")
    BY <1>3 DEF Silenced
  <2>2. ended = K(told, "open")
    BY <1>1, <1>2, <2>1
  <2>3. ended \in Speakers /\ ~ended.beeping
    <3>1. "open" # "closed" /\ "open" \in {"open", "closed"}
      OBVIOUS
    <3>. QED
      BY <1>1, <1>2, <2>2, <3>1, Zenon
  <2>. QED
    BY <1>3, <2>3, Zenon
<1>4. CASE mode # "standard"
  <2>1. ended = told
    BY <1>4 DEF Silenced
  <2>. QED
    BY <1>2, <1>4, <2>1, Zenon
<1>. QED
  BY <1>3, <1>4

LEMMA TonesAreFollowed ==
  ASSUME SinksInv, "ioctl" \notin Faults, NEW g \in Generators, NEW sounds \in BOOLEAN,
         NEW mode \in {"standard", "rising", "none"}, WriteTone(g, sounds, mode)
  PROVE  /\ UNCHANGED <<sink, loaded, probes>> /\ console' \in [Generators -> Speakers]
         /\ ~(UNCHANGED sinkVars) =>
               (console'[g].beeping <=> (sounds /\ console[g].volume /\ mode # "standard"))
<1>. DEFINE c == console[g]
            v == IF sounds /\ c.volume THEN "closed" ELSE "open"
<1>1. c \in Speakers /\ v \in {"open", "closed"} /\ (v = "closed" <=> sounds /\ c.volume)
  <2>1. c \in Speakers
    BY DEF SinksInv
  <2>2. v \in {"open", "closed"} /\ (v = "closed" <=> sounds /\ c.volume)
    OBVIOUS
  <2>. QED
    BY <2>1, <2>2, Zenon
<1>2. /\ UNCHANGED <<sink, loaded, probes>>
      /\ \/ UNCHANGED console
         \/ \E told \in Kiocsound(c, v) : \E ended \in Silenced(told, mode) :
               console' = [console EXCEPT ![g] = ended]
  BY DEF WriteTone
<1>. HIDE DEF v
<1>3. CASE UNCHANGED console
  BY <1>2, <1>3 DEF sinkVars, SinksInv
<1>4. ASSUME NEW told \in Kiocsound(c, v), NEW ended \in Silenced(told, mode),
             console' = [console EXCEPT ![g] = ended]
      PROVE  /\ console' \in [Generators -> Speakers]
             /\ console'[g].beeping <=> (sounds /\ c.volume /\ mode # "standard")
  <2>1. ended \in Speakers /\ (ended.beeping <=> (v = "closed" /\ c.volume /\ mode # "standard"))
    BY <1>1, SpeakerIsTold
  <2>2. console' \in [Generators -> Speakers] /\ console'[g] = ended
    BY <1>4, <2>1 DEF SinksInv
  <2>. QED
    BY <1>1, <2>1, <2>2, Zenon
<1>. QED
  BY <1>2, <1>3, <1>4

---------------------------------------------------------------------------
LEMMA SinksBegin ==
  ASSUME SinksInit
  PROVE  SinksInv
<1>1. sink \in [Generators -> SinkStates] /\ \A g \in Generators : FitsDot(sink[g])
  <2>. DEFINE n == NoSink
  <2>1. n \in SinkStates /\ FitsDot(n)
    BY NoSinkIs
  <2>2. sink = [g \in Generators |-> n]
    BY DEF SinksInit
  <2>. HIDE DEF n
  <2>3. sink \in [Generators -> SinkStates] /\ \A g \in Generators : sink[g] = n
    BY <2>1, <2>2
  <2>. QED
    BY <2>1, <2>3, Zenon
<1>2. \A l \in Libraries : Users(l) = {}
  <2>. DEFINE n == NoSink
  <2>1. n.system = "none"
    BY NoSinkIs
  <2>2. sink = [g \in Generators |-> n]
    BY DEF SinksInit
  <2>. HIDE DEF n
  <2>. QED
    BY <2>1, <2>2 DEF Users, Libraries
<1>3. loaded \in [Libraries -> Int] /\ probes \in [Libraries -> Nat] /\ console \in [Generators -> Speakers]
  BY DEF SinksInit, Speakers
<1>4. \A l \in Libraries : loaded[l] = probes[l] + Cardinality(Users(l))
  BY <1>2, FS_EmptySet DEF SinksInit
<1>. QED
  BY <1>1, <1>3, <1>4 DEF SinksInv

LEMMA SinksStep ==
  ASSUME SinksInv, "ioctl" \notin Faults, [SinksNext]_sinkVars
  PROVE  SinksInv'
<1>1. ASSUME NEW l \in Libraries, IsPossible(l) PROVE SinksInv'
  BY <1>1, AskingKeeps
<1>2. ASSUME NEW g \in Generators, NEW name \in Systems \cup {"soundcard"}, NEW size \in {0} \cup PeriodSizes,
             NewGenerator(g, name, size)
      PROVE  SinksInv'
  BY <1>2, CreationKeeps
<1>3. ASSUME NEW g \in Generators, DeleteGenerator(g) PROVE SinksInv'
  BY <1>3, DeletionKeeps
<1>4. ASSUME NEW g \in Generators, WriteBuffer(g) \/ OnEmptyQueue(g) \/ Underrun(g) PROVE SinksInv'
  BY <1>4, WritingKeeps
<1>5. ASSUME UNCHANGED <<sink, loaded, probes>>, console' \in [Generators -> Speakers] PROVE SinksInv'
  <2>1. loaded' \in [Libraries -> Int] /\ probes' \in [Libraries -> Nat]
        /\ \A l \in Libraries : loaded'[l] - loaded[l] = probes'[l] - probes[l]
    BY <1>5 DEF SinksInv
  <2>. QED
    BY <1>5, <2>1, SinksStay
<1>6. ASSUME NEW g \in Generators, NEW sounds \in BOOLEAN, NEW mode \in {"standard", "rising", "none"},
             WriteTone(g, sounds, mode)
      PROVE  SinksInv'
  BY <1>5, <1>6, TonesAreFollowed
<1>7. ASSUME NEW g \in Generators, NEW audible \in BOOLEAN, SetVolume(g, audible) PROVE SinksInv'
  <2>1. UNCHANGED <<sink, loaded, probes>> /\ console' \in [Generators -> Speakers]
    BY <1>7 DEF SetVolume, SinksInv, Speakers
  <2>. QED
    BY <1>5, <2>1
<1>8. CASE UNCHANGED sinkVars
  <2>1. UNCHANGED <<sink, loaded, probes>> /\ console' \in [Generators -> Speakers]
    BY <1>8 DEF sinkVars, SinksInv
  <2>. QED
    BY <1>5, <2>1
<1>. QED
  BY <1>1, <1>2, <1>3, <1>4, <1>6, <1>7, <1>8, Zenon DEF SinksNext

(* A library is loaded as often as generators use it and as clients were    *)
(* told of it, whatever fails while a generator is created; the periods of *)
(* ALSA fit the shortest dot, whatever the device offers; and the speaker  *)
(* of a console follows the tones, as long as it can be told.              *)
THEOREM SinksAreSafe ==
  ASSUME "ioctl" \notin Faults
  PROVE  SinksSpec => SpeakerFollowsTones /\ [](LibrariesAreBalanced /\ PeriodsFitDot)
<1>. DEFINE Followed ==
       \A g \in Generators, sounds \in BOOLEAN, mode \in {"standard", "rising", "none"} :
          WriteTone(g, sounds, mode) =>
              console'[g].beeping = (sounds /\ console[g].volume /\ mode # "standard")
<1>1. SinksInit => SinksInv
  BY SinksBegin
<1>2. SinksInv /\ [SinksNext]_sinkVars => SinksInv'
  BY SinksStep
<1>3. SinksInv => LibrariesAreBalanced /\ PeriodsFitDot
  BY DEF SinksInv, LibrariesAreBalanced, PeriodsFitDot, FitsDot, DotSamples, Users
<1>4. SinksInv /\ [SinksNext]_sinkVars => [Followed]_sinkVars
  <2>. SUFFICES ASSUME SinksInv, ~(UNCHANGED sinkVars), NEW g \in Generators, NEW sounds \in BOOLEAN,
                       NEW mode \in {"standard", "rising", "none"}, WriteTone(g, sounds, mode)
                PROVE  console'[g].beeping = (sounds /\ console[g].volume /\ mode # "standard")
    OBVIOUS
  <2>1. console' \in [Generators -> Speakers] /\ (console'[g].beeping <=> (sounds /\ console[g].volume /\ mode # "standard"))
    BY TonesAreFollowed
  <2>2. console'[g].beeping \in BOOLEAN
    BY <2>1 DEF Speakers
  <2>. DEFINE a == console'[g].beeping
              b == sounds /\ console[g].volume /\ mode # "standard"
  <2>3. a \in BOOLEAN /\ b \in BOOLEAN /\ (a <=> b)
    BY <2>1, <2>2, Zenon
  <2>. HIDE DEF a, b
  <2>4. a = b
    BY <2>3
  <2>. QED
    BY <2>4, Zenon DEF a, b
<1>. QED
  BY <1>1, <1>2, <1>3, <1>4, PTL DEF SinksSpec, SpeakerFollowsTones

---------------------------------------------------------------------------
(***************************************************************************)
(* Alarms: what the client has still to do and what the handler has still  *)
(* to do, one of a few sequences each, tell what has been set up.          *)
(***************************************************************************)
\* One sequence after the other.
LEMMA JoinIs ==
  ASSUME NEW S, NEW p \in Seq(S), NEW q \in Seq(S), NEW w \in Seq(S), Len(w) = Len(p) + Len(q),
         \A i \in 1..Len(p) : w[i] = p[i], \A i \in 1..Len(q) : w[Len(p) + i] = q[i]
  PROVE  p \o q = w
<1>1. p \o q \in Seq(S) /\ Len(p \o q) = Len(w) /\ Len(p) \in Nat /\ Len(q) \in Nat
  OBVIOUS
<1>2. ASSUME NEW i \in 1..Len(w) PROVE (p \o q)[i] = w[i]
  <2>1. CASE i <= Len(p)
    BY <1>1, <2>1
  <2>2. CASE i > Len(p)
    <3>1. i - Len(p) \in 1..Len(q)
      BY <1>1, <2>2
    <3>2. (p \o q)[i] = q[i - Len(p)]
      BY <1>1, <2>2
    <3>3. w[Len(p) + (i - Len(p))] = q[i - Len(p)] /\ Len(p) + (i - Len(p)) = i
      BY <1>1, <3>1
    <3>. QED
      BY <3>2, <3>3
  <2>. QED
    BY <1>1, <2>1, <2>2
<1>. QED
  BY <1>1, <1>2, SeqEqual

LEMMA Join11 ==
  ASSUME NEW a, NEW b
  PROVE  <<a>> \o <<b>> = <<a, b>>
<1>. DEFINE S == {a, b}
            p == <<a>>
            q == <<b>>
            w == <<a, b>>
<1>1. p \in Seq(S) /\ Len(p) = 1 /\ p[1] = a
  OBVIOUS
<1>2. q \in Seq(S) /\ Len(q) = 1 /\ q[1] = b
  OBVIOUS
<1>3. w \in Seq(S) /\ Len(w) = 2 /\ w[1] = a /\ w[2] = b
  OBVIOUS
<1>. HIDE DEF S, p, q, w
<1>4. Len(w) = Len(p) + Len(q) /\ \A i \in 1..Len(p) : w[i] = p[i]
  BY <1>1, <1>2, <1>3
<1>5. \A i \in 1..Len(q) : w[Len(p) + i] = q[i]
  BY <1>1, <1>2, <1>3
<1>6. p \o q = w
  BY <1>1, <1>2, <1>3, <1>4, <1>5, JoinIs
<1>. QED
  BY <1>6 DEF p, q, w

LEMMA Join12 ==
  ASSUME NEW a, NEW b, NEW c
  PROVE  <<a>> \o <<b, c>> = <<a, b, c>>
<1>. DEFINE S == {a, b, c}
            p == <<a>>
            q == <<b, c>>
            w == <<a, b, c>>
<1>1. p \in Seq(S) /\ Len(p) = 1 /\ p[1] = a
  OBVIOUS
<1>2. q \in Seq(S) /\ Len(q) = 2 /\ q[1] = b /\ q[2] = c
  OBVIOUS
<1>3. w \in Seq(S) /\ Len(w) = 3 /\ w[1] = a /\ w[2] = b /\ w[3] = c
  OBVIOUS
<1>. HIDE DEF S, p, q, w
<1>4. Len(w) = Len(p) + Len(q) /\ \A i \in 1..Len(p) : w[i] = p[i]
  BY <1>1, <1>2, <1>3
<1>5. \A i \in 1..Len(q) : w[Len(p) + i] = q[i]
  BY <1>1, <1>2, <1>3
<1>6. p \o q = w
  BY <1>1, <1>2, <1>3, <1>4, <1>5, JoinIs
<1>. QED
  BY <1>6 DEF p, q, w

LEMMA Join13 ==
  ASSUME NEW a, NEW b, NEW c, NEW d
  PROVE  <<a>> \o <<b, c, d>> = <<a, b, c, d>>
<1>. DEFINE S == {a, b, c, d}
            p == <<a>>
            q == <<b, c, d>>
            w == <<a, b, c, d>>
<1>1. p \in Seq(S) /\ Len(p) = 1 /\ p[1] = a
  OBVIOUS
<1>2. q \in Seq(S) /\ Len(q) = 3 /\ q[1] = b /\ q[2] = c /\ q[3] = d
  OBVIOUS
<1>3. w \in Seq(S) /\ Len(w) = 4 /\ w[1] = a /\ w[2] = b /\ w[3] = c /\ w[4] = d
  OBVIOUS
<1>. HIDE DEF S, p, q, w
<1>4. Len(w) = Len(p) + Len(q) /\ \A i \in 1..Len(p) : w[i] = p[i]
  BY <1>1, <1>2, <1>3
<1>5. \A i \in 1..Len(q) : w[Len(p) + i] = q[i]
  BY <1>1, <1>2, <1>3
<1>6. p \o q = w
  BY <1>1, <1>2, <1>3, <1>4, <1>5, JoinIs
<1>. QED
  BY <1>6 DEF p, q, w

LEMMA Join22 ==
  ASSUME NEW a, NEW b, NEW c, NEW d
  PROVE  <<a, b>> \o <<c, d>> = <<a, b, c, d>>
<1>. DEFINE S == {a, b, c, d}
            p == <<a, b>>
            q == <<c, d>>
            w == <<a, b, c, d>>
<1>1. p \in Seq(S) /\ Len(p) = 2 /\ p[1] = a /\ p[2] = b
  OBVIOUS
<1>2. q \in Seq(S) /\ Len(q) = 2 /\ q[1] = c /\ q[2] = d
  OBVIOUS
<1>3. w \in Seq(S) /\ Len(w) = 4 /\ w[1] = a /\ w[2] = b /\ w[3] = c /\ w[4] = d
  OBVIOUS
<1>. HIDE DEF S, p, q, w
<1>4. Len(w) = Len(p) + Len(q) /\ \A i \in 1..Len(p) : w[i] = p[i]
  BY <1>1, <1>2, <1>3
<1>5. \A i \in 1..Len(q) : w[Len(p) + i] = q[i]
  BY <1>1, <1>2, <1>3
<1>6. p \o q = w
  BY <1>1, <1>2, <1>3, <1>4, <1>5, JoinIs
<1>. QED
  BY <1>6 DEF p, q, w

LEMMA Join31 ==
  ASSUME NEW a, NEW b, NEW c, NEW d
  PROVE  <<a, b, c>> \o <<d>> = <<a, b, c, d>>
<1>. DEFINE S == {a, b, c, d}
            p == <<a, b, c>>
            q == <<d>>
            w == <<a, b, c, d>>
<1>1. p \in Seq(S) /\ Len(p) = 3 /\ p[1] = a /\ p[2] = b /\ p[3] = c
  OBVIOUS
<1>2. q \in Seq(S) /\ Len(q) = 1 /\ q[1] = d
  OBVIOUS
<1>3. w \in Seq(S) /\ Len(w) = 4 /\ w[1] = a /\ w[2] = b /\ w[3] = c /\ w[4] = d
  OBVIOUS
<1>. HIDE DEF S, p, q, w
<1>4. Len(w) = Len(p) + Len(q) /\ \A i \in 1..Len(p) : w[i] = p[i]
  BY <1>1, <1>2, <1>3
<1>5. \A i \in 1..Len(q) : w[Len(p) + i] = q[i]
  BY <1>1, <1>2, <1>3
<1>6. p \o q = w
  BY <1>1, <1>2, <1>3, <1>4, <1>5, JoinIs
<1>. QED
  BY <1>6 DEF p, q, w

LEMMA Join41 ==
  ASSUME NEW a, NEW b, NEW c, NEW d, NEW e
  PROVE  <<a, b, c, d>> \o <<e>> = <<a, b, c, d, e>>
<1>. DEFINE S == {a, b, c, d, e}
            p == <<a, b, c, d>>
            q == <<e>>
            w == <<a, b, c, d, e>>
<1>1. p \in Seq(S) /\ Len(p) = 4 /\ p[1] = a /\ p[2] = b /\ p[3] = c /\ p[4] = d
  OBVIOUS
<1>2. q \in Seq(S) /\ Len(q) = 1 /\ q[1] = e
  OBVIOUS
<1>3. w \in Seq(S) /\ Len(w) = 5 /\ w[1] = a /\ w[2] = b /\ w[3] = c /\ w[4] = d /\ w[5] = e
  OBVIOUS
<1>. HIDE DEF S, p, q, w
<1>4. Len(w) = Len(p) + Len(q) /\ \A i \in 1..Len(p) : w[i] = p[i]
  BY <1>1, <1>2, <1>3
<1>5. \A i \in 1..Len(q) : w[Len(p) + i] = q[i]
  BY <1>1, <1>2, <1>3
<1>6. p \o q = w
  BY <1>1, <1>2, <1>3, <1>4, <1>5, JoinIs
<1>. QED
  BY <1>6 DEF p, q, w

\* The calls that are made of others, step by step.
LEMMA CallsAre ==
  /\ RunWithHandler(TRUE) \o <<"pending">> = <<"install", "register", "cancel", "arm", "pending">>
  /\ <<"hold">> \o RunWithHandler(FALSE) \o <<"resume">> = <<"hold", "install", "cancel", "arm", "resume">>
<1>1. RunWithHandler(TRUE) = (<<"install">> \o <<"register">>) \o <<"cancel", "arm">>
  BY Zenon DEF RunWithHandler
<1>2. RunWithHandler(FALSE) = (<<"install">> \o <<>>) \o <<"cancel", "arm">>
  BY Zenon DEF RunWithHandler
<1>3. <<"install">> \o <<>> = <<"install">>
  OBVIOUS
<1>4. /\ <<"install">> \o <<"register">> = <<"install", "register">>
      /\ <<"install", "register">> \o <<"cancel", "arm">> = <<"install", "register", "cancel", "arm">>
      /\ <<"install", "register", "cancel", "arm">> \o <<"pending">> = <<"install", "register", "cancel", "arm", "pending">>
  BY Join11, Join22, Join41
<1>5. /\ <<"install">> \o <<"cancel", "arm">> = <<"install", "cancel", "arm">>
      /\ <<"hold">> \o <<"install", "cancel", "arm">> = <<"hold", "install", "cancel", "arm">>
      /\ <<"hold", "install", "cancel", "arm">> \o <<"resume">> = <<"hold", "install", "cancel", "arm", "resume">>
  BY Join12, Join13, Join41
<1>. QED
  BY <1>1, <1>2, <1>3, <1>4, <1>5, Zenon

---------------------------------------------------------------------------
\* What the steps of calls and of the handler are called.
StepNames ==
  {"install", "register", "cancel", "arm", "pending", "lock", "stop", "schedule", "restore", "unlock",
   "disarm", "default", "uninstalled", "finish", "hold", "resume", "clock"}

\* The places in the calls of the client that set up a finalization or take
\* the alarm down, and in the handler; each is what is still to be done.
SetUp1 == <<"install", "register", "cancel", "arm", "pending">>
SetUp2 == <<"register", "cancel", "arm", "pending">>
SetUp3 == <<"cancel", "arm", "pending">>
SetUp4 == <<"arm", "pending">>
SetUp5 == <<"pending">>
Reset2 == <<"lock", "stop", "schedule", "restore", "unlock">>
Reset3 == <<"stop", "schedule", "restore", "unlock">>
Reset4 == <<"schedule", "restore", "unlock">>
Reset5 == <<"restore", "unlock">>
Undo1 == <<"disarm", "default", "uninstalled", "unlock">>
Undo2 == <<"default", "uninstalled", "unlock">>
Undo3 == <<"uninstalled", "unlock">>
Undo4 == <<"unlock">>
Finish1 == <<"disarm", "default", "uninstalled", "finish">>
Finish2 == <<"default", "uninstalled", "finish">>
Finish3 == <<"uninstalled", "finish">>
Finish4 == <<"finish">>
Tick1 == <<"hold", "install", "cancel", "arm", "resume">>
Tick2 == <<"install", "cancel", "arm", "resume">>
Tick3 == <<"cancel", "arm", "resume">>
Tick4 == <<"arm", "resume">>
Tick5 == <<"resume">>
Finish0 == <<"restore", "finish">>

\* Where a client may be when nothing hinders a finalization that is pending.
FreeCalls == {<<>>, <<"schedule">>, <<"install">>, CompleteReset}

\* No handler, or one that has only begun.
Quiet ==
  \/ handling = <<>>
  \/ handling = <<"clock">> /\ registered /\ installed /\ handled

\* A finalization that is pending has been set up as it should.
PendingIsSetUp ==
  pending => /\ registered /\ countdown \in 1..FinalizationDelay
             /\ timely /\ handling = <<>> => timer

\* The client is setting up a finalization, or is in a complete reset.
ClientBusy ==
  \/ call \in {SetUp1, Reset2, Reset5} /\ (handled <=> installed)
  \/ call \in {Reset3, Reset4} /\ locked_out /\ (handled <=> installed)
  \/ call \in {SetUp2, Undo1} /\ installed /\ handled
  \/ call \in {SetUp3, SetUp4} /\ installed /\ handled /\ registered
  \/ call = SetUp5 /\ installed /\ handled /\ registered /\ (timely => timer)
  \/ call = Undo2 /\ installed /\ handled /\ ~timer
  \/ call = Undo3 /\ installed /\ ~handled /\ ~timer
  \/ call = Undo4 /\ ~installed /\ ~handled /\ ~timer /\ handling = <<>>

\* The handler is bringing the finalization about, or asks for the next second.
HandlerBusy ==
  \/ handling \in {Finish0, Finish4} /\ (handled <=> installed)
  \/ handling = Finish1 /\ installed /\ handled
  \/ handling = Finish2 /\ installed /\ handled /\ ~timer
  \/ handling = Finish3 /\ installed /\ ~handled /\ ~timer
  \/ /\ registered /\ countdown \in 1..FinalizationDelay
     /\ \/ handling = Tick1 /\ (handled <=> installed)
        \/ handling = Tick2 /\ (handled <=> installed) /\ ~pending
        \/ handling \in {Tick3, Tick4} /\ installed /\ handled /\ ~pending
        \/ handling = Tick5 /\ installed /\ handled /\ ~pending /\ timer

\* The inductive invariant: the client is at a free place, with the handler busy
\* or not, or it is busy itself, when nothing is pending.
AlarmsTypes ==
  /\ timer \in BOOLEAN /\ installed \in BOOLEAN /\ handled \in BOOLEAN /\ registered \in BOOLEAN
  /\ pending \in BOOLEAN /\ locked_out \in BOOLEAN /\ countdown \in Int

AlarmsInv ==
  /\ AlarmsTypes
  /\ timer => handled
  /\ \/ call \in FreeCalls /\ Quiet /\ (handled <=> installed) /\ PendingIsSetUp
     \/ call \in FreeCalls /\ HandlerBusy
     \/ Quiet /\ ~pending /\ ClientBusy

---------------------------------------------------------------------------
\* What a step does, one fact for each variable.
Effect(n) ==
  /\ timer' <=> ((timer \/ n = "arm") /\ n # "disarm")
  /\ installed' <=> ((installed \/ n = "install") /\ n # "uninstalled")
  /\ handled' <=> ((handled \/ (n = "install" /\ ~installed)) /\ n # "default")
  /\ registered' <=> (registered \/ n = "register")
  /\ pending' <=> ((pending \/ n \in {"pending", "resume"}) /\ n \notin {"cancel", "hold", "finish"})
  /\ locked_out' <=> ((locked_out \/ n = "lock") /\ n # "unlock")
  /\ n = "pending" => countdown' = FinalizationDelay
  /\ n = "clock" /\ pending => countdown' = countdown - 1
  /\ n \notin {"pending", "clock", "finish", "cancel"} => countdown' = countdown
  /\ n = "clock" /\ ~pending => countdown' = countdown
  /\ n = "cancel" /\ ~pending => countdown' = countdown

LEMMA AssignHas ==
  ASSUME AlarmsTypes, NEW n, Assign(n)
  PROVE  AlarmsTypes' /\ Effect(n)
<1>1. /\ timer' \in BOOLEAN /\ installed' \in BOOLEAN /\ handled' \in BOOLEAN /\ registered' \in BOOLEAN
      /\ pending' \in BOOLEAN /\ locked_out' \in BOOLEAN
  BY Zenon DEF Assign
<1>2. /\ countdown' = CASE n = "pending" -> FinalizationDelay
                      [] n = "clock" /\ pending -> countdown - 1
                      [] n = "finish" \/ (n = "cancel" /\ pending) -> 0
                      [] OTHER -> countdown
  BY Zenon DEF Assign
<1>3. /\ countdown' \in Int
      /\ n = "pending" => countdown' = FinalizationDelay
      /\ n = "clock" /\ pending => countdown' = countdown - 1
      /\ n \notin {"pending", "clock", "finish", "cancel"} => countdown' = countdown
      /\ n = "clock" /\ ~pending => countdown' = countdown
      /\ n = "cancel" /\ ~pending => countdown' = countdown
  BY <1>2, AlarmsAssumption DEF AlarmsTypes
<1>4. /\ timer' <=> ((timer \/ n = "arm") /\ n # "disarm")
      /\ installed' <=> ((installed \/ n = "install") /\ n # "uninstalled")
      /\ handled' <=> ((handled \/ (n = "install" /\ ~installed)) /\ n # "default")
      /\ registered' <=> (registered \/ n = "register")
      /\ locked_out' <=> ((locked_out \/ n = "lock") /\ n # "unlock")
  BY Zenon DEF Assign
<1>5. pending' <=> ((pending \/ n \in {"pending", "resume"}) /\ n \notin {"cancel", "hold", "finish"})
  BY Zenon DEF Assign
<1>. QED
  BY <1>1, <1>3, <1>4, <1>5 DEF AlarmsTypes, Effect

LEMMA PlainStep ==
  ASSUME NEW s \in Seq(StepNames), s # <<>>, Head(s) \notin {"schedule", "restore", "clock"}
  PROVE  LeadsTo(Head(s)) \o Tail(s) = Tail(s)
<1>1. LeadsTo(Head(s)) = <<>>
  BY DEF LeadsTo
<1>2. Tail(s) \in Seq(StepNames)
  OBVIOUS
<1>. QED
  BY <1>1, <1>2

LEMMA ScheduleStep ==
  /\ locked_out \/ pending => LeadsTo("schedule") = <<>>
  /\ ~(locked_out \/ pending) => LeadsTo("schedule") = SetUp1
  BY CallsAre, Zenon DEF LeadsTo, Schedule, SetUp1

LEMMA RestoreStep ==
  /\ ~installed => LeadsTo("restore") = <<>>
  /\ installed => LeadsTo("restore") = <<"disarm", "default", "uninstalled">>
  BY Zenon DEF LeadsTo, Restore

LEMMA ClockStep ==
  /\ ~pending => LeadsTo("clock") = <<>>
  /\ pending /\ countdown - 1 <= 0 => LeadsTo("clock") = Finish0
  /\ pending /\ ~(countdown - 1 <= 0) => LeadsTo("clock") = Tick1
<1>1. LeadsTo("clock") = Clock
  BY DEF LeadsTo
<1>2. Clock = IF ~pending THEN <<>> ELSE IF countdown - 1 <= 0 THEN Finish0 ELSE Tick1
  BY CallsAre, Zenon DEF Clock, Finish0, Tick1
<1>. QED
  BY <1>1, <1>2

\* What follows each place.
LEMMA ClientPlaces ==
  /\ SetUp1 # <<>> /\ Head(SetUp1) = "install" /\ LeadsTo(Head(SetUp1)) \o Tail(SetUp1) = SetUp2
  /\ SetUp2 # <<>> /\ Head(SetUp2) = "register" /\ LeadsTo(Head(SetUp2)) \o Tail(SetUp2) = SetUp3
  /\ SetUp3 # <<>> /\ Head(SetUp3) = "cancel" /\ LeadsTo(Head(SetUp3)) \o Tail(SetUp3) = SetUp4
  /\ SetUp4 # <<>> /\ Head(SetUp4) = "arm" /\ LeadsTo(Head(SetUp4)) \o Tail(SetUp4) = SetUp5
  /\ SetUp5 # <<>> /\ Head(SetUp5) = "pending" /\ LeadsTo(Head(SetUp5)) \o Tail(SetUp5) = <<>>
  /\ Reset2 # <<>> /\ Head(Reset2) = "lock" /\ LeadsTo(Head(Reset2)) \o Tail(Reset2) = Reset3
  /\ Reset3 # <<>> /\ Head(Reset3) = "stop" /\ LeadsTo(Head(Reset3)) \o Tail(Reset3) = Reset4
  /\ Undo1 # <<>> /\ Head(Undo1) = "disarm" /\ LeadsTo(Head(Undo1)) \o Tail(Undo1) = Undo2
  /\ Undo2 # <<>> /\ Head(Undo2) = "default" /\ LeadsTo(Head(Undo2)) \o Tail(Undo2) = Undo3
  /\ Undo3 # <<>> /\ Head(Undo3) = "uninstalled" /\ LeadsTo(Head(Undo3)) \o Tail(Undo3) = Undo4
  /\ Undo4 # <<>> /\ Head(Undo4) = "unlock" /\ LeadsTo(Head(Undo4)) \o Tail(Undo4) = <<>>
  /\ CompleteReset # <<>> /\ Head(CompleteReset) = "cancel" /\ LeadsTo(Head(CompleteReset)) \o Tail(CompleteReset) = Reset2
<1>1. SetUp1 # <<>> /\ Head(SetUp1) = "install" /\ LeadsTo(Head(SetUp1)) \o Tail(SetUp1) = SetUp2
  <2>1. SetUp1 \in Seq(StepNames) /\ SetUp1 # <<>> /\ Head(SetUp1) = "install" /\ Tail(SetUp1) = SetUp2
    BY DEF StepNames, SetUp1, SetUp2
  <2>. QED
    BY <2>1, PlainStep
<1>2. SetUp2 # <<>> /\ Head(SetUp2) = "register" /\ LeadsTo(Head(SetUp2)) \o Tail(SetUp2) = SetUp3
  <2>1. SetUp2 \in Seq(StepNames) /\ SetUp2 # <<>> /\ Head(SetUp2) = "register" /\ Tail(SetUp2) = SetUp3
    BY DEF StepNames, SetUp2, SetUp3
  <2>. QED
    BY <2>1, PlainStep
<1>3. SetUp3 # <<>> /\ Head(SetUp3) = "cancel" /\ LeadsTo(Head(SetUp3)) \o Tail(SetUp3) = SetUp4
  <2>1. SetUp3 \in Seq(StepNames) /\ SetUp3 # <<>> /\ Head(SetUp3) = "cancel" /\ Tail(SetUp3) = SetUp4
    BY DEF StepNames, SetUp3, SetUp4
  <2>. QED
    BY <2>1, PlainStep
<1>4. SetUp4 # <<>> /\ Head(SetUp4) = "arm" /\ LeadsTo(Head(SetUp4)) \o Tail(SetUp4) = SetUp5
  <2>1. SetUp4 \in Seq(StepNames) /\ SetUp4 # <<>> /\ Head(SetUp4) = "arm" /\ Tail(SetUp4) = SetUp5
    BY DEF StepNames, SetUp4, SetUp5
  <2>. QED
    BY <2>1, PlainStep
<1>5. SetUp5 # <<>> /\ Head(SetUp5) = "pending" /\ LeadsTo(Head(SetUp5)) \o Tail(SetUp5) = <<>>
  <2>1. SetUp5 \in Seq(StepNames) /\ SetUp5 # <<>> /\ Head(SetUp5) = "pending" /\ Tail(SetUp5) = <<>>
    BY DEF StepNames, SetUp5
  <2>. QED
    BY <2>1, PlainStep
<1>6. Reset2 # <<>> /\ Head(Reset2) = "lock" /\ LeadsTo(Head(Reset2)) \o Tail(Reset2) = Reset3
  <2>1. Reset2 \in Seq(StepNames) /\ Reset2 # <<>> /\ Head(Reset2) = "lock" /\ Tail(Reset2) = Reset3
    BY DEF StepNames, Reset2, Reset3
  <2>. QED
    BY <2>1, PlainStep
<1>7. Reset3 # <<>> /\ Head(Reset3) = "stop" /\ LeadsTo(Head(Reset3)) \o Tail(Reset3) = Reset4
  <2>1. Reset3 \in Seq(StepNames) /\ Reset3 # <<>> /\ Head(Reset3) = "stop" /\ Tail(Reset3) = Reset4
    BY DEF StepNames, Reset3, Reset4
  <2>. QED
    BY <2>1, PlainStep
<1>8. Undo1 # <<>> /\ Head(Undo1) = "disarm" /\ LeadsTo(Head(Undo1)) \o Tail(Undo1) = Undo2
  <2>1. Undo1 \in Seq(StepNames) /\ Undo1 # <<>> /\ Head(Undo1) = "disarm" /\ Tail(Undo1) = Undo2
    BY DEF StepNames, Undo1, Undo2
  <2>. QED
    BY <2>1, PlainStep
<1>9. Undo2 # <<>> /\ Head(Undo2) = "default" /\ LeadsTo(Head(Undo2)) \o Tail(Undo2) = Undo3
  <2>1. Undo2 \in Seq(StepNames) /\ Undo2 # <<>> /\ Head(Undo2) = "default" /\ Tail(Undo2) = Undo3
    BY DEF StepNames, Undo2, Undo3
  <2>. QED
    BY <2>1, PlainStep
<1>10. Undo3 # <<>> /\ Head(Undo3) = "uninstalled" /\ LeadsTo(Head(Undo3)) \o Tail(Undo3) = Undo4
  <2>1. Undo3 \in Seq(StepNames) /\ Undo3 # <<>> /\ Head(Undo3) = "uninstalled" /\ Tail(Undo3) = Undo4
    BY DEF StepNames, Undo3, Undo4
  <2>. QED
    BY <2>1, PlainStep
<1>11. Undo4 # <<>> /\ Head(Undo4) = "unlock" /\ LeadsTo(Head(Undo4)) \o Tail(Undo4) = <<>>
  <2>1. Undo4 \in Seq(StepNames) /\ Undo4 # <<>> /\ Head(Undo4) = "unlock" /\ Tail(Undo4) = <<>>
    BY DEF StepNames, Undo4
  <2>. QED
    BY <2>1, PlainStep
<1>12. CompleteReset # <<>> /\ Head(CompleteReset) = "cancel" /\ LeadsTo(Head(CompleteReset)) \o Tail(CompleteReset) = Reset2
  <2>1. CompleteReset \in Seq(StepNames) /\ CompleteReset # <<>> /\ Head(CompleteReset) = "cancel" /\ Tail(CompleteReset) = Reset2
    BY DEF StepNames, CompleteReset, Reset2
  <2>. QED
    BY <2>1, PlainStep
<1>. QED
  BY <1>1, <1>2, <1>3, <1>4, <1>5, <1>6, <1>7, <1>8, <1>9, <1>10, <1>11, <1>12

LEMMA HandlerPlaces ==
  /\ Finish1 # <<>> /\ Head(Finish1) = "disarm" /\ LeadsTo(Head(Finish1)) \o Tail(Finish1) = Finish2
  /\ Finish2 # <<>> /\ Head(Finish2) = "default" /\ LeadsTo(Head(Finish2)) \o Tail(Finish2) = Finish3
  /\ Finish3 # <<>> /\ Head(Finish3) = "uninstalled" /\ LeadsTo(Head(Finish3)) \o Tail(Finish3) = Finish4
  /\ Finish4 # <<>> /\ Head(Finish4) = "finish" /\ LeadsTo(Head(Finish4)) \o Tail(Finish4) = <<>>
  /\ Tick1 # <<>> /\ Head(Tick1) = "hold" /\ LeadsTo(Head(Tick1)) \o Tail(Tick1) = Tick2
  /\ Tick2 # <<>> /\ Head(Tick2) = "install" /\ LeadsTo(Head(Tick2)) \o Tail(Tick2) = Tick3
  /\ Tick3 # <<>> /\ Head(Tick3) = "cancel" /\ LeadsTo(Head(Tick3)) \o Tail(Tick3) = Tick4
  /\ Tick4 # <<>> /\ Head(Tick4) = "arm" /\ LeadsTo(Head(Tick4)) \o Tail(Tick4) = Tick5
  /\ Tick5 # <<>> /\ Head(Tick5) = "resume" /\ LeadsTo(Head(Tick5)) \o Tail(Tick5) = <<>>
<1>1. Finish1 # <<>> /\ Head(Finish1) = "disarm" /\ LeadsTo(Head(Finish1)) \o Tail(Finish1) = Finish2
  <2>1. Finish1 \in Seq(StepNames) /\ Finish1 # <<>> /\ Head(Finish1) = "disarm" /\ Tail(Finish1) = Finish2
    BY DEF StepNames, Finish1, Finish2
  <2>. QED
    BY <2>1, PlainStep
<1>2. Finish2 # <<>> /\ Head(Finish2) = "default" /\ LeadsTo(Head(Finish2)) \o Tail(Finish2) = Finish3
  <2>1. Finish2 \in Seq(StepNames) /\ Finish2 # <<>> /\ Head(Finish2) = "default" /\ Tail(Finish2) = Finish3
    BY DEF StepNames, Finish2, Finish3
  <2>. QED
    BY <2>1, PlainStep
<1>3. Finish3 # <<>> /\ Head(Finish3) = "uninstalled" /\ LeadsTo(Head(Finish3)) \o Tail(Finish3) = Finish4
  <2>1. Finish3 \in Seq(StepNames) /\ Finish3 # <<>> /\ Head(Finish3) = "uninstalled" /\ Tail(Finish3) = Finish4
    BY DEF StepNames, Finish3, Finish4
  <2>. QED
    BY <2>1, PlainStep
<1>4. Finish4 # <<>> /\ Head(Finish4) = "finish" /\ LeadsTo(Head(Finish4)) \o Tail(Finish4) = <<>>
  <2>1. Finish4 \in Seq(StepNames) /\ Finish4 # <<>> /\ Head(Finish4) = "finish" /\ Tail(Finish4) = <<>>
    BY DEF StepNames, Finish4
  <2>. QED
    BY <2>1, PlainStep
<1>5. Tick1 # <<>> /\ Head(Tick1) = "hold" /\ LeadsTo(Head(Tick1)) \o Tail(Tick1) = Tick2
  <2>1. Tick1 \in Seq(StepNames) /\ Tick1 # <<>> /\ Head(Tick1) = "hold" /\ Tail(Tick1) = Tick2
    BY DEF StepNames, Tick1, Tick2
  <2>. QED
    BY <2>1, PlainStep
<1>6. Tick2 # <<>> /\ Head(Tick2) = "install" /\ LeadsTo(Head(Tick2)) \o Tail(Tick2) = Tick3
  <2>1. Tick2 \in Seq(StepNames) /\ Tick2 # <<>> /\ Head(Tick2) = "install" /\ Tail(Tick2) = Tick3
    BY DEF StepNames, Tick2, Tick3
  <2>. QED
    BY <2>1, PlainStep
<1>7. Tick3 # <<>> /\ Head(Tick3) = "cancel" /\ LeadsTo(Head(Tick3)) \o Tail(Tick3) = Tick4
  <2>1. Tick3 \in Seq(StepNames) /\ Tick3 # <<>> /\ Head(Tick3) = "cancel" /\ Tail(Tick3) = Tick4
    BY DEF StepNames, Tick3, Tick4
  <2>. QED
    BY <2>1, PlainStep
<1>8. Tick4 # <<>> /\ Head(Tick4) = "arm" /\ LeadsTo(Head(Tick4)) \o Tail(Tick4) = Tick5
  <2>1. Tick4 \in Seq(StepNames) /\ Tick4 # <<>> /\ Head(Tick4) = "arm" /\ Tail(Tick4) = Tick5
    BY DEF StepNames, Tick4, Tick5
  <2>. QED
    BY <2>1, PlainStep
<1>9. Tick5 # <<>> /\ Head(Tick5) = "resume" /\ LeadsTo(Head(Tick5)) \o Tail(Tick5) = <<>>
  <2>1. Tick5 \in Seq(StepNames) /\ Tick5 # <<>> /\ Head(Tick5) = "resume" /\ Tail(Tick5) = <<>>
    BY DEF StepNames, Tick5
  <2>. QED
    BY <2>1, PlainStep
<1>. QED
  BY <1>1, <1>2, <1>3, <1>4, <1>5, <1>6, <1>7, <1>8, <1>9

LEMMA TestingPlaces ==
  /\ <<"schedule">> # <<>> /\ Head(<<"schedule">>) = "schedule"
  /\ LeadsTo("schedule") \o Tail(<<"schedule">>) = IF locked_out \/ pending THEN <<>> ELSE SetUp1
  /\ <<"install">> # <<>> /\ Head(<<"install">>) = "install" /\ LeadsTo("install") \o Tail(<<"install">>) = <<>>
  /\ Reset4 # <<>> /\ Head(Reset4) = "schedule" /\ (locked_out => LeadsTo("schedule") \o Tail(Reset4) = Reset5)
  /\ Reset5 # <<>> /\ Head(Reset5) = "restore"
  /\ LeadsTo("restore") \o Tail(Reset5) = IF installed THEN Undo1 ELSE Undo4
  /\ Finish0 # <<>> /\ Head(Finish0) = "restore"
  /\ LeadsTo("restore") \o Tail(Finish0) = IF installed THEN Finish1 ELSE Finish4
  /\ <<"clock">> # <<>> /\ Head(<<"clock">>) = "clock"
  /\ LeadsTo("clock") \o Tail(<<"clock">>) =
        IF ~pending THEN <<>> ELSE IF countdown - 1 <= 0 THEN Finish0 ELSE Tick1
<1>1. /\ Tail(<<"schedule">>) = <<>> /\ Head(<<"schedule">>) = "schedule" /\ <<"schedule">> # <<>>
      /\ Tail(<<"clock">>) = <<>> /\ Head(<<"clock">>) = "clock" /\ <<"clock">> # <<>>
  OBVIOUS
<1>2. <<"install">> # <<>> /\ Head(<<"install">>) = "install" /\ LeadsTo("install") \o Tail(<<"install">>) = <<>>
  <2>1. <<"install">> \in Seq(StepNames) /\ <<"install">> # <<>> /\ Head(<<"install">>) = "install" /\ Tail(<<"install">>) = <<>>
    BY DEF StepNames
  <2>. QED
    BY <2>1, PlainStep
<1>3. /\ Reset4 # <<>> /\ Head(Reset4) = "schedule" /\ Tail(Reset4) = Reset5
      /\ Reset5 # <<>> /\ Head(Reset5) = "restore" /\ Tail(Reset5) = <<"unlock">>
      /\ Finish0 # <<>> /\ Head(Finish0) = "restore" /\ Tail(Finish0) = <<"finish">>
  BY DEF Reset4, Reset5, Finish0
<1>4. /\ <<>> \o Reset5 = Reset5 /\ <<>> \o <<"unlock">> = Undo4 /\ <<>> \o <<"finish">> = Finish4
      /\ <<>> \o <<>> = <<>>
  BY DEF Reset5, Undo4, Finish4
<1>5. SetUp1 \o <<>> = SetUp1 /\ Finish0 \o <<>> = Finish0 /\ Tick1 \o <<>> = Tick1
  <2>1. SetUp1 \in Seq(StepNames) /\ Finish0 \in Seq(StepNames) /\ Tick1 \in Seq(StepNames)
    BY DEF StepNames, SetUp1, Finish0, Tick1
  <2>. QED
    BY <2>1
<1>6. /\ <<"disarm", "default", "uninstalled">> \o <<"unlock">> = Undo1
      /\ <<"disarm", "default", "uninstalled">> \o <<"finish">> = Finish1
  BY Join31 DEF Undo1, Finish1
<1>7. LeadsTo("schedule") \o Tail(<<"schedule">>) = IF locked_out \/ pending THEN <<>> ELSE SetUp1
  BY <1>1, <1>4, <1>5, ScheduleStep, Zenon
<1>8. locked_out => LeadsTo("schedule") \o Tail(Reset4) = Reset5
  BY <1>3, <1>4, ScheduleStep, Zenon
<1>9. LeadsTo("restore") \o Tail(Reset5) = IF installed THEN Undo1 ELSE Undo4
  BY <1>3, <1>4, <1>6, RestoreStep, Zenon
<1>10. LeadsTo("restore") \o Tail(Finish0) = IF installed THEN Finish1 ELSE Finish4
  BY <1>3, <1>4, <1>6, RestoreStep, Zenon
<1>11. LeadsTo("clock") \o Tail(<<"clock">>) =
         IF ~pending THEN <<>> ELSE IF countdown - 1 <= 0 THEN Finish0 ELSE Tick1
  BY <1>1, <1>4, <1>5, ClockStep, Zenon
<1>. QED
  BY <1>1, <1>2, <1>3, <1>7, <1>8, <1>9, <1>10, <1>11, Zenon

---------------------------------------------------------------------------
\* The steps of the client, of the handler, and the alarm.
LEMMA ClientKeeps ==
  ASSUME ~OtherThread, AlarmsInv, ClientSteps
  PROVE  AlarmsInv'
<1>1. /\ handling = <<>> /\ call # <<>>
      /\ Assign(Head(call)) /\ call' = LeadsTo(Head(call)) \o Tail(call)
      /\ handling' = <<>> /\ timely' = timely
  BY DEF ClientSteps, Mine
<1>2. AlarmsTypes' /\ Effect(Head(call)) /\ (timer => handled)
  BY <1>1, AssignHas DEF AlarmsInv
<1>3. ~HandlerBusy
  BY <1>1, HandlerPlaces, TestingPlaces DEF HandlerBusy
<1>4. ASSUME call \in FreeCalls, handled <=> installed, PendingIsSetUp PROVE AlarmsInv'
  <2>1. CASE call = <<"schedule">>
    <3>1. Head(call) = "schedule" /\ call' = IF locked_out \/ pending THEN <<>> ELSE SetUp1
      BY <1>1, <2>1, TestingPlaces, Zenon
    <3>. QED
      BY <1>1, <1>2, <1>4, <3>1 DEF Effect, AlarmsInv, AlarmsTypes, ClientBusy, Quiet, FreeCalls, PendingIsSetUp
  <2>2. CASE call = <<"install">>
    <3>1. Head(call) = "install" /\ call' = <<>>
      BY <1>1, <2>2, TestingPlaces, Zenon
    <3>. QED
      BY <1>1, <1>2, <1>4, <3>1 DEF Effect, AlarmsInv, AlarmsTypes, ClientBusy, Quiet, FreeCalls, PendingIsSetUp
  <2>3. CASE call = CompleteReset
    <3>1. Head(call) = "cancel" /\ call' = Reset2
      BY <1>1, <2>3, ClientPlaces, Zenon
    <3>. QED
      BY <1>1, <1>2, <1>4, <3>1 DEF Effect, AlarmsInv, AlarmsTypes, ClientBusy, Quiet, FreeCalls, PendingIsSetUp
  <2>. QED
    BY <1>1, <1>4, <2>1, <2>2, <2>3 DEF FreeCalls
<1>5. ASSUME ~pending, ClientBusy PROVE AlarmsInv'
  <2>1. CASE call = SetUp1 /\ (handled <=> installed)
    <3>1. Head(call) = "install" /\ call' = SetUp2
      BY <1>1, <2>1, ClientPlaces, Zenon
    <3>. QED
      BY <1>1, <1>2, <1>5, <2>1, <3>1 DEF Effect, AlarmsInv, AlarmsTypes, ClientBusy, Quiet, FreeCalls, PendingIsSetUp
  <2>2. CASE call = Reset2 /\ (handled <=> installed)
    <3>1. Head(call) = "lock" /\ call' = Reset3
      BY <1>1, <2>2, ClientPlaces, Zenon
    <3>. QED
      BY <1>1, <1>2, <1>5, <2>2, <3>1 DEF Effect, AlarmsInv, AlarmsTypes, ClientBusy, Quiet, FreeCalls, PendingIsSetUp
  <2>3. CASE call = Reset3 /\ locked_out /\ (handled <=> installed)
    <3>1. Head(call) = "stop" /\ call' = Reset4
      BY <1>1, <2>3, ClientPlaces, Zenon
    <3>. QED
      BY <1>1, <1>2, <1>5, <2>3, <3>1 DEF Effect, AlarmsInv, AlarmsTypes, ClientBusy, Quiet, FreeCalls, PendingIsSetUp
  <2>4. CASE call = SetUp2 /\ installed /\ handled
    <3>1. Head(call) = "register" /\ call' = SetUp3
      BY <1>1, <2>4, ClientPlaces, Zenon
    <3>. QED
      BY <1>1, <1>2, <1>5, <2>4, <3>1 DEF Effect, AlarmsInv, AlarmsTypes, ClientBusy, Quiet, FreeCalls, PendingIsSetUp
  <2>5. CASE call = Undo1 /\ installed /\ handled
    <3>1. Head(call) = "disarm" /\ call' = Undo2
      BY <1>1, <2>5, ClientPlaces, Zenon
    <3>. QED
      BY <1>1, <1>2, <1>5, <2>5, <3>1 DEF Effect, AlarmsInv, AlarmsTypes, ClientBusy, Quiet, FreeCalls, PendingIsSetUp
  <2>6. CASE call = SetUp3 /\ installed /\ handled /\ registered
    <3>1. Head(call) = "cancel" /\ call' = SetUp4
      BY <1>1, <2>6, ClientPlaces, Zenon
    <3>. QED
      BY <1>1, <1>2, <1>5, <2>6, <3>1 DEF Effect, AlarmsInv, AlarmsTypes, ClientBusy, Quiet, FreeCalls, PendingIsSetUp
  <2>7. CASE call = SetUp4 /\ installed /\ handled /\ registered
    <3>1. Head(call) = "arm" /\ call' = SetUp5
      BY <1>1, <2>7, ClientPlaces, Zenon
    <3>. QED
      BY <1>1, <1>2, <1>5, <2>7, <3>1 DEF Effect, AlarmsInv, AlarmsTypes, ClientBusy, Quiet, FreeCalls, PendingIsSetUp
  <2>8. CASE call = SetUp5 /\ installed /\ handled /\ registered /\ (timely => timer)
    <3>1. Head(call) = "pending" /\ call' = <<>>
      BY <1>1, <2>8, ClientPlaces, Zenon
    <3>2. countdown' = FinalizationDelay /\ registered' /\ installed' /\ handled' /\ (timer' <=> timer)
      BY <1>2, <2>8, <3>1 DEF Effect
    <3>3. PendingIsSetUp'
      BY <1>1, <2>8, <3>2, AlarmsAssumption DEF PendingIsSetUp
    <3>. QED
      BY <1>1, <1>2, <3>1, <3>2, <3>3 DEF AlarmsInv, Quiet, FreeCalls
  <2>9. CASE call = Undo2 /\ installed /\ handled /\ ~timer
    <3>1. Head(call) = "default" /\ call' = Undo3
      BY <1>1, <2>9, ClientPlaces, Zenon
    <3>. QED
      BY <1>1, <1>2, <1>5, <2>9, <3>1 DEF Effect, AlarmsInv, AlarmsTypes, ClientBusy, Quiet, FreeCalls, PendingIsSetUp
  <2>10. CASE call = Undo3 /\ installed /\ ~handled /\ ~timer
    <3>1. Head(call) = "uninstalled" /\ call' = Undo4
      BY <1>1, <2>10, ClientPlaces, Zenon
    <3>. QED
      BY <1>1, <1>2, <1>5, <2>10, <3>1 DEF Effect, AlarmsInv, AlarmsTypes, ClientBusy, Quiet, FreeCalls, PendingIsSetUp
  <2>11. CASE call = Undo4 /\ ~installed /\ ~handled /\ ~timer
    <3>1. Head(call) = "unlock" /\ call' = <<>>
      BY <1>1, <2>11, ClientPlaces, Zenon
    <3>. QED
      BY <1>1, <1>2, <1>5, <2>11, <3>1 DEF Effect, AlarmsInv, AlarmsTypes, ClientBusy, Quiet, FreeCalls, PendingIsSetUp
  <2>12. CASE call = Reset4 /\ locked_out /\ (handled <=> installed)
    <3>1. Head(call) = "schedule" /\ call' = Reset5
      BY <1>1, <2>12, TestingPlaces, Zenon
    <3>. QED
      BY <1>1, <1>2, <1>5, <2>12, <3>1 DEF Effect, AlarmsInv, AlarmsTypes, ClientBusy, Quiet, FreeCalls, PendingIsSetUp
  <2>13. CASE call = Reset5 /\ (handled <=> installed)
    <3>1. Head(call) = "restore" /\ call' = IF installed THEN Undo1 ELSE Undo4
      BY <1>1, <2>13, TestingPlaces, Zenon
    <3>. QED
      BY <1>1, <1>2, <1>5, <2>13, <3>1 DEF Effect, AlarmsInv, AlarmsTypes, ClientBusy, Quiet, FreeCalls, PendingIsSetUp
  <2>. QED
    BY <1>5, <2>1, <2>2, <2>3, <2>4, <2>5, <2>6, <2>7, <2>8, <2>9, <2>10, <2>11, <2>12, <2>13 DEF ClientBusy
<1>. QED
  BY <1>3, <1>4, <1>5 DEF AlarmsInv

LEMMA HandlerKeeps ==
  ASSUME AlarmsInv, HandlerSteps
  PROVE  AlarmsInv'
<1>1. /\ handling # <<>> /\ call' = call
      /\ Assign(Head(handling)) /\ handling' = LeadsTo(Head(handling)) \o Tail(handling)
      /\ timely' = timely
  BY DEF HandlerSteps
<1>2. AlarmsTypes' /\ Effect(Head(handling)) /\ (timer => handled) /\ AlarmsTypes
  BY <1>1, AssignHas DEF AlarmsInv
<1>3. ASSUME handling = <<"clock">>, registered, installed, handled
      PROVE  /\ Head(handling) = "clock"
             /\ handling' = IF ~pending THEN <<>> ELSE IF countdown - 1 <= 0 THEN Finish0 ELSE Tick1
  BY <1>1, <1>3, TestingPlaces, Zenon
<1>4. ASSUME call \in FreeCalls, Quiet, handled <=> installed, PendingIsSetUp PROVE AlarmsInv'
  <2>1. handling = <<"clock">> /\ registered /\ installed /\ handled
    BY <1>1, <1>4 DEF Quiet
  <2>2. /\ Head(handling) = "clock"
        /\ handling' = IF ~pending THEN <<>> ELSE IF countdown - 1 <= 0 THEN Finish0 ELSE Tick1
    BY <1>3, <2>1
  <2>3. CASE ~pending
    BY <1>1, <1>2, <1>4, <2>1, <2>2, <2>3 DEF Effect, AlarmsInv, AlarmsTypes, HandlerBusy, Quiet, PendingIsSetUp
  <2>4. CASE pending
    <3>1. countdown \in 1..FinalizationDelay /\ countdown' = countdown - 1 /\ FinalizationDelay \in Nat
      BY <1>2, <1>4, <2>2, <2>4, AlarmsAssumption DEF PendingIsSetUp, Effect
    <3>2. CASE countdown - 1 <= 0
      <4>1. handling' = Finish0
        BY <2>2, <2>4, <3>2
      <4>2. /\ handled' <=> installed'
            /\ timer' => handled'
        BY <1>2, <1>4, <2>2 DEF Effect
      <4>. QED
        BY <1>1, <1>2, <1>4, <4>1, <4>2 DEF AlarmsInv, HandlerBusy
    <3>3. CASE ~(countdown - 1 <= 0)
      <4>1. handling' = Tick1
        BY <2>2, <2>4, <3>3
      <4>2. /\ handled' <=> installed'
            /\ timer' => handled'
            /\ registered' /\ countdown' \in 1..FinalizationDelay
        BY <1>2, <1>4, <2>1, <2>2, <3>1, <3>3 DEF Effect
      <4>. QED
        BY <1>1, <1>2, <1>4, <4>1, <4>2 DEF AlarmsInv, HandlerBusy
    <3>. QED
      BY <3>2, <3>3
  <2>. QED
    BY <2>3, <2>4
<1>5. ASSUME Quiet, ~pending, ClientBusy PROVE AlarmsInv'
  <2>1. handling = <<"clock">> /\ registered /\ installed /\ handled
    BY <1>1, <1>5 DEF Quiet
  <2>2. Head(handling) = "clock" /\ handling' = <<>>
    BY <1>3, <1>5, <2>1
  <2>3. /\ timer' = timer /\ installed' = installed /\ handled' = handled /\ registered' = registered
        /\ pending' = pending /\ locked_out' = locked_out
    BY <1>2, <2>2 DEF Effect, AlarmsTypes
  <2>. QED
    BY <1>1, <1>2, <1>5, <2>2, <2>3 DEF AlarmsInv, AlarmsTypes, Quiet, ClientBusy
<1>6. ASSUME call \in FreeCalls, HandlerBusy PROVE AlarmsInv'
  <2>1. CASE handling = Finish4 /\ (handled <=> installed)
    <3>1. Head(handling) = "finish" /\ handling' = <<>>
      BY <1>1, <2>1, HandlerPlaces, Zenon
    <3>. QED
      BY <1>1, <1>2, <1>6, <2>1, <3>1 DEF Effect, AlarmsInv, AlarmsTypes, HandlerBusy, Quiet, PendingIsSetUp
  <2>2. CASE handling = Finish1 /\ installed /\ handled
    <3>1. Head(handling) = "disarm" /\ handling' = Finish2
      BY <1>1, <2>2, HandlerPlaces, Zenon
    <3>. QED
      BY <1>1, <1>2, <1>6, <2>2, <3>1 DEF Effect, AlarmsInv, AlarmsTypes, HandlerBusy, Quiet, PendingIsSetUp
  <2>3. CASE handling = Finish2 /\ installed /\ handled /\ ~timer
    <3>1. Head(handling) = "default" /\ handling' = Finish3
      BY <1>1, <2>3, HandlerPlaces, Zenon
    <3>. QED
      BY <1>1, <1>2, <1>6, <2>3, <3>1 DEF Effect, AlarmsInv, AlarmsTypes, HandlerBusy, Quiet, PendingIsSetUp
  <2>4. CASE handling = Finish3 /\ installed /\ ~handled /\ ~timer
    <3>1. Head(handling) = "uninstalled" /\ handling' = Finish4
      BY <1>1, <2>4, HandlerPlaces, Zenon
    <3>. QED
      BY <1>1, <1>2, <1>6, <2>4, <3>1 DEF Effect, AlarmsInv, AlarmsTypes, HandlerBusy, Quiet, PendingIsSetUp
  <2>5. CASE handling = Tick1 /\ registered /\ countdown \in 1..FinalizationDelay /\ (handled <=> installed)
    <3>1. Head(handling) = "hold" /\ handling' = Tick2
      BY <1>1, <2>5, HandlerPlaces, Zenon
    <3>. QED
      BY <1>1, <1>2, <1>6, <2>5, <3>1 DEF Effect, AlarmsInv, AlarmsTypes, HandlerBusy, Quiet, PendingIsSetUp
  <2>6. CASE handling = Tick2 /\ registered /\ countdown \in 1..FinalizationDelay /\ (handled <=> installed) /\ ~pending
    <3>1. Head(handling) = "install" /\ handling' = Tick3
      BY <1>1, <2>6, HandlerPlaces, Zenon
    <3>. QED
      BY <1>1, <1>2, <1>6, <2>6, <3>1 DEF Effect, AlarmsInv, AlarmsTypes, HandlerBusy, Quiet, PendingIsSetUp
  <2>7. CASE handling = Tick3 /\ registered /\ countdown \in 1..FinalizationDelay /\ installed /\ handled /\ ~pending
    <3>1. Head(handling) = "cancel" /\ handling' = Tick4
      BY <1>1, <2>7, HandlerPlaces, Zenon
    <3>. QED
      BY <1>1, <1>2, <1>6, <2>7, <3>1 DEF Effect, AlarmsInv, AlarmsTypes, HandlerBusy, Quiet, PendingIsSetUp
  <2>8. CASE handling = Tick4 /\ registered /\ countdown \in 1..FinalizationDelay /\ installed /\ handled /\ ~pending
    <3>1. Head(handling) = "arm" /\ handling' = Tick5
      BY <1>1, <2>8, HandlerPlaces, Zenon
    <3>. QED
      BY <1>1, <1>2, <1>6, <2>8, <3>1 DEF Effect, AlarmsInv, AlarmsTypes, HandlerBusy, Quiet, PendingIsSetUp
  <2>9. CASE handling = Tick5 /\ registered /\ countdown \in 1..FinalizationDelay /\ installed /\ handled /\ ~pending /\ timer
    <3>1. Head(handling) = "resume" /\ handling' = <<>>
      BY <1>1, <2>9, HandlerPlaces, Zenon
    <3>. QED
      BY <1>1, <1>2, <1>6, <2>9, <3>1 DEF Effect, AlarmsInv, AlarmsTypes, HandlerBusy, Quiet, PendingIsSetUp
  <2>10. CASE handling = Finish0 /\ (handled <=> installed)
    <3>1. Head(handling) = "restore" /\ handling' = IF installed THEN Finish1 ELSE Finish4
      BY <1>1, <2>10, TestingPlaces, Zenon
    <3>. QED
      BY <1>1, <1>2, <1>6, <2>10, <3>1 DEF Effect, AlarmsInv, AlarmsTypes, HandlerBusy, Quiet, PendingIsSetUp
  <2>. QED
    BY <1>6, <2>1, <2>2, <2>3, <2>4, <2>5, <2>6, <2>7, <2>8, <2>9, <2>10 DEF HandlerBusy
<1>. QED
  BY <1>4, <1>5, <1>6 DEF AlarmsInv

LEMMA AlarmKeeps ==
  ASSUME AlarmsInv, Alarm
  PROVE  AlarmsInv'
<1>1. /\ handling = <<>> /\ timer /\ ~timer' /\ timer' \in BOOLEAN /\ (timely => call = <<>> \/ Head(call) = "stop")
      /\ handling' = IF handled /\ registered THEN <<"clock">> ELSE <<>>
      /\ UNCHANGED <<call, installed, handled, registered, pending, countdown, locked_out, timely>>
  BY DEF Alarm
<1>2. AlarmsTypes' /\ handled
  BY <1>1 DEF AlarmsInv, AlarmsTypes
<1>3. ~HandlerBusy
  BY <1>1, HandlerPlaces, TestingPlaces DEF HandlerBusy
<1>4. CASE call \in FreeCalls /\ (handled <=> installed) /\ PendingIsSetUp
  <2>1. Quiet' /\ (handled' <=> installed')
    BY <1>1, <1>2, <1>4 DEF Quiet
  <2>2. PendingIsSetUp'
    <3>1. handling' # <<>> \/ ~registered
      BY <1>1, <1>2, TestingPlaces
    <3>. QED
      BY <1>1, <1>4, <3>1 DEF PendingIsSetUp
  <2>. QED
    BY <1>1, <1>2, <1>4, <2>1, <2>2 DEF AlarmsInv
<1>5. CASE ~pending /\ ClientBusy
  <2>1. call # SetUp5 \/ ~timely
    BY <1>1, ClientPlaces
  <2>2. ClientBusy' /\ installed
    BY <1>1, <1>2, <1>5, <2>1 DEF ClientBusy
  <2>3. Quiet'
    BY <1>1, <1>2, <2>2 DEF Quiet
  <2>. QED
    BY <1>1, <1>2, <1>5, <2>2, <2>3 DEF AlarmsInv
<1>. QED
  BY <1>3, <1>4, <1>5 DEF AlarmsInv

\* A call begins when the client is free, and its first place is a free one.
LEMMA CallKeeps ==
  ASSUME ~OtherThread, AlarmsInv, NEW steps \in FreeCalls, Call(steps)
  PROVE  AlarmsInv'
<1>1. handling = <<>> /\ call = <<>> /\ call' = steps /\ UNCHANGED <<handling, alarmVars, timely>>
  BY DEF Call, Mine
<1>2. UNCHANGED <<timer, installed, handled, registered, pending, countdown, locked_out>>
  BY <1>1 DEF alarmVars
<1>3. ~HandlerBusy /\ ~ClientBusy
  BY <1>1, HandlerPlaces, ClientPlaces, TestingPlaces DEF HandlerBusy, ClientBusy
<1>4. Quiet /\ (handled <=> installed) /\ PendingIsSetUp
  BY <1>3 DEF AlarmsInv
<1>5. Quiet' /\ (handled' <=> installed') /\ PendingIsSetUp'
  BY <1>1, <1>2, <1>4 DEF Quiet, PendingIsSetUp
<1>. QED
  BY <1>1, <1>2, <1>5 DEF AlarmsInv, AlarmsTypes

LEMMA SignalsKeep ==
  ASSUME AlarmsInv, UNCHANGED <<call, handling, alarmVars, timely>>
  PROVE  AlarmsInv'
<1>1. UNCHANGED <<timer, installed, handled, registered, pending, countdown, locked_out>>
  BY DEF alarmVars
<1>2. /\ PendingIsSetUp' <=> PendingIsSetUp
      /\ Quiet' <=> Quiet
      /\ ClientBusy' <=> ClientBusy
      /\ HandlerBusy' <=> HandlerBusy
  BY <1>1 DEF Quiet, PendingIsSetUp, ClientBusy, HandlerBusy
<1>. QED
  BY <1>1, <1>2 DEF AlarmsInv, AlarmsTypes

LEMMA AlarmsBegin ==
  ASSUME AlarmsInit
  PROVE  AlarmsInv
<1>1. /\ timer \in BOOLEAN /\ installed \in BOOLEAN /\ handled \in BOOLEAN /\ registered \in BOOLEAN
      /\ pending \in BOOLEAN /\ locked_out \in BOOLEAN
  BY Zenon DEF AlarmsInit
<1>2. AlarmsTypes
  BY <1>1 DEF AlarmsInit, AlarmsTypes
<1>3. ~timer /\ ~installed /\ ~handled /\ ~pending /\ call = <<>> /\ handling = <<>>
  BY Zenon DEF AlarmsInit
<1>. QED
  BY <1>2, <1>3 DEF AlarmsInv, FreeCalls, Quiet, PendingIsSetUp

LEMMA AlarmsStep ==
  ASSUME ~OtherThread, AlarmsInv, [AlarmsNext]_alarmsVars
  PROVE  AlarmsInv'
<1>1. CASE Call(<<"schedule">>) \/ Call(CompleteReset) \/ Call(<<"install">>)
  BY <1>1, CallKeeps DEF FreeCalls
<1>2. CASE \E s \in Signals :
             \/ \E function \in Actions : RegisterSignalHandler(s, function)
             \/ UnregisterSignalHandler(s)
             \/ \E value \in {"default", "ignore", "foreign"} : SetDisposition(s, value)
             \/ Signal(s)
  <2>1. UNCHANGED <<call, handling, alarmVars, timely>>
    BY <1>2 DEF RegisterSignalHandler, UnregisterSignalHandler, SetDisposition, Signal
  <2>. QED
    BY <2>1, SignalsKeep
<1>3. CASE UNCHANGED alarmsVars
  <2>1. UNCHANGED <<call, handling, alarmVars, timely>>
    BY <1>3 DEF alarmsVars
  <2>. QED
    BY <2>1, SignalsKeep
<1>. QED
  BY <1>1, <1>2, <1>3, ClientKeeps, HandlerKeeps, AlarmKeeps DEF AlarmsNext

LEMMA InvIsSafe ==
  ASSUME AlarmsInv
  PROVE  AlarmsAreHandled /\ PendingCountsDown /\ ResetIsComplete
<1>1. AlarmsAreHandled
  BY DEF AlarmsInv, AlarmsAreHandled
<1>2. PendingCountsDown
  <2>. SUFFICES ASSUME pending, call = <<>>, handling = <<>>, timely
                PROVE  timer /\ registered /\ countdown \in 1..FinalizationDelay
    BY DEF PendingCountsDown
  <2>1. ~HandlerBusy
    BY HandlerPlaces, TestingPlaces DEF HandlerBusy
  <2>. QED
    BY <2>1 DEF AlarmsInv, PendingIsSetUp
<1>3. ResetIsComplete
  <2>. SUFFICES ASSUME call = <<"unlock">> PROVE ~pending /\ ~timer /\ ~handled /\ handling = <<>>
    BY DEF ResetIsComplete
  <2>1. call = Undo4 /\ Head(call) = "unlock"
    BY ClientPlaces, Zenon DEF Undo4
  <2>. DEFINE others == {<<"schedule">>, <<"install">>, CompleteReset, SetUp1, SetUp2, SetUp3, SetUp4, SetUp5,
                         Reset2, Reset3, Reset4, Reset5, Undo1, Undo2, Undo3}
  <2>0. \A p \in others : Head(p) # "unlock"
    <3>1. /\ Head(SetUp1) = "install" /\ Head(SetUp2) = "register" /\ Head(SetUp3) = "cancel"
          /\ Head(SetUp4) = "arm" /\ Head(SetUp5) = "pending"
          /\ Head(Reset2) = "lock" /\ Head(Reset3) = "stop" /\ Head(CompleteReset) = "cancel"
          /\ Head(Undo1) = "disarm" /\ Head(Undo2) = "default" /\ Head(Undo3) = "uninstalled"
      BY ClientPlaces, Zenon
    <3>2. /\ Head(<<"schedule">>) = "schedule" /\ Head(<<"install">>) = "install"
          /\ Head(Reset4) = "schedule" /\ Head(Reset5) = "restore"
      BY TestingPlaces, Zenon
    <3>. QED
      BY <3>1, <3>2
  <2>2. call \notin FreeCalls /\ call \notin others /\ call # <<>>
    <3>1. Undo4 # <<>>
      BY ClientPlaces, Zenon
    <3>. QED
      BY <2>0, <2>1, <3>1 DEF FreeCalls
  <2>3. ~pending /\ ClientBusy
    BY <2>2 DEF AlarmsInv
  <2>4. ~handled /\ ~timer /\ handling = <<>>
    BY <2>2, <2>3 DEF ClientBusy
  <2>. QED
    BY <2>3, <2>4
<1>. QED
  BY <1>1, <1>2, <1>3

(* When alarms are handled by the client's thread, none ends the program,  *)
(* a finalization that is pending has an alarm to come and seconds to      *)
(* count, and a complete reset leaves nothing to happen, wherever in the   *)
(* calls of the client the alarms fall.                                    *)
THEOREM FinalizationIsSafe ==
  ASSUME ~OtherThread
  PROVE  AlarmsSpec => [](AlarmsAreHandled /\ PendingCountsDown /\ ResetIsComplete)
<1>1. AlarmsInit => AlarmsInv
  BY AlarmsBegin
<1>2. AlarmsInv /\ [AlarmsNext]_alarmsVars => AlarmsInv'
  BY AlarmsStep
<1>3. AlarmsInv => AlarmsAreHandled /\ PendingCountsDown /\ ResetIsComplete
  BY InvIsSafe
<1>. QED
  BY <1>1, <1>2, <1>3, PTL DEF AlarmsSpec
================================================================================
