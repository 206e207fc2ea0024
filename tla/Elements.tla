------------------------------- MODULE Elements -------------------------------
(***************************************************************************)
(* Elements (cwutils/lib): marks and spaces are detected in the samples of *)
(* a file, or made from a text, so that the two can be compared.           *)
(*                                                                         *)
(* A sample is 1 where the sound is not zero.  A mark or a space is        *)
(* detected by as many consecutive samples as the memory holds; a sine     *)
(* that crosses zero is "can't decide".  Times are counts of samples.      *)
(***************************************************************************)
EXTENDS Integers, Sequences, SequencesExt

CONSTANTS
    MemorySize,      \* STATE_MEMORY_SIZE; the code has 4
    MaxElements,     \* max_count of the elements
    MaxSamples,      \* bound: the length of a file
    Representations, \* the representation of each character that texts consist of
    MaxText          \* bound

(* The character between words.                                            *)
TextBlank == " "

ASSUME ElementsAssumption ==
    /\ MemorySize \in Nat \ {0} /\ MaxElements \in Nat /\ MaxSamples \in Nat /\ MaxText \in Nat
    /\ \A c \in DOMAIN Representations : c # TextBlank /\ Representations[c] \in Seq({0, 1}) \ {<<>>}

VARIABLES
    samples,         \* the file, as far as it has been read
    prev_state,
    prev_start,      \* prev_element_start_ts
    wav_elements,    \* of the file, [state, timespan]
    detecting,       \* "beginning", "reading", "done" or "failed"
    text_read,       \* the text, as far as it has been read
    string_elements  \* of the text: "dot", "dash", "ims", "ics" or "iws"

wavVars == <<samples, prev_state, prev_start, wav_elements, detecting>>
textVars == <<text_read, string_elements>>
elementsVars == <<wavVars, textVars>>

-----------------------------------------------------------------------------
(* state_detect(): the memory is filled, and all of it is of one state.    *)
\* Mutant: the latest sample decides.
DetectedInLatest(file) == IF file = <<>> THEN {} ELSE {IF Last(file) = 0 THEN "space" ELSE "mark"}
Detected(file) ==
    LET memory == SubSeq(file, Len(file) - MemorySize + 1, Len(file)) IN
    IF Len(file) < MemorySize THEN {}
    ELSE {s \in {"space", "mark"} : \A i \in DOMAIN memory : memory[i] = IF s = "space" THEN 0 ELSE 1}

(* cw_elements_append_element(): without room the detection fails.         *)
IsFull == Len(wav_elements) >= MaxElements
AppendElement(state, timespan) ==
    wav_elements' = IF IsFull THEN wav_elements ELSE Append(wav_elements, [state |-> state, timespan |-> timespan])

(* cw_elements_detect_from_wav(): a sample, whose index is the number of   *)
(* those before it, and the end of the file.                               *)
BeginsAt(state) == prev_state' = state /\ prev_start' = Len(samples)

ReadSample(sample) ==
    LET detected == Detected(Append(samples, sample)) IN
    /\ detecting \in {"beginning", "reading"} /\ Len(samples) < MaxSamples
    /\ samples' = Append(samples, sample)
    /\ \/ /\ detected = {} \/ (detecting = "reading" /\ prev_state \in detected)
          /\ UNCHANGED <<prev_state, prev_start, wav_elements, detecting>>
       \/ /\ detecting = "beginning" /\ \E state \in detected : BeginsAt(state)
          /\ detecting' = "reading" /\ UNCHANGED wav_elements
       \/ /\ detecting = "reading" /\ prev_state \notin detected /\ \E state \in detected : BeginsAt(state)
          /\ AppendElement(prev_state, Len(samples) - prev_start)
          /\ detecting' = IF IsFull THEN "failed" ELSE "reading"
    /\ UNCHANGED textVars

EndOfFile ==
    /\ detecting \in {"beginning", "reading"}
    /\ AppendElement(prev_state, Len(samples) - prev_start)
    /\ detecting' = IF IsFull THEN "failed" ELSE "done"
    /\ UNCHANGED <<samples, prev_state, prev_start, textVars>>

-----------------------------------------------------------------------------
(* cw_elements_detect_from_string()                                        *)

IsSpace(element) == element \in {"ims", "ics"}

BlankElements(elements) ==
    IF elements # <<>> /\ IsSpace(Last(elements)) THEN Front(elements) \o <<"iws">> ELSE Append(elements, "iws")

ElementsOfMarks(c) ==
    FlattenSeq([i \in DOMAIN Representations[c] |->
                    <<IF Representations[c][i] = 0 THEN "dot" ELSE "dash", "ims">>])
\* Mutant: the space after the last mark stays one between marks.
MarksOnly(c) == ElementsOfMarks(c)
CharacterElements(c) == Front(ElementsOfMarks(c)) \o <<"ics">>

(* Texts as tests have them, without a space at the beginning or two of    *)
(* them.                                                                   *)
ReadCharacterOfText(c) ==
    /\ Len(text_read) < MaxText
    /\ c = TextBlank => text_read # <<>> /\ Last(text_read) # TextBlank
    /\ text_read' = Append(text_read, c)
    /\ string_elements' = IF c = TextBlank THEN BlankElements(string_elements)
                          ELSE string_elements \o CharacterElements(c)
    /\ UNCHANGED wavVars

-----------------------------------------------------------------------------
ElementsInit ==
    /\ samples = <<>> /\ prev_state = "space" /\ prev_start = 0 /\ wav_elements = <<>> /\ detecting = "beginning"
    /\ text_read = <<>> /\ string_elements = <<>>

ElementsNext ==
    \/ text_read = <<>> /\ (EndOfFile \/ \E sample \in {0, 1} : ReadSample(sample))
    \/ samples = <<>> /\ detecting = "beginning" /\ \E c \in DOMAIN Representations \cup {TextBlank} : ReadCharacterOfText(c)

ElementsSpec == ElementsInit /\ [][ElementsNext]_elementsVars

-----------------------------------------------------------------------------
(* The sound that a file holds: its maximal parts of one state.            *)
StateOf(sample) == IF sample = 0 THEN "space" ELSE "mark"
Longer(runs, sample) ==
    IF runs # <<>> /\ Last(runs).state = StateOf(sample) THEN [runs EXCEPT ![Len(runs)].timespan = @ + 1]
    ELSE Append(runs, [state |-> StateOf(sample), timespan |-> 1])
Runs(file) == FoldLeft(Longer, <<>>, file)
IsClean(file) == \A k \in DOMAIN Runs(file) : Runs(file)[k].timespan >= MemorySize

(* A file of marks and spaces that are long enough is told exactly, but    *)
(* for its last element: that one is cut by the delay of the detection.    *)
SignalIsDetected ==
    detecting = "done" /\ samples # <<>> /\ IsClean(samples) =>
        LET runs == Runs(samples) IN
        wav_elements = [runs EXCEPT ![Len(runs)].timespan = @ - (MemorySize - 1)]

(* In any file: marks and spaces alternate, and none but the last is       *)
(* shorter than what it takes to detect one; crossings of zero are none.   *)
ElementsAlternate ==
    \A i \in 1..Len(wav_elements)-1 :
        /\ wav_elements[i].state # wav_elements[i + 1].state
        /\ wav_elements[i].timespan >= MemorySize

(* The elements of a text are what a sender makes of it: its marks in      *)
(* order, and after each of them the space that follows it.                *)
TextMarks == FlattenSeq([i \in DOMAIN text_read |-> IF text_read[i] = TextBlank THEN <<>>
                 ELSE [j \in DOMAIN Representations[text_read[i]] |->
                         [mark |-> IF Representations[text_read[i]][j] = 0 THEN "dot" ELSE "dash",
                          space |-> IF j < Len(Representations[text_read[i]]) THEN "ims"
                                    ELSE IF i < Len(text_read) /\ text_read[i + 1] = TextBlank THEN "iws" ELSE "ics"]]])

ElementsAreOfText ==
    string_elements = FlattenSeq([i \in DOMAIN TextMarks |-> <<TextMarks[i].mark, TextMarks[i].space>>])

(* The durations that a test compares are those of the signal and those of *)
(* the text that it was made from.                                         *)
ElementsAreRight == SignalIsDetected /\ ElementsAlternate /\ ElementsAreOfText
=============================================================================
