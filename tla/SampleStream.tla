----------------------------- MODULE SampleStream -----------------------------
(***************************************************************************)
(* What the sound buffer promises: the samples of each tone, numbered from *)
(* its first, are handed to the sound device in blocks of BufferSize, in   *)
(* their order, each once; less than a block is kept back for the next     *)
(* tone.  How a tone is cut into parts of the buffer does not show.        *)
(***************************************************************************)
EXTENDS Sequences, Integers

CONSTANT BufferSize

VARIABLES
    length,      \* the samples of the tone being generated
    position,    \* how many of them have been generated
    kept,        \* the samples that wait for the block to be full
    block        \* the block handed out last

streamVars == <<length, position, kept, block>>

StreamInit == length = 0 /\ position = 0 /\ kept = <<>> /\ block = [i \in 1..BufferSize |-> 0]

Begin ==
    /\ position = length
    /\ length' \in Nat
    /\ position' = 0
    /\ UNCHANGED <<kept, block>>

(* The next `count' samples fill the block or are kept.                    *)
Move(count) ==
    LET samples == kept \o [i \in 1..count |-> position + i - 1] IN
    /\ position' = position + count
    /\ \/ Len(samples) < BufferSize /\ kept' = samples /\ UNCHANGED block
       \/ Len(samples) = BufferSize /\ kept' = <<>> /\ block' = samples
    /\ UNCHANGED length

StreamNext == Begin \/ \E count \in 1..BufferSize : position + count <= length /\ Move(count)

StreamSpec == StreamInit /\ [][StreamNext]_streamVars
=============================================================================
