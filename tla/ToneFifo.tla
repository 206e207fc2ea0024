------------------------------- MODULE ToneFifo -------------------------------
(***************************************************************************)
(* What the tone queue promises: the tones are handed to the generator in  *)
(* the order they were enqueued, each once; a "forever" tone that is alone *)
(* is handed out again and again and leaves when a tone comes after it;    *)
(* a flush discards all of them, a removal the tones of the last           *)
(* character.  Threads, indices and callbacks do not show.                 *)
(***************************************************************************)
EXTENDS Sequences, Integers

CONSTANTS Capacity, Tones

VARIABLES
    items,       \* the tones waiting, oldest first
    current,     \* the tone handed out last
    generating   \* it is still being generated

vars == <<items, current, generating>>

Put ==
    /\ Len(items) < Capacity
    /\ \E new \in Tones : items' = Append(items, new)
    /\ UNCHANGED <<current, generating>>

Stays == Len(items) = 1 /\ Head(items).is_forever

Take ==
    /\ items # <<>>
    /\ current' = Head(items)
    /\ generating' = TRUE
    /\ items' = IF Stays THEN items ELSE Tail(items)

Finish ==
    /\ items = <<>>
    /\ generating' = FALSE
    /\ UNCHANGED <<items, current>>

Flush ==
    /\ items' = <<>>
    /\ UNCHANGED <<current, generating>>

(* The last character begins at the last tone that is a first one.         *)
DropLastCharacter ==
    /\ \E i \in 1..Len(items) :
          /\ items[i].is_first
          /\ \A j \in (i + 1)..Len(items) : ~items[j].is_first
          /\ items' = SubSeq(items, 1, i - 1)
    /\ UNCHANGED <<current, generating>>

Init == items = <<>> /\ generating = FALSE

Next == Put \/ Take \/ Finish \/ Flush \/ DropLastCharacter

Spec == Init /\ [][Next]_vars
=============================================================================
