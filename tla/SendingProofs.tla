----------------------------- MODULE SendingProofs -----------------------------
(***************************************************************************)
(* Theorems about sending: a character is enqueued as a whole or not at    *)
(* all, for every capacity, high water mark and set of characters that     *)
(* leave room for each other; durations are positive within the limits of  *)
(* the library, at any speed; and the parts of a space add up to the space *)
(* that was asked for, since at each step of a call the counter knows what *)
(* is in the queue already and the steps that are left know the rest.      *)
(***************************************************************************)
EXTENDS SendingHistory, SequenceTheorems, TLAPS

AllSteps == Marks \union Spaces \union {"wait"}

Typed ==
    /\ items \in Seq(Tones) /\ Len(items) =< Capacity
    /\ steps \in Seq(AllSteps)
    /\ text \in Seq(Representations \union {Blank})

(* The steps left are those of a character, for which there is room, or    *)
(* none of them is.                                                        *)
HasItsRoom == steps \in Seq(TextSteps) /\ Len(items) + Len(steps) =< Capacity
IsOther == \A i \in DOMAIN steps : steps[i] \notin TextSteps

IInv == Typed /\ (HasItsRoom \/ IsOther)

-----------------------------------------------------------------------------
(* The tones of a character are two for each of its marks.                 *)
LEMMA TonesOfCharacter ==
    ASSUME NEW r \in Representations
    PROVE  /\ MarksAndSpaces(r) \in Seq(TextSteps)
           /\ Len(MarksAndSpaces(r)) = 2 * Len(r)
<1>1. r \in Seq({"dot", "dash"})
  BY QueueAssumption
<1>2. Len(r) \in Nat
  BY <1>1
<1>3. DEFINE n == 2 * Len(r)
<1>4. n \in Nat
  BY <1>2
<1>5. MarksAndSpaces(r) \in [1..n -> TextSteps]
  BY DEF MarksAndSpaces, TextSteps
<1> QED
  BY <1>4, <1>5

(* A character finds room for all of its tones below the high water mark,  *)
(* and for the space after it.                                             *)
LEMMA CharacterFindsRoom ==
    ASSUME Typed, HasRoom,
           NEW r \in Representations, NEW last \in {<<>>, <<"ics">>},
           steps' = MarksAndSpaces(r) \o last, UNCHANGED items
    PROVE  HasItsRoom'
<1>1. /\ MarksAndSpaces(r) \in Seq(TextSteps)
      /\ Len(MarksAndSpaces(r)) = 2 * Len(r)
  BY TonesOfCharacter
<1>2. last \in Seq(TextSteps) /\ Len(last) \in {0, 1}
  <2>1. CASE last = <<>>
    BY <2>1
  <2>2. CASE last = <<"ics">>
    BY <2>2 DEF TextSteps
  <2> QED
    BY <2>1, <2>2
<1>3. /\ steps' \in Seq(TextSteps)
      /\ Len(steps') = 2 * Len(r) + Len(last)
  BY <1>1, <1>2, ConcatProperties
<1>4. Len(items) \in Nat /\ Len(items) < HighWaterMark /\ Len(r) \in Nat
  BY QueueAssumption DEF Typed, HasRoom
<1>5. 2 * Len(r) =< Capacity - HighWaterMark
  BY QueueAssumption
<1>6. Len(items) + Len(steps') =< Capacity
  <2>1. Len(items) + Len(steps') =< Len(items) + 2 * Len(r) + 1
    BY <1>2, <1>3, <1>4, SMTT(30)
  <2>2. Capacity \in Nat /\ HighWaterMark \in Nat
    BY QueueAssumption
  <2> QED
    BY <2>1, <2>2, <1>2, <1>3, <1>4, <1>5
<1> QED
  BY <1>3, <1>6 DEF HasItsRoom

(* The first steps of an inter-word-space, of a key event and of a flush   *)
(* are no steps of a character.                                            *)
LEMMA OtherSteps ==
    /\ IwsParts \in Seq({"half", "adjust"})
    /\ KeyUpSteps \in Seq({"quantum", "falling", "rest"})
<1>1. IwsParts \in {<<"half", "half">>, <<"half", "half", "adjust">>}
  BY DEF IwsParts
<1>2. KeyUpSteps \in {<<"quantum">>, <<"falling", "rest">>}
  BY DEF KeyUpSteps
<1>3. /\ <<"half", "half">> \in Seq({"half", "adjust"})
      /\ <<"half", "half", "adjust">> \in Seq({"half", "adjust"})
  OBVIOUS
<1>4. /\ <<"quantum">> \in Seq({"quantum", "falling", "rest"})
      /\ <<"falling", "rest">> \in Seq({"quantum", "falling", "rest"})
  OBVIOUS
<1> QED
  BY <1>1, <1>2, <1>3, <1>4

LEMMA BeginSpaceIsOther ==
    ASSUME BeginSpace
    PROVE  steps' \in Seq(AllSteps) /\ IsOther'
<1>1. steps' \in Seq({"half", "adjust"})
  BY OtherSteps DEF BeginSpace
<1>2. steps' \in Seq(AllSteps)
  BY <1>1 DEF AllSteps, Spaces
<1>3. \A i \in DOMAIN steps' : steps'[i] \in {"half", "adjust"}
  BY <1>1
<1> QED
  BY <1>2, <1>3 DEF IsOther, TextSteps

-----------------------------------------------------------------------------
LEMMA InitIInv == Init => IInv
<1> SUFFICES ASSUME Init PROVE IInv
  OBVIOUS
<1>1. Typed
  BY QueueAssumption DEF Init, Typed
<1>2. IsOther
  BY DEF Init, IsOther
<1> QED
  BY <1>1, <1>2 DEF IInv

(* The calls of the client keep the invariant.                             *)
LEMMA CallsKeepIInv ==
    ASSUME IInv,
           \/ \E r \in Representations, last \in {<<>>, <<"ics">>} : SendCharacter(r, last)
           \/ SendSpace
           \/ \E string \in Strings : SendString(string)
           \/ \E value \in BOOLEAN : SetKey(value)
           \/ RemoveLastCharacter \/ FlushQueue \/ ResetKey
    PROVE  IInv'
<1> USE DEF IInv
<1>1. ASSUME NEW r \in Representations, NEW last \in {<<>>, <<"ics">>}, SendCharacter(r, last)
      PROVE  IInv'
  <2>1. HasItsRoom'
    BY <1>1, CharacterFindsRoom DEF SendCharacter
  <2>2. Seq(TextSteps) \subseteq Seq(AllSteps)
    BY DEF TextSteps, AllSteps, Marks, Spaces
  <2> QED
    BY <1>1, <2>1, <2>2 DEF SendCharacter, HasItsRoom, Typed
<1>2. ASSUME SendSpace PROVE IInv'
  <2>1. steps' \in Seq(AllSteps) /\ IsOther'
    BY <1>2, BeginSpaceIsOther DEF SendSpace
  <2> QED
    BY <1>2, <2>1 DEF SendSpace, BeginSpace, Typed
<1>3. ASSUME NEW string \in Strings, SendString(string) PROVE IInv'
  BY <1>3, StringsAssumption DEF SendString, Typed, HasItsRoom, IsOther
<1>4. ASSUME NEW value \in BOOLEAN, SetKey(value) PROVE IInv'
  <2>1. steps' \in Seq({"rising", "hold", "quantum", "falling", "rest"})
    <3>1. steps' \in {<<"rising", "hold">>, KeyUpSteps}
      BY <1>4 DEF SetKey
    <3>2. <<"rising", "hold">> \in Seq({"rising", "hold", "quantum", "falling", "rest"})
      OBVIOUS
    <3>3. KeyUpSteps \in Seq({"rising", "hold", "quantum", "falling", "rest"})
      BY OtherSteps
    <3> QED
      BY <3>1, <3>2, <3>3
  <2>2. steps' \in Seq(AllSteps)
    BY <2>1 DEF AllSteps, Marks, Spaces
  <2>3. \A i \in DOMAIN steps' : steps'[i] \in {"rising", "hold", "quantum", "falling", "rest"}
    BY <2>1
  <2>4. IsOther'
    BY <2>3 DEF IsOther, TextSteps
  <2> QED
    BY <1>4, <2>2, <2>4 DEF SetKey, Typed
<1>5. ASSUME RemoveLastCharacter PROVE IInv'
  <2>1. PICK i \in DOMAIN items : items' = SubSeq(items, 1, i - 1)
    BY <1>5 DEF RemoveLastCharacter
  <2>2. items' \in Seq(Tones) /\ Len(items') =< Len(items) /\ Len(items) \in Nat
    BY <2>1 DEF Typed
  <2>3. steps = <<>> /\ UNCHANGED <<steps, text>>
    BY <1>5 DEF RemoveLastCharacter, IsFree, call
  <2>4. Len(items') =< Capacity
    BY <2>2, QueueAssumption DEF Typed
  <2> QED
    BY <2>2, <2>3, <2>4 DEF Typed, IsOther
<1>6. ASSUME FlushQueue \/ ResetKey PROVE IInv'
  <2>1. steps' = <<"quantum", "wait">> /\ items' = <<>> /\ UNCHANGED text
    BY <1>6 DEF FlushQueue, ResetKey, Silenced
  <2>2. IsOther'
    BY <2>1 DEF IsOther, TextSteps
  <2>3. Typed'
    BY <2>1, QueueAssumption DEF Typed, AllSteps, Spaces
  <2> QED
    BY <2>2, <2>3
<1> QED
  BY <1>1, <1>2, <1>3, <1>4, <1>5, <1>6

(* So do the steps inside of a call.                                       *)
LEMMA StepsKeepIInv ==
    ASSUME IInv, NextOfString \/ Enqueue \/ EnqueueFails \/ WaitForSilence
    PROVE  IInv'
<1> USE DEF IInv
<1>1. ASSUME NextOfString PROVE IInv'
  <2>1. /\ text # <<>> /\ UNCHANGED items
        /\ Head(text) \in Representations \union {Blank}
        /\ Tail(text) \in Seq(Representations \union {Blank})
        /\ text' \in Seq(Representations \union {Blank})
    <3>1. text \in Seq(Representations \union {Blank}) /\ text # <<>>
      BY <1>1 DEF NextOfString, Typed
    <3>2. /\ Head(text) \in Representations \union {Blank}
          /\ Tail(text) \in Seq(Representations \union {Blank})
      BY <3>1, HeadTailProperties
    <3>3. UNCHANGED items /\ text' \in {Tail(text), <<>>}
      BY <1>1 DEF NextOfString, BeginSpace
    <3>4. <<>> \in Seq(Representations \union {Blank})
      BY EmptySeq
    <3>5. text' \in Seq(Representations \union {Blank})
      BY <3>2, <3>3, <3>4, Zenon
    <3> QED
      BY <3>1, <3>2, <3>3, <3>5, Zenon
  <2>2. CASE BeginSpace
    BY <2>1, <2>2, BeginSpaceIsOther DEF Typed
  <2>3. CASE Head(text) # Blank /\ HasRoom /\ steps' = Append(MarksAndSpaces(Head(text)), "ics")
    <3>1. Head(text) \in Representations
      BY <2>1, <2>3
    <3>2. MarksAndSpaces(Head(text)) \in Seq(TextSteps)
      BY <3>1, TonesOfCharacter
    <3>3. steps' = MarksAndSpaces(Head(text)) \o <<"ics">>
      BY <2>3, <3>2
    <3>4. HasItsRoom'
      BY <2>1, <2>3, <3>1, <3>3, CharacterFindsRoom
    <3>5. Seq(TextSteps) \subseteq Seq(AllSteps)
      BY DEF TextSteps, AllSteps, Marks, Spaces
    <3> QED
      BY <2>1, <3>4, <3>5 DEF HasItsRoom, Typed
  <2>4. CASE UNCHANGED <<items, steps>>
    BY <2>1, <2>4 DEF Typed, HasItsRoom, IsOther
  <2> QED
    BY <1>1, <2>2, <2>3, <2>4 DEF NextOfString
<1>2. ASSUME Enqueue PROVE IInv'
  <2>1. /\ steps # <<>> /\ Len(items) < Capacity
        /\ steps' = Tail(steps) /\ UNCHANGED text
        /\ items' = Append(items, Tone(Head(steps)))
    BY <1>2 DEF Enqueue, Enqueues
  <2>2. Tone(Head(steps)) \in Tones
    BY DEF Tone, Tones
  <2>3. /\ items' \in Seq(Tones) /\ Len(items') = Len(items) + 1
        /\ steps' \in Seq(AllSteps) /\ Len(steps') = Len(steps) - 1
        /\ Len(items) \in Nat /\ Len(steps) \in Nat \ {0}
    BY <2>1, <2>2 DEF Typed
  <2>4. Typed'
    BY <2>1, <2>3, QueueAssumption DEF Typed
  <2>5. CASE HasItsRoom
    <3>1. steps' \in Seq(TextSteps)
      BY <2>1, <2>5, HeadTailProperties DEF HasItsRoom
    <3>2. Len(items') + Len(steps') = Len(items) + Len(steps)
      BY <2>3
    <3> QED
      BY <2>4, <2>5, <3>1, <3>2 DEF HasItsRoom
  <2>6. CASE IsOther
    <3>1. \A i \in DOMAIN steps' : i + 1 \in DOMAIN steps /\ steps'[i] = steps[i + 1]
      BY <2>1, <2>3 DEF Typed
    <3> QED
      BY <2>4, <2>6, <3>1 DEF IsOther
  <2> QED
    BY <2>5, <2>6
<1>3. ASSUME EnqueueFails PROVE IInv'
  <2>1. /\ steps # <<>> /\ steps' \in {Tail(steps), <<>>} /\ text' = <<>> /\ UNCHANGED items
    BY <1>3 DEF EnqueueFails, Enqueues
  <2>2. steps' \in Seq(AllSteps) /\ Len(steps') \in Nat /\ Len(steps') =< Len(steps)
    <3>1. steps \in Seq(AllSteps)
      BY DEF Typed
    <3>2. Tail(steps) \in Seq(AllSteps) /\ Len(Tail(steps)) = Len(steps) - 1
      BY <2>1, <3>1, HeadTailProperties
    <3>3. Len(steps) \in Nat \ {0} /\ <<>> \in Seq(AllSteps) /\ Len(<<>>) = 0
      BY <2>1, <3>1
    <3>4. CASE steps' = Tail(steps)
      BY <3>2, <3>3, <3>4
    <3>5. CASE steps' = <<>>
      BY <3>3, <3>5
    <3> QED
      BY <2>1, <3>4, <3>5
  <2>3. Typed'
    BY <2>1, <2>2 DEF Typed
  <2>4. CASE HasItsRoom
    <3>1. Tail(steps) \in Seq(TextSteps) /\ <<>> \in Seq(TextSteps)
      BY <2>1, <2>4, HeadTailProperties, EmptySeq DEF HasItsRoom
    <3>3. steps' \in Seq(TextSteps)
      BY <2>1, <3>1, Zenon
    <3>2. Len(items) \in Nat /\ Len(steps) \in Nat /\ Capacity \in Nat
      BY QueueAssumption DEF Typed
    <3> QED
      BY <2>1, <2>2, <2>3, <2>4, <3>2, <3>3 DEF HasItsRoom
  <2>5. CASE IsOther
    <3>1. CASE steps' = <<>>
      BY <2>3, <3>1 DEF IsOther
    <3>2. CASE steps' = Tail(steps)
      <4>1. \A i \in DOMAIN steps' : i + 1 \in DOMAIN steps /\ steps'[i] = steps[i + 1]
        BY <2>1, <3>2 DEF Typed
      <4> QED
        BY <2>3, <2>5, <4>1 DEF IsOther
    <3> QED
      BY <2>1, <3>1, <3>2
  <2> QED
    BY <2>4, <2>5
<1>4. ASSUME WaitForSilence PROVE IInv'
  BY <1>4 DEF WaitForSilence, Typed, IsOther
<1> QED
  BY <1>1, <1>2, <1>3, <1>4

(* Parameters are no part of the invariant, and the generator only takes   *)
(* tones out.                                                              *)
LEMMA OthersKeepIInv ==
    ASSUME IInv,
           \/ \E p \in {parameters'} : Tune(p)
           \/ Dequeue \/ FindEmpty \/ UNCHANGED vars
    PROVE  IInv'
<1> USE DEF IInv
<1>1. CASE UNCHANGED <<items, steps, text>>
  BY <1>1 DEF Typed, HasItsRoom, IsOther
<1>2. CASE Dequeue
  <2>1. UNCHANGED <<steps, text>> /\ items # <<>> /\ items' \in {items, Tail(items)}
    BY <1>2 DEF Dequeue, call
  <2>2. items' \in Seq(Tones) /\ Len(items') =< Len(items) /\ Len(items) \in Nat /\ Len(items') \in Nat
    <3>1. items \in Seq(Tones)
      BY DEF Typed
    <3>2. Tail(items) \in Seq(Tones) /\ Len(Tail(items)) = Len(items) - 1
      BY <2>1, <3>1, HeadTailProperties
    <3>3. Len(items) \in Nat \ {0}
      BY <2>1, <3>1
    <3> QED
      BY <2>1, <3>1, <3>2, <3>3
  <2>3. Typed'
    BY <2>1, <2>2, QueueAssumption DEF Typed
  <2>4. CASE HasItsRoom
    <3>1. Len(steps) \in Nat
      BY DEF Typed
    <3> QED
      BY <2>1, <2>2, <2>3, <2>4, <3>1, QueueAssumption DEF HasItsRoom
  <2>5. CASE IsOther
    BY <2>1, <2>3, <2>5 DEF IsOther
  <2> QED
    BY <2>4, <2>5
<1> QED
  BY <1>1, <1>2 DEF Tune, FindEmpty, vars, call

LEMMA NextIInv == IInv /\ [Next]_vars => IInv'
<1> SUFFICES ASSUME IInv, [Next]_vars PROVE IInv'
  OBVIOUS
<1>1. ASSUME NEW wpm \in Speeds, SetSpeed(wpm) PROVE Tune(parameters')
  BY <1>1 DEF SetSpeed, Tune
<1>2. ASSUME NEW percent \in Weightings, SetWeighting(percent) PROVE Tune(parameters')
  BY <1>2 DEF SetWeighting, Tune
<1>3. ASSUME NEW gap \in Gaps, SetGap(gap) PROVE Tune(parameters')
  BY <1>3 DEF SetGap, Tune
<1> QED
  BY <1>1, <1>2, <1>3, CallsKeepIInv, StepsKeepIInv, OthersKeepIInv DEF Next, Client

(* Every character that is not refused is enqueued to its last tone,       *)
(* whatever the generator, the straight key and the other calls do.        *)
THEOREM CharactersAlwaysWhole == Spec => []CharactersAreWhole
<1>1. IInv => CharactersAreWhole
  <2> SUFFICES ASSUME IInv, steps # <<>>, Head(steps) \in TextSteps
               PROVE  Len(items) + Len(steps) =< Capacity
    BY DEF CharactersAreWhole
  <2>1. 1 \in DOMAIN steps /\ Head(steps) = steps[1]
    BY DEF IInv, Typed
  <2> QED
    BY <2>1 DEF IInv, HasItsRoom, IsOther
<1> QED
  BY <1>1, InitIInv, NextIInv, PTL DEF Spec

-----------------------------------------------------------------------------
(* Parameters stay within the limits, as every setter checks its own.      *)
Limited ==
    parameters \in [speed : MinSpeed..MaxSpeed, weighting : MinWeighting..MaxWeighting, gap : Nat]

LEMMA SpecLimited == Spec => []Limited
<1>1. Init => Limited
  BY ParametersAssumption DEF Init, Limited
<1>2. Limited /\ [Next]_vars => Limited'
  <2> SUFFICES ASSUME Limited, [Next]_vars PROVE Limited'
    OBVIOUS
  <2>1. CASE UNCHANGED parameters
    BY <2>1 DEF Limited
  <2>2. ASSUME NEW wpm \in Speeds, SetSpeed(wpm) PROVE Limited'
    BY <2>2 DEF SetSpeed, Tune, Limited
  <2>3. ASSUME NEW percent \in Weightings, SetWeighting(percent) PROVE Limited'
    BY <2>3 DEF SetWeighting, Tune, Limited
  <2>4. ASSUME NEW gap \in Gaps, SetGap(gap) PROVE Limited'
    BY <2>4, ParametersAssumption DEF SetGap, Tune, Limited
  <2> QED
    BY <2>1, <2>2, <2>3, <2>4
    DEF Next, Client, vars, SendCharacter, SendSpace, BeginSpace, SendString, SetKey,
        RemoveLastCharacter, FlushQueue, ResetKey, Silenced, NextOfString, Enqueue, EnqueueFails,
        WaitForSilence, Dequeue, FindEmpty
<1> QED
  BY <1>1, <1>2, PTL DEF Spec

(* The weighting takes less than 61 hundredths of a unit from each mark,   *)
(* and what the spaces between the marks give in exchange is less than a   *)
(* unit.                                                                   *)
LEMMA WeightingIsBounded ==
    ASSUME NEW unit \in Nat \ {0}, NEW percent \in 20..80,
           NEW weighting, weighting = Quotient(2 * (percent - 50) * unit, 100),
           NEW w, w = Quotient(28 * weighting, 22)
    PROVE  /\ weighting \in Int /\ w \in Int
           /\ -unit < weighting
           /\ -unit < w /\ w < unit
<1>1. DEFINE n == 2 * (percent - 50) * unit
<1>2. n \in Int /\ -60 * unit =< n /\ n =< 60 * unit
  <2>1. DEFINE d == percent - 50
  <2>2. d \in -30..30
    OBVIOUS
  <2>3. (30 - d) * unit >= 0 /\ (30 + d) * unit >= 0
    BY <2>2
  <2>4. d * unit \in Int /\ n = 2 * (d * unit)
    BY <2>2
  <2> QED
    BY <2>2, <2>3, <2>4
<1>3. weighting = Quotient(n, 100)
  OBVIOUS
<1>. HIDE DEF n
<1>4. weighting \in Int /\ -60 * unit =< 100 * weighting /\ 100 * weighting =< 60 * unit
  BY <1>2, <1>3 DEF Quotient
<1>5. w \in Int /\ 22 * w =< 17 * unit /\ -17 * unit =< 22 * w
  BY <1>4 DEF Quotient
<1> QED
  BY <1>4, <1>5

LEMMA LimitedDurations ==
    ASSUME Limited
    PROVE  /\ DurationsArePositive
           /\ Now.dot \in Int /\ Now.ims \in Int /\ Now.ics \in Int /\ Now.iws \in Int
           /\ Now.additional \in Nat /\ Now.adjustment \in Nat
<1>1. DEFINE unit == DotCalibration \div parameters.speed
             weighting == Quotient(2 * (parameters.weighting - 50) * unit, 100)
             w == Quotient(28 * weighting, 22)
<1>2. unit \in Nat \ {0}
  <2>1. /\ parameters.speed \in Nat \ {0} /\ parameters.speed =< DotCalibration
        /\ DotCalibration \in Nat
    BY ParametersAssumption, LimitsAssumption DEF Limited
  <2> QED
    BY <2>1
<1>3. parameters.weighting \in 20..80 /\ parameters.gap \in Nat
  BY ParametersAssumption, LimitsAssumption DEF Limited
<1>4. /\ Now.dot = unit + weighting
      /\ Now.ims = unit - w /\ Now.ics = 3 * unit + w /\ Now.iws = 7 * unit - w
      /\ Now.additional = parameters.gap * unit
      /\ Now.adjustment = (7 * parameters.gap * unit) \div 3
  BY DEF Now, Durations
<1>5. /\ weighting \in Int /\ w \in Int
      /\ -unit < weighting
      /\ -unit < w /\ w < unit
  BY <1>2, <1>3, WeightingIsBounded
<1>. HIDE DEF unit, weighting, w
<1>6. parameters.gap * unit \in Nat /\ 7 * parameters.gap * unit \in Nat
  BY <1>2, <1>3
<1>7. (7 * parameters.gap * unit) \div 3 \in Nat
  BY <1>6
<1> QED
  BY <1>2, <1>4, <1>5, <1>6, <1>7 DEF DurationsArePositive

(* No speed, weighting and gap that the setters take make a duration       *)
(* negative, or a space shorter than a part of it.                         *)
THEOREM DurationsAlwaysPositive == Spec => []DurationsArePositive
  BY LimitedDurations, SpecLimited, PTL

-----------------------------------------------------------------------------
(* The silence that a call has still to enqueue is known at each of its    *)
(* steps, from the shape that the steps have.                              *)

(* A mark is followed by a space, and at the end by the one that ends a    *)
(* character.                                                              *)
Alternates(s) ==
    \A i \in 1..Len(s) :
        /\ s[i] \in TextSteps
        /\ s[i] \in {"first", "mark"} => i < Len(s) /\ s[i + 1] = "ims"
        /\ s[i] = "ims" /\ i < Len(s) => s[i + 1] \in {"mark", "ics"}
        /\ s[i] = "ics" => i = Len(s)

KeyShapes ==
    {<<"rising", "hold">>, <<"hold">>, <<"falling", "rest">>, <<"rest">>,
     <<"quantum">>, <<"quantum", "wait">>, <<"wait">>}

SpaceShapes ==
    IF Now.adjustment > 0
    THEN {<<"half", "half", "adjust">>, <<"half", "adjust">>, <<"adjust">>}
    ELSE {<<"half", "half">>, <<"half">>}

(* What the steps of an inter-word-space have left to add.                 *)
Pending(s, p) ==
    CASE s = <<"half", "half", "adjust">> -> 2 * p + Now.adjustment
      [] s = <<"half", "adjust">> -> p + Now.adjustment
      [] s = <<"adjust">> -> Now.adjustment
      [] s = <<"half", "half">> -> 2 * p
      [] s = <<"half">> -> p
      [] OTHER -> 0

(* A space, but for the microsecond that its halves may lose.              *)
IsWordSpace(n) ==
    \E extra \in {0, Now.additional}, halves \in {0, 1} :
        n + halves = Now.iws + extra + Now.adjustment

HasShape(s) ==
    \/ s = <<>>
    \/ Alternates(s) /\ s # <<>>
    \/ s \in KeyShapes
    \/ s \in SpaceShapes

(* The counter c agrees with n, the silence since the last mark.           *)
IsCounted(call_for, n, c, s, p) ==
    /\ call_for = "no_ics" => (n = 0 /\ c = 0) \/ (n = Now.ims /\ c = 1)
    /\ call_for = "character" => n = Now.ics + Now.additional /\ c = 3
    /\ call_for = "space" => IsWordSpace(n + Pending(s, p))

(* A space follows a mark of its own call.                                 *)
FollowsMark(call_for, n, c, s) ==
    /\ s # <<>> /\ s[1] = "ims" => call_for = "no_ics" /\ n = 0 /\ c = 0
    /\ s # <<>> /\ s[1] = "ics" => call_for = "no_ics" /\ n = Now.ims /\ c = 1
    /\ s = <<"rest">> => call_for = "no_ics" /\ n = 0 /\ c = 0
    /\ s \in SpaceShapes => call_for \in {"space", "unknown"}

SilenceTyped ==
    /\ told \in {"character", "no_ics", "space", "unknown"}
    /\ silence \in Int /\ part \in Int /\ count \in {0, 1, 3}
    /\ current \in Tones \union {"none"} /\ key \in BOOLEAN

SpaceInv ==
    /\ SilenceTyped
    /\ HasShape(steps)
    /\ IsCounted(told, silence, count, steps, part)
    /\ FollowsMark(told, silence, count, steps)

(* What the steps of the three kinds are made of.                          *)
LEMMA PendingOfShapes ==
    ASSUME NEW p
    PROVE  /\ Pending(<<"half", "half", "adjust">>, p) = 2 * p + Now.adjustment
           /\ Pending(<<"half", "adjust">>, p) = p + Now.adjustment
           /\ Pending(<<"adjust">>, p) = Now.adjustment
           /\ Pending(<<"half", "half">>, p) = 2 * p
           /\ Pending(<<"half">>, p) = p
           /\ Pending(<<>>, p) = 0
  BY DEF Pending

LEMMA PendingOfOthers ==
    ASSUME NEW p, NEW s, s # <<>>, s[1] \notin {"half", "adjust"}
    PROVE  Pending(s, p) = 0 /\ s \notin SpaceShapes
  BY DEF Pending, SpaceShapes

LEMMA ShapesOfText ==
    ASSUME NEW s \in Seq(AllSteps), s # <<>>, Alternates(s)
    PROVE  /\ Head(s) \in TextSteps /\ s[1] = Head(s)
           /\ Alternates(Tail(s)) /\ Tail(s) \in Seq(AllSteps)
           /\ Head(s) \in {"first", "mark"} => Tail(s) # <<>> /\ Head(Tail(s)) = "ims"
           /\ Head(s) = "ims" => Tail(s) = <<>> \/ Head(Tail(s)) \in {"mark", "ics"}
           /\ Head(s) = "ics" => Tail(s) = <<>>
<1>1. Len(s) \in Nat \ {0} /\ Head(s) = s[1] /\ 1 \in 1..Len(s)
  OBVIOUS
<1>2. /\ Tail(s) \in Seq(AllSteps) /\ Len(Tail(s)) = Len(s) - 1
      /\ \A i \in 1..Len(s) - 1 : Tail(s)[i] = s[i + 1]
  OBVIOUS
<1>3. Alternates(Tail(s))
  <2> SUFFICES ASSUME NEW i \in 1..Len(s) - 1
               PROVE  /\ Tail(s)[i] \in TextSteps
                      /\ Tail(s)[i] \in {"first", "mark"}
                           => i < Len(s) - 1 /\ Tail(s)[i + 1] = "ims"
                      /\ Tail(s)[i] = "ims" /\ i < Len(s) - 1
                           => Tail(s)[i + 1] \in {"mark", "ics"}
                      /\ Tail(s)[i] = "ics" => i = Len(s) - 1
    BY <1>1, <1>2 DEF Alternates
  <2>1. i + 1 \in 1..Len(s) /\ Tail(s)[i] = s[i + 1]
    BY <1>1, <1>2
  <2>2. i < Len(s) - 1 => Tail(s)[i + 1] = s[(i + 1) + 1]
    BY <1>1, <1>2
  <2> QED
    BY <1>1, <2>1, <2>2 DEF Alternates
<1>. DEFINE t == Tail(s)
<1>4. ASSUME Len(s) > 1 PROVE t # <<>> /\ Head(t) = s[1 + 1]
  <2>1. t \in Seq(AllSteps) /\ Len(t) > 0 /\ 1 \in 1..Len(s) - 1 /\ t[1] = s[1 + 1]
    BY <1>1, <1>2, <1>4
  <2>. HIDE DEF t
  <2> QED
    BY <2>1
<1>5. ASSUME Len(s) = 1 PROVE t = <<>>
  <2>1. t \in Seq(AllSteps) /\ Len(t) = 0
    BY <1>2, <1>5
  <2>. HIDE DEF t
  <2> QED
    BY <2>1
<1>. HIDE DEF t
<1>6. /\ s[1] \in TextSteps
      /\ s[1] \in {"first", "mark"} => 1 < Len(s) /\ s[1 + 1] = "ims"
      /\ s[1] = "ims" /\ 1 < Len(s) => s[1 + 1] \in {"mark", "ics"}
      /\ s[1] = "ics" => 1 = Len(s)
  BY <1>1 DEF Alternates
<1>7. Len(s) > 1 \/ Len(s) = 1
  <2>1. \A n \in Nat \ {0} : n > 1 \/ n = 1
    OBVIOUS
  <2> QED
    BY <1>1, <2>1
<1>8. /\ Head(s) \in {"first", "mark"} => t # <<>> /\ Head(t) = "ims"
      /\ Head(s) = "ims" => t = <<>> \/ Head(t) \in {"mark", "ics"}
      /\ Head(s) = "ics" => t = <<>>
  BY <1>1, <1>4, <1>5, <1>6, <1>7
<1> QED
  BY <1>1, <1>2, <1>3, <1>6, <1>8 DEF t

LEMMA CharacterAlternates ==
    ASSUME NEW r \in Representations, NEW last \in {<<>>, <<"ics">>}
    PROVE  /\ Alternates(MarksAndSpaces(r) \o last)
           /\ MarksAndSpaces(r) \o last # <<>>
           /\ (MarksAndSpaces(r) \o last)[1] = "first"
<1>. DEFINE n == 2 * Len(r)
            m == MarksAndSpaces(r)
            s == m \o last
<1>1. Len(r) \in Nat \ {0} /\ n \in Nat /\ n >= 2
  BY QueueAssumption
<1>2. /\ m \in Seq(TextSteps) /\ Len(m) = n
      /\ \A i \in 1..n : m[i] = IF i = 1 THEN "first" ELSE IF i % 2 = 1 THEN "mark" ELSE "ims"
  BY TonesOfCharacter DEF MarksAndSpaces
<1>3. last \in Seq({"ics"}) /\ Len(last) \in {0, 1} /\ (Len(last) = 1 => last[1] = "ics")
  <2>1. CASE last = <<>>
    BY <2>1
  <2>2. CASE last = <<"ics">>
    <3>1. <<"ics">> \in Seq({"ics"}) /\ Len(<<"ics">>) = 1 /\ <<"ics">>[1] = "ics"
      OBVIOUS
    <3> QED
      BY <2>2, <3>1
  <2> QED
    BY <2>1, <2>2
<1>4. n % 2 = 0
  BY <1>1
<1>. HIDE DEF n, m
<1>5. /\ s \in Seq(TextSteps) /\ Len(s) = n + Len(last)
      /\ \A i \in 1..n : s[i] = m[i]
      /\ Len(last) = 1 => s[n + 1] = "ics"
  <2>1. last \in Seq(TextSteps)
    BY <1>3 DEF TextSteps
  <2> QED
    BY <1>1, <1>2, <1>3, <2>1
<1>. HIDE DEF s
<1>6. ASSUME NEW i \in 1..Len(s)
      PROVE  /\ s[i] \in TextSteps
             /\ s[i] \in {"first", "mark"} => i < Len(s) /\ s[i + 1] = "ims"
             /\ s[i] = "ims" /\ i < Len(s) => s[i + 1] \in {"mark", "ics"}
             /\ s[i] = "ics" => i = Len(s)
  <2>1. CASE i < n
    <3>1. i \in 1..n /\ i + 1 \in 1..n /\ i + 1 # 1
      BY <1>1, <2>1
    <3>2. (i % 2 = 1 => (i + 1) % 2 # 1) /\ (i % 2 # 1 => (i + 1) % 2 = 1)
      BY <1>1
    <3>3. i = 1 => i % 2 = 1
      OBVIOUS
    <3>4. i < Len(s)
      BY <1>1, <1>3, <1>5, <2>1
    <3> QED
      BY <1>2, <1>5, <3>1, <3>2, <3>3, <3>4, SMTT(30) DEF TextSteps
  <2>2. CASE i = n
    <3>1. n \in 1..n /\ n # 1 /\ n % 2 # 1
      BY <1>1, <1>4
    <3>2. s[n] = "ims"
      BY <1>2, <1>5, <3>1
    <3>3. n < Len(s) => Len(last) = 1
      BY <1>1, <1>3, <1>5
    <3> QED
      BY <1>5, <2>2, <3>2, <3>3 DEF TextSteps
  <2>3. CASE i > n
    <3>1. i = n + 1 /\ Len(last) = 1
      <4>1. i \in Nat /\ i =< n + Len(last) /\ Len(last) \in {0, 1}
        BY <1>1, <1>3, <1>5
      <4>2. \A k \in Nat, l \in {0, 1} : k =< n + l /\ k > n => k = n + 1 /\ l = 1
        BY <1>1
      <4> QED
        BY <2>3, <4>1, <4>2
    <3> QED
      BY <1>1, <1>5, <3>1 DEF TextSteps
  <2> QED
    BY <1>1, <2>1, <2>2, <2>3
<1>7. Alternates(s)
  BY <1>6 DEF Alternates
<1>8. s[1] = "first" /\ s # <<>>
  BY <1>1, <1>2, <1>3, <1>5
<1> QED
  BY <1>7, <1>8 DEF s, m

(* As long as the parameters stay, so do the durations.                    *)
LEMMA SpaceInvPrimed ==
    ASSUME UNCHANGED parameters, SilenceTyped',
           HasShape(steps'), IsCounted(told', silence', count', steps', part'),
           FollowsMark(told', silence', count', steps')
    PROVE  SpaceInv'
<1>1. Now' = Now
  BY DEF Now
<1> QED
  BY <1>1 DEF SpaceInv, HasShape, IsCounted, FollowsMark, IsWordSpace, Pending, SpaceShapes

(* The client forgets what it called for: nothing is claimed any more.     *)
LEMMA ForgottenInv ==
    ASSUME SilenceTyped', told' = "unknown",
           \/ steps' = <<>>
           \/ steps' \in {<<"hold">>, <<"quantum", "wait">>}
    PROVE  SpaceInv'
<1>1. HasShape(steps)'
  BY DEF HasShape, KeyShapes
<1>2. IsCounted(told, silence, count, steps, part)'
  BY DEF IsCounted
<1>3. FollowsMark(told, silence, count, steps)'
  <2>1. CASE steps' = <<>>
    BY <2>1 DEF FollowsMark, SpaceShapes
  <2>2. CASE steps' \in {<<"hold">>, <<"quantum", "wait">>}
    <3>1. steps' # <<>> /\ steps'[1] \in {"hold", "quantum"}
      BY <2>2
    <3>2. steps' # <<"rest">>
      BY <3>1
    <3>3. \A s \in SpaceShapes' : s[1] \in {"half", "adjust"}
      BY DEF SpaceShapes
    <3> QED
      BY <3>1, <3>2, <3>3 DEF FollowsMark
  <2> QED
    BY <2>1, <2>2
<1> QED
  BY <1>1, <1>2, <1>3 DEF SpaceInv

(* Steps that begin with a mark, a tone of the key or a quantum of silence *)
(* leave the counter and the silence to what they are.                     *)
LEMMA OpeningInv ==
    ASSUME SpaceInv, steps = <<>>, UNCHANGED <<parameters, silence, told, count, part, current>>,
           key' \in BOOLEAN,
           HasShape(steps'),
           steps' # <<>> => steps'[1] \in {"first", "rising", "falling", "quantum"}
    PROVE  SpaceInv'
<1>1. SilenceTyped'
  BY DEF SpaceInv, SilenceTyped
<1>2. Pending(steps', part') = Pending(steps, part) /\ steps' \notin SpaceShapes
  <2>1. CASE steps' = <<>>
    <3>1. <<>> \notin SpaceShapes
      BY DEF SpaceShapes
    <3> QED
      BY <2>1, <3>1
  <2>2. CASE steps' # <<>>
    <3>1. Pending(steps', part') = 0 /\ steps' \notin SpaceShapes
      BY <2>2, PendingOfOthers
    <3> QED
      BY <3>1, PendingOfShapes
  <2> QED
    BY <2>1, <2>2
<1>3. IsCounted(told', silence', count', steps', part')
  BY <1>2 DEF SpaceInv, IsCounted
<1>4. FollowsMark(told', silence', count', steps')
  BY <1>2 DEF FollowsMark
<1> QED
  BY <1>1, <1>3, <1>4, SpaceInvPrimed

(* What a space has to add is what the counter has left of it.             *)
LEMMA SpaceBeginsInv ==
    ASSUME Limited, SpaceInv, SpaceBegins
    PROVE  SpaceInv'
<1>. DEFINE p == RestOfIws \div 2
<1>1. /\ steps = <<>> /\ steps' = IwsParts /\ part' = p
      /\ UNCHANGED <<current, count, key, parameters>>
      /\ told' = (IF told \in {"character", "no_ics"} THEN "space" ELSE "unknown")
      /\ silence' = (IF told' = "space" THEN silence ELSE 0)
  BY DEF SpaceBegins, SendSpace, NextOfString, BeginSpace, IsFree
<1>2. /\ Now.ims \in Int /\ Now.ics \in Int /\ Now.iws \in Int
      /\ 0 < Now.ims /\ Now.ims < Now.ics /\ Now.ics < Now.iws
      /\ Now.additional \in Nat /\ Now.adjustment \in Nat
  BY LimitedDurations DEF DurationsArePositive
<1>3. /\ count = 0 => RestOfIws = Now.iws
      /\ count = 1 => RestOfIws = Now.iws - Now.ims
      /\ count = 3 => RestOfIws = Now.iws - Now.ics
  BY <1>2 DEF RestOfIws, FailSafe
<1>4. RestOfIws \in Int /\ p \in Int /\ (2 * p = RestOfIws \/ 2 * p + 1 = RestOfIws)
  <2>1. RestOfIws \in Int
    BY <1>2, <1>3 DEF SpaceInv, SilenceTyped
  <2> QED
    BY <2>1
<1>. HIDE DEF p
<1>5. steps' \in SpaceShapes /\ Pending(steps', p) = 2 * p + Now.adjustment
  BY <1>1, <1>2, <1>4, PendingOfShapes DEF IwsParts, SpaceShapes
<1>6. ASSUME told' = "space" PROVE IsWordSpace(silence' + Pending(steps', part'))
  <2>1. told \in {"character", "no_ics"} /\ silence' = silence
    BY <1>1, <1>6
  <2>2. PICK extra \in {0, Now.additional} : silence + RestOfIws = Now.iws + extra
    <3>1. CASE told = "no_ics" /\ silence = 0 /\ count = 0
      BY <1>2, <1>3, <3>1
    <3>2. CASE told = "no_ics" /\ silence = Now.ims /\ count = 1
      BY <1>2, <1>3, <3>2
    <3>3. CASE told = "character"
      <4>1. silence = Now.ics + Now.additional /\ count = 3
        BY <3>3 DEF SpaceInv, IsCounted
      <4> QED
        BY <1>2, <1>3, <4>1
    <3> QED
      BY <2>1, <3>1, <3>2, <3>3 DEF SpaceInv, IsCounted
  <2>3. silence \in Int
    BY DEF SpaceInv, SilenceTyped
  <2>4. \E halves \in {0, 1} :
           silence + (2 * p + Now.adjustment) + halves = Now.iws + extra + Now.adjustment
    BY <1>2, <1>4, <2>2, <2>3
  <2> QED
    BY <1>1, <1>5, <2>1, <2>4 DEF IsWordSpace
<1>7. SilenceTyped'
  BY <1>1, <1>4 DEF SpaceInv, SilenceTyped
<1>8. IsCounted(told', silence', count', steps', part')
  BY <1>1, <1>6 DEF IsCounted
<1>9. FollowsMark(told', silence', count', steps')
  <2>1. steps' # <<>> /\ steps'[1] \in {"half", "adjust"}
    BY <1>5 DEF SpaceShapes
  <2>2. told' \in {"space", "unknown"}
    BY <1>1
  <2>3. steps' # <<"rest">>
    BY <2>1
  <2> QED
    BY <2>1, <2>2, <2>3 DEF FollowsMark
<1> QED
  BY <1>1, <1>5, <1>7, <1>8, <1>9, SpaceInvPrimed DEF HasShape

(* A tone of a character: the silence starts over at a mark, and the       *)
(* spaces after it are counted.                                            *)
LEMMA TextToneInv ==
    ASSUME Limited, Typed, SpaceInv, ToneIsEnqueued, Alternates(steps)
    PROVE  SpaceInv'
<1>. DEFINE step == Head(steps)
<1>1. /\ steps # <<>> /\ steps \in Seq(AllSteps) /\ steps' = Tail(steps)
      /\ UNCHANGED <<current, key, parameters>>
      /\ count' = IF step = "half" /\ ~IsLastOfSpace THEN count ELSE Counted(step)
      /\ part' = IF IsLastOfSpace THEN 0 ELSE part
      /\ silence' = IF step \in Marks \/ told = "unknown" THEN 0 ELSE silence + Silence(step)
      /\ told' = CASE step \in Marks -> "no_ics"
                   [] step = "ics" -> "character"
                   [] step = "quantum" -> "unknown"
                   [] OTHER -> told
  BY DEF ToneIsEnqueued, Enqueue, Enqueues, Typed
<1>2. /\ step \in TextSteps /\ steps[1] = step
      /\ Alternates(steps')
      /\ step \in {"first", "mark"} => steps' # <<>> /\ Head(steps') = "ims"
      /\ step = "ims" => steps' = <<>> \/ Head(steps') \in {"mark", "ics"}
      /\ step = "ics" => steps' = <<>>
  BY <1>1, ShapesOfText
<1>3. ~IsLastOfSpace
  <2>1. steps # <<"half">>
    BY <1>2 DEF TextSteps
  <2> QED
    BY <1>2, <2>1 DEF IsLastOfSpace, TextSteps
<1>4. steps' \in Seq(AllSteps) /\ (steps' # <<>> => steps'[1] = Head(steps'))
  BY <1>1, <1>2
<1>5. /\ Now.ims \in Int /\ Now.ics \in Int
      /\ 0 < Now.ims /\ Now.ims < Now.ics /\ Now.additional \in Nat
  BY LimitedDurations DEF DurationsArePositive
<1>. HIDE DEF step
<1>6. part' = part /\ count' = Counted(step)
  BY <1>1, <1>2, <1>3 DEF TextSteps
<1>7. steps' \notin SpaceShapes /\ steps' # <<"rest">> /\ Pending(steps', part') = 0
  <2>1. CASE steps' = <<>>
    BY <2>1, PendingOfShapes DEF SpaceShapes
  <2>2. CASE steps' # <<>>
    <3>1. steps'[1] \in {"ims", "mark", "ics"}
      BY <1>2, <1>4, <2>2 DEF TextSteps
    <3> QED
      BY <2>2, <3>1, PendingOfOthers
  <2> QED
    BY <2>1, <2>2
<1>8. CASE step \in {"first", "mark"}
  <2>1. told' = "no_ics" /\ silence' = 0 /\ count' = 0
    BY <1>1, <1>6, <1>8 DEF Marks, Counted
  <2>2. steps'[1] = "ims"
    BY <1>2, <1>4, <1>8
  <2>3. SilenceTyped'
    BY <1>1, <1>6, <2>1 DEF SpaceInv, SilenceTyped
  <2>4. FollowsMark(told', silence', count', steps')
    BY <1>7, <2>1, <2>2 DEF FollowsMark
  <2>5. IsCounted(told', silence', count', steps', part')
    BY <2>1 DEF IsCounted
  <2> QED
    BY <1>1, <1>2, <2>3, <2>4, <2>5, SpaceInvPrimed DEF HasShape
<1>9. CASE step = "ims"
  <2>1. told = "no_ics" /\ silence = 0 /\ count = 0
    BY <1>1, <1>2, <1>9 DEF SpaceInv, FollowsMark
  <2>2. told' = "no_ics" /\ silence' = Now.ims /\ count' = 1
    <3>1. Silence(step) = Now.ims
      BY <1>9 DEF Silence
    <3>2. silence' = 0 + Now.ims
      BY <1>1, <1>9, <2>1, <3>1 DEF Marks
    <3> QED
      BY <1>1, <1>5, <1>6, <1>9, <2>1, <3>2 DEF Marks, Counted
  <2>3. SilenceTyped'
    BY <1>1, <1>5, <1>6, <2>2 DEF SpaceInv, SilenceTyped
  <2>4. FollowsMark(told', silence', count', steps')
    BY <1>2, <1>4, <1>7, <1>9, <2>2 DEF FollowsMark
  <2>5. IsCounted(told', silence', count', steps', part')
    BY <2>2 DEF IsCounted
  <2> QED
    BY <1>1, <1>2, <2>3, <2>4, <2>5, SpaceInvPrimed DEF HasShape
<1>10. CASE step = "ics"
  <2>1. told = "no_ics" /\ silence = Now.ims /\ count = 1
    BY <1>1, <1>2, <1>10 DEF SpaceInv, FollowsMark
  <2>2. told' = "character" /\ silence' = Now.ics + Now.additional /\ count' = 3
    <3>1. RestOfIcs = Now.ics - Now.ims
      BY <1>5, <2>1 DEF RestOfIcs, FailSafe
    <3>2. Silence(step) = Now.ics - Now.ims + Now.additional
      BY <1>10, <3>1 DEF Silence
    <3>3. silence' = Now.ims + (Now.ics - Now.ims + Now.additional)
      BY <1>1, <1>10, <2>1, <3>2 DEF Marks
    <3>4. silence' = Now.ics + Now.additional
      BY <1>5, <3>3
    <3> QED
      BY <1>1, <1>6, <1>10, <3>4 DEF Marks, Counted
  <2>3. SilenceTyped'
    BY <1>1, <1>5, <1>6, <2>2 DEF SpaceInv, SilenceTyped
  <2>4. FollowsMark(told', silence', count', steps')
    BY <1>2, <1>7, <1>10, <2>2 DEF FollowsMark
  <2>5. IsCounted(told', silence', count', steps', part')
    BY <2>2 DEF IsCounted
  <2> QED
    BY <1>1, <1>2, <2>3, <2>4, <2>5, SpaceInvPrimed DEF HasShape
<1> QED
  BY <1>2, <1>8, <1>9, <1>10 DEF TextSteps

(* A tone of the straight key, or a quantum of silence.                    *)
LEMMA KeyToneInv ==
    ASSUME SpaceInv, ToneIsEnqueued, steps \in KeyShapes
    PROVE  SpaceInv'
<1>. DEFINE step == Head(steps)
<1>1. /\ step # "wait" /\ steps' = Tail(steps)
      /\ UNCHANGED <<current, key, parameters>>
      /\ count' = IF step = "half" /\ ~IsLastOfSpace THEN count ELSE Counted(step)
      /\ part' = IF IsLastOfSpace THEN 0 ELSE part
      /\ silence' = IF step \in Marks \/ told = "unknown" THEN 0 ELSE silence + Silence(step)
      /\ told' = CASE step \in Marks -> "no_ics"
                   [] step = "ics" -> "character"
                   [] step = "quantum" -> "unknown"
                   [] OTHER -> told
  BY DEF ToneIsEnqueued, Enqueue, Enqueues
<1>2. steps = <<"wait">> => step = "wait"
  OBVIOUS
<1>3. /\ step \in {"rising", "hold", "falling", "rest", "quantum"}
      /\ ~IsLastOfSpace
      /\ steps' \in {<<>>, <<"hold">>, <<"rest">>, <<"wait">>}
      /\ steps' = <<"rest">> => step = "falling"
      /\ step = "rest" => steps = <<"rest">>
  <2>1. CASE steps = <<"rising", "hold">>
    BY <1>1, <2>1 DEF IsLastOfSpace
  <2>2. CASE steps = <<"hold">>
    BY <1>1, <2>2 DEF IsLastOfSpace
  <2>3. CASE steps = <<"falling", "rest">>
    BY <1>1, <2>3 DEF IsLastOfSpace
  <2>4. CASE steps = <<"rest">>
    BY <1>1, <2>4 DEF IsLastOfSpace
  <2>5. CASE steps = <<"quantum">>
    BY <1>1, <2>5 DEF IsLastOfSpace
  <2>6. CASE steps = <<"quantum", "wait">>
    BY <1>1, <2>6 DEF IsLastOfSpace
  <2> QED
    BY <1>1, <1>2, <2>1, <2>2, <2>3, <2>4, <2>5, <2>6 DEF KeyShapes
<1>. HIDE DEF step
<1>4. count' = 0 /\ part' = part
  BY <1>1, <1>3 DEF Counted
<1>5. /\ step \in {"rising", "hold", "falling"} => told' = "no_ics" /\ silence' = 0
      /\ step = "rest" => told' = "no_ics" /\ silence' = 0
      /\ step = "quantum" => told' = "unknown" /\ silence' \in Int
  <2>1. CASE step \in {"rising", "hold", "falling"}
    BY <1>1, <2>1 DEF Marks
  <2>2. CASE step = "rest"
    <3>1. told = "no_ics" /\ silence = 0
      BY <1>3, <2>2 DEF SpaceInv, FollowsMark
    <3>2. silence' = 0 + 0
      BY <1>1, <2>2, <3>1 DEF Marks, Silence
    <3> QED
      BY <1>1, <2>2, <3>1, <3>2 DEF Marks
  <2>3. CASE step = "quantum"
    <3>1. silence' \in {0, silence + 0} /\ silence \in Int
      BY <1>1, <2>3 DEF Marks, Silence, SpaceInv, SilenceTyped
    <3> QED
      BY <1>1, <2>3, <3>1 DEF Marks
  <2> QED
    BY <1>3, <2>1, <2>2, <2>3
<1>6. SilenceTyped'
  BY <1>1, <1>3, <1>4, <1>5 DEF SpaceInv, SilenceTyped
<1>7. IsCounted(told', silence', count', steps', part')
  BY <1>3, <1>4, <1>5 DEF IsCounted
<1>8. FollowsMark(told', silence', count', steps')
  <2>1. steps' \notin SpaceShapes
    BY <1>3 DEF SpaceShapes
  <2>2. steps' # <<>> => steps'[1] \notin {"ims", "ics"}
    BY <1>3
  <2> QED
    BY <1>3, <1>4, <1>5, <2>1, <2>2 DEF FollowsMark
<1>9. HasShape(steps')
  BY <1>3 DEF HasShape, KeyShapes
<1> QED
  BY <1>1, <1>6, <1>7, <1>8, <1>9, SpaceInvPrimed

LEMMA TailOfSpaceShape ==
    ASSUME NEW s \in SpaceShapes
    PROVE  /\ Tail(s) = <<>> \/ Tail(s) \in SpaceShapes
           /\ s # <<>> /\ s[1] \in {"half", "adjust"} /\ s # <<"rest">>
<1>1. ASSUME NEW x, NEW y, NEW z
      PROVE  /\ Tail(<<x, y, z>>) = <<y, z>> /\ Tail(<<x, y>>) = <<y>> /\ Tail(<<x>>) = <<>>
             /\ <<x, y, z>> # <<>> /\ <<x, y>> # <<>> /\ <<x>> # <<>>
             /\ <<x, y, z>>[1] = x /\ <<x, y>>[1] = x /\ <<x>>[1] = x
  OBVIOUS
<1>2. /\ <<"half">> # <<"rest">> /\ <<"adjust">> # <<"rest">>
      /\ <<"half", "half">> # <<"rest">> /\ <<"half", "adjust">> # <<"rest">>
      /\ <<"half", "half", "adjust">> # <<"rest">>
  OBVIOUS
<1>3. CASE Now.adjustment > 0
  <2>1. SpaceShapes = {<<"half", "half", "adjust">>, <<"half", "adjust">>, <<"adjust">>}
    BY <1>3 DEF SpaceShapes
  <2>2. CASE s = <<"half", "half", "adjust">>
    <3>1. Tail(s) = <<"half", "adjust">> /\ s[1] = "half" /\ s # <<>>
      BY <1>1, <2>2
    <3> QED
      BY <1>2, <2>1, <2>2, <3>1
  <2>3. CASE s = <<"half", "adjust">>
    <3>1. Tail(s) = <<"adjust">> /\ s[1] = "half" /\ s # <<>>
      BY <1>1, <2>3
    <3> QED
      BY <1>2, <2>1, <2>3, <3>1
  <2>4. CASE s = <<"adjust">>
    BY <1>1, <1>2, <2>4
  <2> QED
    BY <2>1, <2>2, <2>3, <2>4
<1>4. CASE ~(Now.adjustment > 0)
  <2>1. SpaceShapes = {<<"half", "half">>, <<"half">>}
    BY <1>4 DEF SpaceShapes
  <2>2. CASE s = <<"half", "half">>
    <3>1. Tail(s) = <<"half">> /\ s[1] = "half" /\ s # <<>>
      BY <1>1, <2>2
    <3> QED
      BY <1>2, <2>1, <2>2, <3>1
  <2>3. CASE s = <<"half">>
    BY <1>1, <1>2, <2>3
  <2> QED
    BY <2>1, <2>2, <2>3
<1> QED
  BY <1>3, <1>4

(* A part of an inter-word-space: what it adds is no longer pending.       *)
LEMMA SpaceToneInv ==
    ASSUME Limited, SpaceInv, ToneIsEnqueued, steps \in SpaceShapes
    PROVE  SpaceInv'
<1>. DEFINE step == Head(steps)
<1>1. /\ steps' = Tail(steps)
      /\ UNCHANGED <<current, key, parameters>>
      /\ count' = IF step = "half" /\ ~IsLastOfSpace THEN count ELSE Counted(step)
      /\ part' = IF IsLastOfSpace THEN 0 ELSE part
      /\ silence' = IF step \in Marks \/ told = "unknown" THEN 0 ELSE silence + Silence(step)
      /\ told' = CASE step \in Marks -> "no_ics"
                   [] step = "ics" -> "character"
                   [] step = "quantum" -> "unknown"
                   [] OTHER -> told
  BY DEF ToneIsEnqueued, Enqueue
<1>2. step \in {"half", "adjust"}
  BY DEF SpaceShapes
<1>3. steps' = <<>> \/ steps' \in SpaceShapes
  BY <1>1, TailOfSpaceShape
<1>4. Now.adjustment \in Nat /\ part \in Int /\ silence \in Int
  BY LimitedDurations DEF SpaceInv, SilenceTyped
<1>5. Silence(step) \in Int /\ Pending(steps, part) = Silence(step) + Pending(steps', part')
  <2>1. CASE steps = <<"half", "half", "adjust">>
    <3>1. step = "half" /\ ~IsLastOfSpace /\ steps' = <<"half", "adjust">>
      BY <1>1, <2>1 DEF IsLastOfSpace
    <3>2. Silence(step) = part /\ part' = part
      BY <1>1, <3>1 DEF Silence
    <3>3. 2 * part + Now.adjustment = part + (part + Now.adjustment)
      BY <1>4
    <3> QED
      BY <1>4, <2>1, <3>1, <3>2, <3>3, PendingOfShapes
  <2>2. CASE steps = <<"half", "adjust">>
    <3>1. step = "half" /\ ~IsLastOfSpace /\ steps' = <<"adjust">>
      BY <1>1, <2>2 DEF IsLastOfSpace
    <3>2. Silence(step) = part /\ part' = part
      BY <1>1, <3>1 DEF Silence
    <3> QED
      BY <1>4, <2>2, <3>1, <3>2, PendingOfShapes
  <2>3. CASE steps = <<"adjust">>
    <3>1. step = "adjust" /\ steps' = <<>>
      BY <1>1, <2>3
    <3>2. Silence(step) = Now.adjustment
      BY <3>1 DEF Silence
    <3>3. Now.adjustment = Now.adjustment + 0
      BY <1>4
    <3> QED
      BY <1>4, <2>3, <3>1, <3>2, <3>3, PendingOfShapes
  <2>4. CASE steps = <<"half", "half">>
    <3>1. step = "half" /\ ~IsLastOfSpace /\ steps' = <<"half">>
      BY <1>1, <2>4 DEF IsLastOfSpace
    <3>2. Silence(step) = part /\ part' = part
      BY <1>1, <3>1 DEF Silence
    <3>3. 2 * part = part + part
      BY <1>4
    <3> QED
      BY <1>4, <2>4, <3>1, <3>2, <3>3, PendingOfShapes
  <2>5. CASE steps = <<"half">>
    <3>1. step = "half" /\ steps' = <<>>
      BY <1>1, <2>5
    <3>2. Silence(step) = part
      BY <3>1 DEF Silence
    <3>3. part = part + 0
      BY <1>4
    <3> QED
      BY <1>4, <2>5, <3>1, <3>2, <3>3, PendingOfShapes
  <2> QED
    BY <2>1, <2>2, <2>3, <2>4, <2>5 DEF SpaceShapes
<1>. HIDE DEF step
<1>6. told \in {"space", "unknown"} /\ told' = told
  <2>1. told \in {"space", "unknown"}
    BY DEF SpaceInv, FollowsMark
  <2> QED
    BY <1>1, <1>2, <2>1 DEF Marks
<1>7. /\ told = "space" => silence' = silence + Silence(step)
      /\ told = "unknown" => silence' = 0
  BY <1>1, <1>2 DEF Marks
<1>8. /\ part' \in {0, part}
      /\ count' \in {0, count}
  BY <1>1, <1>2 DEF Counted
<1>9. SilenceTyped'
  <2>1. silence' \in Int
    BY <1>4, <1>5, <1>6, <1>7
  <2> QED
    BY <1>1, <1>4, <1>6, <1>8, <2>1 DEF SpaceInv, SilenceTyped
<1>10. ASSUME told' = "space" PROVE IsWordSpace(silence' + Pending(steps', part'))
  <2>1. IsWordSpace(silence + Pending(steps, part))
    BY <1>6, <1>10 DEF SpaceInv, IsCounted
  <2>2. Pending(steps', part') \in Int
    <3>1. part' \in Int
      BY <1>4, <1>8
    <3>2. 2 * part' + Now.adjustment \in Int /\ part' + Now.adjustment \in Int /\ 2 * part' \in Int
      BY <1>4, <3>1
    <3> QED
      BY <1>4, <3>1, <3>2 DEF Pending
  <2>3. silence + Pending(steps, part) = silence' + Pending(steps', part')
    <3>. DEFINE a == Silence(step)
                b == Pending(steps', part')
    <3>1. a \in Int /\ b \in Int /\ Pending(steps, part) = a + b /\ silence' = silence + a
      BY <1>5, <1>6, <1>7, <1>10, <2>2
    <3>. HIDE DEF a, b
    <3>2. silence + Pending(steps, part) = silence' + b
      BY <1>4, <3>1
    <3> QED
      BY <3>2 DEF b
  <2> QED
    BY <2>1, <2>3
<1>11. IsCounted(told', silence', count', steps', part')
  BY <1>6, <1>10 DEF IsCounted
<1>12. FollowsMark(told', silence', count', steps')
  <2>1. CASE steps' = <<>>
    BY <2>1 DEF FollowsMark, SpaceShapes
  <2>2. CASE steps' \in SpaceShapes
    <3>1. steps' # <<>> /\ steps'[1] \in {"half", "adjust"} /\ steps' # <<"rest">>
      BY <2>2, TailOfSpaceShape
    <3> QED
      BY <1>6, <2>2, <3>1 DEF FollowsMark
  <2> QED
    BY <1>3, <2>1, <2>2
<1> QED
  BY <1>1, <1>3, <1>9, <1>11, <1>12, SpaceInvPrimed DEF HasShape

-----------------------------------------------------------------------------
(* The steps of the history are those of the calls and of the generator.   *)
LEMMA HistoryStepIsStep == [HistoryNext]_historyVars => [Next]_vars
  BY DEF HistoryNext, CallForgets, CharacterIsRemoved, CallRemembers, SpaceBegins, ToneIsEnqueued,
         ToneIsLost, ToneIsDequeued, Next, Client, historyVars

LEMMA HistoryRefinesSpec == HistorySpec => Spec
  BY HistoryStepIsStep, PTL DEF HistorySpec, HistoryInit, Spec

LEMMA InitSpaceInv == HistoryInit => SpaceInv
<1> SUFFICES ASSUME HistoryInit PROVE SpaceInv
  OBVIOUS
<1>1. SilenceTyped
  <2>1. key \in BOOLEAN /\ current \in Tones \union {"none"}
    BY DEF HistoryInit, Init
  <2>2. silence \in Int /\ part \in Int /\ count \in {0, 1, 3} /\ told = "unknown"
    BY DEF HistoryInit, Init
  <2> QED
    BY <2>1, <2>2 DEF SilenceTyped
<1>2. HasShape(steps)
  BY DEF HistoryInit, Init, HasShape
<1>3. IsCounted(told, silence, count, steps, part)
  BY DEF HistoryInit, IsCounted
<1>4. FollowsMark(told, silence, count, steps)
  BY DEF HistoryInit, Init, FollowsMark, SpaceShapes
<1> QED
  BY <1>1, <1>2, <1>3, <1>4 DEF SpaceInv

(* The calls that the history forgets, and the tones that are lost.        *)
LEMMA ForgettingKeepsSpaceInv ==
    ASSUME Typed, SpaceInv, CallForgets \/ CharacterIsRemoved \/ ToneIsLost
    PROVE  SpaceInv'
<1>1. told' = "unknown" /\ silence' = 0
  BY DEF CallForgets, CharacterIsRemoved, ToneIsLost
<1>2. CASE CallForgets \/ CharacterIsRemoved
  <2>1. /\ steps' \in {<<>>, <<"quantum", "wait">>}
        /\ UNCHANGED <<current, count, part>> /\ key' \in {key, FALSE}
    <3>1. ASSUME NEW p, Tune(p)
          PROVE  steps' = <<>> /\ UNCHANGED <<current, count, part, key>>
      BY <3>1 DEF Tune, IsFree, call
    <3>2. ASSUME RemoveLastCharacter
          PROVE  steps' = <<>> /\ UNCHANGED <<current, count, part, key>>
      BY <3>2 DEF RemoveLastCharacter, IsFree, call
    <3>3. ASSUME FlushQueue \/ ResetKey
          PROVE  /\ steps' = <<"quantum", "wait">> /\ UNCHANGED <<current, count, part>>
                 /\ key' \in {key, FALSE}
      BY <3>3 DEF FlushQueue, ResetKey, Silenced
    <3>4. CASE \E wpm \in Speeds : SetSpeed(wpm)
      BY <3>1, <3>4 DEF SetSpeed
    <3>5. CASE \E percent \in Weightings : SetWeighting(percent)
      BY <3>1, <3>5 DEF SetWeighting
    <3>6. CASE \E gap \in Gaps : SetGap(gap)
      BY <3>1, <3>6 DEF SetGap
    <3> QED
      BY <1>2, <3>2, <3>3, <3>4, <3>5, <3>6 DEF CallForgets, CharacterIsRemoved
  <2>2. key' \in BOOLEAN
    <3>1. key \in BOOLEAN
      BY DEF SpaceInv, SilenceTyped
    <3> QED
      BY <2>1, <3>1, Zenon
  <2>3. SilenceTyped'
    BY <1>1, <2>1, <2>2 DEF SpaceInv, SilenceTyped
  <2> QED
    BY <1>1, <2>1, <2>3, ForgottenInv
<1>3. CASE ToneIsLost
  <2>1. /\ steps # <<>> /\ count' = Counted(Head(steps)) /\ part' = 0
        /\ steps' = IF Head(steps) = "rising" THEN Tail(steps) ELSE <<>>
        /\ UNCHANGED <<current, key>>
    BY <1>3 DEF ToneIsLost, EnqueueFails, Enqueues
  <2>2. count' \in {0, 1, 3}
    BY <2>1 DEF Counted
  <2>3. ASSUME Head(steps) = "rising" PROVE Tail(steps) = <<"hold">>
    <3>1. Head(steps) = steps[1] /\ 1 \in 1..Len(steps)
      BY <2>1 DEF Typed
    <3>2. ~Alternates(steps)
      BY <2>3, <3>1 DEF Alternates, TextSteps
    <3>3. steps \notin SpaceShapes
      BY <2>3, <3>1, TailOfSpaceShape
    <3>4. steps \in KeyShapes
      BY <2>1, <3>2, <3>3 DEF SpaceInv, HasShape
    <3>5. steps = <<"rising", "hold">>
      BY <2>3, <3>4 DEF KeyShapes
    <3> QED
      BY <3>5
  <2>4. steps' = <<>> \/ steps' = <<"hold">>
    BY <2>1, <2>3
  <2>5. SilenceTyped'
    BY <1>1, <2>1, <2>2 DEF SpaceInv, SilenceTyped
  <2> QED
    BY <1>1, <2>4, <2>5, ForgottenInv
<1> QED
  BY <1>2, <1>3

(* The calls that enqueue marks, and the wait for silence.                 *)
LEMMA RememberingKeepsSpaceInv ==
    ASSUME Typed, SpaceInv, CallRemembers
    PROVE  SpaceInv'
<1>1. UNCHANGED <<silence, told, count, part, current, parameters>> /\ key' \in BOOLEAN
  BY DEF CallRemembers, SendCharacter, SendString, NextOfString, BeginSpace, SetKey, WaitForSilence,
         SpaceInv, SilenceTyped
<1>2. ASSUME NEW r \in Representations, NEW last \in {<<>>, <<"ics">>},
             steps = <<>>, steps' = MarksAndSpaces(r) \o last
      PROVE  SpaceInv'
  <2>1. Alternates(steps') /\ steps' # <<>> /\ steps'[1] = "first"
    BY <1>2, CharacterAlternates
  <2> QED
    BY <1>1, <1>2, <2>1, OpeningInv DEF HasShape
<1>3. CASE \E r \in Representations, last \in {<<>>, <<"ics">>} : SendCharacter(r, last)
  BY <1>2, <1>3 DEF SendCharacter, IsFree
<1>4. CASE \E string \in Strings : SendString(string)
  <2>1. steps = <<>> /\ steps' = <<>>
    BY <1>4 DEF SendString, IsFree
  <2> QED
    BY <1>1, <2>1, OpeningInv DEF HasShape
<1>5. CASE NextOfString /\ Head(text) # Blank
  <2>1. steps = <<>> /\ text # <<>>
    BY <1>5 DEF NextOfString
  <2>2. Head(text) \in Representations
    <3>1. Head(text) \in Representations \union {Blank}
      BY <2>1, HeadTailProperties DEF Typed
    <3> QED
      BY <1>5, <3>1
  <2>3. CASE steps' = Append(MarksAndSpaces(Head(text)), "ics")
    <3>1. MarksAndSpaces(Head(text)) \in Seq(TextSteps)
      BY <2>2, TonesOfCharacter
    <3>2. steps' = MarksAndSpaces(Head(text)) \o <<"ics">>
      BY <2>3, <3>1
    <3> QED
      BY <1>2, <2>1, <2>2, <3>2
  <2>4. CASE steps' = steps
    BY <1>1, <2>1, <2>4, OpeningInv DEF HasShape
  <2> QED
    BY <1>5, <2>3, <2>4 DEF NextOfString
<1>6. CASE \E value \in BOOLEAN : SetKey(value)
  <2>1. steps = <<>> /\ steps' \in {<<"rising", "hold">>, <<"quantum">>, <<"falling", "rest">>}
    BY <1>6 DEF SetKey, KeyUpSteps, IsFree
  <2>2. HasShape(steps') /\ steps'[1] \in {"rising", "falling", "quantum"}
    BY <2>1 DEF HasShape, KeyShapes
  <2> QED
    BY <1>1, <2>1, <2>2, OpeningInv
<1>7. CASE WaitForSilence
  <2>1. steps = <<"wait">> /\ steps' = <<>>
    BY <1>7 DEF WaitForSilence
  <2>2. Pending(steps, part) = 0
    <3>1. <<"wait">> # <<>> /\ <<"wait">>[1] = "wait"
      OBVIOUS
    <3> QED
      BY <2>1, <3>1, PendingOfOthers
  <2>3. Pending(steps', part') = 0
    BY <2>1, PendingOfShapes
  <2>4. IsCounted(told', silence', count', steps', part')
    BY <1>1, <2>2, <2>3 DEF SpaceInv, IsCounted
  <2>5. FollowsMark(told', silence', count', steps')
    BY <2>1 DEF FollowsMark, SpaceShapes
  <2>6. SilenceTyped'
    BY <1>1 DEF SpaceInv, SilenceTyped
  <2> QED
    BY <1>1, <2>1, <2>4, <2>5, <2>6, SpaceInvPrimed DEF HasShape
<1> QED
  BY <1>3, <1>4, <1>5, <1>6, <1>7 DEF CallRemembers

LEMMA NextSpaceInv == IInv /\ Limited /\ SpaceInv /\ [HistoryNext]_historyVars => SpaceInv'
<1> SUFFICES ASSUME IInv, Limited, SpaceInv, [HistoryNext]_historyVars PROVE SpaceInv'
  OBVIOUS
<1>1. Typed
  BY DEF IInv
<1>2. CASE ToneIsEnqueued
  <2>1. steps # <<>>
    BY <1>2 DEF ToneIsEnqueued, Enqueue, Enqueues
  <2> QED
    BY <1>1, <1>2, <2>1, TextToneInv, KeyToneInv, SpaceToneInv DEF SpaceInv, HasShape
<1>3. CASE ToneIsDequeued \/ UNCHANGED historyVars
  <2>1. /\ UNCHANGED <<parameters, silence, told, count, steps, part, key>>
        /\ current' \in Tones \union {"none"}
    <3>1. CASE ToneIsDequeued
      <4>1. items # <<>> => Head(items) \in Tones
        BY <1>1, HeadTailProperties DEF Typed
      <4> QED
        BY <3>1, <4>1 DEF ToneIsDequeued, Dequeue, FindEmpty, call
    <3>2. CASE UNCHANGED historyVars
      BY <3>2 DEF historyVars, vars, call, SpaceInv, SilenceTyped
    <3> QED
      BY <1>3, <3>1, <3>2
  <2>2. SilenceTyped'
    BY <2>1 DEF SpaceInv, SilenceTyped
  <2> QED
    BY <2>1, <2>2, SpaceInvPrimed DEF SpaceInv
<1> QED
  BY <1>1, <1>2, <1>3, ForgettingKeepsSpaceInv, RememberingKeepsSpaceInv, SpaceBeginsInv DEF HistoryNext

(* Between calls nothing is pending, so that what the counter knows is     *)
(* what has been asked for.                                                *)
LEMMA SpaceInvIsSound == IInv /\ Limited /\ SpaceInv => SendingIsSound
<1> SUFFICES ASSUME IInv, Limited, SpaceInv PROVE SendingIsSound
  OBVIOUS
<1>1. TypeOK
  BY DEF IInv, Typed, AllSteps, Limited, SpaceInv, SilenceTyped, TypeOK
<1>2. ASSUME steps = <<>>
      PROVE  CASE told = "no_ics" -> silence \in {0, Now.ims}
               [] told = "character" -> silence = Now.ics + Now.additional
               [] told = "space" ->
                     \E extra \in {0, Now.additional}, halves \in {0, 1} :
                        silence + halves = Now.iws + extra + Now.adjustment
               [] OTHER -> TRUE
  <2>1. Pending(steps, part) = 0 /\ silence + 0 = silence
    BY <1>2, PendingOfShapes DEF SpaceInv, SilenceTyped
  <2>2. told = "space" => IsWordSpace(silence)
    BY <2>1 DEF SpaceInv, IsCounted
  <2> QED
    BY <2>2 DEF SpaceInv, SilenceTyped, IsCounted, IsWordSpace
<1> QED
  BY <1>1, <1>2 DEF SendingIsSound, SpacesAddUp

(* Every space that has been asked for is as long as it should be, however *)
(* it is made up from what is in the queue already, for every speed,       *)
(* weighting and gap.                                                      *)
THEOREM SendingIsAlwaysSound == HistorySpec => []SendingIsSound
<1>1. HistorySpec => []IInv
  BY HistoryRefinesSpec, InitIInv, NextIInv, PTL DEF Spec
<1>2. HistorySpec => []Limited
  BY HistoryRefinesSpec, SpecLimited, PTL
<1>3. HistorySpec => []SpaceInv
  BY <1>1, <1>2, InitSpaceInv, NextSpaceInv, PTL DEF HistorySpec
<1> QED
  BY <1>1, <1>2, <1>3, SpaceInvIsSound, PTL
=============================================================================
