------------------------------- MODULE Objects -------------------------------
(***************************************************************************)
(* The objects of a client and how they refer to each other: generators    *)
(* and keys (libcw_gen.c, libcw_key.c), and the global ones of the legacy  *)
(* interface (libcw.c), which are one key, one receiver and whatever       *)
(* generator there is.                                                     *)
(*                                                                         *)
(* A key is told its generator for its tones, the generator its key for    *)
(* the iambic keyer that it clocks.  Neither is told when the other is     *)
(* deleted, except for a generator whose key goes.  Objects are created    *)
(* once and then deleted; the global key is there from the start.          *)
(***************************************************************************)
EXTENDS Integers

CONSTANTS
    GeneratorObjects, KeyObjects,
    GlobalKey,       \* cw_key
    Gaps,            \* values of the gap
    InitialGap,
    CarefulClient,   \* a client that registers once, deletes keys first,
                     \* and uses a key only while its generator exists
    None

ASSUME ObjectsAssumption ==
    /\ GlobalKey \in KeyObjects /\ InitialGap \in Gaps /\ CarefulClient \in BOOLEAN
    /\ None \notin GeneratorObjects \cup KeyObjects

VARIABLES
    generators,      \* [life, key, generating, gap]
    keys,            \* [life, gen]
    cw_generator,
    receiver_gap,    \* of cw_receiver
    misused          \* an object has been used that does not exist any more

objectsVars == <<generators, keys, cw_generator, receiver_gap, misused>>

Lives(objects) == {o \in DOMAIN objects : objects[o].life = "alive"}
LiveGenerators == Lives(generators)
LiveKeys == Lives(keys)

-----------------------------------------------------------------------------
(* cw_key_register_generator(), as changes of the keys and the generators. *)
KeyRegistered(k, g) == [keys EXCEPT ![k].gen = g]
\* Mutant: the generator is not told of its key.
GeneratorUntold(gens, k, g) == gens
GeneratorRegistered(gens, k, g) == [gens EXCEPT ![g].key = k]

CreatedGenerator(g) == [generators EXCEPT ![g].life = "alive", ![g].gap = InitialGap]

(* cw_gen_delete() stops the thread first.                                 *)
WithoutGenerator(g) == [generators EXCEPT ![g].life = "deleted", ![g].generating = FALSE]

GenNew(g) ==
    /\ generators[g].life = "none"
    /\ generators' = CreatedGenerator(g)
    /\ UNCHANGED <<keys, cw_generator, receiver_gap, misused>>

GenDelete(g) ==
    /\ g \in LiveGenerators /\ g # cw_generator
    /\ CarefulClient => generators[g].key = None
    /\ generators' = WithoutGenerator(g)
    /\ UNCHANGED <<keys, cw_generator, receiver_gap, misused>>

KeyNew(k) ==
    /\ keys[k].life = "none"
    /\ keys' = [keys EXCEPT ![k].life = "alive"]
    /\ UNCHANGED <<generators, cw_generator, receiver_gap, misused>>

\* Mutant: a deleted key stays with its generator.
ForgottenByNobody(k) == generators
ForgottenByGenerator(k) ==
    IF keys[k].gen = None THEN generators ELSE [generators EXCEPT ![keys[k].gen].key = None]

KeyDelete(k) ==
    /\ k \in LiveKeys /\ k # GlobalKey
    /\ keys' = [keys EXCEPT ![k].life = "deleted"]
    /\ generators' = ForgottenByGenerator(k)
    /\ misused' = (misused \/ keys[k].gen \notin LiveGenerators \cup {None})
    /\ UNCHANGED <<cw_generator, receiver_gap>>

Register(k, g) ==
    /\ k \in LiveKeys /\ g \in LiveGenerators
    /\ CarefulClient => keys[k].gen = None /\ generators[g].key = None /\ g # cw_generator /\ k # GlobalKey
    /\ keys' = KeyRegistered(k, g)
    /\ generators' = GeneratorRegistered(generators, k, g)
    /\ UNCHANGED <<cw_generator, receiver_gap, misused>>

(* A paddle or the straight key: without a generator it is refused.        *)
KeyEvent(k) ==
    /\ k \in LiveKeys /\ keys[k].gen # None
    /\ CarefulClient => keys[k].gen \in LiveGenerators
    /\ misused' = (misused \/ keys[k].gen \notin LiveGenerators)
    /\ UNCHANGED <<generators, keys, cw_generator, receiver_gap>>

(* cw_gen_start(), and a tone that the thread dequeues: it clocks the key. *)
GenStart(g) ==
    /\ g \in LiveGenerators
    /\ generators' = [generators EXCEPT ![g].generating = TRUE]
    /\ UNCHANGED <<keys, cw_generator, receiver_gap, misused>>
Clocked(g) ==
    /\ generators[g].generating /\ generators[g].key # None
    /\ misused' = (misused \/ generators[g].key \notin LiveKeys)
    /\ UNCHANGED <<generators, keys, cw_generator, receiver_gap>>

-----------------------------------------------------------------------------
(* The legacy interface.                                                   *)

(* cw_generator_new_internal(): a failure leaves no generator.             *)
GeneratorNew(g) ==
    /\ CarefulClient => cw_generator = None
    /\ \/ /\ generators[g].life = "none"
          /\ cw_generator' = g
          /\ keys' = KeyRegistered(GlobalKey, g)
          /\ generators' = GeneratorRegistered(CreatedGenerator(g), GlobalKey, g)
       \/ cw_generator' = None /\ UNCHANGED <<keys, generators>>
    /\ UNCHANGED <<receiver_gap, misused>>

(* cw_generator_delete(): the global key keeps what it was told.           *)
GeneratorDelete ==
    /\ cw_generator # None
    /\ cw_generator' = None
    /\ generators' = WithoutGenerator(cw_generator)
    /\ UNCHANGED <<keys, receiver_gap, misused>>

(* cw_set_gap() and cw_reset_send_receive_parameters()                     *)
SetGap(gap) ==
    /\ cw_generator # None
    /\ generators' = [generators EXCEPT ![cw_generator].gap = gap]
    /\ receiver_gap' = gap
    /\ UNCHANGED <<keys, cw_generator, misused>>
ResetParameters == SetGap(InitialGap)

-----------------------------------------------------------------------------
ObjectsInit ==
    /\ generators = [g \in GeneratorObjects |-> [life |-> "none", key |-> None, generating |-> FALSE, gap |-> InitialGap]]
    /\ keys = [k \in KeyObjects |-> [life |-> IF k = GlobalKey THEN "alive" ELSE "none", gen |-> None]]
    /\ cw_generator = None /\ receiver_gap = InitialGap /\ misused = FALSE

ObjectsNext ==
    \/ \E g \in GeneratorObjects : GenNew(g) \/ GenDelete(g) \/ GenStart(g) \/ Clocked(g) \/ GeneratorNew(g)
    \/ \E k \in KeyObjects : KeyNew(k) \/ KeyDelete(k) \/ KeyEvent(k)
    \/ \E k \in KeyObjects, g \in GeneratorObjects : Register(k, g)
    \/ GeneratorDelete \/ ResetParameters \/ \E gap \in Gaps : SetGap(gap)

ObjectsSpec == ObjectsInit /\ [][ObjectsNext]_objectsVars

-----------------------------------------------------------------------------
(* Nobody uses what has been deleted: neither the generator's thread its   *)
(* key, nor a key that is deleted or used its generator.                   *)
NothingIsMisused == ~misused

(* A key and a generator that exist know each other; otherwise a keyer     *)
(* sends tones that do not clock it and stays busy for ever.               *)
RegistrationsAgree ==
    /\ \A g \in LiveGenerators : generators[g].key # None => keys[generators[g].key].gen = g
    /\ \A k \in LiveKeys : keys[k].gen \in LiveGenerators => generators[keys[k].gen].key = k

(* Keys and generators know of each other as long as both exist, and no    *)
(* longer, in whatever order they are made, registered and deleted.        *)
ObjectsAgree == NothingIsMisused /\ RegistrationsAgree

(* What cw_set_gap() and cw_reset_send_receive_parameters() are for: the   *)
(* generator and the receiver have the same gap.  A new generator has its  *)
(* own.                                                                    *)
GapsAgree == cw_generator # None => generators[cw_generator].gap = receiver_gap
=============================================================================
