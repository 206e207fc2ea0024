------------------------------- MODULE Startup -------------------------------
(***************************************************************************)
(* How the programs start: options from the environment and the command    *)
(* line (cw_cmdline.c), the configuration that they make (cw_config.c) and *)
(* the generator that is created for it (cw_common.c), by trying one sound *)
(* system after the other.                                                 *)
(*                                                                         *)
(* A word is an option with its value, or an operand; "help" stands for    *)
(* the options that print something and end the program, and for unknown   *)
(* ones.  A device name is "dev" or the default of the sound system.       *)
(***************************************************************************)
EXTENDS Integers, Sequences, SequencesExt

CONSTANTS
    Programs,        \* of "cw", "cwcp" and "xcwcp", those that are started
    Words,           \* bound: [option, value], what users write
    MaxWords         \* bound: the words on the command line; one in the environment

ASSUME StartupAssumption == Programs \subseteq {"cw", "cwcp", "xcwcp"} /\ MaxWords \in Nat

VARIABLES
    program, environment, arguments,
    sound,           \* each sound system: "absent", "broken" or "works", once tried
    argv,            \* the words that have still to be processed
    config,          \* [sound_system, sound_device, values]
    stage,           \* what the program does next
    generator        \* the one created: [sound_system, sound_device, values]

startupVars == <<program, environment, arguments, sound, argv, config, stage, generator>>

SoundSystems == <<"null", "pa", "oss", "alsa", "console">>    \* in the order they are tried
Parameters == {"t", "v", "w", "g", "k"}      \* in the order they are applied
NoGenerator == [sound_system |-> "none", sound_device |-> "", values |-> <<>>]

-----------------------------------------------------------------------------
(* combine_arguments(): the environment first.                             *)
\* Mutant: the environment last.
ArgumentsFirst == arguments \o environment
CombinedArguments == environment \o arguments

(* xcwcp combines them for Qt, and processes its arguments alone.          *)
CombineArguments ==
    /\ stage = "combine"
    /\ argv' = IF program = "xcwcp" THEN arguments ELSE CombinedArguments
    /\ stage' = "options"
    /\ UNCHANGED <<program, environment, arguments, sound, config, generator>>

(* cw_config_get_supported_feature_cmdline_options()                       *)
Supported(option) == option # "T" \/ program = "cwcp"

(* The ranges in which cw_process_option() accepts a number...             *)
\* Mutant: limits that are not the library's.
LimitsWithNeighbours(p) == IF p = "w" THEN 3..61 ELSE 0..60
Limits(p) ==
    CASE p = "w" -> 4..60 [] p = "t" -> 0..4000 [] p = "v" -> 0..100
      [] p = "g" -> 0..60 [] p = "k" -> 20..80
(* ... and those of the library: cw_gen_set_speed() and so on.             *)
LibraryLimits(p) ==
    CASE p = "w" -> 4..60 [] p = "t" -> 0..4000 [] p = "v" -> 0..100
      [] p = "g" -> 0..60 [] p = "k" -> 20..80

Exits == stage' = "exit" /\ UNCHANGED config

(* cw_process_program_arguments(), an option at a time.  An operand ends   *)
(* the program when all options have been processed.                       *)
ProcessOption ==
    /\ stage = "options" /\ argv # <<>>
    /\ argv' = Tail(argv)
    /\ LET option == Head(argv).option
           value == Head(argv).value IN
       \/ /\ option = "help" \/ ~Supported(option)
          /\ Exits
       \/ /\ option = "s"
          /\ IF value \in Range(SoundSystems) \cup {"soundcard"}
             THEN config' = [config EXCEPT !.sound_system = value] /\ UNCHANGED stage
             ELSE Exits
       \/ /\ option = "d"
          /\ IF value # ""
             THEN config' = [config EXCEPT !.sound_device = value] /\ UNCHANGED stage
             ELSE Exits
       \/ /\ option \in Parameters
          /\ IF value \in Limits(option)
             THEN config' = [config EXCEPT !.values[option] = value] /\ UNCHANGED stage
             ELSE Exits
       \/ /\ option = "T" /\ Supported(option)
          /\ IF value >= 0 THEN UNCHANGED <<config, stage>> ELSE Exits
       \/ option = "operand" /\ Exits
    /\ UNCHANGED <<program, environment, arguments, sound, generator>>

(* cw_config_is_valid()                                                    *)
IsValid == config.sound_device = "" \/ config.sound_system \notin {"soundcard", "null"}
Validate ==
    /\ stage = "options" /\ argv = <<>>
    /\ stage' = IF IsValid THEN SoundSystems[1] ELSE "exit"
    /\ UNCHANGED <<program, environment, arguments, sound, argv, config, generator>>

-----------------------------------------------------------------------------
(* cw_generator_new_from_config(): each sound system in turn, if it has    *)
(* been asked for.                                                         *)
Asked(system) ==
    \/ config.sound_system = system
    \/ config.sound_system = "none" /\ system # "null"
    \/ config.sound_system = "soundcard" /\ system \in {"pa", "oss", "alsa"}

(* cw_gen_pick_device_name_internal()                                      *)
PickDefaultName(device, system) == IF system = "pa" THEN "" ELSE "default"
PickDeviceName(device, system) ==
    IF device \notin {"", "default"} THEN device ELSE PickDefaultName(device, system)

NextSystem(system) ==
    LET i == SelectInSeq(SoundSystems, LAMBDA s : s = system) IN
    IF i = Len(SoundSystems) THEN "exit" ELSE SoundSystems[i + 1]

TrySoundSystem(system) ==
    /\ stage = system
    /\ \/ /\ ~Asked(system)
          /\ stage' = NextSystem(system) /\ UNCHANGED <<sound, config, generator>>
       \/ /\ Asked(system) /\ system # "null"
          /\ sound' = [sound EXCEPT ![system] = "absent"]
          /\ stage' = NextSystem(system) /\ UNCHANGED <<config, generator>>
       \/ /\ Asked(system)
          /\ LET device == IF system = "null" THEN config.sound_device
                           ELSE PickDeviceName(config.sound_device, system) IN
             /\ config' = [config EXCEPT !.sound_system = system, !.sound_device = device]
             /\ \/ /\ sound' = [sound EXCEPT ![system] = "works"]
                   /\ generator' = [sound_system |-> system, sound_device |-> device, values |-> <<>>]
                   /\ stage' = "apply"
                \/ /\ sound' = [sound EXCEPT ![system] = "broken"]
                   /\ stage' = NextSystem(system) /\ UNCHANGED generator
    /\ UNCHANGED <<program, environment, arguments, argv>>

(* cw_generator_apply_config()                                             *)
ApplyConfig ==
    /\ stage = "apply"
    /\ IF \A p \in Parameters : config.values[p] \in LibraryLimits(p)
       THEN stage' = "run" /\ generator' = [generator EXCEPT !.values = config.values]
       ELSE stage' = "refused" /\ UNCHANGED generator
    /\ UNCHANGED <<program, environment, arguments, sound, argv, config>>

-----------------------------------------------------------------------------
(* cw_config_new()                                                         *)
InitialConfig ==
    [sound_system |-> "none", sound_device |-> "",
     values |-> [p \in Parameters |-> CASE p = "w" -> 12 [] p = "t" -> 800 [] p = "v" -> 70
                                        [] p = "g" -> 0 [] p = "k" -> 50]]

StartupInit ==
    /\ program \in Programs
    /\ environment \in BoundedSeq(Words, 1) /\ arguments \in BoundedSeq(Words, MaxWords)
    /\ sound = [system \in Range(SoundSystems) |-> "untried"]
    /\ argv = <<>> /\ config = InitialConfig /\ stage = "combine" /\ generator = NoGenerator

StartupNext ==
    \/ CombineArguments \/ ProcessOption \/ Validate
    \/ \E system \in Range(SoundSystems) : TrySoundSystem(system)
    \/ ApplyConfig

StartupSpec == StartupInit /\ [][StartupNext]_startupVars

-----------------------------------------------------------------------------
(* The word that counts: the last one, of which those of the command line  *)
(* come after those of the environment.                                    *)
LastWord(option, otherwise) ==
    LET words == environment \o arguments
        given == {i \in DOMAIN words : words[i].option = option} IN
    IF given = {} THEN otherwise ELSE words[Max(given)].value

(* A program that runs does so with the settings that count, whichever     *)
(* sound systems it had to try: the parameters, the sound system if one    *)
(* was named, and the device.                                              *)
SettingsAreUsed ==
    stage = "run" =>
        /\ \A p \in Parameters : generator.values[p] = LastWord(p, InitialConfig.values[p])
        /\ LET system == LastWord("s", "none") IN
              generator.sound_system \in CASE system = "none" -> {"pa", "oss", "alsa", "console"}
                                          [] system = "soundcard" -> {"pa", "oss", "alsa"}
                                          [] OTHER -> {system}
        /\ LastWord("d", "default") # "default" => generator.sound_device = LastWord("d", "default")

(* What the command line accepts the library accepts: a program does not   *)
(* end for its settings when it has its generator.                         *)
AcceptedIsApplied == stage # "refused"

(* "fall through to try with next sound system type": a program that names *)
(* no sound system tries all of them before it gives up.                   *)
FallsThrough ==
    stage = "exit" /\ LastWord("s", "none") = "none" /\ (\E system \in DOMAIN sound : sound[system] # "untried") =>
        \A system \in {"pa", "oss", "alsa", "console"} : sound[system] # "untried"
=============================================================================
