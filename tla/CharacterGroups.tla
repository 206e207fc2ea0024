--------------------------- MODULE CharacterGroups ---------------------------
(***************************************************************************)
(* cwgen (cwgen.c): groups of random characters.  Options come from the    *)
(* environment and from the command line, in this order; then groups are   *)
(* drawn and printed, each of them once more than n_repeats, until the     *)
(* limit of characters is reached.                                         *)
(***************************************************************************)
EXTENDS Integers, Sequences, SequencesExt

CONSTANTS
    Options,         \* bound: what users write, [option, value]
    MaxOptions,      \* bound
    MaxGroups,       \* bound: the groups of an unlimited run
    DefaultCharset, DefaultSize

ASSUME GroupsAssumption ==
    /\ MaxOptions \in Nat /\ MaxGroups \in Nat \ {0} /\ DefaultSize \in Nat \ {0}
    /\ \A o \in Options : o.option \in {"g", "r", "x"} => o.value \in Int
    /\ \A o \in Options : o.option = "n" => o.value[1] \in Int /\ o.value[2] \in Int

VARIABLES
    options,         \* that have not been processed
    cwgen_config,          \* [n_groups, group_size_min, group_size_max, n_repeats, n_chars_max, charset]
    phase,           \* of the program
    drawn,           \* the groups that have been drawn
    repeat,
    printed          \* the groups as they have been printed, each with a space after it

groupsVars == <<options, cwgen_config, phase, drawn, repeat, printed>>

NoCharset == {}
chars == FlattenSeq(printed)

-----------------------------------------------------------------------------
(* cwgen_parse_command_line()                                              *)
Accepted(c) == cwgen_config' = c /\ UNCHANGED phase
Rejected == phase' = "exit" /\ UNCHANGED cwgen_config
ParseOption ==
    /\ phase = "options" /\ options # <<>>
    /\ options' = Tail(options)
    /\ LET option == Head(options).option
           value == Head(options).value IN
       \/ option = "g" /\ IF value >= 1 THEN Accepted([cwgen_config EXCEPT !.n_groups = value]) ELSE Rejected
       \/ /\ option = "n"
          /\ IF 1 <= value[1] /\ value[1] <= value[2]
             THEN Accepted([cwgen_config EXCEPT !.group_size_min = value[1], !.group_size_max = value[2]])
             ELSE Rejected
       \/ option = "r" /\ IF value >= 0 THEN Accepted([cwgen_config EXCEPT !.n_repeats = value]) ELSE Rejected
       \/ option = "x" /\ IF value >= 0 THEN Accepted([cwgen_config EXCEPT !.n_chars_max = value]) ELSE Rejected
       \/ /\ option = "c"
          /\ IF value = {} THEN Rejected
             ELSE IF cwgen_config.charset # NoCharset THEN phase' = "aborted" /\ UNCHANGED cwgen_config
             ELSE Accepted([cwgen_config EXCEPT !.charset = value])
    /\ UNCHANGED <<drawn, repeat, printed>>

Parsed ==
    /\ phase = "options" /\ options = <<>>
    /\ cwgen_config' = [cwgen_config EXCEPT !.charset = IF @ = NoCharset THEN DefaultCharset ELSE @]
    /\ phase' = "draw"
    /\ UNCHANGED <<options, drawn, repeat, printed>>

-----------------------------------------------------------------------------
(* cwgen_generate_characters()                                             *)

LimitIsReached(characters) == cwgen_config.n_chars_max # 0 /\ Len(characters) >= cwgen_config.n_chars_max

DrawGroup ==
    /\ phase = "draw"
    /\ IF Len(drawn) = cwgen_config.n_groups
       THEN phase' = "exit" /\ UNCHANGED <<drawn, repeat>>
       ELSE /\ \E size \in cwgen_config.group_size_min .. cwgen_config.group_size_max :
                  \E group \in [1..size -> cwgen_config.charset] : drawn' = Append(drawn, group)
            /\ repeat' = 0 /\ phase' = "print"
    /\ UNCHANGED <<options, cwgen_config, printed>>

(* The group in the buffer up to the limit, a space, and whether there is  *)
(* more to do: the count of repeats is taken after the comparison.         *)
\* Mutant: the count is taken before the comparison.
RepeatsOnce == repeat + 1 < cwgen_config.n_repeats
Repeats == repeat < cwgen_config.n_repeats

PutGroup(group) ==
    IF LimitIsReached(chars \o group) THEN SubSeq(group, 1, cwgen_config.n_chars_max - Len(chars)) ELSE group

PrintGroup ==
    /\ phase = "print"
    /\ LET group == PutGroup(Last(drawn)) IN
       /\ printed' = Append(printed, group)
       /\ \/ LimitIsReached(chars \o group) /\ phase' = "exit" /\ UNCHANGED repeat
          \/ ~LimitIsReached(chars \o group) /\ Repeats /\ repeat' = repeat + 1 /\ UNCHANGED phase
          \/ ~LimitIsReached(chars \o group) /\ ~Repeats /\ repeat' = repeat + 1 /\ phase' = "draw"
    /\ UNCHANGED <<options, cwgen_config, drawn>>

-----------------------------------------------------------------------------
GroupsInit ==
    /\ options \in BoundedSeq(Options, MaxOptions)
    /\ cwgen_config = [n_groups |-> MaxGroups, group_size_min |-> DefaultSize, group_size_max |-> DefaultSize,
                 n_repeats |-> 0, n_chars_max |-> 0, charset |-> NoCharset]
    /\ phase = "options" /\ drawn = <<>> /\ repeat = 0 /\ printed = <<>>

GroupsNext == ParseOption \/ Parsed \/ DrawGroup \/ PrintGroup

GroupsSpec == GroupsInit /\ [][GroupsNext]_groupsVars

-----------------------------------------------------------------------------
(* What is printed is the groups that were asked for, each as often as     *)
(* asked for, cut at the limit and nowhere else.                           *)
Repeated(group) == FlattenSeq([i \in 1..cwgen_config.n_repeats + 1 |-> group])
AskedFor == FlattenSeq([i \in DOMAIN drawn |-> Repeated(drawn[i])])

GroupsAreAsAsked ==
    phase = "exit" /\ drawn # <<>> =>
        IF LimitIsReached(AskedFor) THEN chars = SubSeq(AskedFor, 1, cwgen_config.n_chars_max)
        ELSE chars = AskedFor /\ Len(drawn) = cwgen_config.n_groups

(* Options of the environment may be given again on the command line,      *)
(* which takes precedence (cwgen.1).                                       *)
OptionsMayBeRepeated == phase # "aborted"
=============================================================================
