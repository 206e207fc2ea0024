------------------------------ MODULE MCPrograms ------------------------------
(***************************************************************************)
(* The programs: the tutor cwcp, windows and keyed text of xcwcp, the      *)
(* stream of cw, what all of them do when they start, dictionaries, the    *)
(* groups of cwgen, the driver of the receiver's test with its judgement,  *)
(* elements, the ranger of tests, and the easy receiver for the legacy     *)
(* interface.  A behaviour is one of one part, while the others rest in a  *)
(* first state.                                                            *)
(***************************************************************************)
EXTENDS Tutor, Windows, KeyedText, CommandStream, Startup, Dictionaries, CharacterGroups, TestDriver,
        Elements, ReceptionTest, ParameterRanger, LegacyReceiver

VARIABLE part

-----------------------------------------------------------------------------
(* cwcp                                                                    *)
MCModes == <<"dictionary", "keyboard", "exit">>
MCWords == {<<"a">>, <<"a", "b">>}

(* What users write to start a program.                                    *)
MCOptions ==
    {[option |-> "s", value |-> v] : v \in {"null", "oss", "soundcard", "wrong"}}
    \cup {[option |-> "d", value |-> v] : v \in {"dev", ""}} \cup {[option |-> "T", value |-> v] : v \in {15, -1}}
    \cup {[option |-> "w", value |-> v] : v \in {3, 4, 60, 61}} \cup {[option |-> "k", value |-> 20]}
    \cup {[option |-> v, value |-> ""] : v \in {"help", "operand"}}

(* Lines of dictionaries; with a word in brackets among others; with       *)
(* nothing but unusual white space.                                        *)
Word(text_, length) == [text |-> text_, length |-> length, bracketed |-> FALSE]
MCLines == {<<>>, Header("one"), Header("two"), <<Word("a", 1), Word("b", 1)>>, <<Word("eee", 3)>>}
MCBrackets == {Header("one"), <<Word("eee", 3)>>, <<Word("eee", 3), [Word("x", 3) EXCEPT !.bracketed = TRUE]>>}
MCBlanks == {Header("one"), <<Blank>>, <<Word("a", 1)>>}
MCDefault == <<Word("A", 1), Word("B", 1), Word("C", 1)>>

(* What users write to start cwgen.                                        *)
MCGroupOptions ==
    {[option |-> "g", value |-> v] : v \in {0, 1}} \cup {[option |-> "n", value |-> v] : v \in {<<1, 2>>, <<2, 1>>}}
    \cup {[option |-> "r", value |-> v] : v \in {1, -1}} \cup {[option |-> "x", value |-> v] : v \in {0, 3}}
    \cup {[option |-> "c", value |-> v] : v \in {{"E"}, {}}}

(* The characters of a text.                                               *)
MCRepresentations == [e |-> <<0>>, a |-> <<0, 1>>, t |-> <<1>>]

(* What is sent to a receiver, and what it hears.                          *)
MCLower == [P |-> "p", Q |-> "q"]
MCSent == {<<"p", "q", " ", "p", "q", "q", " ">>, <<"p", " ", "q", "p">>}

-----------------------------------------------------------------------------
testsVars == <<driverVars, elementsVars, receptionVars, rangerVars, legacyVars>>

programsVars ==
    <<tutorVars, windowsVars, keyedVars, streamVars, startupVars, dictionariesVars, groupsVars, testsVars, part>>

ProgramsInit ==
    /\ part \in {"tutor", "windows", "keyed", "stream", "startup", "dictionaries", "groups",
                 "driver", "elements", "reception", "ranger", "legacy"}
    /\ part # "stream" => do_comments = TRUE /\ do_combinations = TRUE /\ do_commands = TRUE
    /\ part # "startup" => program = "cw" /\ environment = <<>> /\ arguments = <<>>
    /\ part # "groups" => options = <<>>
    /\ TutorInit /\ WindowsInit /\ KeyedTextInit /\ StreamInit
    /\ StartupInit /\ DictionariesInit /\ GroupsInit /\ DriverInit /\ ElementsInit /\ ReceptionInit
    /\ RangerInit /\ LegacyInit
    /\ part # "reception" => \A t \in SentTexts : Len(t) <= Len(input_string)
    /\ part # "ranger" => previous_value = RangeMin /\ ranger_setup = [plateau_length |-> 0, interval_sec |-> 0]
    /\ part # "legacy" => ~get_representation
    /\ part # "windows" => \A s \in Speeds : send_speed <= s

ProgramsNext ==
    /\ UNCHANGED part
    /\ \/ /\ part = "tutor" /\ TutorNext
          /\ UNCHANGED <<windowsVars, keyedVars, streamVars, startupVars, dictionariesVars, groupsVars, testsVars>>
       \/ /\ part = "windows" /\ WindowsNext
          /\ UNCHANGED <<tutorVars, keyedVars, streamVars, startupVars, dictionariesVars, groupsVars, testsVars>>
       \/ /\ part = "keyed" /\ KeyedTextNext
          /\ UNCHANGED <<tutorVars, windowsVars, streamVars, startupVars, dictionariesVars, groupsVars, testsVars>>
       \/ /\ part = "stream" /\ StreamNext
          /\ UNCHANGED <<tutorVars, windowsVars, keyedVars, startupVars, dictionariesVars, groupsVars, testsVars>>
       \/ /\ part = "startup" /\ StartupNext
          /\ UNCHANGED <<tutorVars, windowsVars, keyedVars, streamVars, dictionariesVars, groupsVars, testsVars>>
       \/ /\ part = "dictionaries" /\ DictionariesNext
          /\ UNCHANGED <<tutorVars, windowsVars, keyedVars, streamVars, startupVars, groupsVars, testsVars>>
       \/ /\ part = "groups" /\ GroupsNext
          /\ UNCHANGED <<tutorVars, windowsVars, keyedVars, streamVars, startupVars, dictionariesVars, testsVars>>
       \/ /\ part = "driver" /\ DriverNext
          /\ UNCHANGED <<tutorVars, windowsVars, keyedVars, streamVars, startupVars, dictionariesVars, groupsVars,
                         elementsVars, receptionVars, rangerVars, legacyVars>>
       \/ /\ part = "elements" /\ ElementsNext
          /\ UNCHANGED <<tutorVars, windowsVars, keyedVars, streamVars, startupVars, dictionariesVars, groupsVars,
                         driverVars, receptionVars, rangerVars, legacyVars>>
       \/ /\ part = "reception" /\ ReceptionNext
          /\ UNCHANGED <<tutorVars, windowsVars, keyedVars, streamVars, startupVars, dictionariesVars, groupsVars,
                         driverVars, elementsVars, rangerVars, legacyVars>>
       \/ /\ part = "ranger" /\ RangerNext
          /\ UNCHANGED <<tutorVars, windowsVars, keyedVars, streamVars, startupVars, dictionariesVars, groupsVars,
                         driverVars, elementsVars, receptionVars, legacyVars>>
       \/ /\ part = "legacy" /\ LegacyNext
          /\ UNCHANGED <<tutorVars, windowsVars, keyedVars, streamVars, startupVars, dictionariesVars, groupsVars,
                         driverVars, elementsVars, receptionVars, rangerVars>>

(* A step that fairness is assumed of is one of the part that goes on; in  *)
(* their first state the other parts may have such steps.                  *)
ProgramsSpec ==
    /\ ProgramsInit /\ [][ProgramsNext]_programsVars
    /\ WF_tutorVars(part = "tutor" /\ Expire)
    /\ WF_tutorVars(part = "tutor" /\ SoundEnds)
    /\ WF_tutorVars(part = "tutor" /\ Minute)
    /\ WF_streamVars(part = "stream" /\ StreamProgram)
    /\ WF_streamVars(part = "stream" /\ ToneEnds)

-----------------------------------------------------------------------------
(* A program runs as its command line, environment and defaults ask, or    *)
(* says no before it makes a sound: cw, cwcp and xcwcp with the settings   *)
(* that count, cwgen with the groups that were asked for.                  *)
OptionsAreHonoured == SettingsAreUsed /\ AcceptedIsApplied /\ GroupsAreAsAsked

(* A test of the receiver tests what it says: all of the text is sent,     *)
(* over the whole range of parameters, and what passes has been received.  *)
TestsAreRight == TextIsSent /\ RangeIsSwept /\ PassedIsTuned
=============================================================================
