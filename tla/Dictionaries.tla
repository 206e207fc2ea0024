----------------------------- MODULE Dictionaries -----------------------------
(***************************************************************************)
(* The dictionaries of the tutors (dictionary.c): lists of words with a    *)
(* description, read from a file of sections, or the default ones, and     *)
(* written to a file.                                                      *)
(*                                                                         *)
(* A line of a file is the sequence of what white space separates in it.   *)
(* An empty one stands for comments as well.  A word has its text, its     *)
(* length, and whether it is a text in brackets: alone on a line such a    *)
(* word is the header of a section.  The space inside of the brackets of a *)
(* header is not part of the name.                                         *)
(***************************************************************************)
EXTENDS Integers, Sequences, SequencesExt

CONSTANTS
    Lines,           \* what files consist of
    MaxLines,        \* bound
    DefaultWords,    \* of the one default dictionary
    LineWidth        \* the code has 72

ASSUME DictionariesAssumption == MaxLines \in Nat /\ LineWidth \in Nat

VARIABLES
    dictionaries,    \* dictionaries_head and what follows it
    file,            \* the file written last
    asked            \* the dictionary that a random word has been asked of

dictionariesVars == <<dictionaries, file, asked>>

(* A line of white space other than blanks and tabs: no comment, no words. *)
Blank == [text |-> "", length |-> 0, bracketed |-> FALSE]

IsComment(line) == line = <<>>
IsSection(line) == Len(line) = 1 /\ line[1].bracketed

-----------------------------------------------------------------------------
(* dictionary_new(): groups of five for single characters.                 *)
NewDictionary(description, words) ==
    [description |-> description, words |-> words,
     group_size |-> IF \E i \in DOMAIN words : words[i].length > 1 THEN 1 ELSE 5]

(* dictionary_build_wordlist()                                             *)
BuildWordlist(content) ==
    FlattenSeq([i \in DOMAIN content |-> IF content[i] = Blank THEN <<>> ELSE <<content[i]>>])

(* cw_dictionaries_create_from_stream(), of which `p' is the progress: the *)
(* name and the lines of the section that is being read, which is finished *)
(* by the next one and by the end of the file.                             *)
\* Mutant: a section without lines is a dictionary.
FinishedAlways(p) ==
    IF p.named THEN Append(p.read, NewDictionary(p.name, BuildWordlist(p.content))) ELSE p.read
Finished(p) ==
    IF p.has_content THEN Append(p.read, NewDictionary(p.name, BuildWordlist(p.content))) ELSE p.read

ReadLine(p, line) ==
    CASE IsComment(line) -> p
      [] IsSection(line) -> [named |-> TRUE, name |-> line[1].text, has_content |-> FALSE,
                             content |-> <<>>, read |-> Finished(p)]
      [] ~IsComment(line) /\ ~IsSection(line) /\ p.named ->
             [named |-> TRUE, name |-> p.name, has_content |-> TRUE,
              content |-> p.content \o line, read |-> p.read]
      [] OTHER -> p

NothingRead == [named |-> FALSE, name |-> "", has_content |-> FALSE, content |-> <<>>, read |-> <<>>]
\* Mutant: the end of the file does not finish a section.
CreateUpToLastSection(stream) == FoldLeft(ReadLine, NothingRead, stream).read
CreateFromStream(stream) == Finished(FoldLeft(ReadLine, NothingRead, stream))

(* cw_dictionaries_write() of a dictionary: lines are ended when they are  *)
(* longer than the width.                                                  *)
AddWord(p, word) ==
    LET chars == p.chars + word.length + 1
        line == Append(p.line, word) IN
    IF chars > LineWidth
    THEN [lines |-> Append(p.lines, line), line |-> <<>>, chars |-> 0]
    ELSE [lines |-> p.lines, line |-> line, chars |-> chars]

Header(name) == <<[text |-> name, length |-> 1, bracketed |-> TRUE]>>

WrittenDictionary(dict) ==
    LET p == FoldLeft(AddWord, [lines |-> <<>>, line |-> <<>>, chars |-> 0], dict.words) IN
    <<Header(dict.description), <<>>>> \o p.lines \o <<p.line, <<>>>>

Written(dicts) == FlattenSeq([i \in DOMAIN dicts |-> WrittenDictionary(dicts[i])])

DefaultDictionaries == <<NewDictionary("default", DefaultWords)>>

-----------------------------------------------------------------------------
(* cw_dictionaries_read(): a file without dictionaries changes nothing.    *)
Read(stream) ==
    /\ dictionaries' = IF CreateFromStream(stream) = <<>> THEN dictionaries ELSE CreateFromStream(stream)
    /\ asked' = IF CreateFromStream(stream) = <<>> THEN asked ELSE 0
    /\ UNCHANGED file

(* cw_dictionaries_iterate() and cw_dictionaries_write() make the default  *)
(* ones where none have been read.                                         *)
OrDefault == IF dictionaries = <<>> THEN DefaultDictionaries ELSE dictionaries

GetRandomWord ==
    /\ dictionaries' = OrDefault
    /\ asked' \in DOMAIN OrDefault
    /\ UNCHANGED file

Write ==
    /\ dictionaries' = OrDefault
    /\ file' = Written(OrDefault)
    /\ UNCHANGED asked

Unload == dictionaries' = <<>> /\ asked' = 0 /\ UNCHANGED file

-----------------------------------------------------------------------------
DictionariesInit == dictionaries = <<>> /\ file = <<>> /\ asked = 0

(* Users write a file, and read one that has been written.                 *)
DictionariesNext ==
    \/ \E stream \in BoundedSeq(Lines, MaxLines) : dictionaries = <<>> /\ Read(stream)
    \/ Read(file) \/ Write \/ GetRandomWord \/ Unload

DictionariesSpec == DictionariesInit /\ [][DictionariesNext]_dictionariesVars

-----------------------------------------------------------------------------
(* A file that has been written gives the same dictionaries when it is     *)
(* read, however their lines were laid out, commented and ended.           *)
WrittenIsRead == dictionaries # <<>> => CreateFromStream(Written(dictionaries)) = dictionaries

(* A dictionary of which a random word is asked has one (rand() is divided *)
(* by the number of words).                                                *)
RandomWordExists == asked # 0 => dictionaries[asked].words # <<>>

(* A dictionary survives its file, and is good for practice.               *)
DictionariesAreKept == WrittenIsRead /\ RandomWordExists
=============================================================================
