------------------------------ MODULE DataTables ------------------------------
(***************************************************************************)
(* Characters, representations and procedural signals (libcw_data.c).      *)
(*                                                                         *)
(* A representation is looked up in three ways: by its hash in a table, in *)
(* the table of characters when not every representation has a hash, and   *)
(* by the direct search that the library keeps for tests.  A user keys     *)
(* marks one by one, or the letters of a procedural signal without the     *)
(* spaces between them; everything is looked up as it grows.  A character  *)
(* that is not ASCII has the name of its letter and accent.                *)
(***************************************************************************)
EXTENDS Integers, Sequences, SequencesExt

CONSTANTS
    HashLengths,     \* the longest representation with a hash; the code has 7
    UCharMax,        \* the size of the table of hashes
    MaxMarks         \* bound: the longest representation that is keyed

ASSUME DataAssumption ==
    HashLengths \subseteq Nat /\ UCharMax \in Nat \ {0} /\ MaxMarks \in Nat

VARIABLES
    max_length,      \* member of HashLengths
    marks,           \* the representation, dots and dashes as 0 and 1
    letters          \* that were keyed without a space, in full

dataVars == <<max_length, marks, letters>>

-----------------------------------------------------------------------------
CW_TABLE == <<
    <<"A", <<0,1>>>>, <<"B", <<1,0,0,0>>>>, <<"C", <<1,0,1,0>>>>, <<"D", <<1,0,0>>>>,
    <<"E", <<0>>>>, <<"F", <<0,0,1,0>>>>, <<"G", <<1,1,0>>>>, <<"H", <<0,0,0,0>>>>,
    <<"I", <<0,0>>>>, <<"J", <<0,1,1,1>>>>, <<"K", <<1,0,1>>>>, <<"L", <<0,1,0,0>>>>,
    <<"M", <<1,1>>>>, <<"N", <<1,0>>>>, <<"O", <<1,1,1>>>>, <<"P", <<0,1,1,0>>>>,
    <<"Q", <<1,1,0,1>>>>, <<"R", <<0,1,0>>>>, <<"S", <<0,0,0>>>>, <<"T", <<1>>>>,
    <<"U", <<0,0,1>>>>, <<"V", <<0,0,0,1>>>>, <<"W", <<0,1,1>>>>, <<"X", <<1,0,0,1>>>>,
    <<"Y", <<1,0,1,1>>>>, <<"Z", <<1,1,0,0>>>>,
    <<"0", <<1,1,1,1,1>>>>, <<"1", <<0,1,1,1,1>>>>, <<"2", <<0,0,1,1,1>>>>, <<"3", <<0,0,0,1,1>>>>,
    <<"4", <<0,0,0,0,1>>>>, <<"5", <<0,0,0,0,0>>>>, <<"6", <<1,0,0,0,0>>>>, <<"7", <<1,1,0,0,0>>>>,
    <<"8", <<1,1,1,0,0>>>>, <<"9", <<1,1,1,1,0>>>>,
    <<"quote", <<0,1,0,0,1,0>>>>, <<"'", <<0,1,1,1,1,0>>>>, <<"$", <<0,0,0,1,0,0,1>>>>,
    <<"(", <<1,0,1,1,0>>>>, <<")", <<1,0,1,1,0,1>>>>, <<"+", <<0,1,0,1,0>>>>,
    <<",", <<1,1,0,0,1,1>>>>, <<"-", <<1,0,0,0,0,1>>>>, <<".", <<0,1,0,1,0,1>>>>,
    <<"/", <<1,0,0,1,0>>>>, <<":", <<1,1,1,0,0,0>>>>, <<";", <<1,0,1,0,1,0>>>>,
    <<"=", <<1,0,0,0,1>>>>, <<"?", <<0,0,1,1,0,0>>>>, <<"_", <<0,0,1,1,0,1>>>>,
    <<"@", <<0,1,1,0,1,0>>>>,
    <<"U diaeresis", <<0,0,1,1>>>>, <<"A diaeresis", <<0,1,0,1>>>>, <<"C cedilla", <<1,0,1,0,0>>>>,
    <<"O diaeresis", <<1,1,1,0>>>>, <<"E acute", <<0,0,1,0,0>>>>, <<"E grave", <<0,1,0,0,1>>>>,
    <<"A grave", <<0,1,1,0,1>>>>, <<"N tilde", <<1,1,0,1,1>>>>,
    <<"S cedilla", <<1,1,1,1>>>>, <<"Z caron", <<1,1,0,0,1>>>>,
    <<"<", <<0,0,0,1,0,1>>>>, <<">", <<1,0,0,0,1,0,1>>>>, <<"!", <<0,0,0,1,0>>>>,
    <<"&", <<0,1,0,0,0>>>>, <<"^", <<1,0,1,0,1>>>>, <<"~", <<0,1,0,1,0,0>>>> >>

g_prosign_table == <<
    <<"quote", <<"A","F">>>>, <<"'", <<"W","G">>>>, <<"$", <<"S","X">>>>, <<"(", <<"K","N">>>>,
    <<")", <<"K","K">>>>, <<"+", <<"A","R">>>>, <<",", <<"M","I","M">>>>, <<"-", <<"D","U">>>>,
    <<".", <<"A","A","A">>>>, <<"/", <<"D","N">>>>, <<":", <<"O","S">>>>, <<";", <<"K","R">>>>,
    <<"=", <<"B","T">>>>, <<"?", <<"I","M","I">>>>, <<"_", <<"I","Q">>>>, <<"@", <<"A","C">>>>,
    <<"<", <<"V","A">>>>, <<">", <<"B","K">>>>, <<"!", <<"S","N">>>>, <<"&", <<"A","S">>>>,
    <<"^", <<"K","A">>>>, <<"~", <<"A","L">>>> >>

NoCharacter == "none"
Entry(i) == IF i = 0 THEN NoCharacter ELSE CW_TABLE[i][1]

(* cw_character_to_representation_internal(): of equal characters the last *)
(* one stays in the table that the constructor fills.                      *)
CharacterToRepresentation(c) == CW_TABLE[SelectLastInSeq(CW_TABLE, LAMBDA e : e[1] = c)][2]

Hash(r) ==
    IF Len(r) \notin 1..max_length THEN 0 ELSE FoldLeft(LAMBDA hash, mark : 2 * hash + mark, 1, r)

(* cw_data_init_r2c_hash_table_internal(): the table and its completeness. *)
Lookup(hash) == IF hash = 0 THEN 0 ELSE SelectLastInSeq(CW_TABLE, LAMBDA e : Hash(e[2]) = hash)
IsComplete == \A i \in DOMAIN CW_TABLE : Hash(CW_TABLE[i][2]) # 0

\* Mutant: strncmp() up to the length of the entry.
DirectByPrefix(r) == SelectInSeq(CW_TABLE, LAMBDA e : IsPrefix(e[2], r))
Direct(r) == SelectInSeq(CW_TABLE, LAMBDA e : e[2] = r)
RepresentationToCharacterDirect(r) == Entry(Direct(r))

\* Mutant: the entry found is not compared.
RepresentationToCharacterByHashOnly(r) == Entry(Lookup(Hash(r)))
RepresentationToCharacter(r) ==
    LET found == Lookup(Hash(r)) IN
    IF IsComplete \/ (found # 0 /\ CW_TABLE[found][2] = r) THEN Entry(found) ELSE Entry(Direct(r))

-----------------------------------------------------------------------------
DataInit == max_length \in HashLengths /\ marks = <<>> /\ letters = <<>>

KeyMark(mark) ==
    /\ letters = <<>> /\ Len(marks) < MaxMarks
    /\ marks' = Append(marks, mark)
    /\ UNCHANGED <<max_length, letters>>

KeyLetter ==
    /\ marks = <<>> \/ letters # <<>>
    /\ \E i \in DOMAIN g_prosign_table, n \in 1..3 :
           /\ n <= Len(g_prosign_table[i][2])
           /\ letters' = SubSeq(g_prosign_table[i][2], 1, n)
           /\ Front(letters') = letters
    /\ marks' = marks \o CharacterToRepresentation(Last(letters'))
    /\ UNCHANGED max_length

DataNext == KeyLetter \/ \E mark \in {0, 1} : KeyMark(mark)

DataSpec == DataInit /\ [][DataNext]_dataVars

-----------------------------------------------------------------------------
(* What the tables' entries are: no two have the same marks, and a          *)
(* procedural signal has those of its letters.                             *)
EntriesDiffer ==
    /\ CW_TABLE \in Seq(STRING \X Seq({0, 1}))
    /\ \A i, j \in DOMAIN CW_TABLE : CW_TABLE[i][2] = CW_TABLE[j][2] => i = j
MarksOf(names) == FlattenSeq([k \in DOMAIN names |-> CharacterToRepresentation(names[k])])
ProsignsAreSpelled ==
    \A i \in DOMAIN g_prosign_table :
        /\ g_prosign_table[i][2] \in Seq({CW_TABLE[k][1] : k \in DOMAIN CW_TABLE})
        /\ <<g_prosign_table[i][1], MarksOf(g_prosign_table[i][2])>> \in {CW_TABLE[k] : k \in DOMAIN CW_TABLE}

(* However a representation is looked up, the answer is the same, whether  *)
(* or not every character has a hash; seven dashes are beyond the table.   *)
LookupsAgree ==
    marks # <<>> /\ Hash(marks) < UCharMax =>
        RepresentationToCharacter(marks) = RepresentationToCharacterDirect(marks)

(* A procedural signal keyed letter by letter without spaces is looked up  *)
(* as the character that it stands for: the tables agree, and nothing else *)
(* has its marks.                                                          *)
ProsignsAreCharacters ==
    letters # <<>> => \A i \in DOMAIN g_prosign_table :
        letters = g_prosign_table[i][2] => RepresentationToCharacter(marks) = g_prosign_table[i][1]

(* The tables answer alike: by hash or by search, by character or letter   *)
(* by letter.                                                              *)
TablesAgree == LookupsAgree /\ ProsignsAreCharacters

(* Every hash is an index of the table (lookup[] has UCHAR_MAX elements).  *)
HashFitsTable == Hash(marks) < UCharMax
=============================================================================
