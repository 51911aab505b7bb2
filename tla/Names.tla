------------------------------- MODULE Names --------------------------------
(***************************************************************************)
(* Names of rules, targets, pools and variables in a Ninja file, and the   *)
(* name generator of bang/ninja.lua.                                       *)
(*                                                                         *)
(* bang/ninja.lua makes new rule names by appending "-1", "-2", ... to a   *)
(* name (unique_rule_name).  A name is a word with the numbers appended to *)
(* it: "install" is Plain("install"), "install-1" is                       *)
(* Numbered(Plain("install"), 1).  A script that writes "install-1" itself *)
(* writes that same name.                                                  *)
(***************************************************************************)
EXTENDS Naturals, Sequences, FiniteSets

Elements(seq) == {seq[i] : i \in DOMAIN seq}

Distinct(seq) == \A i, j \in DOMAIN seq : seq[i] = seq[j] => i = j

CONSTANT Word       \* the words names are made of

\* The words bang/*.lua itself uses as names of rules, targets and variables.
ReservedWord ==
  {"phony", "prefix", "install", "clean", "mrproper", "help", "bang"}

ASSUME WordAssumption == ReservedWord \subseteq Word

Name == [word : Word, nums : Seq(Nat)]

Plain(w) == [word |-> w, nums |-> <<>>]

Numbered(name, i) == [word |-> name.word, nums |-> Append(name.nums, i)]

-----------------------------------------------------------------------------

\* The candidate names unique_rule_name tries, in order: name, name-1, ...
Candidate(name, i) == IF i = 0 THEN name ELSE Numbered(name, i)

\* Mutation: the names already used are ignored.
unique_rule_name_Same(name, used) == name

\* unique_rule_name: the first candidate that no rule of `used` has.
unique_rule_name(name, used) ==
  Candidate(name, CHOOSE i \in 0 .. Cardinality(used) :
                    /\ Candidate(name, i) \notin used
                    /\ \A j \in 0 .. i - 1 : Candidate(name, j) \in used)
=============================================================================
