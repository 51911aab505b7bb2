------------------------------ MODULE BangVars ------------------------------
(***************************************************************************)
(* Variables of a build script (var and vars in bang/ninja.lua), and the   *)
(* version of Ninja it requires.                                           *)
(*                                                                         *)
(* var(name) checks the name and returns a function that defines the       *)
(* variable.  vars % s expands the variables of s with all that is defined *)
(* when it is called.  Ninja reads the definitions in the order of the     *)
(* file, builddir first, and expands each value as it reads it.            *)
(***************************************************************************)
EXTENDS Naturals, Sequences, SequencesExt

CONSTANTS
  Name,             \* names of variables, builddir excepted
  Word,             \* text between references
  Value,            \* values given to variables, and to the option -b
  Query,            \* strings given to vars % s
  Version,          \* versions given to ninja_required_version
  DefaultBuilddir,  \* ".build"
  DefaultVersion,   \* ninja_required_version_for_bang
  MaxDefinitions    \* bound: definitions of variables in the file

builddir == "builddir"

NoValue == <<[kind |-> "none"]>>

\* A string is a sequence of words and references to variables.
word(w) == [kind |-> "word", w |-> w]
ref(n)  == [kind |-> "ref", name |-> n]

IsRef(tok) == tok.kind = "ref"

\* The variables s refers to.
Refs(s) == {tok.name : tok \in {t \in ToSet(s) : IsRef(t)}}

Token == {word(w) : w \in Word} \cup {ref(n) : n \in Name \cup {builddir}}

\* Versions are numbers separated by dots.
ASSUME VarsAssumption ==
  /\ builddir \notin Name
  /\ Value \cup Query \cup {DefaultBuilddir} \subseteq Seq(Token)
  /\ Version \cup {DefaultVersion} \subseteq Seq(Nat)
  /\ MaxDefinitions \in Nat

VARIABLES
  phase,            \* "script", "failed" or "done"
  overridden_builddir,          \* option -b
  builddir_token,   \* the value of builddir in the file
  curried,          \* names for which var(name) returned a function
  vars,             \* name |-> value
  nbvars,           \* how many definitions were emitted
  file,             \* the definitions of the Ninja file, builddir excepted
  answer,           \* what the last call of vars % s returned
  version,          \* ninja_required_version_token
  asked             \* history: versions that were required

all == <<phase, overridden_builddir, builddir_token, curried, vars, nbvars,
         file, answer, version, asked>>

\* No call of vars % s yet.
NoAnswer == [s |-> NoValue, toks |-> NoValue, dir |-> NoValue]

Fail == /\ phase' = "failed"
        /\ UNCHANGED <<overridden_builddir, builddir_token, curried, vars, nbvars,
                       file, version, asked>>

-----------------------------------------------------------------------------
(* Definition of variables. *)

\* var(name).  builddir_definitions > 1 when builddir was already given to var.
VarName(n) ==
  /\ phase = "script"
  /\ \/ /\ n \in DOMAIN vars \/ (n = builddir /\ builddir \in curried)
        /\ Fail /\ UNCHANGED answer
     \/ /\ n \notin DOMAIN vars /\ ~(n = builddir /\ builddir \in curried)
        /\ curried' = curried \cup {n}
        /\ UNCHANGED <<phase, overridden_builddir, builddir_token, vars, nbvars,
                       file, answer, version, asked>>

\* Mutation: the script has the last word.
DefineBuilddir_Script(value) ==
  /\ phase = "script" /\ builddir \in curried
  /\ builddir_token' = value
  /\ UNCHANGED <<phase, overridden_builddir, curried, vars, nbvars, file, answer,
                 version, asked>>

\* The function var(builddir) returned: -b has the last word.
DefineBuilddir(value) ==
  /\ phase = "script" /\ builddir \in curried
  /\ builddir_token' =
        IF overridden_builddir # NoValue THEN overridden_builddir ELSE value
  /\ UNCHANGED <<phase, overridden_builddir, curried, vars, nbvars, file, answer,
                 version, asked>>

\* The function returned for another name.
Define(n, value) ==
  /\ phase = "script" /\ n \in curried \ {builddir}
  /\ Len(file) < MaxDefinitions
  /\ file' = Append(file, [name |-> n, value |-> value])
  /\ vars' = [m \in DOMAIN vars \cup {n} |-> IF m = n THEN value ELSE vars[m]]
  /\ nbvars' = nbvars + 1
  /\ UNCHANGED <<phase, overridden_builddir, builddir_token, curried, answer,
                 version, asked>>

-----------------------------------------------------------------------------
(* Expansion: vars % s. *)

Defined == DOMAIN vars \cup {builddir}

\* vars[n], through __index for builddir.
ValueOf(n) ==
  IF n # builddir THEN vars[n]
  ELSE IF overridden_builddir # NoValue THEN overridden_builddir
  ELSE builddir_token

\* s:gsub("%$([%w_%-]+)", vars): the references to defined variables are
\* replaced, once.
gsub(s) ==
  FlattenSeq([i \in DOMAIN s |->
                IF IsRef(s[i]) /\ s[i].name \in Defined
                THEN ValueOf(s[i].name) ELSE <<s[i]>>])

\* Mutation: builddir is not counted.
max_iterations_NoBuilddir == nbvars + 1

\* Worst case: one iteration per variable, one for builddir and one more.
max_iterations == nbvars + 1 + 1

\* s after i replacements.
Rounds(s) ==
  LET round[i \in 0 .. max_iterations] == IF i = 0 THEN s ELSE gsub(round[i - 1])
  IN round

\* The iterations that change nothing.
Stable(s) ==
  LET round == Rounds(s) IN
  {i \in 1 .. max_iterations : round[i] = round[i - 1]}

\* expand(s): the first string that gsub leaves as it is, or else an error.
\* `dir`: builddir when it was called.
Expand(s) ==
  /\ phase = "script"
  /\ \/ /\ Stable(s) # {}
        /\ LET i == CHOOSE k \in Stable(s) : \A j \in Stable(s) : k <= j IN
           answer' = [s |-> s, toks |-> Rounds(s)[i], dir |-> builddir_token]
        /\ UNCHANGED <<phase, overridden_builddir, builddir_token, curried, vars,
                       nbvars, file, version, asked>>
     \/ /\ Stable(s) = {}
        /\ answer' = [NoAnswer EXCEPT !.s = s]
        /\ Fail

-----------------------------------------------------------------------------
(* ninja_required_version. *)

\* Mutation: a greater number is enough, wherever it is.
Greater_Anywhere(new, current) ==
  \E i \in DOMAIN new : new[i] > (IF i <= Len(current) THEN current[i] ELSE 0)

\* The first number that differs decides; those current lacks are 0.
Greater(new, current) ==
  LET cur(i) == IF i <= Len(current) THEN current[i] ELSE 0 IN
  \E i \in DOMAIN new : /\ new[i] > cur(i)
                        /\ \A j \in 1 .. i - 1 : new[j] = cur(j)

RequireVersion(v) ==
  /\ phase = "script"
  /\ version' = IF Greater(v, version) THEN v ELSE version
  /\ asked' = asked \cup {v}
  /\ UNCHANGED <<phase, overridden_builddir, builddir_token, curried, vars,
                 nbvars, file, answer>>

-----------------------------------------------------------------------------

\* The script is over and the Ninja file is written.
Finish ==
  /\ phase = "script" /\ phase' = "done"
  /\ UNCHANGED <<overridden_builddir, builddir_token, curried, vars, nbvars, file,
                 answer, version, asked>>

Exited == phase # "script" /\ UNCHANGED all

Init ==
  /\ phase = "script"
  /\ overridden_builddir \in Value \cup {NoValue}
  /\ builddir_token = IF overridden_builddir # NoValue THEN overridden_builddir
                      ELSE DefaultBuilddir
  /\ curried = {} /\ vars = <<>> /\ nbvars = 0 /\ file = <<>>
  /\ answer = NoAnswer
  /\ version = DefaultVersion /\ asked = {}

Next ==
  \/ \E n \in Name \cup {builddir} : VarName(n)
  \/ \E value \in Value : DefineBuilddir(value)
  \/ \E n \in Name, value \in Value : Define(n, value)
  \/ \E s \in Query : Expand(s)
  \/ \E v \in Version : RequireVersion(v)
  \/ Finish
  \/ Exited

Spec == Init /\ [][Next]_all

-----------------------------------------------------------------------------
(* What Ninja does with the definitions. *)

\* s where the references are replaced by the values of env, once; a variable
\* that has none is empty.
NinjaEval(s, env) ==
  FlattenSeq([i \in DOMAIN s |->
                IF ~IsRef(s[i]) THEN <<s[i]>>
                ELSE IF s[i].name \in DOMAIN env THEN env[s[i].name] ELSE <<>>])

\* env after a definition.
Read(env, d) ==
  [m \in DOMAIN env \cup {d.name} |->
     IF m = d.name THEN NinjaEval(d.value, env) ELSE env[m]]

\* The definitions in the order of the file, builddir first.
NinjaEnv ==
  LET defs == <<[name |-> builddir, value |-> builddir_token]>> \o file
      env[k \in 0 .. Len(defs)] == IF k = 0 THEN <<>> ELSE Read(env[k-1], defs[k])
  IN  env[Len(defs)]

-----------------------------------------------------------------------------
(* Properties. *)

\* Every variable is defined once, after those it refers to.
InOrder ==
  /\ Refs(builddir_token) = {}
  /\ \A i \in DOMAIN file :
       /\ Refs(file[i].value) \subseteq
            {builddir} \cup {file[j].name : j \in 1 .. i - 1}
       /\ \A j \in 1 .. i - 1 : file[j].name # file[i].name

\* vars % s is what Ninja makes of s (vars "expands all Ninja variables"),
\* though it replaces references again and again where Ninja reads the file
\* once: provided that the definitions are in order, that nothing is left to
\* expand in the answer and that builddir has not changed since.
ExpandAgreesWithNinja ==
  phase = "done" /\ InOrder
  /\ answer.s # NoValue /\ Refs(answer.toks) = {} /\ answer.dir = builddir_token
    => answer.toks = NinjaEval(answer.s, NinjaEnv)

\* With a variable, N has those its value refers to.
ClosedByValues(N) == \A m \in N \cap Defined : Refs(ValueOf(m)) \subseteq N

\* The variables s refers to, directly or not.
Reachable(s) ==
  {n \in Name \cup {builddir} :
     \A N \in SUBSET (Name \cup {builddir}) :
       Refs(s) \subseteq N /\ ClosedByValues(N) => n \in N}

\* expand reports a recursive definition only when there is one: the number of
\* iterations is enough for the longest chain of variables, builddir included.
FailsOnlyOnRecursion ==
  phase = "failed" /\ answer.s # NoValue /\ answer.toks = NoValue =>
    \E n \in Reachable(answer.s) \cap Defined : n \in Reachable(ValueOf(n))

\* A version has no number after its last one.
Number(v, i) == IF i <= Len(v) THEN v[i] ELSE 0

\* What v has less than w comes after what it has more.
AtLeast(v, w) ==
  \A i \in DOMAIN w :
    Number(v, i) < w[i] => \E j \in 1 .. i - 1 : Number(v, j) > w[j]

\* The file requires a version of Ninja that is enough for all those the
\* script asked for, and it is one of them or the one bang needs.
VersionIsEnough ==
  /\ version \in asked \cup {DefaultVersion}
  /\ \A v \in asked \cup {DefaultVersion} : AtLeast(version, v)
=============================================================================
