----------------------------- MODULE BangProofs -----------------------------
(* Theorems about Bang.tla and the names it gives (Names.tla), for every value *)
(* of the constants.                                                           *)
EXTENDS Bang, FiniteSetTheorems, WellFoundedInduction, TLAPS

-----------------------------------------------------------------------------
(* What unique_rule_name of bang/ninja.lua returns, for every table of rules. *)

LEMMA PlainName ==
  ASSUME NEW w \in Word
  PROVE  Plain(w) \in Name
BY DEF Plain, Name

LEMMA CandidateName ==
  ASSUME NEW name \in Name, NEW i \in Nat
  PROVE  Candidate(name, i) \in Name
<1>1. Append(name.nums, i) \in Seq(Nat)
  BY DEF Name
<1>2. Numbered(name, i) \in Name
  BY <1>1 DEF Numbered, Name
<1>. QED
  BY <1>2 DEF Candidate

\* Two different indices never give the same candidate.
LEMMA CandidateInjective ==
  ASSUME NEW name \in Name, NEW i \in Nat, NEW j \in Nat, i # j
  PROVE  Candidate(name, i) # Candidate(name, j)
<1>1. name.nums \in Seq(Nat)
  BY DEF Name
<1>2. CASE i # 0 /\ j # 0
  <2>1. Append(name.nums, i)[Len(name.nums) + 1] = i
    BY <1>1
  <2>2. Append(name.nums, j)[Len(name.nums) + 1] = j
    BY <1>1
  <2>3. Numbered(name, i).nums = Append(name.nums, i)
    BY DEF Numbered, Name
  <2>4. Numbered(name, j).nums = Append(name.nums, j)
    BY DEF Numbered, Name
  <2>. QED
    BY <1>2, <2>1, <2>2, <2>3, <2>4 DEF Candidate
<1>3. ASSUME NEW k \in Nat
      PROVE  Numbered(name, k) # name
  <2>1. Numbered(name, k).nums = Append(name.nums, k)
    BY DEF Numbered, Name
  <2>2. Len(Append(name.nums, k)) = Len(name.nums) + 1 /\ Len(name.nums) \in Nat
    BY <1>1
  <2>. QED
    BY <2>1, <2>2
<1>. QED
  BY <1>2, <1>3 DEF Candidate

\* Among the first Cardinality(used) + 1 candidates, one is not used.
LEMMA SomeCandidateIsFree ==
  ASSUME NEW name \in Name, NEW used, IsFiniteSet(used)
  PROVE  \E i \in 0 .. Cardinality(used) : Candidate(name, i) \notin used
<1>. DEFINE n == Cardinality(used)
            f == [i \in 0 .. n |-> Candidate(name, i)]
<1>1. n \in Nat
  BY FS_CardinalityType
<1>2. IsFiniteSet(0 .. n) /\ Cardinality(0 .. n) = n + 1
  BY <1>1, FS_Interval
<1>. SUFFICES ASSUME \A i \in 0 .. n : Candidate(name, i) \in used
              PROVE  FALSE
  OBVIOUS
<1>3. f \in [0 .. n -> used]
  OBVIOUS
<1>4. Cardinality(0 .. n) > Cardinality(used)
  BY <1>1, <1>2
<1>. HIDE DEF f, n
<1>5. \E i, j \in 0 .. n : i # j /\ f[i] = f[j]
  BY <1>2, <1>3, <1>4, FS_PigeonHole
<1>6. \A i \in 0 .. n : f[i] = Candidate(name, i)
  BY DEF f
<1>. QED
  BY <1>1, <1>5, <1>6, CandidateInjective

\* The loop of unique_rule_name ends, at a name no rule has.
THEOREM UniqueRuleName ==
  ASSUME NEW name \in Name, NEW used, IsFiniteSet(used)
  PROVE  /\ unique_rule_name(name, used) \in Name
         /\ unique_rule_name(name, used) \notin used
<1>. DEFINE n     == Cardinality(used)
            Free  == {i \in 0 .. n : Candidate(name, i) \notin used}
            First(i) == /\ Candidate(name, i) \notin used
                        /\ \A j \in 0 .. i - 1 : Candidate(name, j) \in used
            k     == CHOOSE i \in 0 .. n : First(i)
<1>1. n \in Nat
  BY FS_CardinalityType
<1>2. Free # {} /\ Free \subseteq Nat
  BY <1>1, SomeCandidateIsFree
<1>. HIDE DEF Free
<1>3. PICK m \in Free : \A i \in Free : <<i, m>> \notin OpToRel(<, Nat)
  BY <1>2, WFMin, NatLessThanWellFounded, Zenon
<1>4. \A i \in Free : ~(i < m)
  BY <1>2, <1>3, Zenon DEF OpToRel
<1>5. m \in 0 .. n /\ Candidate(name, m) \notin used
  BY <1>3 DEF Free
<1>6. ASSUME NEW j \in 0 .. m - 1
      PROVE  Candidate(name, j) \in used
  <2>1. j \in 0 .. n /\ j < m
    BY <1>1, <1>5
  <2>. QED
    BY <2>1, <1>4 DEF Free
<1>7. k \in 0 .. n /\ First(k)
  BY <1>5, <1>6, Zenon
<1>8. unique_rule_name(name, used) = Candidate(name, k)
  BY DEF unique_rule_name
<1>. QED
  BY <1>1, <1>7, <1>8, CandidateName

-----------------------------------------------------------------------------
(* The fields of a call, by its operation. *)

LEMMA CallByOp ==
  ASSUME NEW c \in Call
  PROVE  /\ c.op \in {"var", "define"} => c \in VarCall
         /\ c.op = "rule" => c \in RuleCall
         /\ c.op = "build" => c \in BuildCall
         /\ c.op = "inline" => c \in InlineCall
         /\ c.op = "phony" => c \in PhonyCall
         /\ c.op = "pool" => c \in PoolCall
         /\ c.op = "default" => c \in DefaultCall
         /\ c.op = "generator" => c \in GeneratorCall
         /\ c.op \in {"clean", "mrproper"} => c \in CleanCall
         /\ c.op = "install" => c \in InstallCall
         /\ c.op = "help" => c \in HelpCall
         /\ c.op = "atexit" => c \in AtexitCall
         /\ c.op = "require" => c \in RequireCall
BY DEF Call, VarCall, RuleCall, BuildCall, InlineCall, PhonyCall, PoolCall,
       DefaultCall, GeneratorCall, CleanCall, InstallCall, HelpCall,
       DescribeCall, AtexitCall, RequireCall

LEMMA HeadOfTodo ==
  ASSUME RunType, todo # <<>>
  PROVE  /\ Head(todo) \in Call /\ Tail(todo) \in Seq(Call)
         /\ phase \in Section
BY DEF RunType, Phase, Section

LEMMA PhonyName == phony_rule \in Name
BY WordAssumption DEF phony_rule, Plain, Name, ReservedWord

-----------------------------------------------------------------------------
(* Type correctness. *)

LEMMA TypeInit == Init => TypeOK
<1>. SUFFICES ASSUME Init
              PROVE  TypeOK
  OBVIOUS
<1>1. RunType
  <2>1. phase = "script" /\ failed = FALSE /\ calls = 0 /\ todo = <<>>
    BY DEF Init
  <2>2. calls \in 0 .. MaxCalls
    BY <2>1, BoundAssumption
  <2>3. todo \in Seq(Call)
    BY <2>1
  <2>4. phase \in Phase /\ failed \in BOOLEAN
    BY <2>1 DEF Phase
  <2>. QED
    BY <2>1, <2>2, <2>3, <2>4 DEF RunType
<1>2. TableType
  <2>1. DOMAIN rules = {phony_rule} /\ rules[phony_rule] = {}
    BY DEF Init
  <2>2. IsFiniteSet(DOMAIN rules)
    BY <2>1, FS_Singleton
  <2>. QED
    BY <2>1, <2>2, PhonyName DEF Init, TableType
<1>3. BuildType
  BY DEF Init, BuildType
<1>4. GenType
  <2>1. gen_flags = [use |-> "unset", implicit_in |-> {}, keys |-> {}]
    BY DEF Init
  <2>2. modpath \subseteq Name
    BY FileAssumption DEF Init
  <2>. QED
    BY <2>1, <2>2 DEF GenType
<1>5. tokens \in Seq(Statement)
  BY DEF Init
<1>6. RequestType
  <2>1. directories_to_clean = <<>> /\ directories_to_clean_more = <<>>
    BY DEF Init
  <2>2. /\ install_targets = {} /\ help_targets = {} /\ help_described = FALSE
        /\ help_token = {} /\ groups = {}
    BY DEF Init
  <2>3. <<>> \in Seq(Dir)
    OBVIOUS
  <2>. QED
    BY <2>1, <2>2, <2>3, Zenon DEF RequestType
<1>7. AtexitType
  BY DEF Init, AtexitType
<1>. QED
  BY <1>1, <1>2, <1>3, <1>4, <1>5, <1>6, <1>7 DEF TypeOK

LEMMA TypeStutter == TypeOK /\ UNCHANGED state => TypeOK'
BY DEF TypeOK, RunType, TableType, BuildType, GenType, RequestType, AtexitType,
       state, RunState, TableState, BuildState, GenState, RequestState,
       LocalState, AtexitState

LEMMA TypeError == TypeOK /\ Error => TypeOK'
BY DEF TypeOK, RunType, TableType, BuildType, GenType, RequestType, AtexitType,
       Error, RunState, TableState, BuildState, GenState, RequestState,
       LocalState, AtexitState

\* A call that returns.
LEMMA TypeReturn ==
  ASSUME RunType, todo # <<>>, Return, UNCHANGED RunState
  PROVE  RunType'
<1>1. phase' = phase /\ calls' = calls /\ failed' = failed
  BY DEF Return, RunState
<1>2. todo' \in Seq(Call)
  BY HeadOfTodo DEF Return
<1>3. phase # "done"
  BY DEF RunType
<1>. QED
  BY <1>1, <1>2, <1>3 DEF RunType

LEMMA TypeVarName == TypeOK /\ VarName => TypeOK'
<1>. SUFFICES ASSUME TypeOK, VarName
              PROVE  TypeOK'
  OBVIOUS
<1>. DEFINE c == Head(todo)
<1>1. c \in VarCall
  BY HeadOfTodo, CallByOp DEF TypeOK, VarName, Calling
<1>2. CASE Error
  BY <1>2, TypeError
<1>3. CASE ~Error
  <2>1. RunType'
    BY <1>3, TypeReturn DEF VarName, Calling, TypeOK
  <2>2. tokens' \in Seq(Statement)
    BY <1>3 DEF VarName, TypeOK
  <2>3. TableType'
    BY <1>1, <1>3 DEF VarName, VarCall, TypeOK, TableType
  <2>4. BuildType' /\ GenType' /\ RequestType' /\ AtexitType'
    BY <1>3 DEF VarName, TypeOK, BuildType, GenType, RequestType, AtexitType,
                BuildState, GenState, RequestState, LocalState, AtexitState
  <2>. QED
    BY <2>1, <2>2, <2>3, <2>4 DEF TypeOK
<1>. QED
  BY <1>2, <1>3

LEMMA TypeVarValue == TypeOK /\ VarValue => TypeOK'
<1>. SUFFICES ASSUME TypeOK, VarValue
              PROVE  TypeOK'
  OBVIOUS
<1>. DEFINE c == Head(todo)
<1>1. c \in VarCall
  BY HeadOfTodo, CallByOp DEF TypeOK, VarValue, Calling
<1>2. RunType'
  BY TypeReturn DEF VarValue, Calling, TypeOK
<1>3. tokens' \in Seq(Statement)
  <2>1. [kind |-> "var", name |-> c.name] \in [kind : {"var"}, name : Name]
    BY <1>1 DEF VarCall
  <2>2. [kind |-> "var", name |-> c.name] \in Statement
    BY <2>1, Zenon DEF Statement
  <2>. QED
    BY <2>2 DEF VarValue, TypeOK
<1>4. TableType'
  BY <1>1 DEF VarValue, VarCall, TypeOK, TableType
<1>5. BuildType' /\ GenType' /\ RequestType' /\ AtexitType'
  BY DEF VarValue, TypeOK, BuildType, GenType, RequestType, AtexitType,
         BuildState, GenState, RequestState, LocalState, AtexitState
<1>. QED
  BY <1>2, <1>3, <1>4, <1>5 DEF TypeOK

LEMMA TypeRule == TypeOK /\ Rule => TypeOK'
<1>. SUFFICES ASSUME TypeOK, Rule
              PROVE  TypeOK'
  OBVIOUS
<1>. DEFINE c == Head(todo)
<1>1. c \in RuleCall /\ phase \in Section
  BY HeadOfTodo, CallByOp DEF TypeOK, Rule, Calling
<1>2. CASE Error
  BY <1>2, TypeError
<1>3. CASE ~Error
  <2>1. RunType'
    BY <1>3, TypeReturn DEF Rule, RuleAllowed, Calling, TypeOK
  <2>2. tokens' \in Seq(Statement)
    <3>1. [kind |-> "rule", name |-> c.name, sec |-> phase]
            \in [kind : {"rule"}, name : Name, sec : Section]
      BY <1>1 DEF RuleCall
    <3>2. [kind |-> "rule", name |-> c.name, sec |-> phase] \in Statement
      BY <3>1, Zenon DEF Statement
    <3>. QED
      BY <3>2, <1>3 DEF Rule, RuleAllowed, TypeOK
  <2>3. TableType'
    <3>1. DOMAIN rules' = DOMAIN rules \cup {c.name}
      BY <1>3 DEF Rule, RuleAllowed
    <3>2. IsFiniteSet(DOMAIN rules')
      BY <3>1, FS_AddElement DEF TypeOK, TableType
    <3>. QED
      BY <1>1, <1>3, <3>2 DEF Rule, RuleAllowed, RuleCall, TypeOK, TableType
  <2>4. BuildType' /\ GenType' /\ RequestType' /\ AtexitType'
    BY <1>3 DEF Rule, RuleAllowed, TypeOK, BuildType, GenType, RequestType, AtexitType,
                BuildState, GenState, RequestState, LocalState, AtexitState
  <2>. QED
    BY <2>1, <2>2, <2>3, <2>4 DEF TypeOK
<1>. QED
  BY <1>2, <1>3

LEMMA TypePool == TypeOK /\ Pool => TypeOK'
<1>. SUFFICES ASSUME TypeOK, Pool
              PROVE  TypeOK'
  OBVIOUS
<1>. DEFINE c == Head(todo)
<1>1. c \in PoolCall
  BY HeadOfTodo, CallByOp DEF TypeOK, Pool, Calling
<1>2. CASE Error
  BY <1>2, TypeError
<1>3. CASE ~Error
  <2>1. RunType'
    BY <1>3, TypeReturn DEF Pool, Calling, TypeOK
  <2>2. tokens' \in Seq(Statement)
    <3>1. [kind |-> "pool", name |-> c.name] \in [kind : {"pool"}, name : Name]
      BY <1>1 DEF PoolCall
    <3>2. [kind |-> "pool", name |-> c.name] \in Statement
      BY <3>1, Zenon DEF Statement
    <3>. QED
      BY <3>2, <1>3 DEF Pool, TypeOK
  <2>3. TableType'
    BY <1>1, <1>3 DEF Pool, PoolCall, TypeOK, TableType
  <2>4. BuildType' /\ GenType' /\ RequestType' /\ AtexitType'
    BY <1>3 DEF Pool, TypeOK, BuildType, GenType, RequestType, AtexitType,
                BuildState, GenState, RequestState, LocalState, AtexitState
  <2>. QED
    BY <2>1, <2>2, <2>3, <2>4 DEF TypeOK
<1>. QED
  BY <1>2, <1>3

LEMMA TypeInlineBuild == TypeOK /\ InlineBuild => TypeOK'
<1>. SUFFICES ASSUME TypeOK, InlineBuild
              PROVE  TypeOK'
  OBVIOUS
<1>. DEFINE c == Head(todo)
            r == unique_rule_name(Ident[c.outs], DOMAIN rules)
            def == [op |-> "rule", name |-> r, valid |-> TRUE,
                    implicit_in |-> {}]
            use == [op |-> "build", outs |-> c.outs, rule |-> r,
                    ins |-> c.ins, implicit_in |-> c.implicit_in,
                    no_default |-> c.no_default]
<1>1. c \in InlineCall /\ Tail(todo) \in Seq(Call)
  BY HeadOfTodo, CallByOp DEF TypeOK, InlineBuild, Calling
<1>2. r \in Name
  <2>1. Ident[c.outs] \in Name
    BY <1>1, IdentAssumption DEF InlineCall
  <2>. QED
    BY <2>1, UniqueRuleName DEF TypeOK, TableType
<1>3. def \in Call
  <2>1. def \in RuleCall
    BY <1>2 DEF RuleCall
  <2>. QED
    BY <2>1, Zenon DEF Call
<1>4. use \in Call
  <2>1. c.outs \in Seq(Name)
    BY <1>1, IdentAssumption DEF InlineCall
  <2>2. /\ c.ins \in SUBSET Name /\ c.implicit_in \in SUBSET Name
        /\ c.no_default \in BOOLEAN
    BY <1>1 DEF InlineCall
  <2>3. use \in BuildCall
    <3>. HIDE DEF r, c
    <3>. QED
      BY <1>2, <2>1, <2>2 DEF BuildCall
  <2>. QED
    BY <2>3, Zenon DEF Call
<1>5. RunType'
  <2>1. todo' = <<def, use>> \o Tail(todo)
    BY DEF InlineBuild
  <2>2. todo' \in Seq(Call)
    BY <1>1, <1>3, <1>4, <2>1
  <2>3. phase' = phase /\ phase # "done" /\ failed' = failed /\ calls' = calls
    BY DEF InlineBuild, Calling, TypeOK, RunType, RunState
  <2>. QED
    BY <2>2, <2>3 DEF TypeOK, RunType
<1>6. tokens' \in Seq(Statement)
  BY DEF InlineBuild, TypeOK
<1>7. TableType' /\ BuildType' /\ GenType' /\ RequestType' /\ AtexitType'
  BY DEF InlineBuild, TypeOK, TableType, BuildType, GenType, RequestType,
         AtexitType, TableState, BuildState, GenState, RequestState,
         LocalState, AtexitState
<1>. QED
  BY <1>5, <1>6, <1>7 DEF TypeOK

LEMMA TypePhony == TypeOK /\ Phony => TypeOK'
<1>. SUFFICES ASSUME TypeOK, Phony
              PROVE  TypeOK'
  OBVIOUS
<1>. DEFINE c == Head(todo)
            use == [op |-> "build", outs |-> c.outs, rule |-> phony_rule,
                    ins |-> c.ins, implicit_in |-> {},
                    no_default |-> c.no_default]
<1>1. c \in PhonyCall /\ Tail(todo) \in Seq(Call)
  BY HeadOfTodo, CallByOp DEF TypeOK, Phony, Calling
<1>2. use \in Call
  <2>1. c.outs \in Seq(Name) /\ c.ins \in SUBSET Name /\ c.no_default \in BOOLEAN
    BY <1>1 DEF PhonyCall
  <2>2. use \in BuildCall
    <3>. HIDE DEF c
    <3>. QED
      BY <2>1, PhonyName DEF BuildCall
  <2>. QED
    BY <2>2, Zenon DEF Call
<1>3. RunType'
  <2>1. todo' = <<use>> \o Tail(todo)
    BY DEF Phony
  <2>2. todo' \in Seq(Call)
    BY <1>1, <1>2, <2>1
  <2>3. phase' = phase /\ phase # "done" /\ failed' = failed /\ calls' = calls
    BY DEF Phony, Calling, TypeOK, RunType, RunState
  <2>. QED
    BY <2>2, <2>3 DEF TypeOK, RunType
<1>4. tokens' \in Seq(Statement)
  BY DEF Phony, TypeOK
<1>5. TableType' /\ BuildType' /\ GenType' /\ RequestType' /\ AtexitType'
  BY DEF Phony, TypeOK, TableType, BuildType, GenType, RequestType,
         AtexitType, TableState, BuildState, GenState, RequestState,
         LocalState, AtexitState
<1>. QED
  BY <1>3, <1>4, <1>5 DEF TypeOK

LEMMA TypeBuild == TypeOK /\ Build => TypeOK'
<1>. SUFFICES ASSUME TypeOK, Build
              PROVE  TypeOK'
  OBVIOUS
<1>. DEFINE c == Head(todo)
            s == [kind |-> "build", outs |-> c.outs, rule |-> c.rule,
                  ins |-> c.ins, implicit_in |-> rules[c.rule] \cup c.implicit_in,
                  sec |-> phase]
<1>1. c \in BuildCall /\ phase \in Section
  BY HeadOfTodo, CallByOp DEF TypeOK, Build, Calling
<1>2. /\ c.outs \in Seq(Name) /\ c.rule \in Name /\ c.ins \subseteq Name
      /\ c.implicit_in \subseteq Name
  BY <1>1 DEF BuildCall
<1>3. CASE Error
  BY <1>3, TypeError
<1>4. CASE ~Error
  <2>1. RunType'
    BY <1>4, TypeReturn DEF Build, Inherited, Calling, TypeOK
  <2>2. tokens' \in Seq(Statement)
    <3>1. rules[c.rule] \subseteq Name
      BY <1>4 DEF Build, Inherited, BuildAllowed, TypeOK, TableType
    <3>2. s \in [kind : {"build"}, outs : Seq(Name), rule : Name, ins : SUBSET Name,
                 implicit_in : SUBSET Name, sec : Section]
      <4>. HIDE DEF c
      <4>. QED
        BY <1>1, <1>2, <3>1
    <3>3. s \in Statement
      BY <3>2, Zenon DEF Statement
    <3>. QED
      BY <3>3, <1>4 DEF Build, Inherited, TypeOK
  <2>3. TableType' /\ GenType' /\ RequestType' /\ AtexitType'
    BY <1>4 DEF Build, Inherited, TypeOK, TableType, GenType, RequestType, AtexitType,
                TableState, GenState, RequestState, LocalState, AtexitState
  <2>4. BuildType'
    <3>1. Elements(c.outs) \subseteq Name
      BY <1>2 DEF Elements
    <3>2. /\ DOMAIN builds' = DOMAIN builds \cup Elements(c.outs)
          /\ \A o \in DOMAIN builds' :
               builds'[o] = IF o \in Elements(c.outs) THEN c.rule ELSE builds[o]
      BY <1>4 DEF Build, Inherited
    <3>3. c.rule \in DOMAIN rules /\ rules' = rules
      BY <1>4 DEF Build, Inherited, BuildAllowed, TableState
    <3>4. default_build_statements' \subseteq Name
      BY <1>4, <3>1 DEF Build, Inherited, TypeOK, BuildType
    <3>5. custom_default_statement' \in BOOLEAN
      BY <1>4 DEF Build, Inherited, TypeOK, BuildType
    <3>. QED
      BY <3>1, <3>2, <3>3, <3>4, <3>5 DEF TypeOK, BuildType
  <2>. QED
    BY <2>1, <2>2, <2>3, <2>4 DEF TypeOK
<1>. QED
  BY <1>3, <1>4

LEMMA TypeDefault == TypeOK /\ Default => TypeOK'
<1>. SUFFICES ASSUME TypeOK, Default
              PROVE  TypeOK'
  OBVIOUS
<1>. DEFINE c == Head(todo)
            s == [kind |-> "default", targets |-> c.targets, sec |-> phase]
<1>1. c \in DefaultCall /\ phase \in Section
  BY HeadOfTodo, CallByOp DEF TypeOK, Default, Calling
<1>2. RunType'
  BY TypeReturn DEF Default, Calling, TypeOK
<1>3. tokens' \in Seq(Statement)
  <2>1. s \in [kind : {"default"}, targets : SUBSET Name, sec : Section]
    BY <1>1 DEF DefaultCall
  <2>2. s \in Statement
    BY <2>1, Zenon DEF Statement
  <2>. QED
    BY <2>2 DEF Default, TypeOK
<1>4. BuildType'
  BY DEF Default, TypeOK, BuildType, TableState
<1>5. TableType' /\ GenType' /\ RequestType' /\ AtexitType'
  BY DEF Default, TypeOK, TableType, GenType, RequestType, AtexitType,
         TableState, GenState, RequestState, LocalState, AtexitState
<1>. QED
  BY <1>2, <1>3, <1>4, <1>5 DEF TypeOK

LEMMA TypeGenerator == TypeOK /\ Generator => TypeOK'
<1>. SUFFICES ASSUME TypeOK, Generator
              PROVE  TypeOK'
  OBVIOUS
<1>. DEFINE c == Head(todo)
<1>1. c \in GeneratorCall
  BY HeadOfTodo, CallByOp DEF TypeOK, Generator, Calling
<1>2. CASE Error
  BY <1>2, TypeError
<1>3. CASE ~Error
  <2>1. RunType'
    BY <1>3, TypeReturn DEF Generator, Calling, TypeOK
  <2>2. GenType'
    <3>1. c.implicit_in \subseteq Name /\ c.keys \subseteq FlagKey
      BY <1>1 DEF GeneratorCall
    <3>2. [use |-> "on", implicit_in |-> gen_flags.implicit_in \cup c.implicit_in,
           keys |-> gen_flags.keys \cup c.keys]
            \in [use : {"unset", "off", "on"}, implicit_in : SUBSET Name,
                 keys : SUBSET FlagKey]
      BY <3>1 DEF TypeOK, GenType
    <3>3. [gen_flags EXCEPT !.use = "off"]
            \in [use : {"unset", "off", "on"}, implicit_in : SUBSET Name,
                 keys : SUBSET FlagKey]
      BY DEF TypeOK, GenType
    <3>. QED
      BY <1>3, <3>2, <3>3 DEF Generator, TypeOK, GenType
  <2>3. /\ tokens' \in Seq(Statement) /\ TableType' /\ BuildType'
        /\ RequestType' /\ AtexitType'
    BY <1>3 DEF Generator, TypeOK, TableType, BuildType, RequestType, AtexitType,
                TableState, BuildState, RequestState, LocalState, AtexitState
  <2>. QED
    BY <2>1, <2>2, <2>3 DEF TypeOK
<1>. QED
  BY <1>2, <1>3

LEMMA TypeRequire == TypeOK /\ Require => TypeOK'
<1>. SUFFICES ASSUME TypeOK, Require
              PROVE  TypeOK'
  OBVIOUS
<1>1. Head(todo) \in RequireCall
  BY HeadOfTodo, CallByOp DEF TypeOK, Require, Calling
<1>2. RunType'
  BY TypeReturn DEF Require, Calling, TypeOK
<1>3. GenType'
  BY <1>1, FileAssumption DEF Require, RequireCall, TypeOK, GenType
<1>4. tokens' \in Seq(Statement) /\ TableType' /\ BuildType' /\ RequestType' /\ AtexitType'
  BY DEF Require, TypeOK, TableType, BuildType, RequestType, AtexitType,
         TableState, BuildState, GenState, RequestState, LocalState, AtexitState
<1>. QED
  BY <1>2, <1>3, <1>4 DEF TypeOK

LEMMA TypeClean == TypeOK /\ Clean => TypeOK'
<1>. SUFFICES ASSUME TypeOK, Clean
              PROVE  TypeOK'
  OBVIOUS
<1>1. Head(todo) \in CleanCall
  BY HeadOfTodo, CallByOp DEF TypeOK, Clean, Calling
<1>2. RunType'
  BY TypeReturn DEF Clean, Calling, TypeOK
<1>3. RequestType'
  BY <1>1 DEF Clean, CleanCall, TypeOK, RequestType, LocalState
<1>4. tokens' \in Seq(Statement) /\ TableType' /\ BuildType' /\ GenType' /\ AtexitType'
  BY DEF Clean, TypeOK, TableType, BuildType, GenType, AtexitType,
         TableState, BuildState, GenState, RequestState, LocalState, AtexitState
<1>. QED
  BY <1>2, <1>3, <1>4 DEF TypeOK

LEMMA TypeMrproper == TypeOK /\ Mrproper => TypeOK'
<1>. SUFFICES ASSUME TypeOK, Mrproper
              PROVE  TypeOK'
  OBVIOUS
<1>1. Head(todo) \in CleanCall
  BY HeadOfTodo, CallByOp DEF TypeOK, Mrproper, Calling
<1>2. RunType'
  BY TypeReturn DEF Mrproper, Calling, TypeOK
<1>3. RequestType'
  BY <1>1 DEF Mrproper, CleanCall, TypeOK, RequestType, LocalState
<1>4. tokens' \in Seq(Statement) /\ TableType' /\ BuildType' /\ GenType' /\ AtexitType'
  BY DEF Mrproper, TypeOK, TableType, BuildType, GenType, AtexitType,
         TableState, BuildState, GenState, RequestState, LocalState, AtexitState
<1>. QED
  BY <1>2, <1>3, <1>4 DEF TypeOK

LEMMA TypeInstall == TypeOK /\ Install => TypeOK'
<1>. SUFFICES ASSUME TypeOK, Install
              PROVE  TypeOK'
  OBVIOUS
<1>1. Head(todo) \in InstallCall
  BY HeadOfTodo, CallByOp DEF TypeOK, Install, Calling
<1>2. RunType'
  BY TypeReturn DEF Install, Calling, TypeOK
<1>3. RequestType'
  BY <1>1 DEF Install, InstallCall, TypeOK, RequestType, LocalState
<1>4. tokens' \in Seq(Statement) /\ TableType' /\ BuildType' /\ GenType' /\ AtexitType'
  BY DEF Install, TypeOK, TableType, BuildType, GenType, AtexitType,
         TableState, BuildState, GenState, RequestState, LocalState, AtexitState
<1>. QED
  BY <1>2, <1>3, <1>4 DEF TypeOK

LEMMA TypeHelp == TypeOK /\ Help => TypeOK'
<1>. SUFFICES ASSUME TypeOK, Help
              PROVE  TypeOK'
  OBVIOUS
<1>1. Head(todo) \in HelpCall
  BY HeadOfTodo, CallByOp DEF TypeOK, Help, Calling
<1>2. RunType'
  BY TypeReturn DEF Help, Calling, TypeOK
<1>3. RequestType'
  BY <1>1 DEF Help, HelpCall, TypeOK, RequestType, LocalState
<1>4. tokens' \in Seq(Statement) /\ TableType' /\ BuildType' /\ GenType' /\ AtexitType'
  BY DEF Help, TypeOK, TableType, BuildType, GenType, AtexitType,
         TableState, BuildState, GenState, RequestState, LocalState, AtexitState
<1>. QED
  BY <1>2, <1>3, <1>4 DEF TypeOK

LEMMA TypeDescribe == TypeOK /\ Describe => TypeOK'
<1>. SUFFICES ASSUME TypeOK, Describe
              PROVE  TypeOK'
  OBVIOUS
<1>2. RunType'
  BY TypeReturn DEF Describe, Calling, TypeOK
<1>3. RequestType'
  BY DEF Describe, TypeOK, RequestType, LocalState
<1>4. tokens' \in Seq(Statement) /\ TableType' /\ BuildType' /\ GenType' /\ AtexitType'
  BY DEF Describe, TypeOK, TableType, BuildType, GenType, AtexitType,
         TableState, BuildState, GenState, RequestState, LocalState, AtexitState
<1>. QED
  BY <1>2, <1>3, <1>4 DEF TypeOK

LEMMA TypeAtexit == TypeOK /\ Atexit => TypeOK'
<1>. SUFFICES ASSUME TypeOK, Atexit
              PROVE  TypeOK'
  OBVIOUS
<1>1. Head(todo) \in AtexitCall
  BY HeadOfTodo, CallByOp DEF TypeOK, Atexit, Calling
<1>2. RunType'
  BY TypeReturn DEF Atexit, Calling, TypeOK
<1>3. AtexitType'
  BY <1>1 DEF Atexit, AtexitCall, TypeOK, AtexitType
<1>4. tokens' \in Seq(Statement) /\ TableType' /\ BuildType' /\ GenType' /\ RequestType'
  BY DEF Atexit, TypeOK, TableType, BuildType, GenType, RequestType,
         TableState, BuildState, GenState, RequestState, LocalState, AtexitState
<1>. QED
  BY <1>2, <1>3, <1>4 DEF TypeOK
LEMMA TypeExecute == TypeOK /\ Execute => TypeOK'
BY TypeVarName, TypeVarValue, TypeRule, TypePool, TypeInlineBuild, TypePhony,
   TypeBuild, TypeDefault, TypeGenerator, TypeRequire, TypeClean, TypeMrproper,
   TypeInstall, TypeHelp, TypeDescribe, TypeAtexit
   DEF Execute

-----------------------------------------------------------------------------
(* The calls bang makes itself. *)

LEMMA ReservedName ==
  ASSUME NEW w \in ReservedWord
  PROVE  Plain(w) \in Name
BY WordAssumption, PlainName

LEMMA HelpIsCall ==
  ASSUME NEW n \in Name
  PROVE  [op |-> "help", name |-> n] \in Call
<1>1. [op |-> "help", name |-> n] \in HelpCall
  BY DEF HelpCall
<1>. QED
  BY <1>1, Zenon DEF Call

LEMMA VarIsCall ==
  ASSUME NEW n \in Name
  PROVE  /\ [op |-> "var", name |-> n] \in Call
         /\ [op |-> "define", name |-> n] \in Call
<1>1. /\ [op |-> "var", name |-> n] \in VarCall
      /\ [op |-> "define", name |-> n] \in VarCall
  BY DEF VarCall
<1>. QED
  BY <1>1, Zenon DEF Call

LEMMA RuleIsCall ==
  ASSUME NEW n \in Name
  PROVE  [op |-> "rule", name |-> n, valid |-> TRUE, implicit_in |-> {}] \in Call
<1>1. [op |-> "rule", name |-> n, valid |-> TRUE, implicit_in |-> {}] \in RuleCall
  BY DEF RuleCall
<1>. QED
  BY <1>1, Zenon DEF Call

LEMMA BuildIsCall ==
  ASSUME NEW outs \in Seq(Name), NEW r \in Name, NEW ins \in SUBSET Name,
         NEW imp \in SUBSET Name
  PROVE  [op |-> "build", outs |-> outs, rule |-> r, ins |-> ins,
          implicit_in |-> imp, no_default |-> TRUE] \in Call
<1>1. [op |-> "build", outs |-> outs, rule |-> r, ins |-> ins,
       implicit_in |-> imp, no_default |-> TRUE] \in BuildCall
  BY DEF BuildCall
<1>. QED
  BY <1>1, Zenon DEF Call

LEMMA InlineIsCall ==
  ASSUME NEW outs \in DOMAIN Ident
  PROVE  [op |-> "inline", outs |-> outs, ins |-> {}, implicit_in |-> {},
          no_default |-> TRUE] \in Call
<1>1. [op |-> "inline", outs |-> outs, ins |-> {}, implicit_in |-> {},
       no_default |-> TRUE] \in InlineCall
  BY DEF InlineCall
<1>. QED
  BY <1>1, Zenon DEF Call

LEMMA PhonyIsCall ==
  ASSUME NEW outs \in Seq(Name), NEW ins \in SUBSET Name
  PROVE  [op |-> "phony", outs |-> outs, ins |-> ins, implicit_in |-> {},
          no_default |-> TRUE] \in Call
<1>1. [op |-> "phony", outs |-> outs, ins |-> ins, implicit_in |-> {},
       no_default |-> TRUE] \in PhonyCall
  BY DEF PhonyCall
<1>. QED
  BY <1>1, Zenon DEF Call

LEMMA DefaultIsCall ==
  ASSUME NEW ts \in SUBSET Name
  PROVE  [op |-> "default", targets |-> ts] \in Call
<1>1. [op |-> "default", targets |-> ts] \in DefaultCall
  BY DEF DefaultCall
<1>. QED
  BY <1>1, Zenon DEF Call

LEMMA CleanCallsAreCalls ==
  ASSUME NEW name \in Name, NEW dirs \in Seq(Dir), NEW target \in [Dir -> Name],
         NEW others \in SUBSET Name,
         \A d \in Dir : <<target[d]>> \in DOMAIN Ident
  PROVE  CleanCalls(name, dirs, target, others) \in Seq(Call)
<1>. DEFINE h   == [op |-> "help", name |-> name]
            rm  == [i \in 1 .. Len(dirs) |->
                      [op |-> "inline", outs |-> <<target[dirs[i]]>>, ins |-> {},
                       implicit_in |-> {}, no_default |-> TRUE]]
            ins == {target[d] : d \in Elements(dirs)} \cup others
            all == [op |-> "phony", outs |-> <<name>>, ins |-> ins,
                    implicit_in |-> {}, no_default |-> TRUE]
<1>1. <<h>> \in Seq(Call)
  BY HelpIsCall
<1>2. rm \in Seq(Call)
  <2>1. \A i \in 1 .. Len(dirs) : dirs[i] \in Dir
    OBVIOUS
  <2>2. \A i \in 1 .. Len(dirs) :
          [op |-> "inline", outs |-> <<target[dirs[i]]>>, ins |-> {},
           implicit_in |-> {}, no_default |-> TRUE] \in Call
    BY <2>1, InlineIsCall
  <2>3. rm \in [1 .. Len(dirs) -> Call]
    BY <2>2
  <2>. QED
    BY <2>3
<1>3. <<all>> \in Seq(Call)
  <2>1. ins \in SUBSET Name
    BY DEF Elements
  <2>2. <<name>> \in Seq(Name)
    OBVIOUS
  <2>3. all \in Call
    BY <2>1, <2>2, PhonyIsCall
  <2>. QED
    BY <2>3
<1>4. <<h>> \o rm \o <<all>> \in Seq(Call)
  <2>. HIDE DEF h, rm, all
  <2>. QED
    BY <1>1, <1>2, <1>3
<1>5. <<>> \in Seq(Call)
  OBVIOUS
<1>. QED
  BY <1>4, <1>5 DEF CleanCalls
-----------------------------------------------------------------------------
(* The script, atexit.run and the sections bang adds. *)

LEMMA TypeEnter ==
  ASSUME RunType, NEW p \in Phase, p # "done", Enter(p), todo' \in Seq(Call)
  PROVE  RunType'
BY DEF RunType, Enter

LEMMA TypeScriptCall == ASSUME TypeOK, NEW c \in Script, ScriptCall(c)
                        PROVE  TypeOK'
<1>1. RunType'
  <2>1. todo' \in Seq(Call)
    BY ScriptAssumption DEF ScriptCall
  <2>2. calls' \in 0 .. MaxCalls
    BY BoundAssumption DEF ScriptCall, TypeOK, RunType
  <2>3. phase' = "script" /\ failed' = failed
    BY DEF ScriptCall, Idle
  <2>. QED
    BY <2>1, <2>2, <2>3 DEF TypeOK, RunType, Phase
<1>2. tokens' \in Seq(Statement) /\ TableType' /\ BuildType' /\ GenType' /\ RequestType' /\ AtexitType'
  BY DEF ScriptCall, TypeOK, TableType, BuildType, GenType, RequestType, AtexitType,
         TableState, BuildState, GenState, RequestState, LocalState, AtexitState
<1>. QED
  BY <1>1, <1>2 DEF TypeOK

LEMMA TypeEndOfScript == TypeOK /\ EndOfScript => TypeOK'
<1>. SUFFICES ASSUME TypeOK, EndOfScript
              PROVE  TypeOK'
  OBVIOUS
<1>2. RunType'
  <2>1. todo' \in Seq(Call)
    BY DEF EndOfScript, TypeOK, RunType
  <2>. QED
    BY <2>1, TypeEnter DEF EndOfScript, Phase, TypeOK
<1>3. tokens' \in Seq(Statement) /\ TableType' /\ BuildType' /\ GenType' /\ RequestType' /\ AtexitType'
  BY DEF EndOfScript, TypeOK, TableType, BuildType, GenType, RequestType, AtexitType,
         TableState, BuildState, GenState, RequestState, LocalState, AtexitState
<1>. QED
  BY <1>2, <1>3 DEF TypeOK

LEMMA TypeAtexitRound == TypeOK /\ AtexitRound => TypeOK'
<1>. SUFFICES ASSUME TypeOK, AtexitRound
              PROVE  TypeOK'
  OBVIOUS
<1>1. RunType'
  BY DEF AtexitRound, TypeOK, RunType, RunState
<1>2. AtexitType'
  BY DEF AtexitRound, TypeOK, AtexitType
<1>3. tokens' \in Seq(Statement) /\ TableType' /\ BuildType' /\ GenType' /\ RequestType'
  BY DEF AtexitRound, TypeOK, TableType, BuildType, GenType, RequestType,
         TableState, BuildState, GenState, RequestState, LocalState, AtexitState
<1>. QED
  BY <1>1, <1>2, <1>3 DEF TypeOK

LEMMA TypeAtexitRun == TypeOK /\ AtexitRun => TypeOK'
<1>. SUFFICES ASSUME TypeOK, AtexitRun
              PROVE  TypeOK'
  OBVIOUS
<1>1. Head(funcs) \in Fn /\ Tail(funcs) \in Seq(Fn)
  BY DEF AtexitRun, TypeOK, AtexitType
<1>2. RunType'
  <2>1. Body[Head(funcs)] \in Seq(Script)
    BY <1>1, ScriptAssumption
  <2>2. todo' \in Seq(Call)
    BY <2>1, ScriptAssumption DEF AtexitRun
  <2>3. phase' = "atexit" /\ failed' = failed /\ calls' = calls
    BY DEF AtexitRun, Idle, RunState
  <2>. QED
    BY <2>2, <2>3 DEF TypeOK, RunType, Phase
<1>3. AtexitType'
  BY <1>1 DEF AtexitRun, TypeOK, AtexitType
<1>4. tokens' \in Seq(Statement) /\ TableType' /\ BuildType' /\ GenType' /\ RequestType'
  BY DEF AtexitRun, TypeOK, TableType, BuildType, GenType, RequestType,
         TableState, BuildState, GenState, RequestState, LocalState, AtexitState
<1>. QED
  BY <1>2, <1>3, <1>4 DEF TypeOK

LEMMA TypeGenInstall == TypeOK /\ GenInstall => TypeOK'
<1>. SUFFICES ASSUME TypeOK, GenInstall
              PROVE  TypeOK'
  OBVIOUS
<1>1. /\ Plain("install") \in Name /\ Plain("prefix") \in Name
      /\ unique_rule_name(Plain("install"), DOMAIN rules) \in Name
  BY ReservedName, UniqueRuleName DEF ReservedWord, TypeOK, TableType
<1>2. RunType'
  <2>1. todo' \in Seq(Call)
    BY <1>1, HelpIsCall, VarIsCall, RuleIsCall DEF GenInstall
  <2>. QED
    BY <2>1, TypeEnter DEF GenInstall, Phase, TypeOK
<1>3. tokens' \in Seq(Statement) /\ TableType' /\ BuildType' /\ GenType' /\ AtexitType'
  BY DEF GenInstall, TypeOK, TableType, BuildType, GenType, AtexitType,
         TableState, BuildState, GenState, RequestState, LocalState, AtexitState
<1>4. RequestType'
  <2>1. groups' \subseteq Dir
    BY DEF GenInstall, TypeOK, RequestType
  <2>. QED
    BY <2>1 DEF GenInstall, TypeOK, RequestType, RequestState
<1>. QED
  BY <1>2, <1>3, <1>4 DEF TypeOK

LEMMA TypeInstallGroup == ASSUME TypeOK, NEW d \in Dir, InstallGroup(d)
                          PROVE  TypeOK'
<1>. DEFINE ins   == UNION {t.sources : t \in {t \in install_targets : t.dir = d}}
            names == {InstallTarget[t.dir] : t \in install_targets}
            copy  == [op |-> "build", outs |-> <<InstallTarget[d]>>,
                      rule |-> Plain("install"), ins |-> ins,
                      implicit_in |-> {}, no_default |-> TRUE]
            all   == [op |-> "phony", outs |-> <<Plain("install")>>,
                      ins |-> names, implicit_in |-> {}, no_default |-> TRUE]
<1>1. Plain("install") \in Name /\ InstallTarget[d] \in Name
  BY ReservedName, DirAssumption DEF ReservedWord
<1>2. ins \in SUBSET Name
  BY DEF TypeOK, RequestType
<1>3. names \in SUBSET Name
  BY DirAssumption DEF TypeOK, RequestType
<1>4. copy \in Call
  <2>1. <<InstallTarget[d]>> \in Seq(Name)
    BY <1>1
  <2>. HIDE DEF ins
  <2>. QED
    BY <1>1, <1>2, <2>1, BuildIsCall
<1>5. all \in Call
  <2>1. <<Plain("install")>> \in Seq(Name)
    BY <1>1
  <2>. HIDE DEF names
  <2>. QED
    BY <1>3, <2>1, PhonyIsCall
<1>6. todo' \in Seq(Call)
  <2>1. todo' = <<copy, all>> \/ todo' = <<copy>>
    BY DEF InstallGroup, SourcesIn
  <2>. HIDE DEF copy, all
  <2>2. <<copy, all>> \in Seq(Call)
    BY <1>4, <1>5
  <2>3. <<copy>> \in Seq(Call)
    BY <1>4
  <2>. QED
    BY <2>1, <2>2, <2>3
<1>7. RunType'
  <2>1. phase' = "install" /\ failed' = failed /\ calls' = calls
    BY DEF InstallGroup, NextGroup, Idle, RunState
  <2>. QED
    BY <1>6, <2>1 DEF TypeOK, RunType, Phase
<1>8. RequestType'
  BY DEF InstallGroup, TypeOK, RequestType, RequestState
<1>9. tokens' \in Seq(Statement) /\ TableType' /\ BuildType' /\ GenType' /\ AtexitType'
  BY DEF InstallGroup, TypeOK, TableType, BuildType, GenType, AtexitType,
         TableState, BuildState, GenState, RequestState, LocalState, AtexitState
<1>. QED
  BY <1>7, <1>8, <1>9 DEF TypeOK

LEMMA TypeGenClean == TypeOK /\ GenClean => TypeOK'
<1>. SUFFICES ASSUME TypeOK, GenClean
              PROVE  TypeOK'
  OBVIOUS
<1>1. Plain("clean") \in Name
  BY ReservedName DEF ReservedWord
<1>2. RunType'
  <2>1. todo' \in Seq(Call)
    BY <1>1, CleanCallsAreCalls, DirAssumption, IdentAssumption
       DEF GenClean, TypeOK, RequestType
  <2>. QED
    BY <2>1, TypeEnter DEF GenClean, Phase, TypeOK
<1>3. tokens' \in Seq(Statement) /\ TableType' /\ BuildType' /\ GenType' /\ RequestType' /\ AtexitType'
  BY DEF GenClean, TypeOK, TableType, BuildType, GenType, RequestType, AtexitType,
         TableState, BuildState, GenState, RequestState, LocalState, AtexitState
<1>. QED
  BY <1>2, <1>3 DEF TypeOK

LEMMA TypeGenMrproper == TypeOK /\ GenMrproper => TypeOK'
<1>. SUFFICES ASSUME TypeOK, GenMrproper
              PROVE  TypeOK'
  OBVIOUS
<1>1. Plain("clean") \in Name /\ Plain("mrproper") \in Name
  BY ReservedName DEF ReservedWord
<1>2. RunType'
  <2>1. todo' \in Seq(Call)
    BY <1>1, CleanCallsAreCalls, DirAssumption, IdentAssumption
       DEF GenMrproper, TypeOK, RequestType
  <2>. QED
    BY <2>1, TypeEnter DEF GenMrproper, Phase, TypeOK
<1>3. tokens' \in Seq(Statement) /\ TableType' /\ BuildType' /\ GenType' /\ RequestType' /\ AtexitType'
  BY DEF GenMrproper, TypeOK, TableType, BuildType, GenType, RequestType, AtexitType,
         TableState, BuildState, GenState, RequestState, LocalState, AtexitState
<1>. QED
  BY <1>2, <1>3 DEF TypeOK

LEMMA TypeGenHelp == TypeOK /\ GenHelp => TypeOK'
<1>. SUFFICES ASSUME TypeOK, GenHelp
              PROVE  TypeOK'
  OBVIOUS
<1>1. Plain("help") \in Name
  BY ReservedName DEF ReservedWord
<1>2. RunType'
  <2>1. todo' \in Seq(Call)
    BY InlineIsCall, IdentAssumption DEF GenHelp
  <2>. QED
    BY <2>1, TypeEnter DEF GenHelp, Phase, TypeOK
<1>3. tokens' \in Seq(Statement) /\ TableType' /\ BuildType' /\ GenType' /\ AtexitType'
  BY DEF GenHelp, TypeOK, TableType, BuildType, GenType, AtexitType,
         TableState, BuildState, GenState, RequestState, LocalState, AtexitState
<1>4. RequestType'
  <2>1. help_targets' \subseteq Name /\ help_token' \subseteq Name
    BY <1>1 DEF GenHelp, TypeOK, RequestType
  <2>. QED
    BY <2>1 DEF GenHelp, TypeOK, RequestType
<1>. QED
  BY <1>2, <1>3, <1>4 DEF TypeOK

LEMMA EmptySeq == <<>> \in Seq(Call)
OBVIOUS

LEMMA TypeGenGenerator == TypeOK /\ GenGenerator => TypeOK'
<1>. SUFFICES ASSUME TypeOK, GenGenerator
              PROVE  TypeOK'
  OBVIOUS
<1>1. unique_rule_name(Plain("bang"), DOMAIN rules) \in Name
  BY ReservedName, UniqueRuleName DEF ReservedWord, TypeOK, TableType
<1>4. (gen_flags.implicit_in \cup modpath \cup GitDeps) \ {Input} \in SUBSET Name
  BY FileAssumption DEF TypeOK, GenType
<1>5. <<Output>> \in Seq(Name) /\ {Input} \in SUBSET Name
  BY FileAssumption
<1>2. RunType'
  <2>. DEFINE bang == unique_rule_name(Plain("bang"), DOMAIN rules)
              deps == (gen_flags.implicit_in \cup modpath \cup GitDeps) \ {Input}
              def  == [op |-> "rule", name |-> bang, valid |-> TRUE,
                       implicit_in |-> {}]
              use  == [op |-> "build", outs |-> <<Output>>, rule |-> bang,
                       ins |-> {Input}, implicit_in |-> deps,
                       no_default |-> TRUE]
  <2>2. def \in Call
    BY <1>1, RuleIsCall
  <2>3. use \in Call
    <3>. HIDE DEF bang, deps
    <3>1. bang \in Name
      BY <1>1 DEF bang
    <3>2. deps \in SUBSET Name
      BY <1>4 DEF deps
    <3>. QED
      BY <3>1, <3>2, <1>5, BuildIsCall
  <2>4. todo' = <<>> \/ todo' = <<def, use>>
    BY DEF GenGenerator, generator_deps
  <2>1. todo' \in Seq(Call)
    <3>. HIDE DEF def, use
    <3>1. <<def, use>> \in Seq(Call)
      BY <2>2, <2>3
    <3>. QED
      BY <3>1, <2>4, EmptySeq
  <2>. QED
    BY <2>1, TypeEnter DEF GenGenerator, generator_deps, Phase, TypeOK
<1>3. tokens' \in Seq(Statement) /\ TableType' /\ BuildType' /\ GenType' /\ RequestType' /\ AtexitType'
  BY DEF GenGenerator, generator_deps, TypeOK, TableType, BuildType, GenType, RequestType, AtexitType,
         TableState, BuildState, GenState, RequestState, LocalState, AtexitState
<1>. QED
  BY <1>2, <1>3 DEF TypeOK

LEMMA TypeGenDefault == TypeOK /\ GenDefault => TypeOK'
<1>. SUFFICES ASSUME TypeOK, GenDefault
              PROVE  TypeOK'
  OBVIOUS
<1>2. RunType'
  <2>1. todo' \in Seq(Call)
    BY DefaultIsCall DEF GenDefault, TypeOK, BuildType
  <2>. QED
    BY <2>1, TypeEnter DEF GenDefault, Phase, TypeOK
<1>3. tokens' \in Seq(Statement) /\ TableType' /\ BuildType' /\ GenType' /\ RequestType' /\ AtexitType'
  BY DEF GenDefault, TypeOK, TableType, BuildType, GenType, RequestType, AtexitType,
         TableState, BuildState, GenState, RequestState, LocalState, AtexitState
<1>. QED
  BY <1>2, <1>3 DEF TypeOK

LEMMA TypeFinish == TypeOK /\ Finish => TypeOK'
<1>. SUFFICES ASSUME TypeOK, Finish
              PROVE  TypeOK'
  OBVIOUS
<1>1. RunType'
  BY DEF Finish, Idle, Enter, TypeOK, RunType, Phase
<1>2. tokens' \in Seq(Statement) /\ TableType' /\ BuildType' /\ GenType' /\ RequestType' /\ AtexitType'
  BY DEF Finish, TypeOK, TableType, BuildType, GenType, RequestType, AtexitType,
         TableState, BuildState, GenState, RequestState, LocalState, AtexitState
<1>. QED
  BY <1>1, <1>2 DEF TypeOK

LEMMA TypeNext == TypeOK /\ [Next]_state => TypeOK'
<1>. SUFFICES ASSUME TypeOK, [Next]_state
              PROVE  TypeOK'
  OBVIOUS
<1>1. CASE \E c \in Script : ScriptCall(c)
  BY <1>1, TypeScriptCall
<1>2. CASE Execute
  BY <1>2, TypeExecute
<1>3. CASE Sections
  <2>1. CASE \E d \in Dir : InstallGroup(d)
    BY <2>1, TypeInstallGroup
  <2>2. CASE ~\E d \in Dir : InstallGroup(d)
    BY <1>3, <2>2, TypeEndOfScript, TypeAtexitRound, TypeAtexitRun,
       TypeGenInstall, TypeGenClean, TypeGenMrproper, TypeGenHelp,
       TypeGenGenerator, TypeGenDefault, TypeFinish
       DEF Sections
  <2>. QED
    BY <2>1, <2>2
<1>4. CASE Exited
  BY <1>4, TypeStutter DEF Exited
<1>5. CASE UNCHANGED state
  BY <1>5, TypeStutter
<1>6. CASE InstallRefused
  BY <1>6, TypeError DEF InstallRefused
<1>. QED
  BY <1>1, <1>2, <1>3, <1>4, <1>5, <1>6 DEF Next

\* The tables of bang/ninja.lua and the lists of its modules keep their types,
\* whatever the script does.
THEOREM TypeCorrect == Spec => []TypeOK
<1>1. Init => TypeOK
  BY TypeInit
<1>2. TypeOK /\ [Next]_state => TypeOK'
  BY TypeNext
<1>. QED
  BY <1>1, <1>2, PTL DEF Spec

-----------------------------------------------------------------------------
(* Bang.tla implements NinjaFile.tla: whatever the script does, the file bang
   writes is one Ninja accepts.  The checks of rule, pool and build look at
   tables; Ninja looks at the file.  TablesMatchFile ties the one to the other
   and is what makes the refinement inductive. *)


-----------------------------------------------------------------------------
(* What one more statement changes. *)

LEMMA ElementsAppend ==
  ASSUME NEW S, NEW f \in Seq(S), NEW s \in S
  PROVE  Elements(Append(f, s)) = Elements(f) \cup {s}
<1>1. DOMAIN Append(f, s) = DOMAIN f \cup {Len(f) + 1}
  OBVIOUS
<1>2. \A i \in DOMAIN f : Append(f, s)[i] = f[i]
  OBVIOUS
<1>3. Append(f, s)[Len(f) + 1] = s
  OBVIOUS
<1>. QED
  BY <1>1, <1>2, <1>3, Zenon DEF Elements

LEMMA DefinedByAppend ==
  ASSUME NEW f \in Seq(Statement), NEW s \in Statement
  PROVE  /\ RuleNames(Append(f, s)) =
              RuleNames(f) \cup (IF s.kind = "rule" THEN {s.name} ELSE {})
         /\ PoolNames(Append(f, s)) =
              PoolNames(f) \cup (IF s.kind = "pool" THEN {s.name} ELSE {})
         /\ BuildsOf(Append(f, s)) =
              BuildsOf(f) \cup (IF s.kind = "build" THEN {s} ELSE {})
         /\ Targets(Append(f, s)) =
              Targets(f) \cup (IF s.kind = "build" THEN Elements(s.outs) ELSE {})
<1>1. Elements(Append(f, s)) = Elements(f) \cup {s}
  BY ElementsAppend
<1>2. RuleNames(Append(f, s)) =
        RuleNames(f) \cup (IF s.kind = "rule" THEN {s.name} ELSE {})
  BY <1>1 DEF RuleNames
<1>3. PoolNames(Append(f, s)) =
        PoolNames(f) \cup (IF s.kind = "pool" THEN {s.name} ELSE {})
  BY <1>1 DEF PoolNames
<1>4. BuildsOf(Append(f, s)) =
        BuildsOf(f) \cup (IF s.kind = "build" THEN {s} ELSE {})
  BY <1>1 DEF BuildsOf
<1>5. Targets(Append(f, s)) =
        Targets(f) \cup (IF s.kind = "build" THEN Elements(s.outs) ELSE {})
  BY <1>4 DEF Targets
<1>. QED
  BY <1>2, <1>3, <1>4, <1>5

-----------------------------------------------------------------------------
(* A step emits a statement, refuses a call, ends the run, or is quiet.     *)

Quiet == /\ UNCHANGED <<tokens, rules, pools, builds, failed>>
         /\ phase' = "done" <=> phase = "done"

Refused == ~failed /\ (todo # <<>> \/ phase = "install") /\ Error

Emits(A) == A /\ ~Error

LEMMA ExecuteSteps ==
  ASSUME TypeOK, Execute
  PROVE  \/ VarValue \/ Emits(Rule) \/ Emits(Pool) \/ Emits(Build) \/ Default
         \/ Refused \/ Quiet
<1>1. CASE VarName
  <2>1. CASE Error
    BY <1>1, <2>1 DEF VarName, Calling, Refused
  <2>2. CASE ~Error
    BY <1>1, <2>2 DEF VarName, Return, Quiet, RunState, BuildState
  <2>. QED
    BY <2>1, <2>2
<1>2. CASE Rule
  BY <1>2 DEF Rule, RuleAllowed, Calling, Emits, Refused
<1>3. CASE Pool
  BY <1>3 DEF Pool, Calling, Emits, Refused
<1>4. CASE Build
  BY <1>4 DEF Build, Inherited, Calling, Emits, Refused
<1>5. CASE InlineBuild
  BY <1>5 DEF InlineBuild, Quiet, RunState, TableState, BuildState
<1>6. CASE Phony
  BY <1>6 DEF Phony, Quiet, RunState, TableState, BuildState
<1>7. CASE Generator
  BY <1>7 DEF Generator, Calling, Return, Refused, Quiet, RunState, TableState,
              BuildState
<1>8. CASE Require \/ Clean \/ Mrproper \/ Install \/ Help \/ Describe \/ Atexit
  BY <1>8 DEF Require, Clean, Mrproper, Install, Help, Describe, Atexit,
              Return, Quiet, RunState, TableState, BuildState
<1>. QED
  BY <1>1, <1>2, <1>3, <1>4, <1>5, <1>6, <1>7, <1>8 DEF Execute

LEMMA SectionSteps ==
  ASSUME Sections
  PROVE  Quiet \/ Finish
<1>1. CASE EndOfScript \/ AtexitRound \/ AtexitRun \/ GenInstall
  BY <1>1 DEF EndOfScript, AtexitRound, AtexitRun, GenInstall, Idle, Enter,
              Quiet, RunState, TableState, BuildState
<1>2. ASSUME NEW d \in Dir, InstallGroup(d)
      PROVE  Quiet
  BY <1>2 DEF InstallGroup, Quiet, RunState, TableState, BuildState
<1>3. CASE GenClean \/ GenMrproper \/ GenHelp \/ GenGenerator \/ GenDefault
  BY <1>3 DEF GenClean, GenMrproper, GenHelp, GenGenerator, generator_deps, GenDefault, Idle,
              Enter, Quiet, TableState, BuildState
<1>. QED
  BY <1>1, <1>2, <1>3 DEF Sections

LEMMA Steps ==
  ASSUME TypeOK, [Next]_state
  PROVE  \/ VarValue \/ Emits(Rule) \/ Emits(Pool) \/ Emits(Build) \/ Default
         \/ Refused \/ Finish \/ Quiet
<1>1. ASSUME NEW c \in Script, ScriptCall(c)
      PROVE  Quiet
  BY <1>1 DEF ScriptCall, Quiet, TableState, BuildState
<1>2. CASE UNCHANGED state
  BY <1>2 DEF state, Quiet, RunState, TableState, BuildState
<1>3. CASE InstallRefused
  BY <1>3 DEF InstallRefused, NextGroup, Idle, Refused
<1>. QED
  BY <1>1, <1>2, <1>3, ExecuteSteps, SectionSteps DEF Next, Exited

-----------------------------------------------------------------------------
(* The step that emits statement s, and what it does to the tables.         *)

Emitted(s) ==
  /\ tokens' = Append(tokens, s)
  /\ ~failed /\ ~failed' /\ phase # "done" /\ phase' # "done"

Recorded(s) ==
  /\ s.kind = "rule" => s.name \notin DOMAIN rules
  /\ s.kind = "pool" => s.name \notin pools
  /\ s.kind = "build" => BuildAllowed(s) /\ rules[s.rule] \subseteq s.implicit_in
  /\ DOMAIN rules' = DOMAIN rules \cup (IF s.kind = "rule" THEN {s.name} ELSE {})
  /\ \A r \in DOMAIN rules : rules'[r] = rules[r]
  /\ pools' = pools \cup (IF s.kind = "pool" THEN {s.name} ELSE {})
  /\ DOMAIN builds' =
       DOMAIN builds \cup (IF s.kind = "build" THEN Elements(s.outs) ELSE {})

LEMMA CallEmits ==
  ASSUME TypeOK, NEW op, Calling(op), Return, UNCHANGED RunState,
         NEW s, tokens' = Append(tokens, s)
  PROVE  Emitted(s)
BY DEF TypeOK, RunType, Calling, Return, RunState, Emitted

LEMMA VarEmits ==
  ASSUME TypeOK, VarValue
  PROVE  \E s \in Statement : Emitted(s) /\ Recorded(s)
<1>. DEFINE s == [kind |-> "var", name |-> Head(todo).name]
<1>1. Head(todo).name \in Name
  BY HeadOfTodo, CallByOp DEF TypeOK, VarValue, Calling, VarCall
<1>2. s \in Statement
  <2>1. s \in [kind : {"var"}, name : Name]
    BY <1>1
  <2>. QED
    BY <2>1, Zenon DEF Statement
<1>3. Emitted(s)
  BY CallEmits DEF VarValue
<1>4. Recorded(s)
  BY DEF VarValue, Recorded, BuildState
<1>. QED
  BY <1>2, <1>3, <1>4

LEMMA RuleEmits ==
  ASSUME TypeOK, Emits(Rule)
  PROVE  \E s \in Statement : Emitted(s) /\ Recorded(s)
<1>. DEFINE c == Head(todo)
            s == [kind |-> "rule", name |-> c.name, sec |-> phase]
<1>1. c.name \in Name /\ phase \in Section
  BY HeadOfTodo, CallByOp DEF TypeOK, Emits, Rule, RuleAllowed, Calling, RuleCall
<1>2. s \in Statement
  <2>1. s \in [kind : {"rule"}, name : Name, sec : Section]
    BY <1>1
  <2>. QED
    BY <2>1, Zenon DEF Statement
<1>3. Emitted(s)
  BY CallEmits DEF Emits, Rule, RuleAllowed
<1>4. Recorded(s)
  BY DEF Emits, Rule, RuleAllowed, Recorded, BuildState
<1>. QED
  BY <1>2, <1>3, <1>4

LEMMA PoolEmits ==
  ASSUME TypeOK, Emits(Pool)
  PROVE  \E s \in Statement : Emitted(s) /\ Recorded(s)
<1>. DEFINE c == Head(todo)
            s == [kind |-> "pool", name |-> c.name]
<1>1. c.name \in Name
  BY HeadOfTodo, CallByOp DEF TypeOK, Emits, Pool, Calling, PoolCall
<1>2. s \in Statement
  <2>1. s \in [kind : {"pool"}, name : Name]
    BY <1>1
  <2>. QED
    BY <2>1, Zenon DEF Statement
<1>3. Emitted(s)
  BY CallEmits DEF Emits, Pool
<1>4. Recorded(s)
  BY DEF Emits, Pool, Recorded, BuildState
<1>. QED
  BY <1>2, <1>3, <1>4

LEMMA BuildEmits ==
  ASSUME TypeOK, Emits(Build)
  PROVE  \E s \in Statement : Emitted(s) /\ Recorded(s)
<1>. DEFINE c == Head(todo)
            imp == rules[c.rule] \cup c.implicit_in
            s == [kind |-> "build", outs |-> c.outs, rule |-> c.rule,
                  ins |-> c.ins, implicit_in |-> imp, sec |-> phase]
<1>1. c \in BuildCall /\ phase \in Section
  BY HeadOfTodo, CallByOp DEF TypeOK, Emits, Build, Calling
<1>2. BuildAllowed(c)
  BY DEF Emits, Build, Inherited
<1>3. s \in Statement
  <2>1. imp \in SUBSET Name
    BY <1>1, <1>2 DEF BuildCall, BuildAllowed, TypeOK, TableType
  <2>2. s \in [kind : {"build"}, outs : Seq(Name), rule : Name,
               ins : SUBSET Name, implicit_in : SUBSET Name, sec : Section]
    <3>. HIDE DEF imp
    <3>. QED
      BY <1>1, <2>1 DEF BuildCall
  <2>. QED
    BY <2>2, Zenon DEF Statement
<1>4. Emitted(s)
  BY CallEmits DEF Emits, Build, Inherited
<1>5. Recorded(s)
  <2>1. BuildAllowed(s)
    BY <1>2 DEF BuildAllowed
  <2>2. UNCHANGED <<rules, pools>>
    BY DEF Emits, Build, Inherited, TableState
  <2>3. DOMAIN builds' = DOMAIN builds \cup Elements(c.outs)
    BY DEF Emits, Build, Inherited
  <2>. QED
    BY <2>1, <2>2, <2>3 DEF Recorded
<1>. QED
  BY <1>3, <1>4, <1>5

LEMMA DefaultEmits ==
  ASSUME TypeOK, Default
  PROVE  Quiet \/ \E s \in Statement : Emitted(s) /\ Recorded(s)
<1>. DEFINE c == Head(todo)
            s == [kind |-> "default", targets |-> c.targets, sec |-> phase]
<1>1. CASE c.targets = {}
  BY <1>1 DEF Default, Return, Quiet, RunState, TableState
<1>2. CASE c.targets # {}
  <2>1. c.targets \in SUBSET Name /\ phase \in Section
    BY HeadOfTodo, CallByOp DEF TypeOK, Default, Calling, DefaultCall
  <2>2. s \in Statement
    <3>1. s \in [kind : {"default"}, targets : SUBSET Name, sec : Section]
      BY <2>1
    <3>. QED
      BY <3>1, Zenon DEF Statement
  <2>3. Emitted(s)
    BY <1>2, CallEmits DEF Default
  <2>4. Recorded(s)
    BY DEF Default, Recorded, TableState
  <2>. QED
    BY <2>2, <2>3, <2>4
<1>. QED
  BY <1>1, <1>2

LEMMA EveryStep ==
  ASSUME TypeOK, [Next]_state
  PROVE  \/ Quiet \/ Refused \/ Finish
         \/ \E s \in Statement : Emitted(s) /\ Recorded(s)
BY Steps, VarEmits, RuleEmits, PoolEmits, BuildEmits, DefaultEmits

-----------------------------------------------------------------------------
(* The inductive invariant.                                                 *)

\* Every build statement uses a rule that has been defined: what InheritedInputs
\* says of it is then about a rule RulesFrozen speaks of.
RulesKnown == \A s \in BuildsOf(tokens) : s.rule \in DOMAIN rules

IInv == TypeOK /\ TablesMatchFile /\ RulesKnown /\ InheritedInputs

LEMMA InitInv == Init => IInv
<1>. SUFFICES ASSUME Init
              PROVE  IInv
  OBVIOUS
<1>1. Elements(tokens) = {}
  BY DEF Init, Elements
<1>2. RuleNames(tokens) = {} /\ PoolNames(tokens) = {} /\ BuildsOf(tokens) = {}
  BY <1>1 DEF RuleNames, PoolNames, BuildsOf
<1>3. Targets(tokens) = {}
  BY <1>2 DEF Targets
<1>4. DOMAIN rules = {phony_rule} /\ pools = {} /\ DOMAIN builds = {}
  BY DEF Init
<1>. QED
  BY <1>2, <1>3, <1>4, TypeInit DEF IInv, TablesMatchFile, RulesKnown,
                                    InheritedInputs

LEMMA QuietInv ==
  ASSUME IInv, TypeOK', UNCHANGED <<tokens, rules, pools, builds>>
  PROVE  IInv'
BY DEF IInv, TablesMatchFile, RulesKnown, InheritedInputs

LEMMA EmitInv ==
  ASSUME IInv, TypeOK', NEW s \in Statement, Emitted(s), Recorded(s)
  PROVE  IInv'
<1>1. tokens \in Seq(Statement) /\ tokens' = Append(tokens, s)
  BY DEF IInv, TypeOK, Emitted
<1>2. TablesMatchFile'
  <2>1. DOMAIN rules' = RuleNames(tokens') \cup {phony_rule}
    BY <1>1, DefinedByAppend DEF IInv, TablesMatchFile, Recorded
  <2>2. pools' = PoolNames(tokens')
    BY <1>1, DefinedByAppend DEF IInv, TablesMatchFile, Recorded
  <2>3. DOMAIN builds' = Targets(tokens')
    BY <1>1, DefinedByAppend DEF IInv, TablesMatchFile, Recorded
  <2>. QED
    BY <2>1, <2>2, <2>3 DEF TablesMatchFile
<1>3. ASSUME NEW t \in BuildsOf(tokens')
      PROVE  t.rule \in DOMAIN rules' /\ rules'[t.rule] \subseteq t.implicit_in
  <2>1. t \in BuildsOf(tokens) \/ (t = s /\ s.kind = "build")
    BY <1>1, <1>3, DefinedByAppend
  <2>2. CASE t \in BuildsOf(tokens)
    BY <2>2 DEF IInv, RulesKnown, InheritedInputs, Recorded
  <2>3. CASE t = s /\ s.kind = "build"
    BY <2>3 DEF Recorded, BuildAllowed
  <2>. QED
    BY <2>1, <2>2, <2>3
<1>. QED
  BY <1>2, <1>3 DEF IInv, RulesKnown, InheritedInputs

LEMMA NextInv == IInv /\ [Next]_state => IInv'
<1>. SUFFICES ASSUME IInv, [Next]_state
              PROVE  IInv'
  OBVIOUS
<1>1. TypeOK /\ TypeOK'
  BY TypeNext DEF IInv
<1>2. CASE Quiet
  BY <1>1, <1>2, QuietInv DEF Quiet
<1>3. CASE Refused
  BY <1>1, <1>3, QuietInv DEF Refused, Error, TableState, BuildState
<1>4. CASE Finish
  BY <1>1, <1>4, QuietInv DEF Finish, TableState, BuildState
<1>5. CASE \E s \in Statement : Emitted(s) /\ Recorded(s)
  BY <1>1, <1>5, EmitInv
<1>. QED
  BY <1>1, <1>2, <1>3, <1>4, <1>5, EveryStep

LEMMA Invariant == Spec => []IInv
<1>1. Init => IInv
  BY InitInv
<1>2. IInv /\ [Next]_state => IInv'
  BY NextInv
<1>. QED
  BY <1>1, <1>2, PTL DEF Spec

-----------------------------------------------------------------------------
(* The theorems.                                                            *)

\* The tables rule, pool and build check their arguments against are exact:
\* a name is in a table if and only if the file defines it.
THEOREM TablesAreExact == Spec => []TablesMatchFile
<1>1. IInv => TablesMatchFile
  BY DEF IInv
<1>. QED
  BY <1>1, Invariant, PTL

\* A build statement never loses the implicit inputs of its rule, and they are
\* those the rule was defined with.
THEOREM InputsAreInherited == Spec => []InheritedInputs
<1>1. IInv => InheritedInputs
  BY DEF IInv
<1>. QED
  BY <1>1, Invariant, PTL

\* No call changes what a rule makes its builds inherit (build clones the
\* variables of the rule before it adds those of the statement).
THEOREM RulesAreFrozen == Spec => RulesFrozen
<1>. DEFINE Frozen ==
       \A r \in DOMAIN rules : r \in DOMAIN rules' /\ rules'[r] = rules[r]
<1>1. IInv /\ [Next]_state => [Frozen]_state
  <2>. SUFFICES ASSUME IInv, [Next]_state
                PROVE  Frozen
    OBVIOUS
  <2>1. CASE \E s \in Statement : Emitted(s) /\ Recorded(s)
    BY <2>1 DEF Recorded
  <2>2. CASE Quiet \/ Refused \/ Finish
    BY <2>2 DEF Quiet, Refused, Error, Finish, TableState
  <2>. QED
    BY <2>1, <2>2, EveryStep DEF IInv
<1>. QED
  BY <1>1, Invariant, PTL DEF Spec, RulesFrozen

\* The instance File repeats the definitions of NinjaSyntax.
LEMMA SameLegal ==
  ASSUME NEW f, NEW s
  PROVE  File!Legal(f, s) <=> Legal(f, s)
<1>1. /\ File!RuleNames(f) = RuleNames(f) /\ File!PoolNames(f) = PoolNames(f)
      /\ File!BuildsOf(f) = BuildsOf(f)
  BY Zenon DEF RuleNames, PoolNames, BuildsOf, Elements, File!RuleNames,
               File!PoolNames, File!BuildsOf, File!Elements
<1>2. File!Targets(f) = Targets(f)
  BY <1>1, Zenon DEF Targets, Elements, File!Targets, File!Elements
<1>3. File!Plain("phony") = Plain("phony")
  BY DEF Plain, File!Plain
<1>4. (File!Distinct(s.outs) <=> Distinct(s.outs))
      /\ File!Elements(s.outs) = Elements(s.outs)
  BY DEF Distinct, Elements, File!Distinct, File!Elements
<1>. QED
  BY <1>1, <1>2, <1>3, <1>4 DEF Legal, File!Legal

\* A statement emitted by bang is one Ninja accepts at that place.
LEMMA EmittedIsLegal ==
  ASSUME IInv, NEW s \in Statement, Emitted(s), Recorded(s)
  PROVE  File!EmitLast
<1>1. tokens \in Seq(Statement) /\ tokens' = Append(tokens, s)
  BY DEF IInv, TypeOK, Emitted
<1>2. Len(tokens') = Len(tokens) + 1 /\ tokens'[Len(tokens')] = s
  BY <1>1
<1>3. FileStatus = "open" /\ FileStatus' = "open"
  BY DEF Emitted, FileStatus
<1>4. Legal(tokens, s)
  BY DEF IInv, TablesMatchFile, Recorded, BuildAllowed, Legal, phony_rule
<1>. QED
  BY <1>1, <1>2, <1>3, <1>4, SameLegal DEF File!EmitLast, File!Emit

LEMMA StepRefines ==
  ASSUME IInv, [Next]_state
  PROVE  [File!Next]_<<tokens, FileStatus>>
<1>1. CASE Quiet
  BY <1>1 DEF Quiet, FileStatus
<1>2. CASE Refused
  <2>1. FileStatus = "open" /\ FileStatus' = "failed"
    BY <1>2 DEF Refused, Error, FileStatus, IInv, TypeOK, RunType
  <2>. QED
    BY <1>2, <2>1 DEF Refused, Error, File!Next, File!Fail
<1>3. CASE Finish
  <2>1. FileStatus = "open" /\ FileStatus' = "closed"
    BY <1>3 DEF Finish, Idle, Enter, FileStatus
  <2>. QED
    BY <1>3, <2>1 DEF Finish, File!Next, File!Close
<1>4. CASE \E s \in Statement : Emitted(s) /\ Recorded(s)
  BY <1>4, EmittedIsLegal DEF File!Next
<1>. QED
  BY <1>1, <1>2, <1>3, <1>4, EveryStep DEF IInv

\* bang implements NinjaFile.tla: every file it writes is one Ninja accepts,
\* and it writes it only when no call of the script was refused.
THEOREM BangImplementsNinjaFile == Spec => ImplementsNinjaFile
<1>1. Init => File!Init
  BY DEF Init, File!Init, FileStatus
<1>2. IInv /\ [Next]_state => [File!Next]_<<tokens, FileStatus>>
  BY StepRefines
<1>. QED
  BY <1>1, <1>2, Invariant, PTL DEF Spec, ImplementsNinjaFile, File!Spec

-----------------------------------------------------------------------------
(* The sections bang adds.  What the calls waiting in todo are, while bang     *)
(* adds them, is an invariant of its own: every property of the sections rests *)
(* on it.                                                                      *)

OneOutput(c) == Len(c.outs) = 1

\* The i-th call of q is one bang makes, and if R are the rules of the file it
\* cannot fail but for a name the script took: the rule it defines is new, the
\* one it uses is defined when it is its turn.
Fits(q, i, R) ==
  LET c == q[i] IN
  /\ c.op \in {"help", "var", "define", "rule", "inline", "phony", "build", "default"}
  /\ c.op = "var" => c.name = Plain("prefix")
  /\ c.op = "rule" => /\ c.valid /\ c.implicit_in = {} /\ c.name \notin R
                      /\ \A j \in 1 .. i - 1 : q[j].op \in {"help", "var", "define"}
  /\ c.op \in {"inline", "phony", "build"} => c.no_default /\ OneOutput(c)
  /\ c.op = "build" =>
       \/ c.rule \in R
       \/ \E j \in 1 .. i - 1 : q[j].op = "rule" /\ q[j].name = c.rule

\* The operations bang calls in each phase.
CallsOf(p) ==
  CASE p = "install" -> {"help", "var", "define", "rule", "phony", "build"}
    [] p \in {"clean", "mrproper"} -> {"help", "inline", "phony", "rule", "build"}
    [] p = "help" -> {"inline", "rule", "build"}
    [] p = "generator" -> {"rule", "build"}
    [] OTHER -> {"default"}

Queued ==
  phase \in GenPhase =>
    \A i \in DOMAIN todo : Fits(todo, i, DOMAIN rules) /\ todo[i].op \in CallsOf(phase)

\* The rule the build statements of install:gen use.
InstallRuleKnown ==
  phase = "install" /\ groups # {} =>
    \/ Plain("install") \in DOMAIN rules
    \/ \E i \in DOMAIN todo : todo[i].op = "rule" /\ todo[i].name = Plain("install")

BuildsIn(w) == {s \in BuildsOf(tokens) : s.sec = w}

Requested(w) ==
  CASE w = "install"  -> install_targets # {}
    [] w = "clean"    -> directories_to_clean # <<>>
    [] w = "mrproper" -> directories_to_clean_more # <<>>
    [] w = "help"     -> help_defined

\* Bang is adding section w, or has added it.
Begun(w) ==
  \/ phase = w /\ (todo # <<>> \/ (w = "install" /\ groups # {}))
  \/ BuildsIn(w) # {}

Sectioned == {"install", "clean", "mrproper"}

\* A section is added because the script asked for it.
OnRequest ==
  \A w \in Sectioned \cup {"help"} :
    Begun(w) => phase \notin {"script", "atexit"} /\ Requested(w)

\* A section is documented before its first statement.
Documented ==
  \A w \in Sectioned :
    Begun(w) => \/ Plain(w) \in help_targets
                \/ phase = w /\ todo # <<>> /\ Head(todo) = [op |-> "help", name |-> Plain(w)]

\* The target help is built whenever there is something to print.
HelpBuilt ==
  phase \in {"help", "generator", "default", "done"} =>
    /\ help_token = help_targets
    /\ help_defined =>
         \/ \E s \in BuildsIn("help") : s.outs = <<Plain("help")>>
         \/ phase = "help" /\ \E i \in DOMAIN todo : /\ todo[i].op \in {"inline", "build"}
                                                     /\ todo[i].outs = <<Plain("help")>>

GeneratorRuleCall(r) ==
  [op |-> "rule", name |-> r, valid |-> TRUE, implicit_in |-> {}]

GeneratorCallOf(r, deps) ==
  [op |-> "build", outs |-> <<Output>>, rule |-> r, ins |-> {Input},
   implicit_in |-> deps, no_default |-> TRUE]

GeneratorStatement(r, deps) ==
  [kind |-> "build", outs |-> <<Output>>, rule |-> r, ins |-> {Input},
   implicit_in |-> deps, sec |-> "generator"]

\* The statement that makes the Ninja file again is the only one of its
\* section.
GeneratorFinal ==
  LET gen == BuildsIn("generator") IN
  \/ gen_flags.use = "off" /\ gen = {}
  \/ /\ gen_flags.use # "off"
     /\ \E s \in gen : gen = {GeneratorStatement(s.rule, generator_deps \ {Input})}

\* How far generator_rule is.
GeneratorBuilt ==
  \/ phase \notin {"generator", "default", "done"} /\ BuildsIn("generator") = {}
  \/ phase \in {"generator", "default", "done"} /\ GeneratorFinal
     /\ (phase = "generator" => todo = <<>>)
  \/ /\ phase = "generator" /\ gen_flags.use # "off" /\ BuildsIn("generator") = {}
     /\ \/ \E r \in Name : todo = << GeneratorRuleCall(r),
                                     GeneratorCallOf(r, generator_deps \ {Input}) >>
        \/ \E r \in DOMAIN rules : /\ rules[r] = {}
                                   /\ todo = <<GeneratorCallOf(r, generator_deps \ {Input})>>

DefaultStatement ==
  [kind |-> "default", targets |-> default_build_statements, sec |-> "default"]

\* The default statement is the one bang adds, if the script leaves it to bang.
DefaultFinal ==
  \/ ~NoCustomDefault
  \/ DefaultStatements = {} /\ (~default_target_needed \/ default_build_statements = {})
  \/ DefaultStatements = {DefaultStatement}

\* How far generate_default is.
DefaultBuilt ==
  \/ /\ phase \notin {"default", "done"}
     /\ \A s \in DefaultStatements : s.sec # "default"
  \/ /\ phase \in {"default", "done"} /\ DefaultFinal
     /\ phase = "default" => todo = <<>>
  \/ /\ phase = "default" /\ DefaultStatements = {}
     /\ todo = <<[op |-> "default", targets |-> default_build_statements]>>

\* What is built by default.
DefaultTargets ==
  /\ custom_default_statement <=> DefaultStatements # {}
  /\ default_build_statements \subseteq ScriptTargets
  /\ ScriptTargets \cap SectionTargets = {}

\* When the script keeps nothing out of the default targets.
AllByDefault == \A c \in Script : c.op \in {"build", "inline", "phony"} => ~c.no_default

DefaultIsAll ==
  AllByDefault =>
    /\ ScriptTargets \subseteq default_build_statements
    /\ phase \in {"script", "atexit"} =>
         \A i \in DOMAIN todo : todo[i].op \in {"build", "inline", "phony"} => ~todo[i].no_default

SInv == Queued /\ InstallRuleKnown /\ OnRequest /\ Documented /\ HelpBuilt
        /\ GeneratorBuilt /\ DefaultBuilt /\ DefaultTargets /\ DefaultIsAll

-----------------------------------------------------------------------------
(* What one call does, while bang adds its sections. *)

\* What the calls of bang never change.
Given == <<phase, gen_flags, modpath, directories_to_clean, directories_to_clean_more,
           install_targets, help_described, help_token, groups>>

\* The build and the default statements of the file.
Statements == <<BuildsOf(tokens), DefaultStatements>>

Drops(ops) == todo # <<>> /\ Head(todo).op \in ops /\ todo' = Tail(todo)

Skips ==
  /\ Drops({"var", "define"})
  /\ UNCHANGED <<Statements, rules, help_targets, default_build_statements,
                 custom_default_statement>>

Documents ==
  /\ Drops({"help"})
  /\ help_targets' = help_targets \cup {Head(todo).name}
  /\ UNCHANGED <<Statements, rules, default_build_statements,
                 custom_default_statement>>

DefinesRule ==
  /\ Drops({"rule"})
  /\ DOMAIN rules' = DOMAIN rules \cup {Head(todo).name}
  /\ rules'[Head(todo).name] = Head(todo).implicit_in
  /\ \A r \in DOMAIN rules : rules'[r] = rules[r]
  /\ UNCHANGED <<Statements, help_targets, default_build_statements,
                 custom_default_statement>>

Expands == (InlineBuild \/ Phony) /\ UNCHANGED Statements

Statement0 ==
  [kind |-> "build", outs |-> Head(todo).outs, rule |-> Head(todo).rule,
   ins |-> Head(todo).ins, implicit_in |-> rules[Head(todo).rule] \cup Head(todo).implicit_in,
   sec |-> phase]

Builds ==
  /\ Drops({"build"})
  /\ BuildAllowed(Head(todo))
  /\ BuildsOf(tokens)' = BuildsOf(tokens) \cup {Statement0}
  /\ default_build_statements' =
       IF Head(todo).no_default THEN default_build_statements
       ELSE default_build_statements \cup Elements(Head(todo).outs)
  /\ UNCHANGED <<rules, help_targets, custom_default_statement, DefaultStatements>>

Chooses ==
  /\ Drops({"default"})
  /\ custom_default_statement' = (custom_default_statement \/ Head(todo).targets # {})
  /\ DefaultStatements' =
       DefaultStatements \cup
         IF Head(todo).targets = {} THEN {}
         ELSE {[kind |-> "default", targets |-> Head(todo).targets, sec |-> phase]}
  /\ UNCHANGED <<BuildsOf(tokens), rules, help_targets, default_build_statements>>

LEMMA DefaultsAppend ==
  ASSUME tokens \in Seq(Statement), NEW s \in Statement, tokens' = Append(tokens, s)
  PROVE  /\ DefaultStatements' =
              DefaultStatements \cup (IF s.kind = "default" THEN {s} ELSE {})
         /\ BuildsOf(tokens)' =
              BuildsOf(tokens) \cup (IF s.kind = "build" THEN {s} ELSE {})
<1>1. Elements(tokens') = Elements(tokens) \cup {s}
  BY ElementsAppend
<1>2. BuildsOf(tokens') = BuildsOf(tokens) \cup (IF s.kind = "build" THEN {s} ELSE {})
  BY DefinedByAppend
<1>. QED
  BY <1>1, <1>2 DEF DefaultStatements

LEMMA CallSkips ==
  ASSUME TypeOK, (VarName /\ ~Error) \/ VarValue
  PROVE  Skips /\ UNCHANGED Given
<1>1. CASE VarName /\ ~Error
  BY <1>1 DEF VarName, Calling, Return, Skips, Drops, Given, Statements, DefaultStatements,
              RunState, TableState, BuildState, GenState, RequestState, LocalState
<1>2. CASE VarValue
  <2>. DEFINE s == [kind |-> "var", name |-> Head(todo).name]
  <2>1. Head(todo).name \in Name
    BY <1>2, HeadOfTodo, CallByOp DEF TypeOK, VarValue, Calling, VarCall
  <2>2. s \in Statement
    <3>1. s \in [kind : {"var"}, name : Name]
      BY <2>1
    <3>. QED
      BY <3>1, Zenon DEF Statement
  <2>3. tokens' = Append(tokens, s) /\ s.kind = "var"
    BY <1>2 DEF VarValue
  <2>4. UNCHANGED Statements
    <3>. HIDE DEF s
    <3>. QED
      BY <2>2, <2>3, DefaultsAppend DEF Statements, TypeOK
  <2>. QED
    BY <1>2, <2>4 DEF VarValue, Calling, Return, Skips, Drops, Given,
              RunState, TableState, BuildState, GenState, RequestState, LocalState
<1>. QED
  BY <1>1, <1>2

LEMMA CallDocuments ==
  ASSUME TypeOK, Help
  PROVE  Documents /\ UNCHANGED Given
BY DEF Help, Calling, Return, Documents, Drops, Given, Statements, DefaultStatements,
       RunState, TableState, BuildState, GenState, RequestState, LocalState

LEMMA CallDefinesRule ==
  ASSUME TypeOK, Emits(Rule)
  PROVE  DefinesRule /\ UNCHANGED Given
<1>. DEFINE s == [kind |-> "rule", name |-> Head(todo).name, sec |-> phase]
<1>1. Head(todo).name \in Name /\ phase \in Section
  BY HeadOfTodo, CallByOp DEF TypeOK, Emits, Rule, RuleAllowed, Calling, RuleCall
<1>2. s \in Statement
  <2>1. s \in [kind : {"rule"}, name : Name, sec : Section]
    BY <1>1
  <2>. QED
    BY <2>1, Zenon DEF Statement
<1>3. tokens' = Append(tokens, s) /\ s.kind = "rule"
  BY DEF Emits, Rule, RuleAllowed
<1>4. UNCHANGED Statements
  <2>. HIDE DEF s
  <2>. QED
    BY <1>2, <1>3, DefaultsAppend DEF Statements, TypeOK
<1>. QED
  BY <1>4 DEF Emits, Rule, RuleAllowed, Calling, Return, DefinesRule, Drops, Given,
       RunState, TableState, BuildState, GenState, RequestState, LocalState

LEMMA CallExpands ==
  ASSUME TypeOK, InlineBuild \/ Phony
  PROVE  Expands /\ UNCHANGED Given
<1>1. UNCHANGED tokens
  BY DEF InlineBuild, Phony
<1>2. UNCHANGED Statements
  BY <1>1 DEF Statements, DefaultStatements
<1>3. UNCHANGED Given
  BY DEF InlineBuild, Phony, Given, RunState, GenState, RequestState, LocalState
<1>. QED
  BY <1>2, <1>3 DEF Expands

LEMMA CallBuilds ==
  ASSUME TypeOK, Emits(Build)
  PROVE  Builds /\ UNCHANGED Given
<1>1. Head(todo) \in BuildCall /\ phase \in Section
  BY HeadOfTodo, CallByOp DEF TypeOK, Emits, Build, Calling
<1>2. BuildAllowed(Head(todo))
  BY DEF Emits, Build, Inherited
<1>3. Statement0 \in Statement
  <2>1. rules[Head(todo).rule] \cup Head(todo).implicit_in \in SUBSET Name
    BY <1>1, <1>2 DEF BuildCall, BuildAllowed, TypeOK, TableType
  <2>2. Statement0 \in [kind : {"build"}, outs : Seq(Name), rule : Name,
               ins : SUBSET Name, implicit_in : SUBSET Name, sec : Section]
    BY <1>1, <2>1 DEF BuildCall, Statement0
  <2>. QED
    BY <2>2, Zenon DEF Statement
<1>4. tokens' = Append(tokens, Statement0) /\ Statement0.kind = "build"
  BY DEF Emits, Build, Inherited, Statement0
<1>5. BuildsOf(tokens)' = BuildsOf(tokens) \cup {Statement0} /\ UNCHANGED DefaultStatements
  BY <1>3, <1>4, DefaultsAppend DEF TypeOK
<1>. QED
  BY <1>2, <1>5 DEF Emits, Build, Calling, Return, Builds, Drops, Given,
       RunState, TableState, GenState, RequestState, LocalState

LEMMA CallChooses ==
  ASSUME TypeOK, Default
  PROVE  Chooses /\ UNCHANGED Given
<1>. DEFINE s == [kind |-> "default", targets |-> Head(todo).targets, sec |-> phase]
<1>1. Head(todo).targets \in SUBSET Name /\ phase \in Section
  BY HeadOfTodo, CallByOp DEF TypeOK, Default, Calling, DefaultCall
<1>2. s \in Statement
  <2>1. s \in [kind : {"default"}, targets : SUBSET Name, sec : Section]
    BY <1>1
  <2>. QED
    BY <2>1, Zenon DEF Statement
<1>3. /\ UNCHANGED BuildsOf(tokens)
      /\ DefaultStatements' = DefaultStatements \cup
           IF Head(todo).targets = {} THEN {} ELSE {s}
  <2>1. CASE Head(todo).targets = {}
    BY <2>1 DEF Default, DefaultStatements
  <2>2. CASE Head(todo).targets # {}
    <3>1. tokens' = Append(tokens, s) /\ s.kind = "default"
      BY <2>2 DEF Default
    <3>. HIDE DEF s
    <3>. QED
      BY <2>2, <3>1, <1>2, DefaultsAppend DEF TypeOK
  <2>. QED
    BY <2>1, <2>2
<1>. QED
  BY <1>3 DEF Default, Calling, Return, Chooses, Drops, Given,
       RunState, TableState, BuildState, GenState, RequestState, LocalState

LEMMA SectionCall ==
  ASSUME TypeOK, Queued, phase \in GenPhase, Execute
  PROVE  \/ Error /\ ~failed /\ todo # <<>>
         \/ UNCHANGED Given /\ (\/ Skips \/ Documents \/ DefinesRule \/ Expands \/ Builds
                                \/ Chooses)
<1>1. todo # <<>> /\ ~failed
  BY DEF Execute, VarName, VarValue, Rule, Pool, InlineBuild, Phony, Build, Default,
         Generator, Require, Clean, Mrproper, Install, Help, Describe, Atexit, Calling
<1>2. Head(todo).op \in {"help", "var", "define", "rule", "inline", "phony", "build", "default"}
  <2>1. 1 \in DOMAIN todo /\ Head(todo) = todo[1]
    BY <1>1 DEF TypeOK, RunType
  <2>. QED
    BY <2>1 DEF Queued, Fits
<1>3. VarName \/ VarValue \/ Rule \/ InlineBuild \/ Phony \/ Build \/ Default \/ Help
  BY <1>2 DEF Execute, Pool, Generator, Require, Clean, Mrproper, Install, Describe, Atexit,
              Calling
<1>. QED
  BY <1>1, <1>3, CallSkips, CallDocuments, CallDefinesRule, CallExpands, CallBuilds,
     CallChooses DEF Emits

-----------------------------------------------------------------------------
(* Sequences of calls. *)

LEMMA AfterHead ==
  ASSUME NEW S, NEW q \in Seq(S), q # <<>>
  PROVE  /\ Tail(q) \in Seq(S) /\ Len(q) \in Nat \ {0} /\ q[1] = Head(q)
         /\ DOMAIN q = 1 .. Len(q)
         /\ Len(Tail(q)) = Len(q) - 1
         /\ DOMAIN Tail(q) = 1 .. Len(q) - 1
         /\ \A i \in 1 .. Len(q) - 1 : Tail(q)[i] = q[i + 1]
OBVIOUS

LEMMA OneForHead ==
  ASSUME NEW S, NEW q \in Seq(S), q # <<>>, NEW c
  PROVE  LET p == <<c>> \o Tail(q) IN
         /\ DOMAIN p = 1 .. Len(q) /\ p[1] = c /\ p # <<>> /\ Head(p) = c
         /\ \A i \in 2 .. Len(q) : p[i] = q[i]
<1>1. Tail(q) \in Seq(S) /\ Len(Tail(q)) = Len(q) - 1 /\ Len(q) \in Nat \ {0}
      /\ \A i \in 1 .. Len(q) - 1 : Tail(q)[i] = q[i + 1]
  BY AfterHead
<1>. DEFINE t == Tail(q)
            p == <<c>> \o t
<1>. HIDE DEF t
<1>2. DOMAIN p = 1 .. Len(q) /\ p[1] = c /\ Len(p) = Len(q)
  BY <1>1 DEF t
<1>3. ASSUME NEW i \in 2 .. Len(q) PROVE p[i] = q[i]
  <2>1. p[i] = t[i - 1]
    BY <1>1 DEF t
  <2>2. t[i - 1] = q[i - 1 + 1] /\ i - 1 + 1 = i
    BY <1>1 DEF t
  <2>. QED
    BY <2>1, <2>2
<1>. QED
  BY <1>1, <1>2, <1>3 DEF t

LEMMA TwoForHead ==
  ASSUME NEW S, NEW q \in Seq(S), q # <<>>, NEW c, NEW d
  PROVE  LET p == <<c, d>> \o Tail(q) IN
         /\ DOMAIN p = 1 .. Len(q) + 1 /\ p[1] = c /\ p[2] = d /\ p # <<>> /\ Head(p) = c
         /\ \A i \in 3 .. Len(q) + 1 : p[i] = q[i - 1]
<1>1. Tail(q) \in Seq(S) /\ Len(Tail(q)) = Len(q) - 1 /\ Len(q) \in Nat \ {0}
      /\ \A i \in 1 .. Len(q) - 1 : Tail(q)[i] = q[i + 1]
  BY AfterHead
<1>. DEFINE t == Tail(q)
            p == <<c, d>> \o t
<1>. HIDE DEF t
<1>2. DOMAIN p = 1 .. Len(q) + 1 /\ p[1] = c /\ p[2] = d /\ Len(p) = Len(q) + 1
  BY <1>1 DEF t
<1>3. ASSUME NEW i \in 3 .. Len(q) + 1 PROVE p[i] = q[i - 1]
  <2>1. p[i] = t[i - 2]
    BY <1>1 DEF t
  <2>2. t[i - 2] = q[i - 2 + 1] /\ i - 2 + 1 = i - 1
    BY <1>1 DEF t
  <2>. QED
    BY <2>1, <2>2
<1>. QED
  BY <1>1, <1>2, <1>3 DEF t

-----------------------------------------------------------------------------
(* Queued is preserved. *)

\* The call after the first one still fits when the first one is done.
LEMMA FitsAfterHead ==
  ASSUME NEW q \in Seq(Call), q # <<>>, NEW i \in 1 .. Len(q) - 1,
         NEW R, NEW S, Fits(q, i + 1, R),
         \/ S = R /\ q[1].op # "rule"
         \/ S = R \cup {q[1].name} /\ q[1].op = "rule"
  PROVE  Tail(q)[i].op = q[i + 1].op /\ Fits(Tail(q), i, S)
<1>. DEFINE c == q[i + 1]
            p == Tail(q)
<1>1. \A j \in 1 .. Len(q) - 1 : p[j] = q[j + 1]
  BY AfterHead
<1>0. Len(q) \in Nat \ {0} /\ i \in Nat
  BY AfterHead
<1>2. p[i] = c
  BY <1>1
<1>3. /\ c.op \in {"help", "var", "define", "rule", "inline", "phony", "build", "default"}
      /\ c.op = "var" => c.name = Plain("prefix")
      /\ c.op \in {"inline", "phony", "build"} => c.no_default /\ OneOutput(c)
  BY DEF Fits
<1>4. ASSUME c.op = "rule"
      PROVE  /\ c.valid /\ c.implicit_in = {} /\ c.name \notin S
             /\ \A j \in 1 .. i - 1 : p[j].op \in {"help", "var", "define"}
  <2>1. c.valid /\ c.implicit_in = {} /\ c.name \notin R
        /\ \A j \in 1 .. i : q[j].op \in {"help", "var", "define"}
    BY <1>4, <1>0 DEF Fits
  <2>2. q[1].op # "rule"
    BY <2>1, <1>0
  <2>3. \A j \in 1 .. i - 1 : p[j] = q[j + 1] /\ j + 1 \in 1 .. i
    BY <1>1, <1>0
  <2>. QED
    BY <2>1, <2>2, <2>3
<1>5. ASSUME c.op = "build"
      PROVE  \/ c.rule \in S
             \/ \E j \in 1 .. i - 1 : p[j].op = "rule" /\ p[j].name = c.rule
  <2>1. \/ c.rule \in R
        \/ \E j \in 1 .. i : q[j].op = "rule" /\ q[j].name = c.rule
    BY <1>5, <1>0 DEF Fits
  <2>2. CASE c.rule \in R
    BY <2>2
  <2>3. ASSUME NEW j \in 1 .. i, q[j].op = "rule", q[j].name = c.rule
        PROVE  \/ c.rule \in S
               \/ \E k \in 1 .. i - 1 : p[k].op = "rule" /\ p[k].name = c.rule
    <3>1. CASE j = 1
      BY <2>3, <3>1
    <3>2. CASE j # 1
      <4>1. j - 1 \in 1 .. i - 1 /\ j - 1 \in 1 .. Len(q) - 1 /\ j - 1 + 1 = j
        BY <3>2, <1>0
      <4>2. p[j - 1] = q[j]
        BY <1>1, <4>1
      <4>. QED
        BY <4>1, <4>2, <2>3
    <3>. QED
      BY <3>1, <3>2
  <2>. QED
    BY <2>1, <2>2, <2>3
<1>. HIDE DEF c, p
<1>6. Fits(p, i, S)
  BY <1>2, <1>3, <1>4, <1>5 DEF Fits
<1>. QED
  BY <1>2, <1>6 DEF c, p

LEMMA QueuedDrops ==
  ASSUME TypeOK, TypeOK', Queued, phase \in GenPhase, UNCHANGED phase,
         todo # <<>>, todo' = Tail(todo),
         \/ UNCHANGED rules /\ Head(todo).op # "rule"
         \/ Head(todo).op = "rule" /\ DOMAIN rules' = DOMAIN rules \cup {Head(todo).name}
  PROVE  Queued'
<1>. SUFFICES ASSUME NEW i \in DOMAIN todo'
              PROVE  Fits(todo, i, DOMAIN rules)' /\ todo'[i].op \in CallsOf(phase)
  BY DEF Queued
<1>1. todo \in Seq(Call)
  BY DEF TypeOK, RunType
<1>2. i \in 1 .. Len(todo) - 1 /\ i + 1 \in DOMAIN todo /\ Head(todo) = todo[1]
  BY <1>1, AfterHead
<1>3. Fits(todo, i + 1, DOMAIN rules) /\ todo[i + 1].op \in CallsOf(phase)
  BY <1>2 DEF Queued
<1>4. todo'[i].op = todo[i + 1].op /\ Fits(todo, i, DOMAIN rules)'
  <2>. DEFINE R == DOMAIN rules
              S == DOMAIN rules'
  <2>2. \/ S = R /\ todo[1].op # "rule"
        \/ S = R \cup {todo[1].name} /\ todo[1].op = "rule"
    BY <1>2
  <2>. HIDE DEF R, S
  <2>3. Tail(todo)[i].op = todo[i + 1].op /\ Fits(Tail(todo), i, S)
    <3>1. Fits(todo, i + 1, R)
      BY <1>3 DEF R
    <3>. QED
      BY <1>1, <1>2, <2>2, <3>1, FitsAfterHead
  <2>4. Fits(todo, i, DOMAIN rules)' <=> Fits(todo', i, S)
    BY DEF Fits, S, OneOutput
  <2>. QED
    BY <2>3, <2>4
<1>. QED
  BY <1>3, <1>4

LEMMA QueuedExpands ==
  ASSUME TypeOK, TypeOK', Queued, phase \in GenPhase, UNCHANGED phase, Expands
  PROVE  Queued'
<1>0. todo \in Seq(Call) /\ todo # <<>> /\ Len(todo) \in Nat \ {0} /\ Head(todo) = todo[1]
      /\ DOMAIN todo = 1 .. Len(todo) /\ UNCHANGED rules
  BY AfterHead DEF TypeOK, RunType, Expands, InlineBuild, Phony, Calling, TableState
<1>. DEFINE c == todo[1]
<1>1. Fits(todo, 1, DOMAIN rules) /\ c.op \in CallsOf(phase)
  BY <1>0 DEF Queued
\* The calls behind are neither rules nor preceded by their rule at the head.
<1>2. ASSUME c.op \in {"inline", "phony"}, NEW k \in 2 .. Len(todo)
      PROVE  /\ Fits(todo, k, DOMAIN rules) /\ todo[k].op \in CallsOf(phase)
             /\ todo[k].op # "rule"
             /\ todo[k].op = "build" => \/ todo[k].rule \in DOMAIN rules
                                        \/ \E j \in 2 .. k - 1 : todo[j].op = "rule" /\ todo[j].name = todo[k].rule
  <2>1. Fits(todo, k, DOMAIN rules) /\ todo[k].op \in CallsOf(phase)
    BY <1>0 DEF Queued
  <2>2. 1 \in 1 .. k - 1 /\ c.op \notin {"help", "var", "define"}
    BY <1>2
  <2>3. todo[k].op # "rule"
    BY <2>1, <2>2 DEF Fits
  <2>4. ASSUME todo[k].op = "build"
        PROVE  \/ todo[k].rule \in DOMAIN rules
               \/ \E j \in 2 .. k - 1 : todo[j].op = "rule" /\ todo[j].name = todo[k].rule
    <3>1. \/ todo[k].rule \in DOMAIN rules
          \/ \E j \in 1 .. k - 1 : todo[j].op = "rule" /\ todo[j].name = todo[k].rule
      BY <2>1, <2>4 DEF Fits
    <3>2. \A j \in 1 .. k - 1 : todo[j].op = "rule" => j \in 2 .. k - 1
      BY <1>2
    <3>. QED
      BY <3>1, <3>2
  <2>. QED
    BY <2>1, <2>3, <2>4
<1>3. CASE InlineBuild
  <2>. DEFINE r == unique_rule_name(Ident[c.outs], DOMAIN rules)
              a == [op |-> "rule", name |-> r, valid |-> TRUE, implicit_in |-> {}]
              b == [op |-> "build", outs |-> c.outs, rule |-> r, ins |-> c.ins,
                    implicit_in |-> c.implicit_in, no_default |-> c.no_default]
  <2>1. todo' = <<a, b>> \o Tail(todo) /\ c.op = "inline"
    BY <1>3, <1>0 DEF InlineBuild, Calling
  <2>2. r \notin DOMAIN rules
    <3>1. c \in InlineCall
      BY <2>1, <1>0, HeadOfTodo, CallByOp DEF TypeOK
    <3>2. Ident[c.outs] \in Name
      BY <3>1, IdentAssumption DEF InlineCall
    <3>. QED
      BY <3>2, UniqueRuleName DEF TypeOK, TableType
  <2>3. c.no_default /\ OneOutput(c) /\ phase \in {"clean", "mrproper", "help"}
    BY <2>1, <1>1 DEF Fits, CallsOf, GenPhase
  <2>4. a.op = "rule" /\ a.name = r /\ a.valid /\ a.implicit_in = {}
        /\ b.op = "build" /\ b.outs = c.outs /\ b.rule = r /\ b.no_default = c.no_default
    OBVIOUS
  <2>5. a.op \in CallsOf(phase) /\ b.op \in CallsOf(phase)
    BY <2>3, <2>4 DEF CallsOf
  <2>. HIDE DEF a, b, r, c
  <2>6. /\ DOMAIN todo' = 1 .. Len(todo) + 1 /\ todo'[1] = a /\ todo'[2] = b
        /\ \A i \in 3 .. Len(todo) + 1 : todo'[i] = todo[i - 1]
    BY <1>0, <2>1, TwoForHead
  <2>. SUFFICES ASSUME NEW i \in DOMAIN todo'
                PROVE  Fits(todo, i, DOMAIN rules)' /\ todo'[i].op \in CallsOf(phase)
    BY DEF Queued
  <2>7. CASE i = 1
    BY <2>7, <2>2, <2>4, <2>5, <2>6, <1>0 DEF Fits
  <2>8. CASE i = 2
    <3>1. 1 \in 1 .. i - 1
      BY <2>8
    <3>2. OneOutput(b)
      BY <2>3, <2>4 DEF OneOutput
    <3>. QED
      BY <2>8, <3>1, <3>2, <2>3, <2>4, <2>5, <2>6, <1>0 DEF Fits, OneOutput
  <2>9. CASE i \in 3 .. Len(todo) + 1
    <3>. DEFINE k == i - 1
    <3>1. k \in 2 .. Len(todo) /\ todo'[i] = todo[k] /\ k \in Nat
      BY <2>9, <2>6, <1>0
    <3>2. /\ Fits(todo, k, DOMAIN rules) /\ todo[k].op \in CallsOf(phase)
          /\ todo[k].op # "rule"
          /\ todo[k].op = "build" => \/ todo[k].rule \in DOMAIN rules
                                     \/ \E j \in 2 .. k - 1 : todo[j].op = "rule" /\ todo[j].name = todo[k].rule
      BY <1>2, <2>1, <3>1
    <3>3. \A j \in 2 .. k - 1 : j + 1 \in 1 .. i - 1 /\ todo'[j + 1] = todo[j]
      <4>. SUFFICES ASSUME NEW j \in 2 .. k - 1 PROVE j + 1 \in 1 .. i - 1 /\ todo'[j + 1] = todo[j]
        OBVIOUS
      <4>1. j + 1 \in 3 .. Len(todo) + 1 /\ j + 1 - 1 = j /\ j + 1 \in 1 .. i - 1
        BY <3>1
      <4>. QED
        BY <4>1, <2>6
    <3>. HIDE DEF k
    <3>4. todo[k].op = "build" => \/ todo[k].rule \in DOMAIN rules
                                  \/ \E j \in 1 .. i - 1 : todo'[j].op = "rule" /\ todo'[j].name = todo[k].rule
      BY <3>2, <3>3
    <3>. QED
      BY <3>1, <3>2, <3>4, <1>0 DEF Fits, OneOutput
  <2>. QED
    BY <2>6, <2>7, <2>8, <2>9, <1>0
<1>4. CASE Phony
  <2>. DEFINE b == [op |-> "build", outs |-> c.outs, rule |-> phony_rule, ins |-> c.ins,
                    implicit_in |-> {}, no_default |-> c.no_default]
  <2>1. todo' = <<b>> \o Tail(todo) /\ c.op = "phony"
    BY <1>4, <1>0 DEF Phony, Calling
  <2>3. c.no_default /\ OneOutput(c) /\ phase \in {"install", "clean", "mrproper"}
    BY <2>1, <1>1 DEF Fits, CallsOf, GenPhase
  <2>4. b.op = "build" /\ b.outs = c.outs /\ b.rule = phony_rule /\ b.no_default = c.no_default
        /\ phony_rule \in DOMAIN rules
    BY DEF TypeOK, TableType
  <2>5. b.op \in CallsOf(phase)
    BY <2>3, <2>4 DEF CallsOf
  <2>. HIDE DEF b, c
  <2>6. /\ DOMAIN todo' = 1 .. Len(todo) /\ todo'[1] = b
        /\ \A i \in 2 .. Len(todo) : todo'[i] = todo[i]
    BY <1>0, <2>1, OneForHead
  <2>. SUFFICES ASSUME NEW i \in DOMAIN todo'
                PROVE  Fits(todo, i, DOMAIN rules)' /\ todo'[i].op \in CallsOf(phase)
    BY DEF Queued
  <2>7. CASE i = 1
    <3>1. OneOutput(b)
      BY <2>3, <2>4 DEF OneOutput
    <3>. QED
      BY <2>7, <3>1, <2>3, <2>4, <2>5, <2>6, <1>0 DEF Fits, OneOutput
  <2>8. CASE i \in 2 .. Len(todo)
    <3>1. todo'[i] = todo[i] /\ i \in Nat
      BY <2>8, <2>6, <1>0
    <3>2. /\ Fits(todo, i, DOMAIN rules) /\ todo[i].op \in CallsOf(phase)
          /\ todo[i].op # "rule"
          /\ todo[i].op = "build" => \/ todo[i].rule \in DOMAIN rules
                                     \/ \E j \in 2 .. i - 1 : todo[j].op = "rule" /\ todo[j].name = todo[i].rule
      BY <1>2, <2>1, <2>8
    <3>3. \A j \in 2 .. i - 1 : j \in 1 .. i - 1 /\ todo'[j] = todo[j]
      BY <2>8, <2>6, <1>0
    <3>4. todo[i].op = "build" => \/ todo[i].rule \in DOMAIN rules
                                  \/ \E j \in 1 .. i - 1 : todo'[j].op = "rule" /\ todo'[j].name = todo[i].rule
      BY <3>2, <3>3
    <3>. QED
      BY <3>1, <3>2, <3>4, <1>0 DEF Fits, OneOutput
  <2>. QED
    BY <2>6, <2>7, <2>8, <1>0
<1>. QED
  BY <1>3, <1>4 DEF Expands

-----------------------------------------------------------------------------
(* The calls each section starts with. *)

LEMMA UniqueNameIsFirst ==
  ASSUME NEW name \in Name, NEW used, IsFiniteSet(used), name \notin used
  PROVE  unique_rule_name(name, used) = name
<1>. DEFINE First(i) == /\ Candidate(name, i) \notin used
                        /\ \A j \in 0 .. i - 1 : Candidate(name, j) \in used
            k == CHOOSE i \in 0 .. Cardinality(used) : First(i)
<1>1. Cardinality(used) \in Nat
  BY FS_CardinalityType
<1>2. First(0) /\ 0 \in 0 .. Cardinality(used)
  BY <1>1 DEF Candidate
<1>3. k \in 0 .. Cardinality(used) /\ First(k)
  BY <1>2, Zenon
<1>4. k = 0
  <2>1. CASE k # 0
    <3>1. 0 \in 0 .. k - 1
      BY <1>1, <1>3, <2>1
    <3>2. Candidate(name, 0) \in used
      BY <1>3, <3>1
    <3>. QED
      BY <3>2 DEF Candidate
  <2>. QED
    BY <2>1
<1>5. unique_rule_name(name, used) = Candidate(name, k)
  BY DEF unique_rule_name
<1>. QED
  BY <1>4, <1>5 DEF Candidate

LEMMA CleanCallsFit ==
  ASSUME NEW name \in Name, NEW dirs \in Seq(Dir), NEW target \in [Dir -> Name],
         NEW others \in SUBSET Name, NEW R,
         NEW i \in DOMAIN CleanCalls(name, dirs, target, others)
  PROVE  LET q == CleanCalls(name, dirs, target, others) IN
         Fits(q, i, R) /\ q[i].op \in {"help", "inline", "phony"}
<1>. DEFINE h   == [op |-> "help", name |-> name]
            at(j) == [op |-> "inline", outs |-> <<target[dirs[j]]>>, ins |-> {},
                      implicit_in |-> {}, no_default |-> TRUE]
            n == Len(dirs)
            rm  == [j \in 1 .. n |-> at(j)]
            ins == {target[d] : d \in Elements(dirs)} \cup others
            all == [op |-> "phony", outs |-> <<name>>, ins |-> ins,
                    implicit_in |-> {}, no_default |-> TRUE]
            q == <<h>> \o rm \o <<all>>
<1>0. n \in Nat
  OBVIOUS
<1>1. dirs # <<>> /\ CleanCalls(name, dirs, target, others) = q
  BY DEF CleanCalls
<1>2. h.op = "help" /\ all.op = "phony" /\ all.no_default /\ Len(all.outs) = 1
  OBVIOUS
<1>3. \A j \in 1 .. n : at(j).op = "inline" /\ at(j).no_default /\ Len(at(j).outs) = 1
  OBVIOUS
<1>4. i \in DOMAIN q
  BY <1>1
<1>. HIDE DEF h, all, ins, at
<1>5. \/ q[i] = h \/ q[i] = all \/ \E j \in 1 .. n : q[i] = at(j)
  <2>1. rm \in Seq({at(j) : j \in 1 .. n}) /\ Len(rm) = n
    BY <1>0
  <2>2. \A j \in 1 .. n : rm[j] = at(j)
    OBVIOUS
  <2>. HIDE DEF rm, n
  <2>3. DOMAIN q = 1 .. n + 2 /\ q[1] = h /\ q[n + 2] = all
        /\ \A j \in 1 .. n : q[j + 1] = rm[j]
    BY <1>0, <2>1
  <2>4. i \in 1 .. n + 2
    BY <2>3, <1>4
  <2>5. CASE i \in 2 .. n + 1
    <3>1. i - 1 \in 1 .. n /\ i - 1 + 1 = i
      BY <2>5, <1>0
    <3>. QED
      BY <2>2, <2>3, <3>1
  <2>. QED
    BY <2>3, <2>4, <2>5, <1>0
<1>6. q[i].op \in {"help", "inline", "phony"}
      /\ (q[i].op # "help" => q[i].no_default /\ Len(q[i].outs) = 1)
  BY <1>2, <1>3, <1>5
<1>. HIDE DEF q
<1>7. Fits(q, i, R) /\ q[i].op \in {"help", "inline", "phony"}
  BY <1>6 DEF Fits, OneOutput
<1>. QED
  BY <1>1, <1>7

LEMMA QueuedInstall ==
  ASSUME TypeOK, TypeOK', GenInstall
  PROVE  Queued' /\ InstallRuleKnown'
<1>. DEFINE r == unique_rule_name(Plain("install"), DOMAIN rules)
            c1 == [op |-> "help", name |-> Plain("install")]
            c2 == [op |-> "var", name |-> Plain("prefix")]
            c3 == [op |-> "define", name |-> Plain("prefix")]
            c4 == [op |-> "rule", name |-> r, valid |-> TRUE, implicit_in |-> {}]
            q == <<c1, c2, c3, c4>>
<1>1. /\ todo' = IF install_targets = {} THEN <<>> ELSE q
      /\ groups' = {t.dir : t \in install_targets} /\ rules' = rules /\ phase' = "install"
  BY DEF GenInstall, Enter, TableState
<1>2. Plain("install") \in Name
  BY ReservedName DEF ReservedWord
<1>3. r \notin DOMAIN rules
  BY <1>2, UniqueRuleName DEF TypeOK, TableType
<1>4. Plain("install") \in DOMAIN rules \/ r = Plain("install")
  BY <1>2, UniqueNameIsFirst DEF TypeOK, TableType
<1>5. c1.op = "help" /\ c2.op = "var" /\ c2.name = Plain("prefix") /\ c3.op = "define"
      /\ c4.op = "rule" /\ c4.name = r /\ c4.valid /\ c4.implicit_in = {}
  OBVIOUS
<1>. HIDE DEF r, c1, c2, c3, c4
<1>6. DOMAIN q = 1 .. 4 /\ q[1] = c1 /\ q[2] = c2 /\ q[3] = c3 /\ q[4] = c4
  OBVIOUS
<1>7. ASSUME NEW i \in DOMAIN q
      PROVE  Fits(q, i, DOMAIN rules) /\ q[i].op \in CallsOf("install")
  <2>1. q[i].op \in CallsOf("install")
    BY <1>5, <1>6 DEF CallsOf
  <2>2. i # 4 => q[i].op \in {"help", "var", "define"} /\ (q[i].op = "var" => q[i].name = Plain("prefix"))
    BY <1>5, <1>6
  <2>3. CASE i # 4
    BY <2>1, <2>2, <2>3 DEF Fits
  <2>4. CASE i = 4
    <3>1. \A j \in 1 .. i - 1 : q[j].op \in {"help", "var", "define"}
      BY <1>5, <1>6, <2>4
    <3>2. q[i] = c4
      BY <1>6, <2>4
    <3>. HIDE DEF q
    <3>. QED
      BY <2>1, <3>1, <3>2, <1>3, <1>5 DEF Fits
  <2>. QED
    BY <2>1, <2>3, <2>4
<1>8. Queued'
  <2>. SUFFICES ASSUME NEW i \in DOMAIN todo'
                PROVE  Fits(todo, i, DOMAIN rules)' /\ todo'[i].op \in CallsOf("install")
    BY <1>1 DEF Queued
  <2>. HIDE DEF q
  <2>1. todo' = q
    BY <1>1
  <2>. QED
    BY <1>1, <1>7, <2>1 DEF Fits, OneOutput
<1>9. InstallRuleKnown'
  <2>. HIDE DEF q
  <2>1. CASE install_targets # {}
    BY <2>1, <1>1, <1>4, <1>5, <1>6 DEF InstallRuleKnown
  <2>2. CASE install_targets = {}
    BY <2>2, <1>1 DEF InstallRuleKnown
  <2>. QED
    BY <2>1, <2>2
<1>. QED
  BY <1>8, <1>9

LEMMA QueuedInstallGroup ==
  ASSUME TypeOK, TypeOK', InstallRuleKnown, NEW d \in Dir, InstallGroup(d)
  PROVE  Queued' /\ InstallRuleKnown'
<1>. DEFINE ins   == UNION {t.sources : t \in {t \in install_targets : t.dir = d}}
            names == {InstallTarget[t.dir] : t \in install_targets}
            copy  == [op |-> "build", outs |-> <<InstallTarget[d]>>,
                      rule |-> Plain("install"), ins |-> ins,
                      implicit_in |-> {}, no_default |-> TRUE]
            all   == [op |-> "phony", outs |-> <<Plain("install")>>,
                      ins |-> names, implicit_in |-> {}, no_default |-> TRUE]
<1>1. /\ todo' = <<copy, all>> \/ todo' = <<copy>>
      /\ phase = "install" /\ phase' = "install" /\ rules' = rules
      /\ todo = <<>> /\ groups # {}
  BY DEF InstallGroup, NextGroup, SourcesIn, Idle, TableState, RunState
<1>2. Plain("install") \in DOMAIN rules
  BY <1>1 DEF InstallRuleKnown
<1>3. copy.op = "build" /\ copy.no_default /\ Len(copy.outs) = 1
      /\ copy.rule = Plain("install")
      /\ all.op = "phony" /\ all.no_default /\ Len(all.outs) = 1
  OBVIOUS
<1>. HIDE DEF copy, all
<1>4. \A i \in DOMAIN todo' : todo'[i] = copy \/ todo'[i] = all
  BY <1>1
<1>5. Queued'
  BY <1>1, <1>2, <1>3, <1>4 DEF Queued, Fits, OneOutput, CallsOf
<1>. QED
  BY <1>1, <1>2, <1>5 DEF InstallRuleKnown

LEMMA QueuedClean ==
  ASSUME TypeOK, TypeOK', GenClean \/ GenMrproper
  PROVE  Queued' /\ InstallRuleKnown'
<1>1. /\ phase' \in {"clean", "mrproper"} /\ rules' = rules
      /\ \A i \in DOMAIN todo' : /\ Fits(todo', i, DOMAIN rules)
                                 /\ todo'[i].op \in {"help", "inline", "phony"}
  <2>1. Plain("clean") \in Name /\ Plain("mrproper") \in Name
    BY ReservedName DEF ReservedWord
  <2>2. CASE GenClean
    <3>1. todo' = CleanCalls(Plain("clean"), directories_to_clean, CleanTarget, {})
          /\ phase' = "clean" /\ rules' = rules
      BY <2>2 DEF GenClean, Enter, TableState
    <3>. QED
      BY <2>1, <3>1, CleanCallsFit, DirAssumption DEF TypeOK, RequestType
  <2>3. CASE GenMrproper
    <3>. DEFINE others == IF directories_to_clean = <<>> THEN {} ELSE {Plain("clean")}
    <3>1. todo' = CleanCalls(Plain("mrproper"), directories_to_clean_more, MrproperTarget, others)
          /\ phase' = "mrproper" /\ rules' = rules
      BY <2>3 DEF GenMrproper, Enter, TableState
    <3>2. others \in SUBSET Name
      BY <2>1
    <3>. HIDE DEF others
    <3>. QED
      BY <2>1, <3>1, <3>2, CleanCallsFit, DirAssumption DEF TypeOK, RequestType
  <2>. QED
    BY <2>2, <2>3
<1>. QED
  BY <1>1 DEF Queued, InstallRuleKnown, Fits, OneOutput, CallsOf

LEMMA QueuedOthers ==
  ASSUME TypeOK, TypeOK', GenHelp \/ GenGenerator \/ GenDefault
  PROVE  Queued' /\ InstallRuleKnown'
<1>1. CASE GenHelp
  <2>. DEFINE c == [op |-> "inline", outs |-> <<Plain("help")>>,
                    ins |-> {}, implicit_in |-> {}, no_default |-> TRUE]
  <2>1. (todo' = <<>> \/ todo' = <<c>>) /\ phase' = "help"
    BY <1>1 DEF GenHelp, Enter
  <2>2. c.op = "inline" /\ c.no_default /\ Len(c.outs) = 1
    OBVIOUS
  <2>. HIDE DEF c
  <2>3. \A i \in DOMAIN todo' : todo'[i] = c
    BY <2>1
  <2>. QED
    BY <2>1, <2>2, <2>3 DEF Queued, InstallRuleKnown, Fits, OneOutput, CallsOf
<1>2. CASE GenGenerator
  <2>. DEFINE r == unique_rule_name(Plain("bang"), DOMAIN rules)
              a == [op |-> "rule", name |-> r, valid |-> TRUE, implicit_in |-> {}]
              b == [op |-> "build", outs |-> <<Output>>, rule |-> r, ins |-> {Input},
                    implicit_in |-> generator_deps \ {Input}, no_default |-> TRUE]
  <2>1. (todo' = <<>> \/ todo' = <<a, b>>) /\ phase' = "generator" /\ rules' = rules
    BY <1>2 DEF GenGenerator, Enter, TableState
  <2>2. r \notin DOMAIN rules
    BY ReservedName, UniqueRuleName DEF ReservedWord, TypeOK, TableType
  <2>3. a.op = "rule" /\ a.name = r /\ a.valid /\ a.implicit_in = {}
        /\ b.op = "build" /\ b.rule = r /\ b.no_default /\ Len(b.outs) = 1
    OBVIOUS
  <2>. HIDE DEF a, b, r
  <2>4. CASE todo' = <<>>
    BY <2>1, <2>4 DEF Queued, InstallRuleKnown
  <2>5. CASE todo' = <<a, b>>
    <3>1. DOMAIN todo' = 1 .. 2 /\ todo'[1] = a /\ todo'[2] = b
      BY <2>5
    <3>2. Fits(todo', 1, DOMAIN rules)
      BY <2>2, <2>3, <3>1 DEF Fits
    <3>3. Fits(todo', 2, DOMAIN rules)
      <4>1. 1 \in 1 .. 2 - 1
        OBVIOUS
      <4>. QED
        BY <2>2, <2>3, <3>1, <4>1 DEF Fits, OneOutput
    <3>4. \A i \in DOMAIN todo' : Fits(todo', i, DOMAIN rules) /\ todo'[i].op \in {"rule", "build"}
      BY <2>3, <3>1, <3>2, <3>3
    <3>. QED
      BY <2>1, <3>4 DEF Queued, InstallRuleKnown, Fits, OneOutput, CallsOf
  <2>. QED
    BY <2>1, <2>4, <2>5
<1>3. CASE GenDefault
  <2>. DEFINE c == [op |-> "default", targets |-> default_build_statements]
  <2>1. (todo' = <<>> \/ todo' = <<c>>) /\ phase' = "default"
    BY <1>3 DEF GenDefault, Enter
  <2>2. c.op = "default"
    OBVIOUS
  <2>. HIDE DEF c
  <2>3. \A i \in DOMAIN todo' : todo'[i] = c
    BY <2>1
  <2>. QED
    BY <2>1, <2>2, <2>3 DEF Queued, InstallRuleKnown, Fits, OneOutput, CallsOf
<1>. QED
  BY <1>1, <1>2, <1>3

LEMMA ExecuteInPhase == Execute => UNCHANGED phase /\ todo # <<>> /\ ~failed
BY DEF Execute, VarName, VarValue, Rule, Pool, InlineBuild, Phony, Build, Default,
       Generator, Require, Clean, Mrproper, Install, Help, Describe, Atexit, Calling,
       Error, RunState

LEMMA QueuedCall ==
  ASSUME TypeOK, TypeOK', Queued, InstallRuleKnown, phase \in GenPhase, Execute
  PROVE  Queued' /\ InstallRuleKnown'
<1>1. UNCHANGED phase /\ todo # <<>>
  BY ExecuteInPhase
<1>2. CASE Error
  BY <1>2 DEF Error, TableState, LocalState, RunState, Queued, InstallRuleKnown, Fits, OneOutput
<1>3. CASE UNCHANGED Given /\ (Skips \/ Documents \/ DefinesRule \/ Builds \/ Chooses)
  <2>1. /\ todo' = Tail(todo)
        /\ \/ UNCHANGED rules /\ Head(todo).op # "rule"
           \/ Head(todo).op = "rule" /\ DOMAIN rules' = DOMAIN rules \cup {Head(todo).name}
    BY <1>3 DEF Skips, Documents, DefinesRule, Builds, Chooses, Drops
  <2>2. Queued'
    BY <1>1, <2>1, QueuedDrops
  <2>3. InstallRuleKnown'
    <3>. SUFFICES ASSUME phase = "install", groups # {}, Plain("install") \notin DOMAIN rules'
                  PROVE  \E i \in DOMAIN todo' : /\ todo'[i].op = "rule"
                                                 /\ todo'[i].name = Plain("install")
      BY <1>1, <1>3 DEF InstallRuleKnown, Given
    <3>1. Plain("install") \notin DOMAIN rules
      BY <2>1
    <3>2. PICK i \in DOMAIN todo : todo[i].op = "rule" /\ todo[i].name = Plain("install")
      BY <3>1 DEF InstallRuleKnown
    <3>3. todo \in Seq(Call)
      BY DEF TypeOK, RunType
    <3>4. Head(todo) = todo[1] /\ DOMAIN todo = 1 .. Len(todo) /\ Len(todo) \in Nat
      BY <1>1, <3>3, AfterHead
    <3>5. i # 1
      BY <2>1, <3>1, <3>2, <3>4
    <3>6. i - 1 \in 1 .. Len(todo) - 1 /\ i - 1 + 1 = i
      BY <3>4, <3>5
    <3>7. i - 1 \in DOMAIN todo' /\ todo'[i - 1] = todo[i]
      BY <1>1, <2>1, <3>3, <3>6, AfterHead
    <3>. QED
      BY <3>2, <3>7
  <2>. QED
    BY <2>2, <2>3
<1>4. CASE UNCHANGED Given /\ Expands
  <2>1. Queued'
    BY <1>1, <1>4, QueuedExpands
  <2>2. InstallRuleKnown'
    <3>. SUFFICES ASSUME phase = "install", groups # {}, Plain("install") \notin DOMAIN rules'
                  PROVE  \E i \in DOMAIN todo' : /\ todo'[i].op = "rule"
                                                 /\ todo'[i].name = Plain("install")
      BY <1>1, <1>4 DEF InstallRuleKnown, Given
    <3>1. todo \in Seq(Call)
      BY DEF TypeOK, RunType
    <3>2. Head(todo) = todo[1] /\ DOMAIN todo = 1 .. Len(todo) /\ Len(todo) \in Nat \ {0}
      BY <1>1, <3>1, AfterHead
    <3>3. todo[1].op # "inline"
      BY <3>2 DEF Queued, CallsOf
    <3>4. Phony
      BY <1>4, <3>2, <3>3 DEF Expands, InlineBuild, Calling
    <3>5. UNCHANGED rules /\ todo[1].op = "phony"
      BY <3>2, <3>4 DEF Phony, Calling, TableState
    <3>6. PICK i \in DOMAIN todo : todo[i].op = "rule" /\ todo[i].name = Plain("install")
      BY <3>5 DEF InstallRuleKnown
    <3>7. i \in 2 .. Len(todo)
      BY <3>2, <3>5, <3>6
    <3>8. PICK b : todo' = <<b>> \o Tail(todo)
      BY <3>4 DEF Phony
    <3>9. i \in DOMAIN todo' /\ todo'[i] = todo[i]
      BY <1>1, <3>1, <3>2, <3>7, <3>8, OneForHead
    <3>. QED
      BY <3>6, <3>9
  <2>. QED
    BY <2>1, <2>2
<1>. QED
  BY <1>2, <1>3, <1>4, SectionCall

LEMMA QueuedNext ==
  ASSUME TypeOK, TypeOK', Queued, InstallRuleKnown, [Next]_state
  PROVE  Queued' /\ InstallRuleKnown'
<1>1. CASE UNCHANGED state
  BY <1>1 DEF state, RunState, TableState, LocalState, Queued, InstallRuleKnown, Fits, OneOutput
<1>2. CASE Execute
  <2>1. CASE phase \in GenPhase
    BY <1>2, <2>1, QueuedCall
  <2>2. CASE phase \notin GenPhase
    BY <1>2, <2>2, ExecuteInPhase DEF Queued, InstallRuleKnown, GenPhase
  <2>. QED
    BY <2>1, <2>2
<1>3. ASSUME NEW c \in Script, ScriptCall(c)
      PROVE  Queued' /\ InstallRuleKnown'
  BY <1>3 DEF ScriptCall, Idle, Queued, InstallRuleKnown, GenPhase
<1>4. CASE EndOfScript \/ AtexitRound \/ AtexitRun \/ Finish
  BY <1>4 DEF EndOfScript, AtexitRound, AtexitRun, Finish, Idle, Enter, RunState,
              Queued, InstallRuleKnown, GenPhase
<1>5. CASE Sections /\ ~(EndOfScript \/ AtexitRound \/ AtexitRun \/ Finish)
  BY <1>5, QueuedInstall, QueuedInstallGroup, QueuedClean, QueuedOthers DEF Sections
<1>6. CASE InstallRefused
  BY <1>6 DEF InstallRefused, Error, RunState, TableState, LocalState, Queued,
              InstallRuleKnown, Fits, OneOutput
<1>. QED
  BY <1>1, <1>2, <1>3, <1>4, <1>5, <1>6 DEF Next, Exited

-----------------------------------------------------------------------------
(* The sections fail only on a name of the script. *)

LEMMA FailNext ==
  ASSUME TypeOK, Queued, GenerationFailsOnlyOnNames, [Next]_state
  PROVE  GenerationFailsOnlyOnNames'
<1>. DEFINE Taken == \/ todo[1].op = "var" /\ todo[1].name = Plain("prefix")
                     \/ /\ todo[1].op = "build" /\ todo[1].rule \in DOMAIN rules
                        /\ Elements(todo[1].outs) \cap DOMAIN builds # {}
            Cannot == /\ todo = <<>> /\ phase = "install"
                      /\ \E d \in groups : SourcesIn(d) \cap Recursive # {}
<1>0. GenerationFailsOnlyOnNames <=>
        (failed /\ phase \in GenPhase => (todo # <<>> /\ Taken) \/ Cannot)
  BY DEF GenerationFailsOnlyOnNames
<1>. SUFFICES ASSUME failed', phase' \in GenPhase
              PROVE  (todo' # <<>> /\ Taken') \/ Cannot'
  BY DEF GenerationFailsOnlyOnNames
<1>1. CASE UNCHANGED state
  BY <1>0, <1>1 DEF state, RunState, TableState, BuildState, RequestState, LocalState,
                    SourcesIn
<1>2. ASSUME Execute, ~failed
      PROVE  todo' # <<>> /\ Taken'
  <2>0. phase \in GenPhase
    BY <1>2, ExecuteInPhase
  <2>1. Error /\ todo # <<>>
    BY <1>2, <2>0, SectionCall, ExecuteInPhase
       DEF Execute, VarName, VarValue, Rule, Pool, InlineBuild, Phony, Build, Default,
           Generator, Require, Clean, Mrproper, Install, Help, Describe, Atexit, Return
  <2>2. UNCHANGED <<todo, rules, builds, phase>>
    BY <2>1 DEF Error, TableState, BuildState, RunState
  <2>3. Head(todo) = todo[1] /\ 1 \in DOMAIN todo
    BY <2>1, AfterHead DEF TypeOK, RunType
  <2>. DEFINE c == Head(todo)
  <2>4. Fits(todo, 1, DOMAIN rules) /\ c = todo[1]
    BY <2>0, <2>3 DEF Queued
  <2>5. \/ c.op = "var"
        \/ c.op = "rule" /\ ~RuleAllowed(c)
        \/ c.op = "build" /\ ~BuildAllowed(c)
    <3>1. c.op \in {"help", "var", "define", "rule", "inline", "phony", "build", "default"}
      BY <2>4 DEF Fits
    <3>2. failed' # failed
      BY <1>2
    <3>3. ~Return
      BY <3>2 DEF Return
    <3>4. VarName \/ Rule \/ Build
      BY <1>2, <3>1, <3>2, <3>3
         DEF Execute, VarValue, Pool, InlineBuild, Phony, Default, Generator, Require, Clean,
             Mrproper, Install, Help, Describe, Atexit, Calling
    <3>5. CASE VarName
      BY <3>5 DEF VarName, Calling
    <3>6. CASE Rule
      BY <3>3, <3>6 DEF Rule, Calling
    <3>7. CASE Build
      BY <3>3, <3>7 DEF Build, Calling
    <3>. QED
      BY <3>4, <3>5, <3>6, <3>7
  <2>. HIDE DEF c
  <2>6. CASE c.op = "var"
    BY <2>1, <2>2, <2>4, <2>6 DEF Fits
  <2>7. CASE c.op = "rule" /\ ~RuleAllowed(c)
    BY <2>4, <2>7 DEF Fits, RuleAllowed
  <2>8. CASE c.op = "build" /\ ~BuildAllowed(c)
    <3>1. c.rule \in DOMAIN rules /\ Len(c.outs) = 1
      BY <2>4, <2>8 DEF Fits, OneOutput
    <3>2. c \in BuildCall
      BY <2>1, <2>8, HeadOfTodo, CallByOp DEF TypeOK, c
    <3>3. Distinct(c.outs)
      <4>1. c.outs \in Seq(Name)
        BY <3>2 DEF BuildCall
      <4>2. DOMAIN c.outs = 1 .. 1
        BY <4>1, <3>1
      <4>. QED
        BY <4>2 DEF Distinct
    <3>4. Elements(c.outs) \cap DOMAIN builds # {}
      BY <2>8, <3>1, <3>3 DEF BuildAllowed
    <3>. QED
      BY <2>1, <2>2, <2>4, <2>8, <3>1, <3>4
  <2>. QED
    BY <2>5, <2>6, <2>7, <2>8
<1>3. ASSUME NEW c \in Script, ScriptCall(c) PROVE FALSE
  BY <1>3 DEF ScriptCall, Idle, TypeOK, RunType
<1>4. ASSUME Sections PROVE FALSE
  BY <1>4 DEF Sections, EndOfScript, AtexitRound, AtexitRun, GenInstall, InstallGroup,
              NextGroup, GenClean, GenMrproper, GenHelp, GenGenerator, GenDefault, Finish,
              Idle, Enter
<1>5. Execute => ~failed
  BY ExecuteInPhase
<1>6. CASE InstallRefused
  <2>1. PICK d \in groups : SourcesIn(d) \cap Recursive # {} /\ todo = <<>> /\ phase = "install"
    BY <1>6 DEF InstallRefused, NextGroup, Idle
  <2>2. UNCHANGED <<todo, phase, groups, install_targets>>
    BY <1>6 DEF InstallRefused, Error, RunState, RequestState, LocalState
  <2>. QED
    BY <2>1, <2>2 DEF SourcesIn
<1>. QED
  BY <1>1, <1>2, <1>3, <1>4, <1>5, <1>6 DEF Next, Exited

-----------------------------------------------------------------------------
(* What any call changes, in every phase. *)

\* The calls that change neither the rules nor the statements that build.
Notes == /\ todo # <<>> /\ todo' = Tail(todo)
         /\ UNCHANGED <<Statements, rules, default_build_statements, custom_default_statement,
                        phase, groups, help_token>>

LEMMA PoolNotes == TypeOK /\ Emits(Pool) => Notes
<1>. SUFFICES ASSUME TypeOK, Emits(Pool) PROVE Notes
  OBVIOUS
<1>. DEFINE s == [kind |-> "pool", name |-> Head(todo).name]
<1>1. Head(todo).name \in Name
  BY HeadOfTodo, CallByOp DEF TypeOK, Emits, Pool, Calling, PoolCall
<1>2. s \in Statement
  <2>1. s \in [kind : {"pool"}, name : Name]
    BY <1>1
  <2>. QED
    BY <2>1, Zenon DEF Statement
<1>3. tokens' = Append(tokens, s) /\ s.kind = "pool"
  BY DEF Emits, Pool
<1>4. UNCHANGED Statements
  <2>. HIDE DEF s
  <2>. QED
    BY <1>2, <1>3, DefaultsAppend DEF Statements, TypeOK
<1>. QED
  BY <1>4 DEF Emits, Pool, Calling, Return, Notes, RunState, BuildState, LocalState

LEMMA AnyCall ==
  ASSUME TypeOK, Execute
  PROVE  \/ Error
         \/ UNCHANGED Given /\ (\/ Skips \/ Documents \/ DefinesRule \/ Expands \/ Builds
                                \/ Chooses)
         \/ Notes
<1>1. CASE VarName \/ VarValue
  BY <1>1, CallSkips
<1>2. CASE Rule
  BY <1>2, CallDefinesRule DEF Emits
<1>3. CASE Pool
  BY <1>3, PoolNotes DEF Emits
<1>4. CASE InlineBuild \/ Phony
  BY <1>4, CallExpands
<1>5. CASE Build
  BY <1>5, CallBuilds DEF Emits
<1>6. CASE Default
  BY <1>6, CallChooses
<1>7. CASE Help
  BY <1>7, CallDocuments
<1>8. CASE Generator \/ Require \/ Clean \/ Mrproper \/ Install \/ Describe \/ Atexit
  BY <1>8 DEF Generator, Require, Clean, Mrproper, Install, Describe, Atexit, Calling, Return,
              Notes, Statements, DefaultStatements, RunState, TableState, BuildState, LocalState
<1>. QED
  BY <1>1, <1>2, <1>3, <1>4, <1>5, <1>6, <1>7, <1>8 DEF Execute

LEMMA ErrorKeeps ==
  ASSUME Error
  PROVE  UNCHANGED <<Given, Statements, todo, rules, help_targets, default_build_statements,
                     custom_default_statement>>
BY DEF Error, Given, Statements, DefaultStatements, RunState, TableState, BuildState, GenState,
       RequestState, LocalState

\* A statement a call adds is in the section of the phase.
LEMMA CallsStayInPhase ==
  ASSUME TypeOK, Execute
  PROVE  /\ \A s \in BuildsOf(tokens)' : s \in BuildsOf(tokens) \/ s.sec = phase
         /\ \A s \in DefaultStatements' : s \in DefaultStatements \/ s.sec = phase
         /\ BuildsOf(tokens) \subseteq BuildsOf(tokens)'
         /\ DefaultStatements \subseteq DefaultStatements'
<1>1. CASE Error \/ Skips \/ Documents \/ DefinesRule \/ Expands \/ Notes
  BY <1>1, ErrorKeeps DEF Skips, Documents, DefinesRule, Expands, Notes, Statements
<1>2. CASE Builds
  <2>1. Statement0.sec = phase
    BY DEF Statement0
  <2>. QED
    BY <1>2, <2>1 DEF Builds
<1>3. CASE Chooses
  BY <1>3 DEF Chooses
<1>. QED
  BY <1>1, <1>2, <1>3, AnyCall

\* The other steps emit nothing.
Silent == UNCHANGED <<tokens, rules, default_build_statements, custom_default_statement>>

LEMMA SectionsAreSilent ==
  ASSUME Sections \/ (\E c \in Script : ScriptCall(c)) \/ InstallRefused \/ UNCHANGED state
  PROVE  Silent
BY DEF Silent, InstallRefused, Error, Sections, ScriptCall, EndOfScript, AtexitRound, AtexitRun, GenInstall,
       InstallGroup, GenClean, GenMrproper, GenHelp, GenGenerator, GenDefault, Finish, state,
       TableState, BuildState

-----------------------------------------------------------------------------
(* A section is added on request, and documented. *)

LEMMA BegunBefore ==
  ASSUME TypeOK, Queued, phase \in GenPhase, Execute, NEW w, Begun(w)'
  PROVE  Begun(w)
<1>1. UNCHANGED phase /\ todo # <<>>
  BY ExecuteInPhase
<1>2. CASE phase = w
  BY <1>1, <1>2 DEF Begun
<1>3. CASE phase # w
  <2>1. BuildsIn(w)' # {}
    BY <1>1, <1>3 DEF Begun
  <2>2. BuildsIn(w)' \subseteq BuildsIn(w)
    BY <1>3, CallsStayInPhase DEF BuildsIn
  <2>. QED
    BY <2>1, <2>2 DEF Begun
<1>. QED
  BY <1>2, <1>3

LEMMA NotBegunYet ==
  ASSUME TypeOK, OnRequest, phase \in {"script", "atexit"}, Execute,
         NEW w \in Sectioned \cup {"help"}
  PROVE  ~Begun(w)'
<1>1. UNCHANGED phase
  BY ExecuteInPhase
<1>2. BuildsIn(w) = {} /\ phase # w
  BY DEF OnRequest, Begun, Sectioned
<1>3. BuildsIn(w)' \subseteq BuildsIn(w)
  BY <1>2, CallsStayInPhase DEF BuildsIn
<1>. QED
  BY <1>1, <1>2, <1>3 DEF Begun

LEMMA CleanCallsHead ==
  ASSUME NEW name \in Name, NEW dirs \in Seq(Dir), NEW target \in [Dir -> Name], NEW others
  PROVE  LET q == CleanCalls(name, dirs, target, others) IN
         /\ q # <<>> <=> dirs # <<>>
         /\ q # <<>> => Head(q) = [op |-> "help", name |-> name]
<1>. DEFINE h   == [op |-> "help", name |-> name]
            n == Len(dirs)
            at(j) == [op |-> "inline", outs |-> <<target[dirs[j]]>>, ins |-> {},
                      implicit_in |-> {}, no_default |-> TRUE]
            rm  == [j \in 1 .. n |-> at(j)]
            all == [op |-> "phony", outs |-> <<name>>,
                    ins |-> {target[d] : d \in Elements(dirs)} \cup others,
                    implicit_in |-> {}, no_default |-> TRUE]
<1>1. dirs # <<>> => CleanCalls(name, dirs, target, others) = <<h>> \o rm \o <<all>>
  BY DEF CleanCalls
<1>2. n \in Nat
  OBVIOUS
<1>. HIDE DEF h, all, at
<1>3. rm \in Seq({at(j) : j \in 1 .. n})
  BY <1>2
<1>. HIDE DEF rm
<1>4. LET q == <<h>> \o rm \o <<all>> IN q # <<>> /\ Head(q) = h
  BY <1>3
<1>. QED
  BY <1>1, <1>4 DEF CleanCalls, h

\* What a step of Sections does to the requests.
LEMMA BegunBySection ==
  ASSUME TypeOK, OnRequest, Documented, Sections, NEW w \in Sectioned \cup {"help"}, Begun(w)'
  PROVE  /\ phase' \notin {"script", "atexit"}
         /\ Requested(w)'
         /\ w \in Sectioned =>
              \/ Plain(w) \in help_targets'
              \/ phase' = w /\ todo' # <<>> /\ Head(todo)' = [op |-> "help", name |-> Plain(w)]
<1>0. BuildsIn(w)' = BuildsIn(w)
  BY SectionsAreSilent DEF Silent, BuildsIn
<1>1. todo = <<>>
  BY DEF Sections, EndOfScript, AtexitRound, AtexitRun, GenInstall, InstallGroup, NextGroup,
         GenClean, GenMrproper, GenHelp, GenGenerator, GenDefault, Finish, Idle
\* It is going on.
<1>2. ASSUME Begun(w), phase' \notin {"script", "atexit"},
             UNCHANGED <<directories_to_clean, directories_to_clean_more, install_targets,
                         help_described>>,
             help_targets \subseteq help_targets'
      PROVE  /\ phase' \notin {"script", "atexit"} /\ Requested(w)'
             /\ w \in Sectioned => Plain(w) \in help_targets'
  <2>1. Requested(w)
    BY <1>2 DEF OnRequest
  <2>2. w \in Sectioned => Plain(w) \in help_targets
    BY <1>1, <1>2 DEF Documented
  <2>3. Requested(w)'
    BY <1>2, <2>1 DEF Requested, help_defined, Sectioned
  <2>. QED
    BY <1>2, <2>2, <2>3
<1>3. CASE EndOfScript \/ AtexitRound \/ AtexitRun
  <2>1. phase \in {"script", "atexit"} /\ phase' = "atexit"
    BY <1>3 DEF EndOfScript, AtexitRound, AtexitRun, Idle, Enter, RunState
  <2>2. Begun(w)
    BY <1>0, <2>1 DEF Begun, Sectioned
  <2>. QED
    BY <2>1, <2>2 DEF OnRequest
<1>4. CASE GenInstall
  <2>1. /\ phase' = "install" /\ groups' = {t.dir : t \in install_targets}
        /\ UNCHANGED <<directories_to_clean, directories_to_clean_more, install_targets,
                       help_described, help_targets>>
    BY <1>4 DEF GenInstall, Enter, RequestState
  <2>2. CASE Begun(w)
    BY <1>2, <2>1, <2>2
  <2>3. CASE ~Begun(w)
    <3>1. w = "install" /\ (todo' # <<>> \/ groups' # {})
      BY <1>0, <2>1, <2>3 DEF Begun
    <3>2. install_targets # {}
      BY <1>4, <2>1, <3>1 DEF GenInstall
    <3>3. todo' # <<>> /\ Head(todo)' = [op |-> "help", name |-> Plain("install")]
      BY <1>4, <3>2 DEF GenInstall
    <3>. QED
      BY <2>1, <3>1, <3>2, <3>3 DEF Requested
  <2>. QED
    BY <2>2, <2>3
<1>5. ASSUME NEW d \in Dir, InstallGroup(d)
      PROVE  /\ phase' \notin {"script", "atexit"} /\ Requested(w)'
             /\ w \in Sectioned => Plain(w) \in help_targets'
  <2>1. phase = "install" /\ phase' = "install" /\ groups # {}
        /\ UNCHANGED <<directories_to_clean, directories_to_clean_more, install_targets,
                       help_described, help_targets>>
    BY <1>5 DEF InstallGroup, NextGroup, Idle, RunState, RequestState
  <2>2. Begun(w)
    BY <1>0, <2>1 DEF Begun
  <2>. QED
    BY <1>2, <2>1, <2>2
<1>6. CASE GenClean
  <2>1. /\ phase' = "clean"
        /\ UNCHANGED <<directories_to_clean, directories_to_clean_more, install_targets,
                       help_described, help_targets>>
    BY <1>6 DEF GenClean, Enter, RequestState
  <2>2. CASE Begun(w)
    BY <1>2, <2>1, <2>2
  <2>3. CASE ~Begun(w)
    <3>1. w = "clean" /\ todo' # <<>>
      BY <1>0, <2>1, <2>3 DEF Begun
    <3>2. /\ directories_to_clean # <<>>
          /\ Head(todo)' = [op |-> "help", name |-> Plain("clean")]
      <4>1. Plain("clean") \in Name
        BY ReservedName DEF ReservedWord
      <4>2. todo' = CleanCalls(Plain("clean"), directories_to_clean, CleanTarget, {})
        BY <1>6 DEF GenClean
      <4>. QED
        BY <3>1, <4>1, <4>2, CleanCallsHead, DirAssumption DEF TypeOK, RequestType
    <3>. QED
      BY <2>1, <3>1, <3>2 DEF Requested
  <2>. QED
    BY <2>2, <2>3
<1>7. CASE GenMrproper
  <2>1. /\ phase' = "mrproper"
        /\ UNCHANGED <<directories_to_clean, directories_to_clean_more, install_targets,
                       help_described, help_targets>>
    BY <1>7 DEF GenMrproper, Enter, RequestState
  <2>2. CASE Begun(w)
    BY <1>2, <2>1, <2>2
  <2>3. CASE ~Begun(w)
    <3>1. w = "mrproper" /\ todo' # <<>>
      BY <1>0, <2>1, <2>3 DEF Begun
    <3>2. /\ directories_to_clean_more # <<>>
          /\ Head(todo)' = [op |-> "help", name |-> Plain("mrproper")]
      <4>. DEFINE others == IF directories_to_clean = <<>> THEN {} ELSE {Plain("clean")}
      <4>1. Plain("mrproper") \in Name
        BY ReservedName DEF ReservedWord
      <4>2. todo' = CleanCalls(Plain("mrproper"), directories_to_clean_more, MrproperTarget, others)
        BY <1>7 DEF GenMrproper
      <4>3. directories_to_clean_more \in Seq(Dir) /\ MrproperTarget \in [Dir -> Name]
        BY DirAssumption DEF TypeOK, RequestType
      <4>. HIDE DEF others
      <4>. QED
        BY <3>1, <4>1, <4>2, <4>3, CleanCallsHead
    <3>. QED
      BY <2>1, <3>1, <3>2 DEF Requested
  <2>. QED
    BY <2>2, <2>3
<1>8. CASE GenHelp
  <2>1. /\ phase' = "help" /\ help_targets \subseteq help_targets'
        /\ UNCHANGED <<directories_to_clean, directories_to_clean_more, install_targets,
                       help_described>>
    BY <1>8 DEF GenHelp, Enter
  <2>2. CASE Begun(w)
    BY <1>2, <2>1, <2>2
  <2>3. CASE ~Begun(w)
    <3>1. w = "help" /\ todo' # <<>>
      BY <1>0, <2>1, <2>3 DEF Begun
    <3>2. help_defined
      BY <1>8, <3>1 DEF GenHelp
    <3>. QED
      BY <2>1, <3>1, <3>2 DEF Requested, help_defined, Sectioned
  <2>. QED
    BY <2>2, <2>3
<1>9. CASE GenGenerator \/ GenDefault \/ Finish
  <2>1. /\ phase' \in {"generator", "default", "done"}
        /\ UNCHANGED <<directories_to_clean, directories_to_clean_more, install_targets,
                       help_described, help_targets>>
    BY <1>9 DEF GenGenerator, GenDefault, Finish, Enter, RequestState
  <2>2. Begun(w)
    BY <1>0, <2>1 DEF Begun, Sectioned
  <2>. QED
    BY <1>2, <2>1, <2>2
<1>. QED
  BY <1>3, <1>4, <1>5, <1>6, <1>7, <1>8, <1>9 DEF Sections

LEMMA RequestsNext ==
  ASSUME TypeOK, Queued, OnRequest, Documented, [Next]_state
  PROVE  OnRequest' /\ Documented'
<1>1. CASE Sections
  BY <1>1, BegunBySection DEF OnRequest, Documented
<1>2. CASE UNCHANGED state
  BY <1>2 DEF state, RunState, RequestState, LocalState, OnRequest, Documented, Begun, BuildsIn,
              Requested, help_defined
<1>3. ASSUME NEW c \in Script, ScriptCall(c)
      PROVE  OnRequest' /\ Documented'
  <2>1. phase = "script" /\ phase' = "script" /\ UNCHANGED tokens
    BY <1>3 DEF ScriptCall, Idle
  <2>2. \A w \in Sectioned \cup {"help"} : ~Begun(w)'
    BY <2>1 DEF OnRequest, Begun, BuildsIn, Sectioned
  <2>. QED
    BY <2>2 DEF OnRequest, Documented
<1>4. ASSUME Execute, phase \in {"script", "atexit"}
      PROVE  OnRequest' /\ Documented'
  BY <1>4, NotBegunYet DEF OnRequest, Documented
<1>5. ASSUME Execute, phase \in GenPhase
      PROVE  OnRequest' /\ Documented'
  <2>1. UNCHANGED phase /\ todo # <<>>
    BY <1>5, ExecuteInPhase
  <2>2. UNCHANGED Given /\ help_targets \subseteq help_targets'
    <3>1. CASE Error
      BY <3>1, ErrorKeeps
    <3>2. CASE Expands
      BY <1>5, <3>2, CallExpands DEF Expands, InlineBuild, Phony, RequestState
    <3>. QED
      BY <1>5, <3>1, <3>2, SectionCall DEF Skips, Documents, DefinesRule, Builds, Chooses
  <2>3. OnRequest'
    BY <1>5, <2>1, <2>2, BegunBefore DEF OnRequest, Given, Requested, help_defined, Sectioned
  <2>4. ASSUME NEW w \in Sectioned, Begun(w)', Plain(w) \notin help_targets'
        PROVE  phase' = w /\ todo' # <<>> /\ Head(todo)' = [op |-> "help", name |-> Plain(w)]
    <3>1. Begun(w) /\ Plain(w) \notin help_targets
      BY <1>5, <2>2, <2>4, BegunBefore
    <3>2. phase = w /\ Head(todo) = [op |-> "help", name |-> Plain(w)]
      BY <3>1 DEF Documented
    <3>3. Head(todo).op = "help" /\ Head(todo).name = Plain(w)
      BY <3>2
    <3>4. Error \/ Documents
      BY <1>5, <3>3, SectionCall
         DEF Skips, DefinesRule, Expands, InlineBuild, Phony, Builds, Chooses, Drops, Calling
    <3>5. CASE Error
      BY <2>1, <3>2, <3>5, ErrorKeeps
    <3>6. CASE Documents
      BY <2>4, <3>3, <3>6 DEF Documents
    <3>. QED
      BY <3>4, <3>5, <3>6
  <2>. QED
    BY <2>3, <2>4 DEF Documented
<1>6. Execute => phase \in {"script", "atexit"} \cup GenPhase
  BY ExecuteInPhase DEF TypeOK, RunType, Phase, GenPhase
<1>7. CASE InstallRefused
  BY <1>7 DEF InstallRefused, Error, RunState, RequestState, LocalState, OnRequest, Documented,
              Begun, BuildsIn, Requested, help_defined
<1>. QED
  BY <1>1, <1>2, <1>3, <1>4, <1>5, <1>6, <1>7 DEF Next, Exited

-----------------------------------------------------------------------------
(* The target help. *)

LEMMA HelpCall0 ==
  ASSUME TypeOK, Queued, HelpBuilt, Execute, phase \in {"help", "generator", "default"}
  PROVE  HelpBuilt'
<1>1. UNCHANGED phase /\ todo # <<>> /\ phase \in GenPhase
  BY ExecuteInPhase DEF GenPhase
<1>2. todo \in Seq(Call) /\ Head(todo) = todo[1] /\ DOMAIN todo = 1 .. Len(todo)
      /\ Len(todo) \in Nat \ {0}
  BY <1>1, AfterHead DEF TypeOK, RunType
<1>3. Head(todo).op \in CallsOf(phase)
  BY <1>1, <1>2 DEF Queued
<1>4. UNCHANGED Given /\ UNCHANGED help_targets
  <2>1. CASE Error
    BY <2>1, ErrorKeeps
  <2>2. CASE Expands
    BY <1>1, <2>2, SectionCall, CallExpands DEF Expands, InlineBuild, Phony, RequestState
  <2>3. CASE Documents
    BY <1>3, <2>3 DEF Documents, Drops, CallsOf
  <2>. QED
    BY <1>1, <2>1, <2>2, <2>3, SectionCall DEF Skips, DefinesRule, Builds, Chooses
<1>5. help_token' = help_targets' /\ (help_defined' <=> help_defined)
  BY <1>4 DEF HelpBuilt, Given, help_defined
<1>6. BuildsIn("help") \subseteq BuildsIn("help")'
  BY CallsStayInPhase DEF BuildsIn
<1>. DEFINE Waits(i) == todo[i].op \in {"inline", "build"} /\ todo[i].outs = <<Plain("help")>>
<1>7. ASSUME help_defined, ~ \E s \in BuildsIn("help") : s.outs = <<Plain("help")>>
      PROVE  \/ \E s \in BuildsIn("help")' : s.outs = <<Plain("help")>>
             \/ phase' = "help" /\ \E i \in DOMAIN todo' : Waits(i)'
  <2>1. PICK i \in DOMAIN todo : Waits(i)
    BY <1>7 DEF HelpBuilt
  <2>2. phase = "help" /\ phase' = "help"
    BY <1>1, <1>7 DEF HelpBuilt
  <2>3. CASE Error
    BY <2>1, <2>2, <2>3, ErrorKeeps
  <2>4. CASE todo' = Tail(todo) /\ i # 1
    <3>1. i - 1 \in 1 .. Len(todo) - 1 /\ i - 1 + 1 = i
      BY <1>2, <2>1, <2>4
    <3>2. i - 1 \in DOMAIN todo' /\ todo'[i - 1] = todo[i]
      BY <1>1, <1>2, <2>4, <3>1, AfterHead
    <3>. QED
      BY <2>1, <2>2, <3>2
  <2>5. CASE (Skips \/ DefinesRule \/ Chooses \/ Documents)
    <3>1. i # 1
      BY <1>2, <2>1, <2>5 DEF Skips, DefinesRule, Chooses, Documents, Drops
    <3>. QED
      BY <2>4, <2>5, <3>1 DEF Skips, DefinesRule, Chooses, Documents, Drops
  <2>6. CASE Builds
    <3>1. CASE i # 1
      BY <2>4, <2>6, <3>1 DEF Builds, Drops
    <3>2. CASE i = 1
      <4>1. Statement0 \in BuildsOf(tokens)' /\ Statement0.sec = "help"
            /\ Statement0.outs = <<Plain("help")>>
        BY <1>2, <2>1, <2>2, <2>6, <3>2 DEF Builds, Statement0
      <4>2. Statement0 \in BuildsIn("help")'
        BY <4>1 DEF BuildsIn
      <4>. QED
        BY <4>1, <4>2
    <3>. QED
      BY <3>1, <3>2
  <2>7. CASE InlineBuild
    <3>. DEFINE r == unique_rule_name(Ident[Head(todo).outs], DOMAIN rules)
                a == [op |-> "rule", name |-> r, valid |-> TRUE, implicit_in |-> {}]
                b == [op |-> "build", outs |-> Head(todo).outs, rule |-> r, ins |-> Head(todo).ins,
                      implicit_in |-> Head(todo).implicit_in, no_default |-> Head(todo).no_default]
    <3>1. todo' = <<a, b>> \o Tail(todo)
      BY <2>7 DEF InlineBuild
    <3>2. b.op = "build" /\ b.outs = Head(todo).outs
      OBVIOUS
    <3>. HIDE DEF a, b, r
    <3>3. /\ DOMAIN todo' = 1 .. Len(todo) + 1 /\ todo'[2] = b
          /\ \A k \in 3 .. Len(todo) + 1 : todo'[k] = todo[k - 1]
      BY <1>1, <1>2, <3>1, TwoForHead
    <3>4. CASE i = 1
      <4>1. 2 \in DOMAIN todo' /\ Waits(2)'
        BY <1>2, <2>1, <3>2, <3>3, <3>4
      <4>. QED
        BY <2>2, <4>1
    <3>5. CASE i # 1
      <4>1. i + 1 \in 3 .. Len(todo) + 1 /\ i + 1 - 1 = i
        BY <1>2, <2>1, <3>5
      <4>2. i + 1 \in DOMAIN todo' /\ Waits(i + 1)'
        BY <1>2, <2>1, <3>3, <4>1
      <4>. QED
        BY <2>2, <4>2
    <3>. QED
      BY <3>4, <3>5
  <2>8. CASE Phony
    BY <1>3, <2>2, <2>8 DEF Phony, Calling, CallsOf
  <2>. QED
    BY <1>1, <2>3, <2>5, <2>6, <2>7, <2>8, SectionCall DEF Expands
<1>. QED
  BY <1>5, <1>6, <1>7, <1>1 DEF HelpBuilt

LEMMA HelpNext ==
  ASSUME TypeOK, Queued, HelpBuilt, [Next]_state
  PROVE  HelpBuilt'
<1>1. CASE UNCHANGED state
  BY <1>1 DEF state, RunState, RequestState, LocalState, HelpBuilt, BuildsIn, help_defined
<1>2. CASE Execute
  <2>1. CASE phase \in {"help", "generator", "default"}
    BY <1>2, <2>1, HelpCall0
  <2>2. CASE phase \notin {"help", "generator", "default"}
    BY <1>2, <2>2, ExecuteInPhase DEF HelpBuilt, TypeOK, RunType
  <2>. QED
    BY <2>1, <2>2
<1>3. ASSUME NEW c \in Script, ScriptCall(c) PROVE HelpBuilt'
  BY <1>3 DEF ScriptCall, Idle, HelpBuilt
<1>4. CASE EndOfScript \/ AtexitRound \/ AtexitRun \/ GenInstall \/ GenClean \/ GenMrproper
  BY <1>4 DEF EndOfScript, AtexitRound, AtexitRun, GenInstall, GenClean, GenMrproper,
              Idle, Enter, RunState, HelpBuilt
<1>5. ASSUME NEW d \in Dir, InstallGroup(d) PROVE HelpBuilt'
  BY <1>5 DEF InstallGroup, NextGroup, Idle, RunState, HelpBuilt
<1>6. CASE GenHelp
  <2>. DEFINE c == [op |-> "inline", outs |-> <<Plain("help")>>,
                    ins |-> {}, implicit_in |-> {}, no_default |-> TRUE]
  <2>1. /\ phase' = "help" /\ help_token' = help_targets' /\ (help_defined' <=> help_defined)
        /\ help_defined => todo' = <<c>>
    BY <1>6 DEF GenHelp, Enter, help_defined
  <2>2. c.op = "inline" /\ c.outs = <<Plain("help")>>
    OBVIOUS
  <2>. HIDE DEF c
  <2>3. help_defined => 1 \in DOMAIN todo' /\ todo'[1] = c
    BY <2>1
  <2>. QED
    BY <2>1, <2>2, <2>3 DEF HelpBuilt
<1>7. CASE GenGenerator \/ GenDefault \/ Finish
  <2>1. /\ phase \in {"help", "generator", "default"} /\ todo = <<>>
        /\ UNCHANGED <<help_token, help_targets, help_described, tokens>>
    BY <1>7 DEF GenGenerator, GenDefault, Finish, Idle, RequestState, LocalState
  <2>. QED
    BY <2>1 DEF HelpBuilt, BuildsIn, help_defined
<1>8. CASE InstallRefused
  BY <1>8 DEF InstallRefused, Error, RunState, RequestState, LocalState, HelpBuilt, BuildsIn,
              help_defined
<1>. QED
  BY <1>1, <1>2, <1>3, <1>4, <1>5, <1>6, <1>7, <1>8 DEF Next, Exited, Sections

-----------------------------------------------------------------------------
(* The rule that makes the Ninja file again. *)

LEMMA GeneratorStays ==
  ASSUME GeneratorFinal, UNCHANGED <<gen_flags, generator_deps, BuildsIn("generator")>>
  PROVE  GeneratorFinal'
BY DEF GeneratorFinal

LEMMA GeneratorCall0 ==
  ASSUME TypeOK, Queued, GeneratorBuilt, Execute
  PROVE  GeneratorBuilt'
<1>1. UNCHANGED phase /\ todo # <<>> /\ phase # "done"
  BY ExecuteInPhase DEF TypeOK, RunType
<1>2. phase # "generator" => UNCHANGED BuildsIn("generator")
  BY CallsStayInPhase DEF BuildsIn
<1>3. CASE phase \notin {"generator", "default"}
  BY <1>1, <1>2, <1>3 DEF GeneratorBuilt
<1>4. CASE phase = "default"
  <2>1. UNCHANGED <<gen_flags, generator_deps>>
    BY <1>4, SectionCall, ErrorKeeps DEF GenPhase, Given, generator_deps
  <2>. QED
    BY <1>1, <1>2, <1>4, <2>1, GeneratorStays DEF GeneratorBuilt
<1>5. CASE phase = "generator"
  <2>. DEFINE deps == generator_deps \ {Input}
  <2>1. phase \in GenPhase /\ gen_flags.use # "off" /\ BuildsIn("generator") = {}
    BY <1>1, <1>5 DEF GenPhase, GeneratorBuilt
  <2>2. UNCHANGED <<gen_flags, generator_deps>>
    BY <2>1, SectionCall, ErrorKeeps DEF Given, generator_deps
  <2>3. CASE Error
    <3>1. UNCHANGED <<todo, rules, BuildsIn("generator")>>
      BY <2>3, ErrorKeeps DEF Statements, BuildsIn
    <3>. QED
      BY <1>1, <1>5, <2>1, <2>2, <3>1 DEF GeneratorBuilt
  <2>4. ASSUME NEW r \in Name, ~Error, todo = <<GeneratorRuleCall(r), GeneratorCallOf(r, deps)>>
        PROVE  GeneratorBuilt'
    <3>. DEFINE a == GeneratorRuleCall(r)
                b == GeneratorCallOf(r, deps)
    <3>1. a.op = "rule" /\ a.implicit_in = {} /\ a.name = r
      BY DEF GeneratorRuleCall
    <3>2. todo = <<a, b>>
      BY <2>4
    <3>. HIDE DEF a, b
    <3>3. Head(todo) = a /\ Tail(todo) = <<b>>
      BY <3>2
    <3>4. DefinesRule
      BY <2>1, <2>4, <3>1, <3>3, SectionCall
         DEF Skips, Documents, Expands, InlineBuild, Phony, Builds, Chooses, Drops, Calling
    <3>5. /\ todo' = <<b>> /\ r \in DOMAIN rules' /\ rules'[r] = {}
          /\ BuildsIn("generator")' = {}
      BY <2>1, <3>1, <3>3, <3>4 DEF DefinesRule, Drops, BuildsIn, Statements
    <3>6. todo' = <<GeneratorCallOf(r, generator_deps' \ {Input})>>
      BY <2>2, <3>5 DEF b
    <3>. QED
      BY <1>1, <1>5, <2>1, <2>2, <3>5, <3>6 DEF GeneratorBuilt
  <2>5. ASSUME NEW r \in DOMAIN rules, rules[r] = {}, todo = <<GeneratorCallOf(r, deps)>>, ~Error
        PROVE  GeneratorBuilt'
    <3>. DEFINE b == GeneratorCallOf(r, deps)
    <3>1. b.op = "build" /\ b.outs = <<Output>> /\ b.rule = r /\ b.ins = {Input}
          /\ b.implicit_in = deps
      BY DEF GeneratorCallOf
    <3>2. todo = <<b>>
      BY <2>5
    <3>. HIDE DEF b
    <3>3. Head(todo) = b /\ Tail(todo) = <<>>
      BY <3>2
    <3>4. Builds
      BY <2>1, <2>5, <3>1, <3>3, SectionCall
         DEF Skips, Documents, DefinesRule, Expands, InlineBuild, Phony, Chooses, Drops, Calling
    <3>5. Statement0 = GeneratorStatement(r, deps)
      <4>1. rules[Head(todo).rule] \cup Head(todo).implicit_in = deps
        BY <2>5, <3>1, <3>3
      <4>. QED
        BY <1>5, <3>1, <3>3, <4>1 DEF Statement0, GeneratorStatement
    <3>6. Statement0.sec = "generator" /\ Statement0.rule = r
      BY <3>5 DEF GeneratorStatement
    <3>7. BuildsIn("generator")' = {Statement0}
      BY <2>1, <3>4, <3>6 DEF Builds, BuildsIn
    <3>8. GeneratorFinal'
      BY <2>1, <2>2, <3>5, <3>6, <3>7 DEF GeneratorFinal
    <3>9. todo' = <<>>
      BY <3>3, <3>4 DEF Builds, Drops
    <3>. QED
      BY <1>1, <1>5, <3>8, <3>9 DEF GeneratorBuilt
  <2>. QED
    BY <1>1, <1>5, <2>3, <2>4, <2>5 DEF GeneratorBuilt
<1>. QED
  BY <1>3, <1>4, <1>5

LEMMA GeneratorNext ==
  ASSUME TypeOK, Queued, GeneratorBuilt, [Next]_state
  PROVE  GeneratorBuilt'
<1>1. CASE UNCHANGED state
  BY <1>1 DEF state, RunState, TableState, GenState, GeneratorBuilt, GeneratorFinal, BuildsIn,
              generator_deps
<1>2. CASE Execute
  BY <1>2, GeneratorCall0
<1>3. ASSUME Silent, phase \notin {"generator", "default", "done"},
             phase' \notin {"generator", "default", "done"}
      PROVE  GeneratorBuilt'
  BY <1>3 DEF Silent, GeneratorBuilt, BuildsIn
<1>4. ASSUME NEW c \in Script, ScriptCall(c) PROVE GeneratorBuilt'
  <2>1. Silent /\ phase = "script" /\ phase' = "script"
    BY <1>4, SectionsAreSilent DEF ScriptCall, Idle
  <2>. QED
    BY <1>3, <2>1
<1>5. CASE EndOfScript \/ AtexitRound \/ AtexitRun \/ GenInstall \/ GenClean \/ GenMrproper \/ GenHelp
  <2>1. Silent
    BY <1>5, SectionsAreSilent DEF Sections
  <2>2. phase \notin {"generator", "default", "done"} /\ phase' \notin {"generator", "default", "done"}
    BY <1>5 DEF EndOfScript, AtexitRound, AtexitRun, GenInstall, GenClean, GenMrproper, GenHelp,
                Idle, Enter, RunState
  <2>. QED
    BY <1>3, <2>1, <2>2
<1>6. ASSUME NEW d \in Dir, InstallGroup(d) PROVE GeneratorBuilt'
  <2>1. Silent /\ phase = "install" /\ phase' = "install"
    BY <1>6, SectionsAreSilent DEF Sections, InstallGroup, NextGroup, Idle, RunState
  <2>. QED
    BY <1>3, <2>1
<1>7. CASE GenGenerator
  <2>. DEFINE r == unique_rule_name(Plain("bang"), DOMAIN rules)
              deps == generator_deps \ {Input}
  <2>1. phase = "help" /\ phase' = "generator" /\ UNCHANGED <<gen_flags, modpath, tokens>>
    BY <1>7 DEF GenGenerator, Idle, Enter, GenState
  <2>2. BuildsIn("generator") = {} /\ BuildsIn("generator")' = {}
    BY <2>1 DEF GeneratorBuilt, BuildsIn
  <2>3. todo' = IF gen_flags.use = "off" THEN <<>>
                ELSE <<GeneratorRuleCall(r), GeneratorCallOf(r, deps)>>
    BY <1>7 DEF GenGenerator, GeneratorRuleCall, GeneratorCallOf
  <2>4. generator_deps' = generator_deps
    BY <2>1 DEF generator_deps
  <2>5. r \in Name
    BY UniqueRuleName, ReservedName DEF TypeOK, TableType, ReservedWord
  <2>. HIDE DEF r
  <2>6. CASE gen_flags.use = "off"
    BY <2>1, <2>2, <2>3, <2>6 DEF GeneratorBuilt, GeneratorFinal
  <2>7. CASE gen_flags.use # "off"
    BY <2>1, <2>2, <2>3, <2>4, <2>5, <2>7 DEF GeneratorBuilt
  <2>. QED
    BY <2>6, <2>7
<1>8. CASE GenDefault \/ Finish
  <2>1. /\ phase \in {"generator", "default"} /\ phase' \in {"default", "done"} /\ todo = <<>>
        /\ UNCHANGED <<gen_flags, modpath, tokens>>
    BY <1>8 DEF GenDefault, Finish, Idle, Enter, GenState
  <2>2. UNCHANGED <<gen_flags, generator_deps, BuildsIn("generator")>>
    BY <2>1 DEF BuildsIn, generator_deps
  <2>. QED
    BY <2>1, <2>2, GeneratorStays DEF GeneratorBuilt
<1>9. CASE InstallRefused
  <2>1. Silent /\ phase = "install" /\ phase' = "install"
    BY <1>9, SectionsAreSilent DEF InstallRefused, NextGroup, Idle, Error, RunState
  <2>. QED
    BY <1>3, <2>1
<1>. QED
  BY <1>1, <1>2, <1>4, <1>5, <1>6, <1>7, <1>8, <1>9 DEF Next, Exited, Sections

-----------------------------------------------------------------------------
(* The default targets. *)

LEMMA DefaultCall0 ==
  ASSUME TypeOK, Queued, DefaultBuilt, Execute
  PROVE  DefaultBuilt'
<1>1. UNCHANGED phase /\ todo # <<>> /\ phase # "done"
  BY ExecuteInPhase DEF TypeOK, RunType
<1>2. CASE phase # "default"
  <2>1. \A s \in DefaultStatements' : s.sec # "default"
    BY <1>1, <1>2, CallsStayInPhase DEF DefaultBuilt
  <2>. QED
    BY <1>1, <1>2, <2>1 DEF DefaultBuilt
<1>3. CASE phase = "default"
  <2>. DEFINE c == [op |-> "default", targets |-> default_build_statements]
  <2>1. phase \in GenPhase /\ DefaultStatements = {} /\ todo = <<c>>
    BY <1>1, <1>3 DEF GenPhase, DefaultBuilt
  <2>2. c.op = "default" /\ c.targets = default_build_statements
    OBVIOUS
  <2>. HIDE DEF c
  <2>3. Head(todo) = c /\ Tail(todo) = <<>>
    BY <2>1
  <2>4. CASE Error
    <3>1. UNCHANGED <<todo, DefaultStatements, default_build_statements>>
      BY <2>4, ErrorKeeps DEF Statements
    <3>. QED
      BY <1>1, <1>3, <2>1, <3>1 DEF DefaultBuilt, c
  <2>5. CASE ~Error
    <3>1. Chooses
      BY <2>1, <2>2, <2>3, <2>5, SectionCall
         DEF Skips, Documents, Expands, InlineBuild, Phony, Builds, DefinesRule, Drops, Calling
    <3>2. todo' = <<>> /\ UNCHANGED default_build_statements
      BY <2>3, <3>1 DEF Chooses, Drops
    <3>3. DefaultStatements' = IF default_build_statements = {} THEN {} ELSE {DefaultStatement}
      BY <1>3, <2>1, <2>2, <2>3, <3>1 DEF Chooses, DefaultStatement
    <3>4. DefaultFinal'
      BY <3>2, <3>3 DEF DefaultFinal, DefaultStatement
    <3>. QED
      BY <1>1, <1>3, <3>2, <3>4 DEF DefaultBuilt
  <2>. QED
    BY <2>4, <2>5
<1>. QED
  BY <1>2, <1>3

LEMMA DefaultNext ==
  ASSUME TypeOK, Queued, DefaultTargets, DefaultBuilt, [Next]_state
  PROVE  DefaultBuilt'
<1>1. CASE UNCHANGED state
  BY <1>1 DEF state, RunState, BuildState, RequestState, DefaultBuilt, DefaultFinal,
              DefaultStatement, DefaultStatements, NoCustomDefault, default_target_needed,
              help_defined
<1>2. CASE Execute
  BY <1>2, DefaultCall0
<1>3. ASSUME Silent, phase \notin {"default", "done"}, phase' \notin {"default", "done"}
      PROVE  DefaultBuilt'
  BY <1>3 DEF Silent, DefaultBuilt, DefaultStatements
<1>4. ASSUME NEW c \in Script, ScriptCall(c) PROVE DefaultBuilt'
  <2>1. Silent /\ phase = "script" /\ phase' = "script"
    BY <1>4, SectionsAreSilent DEF ScriptCall, Idle
  <2>. QED
    BY <1>3, <2>1
<1>5. CASE EndOfScript \/ AtexitRound \/ AtexitRun \/ GenInstall \/ GenClean \/ GenMrproper
           \/ GenHelp \/ GenGenerator
  <2>1. Silent
    BY <1>5, SectionsAreSilent DEF Sections
  <2>2. phase \notin {"default", "done"} /\ phase' \notin {"default", "done"}
    BY <1>5 DEF EndOfScript, AtexitRound, AtexitRun, GenInstall, GenClean, GenMrproper, GenHelp,
                GenGenerator, Idle, Enter, RunState
  <2>. QED
    BY <1>3, <2>1, <2>2
<1>6. ASSUME NEW d \in Dir, InstallGroup(d) PROVE DefaultBuilt'
  <2>1. Silent /\ phase = "install" /\ phase' = "install"
    BY <1>6, SectionsAreSilent DEF Sections, InstallGroup, NextGroup, Idle, RunState
  <2>. QED
    BY <1>3, <2>1
<1>7. CASE GenDefault
  <2>1. /\ phase = "generator" /\ phase' = "default"
        /\ UNCHANGED <<tokens, default_build_statements, default_target_needed>>
        /\ todo' = IF custom_default_statement \/ ~default_target_needed THEN <<>>
                   ELSE <<[op |-> "default", targets |-> default_build_statements]>>
    BY <1>7 DEF GenDefault, Idle, Enter, BuildState, RequestState, default_target_needed,
                help_defined
  <2>2. DefaultStatements' = DefaultStatements /\ \A s \in DefaultStatements : s.sec # "default"
    BY <2>1 DEF DefaultBuilt, DefaultStatements
  <2>3. CASE custom_default_statement
    <3>1. ~NoCustomDefault'
      BY <2>2, <2>3 DEF NoCustomDefault, DefaultTargets
    <3>. QED
      BY <2>1, <2>3, <3>1 DEF DefaultBuilt, DefaultFinal
  <2>4. CASE ~custom_default_statement
    BY <2>1, <2>2, <2>4 DEF DefaultBuilt, DefaultFinal, DefaultTargets
  <2>. QED
    BY <2>3, <2>4
<1>8. CASE Finish
  <2>1. phase = "default" /\ phase' = "done" /\ todo = <<>>
        /\ UNCHANGED <<tokens, default_build_statements, default_target_needed>>
    BY <1>8 DEF Finish, Idle, Enter, BuildState, RequestState, default_target_needed,
                help_defined
  <2>2. DefaultFinal
    BY <2>1 DEF DefaultBuilt
  <2>3. DefaultFinal'
    BY <2>1, <2>2 DEF DefaultFinal, DefaultStatement, DefaultStatements, NoCustomDefault
  <2>. QED
    BY <2>1, <2>3 DEF DefaultBuilt
<1>9. CASE InstallRefused
  <2>1. Silent /\ phase = "install" /\ phase' = "install"
    BY <1>9, SectionsAreSilent DEF InstallRefused, NextGroup, Idle, Error, RunState
  <2>. QED
    BY <1>3, <2>1
<1>. QED
  BY <1>1, <1>2, <1>4, <1>5, <1>6, <1>7, <1>8, <1>9 DEF Next, Exited, Sections

\* What a build statement adds to the targets of the script or of the sections.
LEMMA BuildsGrow ==
  ASSUME TypeOK, TablesMatchFile, Builds, DefaultTargets
  PROVE  /\ phase \in {"script", "atexit"} =>
              /\ ScriptTargets' = ScriptTargets \cup Elements(Head(todo).outs)
              /\ SectionTargets' = SectionTargets
         /\ phase \notin {"script", "atexit"} =>
              /\ ScriptTargets' = ScriptTargets
              /\ SectionTargets' \subseteq SectionTargets \cup Elements(Head(todo).outs)
         /\ ScriptTargets' \cap SectionTargets' = {}
<1>. DEFINE s0 == Statement0
<1>1. s0.sec = phase /\ s0.outs = Head(todo).outs
  BY DEF Statement0
<1>. HIDE DEF s0
<1>2. BuildsOf(tokens)' = BuildsOf(tokens) \cup {s0}
  BY DEF Builds, s0
<1>3. phase \in {"script", "atexit"} =>
              /\ ScriptTargets' = ScriptTargets \cup Elements(Head(todo).outs)
              /\ SectionTargets' = SectionTargets
  BY <1>1, <1>2 DEF ScriptTargets, SectionTargets
<1>4. phase \notin {"script", "atexit"} =>
              /\ ScriptTargets' = ScriptTargets
              /\ SectionTargets' \subseteq SectionTargets \cup Elements(Head(todo).outs)
  BY <1>1, <1>2 DEF ScriptTargets, SectionTargets
<1>5. Elements(Head(todo).outs) \cap Targets(tokens) = {}
  BY DEF Builds, BuildAllowed, TablesMatchFile
<1>6. ScriptTargets \subseteq Targets(tokens) /\ SectionTargets \subseteq Targets(tokens)
  BY DEF ScriptTargets, SectionTargets, Targets
<1>. QED
  BY <1>3, <1>4, <1>5, <1>6 DEF DefaultTargets

LEMMA SameTargets ==
  ASSUME UNCHANGED BuildsOf(tokens)
  PROVE  UNCHANGED <<ScriptTargets, SectionTargets>>
BY DEF ScriptTargets, SectionTargets

LEMMA DefaultTargetsNext ==
  ASSUME TypeOK, TablesMatchFile, Queued, DefaultTargets, [Next]_state
  PROVE  DefaultTargets'
<1>1. CASE Silent
  BY <1>1 DEF Silent, DefaultTargets, ScriptTargets, SectionTargets, DefaultStatements
<1>2. CASE Execute
  <2>1. CASE Error \/ Skips \/ Documents \/ DefinesRule \/ Notes
    <3>1. UNCHANGED <<Statements, default_build_statements, custom_default_statement>>
      BY <2>1, ErrorKeeps DEF Skips, Documents, DefinesRule, Notes
    <3>. QED
      BY <3>1, SameTargets DEF Statements, DefaultTargets
  <2>2. CASE Expands
    <3>1. UNCHANGED <<Statements, default_build_statements, custom_default_statement>>
      BY <2>2 DEF Expands, InlineBuild, Phony, BuildState
    <3>. QED
      BY <3>1, SameTargets DEF Statements, DefaultTargets
  <2>3. CASE Chooses
    <3>1. UNCHANGED <<BuildsOf(tokens), default_build_statements>>
      BY <2>3 DEF Chooses
    <3>2. custom_default_statement' <=> DefaultStatements' # {}
      BY <2>3 DEF Chooses, DefaultTargets
    <3>. QED
      BY <3>1, <3>2, SameTargets DEF DefaultTargets
  <2>4. CASE Builds
    <3>1. custom_default_statement' <=> DefaultStatements' # {}
      BY <2>4 DEF Builds, DefaultTargets
    <3>2. CASE phase \in {"script", "atexit"}
      BY <2>4, <3>1, <3>2, BuildsGrow DEF Builds, DefaultTargets
    <3>3. CASE phase \notin {"script", "atexit"}
      <4>1. phase \in GenPhase
        BY <1>2, <3>3, ExecuteInPhase DEF TypeOK, RunType, Phase, GenPhase
      <4>2. Head(todo).no_default
        <5>1. 1 \in DOMAIN todo /\ Head(todo) = todo[1]
          BY <1>2, ExecuteInPhase DEF TypeOK, RunType
        <5>. QED
          BY <2>4, <4>1, <5>1 DEF Queued, Fits, Builds, Drops
      <4>. QED
        BY <2>4, <3>1, <3>3, <4>2, BuildsGrow DEF Builds, DefaultTargets
    <3>. QED
      BY <3>2, <3>3
  <2>. QED
    BY <1>2, <2>1, <2>2, <2>3, <2>4, AnyCall
<1>. QED
  BY <1>1, <1>2, SectionsAreSilent DEF Next, Exited

ByDefault(c) == c.op \in {"build", "inline", "phony"} => ~c.no_default

LEMMA AllByDefaultCall ==
  ASSUME TypeOK, TablesMatchFile, Queued, DefaultTargets, DefaultIsAll, AllByDefault, Execute
  PROVE  /\ ScriptTargets' \subseteq default_build_statements'
         /\ phase' \in {"script", "atexit"} => \A i \in DOMAIN todo' : ByDefault(todo'[i])
<1>1. UNCHANGED phase /\ todo \in Seq(Call) /\ todo # <<>>
  BY ExecuteInPhase DEF TypeOK, RunType
<1>2. /\ ScriptTargets \subseteq default_build_statements
      /\ phase \in {"script", "atexit"} => \A i \in DOMAIN todo : ByDefault(todo[i])
  BY DEF DefaultIsAll, ByDefault
<1>3. DOMAIN todo = 1 .. Len(todo) /\ Len(todo) \in Nat \ {0} /\ Head(todo) = todo[1]
  BY <1>1, AfterHead
<1>4. ASSUME todo' = Tail(todo), phase \in {"script", "atexit"}, NEW i \in DOMAIN todo'
      PROVE  ByDefault(todo'[i])
  <2>1. i \in 1 .. Len(todo) - 1 /\ todo'[i] = todo[i + 1]
    BY <1>1, <1>4, AfterHead
  <2>2. i + 1 \in DOMAIN todo
    BY <1>3, <2>1
  <2>. QED
    BY <1>2, <1>4, <2>1, <2>2
<1>5. CASE Error
  <2>1. UNCHANGED <<Statements, default_build_statements, todo>>
    BY <1>5, ErrorKeeps
  <2>. QED
    BY <1>1, <1>2, <2>1, SameTargets DEF Statements
<1>6. CASE Skips \/ Documents \/ DefinesRule \/ Chooses \/ Notes
  <2>1. UNCHANGED <<BuildsOf(tokens), default_build_statements>> /\ todo' = Tail(todo)
    BY <1>6 DEF Skips, Documents, DefinesRule, Chooses, Notes, Statements, Drops
  <2>. QED
    BY <1>1, <1>2, <1>4, <2>1, SameTargets
<1>7. CASE Builds
  <2>1. todo' = Tail(todo) /\ Head(todo).op = "build"
    BY <1>7 DEF Builds, Drops
  <2>2. CASE phase \in {"script", "atexit"}
    <3>1. ~Head(todo).no_default
      BY <1>2, <1>3, <2>1, <2>2 DEF ByDefault
    <3>2. default_build_statements' = default_build_statements \cup Elements(Head(todo).outs)
      BY <1>7, <3>1 DEF Builds
    <3>. QED
      BY <1>1, <1>2, <1>4, <1>7, <2>1, <2>2, <3>2, BuildsGrow
  <2>3. CASE phase \notin {"script", "atexit"}
    <3>1. default_build_statements \subseteq default_build_statements'
      BY <1>7 DEF Builds
    <3>. QED
      BY <1>1, <1>2, <1>7, <2>3, <3>1, BuildsGrow
  <2>. QED
    BY <2>2, <2>3
<1>8. CASE Expands
  <2>1. UNCHANGED <<BuildsOf(tokens), default_build_statements>>
    BY <1>8 DEF Expands, InlineBuild, Phony, BuildState, Statements
  <2>2. ASSUME phase \in {"script", "atexit"}, NEW i \in DOMAIN todo'
        PROVE  ByDefault(todo'[i])
    <3>1. Head(todo).op \in {"inline", "phony"} /\ ~Head(todo).no_default
      BY <1>2, <1>3, <1>8, <2>2 DEF Expands, InlineBuild, Phony, Calling, ByDefault
    <3>2. CASE InlineBuild
      <4>. DEFINE r == unique_rule_name(Ident[Head(todo).outs], DOMAIN rules)
                  a == [op |-> "rule", name |-> r, valid |-> TRUE, implicit_in |-> {}]
                  b == [op |-> "build", outs |-> Head(todo).outs, rule |-> r,
                        ins |-> Head(todo).ins, implicit_in |-> Head(todo).implicit_in,
                        no_default |-> Head(todo).no_default]
      <4>1. todo' = <<a, b>> \o Tail(todo)
        BY <3>2 DEF InlineBuild
      <4>2. ByDefault(a) /\ ByDefault(b)
        BY <3>1 DEF ByDefault
      <4>. HIDE DEF a, b, r
      <4>3. /\ DOMAIN todo' = 1 .. Len(todo) + 1 /\ todo'[1] = a /\ todo'[2] = b
            /\ \A k \in 3 .. Len(todo) + 1 : todo'[k] = todo[k - 1]
        BY <1>1, <4>1, TwoForHead
      <4>4. CASE i \in 3 .. Len(todo) + 1
        <5>1. i - 1 \in DOMAIN todo /\ todo'[i] = todo[i - 1]
          BY <1>3, <4>3, <4>4
        <5>. QED
          BY <1>2, <2>2, <5>1
      <4>5. i = 1 \/ i = 2 \/ i \in 3 .. Len(todo) + 1
        BY <1>3, <2>2, <4>3
      <4>. QED
        BY <4>2, <4>3, <4>4, <4>5
    <3>3. CASE Phony
      <4>. DEFINE b == [op |-> "build", outs |-> Head(todo).outs, rule |-> phony_rule,
                        ins |-> Head(todo).ins, implicit_in |-> {},
                        no_default |-> Head(todo).no_default]
      <4>1. todo' = <<b>> \o Tail(todo)
        BY <3>3 DEF Phony
      <4>2. ByDefault(b)
        BY <3>1 DEF ByDefault
      <4>. HIDE DEF b
      <4>3. /\ DOMAIN todo' = 1 .. Len(todo) /\ todo'[1] = b
            /\ \A k \in 2 .. Len(todo) : todo'[k] = todo[k]
        BY <1>1, <4>1, OneForHead
      <4>4. CASE i \in 2 .. Len(todo)
        BY <1>2, <1>3, <2>2, <4>3, <4>4
      <4>5. i = 1 \/ i \in 2 .. Len(todo)
        BY <1>3, <2>2, <4>3
      <4>. QED
        BY <4>2, <4>3, <4>4, <4>5
    <3>. QED
      BY <1>8, <3>2, <3>3 DEF Expands
  <2>. QED
    BY <1>1, <1>2, <2>1, <2>2, SameTargets
<1>. QED
  BY <1>5, <1>6, <1>7, <1>8, AnyCall

LEMMA DefaultIsAllNext ==
  ASSUME TypeOK, TablesMatchFile, Queued, DefaultTargets, DefaultIsAll, [Next]_state
  PROVE  DefaultIsAll'
<1>. SUFFICES ASSUME AllByDefault
              PROVE  /\ ScriptTargets' \subseteq default_build_statements'
                     /\ phase' \in {"script", "atexit"} =>
                          \A i \in DOMAIN todo' : ByDefault(todo'[i])
  BY DEF DefaultIsAll, ByDefault, AllByDefault
<1>1. /\ ScriptTargets \subseteq default_build_statements
      /\ phase \in {"script", "atexit"} => \A i \in DOMAIN todo : ByDefault(todo[i])
  BY DEF DefaultIsAll, ByDefault
<1>2. Silent => ScriptTargets' \subseteq default_build_statements'
  BY <1>1, SameTargets DEF Silent
<1>3. CASE UNCHANGED state
  <2>1. UNCHANGED <<todo, phase>>
    BY <1>3 DEF state, RunState
  <2>. QED
    BY <1>1, <1>2, <1>3, <2>1, SectionsAreSilent
<1>4. CASE Execute
  BY <1>4, AllByDefaultCall
<1>5. ASSUME NEW c \in Script, ScriptCall(c)
      PROVE  /\ ScriptTargets' \subseteq default_build_statements'
             /\ \A i \in DOMAIN todo' : ByDefault(todo'[i])
  <2>1. todo' = <<c>> /\ ByDefault(c)
    BY <1>5 DEF ScriptCall, AllByDefault, ByDefault
  <2>. QED
    BY <1>2, <1>5, <2>1, SectionsAreSilent
<1>6. CASE Sections
  <2>1. CASE EndOfScript \/ AtexitRound
    <3>1. todo = <<>> /\ todo' = <<>>
      BY <2>1 DEF EndOfScript, AtexitRound, Idle
    <3>. QED
      BY <1>2, <1>6, <3>1, SectionsAreSilent
  <2>2. CASE AtexitRun
    <3>1. Head(funcs) \in Fn /\ todo' = Body[Head(funcs)]
      BY <2>2 DEF AtexitRun, TypeOK, AtexitType
    <3>2. todo' \in Seq(Script)
      BY <3>1, ScriptAssumption
    <3>3. \A i \in DOMAIN todo' : todo'[i] \in Script
      BY <3>2
    <3>. QED
      BY <1>2, <1>6, <3>3, SectionsAreSilent DEF AllByDefault, ByDefault
  <2>3. CASE GenInstall \/ GenClean \/ GenMrproper \/ GenHelp \/ GenGenerator \/ GenDefault
             \/ Finish \/ (\E d \in Dir : InstallGroup(d))
    <3>1. phase' \notin {"script", "atexit"}
      BY <2>3 DEF GenInstall, InstallGroup, NextGroup, GenClean, GenMrproper, GenHelp,
                  GenGenerator, GenDefault, Finish, Enter, Idle, RunState
    <3>. QED
      BY <1>2, <1>6, <3>1, SectionsAreSilent
  <2>. QED
    BY <1>6, <2>1, <2>2, <2>3 DEF Sections
<1>7. CASE InstallRefused
  <2>1. UNCHANGED <<todo, phase>>
    BY <1>7 DEF InstallRefused, Error, RunState
  <2>. QED
    BY <1>1, <1>2, <1>7, <2>1, SectionsAreSilent
<1>. QED
  BY <1>3, <1>4, <1>5, <1>6, <1>7 DEF Next, Exited

-----------------------------------------------------------------------------
(* The invariant of the sections, and the properties it implies. *)

LEMMA InitSInv == Init => SInv
<1>. SUFFICES ASSUME Init PROVE SInv
  OBVIOUS
<1>1. phase = "script" /\ todo = <<>> /\ groups = {} /\ custom_default_statement = FALSE
      /\ default_build_statements = {} /\ tokens = <<>>
  BY DEF Init
<1>2. Elements(tokens) = {}
  BY <1>1 DEF Elements
<1>3. BuildsOf(tokens) = {} /\ DefaultStatements = {}
  BY <1>2 DEF BuildsOf, DefaultStatements
<1>4. ScriptTargets = {} /\ SectionTargets = {} /\ \A w : BuildsIn(w) = {}
  BY <1>3 DEF ScriptTargets, SectionTargets, BuildsIn
<1>5. Queued /\ InstallRuleKnown /\ HelpBuilt
  BY <1>1 DEF Queued, GenPhase, InstallRuleKnown, HelpBuilt
<1>6. OnRequest /\ Documented
  BY <1>1, <1>4 DEF OnRequest, Documented, Begun
<1>7. GeneratorBuilt /\ DefaultBuilt
  BY <1>1, <1>3, <1>4 DEF GeneratorBuilt, DefaultBuilt
<1>8. DefaultTargets /\ DefaultIsAll
  BY <1>1, <1>3, <1>4 DEF DefaultTargets, DefaultIsAll
<1>. QED
  BY <1>5, <1>6, <1>7, <1>8 DEF SInv

LEMMA NextSInv ==
  ASSUME IInv, IInv', SInv, [Next]_state
  PROVE  SInv'
<1>1. TypeOK /\ TypeOK' /\ TablesMatchFile
  BY DEF IInv
<1>2. Queued' /\ InstallRuleKnown'
  BY <1>1, QueuedNext DEF SInv
<1>3. OnRequest' /\ Documented'
  BY <1>1, RequestsNext DEF SInv
<1>4. HelpBuilt'
  BY <1>1, HelpNext DEF SInv
<1>5. GeneratorBuilt'
  BY <1>1, GeneratorNext DEF SInv
<1>6. DefaultTargets' /\ DefaultBuilt'
  BY <1>1, DefaultTargetsNext, DefaultNext DEF SInv
<1>7. DefaultIsAll'
  BY <1>1, DefaultIsAllNext DEF SInv
<1>. QED
  BY <1>2, <1>3, <1>4, <1>5, <1>6, <1>7 DEF SInv

LEMMA SectionInvariant == Spec => [](TypeOK /\ SInv)
<1>1. Init => SInv
  BY InitSInv
<1>2. IInv /\ IInv' /\ SInv /\ [Next]_state => SInv'
  BY NextSInv
<1>3. IInv => TypeOK
  BY DEF IInv
<1>. QED
  BY <1>1, <1>2, <1>3, Invariant, PTL DEF Spec

\* The sections bang adds to the file never fail but for a name of the script:
\* one it took, or the one of a file to be installed that refers to a variable
\* defined by itself.  Their rules are new, the rules they use are defined.
THEOREM GenerationFailsOnNames == Spec => []GenerationFailsOnlyOnNames
<1>1. Init => GenerationFailsOnlyOnNames
  BY DEF Init, GenerationFailsOnlyOnNames
<1>2. /\ TypeOK /\ SInv /\ GenerationFailsOnlyOnNames /\ [Next]_state
      => GenerationFailsOnlyOnNames'
  BY FailNext DEF SInv
<1>. QED
  BY <1>1, <1>2, SectionInvariant, PTL DEF Spec

\* help:gen runs after the sections that document their target: whatever the
\* script asks for, in whatever order, the help message of the file lists it.
THEOREM HelpIsComplete == Spec => []HelpDocumentsSections
<1>1. TypeOK /\ SInv => HelpDocumentsSections
  <2>. SUFFICES ASSUME SInv, phase = "done", NEW w \in Sectioned, BuildsIn(w) # {}
                PROVE  Plain(w) \in help_token /\ Plain("help") \in SectionTargets
    BY DEF HelpDocumentsSections, BuildsIn, Sectioned
  <2>1. Plain(w) \in help_targets
    BY DEF SInv, Documented, Begun, Sectioned
  <2>2. help_token = help_targets /\ \E s \in BuildsIn("help") : s.outs = <<Plain("help")>>
    BY <2>1 DEF SInv, HelpBuilt, help_defined
  <2>3. PICK s \in BuildsOf(tokens) : s.sec = "help" /\ s.outs = <<Plain("help")>>
    BY <2>2 DEF BuildsIn
  <2>4. Plain("help") \in Elements(s.outs)
    BY <2>3 DEF Elements
  <2>. QED
    BY <2>1, <2>2, <2>3, <2>4 DEF SectionTargets
<1>. QED
  BY <1>1, SectionInvariant, PTL

\* generator_rule: one statement makes the Ninja file again, from everything
\* the file was computed from, or none does when the generator is disabled.
THEOREM GeneratorIsExact == Spec => []GeneratorTracksInputs
<1>1. TypeOK /\ SInv => GeneratorTracksInputs
  <2>. SUFFICES ASSUME SInv, phase = "done"
                PROVE  GeneratorTracksInputs
    BY DEF GeneratorTracksInputs
  <2>1. GeneratorFinal
    BY DEF SInv, GeneratorBuilt
  <2>2. CASE gen_flags.use = "off"
    BY <2>1, <2>2 DEF GeneratorFinal, GeneratorTracksInputs, BuildsIn
  <2>3. CASE gen_flags.use # "off"
    <3>1. PICK s \in BuildsIn("generator") :
            BuildsIn("generator") = {GeneratorStatement(s.rule, generator_deps \ {Input})}
      BY <2>1, <2>3 DEF GeneratorFinal
    <3>2. s = GeneratorStatement(s.rule, generator_deps \ {Input})
      BY <3>1
    <3>3. s.outs = <<Output>> /\ s.ins = {Input} /\ s.implicit_in = generator_deps \ {Input}
      BY <3>2 DEF GeneratorStatement
    <3>4. BuildsIn("generator") = {s}
      BY <3>1, <3>2
    <3>. QED
      BY <2>3, <3>3, <3>4 DEF GeneratorTracksInputs, BuildsIn, generator_deps
  <2>. QED
    BY <2>2, <2>3
<1>. QED
  BY <1>1, SectionInvariant, PTL

\* A section has targets only if the script asked for the section.
LEMMA SectionsAreWanted ==
  ASSUME SInv, SectionTargets # {}
  PROVE  default_target_needed
<1>1. PICK s \in BuildsOf(tokens) : s.sec \in Sectioned \cup {"help"}
  BY DEF SectionTargets, Sectioned
<1>2. Begun(s.sec)
  BY <1>1 DEF Begun, BuildsIn
<1>3. Requested(s.sec)
  BY <1>1, <1>2 DEF SInv, OnRequest
<1>. QED
  BY <1>1, <1>3 DEF Requested, Sectioned, default_target_needed

\* What ninja builds, once bang has chosen the default targets.
LEMMA ChosenDefault ==
  ASSUME SInv, phase = "done", NoCustomDefault, default_build_statements # {},
         default_target_needed
  PROVE  NinjaDefault = default_build_statements
<1>1. DefaultStatements = {DefaultStatement}
  BY DEF SInv, DefaultBuilt, DefaultFinal
<1>2. DefaultStatement.targets = default_build_statements
  BY DEF DefaultStatement
<1>. QED
  BY <1>1, <1>2 DEF NinjaDefault

\* generate_default: when the script builds something and leaves the choice to
\* bang, ninja alone never installs, cleans or prints the help.
THEOREM DefaultIsSafe == Spec => []DefaultExcludesSections
<1>1. TypeOK /\ SInv => DefaultExcludesSections
  <2>. SUFFICES ASSUME SInv, phase = "done", NoCustomDefault, default_build_statements # {},
                       SectionTargets # {}
                PROVE  NinjaDefault \cap SectionTargets = {}
    BY DEF DefaultExcludesSections
  <2>1. NinjaDefault = default_build_statements
    BY SectionsAreWanted, ChosenDefault
  <2>. QED
    BY <2>1 DEF SInv, DefaultTargets
<1>. QED
  BY <1>1, SectionInvariant, PTL

\* generate_default: ninja alone then builds every target of the script, unless
\* the script itself keeps one out.
THEOREM DefaultIsComplete == Spec => []DefaultIncludesScript
<1>1. TypeOK /\ SInv => DefaultIncludesScript
  <2>. SUFFICES ASSUME SInv, phase = "done", NoCustomDefault, default_build_statements # {},
                       SectionTargets # {}, AllByDefault
                PROVE  NinjaDefault = ScriptTargets
    BY DEF DefaultIncludesScript, AllByDefault
  <2>1. NinjaDefault = default_build_statements
    BY SectionsAreWanted, ChosenDefault
  <2>. QED
    BY <2>1 DEF SInv, DefaultTargets, DefaultIsAll
<1>. QED
  BY <1>1, SectionInvariant, PTL
=============================================================================
