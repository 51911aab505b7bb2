------------------------------- MODULE Bang ---------------------------------
(***************************************************************************)
(* bang: the generator of Ninja files scriptable in LuaX (bang/*.lua).     *)
(*                                                                         *)
(* A build script calls var, rule, build, phony, pool, default, generator, *)
(* clean, install, help, atexit and require in any order.  Each call       *)
(* appends statements to a list of tokens and updates the tables that      *)
(* later calls are checked against.  When the script is over, the          *)
(* functions given to atexit are run, then bang adds sections of its own:  *)
(* Installation, Clean, Clean (mrproper), Help, the generator rule and the *)
(* default targets.  Any error ends the process and nothing is written.    *)
(*                                                                         *)
(* A call is a record; `todo` holds the calls still to be executed.  A     *)
(* call of the script is a one-element list, and a function that calls     *)
(* other functions (build with an inline command, install:gen, ...)        *)
(* replaces its call by the calls it makes, in their order.                *)
(***************************************************************************)
EXTENDS NinjaSyntax

CONSTANTS
  Dir,              \* directories given to clean, clean.mrproper, install
  Fn,               \* functions given to atexit
  Module,           \* files read by require, dofile, ...
  FlagKey,          \* generator flags other than implicit_in, implicit_out
  Script,           \* the calls the script may make
  MaxCalls,         \* bound: how many calls the script makes
  Body,             \* Body[f]: the calls function f makes when it is run
  Ident,            \* Ident[outs]: ident(outputs), the base of inline rules
  InstallTarget,    \* InstallTarget[d]: "install-"..ident(d)
  CleanTarget,      \* CleanTarget[d]: "clean-"..ident(d)
  MrproperTarget,   \* MrproperTarget[d]: "mrproper-"..ident(d)
  DirRank,          \* the rank of a directory in the order of strings
  Recursive,        \* names that refer to variables defined by themselves
  GitDeps,          \* .git/refs/tags when it exists
  Input,            \* the name of the script, e.g. build.lua
  Output            \* the name of the Ninja file, e.g. build.ninja

VARIABLES
  phase,            \* what bang is doing
  failed,           \* log.error was called: the process has exited
  calls,            \* how many calls the script has made
  todo,             \* calls to be executed, the first one next
  tokens,           \* the statements emitted so far
  vars,             \* names of the variables that have a value
  curried,          \* names for which var(name) returned a function
  rules,            \* rule name |-> implicit inputs its builds inherit
  pools,            \* names of the pools
  builds,           \* output |-> name of the rule that builds it
  default_build_statements,     \* outputs that are built by default
  custom_default_statement,     \* default has been called
  gen_flags,                    \* what generator was told
  modpath,                      \* files loaded by bang
  directories_to_clean,
  directories_to_clean_more,
  install_targets,              \* the calls of install
  help_targets,                 \* names documented with help
  help_described,               \* help.description or help.epilog called
  help_token,                   \* targets listed in the help message
  groups,                       \* directories install:gen has to process
  registered_functions,         \* atexit functions run has not picked up
  funcs                         \* functions atexit.run is running

RunState     == <<phase, calls>>
TableState   == <<vars, curried, rules, pools>>
BuildState   == <<builds, default_build_statements, custom_default_statement>>
GenState     == <<gen_flags, modpath>>
RequestState == <<directories_to_clean, directories_to_clean_more,
                  install_targets, help_targets, help_described>>
LocalState   == <<help_token, groups>>
AtexitState  == <<registered_functions, funcs>>

state == <<RunState, failed, todo, tokens, TableState, BuildState, GenState,
           RequestState, LocalState, AtexitState>>

Phase == {"script", "atexit", "install", "clean", "mrproper", "help",
          "generator", "default", "done"}

\* The phases in which bang adds its own sections.
GenPhase == {"install", "clean", "mrproper", "help", "generator", "default"}

-----------------------------------------------------------------------------
(* The calls. *)

phony_rule == Plain("phony")

VarCall       == [op : {"var", "define"}, name : Name]
RuleCall      == [op : {"rule"}, name : Name, valid : BOOLEAN,
                  implicit_in : SUBSET Name]
BuildCall     == [op : {"build"}, outs : Seq(Name), rule : Name,
                  ins : SUBSET Name, implicit_in : SUBSET Name,
                  no_default : BOOLEAN]
InlineCall    == [op : {"inline"}, outs : DOMAIN Ident,
                  ins : SUBSET Name, implicit_in : SUBSET Name,
                  no_default : BOOLEAN]
PhonyCall     == [op : {"phony"}, outs : Seq(Name),
                  ins : SUBSET Name, implicit_in : SUBSET Name,
                  no_default : BOOLEAN]
PoolCall      == [op : {"pool"}, name : Name, valid : BOOLEAN]
DefaultCall   == [op : {"default"}, targets : SUBSET Name]
GeneratorCall == [op : {"generator"}, flag : {"off", "on", "bad"},
                  implicit_in : SUBSET Name, keys : SUBSET FlagKey]
CleanCall     == [op : {"clean", "mrproper"}, dir : Dir]
InstallCall   == [op : {"install"}, dir : Dir, sources : SUBSET Name]
HelpCall      == [op : {"help"}, name : Name]
DescribeCall  == [op : {"describe"}]
AtexitCall    == [op : {"atexit"}, fn : Fn]
RequireCall   == [op : {"require"}, mod : Module]

Call == VarCall \cup RuleCall \cup BuildCall \cup InlineCall \cup PhonyCall
          \cup PoolCall \cup DefaultCall \cup GeneratorCall \cup CleanCall
          \cup InstallCall \cup HelpCall \cup DescribeCall \cup AtexitCall
          \cup RequireCall

ASSUME BoundAssumption == MaxCalls \in Nat

ASSUME ScriptAssumption == Script \subseteq Call /\ Body \in [Fn -> Seq(Script)]

ASSUME FileAssumption ==
  /\ Module \subseteq Name /\ GitDeps \subseteq Name /\ Recursive \subseteq Name
  /\ Input \in Name /\ Output \in Name

ASSUME DirAssumption ==
  /\ InstallTarget \in [Dir -> Name]
  /\ CleanTarget \in [Dir -> Name]
  /\ MrproperTarget \in [Dir -> Name]
  /\ DirRank \in [Dir -> Nat]

ASSUME IdentAssumption ==
  /\ Ident \in [DOMAIN Ident -> Name] /\ DOMAIN Ident \subseteq Seq(Name)
  /\ \A d \in Dir : /\ <<CleanTarget[d]>> \in DOMAIN Ident
                   /\ <<MrproperTarget[d]>> \in DOMAIN Ident
  /\ <<Plain("help")>> \in DOMAIN Ident

-----------------------------------------------------------------------------
(* One operation per function of bang/ninja.lua.  Each executes the first  *)
(* call of todo and removes it.                                            *)

Calling(op) == ~failed /\ todo # <<>> /\ Head(todo).op = op

\* The call returns: go on with the next one.
Return == todo' = Tail(todo) /\ UNCHANGED failed

\* log.error: the process exits, nothing is written.
Error == /\ failed' = TRUE
         /\ UNCHANGED <<RunState, todo, tokens, TableState, BuildState,
                        GenState, RequestState, LocalState, AtexitState>>

\* var(name): the name is checked, a function that defines it is returned.
VarName ==
  /\ Calling("var")
  /\ LET c == Head(todo) IN
     \/ c.name \in vars /\ Error
     \/ /\ c.name \notin vars
        /\ curried' = curried \cup {c.name}
        /\ Return
        /\ UNCHANGED <<RunState, tokens, vars, rules, pools, BuildState,
                       GenState, RequestState, LocalState, AtexitState>>

\* The function returned by var(name): it defines the variable.
VarValue ==
  /\ Calling("define")
  /\ LET c == Head(todo) IN
     /\ vars' = vars \cup {c.name}
     /\ tokens' = Append(tokens, [kind |-> "var", name |-> c.name])
     /\ Return
     /\ UNCHANGED <<RunState, curried, rules, pools, BuildState, GenState,
                    RequestState, LocalState, AtexitState>>

\* Mutation: a rule may be defined again.
RuleAllowed_Again(c) == c.valid

RuleAllowed(c) == c.name \notin DOMAIN rules /\ c.valid

\* rule(name)(opt).
Rule ==
  /\ Calling("rule")
  /\ LET c == Head(todo) IN
     \/ ~RuleAllowed(c) /\ Error
     \/ /\ RuleAllowed(c)
        /\ rules' = [r \in DOMAIN rules \cup {c.name} |->
                       IF r = c.name THEN c.implicit_in ELSE rules[r]]
        /\ tokens' = Append(tokens, [kind |-> "rule", name |-> c.name,
                                     sec |-> phase])
        /\ Return
        /\ UNCHANGED <<RunState, vars, curried, pools, BuildState, GenState,
                       RequestState, LocalState, AtexitState>>

\* Mutation: the pool is not recorded.
Pool_NotRecorded ==
  /\ Calling("pool")
  /\ LET c == Head(todo) IN
     \/ (c.name \in pools \/ ~c.valid) /\ Error
     \/ /\ c.name \notin pools /\ c.valid
        /\ tokens' = Append(tokens, [kind |-> "pool", name |-> c.name])
        /\ Return
        /\ UNCHANGED <<RunState, TableState, BuildState, GenState,
                       RequestState, LocalState, AtexitState>>

\* pool(name)(opt).
Pool ==
  /\ Calling("pool")
  /\ LET c == Head(todo) IN
     \/ (c.name \in pools \/ ~c.valid) /\ Error
     \/ /\ c.name \notin pools /\ c.valid
        /\ pools' = pools \cup {c.name}
        /\ tokens' = Append(tokens, [kind |-> "pool", name |-> c.name])
        /\ Return
        /\ UNCHANGED <<RunState, vars, curried, rules, BuildState, GenState,
                       RequestState, LocalState, AtexitState>>

\* Mutation: the statement is not built by default.
InlineBuild_NoDefault ==
  /\ Calling("inline")
  /\ LET c == Head(todo)
         r == unique_rule_name(Ident[c.outs], DOMAIN rules) IN
     /\ todo' = << [op |-> "rule", name |-> r, valid |-> TRUE,
                    implicit_in |-> {}],
                   [op |-> "build", outs |-> c.outs, rule |-> r,
                    ins |-> c.ins, implicit_in |-> c.implicit_in,
                    no_default |-> TRUE] >> \o Tail(todo)
     /\ UNCHANGED <<failed, RunState, tokens, TableState, BuildState, GenState,
                    RequestState, LocalState, AtexitState>>

\* build(outputs){inputs, command = ...}: a rule for this statement only,
\* then the statement.  implicit_in and no_default stay with the statement.
InlineBuild ==
  /\ Calling("inline")
  /\ LET c == Head(todo)
         r == unique_rule_name(Ident[c.outs], DOMAIN rules) IN
     /\ todo' = << [op |-> "rule", name |-> r, valid |-> TRUE,
                    implicit_in |-> {}],
                   [op |-> "build", outs |-> c.outs, rule |-> r,
                    ins |-> c.ins, implicit_in |-> c.implicit_in,
                    no_default |-> c.no_default] >> \o Tail(todo)
     /\ UNCHANGED <<failed, RunState, tokens, TableState, BuildState, GenState,
                    RequestState, LocalState, AtexitState>>

\* Mutation: $no_default is lost.
Phony_Default ==
  /\ Calling("phony")
  /\ LET c == Head(todo) IN
     /\ todo' = << [op |-> "build", outs |-> c.outs, rule |-> phony_rule,
                    ins |-> c.ins, implicit_in |-> {},
                    no_default |-> FALSE] >> \o Tail(todo)
     /\ UNCHANGED <<failed, RunState, tokens, TableState, BuildState, GenState,
                    RequestState, LocalState, AtexitState>>

\* phony(outputs)(inputs): build with the rule phony.  Of the named fields
\* of inputs, only $no_default is passed on.
Phony ==
  /\ Calling("phony")
  /\ LET c == Head(todo) IN
     /\ todo' = << [op |-> "build", outs |-> c.outs, rule |-> phony_rule,
                    ins |-> c.ins, implicit_in |-> {},
                    no_default |-> c.no_default] >> \o Tail(todo)
     /\ UNCHANGED <<failed, RunState, tokens, TableState, BuildState, GenState,
                    RequestState, LocalState, AtexitState>>

\* Mutation: an output may be built again.
BuildAllowed_Again(c) == c.rule \in DOMAIN rules

\* build(outputs){rule, inputs}.  The implicit inputs of the rule come with
\* those of the statement.
BuildAllowed(c) ==
  /\ c.rule \in DOMAIN rules
  /\ Distinct(c.outs)
  /\ Elements(c.outs) \cap DOMAIN builds = {}

\* Mutation: the implicit inputs of the rule are forgotten.
Inherited_Forgotten(c) == c.implicit_in

Inherited(c) == rules[c.rule] \cup c.implicit_in

Build ==
  /\ Calling("build")
  /\ LET c == Head(todo) IN
     \/ ~BuildAllowed(c) /\ Error
     \/ /\ BuildAllowed(c)
        /\ tokens' = Append(tokens,
              [kind |-> "build", outs |-> c.outs, rule |-> c.rule,
               ins |-> c.ins, implicit_in |-> Inherited(c), sec |-> phase])
        /\ builds' = [o \in DOMAIN builds \cup Elements(c.outs) |->
                        IF o \in Elements(c.outs) THEN c.rule ELSE builds[o]]
        /\ default_build_statements' =
              IF c.no_default THEN default_build_statements
              ELSE default_build_statements \cup Elements(c.outs)
        /\ Return
        /\ UNCHANGED <<RunState, TableState, custom_default_statement,
                       GenState, RequestState, LocalState, AtexitState>>

\* default(targets): no target, no statement.
Default ==
  /\ Calling("default")
  /\ LET c == Head(todo) IN
     /\ custom_default_statement' =
           (custom_default_statement \/ c.targets # {})
     /\ tokens' = IF c.targets = {} THEN tokens
                  ELSE Append(tokens, [kind |-> "default",
                                       targets |-> c.targets, sec |-> phase])
     /\ Return
     /\ UNCHANGED <<RunState, TableState, builds, default_build_statements,
                    GenState, RequestState, LocalState, AtexitState>>

\* generator(flags).  A disabled generator cannot be customized and the
\* converse; a flag other than implicit_in is given once.
GeneratorAllowed(c) ==
  \/ c.flag = "off" /\ gen_flags.use # "on"
  \/ c.flag = "on" /\ gen_flags.use # "off" /\ c.keys \cap gen_flags.keys = {}

Generator ==
  /\ Calling("generator")
  /\ LET c == Head(todo) IN
     \/ ~GeneratorAllowed(c) /\ Error
     \/ /\ GeneratorAllowed(c)
        /\ gen_flags' =
              IF c.flag = "off" THEN [gen_flags EXCEPT !.use = "off"]
              ELSE [use |-> "on",
                    implicit_in |-> gen_flags.implicit_in \cup c.implicit_in,
                    keys |-> gen_flags.keys \cup c.keys]
        /\ Return
        /\ UNCHANGED <<RunState, tokens, TableState, BuildState, modpath,
                       RequestState, LocalState, AtexitState>>

\* require, dofile, loadfile: luax-package notes the file that is loaded.
Require ==
  /\ Calling("require")
  /\ modpath' = modpath \cup {Head(todo).mod}
  /\ Return
  /\ UNCHANGED <<RunState, tokens, TableState, BuildState, gen_flags,
                 RequestState, LocalState, AtexitState>>

\* clean(dir).
Clean ==
  /\ Calling("clean")
  /\ directories_to_clean' = Append(directories_to_clean, Head(todo).dir)
  /\ Return
  /\ UNCHANGED <<RunState, tokens, TableState, BuildState, GenState,
                 directories_to_clean_more, install_targets, help_targets,
                 help_described, LocalState, AtexitState>>

\* clean.mrproper(dir).
Mrproper ==
  /\ Calling("mrproper")
  /\ directories_to_clean_more' =
        Append(directories_to_clean_more, Head(todo).dir)
  /\ Return
  /\ UNCHANGED <<RunState, tokens, TableState, BuildState, GenState,
                 directories_to_clean, install_targets, help_targets,
                 help_described, LocalState, AtexitState>>

\* install(name)(sources).
Install ==
  /\ Calling("install")
  /\ LET c == Head(todo) IN
     install_targets' =
       install_targets \cup {[dir |-> c.dir, sources |-> c.sources]}
  /\ Return
  /\ UNCHANGED <<RunState, tokens, TableState, BuildState, GenState,
                 directories_to_clean, directories_to_clean_more,
                 help_targets, help_described, LocalState, AtexitState>>

\* help(name)(txt).
Help ==
  /\ Calling("help")
  /\ help_targets' = help_targets \cup {Head(todo).name}
  /\ Return
  /\ UNCHANGED <<RunState, tokens, TableState, BuildState, GenState,
                 directories_to_clean, directories_to_clean_more,
                 install_targets, help_described, LocalState, AtexitState>>

\* help.description(txt), help.epilog(txt).
Describe ==
  /\ Calling("describe")
  /\ help_described' = TRUE
  /\ Return
  /\ UNCHANGED <<RunState, tokens, TableState, BuildState, GenState,
                 directories_to_clean, directories_to_clean_more,
                 install_targets, help_targets, LocalState, AtexitState>>

\* atexit(f).
Atexit ==
  /\ Calling("atexit")
  /\ registered_functions' = Append(registered_functions, Head(todo).fn)
  /\ Return
  /\ UNCHANGED <<RunState, tokens, TableState, BuildState, GenState,
                 RequestState, LocalState, funcs>>

Execute ==
  \/ VarName \/ VarValue \/ Rule \/ Pool \/ InlineBuild \/ Phony \/ Build
  \/ Default \/ Generator \/ Require \/ Clean \/ Mrproper \/ Install \/ Help
  \/ Describe \/ Atexit

-----------------------------------------------------------------------------
(* The script, atexit.run, then the sections bang adds, in the order of    *)
(* the main function of bang/ninja.lua.                                    *)

\* Every call of the current phase has returned.
Idle(p) == ~failed /\ phase = p /\ todo = <<>>

\* The script makes call c.  It has a function to define a variable only if
\* it called var before.
ScriptCall(c) ==
  /\ Idle("script")
  /\ calls < MaxCalls
  /\ c.op = "define" => c.name \in curried
  /\ calls' = calls + 1
  /\ todo' = <<c>>
  /\ UNCHANGED <<failed, phase, tokens, TableState, BuildState, GenState,
                 RequestState, LocalState, AtexitState>>

Enter(p) == phase' = p /\ UNCHANGED <<failed, calls>>

EndOfScript ==
  /\ Idle("script")
  /\ Enter("atexit")
  /\ UNCHANGED <<todo, tokens, TableState, BuildState, GenState, RequestState,
                 LocalState, AtexitState>>

\* Mutation: the list of registered functions is not reset.
AtexitRound_NoReset ==
  /\ Idle("atexit") /\ funcs = <<>> /\ registered_functions # <<>>
  /\ funcs' = registered_functions
  /\ UNCHANGED <<failed, RunState, todo, tokens, TableState, BuildState,
                 GenState, RequestState, LocalState, registered_functions>>

\* atexit.run takes the registered functions and calls them in order; it
\* starts again with those that were registered meanwhile.
AtexitRound ==
  /\ Idle("atexit") /\ funcs = <<>> /\ registered_functions # <<>>
  /\ funcs' = registered_functions
  /\ registered_functions' = <<>>
  /\ UNCHANGED <<failed, RunState, todo, tokens, TableState, BuildState,
                 GenState, RequestState, LocalState>>

AtexitRun ==
  /\ Idle("atexit") /\ funcs # <<>>
  /\ todo' = Body[Head(funcs)]
  /\ funcs' = Tail(funcs)
  /\ UNCHANGED <<failed, RunState, tokens, TableState, BuildState, GenState,
                 RequestState, LocalState, registered_functions>>

\* install:gen(unique_rule_name "install"): the help line, the variable
\* prefix and the rule.
GenInstall ==
  /\ Idle("atexit") /\ funcs = <<>> /\ registered_functions = <<>>
  /\ Enter("install")
  /\ LET install_rule == unique_rule_name(Plain("install"), DOMAIN rules) IN
     todo' = IF install_targets = {} THEN <<>>
             ELSE << [op |-> "help", name |-> Plain("install")],
                     [op |-> "var", name |-> Plain("prefix")],
                     [op |-> "define", name |-> Plain("prefix")],
                     [op |-> "rule", name |-> install_rule, valid |-> TRUE,
                      implicit_in |-> {}] >>
  /\ groups' = {t.dir : t \in install_targets}
  /\ UNCHANGED <<tokens, TableState, BuildState, GenState, RequestState,
                 help_token, AtexitState>>

\* The files to be installed in d.
SourcesIn(d) == UNION {t.sources : t \in {t \in install_targets : t.dir = d}}

\* d is the next directory, in the order of their names.
NextGroup(d) ==
  /\ Idle("install")
  /\ d \in groups
  /\ \A e \in groups : DirRank[d] <= DirRank[e]

\* install:gen, continued.  The comment names the files, expanded: this fails
\* when a variable is defined by itself.
InstallRefused ==
  /\ \E d \in Dir : NextGroup(d) /\ SourcesIn(d) \cap Recursive # {}
  /\ Error

\* Otherwise, a build statement for the directory, then, after the last one,
\* the phony target install.
InstallGroup(d) ==
  /\ NextGroup(d) /\ SourcesIn(d) \cap Recursive = {}
  /\ groups' = groups \ {d}
  /\ LET copy  == [op |-> "build", outs |-> <<InstallTarget[d]>>,
                   rule |-> Plain("install"), ins |-> SourcesIn(d),
                   implicit_in |-> {}, no_default |-> TRUE]
         all   == [op |-> "phony", outs |-> <<Plain("install")>>,
                   ins |-> {InstallTarget[t.dir] : t \in install_targets},
                   implicit_in |-> {}, no_default |-> TRUE] IN
     todo' = IF groups = {d} THEN <<copy, all>> ELSE <<copy>>
  /\ UNCHANGED <<failed, RunState, tokens, TableState, BuildState, GenState,
                 RequestState, help_token, AtexitState>>

\* Mutation: the target is not documented.
CleanCalls_NoHelp(name, dirs, target, others) ==
  IF dirs = <<>> THEN <<>>
  ELSE [i \in 1 .. Len(dirs) |->
          [op |-> "inline", outs |-> <<target[dirs[i]]>>, ins |-> {},
           implicit_in |-> {}, no_default |-> TRUE]]
       \o << [op |-> "phony", outs |-> <<name>>,
              ins |-> {target[d] : d \in Elements(dirs)} \cup others,
              implicit_in |-> {}, no_default |-> TRUE] >>

\* The calls that add a target removing each of dirs, and a phony target
\* `name` for all of them and for the targets of `others`.
CleanCalls(name, dirs, target, others) ==
  IF dirs = <<>> THEN <<>>
  ELSE << [op |-> "help", name |-> name] >>
       \o [i \in 1 .. Len(dirs) |->
             [op |-> "inline", outs |-> <<target[dirs[i]]>>, ins |-> {},
              implicit_in |-> {}, no_default |-> TRUE]]
       \o << [op |-> "phony", outs |-> <<name>>,
              ins |-> {target[d] : d \in Elements(dirs)} \cup others,
              implicit_in |-> {}, no_default |-> TRUE] >>

\* clean:gen().
GenClean ==
  /\ Idle("install") /\ groups = {}
  /\ Enter("clean")
  /\ todo' = CleanCalls(Plain("clean"), directories_to_clean, CleanTarget, {})
  /\ UNCHANGED <<tokens, TableState, BuildState, GenState, RequestState,
                 LocalState, AtexitState>>

\* clean:gen(), continued: mrproper depends on clean when clean exists.
GenMrproper ==
  /\ Idle("clean")
  /\ Enter("mrproper")
  /\ todo' = CleanCalls(Plain("mrproper"), directories_to_clean_more,
                        MrproperTarget,
                        IF directories_to_clean = <<>> THEN {}
                        ELSE {Plain("clean")})
  /\ UNCHANGED <<tokens, TableState, BuildState, GenState, RequestState,
                 LocalState, AtexitState>>

help_defined == help_described \/ help_targets # {}

\* help:gen(): help itself is listed first when targets are documented.
GenHelp ==
  /\ Idle("mrproper")
  /\ Enter("help")
  /\ help_targets' = IF help_targets = {} THEN {}
                     ELSE help_targets \cup {Plain("help")}
  /\ help_token' = help_targets'
  /\ todo' = IF ~help_defined THEN <<>>
             ELSE << [op |-> "inline", outs |-> <<Plain("help")>>,
                      ins |-> {}, implicit_in |-> {}, no_default |-> TRUE] >>
  /\ UNCHANGED <<tokens, TableState, BuildState, GenState, groups,
                 directories_to_clean, directories_to_clean_more,
                 install_targets, help_described, AtexitState>>

\* Mutation: the files loaded by the script are forgotten.
generator_deps_NoModules == gen_flags.implicit_in \cup GitDeps

\* The Ninja file depends on the script (modpath), on every file it loaded,
\* on the tags of git and on what the script adds.
generator_deps == gen_flags.implicit_in \cup modpath \cup GitDeps

\* generator_rule(args).
GenGenerator ==
  /\ Idle("help")
  /\ Enter("generator")
  /\ LET bang == unique_rule_name(Plain("bang"), DOMAIN rules) IN
     todo' = IF gen_flags.use = "off" THEN <<>>
             ELSE << [op |-> "rule", name |-> bang, valid |-> TRUE,
                      implicit_in |-> {}],
                     [op |-> "build", outs |-> <<Output>>, rule |-> bang,
                      ins |-> {Input}, implicit_in |-> generator_deps \ {Input},
                      no_default |-> TRUE] >>
  /\ UNCHANGED <<tokens, TableState, BuildState, GenState, RequestState,
                 LocalState, AtexitState>>

default_target_needed ==
  \/ directories_to_clean # <<>>
  \/ directories_to_clean_more # <<>>
  \/ help_defined
  \/ install_targets # {}

\* generate_default().
GenDefault ==
  /\ Idle("generator")
  /\ Enter("default")
  /\ todo' = IF custom_default_statement \/ ~default_target_needed THEN <<>>
             ELSE << [op |-> "default",
                      targets |-> default_build_statements] >>
  /\ UNCHANGED <<tokens, TableState, BuildState, GenState, RequestState,
                 LocalState, AtexitState>>

\* Mutation: the file is written before the generator rule is emitted.
Finish_Early ==
  /\ ~failed /\ phase = "generator"
  /\ Enter("done")
  /\ UNCHANGED <<todo, tokens, TableState, BuildState, GenState, RequestState,
                 LocalState, AtexitState>>

\* The tokens are concatenated and the Ninja file is written.
Finish ==
  /\ Idle("default")
  /\ Enter("done")
  /\ UNCHANGED <<todo, tokens, TableState, BuildState, GenState, RequestState,
                 LocalState, AtexitState>>

\* The process has exited.
Exited == (failed \/ phase = "done") /\ UNCHANGED state

-----------------------------------------------------------------------------

Init ==
  /\ phase = "script" /\ failed = FALSE /\ calls = 0 /\ todo = <<>>
  /\ tokens = <<>>
  /\ vars = {} /\ curried = {} /\ pools = {}
  /\ rules = [r \in {phony_rule} |-> {}]
  /\ builds = [o \in {} |-> phony_rule]
  /\ default_build_statements = {} /\ custom_default_statement = FALSE
  /\ gen_flags = [use |-> "unset", implicit_in |-> {}, keys |-> {}]
  /\ modpath = {Input}
  /\ directories_to_clean = <<>> /\ directories_to_clean_more = <<>>
  /\ install_targets = {} /\ help_targets = {} /\ help_described = FALSE
  /\ help_token = {} /\ groups = {}
  /\ registered_functions = <<>> /\ funcs = <<>>

Sections ==
  \/ EndOfScript \/ AtexitRound \/ AtexitRun \/ GenInstall
  \/ (\E d \in Dir : InstallGroup(d))
  \/ GenClean \/ GenMrproper \/ GenHelp \/ GenGenerator \/ GenDefault \/ Finish

Next == \/ \E c \in Script : ScriptCall(c)
        \/ Execute
        \/ Sections
        \/ InstallRefused
        \/ Exited

\* bang is one sequential process: as long as it can go on, it does.
Spec == Init /\ [][Next]_state /\ WF_state(Next)
-----------------------------------------------------------------------------
(* Properties. *)

\* The Ninja file as NinjaFile.tla sees it.
FileStatus == IF failed THEN "failed"
              ELSE IF phase = "done" THEN "closed" ELSE "open"

File == INSTANCE NinjaFile WITH file <- tokens, status <- FileStatus

RunType ==
  /\ phase \in Phase /\ failed \in BOOLEAN /\ calls \in 0 .. MaxCalls
  /\ todo \in Seq(Call)
  /\ phase = "done" => todo = <<>>

TableType ==
  /\ vars \subseteq Name /\ curried \subseteq Name /\ pools \subseteq Name
  /\ DOMAIN rules \subseteq Name /\ phony_rule \in DOMAIN rules
  /\ IsFiniteSet(DOMAIN rules)
  /\ \A r \in DOMAIN rules : rules[r] \subseteq Name

BuildType ==
  /\ DOMAIN builds \subseteq Name
  /\ \A o \in DOMAIN builds : builds[o] \in DOMAIN rules
  /\ default_build_statements \subseteq Name
  /\ custom_default_statement \in BOOLEAN

GenType ==
  /\ gen_flags \in [use : {"unset", "off", "on"}, implicit_in : SUBSET Name,
                    keys : SUBSET FlagKey]
  /\ modpath \subseteq Name

RequestType ==
  /\ directories_to_clean \in Seq(Dir)
  /\ directories_to_clean_more \in Seq(Dir)
  /\ install_targets \subseteq [dir : Dir, sources : SUBSET Name]
  /\ help_targets \subseteq Name /\ help_described \in BOOLEAN
  /\ help_token \subseteq Name /\ groups \subseteq Dir

AtexitType == registered_functions \in Seq(Fn) /\ funcs \in Seq(Fn)

\* Every variable has its type: the tables of bang/ninja.lua and the lists of
\* the modules clean, install, help and atexit.
TypeOK ==
  /\ RunType /\ tokens \in Seq(Statement) /\ TableType /\ BuildType
  /\ GenType /\ RequestType /\ AtexitType

\* The tables the checks of rule, pool and build look at (rules, pools,
\* builds) say what is in the file, no more and no less.
TablesMatchFile ==
  /\ DOMAIN rules = RuleNames(tokens) \cup {phony_rule}
  /\ pools = PoolNames(tokens)
  /\ DOMAIN builds = Targets(tokens)

\* bang/ninja.lua emits a file Ninja accepts: a rule is defined once and
\* before its first use, a pool once, an output is built by one statement;
\* and the file is complete only when the process did not fail.
ImplementsNinjaFile == File!Spec

\* The targets of the statements bang adds for install, clean and help.
SectionTargets ==
  UNION {Elements(s.outs) : s \in
    {t \in BuildsOf(tokens) :
       t.sec \in {"install", "clean", "mrproper", "help"}}}

\* The targets of the statements of the script and of its atexit functions.
ScriptTargets ==
  UNION {Elements(s.outs) : s \in
    {t \in BuildsOf(tokens) : t.sec \in {"script", "atexit"}}}

DefaultStatements == {s \in Elements(tokens) : s.kind = "default"}

\* What Ninja builds when it is given no target: the targets of the default
\* statements, or else every target that is not an input of another one.
NinjaDefault ==
  IF DefaultStatements # {}
  THEN UNION {s.targets : s \in DefaultStatements}
  ELSE Targets(tokens)
         \ UNION {s.ins \cup s.implicit_in : s \in BuildsOf(tokens)}

\* The script chose no default target.
NoCustomDefault == \A s \in DefaultStatements : s.sec = "default"

\* When the script builds something and leaves the choice to bang
\* (generate_default), ninja alone never installs, cleans or prints the help.
DefaultExcludesSections ==
  phase = "done" /\ NoCustomDefault /\ default_build_statements # {}
    => NinjaDefault \cap SectionTargets = {}

\* In that case, if there is something to exclude, ninja alone builds all the
\* targets of the script (the bang manual: "an explicit default target with
\* all targets, except from help, install and clean targets").
DefaultIncludesScript ==
  phase = "done" /\ NoCustomDefault /\ SectionTargets # {}
  /\ default_build_statements # {}
  /\ (\A c \in Script : c.op \in {"build", "inline", "phony"} => ~c.no_default)
    => NinjaDefault = ScriptTargets

\* The help message lists the targets clean, mrproper and install whenever the
\* file has them: help:gen runs after the sections that call help.
HelpDocumentsSections ==
  phase = "done" =>
    \A w \in {"install", "clean", "mrproper"} :
      (\E s \in BuildsOf(tokens) : s.sec = w)
        => Plain(w) \in help_token /\ Plain("help") \in SectionTargets

\* Unless the generator is disabled, exactly one statement rebuilds the Ninja
\* file, from the script, all the files it has loaded (atexit functions
\* included) and the inputs given to generator (generator_rule).
GeneratorTracksInputs ==
  phase = "done" =>
    LET gen == {s \in BuildsOf(tokens) : s.sec = "generator"} IN
    IF gen_flags.use = "off" THEN gen = {}
    ELSE \E s \in gen :
           /\ gen = {s} /\ s.outs = <<Output>>
           /\ modpath \cup gen_flags.implicit_in \cup GitDeps
                \subseteq s.ins \cup s.implicit_in
           /\ Input \notin s.implicit_in

\* The sections bang adds fail only on a name of the script: it took the
\* variable prefix, or a target (by building it, or with directories that ident
\* makes equal), or it installs a file that cannot be expanded.  Their rules
\* never clash and are never missing.
GenerationFailsOnlyOnNames ==
  failed /\ phase \in GenPhase =>
    LET c == Head(todo) IN
    \/ todo # <<>> /\ c.op = "var" /\ c.name = Plain("prefix")
    \/ /\ todo # <<>> /\ c.op = "build" /\ c.rule \in DOMAIN rules
       /\ Elements(c.outs) \cap DOMAIN builds # {}
    \/ /\ todo = <<>> /\ phase = "install"
       /\ \E d \in groups : SourcesIn(d) \cap Recursive # {}

\* What a rule makes its builds inherit is settled when it is defined: no
\* build changes it (build works on a clone of inherited_variables).
RulesFrozen ==
  [][\A r \in DOMAIN rules : r \in DOMAIN rules' /\ rules'[r] = rules[r]]_state

\* Every build statement of the file has the implicit inputs of its rule.
InheritedInputs ==
  \A s \in BuildsOf(tokens) : rules[s.rule] \subseteq s.implicit_in

\* bang ends: the functions given to atexit are run until there is none left
\* (a script whose functions register each other for ever is excluded), and
\* every section comes to its end.
Termination == <>(failed \/ phase = "done")

-----------------------------------------------------------------------------
(* What the code means to do and does not. *)

\* The rule install:gen defines ("INSTALL $in to $destdir") is the rule its
\* build statements run.
InstallsWithInstallRule ==
  phase = "done" =>
    \A s \in BuildsOf(tokens) :
      (s.sec = "install" /\ s.rule # phony_rule)
        => \E r \in Elements(tokens) :
             r.kind = "rule" /\ r.sec = "install" /\ r.name = s.rule
=============================================================================
