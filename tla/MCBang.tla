------------------------------- MODULE MCBang -------------------------------
(* Small instances of Bang for TLC. *)
EXTENDS Bang

a == Plain("a")
b == Plain("b")
u == Plain("u")
v == Plain("v")
cp == Plain("cp")
dep == Plain("dep")
mod == Plain("mod")

MCInput  == Plain("build.lua")
MCOutput == Plain("build.ninja")

MCWord == ReservedWord \cup
  {"a", "b", "u", "v", "cp", "dep", "mod", "tags", "build.lua", "build.ninja",
   "install-u", "install-v", "clean-u", "clean-v", "mrproper-u", "mrproper-v"}

\* Directories such as "x/u", "v" and "x_u": ident maps the first and the last
\* ones to "x_u".
MCDir == {"u", "v", "w"}
MCDirRank == [d \in MCDir |-> CASE d = "u" -> 1 [] d = "v" -> 2 [] d = "w" -> 3]
MCInstallTarget == [d \in MCDir |-> Plain(IF d = "v" THEN "install-v" ELSE "install-u")]
MCCleanTarget == [d \in MCDir |-> Plain(IF d = "v" THEN "clean-v" ELSE "clean-u")]
MCMrproperTarget ==
  [d \in MCDir |-> Plain(IF d = "v" THEN "mrproper-v" ELSE "mrproper-u")]

\* ident(outputs) of the targets bang and the scripts below build inline.
\* The output "cp" gives the identifier of a rule the scripts may define.
MCIdent ==
  [outs \in {<<a>>, <<b>>, <<cp>>, <<a, b>>, <<Plain("help")>>}
            \cup {<<MCCleanTarget[d]>> : d \in MCDir}
            \cup {<<MCMrproperTarget[d]>> : d \in MCDir}
     |-> IF outs = <<a, b>> THEN Plain("a") ELSE outs[1]]

MCModule  == {mod}
MCFn      == {"f", "g", "h"}
MCGitDeps == {Plain("tags")}

\* Such as "$v" when v is defined as "$v".
MCRecursive == {v}

-----------------------------------------------------------------------------

var(n)    == [op |-> "var", name |-> n]
define(n) == [op |-> "define", name |-> n]
rule(n, inherited, valid) ==
  [op |-> "rule", name |-> n, valid |-> valid, implicit_in |-> inherited]
build(outs, r, ins, imp) ==
  [op |-> "build", outs |-> outs, rule |-> r, ins |-> ins, implicit_in |-> imp,
   no_default |-> FALSE]
inline(outs, ins) ==
  [op |-> "inline", outs |-> outs, ins |-> ins, implicit_in |-> {},
   no_default |-> FALSE]
phony(outs, ins, imp) ==
  [op |-> "phony", outs |-> outs, ins |-> ins, implicit_in |-> imp,
   no_default |-> FALSE]
pool(n, valid)  == [op |-> "pool", name |-> n, valid |-> valid]
default(ts)     == [op |-> "default", targets |-> ts]
generator(flag, imp, keys) ==
  [op |-> "generator", flag |-> flag, implicit_in |-> imp, keys |-> keys]
clean(d)        == [op |-> "clean", dir |-> d]
mrproper(d)     == [op |-> "mrproper", dir |-> d]
install(d, src) == [op |-> "install", dir |-> d, sources |-> src]
help(n)         == [op |-> "help", name |-> n]
describe        == [op |-> "describe"]
atexit(f)       == [op |-> "atexit", fn |-> f]
require(m)      == [op |-> "require", mod |-> m]

\* Rules and builds: names defined twice, unknown rules, inline commands whose
\* rule needs a new name, several outputs, pools.
RulesScript ==
  {rule(cp, {}, TRUE), rule(cp, {dep}, FALSE), rule(a, {dep}, TRUE),
   rule(Numbered(a, 1), {}, TRUE),
   build(<<a>>, cp, {u}, {}), build(<<b>>, a, {a}, {v}),
   build(<<a, b>>, a, {u}, {v}), build(<<b, b>>, cp, {}, {}),
   inline(<<a>>, {u}), inline(<<a, b>>, {}), inline(<<cp>>, {a}),
   phony(<<b>>, {a}, {}), pool(a, TRUE), pool(a, FALSE)}

\* The sections bang adds, scripts that take their names, atexit and generator.
SectionsScript ==
  {rule(Plain("install"), {}, TRUE), rule(Plain("bang"), {}, TRUE),
   build(<<a>>, phony_rule, {}, {}),
   rule(Numbered(Plain("install"), 1), {}, TRUE),
   inline(<<a>>, {u}), phony(<<Plain("install")>>, {a}, {}),
   var(Plain("prefix")), define(Plain("prefix")),
   clean("u"), clean("v"), clean("w"), mrproper("u"),
   install("u", {a}), install("v", {a, b}), install("w", {b}), install("v", {v}),
   help(a), describe,
   default({a}), default({}),
   atexit("f"), atexit("g"), atexit("h"), require(mod),
   generator("off", {}, {}), generator("on", {dep}, {"pool"}),
   generator("on", {mod}, {}), generator("bad", {}, {})}

MCScript == RulesScript \cup SectionsScript

MCBody == [f \in {"f", "g", "h"} |->
  CASE f = "f" -> <<require(mod), atexit("g")>>
    [] f = "g" -> <<require(mod)>>
    [] f = "h" -> <<clean("u"), build(<<a>>, phony_rule, {}, {}), atexit("f")>>]

=============================================================================
