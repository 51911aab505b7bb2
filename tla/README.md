# LuaX: specifications of bang, ypp, fs and the line editor

This directory holds TLA+ specifications of parts of LuaX, the configurations
that check them with TLC, and proofs for TLAPS. LuaX is a Lua interpreter with
a library of modules (`luax/`), and two programs written with it: `bang`, a
generator of Ninja files scriptable in Lua (`bang/`), and `ypp`, a preprocessor
whose macros are Lua expressions (`ypp/`). Its interpreter reads lines with its
own version of linenoise, a line editor in C (`luax/ext/linenoise/`). Paths and line numbers below are
relative to the root of the repository.

    tlc -config BangScripts.cfg MCBang    # one run; PROJECT.json lists them all
    tlapm YppProofs.tla                   # the proofs of one module

Contents: the inventory of the system, what is modelled, the runs, the proofs,
what was found, what is left out, and the plan.

## 1. The system

### 1.1 bang

`bang` loads a build script and writes a Ninja file. It is one sequential
process. What makes it worth a specification is that the script may make its
calls in any order, that the calls check and update tables other calls look at,
and that when the script is over bang goes on and makes calls of its own.

| Part | State | Operations |
|---|---|---|
| `bang/ninja.lua` | the list `tokens`; the tables `vars`, `rules`, `pools`, `builds`, `default_build_statements`; the flags of the generator; `builddir_token`, `ninja_required_version_token` | `var`, `vars % s`, `rule`, `build`, `phony`, `pool`, `default`, `generator`, `ninja_required_version`, then `generator_rule` and `generate_default` |
| `bang/atexit.lua` | the functions to call when the script is over | `atexit(f)`, `run` |
| `bang/install.lua`, `clean.lua`, `help.lua` | what the script asked to install, clean and document | one call each, and `gen`, which calls `rule`, `build`, `phony`, `help` and `var` again |
| `luax/luax-package.lua` | the files loaded so far | `require`, `dofile`, `loadfile` note them |
| `bang/C.lua`, `builders.lua`, `archivers.lua`, `luax.lua` | options of compilers, frozen at their first use | one call per kind of target |
| `bang/bang.lua`, `file.lua` | files created by the script | `file(name)`, flushed before the Ninja file is written |

Interactions: the sections call each other's functions (`clean` and `install`
call `help`, all of them call `build`), so their order matters; a function given
to `atexit` may call anything, `atexit` included; names of rules come from the
script, from inline commands, from `install` and from the generator rule.

Correct means: Ninja accepts the file; the tables say what is in the file; a
rule is never changed once builds have used it; `ninja` alone builds what the
script builds and neither installs nor cleans; the help is complete; the file
depends on everything bang read; bang ends, and only fails for a reason the
script is responsible for; `vars % s` is what Ninja would make of `s`.

### 1.2 ypp

`ypp` expands input files, runs the functions given to `atexit`, writes the
dependency file, calls the deferred functions, and writes the outputs. It is
sequential too, but macros call back into the program (`include`, `ypp`,
`defer`, `file`, `atexit`) in the middle of an expansion.

| Part | State | Operations |
|---|---|---|
| `ypp/ypp.lua`, `parser.lua` | the stack of local configurations `lconf`, the stack `input_files`, `known_input_files`, `output_contents` | `process_file`, `ypp(s)`, `ypp.macro`, `ypp.read_file`, `write_dep_file`, `write_outputs` |
| `ypp/include.lua` | (that of ypp) | `include(file)` |
| `ypp/defer.lua` | tag \|-> function | `defer(f)`, `replace` |
| `ypp/atexit.lua` | functions to call | `atexit(f)`, `run` |
| `ypp/file.lua` | files to save at the end | `file(name)`, `f(s)`, `flush` |
| `ypp/image.lua` | image and meta files, *shared with other processes and other runs* | one macro per rendering program |

Correct means: the output is the expansion of the text in order; configurations
are restored; functions are all called, in order; tags are replaced; the
dependency file is complete; a run that fails saves nothing, or only what it can
no longer take back; an image is the one of the current source.

### 1.3 fs

| Part | State | Operations |
|---|---|---|
| `luax/fs.c` | the file system, *shared with other processes* | `mkdirs`, which is recursive; the others are one system call each |
| `luax/fs.lua` | a stack of directories, the devices and inodes already seen, the lists that are returned | `walk`, and `rmdir`, which removes what `walk` lists; `with_tmpdir` |

`fs.mkdirs` is called by ypp, by bang and by most scripts, often by processes
that a parallel build starts together. `walk` follows symbolic links, which may
lead nowhere, outside, to another device, or back to a directory they are in.

Correct means: a process that makes a path finds it made; a walk ends, finds
everything that is there all the time, and lists a directory once; `rmdir`
removes the directory, all its content, and nothing else.

### 1.4 The REPL, readline and linenoise

| Part | State | Operations |
|---|---|---|
| `luax/luax.lua` (550-600) | a line | loads the history, then reads, adds and saves for ever |
| `luax/readline-luax.c`, `linenoise-luax.c` | `dirty_history`, the library that is found | `load`, `save`, `add`, `set_len`, `read` |
| linenoise: history | `history`, `history_len`, `history_max_len`, `history_index`; the history file, *shared with other processes* | add, load, save, previous and next |
| linenoise: editor | `buf`, `pos`, `len`, `buflen`, the folds | one operation per key, and pastes |

The edited line *is* the last entry of the history while it is edited, and is
stored in the entry it has been recalled from when another one is recalled.
Several programs share one history file and each of them overwrites it. A paste
comes byte by byte between two escape sequences; when it is long or has several
lines, it is inserted in the line but shown as a *fold*, a short text that
stands for it. Positions, folds and memory have to stay consistent through any
sequence of keys, since the code copies memory between them.

Correct means: indexes in the history are in it; the history file is what the
last program has saved, and what has been entered is saved; recalling lines
does not change them; the line editor is a text with a cursor, whose folds hide
the text that has been pasted and nothing else; a paste is the text that was
sent; the cursor stops at the same places in both directions.

### 1.5 The rest of LuaX

The other modules are pure functions (`F.lua`, serializations, hashes), input and
output, or third-party code; `PROJECT.json` lists them all as components with the
reason they are left out.

## 2. The modules

| Module | Models | |
|---|---|---|
| `Names` | names and `unique_rule_name` | a name is a word and the numbers appended to it |
| `NinjaSyntax` | statements of a Ninja file | what a sequence of statements defines; `Legal(f, s)` |
| `NinjaFile` | *abstract specification* | a file that grows by legal statements until it is closed, or fails |
| `Bang` | `bang/ninja.lua`, `atexit`, `clean`, `install`, `help`, `track` | implements `NinjaFile` |
| `BangVars` | `var`, `vars % s`, builddir and `-b`, `ninja_required_version` | compared with Ninja's own evaluation |
| `Ypp` | a run of ypp | |
| `YppExpansion` | *specification* | what the input files expand to, as a function of their texts; `Ypp` is compared with it |
| `YppImage` | `render_image`, by several processes and successive runs | |
| `FsMkdirs` | `mkdirs` of `luax/fs.c`, by several processes | |
| `FsWalk` | `walk` and `rmdir` of `luax/fs.lua`, while other processes make and delete files | |
| `Graphemes` | grapheme clusters of linenoise, forwards and backwards | |
| `LineFolds` | folds, and the line that is shown | |
| `TextLine` | *abstract specification* | a text with a cursor |
| `LineEdit` | the keys and pastes of linenoise | implements `TextLine` |
| `ReplHistory` | REPL, readline, linenoise and the history file, by several processes | |
| `MC...` | the instances TLC checks | |
| `BangProofs`, `BangVarsProofs`, `YppProofs`, `FsMkdirsProofs`, `FsWalkProofs`, `ReplHistoryProofs`, `LineEditProofs` | theorems on the module of that name | `BangProofs` also on `Names`, `YppProofs` on `YppExpansion` and `YppImage`, `LineEditProofs` on `Graphemes` |
| `InductionLemmas` | induction and recursion on numbers, concatenation of sequences | used wherever a recursive function is |

The definitions whose names contain `_` and follow a comment that starts with
*Mutation* are wrong on purpose: each one is a plausible bug in the definition
that follows it, and shows that a property can be violated. No specification
uses them.

### 2.1 Bang

A call of the script is a record. `todo` is the list of calls to execute: a
call of the script is a list of one, and a Lua function that calls others
(`build` with an inline command, `phony`, `install:gen`...) replaces its call
with the calls it makes. So `InlineBuild` stands for lines 318-336 of
`ninja.lua` and the recursive calls are the actions `Rule` and `Build`
themselves, with their checks. Errors (`log.error`, which exits) are the action
`Error`: nothing else happens in that step. In `build` the checks for duplicate
outputs come after the statement is emitted, but the process exits and the
tokens are never written, so that a failed call changes nothing.

The phases follow the main function (`ninja.lua:544-567`): script, atexit,
install, clean, mrproper, help, generator, default, done. `calls` counts the
calls of the script; `MaxCalls` bounds it.

Data are abstracted. A command, a description or a path is nothing but the name
it needs to have. Implicit inputs are sets; the order of inputs is not kept.
`ident`, which maps a path to an identifier, is given as constants
(`Ident`, `CleanTarget`, ...) so that an instance can make two paths collide.
`install_targets` is a set because `gen` sorts and groups it. `Recursive` are the file
names that `vars %` cannot expand, because of a variable defined by itself:
`install:gen` expands the names of the files for its comment (`install.lua:90`), and
fails on these (`InstallRefused`) after the builds of the previous directories.

### 2.2 BangVars

A string is a sequence of words and references `$name`. `Expand` is the loop of
`expand` with its number of iterations: `Rounds(s)` are its successive strings,
and the answer is the first one `gsub` does not change. `NinjaEnv` is Ninja's
side: definitions are evaluated once, in the order of the file (`Read`). `Reachable(s)`,
the variables a string needs, is the least set that has those it refers to and those
the values of its variables refer to. `AtLeast` is the order of versions: the first
number that differs decides. `$$` and `${name}` are not modelled.

### 2.3 Ypp

A document is a sequence of items, and an expression is evaluated when it starts
with the current macro character (`Active`); otherwise the text is left as it is
(`Text`). `stack` is the Lua call stack: what remains of the documents, of the
strings given to `ypp` and of the functions being evaluated. Every callback is
then an action, taken where the parser would make the call. The grammar of
expressions (`parser.lua:72-220`) is reduced to that first character.

`pairs` has no order, so `defer.replace` picks any tag next; once a deferred
function has made a new tag, the table changes under `pairs`, which Lua leaves
undefined: any tag may then be visited again, or missed. `Returns[fn]` is what a
deferred function gives to `gsub` (`defer.lua:64`): its text; `nothing` (nil, which
`mapt` drops, or false), and the tag stays in the output; or a value that `gsub`
rejects with an error (`true`, a table).

An error ends the run where it comes, and what has been written stays: `WriteDepFile`
comes before the deferred functions, `WriteMain` after them, then the file objects one
by one. `flush` concatenates what the object was given (`file.lua:62`), and fails on a
boolean (`PutBoolean`, `Concatenable`). A string given to `ypp` needs a local configuration
only if there is something in it to parse (`Preprocess`).

`YppExpansion` says what the output has to be without a stack: the expansion of an
item is a function of the `Stage` before it (what has been produced, the macro
character, the value of the counter of the script), the one of a document follows its
items, and the one of an item that names a file uses the expansions of the files one level below
(`Inside`). It says nothing (`status = "unknown"`) of documents more than `MaxDepth`
levels deep in each other, of those that register functions with `atexit` or write to
other files than the main output, which are the subject of the other properties, and of
deferred functions that do more than produce text and show the counter.

### 2.4 YppImage and FsMkdirs

Every access to the file system is a step: other processes run between
`fs.read(meta)` and the test of the image, between the truncation of the meta
file and its content, between the meta file and the image, between the opening
of the image and the end of the external program. Most programs are given the name of the
image, and open it when they have accepted their input. The command of plantuml
(`image.lua:274`) redirects the output to the image: the shell opens it first, and a
program that fails leaves it incomplete. `Early` are the sources rendered by such a command,
`Broken` those their program rejects. `Kill` ends a process anywhere; `killed` remembers the
images whose process was killed between the meta file and the end of the image.
`Document[p]` is the set of the sources the documents of process `p` have.
In `FsMkdirs` the recursion of `mkdirs` is the stack `calls[p]`, with a step for
`stat`, one for the return of the recursive call, one for `mkdir`.

### 2.5 FsWalk

A file system is a parent, a target for the links and a device for each node. A
node has one name, so a path is the sequence of the nodes whose names it is
made of; `stat(path)` follows the links on the way and the last one. The walked
directory is given by its name in the current directory. A
directory of the walk is taken from the stack (`Inode`), listed (`ListDir`),
then each name is looked at, in the order of `table.sort` (`Stat`, on the name of the
least `Rank`): other processes act between these steps.
`already_seen` and `first_seen` are the two outcomes of one local function,
whose first branch records the device under the stat record of the directory
and not its inode; that is kept, and `WalkedOnce` says what it costs. `rmdir` is
the walk with the option `reverse`, then one step per removal.

### 2.6 Graphemes, LineFolds and LineEdit

A line is a sequence of code points, where the code has bytes: the loops that
look for the first byte of a code point are left out, and UTF-8 is assumed to be
valid, as the comments of linenoise do. A class of code points is one constant
(`Extending`, `Joiner`, `Regional`); everything else is a letter. The two
directions of cluster search are two functions, since they are two loops in the
code; they are not mirrors of each other.

An action of `LineEdit` is a key, or a character of a paste. The choice of the
action is the switch of `linenoiseEditFeed`. Recursive functions stand for the
loops (`Grown`, `DeletePrevWord`). `buflen` is kept, because what a paste may
append, and where a recalled line is cut, depends on it. A line recalled from the
history is any line of `Recalled`; which one, and what happens to the history,
is in `ReplHistory`: the two modules cut linenoise at `linenoiseEditHistoryNext`,
and `ReplHistory` lets a user make any line (`Edit`), which is more than
`LineEdit` allows.

### 2.7 ReplHistory

`pc[s]` is the next call of a REPL; a script (`Script`) makes any call at any
time. A save of linenoise is two steps, `OpenFile` (fopen truncates) and
`WriteFile` (the entries go to the file when it is closed): another process may
load or save between them, and a process killed there leaves some of the entries
(`Kill`). A save of libreadline, which is not in this repository, is one step.
`Overwrite` is what happens when two programs write one file, each from its start.

The edited line is in a buffer of `buflen` characters, `InitialBuflen` at first, which
doubles (`Grow`) up to `MaxLine`. The user can make no longer line (`Edit`), but the
history may have longer entries, from the file or a script: such an entry is cut at the
current size of the buffer when it is recalled (`Recall`), and the next up or down stores
what is left in its place.

## 3. The runs

All pass unless marked *violation*. Times are those of two TLC workers.

**BangScripts** (178,000 states, 15 s). Scripts of up to 3 calls among 41: rules
valid or not, named `a`, `a-1` or `cp`, with inherited inputs or not; builds with
one output, two outputs, twice the same output, an unknown rule; inline commands
whose rule name is already taken; pools; every section; the names bang uses
(rules `install`, `install-1`, `bang`, target `install`, variable `prefix`),
directories that collide through `ident` (`u` and `w`), a file that cannot be expanded,
files that are loaded, and
functions for `atexit` that call `atexit`, `clean`, `require` or `build`. Together:
the tables say what is in the file (`TablesMatchFile`, `InheritedInputs`,
`RulesFrozen`) and `ImplementsNinjaFile`, the refinement of the abstract
specification; the default targets exclude the sections
(`DefaultExcludesSections`) and include the rest (`DefaultIncludesScript`), the
help lists the sections (`HelpDocumentsSections`), the generator rule depends on
all the files loaded, however late (`GeneratorTracksInputs`), the sections fail
only when the script took one of their names or installs a file that cannot be expanded
(`GenerationFailsOnlyOnNames`), and bang ends (`Termination`). Three calls let a section, something that collides
with it and something that is built interact, or a rule, a build that inherits and
one that conflicts with it; the proofs cover any number of calls.

**BangVars** (about 327,000 states, 16 s). Two variables and builddir, each
possibly defined from the others, directly or in a cycle, in any order, with or
without `-b`; expansion and versions at any time. `ExpandAgreesWithNinja`,
`FailsOnlyOnRecursion`, `VersionIsEnough`. Two variables and builddir make the
longest chain the iteration bound has to allow (3 replacements and one to see
that nothing changes); versions differ in each position and in length.

**YppRuns** (181,000 states, 24 s). Two input files; the first one is every
sequence of three items among 13 (expansion: text, macros in either of two
characters, changes of the macro character, include of a file or of one that does not exist,
`ypp`, defer, error) or among 19 (end of the run: `atexit` of functions that
register functions, `defer` of functions that show a value, read a file, fail, return
nothing or a table, or call `ypp`, `file`, and what is put in it). `OutputIsExpansion` compares the output, or the failure, with
`Expansion` (`YppExpansion`), which is known for all the documents of the first kind:
they are at most three levels deep (`MaxDepth`); `AtexitOrder` (the functions are called, in order),
`DepFileComplete`, `TagsReplaced` (only the tags of functions that return nothing are
left), `FailuresLeave` (what a failed run leaves: nothing before the deferred functions, the dependency
file after, the outputs when a file cannot be saved), `Termination`. An
included file includes a string that changes the macro character: with three items
before, the configurations of three levels interact. A deferred function may do
what the end of the run has already done (register a function with `atexit`, read or
create a file): the premises of `AtexitOrder` and `DepFileComplete` leave out
exactly the runs where one does (`DeferredCalls`).

**YppImages** (524,000 states, 60 s). Two processes, killed anywhere, four runs. Images are
named by the hash of their source. Two sources are accepted by no program, with a command
that opens the image early (`plantuml`) and with one that does not (`broken`); a third
one is rendered by a command that opens it early. The first
process also has an image with a fixed name, whose source is edited between runs.
`ReturnedImageIsCurrent`, `SharedImagesComplete`, `EveryRunEnds`. The first two say what
the image is in the end: the one of the source, or the incomplete one that the failed command of
`plantuml` has left, which is what the next run finds and returns (`Shown`). Four runs let
each process fail or be killed with an image and meet it again, while the other
one renders it or has just done so; a run only depends on the files and
on those that run with it.

**FsMkdirs** (about 11,000 states). Three processes make `a/b/c`, and a fourth one
`e/f`, where `e` is a file: `SamePathIsMade`, `EveryCallReturns`. Three directories are missing, so that
processes may meet at each level. `SamePathIsMade` says what the race leaves true
(see FsMkdirsRace): processes that want the same path, have no file in their way and share
no missing parent with those that want another one (`Independent`), get it, whatever
happens to the others.

**FsWalk** (457,000 states, 85 s). 1,280 file systems of ten nodes: five
directories at three levels, one of which may be outside, and may be on another
device (a mount point when it is inside), three files, and two links whose targets are any directory (the root, the directory
the link is in, one outside...), a file, or nothing; one file is made and one is
deleted at any time, the third one is outside. `WalkIsComplete`, `WalkedOnce`, `WalkEnds`, and
`PlainRmdirIsExact`: `rmdir` removes the directory and nothing else when its links
only lead to files that stay and it is all on one device. Two links are what a cycle of two directories and a
directory with two paths need.

**LineEdit** (7.9 million states, 2 min 30 s). Any sequence of keys, pastes and recalled
lines, in a line of at most four characters: a letter, a space, a combining mark, the joiner, a
regional indicator, line feeds. `PositionsAreSafe`, `RenderShowsLine`,
`CursorStaysOutOfFolds`, `WalksAgree`, `NewlinesStayFolded`, `PasteIsTheText` and
`ImplementsTextLine`. Four characters let the line hold two folds (the maximum is
lowered to 2 from 16) or a fold and a cluster that goes across its end, or a flag whose
halves are separated by marks; memory starts at 3
characters, so that it has to grow once; pastes of up to four characters are longer
than what the line has left; one recalled line is longer than the limit. The
sequence that ends a paste is shortened to two characters, the second of which is a
space, so that a paste contains any part of it.

**ReplHistory** (868,000 states, 1 min 45 s). A REPL and a script share a file; a
user types and goes through the history in the REPL, both are killed at any time,
in a save included. The REPL uses libreadline or linenoise, as `readline-luax.c`
finds one or not. Histories of two entries, which the script cuts to one
(`set_len`): the shortest lengths where navigation has a direction, and where
adding the edited line pushes an entry out. Four lines: empty, one
letter, two letters, for which the buffer has to grow, and one with a line break, which is
changed when it is written to the file, and is longer than any line: only the script
adds it, and it is cut after one or two letters, depending on what was typed before.
`HistoryIndexSafe`, `NavigationKeepsEntries`, `FileIsLastSave`, `EnteredIsSaved`.
Only the user of the REPL types (`Typing`): a script that reads lines does the same
calls in the same process state, and its saves already meet those of the REPL.

**BangInstallRule, YppImageStale, FsMkdirsRace, FsRmdirLinks** (*violation*): see
section 5.

Deadlock is checked where a program has an end state (`Exited` stutters). The
runs of YppImage, FsMkdirs, FsWalk and LineEdit set `CHECK_DEADLOCK FALSE` because
what they model stops: all calls have returned, `MaxRuns` is reached, the line is
ended.

### Fairness

bang and ypp are sequential processes: nothing they wait for depends on anybody
else, so weak fairness of `Next` says that the operating system runs them.
In `YppImage` and `FsMkdirs` each process has weak fairness of its own
steps, `Render(p)` and `Step(p)`: processes are scheduled, system calls return and external
programs end. `Start` and `Kill` have no fairness: nobody has to run ypp again.
A process that is killed is not expected to do more than to be gone. `FsWalk`
has weak fairness of the steps of the walk, and none for the other processes.
In `ReplHistory` a REPL has weak fairness of what it does by itself between two
lines (`Step(s)`): load, add, save. Users and scripts have none; nobody has to
end a line. `LineEdit` is only driven by keys and states no liveness.

`Termination` of bang and of ypp assumes that the functions of `atexit` do not
register each other for ever and that files do not include each other in a loop:
the instances have no such function and no such file, and the code would not end
either.

## 4. The proofs

Each theorem holds for every value of the constants that satisfies the assumptions
of the module: any script, any documents, any number of processes, directories,
images, lines, characters and folds, any limit. The bounds (`MaxCalls`,
`MaxVisits`, `MaxDepth`, `MaxRuns`, `MaxSent`) are constants too.

| Theorem | Statement |
|---|---|
| `BangProofs!UniqueRuleName` | `unique_rule_name(name, used)` is a name and is not in `used`, for any finite `used` |
| `BangProofs!TypeCorrect` | `Spec => []TypeOK` |
| `BangProofs!TablesAreExact` | `Spec => []TablesMatchFile` |
| `BangProofs!InputsAreInherited` | `Spec => []InheritedInputs` |
| `BangProofs!RulesAreFrozen` | `Spec => RulesFrozen` |
| `BangProofs!BangImplementsNinjaFile` | `Spec => ImplementsNinjaFile` |
| `BangProofs!GenerationFailsOnNames` | `Spec => []GenerationFailsOnlyOnNames` |
| `BangProofs!HelpIsComplete` | `Spec => []HelpDocumentsSections` |
| `BangProofs!GeneratorIsExact` | `Spec => []GeneratorTracksInputs` |
| `BangProofs!DefaultIsSafe` | `Spec => []DefaultExcludesSections` |
| `BangProofs!DefaultIsComplete` | `Spec => []DefaultIncludesScript` |
| `BangVarsProofs!RequiredVersionIsEnough` | `Spec => []VersionIsEnough` |
| `BangVarsProofs!ExpansionsAgree` | `Spec => []ExpandAgreesWithNinja` |
| `BangVarsProofs!FailuresAreRecursive` | `Spec => []FailsOnlyOnRecursion` |
| `YppProofs!TypeCorrect` | `Spec => []TypeOK` |
| `YppProofs!WhatFailuresLeave` | `Spec => []FailuresLeave` |
| `YppProofs!AtexitInOrder` | `Spec => []AtexitOrder` |
| `YppProofs!DependenciesListed` | `Spec => []DepFileComplete` |
| `YppProofs!TagsAreReplaced` | `Spec => []TagsReplaced` |
| `YppProofs!OutputIsTheExpansion` | `Spec => []OutputIsExpansion` |
| `YppProofs!ConfigurationsRestored` | `Spec => []ConfigurationsMatch` |
| `YppProofs!HashImagesComplete` | `ImageSpec => []SharedImagesComplete` |
| `YppProofs!ImagesAreCurrent` | `OwnImages` implies `ImageSpec => []ReturnedImageIsCurrent` |
| `FsMkdirsProofs!TypeCorrect` | `Spec => []TypeOK` |
| `FsMkdirsProofs!SamePathGetsMade` | `Spec => []SamePathIsMade` |
| `FsWalkProofs!TypeCorrect` | `Spec => []TypeOK` |
| `FsWalkProofs!WalkListsOnce` | `Spec => []WalkedOnce` |
| `FsWalkProofs!WalkFindsAll` | `Spec => []WalkIsComplete` |
| `FsWalkProofs!PlainRmdir` | `Spec => []PlainRmdirIsExact` |
| `ReplHistoryProofs!TypeCorrect` | `Spec => []TypeOK` |
| `ReplHistoryProofs!IndexIsSafe` | `Spec => []HistoryIndexSafe` |
| `ReplHistoryProofs!SaveIsWhatFileHolds` | `Spec => []FileIsLastSave` |
| `ReplHistoryProofs!NavigationKeeps` | `Spec => NavigationKeepsEntries` |
| `LineEditProofs!TypeCorrect` | `Spec => []TypeOK` |
| `LineEditProofs!LineInMemory` | `Spec => []PositionsAreSafe` |
| `LineEditProofs!CursorOutOfFolds` | `Spec => []CursorStaysOutOfFolds` |
| `LineEditProofs!WalksAlwaysAgree` | `Spec => []WalksAgree` |
| `LineEditProofs!NewlinesAreFolded` | `Spec => NewlinesStayFolded` |
| `LineEditProofs!LineIsShown` | `Spec => []RenderShowsLine` |
| `LineEditProofs!PasteIsWhatWasSent` | `Spec => PasteIsTheText` |
| `LineEditProofs!Refinement` | `Spec => ImplementsTextLine` |

Every theorem on a specification has the same skeleton: an inductive invariant
(`IInv`, unless a section below names it), the lemma that `Init` implies
it, the lemma that a step keeps it, with one lemma or one step for each action, and
the temporal step. The conjuncts of the inductive invariants that TLC can evaluate have also
been checked on the instance of the run (some quantify over infinite sets of names or of
stages). The assumptions are the named `ASSUME`s of the modules, which TLC evaluates on
every run, and one hypothesis on `YppImage`, explained below.

### 4.1 Bang

Bang's own words are words; what
the script and the functions call are well-formed calls; the constants for `ident`
give names; an inline build has an identifier: these are the assumptions.

`UniqueRuleName` is a pigeonhole: the candidates `name`, `name-1`, ..., `name-n`
are n+1 distinct names, so that one of them is not among n names, and the loop
stops at the first. Distinctness needs that a number is *appended*: names that
differ by one number differ.

`TypeOK` is inductive. The delicate part is `todo \in Seq(Call)`: each action
that replaces a call must queue calls that are legal, which for inline commands
needs `UniqueRuleName` (the rules are finite, part of `TypeOK`), and for the
sections the assumptions on the targets of directories.

`TablesMatchFile` alone is not enough for the refinement, and `InheritedInputs`
is not inductive: a rule defined later could have the name of one that builds of
the file already use. The inductive invariant is

    IInv == TypeOK /\ TablesMatchFile /\ RulesKnown /\ InheritedInputs

where `RulesKnown` says that the rule of every build of the file is in the table
`rules`. Rather than go through every action for each conjunct, the proof first
classifies steps (`EveryStep`): a step is *Quiet* (file and tables unchanged), a
*refusal* (the process fails), the end, or it emits one statement that is legal
and recorded in the tables. The invariant, `RulesFrozen` and the refinement are
then each proved on these four kinds.

The sections bang adds after the script need an invariant that follows the calls it
queues until they are executed, `SInv`:

- `Queued`: a call that waits in a phase is one this phase makes, and it `Fits`: its
  rule is new when it is a rule, known when it is a build. A section can then be
  refused only for a target or a variable; the other failure, of a file that cannot be
expanded, comes when nothing waits (`GenerationFailsOnlyOnNames`).
  `install:gen` uses a fixed name and has a conjunct of its own,
  `InstallRuleKnown`: this rule is the one of the script or is about to be defined.
- `OnRequest` and `Documented`: a section that has begun was asked for, and its line of
  help was added before; `HelpBuilt`: the help that is printed is the one that has been
  collected, since no later phase adds to it.
- `GeneratorBuilt` and `DefaultBuilt` are case analyses: nothing yet, the calls in
  `todo`, which are those the sources of the file or the default targets ask for
  *when they are queued*, or the statement. They are kept because nothing changes
  `generator_deps` and `default_build_statements` meanwhile.
- `DefaultTargets`: the default targets are targets of the script, never of a section;
  `DefaultIsAll`: all of them, when the script keeps none out.

`SectionCall` plays the part of `EveryStep`: in a section a step is refused, drops a call
without effect, adds a line of help, defines a rule, builds, chooses default targets or
replaces a call by the calls it makes, and each conjunct is proved on these kinds.

### 4.2 BangVars

A function `h` from tokens to strings is a *meaning*, and `Eval(h, s)` what it makes of
a string; one `gsub` is `Eval(Subst, s)`, Ninja's evaluation `Eval(Of(env), s)`. A
meaning is a *model* of the file (`Models`) when each variable means what its definition
means. The invariant is

    IInv == TypeOK /\ DirOK /\ VarsOK /\ AnswerOK /\ FailOK /\ VersionIsEnough

- `AnswerOK`: an answer means the same as the question in every model of the file. A
  replacement does not change the meaning (`EvalEval`), and the definitions that come
  after the call only leave fewer models, so that nothing is said of when it was
  called. `ExpansionsAgree` then follows from one lemma: what Ninja has read at the end
  is a model of the file if the definitions are in order (`NinjaModels`). This is where
  `InOrder` is needed: a variable defined twice has no model in general.
- `FailOK`: when there is no answer, no iteration has left the string as it was. After
  `i` iterations a variable still to be replaced has `i` variables *above* it, which
  need it (`Chain`): going down from a variable adds it to those above, unless it
  is recursive (`Deeper`). With `nbvars + 2` iterations this is more variables than
  `VarsOK` allows.
- `VersionIsEnough` is inductive: `Greater` is the order of versions (`GreaterFacts`),
  which is transitive (`AtLeastTransitive`).

`AnswerOK` has been checked with TLC on the meanings that give each variable one of three
strings, the other conjuncts as they are.

### 4.3 Ypp

The properties speak of the end of a run, and what makes them true happens long
before; `IInv` carries it through the phases.

- `SavedOK`: no output is written before the phases `save` and `done`, and no dependency
  file before the deferred functions. In the last two phases nothing
  is evaluated any more (part of `TypeOK`), so that only a file that cannot be
  concatenated fails, and it is the next one to be saved.
- `AtexitOK`: `asked = ran \o fs \o functions`, and both lists are empty after their
  phase unless a deferred function makes a call of `atexit` or includes a file.
- `DepOK`: once written, the dependency file lists the names of the files that are
  saved *and of those that will be*.
- `TagsOK`: the tags of the output are those of deferred functions, and as long as no
  deferred function makes a tag, the results of the others have none. The main
  output is then a sequence of tokens that are no tags, or tags of functions that return
  nothing (`Left`; `FlattenFacts`: the concatenation of
  sequences over a set is a sequence over this set).
- `DeferredBody`: unless a deferred function includes a file, one function at most is
  being evaluated in the phase `replace`, and what remains of it are calls of its
  body. This is what relates the premise `DeferredCalls` to the calls that are made.
  It would be false if such a function could call `ypp`, which only fails because no
  local configuration is left, which needs the next invariant.
- `Balanced`: there is a local configuration and an input file for each document of
  the stack that is a file, and a string given to `ypp` is above a file. Cardinality is
  what counts, whatever includes what. `ConfigurationsRestored` follows.

`OutputIsTheExpansion` rests on an invariant of its own, `ExpansionOK`, added to `IInv`.
In the phase `files` it is `Progress`: from what has been produced so far (`Reached`),
leaving the documents of the stack one after the other (`Leads`), then expanding the
rest of the input files, leads to `Expansion`. `Nested` gives the stages in between and says
which local configuration is around each document, since only files have one. An
action then either replaces the first item by what it expands to (`ProgressItem`), or
enters a document (`LeadsPush`) or leaves one (`LeadsPop`), and a failure is the one the
expansion meets. In the phase `replace`, what a deferred function has said and what
remains of it make what it has to say (`ResultOK`), in whatever order they are
called. That the run fails when the expansion does, and only then, is a part of
it; a file that cannot be saved would be an exception, but as long as the expansion is
known nothing is put in a file (`NothingPut`). `MaxDepth` appears in the induction on levels only: it may be any number.

`EvaluateEffects` says once what the fourteen actions of an evaluation may change
(`Effects`), so that each conjunct is proved on that and not on each action.

### 4.4 YppImage

`Shown(s)` is what a rendering of `s` leaves in the end: `s`, or an incomplete image when
the command opens it and its program fails; the meta file is the right one, so that
the next run returns it. Both properties are about `Shown`. They say nothing of the images in
`killed`, one by one. `OwnImages`: two processes share
an image only when they render the same source, and an image with several sources is
used by one process and has none that cannot be rendered; `YppImageStale` is the
counterexample without the latter. The program does not enforce it: users
who name their images do.

The two kinds of images have two reasons to be right. An image named by its hash has
one source, so that it is missing, what `Shown` says, or being rendered *by someone* (`SharedOK`):
a process that finds the meta file of another one and returns at once is saved by
the one that is still rendering. An image with several sources belongs to one process:
it agrees with its meta file except between the two writes (`PrivateOK`). The
first theorem does not need `OwnImages`.

### 4.5 FsMkdirs

A process whose `mkdir` fails gives up, so that "each process gets its path" is not
inductive and not even true of what each of them returns. The proof follows whoever is
ahead. `SomeoneIsOnTheWay`: among the processes that want a path, there is one that
has not failed and whose remaining directories do not exist. A step can only break
that by making a directory, and the process that makes it is then the one on the way.
This needs that the stacks of two processes that want the same path agree
(`StacksAgree`), that a stack is a chain of parents without a cycle (`StackOK`), and
that a call that returned true has left something there (`CalleeOK`). `Independent`
excludes the interference `FsMkdirsRace` shows.

### 4.6 FsWalk

The model speaks of paths, and the properties of nodes. Links and directories stay
while a directory is walked, which is the first thing to prove (`PathsOK`): a path on
the stack then leads to the same directory all the time, whatever files are made and
deleted, and `stat` on it is a matter of its last name (`StatOfPath`). `TypeOK` and
`PathsOK` make `BaseInv`, and each property has its own invariant on top of it.

`CountsOK`, for `WalkedOnce`, is an accounting: the times a directory has been listed,
plus one if it is going to be, are at most one for its inode in `seen` plus one
if it marked its device instead. Only the walked directory can have marked the device
it is on.

`FoundOnly` and `FoundAll`, for `WalkIsComplete`, are the two directions of a closure.
What has been found is reachable; and an entry that lasts, of a directory that has been
reached, has been found, or its name is in `names`, or the directory is being listed, is
on the stack, or is already seen through another path that is. When the stack is
empty the directories reached are closed, hence include the least closed set.
The other half of `FromRoot`, a least set, is proved without induction: by
giving the closed set.

`PlainRmdirIsExact` needs the order of the removals. `PlainInv`: without links to
directories, each directory is found once, under the path its parents make, and
after them (`Above`, `Nested`). `RemovedInv`: what remains of the list is an end of it
(`Remaining`); the directories above what remains still exist; the files removed no
longer do, and neither do the directories if no file made meanwhile is there. The latter is a
subtle one: a file made by another process may keep its directory, and those above it,
but it cannot disappear later, so that the premise of the property, on the last state,
says enough of all the states before.

### 4.7 ReplHistory

`HistoryOK` says that the history fits in its maximum and that the edited line has its
entry; `Recalls`, needed for `NavigationKeepsEntries`, that a line that has not been
edited is what the entry it has been recalled from has given (`Recalled`: this entry, or
the beginning of one that is longer than any line), so that storing it back changes no other
entry. `GrowFacts` says that the buffer is large enough after `Grow`, unless the
entry is longer than any line, and never gets smaller.
`FileOK` is the case analysis `FileIsLastSave` hides: unless a save met another one or
was killed (`torn`), nobody is writing and the file holds the last save, or exactly one
process is, and the file is empty. What loading a file does is a fold over its lines
(`FoldLeft`), which `InductionLemmas` makes provable.

### 4.8 LineEdit and Graphemes

    IInv == /\ TypeOK /\ FoldsAt(buf, fold, pos)
            /\ Room(buf, paste, buflen) /\ Reading(paste, sent, MaxPaste)
            /\ mode # "paste" => paste = NoPaste /\ sent = <<>>

`FoldsAt`: the folds are in the line, not empty, each one before *all* the next ones
(`Ordered`; the property says it of neighbours, which is not kept when one between them
is dropped), and the cursor is not in one, except one that starts or ends in a cluster
(`OutOf`). This exception must be stated for each fold: `CursorStaysOutOfFolds` has a
premise on all of them, which an edit that removes one fold can make true.
`Room` and `Reading` relate what has been received of a paste to the memory it
will need and to what was sent. The refinement needs the two cluster walks, their
bounds and what they skip, and that the loops that delete a word
end where they should.

`WalksAgree` is proved of any text, not only of reachable ones: the boundaries met
going left are those met going right if there is no flag and every joiner follows a
character.

`NewlinesStayFolded` is proved key by key. What a key cuts, inserts or swaps lies
between positions that are out of the folds and out of the clusters (`Clear`, `Tidy`):
a line break that is left is still in its fold, which the edit has kept and shifted
with it, or still follows its joiner. A recalled line is folded around all its line
breaks (`HistoryFoldFacts`: the characters left on each side are whole clusters, and
no cluster that is left starts with a line break). A paste that is inserted gets its
own fold: `MaxPaste` is 0 when no fold is left.

`RenderShowsLine` compares two loops that do not go at the same pace: the code copies
gap after gap and marker after marker, the property shows character after character.
`Rendered` is what they agree on after `k` folds: what the code has written is
what the property shows of the text up to the end of fold `k`, and the cursor has its
place if it is not after it. Between two turns, two inductions on characters: those of a
gap are shown as they are (`GapShown`), and of a fold only the first one is, as the
marker (`FoldShown`). The cursor has its place because it is in no fold that is shown, or
because the rest of such a fold shows nothing.

### 4.9 Recursive functions

The library's induction theorems take an operator as a parameter, which the provers
cannot instantiate. `InductionLemmas` states induction with a set and recursion with a
function: a recursive function `f[n] == ... f[n-1] ...` exists on `0 .. m` and has the
values its definition says, once each step is given as a function. A second pair of
lemmas does the same along a rank, for functions that do not go down by one
(`DeletePrevWord`, the cluster walks). `Flattened` says what the `FlattenSeq` of the
community modules computes: the concatenation of the first sequences, one more at
each step. It is what the proofs of `Ypp` (the output) and `BangVars` (a replacement) know
of it.

### 4.10 What the proofs changed

These properties passed TLC and were false in general: the instances were too small,
and the attempts to prove them showed it.

- `CursorStaysOutOfFolds` did not hold in a text where marks separate the two halves
  of a flag and a fold ends between them: its premise only looked at clusters going
  right. The premise is now `Inside`, and the instance has regional indicators
  among the typed characters.
- `AtexitOrder` and `DepFileComplete` did not hold when a deferred function calls
  `atexit`, reads or creates a file: no deferred function of the instance did. They
  now have premises, and the instance has a deferred function that reads. What is lost
  in those cases is noted in section 5.
- `SamePathIsMade` now says with `Independent` what was true of the instance only: the
  other processes do not make a missing parent of the path, and no file is in the way.
- `NewlinesStayFolded` was false when a joiner starts the line or follows another one,
  or when the cursor is between a joiner and a line break: the joiner alone is then
  deleted, and the line break that it hid is displayed. The instance did not have the
  lines it takes; it recalls one now (a joiner, then a line break), and the premise
  excludes them. A line break must not be an extending character either, which is now
  assumed of the constants.
- `PlainRmdirIsExact` was false when a directory below is a mount point (`walk` does not
  enter it and `rmdir` leaves it), when a link leads to a file another process makes
  (the link dangles when it is looked at and is left), and when a file may be both made and
  deleted by others (what was there at the end says nothing of what was before). The
  instance had no mount point inside and no such link; it has mount points now, and
  `PlainTree` excludes the three cases.
- `FailsOnlyOnRecursion` could not be proved as it was: a call that failed was told from
  one whose answer is an empty string by an empty builddir, and a builddir may be
  empty. A call that fails now has no answer at all.
- `OutputIsExpansion` only spoke of runs that succeed, and of a recursive operator of the instance
  that had no value for documents that include each other for ever. It now says when a
  run fails, and holds for any documents.
- `VersionIsEnough` compared versions by a number that only makes sense when each part is
  below 100. It now compares them part by part.

### 4.11 What is only model-checked

- Liveness (`Termination`, `EveryRunEnds`, `EveryCallReturns`, `WalkEnds`,
  `EnteredIsSaved`): the provers do not handle fairness here.

Every other property of the runs that pass is the statement of a theorem.

## 5. Where the code does something else than it says

Each of these has a run TLC ends with a counterexample.

- **BangInstallRule**. `install:gen` defines its rule under a unique name but its
  builds use the name `install` (`bang/install.lua:69,94`): a script with a rule of
  that name has its files "installed" by its own rule.
- **YppImageStale**. The meta file is written before the image is rendered
  (`ypp/image.lua:248-250`): after a failure the next run finds the new meta file
  and the old image, and returns that one.
- **FsMkdirsRace**. When two processes make the same parent, the loser's `mkdir`
  fails with EEXIST and the rest of its path is not made (`luax/fs.c:581-587`).
- **FsRmdirLinks**. `rmdir` "deletes the directory `path` and its content"
  (`luax/fs.lua:414`) but removes what `walk` lists, through symbolic links: files of
  a directory outside are deleted. Dangling links are not listed, so that they, and
  the directories they are in, are left. When a link `r/l` leads to `r/a/b`, the
  content of `b` may be listed below `r/l` and the names of `b` in an order where a
  directory is removed before what it contains: it is left, too.

The following were noticed while reading and have no run of their own.
The dependency file is written before the deferred functions are called
(`ypp/ypp.lua:463-464`): a file one of them reads or creates is missing. `readline.add`
keeps a line equal to the new one when it is the oldest of those it searches
(`luax/readline-luax.c:239`), where its comment says that only the last one is kept;
and with linenoise empty lines are added, where its documentation says they are
ignored. `load` clears `dirty_history`, so that lines added before it are not saved
(`luax/readline-luax.c:303`). A line recalled from the history that is
longer than the limit is cut at the current size of the memory, so that what is
shown depends on what was typed before (`linenoise.c:1598`), and the next up or down stores
the cut line in the history: its end is lost (`linenoise.c:1584`). Going left, regional
indicators are paired from the end of the line, and from its start when going
right: the cursor may stop in the middle of a flag. `phony` drops
`implicit_in`, though the manual says it is the same as `build` with the rule phony
(`bang/doc/README.md:263-270`). When the script builds nothing, there is no default
statement at all, and `ninja` alone runs the sections (`bang/doc/README.md:259-261`;
`DefaultExcludesSections` says so in its premise). `var` checks the name before it returns its
function, so that two functions obtained first both define the variable.
`var "a" "$a"` is not reported as recursive (`gsub` leaves `$a` as it is). A
function given to `atexit` by a deferred function is never called
(`ypp/atexit.lua:27`); a tag made by a deferred function, or written to a file
made with `file`, is not replaced (`ypp/defer.lua:29`), and neither is the tag of a
function that returns nil or false, for instance one that is deferred for its effects.
"Files are only saved once ypp succeed" (`ypp/file.lua`), but the dependency file is written
before the deferred functions, which may fail, and a file object that was given a
boolean fails after the main output and the files before it are saved
(`ypp/file.lua:62`). When plantuml rejects a diagram, the image its command has opened
remains beside a meta file that matches (`ypp/image.lua:274`): the next run returns this incomplete
image without an error. `mkdirs` returns true for a path
that is a regular file. A ypp killed after the meta file may leave an old or partial image
with a good meta file: the properties of `YppImage` leave these images out (`killed`).

## 6. Not modelled

In `Bang`: `build.files`, implicit outputs, order-only dependencies and
validations, comments, the text of commands. In `Ypp`: the options of the command line except `-m` and the inputs,
errors of the parser, names of files that are not strings (`file(name)`), `flex`, `convert`, `script`, `when`, `q`, failures of
`fs.write`. In `YppImage`: how paths are chosen. In `FsMkdirs`: removal of
directories by others, permissions, Windows. In `FsWalk`: the options `func` and
`stat`, several names of one file, directories and links made
or removed by others. In `LineEdit`: completion, hints and masks (LuaX sets none
of them), the bytes of UTF-8, inputs that are not terminals, the output to
the terminal (`refreshMultiLine`, `linenoise.c:1312-1418`: `RenderShowsLine` stops at
the text and the place it is given). In `ReplHistory`: failures of the file
system, `readline.name`. No model of the language Lua: a
callback does what its list of calls says.

Not modelled at all: the components `PROJECT.json` lists as such, with their
reasons; mostly pure functions, encodings and third-party code. Most of the C code of the
repository is of that kind: the Lua interpreter itself, lz4, lzip, imath, lpeg,
luasocket. The programs of LuaX are written in Lua, and the C code that is
specific to it (`luax/*.c`, about 5,000 lines) is bindings, hashes and codecs, except
`mkdirs`, the history and the line editor, which are modelled.

## 7. Plan

Done, in this order: `Names`, `NinjaFile`, `Bang` (the core) with its proofs;
`Ypp`; `YppImage`; `FsMkdirs`; `BangVars`; `FsWalk`; `Graphemes`, `LineFolds`,
`LineEdit` with `TextLine`; `ReplHistory`.

Next, to model:

1. `refreshMultiLine`, with a terminal of a few columns: the rows that are cleared
   are those the previous line used.
2. Files created by a build script (`bang.lua`, `file.lua`), then compilers and
   builders, whose options are frozen at the first use.
3. In `Ypp`, failures of the file system; in `YppImage`, the choice of paths.

What remains to prove is out of the provers' reach (4.11), except a wider `Expansion`:
the functions given to `atexit`, and what is written to other files, could be given a
meaning there too.
