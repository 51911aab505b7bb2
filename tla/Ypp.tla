-------------------------------- MODULE Ypp ---------------------------------
(***************************************************************************)
(* A run of ypp, the preprocessor (ypp/ypp.lua and the modules include,    *)
(* defer, atexit and file).                                                *)
(*                                                                         *)
(* The input files are expanded one after the other.  A file is a sequence *)
(* of items: text, and Lua expressions that start with a macro character   *)
(* and are evaluated when this character is the current one.  When the     *)
(* whole output is computed, the functions given to atexit are run, the    *)
(* dependency file is written, the functions given to defer are run and    *)
(* their results replace their tags, then the output and the files created *)
(* with file are saved.                                                    *)
(*                                                                         *)
(* `stack` holds what remains to be done of the documents and functions    *)
(* being evaluated, the innermost one last.                                *)
(***************************************************************************)
EXTENDS Naturals, Sequences, SequencesExt

CONSTANTS
  File,             \* files that exist
  Missing,          \* names of files that do not exist
  Fn,               \* functions given to atexit and to defer
  Output,           \* names of files created with file
  Char,             \* macro characters
  MainChar,         \* the macro character of the command line (-m)
  Library,          \* the contents the files may have: file |-> its items
  Body,             \* Body[fn]: the calls function fn makes
  Returns,          \* Returns[fn]: what fn returns
  Input,            \* the input files of the command line, in order
  MaxVisits         \* bound: calls of deferred functions

VARIABLES
  content,          \* what the files contain: a member of Library
  phase,            \* what the main program is doing
  failed,           \* the process has exited with an error
  index,            \* how many input files have been expanded
  stack,            \* documents and functions being evaluated
  lconf,            \* stack of local configurations: macro characters
  input_files,      \* stack of input files
  count,            \* a global variable of the script
  output_contents,  \* what the input files have been expanded to
  known_input_files,
  deferred_functions,           \* tag |-> function
  visited,          \* tags whose functions replace has called, in order
  results,          \* tag |-> the text its function computes
  ntags,            \* how many tags there were when replace started
  functions,        \* functions given to atexit, not yet picked up by run
  fs,               \* functions run is calling
  asked,            \* history: all the functions given to atexit, in order
  ran,              \* history: the functions run has called, in order
  files,            \* files created with file: name and content
  dep,              \* the dependency file: the inputs and outputs it lists
  main,             \* the output file
  saved             \* the files saved so far, by name

EvalState   == <<stack, lconf, input_files, count>>
OutState    == <<output_contents, known_input_files>>
DeferState  == <<deferred_functions, visited, results, ntags>>
AtexitState == <<functions, fs, asked, ran>>
DiskState   == <<dep, main, saved>>

vars == <<content, phase, failed, index, EvalState, OutState, DeferState, AtexitState,
          files, DiskState>>

Phase == {"files", "atexit", "dep", "replace", "save", "done"}

Absent == [kind |-> "absent"]

-----------------------------------------------------------------------------
(* Items of documents and calls of functions; tokens they expand to. *)

NoChar == "none"    \* the calls of a function are plain Lua

Mark == Char \cup {NoChar}

Item ==
       [op : {"text"}]
  \cup [op : {"count", "show", "error"}, char : Mark]
  \cup [op : {"include", "read"}, char : Mark, file : File \cup Missing]
  \cup [op : {"ypp"}, char : Mark, file : File]
  \cup [op : {"macro"}, char : Mark, new : Char]
  \cup [op : {"defer", "atexit"}, char : Mark, fn : Fn]
  \cup [op : {"file", "put", "putbool"}, char : Mark, name : Output]
  \cup [op : {"putdefer"}, char : Mark, name : Output, fn : Fn]

\* A function given to defer returns its text (or a number), or nothing (nil or
\* false), or a value that cannot be a text (true, a table).
Returned == {"text", "nothing", "other"}

ASSUME ItemAssumption ==
  /\ Library \subseteq [File -> Seq(Item)] /\ Body \in [Fn -> Seq(Item)]
  /\ Returns \in [Fn -> Returned]
  /\ \A fn \in Fn : \A i \in DOMAIN Body[fn] :
       Body[fn][i].op # "text" => Body[fn][i].char = NoChar
  /\ File \cap Missing = {} /\ Input \in Seq(File \cup Missing)
  /\ MainChar \in Char /\ NoChar \notin Char /\ MaxVisits \in Nat

\* Text, an expression left as it is, the value of count, a tag, or a boolean
\* given to a file object.
Token ==
       [kind : {"text"}]
  \cup [kind : {"raw"}, item : Item]
  \cup [kind : {"value"}, n : Nat]
  \cup [kind : {"tag"}, id : Nat \ {0}]
  \cup [kind : {"boolean"}]

text    == [kind |-> "text"]
raw(it) == [kind |-> "raw", item |-> it]
value(n) == [kind |-> "value", n |-> n]
tag(id) == [kind |-> "tag", id |-> id]
boolean == [kind |-> "boolean"]

\* A file, a string given to ypp or a function: what remains of it.
Frame(kind, items) == [kind |-> kind, items |-> items]

-----------------------------------------------------------------------------
(* Evaluation. *)

Running == ~failed /\ stack # <<>>

top == Last(stack)

next_item == Head(top.items)

\* The rest of the innermost document or function.
Advanced == Front(stack) \o <<[top EXCEPT !.items = Tail(top.items)]>>

\* Mutation: the local configuration is ignored.
Active_NoLocal(it) ==
  it.op # "text" /\ it.char = IF top.kind = "fun" THEN NoChar ELSE MainChar

\* An expression of a document is evaluated when it starts with the current
\* macro character; the calls of a function always are.
Active(it) ==
  it.op # "text" /\ it.char = IF top.kind = "fun" THEN NoChar ELSE Last(lconf)

Evaluating(op) ==
  /\ Running /\ top.items # <<>>
  /\ next_item.op = op /\ Active(next_item)

\* The value of the item goes to the output, to the result of the deferred
\* function being called, or nowhere (functions called by atexit).
Yield(toks) ==
  CASE phase = "files" -> /\ output_contents' = output_contents \o toks
                          /\ UNCHANGED results
    [] phase = "atexit" -> UNCHANGED <<output_contents, results>>
    [] phase = "replace" ->
         LET id == Last(visited) IN
         /\ results' = [results EXCEPT ![id] = @ \o toks]
         /\ UNCHANGED output_contents

\* ypp.error, or a Lua error nobody catches: the process exits.
Fail ==
  /\ failed' = TRUE
  /\ UNCHANGED <<phase, index, EvalState, OutState, DeferState, AtexitState,
                 files, DiskState>>

\* Text, or an expression that does not start with the macro character.
Text ==
  /\ Running /\ top.items # <<>> /\ ~Active(next_item)
  /\ stack' = Advanced
  /\ Yield(<<IF next_item.op = "text" THEN text ELSE raw(next_item)>>)
  /\ UNCHANGED <<phase, failed, index, lconf, input_files, count,
                 known_input_files, deferred_functions, visited, ntags,
                 AtexitState, files, DiskState>>

\* @@(count = count+1) and @count: state of the script.
Count ==
  /\ Evaluating("count")
  /\ stack' = Advanced
  /\ count' = count + 1
  /\ UNCHANGED <<phase, failed, index, lconf, input_files, OutState,
                 DeferState, AtexitState, files, DiskState>>

Show ==
  /\ Evaluating("show")
  /\ stack' = Advanced
  /\ Yield(<<value(count)>>)
  /\ UNCHANGED <<phase, failed, index, lconf, input_files, count,
                 known_input_files, deferred_functions, visited, ntags,
                 AtexitState, files, DiskState>>

\* include(file): find_file and read_file fail when the file does not exist;
\* the content is expanded with a local configuration of its own.
Include ==
  /\ Evaluating("include")
  /\ LET f == next_item.file IN
     \/ f \in Missing /\ Fail
     \/ /\ f \in File
        /\ input_files' = Append(input_files, f)
        /\ known_input_files' = known_input_files \cup {f}
        /\ lconf' = Append(lconf, MainChar)
        /\ stack' = Append(Advanced, Frame("file", content[f]))
        /\ UNCHANGED <<phase, failed, index, count, output_contents,
                       DeferState, AtexitState, files, DiskState>>

\* ypp(s), where s is a string with the items of a file: it is expanded with
\* the local configuration of the caller.  There is none when no file is being
\* expanded, which the parser only sees if there is something to parse.
Preprocess ==
  /\ Evaluating("ypp")
  /\ LET s == content[next_item.file] IN
     \/ lconf = <<>> /\ s # <<>> /\ Fail
     \/ /\ \/ lconf = <<>> /\ s = <<>> /\ stack' = Advanced
           \/ lconf # <<>> /\ stack' = Append(Advanced, Frame("text", s))
        /\ UNCHANGED <<phase, failed, index, lconf, input_files, count,
                       OutState, DeferState, AtexitState, files, DiskState>>

\* ypp.read_file(file).
Read ==
  /\ Evaluating("read")
  /\ LET f == next_item.file IN
     \/ f \in Missing /\ Fail
     \/ /\ f \in File
        /\ known_input_files' = known_input_files \cup {f}
        /\ stack' = Advanced
        /\ Yield(<<text>>)
        /\ UNCHANGED <<phase, failed, index, lconf, input_files, count,
                       deferred_functions, visited, ntags, AtexitState, files,
                       DiskState>>

\* ypp.macro(c) changes the local configuration: there is none when no file
\* is being expanded.
Macro ==
  /\ Evaluating("macro")
  /\ \/ lconf = <<>> /\ Fail
     \/ /\ lconf # <<>>
        /\ lconf' = Front(lconf) \o <<next_item.new>>
        /\ stack' = Advanced
        /\ UNCHANGED <<phase, failed, index, input_files, count, OutState,
                       DeferState, AtexitState, files, DiskState>>

NewTag == Len(deferred_functions) + 1

\* The new tag has no result until its function is called.
MakeTag(fn) ==
  /\ deferred_functions' = Append(deferred_functions, fn)
  /\ UNCHANGED <<visited, ntags>>

\* defer(fn).
Defer ==
  /\ Evaluating("defer")
  /\ stack' = Advanced
  /\ MakeTag(next_item.fn)
  /\ Yield(<<tag(NewTag)>>)
  /\ UNCHANGED <<phase, failed, index, lconf, input_files, count,
                 known_input_files, AtexitState, files, DiskState>>

\* atexit(fn).
Atexit ==
  /\ Evaluating("atexit")
  /\ stack' = Advanced
  /\ functions' = Append(functions, next_item.fn)
  /\ asked' = Append(asked, next_item.fn)
  /\ UNCHANGED <<phase, failed, index, lconf, input_files, count, OutState,
                 DeferState, fs, ran, files, DiskState>>

\* file(name): a new file object, also when another one has the same name.
OpenFile ==
  /\ Evaluating("file")
  /\ stack' = Advanced
  /\ files' = Append(files, [name |-> next_item.name, content |-> <<>>])
  /\ UNCHANGED <<phase, failed, index, lconf, input_files, count, OutState,
                 DeferState, AtexitState, DiskState>>

Named(name) == {i \in DOMAIN files : files[i].name = name}

AddTo(name, tok) ==
  LET i == CHOOSE j \in Named(name) : \A k \in Named(name) : k <= j IN
  files' = [files EXCEPT ![i].content = Append(@, tok)]

\* f(s), where f is the last file object of that name.
Put ==
  /\ Evaluating("put")
  /\ \/ Named(next_item.name) = {} /\ Fail
     \/ /\ Named(next_item.name) # {}
        /\ AddTo(next_item.name, value(count))
        /\ stack' = Advanced
        /\ UNCHANGED <<phase, failed, index, lconf, input_files, count,
                       OutState, DeferState, AtexitState, DiskState>>

\* f(true): nothing looks at it before the file is saved.
PutBoolean ==
  /\ Evaluating("putbool")
  /\ \/ Named(next_item.name) = {} /\ Fail
     \/ /\ Named(next_item.name) # {}
        /\ AddTo(next_item.name, boolean)
        /\ stack' = Advanced
        /\ UNCHANGED <<phase, failed, index, lconf, input_files, count,
                       OutState, DeferState, AtexitState, DiskState>>

\* f(defer(fn)).
PutDefer ==
  /\ Evaluating("putdefer")
  /\ \/ Named(next_item.name) = {} /\ Fail
     \/ /\ Named(next_item.name) # {}
        /\ AddTo(next_item.name, tag(NewTag))
        /\ MakeTag(next_item.fn)
        /\ stack' = Advanced
        /\ UNCHANGED <<phase, failed, index, lconf, input_files, count,
                       OutState, results, AtexitState, DiskState>>

Error == Evaluating("error") /\ Fail

\* Mutation: a string given to ypp is never left.
Leave_FilesOnly ==
  /\ Running /\ top.items = <<>>
  /\ IF top.kind = "file"
     THEN /\ stack' = Front(stack)
          /\ lconf' = Front(lconf) /\ input_files' = Front(input_files)
     ELSE UNCHANGED <<stack, lconf, input_files>>
  /\ UNCHANGED <<phase, failed, index, count, OutState, DeferState,
                 AtexitState, files, DiskState>>

\* A document or a function has been evaluated to its end.
Leave ==
  /\ Running /\ top.items = <<>>
  /\ stack' = Front(stack)
  /\ IF top.kind = "file"
     THEN lconf' = Front(lconf) /\ input_files' = Front(input_files)
     ELSE UNCHANGED <<lconf, input_files>>
  /\ UNCHANGED <<phase, failed, index, count, OutState, DeferState,
                 AtexitState, files, DiskState>>

Evaluate ==
  \/ Text \/ Count \/ Show \/ Include \/ Preprocess \/ Read \/ Macro \/ Defer
  \/ Atexit \/ OpenFile \/ Put \/ PutBoolean \/ PutDefer \/ Error \/ Leave

-----------------------------------------------------------------------------
(* The main program. *)

Idle(p) == ~failed /\ phase = p /\ stack = <<>>

\* process_file.
ProcessFile ==
  /\ Idle("files") /\ index < Len(Input)
  /\ LET f == Input[index + 1] IN
     \/ f \in Missing /\ Fail
     \/ /\ f \in File
        /\ index' = index + 1
        /\ input_files' = Append(input_files, f)
        /\ known_input_files' = known_input_files \cup {f}
        /\ lconf' = Append(lconf, MainChar)
        /\ stack' = <<Frame("file", content[f])>>
        /\ UNCHANGED <<phase, failed, count, output_contents, DeferState,
                       AtexitState, files, DiskState>>

Enter(p) == phase' = p /\ UNCHANGED <<failed, index>>

EndOfFiles ==
  /\ Idle("files") /\ index = Len(Input)
  /\ Enter("atexit")
  /\ UNCHANGED <<EvalState, OutState, DeferState, AtexitState, files, DiskState>>

\* Mutation: the list of functions is not reset.
AtexitRound_NoReset ==
  /\ Idle("atexit") /\ fs = <<>> /\ functions # <<>>
  /\ fs' = functions
  /\ UNCHANGED <<phase, failed, index, EvalState, OutState, DeferState,
                 functions, asked, ran, files, DiskState>>

\* atexit.run takes the registered functions and calls them in order; it
\* starts again with those that were registered meanwhile.
AtexitRound ==
  /\ Idle("atexit") /\ fs = <<>> /\ functions # <<>>
  /\ fs' = functions
  /\ functions' = <<>>
  /\ UNCHANGED <<phase, failed, index, EvalState, OutState, DeferState, asked,
                 ran, files, DiskState>>

AtexitCall ==
  /\ Idle("atexit") /\ fs # <<>>
  /\ stack' = <<Frame("fun", Body[Head(fs)])>>
  /\ fs' = Tail(fs)
  /\ ran' = Append(ran, Head(fs))
  /\ UNCHANGED <<phase, failed, index, lconf, input_files, count, OutState,
                 DeferState, functions, asked, files, DiskState>>

EndOfAtexit ==
  /\ Idle("atexit") /\ fs = <<>> /\ functions = <<>>
  /\ Enter("dep")
  /\ UNCHANGED <<EvalState, OutState, DeferState, AtexitState, files, DiskState>>

\* Mutation: the files created with file are forgotten.
WriteDepFile_MainOnly ==
  /\ Idle("dep")
  /\ Enter("replace")
  /\ dep' = [kind |-> "dep", ins |-> known_input_files, outs |-> {}]
  /\ ntags' = Len(deferred_functions)
  /\ UNCHANGED <<EvalState, OutState, deferred_functions, visited, results,
                 AtexitState, files, main, saved>>

\* write_dep_file.
WriteDepFile ==
  /\ Idle("dep")
  /\ Enter("replace")
  /\ dep' = [kind |-> "dep", ins |-> known_input_files,
             outs |-> {files[i].name : i \in DOMAIN files}]
  /\ ntags' = Len(deferred_functions)
  /\ UNCHANGED <<EvalState, OutState, deferred_functions, visited, results,
                 AtexitState, files, main, saved>>

Tags == 1 .. Len(deferred_functions)

\* defer.replace calls the deferred functions in the order of pairs, which is
\* arbitrary.  When a function makes a new tag, the table changes while it is
\* traversed: from then on a function may be missed or called again.
CallDeferred(id) ==
  /\ Idle("replace")
  /\ id \notin ToSet(visited) \/ Len(deferred_functions) > ntags
  /\ Len(visited) < MaxVisits
  /\ visited' = Append(visited, id)
  /\ results' = [i \in DOMAIN results \cup {id} |->
                   IF i = id THEN <<>> ELSE results[i]]
  /\ stack' = <<Frame("fun", Body[deferred_functions[id]])>>
  /\ UNCHANGED <<phase, failed, index, lconf, input_files, count, OutState,
                 deferred_functions, ntags, AtexitState, files, DiskState>>

\* Mutation: tags are left as they are.
Replaced_Never(tok) == <<tok>>

\* A tag whose function has been called and returns one of these.
Gives(tok, returned) ==
  /\ tok.kind = "tag" /\ tok.id \in DOMAIN results
  /\ Returns[deferred_functions[tok.id]] \in returned

\* What is written in place of a token: mapt drops nil and gsub leaves a tag
\* whose function has returned nil or false.
Replaced(tok) == IF Gives(tok, {"text"}) THEN results[tok.id] ELSE <<tok>>

\* All the functions have been called: the tags are replaced, and the output
\* is written.  gsub raises an error on any other value.
WriteMain ==
  /\ Idle("replace")
  /\ Tags \subseteq ToSet(visited) \/ Len(deferred_functions) > ntags
  /\ LET rejected == \E tok \in ToSet(output_contents) : Gives(tok, {"other"}) IN
     \/ rejected /\ Fail
     \/ /\ ~rejected
        /\ Enter("save")
        /\ main' = [kind |-> "main",
                    content |-> FlattenSeq([i \in DOMAIN output_contents |->
                                              Replaced(output_contents[i])])]
        /\ UNCHANGED <<EvalState, OutState, DeferState, AtexitState, files, dep,
                       saved>>

\* table.concat raises an error on a boolean.
Concatenable(toks) == \A tok \in ToSet(toks) : tok.kind # "boolean"

\* Mutation: the files are saved before the functions of defer are called.
SaveFile_Early ==
  /\ (Idle("save") \/ Idle("replace")) /\ files # <<>>
  /\ LET f == Head(files) IN
     saved' = [n \in DOMAIN saved \cup {f.name} |->
                 IF n = f.name THEN f.content ELSE saved[n]]
  /\ files' = Tail(files)
  /\ UNCHANGED <<phase, failed, index, EvalState, OutState, DeferState,
                 AtexitState, dep, main>>

\* The files created with file are saved, in order, until one cannot be.
SaveFile ==
  /\ Idle("save") /\ files # <<>>
  /\ LET f == Head(files) IN
     \/ ~Concatenable(f.content) /\ Fail
     \/ /\ Concatenable(f.content)
        /\ saved' = [n \in DOMAIN saved \cup {f.name} |->
                       IF n = f.name THEN f.content ELSE saved[n]]
        /\ files' = Tail(files)
        /\ UNCHANGED <<phase, failed, index, EvalState, OutState, DeferState,
                       AtexitState, dep, main>>

Finish ==
  /\ Idle("save") /\ files = <<>>
  /\ Enter("done")
  /\ UNCHANGED <<EvalState, OutState, DeferState, AtexitState, files, DiskState>>

Exited == (failed \/ phase = "done") /\ UNCHANGED vars

Main ==
  \/ ProcessFile \/ EndOfFiles \/ AtexitRound \/ AtexitCall \/ EndOfAtexit
  \/ WriteDepFile \/ (\E id \in Tags : CallDeferred(id)) \/ WriteMain
  \/ SaveFile \/ Finish

Init ==
  /\ content \in Library
  /\ phase = "files" /\ failed = FALSE /\ index = 0
  /\ stack = <<>> /\ lconf = <<>> /\ input_files = <<>> /\ count = 0
  /\ output_contents = <<>> /\ known_input_files = {}
  /\ deferred_functions = <<>> /\ visited = <<>> /\ results = <<>> /\ ntags = 0
  /\ functions = <<>> /\ fs = <<>> /\ asked = <<>> /\ ran = <<>>
  /\ files = <<>> /\ dep = Absent /\ main = Absent /\ saved = <<>>

\* Nobody edits the files during the run.
Next == \/ Evaluate /\ UNCHANGED content
        \/ Main /\ UNCHANGED content
        \/ Exited

\* ypp is one sequential process: as long as it can go on, it does.
Spec == Init /\ [][Next]_vars /\ WF_vars(Next)

-----------------------------------------------------------------------------
(* Properties. *)

\* What a run that fails leaves (ypp/file.lua: "Files are only saved once ypp
\* succeed"): nothing, if it fails while the documents are expanded or in a
\* function given to atexit; the dependency file only, if it is in a deferred
\* function or because of what one returns.  The one failure that comes later
\* is a file that cannot be saved: the output is there, and the files created
\* before this one, each of which could be.
FailuresLeave ==
  failed =>
    /\ phase \in {"files", "atexit"} => dep = Absent
    /\ phase # "save" => main = Absent /\ saved = <<>>
    /\ phase = "save" => files # <<>> /\ ~Concatenable(Head(files).content)
    /\ \A n \in DOMAIN saved : Concatenable(saved[n])

\* Some function given to defer makes one of these calls.
DeferredCalls(ops) ==
  \E i \in DOMAIN deferred_functions :
    \E it \in ToSet(Body[deferred_functions[i]]) : it.op \in ops

\* The functions given to atexit are called in the order they were given,
\* those given by other such functions included, and all before the output is
\* written, except those that deferred functions give, which come too late.
AtexitOrder ==
  /\ asked = ran \o fs \o functions
  /\ phase = "done" /\ ~DeferredCalls({"atexit", "include"}) => ran = asked

\* The dependency file lists every file that was read and every file that was
\* saved (ypp.lua:36: read_file "adds this file to the dependency file"); it is
\* written before the deferred functions are called, which may read others.
DepFileComplete ==
  phase = "done" /\ ~DeferredCalls({"include", "read", "file"}) =>
    known_input_files \subseteq dep.ins /\ DOMAIN saved \subseteq dep.outs

\* In the main output a tag is replaced by the result of its function
\* (ypp/defer.lua:29), whatever the order the functions are called in: only the
\* tags of functions that return nothing are left.  A tag that a deferred
\* function makes may be left, and so is one put in a file created with file.
TagsReplaced ==
  phase = "done" /\ Len(deferred_functions) = ntags =>
    \A tok \in ToSet(main.content) :
      tok.kind = "tag" => Returns[deferred_functions[tok.id]] = "nothing"

\* A run ends, unless files include each other for ever.
Termination == <>(failed \/ phase = "done")
=============================================================================
