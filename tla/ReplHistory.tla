---------------------------- MODULE ReplHistory ----------------------------
(***************************************************************************)
(* The history of the lines read by LuaX programs that share one history   *)
(* file: readline-luax.c (which uses libreadline when it is found, or else *)
(* linenoise), linenoise-luax.c, the history of linenoise.c, and the loop  *)
(* of the REPL (luax.lua).                                                 *)
(*                                                                         *)
(* A REPL loads the file once, then reads a line, adds it to its history   *)
(* and saves the history, for ever.  A script calls what it wants.  The    *)
(* sessions run in a terminal.  How a line is edited is in LineEdit: here, *)
(* a user can make any line of it.                                         *)
(***************************************************************************)
EXTENDS Naturals, SequencesExt

CONSTANTS
  Session,      \* processes
  Script,       \* those that are not REPLs
  Typing,       \* bound: those whose user types something
  Line,         \* lines: sequences of characters
  Space, LineFeed, Return,
  InitialBuflen,\* LINENOISE_INITIAL_BUFLEN - 1
  MaxLine,      \* LINENOISE_MAX_LINE
  HistoryLen,   \* LUAX_HISTORY_LEN
  HistorySearch,\* MAX_HISTORY_SEARCH
  Lengths,      \* what scripts give to set_len
  Backends      \* session |-> library it finds, "readline" or "linenoise"

ASSUME HistoryAssumption ==
  /\ Script \subseteq Session /\ Typing \subseteq Session
  /\ <<>> \in Line /\ \A l \in Line : l \in Seq(ToSet(l))
  /\ InitialBuflen \in Nat \ {0} /\ MaxLine \in Nat /\ InitialBuflen <= MaxLine
  /\ HistoryLen \in Nat \ {0} /\ HistorySearch \in Nat
  /\ Lengths \subseteq Nat \ {0} /\ Backends \subseteq [Session -> {"readline", "linenoise"}]

VARIABLES
  file,      \* the lines of the history file
  backend,   \* session |-> library it has found
  pc,        \* session |-> next call of a REPL, "free" in a script, "editing"
             \* in linenoise, "writing" in a save, "off" when it does not run
  hist,      \* session |-> history
  max,       \* session |-> its maximal length
  dirty,     \* session |-> the history has to be saved
  line,      \* session |-> the line being edited, then the line returned
  buflen,    \* session |-> size of the buffer it is edited in
  index,     \* session |-> rank of the line in the history, from the end
  touched,   \* observer: a recalled line has been edited during this read
  saved,     \* observer: what the last save has written, once it has ended
  torn       \* observer: that save met another one, or was interrupted

vars == <<file, backend, pc, hist, max, dirty, line, buflen, index, touched, saved, torn>>

-----------------------------------------------------------------------------
(* Lines. *)

Blank(l) == ToSet(l) \subseteq {Space, LineFeed, Return}

\* In the file, line breaks of an entry are carriage returns.
Stored(l)   == [i \in DOMAIN l |-> IF l[i] = LineFeed THEN Return ELSE l[i]]
Restored(l) == [i \in DOMAIN l |-> IF l[i] = Return THEN LineFeed ELSE l[i]]

\* The last n entries of h.
Latest(h, n) == IF Len(h) <= n THEN h ELSE SubSeq(h, Len(h) - n + 1, Len(h))

\* linenoise: a line equal to the last one is not added; the oldest one goes
\* when there are too many.
linenoiseHistoryAdd(h, n, l) ==
  IF h # <<>> /\ Last(h) = l THEN h ELSE Latest(Append(h, l), n)

\* libreadline: add_history.
add_history(h, n, l) == Latest(Append(h, l), n)

\* readline.add: older entries equal to l are removed, but the oldest of those
\* that are searched.
Cleaned(h, l) ==
  LET oldest == IF Len(h) > HistorySearch + 1 THEN Len(h) - HistorySearch ELSE 1
      clean[i \in 0 .. Len(h)] ==
        CASE i = 0 -> <<>>
          [] i > oldest /\ h[i] = l -> clean[i-1]
          [] OTHER -> Append(clean[i-1], h[i])
  IN  clean[Len(h)]

-----------------------------------------------------------------------------
(* The calls of a client. *)

\* Session s is going to call op; Done(s, op): and is going to call op next.
Calls(s, op) == pc[s] = (IF s \in Script THEN "free" ELSE op)
Done(s, op)  == pc' = [pc EXCEPT ![s] = IF s \in Script THEN "free" ELSE op]

\* The process starts: its first call finds a library, the same each time.
Launch(s) ==
  /\ pc[s] = "off"
  /\ Done(s, "load")
  /\ UNCHANGED <<file, backend, hist, max, dirty, line, buflen, index, touched, saved, torn>>

\* What was known of the line that was edited is forgotten, with its buffer.
Forget(s) ==
  /\ buflen' = [buflen EXCEPT ![s] = InitialBuflen]
  /\ index' = [index EXCEPT ![s] = 0]
  /\ touched' = [touched EXCEPT ![s] = FALSE]

\* The process ends: its memory is the one of a new process.
Off(s) ==
  /\ pc' = [pc EXCEPT ![s] = "off"]
  /\ hist' = [hist EXCEPT ![s] = <<>>]
  /\ max' = [max EXCEPT ![s] = HistoryLen]
  /\ dirty' = [dirty EXCEPT ![s] = FALSE]
  /\ line' = [line EXCEPT ![s] = <<>>]
  /\ Forget(s)

\* linenoise: the lines of the file are added.
linenoiseHistoryLoad(h, n) ==
  LET load[i \in 0 .. Len(file)] ==
        IF i = 0 THEN h ELSE linenoiseHistoryAdd(load[i-1], n, Restored(file[i]))
  IN  load[Len(file)]

\* libreadline: the empty ones are skipped.
read_history(h, n) ==
  LET load[i \in 0 .. Len(file)] ==
        CASE i = 0 -> h
          [] i > 0 /\ file[i] = <<>> -> load[i-1]
          [] OTHER -> add_history(load[i-1], n, file[i])
  IN  load[Len(file)]

\* load: the lines of the file are added to the history, in memory.
readline_history_load(s) ==
  /\ Calls(s, "load")
  /\ hist' = [hist EXCEPT ![s] =
       IF backend[s] = "readline" THEN read_history(@, max[s])
       ELSE linenoiseHistoryLoad(@, max[s])]
  /\ dirty' = [dirty EXCEPT ![s] = FALSE]
  /\ Done(s, "read")
  /\ UNCHANGED <<file, backend, max, line, buflen, index, touched, saved, torn>>

\* Mutation: linenoise only marks the history when it has changed.
readline_history_add_IfChanged(s) ==
  /\ \E l \in IF s \in Script THEN Line ELSE {line[s]} :
       LET h == CASE backend[s] = "linenoise" -> linenoiseHistoryAdd(hist[s], max[s], l)
                  [] backend[s] = "readline" /\ Blank(l) -> hist[s]
                  [] OTHER -> add_history(Cleaned(hist[s], l), max[s], l)
       IN  /\ hist' = [hist EXCEPT ![s] = h]
           /\ dirty' = [dirty EXCEPT ![s] = @ \/ h # hist[s]]
  /\ Calls(s, "add")
  /\ Done(s, "save")
  /\ UNCHANGED <<file, backend, max, line, buflen, index, touched, saved, torn>>

\* add: the REPL adds what it has just read, a script any line.
readline_history_add(s) ==
  /\ Calls(s, "add")
  /\ \E l \in IF s \in Script THEN Line ELSE {line[s]} :
       \/ /\ backend[s] = "linenoise"
          /\ hist' = [hist EXCEPT ![s] = linenoiseHistoryAdd(@, max[s], l)]
          /\ dirty' = [dirty EXCEPT ![s] = TRUE]
       \/ /\ backend[s] = "readline" /\ ~Blank(l)
          /\ hist' = [hist EXCEPT ![s] = add_history(Cleaned(@, l), max[s], l)]
          /\ dirty' = [dirty EXCEPT ![s] = TRUE]
       \/ /\ backend[s] = "readline" /\ Blank(l)
          /\ UNCHANGED <<hist, dirty>>
  /\ Done(s, "save")
  /\ UNCHANGED <<file, backend, max, line, buflen, index, touched, saved, torn>>

\* set_len.
readline_history_set_len(s) ==
  /\ s \in Script /\ pc[s] = "free"
  /\ \E n \in Lengths :
       /\ max' = [max EXCEPT ![s] = n]
       /\ hist' = [hist EXCEPT ![s] = Latest(@, n)]
  /\ UNCHANGED <<file, backend, pc, dirty, line, buflen, index, touched, saved, torn>>

-----------------------------------------------------------------------------
(* save. *)

Writers == {s \in Session : pc[s] = "writing"}

\* new is written from the start of a file that contains old.
Overwrite(old, new) == new \o SubSeq(old, Len(new) + 1, Len(old))

\* The history has not changed.
SaveNothing(s) ==
  /\ Calls(s, "save") /\ ~dirty[s]
  /\ Done(s, "read")
  /\ UNCHANGED <<file, backend, hist, max, dirty, line, buflen, index, touched, saved, torn>>

\* libreadline: write_history.
write_history(s) ==
  /\ Calls(s, "save") /\ dirty[s] /\ backend[s] = "readline"
  /\ file' = hist[s] /\ saved' = file' /\ torn' = (Writers # {})
  /\ dirty' = [dirty EXCEPT ![s] = FALSE]
  /\ Done(s, "read")
  /\ UNCHANGED <<backend, hist, max, line, buflen, index, touched>>

\* Mutation: the file is not truncated.
OpenFile_Append(s) ==
  /\ Calls(s, "save") /\ dirty[s] /\ backend[s] = "linenoise"
  /\ saved' = <<>> /\ torn' = (Writers # {})
  /\ pc' = [pc EXCEPT ![s] = "writing"]
  /\ UNCHANGED <<file, backend, hist, max, dirty, line, buflen, index, touched>>

\* linenoiseHistorySave: fopen empties the file...
OpenFile(s) ==
  /\ Calls(s, "save") /\ dirty[s] /\ backend[s] = "linenoise"
  /\ file' = <<>> /\ saved' = <<>> /\ torn' = (Writers # {})
  /\ pc' = [pc EXCEPT ![s] = "writing"]
  /\ UNCHANGED <<backend, hist, max, dirty, line, buflen, index, touched>>

StoredHistory(s) == [i \in DOMAIN hist[s] |-> Stored(hist[s][i])]

\* ... and fclose writes the entries.
WriteFile(s) ==
  /\ pc[s] = "writing"
  /\ file' = Overwrite(file, StoredHistory(s)) /\ saved' = StoredHistory(s)
  /\ dirty' = [dirty EXCEPT ![s] = FALSE]
  /\ Done(s, "read")
  /\ UNCHANGED <<backend, hist, max, line, buflen, index, touched, torn>>

\* The process is killed; in a save, a part of the entries is written.
Kill(s) ==
  /\ pc[s] # "off" /\ Off(s)
  /\ \/ pc[s] # "writing" /\ UNCHANGED <<file, saved, torn>>
     \/ /\ pc[s] = "writing" /\ saved' = <<>> /\ torn' = TRUE
        /\ \E n \in 0 .. Len(hist[s]) :
             file' = Overwrite(file, SubSeq(StoredHistory(s), 1, n))
  /\ UNCHANGED backend

-----------------------------------------------------------------------------
(* read. *)

\* libreadline: a line of one line is read.
readline_read(s) ==
  /\ Calls(s, "read") /\ backend[s] = "readline"
  /\ \E l \in Line :
       /\ ToSet(l) \cap {LineFeed, Return} = {}
       /\ line' = IF s \in Script THEN line ELSE [line EXCEPT ![s] = l]
  /\ Done(s, "add")
  /\ UNCHANGED <<file, backend, hist, max, dirty, buflen, index, touched, saved, torn>>

\* linenoise: an empty entry is added for the line that is going to be edited.
linenoiseEditStart(s) ==
  /\ Calls(s, "read") /\ backend[s] = "linenoise"
  /\ hist' = [hist EXCEPT ![s] = linenoiseHistoryAdd(@, max[s], <<>>)]
  /\ pc' = [pc EXCEPT ![s] = "editing"]
  /\ line' = [line EXCEPT ![s] = <<>>]
  /\ Forget(s)
  /\ UNCHANGED <<file, backend, max, dirty, saved, torn>>

\* linenoiseEditGrow: a buffer of b characters doubles until a text of n
\* characters fits; it never gets larger than the longest line.
Grow(b, n) ==
  IF n <= b \/ n > MaxLine THEN b
  ELSE Min({m \in n .. MaxLine : m = MaxLine \/ \E k \in 0 .. n : m = b * 2^k})

\* Keys that change the line: what does not fit in the buffer is not inserted.
Edit(s) ==
  /\ pc[s] = "editing" /\ s \in Typing
  /\ \E l \in Line \ {line[s]} :
       /\ Len(l) <= MaxLine
       /\ line' = [line EXCEPT ![s] = l]
       /\ buflen' = [buflen EXCEPT ![s] = Grow(@, Len(l))]
  /\ touched' = [touched EXCEPT ![s] = @ \/ index[s] > 0]
  /\ UNCHANGED <<file, backend, pc, hist, max, dirty, index, saved, torn>>

\* Entry e of the history is shown; what does not fit in the buffer is lost.
Recall(s, e) ==
  LET n == Grow(buflen[s], Len(e)) IN
  /\ buflen' = [buflen EXCEPT ![s] = n]
  /\ line' = [line EXCEPT ![s] = IF Len(e) <= n THEN e ELSE SubSeq(e, 1, n)]

\* Mutation: the index is not limited to the entries of the history.
linenoiseEditHistoryNext_Limit(s) ==
  /\ pc[s] = "editing" /\ s \in Typing
  /\ Len(hist[s]) > 1
  /\ LET h == [hist[s] EXCEPT ![Len(hist[s]) - index[s]] = line[s]] IN
     /\ hist' = [hist EXCEPT ![s] = h]
     /\ \/ /\ index' = [index EXCEPT ![s] = @ + 1]
           /\ IF index[s] + 1 < Len(h) THEN Recall(s, h[Len(h) - index[s] - 1])
              ELSE UNCHANGED <<line, buflen>>
        \/ /\ index[s] > 0
           /\ index' = [index EXCEPT ![s] = @ - 1]
           /\ Recall(s, h[Len(h) - index[s] + 1])
        \/ index[s] = 0 /\ UNCHANGED <<line, buflen, index>>
  /\ UNCHANGED <<file, backend, pc, max, dirty, touched, saved, torn>>

\* Mutation: the line is stored in the entry that is going to be shown.
linenoiseEditHistoryNext_Late(s) ==
  /\ pc[s] = "editing" /\ s \in Typing
  /\ Len(hist[s]) > 1
  /\ \/ /\ index[s] + 1 < Len(hist[s])
        /\ index' = [index EXCEPT ![s] = @ + 1]
        /\ Recall(s, hist[s][Len(hist[s]) - index[s] - 1])
     \/ /\ index[s] > 0
        /\ index' = [index EXCEPT ![s] = @ - 1]
        /\ Recall(s, hist[s][Len(hist[s]) - index[s] + 1])
  /\ hist' = [hist EXCEPT ![s] = [@ EXCEPT ![Len(@) - index'[s]] = line[s]]]
  /\ UNCHANGED <<file, backend, pc, max, dirty, touched, saved, torn>>

\* Up and down: the line takes the place of the entry it comes from, then
\* another entry is shown, if there is one.
linenoiseEditHistoryNext(s) ==
  /\ pc[s] = "editing" /\ s \in Typing
  /\ Len(hist[s]) > 1
  /\ LET h == [hist[s] EXCEPT ![Len(hist[s]) - index[s]] = line[s]] IN
     /\ hist' = [hist EXCEPT ![s] = h]
     /\ \/ /\ index[s] + 1 < Len(h)
           /\ index' = [index EXCEPT ![s] = @ + 1]
           /\ Recall(s, h[Len(h) - index[s] - 1])
        \/ /\ index[s] > 0
           /\ index' = [index EXCEPT ![s] = @ - 1]
           /\ Recall(s, h[Len(h) - index[s] + 1])
        \/ index[s] \in {0, Len(h) - 1} /\ UNCHANGED <<line, buflen, index>>
  /\ UNCHANGED <<file, backend, pc, max, dirty, touched, saved, torn>>

\* Enter: the last entry, which is the one of the edited line, is removed.
Enter(s) ==
  /\ pc[s] = "editing"
  /\ hist' = [hist EXCEPT ![s] = Front(@)]
  /\ Done(s, "add") /\ Forget(s)
  /\ line' = IF s \in Script THEN [line EXCEPT ![s] = <<>>] ELSE line
  /\ UNCHANGED <<file, backend, max, dirty, saved, torn>>

\* No line is read.  In linenoise, ctrl-d in an empty line removes the last
\* entry too; ctrl-c and the end of the input leave it in the history.
NoLine(s) ==
  /\ \/ pc[s] = "editing" /\ line[s] = <<>> /\ hist' = [hist EXCEPT ![s] = Front(@)]
     \/ pc[s] = "editing" /\ UNCHANGED hist
     \/ Calls(s, "read") /\ backend[s] = "readline" /\ UNCHANGED hist
  /\ Done(s, "none") /\ Forget(s)
  /\ line' = [line EXCEPT ![s] = <<>>]
  /\ UNCHANGED <<file, backend, max, dirty, saved, torn>>

\* A REPL ends when it gets no line.
Exit(s) ==
  /\ pc[s] = "none" /\ Off(s)
  /\ UNCHANGED <<file, backend, saved, torn>>

-----------------------------------------------------------------------------

Init ==
  /\ file = <<>>
  /\ backend \in Backends
  /\ pc = [s \in Session |-> "off"]
  /\ hist = [s \in Session |-> <<>>]
  /\ max = [s \in Session |-> HistoryLen]
  /\ dirty = [s \in Session |-> FALSE]
  /\ line = [s \in Session |-> <<>>]
  /\ buflen = [s \in Session |-> InitialBuflen]
  /\ index = [s \in Session |-> 0]
  /\ touched = [s \in Session |-> FALSE]
  /\ saved = <<>> /\ torn = FALSE

\* What a REPL does by itself between two reads.
Step(s) ==
  \/ readline_history_load(s) \/ readline_history_add(s)
  \/ SaveNothing(s) \/ write_history(s) \/ OpenFile(s) \/ WriteFile(s)
  \/ Exit(s)

Read(s) ==
  \/ readline_read(s) \/ linenoiseEditStart(s) \/ Edit(s)
  \/ linenoiseEditHistoryNext(s) \/ Enter(s) \/ NoLine(s)

Next ==
  \E s \in Session :
    Launch(s) \/ Step(s) \/ Read(s) \/ readline_history_set_len(s) \/ Kill(s)

Spec == Init /\ [][Next]_vars /\ \A s \in Session \ Script : WF_vars(Step(s))

-----------------------------------------------------------------------------
(* Properties. *)

\* linenoise reads and writes history[history_len - 1 - history_index] and
\* removes history[history_len - 1] without a check: these entries exist
\* whatever has been called before, and the array is large enough.
HistoryIndexSafe ==
  \A s \in Session :
    /\ Len(hist[s]) <= max[s]
    /\ pc[s] = "editing" => index[s] \in 0 .. Len(hist[s]) - 1

\* Entry e gives line l when it is recalled: only an entry that is longer than
\* any line is cut, and the buffer holds what is left.
Recalled(e, l) ==
  l = e \/ (Len(e) > MaxLine /\ Len(l) >= InitialBuflen /\ IsPrefix(l, e))

\* Going through the history changes none of its entries, as long as the user
\* changes no recalled line: only the last one, which holds the edited line,
\* and the ones that are longer than any line, of which the end may be lost.
NavigationKeepsEntries ==
  [][\A s \in Session :
       pc[s] = "editing" /\ pc'[s] = "editing" /\ ~touched[s] =>
         \A i \in 1 .. Len(hist[s]) - 1 : Recalled(hist[s][i], hist'[s][i])]_vars

\* When nobody is writing, the file holds all the entries of the session that
\* has saved last, and no others, unless this save met another one or has been
\* interrupted.
FileIsLastSave == Writers = {} /\ ~torn => file = saved

\* A line entered in a REPL is written to the file, except an empty one given
\* to libreadline; the REPL may be killed before.
Kept(s) == backend[s] = "linenoise" \/ ~Blank(line[s])

Written(s) ==
  (IF backend[s] = "linenoise" THEN Stored(line[s]) ELSE line[s]) \in ToSet(file)

EnteredIsSaved ==
  \A s \in Session \ Script :
    pc[s] = "add" /\ Kept(s) ~> pc[s] = "off" \/ Written(s)
=============================================================================
