------------------------------ MODULE FsMkdirs ------------------------------
(***************************************************************************)
(* fs.mkdirs (luax/fs.c), called by processes that share a file system.    *)
(*                                                                         *)
(* mkdirs(path) returns when path exists; otherwise it calls itself for    *)
(* the directory of path, then makes path.  Each stat and each mkdir is a  *)
(* system call: other processes run between two of them.                   *)
(***************************************************************************)
EXTENDS Naturals, Sequences

CONSTANTS
  Path,             \* paths
  Parent,           \* Parent[path]: dirname(path)
  Made,             \* paths that are directories at the start
  Files,            \* paths that are regular files at the start
  Proc,             \* processes
  Want              \* Want[p]: the path process p gives to mkdirs

VARIABLES
  kind,             \* path |-> "none", "file" or "dir"
  calls,            \* process |-> paths of its pending calls, innermost first
  pc,               \* process |-> what it does next
  ret               \* process |-> what the call that just ended has returned

vars == <<kind, calls, pc, ret>>

ASSUME PathAssumption ==
  /\ Parent \in [Path -> Path] /\ Want \in [Proc -> Path]
  /\ Made \subseteq Path /\ Files \subseteq Path /\ Made \cap Files = {}

\* Recursion ends: going from a path to its directory, one comes to "." or "/",
\* which always exist.
ASSUME RootAssumption ==
  \A S \in SUBSET (Path \ Made) : S # {} => \E path \in S : Parent[path] \notin S

Exists(path) == kind[path] # "none"

Goto(p, l) == pc' = [pc EXCEPT ![p] = l]

-----------------------------------------------------------------------------

Init ==
  /\ kind = [path \in Path |-> IF path \in Made THEN "dir"
                               ELSE IF path \in Files THEN "file" ELSE "none"]
  /\ calls = [p \in Proc |-> <<Want[p]>>]
  /\ pc = [p \in Proc |-> "stat"]
  /\ ret = [p \in Proc |-> FALSE]

\* Mutation: the parents are not made.
Stat_LeafOnly(p) ==
  /\ pc[p] = "stat"
  /\ LET path == Head(calls[p]) IN
     \/ /\ Exists(path)
        /\ ret' = [ret EXCEPT ![p] = TRUE]
        /\ calls' = [calls EXCEPT ![p] = Tail(@)]
        /\ Goto(p, "return")
     \/ /\ ~Exists(path)
        /\ Goto(p, "mkdir")
        /\ UNCHANGED <<ret, calls>>
  /\ UNCHANGED kind

\* stat(path): a path that exists is left alone, whatever it is.
Stat(p) ==
  /\ pc[p] = "stat"
  /\ LET path == Head(calls[p]) IN
     \/ /\ Exists(path)
        /\ ret' = [ret EXCEPT ![p] = TRUE]
        /\ calls' = [calls EXCEPT ![p] = Tail(@)]
        /\ Goto(p, "return")
     \/ /\ ~Exists(path)
        /\ calls' = [calls EXCEPT ![p] = <<Parent[path]>> \o @]
        /\ UNCHANGED <<ret, pc>>
  /\ UNCHANGED kind

\* Mutation: a failure is not passed on.
Return_Hangs(p) ==
  /\ pc[p] = "return" /\ calls[p] # <<>>
  /\ ret[p] /\ Goto(p, "mkdir") /\ UNCHANGED calls
  /\ UNCHANGED <<kind, ret>>

\* The recursive call has returned: go on with mkdir, or return false.
Return(p) ==
  /\ pc[p] = "return" /\ calls[p] # <<>>
  /\ \/ ret[p] /\ Goto(p, "mkdir") /\ UNCHANGED calls
     \/ /\ ~ret[p]
        /\ calls' = [calls EXCEPT ![p] = Tail(@)]
        /\ UNCHANGED pc
  /\ UNCHANGED <<kind, ret>>

\* mkdir(path): it fails when path exists or its parent is not a directory.
Mkdir(p) ==
  /\ pc[p] = "mkdir"
  /\ LET path == Head(calls[p])
         ok   == ~Exists(path) /\ kind[Parent[path]] = "dir" IN
     /\ kind' = IF ok THEN [kind EXCEPT ![path] = "dir"] ELSE kind
     /\ ret' = [ret EXCEPT ![p] = ok]
  /\ calls' = [calls EXCEPT ![p] = Tail(@)]
  /\ Goto(p, "return")

Step(p) == Stat(p) \/ Return(p) \/ Mkdir(p)

Next == \E p \in Proc : Step(p)

Spec == Init /\ [][Next]_vars /\ \A p \in Proc : WF_vars(Step(p))

-----------------------------------------------------------------------------
(* Properties. *)

\* mkdirs(Want[p]) has returned.
Returned(p) == pc[p] = "return" /\ calls[p] = <<>>

\* When mkdirs returns, the path and its parents are directories: what the
\* callers (which seldom look at the result) rely on to write files there.
DirectoryMade == \A p \in Proc : Returned(p) => kind[Want[p]] = "dir"

\* The path process p wants and all its parents.
Above(p) ==
  {path \in Path : \A S \in SUBSET Path :
     Want[p] \in S /\ (\A x \in S : Parent[x] \in S) => path \in S}

\* No file is in the way of process p, and those that want another directory
\* have no missing parent in common with it.
Independent(p) ==
  /\ Above(p) \cap Files = {}
  /\ \A q \in Proc : Want[q] = Want[p] \/ Above(p) \cap Above(q) \subseteq Made

\* Processes that want the same directory, and no other one with a missing
\* parent in common, get it once they have returned, and at least one of them
\* is told so, even if the race makes others fail.
SamePathIsMade ==
  \A p \in Proc :
    (\A q \in Proc : Want[q] = Want[p] => Returned(q)) /\ Independent(p) =>
        /\ kind[Want[p]] = "dir"
        /\ \E q \in Proc : Want[q] = Want[p] /\ ret[q]

\* Every call returns.
EveryCallReturns == \A p \in Proc : <>Returned(p)
=============================================================================
