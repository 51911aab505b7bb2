----------------------------- MODULE NinjaFile ------------------------------
(***************************************************************************)
(* What a generator of Ninja files promises: the file only grows, one      *)
(* statement at a time, each statement is one Ninja accepts after those    *)
(* before it, and the file is given to Ninja only once it is complete.     *)
(*                                                                         *)
(* Bang.tla describes bang/*.lua and implements this specification.        *)
(***************************************************************************)
EXTENDS NinjaSyntax

VARIABLES
  file,      \* the sequence of statements emitted so far
  status     \* "open" while the generator runs, then "closed" or "failed"

-----------------------------------------------------------------------------

Init == file = <<>> /\ status = "open"

Emit(s) ==
  /\ status = "open"
  /\ Legal(file, s)
  /\ file' = Append(file, s)
  /\ status' = status

Close == status = "open" /\ status' = "closed" /\ file' = file

Fail == status = "open" /\ status' = "failed" /\ file' = file

\* The statement just emitted is the last one of the file.
EmitLast == /\ Len(file') = Len(file) + 1
            /\ Emit(file'[Len(file')])

Next == EmitLast \/ Close \/ Fail

Spec == Init /\ [][Next]_<<file, status>>
=============================================================================
