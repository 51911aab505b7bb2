------------------------------ MODULE YppImage ------------------------------
(***************************************************************************)
(* The cache of images of ypp (render_image in ypp/image.lua).             *)
(*                                                                         *)
(* An image macro renders a source with an external program and saves the  *)
(* image in a file.  A meta file kept beside it holds the source; the      *)
(* image is rendered again only when the file is missing or when the meta  *)
(* file differs from the source.  Several processes (ypp is run by parallel*)
(* builds) and successive runs share the image and the meta files.         *)
(***************************************************************************)
EXTENDS Naturals

CONSTANTS
  Proc,             \* processes running ypp
  Source,           \* what the documents ask to render, at one time or another
  Document,         \* process |-> those the document it expands asks for
  Image,            \* names of images
  ImageOf,          \* ImageOf[s]: the option `name`, or else the hash of s
  Broken,           \* sources their external program rejects
  Early,            \* sources whose command opens the image before its program
                    \* looks at them (plantuml: "< %i > %o")
  Killed,           \* a process can be killed
  MaxRuns           \* bound: how many runs of ypp

NoFile  == "no file"
Empty   == "empty"      \* a meta file just truncated by fs.write
Partial == "partial"    \* an image being written, or that was left so

ASSUME ImageAssumption ==
  /\ ImageOf \in [Source -> Image]
  /\ Document \in [Proc -> SUBSET Source]
  /\ Broken \subseteq Source /\ Early \subseteq Source
  /\ Killed \in BOOLEAN /\ MaxRuns \in Nat
  /\ {NoFile, Empty, Partial} \cap Source = {}

VARIABLES
  meta,             \* what the meta file of each image contains
  image,            \* what each image file shows
  runs,             \* how many runs have been started
  pc,               \* where each process is in render_image
  source,           \* what each process renders
  old_meta,         \* the meta file each process has read
  killed            \* history: images a killed process was about to complete

image_vars == <<meta, image, runs, pc, source, old_meta, killed>>

\* "idle": not running; "done": the link to the image has been returned;
\* "exited": the process has ended with an error, or was killed.
Location ==
  {"idle", "read", "check", "truncate", "write", "call", "wait", "done", "exited"}

out(p) == ImageOf[source[p]]

Goto(p, l) == pc' = [pc EXCEPT ![p] = l]

-----------------------------------------------------------------------------

ImageInit ==
  /\ meta = [i \in Image |-> NoFile]
  /\ image = [i \in Image |-> NoFile]
  /\ runs = 0
  /\ pc = [p \in Proc |-> "idle"]
  /\ source \in [Proc -> Source]
  /\ old_meta = [p \in Proc |-> Empty]
  /\ killed = {}

\* A run of ypp reaches an image macro; the document has been edited or not
\* since the last run.
Start(p, s) ==
  /\ pc[p] \in {"idle", "done", "exited"}
  /\ runs < MaxRuns
  /\ runs' = runs + 1
  /\ source' = [source EXCEPT ![p] = s]
  /\ Goto(p, "read")
  /\ UNCHANGED <<meta, image, old_meta, killed>>

\* old_meta = fs.read(meta) or "".
ReadMeta(p) ==
  /\ pc[p] = "read"
  /\ old_meta' = [old_meta EXCEPT ![p] =
                    IF meta[out(p)] = NoFile THEN Empty ELSE meta[out(p)]]
  /\ Goto(p, "check")
  /\ UNCHANGED <<meta, image, runs, source, killed>>

\* Mutation: the meta file is not compared.
Check_ImageOnly(p) ==
  /\ pc[p] = "check"
  /\ Goto(p, IF image[out(p)] = NoFile THEN "truncate" ELSE "done")
  /\ UNCHANGED <<meta, image, runs, source, old_meta, killed>>

\* An image that exists and has the expected meta file is not rendered.
Check(p) ==
  /\ pc[p] = "check"
  /\ Goto(p, IF image[out(p)] = NoFile \/ old_meta[p] # source[p]
             THEN "truncate" ELSE "done")
  /\ UNCHANGED <<meta, image, runs, source, old_meta, killed>>

\* fs.write(meta, meta_content) opens the file, then writes it.
TruncateMeta(p) ==
  /\ pc[p] = "truncate"
  /\ meta' = [meta EXCEPT ![out(p)] = Empty]
  /\ Goto(p, "write")
  /\ UNCHANGED <<image, runs, source, old_meta, killed>>

WriteMeta(p) ==
  /\ pc[p] = "write"
  /\ meta' = [meta EXCEPT ![out(p)] = source[p]]
  /\ Goto(p, "call")
  /\ UNCHANGED <<image, runs, source, old_meta, killed>>

\* Mutation: ypp does not wait for the end of the program.
OpenImage_NoWait(p) ==
  /\ pc[p] = "call"
  /\ source[p] \in Broken => source[p] \in Early
  /\ image' = [image EXCEPT ![out(p)] = Partial]
  /\ Goto(p, "done")
  /\ UNCHANGED <<meta, runs, source, old_meta, killed>>

\* The image file is opened: by the shell before the program starts, or by the
\* program when it has accepted its input.
OpenImage(p) ==
  /\ pc[p] = "call"
  /\ source[p] \in Broken => source[p] \in Early
  /\ image' = [image EXCEPT ![out(p)] = Partial]
  /\ Goto(p, "wait")
  /\ UNCHANGED <<meta, runs, source, old_meta, killed>>

\* It ends and the image is complete: ypp goes on.
CloseImage(p) ==
  /\ pc[p] = "wait"
  /\ source[p] \notin Broken
  /\ image' = [image EXCEPT ![out(p)] = source[p]]
  /\ Goto(p, "done")
  /\ UNCHANGED <<meta, runs, source, old_meta, killed>>

\* Mutation: the macro tries again.
DiagramError_Retry(p) ==
  /\ source[p] \in Broken
  /\ pc[p] = IF source[p] \in Early THEN "wait" ELSE "call"
  /\ Goto(p, "read")
  /\ UNCHANGED <<meta, image, runs, source, old_meta, killed>>

\* The program fails: ypp.error "diagram error" ends the process, and what was
\* opened too early is left as it is.
DiagramError(p) ==
  /\ source[p] \in Broken
  /\ pc[p] = IF source[p] \in Early THEN "wait" ELSE "call"
  /\ Goto(p, "exited")
  /\ UNCHANGED <<meta, image, runs, source, old_meta, killed>>

\* The process and the program it runs are killed.  From the end of the meta
\* file to the end of the image, these two do not agree.
Kill(p) ==
  /\ Killed
  /\ pc[p] \notin {"idle", "done", "exited"}
  /\ killed' = IF pc[p] \in {"call", "wait"} THEN killed \cup {out(p)} ELSE killed
  /\ Goto(p, "exited")
  /\ UNCHANGED <<meta, image, runs, source, old_meta>>

Render(p) ==
  \/ ReadMeta(p) \/ Check(p) \/ TruncateMeta(p) \/ WriteMeta(p)
  \/ OpenImage(p) \/ CloseImage(p) \/ DiagramError(p)

ImageNext == \E p \in Proc : Render(p) \/ Kill(p) \/ \E s \in Document[p] : Start(p, s)

\* A process that renders goes on, and the external program ends.
ImageSpec == ImageInit /\ [][ImageNext]_image_vars /\ \A p \in Proc : WF_image_vars(Render(p))

-----------------------------------------------------------------------------
(* Properties. *)

\* What a rendering of s leaves in its image, in the end: a command that opens
\* the image too early leaves an incomplete one when its program fails.
Shown(s) == IF s \in Broken \cap Early THEN Partial ELSE s

\* A macro that returns the link to an image leaves there the image of its
\* source (image.lua:70: "renders `source` and save the image to a file named
\* `output_name`"), whatever was rendered there before and wherever the
\* processes that did it were killed, unless it was between the end of the meta
\* file and the end of the image.  It also returns, with no error, the
\* incomplete image of a source whose program has failed before, when its
\* command opens the image too early (image.lua:274).
ReturnedImageIsCurrent ==
  \A p \in Proc :
    /\ pc[p] = "done" /\ out(p) \notin killed
    /\ \A q \in Proc \ {p} : pc[q] \in {"idle", "exited"}
    => image[out(p)] = Shown(source[p])

\* What ReturnedImageIsCurrent relies on: processes share an image only when
\* they render the same source, and a name that several sources use is not
\* given to one that cannot be rendered.
OwnImages ==
  \A p, q \in Proc : \A s \in Document[p], t \in Document[q] :
    ImageOf[s] = ImageOf[t] /\ s # t => p = q /\ s \notin Broken

Quiescent == \A p \in Proc : pc[p] \in {"idle", "done", "exited"}

\* When processes share images named after the hash of their sources, every
\* image a link was returned to is complete once they have all ended, though
\* one may have relied on the meta file another had just written; with the
\* same two exceptions.
Hash == {s \in Source : \A t \in Source \ {s} : ImageOf[t] # ImageOf[s]}

SharedImagesComplete ==
  Quiescent =>
    \A p \in Proc :
      pc[p] = "done" /\ source[p] \in Hash /\ out(p) \notin killed
        => image[out(p)] = Shown(source[p])

\* Every run ends: with its image, or with an error.
EveryRunEnds ==
  \A p \in Proc : pc[p] = "read" ~> pc[p] \in {"done", "exited"}
=============================================================================
