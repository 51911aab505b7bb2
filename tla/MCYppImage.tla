----------------------------- MODULE MCYppImage -----------------------------
(* Small instances of YppImage for TLC. *)
EXTENDS YppImage

\* Images named by the document: all the sources go to one image.
Named == [s \in Source |-> "image"]

\* Two sources that go to one image, the others to images named after their
\* hash.
Mixed == [s \in Source |-> IF s \in {"s", "t"} THEN "image" ELSE s]

\* Only the first document has an image with a name.
MixedDocument == [p \in Proc |-> IF p = "p" THEN Source ELSE Source \ {"s", "t"}]

OneDocument == [p \in Proc |-> Source]
=============================================================================
