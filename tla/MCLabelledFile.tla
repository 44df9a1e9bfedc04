--------------------------- MODULE MCLabelledFile ---------------------------
(***************************************************************************)
(* Small files for TLC.                                                    *)
(***************************************************************************)
EXTENDS LabelledFile

AllKinds == {"markdown", "pdf", "ooxml", "rtf", "plaintext"}

\* A text with a newline at the end, and one that begins with a section.
PlainTexts == {<<Word(1), Blank>>, <<Fence, Word(3), Fence, Word(1)>>}

OneText == {<<Word(1)>>}

Foreigns == {Foreign}

TextAndPackage == {"markdown", "ooxml"}

Outside == {"markdown", "rtf", "plaintext"}
=============================================================================
