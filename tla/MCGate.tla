------------------------------- MODULE MCGate -------------------------------
(***************************************************************************)
(* Small instances of Gate for TLC.                                        *)
(***************************************************************************)
EXTENDS Gate, TLC

CONSTANTS d1, d2, h1, h2, h3, t1, i1, i2

Original(doc, hash, grade) ==
    [doc |-> doc, hash |-> hash, grade |-> grade, parent |-> NoHash, text |-> t1,
     signed |-> TRUE, approved |-> FALSE]

\* Two documents with the same text.
TwoDocuments == {Original(d1, h1, "S"), Original(d2, h2, "S")}

Upwards == {[doc |-> d1, grade |-> "C", approved |-> FALSE]}
NoRegrades == {}

\* Batch workers are interchangeable.
IssueSymmetry == Permutations({i1, i2})

\* The file as issued, a re-saved copy of it, and a stranger.
MCPresented == {<<h1, t1>>, <<h3, t1>>, <<h3, NoHash>>}
=============================================================================
