-------------------------- MODULE MCLabelLifecycle --------------------------
(***************************************************************************)
(* Small instances of LabelLifecycle for TLC.                              *)
(***************************************************************************)
EXTENDS LabelLifecycle, TLC

CONSTANTS d1, d2, h1, h2, t1

Original(grade, signed) ==
    [doc |-> d1, hash |-> h1, grade |-> grade, parent |-> NoHash, text |-> t1,
     signed |-> signed, approved |-> FALSE]

\* A copy under a docGuid and a hash of its own, declared to come from h1.
Derivative(grade, approved) ==
    [doc |-> d2, hash |-> h2, grade |-> grade, parent |-> h1, text |-> t1,
     signed |-> TRUE, approved |-> approved]

\* Signed and unsigned originals, a second issue of the same docGuid, and
\* derivatives below and at the grade of the original.
MixedIssueArgs ==
    {Original("S", TRUE), Original("S", FALSE), Derivative("O", FALSE),
     Derivative("O", TRUE), Derivative("S", FALSE)}

\* One original, issued and perhaps issued again.
OriginalOnly == {Original("S", TRUE)}

Upwards == {[doc |-> d1, grade |-> "C", approved |-> FALSE]}

UpAndDown ==
    {[doc |-> d1, grade |-> g, approved |-> ok] : g \in {"C", "O"}, ok \in BOOLEAN}
=============================================================================
