------------------------------ MODULE MCLedger ------------------------------
(***************************************************************************)
(* Small instances of Ledger for TLC.                                      *)
(***************************************************************************)
EXTENDS Ledger, TLC

\* POST /v1/checkpoints with {}, with an explicit range that may be complete,
\* with one that reaches past the tip, and with one that is backwards.
MCSealRanges == {<<0, 0>>, <<2, 2>>, <<2, 4>>, <<2, 1>>}

\* GET /v1/ledger/verify with no range, from an anchor row, past the tip.
MCAuditRanges == {<<0, 0>>, <<2, 0>>, <<1, 2>>, <<3, 4>>}

DefaultRange == {<<0, 0>>}

AppendSymmetry == Permutations(Appends)
=============================================================================
