---------------------------- MODULE MCWebClient ----------------------------
(***************************************************************************)
(* A small instance of WebClient for TLC.                                  *)
(***************************************************************************)
EXTENDS WebClient

CONSTANTS f1, f2

\* A document on its own, and another together with the label of the first.
MCDrops == {[doc |-> f1, sig |-> NoFile], [doc |-> f2, sig |-> f1]}
=============================================================================
