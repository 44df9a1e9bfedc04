--------------------------- MODULE ServerProcess ---------------------------
(***************************************************************************)
(* lmserver as one process that may stop at any time: its requests         *)
(* (module Issuance), its batch jobs (Batch), its key store (KeyStore) and *)
(* the loading of samples (Samples).  A stop ends what is under way and    *)
(* forgets what is in memory; tables and files stay.                       *)
(*                                                                         *)
(* The four share nothing else, so each is looked at on its own: a         *)
(* behaviour is about one of them, its part.                               *)
(***************************************************************************)
EXTENDS Issuance, Batch, KeyStore, Samples

CONSTANT Parts  \* the parts looked at

VARIABLE part

vars == <<part, issuanceVars, batchVars, keyVars, sampleVars>>

Init ==
    /\ part \in Parts
    /\ IssuanceInit /\ BatchInit /\ KeyStoreInit
    /\ IF part = "samples"
       THEN SamplesInit
       ELSE SamplesInit /\ manifest = CHOOSE m \in Manifests : TRUE

Next ==
    \/ part = "issuing" /\ IssuanceNext /\ UNCHANGED <<part, batchVars, keyVars, sampleVars>>
    \/ part = "batch" /\ BatchNext /\ UNCHANGED <<part, issuanceVars, keyVars, sampleVars>>
    \/ part = "keys" /\ KeyStoreNext /\ UNCHANGED <<part, issuanceVars, batchVars, sampleVars>>
    \/ part = "samples" /\ SamplesNext /\ UNCHANGED <<part, issuanceVars, batchVars, keyVars>>

\* Workers and handlers are goroutines, which the runtime schedules, and the store
\* answers each query: while any of them can go on, one does.  Nothing is assumed of
\* clients (Sent) nor of stops.
Fairness ==
    WF_vars(part = "batch" /\ BatchServed
            /\ UNCHANGED <<part, issuanceVars, keyVars, sampleVars>>)

Spec == Init /\ [][Next]_vars /\ Fairness
=============================================================================
