-------------------------- MODULE MCServerProcess --------------------------
(***************************************************************************)
(* Small instances of ServerProcess for TLC.                               *)
(***************************************************************************)
EXTENDS ServerProcess

CONSTANTS i1, i2, i3, x1, k1, k2, d1, d2

\* i1 and i2 are sent under one key for one document, i3 under a key of its own for
\* another; x1 reindexes the document of i1 and i2.
MCKeyOf == [i \in Issues |-> IF i = i3 THEN k2 ELSE k1]
MCDocOf == [r \in Requests |-> IF r = i3 THEN d2 ELSE d1]

\* i3 is sent by a client that computes no fingerprint.
MCFingerprinted == Requests \ {i3}

CONSTANTS j1, j2, p1, p2, p3, l1, l2

\* A batch of two items that two clients ask about, and one of a single item.
MCItemsOf == [j \in Jobs |-> IF j = j1 THEN 2 ELSE 1]
MCJobOf == [p \in Polls |-> IF p = p3 THEN j2 ELSE j1]

SampleStep(type, doc, arg) == [type |-> type, doc |-> doc, arg |-> arg]

\* A derivative is disclosed; a seal before and after an update; a destruction and
\* as many transfers as the query answers; two updates of one sample, which a rerun
\* repeats, and a transfer without a time, which it repeats as well.
MCManifests ==
    {<<SampleStep("ISSUE", "a", ""), SampleStep("ISSUE", "b", "a"),
       SampleStep("REGRADE", "b", "O"), SampleStep("OBSERVE", "b", "t1"),
       SampleStep("CHECKPOINT", "a", "")>>,
     <<SampleStep("ISSUE", "a", ""), SampleStep("CHECKPOINT", "a", ""),
       SampleStep("REVOKE", "a", ""), SampleStep("CHECKPOINT", "a", "")>>,
     <<SampleStep("ISSUE", "a", ""), SampleStep("DESTROY", "a", ""),
       SampleStep("OBSERVE", "a", "t1"), SampleStep("OBSERVE", "a", "t2")>>,
     <<SampleStep("ISSUE", "a", ""), SampleStep("REGRADE", "a", "O"),
       SampleStep("REGRADE", "a", "S"), SampleStep("OBSERVE", "a", "")>>}
=============================================================================
