-------------------------------- MODULE Gate --------------------------------
(***************************************************************************)
(* Verification beside the life of labels: verify.Run reads the ledger in  *)
(* two or three queries that take no lock, while the handlers of           *)
(* LabelLifecycle append to it.  Each query is a step and may fail.        *)
(* What Run makes of its readings is in module Verdict; here signatures    *)
(* are good, validity windows open and the verifier the issuer's own.      *)
(***************************************************************************)
EXTENDS LabelLifecycle

CONSTANTS
    Gates,         \* requests to POST /v1/verify at level 2
    Presented,     \* the <<content hash, text hash>> pairs they carry
    LedgerFails    \* may a query of the ledger fail?

V == INSTANCE Verdict

ASSUME GateAssumption ==
    /\ Presented \subseteq Hashes \X (Hashes \union {NoHash})
    /\ LedgerFails \in BOOLEAN

VARIABLES
    gpc,       \* how far each verification has got
    asked,     \* its parameters, and the length of the ledger when it came in
    matched,   \* the seq of the row it has matched, 0 for none
    result     \* ledger check, revocation check, reported grade and hint

gateVars == <<gpc, asked, matched, result>>
allVars == <<vars, gateVars>>

NoResult == [ledger |-> "", revocation |-> "", grade |-> "", hint |-> "", outage |-> FALSE]

\* Labels that exist: those of the rows, and none at all (0).
LabelsKnown == {0} \union {k \in DOMAIN events : events[k].labelled}

ByContent(h) == {k \in DOMAIN events : events[k].hash = h}
ByText(t) == {k \in DOMAIN events : t # NoHash /\ events[k].text = t}

\* The row of the presented label if it is among the rows, else the last
\* issuance, else the last row.
Match(rows, label) ==
    LET issued == {k \in rows : events[k].type \in Issuances}
    IN  CASE label \in rows -> label
          [] label \notin rows /\ issued # {} -> Max(issued)
          [] OTHER -> Max(rows)

\* Mutant: the label is not compared with the file.
SignatureOfAnyLabel(g) == IF asked[g].label = 0 THEN "absent" ELSE "valid"

\* A label whose contentHash is not the presented one is foreign; no label is
\* absent; the others carry a good signature.
SignatureOf(g) ==
    CASE asked[g].label = 0 -> "absent"
      [] asked[g].label # 0 /\ events[asked[g].label].hash # asked[g].hash -> "invalid"
      [] OTHER -> "valid"

Answer(g, ledger, revocation, grade, outage) ==
    LET checks == [signature |-> SignatureOf(g), ledger |-> ledger,
                   revocation |-> revocation, validity |-> "in_window"]
    IN  /\ result' = [result EXCEPT ![g] =
                        [ledger |-> ledger, revocation |-> revocation, grade |-> grade,
                         hint |-> V!Hint(checks), outage |-> outage]]
        /\ gpc' = [gpc EXCEPT ![g] = "done"]

-----------------------------------------------------------------------------
Arrive(g) ==
    /\ gpc[g] = "new"
    /\ \E p \in Presented, l \in LabelsKnown :
          asked' = [asked EXCEPT ![g] =
                      [hash |-> p[1], text |-> p[2], label |-> l, since |-> Len(events)]]
    /\ gpc' = [gpc EXCEPT ![g] = "arrived"]
    /\ UNCHANGED <<vars, matched, result>>

MatchIn(g, rows) ==
    /\ matched' = [matched EXCEPT ![g] = Match(rows, asked[g].label)]
    /\ gpc' = [gpc EXCEPT ![g] = "matched"]
    /\ UNCHANGED <<vars, asked, result>>

\* The label itself attributes the document when the ledger does not.
LabelGrade(g) == IF SignatureOf(g) = "valid" THEN events[asked[g].label].grade ELSE ""

Unattributed(g, ledger, outage) ==
    /\ Answer(g, ledger, "none", LabelGrade(g), outage)
    /\ UNCHANGED <<vars, asked, matched>>

\* Mutant: no second lookup by text hash.
ReadContentOnly(g) ==
    /\ gpc[g] = "arrived"
    /\ LET rows == ByContent(asked[g].hash)
       IN  \/ rows # {} /\ MatchIn(g, rows)
           \/ rows = {} /\ Unattributed(g, "unregistered", FALSE)

\* EventsByContentHash
ReadContent(g) ==
    /\ gpc[g] = "arrived"
    /\ LET rows == ByContent(asked[g].hash)
       IN  \/ rows # {} /\ MatchIn(g, rows)
           \/ rows = {} /\ asked[g].text = NoHash /\ Unattributed(g, "unregistered", FALSE)
           \/ /\ rows = {} /\ asked[g].text # NoHash
              /\ gpc' = [gpc EXCEPT ![g] = "by_text"]
              /\ UNCHANGED <<vars, asked, matched, result>>

ReadContentFails(g) ==
    /\ LedgerFails
    /\ gpc[g] = "arrived"
    /\ Unattributed(g, "unavailable", TRUE)

\* EventsByTextHash: an error is treated like an empty answer.
ReadText(g) ==
    /\ gpc[g] = "by_text"
    /\ LET rows == ByText(asked[g].text)
       IN  \/ rows # {} /\ MatchIn(g, rows)
           \/ rows = {} /\ Unattributed(g, "unregistered", FALSE)

ReadTextFails(g) ==
    /\ LedgerFails
    /\ gpc[g] = "by_text"
    /\ Unattributed(g, "unregistered", TRUE)

\* LatestByDoc: an error leaves the revocation check at "none".
Conclude(g, latest, outage) ==
    LET m == matched[g]
        l == IF latest = 0 THEN V!NoEvent ELSE [type |-> events[latest].type, seq |-> latest]
        current == latest > m /\ events[latest].type = "REGRADE"
    IN  /\ Answer(g, "registered", V!Revocation([seq |-> m], l),
                  IF current THEN events[latest].grade ELSE events[m].grade, outage)
        /\ UNCHANGED <<vars, asked, matched>>

\* Mutant: the last issuance stands for the last event.
ReadLatestIssuance(g) ==
    /\ gpc[g] = "matched"
    /\ LET issued == {k \in OfDoc(events[matched[g]].doc) : events[k].type \in Issuances}
       IN  Conclude(g, IF issued = {} THEN 0 ELSE Max(issued), FALSE)

ReadLatest(g) ==
    /\ gpc[g] = "matched"
    /\ Conclude(g, LatestSeq(events[matched[g]].doc), FALSE)

ReadLatestFails(g) ==
    /\ LedgerFails
    /\ gpc[g] = "matched"
    /\ Conclude(g, 0, TRUE)

Verify(g) ==
    \/ Arrive(g) \/ ReadContent(g) \/ ReadContentFails(g)
    \/ ReadText(g) \/ ReadTextFails(g) \/ ReadLatest(g) \/ ReadLatestFails(g)

GateInit ==
    /\ Init
    /\ gpc = [g \in Gates |-> "new"]
    /\ asked = [g \in Gates |-> [hash |-> NoHash, text |-> NoHash, label |-> 0, since |-> 0]]
    /\ matched = [g \in Gates |-> 0]
    /\ result = [g \in Gates |-> NoResult]

GateNext ==
    \/ Next /\ UNCHANGED gateVars
    \/ \E g \in Gates : Verify(g)

GateSpec == GateInit /\ [][GateNext]_allVars

-----------------------------------------------------------------------------
(* Properties *)

Done(g) == gpc[g] = "done"

\* The document a verification has matched was closed when the verification
\* came in, and has not been issued again since.
ClosedSince(g) ==
    LET d == events[matched[g]].doc
        closing == {k \in OfDoc(d) : k <= asked[g].since /\ events[k].type \in {"REVOKE", "DESTROY"}}
    IN  /\ closing # {}
        /\ \A k \in OfDoc(d) : k > Max(closing) => events[k].type \notin Issuances

\* Once a revocation or destruction is recorded and the document is not issued
\* again, every later verification that matches the document and reads its
\* newest row denies it.
ClosedIsDenied ==
    \A g \in Gates :
        Done(g) /\ ~result[g].outage /\ matched[g] # 0 /\ ClosedSince(g) =>
            result[g].hint = "deny"

\* "allow" is said only to the label registered with an issuance of that very
\* content, and only if no newer row of the document was there when the last
\* query was answered, unless that query failed.
AllowIsCurrent ==
    [][\A g \in Gates :
          ~Done(g) /\ Done(g)' /\ result'[g].hint = "allow" =>
              /\ result'[g].outage \/ matched[g] = LatestSeq(events[matched[g]].doc)
              /\ events[matched[g]].type \in Issuances
              /\ asked[g].label # 0
              /\ events[asked[g].label].hash = asked[g].hash]_allVars

\* What was in the ledger when a verification came in is found: whatever else
\* is appended meanwhile and whatever query fails, a file is called
\* unregistered without an outage only if neither its hash nor its text was
\* there, and registered only for a row that bears one of them.
RegisteredIsFound ==
    \A g \in Gates :
        Done(g) =>
            LET bearing == ByContent(asked[g].hash) \union ByText(asked[g].text)
            IN  /\ result[g].ledger = "unregistered" /\ ~result[g].outage =>
                      \A k \in bearing : k > asked[g].since
                /\ result[g].ledger = "registered" => matched[g] \in bearing

\* A query that failed is reported as an unavailable ledger: the verdict is
\* withheld, and nothing is called unregistered or in force.
OutageIsUnavailable ==
    \A g \in Gates : Done(g) /\ result[g].outage => result[g].ledger = "unavailable"

-----------------------------------------------------------------------------
(* The strengthening that makes the properties above inductive: what a     *)
(* verification has read stays true of the ledger, because it only grows.  *)

GateTypes ==
    /\ gpc \in [Gates -> {"new", "arrived", "by_text", "matched", "done"}]
    /\ asked \in [Gates -> [hash : Hashes \union {NoHash}, text : Hashes \union {NoHash},
                             label : Nat, since : Nat]]
    /\ matched \in [Gates -> Nat]
    /\ result \in [Gates -> [ledger : {"", "registered", "unregistered", "unavailable"},
                              revocation : {"", "none", "revoked", "superseded"},
                              grade : Grades \union {""},
                              hint : {"", "allow", "review", "deny"}, outage : BOOLEAN]]

\* The presented label is of the presented content.
OwnLabel(g) == asked[g].label # 0 /\ events[asked[g].label].hash = asked[g].hash

Bearing(g) == ByContent(asked[g].hash) \union ByText(asked[g].text)

\* How far a verification has got, and what it knows by then: its label is that of
\* a row; it turns to the text hash only when no row that was there bears the
\* content, so never with a label of its own; and what it has matched bears the
\* content or the text and is the row of its own label, if it has one.
Reading(g) ==
    /\ gpc[g] # "new" => asked[g].since <= Len(events) /\ asked[g].label \in LabelsKnown
    /\ gpc[g] \in {"new", "arrived", "by_text"} => matched[g] = 0
    /\ gpc[g] = "by_text" =>
          ~OwnLabel(g) /\ \A k \in ByContent(asked[g].hash) : k > asked[g].since
    /\ gpc[g] = "matched" =>
          matched[g] \in Bearing(g) /\ (OwnLabel(g) => matched[g] = asked[g].label)
    /\ Done(g) => matched[g] \in {0} \union DOMAIN events

GateInv ==
    /\ GateTypes
    /\ \A g \in Gates : Reading(g)
    /\ RegisteredIsFound
    /\ ClosedIsDenied
=============================================================================
