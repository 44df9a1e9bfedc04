------------------------------ MODULE Verdict ------------------------------
(***************************************************************************)
(* How verify.Run turns what it has read into a verdict:                   *)
(* internal/verify/verify.go.  The reads themselves, and what may happen   *)
(* between them, are in module Gate.                                       *)
(*                                                                         *)
(* An evidence record q says what Run has in hand:                         *)
(*   presented   the label of the request: none, malformed (does not       *)
(*               parse), foreign (its contentHash is another), own         *)
(*   label       grade and approval state of an own label                  *)
(*   lookup      of the ledger: skipped (level 1), error, none, found      *)
(*   matched     the ledger row Run settled on, if found                   *)
(*   latest      the newest row of its document, or NoEvent                *)
(*   cms         what CMSVerifier.Verify says of the presented label       *)
(*   window      where now lies in the validity of the label in effect     *)
(*   disclosure  has that label's disclosureCondition passed?              *)
(*   otherOrg    is the verifier an organisation other than the issuer?    *)
(*   treaty      the treaty service: nil, translates, expired, none        *)
(***************************************************************************)
EXTENDS Integers

NoEvent == [type |-> "NONE"]

Grades == {"C", "S", "O"}
Approvals == {"PROVISIONAL", "CONFIRMED"}
Issuances == {"ISSUE", "DERIVE", "REGRADE"}

OwnLabel(q) == q.presented = "own"
Registered(q) == q.lookup = "found"

Ledger(q) ==
    CASE q.lookup = "found" -> "registered"
      [] q.lookup = "none"  -> "unregistered"
      [] OTHER              -> "unavailable"

Revocation(matched, latest) ==
    IF latest = NoEvent THEN "none"
    ELSE IF latest.type \in {"DESTROY", "REVOKE"} THEN "revoked"
    ELSE IF latest.seq > matched.seq THEN "superseded" ELSE "none"

\* A revoked certificate still vouches for a label that was registered while
\* the certificate was valid (T7), and for no other (T8).
Signature(q) ==
    LET vouched == q.cms.revoked => Registered(q) /\ q.matched.inCert
    IN  IF q.presented = "none" THEN "absent"
        ELSE IF ~OwnLabel(q) \/ ~q.cms.valid THEN "invalid"
        ELSE IF q.roots /\ ~q.cms.chain THEN "untrusted_ca"
        ELSE IF vouched THEN "valid" ELSE "invalid"

\* The label whose dates count: the presented one, else the registered one.
HasEffective(q) == OwnLabel(q) \/ (Registered(q) /\ q.matched.labelled)

Validity(q) == IF HasEffective(q) THEN q.window ELSE "in_window"

\* The ledger first, and its current grade if the label was regraded since.
Attribution(q) ==
    CASE Registered(q) ->
            IF q.latest # NoEvent /\ q.latest.type = "REGRADE" /\ q.latest.seq > q.matched.seq
            THEN [grade |-> q.latest.grade, approval |-> q.latest.approval]
            ELSE [grade |-> q.matched.grade, approval |-> q.matched.approval]
      [] ~Registered(q) /\ OwnLabel(q) -> q.label
      [] OTHER -> [grade |-> "", approval |-> ""]

\* Without an attribution there is no issuer to compare the verifier with.
Treaty(q) ==
    LET a == Attribution(q)
    IN  IF ~q.otherOrg \/ a.approval = "" THEN "not_applicable"
        ELSE IF a.grade = "C" \/ a.approval = "PROVISIONAL" THEN "not_translatable"
        ELSE CASE q.treaty = "translates" -> "translated"
               [] q.treaty = "expired"    -> "expired"
               [] OTHER                   -> "no_treaty"

TranslatedGrade(q) ==
    IF Treaty(q) = "translated" THEN "translated" ELSE Attribution(q).grade

Hint(c) ==
    LET denied == \/ c.signature = "invalid"
                  \/ c.revocation = "revoked"
                  \/ c.ledger = "unregistered"
        doubtful == \/ c.signature \in {"untrusted_ca", "absent"}
                    \/ c.ledger = "unavailable"
                    \/ c.revocation = "superseded"
                    \/ c.validity # "in_window"
    IN  IF denied THEN "deny" ELSE IF doubtful THEN "review" ELSE "allow"

Checks(q) ==
    [signature  |-> Signature(q),
     ledger     |-> Ledger(q),
     revocation |-> IF Registered(q) THEN Revocation(q.matched, q.latest) ELSE "none",
     validity   |-> Validity(q),
     treaty     |-> Treaty(q)]

Reclassify(q) == HasEffective(q) /\ q.disclosure /\ Attribution(q).grade = "S"

Soften(h, when) == IF h = "allow" /\ when THEN "review" ELSE h

\* Mutant: the provisional rule overrides what was decided before it.
VerdictHintProvisional(q) ==
    IF Attribution(q).approval = "PROVISIONAL" THEN "review"
    ELSE IF Treaty(q) = "not_translatable" THEN "deny"
    ELSE Soften(Hint(Checks(q)), Reclassify(q) \/ Treaty(q) \in {"no_treaty", "expired"})

\* The adjustments of the hint, in the order Run makes them.
VerdictHint(q) ==
    LET disclosed == Soften(Hint(Checks(q)), Reclassify(q))
        foreign == IF Treaty(q) = "not_translatable"
                   THEN "deny"
                   ELSE Soften(disclosed, Treaty(q) \in {"no_treaty", "expired"})
    IN  Soften(foreign, Attribution(q).approval = "PROVISIONAL")

Run(q) ==
    [checks |-> Checks(q), attribution |-> Attribution(q),
     translated |-> TranslatedGrade(q), hint |-> VerdictHint(q)]
=============================================================================
