--------------------------- MODULE OfflineVerdict ---------------------------
(***************************************************************************)
(* What the verification page makes of a verdict, and what it says when no *)
(* server answers: verify-pwa/src/pages/Verify.jsx (runVerify), lib/cms.js *)
(* (parseLabel, verifyLocal), components/ResultCard.jsx and the staged     *)
(* attacks of components/AttackDemo.jsx.                                   *)
(*                                                                         *)
(* The evidence q is that of module Verdict: what a server would have in   *)
(* hand if it were asked.  The browser sees the file, the label, and the   *)
(* list of trusted and revoked certificates it holds:                      *)
(*   held   none, current, or stale: loaded before the certificate of the  *)
(*          label was revoked                                              *)
(***************************************************************************)
EXTENDS Verdict, FiniteSets

HasLabel(q) == q.presented \in {"own", "foreign"}

\* parseLabel: what does not decode, or carries no grade, stops everything.
Parses(q) == q.presented # "malformed"

ListsRevoked(q, held) == held = "current" /\ q.cms.revoked

\* Mutant: the list of revoked certificates is not looked at.
LocalSignatureUnlisted(q, held) ==
    IF ~HasLabel(q) THEN "absent"
    ELSE IF ~q.cms.valid THEN "invalid"
    ELSE IF held = "none" THEN "untrusted_ca"
    ELSE IF q.cms.chain THEN "valid" ELSE "untrusted_ca"

\* verifyLocal; the label of another file fails its first check.
LocalSignature(q, held) ==
    IF ~HasLabel(q) THEN "absent"
    ELSE IF ~q.cms.valid THEN "invalid"
    ELSE IF held = "none" THEN "untrusted_ca"
    ELSE IF ListsRevoked(q, held) THEN "untrusted_ca"
    ELSE IF q.cms.chain THEN "valid" ELSE "untrusted_ca"

NoAttribution == [grade |-> "", approval |-> ""]

\* The offline branch of runVerify: the label itself is all there is, a
\* label of another file included.
RunLocal(q, held) ==
    LET said == IF HasLabel(q) THEN q.label ELSE NoAttribution
    IN  [checks |-> [signature  |-> LocalSignature(q, held),
                     ledger     |-> "unavailable",
                     revocation |-> "none",
                     validity   |-> IF HasLabel(q) THEN q.window ELSE "in_window",
                     treaty     |-> "not_applicable"],
         attribution |-> said, translated |-> said.grade, hint |-> "review"]

Failed == [hint |-> "none"]

\* reply: answered, refused (an HTTP error) or unreachable.
RunVerify(q, reply, held) ==
    IF ~Parses(q) THEN Failed
    ELSE IF reply = "answered" THEN Run(q)
    ELSE IF reply = "refused" THEN Failed ELSE RunLocal(q, held)

-----------------------------------------------------------------------------
(* ResultCard: five tiles, and the hint as an aside *)

Tone(check, value) ==
    CASE value \in {"invalid", "unregistered", "revoked", "not_translatable"} -> "bad"
      [] value \in {"valid", "registered", "none", "in_window", "not_applicable", "translated"}
            -> "ok"
      [] OTHER -> "warn"

Tiles == {"signature", "ledger", "revocation", "validity", "treaty"}

TreatyLine(result) ==
    CASE result.checks.treaty = "not_applicable" -> "no line"
      [] result.checks.treaty = "translated"     -> result.translated
      [] OTHER                                   -> result.checks.treaty

Card(result) ==
    [tones |-> {Tone(c, result.checks[c]) : c \in Tiles},
     grade |-> IF result.attribution.grade = "" THEN "?" ELSE result.attribution.grade,
     line  |-> TreatyLine(result), hint |-> result.hint]

-----------------------------------------------------------------------------
(* AttackDemo: copies of a labelled file, each altered in one way.  They   *)
(* are verified by the server, without text hash and without organisation. *)

Unsigned == [valid |-> FALSE, chain |-> FALSE, revoked |-> FALSE]

Baseline(q) == [q EXCEPT !.otherOrg = FALSE, !.treaty = "nil"]

\* Mutant: the copy is hashed before the bit is turned.
TamperedTooLate(q, turns) == Baseline(q)

\* turns: does turning the bit in the middle change what is hashed?  Not in
\* a file without a middle, nor where the decoder replaces the byte anyway.
\* The altered content is in nobody's ledger.
Tampered(q, turns) ==
    IF ~turns THEN Baseline(q)
    ELSE [Baseline(q) EXCEPT !.presented = "foreign", !.cms = Unsigned,
                             !.lookup = IF @ = "error" THEN "error" ELSE "none"]

\* forgeGrade turns the grade byte to S, or from S to O.
Forged(grade) == IF grade = "S" THEN "O" ELSE "S"

GradeForged(q) ==
    [Baseline(q) EXCEPT !.label.grade = Forged(@), !.cms = Unsigned]

SignatureForged(q) == [Baseline(q) EXCEPT !.cms = Unsigned]

LabelRemoved(q) == [Baseline(q) EXCEPT !.presented = "none"]

\* runScenarios, in its order, with what is expected of each.
Scenarios(q, turns) ==
    <<[ask |-> Baseline(q),         expectDeny |-> FALSE],
      [ask |-> Tampered(q, turns),  expectDeny |-> TRUE],
      [ask |-> GradeForged(q),      expectDeny |-> TRUE],
      [ask |-> SignatureForged(q),  expectDeny |-> TRUE],
      [ask |-> LabelRemoved(q),     expectDeny |-> FALSE]>>

Badge(s, i) ==
    IF s.expectDeny THEN (IF Run(s.ask).hint = "deny" THEN "caught" ELSE "missed")
    ELSE IF i = 1 THEN "passes"   \* whatever the verdict
    ELSE "for the gate"

Badges(q, turns) ==
    [i \in DOMAIN Scenarios(q, turns) |-> Badge(Scenarios(q, turns)[i], i)]
=============================================================================
