----------------------------- MODULE MCAlgorithms ---------------------------
(***************************************************************************)
(* The sequential algorithms, each over all of its small inputs: a         *)
(* behaviour computes the Merkle root of one range of rows (module         *)
(* Merkle), verifies one combination of evidence (modules Verdict and      *)
(* OfflineVerdict), reads one list of treaties (modules Translation and    *)
(* Passports), extends a ledger row by row, whose family trees are looked  *)
(* at on the way (module Lineage), does so with the kinds of rows the      *)
(* pages tell apart (modules LedgerViews and LaneChart), or lays out one   *)
(* scene of a page (modules Journeys, Taxonomy, Likeness and Drawings).    *)
(***************************************************************************)
EXTENDS Merkle, OfflineVerdict, Lineage, Journeys, LaneChart, Taxonomy, Drawings, Likeness

CONSTANTS
    MaxRows,   \* the longest ledger
    MaxDepth,  \* the deepest family tree asked for
    MaxLog     \* the longest ledger shown

VARIABLES
    q, res,     \* the evidence and the verdict
    table,      \* the ledger
    treaties,   \* the list of treaties
    log,        \* the ledger the pages load
    scene       \* what a page lays out

NoQuery == [presented |-> "nothing"]
NoResult == [hint |-> "none"]

Matches ==
    [seq : {1}, grade : Grades, approval : Approvals, labelled : BOOLEAN, inCert : BOOLEAN]

\* The matched row itself, a newer row of each kind, or a failed query.
Latests ==
    {NoEvent,
     [type |-> "ISSUE", seq |-> 1, grade |-> "O", approval |-> "CONFIRMED"],
     [type |-> "ISSUE", seq |-> 2, grade |-> "S", approval |-> "CONFIRMED"],
     [type |-> "REGRADE", seq |-> 2, grade |-> "C", approval |-> "CONFIRMED"],
     [type |-> "REGRADE", seq |-> 2, grade |-> "S", approval |-> "PROVISIONAL"],
     [type |-> "REVOKE", seq |-> 2, grade |-> "", approval |-> ""],
     [type |-> "DESTROY", seq |-> 2, grade |-> "", approval |-> ""]}

Labels == [grade : Grades, approval : Approvals]

AnyLabel == [grade |-> "O", approval |-> "CONFIRMED"]
AnyMatch == CHOOSE m \in Matches : TRUE

Readings ==
    [lookup : {"skipped", "error", "none"}, matched : {AnyMatch}, latest : {NoEvent}]
        \union [lookup : {"found"}, matched : Matches, latest : Latests]

Asked ==
    /\ \E r \in Readings, label \in Labels, window \in {"not_yet", "in_window", "expired"},
          presented \in {"none", "malformed", "foreign", "own"}, roots, disclosure \in BOOLEAN,
          cms \in [valid : BOOLEAN, chain : BOOLEAN, revoked : BOOLEAN], 
          side \in {<<FALSE, "nil">>} \union ({TRUE} \X {"nil", "translates", "expired", "none"}) :
          /\ presented # "own" =>
                /\ cms = [valid |-> FALSE, chain |-> FALSE, revoked |-> FALSE] /\ roots
                /\ label = AnyLabel
          /\ presented = "own" /\ r.lookup = "found" => label = AnyLabel
          /\ cms.chain => cms.valid
          /\ q = [presented |-> presented, label |-> label, lookup |-> r.lookup,
                  matched |-> r.matched, latest |-> r.latest, cms |-> cms, roots |-> roots,
                  window |-> window, disclosure |-> disclosure,
                  otherOrg |-> side[1], treaty |-> side[2]]
    /\ res = NoResult

Docs == 1..3
Hashes == {"a", "b", "c"}

\* Rows a handler could append: an issuance of any content from any parent, and
\* the end of a document, which repeats its hash but not its parent.
NextRows ==
    [doc : Docs, hash : Hashes, parent : Hashes \union {NoHash}, issuance : {TRUE}]
        \union {[table[LatestRow(table, d)] EXCEPT !.issuance = FALSE, !.parent = NoHash] :
                   d \in Documents(table)}

\* Treaties as they are in use, one that raises, one that is not one to one.
GradeMaps ==
    {[g \in {"S", "O"} |-> g], [g \in {"O"} |-> "S"], [g \in {"S", "O"} |-> "S"]}

Treaties ==
    {t \in [partyA : {"KPOST", "MOIS"}, partyB : {"KPOST", "MOIS", "MSIT"}, gradeMap : GradeMaps,
            left : {-3, -1, 1, 300}, signed : BOOLEAN, inForce : BOOLEAN] :
        t.partyA # t.partyB /\ t.inForce = (t.signed /\ t.left >= 0)}

\* Rows as the handlers append them, except that a page may see any issuance;
\* the first one is of the first document and of the first hash.
Given == {[grade |-> "C", approval |-> "CONFIRMED"], [grade |-> "S", approval |-> "PROVISIONAL"],
          [grade |-> "O", approval |-> "CONFIRMED"]}

NextEvents ==
    {[doc |-> at[1], type |-> IF p = NoHash THEN "ISSUE" ELSE "DERIVE", grade |-> g.grade,
      approval |-> g.approval, hash |-> at[2], parent |-> p,
      root |-> InheritedRoot(log, at[1], p)] :
        at \in IF log = << >> THEN {<<1, "a">>} ELSE (1..2) \X {"a", "b"},
        g \in Given, p \in {"a", "b", NoHash}}
    \union
    {[Current(log, d) EXCEPT !.type = "REGRADE", !.grade = g.grade, !.approval = g.approval] :
        d \in {x \in DocsIn(log) : Current(log, x).type \notin Closing}, g \in Given}
    \union
    {[Current(log, d) EXCEPT !.type = t, !.grade = "", !.approval = "", !.parent = NoHash] :
        d \in DocsIn(log), t \in Closing}

\* Observations: a passage by each kind of treaty, with ends that may be unknown.
Observations ==
    {[kind |-> k, from |-> f, to |-> t, treaty |-> p[1], grade |-> p[2]] :
        k \in {"SENT", "VERIFIED"}, f, t \in {"KPOST", "MOIS", Nobody},
        p \in {<<"translated", "S">>, <<"translated", "O">>, <<"no_treaty", "">>}}

\* Passages of two documents, of any of three organisations.
Passages ==
    {[kind |-> "VERIFIED", from |-> p[1], to |-> p[2], doc |-> p[3], treaty |-> g[1], grade |-> g[2]] :
        p \in {<<"KPOST", "MOIS", 1>>, <<"KPOST", "MSIT", 1>>, <<"MOIS", "MSIT", 2>>, <<"MOIS", "KPOST", 2>>},
        g \in {<<"translated", "S">>, <<"translated", "O">>, <<"no_treaty", "O">>}}

\* A document issued on day 10 and verified abroad on some day, under a treaty
\* that ends on some day.
Stamped(notAfter, at) ==
    [kind |-> "VERIFIED", from |-> "KPOST", to |-> "MOIS", at |-> at,
     treaty |-> IF at > notAfter THEN "expired" ELSE "translated"]

\* Rows of the classification page: a later row may bring what an earlier lacks.
ClassRows ==
    {[doc |-> d, type |-> "ISSUE", brm |-> b, clause |-> c, tags |-> t, grade |-> g] :
        d \in 1..2, b \in {NoClass, "tax"}, c \in {NoClause, 5}, g \in {"", "S", "O"},
        t \in {<< >>, <<<<1>>, <<2>>>>, <<<<2>>, <<1, 2>>>>}}

\* A regrade, which repeats the class, the clause and the tags.
Regraded(row, g) == <<row, [row EXCEPT !.type = "REGRADE", !.grade = g]>>

\* One document with more tags than are drawn, and a second with some of them.
Tagged(tags, others) ==
    [i \in 1..2 |-> [doc |-> i, type |-> "ISSUE", brm |-> "tax", clause |-> i, grade |-> "O",
                     tags |-> [n \in 1..(IF i = 1 THEN tags ELSE others) |-> <<n * i>>]]]

\* Short texts: one with every kind of character, the other of letters.
Texts(chars) == BoundedSeq(chars, 3)

Spots == {0, 20, 40, 60, 90, 120}

OrgNames == <<"KPOST", "MOIS", "MSIT">>

NoScene == [shows |-> "nothing"]

Scenes ==
    {[shows |-> "traffic", obs |-> o] : o \in BoundedSeq(Observations, 2)}
    \union {[shows |-> "flows", obs |-> o] : o \in BoundedSeq(Passages, 3)}
    \union {[shows |-> "journey", notAfter |-> n, days |-> <<at1, at2>>] :
                n \in 5..30, at1, at2 \in {10, 11, 14, 17, 20, 24}}
    \union {[shows |-> "classes", rows |-> r] : r \in BoundedSeq(ClassRows, 2)}
    \union {[shows |-> "classes", rows |-> Regraded(r, g)] : r \in ClassRows, g \in {"S", "O"}}
    \union {[shows |-> "classes", rows |-> Tagged(t, o)] : t, o \in 0..5}
    \union {[shows |-> "texts", a |-> a, b |-> b] :
                a \in Texts({"a", "A", "SIGMA", Blank}), b \in Texts({"a", "sigma", Blank})}
    \union {[shows |-> "stamps", xs |-> xs] : xs \in BoundedSeq(Spots, 4)}
    \union {[shows |-> "ticks", first |-> first, tip |-> first + n] : first \in 1..2, n \in 0..75}
    \union {[shows |-> "boxes", counts |-> c] : c \in BoundedSeq({1, 2, 3, 6, 7, 13}, 3)}

vars == <<leaves, level, q, res, table, treaties, log, scene>>

NoRange == leaves = << >> /\ level = <<EmptyHash>>
NoVerdict == q = NoQuery /\ res = NoResult

NoTable == table = << >> /\ treaties = << >>
NoPage == log = << >> /\ scene = NoScene

Init ==
    \/ Begin /\ NoVerdict /\ NoTable /\ NoPage
    \/ Asked /\ NoRange /\ NoTable /\ NoPage
    \/ /\ treaties \in {s \in BoundedSeq(Treaties, 2) : OnePerPair(s)}
       /\ table = << >> /\ NoRange /\ NoVerdict /\ NoPage
    \/ scene \in Scenes /\ log = << >> /\ NoRange /\ NoVerdict /\ NoTable

Idle == NoRange /\ NoVerdict /\ treaties = << >> /\ scene = NoScene

Hash == Round /\ UNCHANGED <<q, res, table, treaties, log, scene>>

Verify ==
    /\ q # NoQuery /\ res = NoResult
    /\ res' = Run(q)
    /\ UNCHANGED <<q, leaves, level, table, treaties, log, scene>>

Extend ==
    /\ Idle /\ log = << >>
    /\ Len(table) < MaxRows
    /\ \E row \in NextRows : table' = Append(table, row)
    /\ UNCHANGED <<leaves, level, q, res, treaties, log, scene>>

Write ==
    /\ Idle /\ table = << >>
    /\ Len(log) < MaxLog
    /\ \E row \in NextEvents : log' = Append(log, row)
    /\ UNCHANGED <<leaves, level, q, res, table, treaties, scene>>

Next == Hash \/ Verify \/ Extend \/ Write

Spec == Init /\ [][Next]_vars

-----------------------------------------------------------------------------
Done == res # NoResult

\* The reasons to deny, and the reasons to have a person look.
MustDeny ==
    \/ res.checks.signature = "invalid"
    \/ res.checks.ledger = "unregistered"
    \/ res.checks.revocation = "revoked"
    \/ q.otherOrg /\ (res.attribution.grade = "C" \/ res.attribution.approval = "PROVISIONAL")

MustReview ==
    \/ res.checks.signature # "valid"
    \/ res.checks.ledger # "registered"
    \/ res.checks.revocation # "none"
    \/ res.checks.validity # "in_window"
    \/ res.checks.treaty \notin {"not_applicable", "translated"}
    \/ res.attribution.approval = "PROVISIONAL"
    \/ HasEffective(q) /\ q.disclosure /\ res.attribution.grade = "S"

\* The hint is the worst the evidence calls for, whatever the order of the
\* adjustments: deny over review over allow.
HintIsWorst ==
    Done => res.hint = IF MustDeny THEN "deny" ELSE IF MustReview THEN "review" ELSE "allow"

\* An outage is not an answer, whoever notices it.  The server holds nothing to
\* be unregistered or revoked, and only the label itself can cause a denial.  A
\* browser that reaches no server accuses no label the server would not, sends
\* everything to review, and vouches for no signature that a server without its
\* ledger would refuse, unless its list of certificates is out of date.
OutageWithholds ==
    /\ Done /\ q.lookup \in {"skipped", "error"} =>
        /\ res.checks.ledger = "unavailable"
        /\ res.checks.revocation = "none"
        /\ res.hint = "deny" => \/ res.checks.signature = "invalid"
                                \/ res.checks.treaty = "not_translatable"
        /\ res.hint # "allow"
    /\ Done /\ Parses(q) =>
        \A held \in {"none", "stale", "current"} :
            LET off == RunVerify(q, "unreachable", held)
                cut == Run([q EXCEPT !.lookup = "error", !.roots = TRUE])
            IN  /\ off.checks.signature = "invalid" => cut.checks.signature = "invalid"
                /\ off.checks.signature = "valid" /\ held # "stale" =>
                        cut.checks.signature = "valid"
                /\ off.checks.signature = "valid" => held # "none"
                /\ "warn" \in Card(off).tones

\* A label that is not this document's says nothing about it: with it Run
\* attributes, dates and translates as if no label had been presented.
ForeignLabelIsIgnored ==
    Done /\ q.presented \in {"malformed", "foreign"} =>
        LET bare == Run([q EXCEPT !.presented = "none"])
        IN  /\ res.attribution = bare.attribution
            /\ res.translated = bare.translated
            /\ [res.checks EXCEPT !.signature = ""] = [bare.checks EXCEPT !.signature = ""]
            /\ res.hint = "deny"

\* The verdict follows from all of the evidence about this document, and from
\* no evidence about another one.
VerdictIsSound == HintIsWorst /\ ForeignLabelIsIgnored

\* Every staged attack on a labelled file is caught, whatever the state of the
\* document, of its certificate and of the ledger, provided that the turned bit
\* reaches what is hashed; and the card of a caught attack shows why.
AttacksAreCaught ==
    Done /\ HasLabel(q) =>
        \A turns \in BOOLEAN : \A i \in DOMAIN Scenarios(q, turns) :
            LET s == Scenarios(q, turns)[i]
            IN  s.expectDeny /\ (turns \/ i # 2) =>
                    Badges(q, turns)[i] = "caught" /\ "bad" \in Card(Run(s.ask)).tones

\* The relatives of a document are found: those it declares (module Lineage,
\* for every depth up to the bound), and those that are like it (Likeness).
RelativesAreFound ==
    /\ \A depth \in 1..MaxDepth : FindsDescendants(table, depth)
    /\ scene.shows = "texts" =>
          /\ EstimateIsTrue(scene.a, scene.b)
          /\ DiagramIsTrue(scene.a, scene.b)
          /\ \A limit \in 1..2, deep \in {NoDeep, 20} :
                SearchIsTrue(scene.a, scene.b, deep, 80, limit)

\* Modules Translation and Passports: treaties hold in both directions, and
\* the map tells them and the passages under them as they are.
PassportsAreTrue ==
    /\ IsReversible(treaties, Grades)
    /\ ShowsTreaties(treaties)
    /\ MapIsOneStory(treaties)
    /\ scene.shows = "traffic" => TrafficAgrees(scene.obs)
    /\ scene.shows = "flows" => RibbonsTile(scene.obs) /\ DocumentsListed(scene.obs)
    /\ scene.shows = "journey" =>
          HatchingMatches(<<[partyA |-> "MOIS", partyB |-> "KPOST", notAfter |-> scene.notAfter]>>,
                          "KPOST", [i \in 1..2 |-> Stamped(scene.notAfter, scene.days[i])],
                          {10} \union ToSet(scene.days))
    /\ Done => StampTellsVerdict(res)

\* Module Drawings: nothing is drawn over something else, but stamps that crowd.
DrawingsFit ==
    /\ scene.shows = "stamps" => CaptionsFit(scene.xs) /\ StampsFit(SortSeq(scene.xs, <))
    /\ scene.shows = "ticks" => TicksFit(scene.first, scene.tip)
    /\ scene.shows = "boxes" => BoxesFit(scene.counts)

\* Module LedgerViews: no page contradicts the server about a document that was
\* issued once, however little of the ledger it has loaded, and what it draws
\* can be read.
ViewsFollowServer ==
    /\ FollowsServer(log) /\ IsWellFormed(log) /\ DrawsLedger(log) /\ DrawingsFit
    /\ scene.shows = "classes" => CountsEachOnce(scene.rows) /\ NetworkIsTrue(scene.rows)
=============================================================================
