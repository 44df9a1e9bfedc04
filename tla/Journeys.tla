------------------------------ MODULE Journeys ------------------------------
(***************************************************************************)
(* One document on its way through other organisations, as the stamp       *)
(* timeline and the flow diagram of pages/ledger/Stamps.jsx draw it from   *)
(* the observations, and the choice of a treaty on the passport map.       *)
(* Observations have, besides the fields of module Passports, the document *)
(* (doc), the day (at), and the hint of the verdict (hint).                *)
(***************************************************************************)
EXTENDS Passports, SequencesExt

-----------------------------------------------------------------------------
(* Stamps *)

\* What the inbox notes of a verdict.  A gate that translates nothing answers
\* with the grade itself, so that translated is never empty.
Noted(res, from, to) ==
    [kind |-> "VERIFIED", from |-> from, to |-> to, treaty |-> res.checks.treaty,
     grade |-> res.translated, hint |-> res.hint]

StampColour(o) ==
    IF o.treaty \in {"expired", "not_translatable"} THEN "red"
    ELSE IF o.treaty = "no_treaty" THEN "gray"
    ELSE IF o.hint = "deny" THEN "red"
    ELSE IF o.hint = "review" THEN "amber" ELSE "navy"

\* The words above a stamp, and the words in it.
StampSays(o) ==
    CASE o.treaty = "no_treaty" -> "no treaty"
      [] o.treaty = "expired"   -> "treaty expired"
      [] OTHER                  -> "gate verdict"

StampReads(o) ==
    IF o.grade # "" THEN "grade"
    ELSE IF o.treaty = "no_treaty" THEN "signature only"
    ELSE IF o.treaty = "expired" THEN "treaty expired"
    ELSE IF o.treaty = "not_translatable" THEN "not translatable" ELSE o.hint

HasInnerRing(o) == o.treaty = "translated"

-----------------------------------------------------------------------------
(* The timeline of a document: what is drawn from which day on *)

MinSpan == 7

\* The axis goes from the first to the last event or observation, and at least
\* three days further.
AxisStart(days) == Min(days)
AxisEnd(days) ==
    LET span == Max({Max(days) - Min(days), MinSpan})
    IN  Max(days) + Max({(span * 8) \div 100, 3})

\* The organisations at the other side of an observation, and the treaty that
\* the list of treaties has first for the pair.
Others(issuer, obs) ==
    {IF obs[i].from = issuer THEN obs[i].to ELSE obs[i].from : i \in DOMAIN obs} \ {Nobody}

FirstTreaty(treaties, issuer, org) ==
    SelectInSeq(treaties, LAMBDA t : {t.partyA, t.partyB} = {issuer, org})

\* Where the band is hatched because a treaty has ended: from a day on.
HatchedFrom(treaties, issuer, org, days) ==
    LET t == FirstTreaty(treaties, issuer, org)
    IN  IF t = 0 \/ treaties[t].notAfter >= AxisEnd(days) THEN {}
        ELSE {Max({treaties[t].notAfter, AxisStart(days)})}

Hatchings(treaties, issuer, obs, days) ==
    [org \in Others(issuer, obs) |-> HatchedFrom(treaties, issuer, org, days)]

\* The documents that were observed, those observed most often first.
ObservedDocs(obs) ==
    LET docs == {obs[i].doc : i \in DOMAIN obs}
        count(d) == Cardinality({i \in DOMAIN obs : obs[i].doc = d})
        first(d) == Min({i \in DOMAIN obs : obs[i].doc = d})
    IN  SetToSortSeq(docs, LAMBDA d, e : \/ count(d) > count(e)
                                         \/ count(d) = count(e) /\ first(d) < first(e))

\* The document shown, after whatever was picked and however the log changed.
ShownDoc(obs, pick) ==
    IF Contains(ObservedDocs(obs), pick) THEN pick ELSE ObservedDocs(obs)[1]

-----------------------------------------------------------------------------
(* The flow diagram: bars by total, ribbons stacked on them *)

Kinds == <<"C", "S", "O", "none">>

\* The bars of a side (from or to), the tallest first.
Bars(obs, side) ==
    LET flows == Flows(obs)
        total(o) == Height(flows, {k \in DOMAIN flows : k[side] = o})
        first(o) == Min({i \in DOMAIN obs : obs[i].kind = "VERIFIED" /\ obs[i][side] = o
                                            /\ Nobody \notin {obs[i].from, obs[i].to}})
    IN  SetToSortSeq({k[side] : k \in DOMAIN flows},
                     LAMBDA a, b : \/ total(a) > total(b)
                                   \/ total(a) = total(b) /\ first(a) < first(b))

Place(seq, x) == SelectInSeq(seq, LAMBDA y : y = x)

\* Where a ribbon lies on its bar: below the ribbons to bars that come earlier,
\* and to the same bar with a higher grade.
Offset(obs, ribbon, side, other) ==
    LET flows == Flows(obs)
        bars == Bars(obs, other)
        above == {k \in DOMAIN flows :
                    /\ k[side] = ribbon[side]
                    /\ \/ Place(bars, k[other]) < Place(bars, ribbon[other])
                       \/ /\ k[other] = ribbon[other]
                          /\ Place(Kinds, k.passed) < Place(Kinds, ribbon.passed)}
    IN  Height(flows, above)

-----------------------------------------------------------------------------
(* The passport map: captions, the list, and what is chosen *)

EdgeColour(e) ==
    CASE e.treaty = NoTreaty     -> "gray"
      [] e.status = "expired"    -> "red"
      [] e.status = "soon"       -> "amber"
      [] OTHER                   -> "navy"

\* The caption on the line, and the last column of the table, which counts
\* the days that are left.
Caption(e) ==
    CASE e.treaty = NoTreaty     -> "no treaty"
      [] e.status = "soon"       -> "ends in days"
      [] e.status = "expired"    -> "expired"
      [] OTHER                   -> "valid"

\* Treaties come first.  What is chosen stays chosen while its pair is there;
\* nothing chosen means the first treaty that has not expired.
EdgeList(treaties, obs) ==
    LET rank(o) == Place(Alphabet, o)
        sooner(e, f) == \/ rank(e.a) < rank(f.a)
                        \/ e.a = f.a /\ rank(e.b) < rank(f.b)
    IN  SetToSortSeq(EdgesShown(treaties, obs),
                     LAMBDA e, f : IF (e.treaty = NoTreaty) = (f.treaty = NoTreaty)
                                   THEN sooner(e, f) ELSE e.treaty # NoTreaty)

Chosen(treaties, obs, pick) ==
    LET edges == EdgeList(treaties, obs)
        held == SelectInSeq(edges, LAMBDA e : {e.a, e.b} = pick)
        alive == SelectInSeq(edges, LAMBDA e : e.treaty # NoTreaty /\ e.status # "expired")
    IN  CASE held # 0              -> edges[held]
          [] held = 0 /\ alive # 0 -> edges[alive]
          [] OTHER                 -> edges[1]

-----------------------------------------------------------------------------
(* Properties *)

\* A stamp is navy if and only if the gate let the document pass, and no denial
\* looks like something to review; the diagram draws a translated grade if and
\* only if a treaty translated it, and the stamp then reads that grade.
StampTellsVerdict(res) ==
    LET o == Noted(res, "KPOST", "MOIS")
    IN  /\ (StampColour(o) = "navy") = (res.hint = "allow")
        /\ res.hint = "deny" => StampColour(o) \in {"red", "gray"}
        /\ StampColour(o) = "gray" => StampSays(o) = "no treaty"
        /\ HasInnerRing(o) = (Passed(o) # "none")
        /\ HasInnerRing(o) => StampReads(o) = "grade"

\* With one treaty for the pair, a stamp reads that the treaty had expired if
\* and only if it lies where the band is hatched for its organisation, unless
\* on the very day; an ended treaty is hatched although it ended before the
\* first event.
HatchingMatches(treaties, issuer, obs, days) ==
    \A i \in DOMAIN obs :
        LET o == obs[i]
            from == Hatchings(treaties, issuer, obs, days)[o.to]
        IN  o.from = issuer =>
                ((o.treaty = "expired") = (\E d \in from : d <= o.at /\ treaties[1].notAfter # o.at))

\* Every observed document can be picked, and one of them is shown.
DocumentsListed(obs) ==
    obs # << >> =>
        /\ IsInjective(ObservedDocs(obs))
        /\ \A pick \in 1..3 :
              \E i \in DOMAIN obs : obs[i].doc = ShownDoc(obs, pick)
                                    /\ (ShownDoc(obs, pick) = pick
                                        \/ ~\E j \in DOMAIN obs : obs[j].doc = pick)

\* The ribbons of a bar lie side by side, without gap and without overlap, and
\* ribbons of the same bar do not cross.
RibbonsTile(obs) ==
    LET flows == Flows(obs)
    IN  \A sides \in {<<"from", "to">>, <<"to", "from">>} : \A bar \in ToSet(Bars(obs, sides[1])) :
            LET own == {k \in DOMAIN flows : k[sides[1]] = bar}
                at(k) == Offset(obs, k, sides[1], sides[2])
            IN  /\ UNION {{at(k) + n : n \in 1..flows[k]} : k \in own} = 1..Height(flows, own)
                /\ \A k, l \in own :
                      Place(Bars(obs, sides[2]), k[sides[2]]) < Place(Bars(obs, sides[2]), l[sides[2]])
                          => at(k) + flows[k] <= at(l)

\* An expired treaty marks both of its ends, whatever else they have; days left
\* are never counted below zero; and no expired treaty is shown before a choice is
\* made while another one is in force.
MapIsOneStory(treaties) ==
    LET edges == EdgesShown(treaties, << >>)
        shown == Chosen(treaties, << >>, {"nothing"})
    IN  /\ \A e \in edges :
              /\ EdgeColour(e) = "red" =>
                    \A o \in {e.a, e.b} : OrgStatus(treaties, << >>, o) = "expired"
              /\ Caption(e) = "ends in days" => DaysLeft(e.treaty) \in 0..SoonDays
              /\ e.treaty.inForce => Caption(e) \notin {"expired", "no treaty"}
        /\ edges # {} => (shown.status = "expired") = (\A e \in edges : e.status = "expired")
=============================================================================
