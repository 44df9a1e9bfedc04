---------------------------- MODULE Translation ----------------------------
(***************************************************************************)
(* The grade another organisation reads: Static.Translate of               *)
(* internal/treaty/static.go.  A treaty maps grades of partyA to grades of *)
(* partyB; it is in force between its dates.  The map is looked up one way *)
(* and searched, in the random order of a Go map, the other way: the       *)
(* answer is any element of Translate.                                     *)
(***************************************************************************)
EXTENDS Integers, Sequences, FiniteSetsExt, Functions

\* What one treaty in force may answer; nothing if it does not apply.
Outcomes(t, issuer, verifier, grade) ==
    CASE issuer = t.partyA /\ verifier = t.partyB ->
            {t.gradeMap[g] : g \in DOMAIN t.gradeMap \intersect {grade}}
      [] issuer = t.partyB /\ verifier = t.partyA ->
            {g \in DOMAIN t.gradeMap : t.gradeMap[g] = grade}
      [] OTHER -> {}

\* The first treaty that has an answer gives it.
Translate(treaties, issuer, verifier, grade) ==
    LET Answers(i) == treaties[i].inForce /\ Outcomes(treaties[i], issuer, verifier, grade) # {}
        able == {i \in DOMAIN treaties : Answers(i)}
    IN  IF able = {} THEN {} ELSE Outcomes(treaties[Min(able)], issuer, verifier, grade)

Parties(treaties) == UNION {{treaties[i].partyA, treaties[i].partyB} : i \in DOMAIN treaties}

\* No two treaties in force join the same organisations.
OnePerPair(treaties) ==
    \A i, j \in DOMAIN treaties :
        /\ treaties[i].inForce /\ treaties[j].inForce
        /\ {treaties[i].partyA, treaties[i].partyB} = {treaties[j].partyA, treaties[j].partyB}
        => i = j

\* A treaty holds in both directions (the comment of Translate): what a grade
\* becomes abroad may come back as that grade, and nothing comes back that was
\* not sent out.
IsReversible(treaties, grades) ==
    \A a, b \in Parties(treaties), here, there \in grades :
        a # b /\ there \in Translate(treaties, a, b, here)
            => here \in Translate(treaties, b, a, there)
=============================================================================
