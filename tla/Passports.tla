----------------------------- MODULE Passports -----------------------------
(***************************************************************************)
(* What the web client shows of treaties and of the documents that pass    *)
(* between organisations: pages/ledger/PassportMap.jsx, and the flow       *)
(* diagram of pages/ledger/Stamps.jsx.                                     *)
(*                                                                         *)
(* A treaty is that of module Translation, and has left, the half days to  *)
(* its end, and signed: has it begun?  It is in force in between.  An      *)
(* observation is a record with kind, from, to (organisations or nobody),  *)
(* what the treaty said, and the translated grade.                         *)
(***************************************************************************)
EXTENDS Translation

CONSTANT Alphabet   \* the organisations in the order of their names

Nobody == "nobody"
SoonDays == 120

NoTreaty == [left |-> -1, signed |-> FALSE, inForce |-> FALSE, gradeMap |-> << >>]

OrgsOf(treaties, obs) ==
    (Parties(treaties) \union UNION {{obs[i].from, obs[i].to} : i \in DOMAIN obs}) \ {Nobody}

\* pairKey: whichever way a treaty or a passage goes, its pair is one.
Pair(x, y) == {x, y}

Ascending(pair) ==
    LET rank(o) == CHOOSE i \in DOMAIN Alphabet : Alphabet[i] = o
        first == CHOOSE o \in pair : \A p \in pair : rank(o) <= rank(p)
    IN  <<first, CHOOSE o \in pair : Cardinality(pair) = 1 \/ o # first>>

\* Observations within one organisation, or with a side unknown, make no edge.
CrossesBorder(o) == o.from # Nobody /\ o.to # Nobody /\ o.from # o.to

Pairs(treaties, obs) ==
    {Pair(treaties[i].partyA, treaties[i].partyB) : i \in DOMAIN treaties}
        \union {Pair(obs[i].from, obs[i].to) : i \in {j \in DOMAIN obs : CrossesBorder(obs[j])}}

\* Of several treaties of a pair, the one that ends last, and of these the first.
TreatyOf(treaties, pair) ==
    LET of == {i \in DOMAIN treaties : Pair(treaties[i].partyA, treaties[i].partyB) = pair}
        last == {i \in of : \A j \in of : treaties[j].left <= treaties[i].left}
    IN  IF of = {} THEN NoTreaty ELSE treaties[Min(last)]

\* Math.ceil of the days left.
DaysLeft(t) == IF t.left >= 0 THEN (t.left + 1) \div 2 ELSE -((-t.left) \div 2)

Status(t) ==
    IF t = NoTreaty THEN "none"
    ELSE IF DaysLeft(t) < 0 THEN "expired"
    ELSE IF DaysLeft(t) <= SoonDays THEN "soon" ELSE "valid"

Counted(obs, kind, pair) ==
    {i \in DOMAIN obs : obs[i].kind = kind /\ CrossesBorder(obs[i])
                                           /\ Pair(obs[i].from, obs[i].to) = pair}

Edge(treaties, obs, pair) ==
    LET t == TreatyOf(treaties, pair)
    IN  [a |-> Ascending(pair)[1], b |-> Ascending(pair)[2], treaty |-> t,
         status   |-> Status(t),
         verified |-> Cardinality(Counted(obs, "VERIFIED", pair)),
         sent     |-> Cardinality(Counted(obs, "SENT", pair))]

EdgesShown(treaties, obs) == {Edge(treaties, obs, p) : p \in Pairs(treaties, obs)}

\* The ring of a node has the colour of the worst of its treaties.
OrgStatus(treaties, obs, org) ==
    LET statuses == {e.status : e \in {x \in EdgesShown(treaties, obs) : org \in {x.a, x.b}}}
    IN  IF "expired" \in statuses THEN "expired"
        ELSE IF "soon" \in statuses THEN "soon" ELSE "valid"

OrgOut(obs, org) == {i \in DOMAIN obs : obs[i].kind = "VERIFIED" /\ obs[i].from = org}
OrgIn(obs, org) == {i \in DOMAIN obs : obs[i].kind = "VERIFIED" /\ obs[i].to = org}

\* TreatyDetail: a row of the matrix.  Turning the direction round exchanges
\* the names at its sides, and not the rows.
Cell(e, grade) ==
    IF grade = "C" THEN "blocked"
    ELSE IF grade \notin DOMAIN e.treaty.gradeMap THEN "untranslated"
    ELSE e.treaty.gradeMap[grade]

-----------------------------------------------------------------------------
(* Sankey: passages by sender, receiver and the grade they passed with *)

Passed(o) == IF o.treaty = "translated" /\ o.grade # "" THEN o.grade ELSE "none"

\* Mutant: passages of one pair share a ribbon, whatever their grade.
FlowsMixed(obs) ==
    LET able == {i \in DOMAIN obs : obs[i].kind = "VERIFIED" /\ obs[i].from # Nobody
                                                             /\ obs[i].to # Nobody}
        keys == {[from |-> obs[i].from, to |-> obs[i].to, passed |-> Passed(obs[i])] : i \in able}
    IN  [k \in keys |-> Cardinality({i \in able : obs[i].from = k.from /\ obs[i].to = k.to})]

Flows(obs) ==
    LET able == {i \in DOMAIN obs : obs[i].kind = "VERIFIED" /\ obs[i].from # Nobody
                                                             /\ obs[i].to # Nobody}
        keys == {[from |-> obs[i].from, to |-> obs[i].to, passed |-> Passed(obs[i])] : i \in able}
    IN  [k \in keys |-> Cardinality({i \in able : obs[i].from = k.from /\ obs[i].to = k.to
                                                  /\ Passed(obs[i]) = k.passed})]

\* The height of a bar, and of its ribbons.
Height(flows, keys) == MapThenSumSet(LAMBDA k : flows[k], keys)
Leaving(flows, org) == Height(flows, {k \in DOMAIN flows : k.from = org})
Arriving(flows, org) == Height(flows, {k \in DOMAIN flows : k.to = org})

-----------------------------------------------------------------------------
(* Properties of a list of treaties and a list of observations *)

\* Where a pair has one treaty, and the first name is its partyA, the matrix
\* shows what the service translates; the map never calls a treaty expired that
\* is in force, nor one valid that has ended.
ShowsTreaties(treaties) ==
    \A e \in EdgesShown(treaties, << >>) :
        LET own == {i \in DOMAIN treaties :
                      Pair(treaties[i].partyA, treaties[i].partyB) = {e.a, e.b}}
        IN  /\ e.treaty.inForce => e.status # "expired"
            /\ e.status = "valid" /\ e.treaty.signed => e.treaty.inForce
            /\ e.status = "expired" => OrgStatus(treaties, << >>, e.b) = "expired"
            /\ Cardinality(own) = 1 /\ e.treaty.inForce /\ e.treaty.partyA = e.a =>
                  \A g \in {"S", "O"} :
                      Translate(treaties, e.a, e.b, g)
                          = IF Cell(e, g) = "untranslated" THEN {} ELSE {Cell(e, g)}

\* The map and the flow diagram count the same passages: each verified one
\* once, in the ribbon of its grade, at both of its ends.
TrafficAgrees(obs) ==
    LET flows == Flows(obs)
    IN  /\ \A e \in EdgesShown(<< >>, obs) :
              e.verified = Height(flows, {k \in DOMAIN flows : {k.from, k.to} = {e.a, e.b}})
        /\ \A o \in OrgsOf(<< >>, obs) :
              /\ Leaving(flows, o)
                    = Cardinality({i \in OrgOut(obs, o) : obs[i].to # Nobody})
              /\ Arriving(flows, o)
                    = Cardinality({i \in OrgIn(obs, o) : obs[i].from # Nobody})
=============================================================================
