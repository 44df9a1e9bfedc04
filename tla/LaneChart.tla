------------------------------ MODULE LaneChart ------------------------------
(***************************************************************************)
(* What the lane chart, the stamp timeline and the graph draw of the       *)
(* documents that module LedgerViews rebuilds: the order of the lines, the *)
(* coloured pieces of a line and what is left of it after its end, the     *)
(* marks of its rows, the arrows between lines, the box of the selected    *)
(* row, and the tables below.  Rows are as in LedgerViews; tip is the last *)
(* row of the ledger, which may be newer than the window.                  *)
(***************************************************************************)
EXTENDS LedgerViews

-----------------------------------------------------------------------------
(* Lines: families, oldest first *)

StartOf(w, d) == Min(RowsOf(w, d))
RootOf(w, d) == w[StartOf(w, d)].root
FamilyStart(w, d) == Min({StartOf(w, e) : e \in {x \in DocsIn(w) : RootOf(w, x) = RootOf(w, d)}})

\* The lane chart puts the root of a family first, and then goes by age.
Above(w, c, d) ==
    \/ FamilyStart(w, c) < FamilyStart(w, d)
    \/ /\ RootOf(w, c) = RootOf(w, d) /\ d # RootOf(w, d)
       /\ c = RootOf(w, c) \/ StartOf(w, c) < StartOf(w, d)

Lines(w) == SetToSortSeq(DocsIn(w), LAMBDA c, d : Above(w, c, d))

\* The graph goes by age alone.
Before(w, c, d) ==
    \/ FamilyStart(w, c) < FamilyStart(w, d)
    \/ (RootOf(w, c) = RootOf(w, d) /\ StartOf(w, c) < StartOf(w, d))

BoxOrder(w) == SetToSortSeq(DocsIn(w), LAMBDA c, d : Before(w, c, d))

\* An arrow from the line of the parent, drawn where the child begins.
Arrows(w) ==
    {[from |-> ParentOf(w, d), to |-> d, at |-> StartOf(w, d)] :
        d \in {x \in DocsIn(w) : ParentOf(w, x) # NoDoc}}

-----------------------------------------------------------------------------
(* One line *)

EndOf(life, tip) == IF life.end = NoRow THEN tip ELSE life.end

PieceEnd(life, i, tip) ==
    Min({EndOf(life, tip)}
        \union IF i < Len(life.segments) THEN {life.segments[i + 1].seq} ELSE {})

Pieces(life, tip) ==
    [i \in DOMAIN life.segments |->
        LET from == life.segments[i].seq
        IN  [from |-> from, to |-> Max({from, PieceEnd(life, i, tip)}),
             grade |-> life.segments[i].grade]]

\* What is drawn behind the end: the row stays for ever.
Trace(life) ==
    CASE life.end # NoRow /\ life.status = "revoked"   -> "dots"
      [] life.end # NoRow /\ life.status = "destroyed" -> "hatching"
      [] OTHER                                         -> "nothing"

Dashed(life, s, tip) == life.provisional /\ s \in life.start..EndOf(life, tip)

\* The colour that is seen at a place of the line; later pieces lie on top.
ColourAt(pieces, s) ==
    LET there == {i \in DOMAIN pieces : pieces[i].from <= s /\ s <= pieces[i].to}
    IN  IF there = {} THEN "bare" ELSE pieces[Max(there)].grade

ShapeOf(type) ==
    CASE type = "ISSUE"   -> "circle"
      [] type = "DERIVE"  -> "diamond"
      [] type = "REGRADE" -> "triangle"
      [] type = "REVOKE"  -> "cross"
      [] type = "DESTROY" -> "box"

\* Crosses and boxes have a colour of their own.
MarkOf(w, n) ==
    [shape |-> ShapeOf(w[n].type), grade |-> w[n].grade,
     says |-> IF w[n].type = "REGRADE" THEN <<GradeBefore(w, w[n].doc, n), w[n].grade>> ELSE << >>]

-----------------------------------------------------------------------------
(* The selected row, the tables, and the nodes of the graph *)

\* The first seal over the row.
SealOf(seals, n) ==
    LET over == {i \in DOMAIN seals : seals[i].from <= n /\ n <= seals[i].to}
    IN  IF over = {} THEN NoRow ELSE Min(over)

Statuses == {"valid", "provisional", "revoked", "destroyed"}
WithStatus(w, s) == {d \in DocsIn(w) : LaneStatus(Life(w, d)) = s}

\* The graph: what a box counts, and what a node says.
CountedValid(w) ==
    {d \in DocsIn(w) : LaneStatus(Life(w, d)) \in {"valid", "provisional"}}

Derived(w, d) == {e \in DocsIn(w) : ParentOf(w, e) = d}

NodeOf(w, d) ==
    LET status == LaneStatus(Life(w, d))
    IN  [badge |-> Life(w, d).grade, faded |-> status \notin {"valid", "provisional"},
         says  |-> IF status \in {"revoked", "destroyed"} THEN status
                   ELSE IF ParentOf(w, d) # NoDoc THEN "derived" ELSE "original"]

-----------------------------------------------------------------------------
(* Properties *)

\* A line has the colour of the grade its document had at each row, from its
\* first row to its last closing row, and a trace behind it; the timeline the
\* same to its first closing row.
PaintsLife(w, d, tip) ==
    LET life == Life(w, d)
        closing == {n \in RowsOf(w, d) : w[n].type \in Closing}
        pieces == Pieces(life, tip)
        band == Segments(Band(w, d), tip + 1)
        given(n) == GradeNow(w, d, Min({n, Len(w)}))
    IN  /\ \A n \in 1..tip :
              /\ ColourAt(pieces, n) =
                    IF n < StartOf(w, d) \/ (closing # {} /\ n > Max(closing)) THEN "bare" ELSE given(n)
              /\ {band[i].grade : i \in {j \in DOMAIN band : band[j].from <= n /\ n < band[j].to}} =
                    IF n < StartOf(w, d) \/ (closing # {} /\ n >= Min(closing)) THEN {} ELSE {given(n)}
              /\ Dashed(life, n, tip) => ColourAt(pieces, n) # "bare"
        /\ (Trace(life) = "nothing") = (closing = {})

\* A mark has the colour of the line under it.
MarksMatch(w, d) ==
    \A n \in RowsOf(w, d) :
        w[n].type \notin Closing => MarkOf(w, n).grade = ColourAt(Pieces(Life(w, d), Len(w)), n)

\* No piece of a line runs backwards, whatever was done to the document.
RunsForward(w, d, tip) ==
    LET pieces == Pieces(Life(w, d), tip)
    IN  \A i \in DOMAIN pieces :
            /\ pieces[i].from <= pieces[i].to /\ pieces[i].to <= tip
            /\ i < Len(pieces) => pieces[i].to <= pieces[i + 1].from

\* Families are neighbours on both pages, and their root comes first.
FamiliesTogether(w) ==
    \A order \in {Lines(w), BoxOrder(w)} :
        /\ ToSet(order) = DocsIn(w) /\ IsInjective(order)
        /\ \A i, j, k \in DOMAIN order :
              i < j /\ j < k /\ RootOf(w, order[i]) = RootOf(w, order[k]) =>
                  RootOf(w, order[j]) = RootOf(w, order[i])
        /\ \A i, j \in DOMAIN Lines(w) :
              i < j /\ RootOf(w, Lines(w)[i]) = RootOf(w, Lines(w)[j]) =>
                  Lines(w)[j] # RootOf(w, Lines(w)[j])

\* With the whole ledger loaded, an arrow stays in the family the server put the
\* child in, if the child was issued once, after its parent, and no other
\* document has the content of the parent.
ArrowsStayInFamily(log) ==
    \A a \in Arrows(log) :
        LET hash == log[a.at].parent
        IN  (/\ ~Reissued(log, a.to) /\ ~Reissued(log, a.from)
             /\ {log[n].doc : n \in {m \in DOMAIN log : log[m].hash = hash}} = {a.from}
             /\ StartOf(log, a.from) < a.at)
            => RootOf(log, a.from) = RootOf(log, a.to)

\* The indent of a line is one more than that of its parent, up to the bound.
IndentsNest(w) ==
    \A d \in DocsIn(w) : \A e \in Derived(w, d) :
        Indent(w, e) = Min({MaxIndent, Indent(w, d) + 1})

\* The two tables and the boxes of the graph count the same documents.
TablesAgree(w) ==
    /\ UNION {CountedAs(w, g) : g \in {"C", "S", "O"}} = CountedValid(w)
    /\ CountedValid(w) = WithStatus(w, "valid") \union WithStatus(w, "provisional")
    /\ UNION {WithStatus(w, s) : s \in Statuses} = DocsIn(w)
    /\ \A d \in DocsIn(w) :
          /\ NodeOf(w, d).faded = (d \notin CountedValid(w))
          /\ NodeOf(w, d).says = "original" => ~\E e \in DocsIn(w) : d \in Derived(w, e)

\* Where seals follow one another, a row is called sealed if and only if the last
\* seal is not before it, and by the seal that covers it.
DetailIsTrue(w) ==
    \A cuts \in SUBSET DOMAIN w :
        LET ends == SetToSortSeq(cuts, <)
            seals == [i \in DOMAIN ends |->
                        [from |-> IF i = 1 THEN 1 ELSE ends[i - 1] + 1, to |-> ends[i]]]
        IN  \A n \in DOMAIN w :
              /\ (SealOf(seals, n) # NoRow) = (\E c \in cuts : n <= c)
              /\ SealOf(seals, n) # NoRow =>
                    seals[SealOf(seals, n)].to = Min({c \in cuts : n <= c})

DrawsLedger(log) ==
    /\ ArrowsStayInFamily(log)
    /\ \A w \in Windows(log) :
          /\ FamiliesTogether(w) /\ IndentsNest(w) /\ TablesAgree(w) /\ DetailIsTrue(w)
          /\ \A d \in DocsIn(w), tip \in {Len(w), Len(w) + 1} :
                /\ RunsForward(w, d, tip)
                /\ ~Reissued(w, d) => PaintsLife(w, d, tip) /\ MarksMatch(w, d)
=============================================================================
