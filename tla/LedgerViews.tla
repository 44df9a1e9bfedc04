---------------------------- MODULE LedgerViews ----------------------------
(***************************************************************************)
(* What the pages of the web client tell of a ledger: the lane chart, the  *)
(* graph, the taxonomy and the stamp timeline of pages/ledger/*.jsx.  Each *)
(* gets the same window of rows, oldest first, and rebuilds from it what   *)
(* became of every document, since the ledger has no column for that.      *)
(*                                                                         *)
(* A row is a record with its document, its type, the grade and approval   *)
(* it gives (empty at the end of a document), the content hash, the hash   *)
(* the document was derived from, and the root of its family.  A window is *)
(* the end of a ledger; a row is named by its place in the window.         *)
(***************************************************************************)
EXTENDS Integers, Sequences, SequencesExt, FiniteSetsExt

LOCAL NoHash == "none"
NoDoc == 0
NoRow == 0

Issuing == {"ISSUE", "DERIVE"}
Closing == {"REVOKE", "DESTROY"}

RowsOf(w, d) == {n \in DOMAIN w : w[n].doc = d}
DocsIn(w) == {w[n].doc : n \in DOMAIN w}

\* Rows of a document in order, and a fold over them.
History(w, d) == SetToSortSeq(RowsOf(w, d), <)
Over(w, d, op(_, _, _), base) ==
    FoldLeft(LAMBDA acc, n : op(acc, w[n], n), base, History(w, d))

-----------------------------------------------------------------------------
(* buildModel, which three of the pages have in almost the same words *)

\* The first row met stands for the document, whatever its type.
Born(e, n) ==
    [start |-> n, grade |-> e.grade, segments |-> <<[seq |-> n, grade |-> e.grade]>>,
     end |-> NoRow, status |-> "valid", provisional |-> FALSE]

\* Mutant: a regrade adds a segment and leaves the grade of the badge alone.
LivedUngraded(d, e, n) ==
    [d EXCEPT !.segments = IF e.type = "REGRADE" THEN Append(@, [seq |-> n, grade |-> e.grade])
                                                 ELSE @,
              !.end = IF e.type \in Closing THEN n ELSE @,
              !.status = CASE e.type = "REVOKE"  -> "revoked"
                           [] e.type = "DESTROY" -> "destroyed"
                           [] OTHER              -> @,
              !.provisional = IF e.approval = "" THEN @ ELSE e.approval = "PROVISIONAL"]

\* An issuance of a known document changes neither its grade nor its status.
Lived(d, e, n) ==
    [d EXCEPT !.segments = IF e.type = "REGRADE" THEN Append(@, [seq |-> n, grade |-> e.grade])
                                                 ELSE @,
              !.grade = IF e.type = "REGRADE" THEN e.grade ELSE @,
              !.end = IF e.type \in Closing THEN n ELSE @,
              !.status = CASE e.type = "REVOKE"  -> "revoked"
                           [] e.type = "DESTROY" -> "destroyed"
                           [] OTHER              -> @,
              !.provisional = IF e.approval = "" THEN @ ELSE e.approval = "PROVISIONAL"]

Life(w, d) ==
    LET first == Min(RowsOf(w, d))
    IN  Over(w, d, Lived, Born(w[first], first))

\* Lane chart and graph tell valid from provisional, the taxonomy does not.
LaneStatus(life) ==
    IF life.status = "valid" /\ life.provisional THEN "provisional" ELSE life.status

TaxonomyStatus(life) == life.status

\* byHash: the first document of the window that has the hash.
ParentOf(w, d) ==
    LET hash == w[Min(RowsOf(w, d))].parent
        same == {n \in DOMAIN w : w[n].hash = hash}
    IN  IF hash = NoHash \/ same = {} THEN NoDoc ELSE w[Min(same)].doc

MaxIndent == 8

\* The number of ancestors, which a cycle would never exhaust.
Indent(w, d) ==
    LET above[n \in 0..MaxIndent] ==
            IF n = 0 THEN d
            ELSE IF above[n - 1] = NoDoc THEN NoDoc ELSE ParentOf(w, above[n - 1])
    IN  Cardinality({n \in 1..MaxIndent : above[n] # NoDoc})

\* The grade before a regrade, as its triangle and the detail box show it.
GradeBefore(w, d, n) ==
    LET segments == Life(w, d).segments
        before == {i \in 1..(Len(segments) - 1) : segments[i + 1].seq = n}
    IN  IF before = {} THEN "?" ELSE segments[Min(before)].grade

\* Matrix: the documents counted in a cell.
CountedAs(w, grade) ==
    {d \in DocsIn(w) : Life(w, d).status \notin {"revoked", "destroyed"} /\ Life(w, d).grade = grade}

-----------------------------------------------------------------------------
(* The stamp timeline: a band that a closing row ends *)

NoSegment == [from |-> NoRow]
Ended(b, n) ==
    IF b.current = NoSegment THEN b
    ELSE [done |-> Append(b.done, b.current @@ [to |-> n]), current |-> NoSegment]

Banded(b, e, n) ==
    CASE e.type \in Issuing ->
            IF b.current # NoSegment THEN b
            ELSE [b EXCEPT !.current = [from |-> n, grade |-> e.grade]]
      [] e.type = "REGRADE" ->
            [Ended(b, n) EXCEPT !.current = [from |-> n, grade |-> e.grade]]
      [] OTHER -> Ended(b, n)

Band(w, d) == Over(w, d, Banded, [done |-> << >>, current |-> NoSegment])

\* What is drawn by the time now; a band that is still open goes on until then.
Segments(b, now) == Ended(b, now).done

\* The cross is drawn at the first closing row, even if the band goes on.
CrossAt(w, d) ==
    LET closing == {n \in RowsOf(w, d) : w[n].type \in Closing}
    IN  IF closing = {} THEN NoRow ELSE Min(closing)

-----------------------------------------------------------------------------
(* The graph: documents, rows and seals; lineage, chain and seal edges *)

Doc(d) == <<"doc", d>>
Row(n) == <<"row", n>>
Seal(c) == <<"seal", c>>

NodesOf(w, seals) ==
    {Doc(d) : d \in DocsIn(w)} \union {Row(n) : n \in DOMAIN w}
        \union {Seal(c) : c \in {s \in seals : s.to \in DOMAIN w}}

LineageEdges(w) ==
    {<<Doc(ParentOf(w, d)), Doc(d)>> : d \in {x \in DocsIn(w) : ParentOf(w, x) # NoDoc}}

ChainEdges(w) == {<<Row(n - 1), Row(n)>> : n \in DOMAIN w \ {1}}
RowEdges(w) == {<<Doc(w[n].doc), Row(n)>> : n \in DOMAIN w}

\* A seal over rows of which the last is not in the window is left out.
SealEdges(w, seals) == {<<Row(c.to), Seal(c)>> : c \in {s \in seals : s.to \in DOMAIN w}}

EdgesOf(w, seals) ==
    LineageEdges(w) \union ChainEdges(w) \union RowEdges(w) \union SealEdges(w, seals)

-----------------------------------------------------------------------------
(* Reference: what the server would say *)

Current(w, d) == w[Max(RowsOf(w, d))]

\* The root of a document derived from a hash: that of the newest row with this
\* hash that is not a revocation.
InheritedRoot(log, d, hash) ==
    LET of == {n \in DOMAIN log : log[n].hash = hash /\ log[n].type # "REVOKE"}
    IN  IF hash = NoHash \/ of = {} THEN d ELSE log[Max(of)].root

\* The newest grade of the document given in the window.
GradeNow(w, d, upto) ==
    LET graded == {n \in RowsOf(w, d) : n <= upto /\ w[n].type \notin Closing}
    IN  IF graded = {} THEN "" ELSE w[Max(graded)].grade

\* The server lets a document that was closed be issued again, and any issuance
\* repeat one; the pages do not expect either.
Reissued(w, d) ==
    \E m, n \in RowsOf(w, d) : m < n /\ w[n].type \in Issuing

-----------------------------------------------------------------------------
(* Properties of a ledger *)

Windows(log) == {SubSeq(log, from, Len(log)) : from \in DOMAIN log}

\* Status, grade and approval are those of the newest row, in all four views.
ShowsCurrent(w, d) ==
    LET life == Life(w, d)
        now == Current(w, d)
    IN  /\ LaneStatus(life) =
              IF now.type = "REVOKE" THEN "revoked"
              ELSE IF now.type = "DESTROY" THEN "destroyed"
              ELSE IF now.approval = "PROVISIONAL" THEN "provisional" ELSE "valid"
        /\ LaneStatus(life) = "valid" => TaxonomyStatus(life) = "valid"
        /\ life.grade = GradeNow(w, d, Len(w))
        /\ (Band(w, d).current # NoSegment) = (now.type \notin Closing)
        /\ (CrossAt(w, d) # NoRow) = (now.type \in Closing)
        /\ d \in CountedAs(w, now.grade) <=> now.type \notin Closing

\* The lane and the band tell, for every moment, the grade of that moment.
TellsHistory(w, d) ==
    \A n \in RowsOf(w, d) :
        LET lane == {i \in DOMAIN Life(w, d).segments : Life(w, d).segments[i].seq <= n}
            band == {i \in DOMAIN Segments(Band(w, d), Len(w)) : Segments(Band(w, d), Len(w))[i].from <= n}
        IN  /\ Life(w, d).segments[Max(lane)].grade = GradeNow(w, d, n)
            /\ GradeNow(w, d, n) # "" => Segments(Band(w, d), Len(w))[Max(band)].grade = GradeNow(w, d, n)
            /\ w[n].type = "REGRADE" /\ n # Min(RowsOf(w, d)) =>
                  GradeBefore(w, d, n) = GradeNow(w, d, n - 1)

\* No page contradicts the server about a document that was issued once, however
\* little of the ledger it has loaded.
FollowsServer(log) ==
    \A w \in Windows(log) : \A d \in DocsIn(w) :
        ~Reissued(w, d) => ShowsCurrent(w, d) /\ TellsHistory(w, d)

\* The graph library refuses an edge without its ends: whatever the window and
\* whatever was sealed, both are drawn.  No parent is shown that does not have
\* the declared content, and indents stay bounded although lineage may be a cycle.
IsWellFormed(log) ==
    \A w \in Windows(log) :
        /\ \A from, to \in 1..(Len(log) + 1) :
              LET seals == {[from |-> from, to |-> to]}
              IN  UNION {{e[1], e[2]} : e \in EdgesOf(w, seals)} \subseteq NodesOf(w, seals)
        /\ \A d \in DocsIn(w) :
              /\ ParentOf(w, d) # NoDoc =>
                    \E m \in RowsOf(w, ParentOf(w, d)), n \in RowsOf(w, d) :
                        w[m].hash = w[n].parent
              /\ Indent(w, d) <= MaxIndent
              /\ Indent(w, d) = 0 <=> ParentOf(w, d) = NoDoc
=============================================================================
