------------------------------ MODULE Taxonomy ------------------------------
(***************************************************************************)
(* The classification page, pages/ledger/Taxonomy.jsx: the tree map of the *)
(* classes of documents with their bars of grades, the bars of legal       *)
(* clauses, the network of tags that were given together, and the preview  *)
(* of the linked data.                                                     *)
(*                                                                         *)
(* A row has, besides its document (doc), type and grade, a class (brm), a *)
(* clause and a sequence of tags, each of which may be missing; a tag is a *)
(* sequence of words, a word a number, by which tags are sorted.           *)
(***************************************************************************)
EXTENDS Integers, Sequences, SequencesExt, FiniteSetsExt

CONSTANT MaxTags   \* nodes of the network

NoClass == "(none)"
NoClause == 0
Clauses == 1..8

-----------------------------------------------------------------------------
(* buildModel: a field is that of the first row of the document that has it *)

Filled(rows, d, has(_), field, empty) ==
    LET able == {n \in DOMAIN rows : rows[n].doc = d /\ has(rows[n])}
    IN  IF able = {} THEN empty ELSE rows[Min(able)][field]

\* The grade of the first row, until a REGRADE brings another.
GradeOf(rows, d) ==
    LET regrades == {n \in DOMAIN rows : rows[n].doc = d /\ rows[n].type = "REGRADE"}
    IN  IF regrades = {} THEN Filled(rows, d, LAMBDA r : TRUE, "grade", "")
        ELSE rows[Max(regrades)].grade

DocOf(rows, d) ==
    [doc    |-> d,
     brm    |-> Filled(rows, d, LAMBDA r : r.brm # NoClass, "brm", NoClass),
     clause |-> Filled(rows, d, LAMBDA r : r.clause # NoClause, "clause", NoClause),
     tags   |-> Filled(rows, d, LAMBDA r : r.tags # << >>, "tags", << >>),
     grade  |-> GradeOf(rows, d)]

DocList(rows) ==
    LET docs == {rows[n].doc : n \in DOMAIN rows}
        first(d) == Min({n \in DOMAIN rows : rows[n].doc = d})
        order == SetToSortSeq(docs, LAMBDA d, e : first(d) < first(e))
    IN  [i \in DOMAIN order |-> DocOf(rows, order[i])]

-----------------------------------------------------------------------------
(* The tree map: a cell for each class, a bar of grades in each cell *)

Cells(docs) ==
    [c \in {docs[i].brm : i \in DOMAIN docs} |-> {i \in DOMAIN docs : docs[i].brm = c}]

Unclassified(docs) == {i \in DOMAIN docs : docs[i].brm = NoClass}
ClassCount(docs) == Cardinality(DOMAIN Cells(docs) \ {NoClass})

\* A part of the bar for every grade, of the documents that have one.
Parts(docs, cell) ==
    [g \in {docs[i].grade : i \in cell} \ {""} |-> Cardinality({i \in cell : docs[i].grade = g})]

\* "All of this grade" is written for a single part.
SaysAll(docs, cell) == Cardinality(DOMAIN Parts(docs, cell)) = 1

-----------------------------------------------------------------------------
(* Clauses *)

ClauseBar(docs, c) == Cardinality({i \in DOMAIN docs : docs[i].clause = c})
WithoutClause(docs) == Cardinality({i \in DOMAIN docs : docs[i].clause = NoClause})

\* The two longest bars, the smaller clause first where they are equal.
Leading(docs) ==
    LET order == SetToSortSeq({c \in Clauses : ClauseBar(docs, c) > 0},
                    LAMBDA c, e : \/ ClauseBar(docs, c) > ClauseBar(docs, e)
                                  \/ ClauseBar(docs, c) = ClauseBar(docs, e) /\ c < e)
    IN  SubSeq(order, 1, Min({2, Len(order)}))

-----------------------------------------------------------------------------
(* The network of tags *)

TagsOf(docs) == UNION {ToSet(docs[i].tags) : i \in DOMAIN docs}
Having(docs, tags) == {i \in DOMAIN docs : tags \subseteq ToSet(docs[i].tags)}

\* Where a tag is met first.
FirstMet(docs, t) ==
    LET i == Min(Having(docs, {t}))
    IN  <<i, SelectInSeq(docs[i].tags, LAMBDA u : u = t)>>

Sooner(a, b) == a[1] < b[1] \/ (a[1] = b[1] /\ a[2] < b[2])

\* The most frequent tags; among equals, those met first.
Nodes(docs) ==
    LET n == [t \in TagsOf(docs) |-> Cardinality(Having(docs, {t}))]
        before(t, u) == \/ n[t] > n[u]
                        \/ n[t] = n[u] /\ Sooner(FirstMet(docs, t), FirstMet(docs, u))
    IN  {t \in TagsOf(docs) : Cardinality({u \in TagsOf(docs) : before(u, t)}) < MaxTags}

\* Two tags, sorted and joined by a blank: the words of both.
LexLess(s, t) ==
    \E n \in 0..Len(s) :
        /\ n <= Len(t) /\ SubSeq(s, 1, n) = SubSeq(t, 1, n)
        /\ \/ n = Len(s) /\ n < Len(t)
           \/ n < Len(s) /\ n < Len(t) /\ s[n + 1] < t[n + 1]

Key(s, t) == IF LexLess(s, t) THEN s \o t ELSE t \o s

\* How often tags with this key were given together.
Together(docs, key) ==
    MapThenSumSet(LAMBDA i : Cardinality({p \in kSubset(2, ToSet(docs[i].tags)) :
                                             \E s, t \in p : s # t /\ Key(s, t) = key}),
                  DOMAIN docs)

Keys(docs) ==
    UNION {{Key(p[1], p[2]) : p \in {x \in ToSet(docs[i].tags) \X ToSet(docs[i].tags) : x[1] # x[2]}} :
              i \in DOMAIN docs}

\* The key is split again at its blanks, and its first two words are looked up.
Links(docs) ==
    {[a |-> <<k[1]>>, b |-> <<k[2]>>, n |-> Together(docs, k)] :
        k \in {x \in Keys(docs) : <<x[1]>> \in Nodes(docs) /\ <<x[2]>> \in Nodes(docs)}}

-----------------------------------------------------------------------------
(* JSON-LD: three documents and six rows *)

Preview(rows) ==
    LET docs == DocList(rows)
    IN  [docs |-> {[id |-> docs[i].doc, versions |-> {n \in DOMAIN rows : rows[n].doc = docs[i].doc}] :
                      i \in 1..Min({3, Len(docs)})},
         rows |-> {[id |-> n, of |-> rows[n].doc] : n \in 1..Min({6, Len(rows)})}]

-----------------------------------------------------------------------------
(* Properties *)

\* Every document is in one cell and one bar, whichever of its rows named its
\* class or its clause; "all of a grade" is true where every document has one.
CountsEachOnce(rows) ==
    LET docs == DocList(rows)
        cells == Cells(docs)
    IN  /\ \A d \in {rows[n].doc : n \in DOMAIN rows} :
              Cardinality({c \in DOMAIN cells : \E i \in cells[c] : docs[i].doc = d}) = 1
        /\ Len(docs) = MapThenSumSet(LAMBDA c : ClauseBar(docs, c), Clauses) + WithoutClause(docs)
        /\ \A c \in DOMAIN cells :
              LET ungraded == {i \in cells[c] : docs[i].grade = ""}
              IN  /\ MapThenSumSet(LAMBDA g : Parts(docs, cells[c])[g], DOMAIN Parts(docs, cells[c]))
                        = Cardinality(cells[c] \ ungraded)
                  /\ ungraded = {} /\ SaysAll(docs, cells[c]) =>
                        \A i, j \in cells[c] : docs[i].grade = docs[j].grade
        /\ \A i, j \in DOMAIN Leading(docs) :
              i < j => ClauseBar(docs, Leading(docs)[i]) >= ClauseBar(docs, Leading(docs)[j])
        /\ ClassCount(docs) + Cardinality(Unclassified(docs)) <= Len(docs)
        /\ \A d \in Preview(rows).docs, r \in Preview(rows).rows :
              r.of = d.id <=> r.id \in d.versions

\* Two tags of one word that were given together are joined by a line, which is
\* as thick as often they were, if both are drawn; and where every tag is one
\* word, nothing else is joined.
NetworkIsTrue(rows) ==
    LET docs == DocList(rows)
        simple == {t \in Nodes(docs) : Len(t) = 1}
        link(s, t) == [a |-> SubSeq(Key(s, t), 1, 1), b |-> SubSeq(Key(s, t), 2, 2),
                       n |-> Cardinality(Having(docs, {s, t}))]
        true == {link(p[1], p[2]) : p \in {x \in simple \X simple :
                                              x[1] # x[2] /\ Having(docs, {x[1], x[2]}) # {}}}
    IN  /\ true \subseteq Links(docs)
        /\ TagsOf(docs) \subseteq simple => Links(docs) \subseteq true
        /\ \A t \in Nodes(docs), u \in TagsOf(docs) \ Nodes(docs) :
              Cardinality(Having(docs, {t})) >= Cardinality(Having(docs, {u}))
=============================================================================
