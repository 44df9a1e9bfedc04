------------------------------ MODULE Likeness ------------------------------
(***************************************************************************)
(* The likeness of texts: the fingerprint the browser hands in at an issue *)
(* (lib/fingerprint.js) and the one the server computes of a text          *)
(* (internal/fingerprint), the answers of POST /v1/identify and            *)
(* /v1/compare, and what the comparison page draws of them                 *)
(* (pages/Similarity.jsx, components/SimilarityViz.jsx).                   *)
(*                                                                         *)
(* A text is a sequence of characters: small letters, capitals (a capital  *)
(* sigma is written with its two small forms) and blanks.  The hash        *)
(* functions behind the places of a fingerprint are all orders of the      *)
(* shingles of the two texts that are compared, so that the estimate is    *)
(* free of the error of a sample.                                          *)
(***************************************************************************)
EXTENDS Integers, Sequences, SequencesExt, FiniteSetsExt

CONSTANT ShingleK   \* characters of a shingle

ASSUME ShingleAssumption == ShingleK \in Nat \ {0}

Blank == " "
Lower == [c \in {"A", "SIGMA"} |-> IF c = "A" THEN "a" ELSE "sigma"]
ToLower(c) == IF c \in DOMAIN Lower THEN Lower[c] ELSE c

NotBlank(c) == c # Blank

-----------------------------------------------------------------------------
(* Normalisation *)

\* The server lowers character by character, and drops the blanks.
NormalizeForFP(text) == SelectSeq([i \in DOMAIN text |-> ToLower(text[i])], NotBlank)

\* The browser lowers in the context: a sigma that ends a word is another letter.
EndsWord(text, i) ==
    /\ i > 1 /\ text[i - 1] # Blank
    /\ i = Len(text) \/ text[i + 1] = Blank

Normalize(text) ==
    SelectSeq([i \in DOMAIN text |->
                  IF text[i] = "SIGMA" /\ EndsWord(text, i) THEN "final sigma" ELSE ToLower(text[i])],
              NotBlank)

-----------------------------------------------------------------------------
(* Fingerprints *)

Shingles(s) ==
    IF Len(s) < ShingleK THEN {s} \ {<< >>}
    ELSE {SubSeq(s, i, i + ShingleK - 1) : i \in 1..Len(s) - ShingleK + 1}

Orders(shingles) == {p \in [1..Cardinality(shingles) -> shingles] : IsInjective(p)}

\* At each place the first shingle of the text, or the value of no text.
MinHash(shingles, orders) ==
    [p \in orders |-> IF shingles = {} THEN << >>
                      ELSE p[Min({i \in DOMAIN p : p[i] \in shingles})]]

Percent(part, whole) == IF whole = 0 THEN 0 ELSE (part * 100) \div whole

\* The share of the places that agree.
Similarity(sigA, sigB) ==
    Percent(Cardinality({p \in DOMAIN sigA : sigA[p] = sigB[p]}), Cardinality(DOMAIN sigA))

Estimate(A, B) ==
    LET orders == Orders(A \union B) IN Similarity(MinHash(A, orders), MinHash(B, orders))

\* handleCompare, of the shingles themselves.
Jaccard(A, B) == Percent(Cardinality(A \intersect B), Cardinality(A \union B))

-----------------------------------------------------------------------------
(* Identification: the documents of the index that are like a text *)

MinSim == 30
NoDeep == -1   \* the document was issued without a semantic fingerprint

\* index: a set of records [doc, shingles, deep].
Candidates(shingles, index) ==
    {[doc |-> d.doc, similarity |-> Estimate(shingles, d.shingles), deep |-> d.deep] :
        d \in {x \in index : Estimate(shingles, x.shingles) >= MinSim}}

\* The answers: the most similar ones, equals in any order.
Answers(found, limit) ==
    {s \in SetToAllKPermutations(found) :
        /\ Len(s) = Min({limit, Cardinality(found)})
        /\ \A i, j \in DOMAIN s : i < j => s[i].similarity >= s[j].similarity
        /\ \A c \in found \ ToSet(s), i \in DOMAIN s : s[i].similarity >= c.similarity}

-----------------------------------------------------------------------------
(* The comparison page *)

SimClass(v) ==
    CASE v = NoDeep       -> ""
      [] v >= 70          -> "ok"
      [] v \in 30..69     -> "warn"
      [] OTHER            -> "bad"

MaxSemantic(cands) == Max({NoDeep} \union {cands[i].deep : i \in DOMAIN cands})

\* The second box of a search: the first candidate, or none.
Best(cands) == IF cands = << >> THEN NoDeep ELSE cands[1].similarity

\* A candidate without a semantic fingerprint is drawn on the axis, hollow.
Dots(cands) ==
    [i \in DOMAIN cands |-> [x |-> cands[i].similarity, y |-> Max({cands[i].deep, 0}),
                             hollow |-> cands[i].deep = NoDeep]]

\* The circles of the diagram: their areas as the numbers of shingles, but none
\* too small to be seen.
MaxRadius == 62
MinRadius == 14
Radius(n, other) ==
    LET square == (MaxRadius * MaxRadius * n) \div Max({n, other, 1})
    IN  Max({MinRadius} \union {k \in 0..MaxRadius : k * k <= square})

\* The distance of their centres, by how much of the smaller one is shared.
Distance(a, b, common) ==
    LET radii == {Radius(a, b), Radius(b, a)}
        sum == Radius(a, b) + Radius(b, a)
        overlap == (common * 2 * Min(radii)) \div Max({Min({a, b}), 1})
    IN  IF common = 0 THEN sum + 12
        ELSE Max({Max(radii) - Min(radii) + 2, sum - overlap})

-----------------------------------------------------------------------------
(* Properties *)

\* The places that agree estimate the shingles that are shared, if there are
\* any; the same text with other blanks and capitals is fully alike; and texts
\* that have as many characters in common as a shingle has are not unlike.  The
\* browser computes the fingerprint of the server, unless a sigma ends a word.
EstimateIsTrue(a, b) ==
    LET s == NormalizeForFP(a)
        t == NormalizeForFP(b)
        A == Shingles(s)
        B == Shingles(t)
        runs(x) == {n \in DOMAIN x : n + ShingleK - 1 \in DOMAIN x}
    IN  /\ A \union B # {} => Estimate(A, B) = Jaccard(A, B)
        /\ s = t => Estimate(A, B) = 100
        /\ (\E m \in runs(s), n \in runs(t) : \A k \in 0..ShingleK - 1 : s[m + k] = t[n + k])
              => A \intersect B # {}
        /\ (Shingles(Normalize(a)) = A) = ~\E i \in DOMAIN a : a[i] = "SIGMA" /\ EndsWord(a, i)

\* A document that was issued from the browser with the same text is among the
\* candidates; what the page calls the best is the best of all of them, however
\* few are answered, and never in the colour of the unlike; the third box has
\* a value if and only if some answered document has a semantic fingerprint.
SearchIsTrue(a, b, deepA, deepB, limit) ==
    LET A == Shingles(NormalizeForFP(a))
        index == {[doc |-> 1, shingles |-> Shingles(Normalize(a)), deep |-> deepA],
                  [doc |-> 2, shingles |-> Shingles(Normalize(b)), deep |-> deepB]}
        found == Candidates(A, index)
    IN  /\ Shingles(Normalize(a)) = A => \E c \in found : c.doc = 1 /\ c.similarity = 100
        /\ \A cands \in Answers(found, limit) :
              /\ \A c \in found : Best(cands) >= c.similarity
              /\ SimClass(Best(cands)) # "bad"
              /\ (SimClass(MaxSemantic(cands)) = "") = (\A i \in DOMAIN cands : Dots(cands)[i].hollow)

\* The circles meet if and only if something is shared, and the more is shared,
\* the closer they are; neither covers the other.
DiagramIsTrue(a, b) ==
    LET A == Shingles(NormalizeForFP(a))
        B == Shingles(NormalizeForFP(b))
        m == Cardinality(A)
        n == Cardinality(B)
        d(common) == Distance(m, n, common)
    IN  /\ (d(Cardinality(A \intersect B)) < Radius(m, n) + Radius(n, m)) = (A \intersect B # {})
        /\ \A k \in 1..Min({m, n}) : d(k) <= d(k - 1)
        /\ \A r \in {Radius(m, n), Radius(n, m)} :
              d(Cardinality(A \intersect B)) + r > Max({Radius(m, n), Radius(n, m)})
=============================================================================
