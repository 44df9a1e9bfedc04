------------------------------ MODULE Drawings ------------------------------
(***************************************************************************)
(* Where the ledger pages of the web client put what they draw, as far as  *)
(* something could be drawn over something else or not at all: the rows    *)
(* and slots of the stamp timeline (pages/ledger/Stamps.jsx), the ticks of *)
(* the lane chart (LaneChart.jsx), the boxes of the graph                  *)
(* (LedgerGraph.jsx).                                                      *)
(***************************************************************************)
EXTENDS Integers, Sequences, SequencesExt, FiniteSetsExt

Far == -1000

-----------------------------------------------------------------------------
(* Stamps: two rows of circles, and as many rows of captions as it takes *)

StampWidth == 52
CaptionWidth == 80

\* The first row with room, else the first row all the same.
StampRow(lastX, x) ==
    IF x - lastX[1] >= StampWidth THEN 1
    ELSE IF x - lastX[2] >= StampWidth THEN 2 ELSE 1

\* The rows of stamps at the places xs, which are in order.
StampRows(xs) ==
    FoldLeft(LAMBDA acc, x :
               LET row == StampRow(acc.last, x)
               IN  [rows |-> Append(acc.rows, row), last |-> [acc.last EXCEPT ![row] = x]],
             [rows |-> << >>, last |-> <<Far, Far>>], xs).rows

\* slotOf: the first slot with room to the left of x, or a new one.
SlotOf(slots, x) ==
    LET free == {i \in DOMAIN slots : x - slots[i] >= CaptionWidth}
    IN  IF free = {} THEN Len(slots) + 1 ELSE Min(free)

Slots(xs) ==
    FoldLeft(LAMBDA acc, x :
               LET slot == SlotOf(acc.last, x)
               IN  [at |-> Append(acc.at, slot),
                    last |-> IF slot > Len(acc.last) THEN Append(acc.last, x)
                             ELSE [acc.last EXCEPT ![slot] = x]],
             [at |-> << >>, last |-> << >>], xs).at

Gap(a, b) == IF a > b THEN a - b ELSE b - a

\* Stamps overlap only where three of them crowd, and captions never do, in
\* whatever order they are placed: a document that was closed and then issued
\* and regraded again has its end placed after what followed it.
StampsFit(xs) ==
    \A i, j \in DOMAIN xs :
        i < j /\ StampRows(xs)[i] = StampRows(xs)[j] /\ xs[j] - xs[i] < StampWidth =>
            \E k \in DOMAIN xs \ {i, j} : k < j /\ xs[j] - xs[k] < StampWidth

CaptionsFit(xs) ==
    \A i, j \in DOMAIN xs :
        i # j /\ Slots(xs)[i] = Slots(xs)[j] => Gap(xs[i], xs[j]) >= CaptionWidth

-----------------------------------------------------------------------------
(* Lane chart: a tick for every step-th row and one for the last *)

MaxTicks == 24

TickStep(first, tip) == Max({1, (tip - first + MaxTicks) \div MaxTicks})

Ticks(first, tip) ==
    {s \in first..tip : (s - first) % TickStep(first, tip) = 0} \union {tip}

\* Every lane gets a tick at both of its ends, however long the window is, and
\* there is room for the ticks.
TicksFit(first, tip) ==
    {first, tip} \subseteq Ticks(first, tip) /\ Cardinality(Ticks(first, tip)) <= MaxTicks + 1

-----------------------------------------------------------------------------
(* Graph: a box per organisation, with its documents in columns *)

MaxRowWidth == 1100
ColumnWidth == 156
BoxPadding == 20
BoxGap == 30

Columns(n) == IF n <= 2 THEN 1 ELSE IF n <= 6 THEN 2 ELSE IF n <= 12 THEN 4 ELSE 5
BoxRows(n) == (n + Columns(n) - 1) \div Columns(n)
BoxWidth(n) == Columns(n) * ColumnWidth + 2 * BoxPadding

\* The place of each document in its box.
Places(n) == [i \in 0..(n - 1) |-> <<i % Columns(n), i \div Columns(n)>>]

\* Boxes from left to right, and on to a new line where one would stick out.
Shelved(counts) ==
    FoldLeft(LAMBDA acc, n :
               LET wrap == acc.x > 0 /\ acc.x + BoxWidth(n) > MaxRowWidth
                   x == IF wrap THEN 0 ELSE acc.x
                   line == IF wrap THEN acc.line + 1 ELSE acc.line
               IN  [x |-> x + BoxWidth(n) + BoxGap, line |-> line,
                    boxes |-> Append(acc.boxes, [x |-> x, line |-> line, w |-> BoxWidth(n)])],
             [x |-> 0, line |-> 1, boxes |-> << >>], counts).boxes

\* No document lies on another or outside of its box, and no box on another.
BoxesFit(counts) ==
    LET boxes == Shelved(counts)
    IN  /\ \A i \in DOMAIN counts : 
              /\ \A p \in ToSet(<< >>) \union {Places(counts[i])[k] : k \in 0..(counts[i] - 1)} :
                    p[1] < Columns(counts[i]) /\ p[2] < BoxRows(counts[i])
              /\ IsInjective(Places(counts[i]))
        /\ \A i, j \in DOMAIN boxes : i < j /\ boxes[i].line = boxes[j].line =>
              boxes[i].x + boxes[i].w < boxes[j].x
        /\ \A i \in DOMAIN boxes : boxes[i].x = 0 \/ boxes[i].x + boxes[i].w <= MaxRowWidth
=============================================================================
