------------------------------ MODULE Lineage ------------------------------
(***************************************************************************)
(* The family tree of a document: internal/lineage/lineage.go.             *)
(*                                                                         *)
(* A row of the ledger is a record with its document, the hash of the      *)
(* content, the hash of the content it was derived from and whether it is  *)
(* an issuance.  Parents are declared by hash, and a hash may have been    *)
(* registered for several documents, later than its children, or not at    *)
(* all; so the declared relation may hold cycles, which nothing but the    *)
(* depth ends.  The walk is depth first and its result a list of rows, one *)
(* for a document, and a list of edges.                                    *)
(***************************************************************************)
EXTENDS Integers, Sequences, SequencesExt, FiniteSetsExt

NoHash == "none"

Issued(table) == {n \in DOMAIN table : table[n].issuance}

\* LatestByDoc
LatestRow(table, doc) == Max({n \in DOMAIN table : table[n].doc = doc})

\* ChildrenOf, without the rows walkDown skips: in the order of the ledger.
Children(table, n) ==
    SelectSeq([m \in DOMAIN table |-> m],
              LAMBDA m : m \in Issued(table) /\ table[m].parent = table[n].hash)

\* EventsByContentHash, of which walkUp takes the last issuance.
Parents(table, n) == {m \in Issued(table) : table[m].hash = table[n].parent}

-----------------------------------------------------------------------------
Met(table, g, n) == \E i \in DOMAIN g.nodes : table[g.nodes[i]].doc = table[n].doc

\* addNode: the first row met stands for its document.
AddNode(table, g, n) ==
    IF Met(table, g, n) THEN g ELSE [g EXCEPT !.nodes = Append(@, n)]

\* addEdge
AddEdge(table, g, p, c) ==
    LET edge == <<table[p].doc, table[c].doc>>
    IN  IF Contains(g.edges, edge) THEN g ELSE [g EXCEPT !.edges = Append(@, edge)]

RECURSIVE Up(_, _, _, _)
Up(table, g, n, depth) ==
    LET p == Max(Parents(table, n))
    IN  IF depth = 0 \/ table[n].parent = NoHash \/ Parents(table, n) = {} THEN g
        ELSE Up(table, AddEdge(table, AddNode(table, g, p), p, n), p, depth - 1)

\* Mutant: what was met before is not walked from again.
RECURSIVE DownOnce(_, _, _, _)
DownOnce(table, g, n, depth) ==
    IF depth = 0 THEN g
    ELSE FoldLeft(LAMBDA acc, c :
                    LET joined == AddEdge(table, AddNode(table, acc, c), n, c)
                    IN  IF Met(table, acc, c) THEN joined
                        ELSE DownOnce(table, joined, c, depth - 1),
                  g, Children(table, n))

RECURSIVE DeepDown(_, _, _, _)
DeepDown(table, g, n, depth) ==
    IF depth = 0 THEN g
    ELSE FoldLeft(LAMBDA acc, c :
                    DeepDown(table, AddEdge(table, AddNode(table, acc, c), n, c), c, depth - 1),
                  g, Children(table, n))

Down(table, g, n, depth) == DeepDown(table, g, n, depth)

\* Query: up and down from the newest row of the document.
Query(table, doc, depth, direction) ==
    LET start == LatestRow(table, doc)
        alone == [nodes |-> <<start>>, edges |-> << >>]
        above == IF direction = "down" THEN alone ELSE Up(table, alone, start, depth)
    IN  IF direction = "up" THEN above ELSE Down(table, above, start, depth)

-----------------------------------------------------------------------------
(* Reference *)

DocsOf(table, rows) == {table[n].doc : n \in rows}

\* The rows of the k-th generation under a hash, level by level.
Generations(table, hash, depth) ==
    LET under[k \in 1..depth] ==
            {n \in Issued(table) :
                table[n].parent \in IF k = 1 THEN {hash}
                                    ELSE {table[m].hash : m \in under[k - 1]}}
    IN  UNION {under[k] : k \in 1..depth}

-----------------------------------------------------------------------------
(* Properties of a ledger and a depth *)

Documents(table) == DocsOf(table, DOMAIN table)
Seen(table, g) == DocsOf(table, ToSet(g.nodes))

\* The descendants found are those within the given number of generations, by
\* whatever path, although the walk is depth first and meets some of them twice.
FindsDescendants(table, depth) ==
    \A doc \in Documents(table) :
        Seen(table, Query(table, doc, depth, "down"))
            = {doc} \union DocsOf(table, Generations(table, table[LatestRow(table, doc)].hash, depth))

=============================================================================
