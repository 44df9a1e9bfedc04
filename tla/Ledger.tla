------------------------------- MODULE Ledger -------------------------------
(***************************************************************************)
(* The only writer of the ledger and the store under it:                   *)
(* internal/ledger/writer.go over internal/store/{memory,postgres}.go.     *)
(*                                                                         *)
(* Writer.Append and Writer.SealCheckpoint hold Writer.mu from the first   *)
(* query to the last; Writer.Verify holds nothing.  Every query is a step  *)
(* of its own and may fail.  An INSERT over the network has a third        *)
(* outcome: the request context is cancelled, or the process dies, while   *)
(* the statement runs; the caller sees an error, the mutex is free again,  *)
(* and the database may still execute the statement.  LateCommit says      *)
(* whether the store can do that (Postgres) or not (Memory).               *)
(***************************************************************************)
EXTENDS Chain

CONSTANTS
    Appends,      \* calls of Writer.Append; each carries a body of its own
    Seals,        \* calls of Writer.SealCheckpoint
    Audits,       \* calls of Writer.Verify
    SealRanges,   \* the <<from, to>> arguments of SealCheckpoint
    AuditRanges,  \* the <<from, to>> arguments of Verify
    LateCommit,   \* may an INSERT take effect after its call has failed?
    NoOne         \* the owner of an unlocked mutex

Holders == Appends \union Seals
Calls == Holders \union Audits
Spans == Nat \X Nat

ASSUME LedgerAssumption ==
    /\ Appends \subseteq Bodies
    /\ Appends \intersect Seals = {}
    /\ Holders \intersect Audits = {}
    /\ NoOne \notin Calls
    /\ SealRanges \subseteq Spans
    /\ AuditRanges \subseteq Spans
    /\ LateCommit \in BOOLEAN

VARIABLES
    rows,         \* table ledger_event, in the order the rows were committed
    ckpts,        \* table checkpoint, in ckpt_id order
    wire,         \* INSERTs whose call has failed and that may still execute
    mu,           \* owner of Writer.mu
    pc,           \* how far each call has got
    tip,          \* tipSeq, tipHash of a call of Append
    span,         \* from, to of a call of SealCheckpoint or Verify
    leaves,       \* the row hashes SealCheckpoint has read
    anchor,       \* the hash the rows Verify reads have to continue
    badSeq        \* the result of Verify

vars == <<rows, ckpts, wire, mu, pc, tip, span, leaves, anchor, badSeq>>

Checkpoints == [from : Nat, to : Nat, root : [leaves : Seq(Digests)]]

\* An INSERT: the table it is for and the row.
Statements ==
    [table : {"ledger_event"}, row : Rows]
        \union [table : {"checkpoint"}, row : Checkpoints]

-----------------------------------------------------------------------------
(* The queries of the store. *)

\* Mutant: an empty table answers with a sentinel instead of seq 0.
TipsWithSentinel == IF rows = << >> THEN {[seq |-> -1, hash |-> GenesisPrevHash]} ELSE
    {[seq |-> rows[Len(rows)].seq, hash |-> rows[Len(rows)].rowHash]}

\* ORDER BY seq DESC LIMIT 1; one answer for each row with the highest seq.
Tips ==
    IF rows = << >>
    THEN {[seq |-> 0, hash |-> GenesisPrevHash]}
    ELSE {[seq |-> rows[i].seq, hash |-> rows[i].rowHash] :
             i \in {i \in DOMAIN rows :
                       \A j \in DOMAIN rows : rows[j].seq <= rows[i].seq}}

\* WHERE seq BETWEEN from AND to ORDER BY seq; one answer for each order of
\* the rows that share a seq.
EventsRange(from, to) ==
    LET hit == {i \in DOMAIN rows : from <= rows[i].seq /\ rows[i].seq <= to}
        orders == {o \in [1..Cardinality(hit) -> hit] :
                      \A j, k \in DOMAIN o :
                          j < k => /\ o[j] # o[k]
                                   /\ rows[o[j]].seq <= rows[o[k]].seq}
    IN  {[k \in DOMAIN o |-> rows[o[k]]] : o \in orders}

\* Mutant: the next range starts at the last sealed row, not after it.
NextUnsealedOverlapping == IF ckpts = << >> THEN 1 ELSE ckpts[Len(ckpts)].to

\* The seq after the last sealed one.
NextUnsealed == IF ckpts = << >> THEN 1 ELSE ckpts[Len(ckpts)].to + 1

\* The signed root commits to the hashes under it (module Merkle).
MerkleRoot(hashes) == [leaves |-> hashes]

-----------------------------------------------------------------------------
\* Mutant: Append and SealCheckpoint do not exclude each other.
AcquireUnlocked(c) ==
    /\ pc[c] = "waiting"
    /\ mu' = c
    /\ pc' = [pc EXCEPT ![c] = "locked"]

Acquire(c) ==
    /\ pc[c] = "waiting"
    /\ mu = NoOne
    /\ mu' = c
    /\ pc' = [pc EXCEPT ![c] = "locked"]

\* The deferred Unlock, with the call's outcome.
Release(c, outcome) ==
    /\ mu' = NoOne
    /\ pc' = [pc EXCEPT ![c] = outcome]

\* Mutant: the early return forgets the Unlock.
FailLocked(c) ==
    /\ pc' = [pc EXCEPT ![c] = "failed"]
    /\ UNCHANGED <<rows, ckpts, wire, mu, tip, span, leaves, anchor, badSeq>>

Fail(c) ==
    /\ Release(c, "failed")
    /\ UNCHANGED <<rows, ckpts, wire, tip, span, leaves, anchor, badSeq>>

(* Writer.Append *)

\* Mutant: the row is hashed before its seq is assigned.
NewRowHashedEarly(a) ==
    [seq      |-> tip[a].seq + 1,
     prevHash |-> tip[a].hash,
     body     |-> a,
     rowHash  |-> RowHash(tip[a].hash, tip[a].seq, a)]

NewRow(a) ==
    [seq      |-> tip[a].seq + 1,
     prevHash |-> tip[a].hash,
     body     |-> a,
     rowHash  |-> RowHash(tip[a].hash, tip[a].seq + 1, a)]

InsertRow(a) == [table |-> "ledger_event", row |-> NewRow(a)]

AppendLock(a) ==
    /\ Acquire(a)
    /\ UNCHANGED <<rows, ckpts, wire, tip, span, leaves, anchor, badSeq>>

AppendReadTip(a) ==
    /\ pc[a] = "locked"
    /\ \E t \in Tips : tip' = [tip EXCEPT ![a] = t]
    /\ pc' = [pc EXCEPT ![a] = "read"]
    /\ UNCHANGED <<rows, ckpts, wire, mu, span, leaves, anchor, badSeq>>

\* Mutant: the INSERT is sent again after it has succeeded.
AppendInsertRetried(a) ==
    /\ pc[a] = "read"
    /\ rows' = Append(rows, NewRow(a))
    /\ pc' = [pc EXCEPT ![a] = "locked"]
    /\ UNCHANGED <<ckpts, wire, mu, tip, span, leaves, anchor, badSeq>>

AppendInsert(a) ==
    /\ pc[a] = "read"
    /\ rows' = Append(rows, NewRow(a))
    /\ Release(a, "ok")
    /\ UNCHANGED <<ckpts, wire, tip, span, leaves, anchor, badSeq>>

\* Mutant: the error of a query is swallowed.
AppendFailSilently(a) ==
    /\ pc[a] \in {"locked", "read"}
    /\ Release(a, "ok")
    /\ UNCHANGED <<rows, ckpts, wire, tip, span, leaves, anchor, badSeq>>

AppendFail(a) ==
    /\ pc[a] \in {"locked", "read"}
    /\ Fail(a)

\* Mutant: a cancelled INSERT counts as done.
AppendAbandonSilently(a) ==
    /\ LateCommit
    /\ pc[a] = "read"
    /\ wire' = wire \union {InsertRow(a)}
    /\ Release(a, "ok")
    /\ UNCHANGED <<rows, ckpts, tip, span, leaves, anchor, badSeq>>

AppendAbandon(a) ==
    /\ LateCommit
    /\ pc[a] = "read"
    /\ wire' = wire \union {InsertRow(a)}
    /\ Release(a, "failed")
    /\ UNCHANGED <<rows, ckpts, tip, span, leaves, anchor, badSeq>>

(* Writer.SealCheckpoint *)

NewCheckpoint(s) ==
    [from |-> span[s][1], to |-> span[s][2], root |-> MerkleRoot(leaves[s])]

InsertCheckpoint(s) == [table |-> "checkpoint", row |-> NewCheckpoint(s)]

SealLock(s) ==
    /\ Acquire(s)
    /\ \E r \in SealRanges : span' = [span EXCEPT ![s] = r]
    /\ UNCHANGED <<rows, ckpts, wire, tip, leaves, anchor, badSeq>>

\* to = 0 means up to the tip.
SealTo(s) ==
    /\ pc[s] = "locked"
    /\ \E t \in Tips :
          span' = [span EXCEPT ![s][2] = IF @ = 0 THEN t.seq ELSE @]
    /\ pc' = [pc EXCEPT ![s] = "bounded"]
    /\ UNCHANGED <<rows, ckpts, wire, mu, tip, leaves, anchor, badSeq>>

\* from = 0 means from the last checkpoint on.
SealFrom(s) ==
    /\ pc[s] = "bounded"
    /\ LET from == IF span[s][1] = 0 THEN NextUnsealed ELSE span[s][1]
       IN  /\ from <= span[s][2]
           /\ span' = [span EXCEPT ![s][1] = from]
    /\ pc' = [pc EXCEPT ![s] = "resolved"]
    /\ UNCHANGED <<rows, ckpts, wire, mu, tip, leaves, anchor, badSeq>>

SealRead(s) ==
    /\ pc[s] = "resolved"
    /\ \E events \in EventsRange(span[s][1], span[s][2]) :
          /\ Len(events) = span[s][2] - span[s][1] + 1
          /\ leaves' = [leaves EXCEPT ![s] =
                           [k \in DOMAIN events |-> events[k].rowHash]]
    /\ pc' = [pc EXCEPT ![s] = "read"]
    /\ UNCHANGED <<rows, ckpts, wire, mu, tip, span, anchor, badSeq>>

SealInsert(s) ==
    /\ pc[s] = "read"
    /\ ckpts' = Append(ckpts, NewCheckpoint(s))
    /\ Release(s, "ok")
    /\ UNCHANGED <<rows, wire, tip, span, leaves, anchor, badSeq>>

\* A query fails, nothing is left to seal, or the range has a gap.
SealFail(s) ==
    /\ pc[s] \in {"locked", "bounded", "resolved", "read"}
    /\ Fail(s)

SealAbandon(s) ==
    /\ LateCommit
    /\ pc[s] = "read"
    /\ wire' = wire \union {InsertCheckpoint(s)}
    /\ Release(s, "failed")
    /\ UNCHANGED <<rows, ckpts, tip, span, leaves, anchor, badSeq>>

(* Writer.Verify: not under the mutex *)

AuditTip(v) ==
    /\ pc[v] = "waiting"
    /\ \E r \in AuditRanges, t \in Tips :
          LET from == IF r[1] < 1 THEN 1 ELSE r[1]
              to == IF r[2] = 0 THEN t.seq ELSE r[2]
          IN  span' = [span EXCEPT ![v] = <<from, to>>]
    /\ pc' = [pc EXCEPT ![v] = "resolved"]
    /\ UNCHANGED <<rows, ckpts, wire, mu, tip, leaves, anchor, badSeq>>

\* Mutant: a partial range is checked as if it began at the genesis.
AnchorHashGenesis(from) == {GenesisPrevHash}

\* The row before the range, whose hash the range must continue: exactly one.
AnchorHash(from) ==
    IF from > 1
    THEN {e[1].rowHash : e \in {e \in EventsRange(from - 1, from - 1) : Len(e) = 1}}
    ELSE {GenesisPrevHash}

AuditEmpty(v) ==
    /\ pc[v] = "resolved"
    /\ span[v][2] < span[v][1]
    /\ badSeq' = [badSeq EXCEPT ![v] = 0]
    /\ pc' = [pc EXCEPT ![v] = "ok"]
    /\ UNCHANGED <<rows, ckpts, wire, mu, tip, span, leaves, anchor>>

AuditAnchor(v) ==
    /\ pc[v] = "resolved"
    /\ span[v][1] <= span[v][2]
    /\ \E h \in AnchorHash(span[v][1]) : anchor' = [anchor EXCEPT ![v] = h]
    /\ pc' = [pc EXCEPT ![v] = "anchored"]
    /\ UNCHANGED <<rows, ckpts, wire, mu, tip, span, leaves, badSeq>>

AuditChain(v) ==
    /\ pc[v] = "anchored"
    /\ \E events \in EventsRange(span[v][1], span[v][2]) :
          badSeq' = [badSeq EXCEPT ![v] = VerifyChain(events, anchor[v])]
    /\ pc' = [pc EXCEPT ![v] = "ok"]
    /\ UNCHANGED <<rows, ckpts, wire, mu, tip, span, leaves, anchor>>

AuditFail(v) ==
    /\ pc[v] \in {"waiting", "resolved", "anchored"}
    /\ pc' = [pc EXCEPT ![v] = "failed"]
    /\ UNCHANGED <<rows, ckpts, wire, mu, tip, span, leaves, anchor, badSeq>>

(* The database and the process *)

Execute(i) ==
    /\ wire' = wire \ {i}
    /\ \/ /\ i.table = "ledger_event"
          /\ rows' = Append(rows, i.row)
          /\ UNCHANGED ckpts
       \/ /\ i.table = "checkpoint"
          /\ ckpts' = Append(ckpts, i.row)
          /\ UNCHANGED rows
    /\ UNCHANGED <<mu, pc, tip, span, leaves, anchor, badSeq>>

Discard(i) ==
    /\ wire' = wire \ {i}
    /\ UNCHANGED <<rows, ckpts, mu, pc, tip, span, leaves, anchor, badSeq>>

Append_(a) ==
    AppendLock(a) \/ AppendReadTip(a) \/ AppendInsert(a) \/ AppendFail(a) \/ AppendAbandon(a)

Seal(s) ==
    \/ SealLock(s) \/ SealTo(s) \/ SealFrom(s) \/ SealRead(s)
    \/ SealInsert(s) \/ SealFail(s) \/ SealAbandon(s)

Audit(v) ==
    \/ AuditTip(v) \/ AuditEmpty(v) \/ AuditAnchor(v) \/ AuditChain(v)
    \/ AuditFail(v)

-----------------------------------------------------------------------------
Init ==
    /\ rows = << >>
    /\ ckpts = << >>
    /\ wire = {}
    /\ mu = NoOne
    /\ pc = [c \in Calls |-> "waiting"]
    /\ tip = [a \in Appends |-> [seq |-> 0, hash |-> GenesisPrevHash]]
    /\ span = [c \in Seals \union Audits |-> <<0, 0>>]
    /\ leaves = [s \in Seals |-> << >>]
    /\ anchor = [v \in Audits |-> GenesisPrevHash]
    /\ badSeq = [v \in Audits |-> 0]

Next ==
    \/ \E a \in Appends : Append_(a)
    \/ \E s \in Seals : Seal(s)
    \/ \E v \in Audits : Audit(v)
    \/ \E i \in wire : Execute(i) \/ Discard(i)

Spec == Init /\ [][Next]_vars

(***************************************************************************)
(* Fairness: a goroutine that can take its next step eventually does, and  *)
(* a query eventually returns, with a result or an error.  sync.Mutex      *)
(* hands the lock to a waiter that has waited too long (its starvation     *)
(* mode), which makes acquisition strongly fair.                           *)
(***************************************************************************)
Fairness ==
    /\ \A a \in Appends : SF_vars(AppendLock(a)) /\ WF_vars(Append_(a))
    /\ \A s \in Seals : SF_vars(SealLock(s)) /\ WF_vars(Seal(s))
    /\ \A v \in Audits : WF_vars(Audit(v))

FairSpec == Spec /\ Fairness

-----------------------------------------------------------------------------
(* Properties *)

\* Every variable has the type its declaration says.
TypeOK ==
    /\ rows \in Seq(Rows)
    /\ ckpts \in Seq(Checkpoints)
    /\ wire \subseteq Statements
    /\ mu \in Holders \union {NoOne}
    /\ pc \in [Calls -> {"waiting", "locked", "bounded", "resolved", "anchored",
                         "read", "ok", "failed"}]
    /\ tip \in [Appends -> [seq : Nat, hash : Digests]]
    /\ span \in [Seals \union Audits -> Spans]
    /\ leaves \in [Seals -> Seq(Digests)]
    /\ anchor \in [Audits -> Digests]
    /\ badSeq \in [Audits -> Nat]

\* The ledger is one chain without gap or fork: the k-th committed row has seq
\* k, continues the row before it and carries its own hash.  (hash.go RowHash,
\* writer.go Append: the single writer's serialisation.)
OneChain ==
    \A k \in DOMAIN rows :
        /\ rows[k].seq = k
        /\ rows[k].prevHash = HashBefore(rows, GenesisPrevHash, k)
        /\ rows[k].rowHash = EventRowHash(rows[k])

\* A caller of Append is told the truth: its row is in the ledger exactly when
\* it got no error, and never twice.
AnswersMatchRows ==
    /\ \A a \in Appends :
          pc[a] = "ok" <=> \E k \in DOMAIN rows : rows[k].body = a
    /\ \A j, k \in DOMAIN rows : rows[j].body = rows[k].body => j = k

\* Verify, which runs without the mutex beside Append and SealCheckpoint, never
\* points at a row of a ledger nobody has altered.
NoFalseAlarm == \A v \in Audits : pc[v] = "ok" => badSeq[v] = 0

\* A checkpoint is the signed root of exactly the rows of its range, all of
\* them there when it was taken and all of them there ever since; and seals tile
\* the ledger: each begins at row 1 or right after the one before it, unless its
\* caller asked for another first row.
SealsHold ==
    \A k \in DOMAIN ckpts :
        /\ 1 <= ckpts[k].from /\ ckpts[k].from <= ckpts[k].to
        /\ \E events \in EventsRange(ckpts[k].from, ckpts[k].to) :
              ckpts[k].root = MerkleRoot([j \in DOMAIN events |-> events[j].rowHash])
        /\ \/ ckpts[k].from = IF k = 1 THEN 1 ELSE ckpts[k - 1].to + 1
           \/ \E r \in SealRanges : r[1] # 0 /\ r[1] = ckpts[k].from

\* Even when an INSERT outlives its call, the rows form a tree rooted at the
\* genesis hash: each one continues a row that is already there.
OneTree ==
    \A k \in DOMAIN rows :
        /\ rows[k].rowHash = EventRowHash(rows[k])
        /\ \/ rows[k].seq = 1 /\ rows[k].prevHash = GenesisPrevHash
           \/ \E j \in 1..(k - 1) :
                 /\ rows[j].rowHash = rows[k].prevHash
                 /\ rows[k].seq = rows[j].seq + 1

\* An acknowledged row is never missing, whatever happens to other INSERTs.
AckedStored == \A a \in Appends : pc[a] = "ok" => \E k \in DOMAIN rows : rows[k].body = a

\* Every call returns: the mutex is always handed on.
EveryCallReturns == \A c \in Calls : <>(pc[c] \in {"ok", "failed"})

\* The writer implements the append-only log.
Log == INSTANCE AppendOnlyLog WITH
    Callers <- Appends,
    log <- [k \in DOMAIN rows |-> rows[k].body],
    answer <- [a \in Appends |-> IF pc[a] \in {"ok", "failed"} THEN pc[a] ELSE "none"]

ImplementsLog == Log!Spec

-----------------------------------------------------------------------------
(* The strengthening that makes the properties above inductive *)

InProgress == {"locked", "bounded", "resolved", "read"}

\* A call is between Lock and Unlock exactly when it owns the mutex.
MutexInv == \A c \in Holders : pc[c] \in InProgress <=> mu = c

\* While a call of Append holds the tip it has read, that is still the tip.
TipIsCurrent ==
    \A a \in Appends :
        pc[a] = "read" =>
            tip[a] = [seq  |-> Len(rows),
                      hash |-> HashBefore(rows, GenesisPrevHash, Len(rows) + 1)]

\* Without late commits nothing is ever left on the wire.
WireIsEmpty == LateCommit \/ wire = {}

ChainInv ==
    /\ MutexInv
    /\ TipIsCurrent
    /\ WireIsEmpty
    /\ OneChain
    /\ AnswersMatchRows

(* ... and the strengthening of OneTree and AckedStored, late commits allowed *)

\* A row with this seq and prev_hash continues the genesis or a row of the log.
Continues(seq, prevHash, log) ==
    \/ seq = 1 /\ prevHash = GenesisPrevHash
    \/ \E j \in DOMAIN log : log[j].rowHash = prevHash /\ seq = log[j].seq + 1

\* The tip a call of Append has read may be stale, but it was a row, and rows stay.
TipIsStored ==
    \A a \in Appends : pc[a] = "read" => Continues(tip[a].seq + 1, tip[a].hash, rows)

\* An INSERT that outlived its call would still continue a stored row.
WireContinues ==
    \A i \in wire :
        i.table = "ledger_event" =>
            /\ i.row.rowHash = EventRowHash(i.row)
            /\ Continues(i.row.seq, i.row.prevHash, rows)

TreeInv ==
    /\ TipIsStored
    /\ WireContinues
    /\ OneTree
    /\ AckedStored

(* ... and the strengthening of NoFalseAlarm and SealsHold *)

\* The row hashes of a range, read off the table.
HashesOf(from, to) == [j \in 1 .. (to - from + 1) |-> rows[from + j - 1].rowHash]

\* A call of Verify that has its anchor has the hash of the row before its range,
\* whatever has been appended since, and has found nothing.
AuditInv ==
    \A v \in Audits :
        /\ pc[v] \in {"resolved", "anchored"} => span[v][1] >= 1
        /\ pc[v] = "anchored" =>
              /\ span[v][1] - 1 <= Len(rows)
              /\ anchor[v] = HashBefore(rows, GenesisPrevHash, span[v][1])
        /\ pc[v] = "ok" => badSeq[v] = 0

\* A range of SealCheckpoint begins after the last seal or where the caller asked.
Begins(from) == from = NextUnsealed \/ \E r \in SealRanges : r[1] # 0 /\ r[1] = from

\* What SealCheckpoint has resolved and read so far fits the rows and the seals.
SealInProgress ==
    \A s \in Seals :
        /\ pc[s] \in {"locked", "bounded"} => \E r \in SealRanges : r[1] = span[s][1]
        /\ pc[s] \in {"resolved", "read"} =>
              /\ 1 <= span[s][1] /\ span[s][1] <= span[s][2]
              /\ Begins(span[s][1])
        /\ pc[s] = "read" =>
              /\ span[s][2] <= Len(rows)
              /\ leaves[s] = HashesOf(span[s][1], span[s][2])

\* Every checkpoint covers rows of the table, commits to their hashes and begins
\* where it should.
SealedRows ==
    \A k \in DOMAIN ckpts :
        /\ 1 <= ckpts[k].from /\ ckpts[k].from <= ckpts[k].to /\ ckpts[k].to <= Len(rows)
        /\ ckpts[k].root = MerkleRoot(HashesOf(ckpts[k].from, ckpts[k].to))
        /\ \/ ckpts[k].from = IF k = 1 THEN 1 ELSE ckpts[k - 1].to + 1
           \/ \E r \in SealRanges : r[1] # 0 /\ r[1] = ckpts[k].from

SealInv == SealInProgress /\ SealedRows
=============================================================================
