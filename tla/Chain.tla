------------------------------- MODULE Chain -------------------------------
(***************************************************************************)
(* The hash chain of the ledger: internal/ledger/hash.go.                  *)
(*                                                                         *)
(* A ledger row is a record.  `body' stands for the fields of Event that   *)
(* RowHash serialises besides prev_hash and seq (event type, document,     *)
(* content hash, grade, parent hash, issuer, actor, created_at); the       *)
(* annotation fields that RowHash leaves out are not part of a row here.   *)
(* SHA-256 is taken to be collision free, so a digest is modelled by the   *)
(* transcript it commits to: the digest of a row is the transcript of its  *)
(* prev_hash followed by the row's own seq and body.                       *)
(***************************************************************************)
EXTENDS Integers, Sequences, FiniteSetsExt

CONSTANT Bodies  \* the hashed contents a row may carry

Digests == Seq(Nat \X Bodies)

GenesisPrevHash == << >>

RowHash(prevHash, seq, body) == Append(prevHash, <<seq, body>>)

EventRowHash(e) == RowHash(e.prevHash, e.seq, e.body)

Rows == [seq : Nat, prevHash : Digests, body : Bodies, rowHash : Digests]

(***************************************************************************)
(* VerifyChain walks the rows in order, carrying the stored row_hash of    *)
(* the row before; the first row whose prev_hash is not that hash, or      *)
(* whose row_hash is not the hash of its own fields, is reported.          *)
(***************************************************************************)
HashBefore(events, prevHash, i) ==
    IF i = 1 THEN prevHash ELSE events[i - 1].rowHash

Broken(events, prevHash) ==
    {i \in DOMAIN events :
        \/ events[i].prevHash # HashBefore(events, prevHash, i)
        \/ events[i].rowHash # EventRowHash(events[i])}

VerifyChain(events, prevHash) ==
    IF Broken(events, prevHash) = {}
    THEN 0
    ELSE events[Min(Broken(events, prevHash))].seq

=============================================================================
