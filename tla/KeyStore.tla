------------------------------ MODULE KeyStore ------------------------------
(***************************************************************************)
(* The key store of an organisation (internal/crypto/softhsm): a directory *)
(* with the keys and certificates of its CA and of its two signers, and    *)
(* the list of revoked certificates.                                       *)
(*                                                                         *)
(* Every file is written with os.WriteFile, which empties it first; the    *)
(* process may stop between any two of these, and a write may fail.  One   *)
(* process has the directory open at a time.  A key and the certificate    *)
(* made for it share a number; a certificate also names the key that       *)
(* signed it.  The number stands for the serial as well.                   *)
(***************************************************************************)
EXTENDS Integers, Sequences, FiniteSets

CONSTANTS
    MaxKeys,   \* bound: keys that are made
    MaxStarts  \* bound: times the store is opened

ASSUME KeyStoreAssumption == MaxKeys \in Nat /\ MaxStarts \in Nat

\* In the order in which load reads them; generate writes them in this order too.
FileNames == <<"ca.key", "ca.crt", "label.key", "label.crt",
               "checkpoint.key", "checkpoint.crt", "revoked.json">>

FileName == {FileNames[i] : i \in 1..7}

VARIABLES
    disk,      \* the directory
    mode,      \* what the process does with the store
    todo,      \* the files an operation has still to write
    mem,       \* the Keystore of the process: what it has loaded or made
    keys,      \* how many keys have been made
    starts,    \* how often the store has been opened
    root,      \* the CA of the first Keystore that was opened, 0 for none yet
    revoked,   \* the serials for which RevokeSerial has returned nil
    torn,      \* was the last rotation cut short?
    cut        \* was any operation cut short?

keyVars == <<disk, mode, todo, mem, keys, starts, root, revoked, torn, cut>>

\* What a file holds: nothing it can be read as ("cut"), a key, a certificate of
\* key that was signed with ca, or a list of serials.
Content(st, key, ca, serials) == [st |-> st, key |-> key, ca |-> ca, serials |-> serials]

Absent == Content("absent", 0, 0, {})
Cut == Content("cut", 0, 0, {})
Key(k) == Content("ok", k, 0, {})
Cert(k, ca) == Content("ok", k, ca, {})
List(serials) == Content("ok", 0, 0, serials)

\* The process holds a Keystore that Open has returned.
Up == mode \in {"up", "rotating", "revoking"}

-----------------------------------------------------------------------------
(* Open *)

Generated(k) ==
    <<[file |-> "ca.key", content |-> Key(k)],
      [file |-> "ca.crt", content |-> Cert(k, k)],
      [file |-> "label.key", content |-> Key(k + 1)],
      [file |-> "label.crt", content |-> Cert(k + 1, k)],
      [file |-> "checkpoint.key", content |-> Key(k + 2)],
      [file |-> "checkpoint.crt", content |-> Cert(k + 2, k)],
      [file |-> "revoked.json", content |-> List({})]>>

Open ==
    /\ mode = "down"
    /\ starts < MaxStarts
    /\ starts' = starts + 1
    /\ IF disk["ca.crt"].st = "absent"
       THEN /\ keys + 3 <= MaxKeys
            /\ mode' = "generating"
            /\ todo' = Generated(keys + 1)
            /\ keys' = keys + 3
       ELSE /\ mode' = "loading"
            /\ UNCHANGED <<todo, keys>>
    /\ UNCHANGED <<disk, mem, root, revoked, torn, cut>>

\* Mutant: a list that cannot be parsed is taken for an empty one.
ReadableOrEmpty(f) == disk[f].st = "ok" \/ f = "revoked.json"

\* A file that cannot be read or parsed is an error; a missing list is empty.
Readable(f) == disk[f].st = "ok" \/ (f = "revoked.json" /\ disk[f].st = "absent")

Loadable == \A f \in FileName : Readable(f)

Load ==
    /\ mode = "loading"
    /\ Loadable
    /\ mem' = [f \in FileName |-> IF disk[f].st = "ok" THEN disk[f] ELSE List({})]
    /\ mode' = "up"
    /\ root' = IF root = 0 THEN disk["ca.crt"].key ELSE root
    /\ UNCHANGED <<disk, todo, keys, starts, revoked, torn, cut>>

LoadFails ==
    /\ mode = "loading"
    /\ ~Loadable
    /\ mode' = "failed"
    /\ UNCHANGED <<disk, todo, mem, keys, starts, root, revoked, torn, cut>>

(* RotateLabelSigner and RevokeSerial *)

Rotate ==
    /\ mode = "up"
    /\ keys < MaxKeys
    /\ todo' = <<[file |-> "label.key", content |-> Key(keys + 1)],
                 [file |-> "label.crt", content |-> Cert(keys + 1, mem["ca.key"].key)]>>
    /\ keys' = keys + 1
    /\ mode' = "rotating"
    /\ UNCHANGED <<disk, mem, starts, root, revoked, torn, cut>>

\* The serial is in memory before it is on disk.
Revoke ==
    /\ mode = "up"
    /\ mem' = [mem EXCEPT !["revoked.json"] = List(@.serials \union {mem["label.crt"].key})]
    /\ todo' = <<[file |-> "revoked.json", content |-> mem'["revoked.json"]]>>
    /\ mode' = "revoking"
    /\ UNCHANGED <<disk, keys, starts, root, revoked, torn, cut>>

(* os.WriteFile, one file after the other *)

Truncate ==
    /\ todo # << >>
    /\ disk[Head(todo).file] # Cut
    /\ disk' = [disk EXCEPT ![Head(todo).file] = Cut]
    /\ UNCHANGED <<mode, todo, mem, keys, starts, root, revoked, torn, cut>>

Write ==
    /\ todo # << >>
    /\ disk[Head(todo).file] = Cut
    /\ disk' = [disk EXCEPT ![Head(todo).file] = Head(todo).content]
    /\ todo' = Tail(todo)
    /\ UNCHANGED <<mode, mem, keys, starts, root, revoked, torn, cut>>

\* All files are written: the operation returns.
Finish ==
    /\ todo = << >>
    /\ \/ /\ mode = "generating"
          /\ mode' = "loading"
          /\ UNCHANGED <<mem, revoked, torn>>
       \/ /\ mode = "rotating"
          /\ mode' = "up"
          /\ mem' = [mem EXCEPT !["label.key"] = disk["label.key"],
                                !["label.crt"] = disk["label.crt"]]
          /\ torn' = FALSE
          /\ UNCHANGED revoked
       \/ /\ mode = "revoking"
          /\ mode' = "up"
          /\ revoked' = mem["revoked.json"].serials
          /\ UNCHANGED <<mem, torn>>
    /\ UNCHANGED <<disk, todo, keys, starts, root, cut>>

\* An operation ends before its time.
CutShort ==
    /\ cut' = (cut \/ todo # << >>)
    /\ torn' = (torn \/ (mode = "rotating" /\ todo # << >> /\ disk["label.key"] # mem["label.key"]))
    /\ todo' = << >>

\* The disk is full, say: the file stays as it is, the operation gives up.
WriteFails ==
    /\ todo # << >>
    /\ mode' = IF mode = "generating" THEN "failed" ELSE "up"
    /\ CutShort
    /\ UNCHANGED <<disk, mem, keys, starts, root, revoked>>

\* The process exits or is killed.
Stop ==
    /\ mode # "down"
    /\ mode' = "down"
    /\ CutShort
    /\ UNCHANGED <<disk, mem, keys, starts, root, revoked>>
-----------------------------------------------------------------------------
KeyStoreInit ==
    /\ disk = [f \in FileName |-> Absent]
    /\ mode = "down"
    /\ todo = << >>
    /\ mem = [f \in FileName |-> Absent]
    /\ keys = 0
    /\ starts = 0
    /\ root = 0
    /\ revoked = {}
    /\ torn = FALSE
    /\ cut = FALSE

KeyStoreNext ==
    \/ Open \/ Load \/ LoadFails \/ Rotate \/ Revoke
    \/ Truncate \/ Write \/ Finish \/ WriteFails \/ Stop

-----------------------------------------------------------------------------
(* Properties *)

\* A signer signs with the key its certificate was made for, and the CA that is
\* handed to partners has signed that certificate.
SignerFits(key, crt) ==
    /\ mem[key].key = mem[crt].key
    /\ mem[crt].ca = mem["ca.crt"].key

\* However often the process was stopped and whatever write failed, a Keystore
\* that Open returns has the CA of the first one, knows every certificate whose
\* revocation was acknowledged, and has signers that fit, unless a rotation was
\* cut short between its two files (softhsm.go:118, 249-253).  What does not open
\* had an operation cut short (softhsm.go:71).
KeyStoreKeeps ==
    /\ Up => /\ mem["ca.crt"].key = root
             /\ revoked \subseteq mem["revoked.json"].serials
             /\ SignerFits("checkpoint.key", "checkpoint.crt")
             /\ torn \/ SignerFits("label.key", "label.crt")
    /\ mode = "failed" => cut
=============================================================================
