---------------------------- MODULE LabelledFile ----------------------------
(***************************************************************************)
(* The life of one file in the hands of its owner: labelled by `lm issue`, *)
(* `lm scan` or the web client, saved by editors, parted from its sidecar, *)
(* restored by `lm restore` (cmd/lm/main.go, verify-pwa/src/pages,         *)
(* internal/server/restore.go), with the documents it became in the ledger.*)
(*                                                                         *)
(* A command runs to its end, or stops when the server has answered and    *)
(* the file is not written yet; nobody edits the file meanwhile.  The      *)
(* server's calls are one step each: modules LabelLifecycle and Issuance   *)
(* take them apart.                                                        *)
(***************************************************************************)
EXTENDS Attachment

CONSTANTS
    Kinds,        \* the formats the file may have
    Texts,        \* the texts it may start with: sequences of lines
    Comments,     \* archive comments it may start with
    LegacyKinds,  \* formats in which it may start with a trailer
    MaxRows,      \* the length at which the ledger takes no more rows
    MaxSaves,     \* how often editors save the file
    Marks,        \* may an editor put a byte order mark in front?
    Unsigned,     \* may a client register without a signature?
    Declared,     \* formats in which a request may name a parent, or the document
    Outages       \* may the ledger's queries fail during a restore?

ASSUME FileAssumption ==
    /\ LegacyKinds \subseteq Kinds /\ Declared \subseteq Kinds
    /\ Comments \subseteq {Foreign}
    /\ MaxRows \in Nat \ {0} /\ MaxSaves \in Nat
    /\ {Marks, Unsigned, Outages} \subseteq BOOLEAN

VARIABLES
    file,      \* the file
    sidecar,   \* the label in the .lmsig file beside it, or NoLabel
    ledger,    \* the rows of the documents this file became
    keys,      \* table idempotency: key and row of the response
    given,     \* the label last delivered for the content as it is: row, how
    saves      \* how often the file was saved

vars == <<file, sidecar, ledger, keys, given, saves>>

Nothing == [row |-> NoLabel, how |-> "none"]

-----------------------------------------------------------------------------
(* The server *)

Rows == DOMAIN ledger
Newest(doc) == Max({n \in Rows : ledger[n].doc = doc})
Issuances == {"ISSUE", "DERIVE", "REGRADE"}

\* Mutant: labels that were inherited are not looked for.
SignedAtFirst(n) == ledger[n].type = "ISSUE" /\ ledger[n].signed

\* handleLabelByHash, recoverLabel: the rows whose label can be handed out.
Signed(n) == ledger[n].type \in Issuances /\ ledger[n].signed
ByHash(h) == {n \in Rows : Signed(n) /\ ledger[n].hash = h}
ByText(t) == {n \in Rows : Signed(n) /\ t # NoText /\ ledger[n].text = t}

Root == [kind |-> "none"]

\* issueLabel: a row whose parent was given is a derivation.
Row(actor, doc, seen, signed, parent) ==
    [type |-> IF parent = Root THEN "ISSUE" ELSE "DERIVE", actor |-> actor, doc |-> doc,
     hash |-> seen.hash, text |-> seen.text, signed |-> signed, parent |-> parent]

\* The contents a request may declare the file to be derived from: none, one
\* that is registered, or any other, such as its own.
Parents(seen) ==
    {Root} \union IF file.kind \in Declared
                  THEN {seen.hash} \union {ledger[n].hash : n \in Rows} ELSE {}

\* The documents it may say the file is: a new one, or one that is registered.
Docs(r) == {r} \union IF file.kind \in Declared THEN {ledger[n].doc : n \in Rows} ELSE {}

\* POST /v1/labels: a key answered before is answered the same, whatever the
\* request says now.  Neither the document nor the parent that it names is
\* compared with what is there.
Issued(key, seen, signed, docs, parents, r) ==
    \/ /\ [key |-> key, row |-> r] \in keys
       /\ UNCHANGED <<ledger, keys>>
    \/ /\ \A k \in keys : k.key # key
       /\ r = Len(ledger) + 1 /\ r <= MaxRows
       /\ \E doc \in docs, parent \in parents :
             ledger' = Append(ledger, Row("api", doc, seen, signed, parent))
       /\ keys' = keys \union {[key |-> key, row |-> r]}

\* What the answer's labelData decodes to.
Answer(r) == IF ledger'[r].signed THEN r ELSE Void

\* handleRegrade, handleRevoke, handleDestroy
Update ==
    /\ Len(ledger) < MaxRows
    /\ \E doc \in {ledger[n].doc : n \in Rows}, type \in {"REGRADE", "REVOKE", "DESTROY"} :
          LET latest == ledger[Newest(doc)]
              regrade == type = "REGRADE"
          IN  /\ IF regrade THEN Signed(Newest(doc)) ELSE latest.type # type
              /\ ledger' = Append(ledger,
                    [latest EXCEPT !.type = type, !.actor = "api", !.text = NoText,
                                   !.signed = regrade,
                                   !.parent = IF regrade THEN @ ELSE Root])
    /\ UNCHANGED <<file, sidecar, keys, given, saves>>

-----------------------------------------------------------------------------
(* The command line *)

\* What `lm verify` presents: the label inside, else the one beside.
Presented ==
    IF Extract(file) # NoLabel THEN Extract(file) ELSE Max({NoLabel, sidecar})

WriteFile(r, how) ==
    /\ file' = Attach(file, r)
    /\ given' = [row |-> r, how |-> how]
    /\ UNCHANGED sidecar

WriteSidecar(r, how) ==
    /\ sidecar' = r
    /\ given' = [row |-> r, how |-> how]
    /\ UNCHANGED file

WriteNothing == UNCHANGED <<file, sidecar, given>>

\* Mutant: the label inside is written without a look at what is there.
CliIssueCarelessly ==
    /\ LET seen == GoRead(file)
       IN  \E embed, signed \in BOOLEAN, r \in 1..MaxRows :
              /\ signed \/ Unsigned
              /\ Issued(<<"issue", seen.hash>>, seen, signed, Docs(r), Parents(seen), r)
              /\ IF embed /\ file.kind \in {"markdown", "pdf", "ooxml"}
                 THEN WriteFile(Answer(r), "issued") ELSE WriteSidecar(Answer(r), "issued")
    /\ UNCHANGED saves

\* lm issue [--embed] [--force] [--no-sign] [--parent] [--doc-guid].  Nothing is
\* written for want of a signature, if the file has a label, if a sidecar is in
\* the way (the row is appended by then), or because the command was stopped.
CliIssue ==
    /\ LET seen == GoRead(file)
           labelled == seen.label # NoLabel
           fits == MayAttach(file)
       IN  \E embed, force, signed \in BOOLEAN, r \in 1..MaxRows :
              /\ labelled => force
              /\ signed \/ Unsigned
              /\ Issued(<<"issue", seen.hash>>, seen, signed, Docs(r), Parents(seen), r)
              /\ \/ WriteNothing
                 \/ /\ signed /\ ~labelled /\ embed /\ fits
                    /\ WriteFile(Answer(r), "issued")
                 \/ /\ signed /\ ~labelled /\ ~(embed /\ fits)
                    /\ sidecar = NoLabel \/ force
                    /\ WriteSidecar(Answer(r), "issued")
    /\ UNCHANGED saves

\* lm scan --issue: whatever is inside already, a sidecar is written.
Scan ==
    /\ LET seen == GoRead(file)
       IN  \E r \in 1..MaxRows :
              /\ Issued(<<"scan", seen.hash>>, seen, TRUE, {r}, {Root}, r)
              /\ \/ WriteSidecar(r, IF seen.label = NoLabel THEN "issued" ELSE "beside")
                 \/ WriteNothing
    /\ UNCHANGED saves

\* lm restore [--embed]: by the hash, else by the text.
Restore ==
    /\ Extract(file) = NoLabel
    /\ \E embed \in BOOLEAN, lost \in {FALSE, Outages} :
          LET seen == GoRead(file)
              exact == IF lost THEN {} ELSE ByHash(seen.hash)
              found == IF exact # {} THEN exact ELSE ByText(seen.text)
              how == IF exact # {} THEN "exact" ELSE "text"
          IN  /\ found # {}
              /\ ledger[Newest(ledger[Max(found)].doc)].type # "DESTROY"
              /\ IF embed /\ MayAttach(file)
                 THEN WriteFile(Max(found), how)
                 ELSE WriteSidecar(Max(found), how)
    /\ UNCHANGED <<ledger, keys, saves>>

\* lm restore --rehydrate: POST /v1/restore, with the resemblance left open,
\* save that a file resembles its own text most.
Rehydrate ==
    /\ Extract(file) = NoLabel /\ Len(ledger) < MaxRows
    /\ \E embed \in BOOLEAN, lost \in {FALSE, Outages}, n \in Rows :
          LET seen == GoRead(file)
              itself == {m \in Rows : ledger[m].text = seen.text}
              original == ledger[Newest(ledger[n].doc)]
              r == Len(ledger) + 1
          IN  /\ seen.text # NoText
              /\ lost \/ ByHash(seen.hash) \union ByText(seen.text) = {}
              /\ ledger[n].text # NoText
              /\ itself # {} => n \in itself
              /\ original.type \in Issuances
              /\ ledger' = Append(ledger, Row("restore", r, seen, TRUE, original.hash))
              /\ IF embed /\ MayAttach(file)
                 THEN WriteFile(r, "inherited")
                 ELSE WriteSidecar(r, "inherited")
    /\ UNCHANGED <<keys, saves>>

-----------------------------------------------------------------------------
(* The web client *)

\* Issue.jsx: the labelled copy, or the sidecar, takes its place by the file.
WebIssue ==
    /\ JsExtract(file) = NoLabel
    /\ LET seen == JsRead(file)
       IN  \E signed \in BOOLEAN, r \in 1..MaxRows :
              /\ signed \/ Unsigned
              /\ Issued(<<"web", seen.hash>>, seen, signed, {r}, Parents(seen), r)
              /\ \/ WriteNothing
                 \/ /\ Answer(r) = r /\ JsMayAttach(file)
                    /\ file' = JsAttach(file, r)
                    /\ given' = [row |-> r, how |-> "issued"]
                    /\ UNCHANGED sidecar
                 \/ Answer(r) = r /\ ~JsMayAttach(file) /\ WriteSidecar(r, "issued")
    /\ UNCHANGED saves

-----------------------------------------------------------------------------
(* Everybody else *)

\* An editor writes the text back: with other newlines at the end or a mark in
\* front if it is text, packed anew if it is not, and without what was attached
\* outside the text.
Rewritten(f) ==
    IF f.kind \in {"markdown", "plaintext"}
    THEN {[f EXCEPT !.lines = Append(@, Blank), !.tail = NoLabel]}
         \union IF Marks /\ f.lines # << >>
                THEN {[f EXCEPT !.lines[1].bom = TRUE, !.tail = NoLabel]} ELSE {}
    ELSE {[f EXCEPT !.rev = @ + 1, !.comment = NoLabel, !.tail = NoLabel]}

Resave ==
    /\ saves < MaxSaves
    /\ file' \in Rewritten(file)
    /\ given' = IF file.kind = "markdown" /\ file.tail = NoLabel THEN given ELSE Nothing
    /\ saves' = saves + 1
    /\ UNCHANGED <<sidecar, ledger, keys>>

\* The owner changes the text.
Edit ==
    /\ saves < MaxSaves
    /\ file' = [file EXCEPT !.lines = Append(@, Word(2))]
    /\ given' = Nothing
    /\ saves' = saves + 1
    /\ UNCHANGED <<sidecar, ledger, keys>>

\* The file travels without its sidecar.
Part ==
    /\ sidecar # NoLabel
    /\ sidecar' = NoLabel
    /\ given' = IF Extract(file) = NoLabel THEN Nothing ELSE given
    /\ UNCHANGED <<file, ledger, keys, saves>>

Fresh == [kind : Kinds, lines : Texts, rev : {0}, comment : {NoLabel}, tail : {NoLabel}]

\* A file no label was ever attached to, or one that got a trailer in times
\* when every format did.
Init ==
    /\ sidecar = NoLabel /\ keys = {} /\ saves = 0
    /\ \E f \in Fresh :
          \/ /\ file \in {f} \union {[f EXCEPT !.comment = c] : c \in
                                        IF f.kind = "ooxml" THEN Comments ELSE {}}
             /\ ledger = << >> /\ given = Nothing
          \/ /\ f.kind \in LegacyKinds
             /\ file = [f EXCEPT !.tail = 1]
             /\ ledger = <<Row("api", 1, GoRead(f), TRUE, Root)>>
             /\ given = [row |-> 1, how |-> "issued"]

ClientStep == CliIssue \/ Scan \/ Restore \/ Rehydrate \/ WebIssue

Next == ClientStep \/ Update \/ Resave \/ Edit \/ Part

Spec == Init /\ [][Next]_vars

-----------------------------------------------------------------------------
(* Properties *)

Fits == Presented > NoLabel => ledger[Presented].hash = HashTarget(file)

\* A label that was issued for a file, or recovered for its very bytes, is
\* found again by `lm verify` and belongs to the file, until the file is changed:
\* rewriting Markdown changes nothing (attach_test.go, A4 and A5).
IssuedLabelFits ==
    given.how \in {"issued", "exact", "inherited"} => Presented > NoLabel /\ Fits

\* The same for a label recovered by the text, of which the web client says
\* that its signature comes back to life (Verify.jsx:288).
RestoredLabelFits == given.how = "text" => Presented > NoLabel /\ Fits

\* No client changes what is hashed when it labels a file: the original bytes
\* stay as they are (docs/label-profile.md, section 5).
\* Nor does a label colour the text by which the web client looks for its kin.
HashKept ==
    [][ClientStep => /\ HashTarget(file') = HashTarget(file)
                     /\ JsIdentifyText(file') = JsIdentifyText(file)]_vars

\* A file holds at most one label (docs/label-profile.md: trailers do not nest).
OneLabelInside ==
    Len(SelectSeq(file.lines, IsLabel))
        + Cardinality({p \in {"tail", "comment"} : file[p] > NoLabel}) <= 1

\* Both clients hash the same bytes and find the same label (attach.js: a
\* mirror of internal/attach).
ClientsAgree ==
    /\ JsHashTarget(file) = HashTarget(file)
    /\ JsExtract(file) = Extract(file)

\* The server derives no document from the content it has itself: restoring is
\* for contents nobody registered (restore.go).  A parent that the owner declares
\* may be anything, the content itself included.
NotItsOwnParent ==
    \A n \in Rows : ledger[n].actor = "restore" => ledger[n].parent # ledger[n].hash
=============================================================================
