--------------------------- MODULE LabelLifecycle ---------------------------
(***************************************************************************)
(* The life of a label: issue, derive, regrade, revoke and destroy, the    *)
(* handlers of internal/server/labels.go and the two other callers of      *)
(* issueLabel, the batch worker (batch.go) and restore (restore.go).       *)
(*                                                                         *)
(* Every handler reads the ledger, decides, and then appends one event.    *)
(* Only POST /v1/labels serialises its read with its append (issueMu); the *)
(* other handlers do not, so each read and each append is a step here.     *)
(* Writer.Append is one step: module Ledger shows that the calls that      *)
(* return nil are exactly the rows of one chain in the order of seq.       *)
(***************************************************************************)
EXTENDS Integers, Sequences, FiniteSetsExt

CONSTANTS
    Docs,          \* docGuids
    Hashes,        \* content hashes and text hashes
    NoHash,        \* an absent parentHash or textHash
    ApiIssues,     \* requests to POST /v1/labels
    OtherIssues,   \* issueLabel called by a batch worker or by restore
    Regrades,      \* requests to POST /v1/labels/{docGuid}/regrade
    Revokes,       \* requests to POST /v1/labels/{docGuid}/revoke
    Destroys,      \* requests to POST /v1/labels/{docGuid}/destroy
    IssueArgs,     \* what a caller of issueLabel may ask for
    RegradeArgs,   \* what a caller of regrade may ask for
    KeyShredder,   \* is a KMS configured?
    Serialised,    \* do callers wait for each other on one document?
    NoOne          \* the owner of the unlocked issueMu

Grades == {"C", "S", "O"}
Issuances == {"ISSUE", "DERIVE", "REGRADE"}    \* EventType.IsIssuance
Issues == ApiIssues \union OtherIssues
Requests == Issues \union Regrades \union Revokes \union Destroys

ASSUME LifecycleAssumption ==
    /\ NoHash \notin Hashes
    /\ IssueArgs \subseteq
          [doc : Docs, hash : Hashes, grade : Grades, parent : Hashes \union {NoHash},
           text : Hashes \union {NoHash}, signed : BOOLEAN, approved : BOOLEAN]
    /\ RegradeArgs \subseteq [doc : Docs, grade : Grades, approved : BOOLEAN]
    /\ KeyShredder \in BOOLEAN
    /\ Serialised \in BOOLEAN
    /\ NoOne \notin Requests
    /\ Issues \intersect (Regrades \union Revokes \union Destroys) = {}
    /\ Regrades \intersect (Revokes \union Destroys) = {}
    /\ Revokes \intersect Destroys = {}

VARIABLES
    events,    \* the ledger; events[k] is the row with seq k
    shredded,  \* documents whose key the KMS has destroyed
    issueMu,   \* owner of Server.issueMu
    pc,        \* how far each request has got
    plan       \* the event a request has decided to append

vars == <<events, shredded, issueMu, pc, plan>>

(***************************************************************************)
(* The fields of Event that decide something.  `labelled' says whether     *)
(* LabelDER is present; the label of a row is identified with the row.     *)
(* `approved' is not stored by the code: it remembers, for the properties, *)
(* whether the request carried the approval token.                         *)
(***************************************************************************)
Event ==
    [type : Issuances \union {"REVOKE", "DESTROY"}, doc : Docs, hash : Hashes,
     grade : Grades \union {""}, parent : Hashes \union {NoHash}, root : Docs,
     text : Hashes \union {NoHash}, labelled : BOOLEAN, ref : Nat,
     approved : BOOLEAN]

NoEvent == [type |-> "NONE"]

GradeRank(g) == CASE g = "C" -> 3 [] g = "S" -> 2 [] g = "O" -> 1 [] OTHER -> 0

-----------------------------------------------------------------------------
(* Store queries *)

Last(S) == IF S = {} THEN NoEvent ELSE events[Max(S)]

OfDoc(d) == {k \in DOMAIN events : events[k].doc = d}

LatestSeq(d) == Max(OfDoc(d))
LatestByDoc(d) == Last(OfDoc(d))

\* The parent issueLabel inherits from: the last event of that hash that is
\* not a REVOKE.
ParentOf(h) ==
    Last({k \in DOMAIN events : events[k].hash = h /\ events[k].type # "REVOKE"})

-----------------------------------------------------------------------------
(* Steps every handler shares *)

InFlight(d) == \E r \in Requests : pc[r] \in {"ready", "shredded"} /\ plan[r].doc = d

Free(d) == Serialised => ~InFlight(d)

Decide(r, e) ==
    /\ pc[r] = "new"
    /\ Free(e.doc)
    /\ plan' = [plan EXCEPT ![r] = e]
    /\ pc' = [pc EXCEPT ![r] = "ready"]

Refuse(r) ==
    /\ pc[r] = "new"
    /\ pc' = [pc EXCEPT ![r] = "refused"]
    /\ UNCHANGED <<events, shredded, issueMu, plan>>

Record(r) ==
    /\ events' = Append(events, plan[r])
    /\ pc' = [pc EXCEPT ![r] = "ok"]

\* A query or the append fails.
Fail(r) ==
    /\ pc[r] \in {"new", "ready", "shredded"}
    /\ pc[r] = "new" /\ r \in ApiIssues => issueMu = NoOne
    /\ pc' = [pc EXCEPT ![r] = "failed"]
    /\ issueMu' = IF issueMu = r THEN NoOne ELSE issueMu
    /\ UNCHANGED <<events, shredded, plan>>

(* issueLabel *)

\* A derivative is not graded below its parent without the approval token.
Inherits(a) ==
    LET p == ParentOf(a.parent)
    IN  p # NoEvent =>
            (p.grade # "" /\ GradeRank(a.grade) < GradeRank(p.grade) => a.approved)

\* Mutant: an unknown parent becomes the root of the lineage itself.
IssueEventRootedInHash(a) ==
    [type |-> IF a.parent = NoHash THEN "ISSUE" ELSE "DERIVE",
     doc |-> a.doc, hash |-> a.hash, grade |-> a.grade, parent |-> a.parent,
     root |-> IF ParentOf(a.parent) = NoEvent THEN a.parent ELSE ParentOf(a.parent).root,
     text |-> a.text, labelled |-> a.signed, ref |-> 0, approved |-> a.approved]

IssueEvent(a) ==
    [type |-> IF a.parent = NoHash THEN "ISSUE" ELSE "DERIVE",
     doc |-> a.doc, hash |-> a.hash, grade |-> a.grade, parent |-> a.parent,
     root |-> IF ParentOf(a.parent) = NoEvent THEN a.doc ELSE ParentOf(a.parent).root,
     text |-> a.text, labelled |-> a.signed, ref |-> 0, approved |-> a.approved]

IssueRead(i) ==
    /\ IF i \in ApiIssues
       THEN issueMu = NoOne /\ issueMu' = i
       ELSE UNCHANGED issueMu
    /\ \E a \in IssueArgs : Inherits(a) /\ Decide(i, IssueEvent(a))
    /\ UNCHANGED <<events, shredded>>

IssueRefuse(i) ==
    /\ i \in ApiIssues => issueMu = NoOne
    /\ \E a \in IssueArgs : ~Inherits(a)
    /\ Refuse(i)

\* Mutant: issueMu is not released.
IssueAppendLocked(i) ==
    /\ pc[i] = "ready"
    /\ Record(i)
    /\ UNCHANGED <<shredded, issueMu, plan>>

IssueAppend(i) ==
    /\ pc[i] = "ready"
    /\ Record(i)
    /\ issueMu' = IF issueMu = i THEN NoOne ELSE issueMu
    /\ UNCHANGED <<shredded, plan>>

(* handleRegrade *)

\* Mutant: a regrade does not ask for a label to copy.
MayRegradeUnlabelled(latest, a) ==
    /\ latest # NoEvent
    /\ latest.type # "REVOKE"
    /\ latest.grade # a.grade
    /\ GradeRank(a.grade) < GradeRank(latest.grade) => a.approved

\* Regrading needs a live label to copy, another grade, and for a lower one
\* the approval token.
MayRegrade(latest, a) ==
    /\ latest # NoEvent
    /\ latest.type # "REVOKE"
    /\ latest.grade # a.grade
    /\ GradeRank(a.grade) < GradeRank(latest.grade) => a.approved
    /\ latest.labelled

RegradeEvent(latest, a) ==
    [latest EXCEPT !.type = "REGRADE", !.grade = a.grade, !.text = NoHash,
                   !.ref = LatestSeq(a.doc), !.approved = a.approved]

RegradeRead(g) ==
    /\ \E a \in RegradeArgs :
          LET latest == LatestByDoc(a.doc)
          IN  MayRegrade(latest, a) /\ Decide(g, RegradeEvent(latest, a))
    /\ UNCHANGED <<events, shredded, issueMu>>

RegradeRefuse(g) ==
    /\ \E a \in RegradeArgs : ~MayRegrade(LatestByDoc(a.doc), a)
    /\ Refuse(g)

(* handleRevoke and handleDestroy *)

\* The event that takes a document out of circulation.
Closing(type, latest, d) ==
    [type |-> type, doc |-> d, hash |-> latest.hash, grade |-> "",
     parent |-> NoHash, root |-> latest.root, text |-> NoHash,
     labelled |-> FALSE, ref |-> LatestSeq(d), approved |-> type = "DESTROY"]

\* Mutant: a revoked label may be revoked again.
MayRevokeAgain(latest) == latest # NoEvent

MayRevoke(latest) == latest # NoEvent /\ latest.type # "REVOKE"

RevokeRead(v) ==
    /\ \E d \in Docs :
          LET latest == LatestByDoc(d)
          IN  MayRevoke(latest) /\ Decide(v, Closing("REVOKE", latest, d))
    /\ UNCHANGED <<events, shredded, issueMu>>

RevokeRefuse(v) ==
    /\ \E d \in Docs : ~MayRevoke(LatestByDoc(d))
    /\ Refuse(v)

MayDestroy(latest) == latest # NoEvent /\ latest.type # "DESTROY"

DestroyRead(x) ==
    /\ \E d \in Docs :
          LET latest == LatestByDoc(d)
          IN  MayDestroy(latest) /\ Decide(x, Closing("DESTROY", latest, d))
    /\ UNCHANGED <<events, shredded, issueMu>>

\* Also without the destroy token or a reason.
DestroyRefuse(x) == Refuse(x)

Shred(x) ==
    /\ pc[x] = "ready"
    /\ shredded' = IF KeyShredder THEN shredded \union {plan[x].doc} ELSE shredded
    /\ pc' = [pc EXCEPT ![x] = "shredded"]
    /\ UNCHANGED <<events, issueMu, plan>>

\* Mutant: the ledger first, the key afterwards.
DestroyAppendFirst(x) ==
    /\ pc[x] = "ready"
    /\ Record(x)
    /\ UNCHANGED <<shredded, issueMu, plan>>

DestroyAppend(x) ==
    /\ pc[x] = "shredded"
    /\ Record(x)
    /\ UNCHANGED <<shredded, issueMu, plan>>

UpdateAppend(r) ==
    /\ pc[r] = "ready"
    /\ Record(r)
    /\ UNCHANGED <<shredded, issueMu, plan>>

-----------------------------------------------------------------------------
Init ==
    /\ events = << >>
    /\ shredded = {}
    /\ issueMu = NoOne
    /\ pc = [r \in Requests |-> "new"]
    /\ plan = [r \in Requests |-> NoEvent]

Issue(i) == IssueRead(i) \/ IssueRefuse(i) \/ IssueAppend(i) \/ Fail(i)
Regrade(g) == RegradeRead(g) \/ RegradeRefuse(g) \/ UpdateAppend(g) \/ Fail(g)
Revoke(v) == RevokeRead(v) \/ RevokeRefuse(v) \/ UpdateAppend(v) \/ Fail(v)
Destroy(x) == DestroyRead(x) \/ DestroyRefuse(x) \/ Shred(x) \/ DestroyAppend(x) \/ Fail(x)

Next ==
    \/ \E i \in Issues : Issue(i)
    \/ \E g \in Regrades : Regrade(g)
    \/ \E v \in Revokes : Revoke(v)
    \/ \E x \in Destroys : Destroy(x)

Spec == Init /\ [][Next]_vars

(***************************************************************************)
(* A handler that can take its next step eventually does, and a query      *)
(* returns, with a result or an error; issueMu is a sync.Mutex, which      *)
(* hands the lock to a waiter that has waited too long.                    *)
(***************************************************************************)
Fairness ==
    /\ \A i \in Issues : SF_vars(IssueRead(i) \/ IssueRefuse(i)) /\ WF_vars(Issue(i))
    /\ \A g \in Regrades : WF_vars(Regrade(g))
    /\ \A v \in Revokes : WF_vars(Revoke(v))
    /\ \A x \in Destroys : WF_vars(Destroy(x))

FairSpec == Spec /\ Fairness

-----------------------------------------------------------------------------
(* Properties that hold however the requests interleave *)

\* Every variable has the type its declaration says.
TypeOK ==
    /\ events \in Seq(Event)
    /\ shredded \subseteq Docs
    /\ issueMu \in ApiIssues \union {NoOne}
    /\ pc \in [Requests -> {"new", "ready", "shredded", "ok", "refused", "failed"}]
    /\ plan \in [Requests -> Event \union {NoEvent}]

\* revoked_ref of a REGRADE, REVOKE or DESTROY names an earlier row of the same
\* document and the same content on which that step was lawful: no revocation
\* of a revocation, no destruction of a destruction, a regrade only of a
\* labelled issuance, and downwards only with the token.
RefsAreLawful ==
    \A k \in DOMAIN events :
        LET e == events[k]
        IN  e.type \notin {"ISSUE", "DERIVE"} =>
              /\ e.ref \in 1..(k - 1)
              /\ LET f == events[e.ref]
                 IN  /\ e.doc = f.doc /\ e.hash = f.hash /\ e.root = f.root
                     /\ e.type = "REVOKE" => f.type # "REVOKE"
                     /\ e.type = "DESTROY" => f.type # "DESTROY"
                     /\ e.type = "REGRADE" =>
                          /\ f.type \in Issuances /\ f.labelled
                          /\ GradeRank(e.grade) < GradeRank(f.grade) => e.approved

\* With a KMS no document is recorded as destroyed while its key is alive,
\* whatever fails half way (handleDestroy: the key first, then the ledger).
NoLiveKeyDestroyed ==
    KeyShredder =>
        \A k \in DOMAIN events : events[k].type = "DESTROY" => events[k].doc \in shredded

\* Lineage never dangles: the root of every row is a document that has been
\* issued or derived by then.
RootIsIssued ==
    \A k \in DOMAIN events :
        \E j \in 1..k : events[j].doc = events[k].root /\ events[j].type \in {"ISSUE", "DERIVE"}

-----------------------------------------------------------------------------
(* The strengthening that makes the properties above inductive: what a     *)
(* request has decided stays lawful until it is appended, because the      *)
(* ledger only grows.                                                      *)

Decided(r) == pc[r] \in {"ready", "shredded"}

\* A request only plans events of its own kind.
PlanFits ==
    \A r \in Requests :
        Decided(r) =>
            /\ plan[r] \in Event
            /\ r \in Issues => plan[r].type \in {"ISSUE", "DERIVE"} /\ pc[r] = "ready"
            /\ r \in Regrades => plan[r].type = "REGRADE" /\ pc[r] = "ready"
            /\ r \in Revokes => plan[r].type = "REVOKE" /\ pc[r] = "ready"
            /\ r \in Destroys => plan[r].type = "DESTROY"

\* Only an issuance carries a label.
LabelFits(e) == e.labelled => e.type \in Issuances

\* The clauses of RefsAreLawful and RootIsIssued for an event about to follow
\* the rows of log.
RefFits(log, e) ==
    e.type \notin {"ISSUE", "DERIVE"} =>
        /\ e.ref \in DOMAIN log
        /\ LET f == log[e.ref]
           IN  /\ e.doc = f.doc /\ e.hash = f.hash /\ e.root = f.root
               /\ e.type = "REVOKE" => f.type # "REVOKE"
               /\ e.type = "DESTROY" => f.type # "DESTROY"
               /\ e.type = "REGRADE" =>
                    /\ f.type \in Issuances /\ f.labelled
                    /\ GradeRank(e.grade) < GradeRank(f.grade) => e.approved

RootFits(log, e) ==
    \/ e.type \in {"ISSUE", "DERIVE"} /\ e.root = e.doc
    \/ \E j \in DOMAIN log :
          log[j].doc = e.root /\ log[j].type \in {"ISSUE", "DERIVE"}

PlansAreLawful ==
    \A r \in Requests :
        Decided(r) =>
            /\ LabelFits(plan[r])
            /\ RefFits(events, plan[r])
            /\ RootFits(events, plan[r])

RowsAreLawful ==
    /\ \A k \in DOMAIN events : LabelFits(events[k])
    /\ RefsAreLawful
    /\ RootIsIssued

\* The key is destroyed before the destruction is recorded.
KeysGoFirst ==
    KeyShredder => \A r \in Requests : pc[r] = "shredded" => plan[r].doc \in shredded

LifecycleInv ==
    /\ TypeOK /\ PlanFits
    /\ RowsAreLawful /\ PlansAreLawful
    /\ NoLiveKeyDestroyed /\ KeysGoFirst

-----------------------------------------------------------------------------
(* What the API and its documents say of one document's history *)

\* The event of the same document before row k, or none.
Before(k) == Last({j \in OfDoc(events[k].doc) : j < k})

\* A revoked label is not regraded or revoked again: only a new issue brings
\* the document back, and it can still be destroyed.
RevokedNeedsReissue ==
    \A k \in DOMAIN events :
        Before(k).type = "REVOKE" => events[k].type \notin {"REGRADE", "REVOKE"}

(* The strengthening that makes it inductive, for callers that wait *)

IsUpdate(e) == e.type \notin {"ISSUE", "DERIVE"}

\* One request at a time is between its read and its append on a document.
OneInFlight ==
    \A r, q \in Requests : Decided(r) /\ Decided(q) /\ plan[r].doc = plan[q].doc => r = q

\* So what it has read is still the newest row when it appends ...
PlansAreFresh ==
    \A r \in Requests :
        Decided(r) /\ IsUpdate(plan[r]) => plan[r].ref = LatestSeq(plan[r].doc)

\* ... and every update refers to the row of its document just before it.
RefIsBefore ==
    \A k \in DOMAIN events :
        IsUpdate(events[k]) => events[k].ref = Max({j \in OfDoc(events[k].doc) : j < k})

SerialInv == OneInFlight /\ PlansAreFresh /\ RefIsBefore

\* Every request is answered.
Answered == <>(\A r \in Requests : pc[r] \in {"ok", "refused", "failed"})
=============================================================================
