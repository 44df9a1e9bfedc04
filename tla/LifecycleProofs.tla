-------------------------- MODULE LifecycleProofs --------------------------
(***************************************************************************)
(* Theorems about LabelLifecycle, for any number of requests, documents    *)
(* and arguments, with and without a KMS, waiting or not; and about Gate,  *)
(* what a verification may say of a ledger that grows under it, for any    *)
(* number of verifications, any files and any queries that fail.           *)
(***************************************************************************)
EXTENDS Gate, NatOrder, SequenceTheorems, TLAPS

-----------------------------------------------------------------------------
(* The ledger and its queries *)

\* Rows are events, numbered from 1.
LEMMA RowType ==
  ASSUME events \in Seq(Event)
  PROVE  /\ Len(events) \in Nat
         /\ DOMAIN events = 1 .. Len(events)
         /\ \A k \in DOMAIN events : events[k] \in Event
<1>1. Len(events) \in Nat /\ DOMAIN events = 1 .. Len(events)
  BY LenProperties
<1>2. ASSUME NEW k \in DOMAIN events
      PROVE  events[k] \in Event
  BY <1>1, ElementOfSeq
<1>3. QED
  BY <1>1, <1>2

\* A query that finds something answers with the newest row it found.
LEMMA LastRow ==
  ASSUME events \in Seq(Event), NEW S, S \subseteq DOMAIN events, Last(S) # NoEvent
  PROVE  Max(S) \in S /\ Last(S) = events[Max(S)]
<1>1. S # {}
  BY DEF Last
<1>2. S \subseteq 0 .. Len(events) /\ Len(events) \in Nat
  BY RowType
<1>3. Max(S) \in S
  BY <1>1, <1>2, MaxIsGreatest
<1>4. QED
  BY <1>1, <1>3 DEF Last

\* LatestByDoc answers with a row of that document (Postgres.LatestByDoc).
LEMMA LatestRow ==
  ASSUME events \in Seq(Event), NEW d, LatestByDoc(d) # NoEvent
  PROVE  /\ LatestSeq(d) \in DOMAIN events
         /\ LatestByDoc(d) = events[LatestSeq(d)]
         /\ LatestByDoc(d) \in Event
         /\ LatestByDoc(d).doc = d
<1>1. OfDoc(d) \subseteq DOMAIN events
  BY DEF OfDoc
<1>2. LatestSeq(d) \in OfDoc(d) /\ LatestByDoc(d) = events[LatestSeq(d)]
  BY <1>1, LastRow DEF LatestByDoc, LatestSeq
<1>3. LatestSeq(d) \in DOMAIN events /\ events[LatestSeq(d)].doc = d
  BY <1>2 DEF OfDoc
<1>4. QED
  BY <1>2, <1>3, RowType

\* The parent issueLabel inherits from is a row.
LEMMA ParentRow ==
  ASSUME events \in Seq(Event), NEW h, ParentOf(h) # NoEvent
  PROVE  \E k \in DOMAIN events : ParentOf(h) = events[k]
<1> DEFINE S == {k \in DOMAIN events : events[k].hash = h /\ events[k].type # "REVOKE"}
<1>1. S \subseteq DOMAIN events /\ ParentOf(h) = Last(S)
  BY DEF ParentOf
<1> HIDE DEF S
<1>2. Max(S) \in S /\ Last(S) = events[Max(S)]
  BY <1>1, LastRow
<1>3. QED
  BY <1>1, <1>2

-----------------------------------------------------------------------------
(* What was lawful to follow a ledger is lawful to follow a longer one *)

\* A planned reference survives the events of others.
LEMMA RefKept ==
  ASSUME NEW log \in Seq(Event), NEW e \in Event, NEW f, RefFits(log, f)
  PROVE  RefFits(Append(log, e), f)
<1>1. /\ Len(log) \in Nat /\ DOMAIN log = 1 .. Len(log)
      /\ DOMAIN Append(log, e) = 1 .. (Len(log) + 1)
      /\ \A k \in 1 .. Len(log) : Append(log, e)[k] = log[k]
  BY AppendProperties, LenProperties
<1>2. QED
  BY <1>1 DEF RefFits

\* And so does a planned root.
LEMMA RootKept ==
  ASSUME NEW log \in Seq(Event), NEW e \in Event, NEW f, RootFits(log, f)
  PROVE  RootFits(Append(log, e), f)
<1>1. /\ Len(log) \in Nat /\ DOMAIN log = 1 .. Len(log)
      /\ DOMAIN Append(log, e) = 1 .. (Len(log) + 1)
      /\ \A k \in 1 .. Len(log) : Append(log, e)[k] = log[k]
  BY AppendProperties, LenProperties
<1>2. QED
  BY <1>1 DEF RootFits

-----------------------------------------------------------------------------
(* What the handlers decide to append *)

\* A reference to a row of the ledger has an issued root.
LEMMA RootOfRow ==
  ASSUME events \in Seq(Event), RootIsIssued, NEW k \in DOMAIN events
  PROVE  \E j \in DOMAIN events :
            events[j].doc = events[k].root /\ events[j].type \in {"ISSUE", "DERIVE"}
<1>1. PICK j \in 1 .. k :
         events[j].doc = events[k].root /\ events[j].type \in {"ISSUE", "DERIVE"}
  BY DEF RootIsIssued
<1>2. j \in DOMAIN events
  BY RowType
<1>3. QED
  BY <1>1, <1>2

\* issueLabel appends an ISSUE or DERIVE whose root is known.
LEMMA IssueEventFits ==
  ASSUME LifecycleAssumption, events \in Seq(Event), RowsAreLawful, NEW a \in IssueArgs
  PROVE  /\ IssueEvent(a) \in Event
         /\ IssueEvent(a).type \in {"ISSUE", "DERIVE"}
         /\ IssueEvent(a).doc = a.doc
         /\ LabelFits(IssueEvent(a))
         /\ RefFits(events, IssueEvent(a))
         /\ RootFits(events, IssueEvent(a))
<1> DEFINE e == IssueEvent(a)
<1>1. /\ a.doc \in Docs /\ a.hash \in Hashes /\ a.grade \in Grades
      /\ a.parent \in Hashes \union {NoHash} /\ a.text \in Hashes \union {NoHash}
      /\ a.signed \in BOOLEAN /\ a.approved \in BOOLEAN
  BY DEF LifecycleAssumption
<1>2. /\ e.type \in {"ISSUE", "DERIVE"} /\ e.doc = a.doc
      /\ e.root = IF ParentOf(a.parent) = NoEvent THEN a.doc ELSE ParentOf(a.parent).root
  BY DEF IssueEvent
<1>3. e.root \in Docs /\ RootFits(events, e)
  <2>1. CASE ParentOf(a.parent) = NoEvent
    BY <1>1, <1>2, <2>1 DEF RootFits
  <2>2. CASE ParentOf(a.parent) # NoEvent
    <3>1. PICK k \in DOMAIN events : ParentOf(a.parent) = events[k]
      BY <2>2, ParentRow
    <3>2. events[k].root \in Docs
      BY <3>1, RowType DEF Event
    <3>3. e.root = events[k].root
      BY <1>2, <2>2, <3>1
    <3>4. \E j \in DOMAIN events :
            events[j].doc = events[k].root /\ events[j].type \in {"ISSUE", "DERIVE"}
      BY RootOfRow DEF RowsAreLawful
    <3>5. RootFits(events, e)
      BY <3>3, <3>4, Zenon DEF RootFits
    <3>6. QED
      BY <3>2, <3>3, <3>5
  <2>3. QED
    BY <2>1, <2>2
<1>4. e \in Event
  BY <1>1, <1>2, <1>3 DEF IssueEvent, Event, Issuances
<1>5. LabelFits(e) /\ RefFits(events, e)
  BY <1>2 DEF LabelFits, RefFits, Issuances
<1>6. QED
  BY <1>2, <1>3, <1>4, <1>5

\* handleRegrade appends a REGRADE of a labelled row of the same document.
LEMMA RegradeEventFits ==
  ASSUME LifecycleAssumption, events \in Seq(Event), RowsAreLawful, NEW a \in RegradeArgs,
         MayRegrade(LatestByDoc(a.doc), a)
  PROVE  /\ RegradeEvent(LatestByDoc(a.doc), a) \in Event
         /\ RegradeEvent(LatestByDoc(a.doc), a).type = "REGRADE"
         /\ LabelFits(RegradeEvent(LatestByDoc(a.doc), a))
         /\ RefFits(events, RegradeEvent(LatestByDoc(a.doc), a))
         /\ RootFits(events, RegradeEvent(LatestByDoc(a.doc), a))
<1> DEFINE l == LatestByDoc(a.doc)
           k == LatestSeq(a.doc)
           e == RegradeEvent(l, a)
<1>1. k \in DOMAIN events /\ l = events[k] /\ l \in Event /\ k \in Nat
  BY LatestRow, RowType DEF MayRegrade
<1>2. a.grade \in Grades /\ a.approved \in BOOLEAN
  BY DEF LifecycleAssumption
<1> HIDE DEF l, k
<1>3. /\ e.type = "REGRADE" /\ e.doc = l.doc /\ e.hash = l.hash /\ e.root = l.root
      /\ e.grade = a.grade /\ e.ref = k /\ e.approved = a.approved
      /\ e.labelled = l.labelled
  BY <1>1 DEF RegradeEvent, Event, k
<1>4. e \in Event
  BY <1>1, <1>2 DEF RegradeEvent, Event, Issuances, k
<1>5. l.labelled /\ (GradeRank(a.grade) < GradeRank(l.grade) => a.approved)
  BY DEF MayRegrade, l
<1>6. l.type \in Issuances
  BY <1>1, <1>5 DEF RowsAreLawful, LabelFits
<1>7. LabelFits(e)
  BY <1>3 DEF LabelFits, Issuances
<1>8. RefFits(events, e)
  BY <1>1, <1>3, <1>5, <1>6 DEF RefFits
<1>9. RootFits(events, e)
  <2>1. \E j \in DOMAIN events :
          events[j].doc = events[k].root /\ events[j].type \in {"ISSUE", "DERIVE"}
    BY <1>1, RootOfRow DEF RowsAreLawful
  <2>2. QED
    BY <1>1, <1>3, <2>1 DEF RootFits
<1>10. QED
  BY <1>3, <1>4, <1>7, <1>8, <1>9 DEF l

\* handleRevoke and handleDestroy append an event that closes the newest row,
\* unless that row closes the document the same way.
LEMMA ClosingFits ==
  ASSUME LifecycleAssumption, events \in Seq(Event), RowsAreLawful, NEW d \in Docs,
         NEW type \in {"REVOKE", "DESTROY"},
         LatestByDoc(d) # NoEvent, LatestByDoc(d).type # type
  PROVE  /\ Closing(type, LatestByDoc(d), d) \in Event
         /\ Closing(type, LatestByDoc(d), d).type = type
         /\ LabelFits(Closing(type, LatestByDoc(d), d))
         /\ RefFits(events, Closing(type, LatestByDoc(d), d))
         /\ RootFits(events, Closing(type, LatestByDoc(d), d))
<1> DEFINE l == LatestByDoc(d)
           k == LatestSeq(d)
           e == Closing(type, l, d)
<1>1. /\ k \in DOMAIN events /\ l = events[k] /\ l \in Event /\ k \in Nat
      /\ l.doc = d /\ l.type # type
  BY LatestRow, RowType
<1> HIDE DEF l, k
<1>2. /\ e.type = type /\ e.doc = d /\ e.hash = l.hash /\ e.root = l.root
      /\ e.ref = k /\ ~e.labelled
  BY DEF Closing, k
<1>3. l.hash \in Hashes /\ l.root \in Docs
  BY <1>1 DEF Event
<1>4. (type = "DESTROY") \in BOOLEAN
  OBVIOUS
<1>5. e \in Event
  BY <1>1, <1>3, <1>4 DEF Closing, Event, k
<1>6. LabelFits(e)
  BY <1>2 DEF LabelFits
<1>7. RefFits(events, e)
  BY <1>1, <1>2 DEF RefFits
<1>8. RootFits(events, e)
  <2>1. \E j \in DOMAIN events :
          events[j].doc = events[k].root /\ events[j].type \in {"ISSUE", "DERIVE"}
    BY <1>1, RootOfRow DEF RowsAreLawful
  <2>2. QED
    BY <1>1, <1>2, <2>1 DEF RootFits
<1>9. QED
  BY <1>2, <1>5, <1>6, <1>7, <1>8 DEF l

-----------------------------------------------------------------------------
(* What a step does to the invariant *)

\* A request ends, or a key is destroyed, without a new row or plan.
LEMMA QuietKeeps ==
  ASSUME LifecycleInv, NEW r \in Requests,
         UNCHANGED <<events, plan>>, shredded \subseteq shredded', shredded' \subseteq Docs,
         issueMu' \in ApiIssues \union {NoOne},
         \/ pc' = [pc EXCEPT ![r] = "refused"]
         \/ pc' = [pc EXCEPT ![r] = "failed"]
         \/ /\ r \in Destroys /\ pc[r] = "ready" /\ pc' = [pc EXCEPT ![r] = "shredded"]
            /\ r \notin Issues /\ r \notin Regrades /\ r \notin Revokes
            /\ KeyShredder => plan[r].doc \in shredded'
  PROVE  LifecycleInv'
<1>1. pc \in [Requests -> {"new", "ready", "shredded", "ok", "refused", "failed"}]
  BY DEF LifecycleInv, TypeOK
<1>2. \A q \in Requests : q # r => pc'[q] = pc[q]
  BY <1>1
<1>3. pc'[r] \in {"refused", "failed"} \/ (pc'[r] = "shredded" /\ pc[r] = "ready")
  BY <1>1
<1>4. \A q \in Requests : Decided(q)' => Decided(q)
  BY <1>2, <1>3 DEF Decided
<1>5. TypeOK'
  BY <1>1 DEF LifecycleInv, TypeOK
<1>6. PlanFits'
  <2>1. ASSUME NEW q \in Requests, Decided(q)'
        PROVE  /\ plan[q] \in Event
               /\ q \in Issues => plan[q].type \in {"ISSUE", "DERIVE"} /\ pc'[q] = "ready"
               /\ q \in Regrades => plan[q].type = "REGRADE" /\ pc'[q] = "ready"
               /\ q \in Revokes => plan[q].type = "REVOKE" /\ pc'[q] = "ready"
               /\ q \in Destroys => plan[q].type = "DESTROY"
    <3>1. Decided(q)
      BY <1>4, <2>1
    <3>2. CASE q # r
      BY <1>2, <3>1, <3>2 DEF LifecycleInv, PlanFits
    <3>3. CASE q = r
      <4>1. r \notin Issues /\ r \notin Regrades /\ r \notin Revokes
        BY <1>1, <2>1, <3>3 DEF Decided
      <4>2. QED
        BY <3>1, <3>3, <4>1 DEF LifecycleInv, PlanFits
    <3>4. QED
      BY <3>2, <3>3
  <2>2. QED
    BY <2>1 DEF PlanFits
<1>7. PlansAreLawful'
  <2>1. ASSUME NEW q \in Requests, Decided(q)'
        PROVE  LabelFits(plan[q]) /\ RefFits(events, plan[q]) /\ RootFits(events, plan[q])
    BY <1>4, <2>1 DEF LifecycleInv, PlansAreLawful
  <2>2. QED
    BY <2>1 DEF PlansAreLawful, LabelFits, RefFits, RootFits
<1>8. RowsAreLawful'
  BY DEF LifecycleInv, RowsAreLawful, RefsAreLawful, RootIsIssued, LabelFits
<1>9. NoLiveKeyDestroyed'
  BY DEF LifecycleInv, NoLiveKeyDestroyed
<1>10. KeysGoFirst'
  BY <1>1, <1>2, <1>3 DEF LifecycleInv, KeysGoFirst
<1>11. QED
  BY <1>5, <1>6, <1>7, <1>8, <1>9, <1>10 DEF LifecycleInv

\* A request has read the ledger and decided what to append.
LEMMA DecideKeeps ==
  ASSUME LifecycleInv, NEW r \in Requests, NEW e \in Event,
         plan' = [plan EXCEPT ![r] = e], pc' = [pc EXCEPT ![r] = "ready"],
         UNCHANGED <<events, shredded>>, issueMu' \in ApiIssues \union {NoOne},
         r \in Issues => e.type \in {"ISSUE", "DERIVE"},
         r \in Regrades => e.type = "REGRADE",
         r \in Revokes => e.type = "REVOKE",
         r \in Destroys => e.type = "DESTROY",
         LabelFits(e), RefFits(events, e), RootFits(events, e)
  PROVE  LifecycleInv'
<1>1. /\ pc \in [Requests -> {"new", "ready", "shredded", "ok", "refused", "failed"}]
      /\ plan \in [Requests -> Event \union {NoEvent}]
  BY DEF LifecycleInv, TypeOK
<1>2. /\ \A q \in Requests : q # r => pc'[q] = pc[q] /\ plan'[q] = plan[q]
      /\ pc'[r] = "ready" /\ plan'[r] = e
  BY <1>1
<1>3. \A q \in Requests : q # r /\ Decided(q)' => Decided(q)
  BY <1>2 DEF Decided
<1>4. TypeOK'
  BY <1>1 DEF LifecycleInv, TypeOK
<1>5. PlanFits'
  <2>1. ASSUME NEW q \in Requests, Decided(q)'
        PROVE  /\ plan'[q] \in Event
               /\ q \in Issues => plan'[q].type \in {"ISSUE", "DERIVE"} /\ pc'[q] = "ready"
               /\ q \in Regrades => plan'[q].type = "REGRADE" /\ pc'[q] = "ready"
               /\ q \in Revokes => plan'[q].type = "REVOKE" /\ pc'[q] = "ready"
               /\ q \in Destroys => plan'[q].type = "DESTROY"
    <3>1. CASE q # r
      BY <1>2, <1>3, <2>1, <3>1 DEF LifecycleInv, PlanFits
    <3>2. CASE q = r
      BY <1>2, <3>2
    <3>3. QED
      BY <3>1, <3>2
  <2>2. QED
    BY <2>1 DEF PlanFits
<1>6. PlansAreLawful'
  <2>1. ASSUME NEW q \in Requests, Decided(q)'
        PROVE  LabelFits(plan'[q]) /\ RefFits(events, plan'[q]) /\ RootFits(events, plan'[q])
    <3>1. CASE q # r
      <4>1. Decided(q) /\ plan'[q] = plan[q]
        BY <1>2, <1>3, <2>1, <3>1
      <4>2. LabelFits(plan[q]) /\ RefFits(events, plan[q]) /\ RootFits(events, plan[q])
        BY <4>1 DEF LifecycleInv, PlansAreLawful
      <4>3. QED
        BY <4>1, <4>2
    <3>2. CASE q = r
      BY <1>2, <3>2
    <3>3. QED
      BY <3>1, <3>2
  <2>2. QED
    BY <2>1 DEF PlansAreLawful, LabelFits, RefFits, RootFits
<1>7. RowsAreLawful'
  BY DEF LifecycleInv, RowsAreLawful, RefsAreLawful, RootIsIssued, LabelFits
<1>8. NoLiveKeyDestroyed'
  BY DEF LifecycleInv, NoLiveKeyDestroyed
<1>9. KeysGoFirst'
  BY <1>2 DEF LifecycleInv, KeysGoFirst
<1>10. QED
  BY <1>4, <1>5, <1>6, <1>7, <1>8, <1>9 DEF LifecycleInv

\* A request appends what it has decided.
LEMMA RecordKeeps ==
  ASSUME LifecycleInv, NEW r \in Requests, Decided(r), Record(r),
         UNCHANGED <<shredded, plan>>, issueMu' \in ApiIssues \union {NoOne},
         plan[r].type = "DESTROY" => pc[r] = "shredded"
  PROVE  LifecycleInv'
<1> DEFINE e == plan[r]
           n == Len(events) + 1
<1>1. /\ pc \in [Requests -> {"new", "ready", "shredded", "ok", "refused", "failed"}]
      /\ pc' = [pc EXCEPT ![r] = "ok"] /\ events' = Append(events, e)
      /\ events \in Seq(Event) /\ e \in Event
  BY DEF LifecycleInv, TypeOK, PlanFits, Record
<1>2. /\ Len(events) \in Nat /\ DOMAIN events = 1 .. Len(events)
      /\ DOMAIN events' = 1 .. n /\ events'[n] = e
      /\ \A k \in 1 .. Len(events) : events'[k] = events[k]
  BY <1>1, AppendProperties, LenProperties
<1>3. LabelFits(e) /\ RefFits(events, e) /\ RootFits(events, e)
  BY DEF LifecycleInv, PlansAreLawful
<1>4. /\ \A q \in Requests : q # r => pc'[q] = pc[q]
      /\ pc'[r] = "ok"
  BY <1>1
<1>5. \A q \in Requests : Decided(q)' => q # r /\ Decided(q)
  BY <1>4 DEF Decided
<1> HIDE DEF e, n
<1>6. TypeOK'
  <2>1. events' \in Seq(Event)
    BY <1>1, AppendProperties
  <2>2. QED
    BY <1>1, <2>1 DEF LifecycleInv, TypeOK
<1>7. PlanFits'
  <2>1. ASSUME NEW q \in Requests, Decided(q)'
        PROVE  /\ plan[q] \in Event
               /\ q \in Issues => plan[q].type \in {"ISSUE", "DERIVE"} /\ pc'[q] = "ready"
               /\ q \in Regrades => plan[q].type = "REGRADE" /\ pc'[q] = "ready"
               /\ q \in Revokes => plan[q].type = "REVOKE" /\ pc'[q] = "ready"
               /\ q \in Destroys => plan[q].type = "DESTROY"
    BY <1>4, <1>5, <2>1 DEF LifecycleInv, PlanFits
  <2>2. QED
    BY <2>1 DEF PlanFits
<1>8. PlansAreLawful'
  <2>1. ASSUME NEW q \in Requests, Decided(q)'
        PROVE  LabelFits(plan[q]) /\ RefFits(events', plan[q]) /\ RootFits(events', plan[q])
    <3>1. LabelFits(plan[q]) /\ RefFits(events, plan[q]) /\ RootFits(events, plan[q])
      BY <1>5, <2>1 DEF LifecycleInv, PlansAreLawful
    <3>2. QED
      BY <1>1, <3>1, RefKept, RootKept
  <2>2. QED
    BY <2>1 DEF PlansAreLawful, LabelFits, RefFits, RootFits
<1>9. RowsAreLawful'
  <2>1. \A k \in DOMAIN events' : LabelFits(events'[k])
    BY <1>2, <1>3 DEF LifecycleInv, RowsAreLawful, n
  <2>2. RefsAreLawful'
    <3>1. ASSUME NEW k \in 1 .. Len(events), events[k].type \notin {"ISSUE", "DERIVE"}
          PROVE  events[k].ref \in 1 .. (k - 1) /\ events'[events[k].ref] = events[events[k].ref]
      <4>1. events[k].ref \in 1 .. (k - 1)
        BY <1>2, <3>1 DEF LifecycleInv, RowsAreLawful, RefsAreLawful
      <4>2. events[k].ref \in 1 .. Len(events)
        BY <1>2, <4>1
      <4>3. QED
        BY <1>2, <4>1, <4>2
    <3>2. ASSUME NEW k \in 1 .. Len(events), events[k].type \notin {"ISSUE", "DERIVE"}
          PROVE  LET f == events'[events[k].ref]
                 IN  /\ events[k].doc = f.doc /\ events[k].hash = f.hash
                     /\ events[k].root = f.root
                     /\ events[k].type = "REVOKE" => f.type # "REVOKE"
                     /\ events[k].type = "DESTROY" => f.type # "DESTROY"
                     /\ events[k].type = "REGRADE" =>
                          /\ f.type \in Issuances /\ f.labelled
                          /\ GradeRank(events[k].grade) < GradeRank(f.grade)
                                => events[k].approved
      BY <1>2, <3>1, <3>2 DEF LifecycleInv, RowsAreLawful, RefsAreLawful
    <3>3. ASSUME e.type \notin {"ISSUE", "DERIVE"}
          PROVE  /\ e.ref \in 1 .. (n - 1)
                 /\ events'[e.ref] = events[e.ref]
                 /\ LET f == events[e.ref]
                    IN  /\ e.doc = f.doc /\ e.hash = f.hash /\ e.root = f.root
                        /\ e.type = "REVOKE" => f.type # "REVOKE"
                        /\ e.type = "DESTROY" => f.type # "DESTROY"
                        /\ e.type = "REGRADE" =>
                             /\ f.type \in Issuances /\ f.labelled
                             /\ GradeRank(e.grade) < GradeRank(f.grade) => e.approved
      BY <1>2, <1>3, <3>3 DEF RefFits, n
    <3>4. \A k \in 1 .. n : k = n \/ k \in 1 .. Len(events)
      BY <1>2 DEF n
    <3>5. QED
      BY <1>2, <3>1, <3>2, <3>3, <3>4 DEF RefsAreLawful
  <2>3. RootIsIssued'
    <3>1. ASSUME NEW k \in 1 .. n
          PROVE  \E j \in 1 .. k : /\ events'[j].doc = events'[k].root
                                   /\ events'[j].type \in {"ISSUE", "DERIVE"}
      <4>1. CASE k \in 1 .. Len(events)
        <5>1. PICK j \in 1 .. k :
                 events[j].doc = events[k].root /\ events[j].type \in {"ISSUE", "DERIVE"}
          BY <1>2, <4>1 DEF LifecycleInv, RowsAreLawful, RootIsIssued
        <5>2. j \in 1 .. Len(events)
          BY <1>2, <4>1
        <5>3. QED
          BY <1>2, <4>1, <5>1, <5>2
      <4>2. CASE k = n
        <5>1. CASE e.type \in {"ISSUE", "DERIVE"} /\ e.root = e.doc
          BY <1>2, <4>2, <5>1 DEF n
        <5>2. CASE \E j \in DOMAIN events :
                      events[j].doc = e.root /\ events[j].type \in {"ISSUE", "DERIVE"}
          BY <1>2, <4>2, <5>2 DEF n
        <5>3. QED
          BY <1>3, <5>1, <5>2 DEF RootFits
      <4>3. QED
        BY <1>2, <4>1, <4>2 DEF n
    <3>2. QED
      BY <1>2, <3>1 DEF RootIsIssued
  <2>4. QED
    BY <2>1, <2>2, <2>3 DEF RowsAreLawful, LabelFits
<1>10. NoLiveKeyDestroyed'
  <2>1. KeyShredder /\ e.type = "DESTROY" => e.doc \in shredded
    BY DEF LifecycleInv, KeysGoFirst, e
  <2>2. \A k \in 1 .. n : k = n \/ k \in 1 .. Len(events)
    BY <1>2 DEF n
  <2>3. QED
    BY <1>2, <2>1, <2>2 DEF LifecycleInv, NoLiveKeyDestroyed
<1>11. KeysGoFirst'
  BY <1>4 DEF LifecycleInv, KeysGoFirst
<1>12. QED
  BY <1>6, <1>7, <1>8, <1>9, <1>10, <1>11 DEF LifecycleInv

-----------------------------------------------------------------------------
(* The invariant *)

\* Before the first request.
LEMMA LifecycleInit == LifecycleAssumption /\ Init => LifecycleInv
<1> SUFFICES ASSUME LifecycleAssumption, Init PROVE LifecycleInv
  OBVIOUS
<1>1. events \in Seq(Event) /\ DOMAIN events = {}
  BY EmptySeq DEF Init
<1>2. TypeOK
  BY <1>1 DEF Init, TypeOK
<1>3. \A r \in Requests : ~Decided(r) /\ pc[r] # "shredded"
  BY DEF Init, Decided
<1>4. QED
  BY <1>1, <1>2, <1>3
     DEF LifecycleInv, PlanFits, RowsAreLawful, RefsAreLawful, RootIsIssued, PlansAreLawful,
         NoLiveKeyDestroyed, KeysGoFirst

\* Every step of every handler keeps the invariant.
LEMMA LifecycleNext ==
  LifecycleAssumption /\ LifecycleInv /\ [Next]_vars => LifecycleInv'
<1> SUFFICES ASSUME LifecycleAssumption, LifecycleInv, [Next]_vars PROVE LifecycleInv'
  OBVIOUS
<1>1. events \in Seq(Event) /\ RowsAreLawful /\ issueMu \in ApiIssues \union {NoOne}
      /\ shredded \subseteq Docs
  BY DEF LifecycleInv, TypeOK
<1>2. /\ Issues \subseteq Requests /\ Regrades \subseteq Requests
      /\ Revokes \subseteq Requests /\ Destroys \subseteq Requests
      /\ \A i \in Issues : i \notin Regrades /\ i \notin Revokes /\ i \notin Destroys
      /\ \A g \in Regrades : g \notin Issues /\ g \notin Revokes /\ g \notin Destroys
      /\ \A v \in Revokes : v \notin Issues /\ v \notin Regrades /\ v \notin Destroys
      /\ \A x \in Destroys : x \notin Issues /\ x \notin Regrades /\ x \notin Revokes
  BY DEF LifecycleAssumption, Requests
<1>3. ASSUME NEW r \in Requests, Refuse(r) \/ Fail(r)
      PROVE  LifecycleInv'
  <2>1. issueMu' \in ApiIssues \union {NoOne}
    BY <1>1, <1>3 DEF Refuse, Fail
  <2>2. UNCHANGED <<events, plan, shredded>>
    BY <1>3 DEF Refuse, Fail
  <2>3. pc' = [pc EXCEPT ![r] = "refused"] \/ pc' = [pc EXCEPT ![r] = "failed"]
    BY <1>3 DEF Refuse, Fail
  <2>4. QED
    BY <1>1, <2>1, <2>2, <2>3, QuietKeeps
<1>4. ASSUME NEW i \in Issues, IssueRead(i)
      PROVE  LifecycleInv'
  <2>1. PICK a \in IssueArgs : Decide(i, IssueEvent(a))
    BY <1>4 DEF IssueRead
  <2>2. /\ IssueEvent(a) \in Event
        /\ IssueEvent(a).type \in {"ISSUE", "DERIVE"}
        /\ LabelFits(IssueEvent(a))
        /\ RefFits(events, IssueEvent(a))
        /\ RootFits(events, IssueEvent(a))
    BY <1>1, IssueEventFits
  <2>3. issueMu' \in ApiIssues \union {NoOne}
    BY <1>1, <1>4 DEF IssueRead
  <2>4. /\ plan' = [plan EXCEPT ![i] = IssueEvent(a)] /\ pc' = [pc EXCEPT ![i] = "ready"]
        /\ UNCHANGED <<events, shredded>>
    BY <1>4, <2>1 DEF IssueRead, Decide
  <2>5. QED
    BY <1>2, <2>2, <2>3, <2>4, DecideKeeps
<1>5. ASSUME NEW g \in Regrades, RegradeRead(g)
      PROVE  LifecycleInv'
  <2> DEFINE e(a) == RegradeEvent(LatestByDoc(a.doc), a)
  <2>1. PICK a \in RegradeArgs : MayRegrade(LatestByDoc(a.doc), a) /\ Decide(g, e(a))
    BY <1>5 DEF RegradeRead
  <2>2. /\ e(a) \in Event /\ e(a).type = "REGRADE"
        /\ LabelFits(e(a)) /\ RefFits(events, e(a)) /\ RootFits(events, e(a))
    BY <1>1, <2>1, RegradeEventFits
  <2>3. /\ plan' = [plan EXCEPT ![g] = e(a)] /\ pc' = [pc EXCEPT ![g] = "ready"]
        /\ UNCHANGED <<events, shredded, issueMu>>
    BY <1>5, <2>1 DEF RegradeRead, Decide
  <2> HIDE DEF e
  <2>4. QED
    BY <1>1, <1>2, <2>2, <2>3, DecideKeeps
<1>6. ASSUME NEW v \in Revokes, RevokeRead(v)
      PROVE  LifecycleInv'
  <2> DEFINE e(d) == Closing("REVOKE", LatestByDoc(d), d)
  <2>1. PICK d \in Docs : MayRevoke(LatestByDoc(d)) /\ Decide(v, e(d))
    BY <1>6 DEF RevokeRead
  <2>2. /\ e(d) \in Event /\ e(d).type = "REVOKE"
        /\ LabelFits(e(d)) /\ RefFits(events, e(d)) /\ RootFits(events, e(d))
    BY <1>1, <2>1, ClosingFits DEF MayRevoke
  <2>3. /\ plan' = [plan EXCEPT ![v] = e(d)] /\ pc' = [pc EXCEPT ![v] = "ready"]
        /\ UNCHANGED <<events, shredded, issueMu>>
    BY <1>6, <2>1 DEF RevokeRead, Decide
  <2> HIDE DEF e
  <2>4. QED
    BY <1>1, <1>2, <2>2, <2>3, DecideKeeps
<1>7. ASSUME NEW x \in Destroys, DestroyRead(x)
      PROVE  LifecycleInv'
  <2> DEFINE e(d) == Closing("DESTROY", LatestByDoc(d), d)
  <2>1. PICK d \in Docs : MayDestroy(LatestByDoc(d)) /\ Decide(x, e(d))
    BY <1>7 DEF DestroyRead
  <2>2. /\ e(d) \in Event /\ e(d).type = "DESTROY"
        /\ LabelFits(e(d)) /\ RefFits(events, e(d)) /\ RootFits(events, e(d))
    BY <1>1, <2>1, ClosingFits DEF MayDestroy
  <2>3. /\ plan' = [plan EXCEPT ![x] = e(d)] /\ pc' = [pc EXCEPT ![x] = "ready"]
        /\ UNCHANGED <<events, shredded, issueMu>>
    BY <1>7, <2>1 DEF DestroyRead, Decide
  <2> HIDE DEF e
  <2>4. QED
    BY <1>1, <1>2, <2>2, <2>3, DecideKeeps
<1>8. ASSUME NEW x \in Destroys, Shred(x)
      PROVE  LifecycleInv'
  <2>1. Decided(x)
    BY <1>8 DEF Shred, Decided
  <2>2. plan[x] \in Event
    BY <1>2, <2>1 DEF LifecycleInv, PlanFits
  <2>3. plan[x].doc \in Docs
    BY <2>2 DEF Event
  <2>4. /\ shredded \subseteq shredded' /\ shredded' \subseteq Docs
        /\ KeyShredder => plan[x].doc \in shredded'
    BY <1>1, <1>8, <2>3 DEF Shred
  <2>5. /\ pc[x] = "ready" /\ pc' = [pc EXCEPT ![x] = "shredded"]
        /\ UNCHANGED <<events, plan, issueMu>>
    BY <1>8 DEF Shred
  <2>6. QED
    BY <1>1, <1>2, <2>4, <2>5, QuietKeeps
<1>9. ASSUME NEW r \in Requests, Decided(r), Record(r), UNCHANGED <<shredded, plan>>,
             issueMu' = issueMu \/ issueMu' = NoOne,
             r \in Destroys => pc[r] = "shredded"
      PROVE  LifecycleInv'
  <2>1. plan[r].type = "DESTROY" => r \in Destroys
    BY <1>9 DEF LifecycleInv, PlanFits, Requests
  <2>2. QED
    BY <1>1, <1>9, <2>1, RecordKeeps
<1>10. ASSUME NEW i \in Issues, IssueAppend(i)
       PROVE  LifecycleInv'
  BY <1>2, <1>9, <1>10 DEF IssueAppend, Decided
<1>11. ASSUME NEW r \in Regrades \union Revokes, UpdateAppend(r)
       PROVE  LifecycleInv'
  BY <1>2, <1>9, <1>11 DEF UpdateAppend, Decided
<1>12. ASSUME NEW x \in Destroys, DestroyAppend(x)
       PROVE  LifecycleInv'
  BY <1>2, <1>9, <1>12 DEF DestroyAppend, Decided
<1>13. CASE \E i \in Issues : Issue(i)
  BY <1>2, <1>3, <1>4, <1>10, <1>13 DEF Issue, IssueRefuse
<1>14. CASE \E g \in Regrades : Regrade(g)
  BY <1>2, <1>3, <1>5, <1>11, <1>14 DEF Regrade, RegradeRefuse
<1>15. CASE \E v \in Revokes : Revoke(v)
  BY <1>2, <1>3, <1>6, <1>11, <1>15 DEF Revoke, RevokeRefuse
<1>16. CASE \E x \in Destroys : Destroy(x)
  BY <1>2, <1>3, <1>7, <1>8, <1>12, <1>16 DEF Destroy, DestroyRefuse
<1>17. CASE UNCHANGED vars
  BY <1>17 DEF vars, LifecycleInv, TypeOK, PlanFits, Decided, RowsAreLawful, LabelFits,
               RefsAreLawful, RootIsIssued, PlansAreLawful, RefFits, RootFits,
               NoLiveKeyDestroyed, KeysGoFirst
<1>18. QED
  BY <1>13, <1>14, <1>15, <1>16, <1>17 DEF Next

\* The invariant, from which the theorems below follow.
LEMMA LifecycleAlways == Spec => []LifecycleInv
<1>1. Init => LifecycleInv
  BY LifecycleAssumption, LifecycleInit
<1>2. LifecycleInv /\ [Next]_vars => LifecycleInv'
  BY LifecycleAssumption, LifecycleNext
<1>3. QED
  BY <1>1, <1>2, PTL DEF Spec

-----------------------------------------------------------------------------
(* Theorems *)

\* Every variable of the label lifecycle keeps its type (labels.go).
THEOREM LifecycleTypeCorrect == Spec => []TypeOK
<1>1. LifecycleInv => TypeOK
  BY DEF LifecycleInv
<1>2. QED
  BY <1>1, LifecycleAlways, PTL

\* However many requests interleave, every REGRADE, REVOKE and DESTROY refers to
\* an earlier row of its document on which it was lawful (labels.go
\* handleRegrade, handleRevoke, handleDestroy).
THEOREM UpdatesAreLawful == Spec => []RefsAreLawful
<1>1. LifecycleInv => RefsAreLawful
  BY DEF LifecycleInv, RowsAreLawful
<1>2. QED
  BY <1>1, LifecycleAlways, PTL

\* The root of every row has been issued or derived by then (labels.go
\* issueLabel).
THEOREM LineageIsRooted == Spec => []RootIsIssued
<1>1. LifecycleInv => RootIsIssued
  BY DEF LifecycleInv, RowsAreLawful
<1>2. QED
  BY <1>1, LifecycleAlways, PTL

\* With a KMS, a recorded destruction means a destroyed key (labels.go
\* handleDestroy: the key first, then the ledger).
THEOREM DestructionIsReal == Spec => []NoLiveKeyDestroyed
<1>1. LifecycleInv => NoLiveKeyDestroyed
  BY DEF LifecycleInv
<1>2. QED
  BY <1>1, LifecycleAlways, PTL

-----------------------------------------------------------------------------
(* Callers that wait for each other *)

\* A step decides something, appends what was decided, or does neither.
LEMMA StepKinds ==
  ASSUME LifecycleAssumption, LifecycleInv, [Next]_vars
  PROVE  \/ /\ events' = events /\ plan' = plan
            /\ \A q \in Requests : Decided(q)' => Decided(q)
         \/ \E r \in Requests, e \in Event :
               /\ Decide(r, e) /\ events' = events
               /\ IsUpdate(e) => e.ref = LatestSeq(e.doc)
         \/ \E r \in Requests : Decided(r) /\ Record(r) /\ plan' = plan
<1>1. /\ events \in Seq(Event) /\ RowsAreLawful
      /\ pc \in [Requests -> {"new", "ready", "shredded", "ok", "refused", "failed"}]
  BY DEF LifecycleInv, TypeOK
<1>2. /\ Issues \subseteq Requests /\ Regrades \subseteq Requests
      /\ Revokes \subseteq Requests /\ Destroys \subseteq Requests
  BY DEF Requests
<1>3. ASSUME NEW r \in Requests, Refuse(r) \/ Fail(r) \/ Shred(r)
      PROVE  /\ events' = events /\ plan' = plan
             /\ \A q \in Requests : Decided(q)' => Decided(q)
  BY <1>1, <1>3 DEF Refuse, Fail, Shred, Decided
<1>4. ASSUME NEW r \in Requests, pc[r] = "ready" \/ pc[r] = "shredded",
             Record(r), plan' = plan
      PROVE  Decided(r) /\ Record(r) /\ plan' = plan
  BY <1>4 DEF Decided
<1>5. ASSUME NEW i \in Issues, Issue(i)
      PROVE  \/ Refuse(i) \/ Fail(i)
             \/ Decided(i) /\ Record(i) /\ plan' = plan
             \/ \E e \in Event : /\ Decide(i, e) /\ events' = events
                                 /\ IsUpdate(e) => e.ref = LatestSeq(e.doc)
  <2>1. CASE IssueRead(i)
    <3>1. PICK a \in IssueArgs : Decide(i, IssueEvent(a)) /\ events' = events
      BY <2>1 DEF IssueRead
    <3>2. IssueEvent(a) \in Event /\ ~IsUpdate(IssueEvent(a))
      BY <1>1, IssueEventFits DEF IsUpdate
    <3>3. QED
      BY <3>1, <3>2
  <2>2. CASE IssueRefuse(i) \/ Fail(i)
    BY <2>2 DEF IssueRefuse
  <2>3. CASE IssueAppend(i)
    BY <1>2, <1>4, <2>3 DEF IssueAppend
  <2>4. QED
    BY <1>5, <2>1, <2>2, <2>3 DEF Issue
<1>6. ASSUME NEW g \in Regrades, Regrade(g)
      PROVE  \/ Refuse(g) \/ Fail(g)
             \/ Decided(g) /\ Record(g) /\ plan' = plan
             \/ \E e \in Event : /\ Decide(g, e) /\ events' = events
                                 /\ IsUpdate(e) => e.ref = LatestSeq(e.doc)
  <2>1. CASE RegradeRead(g)
    <3>1. PICK a \in RegradeArgs :
             /\ MayRegrade(LatestByDoc(a.doc), a)
             /\ Decide(g, RegradeEvent(LatestByDoc(a.doc), a)) /\ events' = events
      BY <2>1 DEF RegradeRead
    <3>2. RegradeEvent(LatestByDoc(a.doc), a) \in Event
      BY <1>1, <3>1, RegradeEventFits
    <3>3. LatestByDoc(a.doc) \in Event /\ LatestByDoc(a.doc).doc = a.doc
      BY <1>1, <3>1, LatestRow DEF MayRegrade
    <3>4. /\ RegradeEvent(LatestByDoc(a.doc), a).ref = LatestSeq(a.doc)
          /\ RegradeEvent(LatestByDoc(a.doc), a).doc = a.doc
      BY <3>3 DEF RegradeEvent, Event
    <3>5. QED
      BY <3>1, <3>2, <3>4
  <2>2. CASE RegradeRefuse(g) \/ Fail(g)
    BY <2>2 DEF RegradeRefuse
  <2>3. CASE UpdateAppend(g)
    BY <1>2, <1>4, <2>3 DEF UpdateAppend
  <2>4. QED
    BY <1>6, <2>1, <2>2, <2>3 DEF Regrade
<1>7. ASSUME NEW r \in Requests, NEW d \in Docs, NEW type \in {"REVOKE", "DESTROY"},
             LatestByDoc(d) # NoEvent, LatestByDoc(d).type # type,
             Decide(r, Closing(type, LatestByDoc(d), d)), events' = events
      PROVE  \E e \in Event : /\ Decide(r, e) /\ events' = events
                              /\ IsUpdate(e) => e.ref = LatestSeq(e.doc)
  <2>1. Closing(type, LatestByDoc(d), d) \in Event
    BY <1>1, <1>7, ClosingFits
  <2>2. /\ Closing(type, LatestByDoc(d), d).ref = LatestSeq(d)
        /\ Closing(type, LatestByDoc(d), d).doc = d
    BY DEF Closing
  <2>3. QED
    BY <1>7, <2>1, <2>2
<1>8. ASSUME NEW v \in Revokes, Revoke(v)
      PROVE  \/ Refuse(v) \/ Fail(v)
             \/ Decided(v) /\ Record(v) /\ plan' = plan
             \/ \E e \in Event : /\ Decide(v, e) /\ events' = events
                                 /\ IsUpdate(e) => e.ref = LatestSeq(e.doc)
  <2>1. CASE RevokeRead(v)
    BY <1>2, <1>7, <2>1 DEF RevokeRead, MayRevoke
  <2>2. CASE RevokeRefuse(v) \/ Fail(v)
    BY <2>2 DEF RevokeRefuse
  <2>3. CASE UpdateAppend(v)
    BY <1>2, <1>4, <2>3 DEF UpdateAppend
  <2>4. QED
    BY <1>8, <2>1, <2>2, <2>3 DEF Revoke
<1>9. ASSUME NEW x \in Destroys, Destroy(x)
      PROVE  \/ Refuse(x) \/ Fail(x) \/ Shred(x)
             \/ Decided(x) /\ Record(x) /\ plan' = plan
             \/ \E e \in Event : /\ Decide(x, e) /\ events' = events
                                 /\ IsUpdate(e) => e.ref = LatestSeq(e.doc)
  <2>1. CASE DestroyRead(x)
    BY <1>2, <1>7, <2>1 DEF DestroyRead, MayDestroy
  <2>2. CASE DestroyRefuse(x) \/ Fail(x) \/ Shred(x)
    BY <2>2 DEF DestroyRefuse
  <2>3. CASE DestroyAppend(x)
    BY <1>2, <1>4, <2>3 DEF DestroyAppend
  <2>4. QED
    BY <1>9, <2>1, <2>2, <2>3 DEF Destroy
<1>10. CASE UNCHANGED vars
  BY <1>10 DEF vars, Decided
<1>11. QED
  BY <1>2, <1>3, <1>5, <1>6, <1>8, <1>9, <1>10 DEF Next

\* The rows of a document before row k are those that were there, and a row of
\* another document does not join them.
LEMMA RowsOfDoc ==
  ASSUME events \in Seq(Event), NEW e \in Event, events' = Append(events, e), NEW d
  PROVE  /\ OfDoc(d)' = IF e.doc = d THEN OfDoc(d) \union {Len(events) + 1} ELSE OfDoc(d)
         /\ \A k \in 1 .. (Len(events) + 1) :
               {j \in OfDoc(d)' : j < k} = {j \in OfDoc(d) : j < k}
         /\ {j \in OfDoc(d) : j < Len(events) + 1} = OfDoc(d)
<1>1. /\ Len(events) \in Nat /\ DOMAIN events = 1 .. Len(events)
      /\ DOMAIN events' = 1 .. (Len(events) + 1)
      /\ \A k \in 1 .. Len(events) : events'[k] = events[k]
      /\ events'[Len(events) + 1] = e
  BY AppendProperties, LenProperties
<1>2. OfDoc(d)' = {k \in 1 .. (Len(events) + 1) : events'[k].doc = d}
  BY <1>1 DEF OfDoc
<1>3. OfDoc(d) = {k \in 1 .. Len(events) : events[k].doc = d}
  BY <1>1 DEF OfDoc
<1>4. QED
  BY <1>1, <1>2, <1>3

\* At first nobody has decided anything.
LEMMA SerialInit == Init => SerialInv
<1> SUFFICES ASSUME Init PROVE SerialInv
  OBVIOUS
<1>1. \A r \in Requests : ~Decided(r)
  BY DEF Init, Decided
<1>2. DOMAIN events = {}
  BY DEF Init
<1>3. QED
  BY <1>1, <1>2 DEF SerialInv, OneInFlight, PlansAreFresh, RefIsBefore

\* A decision on a document nobody else works on, taken from its newest row.
LEMMA SerialDecides ==
  ASSUME Serialised, LifecycleInv, SerialInv, NEW r \in Requests, NEW e \in Event,
         Decide(r, e), events' = events, IsUpdate(e) => e.ref = LatestSeq(e.doc)
  PROVE  SerialInv'
<1>1. /\ pc \in [Requests -> {"new", "ready", "shredded", "ok", "refused", "failed"}]
      /\ plan \in [Requests -> Event \union {NoEvent}]
  BY DEF LifecycleInv, TypeOK
<1>2. /\ pc'[r] = "ready" /\ plan'[r] = e
      /\ \A q \in Requests : q # r => pc'[q] = pc[q] /\ plan'[q] = plan[q]
  BY <1>1 DEF Decide
<1>3. \A q \in Requests : q # r /\ Decided(q)' => Decided(q)
  BY <1>2 DEF Decided
<1>4. \A q \in Requests : Decided(q) => plan[q].doc # e.doc
  BY DEF Decide, Free, InFlight, Decided
<1>5. OneInFlight'
  <2> SUFFICES ASSUME NEW p \in Requests, NEW q \in Requests, Decided(p)', Decided(q)',
                      plan'[p].doc = plan'[q].doc
               PROVE  p = q
    BY DEF OneInFlight
  <2>1. CASE p # r /\ q # r
    BY <1>2, <1>3, <2>1 DEF SerialInv, OneInFlight
  <2>2. CASE p = r \/ q = r
    BY <1>2, <1>3, <1>4, <2>2
  <2>3. QED
    BY <2>1, <2>2
<1>6. PlansAreFresh'
  <2> SUFFICES ASSUME NEW q \in Requests, Decided(q)', IsUpdate(plan'[q])
               PROVE  plan'[q].ref = LatestSeq(plan'[q].doc)
    BY DEF PlansAreFresh, IsUpdate, LatestSeq, OfDoc
  <2>1. CASE q = r
    BY <1>2, <2>1
  <2>2. CASE q # r
    BY <1>2, <1>3, <2>2 DEF SerialInv, PlansAreFresh
  <2>3. QED
    BY <2>1, <2>2
<1>7. RefIsBefore'
  BY DEF SerialInv, RefIsBefore, IsUpdate, OfDoc
<1>8. QED
  BY <1>5, <1>6, <1>7 DEF SerialInv

\* The append of what was decided, before anyone else decides.
LEMMA SerialRecords ==
  ASSUME LifecycleInv, SerialInv, NEW r \in Requests, Decided(r), Record(r), plan' = plan
  PROVE  SerialInv'
<1>1. /\ pc \in [Requests -> {"new", "ready", "shredded", "ok", "refused", "failed"}]
      /\ events \in Seq(Event)
  BY DEF LifecycleInv, TypeOK
<1>2. PICK e \in Event : e = plan[r]
  BY DEF LifecycleInv, PlanFits
<1>3. events' = Append(events, e) /\ pc' = [pc EXCEPT ![r] = "ok"]
  BY <1>2 DEF Record
<1>4. \A q \in Requests : Decided(q)' => q # r /\ Decided(q)
  BY <1>1, <1>3 DEF Decided
<1>5. OneInFlight'
  BY <1>4 DEF SerialInv, OneInFlight
<1>6. PlansAreFresh'
  <2> SUFFICES ASSUME NEW q \in Requests, Decided(q)', IsUpdate(plan[q])
               PROVE  plan[q].ref = LatestSeq(plan[q].doc)'
    BY DEF PlansAreFresh, IsUpdate
  <2>1. q # r /\ Decided(q)
    BY <1>4
  <2>2. PICK d : d = plan[q].doc
    OBVIOUS
  <2>3. d # e.doc /\ plan[q].ref = LatestSeq(d)
    BY <1>2, <2>1, <2>2 DEF SerialInv, OneInFlight, PlansAreFresh
  <2>4. OfDoc(d)' = OfDoc(d)
    BY <1>1, <1>3, <2>3, RowsOfDoc
  <2>5. LatestSeq(plan[q].doc)' = LatestSeq(d)
    BY <2>2, <2>4 DEF LatestSeq, OfDoc
  <2>6. QED
    BY <2>3, <2>5
<1>7. RefIsBefore'
  <2> DEFINE n == Len(events) + 1
  <2>1. /\ n \in Nat /\ DOMAIN events = 1 .. Len(events) /\ DOMAIN events' = 1 .. n
        /\ \A k \in 1 .. Len(events) : events'[k] = events[k]
        /\ events'[n] = e
    BY <1>1, <1>3, AppendProperties, LenProperties
  <2> SUFFICES ASSUME NEW k \in 1 .. n, IsUpdate(events'[k])
               PROVE  events'[k].ref = Max({j \in OfDoc(events[k].doc)' : j < k})
    BY <2>1 DEF RefIsBefore, IsUpdate, OfDoc
  <2>2. PICK d : d = events'[k].doc
    OBVIOUS
  <2>3. OfDoc(events[k].doc)' = OfDoc(d)'
        /\ {j \in OfDoc(d)' : j < k} = {j \in OfDoc(d) : j < k}
    BY <1>1, <1>3, <2>2, RowsOfDoc DEF OfDoc
  <2>4. CASE k \in 1 .. Len(events)
    <3>1. events'[k] = events[k]
      BY <2>1, <2>4
    <3>2. events[k].ref = Max({j \in OfDoc(d) : j < k})
      BY <2>1, <2>2, <2>4, <3>1 DEF SerialInv, RefIsBefore
    <3>3. QED
      BY <2>2, <2>3, <3>1, <3>2
  <2>5. CASE k = n
    <3>1. events'[k] = e /\ e = plan[r] /\ d = e.doc
      BY <1>2, <2>1, <2>2, <2>5
    <3>2. e.ref = LatestSeq(d)
      BY <3>1 DEF SerialInv, PlansAreFresh
    <3>3. {j \in OfDoc(d) : j < n} = OfDoc(d)
      BY <1>1, <1>3, RowsOfDoc
    <3>4. QED
      BY <2>2, <2>3, <2>5, <3>1, <3>2, <3>3 DEF LatestSeq
  <2>6. QED
    BY <2>1, <2>4, <2>5
<1>8. QED
  BY <1>5, <1>6, <1>7 DEF SerialInv

\* Every step keeps one request at a time on a document.
LEMMA SerialNext ==
  ASSUME Serialised, LifecycleAssumption, LifecycleInv, SerialInv, [Next]_vars
  PROVE  SerialInv'
<1>1. CASE /\ events' = events /\ plan' = plan
           /\ \A q \in Requests : Decided(q)' => Decided(q)
  <2>1. OneInFlight'
    BY <1>1 DEF SerialInv, OneInFlight
  <2>2. PlansAreFresh'
    BY <1>1 DEF SerialInv, PlansAreFresh, IsUpdate, LatestSeq, OfDoc
  <2>3. RefIsBefore'
    BY <1>1 DEF SerialInv, RefIsBefore, IsUpdate, OfDoc
  <2>4. QED
    BY <2>1, <2>2, <2>3 DEF SerialInv
<1>2. CASE \E r \in Requests, e \in Event :
             /\ Decide(r, e) /\ events' = events
             /\ IsUpdate(e) => e.ref = LatestSeq(e.doc)
  BY <1>2, SerialDecides
<1>3. CASE \E r \in Requests : Decided(r) /\ Record(r) /\ plan' = plan
  BY <1>3, SerialRecords
<1>4. QED
  BY <1>1, <1>2, <1>3, StepKinds

\* An update that refers to the row just before it is lawful on that row.
LEMMA SerialSuffices ==
  ASSUME LifecycleInv, SerialInv
  PROVE  RevokedNeedsReissue
<1> SUFFICES ASSUME NEW k \in DOMAIN events, Before(k).type = "REVOKE",
                    events[k].type \in {"REGRADE", "REVOKE"}
             PROVE  FALSE
  BY DEF RevokedNeedsReissue
<1>1. IsUpdate(events[k])
  BY DEF IsUpdate
<1>2. /\ events[k].ref \in 1 .. (k - 1)
      /\ events[k].doc = events[events[k].ref].doc
      /\ events[k].type = "REVOKE" => events[events[k].ref].type # "REVOKE"
      /\ events[k].type = "REGRADE" => events[events[k].ref].type \in Issuances
  BY <1>1 DEF IsUpdate, LifecycleInv, RowsAreLawful, RefsAreLawful
<1>3. events[k].ref \in {j \in OfDoc(events[k].doc) : j < k}
  <2>1. Len(events) \in Nat /\ DOMAIN events = 1 .. Len(events)
    BY RowType DEF LifecycleInv, TypeOK
  <2>2. QED
    BY <1>2, <2>1 DEF OfDoc
<1>4. events[k].ref = Max({j \in OfDoc(events[k].doc) : j < k})
  BY <1>1 DEF SerialInv, RefIsBefore
<1>5. Before(k) = events[events[k].ref]
  BY <1>3, <1>4 DEF Before, Last
<1>6. QED
  BY <1>2, <1>5 DEF Issuances

(***************************************************************************)
(* A revoked document is neither regraded nor revoked again, provided that *)
(* nobody starts on a document while another request is between its read   *)
(* and its append (labels.go handleRegrade, handleRevoke, which take no    *)
(* lock; without that proviso the run lifecycle_revoked_race refutes it).  *)
(***************************************************************************)
THEOREM RevocationHolds ==
  ASSUME Serialised
  PROVE  Spec => []RevokedNeedsReissue
<1>1. Init => SerialInv
  BY SerialInit
<1>2. LifecycleInv /\ SerialInv /\ [Next]_vars => SerialInv'
  BY LifecycleAssumption, SerialNext
<1>3. LifecycleInv /\ SerialInv => RevokedNeedsReissue
  BY SerialSuffices
<1>4. QED
  BY <1>1, <1>2, <1>3, LifecycleAlways, PTL DEF Spec

-----------------------------------------------------------------------------
(* The ledger under a verification *)

\* The rows of one state of the ledger are those of the next, in their places.
Continued ==
    /\ Len(events) \in Nat /\ DOMAIN events = 1 .. Len(events)
    /\ Len(events') \in Nat /\ DOMAIN events' = 1 .. Len(events')
    /\ Len(events) <= Len(events')
    /\ \A k \in DOMAIN events : events'[k] = events[k]

\* Handlers only append (labels.go, writer.go).
LEMMA LedgerContinues ==
  ASSUME LifecycleAssumption, LifecycleInv, [Next]_vars
  PROVE  Continued
<1>1. events \in Seq(Event)
  BY DEF LifecycleInv, TypeOK
<1>2. CASE events' = events
  BY <1>1, <1>2, RowType DEF Continued
<1>3. ASSUME NEW r \in Requests, Decided(r), Record(r)
      PROVE  Continued
  <2>1. PICK e \in Event : e = plan[r]
    BY <1>3 DEF LifecycleInv, PlanFits
  <2>2. events' = Append(events, e)
    BY <1>3, <2>1 DEF Record
  <2>3. /\ Len(events) \in Nat /\ DOMAIN events = 1 .. Len(events)
        /\ DOMAIN events' = 1 .. (Len(events) + 1)
        /\ Len(events') = Len(events) + 1
        /\ \A k \in 1 .. Len(events) : events'[k] = events[k]
    BY <1>1, <2>2, AppendProperties, LenProperties
  <2>4. QED
    BY <2>3 DEF Continued
<1>4. QED
  BY <1>2, <1>3, StepKinds

\* A row that joins the rows of a hash or a document is a new one.
LEMMA QueriesContinue ==
  ASSUME Continued, NEW h
  PROVE  /\ ByContent(h) \subseteq ByContent(h)'
         /\ \A k \in ByContent(h)' : k \in ByContent(h) \/ k > Len(events)
         /\ ByText(h) \subseteq ByText(h)'
         /\ \A k \in ByText(h)' : k \in ByText(h) \/ k > Len(events)
         /\ OfDoc(h) \subseteq OfDoc(h)'
         /\ \A k \in OfDoc(h)' : k \in OfDoc(h) \/ k > Len(events)
<1>1. \A k \in DOMAIN events' : k \in DOMAIN events \/ k > Len(events)
  BY DEF Continued
<1>2. \A k \in DOMAIN events : k \in DOMAIN events' /\ events'[k] = events[k]
  BY DEF Continued
<1>3. ByContent(h) \subseteq ByContent(h)'
      /\ \A k \in ByContent(h)' : k \in ByContent(h) \/ k > Len(events)
  BY <1>1, <1>2 DEF ByContent
<1>4. ByText(h) \subseteq ByText(h)'
      /\ \A k \in ByText(h)' : k \in ByText(h) \/ k > Len(events)
  BY <1>1, <1>2 DEF ByText
<1>5. OfDoc(h) \subseteq OfDoc(h)'
      /\ \A k \in OfDoc(h)' : k \in OfDoc(h) \/ k > Len(events)
  BY <1>1, <1>2 DEF OfDoc
<1>6. QED
  BY <1>3, <1>4, <1>5

\* The row a verification settles on is one it was given, and its own label's row
\* if that is among them (verify.go matchEvent).
LEMMA MatchIsAmong ==
  ASSUME events \in Seq(Event), NEW S, S \subseteq DOMAIN events, S # {}, NEW label
  PROVE  Match(S, label) \in S /\ (label \in S => Match(S, label) = label)
<1> DEFINE issued == {k \in S : events[k].type \in Issuances}
<1>1. S \subseteq 0 .. Len(events) /\ Len(events) \in Nat
  BY RowType
<1>2. Max(S) \in S
  BY <1>1, MaxIsGreatest
<1>3. issued # {} => Max(issued) \in issued
  <2>1. issued \subseteq 0 .. Len(events)
    BY <1>1
  <2> HIDE DEF issued
  <2>2. QED
    BY <1>1, <2>1, MaxIsGreatest
<1>4. CASE label \in S
  BY <1>4 DEF Match
<1>5. CASE label \notin S /\ issued # {}
  BY <1>3, <1>5 DEF Match
<1>6. CASE label \notin S /\ issued = {}
  BY <1>2, <1>6 DEF Match
<1>7. QED
  BY <1>4, <1>5, <1>6

\* LatestByDoc answers with the greatest seq of the document.
LEMMA LatestIsGreatest ==
  ASSUME events \in Seq(Event), NEW d, NEW m \in OfDoc(d)
  PROVE  LatestSeq(d) \in OfDoc(d) /\ \A k \in OfDoc(d) : k <= LatestSeq(d)
<1>1. OfDoc(d) \subseteq 0 .. Len(events) /\ Len(events) \in Nat
  BY RowType DEF OfDoc
<1>2. QED
  BY <1>1, MaxIsGreatest DEF LatestSeq

-----------------------------------------------------------------------------
(* The invariant, one verification at a time *)

\* What RegisteredIsFound and ClosedIsDenied say of one verification.
Found(g) ==
    Done(g) =>
        /\ result[g].ledger = "unregistered" /\ ~result[g].outage =>
              \A k \in Bearing(g) : k > asked[g].since
        /\ result[g].ledger = "registered" => matched[g] \in Bearing(g)

Denied(g) ==
    Done(g) /\ ~result[g].outage /\ matched[g] # 0 /\ ClosedSince(g) => result[g].hint = "deny"

GateOf(g) == Reading(g) /\ Found(g) /\ Denied(g)

\* The invariant, verification by verification.
LEMMA GateParts == GateInv <=> GateTypes /\ \A g \in Gates : GateOf(g)
  BY DEF GateInv, GateOf, RegisteredIsFound, Found, Bearing, ClosedIsDenied, Denied

\* The same after a step.
LEMMA GatePartsNext == GateTypes' /\ (\A g \in Gates : GateOf(g)') => GateInv'
  BY DEF GateInv, GateOf, RegisteredIsFound, Found, Bearing, ClosedIsDenied, Denied

\* A verification that was closed against stays so: rows only come on top.
LEMMA ClosedSinceStays ==
  ASSUME LifecycleInv, Continued, GateTypes, NEW g \in Gates, Reading(g), Done(g),
         matched[g] # 0, UNCHANGED gateVars, ClosedSince(g)'
  PROVE  ClosedSince(g)
<1>1. matched[g] \in DOMAIN events /\ asked[g].since <= Len(events) /\ asked[g].since \in Nat
  BY DEF Reading, Done, GateTypes
<1>2. PICK d, n : /\ d = events[matched[g]].doc /\ n = asked[g].since
                  /\ n \in Nat /\ n <= Len(events)
  BY <1>1
<1>3. events'[matched[g]].doc = d /\ asked'[g].since = n /\ matched'[g] = matched[g]
  BY <1>1, <1>2 DEF Continued, gateVars
<1> DEFINE closing == {k \in OfDoc(d) : k <= n /\ events[k].type \in {"REVOKE", "DESTROY"}}
           closingAfter ==
              {k \in OfDoc(d)' : k <= n /\ events'[k].type \in {"REVOKE", "DESTROY"}}
<1>4. /\ closingAfter # {}
      /\ \A k \in OfDoc(d)' : k > Max(closingAfter) => events'[k].type \notin Issuances
  <2>1. OfDoc(events[matched[g]].doc)' = OfDoc(d)'
    BY <1>3 DEF OfDoc
  <2>2. QED
    BY <1>3, <2>1 DEF ClosedSince
<1>5. \A k \in OfDoc(d) : k \in OfDoc(d)' /\ events'[k] = events[k]
  BY QueriesContinue DEF OfDoc, Continued
<1>6. closingAfter = closing
  <2>1. \A k \in OfDoc(d)' : k <= n => k \in OfDoc(d)
    <3>1. \A k \in OfDoc(d)' : k \in OfDoc(d) \/ k > Len(events)
      BY QueriesContinue
    <3>2. \A k \in OfDoc(d)' : k \in Nat
      BY DEF OfDoc, Continued
    <3>3. QED
      BY <1>2, <3>1, <3>2 DEF Continued
  <2>2. QED
    BY <1>5, <2>1
<1>7. \A k \in OfDoc(d) : k > Max(closing) => events[k].type \notin Issuances
  BY <1>4, <1>5, <1>6
<1>8. QED
  BY <1>2, <1>4, <1>6, <1>7 DEF ClosedSince

\* What a verification has read stays true while others append.
LEMMA GateStays ==
  ASSUME LifecycleInv, Continued, GateTypes, NEW g \in Gates, GateOf(g), UNCHANGED gateVars
  PROVE  GateOf(g)'
<1>1. /\ asked[g].since \in Nat /\ asked[g].label \in Nat
      /\ gpc' = gpc /\ asked' = asked /\ matched' = matched /\ result' = result
  BY DEF GateTypes, gateVars
<1>2. PICK h, t, n, l : /\ h = asked[g].hash /\ t = asked[g].text
                        /\ n = asked[g].since /\ l = asked[g].label
                        /\ n \in Nat /\ l \in Nat
  BY <1>1, Zenon
<1>3. /\ ByContent(h) \subseteq ByContent(h)'
      /\ \A k \in ByContent(h)' : k \in ByContent(h) \/ k > Len(events)
      /\ ByText(t) \subseteq ByText(t)'
      /\ \A k \in ByText(t)' : k \in ByText(t) \/ k > Len(events)
  BY QueriesContinue
<1>4. /\ \A k \in DOMAIN events : k \in DOMAIN events' /\ events'[k] = events[k]
      /\ Len(events) \in Nat /\ Len(events') \in Nat /\ Len(events) <= Len(events')
      /\ \A k \in ByContent(h)' : k \in Nat
      /\ \A k \in ByText(t)' : k \in Nat
  BY DEF Continued, ByContent, ByText
<1>5. /\ ByContent(asked[g].hash)' = ByContent(h)'
      /\ ByText(asked[g].text)' = ByText(t)'
      /\ ByContent(asked[g].hash) = ByContent(h)
      /\ ByText(asked[g].text) = ByText(t)
  BY <1>1, <1>2 DEF ByContent, ByText
<1>6. gpc[g] # "new" => n <= Len(events) /\ l \in LabelsKnown
  BY <1>2 DEF GateOf, Reading
<1>7. l \in LabelsKnown => l \in LabelsKnown'
  BY <1>4 DEF LabelsKnown
<1>8. gpc[g] # "new" => (OwnLabel(g)' <=> OwnLabel(g))
  <2> SUFFICES ASSUME gpc[g] # "new" PROVE OwnLabel(g)' <=> OwnLabel(g)
    OBVIOUS
  <2>1. l = 0 \/ (l \in DOMAIN events /\ events'[l] = events[l])
    BY <1>4, <1>6 DEF LabelsKnown
  <2>2. QED
    BY <1>1, <1>2, <2>1 DEF OwnLabel
<1>9. Reading(g)'
  <2>1. gpc[g] # "new" => n <= Len(events') /\ l \in LabelsKnown'
    BY <1>2, <1>4, <1>6, <1>7
  <2>2. gpc[g] = "by_text" => ~OwnLabel(g)' /\ \A k \in ByContent(h)' : k > n
    <3> SUFFICES ASSUME gpc[g] = "by_text"
                 PROVE  ~OwnLabel(g)' /\ \A k \in ByContent(h)' : k > n
      OBVIOUS
    <3>1. ~OwnLabel(g) /\ \A k \in ByContent(h) : k > n
      BY <1>2 DEF GateOf, Reading
    <3>2. ~OwnLabel(g)'
      BY <1>8, <3>1
    <3>3. \A k \in ByContent(h)' : k > n
      BY <1>2, <1>3, <1>4, <1>6, <3>1
    <3>4. QED
      BY <3>2, <3>3
  <2>3. gpc[g] = "matched" =>
           matched[g] \in Bearing(g)' /\ (OwnLabel(g)' => matched[g] = l)
    BY <1>2, <1>3, <1>5, <1>8 DEF GateOf, Reading, Bearing
  <2>4. Done(g) => matched[g] \in {0} \union DOMAIN events'
    BY <1>4 DEF GateOf, Reading
  <2>5. gpc[g] \in {"new", "arrived", "by_text"} => matched[g] = 0
    BY DEF GateOf, Reading
  <2>6. QED
    BY <1>1, <1>2, <1>5, <2>1, <2>2, <2>3, <2>4, <2>5 DEF Reading, Done
<1>10. Found(g)'
  <2> SUFFICES ASSUME Done(g)
               PROVE  /\ result[g].ledger = "unregistered" /\ ~result[g].outage =>
                            \A k \in Bearing(g)' : k > n
                      /\ result[g].ledger = "registered" => matched[g] \in Bearing(g)'
    BY <1>1, <1>2 DEF Found, Done
  <2>1. /\ result[g].ledger = "unregistered" /\ ~result[g].outage =>
              \A k \in Bearing(g) : k > n
        /\ result[g].ledger = "registered" => matched[g] \in Bearing(g)
    BY <1>2 DEF GateOf, Found
  <2>2. n <= Len(events)
    BY <1>6 DEF Done
  <2>3. \A k \in Bearing(g)' : k \in Nat /\ (k \in Bearing(g) \/ k > Len(events))
    BY <1>3, <1>4, <1>5 DEF Bearing
  <2>4. Bearing(g) \subseteq Bearing(g)'
    BY <1>3, <1>5 DEF Bearing
  <2>5. QED
    BY <1>2, <1>4, <2>1, <2>2, <2>3, <2>4
<1>11. Denied(g)'
  BY <1>1, ClosedSinceStays DEF GateOf, Denied, Done
<1>12. QED
  BY <1>9, <1>10, <1>11 DEF GateOf

-----------------------------------------------------------------------------
(* The steps of a verification *)

\* A closed document is denied to whoever reads its newest row: no issuance
\* follows the row that closed it, so the newest row closes it too.
LEMMA NewestRowCloses ==
  ASSUME LifecycleInv, NEW g \in Gates, matched[g] \in DOMAIN events, ClosedSince(g)
  PROVE  events[LatestSeq(events[matched[g]].doc)].type \in {"REVOKE", "DESTROY"}
<1>1. events \in Seq(Event) /\ Len(events) \in Nat /\ DOMAIN events = 1 .. Len(events)
  BY RowType DEF LifecycleInv, TypeOK
<1>2. PICK d : d = events[matched[g]].doc
  OBVIOUS
<1> DEFINE closing ==
       {k \in OfDoc(d) : k <= asked[g].since /\ events[k].type \in {"REVOKE", "DESTROY"}}
<1>3. /\ closing # {}
      /\ \A k \in OfDoc(d) : k > Max(closing) => events[k].type \notin Issuances
  BY <1>2 DEF ClosedSince
<1>4. OfDoc(d) \subseteq 1 .. Len(events)
  BY <1>1 DEF OfDoc
<1>5. Max(closing) \in closing
  <2>1. closing \subseteq 0 .. Len(events)
    BY <1>1, <1>4
  <2> HIDE DEF closing
  <2>2. QED
    BY <1>1, <1>3, <2>1, MaxIsGreatest
<1>6. LatestSeq(d) \in OfDoc(d) /\ Max(closing) <= LatestSeq(d)
  BY <1>1, <1>5, LatestIsGreatest
<1>7. Max(closing) \in Nat /\ LatestSeq(d) \in Nat
  BY <1>4, <1>5, <1>6
<1>8. CASE LatestSeq(d) = Max(closing)
  BY <1>2, <1>5, <1>8
<1>9. CASE LatestSeq(d) # Max(closing)
  <2>1. LatestSeq(d) > Max(closing)
    BY <1>6, <1>7, <1>9
  <2>2. events[LatestSeq(d)].type \notin Issuances
    BY <1>3, <1>6, <2>1
  <2>3. events[LatestSeq(d)] \in Event
    BY <1>1, <1>4, <1>6, RowType
  <2>4. QED
    BY <1>2, <2>2, <2>3 DEF Event
<1>10. QED
  BY <1>8, <1>9

\* A verification comes in with a label of a row, or none.
LEMMA GateArrives ==
  ASSUME GateAssumption, LifecycleInv, GateTypes, NEW g \in Gates, Arrive(g), GateOf(g)
  PROVE  GateTypes' /\ GateOf(g)'
<1>1. /\ Len(events) \in Nat /\ DOMAIN events = 1 .. Len(events) /\ events' = events
      /\ gpc \in [Gates -> {"new", "arrived", "by_text", "matched", "done"}]
      /\ asked \in [Gates -> [hash : Hashes \union {NoHash}, text : Hashes \union {NoHash},
                              label : Nat, since : Nat]]
  BY RowType DEF LifecycleInv, TypeOK, GateTypes, Arrive, vars
<1>2. PICK p \in Presented, l \in LabelsKnown :
         asked' = [asked EXCEPT ![g] =
                      [hash |-> p[1], text |-> p[2], label |-> l, since |-> Len(events)]]
  BY DEF Arrive
<1>3. l \in Nat /\ p[1] \in Hashes /\ p[2] \in Hashes \union {NoHash}
  BY <1>1 DEF LabelsKnown, GateAssumption
<1>4. /\ gpc' = [gpc EXCEPT ![g] = "arrived"] /\ UNCHANGED <<matched, result>>
      /\ gpc[g] = "new"
  BY DEF Arrive
<1>5. GateTypes'
  BY <1>1, <1>2, <1>3, <1>4 DEF GateTypes
<1>6. gpc'[g] = "arrived" /\ asked'[g].since = Len(events) /\ asked'[g].label = l
  BY <1>1, <1>2, <1>4
<1>7. matched'[g] = 0
  BY <1>4 DEF GateOf, Reading
<1>8. Reading(g)'
  BY <1>1, <1>6, <1>7 DEF Reading, Done, LabelsKnown
<1>9. Found(g)' /\ Denied(g)'
  BY <1>6 DEF Found, Denied, Done
<1>10. QED
  BY <1>5, <1>8, <1>9 DEF GateOf

\* A verification has settled on a row of what a query answered.
LEMMA GateMatches ==
  ASSUME LifecycleInv, GateTypes, NEW g \in Gates, GateOf(g), gpc[g] \in {"arrived", "by_text"},
         NEW S, S \subseteq Bearing(g), S # {}, OwnLabel(g) => asked[g].label \in S,
         MatchIn(g, S)
  PROVE  GateTypes' /\ GateOf(g)'
<1>1. /\ events \in Seq(Event) /\ Len(events) \in Nat /\ DOMAIN events = 1 .. Len(events)
      /\ gpc \in [Gates -> {"new", "arrived", "by_text", "matched", "done"}]
      /\ matched \in [Gates -> Nat]
  BY RowType DEF LifecycleInv, TypeOK, GateTypes
<1>2. PICK l : l = asked[g].label
  OBVIOUS
<1>3. S \subseteq DOMAIN events
  BY DEF Bearing, ByContent, ByText
<1>4. Match(S, l) \in S /\ (l \in S => Match(S, l) = l)
  BY <1>1, <1>3, MatchIsAmong
<1>5. /\ matched' = [matched EXCEPT ![g] = Match(S, l)]
      /\ gpc' = [gpc EXCEPT ![g] = "matched"]
      /\ UNCHANGED <<asked, result>> /\ events' = events
  BY <1>2 DEF MatchIn, vars
<1>6. Match(S, l) \in Nat
  BY <1>1, <1>3, <1>4
<1>7. GateTypes'
  BY <1>1, <1>5, <1>6 DEF GateTypes
<1>8. gpc'[g] = "matched" /\ matched'[g] = Match(S, l)
  BY <1>1, <1>5
<1>9. /\ Bearing(g)' = Bearing(g) /\ (OwnLabel(g)' <=> OwnLabel(g))
      /\ LabelsKnown' = LabelsKnown
  BY <1>5 DEF Bearing, ByContent, ByText, OwnLabel, LabelsKnown
<1>10. asked[g].since <= Len(events) /\ l \in LabelsKnown
  BY <1>2 DEF GateOf, Reading
<1>11. Reading(g)'
  BY <1>2, <1>4, <1>5, <1>8, <1>9, <1>10 DEF Reading, Done
<1>12. Found(g)' /\ Denied(g)'
  BY <1>8 DEF Found, Denied, Done
<1>13. QED
  BY <1>7, <1>11, <1>12 DEF GateOf

\* What a result is asked for is what it was given.
LEMMA ResultFields ==
  ASSUME NEW l, NEW r, NEW grade, NEW h, NEW o, NEW x,
         x = [ledger |-> l, revocation |-> r, grade |-> grade, hint |-> h, outage |-> o]
  PROVE  x.ledger = l /\ x.hint = h /\ x.outage = o
OBVIOUS

\* What a verification answers.
LEMMA AnswerType ==
  ASSUME GateTypes, NEW g \in Gates,
         NEW ledger \in {"registered", "unregistered", "unavailable"},
         NEW revocation \in {"none", "revoked", "superseded"},
         NEW grade \in Grades \union {""}, NEW outage \in BOOLEAN,
         Answer(g, ledger, revocation, grade, outage), UNCHANGED <<asked, matched>>
  PROVE  /\ GateTypes'
         /\ gpc'[g] = "done" /\ result'[g].ledger = ledger /\ result'[g].outage = outage
         /\ result'[g].hint =
               V!Hint([signature |-> SignatureOf(g), ledger |-> ledger,
                       revocation |-> revocation, validity |-> "in_window"])
<1>1. PICK h : h = V!Hint([signature |-> SignatureOf(g), ledger |-> ledger,
                           revocation |-> revocation, validity |-> "in_window"])
  OBVIOUS
<1>2. h \in {"allow", "review", "deny"}
  BY <1>1 DEF V!Hint
<1>3. /\ result' = [result EXCEPT ![g] = [ledger |-> ledger, revocation |-> revocation,
                                        grade |-> grade, hint |-> h, outage |-> outage]]
      /\ gpc' = [gpc EXCEPT ![g] = "done"]
  BY <1>1, Zenon DEF Answer
<1>4. GateTypes'
  BY <1>2, <1>3 DEF GateTypes
<1>5. gpc'[g] = "done" /\ result'[g] = [ledger |-> ledger, revocation |-> revocation,
                                       grade |-> grade, hint |-> h, outage |-> outage]
  BY <1>3 DEF GateTypes
<1>6. result'[g].ledger = ledger /\ result'[g].hint = h /\ result'[g].outage = outage
  <2>1. PICK x : x = result'[g]
    OBVIOUS
  <2>2. x = [ledger |-> ledger, revocation |-> revocation,
             grade |-> grade, hint |-> h, outage |-> outage]
    BY <1>5, <2>1, Zenon
  <2>3. x.ledger = ledger /\ x.hint = h /\ x.outage = outage
    BY <2>2, ResultFields, Zenon
  <2>4. QED
    BY <2>1, <2>3, Zenon
<1>7. QED
  BY <1>1, <1>4, <1>5, <1>6, Zenon

\* The grade of a label whose signature holds is that of its row.
LEMMA LabelGradeType ==
  ASSUME LifecycleInv, NEW g \in Gates, asked[g].label \in LabelsKnown
  PROVE  LabelGrade(g) \in Grades \union {""}
<1>1. events \in Seq(Event)
  BY DEF LifecycleInv, TypeOK
<1>2. CASE asked[g].label \in DOMAIN events
  <2>1. events[asked[g].label] \in Event
    BY <1>1, <1>2, RowType
  <2>2. events[asked[g].label].grade \in Grades \union {""}
    BY <2>1 DEF Event
  <2>3. QED
    BY <2>2, Zenon DEF LabelGrade
<1>3. CASE asked[g].label = 0
  BY <1>3 DEF LabelGrade, SignatureOf
<1>4. QED
  BY <1>2, <1>3 DEF LabelsKnown

\* A verification ends without a row.
LEMMA GateGivesUp ==
  ASSUME LifecycleInv, GateTypes, NEW g \in Gates, GateOf(g), gpc[g] \in {"arrived", "by_text"},
         NEW ledger \in {"unregistered", "unavailable"}, NEW outage \in BOOLEAN,
         Unattributed(g, ledger, outage),
         ledger = "unregistered" /\ ~outage => \A k \in Bearing(g) : k > asked[g].since
  PROVE  GateTypes' /\ GateOf(g)'
<1>1. matched[g] = 0 /\ asked[g].since <= Len(events) /\ asked[g].label \in LabelsKnown
  BY DEF GateOf, Reading
<1>2. LabelGrade(g) \in Grades \union {""}
  BY <1>1, LabelGradeType
<1>3. /\ Answer(g, ledger, "none", LabelGrade(g), outage)
      /\ UNCHANGED <<events, asked, matched>>
  BY DEF Unattributed, vars
<1>4. GateTypes' /\ gpc'[g] = "done" /\ result'[g].ledger = ledger /\ result'[g].outage = outage
  BY <1>2, <1>3, AnswerType
<1>5. /\ Bearing(g)' = Bearing(g) /\ LabelsKnown' = LabelsKnown
      /\ asked' = asked /\ matched' = matched /\ events' = events
  BY <1>3 DEF Bearing, ByContent, ByText, LabelsKnown
<1>6. Reading(g)'
  BY <1>1, <1>4, <1>5 DEF Reading, Done
<1>7. Found(g)'
  <2>1. (result'[g].ledger = "unregistered" /\ ~result'[g].outage) =>
           \A k \in Bearing(g)' : k > asked'[g].since
    BY <1>4, <1>5, Zenon
  <2>2. result'[g].ledger # "registered"
    BY <1>4
  <2>3. QED
    BY <2>1, <2>2, Zenon DEF Found
<1>8. Denied(g)'
  BY <1>1, <1>5 DEF Denied
<1>9. QED
  BY <1>4, <1>6, <1>7, <1>8 DEF GateOf

\* EventsByContentHash answers.
LEMMA GateReadsContent ==
  ASSUME LifecycleInv, GateTypes, NEW g \in Gates, GateOf(g), ReadContent(g)
  PROVE  GateTypes' /\ GateOf(g)'
<1>1. gpc[g] = "arrived" /\ asked[g].label \in LabelsKnown
  BY DEF ReadContent, GateOf, Reading
<1>2. CASE ByContent(asked[g].hash) # {}
  <2>1. MatchIn(g, ByContent(asked[g].hash))
    BY <1>2 DEF ReadContent
  <2>2. OwnLabel(g) => asked[g].label \in ByContent(asked[g].hash)
    BY <1>1 DEF OwnLabel, ByContent, LabelsKnown
  <2>3. ByContent(asked[g].hash) \subseteq Bearing(g)
    BY DEF Bearing
  <2>4. QED
    BY <1>1, <1>2, <2>1, <2>2, <2>3, GateMatches
<1>3. CASE ByContent(asked[g].hash) = {} /\ asked[g].text = NoHash
  <2>1. Unattributed(g, "unregistered", FALSE)
    BY <1>3 DEF ReadContent
  <2>2. Bearing(g) = {}
    BY <1>3 DEF Bearing, ByText
  <2>3. \A k \in Bearing(g) : k > asked[g].since
    BY <2>2
  <2>4. QED
    BY <1>1, <2>1, <2>3, GateGivesUp
<1>4. CASE ByContent(asked[g].hash) = {} /\ asked[g].text # NoHash
  <2>1. gpc' = [gpc EXCEPT ![g] = "by_text"] /\ UNCHANGED <<events, asked, matched, result>>
    BY <1>4 DEF ReadContent, vars
  <2>2. GateTypes' /\ gpc'[g] = "by_text"
    BY <2>1 DEF GateTypes
  <2>3. ~OwnLabel(g)
    BY <1>1, <1>4 DEF OwnLabel, ByContent, LabelsKnown
  <2>4. /\ (OwnLabel(g)' <=> OwnLabel(g)) /\ LabelsKnown' = LabelsKnown
        /\ ByContent(asked[g].hash)' = ByContent(asked[g].hash)
    BY <2>1 DEF OwnLabel, LabelsKnown, ByContent
  <2>5. matched'[g] = 0 /\ asked[g].since <= Len(events)
    BY <1>1, <2>1 DEF GateOf, Reading
  <2>6. Reading(g)'
    BY <1>1, <1>4, <2>1, <2>2, <2>3, <2>4, <2>5 DEF Reading, Done
  <2>7. Found(g)' /\ Denied(g)'
    BY <2>2 DEF Found, Denied, Done
  <2>8. QED
    BY <2>2, <2>6, <2>7 DEF GateOf
<1>5. QED
  BY <1>2, <1>3, <1>4

\* EventsByTextHash answers.
LEMMA GateReadsText ==
  ASSUME LifecycleInv, GateTypes, NEW g \in Gates, GateOf(g), ReadText(g)
  PROVE  GateTypes' /\ GateOf(g)'
<1>1. /\ gpc[g] = "by_text" /\ ~OwnLabel(g)
      /\ \A k \in ByContent(asked[g].hash) : k > asked[g].since
  BY DEF ReadText, GateOf, Reading
<1>2. CASE ByText(asked[g].text) # {}
  <2>1. MatchIn(g, ByText(asked[g].text))
    BY <1>2 DEF ReadText
  <2>2. ByText(asked[g].text) \subseteq Bearing(g)
    BY DEF Bearing
  <2>3. QED
    BY <1>1, <1>2, <2>1, <2>2, GateMatches
<1>3. CASE ByText(asked[g].text) = {}
  <2>1. Unattributed(g, "unregistered", FALSE)
    BY <1>3 DEF ReadText
  <2>2. \A k \in Bearing(g) : k > asked[g].since
    BY <1>1, <1>3 DEF Bearing
  <2>3. QED
    BY <1>1, <2>1, <2>2, GateGivesUp
<1>4. QED
  BY <1>2, <1>3

\* The newest row a verification has read decides what it says of revocation.
LEMMA RevocationOf ==
  ASSUME NEW m \in Nat, NEW n \in Nat, NEW type \in Issuances \union {"REVOKE", "DESTROY"}
  PROVE  /\ V!Revocation([seq |-> m], V!NoEvent) = "none"
         /\ V!Revocation([seq |-> m], [type |-> type, seq |-> n]) =
               IF type \in {"REVOKE", "DESTROY"} THEN "revoked"
               ELSE IF n > m THEN "superseded" ELSE "none"
<1>1. V!Revocation([seq |-> m], V!NoEvent) = "none"
  BY DEF V!Revocation
<1>2. [type |-> type, seq |-> n] # V!NoEvent
  <2>1. PICK l : l = [type |-> type, seq |-> n]
    OBVIOUS
  <2>2. l.type = type /\ V!NoEvent.type = "NONE"
    BY <2>1 DEF V!NoEvent
  <2>3. type # "NONE"
    BY DEF Issuances
  <2>4. QED
    BY <2>1, <2>2, <2>3
<1>3. QED
  BY <1>1, <1>2 DEF V!Revocation

\* The newest row of a matched document is a row, and not before the match.
LEMMA LatestOfMatch ==
  ASSUME LifecycleInv, NEW m \in DOMAIN events, NEW n, n = LatestSeq(events[m].doc)
  PROVE  /\ n \in DOMAIN events /\ m \in Nat /\ n \in Nat /\ n >= m /\ n # 0
         /\ events[n].doc = events[m].doc
<1>1. events \in Seq(Event) /\ Len(events) \in Nat /\ DOMAIN events = 1 .. Len(events)
  BY RowType DEF LifecycleInv, TypeOK
<1>2. m \in OfDoc(events[m].doc)
  BY DEF OfDoc
<1>3. n \in OfDoc(events[m].doc) /\ m <= n
  BY <1>1, <1>2, LatestIsGreatest
<1>4. QED
  BY <1>1, <1>3 DEF OfDoc

\* The answer of LatestByDoc, or its failure (latest = 0), completes the verdict.
LEMMA ConcludesWith ==
  ASSUME LifecycleInv, NEW g \in Gates, matched[g] \in DOMAIN events,
         NEW latest, NEW outage \in BOOLEAN, Conclude(g, latest, outage),
         latest = 0 \/ latest = LatestSeq(events[matched[g]].doc)
  PROVE  \E revocation \in {"none", "revoked", "superseded"}, grade \in Grades \union {""} :
            /\ Answer(g, "registered", revocation, grade, outage)
            /\ UNCHANGED <<events, asked, matched>>
            /\ latest # 0 =>
                  revocation = IF events[latest].type \in {"REVOKE", "DESTROY"} THEN "revoked"
                               ELSE IF latest > matched[g] THEN "superseded" ELSE "none"
<1>1. PICK m : m = matched[g]
  OBVIOUS
<1>2. m \in DOMAIN events /\ m \in Nat
  BY <1>1, RowType DEF LifecycleInv, TypeOK
<1>3. \A k \in DOMAIN events :
         /\ events[k].type \in Issuances \union {"REVOKE", "DESTROY"}
         /\ events[k].grade \in Grades \union {""}
  BY RowType DEF LifecycleInv, TypeOK, Event
<1>4. UNCHANGED <<events, asked, matched>>
  BY DEF Conclude, vars
<1>5. CASE latest = 0
  <2>1. PICK grade : grade = IF latest > m /\ events[latest].type = "REGRADE"
                             THEN events[latest].grade ELSE events[m].grade
    OBVIOUS
  <2>2. grade \in Grades \union {""}
    <3>1. ~(latest > m)
      BY <1>2, <1>5
    <3>2. grade = events[m].grade
      BY <2>1, <3>1, Zenon
    <3>3. QED
      BY <1>2, <1>3, <3>2, Zenon
  <2>3. Answer(g, "registered", V!Revocation([seq |-> m], V!NoEvent), grade, outage)
    BY <1>1, <1>5, <2>1 DEF Conclude
  <2>4. V!Revocation([seq |-> m], V!NoEvent) = "none"
    BY <1>2, RevocationOf
  <2>5. Answer(g, "registered", "none", grade, outage)
    BY <2>3, <2>4, Zenon
  <2>6. QED
    BY <1>4, <1>5, <2>2, <2>5
<1>6. CASE latest # 0
  <2>1. latest \in DOMAIN events /\ latest \in Nat
    BY <1>1, <1>2, <1>6, LatestOfMatch
  <2>2. PICK grade : grade = IF latest > m /\ events[latest].type = "REGRADE"
                             THEN events[latest].grade ELSE events[m].grade
    OBVIOUS
  <2>3. grade \in Grades \union {""}
    BY <1>2, <1>3, <2>1, <2>2
  <2>4. PICK revocation : revocation =
           V!Revocation([seq |-> m], [type |-> events[latest].type, seq |-> latest])
    OBVIOUS
  <2>5. Answer(g, "registered", revocation, grade, outage)
    <3>1. PICK l, r : /\ l = IF latest = 0 THEN V!NoEvent
                             ELSE [type |-> events[latest].type, seq |-> latest]
                      /\ r = V!Revocation([seq |-> m], l)
      BY Zenon
    <3>2. Answer(g, "registered", r,
                 IF latest > m /\ events[latest].type = "REGRADE"
                 THEN events[latest].grade ELSE events[m].grade, outage)
      BY <1>1, <3>1, Zenon DEF Conclude
    <3>3. l = [type |-> events[latest].type, seq |-> latest]
      BY <1>6, <3>1
    <3>4. r = revocation
      BY <2>4, <3>1, <3>3, Zenon
    <3>5. QED
      BY <2>2, <3>2, <3>4, Zenon
  <2>6. PICK type \in Issuances \union {"REVOKE", "DESTROY"} : type = events[latest].type
    BY <1>3, <2>1
  <2>7. revocation = IF type \in {"REVOKE", "DESTROY"} THEN "revoked"
                     ELSE IF latest > m THEN "superseded" ELSE "none"
    <3>1. revocation = V!Revocation([seq |-> m], [type |-> type, seq |-> latest])
      BY <2>4, <2>6, Zenon
    <3>2. QED
      BY <1>2, <2>1, <3>1, RevocationOf
  <2>8. revocation \in {"none", "revoked", "superseded"}
    BY <2>7
  <2>9. revocation = IF events[latest].type \in {"REVOKE", "DESTROY"} THEN "revoked"
                     ELSE IF latest > matched[g] THEN "superseded" ELSE "none"
    BY <1>1, <2>6, <2>7
  <2>10. QED
    BY <1>4, <2>3, <2>5, <2>8, <2>9
<1>7. QED
  BY <1>5, <1>6

\* LatestByDoc answers, or fails.
LEMMA GateConcludes ==
  ASSUME LifecycleInv, GateTypes, NEW g \in Gates, GateOf(g), gpc[g] = "matched",
         NEW latest, NEW outage \in BOOLEAN, Conclude(g, latest, outage),
         latest = 0 \/ latest = LatestSeq(events[matched[g]].doc), latest = 0 => outage
  PROVE  GateTypes' /\ GateOf(g)'
<1>1. /\ matched[g] \in Bearing(g) /\ matched[g] \in DOMAIN events
      /\ asked[g].since <= Len(events) /\ asked[g].label \in LabelsKnown
  BY DEF GateOf, Reading, Bearing, ByContent, ByText
<1>2. PICK revocation \in {"none", "revoked", "superseded"}, grade \in Grades \union {""} :
         /\ Answer(g, "registered", revocation, grade, outage)
         /\ UNCHANGED <<events, asked, matched>>
         /\ latest # 0 =>
               revocation = IF events[latest].type \in {"REVOKE", "DESTROY"} THEN "revoked"
                            ELSE IF latest > matched[g] THEN "superseded" ELSE "none"
  BY <1>1, ConcludesWith
<1>3. /\ GateTypes' /\ gpc'[g] = "done"
      /\ result'[g].ledger = "registered" /\ result'[g].outage = outage
      /\ result'[g].hint =
            V!Hint([signature |-> SignatureOf(g), ledger |-> "registered",
                    revocation |-> revocation, validity |-> "in_window"])
  BY <1>2, AnswerType
<1>4. /\ Bearing(g)' = Bearing(g) /\ LabelsKnown' = LabelsKnown
      /\ asked' = asked /\ matched' = matched /\ events' = events
  BY <1>2 DEF Bearing, ByContent, ByText, LabelsKnown
<1>5. Reading(g)'
  BY <1>1, <1>3, <1>4 DEF Reading, Done
<1>6. Found(g)'
  BY <1>1, <1>3, <1>4 DEF Found
<1>7. Denied(g)'
  <2> SUFFICES ASSUME ~result'[g].outage, ClosedSince(g)' PROVE result'[g].hint = "deny"
    BY DEF Denied
  <2>1. ClosedSince(g)
    BY <1>4 DEF ClosedSince, OfDoc
  <2>2. latest # 0
    BY <1>3, Zenon
  <2>3. events[latest].type \in {"REVOKE", "DESTROY"}
    BY <1>1, <2>1, <2>2, NewestRowCloses
  <2>4. revocation = "revoked"
    BY <1>2, <2>2, <2>3
  <2>5. QED
    BY <1>3, <2>4 DEF V!Hint
<1>8. QED
  BY <1>3, <1>5, <1>6, <1>7 DEF GateOf

\* A verification with nothing done to it, nor to the ledger, is as it was.
LEMMA GateUntouched ==
  ASSUME NEW q \in Gates, GateOf(q), events' = events, gpc'[q] = gpc[q],
         asked'[q] = asked[q], matched'[q] = matched[q], result'[q] = result[q]
  PROVE  GateOf(q)'
<1>1. /\ Bearing(q)' = Bearing(q) /\ (OwnLabel(q)' <=> OwnLabel(q))
      /\ LabelsKnown' = LabelsKnown /\ (Done(q)' <=> Done(q))
      /\ ByContent(asked[q].hash)' = ByContent(asked[q].hash)
  BY DEF Bearing, ByContent, ByText, OwnLabel, LabelsKnown, Done
<1>2. ClosedSince(q)' <=> ClosedSince(q)
  BY DEF ClosedSince, OfDoc
<1>3. Reading(q)'
  BY <1>1 DEF GateOf, Reading
<1>4. Found(q)'
  BY <1>1 DEF GateOf, Found
<1>5. Denied(q)'
  BY <1>1, <1>2 DEF GateOf, Denied
<1>6. QED
  BY <1>3, <1>4, <1>5 DEF GateOf

\* A step of one verification leaves the ledger and the others alone.
LEMMA StepOfOne ==
  ASSUME GateTypes, NEW g \in Gates, Verify(g)
  PROVE  /\ UNCHANGED vars
         /\ \A q \in Gates \ {g} : /\ gpc'[q] = gpc[q] /\ asked'[q] = asked[q]
                                   /\ matched'[q] = matched[q] /\ result'[q] = result[q]
<1>1. UNCHANGED vars
  BY Zenon DEF Verify, Arrive, ReadContent, ReadContentFails, ReadText, ReadTextFails,
        ReadLatest, ReadLatestFails, MatchIn, Unattributed, Conclude
<1>2. \E v : gpc' = [gpc EXCEPT ![g] = v]
  BY Zenon DEF Verify, Arrive, ReadContent, ReadContentFails, ReadText, ReadTextFails,
        ReadLatest, ReadLatestFails, MatchIn, Unattributed, Conclude, Answer
<1>3. \E v : asked' = asked \/ asked' = [asked EXCEPT ![g] = v]
  BY Zenon DEF Verify, Arrive, ReadContent, ReadContentFails, ReadText, ReadTextFails,
        ReadLatest, ReadLatestFails, MatchIn, Unattributed, Conclude
<1>4. \E v : matched' = matched \/ matched' = [matched EXCEPT ![g] = v]
  BY Zenon DEF Verify, Arrive, ReadContent, ReadContentFails, ReadText, ReadTextFails,
        ReadLatest, ReadLatestFails, MatchIn, Unattributed, Conclude
<1>5. \E v : result' = result \/ result' = [result EXCEPT ![g] = v]
  BY Zenon DEF Verify, Arrive, ReadContent, ReadContentFails, ReadText, ReadTextFails,
        ReadLatest, ReadLatestFails, MatchIn, Unattributed, Conclude, Answer
<1>6. QED
  BY <1>1, <1>2, <1>3, <1>4, <1>5 DEF GateTypes

\* Before anyone verifies or issues.
LEMMA GateInitially == GateInit => GateInv
<1> SUFFICES ASSUME GateInit PROVE GateInv
  OBVIOUS
<1>1. GateTypes
  BY DEF GateInit, GateTypes, NoResult
<1>2. ASSUME NEW g \in Gates PROVE GateOf(g)
  BY DEF GateInit, GateOf, Reading, Found, Denied, Done
<1>3. QED
  BY <1>1, <1>2, GateParts

\* Every handler and every verification keeps the invariant.
LEMMA GateStep ==
  ASSUME LifecycleAssumption, GateAssumption, LifecycleInv, GateInv, [GateNext]_allVars
  PROVE  GateInv'
<1>1. GateTypes /\ \A g \in Gates : GateOf(g)
  BY GateParts
<1>2. CASE [Next]_vars /\ UNCHANGED gateVars
  <2>1. Continued
    BY <1>2, LedgerContinues
  <2>2. GateTypes'
    BY <1>1, <1>2 DEF GateTypes, gateVars
  <2>3. \A g \in Gates : GateOf(g)'
    BY <1>1, <1>2, <2>1, GateStays
  <2>4. QED
    BY <2>2, <2>3, GatePartsNext
<1>3. ASSUME NEW g \in Gates, Verify(g) PROVE GateInv'
  <2>1. GateOf(g)
    BY <1>1
  <2>2. GateTypes' /\ GateOf(g)'
    <3>1. CASE Arrive(g)
      BY <1>1, <2>1, <3>1, GateArrives
    <3>2. CASE ReadContent(g)
      BY <1>1, <2>1, <3>2, GateReadsContent
    <3>3. CASE ReadText(g)
      BY <1>1, <2>1, <3>3, GateReadsText
    <3>4. CASE ReadContentFails(g)
      BY <1>1, <2>1, <3>4, GateGivesUp DEF ReadContentFails
    <3>5. CASE ReadTextFails(g)
      BY <1>1, <2>1, <3>5, GateGivesUp DEF ReadTextFails
    <3>6. CASE ReadLatest(g)
      <4>1. PICK n : n = LatestSeq(events[matched[g]].doc)
        OBVIOUS
      <4>2. gpc[g] = "matched" /\ Conclude(g, n, FALSE)
        BY <3>6, <4>1, Zenon DEF ReadLatest
      <4>3. n # 0
        BY <2>1, <4>1, <4>2, LatestOfMatch DEF GateOf, Reading, Bearing, ByContent, ByText
      <4>4. QED
        BY <1>1, <2>1, <4>1, <4>2, <4>3, GateConcludes
    <3>7. CASE ReadLatestFails(g)
      BY <1>1, <2>1, <3>7, GateConcludes DEF ReadLatestFails
    <3>8. QED
      BY <1>3, <3>1, <3>2, <3>3, <3>4, <3>5, <3>6, <3>7 DEF Verify
  <2>3. \A q \in Gates \ {g} : GateOf(q)'
    <3>1. events' = events
      BY <1>1, <1>3, StepOfOne DEF vars
    <3>2. QED
      BY <1>1, <1>3, <3>1, StepOfOne, GateUntouched
  <2>4. \A q \in Gates : GateOf(q)'
    BY <2>2, <2>3
  <2>5. QED
    BY <2>2, <2>4, GatePartsNext
<1>4. QED
  BY <1>2, <1>3 DEF GateNext, allVars

\* Both invariants hold of every reachable state.
LEMMA GateAlways == GateSpec => [](LifecycleInv /\ GateInv)
<1>1. GateInit => LifecycleInv /\ GateInv
  <2>1. GateInit => LifecycleInv
    BY LifecycleAssumption, LifecycleInit DEF GateInit
  <2>2. QED
    BY <2>1, GateInitially
<1>2. LifecycleInv /\ GateInv /\ [GateNext]_allVars => (LifecycleInv /\ GateInv)'
  <2> SUFFICES ASSUME LifecycleInv, GateInv, [GateNext]_allVars
               PROVE  LifecycleInv' /\ GateInv'
    OBVIOUS
  <2>1. [Next]_vars
    <3>1. ASSUME NEW g \in Gates, Verify(g) PROVE UNCHANGED vars
      BY <3>1, StepOfOne DEF GateInv
    <3>2. QED
      BY <3>1 DEF GateNext, allVars
  <2>2. LifecycleInv'
    BY <2>1, LifecycleAssumption, LifecycleNext
  <2>3. QED
    BY <2>2, LifecycleAssumption, GateAssumption, GateStep
<1>3. QED
  BY <1>1, <1>2, PTL DEF GateSpec

(***************************************************************************)
(* What was in the ledger when a file came in is found, whatever else is   *)
(* appended between the queries, by whom, and whichever of them fails      *)
(* (verify.go Run, EventsByContentHash and EventsByTextHash).              *)
(***************************************************************************)
THEOREM FilesAreFound == GateSpec => []RegisteredIsFound
<1>1. LifecycleInv /\ GateInv => RegisteredIsFound
  BY DEF GateInv
<1>2. QED
  BY <1>1, GateAlways, PTL

(***************************************************************************)
(* A document that was revoked or destroyed before a verification came in, *)
(* and is not issued again, is denied, if its newest row could be read     *)
(* (verify.go Run and hint).                                               *)
(***************************************************************************)
THEOREM ClosedDocumentsAreDenied == GateSpec => []ClosedIsDenied
<1>1. LifecycleInv /\ GateInv => ClosedIsDenied
  BY DEF GateInv
<1>2. QED
  BY <1>1, GateAlways, PTL

-----------------------------------------------------------------------------
(* Whom a verification lets pass *)

Allowed(g) ==
    ~Done(g) /\ Done(g)' /\ result'[g].hint = "allow" =>
        /\ result'[g].outage \/ matched[g] = LatestSeq(events[matched[g]].doc)
        /\ events[matched[g]].type \in Issuances
        /\ asked[g].label # 0
        /\ events[asked[g].label].hash = asked[g].hash

\* Of two numbers neither of which is above the other.
LEMMA NeitherAbove ==
  ASSUME NEW a \in Nat, NEW b \in Nat, a >= b, ~(a > b)
  PROVE  a = b
OBVIOUS

\* Nothing unattributed is allowed.
LEMMA NoRowNoPass ==
  ASSUME LifecycleInv, GateTypes, NEW g \in Gates, GateOf(g), gpc[g] \in {"arrived", "by_text"},
         NEW ledger \in {"unregistered", "unavailable"}, NEW outage \in BOOLEAN,
         Unattributed(g, ledger, outage)
  PROVE  result'[g].hint # "allow"
<1>1. LabelGrade(g) \in Grades \union {""}
  BY LabelGradeType DEF GateOf, Reading
<1>2. result'[g].hint =
         V!Hint([signature |-> SignatureOf(g), ledger |-> ledger,
                 revocation |-> "none", validity |-> "in_window"])
  BY <1>1, AnswerType DEF Unattributed
<1>3. QED
  BY <1>2 DEF V!Hint

\* Only the label of the matched row itself, when nothing newer is known.
LEMMA PassIsCurrent ==
  ASSUME LifecycleInv, GateTypes, NEW g \in Gates, GateOf(g), gpc[g] = "matched",
         NEW latest, NEW outage \in BOOLEAN, Conclude(g, latest, outage),
         latest = 0 \/ latest = LatestSeq(events[matched[g]].doc), latest = 0 => outage
  PROVE  Allowed(g)
<1> SUFFICES ASSUME result'[g].hint = "allow"
             PROVE  /\ result'[g].outage \/ matched[g] = LatestSeq(events[matched[g]].doc)
                    /\ events[matched[g]].type \in Issuances
                    /\ asked[g].label # 0
                    /\ events[asked[g].label].hash = asked[g].hash
  BY DEF Allowed
<1>1. /\ matched[g] \in DOMAIN events /\ asked[g].label \in LabelsKnown
      /\ OwnLabel(g) => matched[g] = asked[g].label
  BY DEF GateOf, Reading, Bearing, ByContent, ByText
<1>2. PICK revocation \in {"none", "revoked", "superseded"}, grade \in Grades \union {""} :
         /\ Answer(g, "registered", revocation, grade, outage)
         /\ UNCHANGED <<events, asked, matched>>
         /\ latest # 0 =>
               revocation = IF events[latest].type \in {"REVOKE", "DESTROY"} THEN "revoked"
                            ELSE IF latest > matched[g] THEN "superseded" ELSE "none"
  BY <1>1, ConcludesWith
<1>3. /\ result'[g].outage = outage
      /\ result'[g].hint =
            V!Hint([signature |-> SignatureOf(g), ledger |-> "registered",
                    revocation |-> revocation, validity |-> "in_window"])
  BY <1>2, AnswerType
<1>4. SignatureOf(g) \notin {"absent", "invalid"} /\ revocation = "none"
  BY <1>3 DEF V!Hint
<1>5. OwnLabel(g)
  BY <1>4 DEF SignatureOf, OwnLabel
<1>6. events[matched[g]].type \in Issuances
  <2>1. asked[g].label \in DOMAIN events /\ events[asked[g].label].labelled
    BY <1>1, <1>5 DEF OwnLabel, LabelsKnown
  <2>2. QED
    BY <1>1, <1>5, <2>1 DEF LifecycleInv, RowsAreLawful, LabelFits
<1>7. result'[g].outage \/ matched[g] = LatestSeq(events[matched[g]].doc)
  <2>1. CASE latest = 0
    BY <1>3, <2>1, Zenon
  <2>2. CASE latest # 0
    <3>1. PICK m : m = matched[g]
      OBVIOUS
    <3>2. latest \in Nat /\ m \in Nat /\ latest >= m
      BY <1>1, <2>2, <3>1, LatestOfMatch
    <3>3. ~(latest > m)
      BY <1>2, <1>4, <2>2, <3>1
    <3>4. latest = m
      BY <3>2, <3>3, NeitherAbove, Zenon
    <3>5. QED
      BY <2>2, <3>1, <3>4
  <2>3. QED
    BY <2>1, <2>2
<1>8. QED
  BY <1>5, <1>6, <1>7 DEF OwnLabel

(***************************************************************************)
(* Whoever is let pass shows the label registered with an issuance of that *)
(* very content, and no newer row of the document was there when the last  *)
(* query was answered, unless that query failed (verify.go Run and hint).  *)
(***************************************************************************)
THEOREM WhoPassesIsCurrent == GateSpec => AllowIsCurrent
<1>1. LifecycleInv /\ GateInv /\ [GateNext]_allVars => [\A g \in Gates : Allowed(g)]_allVars
  <2> SUFFICES ASSUME LifecycleInv, GateInv, GateNext, NEW q \in Gates,
                      ~Done(q), Done(q)'
               PROVE  Allowed(q)
    BY DEF Allowed
  <2>1. GateTypes /\ GateOf(q)
    BY GateParts
  <2>2. CASE UNCHANGED gateVars
    BY <2>2 DEF gateVars, Done
  <2>3. CASE \E g \in Gates \ {q} : Verify(g)
    BY <2>1, <2>3, StepOfOne DEF Done
  <2>4. CASE Verify(q)
    <3>1. CASE Arrive(q)
      BY <2>1, <3>1 DEF Arrive, Done, GateTypes
    <3>2. CASE ReadContent(q)
      <4>1. CASE Unattributed(q, "unregistered", FALSE)
        BY <2>1, <3>2, <4>1, NoRowNoPass DEF ReadContent, Allowed
      <4>2. CASE gpc' = [gpc EXCEPT ![q] = "by_text"]
        BY <2>1, <4>2 DEF Done, GateTypes
      <4>3. CASE gpc' = [gpc EXCEPT ![q] = "matched"]
        BY <2>1, <4>3 DEF Done, GateTypes
      <4>4. QED
        BY <3>2, <4>1, <4>2, <4>3 DEF ReadContent, MatchIn
    <3>3. CASE ReadText(q)
      <4>1. CASE Unattributed(q, "unregistered", FALSE)
        BY <2>1, <3>3, <4>1, NoRowNoPass DEF ReadText, Allowed
      <4>2. CASE gpc' = [gpc EXCEPT ![q] = "matched"]
        BY <2>1, <4>2 DEF Done, GateTypes
      <4>3. QED
        BY <3>3, <4>1, <4>2, Zenon DEF ReadText, MatchIn
    <3>4. CASE ReadContentFails(q)
      BY <2>1, <3>4, NoRowNoPass DEF ReadContentFails, Allowed
    <3>5. CASE ReadTextFails(q)
      BY <2>1, <3>5, NoRowNoPass DEF ReadTextFails, Allowed
    <3>6. CASE ReadLatest(q)
      <4>1. PICK n : n = LatestSeq(events[matched[q]].doc)
        OBVIOUS
      <4>2. gpc[q] = "matched" /\ Conclude(q, n, FALSE)
        BY <3>6, <4>1, Zenon DEF ReadLatest
      <4>3. n # 0
        BY <2>1, <4>1, <4>2, LatestOfMatch DEF GateOf, Reading, Bearing, ByContent, ByText
      <4>4. QED
        BY <2>1, <4>1, <4>2, <4>3, PassIsCurrent
    <3>7. CASE ReadLatestFails(q)
      BY <2>1, <3>7, PassIsCurrent DEF ReadLatestFails
    <3>8. QED
      BY <2>4, <3>1, <3>2, <3>3, <3>4, <3>5, <3>6, <3>7 DEF Verify
  <2>5. QED
    BY <2>2, <2>3, <2>4 DEF GateNext
<1>2. GateSpec => [][\A g \in Gates : Allowed(g)]_allVars
  BY <1>1, GateAlways, PTL DEF GateSpec
<1>3. QED
  BY <1>2 DEF AllowIsCurrent, Allowed
=============================================================================
