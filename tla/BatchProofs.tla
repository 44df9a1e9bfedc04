----------------------------- MODULE BatchProofs -----------------------------
(***************************************************************************)
(* Theorem about Batch: what a status request answers is one state of the  *)
(* job and true of the ledger, for any number of batches, items and        *)
(* requests.                                                               *)
(***************************************************************************)
EXTENDS Batch, NatOrder, SequenceTheorems

Outcomes == {"appended", "failed"}

FailuresOf(results) == {k \in DOMAIN results : results[k] = "failed"}

-----------------------------------------------------------------------------
(* Reports *)

\* One more result, one more failure if it is one (batch.go, the worker's loop).
LEMMA FailureCounted ==
  ASSUME NEW results \in Seq(Outcomes), NEW outcome \in Outcomes
  PROVE  /\ Cardinality(FailuresOf(results)) \in Nat
         /\ Cardinality(FailuresOf(Append(results, outcome)))
              = Cardinality(FailuresOf(results)) + (IF outcome = "failed" THEN 1 ELSE 0)
<1> DEFINE longer == Append(results, outcome)
<1>1. Len(results) \in Nat /\ DOMAIN results = 1 .. Len(results)
  BY LenProperties
<1>2. /\ longer \in Seq(Outcomes) /\ Len(longer) = Len(results) + 1
      /\ \A k \in 1 .. Len(results) : longer[k] = results[k]
      /\ longer[Len(results) + 1] = outcome
  BY AppendProperties
<1>3. DOMAIN longer = 1 .. (Len(results) + 1)
  BY <1>2, LenProperties
<1> HIDE DEF longer
<1>4. IsFiniteSet(FailuresOf(results))
  <2>1. IsFiniteSet(1 .. Len(results))
    BY <1>1, FS_Interval
  <2>2. FailuresOf(results) \in SUBSET (1 .. Len(results))
    BY <1>1 DEF FailuresOf
  <2>3. QED
    BY <2>1, <2>2, FS_Subset
<1>5. Len(results) + 1 \notin FailuresOf(results)
  BY <1>1 DEF FailuresOf
<1>6. Cardinality(FailuresOf(results)) \in Nat
  BY <1>4, FS_CardinalityType
<1>7. CASE outcome = "failed"
  <2>1. FailuresOf(longer) = FailuresOf(results) \union {Len(results) + 1}
    BY <1>1, <1>2, <1>3, <1>7 DEF FailuresOf
  <2>2. Cardinality(FailuresOf(longer)) = Cardinality(FailuresOf(results)) + 1
    BY <1>4, <1>5, <2>1, FS_AddElement
  <2>3. QED
    BY <1>6, <1>7, <2>2 DEF longer
<1>8. CASE outcome # "failed"
  <2>1. FailuresOf(longer) = FailuresOf(results)
    BY <1>1, <1>2, <1>3, <1>8 DEF FailuresOf
  <2>2. QED
    BY <1>6, <1>8, <2>1 DEF longer
<1>9. QED
  BY <1>7, <1>8

\* The counters of a report agree with its results.
Counts(report) ==
    report.done = Len(report.results)
    /\ report.failed = Cardinality(FailuresOf(report.results))

\* What the worker records of an item is again a report whose counters agree.
LEMMA RecordCounts ==
  ASSUME NEW job \in Reports, Counts(job), NEW outcome \in Outcomes, NEW items \in Nat,
         job.state = "running", job.done < items
  PROVE  /\ Recorded(job, outcome, items) \in Reports
         /\ Counts(Recorded(job, outcome, items))
         /\ Recorded(job, outcome, items).done = job.done + 1
         /\ Recorded(job, outcome, items).results = Append(job.results, outcome)
         /\ Recorded(job, outcome, items).state \in {"running", "done"}
         /\ (Recorded(job, outcome, items).state = "done") <=> (job.done + 1 = items)
<1>1. /\ job.results \in Seq(Outcomes) /\ job.done \in Nat /\ job.failed \in Nat
      /\ job.done = Len(job.results)
      /\ job.failed = Cardinality(FailuresOf(job.results))
  BY DEF Reports, Outcomes, Counts
<1>2. /\ Append(job.results, outcome) \in Seq(Outcomes)
      /\ Len(Append(job.results, outcome)) = job.done + 1
  BY <1>1, AppendProperties
<1>3. Cardinality(FailuresOf(Append(job.results, outcome)))
        = job.failed + (IF outcome = "failed" THEN 1 ELSE 0)
  BY <1>1, FailureCounted
<1>4. job.failed + (IF outcome = "failed" THEN 1 ELSE 0) \in Nat
  BY <1>1
<1>5. PICK s : s = IF job.done + 1 = items THEN "done" ELSE job.state
  OBVIOUS
<1>6. s \in {"running", "done"} /\ ((s = "done") <=> (job.done + 1 = items))
  BY <1>5
<1>7. PICK n : n = job.failed + (IF outcome = "failed" THEN 1 ELSE 0)
  OBVIOUS
<1>8. PICK all : all = Append(job.results, outcome)
  OBVIOUS
<1>9. Recorded(job, outcome, items)
        = [state |-> s, done |-> job.done + 1, failed |-> n, results |-> all]
  BY <1>5, <1>7, <1>8, Zenon DEF Recorded
<1>10. PICK r : r = [state |-> s, done |-> job.done + 1, failed |-> n, results |-> all]
  OBVIOUS
<1>11. r.state = s /\ r.done = job.done + 1 /\ r.failed = n /\ r.results = all
  BY <1>10
<1>12. r \in Reports
  <2>1. n \in Nat
    BY <1>4, <1>7
  <2>2. all \in Seq({"appended", "failed"})
    BY <1>2, <1>8 DEF Outcomes
  <2>3. s \in {"none", "running", "done", "not found"}
    BY <1>6, Zenon
  <2>4. job.done + 1 \in Nat
    BY <1>1
  <2>5. QED
    BY <1>10, <2>1, <2>2, <2>3, <2>4 DEF Reports
<1>13. Counts(r)
  BY <1>2, <1>3, <1>7, <1>8, <1>11 DEF Counts
<1>14. QED
  BY <1>6, <1>8, <1>9, <1>10, <1>11, <1>12, <1>13, Zenon

\* A counter's first report: nothing is done (batch.go:77-91, put).
LEMMA FirstReport ==
         /\ [NothingHeard EXCEPT !.state = "running"]
              = [state |-> "running", done |-> 0, failed |-> 0, results |-> << >>]
         /\ [NothingHeard EXCEPT !.state = "running"] \in Reports
         /\ NothingHeard \in Reports
         /\ Counts([NothingHeard EXCEPT !.state = "running"])
<1>1. << >> \in Seq(Outcomes) /\ Len(<< >>) = 0
  BY EmptySeq
<1>2. PICK r : r = [state |-> "running", done |-> 0, failed |-> 0, results |-> << >>]
  OBVIOUS
<1>3. [NothingHeard EXCEPT !.state = "running"] = r
  BY <1>2 DEF NothingHeard
<1>4. r \in Reports /\ NothingHeard \in Reports
  BY <1>1, <1>2 DEF Reports, NothingHeard, Outcomes
<1>5. FailuresOf(<< >>) = {}
  BY <1>1 DEF FailuresOf
<1>6. Counts(r)
  BY <1>1, <1>2, <1>5, FS_EmptySet DEF Counts
<1>7. QED
  BY <1>2, <1>3, <1>4, <1>6

-----------------------------------------------------------------------------
(* Rows *)

\* A row of the batch (labels.go, issueLabel).
LEMMA BatchRowAdded ==
  ASSUME batchRows \in Seq(Jobs \X Nat), NEW j \in Jobs, NEW n \in Nat,
         batchRows' = Append(batchRows, <<j, n>>)
  PROVE  /\ batchRows' \in Seq(Jobs \X Nat)
         /\ Issued(j, n)'
         /\ \A i, k : ~ (i = j /\ k = n) => (Issued(i, k)' <=> Issued(i, k))
         /\ \A i, m : IssuedTo(i, m) /\ (i = j => n <= m) => IssuedTo(i, m)'
         /\ \A i : /\ i # j
                   /\ \A r \in DOMAIN batchRows : batchRows[r][1] # i
                   => \A r \in DOMAIN batchRows' : batchRows'[r][1] # i
<1>1. Len(batchRows) \in Nat /\ DOMAIN batchRows = 1 .. Len(batchRows)
  BY LenProperties
<1>2. <<j, n>> \in Jobs \X Nat
  OBVIOUS
<1>3. /\ batchRows' \in Seq(Jobs \X Nat) /\ Len(batchRows') = Len(batchRows) + 1
      /\ \A k \in 1 .. Len(batchRows) : batchRows'[k] = batchRows[k]
      /\ batchRows'[Len(batchRows) + 1] = <<j, n>>
  BY <1>2, AppendProperties
<1>4. DOMAIN batchRows' = 1 .. (Len(batchRows) + 1)
  BY <1>3, LenProperties
<1>5. Issued(j, n)'
  BY <1>1, <1>3 DEF Issued, Contains
<1>6. ASSUME NEW i, NEW k, ~ (i = j /\ k = n)
      PROVE  Issued(i, k)' <=> Issued(i, k)
  <2>1. <<i, k>> # <<j, n>>
    BY <1>6
  <2>2. ASSUME Issued(i, k)'
        PROVE  Issued(i, k)
    <3>1. PICK r \in 1 .. (Len(batchRows) + 1) : batchRows'[r] = <<i, k>>
      BY <1>3, <2>2 DEF Issued, Contains
    <3>2. r \in 1 .. Len(batchRows)
      BY <1>1, <1>3, <2>1, <3>1
    <3>3. QED
      BY <1>3, <3>1, <3>2 DEF Issued, Contains
  <2>3. ASSUME Issued(i, k)
        PROVE  Issued(i, k)'
    <3>1. PICK r \in 1 .. Len(batchRows) : batchRows[r] = <<i, k>>
      BY <2>3 DEF Issued, Contains
    <3>2. r \in 1 .. (Len(batchRows) + 1)
      BY <1>1
    <3>3. QED
      BY <1>3, <3>1, <3>2 DEF Issued, Contains
  <2>4. QED
    BY <2>2, <2>3
<1>7. ASSUME NEW i, NEW m, IssuedTo(i, m), i = j => n <= m
      PROVE  IssuedTo(i, m)'
  BY <1>1, <1>3, <1>4, <1>7 DEF IssuedTo
<1>8. ASSUME NEW i, i # j, \A r \in DOMAIN batchRows : batchRows[r][1] # i
      PROVE  \A r \in DOMAIN batchRows' : batchRows'[r][1] # i
  BY <1>1, <1>3, <1>4, <1>8
<1>9. QED
  BY <1>3, <1>5, <1>6, <1>7, <1>8

\* An item past the last one issued has no row.
LEMMA NotIssuedYet ==
  ASSUME batchRows \in Seq(Jobs \X Nat), NEW j, NEW n \in Nat, NEW k \in Nat,
         IssuedTo(j, n), k > n
  PROVE  ~ Issued(j, k)
<1>1. Len(batchRows) \in Nat /\ DOMAIN batchRows = 1 .. Len(batchRows)
  BY LenProperties
<1>2. ASSUME NEW i \in 1 .. Len(batchRows), batchRows[i] = <<j, k>>
      PROVE  FALSE
  <2>1. batchRows[i][1] = j /\ batchRows[i][2] = k
    BY <1>2
  <2>2. QED
    BY <1>1, <2>1 DEF IssuedTo
<1>3. QED
  BY <1>2 DEF Issued, Contains

\* What has no row past n has none past n + 1.
LEMMA IssuedFurther ==
  ASSUME batchRows \in Seq(Jobs \X Nat), NEW j, NEW n \in Nat, IssuedTo(j, n)
  PROVE  IssuedTo(j, n + 1)
<1>1. ASSUME NEW i \in DOMAIN batchRows, batchRows[i][1] = j
      PROVE  batchRows[i][2] <= n + 1
  <2>1. batchRows[i] \in Jobs \X Nat
    OBVIOUS
  <2>2. batchRows[i][2] \in Nat
    BY <2>1
  <2>3. batchRows[i][2] <= n
    BY <1>1, Zenon DEF IssuedTo
  <2>4. QED
    BY <2>2, <2>3
<1>2. QED
  BY <1>1, Zenon DEF IssuedTo

-----------------------------------------------------------------------------
(* True reports *)

\* The three things a true report says.
LEMMA TrueParts ==
  ASSUME NEW r, NEW j
  PROVE  TrueOf(r, j) <=>
           /\ Counts(r)
           /\ (r.state = "done") <=> (r.done = ItemsOf[j])
           /\ \A k \in DOMAIN r.results : (r.results[k] = "appended") <=> Issued(j, k)
  BY Zenon DEF TrueOf, Counts, FailuresOf

\* A report stays true while the rows it speaks of stay.
LEMMA StaysTrue ==
  ASSUME NEW r, NEW j, TrueOf(r, j), \A k \in DOMAIN r.results : Issued(j, k)' <=> Issued(j, k)
  PROVE  TrueOf(r, j)'
<1>1. \A k \in DOMAIN r.results : (r.results[k] = "appended") <=> Issued(j, k)'
  BY TrueParts, Zenon
<1>2. QED
  BY <1>1, TrueParts, Zenon DEF TrueOf

-----------------------------------------------------------------------------
(* What steps leave alone *)

\* The rows of job j are what they were.
RowsKept(j) ==
    /\ \A k : Issued(j, k)' <=> Issued(j, k)
    /\ \A m : IssuedTo(j, m) => IssuedTo(j, m)'
    /\ (\A i \in DOMAIN batchRows : batchRows[i][1] # j)
         => \A i \in DOMAIN batchRows' : batchRows'[i][1] # j

\* A step that appends nothing.
LEMMA SameRows ==
  ASSUME UNCHANGED batchRows
  PROVE  \A j : RowsKept(j)
  BY Zenon DEF RowsKept, Issued, IssuedTo

\* A job that a step does not touch.
LEMMA JobKept ==
  ASSUME NEW j \in Jobs, JobFits(j), RowsKept(j), step'[j] = step[j],
         (j \in DOMAIN jobs') <=> (j \in DOMAIN jobs),
         j \in DOMAIN jobs => jobs'[j] = jobs[j],
         restarted => restarted'
  PROVE  JobFits(j)'
<1>1. /\ (j \in DOMAIN jobs') <=> (step'[j] \in {"issuing", "appended", "failed", "ended"})
      /\ step'[j] = "lost" => restarted'
      /\ step'[j] = "new" => \A i \in DOMAIN batchRows' : batchRows'[i][1] # j
  BY Zenon DEF JobFits, RowsKept
<1>2. ASSUME j \in DOMAIN jobs'
      PROVE  /\ TrueOf(jobs[j], j)' /\ jobs'[j].state \in {"running", "done"}
             /\ jobs'[j].done <= ItemsOf[j]
             /\ (step'[j] = "ended") <=> (jobs'[j].done = ItemsOf[j])
             /\ step'[j] # "appended" => IssuedTo(j, jobs[j].done)'
             /\ step'[j] = "appended" =>
                   IssuedTo(j, jobs[j].done + 1)' /\ Issued(j, jobs[j].done + 1)'
  <2>1. PICK r, s : r = jobs[j] /\ s = step[j]
    OBVIOUS
  <2>2. jobs'[j] = r /\ step'[j] = s
    BY <1>2, <2>1
  <2>3. /\ TrueOf(r, j) /\ r.state \in {"running", "done"}
        /\ r.done <= ItemsOf[j]
        /\ (s = "ended") <=> (r.done = ItemsOf[j])
        /\ s # "appended" => IssuedTo(j, r.done)
        /\ s = "appended" => IssuedTo(j, r.done + 1) /\ Issued(j, r.done + 1)
    BY <1>2, <2>1, Zenon DEF JobFits
  <2>4. TrueOf(r, j)'
    BY <2>3, StaysTrue, Zenon DEF RowsKept
  <2>5. /\ s # "appended" => IssuedTo(j, r.done)'
        /\ s = "appended" => IssuedTo(j, r.done + 1)' /\ Issued(j, r.done + 1)'
    BY <2>3, Zenon DEF RowsKept
  <2>6. QED
    BY <2>2, <2>3, <2>4, <2>5, Zenon DEF TrueOf, IssuedTo, Issued
<1>3. QED
  BY <1>1, <1>2, Zenon DEF JobFits

\* What a client that asks about job j, or has its answer, relies on.
Proceeds(j) ==
    step[j] # "new" =>
        /\ step'[j] # "new"
        /\ j \in DOMAIN jobs' => j \in DOMAIN jobs /\ jobs[j].done <= jobs'[j].done
        /\ \A k \in Nat : (j \in DOMAIN jobs => k <= jobs[j].done)
              => (Issued(j, k)' <=> Issued(j, k))

\* The results of a report are as many as its counter says.
LEMMA ResultsOf ==
  ASSUME NEW r \in Reports, NEW j, TrueOf(r, j)
  PROVE  DOMAIN r.results = 1 .. r.done /\ r.done \in Nat
<1>1. r.results \in Seq(Outcomes) /\ r.done \in Nat
  BY DEF Reports, Outcomes
<1>2. DOMAIN r.results = 1 .. Len(r.results)
  BY <1>1, LenProperties
<1>3. QED
  BY <1>1, <1>2 DEF TrueOf

\* Where a request's job is, and what it holds.
LEMMA AskedAbout ==
  ASSUME BatchAssumption, BatchTypes, NEW p \in Polls
  PROVE  /\ JobOf[p] \in Jobs /\ ItemsOf[JobOf[p]] \in Nat \ {0}
         /\ heard[p] \in Reports /\ heard[p].done \in Nat /\ floor[p] \in Nat
         /\ JobOf[p] \in DOMAIN jobs =>
               jobs[JobOf[p]] \in Reports /\ jobs[JobOf[p]].done \in Nat
<1>1. JobOf[p] \in Jobs /\ ItemsOf[JobOf[p]] \in Nat \ {0}
  BY DEF BatchAssumption
<1>2. heard[p] \in Reports /\ floor[p] \in Nat
  BY DEF BatchTypes
<1>3. JobOf[p] \in DOMAIN jobs => jobs[JobOf[p]] \in Reports
  BY DEF BatchTypes
<1>4. \A r \in Reports : r.done \in Nat
  BY DEF Reports
<1>5. QED
  BY <1>1, <1>2, <1>3, <1>4

\* What PollFits says of a request that has told and least in hand after a step.
LEMMA PollAssembled ==
  ASSUME NEW p, NEW j, j = JobOf[p], NEW told, heard'[p] = told, NEW least, floor'[p] = least,
         poll'[p] \in {"new", "found"} => told = NothingHeard,
         told.state = "not found" => restarted' /\ told.done = 0 /\ poll'[p] = "answered",
         poll'[p] \in {"found", "encoding"} => j \in DOMAIN jobs' /\ least <= jobs'[j].done,
         poll'[p] = "encoding" => p \in holders' /\ told = [jobs'[j] EXCEPT !.results = << >>],
         poll'[p] = "sending" \/ (poll'[p] = "answered" /\ told.state # "not found")
           => /\ TrueOf(told, j)' /\ least <= told.done
              /\ step'[j] # "new" /\ told.done <= ItemsOf[j]
              /\ j \in DOMAIN jobs' => told.done <= jobs'[j].done
  PROVE  PollFits(p)'
<1>1. TrueOf(told, j)' => TrueOf(heard[p], j)'
  BY Zenon DEF TrueOf, Issued
<1>2. (poll[p] = "sending" \/ Answered(p))'
        => /\ TrueOf(heard[p], j)' /\ floor'[p] <= heard'[p].done
           /\ step'[j] # "new" /\ heard'[p].done <= ItemsOf[j]
           /\ j \in DOMAIN jobs' => heard'[p].done <= jobs'[j].done
  <2>1. (poll[p] = "sending" \/ Answered(p))'
          <=> (poll'[p] = "sending" \/ (poll'[p] = "answered" /\ told.state # "not found"))
    BY Zenon DEF Answered
  <2>2. QED
    BY <1>1, <2>1, Zenon
<1>3. poll'[p] \in {"found", "encoding"} => j \in DOMAIN jobs' /\ floor'[p] <= jobs'[j].done
  BY Zenon
<1>4. poll'[p] = "encoding" => p \in holders' /\ heard'[p] = [jobs'[j] EXCEPT !.results = << >>]
  BY Zenon
<1>5. /\ poll'[p] \in {"new", "found"} => heard'[p] = NothingHeard
      /\ heard'[p].state = "not found"
            => restarted' /\ heard'[p].done = 0 /\ poll'[p] = "answered"
  BY Zenon
<1>6. QED
  BY <1>2, <1>3, <1>4, <1>5, Zenon DEF PollFits

\* A request that a step does not touch.
LEMMA PollKept ==
  ASSUME BatchAssumption, BatchTypes, BatchTypes', NEW p \in Polls, PollFits(p),
         Proceeds(JobOf[p]), JobFits(JobOf[p]),
         poll'[p] = poll[p], heard'[p] = heard[p], floor'[p] = floor[p],
         restarted => restarted', p \in holders => p \in holders',
         poll[p] \in {"found", "encoding"} => JobOf[p] \in DOMAIN jobs',
         poll[p] = "encoding" => jobs'[JobOf[p]] = jobs[JobOf[p]]
  PROVE  PollFits(p)'
<1>1. PICK j, told, least : j = JobOf[p] /\ told = heard[p] /\ least = floor[p]
  OBVIOUS
<1>2. /\ j \in Jobs /\ told \in Reports /\ told.done \in Nat /\ least \in Nat
      /\ j \in DOMAIN jobs => jobs[j] \in Reports /\ jobs[j].done \in Nat
      /\ j \in DOMAIN jobs' => jobs'[j].done \in Nat
  <2>1. j \in DOMAIN jobs' => jobs'[j] \in Reports
    BY <1>1 DEF BatchTypes
  <2>2. \A r \in Reports : r.done \in Nat
    BY DEF Reports
  <2>3. QED
    BY <1>1, <2>1, <2>2, AskedAbout
<1>3. heard'[p] = told /\ floor'[p] = least
  BY <1>1
<1>4. /\ poll'[p] \in {"new", "found"} => told = NothingHeard
      /\ told.state = "not found" => restarted' /\ told.done = 0 /\ poll'[p] = "answered"
  BY <1>1, Zenon DEF PollFits
<1>5. ASSUME poll'[p] \in {"found", "encoding"}
      PROVE  j \in DOMAIN jobs' /\ least <= jobs'[j].done
  <2>1. j \in DOMAIN jobs' /\ j \in DOMAIN jobs /\ least <= jobs[j].done
    BY <1>1, <1>5, Zenon DEF PollFits
  <2>2. step[j] # "new"
    BY <1>1, <2>1, Zenon DEF JobFits
  <2>3. jobs[j].done <= jobs'[j].done
    BY <1>1, <2>1, <2>2, Zenon DEF Proceeds
  <2>4. QED
    BY <1>2, <2>1, <2>3
<1>6. ASSUME poll'[p] = "encoding"
      PROVE  p \in holders' /\ told = [jobs'[j] EXCEPT !.results = << >>]
  BY <1>1, <1>6, Zenon DEF PollFits
<1>7. ASSUME poll'[p] = "sending" \/ (poll'[p] = "answered" /\ told.state # "not found")
      PROVE  /\ TrueOf(told, j)' /\ least <= told.done
             /\ step'[j] # "new" /\ told.done <= ItemsOf[j]
             /\ j \in DOMAIN jobs' => told.done <= jobs'[j].done
  <2>1. /\ TrueOf(told, j) /\ least <= told.done
        /\ step[j] # "new" /\ told.done <= ItemsOf[j]
        /\ j \in DOMAIN jobs => told.done <= jobs[j].done
    BY <1>1, <1>7, Zenon DEF PollFits, Answered
  <2>2. /\ step'[j] # "new"
        /\ j \in DOMAIN jobs' => j \in DOMAIN jobs /\ jobs[j].done <= jobs'[j].done
        /\ \A k \in Nat : (j \in DOMAIN jobs => k <= jobs[j].done)
              => (Issued(j, k)' <=> Issued(j, k))
    BY <1>1, <2>1, Zenon DEF Proceeds
  <2>3. j \in DOMAIN jobs' => told.done <= jobs'[j].done
    BY <1>2, <2>1, <2>2
  <2>4. DOMAIN told.results = 1 .. told.done
    BY <1>2, <2>1, ResultsOf
  <2>5. ASSUME NEW k \in 1 .. told.done
        PROVE  Issued(j, k)' <=> Issued(j, k)
    <3>1. k \in Nat /\ k <= told.done
      BY <1>2
    <3>2. j \in DOMAIN jobs => k <= jobs[j].done
      BY <1>2, <2>1, <3>1
    <3>3. QED
      BY <2>2, <3>1, <3>2, Zenon
  <2>6. TrueOf(told, j)'
    BY <2>1, <2>4, <2>5, StaysTrue, Zenon
  <2>7. QED
    BY <2>1, <2>2, <2>3, <2>6
<1>8. QED
  BY <1>1, <1>3, <1>4, <1>5, <1>6, <1>7, PollAssembled, Zenon

\* A job that a step does not touch goes on for those who ask about it.
LEMMA KeptProceeds ==
  ASSUME BatchTypes, NEW j \in Jobs, RowsKept(j), step'[j] = step[j],
         (j \in DOMAIN jobs') <=> (j \in DOMAIN jobs),
         j \in DOMAIN jobs => jobs'[j] = jobs[j]
  PROVE  Proceeds(j)
<1>1. ASSUME j \in DOMAIN jobs'
      PROVE  j \in DOMAIN jobs /\ jobs[j].done <= jobs'[j].done
  <2>1. j \in DOMAIN jobs /\ jobs'[j] = jobs[j]
    BY <1>1
  <2>2. jobs[j].done \in Nat
    BY <2>1 DEF BatchTypes, Reports
  <2>3. QED
    BY <2>1, <2>2
<1>2. QED
  BY <1>1, Zenon DEF Proceeds, RowsKept

\* A step of the worker of job j, or of the request that posts it.
LEMMA WorkerStep ==
  ASSUME BatchAssumption, BatchInv, BatchTypes', NEW j \in Jobs, JobFits(j)', Proceeds(j),
         \A i \in Jobs \ {j} :
            /\ RowsKept(i) /\ step'[i] = step[i]
            /\ (i \in DOMAIN jobs') <=> (i \in DOMAIN jobs)
            /\ i \in DOMAIN jobs => jobs'[i] = jobs[i],
         j \in DOMAIN jobs => j \in DOMAIN jobs',
         holders = {} \/ (j \in DOMAIN jobs => jobs'[j] = jobs[j]),
         UNCHANGED <<holders, poll, heard, floor, restarted>>
  PROVE  BatchInv'
<1>1. BatchTypes /\ (\A i \in Jobs : JobFits(i)) /\ \A p \in Polls : PollFits(p)
  BY Zenon DEF BatchInv
<1>2. ASSUME NEW i \in Jobs
      PROVE  /\ JobFits(i)' /\ Proceeds(i)
             /\ i \in DOMAIN jobs => i \in DOMAIN jobs'
             /\ holders = {} \/ (i \in DOMAIN jobs => jobs'[i] = jobs[i])
  <2>1. CASE i = j
    BY <2>1, Zenon
  <2>2. CASE i # j
    <3>1. /\ RowsKept(i) /\ step'[i] = step[i]
          /\ (i \in DOMAIN jobs') <=> (i \in DOMAIN jobs)
          /\ i \in DOMAIN jobs => jobs'[i] = jobs[i]
      BY <2>2, Zenon
    <3>2. JobFits(i)'
      BY <1>1, <3>1, JobKept
    <3>3. Proceeds(i)
      BY <1>1, <3>1, KeptProceeds
    <3>4. QED
      BY <3>1, <3>2, <3>3, Zenon
  <2>3. QED
    BY <2>1, <2>2, Zenon
<1>3. ASSUME NEW p \in Polls
      PROVE  PollFits(p)'
  <2>1. PollFits(p) /\ JobOf[p] \in Jobs
    BY <1>1, AskedAbout
  <2>2. /\ poll'[p] = poll[p] /\ heard'[p] = heard[p] /\ floor'[p] = floor[p]
        /\ restarted => restarted'
        /\ p \in holders => p \in holders'
    OBVIOUS
  <2>3. poll[p] \in {"found", "encoding"} => JobOf[p] \in DOMAIN jobs
    BY <2>1, Zenon DEF PollFits
  <2>4. poll[p] = "encoding" => holders # {}
    BY <2>1, Zenon DEF PollFits
  <2>5. QED
    BY <1>1, <1>2, <2>1, <2>2, <2>3, <2>4, PollKept, Zenon
<1>4. QED
  BY <1>2, <1>3, Zenon DEF BatchInv

-----------------------------------------------------------------------------
(* Steps of a worker *)

\* Lock() is announced (batch.go put, and the worker).
LEMMA AnnounceKeeps ==
  ASSUME BatchAssumption, BatchInv, NEW j \in Jobs, Announce(j)
  PROVE  BatchInv'
<1>1. BatchTypes /\ JobFits(j)
  BY Zenon DEF BatchInv
<1>2. UNCHANGED <<jobs, holders, step, batchRows, poll, heard, floor, restarted>>
  BY Zenon DEF Announce
<1>3. writer' = j
  BY Zenon DEF Announce
<1>4. BatchTypes'
  BY <1>1, <1>2, <1>3 DEF BatchTypes
<1>5. \A i \in Jobs :
         /\ RowsKept(i) /\ step'[i] = step[i]
         /\ (i \in DOMAIN jobs') <=> (i \in DOMAIN jobs)
         /\ i \in DOMAIN jobs => jobs'[i] = jobs[i]
  BY <1>2, SameRows, Zenon
<1>6. JobFits(j)' /\ Proceeds(j)
  <2>1. restarted => restarted'
    BY <1>2
  <2>2. QED
    BY <1>1, <1>5, <2>1, JobKept, KeptProceeds
<1>7. QED
  BY <1>2, <1>4, <1>5, <1>6, WorkerStep, Zenon

\* The fields of a job's step that JobFits speaks of, put together after a step.
LEMMA JobAssembled ==
  ASSUME NEW j, NEW job, jobs'[j] = job, j \in DOMAIN jobs', NEW at, step'[j] = at,
         at \in {"issuing", "appended", "failed", "ended"},
         TrueOf(job, j)', job.state \in {"running", "done"},
         job.done <= ItemsOf[j],
         (at = "ended") <=> (job.done = ItemsOf[j]),
         at # "appended" => IssuedTo(j, job.done)',
         at = "appended" => IssuedTo(j, job.done + 1)' /\ Issued(j, job.done + 1)'
  PROVE  JobFits(j)'
<1>1. TrueOf(jobs[j], j)'
  BY Zenon DEF TrueOf, Issued
<1>2. /\ at # "appended" => IssuedTo(j, jobs[j].done)'
      /\ at = "appended" => IssuedTo(j, jobs[j].done + 1)' /\ Issued(j, jobs[j].done + 1)'
  BY Zenon DEF IssuedTo, Issued
<1>3. /\ jobs'[j].state \in {"running", "done"}
      /\ jobs'[j].done <= ItemsOf[j]
      /\ (at = "ended") <=> (jobs'[j].done = ItemsOf[j])
  BY Zenon
<1>4. at # "lost" /\ at # "new"
  BY Zenon
<1>5. QED
  BY <1>1, <1>2, <1>3, <1>4, Zenon DEF JobFits

\* The registry of a worker's job.
LEMMA WorkerHolds ==
  ASSUME BatchAssumption, BatchInv, NEW j \in Jobs
  PROVE  /\ ItemsOf[j] \in Nat \ {0} /\ JobFits(j) /\ BatchTypes
         /\ j \in DOMAIN jobs => jobs[j] \in Reports /\ jobs[j].done \in Nat
<1>1. ItemsOf[j] \in Nat \ {0}
  BY DEF BatchAssumption
<1>2. JobFits(j) /\ BatchTypes
  BY Zenon DEF BatchInv
<1>3. j \in DOMAIN jobs => jobs[j] \in Reports
  BY <1>2 DEF BatchTypes
<1>4. \A r \in Reports : r.done \in Nat
  BY DEF Reports
<1>5. QED
  BY <1>1, <1>2, <1>3, <1>4

\* handleBatchScan puts the job: nothing is done and no item has a row.
LEMMA PutKeeps ==
  ASSUME BatchAssumption, BatchInv, NEW j \in Jobs, Put(j)
  PROVE  BatchInv'
<1> DEFINE fresh == [NothingHeard EXCEPT !.state = "running"]
<1>1. /\ step[j] = "new" /\ holders = {} /\ writer' = NoJob
      /\ jobs' = [i \in DOMAIN jobs \union {j} |-> IF i = j THEN fresh ELSE jobs[i]]
      /\ step' = [step EXCEPT ![j] = "issuing"]
      /\ UNCHANGED <<holders, batchRows, poll, heard, floor, restarted>>
  BY Zenon DEF Put, Entered
<1>2. /\ fresh \in Reports /\ Counts(fresh)
      /\ fresh.state = "running" /\ fresh.done = 0 /\ fresh.results = << >>
  BY FirstReport
<1>3. BatchTypes /\ JobFits(j) /\ ItemsOf[j] \in Nat \ {0}
  BY WorkerHolds
<1>4. j \notin DOMAIN jobs /\ \A i \in DOMAIN batchRows : batchRows[i][1] # j
  BY <1>1, <1>3, Zenon DEF JobFits
<1> HIDE DEF fresh
<1>5. /\ DOMAIN jobs' = DOMAIN jobs \union {j} /\ jobs'[j] = fresh
      /\ \A i \in DOMAIN jobs : jobs'[i] = jobs[i]
      /\ jobs' = [i \in DOMAIN jobs \union {j} |-> jobs'[i]]
  BY <1>1, <1>4
<1>6. step' \in [Jobs -> {"new", "issuing", "appended", "failed", "ended", "lost"}]
  BY <1>1, <1>3 DEF BatchTypes
<1>7. /\ step'[j] = "issuing"
      /\ \A i \in Jobs \ {j} : step'[i] = step[i]
  BY <1>1, <1>3 DEF BatchTypes
<1>8. DOMAIN jobs' \subseteq Jobs /\ jobs' \in [DOMAIN jobs' -> Reports]
  BY <1>2, <1>3, <1>5 DEF BatchTypes
<1>9. BatchTypes'
  BY <1>1, <1>3, <1>6, <1>8 DEF BatchTypes
<1>10. TrueOf(fresh, j)'
  <2>1. (fresh.state = "done") <=> (fresh.done = ItemsOf[j])
    BY <1>2, <1>3
  <2>2. DOMAIN fresh.results = {}
    BY <1>2
  <2>3. TrueOf(fresh, j)
    BY <1>2, <2>1, <2>2, TrueParts, Zenon
  <2>4. QED
    BY <2>2, <2>3, StaysTrue, Zenon
<1>11. IssuedTo(j, 0)'
  BY <1>1, <1>4 DEF IssuedTo
<1>12. JobFits(j)'
  <2>1. fresh.done <= ItemsOf[j] /\ fresh.done # ItemsOf[j]
    BY <1>2, <1>3
  <2>2. IssuedTo(j, fresh.done)'
    BY <1>2, <1>11, Zenon DEF IssuedTo
  <2>3. QED
    BY <1>2, <1>5, <1>7, <1>10, <2>1, <2>2, JobAssembled, Zenon
<1>13. Proceeds(j)
  BY <1>1, Zenon DEF Proceeds
<1>14. \A i \in Jobs \ {j} :
         /\ RowsKept(i) /\ step'[i] = step[i]
         /\ (i \in DOMAIN jobs') <=> (i \in DOMAIN jobs)
         /\ i \in DOMAIN jobs => jobs'[i] = jobs[i]
  <2>1. \A i \in Jobs : RowsKept(i)
    BY <1>1, SameRows, Zenon
  <2>2. \A i \in Jobs \ {j} : (i \in DOMAIN jobs') <=> (i \in DOMAIN jobs)
    BY <1>5
  <2>3. QED
    BY <1>5, <1>7, <2>1, <2>2, Zenon
<1>15. QED
  BY <1>1, <1>4, <1>9, <1>12, <1>13, <1>14, WorkerStep, Zenon

\* issueLabel appends the row of the next item: nobody has heard of it yet.
LEMMA IssueItemKeeps ==
  ASSUME BatchAssumption, BatchInv, NEW j \in Jobs, IssueItem(j)
  PROVE  BatchInv'
<1>1. /\ step[j] = "issuing" /\ step' = [step EXCEPT ![j] = "appended"]
      /\ batchRows' = Append(batchRows, <<j, jobs[j].done + 1>>)
      /\ UNCHANGED <<jobs, writer, holders, poll, heard, floor, restarted>>
  BY Zenon DEF IssueItem
<1>2. BatchTypes /\ JobFits(j) /\ ItemsOf[j] \in Nat \ {0}
  BY WorkerHolds
<1>3. PICK job : job = jobs[j]
  OBVIOUS
<1>4. /\ j \in DOMAIN jobs
      /\ TrueOf(job, j) /\ job.state \in {"running", "done"}
      /\ job.done <= ItemsOf[j] /\ job.done # ItemsOf[j]
      /\ IssuedTo(j, job.done)
  BY <1>1, <1>2, <1>3, Zenon DEF JobFits
<1>5. job \in Reports /\ job.done \in Nat
  BY <1>3, <1>4, WorkerHolds
<1>6. batchRows \in Seq(Jobs \X Nat) /\ job.done + 1 \in Nat
  BY <1>2, <1>5 DEF BatchTypes
<1>7. /\ batchRows' \in Seq(Jobs \X Nat)
      /\ Issued(j, job.done + 1)'
      /\ \A i, k : ~ (i = j /\ k = job.done + 1) => (Issued(i, k)' <=> Issued(i, k))
      /\ \A i, m : IssuedTo(i, m) /\ (i = j => job.done + 1 <= m) => IssuedTo(i, m)'
      /\ \A i : /\ i # j
                /\ \A r \in DOMAIN batchRows : batchRows[r][1] # i
                => \A r \in DOMAIN batchRows' : batchRows'[r][1] # i
  BY <1>1, <1>3, <1>6, BatchRowAdded
<1>8. /\ step' \in [Jobs -> {"new", "issuing", "appended", "failed", "ended", "lost"}]
      /\ step'[j] = "appended"
      /\ \A i \in Jobs \ {j} : step'[i] = step[i]
  BY <1>1, <1>2 DEF BatchTypes
<1>9. BatchTypes'
  BY <1>1, <1>2, <1>7, <1>8 DEF BatchTypes
<1>10. DOMAIN job.results = 1 .. job.done
  BY <1>4, <1>5, ResultsOf
<1>11. \A k \in Nat : k <= job.done => (Issued(j, k)' <=> Issued(j, k))
  <2>1. \A k \in Nat : k <= job.done => k # job.done + 1
    BY <1>5
  <2>2. QED
    BY <1>7, <2>1, Zenon
<1>12. TrueOf(job, j)'
  <2>1. \A k \in 1 .. job.done : k \in Nat /\ k <= job.done
    BY <1>5
  <2>2. QED
    BY <1>4, <1>10, <1>11, <2>1, StaysTrue, Zenon
<1>13. IssuedTo(j, job.done + 1)'
  <2>1. IssuedTo(j, job.done + 1)
    BY <1>4, <1>5, <1>6, IssuedFurther
  <2>2. job.done + 1 <= job.done + 1
    BY <1>5
  <2>3. QED
    BY <1>7, <2>1, <2>2, Zenon
<1>14. JobFits(j)'
  <2>1. jobs'[j] = job /\ j \in DOMAIN jobs'
    BY <1>1, <1>3, <1>4
  <2>2. QED
    BY <1>4, <1>7, <1>8, <1>12, <1>13, <2>1, JobAssembled, Zenon
<1>15. Proceeds(j)
  <2>1. jobs'[j] = job /\ j \in DOMAIN jobs' /\ job.done <= job.done /\ step'[j] # "new"
    BY <1>1, <1>3, <1>4, <1>5, <1>8
  <2>2. QED
    BY <1>3, <1>4, <1>11, <2>1, Zenon DEF Proceeds
<1>16. \A i \in Jobs \ {j} :
         /\ RowsKept(i) /\ step'[i] = step[i]
         /\ (i \in DOMAIN jobs') <=> (i \in DOMAIN jobs)
         /\ i \in DOMAIN jobs => jobs'[i] = jobs[i]
  <2>1. \A i \in Jobs \ {j} : RowsKept(i)
    BY <1>7, Zenon DEF RowsKept
  <2>2. QED
    BY <1>1, <1>8, <2>1, Zenon
<1>17. QED
  BY <1>1, <1>9, <1>14, <1>15, <1>16, WorkerStep, Zenon

\* issueLabel fails: the item has no row.
LEMMA IssueItemFailsKeeps ==
  ASSUME BatchAssumption, BatchInv, NEW j \in Jobs, IssueItemFails(j)
  PROVE  BatchInv'
<1>1. /\ step[j] = "issuing" /\ step' = [step EXCEPT ![j] = "failed"]
      /\ UNCHANGED <<jobs, writer, holders, batchRows, poll, heard, floor, restarted>>
  BY Zenon DEF IssueItemFails
<1>2. BatchTypes /\ JobFits(j) /\ ItemsOf[j] \in Nat \ {0}
  BY WorkerHolds
<1>3. PICK job : job = jobs[j]
  OBVIOUS
<1>4. /\ j \in DOMAIN jobs
      /\ TrueOf(job, j) /\ job.state \in {"running", "done"}
      /\ job.done <= ItemsOf[j] /\ job.done # ItemsOf[j]
      /\ IssuedTo(j, job.done)
  BY <1>1, <1>2, <1>3, Zenon DEF JobFits
<1>5. job \in Reports /\ job.done \in Nat
  BY <1>3, <1>4, WorkerHolds
<1>6. /\ step' \in [Jobs -> {"new", "issuing", "appended", "failed", "ended", "lost"}]
      /\ step'[j] = "failed"
      /\ \A i \in Jobs \ {j} : step'[i] = step[i]
  BY <1>1, <1>2 DEF BatchTypes
<1>7. BatchTypes'
  BY <1>1, <1>2, <1>6 DEF BatchTypes
<1>8. \A i : RowsKept(i)
  BY <1>1, SameRows, Zenon
<1>9. TrueOf(job, j)' /\ IssuedTo(j, job.done)'
  <2>1. TrueOf(job, j)'
    BY <1>4, <1>8, StaysTrue, Zenon DEF RowsKept
  <2>2. QED
    BY <1>4, <1>8, <2>1, Zenon DEF RowsKept
<1>10. jobs'[j] = job /\ j \in DOMAIN jobs' /\ job.done <= job.done
  BY <1>1, <1>3, <1>4, <1>5
<1>11. JobFits(j)'
  BY <1>4, <1>6, <1>9, <1>10, JobAssembled, Zenon
<1>12. Proceeds(j)
  <2>1. step'[j] # "new"
    BY <1>6, Zenon
  <2>2. QED
    BY <1>3, <1>4, <1>8, <1>10, <2>1, Zenon DEF Proceeds, RowsKept
<1>13. \A i \in Jobs \ {j} :
         /\ RowsKept(i) /\ step'[i] = step[i]
         /\ (i \in DOMAIN jobs') <=> (i \in DOMAIN jobs)
         /\ i \in DOMAIN jobs => jobs'[i] = jobs[i]
  BY <1>1, <1>6, <1>8, Zenon
<1>14. QED
  BY <1>1, <1>7, <1>11, <1>12, <1>13, WorkerStep, Zenon

\* A true report and the outcome of the next item make a true report.
LEMMA RecordTrue ==
  ASSUME batchRows \in Seq(Jobs \X Nat), NEW j, NEW job \in Reports, NEW outcome \in Outcomes,
         ItemsOf[j] \in Nat, TrueOf(job, j), job.state = "running", job.done < ItemsOf[j],
         (outcome = "appended") <=> Issued(j, job.done + 1)
  PROVE  TrueOf(Recorded(job, outcome, ItemsOf[j]), j)
<1>1. PICK r : r = Recorded(job, outcome, ItemsOf[j])
  OBVIOUS
<1>2. Counts(job)
  BY TrueParts, Zenon
<1>3. /\ r \in Reports /\ Counts(r) /\ r.done = job.done + 1
      /\ r.results = Append(job.results, outcome)
      /\ (r.state = "done") <=> (job.done + 1 = ItemsOf[j])
  BY <1>1, <1>2, RecordCounts
<1>4. /\ job.results \in Seq(Outcomes) /\ job.done \in Nat /\ job.done = Len(job.results)
      /\ DOMAIN job.results = 1 .. job.done
  BY <1>2, ResultsOf DEF Reports, Outcomes, Counts
<1>5. /\ \A k \in 1 .. job.done : r.results[k] = job.results[k]
      /\ r.results[job.done + 1] = outcome
  BY <1>3, <1>4, AppendProperties
<1>6. DOMAIN r.results = 1 .. (job.done + 1)
  <2>1. Append(job.results, outcome) \in Seq(Outcomes)
    BY <1>4, AppendProperties
  <2>2. Len(Append(job.results, outcome)) = job.done + 1
    BY <1>4, AppendProperties
  <2>3. QED
    BY <1>3, <2>1, <2>2, LenProperties
<1>7. ASSUME NEW k \in DOMAIN r.results
      PROVE  (r.results[k] = "appended") <=> Issued(j, k)
  <2>1. CASE k = job.done + 1
    BY <1>5, <2>1, Zenon
  <2>2. CASE k # job.done + 1
    <3>1. k \in 1 .. job.done
      BY <1>4, <1>6, <2>2
    <3>2. (job.results[k] = "appended") <=> Issued(j, k)
      BY <1>4, <3>1, TrueParts, Zenon
    <3>3. QED
      BY <1>5, <3>1, <3>2, Zenon
  <2>3. QED
    BY <2>1, <2>2
<1>8. (r.state = "done") <=> (r.done = ItemsOf[j])
  BY <1>3, Zenon
<1>9. TrueOf(r, j)
  BY <1>3, <1>7, <1>8, TrueParts, Zenon
<1>10. QED
  BY <1>1, <1>9, Zenon

\* The worker records the outcome; nobody reads the job meanwhile.
LEMMA RecordKeeps ==
  ASSUME BatchAssumption, BatchInv, NEW j \in Jobs, Record(j)
  PROVE  BatchInv'
<1>1. /\ step[j] \in Outcomes /\ holders = {} /\ writer' = NoJob
      /\ jobs' = [jobs EXCEPT ![j] = Recorded(jobs[j], step[j], ItemsOf[j])]
      /\ step' = [step EXCEPT ![j] =
                     IF Len(jobs'[j].results) = ItemsOf[j] THEN "ended" ELSE "issuing"]
      /\ UNCHANGED <<holders, batchRows, poll, heard, floor, restarted>>
  BY Zenon DEF Record, Entered, Outcomes
<1>2. BatchTypes /\ JobFits(j) /\ ItemsOf[j] \in Nat \ {0}
  BY WorkerHolds
<1>3. PICK job, outcome : job = jobs[j] /\ outcome = step[j]
  OBVIOUS
<1>4. /\ j \in DOMAIN jobs
      /\ TrueOf(job, j) /\ job.state \in {"running", "done"}
      /\ job.done <= ItemsOf[j] /\ job.done # ItemsOf[j]
      /\ outcome # "appended" => IssuedTo(j, job.done)
      /\ outcome = "appended" => IssuedTo(j, job.done + 1) /\ Issued(j, job.done + 1)
  BY <1>1, <1>2, <1>3, Zenon DEF JobFits, Outcomes
<1>5. job \in Reports /\ job.done \in Nat /\ job.done < ItemsOf[j]
  <2>1. job \in Reports /\ job.done \in Nat
    BY <1>3, <1>4, WorkerHolds
  <2>2. QED
    BY <1>2, <1>4, <2>1
<1>6. batchRows \in Seq(Jobs \X Nat) /\ outcome \in Outcomes
  BY <1>1, <1>2, <1>3 DEF BatchTypes
<1>7. job.state = "running"
  BY <1>4, TrueParts, Zenon
<1>8. (outcome = "appended") <=> Issued(j, job.done + 1)
  <2>1. IssuedTo(j, job.done) => ~ Issued(j, job.done + 1)
    BY <1>5, <1>6, NotIssuedYet
  <2>2. QED
    BY <1>4, <2>1, Zenon
<1>9. PICK r : r = Recorded(job, outcome, ItemsOf[j])
  OBVIOUS
<1>10. TrueOf(r, j)
  BY <1>2, <1>4, <1>5, <1>6, <1>7, <1>8, <1>9, RecordTrue, Zenon
<1>11. /\ r \in Reports /\ r.done = job.done + 1
       /\ r.state \in {"running", "done"}
  <2>1. Counts(job)
    BY <1>4, TrueParts, Zenon
  <2>2. QED
    BY <1>2, <1>5, <1>6, <1>7, <1>9, <2>1, RecordCounts
<1>12. /\ DOMAIN jobs' = DOMAIN jobs /\ jobs'[j] = r
       /\ \A i \in DOMAIN jobs \ {j} : jobs'[i] = jobs[i]
       /\ DOMAIN jobs' \subseteq Jobs /\ jobs' \in [DOMAIN jobs' -> Reports]
  <2>1. jobs \in [DOMAIN jobs -> Reports] /\ DOMAIN jobs \subseteq Jobs
    BY <1>2 DEF BatchTypes
  <2>2. jobs' = [jobs EXCEPT ![j] = r]
    BY <1>1, <1>3, <1>9, Zenon
  <2>3. QED
    BY <1>4, <1>11, <2>1, <2>2
<1>13. PICK at : at = IF Len(jobs'[j].results) = ItemsOf[j] THEN "ended" ELSE "issuing"
  OBVIOUS
<1>14. at \in {"ended", "issuing"} /\ ((at = "ended") <=> (r.done = ItemsOf[j]))
  <2>1. Len(jobs'[j].results) = r.done
    BY <1>10, <1>12, Zenon DEF TrueOf
  <2>2. QED
    BY <1>13, <2>1
<1>15. /\ step' \in [Jobs -> {"new", "issuing", "appended", "failed", "ended", "lost"}]
       /\ step'[j] = at
       /\ \A i \in Jobs \ {j} : step'[i] = step[i]
  <2>1. step' = [step EXCEPT ![j] = at]
    BY <1>1, <1>13, Zenon
  <2>2. at \in {"new", "issuing", "appended", "failed", "ended", "lost"}
    BY <1>14, Zenon
  <2>3. step \in [Jobs -> {"new", "issuing", "appended", "failed", "ended", "lost"}]
    BY <1>2, Zenon DEF BatchTypes
  <2>4. QED
    BY <2>1, <2>2, <2>3
<1>16. BatchTypes'
  BY <1>1, <1>2, <1>12, <1>15 DEF BatchTypes
<1>17. \A i : RowsKept(i)
  BY <1>1, SameRows, Zenon
<1>18. TrueOf(r, j)'
  BY <1>10, <1>17, StaysTrue, Zenon DEF RowsKept
<1>19. IssuedTo(j, job.done + 1)
  BY <1>4, <1>5, <1>6, IssuedFurther
<1>20. IssuedTo(j, r.done)'
  <2>1. IssuedTo(j, job.done + 1)'
    BY <1>17, <1>19, Zenon DEF RowsKept
  <2>2. QED
    BY <1>11, <2>1, Zenon DEF IssuedTo
<1>21. JobFits(j)'
  <2>1. r.done <= ItemsOf[j]
    BY <1>2, <1>5, <1>11
  <2>2. at \in {"issuing", "appended", "failed", "ended"} /\ at # "appended"
    BY <1>14, Zenon
  <2>3. j \in DOMAIN jobs'
    BY <1>4, <1>12
  <2>4. QED
    BY <1>11, <1>12, <1>14, <1>15, <1>18, <1>20, <2>1, <2>2, <2>3, JobAssembled, Zenon
<1>22. Proceeds(j)
  <2>1. job.done <= r.done
    BY <1>5, <1>11
  <2>2. step'[j] # "new"
    BY <1>14, <1>15, Zenon
  <2>3. QED
    BY <1>3, <1>4, <1>12, <1>17, <2>1, <2>2, Zenon DEF Proceeds, RowsKept
<1>23. \A i \in Jobs \ {j} :
         /\ RowsKept(i) /\ step'[i] = step[i]
         /\ (i \in DOMAIN jobs') <=> (i \in DOMAIN jobs)
         /\ i \in DOMAIN jobs => jobs'[i] = jobs[i]
  <2>1. \A i \in Jobs \ {j} : (i \in DOMAIN jobs') <=> (i \in DOMAIN jobs)
    BY <1>12
  <2>2. \A i \in Jobs \ {j} : i \in DOMAIN jobs => jobs'[i] = jobs[i]
    BY <1>12
  <2>3. QED
    BY <1>15, <1>17, <2>1, <2>2, Zenon
<1>24. QED
  BY <1>1, <1>4, <1>12, <1>16, <1>21, <1>22, <1>23, WorkerStep, Zenon

-----------------------------------------------------------------------------
(* Steps of a request *)

\* A step of status request p: the registry, the workers and the rows stay.
LEMMA RequestStep ==
  ASSUME BatchAssumption, BatchInv, BatchTypes', NEW p \in Polls, PollFits(p)',
         UNCHANGED <<jobs, step, batchRows, restarted>>,
         \A q \in Polls \ {p} :
            /\ poll'[q] = poll[q] /\ heard'[q] = heard[q] /\ floor'[q] = floor[q]
            /\ q \in holders => q \in holders'
  PROVE  BatchInv'
<1>1. BatchTypes /\ (\A i \in Jobs : JobFits(i)) /\ \A q \in Polls : PollFits(q)
  BY Zenon DEF BatchInv
<1>2. \A j : RowsKept(j)
  BY SameRows, Zenon
<1>3. ASSUME NEW j \in Jobs
      PROVE  JobFits(j)' /\ Proceeds(j)
  <2>1. /\ step'[j] = step[j] /\ (restarted => restarted')
        /\ j \in DOMAIN jobs => jobs'[j] = jobs[j]
    BY Zenon
  <2>2. (j \in DOMAIN jobs') <=> (j \in DOMAIN jobs)
    BY Zenon
  <2>3. QED
    BY <1>1, <1>2, <2>1, <2>2, JobKept, KeptProceeds
<1>4. ASSUME NEW q \in Polls \ {p}
      PROVE  PollFits(q)'
  <2>1. PollFits(q) /\ JobOf[q] \in Jobs
    BY <1>1, AskedAbout
  <2>2. /\ poll'[q] = poll[q] /\ heard'[q] = heard[q] /\ floor'[q] = floor[q]
        /\ q \in holders => q \in holders'
        /\ restarted => restarted'
        /\ jobs'[JobOf[q]] = jobs[JobOf[q]]
    BY Zenon
  <2>3. poll[q] \in {"found", "encoding"} => JobOf[q] \in DOMAIN jobs'
    BY <2>1, Zenon DEF PollFits
  <2>4. Proceeds(JobOf[q]) /\ JobFits(JobOf[q])
    BY <1>1, <1>3, <2>1, Zenon
  <2>5. QED
    BY <1>1, <2>1, <2>2, <2>3, <2>4, PollKept, Zenon
<1>5. \A q \in Polls : PollFits(q)'
  BY <1>4, Zenon
<1>6. QED
  BY <1>3, <1>5, Zenon DEF BatchInv

\* The most that any client has heard is at most what the job has done.
LEMMA KnownOf ==
  ASSUME BatchAssumption, BatchInv, NEW j \in Jobs, step[j] # "new"
  PROVE  /\ Known(j) \in Nat
         /\ j \in DOMAIN jobs => Known(j) <= jobs[j].done
<1> DEFINE told == {heard[p].done : p \in {q \in Polls : poll[q] = "answered" /\ JobOf[q] = j}}
<1>1. BatchTypes /\ (\A q \in Polls : PollFits(q)) /\ ItemsOf[j] \in Nat
  BY WorkerHolds, Zenon DEF BatchInv
<1>2. ASSUME NEW q \in Polls, poll[q] = "answered", JobOf[q] = j
      PROVE  /\ heard[q].done \in Nat /\ heard[q].done <= ItemsOf[j]
             /\ j \in DOMAIN jobs => heard[q].done <= jobs[j].done
  <2>1. heard[q].done \in Nat /\ (j \in DOMAIN jobs => jobs[j].done \in Nat)
    BY <1>1, <1>2, AskedAbout
  <2>2. CASE heard[q].state = "not found"
    <3>1. heard[q].done = 0
      BY <1>1, <2>2, Zenon DEF PollFits
    <3>2. QED
      BY <1>1, <2>1, <3>1
  <2>3. CASE heard[q].state # "not found"
    BY <1>1, <1>2, <2>1, <2>3, Zenon DEF PollFits, Answered
  <2>4. QED
    BY <2>2, <2>3
<1>3. ASSUME NEW n \in Nat, \A x \in told : x \in Nat /\ x <= n
      PROVE  Known(j) \in Nat /\ Known(j) <= n
  <2>1. {0} \union told \subseteq 0 .. n
    BY <1>3
  <2>2. Max({0} \union told) \in {0} \union told
    BY <2>1, MaxIsGreatest
  <2>3. Known(j) = Max({0} \union told)
    BY Zenon DEF Known
  <2>4. QED
    BY <2>1, <2>2, <2>3
<1>4. \A x \in told : /\ x \in Nat /\ x <= ItemsOf[j]
                      /\ j \in DOMAIN jobs => x <= jobs[j].done
  BY <1>2
<1>5. j \in DOMAIN jobs => jobs[j].done \in Nat
  BY WorkerHolds
<1> HIDE DEF told
<1>6. Known(j) \in Nat
  BY <1>1, <1>3, <1>4, Zenon
<1>7. QED
  BY <1>3, <1>4, <1>5, <1>6, Zenon

\* jobs.get: the job is there, or the process has stopped since it was put.
LEMMA FindKeeps ==
  ASSUME BatchAssumption, BatchInv, NEW p \in Polls, Find(p)
  PROVE  BatchInv'
<1>1. PICK j, least : j = JobOf[p] /\ least = Known(j)
  OBVIOUS
<1>2. /\ poll[p] = "new" /\ step[j] # "new"
      /\ floor' = [floor EXCEPT ![p] = least]
      /\ UNCHANGED <<jobs, writer, holders, step, batchRows, restarted>>
      /\ \/ /\ j \in DOMAIN jobs /\ poll' = [poll EXCEPT ![p] = "found"]
            /\ heard' = heard
         \/ /\ j \notin DOMAIN jobs /\ poll' = [poll EXCEPT ![p] = "answered"]
            /\ heard' = [heard EXCEPT ![p].state = "not found"]
  BY <1>1, Zenon DEF Find
<1>3. BatchTypes /\ PollFits(p) /\ j \in Jobs /\ JobFits(j)
  BY <1>1, AskedAbout, Zenon DEF BatchInv
<1>4. least \in Nat /\ (j \in DOMAIN jobs => least <= jobs[j].done)
  BY <1>1, <1>2, <1>3, KnownOf, Zenon
<1>5. heard[p] = NothingHeard
  BY <1>2, <1>3, Zenon DEF PollFits
<1>6. /\ floor' \in [Polls -> Nat] /\ floor'[p] = least
      /\ \A q \in Polls \ {p} : floor'[q] = floor[q]
  BY <1>2, <1>3, <1>4 DEF BatchTypes
<1>7. PICK nowhere : nowhere = [NothingHeard EXCEPT !.state = "not found"]
  OBVIOUS
<1>8. nowhere \in Reports /\ nowhere.state = "not found" /\ nowhere.done = 0
  <2>1. << >> \in Seq({"appended", "failed"})
    BY EmptySeq
  <2>2. QED
    BY <1>7, <2>1 DEF NothingHeard, Reports
<1>9. CASE j \in DOMAIN jobs
  <2>1. /\ poll' \in [Polls -> {"new", "found", "encoding", "sending", "answered", "lost"}]
        /\ poll'[p] = "found" /\ heard' = heard
        /\ \A q \in Polls \ {p} : poll'[q] = poll[q]
    BY <1>2, <1>3, <1>9 DEF BatchTypes
  <2>2. BatchTypes'
    BY <1>2, <1>3, <1>6, <2>1 DEF BatchTypes
  <2>3. PollFits(p)'
    <3>1. heard'[p] = NothingHeard /\ NothingHeard.state # "not found"
      BY <1>5, <2>1 DEF NothingHeard
    <3>2. j \in DOMAIN jobs' /\ least <= jobs'[j].done
      BY <1>2, <1>4, <1>9
    <3>3. /\ poll'[p] # "encoding" /\ poll'[p] # "sending" /\ poll'[p] # "answered"
          /\ poll'[p] \in {"found", "encoding"}
      BY <2>1
    <3>4. QED
      BY <1>1, <1>6, <3>1, <3>2, <3>3, PollAssembled, Zenon
  <2>4. QED
    BY <1>2, <1>6, <2>1, <2>2, <2>3, RequestStep, Zenon
<1>10. CASE j \notin DOMAIN jobs
  <2>1. heard' = [heard EXCEPT ![p] = nowhere]
    BY <1>2, <1>5, <1>7, <1>10
  <2>2. /\ poll' \in [Polls -> {"new", "found", "encoding", "sending", "answered", "lost"}]
        /\ poll'[p] = "answered"
        /\ \A q \in Polls \ {p} : poll'[q] = poll[q]
    BY <1>2, <1>3, <1>10 DEF BatchTypes
  <2>3. /\ heard' \in [Polls -> Reports] /\ heard'[p] = nowhere
        /\ \A q \in Polls \ {p} : heard'[q] = heard[q]
    BY <1>3, <1>8, <2>1 DEF BatchTypes
  <2>4. BatchTypes'
    BY <1>2, <1>3, <1>6, <2>2, <2>3 DEF BatchTypes
  <2>5. restarted'
    <3>1. step[j] \in {"new", "issuing", "appended", "failed", "ended", "lost"}
      BY <1>3 DEF BatchTypes
    <3>2. step[j] = "lost"
      BY <1>2, <1>3, <1>10, <3>1, Zenon DEF JobFits
    <3>3. QED
      BY <1>2, <1>3, <3>2, Zenon DEF JobFits
  <2>6. PollFits(p)'
    <3>1. /\ poll'[p] # "encoding" /\ poll'[p] # "sending"
          /\ ~ (poll'[p] \in {"found", "encoding"}) /\ ~ (poll'[p] \in {"new", "found"})
      BY <2>2
    <3>2. QED
      BY <1>1, <1>6, <1>8, <2>2, <2>3, <2>5, <3>1, PollAssembled, Zenon
  <2>7. QED
    BY <1>2, <1>6, <2>2, <2>3, <2>4, <2>6, RequestStep, Zenon
<1>11. QED
  BY <1>9, <1>10

\* RLock: what the request encodes is the job as it stands.
LEMMA HoldKeeps ==
  ASSUME BatchAssumption, BatchInv, NEW p \in Polls, Hold(p)
  PROVE  BatchInv'
<1>1. PICK j, told, least :
         j = JobOf[p] /\ told = [jobs[j] EXCEPT !.results = << >>] /\ least = floor[p]
  OBVIOUS
<1>2. /\ poll[p] = "found" /\ holders' = holders \union {p}
      /\ poll' = [poll EXCEPT ![p] = "encoding"]
      /\ heard' = [heard EXCEPT ![p] = told]
      /\ UNCHANGED <<jobs, writer, step, batchRows, floor, restarted>>
  BY <1>1, Zenon DEF Hold
<1>3. BatchTypes /\ PollFits(p) /\ j \in Jobs
  BY <1>1, AskedAbout, Zenon DEF BatchInv
<1>4. j \in DOMAIN jobs /\ least <= jobs[j].done
  BY <1>1, <1>2, <1>3, Zenon DEF PollFits
<1>5. jobs[j].state \in {"running", "done"}
  BY <1>3, <1>4, Zenon DEF BatchInv, JobFits
<1>6. told \in Reports /\ told.state \in {"running", "done"}
  <2>1. << >> \in Seq({"appended", "failed"})
    BY EmptySeq
  <2>2. jobs[j] \in Reports
    BY <1>3, <1>4 DEF BatchTypes
  <2>3. QED
    BY <1>1, <1>5, <2>1, <2>2 DEF Reports
<1>7. /\ poll' \in [Polls -> {"new", "found", "encoding", "sending", "answered", "lost"}]
      /\ poll'[p] = "encoding"
      /\ \A q \in Polls \ {p} : poll'[q] = poll[q]
  BY <1>2, <1>3 DEF BatchTypes
<1>8. /\ heard' \in [Polls -> Reports] /\ heard'[p] = told
      /\ \A q \in Polls \ {p} : heard'[q] = heard[q]
  BY <1>2, <1>3, <1>6 DEF BatchTypes
<1>9. BatchTypes'
  BY <1>2, <1>3, <1>7, <1>8 DEF BatchTypes
<1>10. PollFits(p)'
  <2>1. /\ poll'[p] # "sending" /\ poll'[p] # "answered" /\ ~ (poll'[p] \in {"new", "found"})
        /\ told.state # "not found"
    BY <1>6, <1>7
  <2>2. j \in DOMAIN jobs' /\ least <= jobs'[j].done /\ floor'[p] = least
    BY <1>1, <1>2, <1>4
  <2>3. p \in holders' /\ told = [jobs'[j] EXCEPT !.results = << >>]
    BY <1>1, <1>2
  <2>4. QED
    BY <1>1, <1>8, <2>1, <2>2, <2>3, PollAssembled, Zenon
<1>11. \A q \in Polls \ {p} :
          /\ poll'[q] = poll[q] /\ heard'[q] = heard[q] /\ floor'[q] = floor[q]
          /\ q \in holders => q \in holders'
  <2>1. \A q \in holders : q \in holders'
    BY <1>2
  <2>2. QED
    BY <1>2, <1>7, <1>8, <2>1, Zenon
<1>12. QED
  BY <1>2, <1>9, <1>10, <1>11, RequestStep, Zenon

\* The results are encoded last: the lock has kept them in step with the counters.
LEMMA EncodeResultsKeeps ==
  ASSUME BatchAssumption, BatchInv, NEW p \in Polls, EncodeResults(p)
  PROVE  BatchInv'
<1>1. PICK j, told, least : j = JobOf[p] /\ told = jobs[j] /\ least = floor[p]
  OBVIOUS
<1>2. /\ poll[p] = "encoding" /\ poll' = [poll EXCEPT ![p] = "sending"]
      /\ heard' = [heard EXCEPT ![p].results = told.results]
      /\ UNCHANGED <<jobs, writer, holders, step, batchRows, floor, restarted>>
  BY <1>1, Zenon DEF EncodeResults
<1>3. BatchTypes /\ PollFits(p) /\ j \in Jobs /\ JobFits(j)
  BY <1>1, AskedAbout, Zenon DEF BatchInv
<1>4. /\ j \in DOMAIN jobs /\ least <= told.done
      /\ heard[p] = [told EXCEPT !.results = << >>]
  BY <1>1, <1>2, <1>3, Zenon DEF PollFits
<1>5. told \in Reports /\ told.done \in Nat
  BY <1>1, <1>3, <1>4, AskedAbout
<1>6. /\ TrueOf(told, j) /\ told.state \in {"running", "done"} /\ told.done <= ItemsOf[j]
      /\ step[j] # "new"
  BY <1>1, <1>3, <1>4, Zenon DEF JobFits
<1>7. heard' = [heard EXCEPT ![p] = told]
  <2>1. [heard[p] EXCEPT !.results = told.results] = told
    BY <1>4, <1>5 DEF Reports
  <2>2. heard' = [heard EXCEPT ![p] = [heard[p] EXCEPT !.results = told.results]]
    BY <1>2
  <2>3. QED
    BY <2>1, <2>2, Zenon
<1>8. /\ poll' \in [Polls -> {"new", "found", "encoding", "sending", "answered", "lost"}]
      /\ poll'[p] = "sending"
      /\ \A q \in Polls \ {p} : poll'[q] = poll[q]
  BY <1>2, <1>3 DEF BatchTypes
<1>9. /\ heard' \in [Polls -> Reports] /\ heard'[p] = told
      /\ \A q \in Polls \ {p} : heard'[q] = heard[q]
  BY <1>3, <1>5, <1>7 DEF BatchTypes
<1>10. BatchTypes'
  BY <1>2, <1>3, <1>8, <1>9 DEF BatchTypes
<1>11. TrueOf(told, j)'
  <2>1. RowsKept(j)
    BY <1>2, SameRows, Zenon
  <2>2. QED
    BY <1>6, <2>1, StaysTrue, Zenon DEF RowsKept
<1>12. PollFits(p)'
  <2>1. /\ ~ (poll'[p] \in {"new", "found"}) /\ ~ (poll'[p] \in {"found", "encoding"})
        /\ poll'[p] # "encoding" /\ told.state # "not found"
    BY <1>6, <1>8
  <2>2. told.done <= jobs'[j].done /\ floor'[p] = least /\ step'[j] # "new"
    BY <1>1, <1>2, <1>5, <1>6
  <2>3. QED
    BY <1>1, <1>4, <1>6, <1>9, <1>11, <2>1, <2>2, PollAssembled, Zenon
<1>13. \A q \in Polls \ {p} :
          /\ poll'[q] = poll[q] /\ heard'[q] = heard[q] /\ floor'[q] = floor[q]
          /\ q \in holders => q \in holders'
  BY <1>2, <1>8, <1>9, Zenon
<1>14. QED
  BY <1>2, <1>10, <1>12, <1>13, RequestStep, Zenon

\* The client has read its answer.
LEMMA SentKeeps ==
  ASSUME BatchAssumption, BatchInv, NEW p \in Polls, Sent(p)
  PROVE  BatchInv'
<1>1. PICK j, told, least : j = JobOf[p] /\ told = heard[p] /\ least = floor[p]
  OBVIOUS
<1>2. /\ poll[p] = "sending" /\ poll' = [poll EXCEPT ![p] = "answered"]
      /\ holders' = holders \ {p}
      /\ UNCHANGED <<jobs, writer, step, batchRows, heard, floor, restarted>>
  BY Zenon DEF Sent
<1>3. BatchTypes /\ PollFits(p) /\ j \in Jobs
  BY <1>1, AskedAbout, Zenon DEF BatchInv
<1>4. /\ TrueOf(told, j) /\ least <= told.done
      /\ step[j] # "new" /\ told.done <= ItemsOf[j]
      /\ j \in DOMAIN jobs => told.done <= jobs[j].done
      /\ told.state # "not found"
  BY <1>1, <1>2, <1>3, Zenon DEF PollFits
<1>5. /\ poll' \in [Polls -> {"new", "found", "encoding", "sending", "answered", "lost"}]
      /\ poll'[p] = "answered"
      /\ \A q \in Polls \ {p} : poll'[q] = poll[q]
  BY <1>2, <1>3 DEF BatchTypes
<1>6. BatchTypes'
  BY <1>2, <1>3, <1>5 DEF BatchTypes
<1>7. TrueOf(told, j)'
  <2>1. RowsKept(j)
    BY <1>2, SameRows, Zenon
  <2>2. QED
    BY <1>4, <2>1, StaysTrue, Zenon DEF RowsKept
<1>8. PollFits(p)'
  <2>1. /\ ~ (poll'[p] \in {"new", "found"}) /\ ~ (poll'[p] \in {"found", "encoding"})
        /\ poll'[p] # "encoding"
    BY <1>5
  <2>2. heard'[p] = told /\ floor'[p] = least /\ step'[j] # "new"
    BY <1>1, <1>2, <1>4
  <2>3. j \in DOMAIN jobs' => told.done <= jobs'[j].done
    BY <1>2, <1>4, Zenon
  <2>4. QED
    BY <1>1, <1>4, <1>7, <2>1, <2>2, <2>3, PollAssembled, Zenon
<1>9. \A q \in Polls \ {p} :
         /\ poll'[q] = poll[q] /\ heard'[q] = heard[q] /\ floor'[q] = floor[q]
         /\ q \in holders => q \in holders'
  <2>1. \A q \in Polls \ {p} : q \in holders => q \in holders'
    BY <1>2
  <2>2. QED
    BY <1>2, <1>5, <2>1, Zenon
<1>10. QED
  BY <1>2, <1>6, <1>8, <1>9, RequestStep, Zenon

-----------------------------------------------------------------------------
(* A restart, and the theorem *)

\* The process stops: the registry is lost, and the rows and the answers stay.
LEMMA StopBatchKeeps ==
  ASSUME BatchAssumption, BatchInv, StopBatch
  PROVE  BatchInv'
<1>1. /\ jobs' = << >> /\ writer' = NoJob /\ holders' = {} /\ restarted' = TRUE
      /\ step' = [j \in Jobs |-> IF j \in DOMAIN jobs \/ writer = j THEN "lost" ELSE step[j]]
      /\ poll' = [p \in Polls |-> IF poll[p] \in {"new", "answered"} THEN poll[p] ELSE "lost"]
      /\ UNCHANGED <<batchRows, heard, floor>>
  BY Zenon DEF StopBatch
<1>2. BatchTypes /\ (\A i \in Jobs : JobFits(i)) /\ \A q \in Polls : PollFits(q)
  BY Zenon DEF BatchInv
<1>3. DOMAIN jobs' = {} /\ jobs' \in [{} -> Reports]
  BY <1>1
<1>4. /\ step' \in [Jobs -> {"new", "issuing", "appended", "failed", "ended", "lost"}]
      /\ poll' \in [Polls -> {"new", "found", "encoding", "sending", "answered", "lost"}]
  BY <1>1, <1>2 DEF BatchTypes
<1>5. BatchTypes'
  BY <1>1, <1>2, <1>3, <1>4 DEF BatchTypes
<1>6. ASSUME NEW j \in Jobs
      PROVE  JobFits(j)'
  <2>1. JobFits(j) /\ j \notin DOMAIN jobs'
    BY <1>2, <1>3
  <2>2. step'[j] \in {"issuing", "appended", "failed", "ended"} => FALSE
    <3>1. CASE j \in DOMAIN jobs
      BY <1>1, <3>1
    <3>2. CASE j \notin DOMAIN jobs
      <4>1. ~ (step[j] \in {"issuing", "appended", "failed", "ended"})
        BY <2>1, <3>2, Zenon DEF JobFits
      <4>2. step'[j] = "lost" \/ step'[j] = step[j]
        BY <1>1
      <4>3. QED
        BY <4>1, <4>2
    <3>3. QED
      BY <3>1, <3>2
  <2>3. step'[j] = "new" => \A i \in DOMAIN batchRows' : batchRows'[i][1] # j
    <3>1. step'[j] = "new" => step[j] = "new"
      BY <1>1
    <3>2. QED
      BY <1>1, <2>1, <3>1, Zenon DEF JobFits
  <2>4. QED
    BY <1>1, <2>1, <2>2, <2>3, Zenon DEF JobFits
<1>7. ASSUME NEW p \in Polls
      PROVE  PollFits(p)'
  <2>1. PICK j, told, least : j = JobOf[p] /\ told = heard[p] /\ least = floor[p]
    OBVIOUS
  <2>2. PollFits(p) /\ j \in Jobs
    BY <1>2, <2>1, AskedAbout
  <2>3. \/ poll'[p] \in {"new", "answered"} /\ poll'[p] = poll[p]
        \/ poll'[p] = "lost" /\ ~ (poll[p] \in {"new", "answered"})
    BY <1>1
  <2>4. told.state = "not found" => poll[p] = "answered" /\ told.done = 0
    BY <2>1, <2>2, Zenon DEF PollFits
  <2>5. told.state = "not found" => restarted' /\ told.done = 0 /\ poll'[p] = "answered"
    BY <1>1, <2>3, <2>4, Zenon
  <2>6. poll'[p] \in {"new", "found"} => told = NothingHeard
    <3>1. poll'[p] \in {"new", "found"} => poll[p] = "new"
      BY <2>3
    <3>2. QED
      BY <2>1, <2>2, <3>1, Zenon DEF PollFits
  <2>7. /\ ~ (poll'[p] \in {"found", "encoding"}) /\ poll'[p] # "encoding"
        /\ poll'[p] # "sending"
    BY <2>3
  <2>8. ASSUME poll'[p] = "answered", told.state # "not found"
        PROVE  /\ TrueOf(told, j)' /\ least <= told.done
               /\ step'[j] # "new" /\ told.done <= ItemsOf[j]
               /\ j \in DOMAIN jobs' => told.done <= jobs'[j].done
    <3>1. poll[p] = "answered"
      BY <2>3, <2>8
    <3>2. /\ TrueOf(told, j) /\ least <= told.done
          /\ step[j] # "new" /\ told.done <= ItemsOf[j]
      BY <2>1, <2>2, <2>8, <3>1, Zenon DEF PollFits, Answered
    <3>3. RowsKept(j)
      BY <1>1, SameRows, Zenon
    <3>4. TrueOf(told, j)'
      BY <3>2, <3>3, StaysTrue, Zenon DEF RowsKept
    <3>5. step'[j] # "new" /\ j \notin DOMAIN jobs'
      BY <1>1, <1>3, <2>2, <3>2
    <3>6. QED
      BY <3>2, <3>4, <3>5, Zenon
  <2>9. heard'[p] = told /\ floor'[p] = least
    BY <1>1, <2>1
  <2>10. QED
    BY <2>1, <2>5, <2>6, <2>7, <2>8, <2>9, PollAssembled, Zenon
<1>8. QED
  BY <1>5, <1>6, <1>7, Zenon DEF BatchInv

\* Before the first batch.
LEMMA BatchInitially ==
  ASSUME BatchAssumption, BatchInit
  PROVE  BatchInv
<1>1. /\ jobs = << >> /\ writer = NoJob /\ holders = {} /\ batchRows = << >>
      /\ step = [j \in Jobs |-> "new"] /\ poll = [p \in Polls |-> "new"]
      /\ heard = [p \in Polls |-> NothingHeard] /\ floor = [p \in Polls |-> 0]
      /\ restarted = FALSE
  BY DEF BatchInit
<1>2. NothingHeard \in Reports
  BY FirstReport
<1>3. DOMAIN jobs = {} /\ jobs \in [{} -> Reports]
  BY <1>1
<1>4. batchRows \in Seq(Jobs \X Nat) /\ DOMAIN batchRows = {}
  <2>1. << >> \in Seq(Jobs \X Nat)
    BY EmptySeq
  <2>2. QED
    BY <1>1, <2>1
<1>5. BatchTypes
  BY <1>1, <1>2, <1>3, <1>4 DEF BatchTypes
<1>6. ASSUME NEW j \in Jobs
      PROVE  JobFits(j)
  <2>1. step[j] = "new" /\ j \notin DOMAIN jobs
    BY <1>1, <1>3
  <2>2. /\ ~ (step[j] \in {"issuing", "appended", "failed", "ended"}) /\ step[j] # "lost"
        /\ \A i \in DOMAIN batchRows : batchRows[i][1] # j
    BY <1>4, <2>1
  <2>3. QED
    BY <2>1, <2>2, Zenon DEF JobFits
<1>7. ASSUME NEW p \in Polls
      PROVE  PollFits(p)
  <2>1. poll[p] = "new" /\ heard[p] = NothingHeard /\ heard[p].state # "not found"
    BY <1>1 DEF NothingHeard
  <2>2. /\ ~ (poll[p] \in {"found", "encoding"}) /\ poll[p] # "encoding"
        /\ poll[p] # "sending" /\ poll[p] # "answered"
    BY <2>1
  <2>3. QED
    BY <2>1, <2>2, Zenon DEF PollFits, Answered
<1>8. QED
  BY <1>5, <1>6, <1>7, Zenon DEF BatchInv

\* A step that changes nothing.
LEMMA BatchStutters ==
  ASSUME BatchAssumption, BatchInv, UNCHANGED batchVars
  PROVE  BatchInv'
<1>1. /\ jobs' = jobs /\ writer' = writer /\ holders' = holders /\ step' = step
      /\ batchRows' = batchRows /\ poll' = poll /\ heard' = heard /\ floor' = floor
      /\ restarted' = restarted
  BY DEF batchVars
<1>2. BatchTypes /\ (\A j \in Jobs : JobFits(j)) /\ \A p \in Polls : PollFits(p)
  BY Zenon DEF BatchInv
<1>3. BatchTypes'
  BY <1>1, <1>2 DEF BatchTypes
<1>4. \A j \in Jobs : RowsKept(j)
  BY <1>1, SameRows, Zenon
<1>5. ASSUME NEW j \in Jobs
      PROVE  JobFits(j)' /\ Proceeds(j)
  <2>1. /\ step'[j] = step[j] /\ jobs'[j] = jobs[j] /\ (restarted => restarted')
        /\ (j \in DOMAIN jobs') <=> (j \in DOMAIN jobs)
    BY <1>1, Zenon
  <2>2. QED
    BY <1>2, <1>4, <2>1, JobKept, KeptProceeds, Zenon
<1>6. ASSUME NEW p \in Polls
      PROVE  PollFits(p)'
  <2>1. PollFits(p) /\ JobOf[p] \in Jobs
    BY <1>2, AskedAbout
  <2>2. /\ poll'[p] = poll[p] /\ heard'[p] = heard[p] /\ floor'[p] = floor[p]
        /\ (restarted => restarted') /\ (p \in holders => p \in holders')
        /\ jobs'[JobOf[p]] = jobs[JobOf[p]]
    BY <1>1, Zenon
  <2>3. poll[p] \in {"found", "encoding"} => JobOf[p] \in DOMAIN jobs'
    BY <1>1, <2>1, Zenon DEF PollFits
  <2>4. QED
    BY <1>2, <1>3, <1>5, <2>1, <2>2, <2>3, PollKept, Zenon
<1>7. QED
  BY <1>3, <1>5, <1>6, Zenon DEF BatchInv

\* What the clients have been told follows from what they have in hand.
LEMMA BatchShows ==
  ASSUME BatchInv
  PROVE  StatusIsTrue
<1>1. ASSUME NEW p \in Polls
      PROVE  /\ Answered(p) => /\ TrueOf(heard[p], JobOf[p])
                               /\ floor[p] <= heard[p].done
             /\ heard[p].state = "not found" => restarted
  BY Zenon DEF BatchInv, PollFits
<1>2. QED
  BY <1>1, Zenon DEF StatusIsTrue, TrueOf, Issued

(***************************************************************************)
(* Whatever a status request answers, at any time and to any number of     *)
(* clients, is one state of the job and true of the ledger, and no client  *)
(* is told less than was known when it asked (batch.go handleBatchStatus,  *)
(* which encodes the job under the read lock).                             *)
(***************************************************************************)
THEOREM BatchStatusIsTrue ==
  BatchSpec => []StatusIsTrue
<1> USE BatchAssumption
<1>1. BatchInit => BatchInv
  BY BatchInitially
<1>2. BatchInv /\ [BatchNext]_batchVars => BatchInv'
  <2> SUFFICES ASSUME BatchInv, [BatchNext]_batchVars
               PROVE  BatchInv'
    OBVIOUS
  <2>1. ASSUME NEW j \in Jobs, Work(j)
        PROVE  BatchInv'
    BY <2>1, AnnounceKeeps, PutKeeps, IssueItemKeeps, IssueItemFailsKeeps, RecordKeeps, Zenon
       DEF Work
  <2>2. ASSUME NEW p \in Polls, Serve(p) \/ Sent(p)
        PROVE  BatchInv'
    BY <2>2, FindKeeps, HoldKeeps, EncodeResultsKeeps, SentKeeps, Zenon DEF Serve
  <2>3. CASE StopBatch
    BY <2>3, StopBatchKeeps
  <2>4. CASE UNCHANGED batchVars
    BY <2>4, BatchStutters
  <2>5. QED
    BY <2>1, <2>2, <2>3, <2>4, Zenon DEF BatchNext, BatchServed
<1>3. BatchInv => StatusIsTrue
  BY BatchShows
<1>4. QED
  BY <1>1, <1>2, <1>3, PTL DEF BatchSpec
===============================================================================
