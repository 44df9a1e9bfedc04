------------------------------- MODULE Batch -------------------------------
(***************************************************************************)
(* POST /v1/batch/scan and GET /v1/batch/{jobId}                           *)
(* (internal/server/batch.go): a worker per job issues its items one after *)
(* another and records each outcome in the job registry, which the status  *)
(* requests read.  The registry is in memory.                              *)
(*                                                                         *)
(* jobs.mu is a sync.RWMutex: a writer announces itself, which keeps later *)
(* readers out, and enters once the readers before it have left.  A status *)
(* request holds its read lock while the answer is sent, so for as long as *)
(* its client takes to read it (no write timeout is set).                  *)
(*                                                                         *)
(* What issueLabel decides about an item is in module LabelLifecycle; here *)
(* it appends one row or fails.                                            *)
(***************************************************************************)
EXTENDS Integers, Sequences, FiniteSetsExt, SequencesExt

CONSTANTS
    Jobs, ItemsOf,  \* the batches that are posted, and how many items each has
    Polls, JobOf,   \* the status requests, and the job each asks about
    NoJob           \* the writer of a registry nobody writes to

ASSUME BatchAssumption ==
    /\ ItemsOf \in [Jobs -> Nat \ {0}]
    /\ JobOf \in [Polls -> Jobs]
    /\ NoJob \notin Jobs

VARIABLES
    jobs,       \* jobRegistry.jobs
    writer,     \* the job whose Lock() is announced
    holders,    \* the status requests that hold a read lock
    step,       \* how far the handler and then the worker of a job has got
    batchRows,  \* the ledger: the item that appended each row
    poll,       \* how far each status request has got
    heard,      \* what it answers
    floor,      \* items its job was known to have done when it began
    restarted   \* has the process stopped?

batchVars == <<jobs, writer, holders, step, batchRows, poll, heard, floor, restarted>>

NothingHeard == [state |-> "none", done |-> 0, failed |-> 0, results |-> << >>]

-----------------------------------------------------------------------------
(* handleBatchScan and its goroutine *)

\* mu.Lock(), until the readers have left: put, or the record of an outcome.
Announce(j) ==
    /\ step[j] \in {"new", "appended", "failed"}
    /\ writer = NoJob
    /\ writer' = j
    /\ UNCHANGED <<jobs, holders, step, batchRows, poll, heard, floor, restarted>>

Entered(j) == writer = j /\ holders = {}

Put(j) ==
    /\ Entered(j)
    /\ step[j] = "new"
    /\ jobs' = [i \in DOMAIN jobs \union {j} |->
                    IF i = j THEN [NothingHeard EXCEPT !.state = "running"] ELSE jobs[i]]
    /\ step' = [step EXCEPT ![j] = "issuing"]
    /\ writer' = NoJob
    /\ UNCHANGED <<holders, batchRows, poll, heard, floor, restarted>>

IssueItem(j) ==
    /\ step[j] = "issuing"
    /\ batchRows' = Append(batchRows, <<j, jobs[j].done + 1>>)
    /\ step' = [step EXCEPT ![j] = "appended"]
    /\ UNCHANGED <<jobs, writer, holders, poll, heard, floor, restarted>>

IssueItemFails(j) ==
    /\ step[j] = "issuing"
    /\ step' = [step EXCEPT ![j] = "failed"]
    /\ UNCHANGED <<jobs, writer, holders, batchRows, poll, heard, floor, restarted>>

\* What the worker records of an item.
Recorded(job, outcome, items) ==
    [state   |-> IF job.done + 1 = items THEN "done" ELSE job.state,
     done    |-> job.done + 1,
     failed  |-> job.failed + (IF outcome = "failed" THEN 1 ELSE 0),
     results |-> Append(job.results, outcome)]

\* Mutant: an item that failed is not counted as done.
RecordIssuedOnly(j) ==
    /\ Entered(j)
    /\ step[j] \in {"appended", "failed"}
    /\ jobs' = [jobs EXCEPT ![j] =
                    IF step[j] = "failed"
                    THEN [Recorded(@, step[j], ItemsOf[j]) EXCEPT !.done = jobs[j].done,
                                                                  !.state = "running"]
                    ELSE Recorded(@, step[j], ItemsOf[j])]
    /\ step' = [step EXCEPT ![j] =
                    IF Len(jobs'[j].results) = ItemsOf[j] THEN "ended" ELSE "issuing"]
    /\ writer' = NoJob
    /\ UNCHANGED <<holders, batchRows, poll, heard, floor, restarted>>

Record(j) ==
    /\ Entered(j)
    /\ step[j] \in {"appended", "failed"}
    /\ jobs' = [jobs EXCEPT ![j] = Recorded(@, step[j], ItemsOf[j])]
    /\ step' = [step EXCEPT ![j] =
                    IF Len(jobs'[j].results) = ItemsOf[j] THEN "ended" ELSE "issuing"]
    /\ writer' = NoJob
    /\ UNCHANGED <<holders, batchRows, poll, heard, floor, restarted>>

(* handleBatchStatus *)

\* The most that any client has heard of a job.
Known(j) == Max({0} \union {heard[p].done : p \in {q \in Polls : poll[q] = "answered" /\ JobOf[q] = j}})

\* jobs.get; a client knows a job's id from the answer to its batch.
Find(p) ==
    /\ poll[p] = "new"
    /\ step[JobOf[p]] # "new"
    /\ writer = NoJob
    /\ floor' = [floor EXCEPT ![p] = Known(JobOf[p])]
    /\ IF JobOf[p] \in DOMAIN jobs
       THEN /\ poll' = [poll EXCEPT ![p] = "found"]
            /\ UNCHANGED heard
       ELSE /\ poll' = [poll EXCEPT ![p] = "answered"]
            /\ heard' = [heard EXCEPT ![p].state = "not found"]
    /\ UNCHANGED <<jobs, writer, holders, step, batchRows, restarted>>

\* Mutant: the job is encoded without the lock.
HoldNothing(p) ==
    /\ poll[p] = "found"
    /\ poll' = [poll EXCEPT ![p] = "encoding"]
    /\ heard' = [heard EXCEPT ![p] = [jobs[JobOf[p]] EXCEPT !.results = << >>]]
    /\ UNCHANGED <<jobs, writer, holders, step, batchRows, floor, restarted>>

\* RLock; the fields are encoded in their order, the results last.
Hold(p) ==
    /\ poll[p] = "found"
    /\ writer = NoJob
    /\ holders' = holders \union {p}
    /\ poll' = [poll EXCEPT ![p] = "encoding"]
    /\ heard' = [heard EXCEPT ![p] = [jobs[JobOf[p]] EXCEPT !.results = << >>]]
    /\ UNCHANGED <<jobs, writer, step, batchRows, floor, restarted>>

EncodeResults(p) ==
    /\ poll[p] = "encoding"
    /\ poll' = [poll EXCEPT ![p] = "sending"]
    /\ heard' = [heard EXCEPT ![p].results = jobs[JobOf[p]].results]
    /\ UNCHANGED <<jobs, writer, holders, step, batchRows, floor, restarted>>

\* The client has read the answer, or is gone.
Sent(p) ==
    /\ poll[p] = "sending"
    /\ poll' = [poll EXCEPT ![p] = "answered"]
    /\ holders' = holders \ {p}
    /\ UNCHANGED <<jobs, writer, step, batchRows, heard, floor, restarted>>

\* The process stops and starts again: the registry is empty, the rows stay.
StopBatch ==
    /\ ~restarted
    /\ DOMAIN jobs # {}
    /\ restarted' = TRUE
    /\ jobs' = << >>
    /\ writer' = NoJob
    /\ holders' = {}
    /\ step' = [j \in Jobs |-> IF j \in DOMAIN jobs \/ writer = j THEN "lost" ELSE step[j]]
    /\ poll' = [p \in Polls |-> IF poll[p] \in {"new", "answered"} THEN poll[p] ELSE "lost"]
    /\ UNCHANGED <<batchRows, heard, floor>>

-----------------------------------------------------------------------------
BatchInit ==
    /\ jobs = << >>
    /\ writer = NoJob
    /\ holders = {}
    /\ step = [j \in Jobs |-> "new"]
    /\ batchRows = << >>
    /\ poll = [p \in Polls |-> "new"]
    /\ heard = [p \in Polls |-> NothingHeard]
    /\ floor = [p \in Polls |-> 0]
    /\ restarted = FALSE

Work(j) == Announce(j) \/ Put(j) \/ IssueItem(j) \/ IssueItemFails(j) \/ Record(j)

Serve(p) == Find(p) \/ Hold(p) \/ EncodeResults(p)

\* What is up to the server; whether an answer is read is up to the client.
BatchServed == (\E j \in Jobs : Work(j)) \/ (\E p \in Polls : Serve(p))

BatchNext == BatchServed \/ (\E p \in Polls : Sent(p)) \/ StopBatch

BatchSpec == BatchInit /\ [][BatchNext]_batchVars

-----------------------------------------------------------------------------
(* Properties *)

Answered(p) == poll[p] = "answered" /\ heard[p].state # "not found"

\* What a status request answers is one state of the job, and true of the
\* ledger: an item reported as issued has its row and one reported as failed has
\* none, the counters agree with the results, "done" means all of them, and no
\* client hears less than was known when it asked.  A job is "not found" only
\* after a restart (batch.go:77-91 and 98-106).
StatusIsTrue ==
    /\ \A p \in Polls : Answered(p) =>
          LET told == heard[p]
          IN  /\ told.done = Len(told.results)
              /\ told.failed = Cardinality({k \in DOMAIN told.results : told.results[k] = "failed"})
              /\ (told.state = "done") <=> (told.done = ItemsOf[JobOf[p]])
              /\ \A k \in DOMAIN told.results :
                    (told.results[k] = "appended") <=> Contains(batchRows, <<JobOf[p], k>>)
              /\ floor[p] <= told.done
    /\ \A p \in Polls : heard[p].state = "not found" => restarted

\* Nobody waits for the server: it calls every job done and answers every request.
AtRest ==
    /\ \A j \in DOMAIN jobs : jobs[j].state = "done"
    /\ \A p \in Polls : poll[p] \notin {"found", "encoding"}

\* Every job ends and every status request is answered, unless the process stops,
\* provided that no client leaves the answer it was sent unread: until it has read
\* it, neither a worker nor another request gets past the lock (batch.go:104-106).
JobsEnd == []<>(\A p \in Polls : poll[p] # "sending") => []<>AtRest

-----------------------------------------------------------------------------
(* The strengthening that makes StatusIsTrue inductive.                    *)

Reports ==
    [state : {"none", "running", "done", "not found"}, done : Nat, failed : Nat,
     results : Seq({"appended", "failed"})]

BatchTypes ==
    /\ DOMAIN jobs \subseteq Jobs /\ jobs \in [DOMAIN jobs -> Reports]
    /\ writer \in Jobs \union {NoJob}
    /\ holders \subseteq Polls
    /\ step \in [Jobs -> {"new", "issuing", "appended", "failed", "ended", "lost"}]
    /\ batchRows \in Seq(Jobs \X Nat)
    /\ poll \in [Polls -> {"new", "found", "encoding", "sending", "answered", "lost"}]
    /\ heard \in [Polls -> Reports]
    /\ floor \in [Polls -> Nat]
    /\ restarted \in BOOLEAN

Issued(j, k) == Contains(batchRows, <<j, k>>)

\* A report of job j that agrees with itself and with the ledger.
TrueOf(report, j) ==
    /\ report.done = Len(report.results)
    /\ report.failed = Cardinality({k \in DOMAIN report.results : report.results[k] = "failed"})
    /\ (report.state = "done") <=> (report.done = ItemsOf[j])
    /\ \A k \in DOMAIN report.results : (report.results[k] = "appended") <=> Issued(j, k)

\* No item of j past n has a row.
IssuedTo(j, n) ==
    \A i \in DOMAIN batchRows : batchRows[i][1] = j => batchRows[i][2] <= n

\* What the registry holds of a job is true, and the ledger is ahead of it by the
\* item that is still to be recorded.
JobFits(j) ==
    /\ j \in DOMAIN jobs <=> step[j] \in {"issuing", "appended", "failed", "ended"}
    /\ step[j] = "lost" => restarted
    /\ step[j] = "new" => \A i \in DOMAIN batchRows : batchRows[i][1] # j
    /\ j \in DOMAIN jobs =>
          /\ TrueOf(jobs[j], j) /\ jobs[j].state \in {"running", "done"}
          /\ jobs[j].done <= ItemsOf[j]
          /\ step[j] = "ended" <=> jobs[j].done = ItemsOf[j]
          /\ step[j] # "appended" => IssuedTo(j, jobs[j].done)
          /\ step[j] = "appended" =>
                IssuedTo(j, jobs[j].done + 1) /\ Issued(j, jobs[j].done + 1)

\* What a status request has in hand is what the registry holds for as long as it
\* reads it, and stays true afterwards.
PollFits(p) ==
    LET j == JobOf[p]
    IN  /\ poll[p] \in {"new", "found"} => heard[p] = NothingHeard
        /\ poll[p] \in {"found", "encoding"} => j \in DOMAIN jobs /\ floor[p] <= jobs[j].done
        /\ poll[p] = "encoding" =>
              p \in holders /\ heard[p] = [jobs[j] EXCEPT !.results = << >>]
        /\ poll[p] = "sending" \/ Answered(p) =>
              /\ TrueOf(heard[p], j) /\ floor[p] <= heard[p].done
              /\ step[j] # "new" /\ heard[p].done <= ItemsOf[j]
              /\ j \in DOMAIN jobs => heard[p].done <= jobs[j].done
        /\ heard[p].state = "not found" =>
              restarted /\ heard[p].done = 0 /\ poll[p] = "answered"

BatchInv ==
    /\ BatchTypes
    /\ \A j \in Jobs : JobFits(j)
    /\ \A p \in Polls : PollFits(p)
=============================================================================
