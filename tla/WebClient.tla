----------------------------- MODULE WebClient -----------------------------
(***************************************************************************)
(* The web client: one page is open and works against the server (module   *)
(* WebServer) while other clients do.  A behaviour stays on its page; the  *)
(* user may leave it and come back, which starts it anew, and what it had  *)
(* asked for may have been done meanwhile (Elsewhere).                     *)
(***************************************************************************)
EXTENDS VerifyPage, IssuePage, ReadingPages, Caches

CONSTANTS
    Pages,  \* the pages looked at
    Known   \* the files the ledger knows when the page is opened

VARIABLE page

verifyVars == <<desk, overtaken, covered, send, inbox, posts>>
issueVars == <<form, care>>
ledgerVars == <<sampled, book, likeness>>
vars == <<page, docs, observations, org, clicks, verifyVars, issueVars, ledgerVars, cache>>

\* The pages as they are mounted.
Mounted ==
    /\ desk = EmptyDesk /\ overtaken = FALSE /\ covered = FALSE
    /\ send = NoSend /\ posts = << >>
    /\ form = EmptyForm /\ care = EmptyCare
    /\ likeness = EmptyLikeness

Init ==
    /\ page \in Pages
    /\ docs = [f \in Files |-> IF f \in Known THEN "live" ELSE "none"]
    /\ observations = << >>
    /\ org \in IF page = "inbox" THEN {NoOrg, Home} ELSE {Home}
    /\ clicks = 0
    /\ Mounted
    /\ inbox = IF page \in {"verify", "inbox"} THEN Opened ELSE Closed
    /\ sampled = FALSE
    /\ book = OpenBook
    /\ cache \in {Start(what, worker) : what \in Resources, worker \in BOOLEAN}
    /\ page # "caches" => cache = Start("trust", FALSE)

\* The user goes to another page and comes back.
Remount ==
    /\ clicks = MaxClicks
    /\ clicks' = 0
    /\ CASE page \in {"verify", "inbox"} ->
              /\ desk' = EmptyDesk /\ overtaken' = FALSE /\ covered' = FALSE
              /\ send' = NoSend /\ inbox' = Opened /\ posts' = << >>
              /\ UNCHANGED <<issueVars, ledgerVars>>
         [] page = "issue" ->
              /\ form' = EmptyForm /\ care' = EmptyCare
              /\ UNCHANGED <<verifyVars, ledgerVars>>
         [] page = "ledger" ->
              /\ book' = OpenBook
              /\ UNCHANGED <<verifyVars, issueVars, sampled, likeness>>
         [] page = "similarity" ->
              /\ likeness' = EmptyLikeness
              /\ UNCHANGED <<verifyVars, issueVars, sampled, book>>
         [] OTHER -> FALSE
    /\ UNCHANGED <<page, docs, observations, org, cache>>

Next ==
    \/ /\ page = "verify"
       /\ DeskNext \/ (SendNext /\ UNCHANGED <<desk, overtaken, covered>>)
       /\ UNCHANGED <<page, issueVars, ledgerVars, cache>>
    \/ /\ page = "inbox" /\ InboxNext /\ UNCHANGED <<desk, overtaken, covered>>
       /\ UNCHANGED <<page, issueVars, ledgerVars, cache>>
    \/ /\ page = "issue" /\ IssueNext
       /\ UNCHANGED <<page, verifyVars, ledgerVars, cache>>
    \/ /\ page = "ledger" /\ ReadingNext
       /\ UNCHANGED <<page, verifyVars, issueVars, cache>>
    \/ /\ page = "similarity" /\ ComparingNext
       /\ UNCHANGED <<page, verifyVars, issueVars, cache>>
    \/ /\ page = "caches" /\ CachesNext
       /\ UNCHANGED <<page, verifyVars, issueVars, ledgerVars>>
    \/ /\ \/ page = "verify" /\ Elsewhere({"live"})
          \/ page = "issue" /\ Elsewhere(States \ {"none"})
       /\ UNCHANGED <<page, verifyVars, issueVars, ledgerVars, cache>>
    \/ Remount

\* The steps with which a page hears of what it waits for.
Answers ==
    \/ /\ page \in {"verify", "inbox"}
       /\ \/ DeskAnswers \/ RehydrateAnswered \/ IdentifyAnswered \/ AttackAnswered
          \/ Posted /\ UNCHANGED <<desk, overtaken, covered>>
       /\ UNCHANGED <<page, issueVars, ledgerVars, cache>>
    \/ /\ page = "issue" /\ (Issued \/ LookupAnswered \/ RunAnswered)
       /\ UNCHANGED <<page, verifyVars, ledgerVars, cache>>
    \/ /\ page = "ledger" /\ (RowsLoaded \/ SamplesLoaded \/ Reindexed)
       /\ UNCHANGED <<page, verifyVars, issueVars, cache>>
    \/ /\ page = "similarity" /\ Compared
       /\ UNCHANGED <<page, verifyVars, issueVars, cache>>

\* A call that was made ends: by an answer, an error or the network's timeout.
Fairness == WF_vars(Answers)

Spec == Init /\ [][Next]_vars /\ Fairness

-----------------------------------------------------------------------------

Waiting ==
    \/ desk.busy \/ "busy" \in {desk.rehydrate.st, desk.identify.st, desk.attack.st}
    \/ send.st = "busy" \/ (inbox.open /\ inbox.busy # 0)
    \/ form.busy \/ care.busy
    \/ page = "ledger" /\ (book.loading \/ book.samples.st = "busy" \/ book.todo # << >>)
    \/ likeness.busy

\* What a page answers fits what it was asked (modules IssuePage and ReadingPages).
AnswersFit == MessageFits /\ ViewsFit

\* No page waits for ever, unless it is left again and again: whatever was
\* clicked, and whether the answers are verdicts or errors, every "busy" is taken
\* back (the finally of each handler, e.g. Verify.jsx:37, Issue.jsx:134 and 180,
\* Ledger.jsx:54, Federation.jsx:111).
PagesSettle == []<>~Waiting \/ []<><<Remount>>_vars
=============================================================================
