---------------------------- MODULE VerifyPage ----------------------------
(***************************************************************************)
(* The verify page, verify-pwa/src/pages/Verify.jsx: files are dropped on  *)
(* it, one by one or a document together with its sidecar, or a printed    *)
(* code is scanned; the verdict opens panels that restore a label, inherit *)
(* one, look for similar documents, demonstrate attacks (AttackDemo.jsx)   *)
(* or send the document on (module Exchange).  What a verdict says is the  *)
(* subject of the modules Verdict and OfflineVerdict; here it is what the  *)
(* page branches on.                                                       *)
(***************************************************************************)
EXTENDS Exchange

CONSTANTS
    Drops,     \* what the user may drop: pairs [doc, sig]
    Labelled,  \* the files that carry their label
    Texts      \* the files text can be taken from

Pairs == [doc : SomeFile, sig : SomeFile]

NoPair == [doc |-> NoFile, sig |-> NoFile]

ASSUME DropsAssumption == Drops \subseteq Pairs \ {NoPair}

VARIABLES
    desk,       \* the state of the page
    overtaken,  \* the call of the last drop failed, or ended before an earlier one
    covered     \* the verdict on the page was put over another

NoResult == [file |-> NoFile, ledger |-> "", labelled |-> FALSE, source |-> ""]

EmptyDesk ==
    [pair |-> NoPair, result |-> NoResult, busy |-> FALSE, error |-> FALSE, calls |-> << >>,
     scan |-> "off", scans |-> << >>, asks |-> {},
     restore |-> Off, rehydrate |-> Off, identify |-> Off, attack |-> Off]

\* runVerify: the document decides, a label alone stands for its document.
FileOf(p) == IF p.doc # NoFile THEN p.doc ELSE p.sig

Verdicts(p) ==
    {[file |-> FileOf(p), ledger |-> l, labelled |-> p.sig # NoFile \/ p.doc \in Labelled,
      source |-> "drop"] : l \in Ledgers(FileOf(p))}

-----------------------------------------------------------------------------
(* Drawing: the verdict decides which panels are on the page.  A panel that   *)
(* goes takes its state with it, and nobody hears the answer it waited for    *)
(* (a label it had asked to inherit may be issued all the same: Elsewhere).   *)

Registered(d) == d.result.ledger = "registered"
Unregistered(d) == d.result.ledger = "unregistered"

WithPanels(d) ==
    LET doc == d.pair.doc
        given == doc # NoFile /\ d.result # NoResult
        next == [d EXCEPT
            !.restore   = Kept(@, Registered(d) /\ ~d.result.labelled, At("idle", NoFile)),
            !.rehydrate = Kept(@, given /\ Unregistered(d), At("idle", doc)),
            !.identify  = Kept(@, given, At(IF Unregistered(d) THEN "busy" ELSE "idle", doc)),
            !.attack    = Kept(@, given /\ d.result.labelled /\ d.result.source = "drop",
                               At("idle", doc))]
        started == IF d.identify.st = "off" /\ next.identify.st = "busy"
                   THEN {[panel |-> "identify", of |-> doc]} ELSE {}
    IN  [next EXCEPT !.asks = {q \in @ : next[q.panel].st # "off"} \union started]

\* The page goes from desk to d.
Render(d) ==
    /\ desk' = WithPanels(d)
    /\ Panels(IF Registered(d) THEN d.result.file ELSE NoFile, d.result = NoResult /\ ~d.busy)

\* What happens inside a panel draws that one only.
Inside(d) == desk' = d /\ UNCHANGED <<send, inbox, posts>>

-----------------------------------------------------------------------------
(* handleFiles *)

\* Mutant: the old verdict stands until the new one comes.
DropKeepsResult(p) ==
    /\ Click
    /\ Len(desk.calls) < MaxCalls
    /\ overtaken' = FALSE /\ covered' = FALSE
    /\ Render([desk EXCEPT !.pair = p, !.busy = TRUE, !.error = FALSE,
                           !.calls = Append(@, p)])
    /\ UNCHANGED <<docs, observations, org>>

Drop(p) ==
    /\ Click
    /\ Len(desk.calls) < MaxCalls
    /\ overtaken' = FALSE /\ covered' = FALSE
    /\ Render([desk EXCEPT !.pair = p, !.result = NoResult, !.busy = TRUE, !.error = FALSE,
                           !.calls = Append(@, p)])
    /\ UNCHANGED <<docs, observations, org>>

\* The chooser was opened and closed without a file.
DropNothing ==
    /\ Click
    /\ desk.result # NoResult \/ desk.error
    /\ covered' = FALSE
    /\ Render([desk EXCEPT !.result = NoResult, !.error = FALSE])
    /\ UNCHANGED <<docs, observations, org, overtaken>>

Answered(i) ==
    /\ overtaken' = (overtaken \/ (i = Len(desk.calls) /\ i > 1))
    /\ covered' = (desk.result # NoResult)
    /\ \E r \in Verdicts(desk.calls[i]) :
          Render([desk EXCEPT !.result = r, !.busy = FALSE, !.calls = RemoveAt(@, i)])
    /\ UNCHANGED <<docs, observations, org, clicks>>

\* Mutant: the way out by an error does not come past finally.
FailsBusy(i) ==
    /\ overtaken' = (overtaken \/ i = Len(desk.calls))
    /\ Render([desk EXCEPT !.error = TRUE, !.calls = RemoveAt(@, i)])
    /\ UNCHANGED <<docs, observations, org, clicks, covered>>

AnswerFails(i) ==
    /\ overtaken' = (overtaken \/ i = Len(desk.calls))
    /\ Render([desk EXCEPT !.error = TRUE, !.busy = FALSE, !.calls = RemoveAt(@, i)])
    /\ UNCHANGED <<docs, observations, org, clicks, covered>>

-----------------------------------------------------------------------------
(* QRScanner *)

\* The scanner that is closed stops looking; what it has asked is answered.
ToggleScan ==
    /\ Click
    /\ Render([desk EXCEPT !.scan = IF @ = "off" THEN "seeking" ELSE "off",
                           !.scans = [i \in DOMAIN @ |-> [@[i] EXCEPT !.live = FALSE]]])
    /\ UNCHANGED <<docs, observations, org, overtaken, covered>>

\* No detector in this browser, or no camera.
NoCamera ==
    /\ desk.scan = "seeking"
    /\ Render([desk EXCEPT !.scan = "dead", !.error = TRUE])
    /\ UNCHANGED <<docs, observations, org, clicks, overtaken, covered>>

Scanned ==
    /\ desk.scan = "seeking" /\ Len(desk.scans) < MaxCalls
    /\ \E f \in Files :
          Inside([desk EXCEPT !.scan = "asking", !.scans = Append(@, [file |-> f, live |-> TRUE])])
    /\ UNCHANGED <<docs, observations, org, clicks, overtaken, covered>>

\* onResult closes whatever scanner is open and leaves the dropped pair.
ScanAnswered(i) ==
    /\ covered' = (desk.result # NoResult)
    /\ \E l \in Ledgers(desk.scans[i].file) :
          Render([desk EXCEPT !.scan = "off",
                              !.scans = [j \in DOMAIN RemoveAt(@, i) |->
                                            [RemoveAt(@, i)[j] EXCEPT !.live = FALSE]],
                              !.result = [file |-> desk.scans[i].file, ledger |-> l,
                                          labelled |-> FALSE, source |-> "qr"]])
    /\ UNCHANGED <<docs, observations, org, clicks, overtaken>>

ScanFails(i) ==
    /\ Render([desk EXCEPT !.scan = IF desk.scans[i].live THEN "dead" ELSE @,
                           !.scans = RemoveAt(@, i), !.error = TRUE])
    /\ UNCHANGED <<docs, observations, org, clicks, overtaken, covered>>

-----------------------------------------------------------------------------
(* The panels *)

Asks(panel, f) == [desk EXCEPT !.asks = @ \union {[panel |-> panel, of |-> f]}]

\* The panel of question q is now in state st, for what the question was about.
Hears(q, st) == [desk EXCEPT !.asks = @ \ {q}, ![q.panel] = At(st, q.of)]

Questions(panel) == {q \in desk.asks : q.panel = panel}

\* RestoreLabel: the button stays until there is a label to download.
AskRestore ==
    /\ Click
    /\ desk.restore.st \in {"idle", "error"}
    /\ Inside(Asks("restore", desk.result.file))
    /\ UNCHANGED <<docs, observations, org, overtaken, covered>>

\* A document that was destroyed gets no label; a failure leaves a label that is there.
RestoreAnswered ==
    /\ \E q \in Questions("restore") :
          \/ docs[q.of] \in {"live", "revoked"} /\ Inside(Hears(q, "done"))
          \/ Inside(IF desk.restore.st = "done" THEN [desk EXCEPT !.asks = @ \ {q}]
                    ELSE [desk EXCEPT !.asks = @ \ {q}, !.restore = At("error", NoFile)])
    /\ UNCHANGED <<docs, observations, org, clicks, overtaken, covered>>

AskRehydrate ==
    /\ Click
    /\ desk.rehydrate.st = "idle"
    /\ Inside([Asks("rehydrate", desk.pair.doc) EXCEPT !.rehydrate.st = "busy"])
    /\ UNCHANGED <<docs, observations, org, overtaken, covered>>

\* A label of the ledger, an inherited one, which is issued, or none.
RehydrateAnswered ==
    /\ \E q \in Questions("rehydrate") :
          \/ /\ q.of \in Texts /\ docs[q.of] \in {"none", "live", "revoked"}
             /\ docs' = [docs EXCEPT ![q.of] = IF @ = "none" THEN "live" ELSE @]
             /\ Inside(Hears(q, "done"))
          \/ /\ \E st \in {"review", "notfound", "error"} :
                   /\ st = "error" \/ q.of \in Texts
                   /\ Inside(Hears(q, st))
             /\ UNCHANGED docs
    /\ UNCHANGED <<observations, org, clicks, overtaken, covered>>

AskIdentify ==
    /\ Click
    /\ desk.identify.st = "idle"
    /\ Inside([Asks("identify", desk.pair.doc) EXCEPT !.identify.st = "busy"])
    /\ UNCHANGED <<docs, observations, org, overtaken, covered>>

IdentifyAnswered ==
    /\ \E q \in Questions("identify"), st \in {"notext", "done", "error"} :
          /\ (st = "notext") = (q.of \notin Texts)
          /\ Inside(Hears(q, st))
    /\ UNCHANGED <<docs, observations, org, clicks, overtaken, covered>>

\* AttackDemo: an error gives the button back.
AskAttack ==
    /\ Click
    /\ desk.attack.st \in {"idle", "error"}
    /\ Inside([Asks("attack", desk.pair.doc) EXCEPT !.attack.st = "busy"])
    /\ UNCHANGED <<docs, observations, org, overtaken, covered>>

AttackAnswered ==
    /\ \E q \in Questions("attack"), st \in {"done", "error"} : Inside(Hears(q, st))
    /\ UNCHANGED <<docs, observations, org, clicks, overtaken, covered>>

-----------------------------------------------------------------------------

DeskAnswers == \E i \in DOMAIN desk.calls : Answered(i) \/ AnswerFails(i)
ScanAnswers == \E i \in DOMAIN desk.scans : ScanAnswered(i) \/ ScanFails(i)

DeskNext ==
    \/ \E p \in Drops : Drop(p)
    \/ DropNothing \/ DeskAnswers
    \/ ToggleScan \/ NoCamera \/ Scanned \/ ScanAnswers
    \/ AskRestore \/ RestoreAnswered \/ AskRehydrate \/ RehydrateAnswered
    \/ AskIdentify \/ IdentifyAnswered \/ AskAttack \/ AttackAnswered

-----------------------------------------------------------------------------
(* Properties *)

\* What is on the page is about the file in front of the user.  The panels about
\* the dropped document are about it always.  When all calls have ended the
\* verdict is that of the last drop, unless its call was overtaken by an earlier
\* one or failed (Verify.jsx:24-40 shows whatever comes last).  The recovered label
\* and the note of sending are about the file of the verdict, unless that verdict
\* was put over another, under which the panels stay (Verify.jsx:66-83: no keys).
PanelsFit ==
    /\ \A p \in {"rehydrate", "identify", "attack"} :
          desk[p].st # "off" => desk[p].of = desk.pair.doc
    /\ ~overtaken /\ desk.calls = << >> /\ desk.result.source = "drop" =>
          desk.result.file = FileOf(desk.pair)
    /\ ~covered =>
          /\ desk.restore.st = "done" => desk.restore.of = desk.result.file
          /\ send.st = "done" => \E i \in DOMAIN observations :
                observations[i].kind = "SENT" /\ observations[i].doc = desk.result.file

\* A label is recovered for the file that is shown to have lost it, whose name its
\* download bears (Verify.jsx:261 and 295): not so under a covering verdict.
RecoveredLabelFits == desk.restore.st = "done" => desk.restore.of = desk.result.file

\* A label is inherited by a file of which the ledger has no record
\* (Verify.jsx:303): the panel is there on account of that file's verdict.  Not so
\* when the verdict of an earlier drop, or of a scanned code, opens it.
RehydrateIsForTheUnknown == desk.rehydrate.st # "off" => desk.result.file = desk.pair.doc

-----------------------------------------------------------------------------
(* The inductive invariant *)

PanelNames == {"restore", "rehydrate", "identify", "attack"}
PanelStates == {"off", "idle", "busy", "done", "error", "review", "notfound", "notext"}
PanelsOfPage == [st : PanelStates, of : SomeFile]
Results ==
    [file : SomeFile, ledger : {"", "unavailable", "unregistered", "registered"},
     labelled : BOOLEAN, source : {"", "drop", "qr"}]
Scannings == [file : Files, live : BOOLEAN]
Askings == [panel : PanelNames, of : SomeFile]
Desks ==
    [pair : Pairs, result : Results, busy : BOOLEAN, error : BOOLEAN, calls : Seq(Pairs),
     scan : {"off", "seeking", "asking", "dead"}, scans : Seq(Scannings),
     asks : SUBSET Askings, restore : PanelsOfPage,
     rehydrate : PanelsOfPage, identify : PanelsOfPage, attack : PanelsOfPage]

\* A panel about the dropped document asks about it; a panel that is not there
\* asks nothing.
QuestionsFit ==
    /\ desk.restore.st # "off" => Registered(desk)
    /\ \A q \in desk.asks : desk[q.panel].st # "off"
    /\ \A p \in {"rehydrate", "identify", "attack"} :
          /\ desk[p].st # "off" => desk[p].of = desk.pair.doc
          /\ \A q \in Questions(p) : q.of = desk.pair.doc

\* What is sent on is what the verdict is about.
SendingFits == send.st # "off" => Registered(desk) /\ send.of = desk.result.file

\* The last drop has the last word, or may still have it.
LastWord ==
    /\ desk.calls # << >> => desk.calls[Len(desk.calls)] = desk.pair
    /\ desk.calls = << >> /\ desk.result.source = "drop" => desk.result.file = FileOf(desk.pair)

\* What is asked for, restored and sent under one verdict is what it is about.
Uncovered ==
    /\ \A q \in Questions("restore") : q.of = desk.result.file
    /\ desk.restore.st = "done" => desk.restore.of = desk.result.file
    /\ \A i \in DOMAIN posts :
          posts[i].live /\ posts[i].note.kind = "SENT" => posts[i].note.doc = desk.result.file
    /\ send.st = "done" => \E i \in DOMAIN observations :
          observations[i].kind = "SENT" /\ observations[i].doc = desk.result.file

DeskInv ==
    /\ desk \in Desks /\ overtaken \in BOOLEAN /\ covered \in BOOLEAN
    /\ QuestionsFit /\ SendingFits
    /\ ~overtaken => LastWord
    /\ ~covered => Uncovered
=============================================================================
