----------------------------- MODULE Exchange -----------------------------
(***************************************************************************)
(* Sending between organisations, verify-pwa/src/components/Federation.jsx *)
(* and the choice of the organisation in App.jsx: the panel that notes a   *)
(* document as SENT, and the inbox that lists what was sent to the current *)
(* organisation, verifies it and notes it as VERIFIED.  Both live on the   *)
(* verify page, which opens and closes them (operator Panels).             *)
(***************************************************************************)
EXTENDS WebServer

VARIABLES
    send,    \* SendPanel: a panel with me, to, the list it offers
    inbox,   \* InboxPanel, or Closed
    posts    \* observations on their way to the server; live if the panel waits

-----------------------------------------------------------------------------
(* The log *)

Sent(f, from, to) == [kind |-> "SENT", doc |-> f, from |-> from, to |-> to, re |-> 0, by |-> from]

\* Fields re and by are of the model: the entry that was verified, and by whom.
\* Mutant: sender and receiver are swapped.
VerifiedBackwards(s, me) ==
    [kind |-> "VERIFIED", doc |-> observations[s].doc, from |-> me,
     to |-> observations[s].from, re |-> s, by |-> me]

Verified(s, me) ==
    [kind |-> "VERIFIED", doc |-> observations[s].doc, from |-> observations[s].from,
     to |-> me, re |-> s, by |-> me]

\* The entries for organisation o from the s-th to the k-th.
NotesFor(o, s, k) == {v \in s..k : observations[v].to = o}

\* The server, asked when its log has k entries, answers with the newest few that
\* are for the organisation, of whatever kind.
Listed(o, k) == {s \in 1..k : observations[s].to = o /\ Cardinality(NotesFor(o, s, k)) <= InboxLimit}

\* A later VERIFIED of the same document from the same sender takes it off.
TakenOff(s, v) ==
    LET sent == observations[s]  seen == observations[v]
    IN  /\ seen.kind = "VERIFIED" /\ seen.to = sent.to
        /\ seen.doc = sent.doc /\ seen.from = sent.from
        /\ v >= s

Pending(o, k) ==
    {s \in Listed(o, k) : observations[s].kind = "SENT" /\ \A v \in Listed(o, k) : ~TakenOff(s, v)}

-----------------------------------------------------------------------------
(* SendPanel *)

NoSend == [st |-> "off", of |-> NoFile, me |-> NoOrg, to |-> NoOrg, list |-> {}, asked |-> FALSE]

\* The organisation is looked up in localStorage whenever the panel is drawn;
\* when it has changed, the list of the others is asked for again.
Drawn(p, f) ==
    LET me == IF org = NoOrg THEN Home ELSE org
    IN  [p EXCEPT !.of = f, !.me = me, !.asked = @ \/ me # p.me]

SendListed ==
    /\ send.asked
    /\ \/ LET others == Orgs \ {send.me}
          IN  \E to \in others :
                 send' = [Drawn(send, send.of) EXCEPT !.list = others, !.to = to, !.asked = FALSE]
       \/ send' = [send EXCEPT !.asked = FALSE]
    /\ UNCHANGED <<docs, observations, org, clicks, inbox, posts>>

ChooseReceiver ==
    /\ Click
    /\ send.st \in {"idle", "busy", "error"}
    /\ \E to \in send.list \ {send.to} : send' = [Drawn(send, send.of) EXCEPT !.to = to]
    /\ UNCHANGED <<docs, observations, org, inbox, posts>>

Send ==
    /\ Click
    /\ send.st \in {"idle", "error"} /\ send.list # {}
    /\ Len(posts) < MaxCalls
    /\ posts' = Append(posts, [note |-> Sent(send.of, send.me, send.to), live |-> TRUE])
    /\ send' = [Drawn(send, send.of) EXCEPT !.st = "busy"]
    /\ UNCHANGED <<docs, observations, org, inbox>>

-----------------------------------------------------------------------------
(* InboxPanel.  Field org says for whom the items were asked, asked how long  *)
(* the log was when they were.                                                *)

Closed == [me |-> NoOrg, open |-> FALSE]

\* load: nothing is asked for while no organisation is chosen.
Asking(p, o) ==
    IF o = NoOrg THEN [p EXCEPT !.me = o, !.items = {}]
    ELSE [p EXCEPT !.me = o, !.loads = Append(@, [org |-> o, asked |-> Len(observations)])]

Opened ==
    Asking([me |-> NoOrg, open |-> TRUE, items |-> {}, org |-> NoOrg, asked |-> 0, error |-> FALSE,
            done |-> {}, failed |-> {}, busy |-> 0, loads |-> << >>], org)

\* The server reads its log at some moment between question and answer.
Loaded ==
    /\ inbox.open
    /\ \E i \in DOMAIN inbox.loads :
          LET load == inbox.loads[i]
              rest == [inbox EXCEPT !.loads = RemoveAt(@, i)]
          IN  \/ \E k \in load.asked..Len(observations) :
                    inbox' = [rest EXCEPT !.items = Pending(load.org, k), !.org = load.org,
                                          !.asked = load.asked, !.error = FALSE]
              \/ inbox' = [rest EXCEPT !.error = TRUE]
    /\ UNCHANGED <<docs, observations, org, clicks, send, posts>>

\* verify, up to the note; a verdict that cannot be had ends it.
VerifyItem ==
    /\ Click
    /\ inbox.open /\ inbox.me # NoOrg
    /\ \E s \in inbox.items \ (inbox.done \union inbox.failed) :
          /\ inbox.busy # s
          /\ \/ /\ Len(posts) < MaxCalls
                /\ posts' = Append(posts, [note |-> Verified(s, inbox.me), live |-> TRUE])
                /\ inbox' = [inbox EXCEPT !.busy = s]
             \/ /\ inbox' = [inbox EXCEPT !.busy = 0, !.failed = @ \union {s}]
                /\ UNCHANGED posts
    /\ UNCHANGED <<docs, observations, org, send>>

-----------------------------------------------------------------------------
(* Answers to both *)

\* What the panel shows that waited for the note.
Heard(post, ok) ==
    LET sending == post.live /\ post.note.kind = "SENT"
        verifying == post.live /\ post.note.kind = "VERIFIED"
    IN  /\ send' = IF sending THEN [Drawn(send, send.of) EXCEPT !.st = IF ok THEN "done" ELSE "error"]
                   ELSE send
        /\ inbox' = CASE verifying /\ ok ->
                           [inbox EXCEPT !.busy = 0, !.done = @ \union {post.note.re},
                                         !.failed = @ \ {post.note.re}]
                      [] verifying /\ ~ok ->
                           [inbox EXCEPT !.busy = 0, !.failed = @ \union {post.note.re},
                                         !.done = @ \ {post.note.re}]
                      [] ~verifying -> inbox

\* The note is stored and answered, stored and the answer lost, or refused.
Posted ==
    /\ \E i \in DOMAIN posts :
          /\ posts' = RemoveAt(posts, i)
          /\ \/ /\ Len(observations) < MaxObservations
                /\ observations' = Append(observations, posts[i].note)
                /\ \E ok \in BOOLEAN : Heard(posts[i], ok)
             \/ /\ UNCHANGED observations
                /\ Heard(posts[i], FALSE)
    /\ UNCHANGED <<docs, org, clicks>>

\* Another browser sends a document.
SentElsewhere ==
    /\ Len(observations) < MaxObservations
    /\ \E f \in Files, o \in Orgs \ {Home} :
          observations' = Append(observations, Sent(f, Home, o))
    /\ UNCHANGED <<docs, org, clicks, send, inbox, posts>>

-----------------------------------------------------------------------------
(* App.jsx *)

\* setCurrentOrg: the inbox hears of it and loads, the send panel does not.
SetOrg(o) ==
    /\ org' = o
    /\ IF inbox.open
       THEN Len(inbox.loads) < MaxCalls /\ inbox' = Asking(inbox, o)
       ELSE UNCHANGED inbox
    /\ UNCHANGED <<docs, observations, send, posts>>

PickOrg == Click /\ \E o \in Orgs \ {org} : SetOrg(o)

\* The list of keys has arrived and nobody has chosen yet.
DefaultOrg == org = NoOrg /\ SetOrg(Home) /\ UNCHANGED clicks

\* The verify page draws itself: the panels open, close or stay.
Panels(sendFor, inboxShown) ==
    /\ send' = CASE sendFor = NoFile                      -> NoSend
                 [] sendFor # NoFile /\ send.st = "off"   -> Drawn([NoSend EXCEPT !.st = "idle"], sendFor)
                 [] sendFor # NoFile /\ send.st # "off"   -> Drawn(send, sendFor)
    /\ inbox' = CASE ~inboxShown                -> Closed
                  [] inboxShown /\ ~inbox.open  -> Opened
                  [] inboxShown /\ inbox.open   -> inbox
    /\ posts' = [i \in DOMAIN posts |->
                   [posts[i] EXCEPT !.live = @ /\ IF posts[i].note.kind = "SENT"
                                                 THEN sendFor # NoFile ELSE inboxShown]]

SendNext == SendListed \/ ChooseReceiver \/ Send \/ Posted

InboxNext == Loaded \/ VerifyItem \/ Posted \/ SentElsewhere \/ PickOrg \/ DefaultOrg

-----------------------------------------------------------------------------
(* Properties *)

\* Entry s of the log was sent to the organisation of the inbox, and nobody has
\* noted since that the document was verified.
Unseen(s) ==
    /\ observations[s].kind = "SENT" /\ observations[s].to = inbox.org
    /\ \A v \in s..Len(observations) :
          ~(observations[v].kind = "VERIFIED" /\ observations[v].doc = observations[s].doc)

\* What stands in the inbox was sent to the organisation for which it was asked,
\* and was not verified and noted there before it was asked for, by whatever
\* answers crossed (Federation.jsx:87); and what nobody has verified is there, as
\* long as the limit of the question (Federation.jsx:85) takes in what came since.
InboxIsTrue ==
    inbox.open =>
        /\ \A s \in inbox.items :
              /\ observations[s].to = inbox.org
              /\ \A v \in 1..inbox.asked :
                    observations[v].re = s => observations[v].by # observations[s].to
        /\ \A s \in 1..inbox.asked :
              Unseen(s) /\ Cardinality(NotesFor(inbox.org, s, Len(observations))) <= InboxLimit
              => s \in inbox.items

\* The inbox is everything that was sent to the organisation and that nobody has
\* verified since (Federation.jsx:87).  The oldest entries fall out of the answer.
InboxIsWhole == inbox.open => \A s \in 1..inbox.asked : Unseen(s) => s \in inbox.items

-----------------------------------------------------------------------------
(* The inductive invariant *)

Notes == [kind : {"SENT", "VERIFIED"}, doc : SomeFile, from : SomeOrg, to : SomeOrg, re : Nat, by : SomeOrg]
Posts == [note : Notes, live : BOOLEAN]
SendPanels ==
    [st : {"off", "idle", "busy", "done", "error"}, of : SomeFile, me : SomeOrg, to : SomeOrg,
     list : SUBSET Orgs, asked : BOOLEAN]
Loads == [org : Orgs, asked : Nat]
Inboxes ==
    [me : SomeOrg, open : {TRUE}, items : SUBSET Nat, org : SomeOrg, asked : Nat, error : BOOLEAN,
     done : SUBSET Nat, failed : SUBSET Nat, busy : Nat, loads : Seq(Loads)]

ExchangeTypes ==
    /\ observations \in Seq(Notes) /\ posts \in Seq(Posts)
    /\ org \in SomeOrg /\ send \in SendPanels
    /\ inbox = Closed \/ inbox \in Inboxes

\* Whoever verified something verified what the log says had been sent, for the
\* organisation it is noted for.
NoteFits(e, n) ==
    /\ e.kind = "SENT" => e.re = 0
    /\ e.kind = "VERIFIED" =>
          /\ e.re \in 1..n
          /\ e.doc = observations[e.re].doc /\ e.from = observations[e.re].from /\ e.to = e.by

LogFits ==
    /\ \A v \in DOMAIN observations : NoteFits(observations[v], v - 1)
    /\ \A i \in DOMAIN posts : NoteFits(posts[i].note, Len(observations))

\* Nothing is shown that is not in the log, or asked for in its future.
InboxFits ==
    inbox.open =>
        /\ inbox.items \subseteq 1..Len(observations)
        /\ inbox.asked <= Len(observations)
        /\ \A i \in DOMAIN inbox.loads : inbox.loads[i].asked <= Len(observations)

\* Only a panel that is there waits.
ListenersFit ==
    \A i \in DOMAIN posts : posts[i].live =>
        /\ posts[i].note.kind = "SENT" => send.st # "off"
        /\ posts[i].note.kind = "VERIFIED" => inbox.open

ExchangeInv == ExchangeTypes /\ LogFits /\ InboxFits /\ ListenersFit /\ InboxIsTrue
=============================================================================
