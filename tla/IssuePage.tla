----------------------------- MODULE IssuePage -----------------------------
(***************************************************************************)
(* The page that issues labels, verify-pwa/src/pages/Issue.jsx: the form,  *)
(* and below it the section that looks a document up in the ledger and     *)
(* changes its grade, revokes or destroys it.  How a label gets into the   *)
(* file is in the module Attachment, what the server does with the calls   *)
(* in Issuance and LabelLifecycle.                                         *)
(***************************************************************************)
EXTENDS WebServer

CONSTANT LabelledFiles  \* the files that carry a label already

VARIABLES
    form,  \* file chosen, what was issued, and the list of issuers
    care   \* LifecycleSection

EmptyForm ==
    [file |-> NoFile, busy |-> FALSE, call |-> NoFile, error |-> FALSE,
     done |-> NoFile, issuers |-> "asking"]

NoTarget == [of |-> NoFile, state |-> ""]
NoCall == [kind |-> "", of |-> NoFile]
NoMsg == [of |-> NoFile, kind |-> "", ok |-> FALSE]

EmptyCare == [target |-> NoTarget, action |-> "", busy |-> FALSE, call |-> NoCall, msg |-> NoMsg]

-----------------------------------------------------------------------------
(* The form *)

\* A new file takes away what was shown as issued; the call that is on its way
\* brings it back.
ChooseFile ==
    /\ \E f \in Files : form' = [form EXCEPT !.file = f, !.done = NoFile]
    /\ UNCHANGED <<docs, observations, org, clicks, care>>

Issue ==
    /\ Click
    /\ ~form.busy /\ form.file # NoFile
    /\ form' = [form EXCEPT !.busy = TRUE, !.call = form.file, !.error = FALSE, !.done = NoFile]
    /\ UNCHANGED <<docs, observations, org, care>>

\* The server issues a label, or answers with the one it has under the key made
\* of the content hash, whether its answer arrives or not; a file that carries a
\* label is not sent at all.
Issued ==
    /\ form.busy
    /\ \/ /\ form.call \notin LabelledFiles
          /\ \E s \in {"live", docs[form.call]} \ {"none"} :
                docs' = [docs EXCEPT ![form.call] = s]
          /\ form' \in {[form EXCEPT !.busy = FALSE, !.call = NoFile, !.done = form.call],
                        [form EXCEPT !.busy = FALSE, !.call = NoFile, !.error = TRUE]}
       \/ /\ form' = [form EXCEPT !.busy = FALSE, !.call = NoFile, !.error = TRUE]
          /\ UNCHANGED docs
    /\ UNCHANGED <<observations, org, clicks, care>>

IssuersListed ==
    /\ form.issuers = "asking"
    /\ \E st \in {"ready", "failed"} : form' = [form EXCEPT !.issuers = st]
    /\ UNCHANGED <<docs, observations, org, clicks, care>>

AskIssuers ==
    /\ Click
    /\ form.issuers = "failed"
    /\ form' = [form EXCEPT !.issuers = "asking"]
    /\ UNCHANGED <<docs, observations, org, care>>

-----------------------------------------------------------------------------
(* LifecycleSection *)

Lookup(f) ==
    /\ Click
    /\ care.target = NoTarget /\ ~care.busy
    /\ care' = [care EXCEPT !.msg = NoMsg, !.action = "", !.busy = TRUE,
                            !.call = [kind |-> "lookup", of |-> f]]
    /\ UNCHANGED <<docs, observations, org, form>>

LookupAnswered ==
    /\ care.call.kind = "lookup"
    /\ LET f == care.call.of
           quiet == [care EXCEPT !.busy = FALSE, !.call = NoCall]
       IN  \E l \in Ledgers(f) :
              care' = IF l = "registered"
                      THEN [quiet EXCEPT !.target = [of |-> f, state |-> docs[f]]]
                      ELSE [quiet EXCEPT !.msg = [of |-> f, kind |-> "lookup", ok |-> FALSE]]
    /\ UNCHANGED <<docs, observations, org, clicks, form>>

Choose ==
    /\ care.target # NoTarget /\ care.target.state # "destroyed"
    /\ \E a \in {"regrade", "revoke", "destroy"} \ {care.action} :
          /\ a = "revoke" => care.target.state # "revoked"
          /\ care' = [care EXCEPT !.action = a]
    /\ UNCHANGED <<docs, observations, org, clicks, form>>

\* Cancelling does not call back what is on its way.
Cancel ==
    /\ care.action # ""
    /\ care' = [care EXCEPT !.target = NoTarget, !.action = ""]
    /\ UNCHANGED <<docs, observations, org, clicks, form>>

Run ==
    /\ Click
    /\ care.action # "" /\ ~care.busy
    /\ care' = [care EXCEPT !.busy = TRUE, !.msg = NoMsg,
                            !.call = [kind |-> care.action, of |-> care.target.of]]
    /\ UNCHANGED <<docs, observations, org, form>>

\* What the server makes of it, or nothing (modules LabelLifecycle and Verdict).
Outcome(kind, state) ==
    CASE kind = "regrade" /\ state = "live"                  -> "live"
      [] kind = "revoke" /\ state \in {"live", "destroyed"}  -> "revoked"
      [] kind = "destroy" /\ state \in {"live", "revoked"}   -> "destroyed"
      [] OTHER                                               -> "refused"

RunAnswered ==
    /\ care.call.kind \in {"regrade", "revoke", "destroy"}
    /\ LET kind == care.call.kind  f == care.call.of
           after == Outcome(kind, docs[f])
           quiet == [care EXCEPT !.busy = FALSE, !.call = NoCall]
           failed == [quiet EXCEPT !.msg = [of |-> f, kind |-> kind, ok |-> FALSE]]
       IN  \/ /\ after # "refused"
              /\ docs' = [docs EXCEPT ![f] = after]
              /\ care' \in {[quiet EXCEPT !.target = NoTarget, !.action = "",
                                          !.msg = [of |-> f, kind |-> kind, ok |-> TRUE]],
                            failed}
           \/ /\ care' = failed
              /\ UNCHANGED docs
    /\ UNCHANGED <<observations, org, clicks, form>>

-----------------------------------------------------------------------------

IssueNext ==
    \/ ChooseFile \/ Issue \/ Issued \/ IssuersListed \/ AskIssuers
    \/ \E f \in Files : Lookup(f)
    \/ LookupAnswered \/ Choose \/ Cancel \/ Run \/ RunAnswered

\* What the section says stands beside the document it was said of, and is then
\* a failure; what the form shows as issued is in the ledger, whichever file was
\* chosen and whatever was cancelled in between (Issue.jsx:43-136 and 153-213).
MessageFits ==
    /\ (care.msg # NoMsg /\ care.target # NoTarget) =>
          care.msg.of = care.target.of /\ ~care.msg.ok
    /\ form.done # NoFile => docs[form.done] # "none"

-----------------------------------------------------------------------------
(* The inductive invariant *)

Updates == {"regrade", "revoke", "destroy"}

Forms == [file : SomeFile, busy : BOOLEAN, call : SomeFile, error : BOOLEAN,
          done : SomeFile, issuers : {"asking", "ready", "failed"}]

Targets == [of : SomeFile, state : States \union {""}]
CareCalls == [kind : Updates \union {"", "lookup"}, of : SomeFile]
Messages == [of : SomeFile, kind : Updates \union {"", "lookup"}, ok : BOOLEAN]
Cares == [target : Targets, action : Updates \union {""}, busy : BOOLEAN, call : CareCalls,
          msg : Messages]

IssueTypes == docs \in [Files -> States] /\ form \in Forms /\ care \in Cares

\* A call is about the file that stands beside the section, if one stands there, and
\* the section is silent until it is answered.
CallFits ==
    /\ form.busy => form.call \in Files
    /\ ~care.busy => care.call.kind = ""
    /\ care.action # "" => care.target # NoTarget
    /\ care.target # NoTarget => care.target.of \in Files
    /\ care.call.kind # "" => care.call.of \in Files /\ care.msg = NoMsg
    /\ care.call.kind = "lookup" => care.target = NoTarget
    /\ care.call.kind \in Updates /\ care.target # NoTarget => care.target.of = care.call.of

IssueInv == IssueTypes /\ CallFits /\ MessageFits
=============================================================================
