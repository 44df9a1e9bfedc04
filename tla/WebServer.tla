----------------------------- MODULE WebServer -----------------------------
(***************************************************************************)
(* What the pages of the web client (verify-pwa/src) share: the server, of *)
(* which they see what it knows of a document and the log of what was sent *)
(* and verified between organisations, and the organisation the browser    *)
(* acts for, kept in localStorage.  How the server comes to its answers is *)
(* the subject of the modules LabelLifecycle, Issuance and Gate; here they *)
(* are its answers at the moment it gives them.                            *)
(*                                                                         *)
(* A page is a record of its React state.  A call is in flight from the    *)
(* handler that makes it to an answer, in any order, and a page that is    *)
(* left hears no answer.                                                   *)
(***************************************************************************)
EXTENDS Integers, Sequences, SequencesExt, FiniteSets

CONSTANTS
    Files,            \* the documents somebody has in front of the browser
    Orgs,             \* the organisations of the server
    Home,             \* the one it acts for by default, issuer of all documents
    MaxObservations,  \* the length at which the log takes no more
    InboxLimit,       \* how many entries of the log an inbox asks for
    MaxCalls,         \* how many calls of a kind are in flight at most
    MaxClicks         \* how often the user asks for something while a page is open

ASSUME WebAssumption ==
    /\ Home \in Orgs
    /\ {MaxObservations, InboxLimit, MaxCalls, MaxClicks} \subseteq Nat

VARIABLES
    docs,          \* what the ledger says of each file's content
    observations,  \* the log of SENT and VERIFIED
    org,           \* currentOrg()
    clicks         \* what the user did since the page was opened

NoFile == "no file"
NoOrg == "no org"

SomeFile == Files \union {NoFile}
SomeOrg == Orgs \union {NoOrg}

\* Neither is one of those there are.
ASSUME NoneAssumption == NoFile \notin Files /\ NoOrg \notin Orgs

States == {"none", "live", "revoked", "destroyed"}

\* POST /v1/verify, as far as the pages branch on it.
Ledgers(f) ==
    {"unavailable", IF docs[f] = "none" THEN "unregistered" ELSE "registered"}

\* Every handler of a control that asks for something starts here.
Click == clicks < MaxClicks /\ clicks' = clicks + 1

\* Other clients bring a document into one of the given states; a content that
\* was revoked or destroyed may be issued again.
Elsewhere(states) ==
    /\ \E f \in Files, s \in states :
          /\ s # docs[f]
          /\ docs' = [docs EXCEPT ![f] = s]
    /\ UNCHANGED <<observations, org, clicks>>

-----------------------------------------------------------------------------
(* A panel of a page: what state it is in and which file that is about. *)

Off == [st |-> "off", of |-> NoFile]
At(st, f) == [st |-> st, of |-> f]

\* React keeps the state of a panel as long as it is shown, and no longer.
Kept(panel, shown, fresh) ==
    CASE ~shown                       -> Off
      [] shown /\ panel.st = "off"    -> fresh
      [] shown /\ panel.st # "off"    -> panel
=============================================================================
