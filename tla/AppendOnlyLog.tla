--------------------------- MODULE AppendOnlyLog ---------------------------
(***************************************************************************)
(* What the ledger promises its callers, with no lock, no statement and no *)
(* database in sight: a log that only grows, one entry at a time, and an   *)
(* answer to every caller that agrees with the log.                        *)
(***************************************************************************)
EXTENDS Sequences

CONSTANT Callers   \* one Append call each

VARIABLES
    log,           \* the calls whose entry is in the log, in order
    answer         \* answer[c]: what call c has been told so far

vars == <<log, answer>>

Init ==
    /\ log = << >>
    /\ answer = [c \in Callers |-> "none"]

\* The entry of c joins the log and c is told so, at one instant.
Commit(c) ==
    /\ answer[c] = "none"
    /\ log' = Append(log, c)
    /\ answer' = [answer EXCEPT ![c] = "ok"]

\* c is told that its entry was not recorded, and it never will be.
Refuse(c) ==
    /\ answer[c] = "none"
    /\ answer' = [answer EXCEPT ![c] = "failed"]
    /\ UNCHANGED log

Next == \E c \in Callers : Commit(c) \/ Refuse(c)

Spec == Init /\ [][Next]_vars
=============================================================================
