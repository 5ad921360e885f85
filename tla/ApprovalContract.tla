--------------------------- MODULE ApprovalContract ----------------------------
(***************************************************************************)
(* What requestApproval() promises its caller and what POST                *)
(* /api/queue/:id/approve and /deny promise the user, without rows, files, *)
(* clocks or polling.  ApprovalQueue implements it.                        *)
(***************************************************************************)
CONSTANT Requests

VARIABLES
  outcome,   \* what became of a call: open until it returns or is lost
  answer,    \* the user's answer that was acknowledged
  altered    \* the stored request was tampered with

cvars == <<outcome, answer, altered>>

ContractTypeOK ==
  /\ outcome \in [Requests -> {"new", "open", "granted", "refused", "expired", "lost"}]
  /\ answer \in [Requests -> {"none", "approved", "denied"}]
  /\ altered \in [Requests -> BOOLEAN]

Init ==
  /\ outcome = [r \in Requests |-> "new"]
  /\ answer = [r \in Requests |-> "none"]
  /\ altered = [r \in Requests |-> FALSE]

Ends(r, o) ==
  /\ outcome[r] = "open"
  /\ outcome' = [outcome EXCEPT ![r] = o]
  /\ UNCHANGED <<answer, altered>>

Ask(r) ==
  /\ outcome[r] = "new"
  /\ outcome' = [outcome EXCEPT ![r] = "open"]
  /\ UNCHANGED <<answer, altered>>

\* Only an acknowledged approval of the untouched request lets it run.
Grant(r) == Ends(r, "granted") /\ answer[r] = "approved" /\ ~altered[r]

\* An approved request is refused only if its stored copy was tampered with.
Refuse(r) == Ends(r, "refused") /\ (answer[r] # "approved" \/ altered[r])

\* Nobody answered in time, or the answer came during the last sleep.
Expire(r) == Ends(r, "expired")

\* The user answers once, while the call is open, or after it was lost.
Answer(r, a) ==
  /\ outcome[r] \in {"open", "lost"}
  /\ answer[r] = "none"
  /\ answer' = [answer EXCEPT ![r] = a]
  /\ UNCHANGED <<outcome, altered>>

Tamper(r) ==
  /\ altered' = [altered EXCEPT ![r] = TRUE]
  /\ UNCHANGED <<outcome, answer>>

\* A crash takes every open call, and maybe one that was just being made.
Lose ==
  /\ \E R \in SUBSET Requests :
       /\ \A r \in Requests : outcome[r] = "open" => r \in R
       /\ \A r \in R : outcome[r] \in {"new", "open"}
       /\ outcome' = [r \in Requests |-> IF r \in R THEN "lost" ELSE outcome[r]]
  /\ UNCHANGED <<answer, altered>>

Next ==
  \/ \E r \in Requests :
       \/ Ask(r)
       \/ Grant(r)
       \/ Refuse(r)
       \/ Expire(r)
       \/ \E a \in {"approved", "denied"} : Answer(r, a)
       \/ Tamper(r)
  \/ Lose

Spec == Init /\ [][Next]_cvars
=============================================================================
