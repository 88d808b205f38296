--------------------------- MODULE RequestLedger ---------------------------
(***************************************************************************)
(* What a session promises to those who call it, whatever the transport,   *)
(* the time-outs and close() do: the outcome of a request says whether the *)
(* database has executed it or still may.                                  *)
(***************************************************************************)
CONSTANTS Requests

VARIABLES
  outcome,  \* what the caller of each request was told, "none" until then
  ran       \* the requests the database has executed

vars == <<outcome, ran>>

Outcomes == {"none", "ok", "error", "refused", "timeout", "lost"}

\* After these the request may still be executed.
Undecided == {"none", "timeout", "lost"}

TypeOK == outcome \in [Requests -> Outcomes] /\ ran \subseteq Requests

Init == outcome = [r \in Requests |-> "none"] /\ ran = {}

\* At most once.
Execute(r) ==
  /\ r \notin ran /\ outcome[r] \in Undecided
  /\ ran' = ran \cup {r}
  /\ UNCHANGED outcome

\* Callers are told once. An error leaves open whether the request had an
\* effect, a refusal does not.
Tell ==
  /\ outcome' \in [Requests -> Outcomes]
  /\ \A r \in Requests :
       outcome'[r] # outcome[r] =>
         /\ outcome[r] = "none"
         /\ outcome'[r] = "ok" => r \in ran
         /\ outcome'[r] = "refused" => r \notin ran
  /\ UNCHANGED ran

Next == Tell \/ \E r \in Requests : Execute(r)

Spec == Init /\ [][Next]_vars
=============================================================================
