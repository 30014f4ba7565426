---------------------------- MODULE TurnPromise ----------------------------
(***************************************************************************)
(* What the backend promises about each turn, whatever the interleaving:   *)
(* a turn is accepted once and closed for good; a completed or failed turn *)
(* carries an assistant message, and a closed turn never gets another one. *)
(* The one way out of an outcome is Overrule: a request that saw the turn  *)
(* open supersedes it although it has closed meanwhile.                    *)
(***************************************************************************)
CONSTANT Turns

VARIABLES
  outcome,  \* "absent", "open", or how the turn closed
  replied   \* TRUE once an assistant message is stored for the turn

Closed == {"completed", "failed", "cancelled"}
Outcomes == {"absent", "open"} \cup Closed

Init ==
  /\ outcome = [t \in Turns |-> "absent"]
  /\ replied = [t \in Turns |-> FALSE]

Accept(t) ==
  /\ outcome[t] = "absent" /\ outcome'[t] = "open"
  /\ replied'[t] = replied[t]

Reply(t) ==
  /\ outcome[t] = "open" /\ outcome'[t] = "open"
  /\ replied'[t]

Complete(t) ==
  /\ outcome[t] = "open" /\ outcome'[t] = "completed"
  /\ replied[t] /\ replied'[t]

Fail(t) ==
  /\ outcome[t] = "open" /\ outcome'[t] = "failed"
  /\ replied'[t]

Cancel(t) ==
  /\ outcome[t] = "open" /\ outcome'[t] = "cancelled"
  /\ replied'[t] = replied[t]

Overrule(t) ==
  /\ outcome[t] \in Closed /\ outcome'[t] = "cancelled"
  /\ replied'[t] = replied[t]

Rest(t) == outcome'[t] = outcome[t] /\ replied'[t] = replied[t]

\* Several turns may move in one step: a POST that supersedes commits both rows.
Next == \A t \in Turns : \/ Accept(t) \/ Reply(t) \/ Complete(t) \/ Fail(t)
                         \/ Cancel(t) \/ Overrule(t) \/ Rest(t)

Spec == Init /\ [][Next]_<<outcome, replied>>

=============================================================================
