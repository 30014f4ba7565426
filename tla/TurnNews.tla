------------------------------ MODULE TurnNews ------------------------------
(***************************************************************************)
(* What somebody who follows a turn is promised, however often the         *)
(* connection breaks: one outcome, and of a turn said to have completed or *)
(* failed the reply before the outcome.  The outcome told is one the turn  *)
(* really had; only a cancellation may be told that is still to come, and  *)
(* may be told in vain: a request whose new turn supersedes this one       *)
(* announces it first.                                                     *)
(***************************************************************************)
VARIABLES
  outcome,  \* "open", or how the turn closed
  claims,   \* what may be told: the outcomes so far, an announced cancellation
  replied,  \* TRUE once an assistant message is stored
  heard,    \* TRUE once the follower has got an assistant message
  told      \* the outcome the follower was told, or "none"

Closed == {"completed", "failed", "cancelled"}

Init == outcome = "open" /\ claims = {} /\ replied = FALSE /\ heard = FALSE /\ told = "none"

Reply ==
  /\ outcome = "open" /\ replied'
  /\ UNCHANGED <<outcome, claims, heard, told>>

Close ==
  /\ outcome = "open" /\ outcome' \in Closed
  /\ claims' = claims \cup {outcome'}
  /\ outcome' = "completed" => replied
  /\ replied' \in {replied, outcome' = "failed"} /\ (replied => replied')
  /\ UNCHANGED <<heard, told>>

\* A cancellation is announced; it may overrule what the turn came to meanwhile.
Announce ==
  /\ claims' = claims \cup {"cancelled"}
  /\ UNCHANGED <<outcome, replied, heard, told>>

Overrule ==
  /\ "cancelled" \in claims /\ outcome' = "cancelled"
  /\ UNCHANGED <<claims, replied, heard, told>>

Hear ==
  /\ told = "none" /\ replied /\ heard'
  /\ UNCHANGED <<outcome, claims, replied, told>>

\* Who fetches the whole turn hears and is told in one step.
Tell ==
  /\ told = "none" /\ told' \in claims
  /\ heard' \in {heard, replied} /\ (heard => heard')
  /\ told' # "cancelled" => heard'
  /\ UNCHANGED <<outcome, claims, replied>>

Next == Reply \/ Close \/ Announce \/ Overrule \/ Hear \/ Tell
Spec == Init /\ [][Next]_<<outcome, claims, replied, heard, told>>
=============================================================================
