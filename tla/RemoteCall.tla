----------------------------- MODULE RemoteCall ------------------------------
(***************************************************************************)
(* What the SDK's network layer promises its callers: calls are made one   *)
(* after the other, a call reaches the board or it does not, and one that  *)
(* is reported as a success has reached it.  A call may be reported as a   *)
(* failure although it reached the board, and may reach it afterwards.     *)
(* Nothing is promised any more once the board has answered too late.      *)
(***************************************************************************)
EXTENDS Naturals

VARIABLES
  last,     \* number of the latest call, 0 for the connection itself
  reached,  \* the calls that reached the board
  result,   \* of the latest call: "none", "ok", "failed"
  overdue   \* an answer has come too late

callVars == <<last, reached, result, overdue>>

CallInit == last = 0 /\ reached = {0} /\ result = "none" /\ ~overdue

NewCall ==
  /\ last' = last + 1
  /\ result' = "none"
  /\ UNCHANGED reached

Reach ==
  /\ \E n \in 1..last : n \notin reached /\ reached' = reached \cup {n}
  /\ UNCHANGED <<last, result>>

Return ==
  /\ result = "none"
  /\ \/ result' = "ok" /\ last \in reached
     \/ result' = "failed"
  /\ UNCHANGED <<last, reached>>

InTime == (NewCall \/ Reach \/ Return) /\ ~overdue'

CallSpec == CallInit /\ [][InTime \/ overdue']_callVars
==============================================================================
