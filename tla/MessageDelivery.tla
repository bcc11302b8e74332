---------------------------- MODULE MessageDelivery ----------------------------
(***************************************************************************)
(* What the messaging workspace promises of a campaign's deliveries: the   *)
(* provider accepts each message at most once, a delivery reported SENT    *)
(* was accepted, and what is reported SENT or FAILED stays so.  The        *)
(* promise is void once an answer was lost or a message was handed out     *)
(* while its worker still had it.                                          *)
(***************************************************************************)
EXTENDS Naturals

CONSTANT Deliveries

VARIABLES
  status,    \* what the campaign reports of each delivery
  accepted,  \* how often the provider accepted its message
  void       \* nothing more is promised

vars == <<status, accepted, void>>

Init ==
  /\ status = [d \in Deliveries |-> "QUEUED"]
  /\ accepted = [d \in Deliveries |-> 0]
  /\ void = FALSE

Take(d) ==
  /\ status[d] = "QUEUED"
  /\ status' = [status EXCEPT ![d] = "SENDING"]
  /\ UNCHANGED accepted

\* The provider accepts the message.
Accept(d) ==
  /\ status[d] = "SENDING" /\ accepted[d] = 0
  /\ accepted' = [accepted EXCEPT ![d] = 1]
  /\ UNCHANGED status

\* A message that was not accepted is tried again.
GiveBack(d) ==
  /\ status[d] = "SENDING" /\ accepted[d] = 0
  /\ status' = [status EXCEPT ![d] = "QUEUED"]
  /\ UNCHANGED accepted

Settle(d, s) ==
  /\ status[d] \in {"QUEUED", "SENDING"}
  /\ s = "SENT" => accepted[d] = 1
  /\ status' = [status EXCEPT ![d] = s]
  /\ UNCHANGED accepted

Promised == \E d \in Deliveries : \/ Take(d) \/ Accept(d) \/ GiveBack(d)
                                  \/ \E s \in {"SENT", "FAILED"} : Settle(d, s)

Next == \/ ~void /\ Promised /\ UNCHANGED void
        \/ void'

Spec == Init /\ [][Next]_vars
=============================================================================
