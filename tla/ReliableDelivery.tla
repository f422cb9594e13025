-------------------------- MODULE ReliableDelivery --------------------------
(***************************************************************************)
(* What the router promises an application for every message it accepts    *)
(* (router.h:29-31): the message is delivered and acknowledged, or the     *)
(* application is told that it was not.  The promise is one-sided, as it   *)
(* must be when acknowledgements get lost: a message reported undelivered  *)
(* may have been received, or be received later; one that is acknowledged  *)
(* has been received.                                                      *)
(***************************************************************************)
CONSTANT Messages

VARIABLES
  outcome,   \* what has become of each message
  received   \* messages the destination has got

Outcomes == {"new", "pending", "acked", "undelivered"}

Init == outcome = [m \in Messages |-> "new"] /\ received = {}

Become(m, before, after) == /\ outcome[m] = before
                            /\ outcome' = [outcome EXCEPT ![m] = after]

Accept(m) == Become(m, "new", "pending") /\ UNCHANGED received
Refuse(m) == Become(m, "new", "undelivered") /\ UNCHANGED received
GiveUp(m) == Become(m, "pending", "undelivered") /\ UNCHANGED received
Acknowledge(m) == /\ m \in received
                  /\ Become(m, "pending", "acked") /\ UNCHANGED received

\* A copy arrives, possibly one more and possibly late, but never out of the blue.
Receive(m) == /\ outcome[m] # "new"
              /\ received' = received \cup {m} /\ UNCHANGED outcome

Next == \E m \in Messages : \/ Accept(m) \/ Refuse(m) \/ GiveUp(m)
                            \/ Acknowledge(m) \/ Receive(m)

Spec == Init /\ [][Next]_<<outcome, received>>

=============================================================================
