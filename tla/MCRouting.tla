------------------------------ MODULE MCRouting -----------------------------
(* Instances of module Routing. *)
EXTENDS Routing

\* Two ways from 1 to 4 and an edge across.
Across == {<<1, 2>>, <<1, 3>>, <<2, 3>>, <<2, 4>>, <<3, 4>>}

P(good, errors, retries) == [good |-> good, errors |-> errors, retries |-> retries,
                             delay |-> 2]

\* An edge that was never used, a good one, and a bad one with more retries than
\* deliveries: they cost 0, 2 and 4 units.
AllMeasures == {P(0, 0, 0), P(2, 0, 3), P(0, 1, 1)}

\* A failure without a retry, a delivery, and more retries than a used counter can take.
AllReports == {[retries |-> 0, error |-> 1, delay |-> 4],
               [retries |-> 0, error |-> 0, delay |-> 0],
               [retries |-> 255, error |-> 0, delay |-> 0]}
=============================================================================
