------------------------------ MODULE MCGateway -----------------------------
(* Instances of module Gateway. *)
EXTENDS Gateway, TLC

Mac(n) == <<0, 19, 162, 0, 64, 0, 0, n>>
Known == 2 :> Mac(2)
Hops == (2 :> 2) @@ (3 :> 2)
MCPeers == {Mac(2), Mac(3)}

MCAnswers == [NI |-> <<49>>, ID |-> <<51, 50>>, SL |-> <<64, 0, 0, 1>>,
              SH |-> <<0, 19, 162, 0>>]

\* Requests from node 3 that came over node 2; the second one holds the byte 126.
Request(id, content) ==
  [type |-> "Data", destination |-> 1, source |-> 3, packet_id |-> id, port |-> 15,
   visited |-> <<2>>, content |-> content]
One == <<7, Mac(2), Request(1, <<65>>)>>
Two == <<8, Mac(2), Request(2, <<126, 5>>)>>

\* A heartbeat of node 3.
Beat == <<0, Mac(3), [type |-> "NodeBroadcast", address |-> 3]>>

\* An ACK with two entries: delays of more than a byte, and counts that mix.
Answer == <<0, Mac(2), [type |-> "Ack", destination |-> 1, source |-> 3, packet_id |-> 5,
  origin |-> 1, status |-> 0,
  parameters |-> <<[hop |-> 3, delay |-> 700, errors |-> 18, retries |-> 5],
                   [hop |-> 2, delay |-> 300, errors |-> 1, retries |-> 35]>>]>>

\* A packet whose Receive frame the simulator gives a wrong length.
Long == <<9, Mac(2), Request(3, [i \in 1..236 |-> 0])>>

\* A packet for node 2, which did not hear it, and one for all.
Transit == <<4, Mac(3), [Request(4, <<67>>) EXCEPT !.destination = 2, !.visited = <<>>]>>
ToAll == <<0, Mac(3), [Request(5, <<68>>) EXCEPT !.destination = 0]>>

\* A message with two commands in it, the frames of NI and FR.
Nested == <<9, Mac(2), Request(6, <<126, 0, 4, 8, 1, 78, 73, 95, 126, 0, 4, 8, 1, 70, 82, 94>>)>>

\* What an application tells the others on its node.
Own == <<[port |-> 15, destination |-> 0, source |-> 0], <<66>>>>

Scenario(frames, own, beats) ==
  [traffic |-> frames, published |-> own, beacons |-> beats]
MCScenarios == {Scenario(<<One, Two>>, {}, 0), Scenario(<<Beat, Answer>>, {Own}, 1),
                Scenario(<<Long>>, {}, 0), Scenario(<<Nested>>, {}, 0),
                Scenario(<<Transit, ToAll>>, {}, 0)}

\* The end of a frame that was being written.
MCRemains == {<<>>, <<0, 5, 17, 88>>}

MCListens == [a \in Apps |-> 15]
=============================================================================
