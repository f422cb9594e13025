--------------------------------- MODULE Bus --------------------------------
(***************************************************************************)
(* The Redis channels between the router and the applications: classes     *)
(* Driver, Manager and Subscription.                                       *)
(*                                                                         *)
(* Every subscription has a connection and a thread of its own.  Redis     *)
(* keeps the order of the messages on each connection, and keeps nothing   *)
(* for a client that has not subscribed yet.  A command that hiredis is    *)
(* told to append waits in the client until somebody flushes it, which     *)
(* redisGetReply() does when no reply has been read ahead.                 *)
(*                                                                         *)
(* A channel is a record of port, destination and source.  The prefix      *)
(* "network" is left out: nobody listens to the other, "undelivered".      *)
(***************************************************************************)
EXTENDS Naturals, Sequences, FiniteSets

CONSTANTS
  Apps,      \* applications that call Driver::listen()
  Listens    \* the port of each of them

SELF == 0
Router == "router"
Subscribers == Apps \cup {Router}

ASSUME BusAssumption == IsFiniteSet(Apps) /\ Router \notin Apps /\ Listens \in [Apps -> 0..255]

Channels == [port : 0..255, destination : 0..255, source : 0..255]

VARIABLES
  thread,      \* where the thread of each subscription is
  should_run,
  queued,      \* UNSUBSCRIBE waits to be flushed
  listening,   \* Redis has the pattern of the subscription
  inbox,       \* what Redis has sent on its connection
  handling,    \* the message its handler is called with
  stopping,    \* stop() has been called
  late         \* history: messages handled since then

bus == <<thread, should_run, queued, listening, inbox, handling, stopping, late>>

Idle == [kind |-> "none", channel |-> [port |-> 0, destination |-> 0, source |-> 0],
         message |-> <<>>]
Unsubscribed == [Idle EXCEPT !.kind = "unsubscribe"]
Replies == [kind : {"message", "unsubscribe", "none"}, channel : Channels, message : Seq(0..255)]

\* The patterns "*:*:self" and "<port>:self:*".
Matches(s, c) == IF s = Router THEN c.source = SELF
                 ELSE c.port = Listens[s] /\ c.destination = SELF

BusTypeOK ==
  /\ thread \in [Subscribers -> {"none", "subscribing", "checking", "reading", "handling",
                                 "ended"}]
  /\ should_run \in [Subscribers -> BOOLEAN] /\ queued \in [Subscribers -> BOOLEAN]
  /\ listening \in [Subscribers -> BOOLEAN] /\ stopping \in [Subscribers -> BOOLEAN]
  /\ inbox \in [Subscribers -> Seq(Replies)] /\ handling \in [Subscribers -> Replies]
  /\ late \in [Subscribers -> Nat]

BusInit ==
  /\ thread = [s \in Subscribers |-> "none"]
  /\ should_run = [s \in Subscribers |-> FALSE] /\ queued = [s \in Subscribers |-> FALSE]
  /\ listening = [s \in Subscribers |-> FALSE] /\ stopping = [s \in Subscribers |-> FALSE]
  /\ inbox = [s \in Subscribers |-> <<>>]
  /\ handling = [s \in Subscribers |-> Idle]
  /\ late = [s \in Subscribers |-> 0]

-----------------------------------------------------------------------------

\* Manager::publish(): to all who listen, or to nobody.
\* Mutant: the newest message comes first.
Delivered_Newest(box, c, m) ==
  [s \in Subscribers |-> IF listening[s] /\ Matches(s, c)
                         THEN <<[kind |-> "message", channel |-> c, message |-> m]>> \o box[s]
                         ELSE box[s]]
Delivered(box, c, m) ==
  [s \in Subscribers |-> IF listening[s] /\ Matches(s, c)
                         THEN Append(box[s], [kind |-> "message", channel |-> c, message |-> m]) ELSE box[s]]
Publish(c, m) == inbox' = Delivered(inbox, c, m)

\* Subscription::run(), which returns before the thread has subscribed.
Run(s) ==
  /\ thread[s] = "none" /\ thread' = [thread EXCEPT ![s] = "subscribing"]
  /\ should_run' = [should_run EXCEPT ![s] = TRUE]
  /\ UNCHANGED <<queued, listening, inbox, handling, stopping, late>>

\* redisCommand(redis, subscribe) also flushes what stop() has appended, and takes the
\* first reply for its own: if that is the one to UNSUBSCRIBE, the other one is left for
\* the loop, which ignores it.
Subscribe(s) ==
  /\ thread[s] = "subscribing" /\ thread' = [thread EXCEPT ![s] = "checking"]
  /\ listening' = [listening EXCEPT ![s] = TRUE]
  /\ queued' = [queued EXCEPT ![s] = FALSE]
  /\ UNCHANGED <<should_run, inbox, handling, stopping, late>>

\* The loop goes on and waits for a reply.  What it has not read ahead it may have to
\* read from the socket, after it has flushed.  UNSUBSCRIBE does not name a pattern:
\* Redis answers, and keeps sending.
\* Mutant: should_run is not looked at.
Wait_Blind(s) ==
  /\ thread[s] = "checking" /\ thread' = [thread EXCEPT ![s] = "reading"]
  /\ \/ inbox[s] # <<>> /\ UNCHANGED <<queued, inbox>>
     \/ /\ queued' = [queued EXCEPT ![s] = FALSE]
        /\ inbox' = [inbox EXCEPT ![s] = IF queued[s] THEN Append(@, Unsubscribed) ELSE @]
  /\ UNCHANGED <<should_run, listening, handling, stopping, late>>
Wait(s) ==
  /\ thread[s] = "checking" /\ should_run[s]
  /\ thread' = [thread EXCEPT ![s] = "reading"]
  /\ \/ inbox[s] # <<>> /\ UNCHANGED <<queued, inbox>>
     \/ /\ queued' = [queued EXCEPT ![s] = FALSE]
        /\ inbox' = [inbox EXCEPT ![s] = IF queued[s] THEN Append(@, Unsubscribed) ELSE @]
  /\ UNCHANGED <<should_run, listening, handling, stopping, late>>

\* redisGetReply() returns a message.
Fetch(s) ==
  /\ thread[s] = "reading" /\ inbox[s] # <<>> /\ Head(inbox[s]).kind = "message"
  /\ thread' = [thread EXCEPT ![s] = "handling"]
  /\ inbox' = [inbox EXCEPT ![s] = Tail(@)]
  /\ handling' = [handling EXCEPT ![s] = Head(inbox[s])]
  /\ late' = [late EXCEPT ![s] = IF stopping[s] THEN @ + 1 ELSE @]
  /\ UNCHANGED <<should_run, queued, listening, stopping>>

\* It returns the answer to UNSUBSCRIBE.
FetchEnd(s) ==
  /\ thread[s] = "reading" /\ inbox[s] # <<>> /\ Head(inbox[s]).kind = "unsubscribe"
  /\ thread' = [thread EXCEPT ![s] = "checking"]
  /\ inbox' = [inbox EXCEPT ![s] = Tail(@)]
  /\ should_run' = [should_run EXCEPT ![s] = FALSE]
  /\ UNCHANGED <<queued, listening, handling, stopping, late>>

\* The handler returns; what it did is up to the subscriber.
HandlerReturns(s) ==
  /\ thread[s] = "handling" /\ thread' = [thread EXCEPT ![s] = "checking"]
  /\ handling' = [handling EXCEPT ![s] = Idle]
  /\ UNCHANGED <<should_run, queued, listening, stopping, late>>

End(s) ==
  /\ thread[s] = "checking" /\ ~should_run[s]
  /\ thread' = [thread EXCEPT ![s] = "ended"]
  /\ UNCHANGED <<should_run, queued, listening, inbox, handling, stopping, late>>

\* stop(): the command is appended, not sent.  It returns when the thread has ended.
Stop(s) ==
  /\ thread[s] # "none" /\ ~stopping[s]
  /\ stopping' = [stopping EXCEPT ![s] = TRUE]
  /\ should_run' = [should_run EXCEPT ![s] = FALSE]
  /\ queued' = [queued EXCEPT ![s] = TRUE]
  /\ UNCHANGED <<thread, listening, inbox, handling, late>>

Loop(s) == Subscribe(s) \/ Wait(s) \/ Fetch(s) \/ FetchEnd(s) \/ End(s)

-----------------------------------------------------------------------------
(* Properties *)

\* After stop() has been called the handler runs at most once more, and not at all after
\* stop() has returned, when its owner may be gone (manager.cpp:16-23).
LastCall == \A s \in Subscribers :
  /\ late[s] <= 1
  /\ stopping[s] /\ thread[s] = "ended" => handling[s] = Idle

\* stop() returns, unless the thread had gone to read before the UNSUBSCRIBE was queued:
\* then nobody sends it, and stop() waits for as long as no message arrives
\* (subscription.cpp:63-69).
StopReturns == <>[](\A s \in Subscribers : stopping[s] =>
  \/ thread[s] = "ended"
  \/ thread[s] = "reading" /\ queued[s] /\ inbox[s] = <<>>)

=============================================================================
