--------------------------- MODULE GatewayProofs ----------------------------
(***************************************************************************)
(* Theorems about the gateway, for every set of applications, every        *)
(* traffic and every radio: the last call of a handler; the order of the   *)
(* answers of an application (Pipeline); and what the radio hears and      *)
(* every variable holds while nothing is out of step (SoundInv).           *)
(***************************************************************************)
EXTENDS LineProofs, WellFoundedInduction

-----------------------------------------------------------------------------
(* Subscriptions. *)

\* Where the thread of s is when its handler has been called after stop(): it does not
\* get back to reading, since it tests should_run first.
Leaving == {"handling", "checking", "ended"}

\* What binds stop(), the loop and the handler of one subscription.
CallsOf(s) ==
  /\ stopping[s] => thread[s] # "none" /\ ~should_run[s]
  /\ ~stopping[s] => late[s] = 0
  /\ late[s] \in {0, 1}
  /\ late[s] = 1 => thread[s] \in Leaving
  /\ thread[s] # "handling" => handling[s] = Idle

\* The variables of the threads are functions of the subscriptions.
Threads ==
  /\ DOMAIN thread = Subscribers /\ DOMAIN should_run = Subscribers
  /\ DOMAIN stopping = Subscribers /\ DOMAIN handling = Subscribers
  /\ DOMAIN late = Subscribers

CallInv == Threads /\ \A s \in Subscribers : CallsOf(s)

\* What the threads of the subscriptions are made of, without their connections.
calls == <<thread, should_run, stopping, handling, late>>

-----------------------------------------------------------------------------
(* One lemma per action of Bus. *)

LEMMA CallInit == ASSUME Init PROVE CallInv
BY DEF Init, BusInit, CallInv, Threads, CallsOf

LEMMA CallStutter == ASSUME CallInv, UNCHANGED calls PROVE CallInv'
BY DEF CallInv, Threads, CallsOf, calls, Leaving

LEMMA CallRun == ASSUME CallInv, NEW s \in Subscribers, Run(s) PROVE CallInv'
BY DEF CallInv, Threads, CallsOf, Run, Leaving

LEMMA CallSubscribe == ASSUME CallInv, NEW s \in Subscribers, Subscribe(s) PROVE CallInv'
BY DEF CallInv, Threads, CallsOf, Subscribe, Leaving

\* The thread goes to read only if nobody has called stop().
LEMMA CallWait == ASSUME CallInv, NEW s \in Subscribers, Wait(s) PROVE CallInv'
<1>1. ~stopping[s] /\ late[s] = 0
  BY DEF CallInv, CallsOf, Wait
<1>2. /\ thread' = [thread EXCEPT ![s] = "reading"] /\ thread[s] = "checking"
      /\ UNCHANGED <<should_run, stopping, handling, late>>
  BY DEF Wait
<1> QED BY <1>1, <1>2 DEF CallInv, Threads, CallsOf, Leaving

\* A thread that reads has not handled anything since stop() was called.
LEMMA CallFetch == ASSUME CallInv, NEW s \in Subscribers, Fetch(s) PROVE CallInv'
<1>1. /\ thread[s] = "reading" /\ thread' = [thread EXCEPT ![s] = "handling"]
      /\ handling' = [handling EXCEPT ![s] = Head(inbox[s])]
      /\ late' = [late EXCEPT ![s] = IF stopping[s] THEN late[s] + 1 ELSE late[s]]
      /\ UNCHANGED <<should_run, stopping>>
  BY DEF Fetch
<1>2. late[s] = 0
  BY <1>1 DEF CallInv, CallsOf, Leaving
<1>3. Threads'
  BY <1>1 DEF CallInv, Threads
<1>4. CallsOf(s)'
  BY <1>1, <1>2 DEF CallInv, Threads, CallsOf, Leaving
<1>5. ASSUME NEW t \in Subscribers, t # s PROVE CallsOf(t)'
  BY <1>1, <1>5 DEF CallInv, Threads, CallsOf, Leaving
<1> QED BY <1>3, <1>4, <1>5 DEF CallInv

LEMMA CallFetchEnd == ASSUME CallInv, NEW s \in Subscribers, FetchEnd(s) PROVE CallInv'
BY DEF CallInv, Threads, CallsOf, FetchEnd, Leaving

LEMMA CallReturns ==
  ASSUME CallInv, NEW s \in Subscribers, HandlerReturns(s) PROVE CallInv'
BY DEF CallInv, Threads, CallsOf, HandlerReturns, Leaving

LEMMA CallEnd == ASSUME CallInv, NEW s \in Subscribers, End(s) PROVE CallInv'
BY DEF CallInv, Threads, CallsOf, End, Leaving

LEMMA CallStop == ASSUME CallInv, NEW s \in Subscribers, Stop(s) PROVE CallInv'
BY DEF CallInv, Threads, CallsOf, Stop, Leaving

-----------------------------------------------------------------------------

LEMMA CallNext == ASSUME CallInv, [Next]_vars PROVE CallInv'
<1>1. CASE \E s \in Subscribers : Loop(s)
  BY <1>1, CallSubscribe, CallWait, CallFetch, CallFetchEnd, CallEnd DEF Loop
<1>2. CASE StartRouter
  BY <1>2, CallRun DEF StartRouter, Subscribers
<1>3. CASE Send
  BY <1>3, CallReturns DEF Send, Subscribers
<1>4. ASSUME NEW a \in Apps, StartApp(a) \/ Echo(a) \/ StopApp(a) PROVE CallInv'
  <2>1. a \in Subscribers
    BY DEF Subscribers
  <2> QED BY <1>4, <2>1, CallRun, CallReturns, CallStop DEF StartApp, Echo, StopApp
<1>5. CASE Line \/ Process \/ Beacon
  <2>1. UNCHANGED bus
    BY <1>5 DEF Line, Process, Beacon
  <2> QED BY <2>1, CallStutter DEF bus, calls
<1>6. CASE Deliver \/ PublishOwn
  <2>1. UNCHANGED calls
    BY <1>6 DEF Deliver, PublishOwn, calls
  <2> QED BY <2>1, CallStutter
<1>7. CASE UNCHANGED vars
  BY <1>7, CallStutter DEF vars, bus, calls
<1> QED BY <1>1, <1>2, <1>3, <1>4, <1>5, <1>6, <1>7 DEF Next, Redis

\* After stop() has been called on a subscription its handler runs at most once more, and
\* not at all after stop() has returned, when the owner of the handler may be gone:
\* for any number of applications and messages, whenever stop() is called
\* (subscription.cpp:49-69, manager.cpp:16-23).
THEOREM Last_Call == Spec => []LastCall
<1>1. CallInv => LastCall
  BY DEF CallInv, CallsOf, LastCall
<1> QED BY CallInit, CallNext, <1>1, PTL DEF Spec

-----------------------------------------------------------------------------
(* Requests and answers. *)

\* The messages m[i], i in K, are found in q, in their order, after the lo-th and up to
\* the hi-th.
Rises(place, q, m, K, lo, hi) ==
  /\ place \in [K -> (lo + 1)..hi]
  /\ \A i \in K : q[place[i]] = m[i] /\ \A j \in K : j < i => place[j] < place[i]
Rising(q, m, K, lo, hi) == \E place : Rises(place, q, m, K, lo, hi)

\* g and f begin alike.
Agree(g, f, n) == \A i \in 1..n : g[i] = f[i]

\* Some of them, with more room.
LEMMA RisingKept ==
  ASSUME NEW q, NEW m, NEW K, NEW lo \in Nat, NEW hi \in Nat, Rising(q, m, K, lo, hi),
         NEW q2, NEW m2, NEW K2, NEW lo2 \in Nat, NEW hi2 \in Nat, K2 \subseteq K,
         lo2 <= lo, hi <= hi2, Agree(q2, q, hi), \A i \in K2 : m2[i] = m[i]
  PROVE  Rising(q2, m2, K2, lo2, hi2)
<1> PICK place : Rises(place, q, m, K, lo, hi)
  BY Zenon DEF Rising
<1> DEFINE p == [i \in K2 |-> place[i]]
<1>1. /\ \A i \in K : place[i] \in (lo + 1)..hi
      /\ \A i \in K : q[place[i]] = m[i] /\ \A j \in K : j < i => place[j] < place[i]
  BY Zenon DEF Rises
<1>2. \A k \in (lo + 1)..hi : k \in 1..hi /\ k \in (lo2 + 1)..hi2
  OBVIOUS
<1>3. p \in [K2 -> (lo2 + 1)..hi2]
  BY <1>1, <1>2, Zenon
<1>4. \A i \in K2 : q2[p[i]] = m2[i]
  BY <1>1, <1>2, Zenon DEF Agree
<1>5. \A i \in K2 : \A j \in K2 : j < i => p[j] < p[i]
  BY <1>1, Zenon
<1> HIDE DEF p
<1>6. Rises(p, q2, m2, K2, lo2, hi2)
  BY <1>3, <1>4, <1>5, Zenon DEF Rises
<1> QED BY <1>6, Zenon DEF Rising

\* One more, which is found further on.
LEMMA RisingMore ==
  ASSUME NEW q, NEW m, NEW K, NEW lo \in Nat, NEW hi \in Nat, Rising(q, m, K, lo, hi),
         NEW n \in Nat, K \subseteq 1..n, lo <= hi,
         NEW q2, NEW m2, NEW k \in Nat, hi < k, q2[k] = m2[n + 1],
         Agree(q2, q, hi), Agree(m2, m, n)
  PROVE  Rising(q2, m2, K \cup {n + 1}, lo, k)
<1> PICK place : Rises(place, q, m, K, lo, hi)
  BY Zenon DEF Rising
<1> DEFINE L == K \cup {n + 1}
           p == [i \in L |-> IF i = n + 1 THEN k ELSE place[i]]
<1>1. /\ \A i \in K : place[i] \in (lo + 1)..hi
      /\ \A i \in K : q[place[i]] = m[i] /\ \A j \in K : j < i => place[j] < place[i]
  BY Zenon DEF Rises
<1>2. \A j \in (lo + 1)..hi : j \in 1..hi /\ j \in (lo + 1)..k /\ j < k
  OBVIOUS
<1>3. k \in (lo + 1)..k
  OBVIOUS
<1>4. /\ \A i \in K : i \in L /\ i \in 1..n /\ i # n + 1 /\ i < n + 1
      /\ n + 1 \in L /\ \A i \in L : i \in K \/ i = n + 1
      /\ ~(n + 1 < n + 1) /\ \A i \in K : ~(n + 1 < i)
  OBVIOUS
<1> HIDE DEF L
<1>5. p[n + 1] = k /\ \A i \in K : p[i] = place[i]
  BY <1>4, Zenon
<1>6. p \in [L -> (lo + 1)..k]
  <2>1. ASSUME NEW i \in L PROVE (IF i = n + 1 THEN k ELSE place[i]) \in (lo + 1)..k
    BY <1>1, <1>2, <1>3, <1>4, Zenon
  <2> QED BY <2>1, Zenon
<1> HIDE DEF p
<1>7. ASSUME NEW i \in L PROVE q2[p[i]] = m2[i]
  <2>1. CASE i \in K
    BY <1>1, <1>2, <1>4, <1>5, <2>1, Zenon DEF Agree
  <2>2. CASE i = n + 1
    BY <1>5, <2>2, Zenon
  <2> QED BY <1>4, <2>1, <2>2
<1>8. ASSUME NEW i \in L, NEW j \in L, j < i PROVE p[j] < p[i]
  <2>1. j \in K
    BY <1>4, <1>8, Zenon
  <2>2. CASE i \in K
    BY <1>1, <1>5, <1>8, <2>1, <2>2, Zenon
  <2>3. CASE i = n + 1
    BY <1>1, <1>2, <1>5, <2>1, <2>3, Zenon
  <2> QED BY <1>4, <2>2, <2>3
<1>9. Rises(p, q2, m2, L, lo, k)
  BY <1>6, <1>7, <1>8, Zenon DEF Rises
<1> QED BY <1>9, Zenon DEF Rising, L

\* The first is taken away.
LEMMA RisingTail ==
  ASSUME NEW q, NEW m, NEW K, NEW lo \in Nat, NEW hi \in Nat, Rising(q, m, K, lo, hi),
         lo <= hi, NEW m2, NEW K2, \A i \in K2 : i \in Nat /\ i > 0 /\ i + 1 \in K,
         \A i \in K2 : m2[i] = m[i + 1]
  PROVE  \E mid \in lo..hi : /\ 1 \in K => lo < mid /\ q[mid] = m[1]
                             /\ Rising(q, m2, K2, mid, hi)
<1> PICK place : Rises(place, q, m, K, lo, hi)
  BY Zenon DEF Rising
<1> DEFINE mid == IF 1 \in K THEN place[1] ELSE lo
           p == [i \in K2 |-> place[i + 1]]
<1>1. /\ \A i \in K : place[i] \in (lo + 1)..hi
      /\ \A i \in K : q[place[i]] = m[i] /\ \A j \in K : j < i => place[j] < place[i]
  BY Zenon DEF Rises
<1>2. \A k \in (lo + 1)..hi : k \in lo..hi /\ lo < k
  OBVIOUS
<1>3. lo \in lo..hi
  OBVIOUS
<1>4. mid \in lo..hi /\ (1 \in K => lo < mid /\ q[mid] = m[1])
  BY <1>1, <1>2, <1>3, Zenon
<1>5. ASSUME NEW i \in K2 PROVE place[i + 1] \in (mid + 1)..hi
  <2>1. i + 1 \in K /\ 1 < i + 1
    OBVIOUS
  <2>2. place[i + 1] \in (lo + 1)..hi
    BY <1>1, <2>1, Zenon
  <2>3. CASE 1 \in K
    <3>1. place[1] < place[i + 1] /\ place[1] \in (lo + 1)..hi /\ mid = place[1]
      BY <1>1, <2>1, <2>3, Zenon
    <3> HIDE DEF mid
    <3> QED BY <2>2, <3>1
  <2>4. CASE 1 \notin K
    <3>1. mid = lo
      BY <2>4, Zenon
    <3> HIDE DEF mid
    <3> QED BY <2>2, <3>1
  <2> QED BY <2>3, <2>4
<1> HIDE DEF mid
<1>6. p \in [K2 -> (mid + 1)..hi]
  BY <1>5, Zenon
<1>7. \A i, j \in K2 : j < i => j + 1 < i + 1
  OBVIOUS
<1>8. ASSUME NEW i \in K2
      PROVE  q[p[i]] = m2[i] /\ \A j \in K2 : j < i => p[j] < p[i]
  BY <1>1, <1>7, Zenon
<1> HIDE DEF p
<1>9. Rises(p, q, m2, K2, mid, hi)
  BY <1>6, <1>8, Zenon DEF Rises
<1> QED BY <1>4, <1>9, Zenon DEF Rising

\* The messages that count: those for the subscription thread that go out, those for echo
\* that it answers, in both cases without what another application has published.
Counting(who, h) ==
  /\ h.message \notin OwnMessages
  /\ IF who = Router THEN Outgoing(h) ELSE Echoes(h)
Due(who, s) == {i \in 1..Len(s) : Counting(who, s[i])}
Messages(s) == [i \in 1..Len(s) |-> s[i].message]

\* Those on the connection of `who' are requests after the lo-th, up to the hi-th.
Queue(q, who, s, lo, hi) == Rising(q, Messages(s), Due(who, s), lo, hi)

LEMMA QueueKept ==
  ASSUME NEW q, NEW who, NEW s, NEW lo \in Nat, NEW hi \in Nat, Queue(q, who, s, lo, hi),
         NEW q2, NEW lo2 \in Nat, NEW hi2 \in Nat, lo2 <= lo, hi <= hi2,
         Agree(q2, q, hi)
  PROVE  Queue(q2, who, s, lo2, hi2)
<1> DEFINE K == Due(who, s)
           m == Messages(s)
<1>1. Rising(q, m, K, lo, hi) /\ K \subseteq K /\ \A i \in K : m[i] = m[i]
  BY Zenon DEF Queue
<1> HIDE DEF K, m
<1>2. Rising(q2, m, K, lo2, hi2)
  BY <1>1, RisingKept, Zenon
<1> QED BY <1>2, Zenon DEF Queue, K, m

\* One more is published.
LEMMA QueueMore ==
  ASSUME NEW q, NEW who, NEW s, NEW lo \in Nat, NEW hi \in Nat, Queue(q, who, s, lo, hi),
         lo <= hi, NEW t, NEW r, Grown(t, s, r), NEW q2, NEW k \in Nat, hi <= k,
         Agree(q2, q, hi), Counting(who, r) => hi < k /\ q2[k] = r.message
  PROVE  Queue(q2, who, t, lo, k)
<1> DEFINE n == Len(s)
           K == Due(who, s)
           L == Due(who, t)
           m == Messages(s)
           m2 == Messages(t)
<1>1. Rising(q, m, K, lo, hi)
  BY Zenon DEF Queue
<1>2. n \in Nat /\ Len(t) = n + 1 /\ t[n + 1] = r /\ \A i \in 1..n : t[i] = s[i]
  BY Zenon DEF Grown
<1>3. K = {i \in 1..n : Counting(who, s[i])} /\ L = {i \in 1..(n + 1) : Counting(who, t[i])}
  BY <1>2, Zenon DEF Due
<1>4. K \subseteq 1..n
  BY <1>3, Zenon
<1> HIDE DEF n
<1>5. \A i \in 1..n : i \in 1..(n + 1)
  BY <1>2
<1>6. n + 1 \in 1..(n + 1) /\ \A i \in 1..(n + 1) : i \in 1..n \/ i = n + 1
  BY <1>2
<1>7. m2[n + 1] = r.message /\ Agree(m2, m, n)
  BY <1>2, <1>5, <1>6, Zenon DEF Messages, Agree, n
<1>8. CASE Counting(who, r)
  <2>1. L = K \cup {n + 1}
    <3>1. \A i \in L : i \in K \cup {n + 1}
      <4> SUFFICES ASSUME NEW i \in L PROVE i \in K \/ i = n + 1
        OBVIOUS
      <4> QED BY <1>2, <1>3, <1>6, Zenon
    <3>2. \A i \in K : i \in L
      BY <1>2, <1>3, <1>5, Zenon
    <3>3. n + 1 \in L
      BY <1>2, <1>3, <1>6, <1>8, Zenon
    <3> HIDE DEF K, L
    <3> QED BY <3>1, <3>2, <3>3
  <2>2. hi < k /\ q2[k] = m2[n + 1]
    BY <1>7, <1>8, Zenon
  <2> HIDE DEF K, L, m, m2
  <2>3. Rising(q2, m2, K \cup {n + 1}, lo, k)
    BY <1>1, <1>2, <1>4, <1>7, <2>2, RisingMore, Zenon
  <2> QED BY <2>1, <2>3, Zenon DEF Queue, L, m2
<1>9. CASE ~Counting(who, r)
  <2>1. L \subseteq K
    <3> SUFFICES ASSUME NEW i \in L PROVE i \in K
      OBVIOUS
    <3> QED BY <1>2, <1>3, <1>6, <1>9, Zenon
  <2>2. \A i \in L : m2[i] = m[i]
    BY <1>4, <1>7, <2>1, Zenon DEF Agree
  <2> HIDE DEF K, L, m, m2
  <2>3. lo <= lo
    OBVIOUS
  <2>4. Rising(q2, m2, L, lo, k)
    BY <1>1, <2>1, <2>2, <2>3, RisingKept, Zenon
  <2> QED BY <2>4, Zenon DEF Queue, L, m2
<1> QED BY <1>8, <1>9

\* What Head and Tail make of a list.
LEMMA Parted ==
  ASSUME NEW s, IsList(s), s # <<>>
  PROVE  /\ Len(s) \in Nat /\ Len(s) > 0 /\ Head(s) = s[1] /\ IsList(Tail(s))
         /\ Len(Tail(s)) = Len(s) - 1 /\ \A i \in 1..Len(Tail(s)) : Tail(s)[i] = s[i + 1]
<1> PICK S : s \in Seq(S)
  BY Zenon DEF IsList
<1>1. /\ Len(s) \in Nat /\ Len(s) > 0 /\ Head(s) = s[1] /\ Tail(s) \in Seq(S)
      /\ Len(Tail(s)) = Len(s) - 1 /\ \A i \in 1..Len(Tail(s)) : Tail(s)[i] = s[i + 1]
  OBVIOUS
<1> QED BY <1>1, Zenon DEF IsList

\* The first is handled.
LEMMA QueueTail ==
  ASSUME NEW q, NEW who, NEW s, NEW lo \in Nat, NEW hi \in Nat, Queue(q, who, s, lo, hi),
         lo <= hi, IsList(s), s # <<>>
  PROVE  \E mid \in lo..hi :
           /\ Counting(who, Head(s)) => lo < mid /\ q[mid] = Head(s).message
           /\ Queue(q, who, Tail(s), mid, hi)
<1> DEFINE t == Tail(s)
           K == Due(who, s)
           L == Due(who, t)
           m == Messages(s)
           m2 == Messages(t)
<1>1. Rising(q, m, K, lo, hi)
  BY Zenon DEF Queue
<1>2. /\ Len(s) \in Nat /\ Len(s) > 0 /\ Head(s) = s[1]
      /\ Len(t) = Len(s) - 1 /\ \A i \in 1..Len(t) : t[i] = s[i + 1]
  BY Parted, Zenon
<1> HIDE DEF t
<1>3. /\ \A i \in 1..Len(t) : i + 1 \in 1..Len(s) /\ i \in Nat /\ i > 0
      /\ 1 \in 1..Len(s)
  BY <1>2
<1>4. \A i \in L : i \in Nat /\ i > 0 /\ i + 1 \in K
  BY <1>2, <1>3, Zenon DEF Due
<1>5. \A i \in L : m2[i] = m[i + 1]
  <2> SUFFICES ASSUME NEW i \in L PROVE m2[i] = m[i + 1]
    OBVIOUS
  <2>1. i \in 1..Len(t)
    BY Zenon DEF Due
  <2>2. i + 1 \in 1..Len(s) /\ t[i] = s[i + 1]
    BY <1>2, <1>3, <2>1, Zenon
  <2> QED BY <2>1, <2>2, Zenon DEF Messages
<1>6. m[1] = Head(s).message
  BY <1>2, <1>3, Zenon DEF Messages
<1>7. Counting(who, Head(s)) => 1 \in K
  BY <1>2, <1>3, Zenon DEF Due
<1> HIDE DEF K, L, m, m2
<1>8. PICK mid \in lo..hi : /\ 1 \in K => lo < mid /\ q[mid] = m[1]
                            /\ Rising(q, m2, L, mid, hi)
  BY <1>1, <1>4, <1>5, RisingTail, Zenon
<1>9. Queue(q, who, t, mid, hi)
  BY <1>8, Zenon DEF Queue, L, m2
<1> QED BY <1>6, <1>7, <1>8, <1>9, Zenon DEF t

\* From the oldest message to the newest: what has been answered; what the subscription
\* thread handles, and what waits for it; what echo e handles, and what waits for it.  The
\* numbers part the n requests of q.
Pipeline(q, n, out, hr, ir, e, he, ie, a, b, c, d) ==
  /\ a \in Nat /\ b \in Nat /\ c \in Nat /\ d \in Nat /\ n \in Nat
  /\ a <= b /\ b <= c /\ c <= d /\ d <= n
  /\ Rising(q, out, {i \in 1..Len(out) : out[i] \notin OwnMessages}, 0, a)
  /\ Counting(Router, hr) => a < b /\ q[b] = hr.message
  /\ Queue(q, Router, ir, b, c)
  /\ Counting(e, he) => c < d /\ q[d] = he.message
  /\ Queue(q, e, ie, d, n)

OrderInv(e) ==
  /\ IsList(requests) /\ IsList(answers) /\ IsList(inbox[Router]) /\ IsList(inbox[e])
  /\ DOMAIN inbox = Subscribers /\ DOMAIN handling = Subscribers
  /\ \A p \in unpublished : p[2] \in OwnMessages
  /\ \E a, b, c, d : Pipeline(Asked, Len(requests), answers, handling[Router], inbox[Router],
                              e, handling[e], inbox[e], a, b, c, d)

\* What is added to a connection and does not count.
Skips(who, t, s) == t = s \/ \E r : t = Append(s, r) /\ ~Counting(who, r)

LEMMA QueueSkips ==
  ASSUME NEW q, NEW who, NEW s, NEW lo \in Nat, NEW hi \in Nat, Queue(q, who, s, lo, hi),
         lo <= hi, IsList(s), NEW t, Skips(who, t, s)
  PROVE  IsList(t) /\ Queue(q, who, t, lo, hi)
<1>1. CASE t = s
  BY <1>1, Zenon
<1>2. CASE \E r : t = Append(s, r) /\ ~Counting(who, r)
  <2> PICK r : t = Append(s, r) /\ ~Counting(who, r)
    BY <1>2
  <2>1. Grown(t, s, r)
    BY Grows, Zenon
  <2>2. Agree(q, q, hi) /\ hi <= hi
    BY DEF Agree
  <2>3. Queue(q, who, t, lo, hi)
    BY <2>1, <2>2, QueueMore, Zenon
  <2> QED BY <2>1, <2>3, Zenon DEF Grown
<1> QED BY <1>1, <1>2, Zenon DEF Skips

LEMMA OrderSkips ==
  ASSUME NEW e, OrderInv(e), UNCHANGED <<requests, answers, handling>>,
         DOMAIN inbox' = Subscribers, unpublished' \subseteq unpublished,
         Skips(Router, inbox'[Router], inbox[Router]), Skips(e, inbox'[e], inbox[e])
  PROVE  OrderInv(e)'
<1> PICK a, b, c, d : Pipeline(Asked, Len(requests), answers, handling[Router], inbox[Router],
                               e, handling[e], inbox[e], a, b, c, d)
  BY Zenon DEF OrderInv
<1> DEFINE q == Asked
           n == Len(requests)
<1>1. /\ a \in Nat /\ b \in Nat /\ c \in Nat /\ d \in Nat /\ n \in Nat
      /\ a <= b /\ b <= c /\ c <= d /\ d <= n
      /\ Rising(q, answers, {i \in 1..Len(answers) : answers[i] \notin OwnMessages}, 0, a)
      /\ Counting(Router, handling[Router]) => a < b /\ q[b] = handling[Router].message
      /\ Queue(q, Router, inbox[Router], b, c)
      /\ Counting(e, handling[e]) => c < d /\ q[d] = handling[e].message
      /\ Queue(q, e, inbox[e], d, n)
  BY Zenon DEF Pipeline
<1>2. /\ IsList(requests) /\ IsList(answers) /\ IsList(inbox[Router]) /\ IsList(inbox[e])
      /\ DOMAIN handling = Subscribers /\ \A p \in unpublished : p[2] \in OwnMessages
  BY Zenon DEF OrderInv
<1>3. requests' = requests /\ answers' = answers /\ handling' = handling /\ Asked' = q
  BY DEF Asked
<1> HIDE DEF q
<1>4. IsList(inbox'[Router]) /\ Queue(q, Router, inbox'[Router], b, c)
  BY <1>1, <1>2, QueueSkips, Zenon
<1>5. IsList(inbox'[e]) /\ Queue(q, e, inbox'[e], d, n)
  <2> HIDE DEF n
  <2> QED BY <1>1, <1>2, QueueSkips, Zenon
<1>6. Pipeline(q, n, answers, handling[Router], inbox'[Router], e, handling[e], inbox'[e],
               a, b, c, d)
  BY <1>1, <1>4, <1>5, Zenon DEF Pipeline
<1>7. \A p \in unpublished' : p[2] \in OwnMessages
  BY <1>2, Zenon
<1> HIDE DEF n
<1>8. Pipeline(Asked', Len(requests'), answers', handling'[Router], inbox'[Router],
               e, handling'[e], inbox'[e], a, b, c, d)
  BY <1>3, <1>6, Zenon DEF n
<1>9. /\ IsList(requests') /\ IsList(answers') /\ DOMAIN handling' = Subscribers
  BY <1>2, <1>3, Zenon
<1> QED BY <1>4, <1>5, <1>7, <1>8, <1>9, Zenon DEF OrderInv

\* An answer to UNSUBSCRIBE, or no message at all, does not count.
LEMMA Uncounted == \A who : ~Counting(who, Idle) /\ ~Counting(who, Unsubscribed)
<1>1. Unsubscribed.channel = Idle.channel
  BY DEF Unsubscribed, Idle
<1>2. Idle.channel = [port |-> 0, destination |-> 0, source |-> 0]
  BY DEF Idle
<1>3. Idle.channel.destination = SELF /\ Idle.channel.source = SELF
  BY <1>2 DEF SELF
<1>4. ~Outgoing(Idle) /\ ~Outgoing(Unsubscribed) /\ ~Echoes(Idle) /\ ~Echoes(Unsubscribed)
  BY <1>1, <1>3, Zenon DEF Outgoing, Echoes
<1> QED BY <1>4, Zenon DEF Counting

\* What Publish adds to a connection.
LEMMA PublishedTo ==
  ASSUME NEW ch, NEW m, Publish(ch, m), NEW s \in Subscribers
  PROVE  /\ DOMAIN inbox' = Subscribers
         /\ \/ inbox'[s] = inbox[s]
            \/ /\ Matches(s, ch)
               /\ inbox'[s] = Append(inbox[s], [kind |-> "message", channel |-> ch, message |-> m])
BY Zenon DEF Publish, Delivered

LEMMA OrderOwn ==
  ASSUME NEW e \in Apps, OrderInv(e), PublishOwn PROVE OrderInv(e)'
<1> PICK p \in unpublished : Publish(p[1], p[2]) /\ unpublished' = unpublished \ {p}
  BY Zenon DEF PublishOwn
<1> DEFINE r == [kind |-> "message", channel |-> p[1], message |-> p[2]]
<1>1. p[2] \in OwnMessages
  BY Zenon DEF OrderInv
<1>2. r.message = p[2]
  OBVIOUS
<1> HIDE DEF r
<1>3. \A who : ~Counting(who, r)
  BY <1>1, <1>2, Zenon DEF Counting
<1>4. Router \in Subscribers /\ e \in Subscribers
  BY DEF Subscribers
<1>5. \A s \in Subscribers : DOMAIN inbox' = Subscribers /\ Skips(s, inbox'[s], inbox[s])
  BY <1>3, PublishedTo, Zenon DEF Skips, r
<1>6. unpublished' \subseteq unpublished
  OBVIOUS
<1>7. UNCHANGED <<requests, answers, handling>>
  BY Zenon DEF PublishOwn
<1> QED BY <1>4, <1>5, <1>6, <1>7, OrderSkips, Zenon

LEMMA OrderWait ==
  ASSUME NEW e \in Apps, OrderInv(e), NEW s \in Subscribers, Wait(s),
         UNCHANGED <<requests, answers, unpublished>>
  PROVE  OrderInv(e)'
<1>1. UNCHANGED <<requests, answers, handling>>
  BY Zenon DEF Wait
<1>2. DOMAIN inbox = Subscribers
  BY Zenon DEF OrderInv
<1>3. \/ inbox' = inbox
      \/ inbox' = [inbox EXCEPT ![s] = IF queued[s] THEN Append(@, Unsubscribed) ELSE @]
  BY Zenon DEF Wait
<1>4. Router \in Subscribers /\ e \in Subscribers
  BY DEF Subscribers
<1>5. ASSUME NEW x \in Subscribers PROVE Skips(x, inbox'[x], inbox[x])
  <2>1. inbox'[x] = inbox[x] \/ inbox'[x] = Append(inbox[x], Unsubscribed)
    BY <1>2, <1>3
  <2> QED BY <2>1, Uncounted, Zenon DEF Skips
<1>6. DOMAIN inbox' = Subscribers /\ unpublished' \subseteq unpublished
  BY <1>2, <1>3
<1> QED BY <1>1, <1>4, <1>5, <1>6, OrderSkips, Zenon

LEMMA OrderStutter ==
  ASSUME NEW e, OrderInv(e), UNCHANGED <<requests, answers, handling, inbox, unpublished>>
  PROVE  OrderInv(e)'
<1>1. Skips(Router, inbox'[Router], inbox[Router]) /\ Skips(e, inbox'[e], inbox[e])
  BY DEF Skips
<1>2. DOMAIN inbox' = Subscribers /\ unpublished' \subseteq unpublished
  BY DEF OrderInv
<1>3. UNCHANGED <<requests, answers, handling>>
  OBVIOUS
<1> QED BY <1>1, <1>2, <1>3, OrderSkips, Zenon

\* The subscription thread, or echo, is handed the next message.
LEMMA OrderFetch ==
  ASSUME NEW e \in Apps, OrderInv(e), NEW s \in {Router, e}, Fetch(s) \/ FetchEnd(s),
         UNCHANGED <<requests, answers, unpublished>>
  PROVE  OrderInv(e)'
<1> DEFINE q == Asked
           n == Len(requests)
           r == Router
           out == {i \in 1..Len(answers) : answers[i] \notin OwnMessages}
<1> PICK a, b, c, d : Pipeline(q, n, answers, handling[r], inbox[r], e, handling[e], inbox[e],
                               a, b, c, d)
  BY Zenon DEF OrderInv
<1>1. /\ a \in Nat /\ b \in Nat /\ c \in Nat /\ d \in Nat /\ n \in Nat
      /\ a <= b /\ b <= c /\ c <= d /\ d <= n
      /\ Rising(q, answers, out, 0, a)
      /\ Counting(r, handling[r]) => a < b /\ q[b] = handling[r].message
      /\ Queue(q, r, inbox[r], b, c)
      /\ Counting(e, handling[e]) => c < d /\ q[d] = handling[e].message
      /\ Queue(q, e, inbox[e], d, n)
  BY Zenon DEF Pipeline
<1>2. /\ IsList(requests) /\ IsList(answers) /\ IsList(inbox[r]) /\ IsList(inbox[e])
      /\ DOMAIN inbox = Subscribers /\ DOMAIN handling = Subscribers
      /\ \A p \in unpublished : p[2] \in OwnMessages
  BY Zenon DEF OrderInv
<1>3. /\ requests' = requests /\ answers' = answers /\ unpublished' = unpublished
      /\ Asked' = q /\ Len(requests') = n
  BY DEF Asked
<1>4. /\ inbox[s] # <<>> /\ inbox' = [inbox EXCEPT ![s] = Tail(inbox[s])]
      /\ \/ handling' = handling
         \/ handling' = [handling EXCEPT ![s] = Head(inbox[s])]
  BY Zenon DEF Fetch, FetchEnd
<1>5. /\ r \in Subscribers /\ e \in Subscribers /\ s \in Subscribers /\ r # e
      /\ DOMAIN inbox' = Subscribers /\ DOMAIN handling' = Subscribers
  BY <1>2, <1>4, BusAssumption DEF Subscribers
<1>6. /\ inbox'[s] = Tail(inbox[s]) /\ \A x \in Subscribers : x # s => inbox'[x] = inbox[x]
      /\ \A x \in Subscribers : x # s => handling'[x] = handling[x]
      /\ handling'[s] = handling[s] \/ handling'[s] = Head(inbox[s])
  BY <1>2, <1>4, <1>5
<1>7. IsList(inbox[s])
  BY <1>2, Zenon
<1>8. IsList(inbox'[s])
  BY <1>4, <1>6, <1>7, Parted, Zenon
<1>9. IsList(inbox'[r]) /\ IsList(inbox'[e])
  BY <1>2, <1>5, <1>6, <1>8, Zenon
<1>10. q = Asked /\ n = Len(requests) /\ out = {i \in 1..Len(answers) : answers[i] \notin OwnMessages}
  OBVIOUS
<1> HIDE DEF q, n, r, out
<1>11. SUFFICES \E b2, d2 : Pipeline(q, n, answers, handling'[r], inbox'[r],
                                     e, handling'[e], inbox'[e], a, b2, c, d2)
  <2> PICK b2, d2 : Pipeline(q, n, answers, handling'[r], inbox'[r],
                             e, handling'[e], inbox'[e], a, b2, c, d2)
    BY <1>11
  <2>1. Pipeline(Asked', Len(requests'), answers', handling'[Router], inbox'[Router],
                 e, handling'[e], inbox'[e], a, b2, c, d2)
    BY <1>3, Zenon DEF r
  <2> QED BY <1>2, <1>3, <1>5, <1>9, <2>1, Zenon DEF OrderInv, r
<1>12. CASE s = r
  <2>1. inbox[r] # <<>>
    BY <1>4, <1>12, Zenon
  <2>2. PICK mid \in b..c :
          /\ Counting(r, Head(inbox[r])) => b < mid /\ q[mid] = Head(inbox[r]).message
          /\ Queue(q, r, Tail(inbox[r]), mid, c)
    BY <1>1, <1>2, <2>1, QueueTail, Zenon
  <2>3. mid \in Nat /\ b <= mid /\ mid <= c /\ a <= mid /\ (b < mid => a < mid) /\ b <= b /\ c <= c
    BY <1>1, <2>2
  <2>4. /\ inbox'[r] = Tail(inbox[r]) /\ inbox'[e] = inbox[e] /\ handling'[e] = handling[e]
    BY <1>5, <1>6, <1>12, Zenon
  <2>5. CASE handling'[s] = Head(inbox[s])
    <3>1. Counting(r, handling'[r]) => a < mid /\ q[mid] = handling'[r].message
      BY <1>12, <2>2, <2>3, <2>5, Zenon
    <3>2. Pipeline(q, n, answers, handling'[r], inbox'[r], e, handling'[e], inbox'[e],
                   a, mid, c, d)
      BY <1>1, <2>2, <2>3, <2>4, <3>1, Zenon DEF Pipeline, r, out
    <3> QED BY <3>2, Zenon
  <2>6. CASE handling'[s] = handling[s]
    <3>1. Agree(q, q, c)
      BY DEF Agree
    <3>2. Queue(q, r, Tail(inbox[r]), b, c)
      BY <1>1, <2>2, <2>3, <3>1, QueueKept, Zenon
    <3>3. Pipeline(q, n, answers, handling'[r], inbox'[r], e, handling'[e], inbox'[e],
                   a, b, c, d)
      BY <1>1, <1>12, <2>4, <2>6, <3>2, Zenon DEF Pipeline, r, out
    <3> QED BY <3>3, Zenon
  <2> QED BY <1>6, <2>5, <2>6
<1>13. CASE s = e
  <2>1. inbox[e] # <<>>
    BY <1>4, <1>13, Zenon
  <2>2. PICK mid \in d..n :
          /\ Counting(e, Head(inbox[e])) => d < mid /\ q[mid] = Head(inbox[e]).message
          /\ Queue(q, e, Tail(inbox[e]), mid, n)
    BY <1>1, <1>2, <2>1, QueueTail, Zenon
  <2>3. mid \in Nat /\ d <= mid /\ mid <= n /\ c <= mid /\ (d < mid => c < mid) /\ n <= n
    BY <1>1, <2>2
  <2>4. /\ inbox'[e] = Tail(inbox[e]) /\ inbox'[r] = inbox[r] /\ handling'[r] = handling[r]
    BY <1>5, <1>6, <1>13, Zenon
  <2>5. CASE handling'[s] = Head(inbox[s])
    <3>1. Counting(e, handling'[e]) => c < mid /\ q[mid] = handling'[e].message
      BY <1>13, <2>2, <2>3, <2>5, Zenon
    <3>2. Pipeline(q, n, answers, handling'[r], inbox'[r], e, handling'[e], inbox'[e],
                   a, b, c, mid)
      BY <1>1, <2>2, <2>3, <2>4, <3>1, Zenon DEF Pipeline, r, out
    <3> QED BY <3>2, Zenon
  <2>6. CASE handling'[s] = handling[s]
    <3>1. Agree(q, q, n)
      BY DEF Agree
    <3>2. Queue(q, e, Tail(inbox[e]), d, n)
      BY <1>1, <2>2, <2>3, <3>1, QueueKept, Zenon
    <3>3. Pipeline(q, n, answers, handling'[r], inbox'[r], e, handling'[e], inbox'[e],
                   a, b, c, d)
      BY <1>1, <1>13, <2>4, <2>6, <3>2, Zenon DEF Pipeline, r, out
    <3> QED BY <3>3, Zenon
  <2> QED BY <1>6, <2>5, <2>6
<1> QED BY <1>12, <1>13 DEF r

\* The main thread publishes a request.
LEMMA OrderDeliver ==
  ASSUME NEW e \in Apps, OrderInv(e), Deliver PROVE OrderInv(e)'
<1> DEFINE q == Asked
           n == Len(requests)
           r == Router
           p == delivering[1]
           ch == [port |-> p.port, destination |-> SELF, source |-> p.source]
           item == [kind |-> "message", channel |-> ch, message |-> p.content]
           out == {i \in 1..Len(answers) : answers[i] \notin OwnMessages}
<1> PICK a, b, c, d : Pipeline(q, n, answers, handling[r], inbox[r], e, handling[e], inbox[e],
                               a, b, c, d)
  BY Zenon DEF OrderInv
<1>1. /\ a \in Nat /\ b \in Nat /\ c \in Nat /\ d \in Nat /\ n \in Nat
      /\ a <= b /\ b <= c /\ c <= d /\ d <= n
      /\ Rising(q, answers, out, 0, a)
      /\ Counting(r, handling[r]) => a < b /\ q[b] = handling[r].message
      /\ Queue(q, r, inbox[r], b, c)
      /\ Counting(e, handling[e]) => c < d /\ q[d] = handling[e].message
      /\ Queue(q, e, inbox[e], d, n)
  BY Zenon DEF Pipeline
<1>2. /\ IsList(requests) /\ IsList(answers) /\ IsList(inbox[r]) /\ IsList(inbox[e])
      /\ DOMAIN inbox = Subscribers /\ DOMAIN handling = Subscribers
      /\ \A x \in unpublished : x[2] \in OwnMessages
  BY Zenon DEF OrderInv
<1>3. /\ Publish(ch, p.content) /\ answers' = answers /\ handling' = handling
      /\ unpublished' = unpublished
      /\ \E h : requests' = Append(requests, [message |-> p.content, heard |-> h])
  BY Zenon DEF Deliver
<1>4. /\ IsList(requests') /\ Len(requests') = n + 1 /\ requests'[n + 1].message = p.content
      /\ \A i \in 1..n : requests'[i] = requests[i]
  <2> PICK h : requests' = Append(requests, [message |-> p.content, heard |-> h])
    BY <1>3
  <2>1. Grown(requests', requests, [message |-> p.content, heard |-> h])
    BY <1>2, Grows, Zenon
  <2>2. [message |-> p.content, heard |-> h].message = p.content
    OBVIOUS
  <2> QED BY <2>1, <2>2, Zenon DEF Grown
<1> DEFINE q2 == Asked'
<1>5. Agree(q2, q, n) /\ q2[n + 1] = p.content
  <2> HIDE DEF n
  <2>1. n + 1 \in 1..(n + 1) /\ \A i \in 1..n : i \in 1..(n + 1)
    BY <1>1
  <2>2. q2 = [i \in 1..(n + 1) |-> requests'[i].message]
    BY <1>4, Zenon DEF Asked
  <2>3. q = [i \in 1..n |-> requests[i].message]
    BY Zenon DEF Asked, n
  <2> HIDE DEF q, q2
  <2> QED BY <1>4, <2>1, <2>2, <2>3, Zenon DEF Agree
<1>6. r \in Subscribers /\ e \in Subscribers
  BY DEF Subscribers
<1>7. /\ item.channel = ch /\ item.message = p.content /\ ch.destination = SELF
  OBVIOUS
<1>8. \A x \in Subscribers : /\ DOMAIN inbox' = Subscribers
                             /\ inbox'[x] = inbox[x] \/ inbox'[x] = Append(inbox[x], item)
  BY <1>3, PublishedTo, Zenon
<1> HIDE DEF q, q2, n, r, out, item, ch, p
<1>9. ~Counting(r, item)
  BY <1>7, Zenon DEF Counting, Outgoing, r
<1>10. /\ Agree(q2, q, a) /\ Agree(q2, q, c) /\ a <= a /\ 0 <= 0 /\ b <= b /\ c <= c
       /\ n <= n + 1 /\ d <= n + 1 /\ n + 1 \in Nat /\ n < n + 1
       /\ (a < b => q2[b] = q[b]) /\ (c < d => q2[d] = q[d]) /\ 0 \in Nat
  <2>1. /\ \A i \in 1..a : i \in 1..n
        /\ \A i \in 1..c : i \in 1..n
        /\ (a < b => b \in 1..n) /\ (c < d => d \in 1..n)
    BY <1>1
  <2>2. /\ a <= a /\ 0 <= 0 /\ b <= b /\ c <= c
        /\ n <= n + 1 /\ d <= n + 1 /\ n + 1 \in Nat /\ n < n + 1 /\ 0 \in Nat
    BY <1>1
  <2> QED BY <1>5, <2>1, <2>2, Zenon DEF Agree
<1>11. Rising(q2, answers, out, 0, a)
  <2>1. out \subseteq out /\ \A i \in out : answers[i] = answers[i]
    OBVIOUS
  <2> QED BY <1>1, <1>10, <2>1, RisingKept, Zenon
<1>12. IsList(inbox'[r]) /\ Queue(q2, r, inbox'[r], b, c)
  <2>1. Skips(r, inbox'[r], inbox[r])
    BY <1>6, <1>8, <1>9, Zenon DEF Skips
  <2>2. IsList(inbox'[r]) /\ Queue(q, r, inbox'[r], b, c)
    BY <1>1, <1>2, <2>1, QueueSkips, Zenon
  <2> QED BY <1>1, <1>10, <2>2, QueueKept, Zenon
<1>13. IsList(inbox'[e]) /\ Queue(q2, e, inbox'[e], d, n + 1)
  <2>1. CASE inbox'[e] = inbox[e]
    <3>1. d <= d
      BY <1>1
    <3>2. Queue(q2, e, inbox[e], d, n + 1)
      BY <1>1, <1>5, <1>10, <3>1, QueueKept, Zenon
    <3> QED BY <1>2, <2>1, <3>2, Zenon
  <2>2. CASE inbox'[e] = Append(inbox[e], item)
    <3>1. Grown(inbox'[e], inbox[e], item)
      BY <1>2, <2>2, Grows, Zenon
    <3>2. q2[n + 1] = item.message
      BY <1>5, <1>7, Zenon
    <3>3. Queue(q2, e, inbox'[e], d, n + 1)
      BY <1>1, <1>5, <1>10, <3>1, <3>2, QueueMore, Zenon
    <3> QED BY <3>1, <3>3, Zenon DEF Grown
  <2> QED BY <1>6, <1>8, <2>1, <2>2
<1>14. /\ Counting(r, handling[r]) => a < b /\ q2[b] = handling[r].message
       /\ Counting(e, handling[e]) => c < d /\ q2[d] = handling[e].message
  BY <1>1, <1>10, Zenon
<1>15. Pipeline(q2, n + 1, answers, handling[r], inbox'[r], e, handling[e], inbox'[e],
                a, b, c, d)
  BY <1>1, <1>10, <1>11, <1>12, <1>13, <1>14, Zenon DEF Pipeline, r, out
<1>16. Pipeline(Asked', Len(requests'), answers', handling'[Router], inbox'[Router],
                e, handling'[e], inbox'[e], a, b, c, d)
  BY <1>3, <1>4, <1>15, Zenon DEF r, q2
<1>17. /\ DOMAIN inbox' = Subscribers /\ DOMAIN handling' = Subscribers /\ IsList(answers')
       /\ \A x \in unpublished' : x[2] \in OwnMessages
  BY <1>2, <1>3, <1>6, <1>8, Zenon
<1> QED BY <1>4, <1>12, <1>13, <1>16, <1>17, Zenon DEF OrderInv, r

\* Echo answers what it was handed.
LEMMA OrderEcho ==
  ASSUME NEW e \in Apps, OrderInv(e), Echo(e) PROVE OrderInv(e)'
<1> DEFINE q == Asked
           n == Len(requests)
           r == Router
           h == handling[e]
           ch == [port |-> Listens[e], destination |-> h.channel.source, source |-> SELF]
           item == [kind |-> "message", channel |-> ch, message |-> h.message]
           out == {i \in 1..Len(answers) : answers[i] \notin OwnMessages}
<1> PICK a, b, c, d : Pipeline(q, n, answers, handling[r], inbox[r], e, handling[e], inbox[e],
                               a, b, c, d)
  BY Zenon DEF OrderInv
<1>1. /\ a \in Nat /\ b \in Nat /\ c \in Nat /\ d \in Nat /\ n \in Nat
      /\ a <= b /\ b <= c /\ c <= d /\ d <= n
      /\ Rising(q, answers, out, 0, a)
      /\ Counting(r, handling[r]) => a < b /\ q[b] = handling[r].message
      /\ Queue(q, r, inbox[r], b, c)
      /\ Counting(e, h) => c < d /\ q[d] = h.message
      /\ Queue(q, e, inbox[e], d, n)
  BY Zenon DEF Pipeline
<1>2. /\ IsList(requests) /\ IsList(answers) /\ IsList(inbox[r]) /\ IsList(inbox[e])
      /\ DOMAIN inbox = Subscribers /\ DOMAIN handling = Subscribers
      /\ \A x \in unpublished : x[2] \in OwnMessages
  BY Zenon DEF OrderInv
<1>3. /\ requests' = requests /\ answers' = answers /\ unpublished' = unpublished
      /\ handling' = [handling EXCEPT ![e] = Idle] /\ Asked' = q
      /\ IF Echoes(h) THEN Publish(ch, h.message) ELSE inbox' = inbox
  BY Zenon DEF Echo, HandlerReturns, local, serial, Asked
<1>4. r \in Subscribers /\ e \in Subscribers /\ r # e
  BY BusAssumption DEF Subscribers
<1>5. handling'[e] = Idle /\ handling'[r] = handling[r] /\ DOMAIN handling' = Subscribers
  BY <1>2, <1>3, <1>4
<1>6. /\ item.channel = ch /\ item.message = h.message /\ ch.destination = h.channel.source
  OBVIOUS
<1>7. /\ DOMAIN inbox' = Subscribers /\ inbox'[e] = inbox[e]
      /\ \/ inbox'[r] = inbox[r]
         \/ Echoes(h) /\ inbox'[r] = Append(inbox[r], item)
  <2>1. CASE Echoes(h)
    <3>1. ~Matches(e, ch)
      BY <1>4, <1>6, <2>1, Zenon DEF Matches, Echoes
    <3> QED BY <1>3, <1>4, <2>1, <3>1, PublishedTo, Zenon
  <2>2. CASE ~Echoes(h)
    BY <1>2, <1>3, <2>2, Zenon
  <2> QED BY <2>1, <2>2
<1> HIDE DEF q, n, r, out, item, ch, h
<1>8. ~Counting(e, Idle)
  BY Uncounted, Zenon
<1>9. /\ b <= b /\ d <= d /\ b <= d
  BY <1>1
<1>10. Agree(q, q, c)
  BY DEF Agree
<1>11. IsList(inbox'[r]) /\ Queue(q, r, inbox'[r], b, d)
  <2>1. CASE inbox'[r] = inbox[r]
    <3>1. Queue(q, r, inbox[r], b, d)
      BY <1>1, <1>9, <1>10, QueueKept, Zenon
    <3> QED BY <1>2, <2>1, <3>1, Zenon
  <2>2. CASE Echoes(h) /\ inbox'[r] = Append(inbox[r], item)
    <3>1. Grown(inbox'[r], inbox[r], item)
      BY <1>2, <2>2, Grows, Zenon
    <3>2. Counting(r, item) => Counting(e, h)
      BY <1>4, <1>6, <2>2, Zenon DEF Counting, r
    <3>3. Counting(r, item) => c < d /\ q[d] = item.message
      BY <1>1, <1>6, <3>2, Zenon
    <3>4. Queue(q, r, inbox'[r], b, d)
      BY <1>1, <1>10, <3>1, <3>3, QueueMore, Zenon
    <3> QED BY <3>1, <3>4, Zenon DEF Grown
  <2> QED BY <1>7, <2>1, <2>2
<1>12. Pipeline(q, n, answers, handling[r], inbox'[r], e, Idle, inbox[e], a, b, d, d)
  BY <1>1, <1>8, <1>9, <1>11, Zenon DEF Pipeline, r, out
<1>13. Pipeline(Asked', Len(requests'), answers', handling'[Router], inbox'[Router],
                e, handling'[e], inbox'[e], a, b, d, d)
  BY <1>3, <1>5, <1>7, <1>12, Zenon DEF r, n
<1>14. /\ IsList(requests') /\ IsList(answers') /\ IsList(inbox'[e])
       /\ \A x \in unpublished' : x[2] \in OwnMessages
  BY <1>2, <1>3, <1>7, Zenon
<1> QED BY <1>5, <1>7, <1>11, <1>13, <1>14, Zenon DEF OrderInv, r

\* The router sends what its subscription thread was handed.
LEMMA OrderSend ==
  ASSUME NEW e \in Apps, OrderInv(e), Send PROVE OrderInv(e)'
<1> DEFINE q == Asked
           n == Len(requests)
           r == Router
           h == handling[r]
           m == Len(answers)
           out == {i \in 1..m : answers[i] \notin OwnMessages}
           out2 == {i \in 1..Len(answers') : answers'[i] \notin OwnMessages}
<1> PICK a, b, c, d : Pipeline(q, n, answers, handling[r], inbox[r], e, handling[e], inbox[e],
                               a, b, c, d)
  BY Zenon DEF OrderInv
<1>1. /\ a \in Nat /\ b \in Nat /\ c \in Nat /\ d \in Nat /\ n \in Nat
      /\ a <= b /\ b <= c /\ c <= d /\ d <= n
      /\ Rising(q, answers, out, 0, a)
      /\ Counting(r, h) => a < b /\ q[b] = h.message
      /\ Queue(q, r, inbox[r], b, c)
      /\ Counting(e, handling[e]) => c < d /\ q[d] = handling[e].message
      /\ Queue(q, e, inbox[e], d, n)
  BY Zenon DEF Pipeline
<1>2. /\ IsList(requests) /\ IsList(answers) /\ IsList(inbox[r]) /\ IsList(inbox[e])
      /\ DOMAIN inbox = Subscribers /\ DOMAIN handling = Subscribers
      /\ \A x \in unpublished : x[2] \in OwnMessages
  BY Zenon DEF OrderInv
<1>3. /\ requests' = requests /\ unpublished' = unpublished /\ inbox' = inbox
      /\ handling' = [handling EXCEPT ![r] = Idle] /\ Asked' = q
      /\ IF Outgoing(h) THEN answers' = Append(answers, h.message) ELSE answers' = answers
  BY Zenon DEF Send, HandlerReturns, Asked
<1>4. r \in Subscribers /\ e \in Subscribers /\ r # e
  BY BusAssumption DEF Subscribers
<1>5. handling'[r] = Idle /\ handling'[e] = handling[e] /\ DOMAIN handling' = Subscribers
  BY <1>2, <1>3, <1>4
<1>6. ~Counting(r, Idle)
  BY Uncounted, Zenon
<1>7. Agree(q, q, a) /\ 0 \in Nat /\ 0 <= 0 /\ 0 <= a /\ b <= b /\ a <= b
  BY <1>1 DEF Agree
<1>8. IsList(answers') /\ Rising(q, answers', out2, 0, b)
  <2>1. CASE answers' = answers
    <3>1. out2 = out /\ out \subseteq out /\ \A i \in out : answers[i] = answers[i]
      BY <2>1
    <3> HIDE DEF out, out2, q, n, m
    <3>2. Rising(q, answers, out, 0, b)
      BY <1>1, <1>7, <3>1, RisingKept, Zenon
    <3> QED BY <1>2, <2>1, <3>1, <3>2, Zenon
  <2>2. CASE Outgoing(h) /\ answers' = Append(answers, h.message)
    <3>1. /\ IsList(answers') /\ m \in Nat /\ Len(answers') = m + 1
          /\ answers'[m + 1] = h.message /\ \A i \in 1..m : answers'[i] = answers[i]
      <4>1. Grown(answers', answers, h.message)
        BY <1>2, <2>2, Grows, Zenon
      <4> QED BY <4>1, Zenon DEF Grown
    <3>2. out2 = {i \in 1..(m + 1) : answers'[i] \notin OwnMessages}
      BY <3>1, Zenon
    <3> HIDE DEF m, out2
    <3>3. /\ \A i \in 1..m : i \in 1..(m + 1)
          /\ \A i \in 1..(m + 1) : i \in 1..m \/ i = m + 1
      BY <3>1
    <3>4. out \subseteq 1..m /\ Agree(answers', answers, m)
      BY <3>1 DEF Agree
    <3>5. CASE h.message \notin OwnMessages
      <4>1. m + 1 \in 1..(m + 1)
        BY <3>1
      <4>2. out2 = out \cup {m + 1}
        BY <3>1, <3>2, <3>3, <3>5, <4>1
      <4>3. a < b /\ q[b] = answers'[m + 1]
        <5>1. Counting(r, h)
          BY <2>2, <3>5, Zenon DEF Counting
        <5> QED BY <1>1, <3>1, <5>1, Zenon
      <4> HIDE DEF out, q, n, h
      <4>4. Rising(q, answers', out \cup {m + 1}, 0, b)
        BY <1>1, <1>7, <3>1, <3>4, <4>3, RisingMore, Zenon
      <4> QED BY <3>1, <4>2, <4>4, Zenon
    <3>6. CASE h.message \in OwnMessages
      <4>1. out2 = out
        BY <3>1, <3>2, <3>3, <3>6
      <4>2. out \subseteq out /\ \A i \in out : answers'[i] = answers[i]
        BY <3>1, <3>4, Zenon
      <4> HIDE DEF out, q, n, h
      <4>3. Rising(q, answers', out, 0, b)
        BY <1>1, <1>7, <4>2, RisingKept, Zenon
      <4> QED BY <3>1, <4>1, <4>3, Zenon
    <3> QED BY <3>5, <3>6
  <2> QED BY <1>3, <2>1, <2>2
<1> HIDE DEF q, n, r, out, h
<1>9. Pipeline(q, n, answers', Idle, inbox[r], e, handling[e], inbox[e], b, b, c, d)
  BY <1>1, <1>6, <1>7, <1>8, Zenon DEF Pipeline, r, out2
<1>10. Pipeline(Asked', Len(requests'), answers', handling'[Router], inbox'[Router],
                e, handling'[e], inbox'[e], b, b, c, d)
  BY <1>3, <1>5, <1>9, Zenon DEF r, n
<1>11. /\ IsList(requests') /\ IsList(inbox'[r]) /\ IsList(inbox'[e])
       /\ DOMAIN inbox' = Subscribers /\ \A x \in unpublished' : x[2] \in OwnMessages
  BY <1>2, <1>3, Zenon
<1> QED BY <1>5, <1>8, <1>10, <1>11, Zenon DEF OrderInv, r

LEMMA OrderInit == ASSUME NEW e \in Apps, Init PROVE OrderInv(e)
<1> PICK s \in Scenarios : unpublished = s.published
  BY Zenon DEF Init
<1>1. /\ requests = <<>> /\ answers = <<>>
      /\ inbox = [x \in Subscribers |-> <<>>] /\ handling = [x \in Subscribers |-> Idle]
  BY Zenon DEF Init, BusInit
<1>2. Router \in Subscribers /\ e \in Subscribers
  BY DEF Subscribers
<1>3. /\ inbox[Router] = <<>> /\ inbox[e] = <<>> /\ DOMAIN inbox = Subscribers
      /\ handling[Router] = Idle /\ handling[e] = Idle /\ DOMAIN handling = Subscribers
  BY <1>1, <1>2
<1>4. IsList(<<>>)
  <2>1. <<>> \in Seq({})
    OBVIOUS
  <2> QED BY <2>1, Zenon DEF IsList
<1>5. \A p \in unpublished : p[2] \in OwnMessages
  BY Zenon DEF OwnMessages
<1>6. Len(<<>>) = 0 /\ 0 \in Nat /\ 0 <= 0 /\ \A i \in 1..0 : FALSE
  OBVIOUS
<1>7. \A q, m : Rising(q, m, {}, 0, 0)
  <2> SUFFICES ASSUME NEW q, NEW m PROVE Rising(q, m, {}, 0, 0)
    OBVIOUS
  <2> DEFINE place == [i \in {} |-> 0]
  <2>1. place \in [{} -> (0 + 1)..0] /\ \A i \in {} : FALSE
    OBVIOUS
  <2> HIDE DEF place
  <2>2. Rises(place, q, m, {}, 0, 0)
    BY <2>1, Zenon DEF Rises
  <2> QED BY <2>2, Zenon DEF Rising
<1>8. /\ {i \in 1..Len(<<>>) : <<>>[i] \notin OwnMessages} = {}
      /\ \A who : Due(who, <<>>) = {}
  BY <1>6 DEF Due
<1>9. \A q, who : Queue(q, who, <<>>, 0, 0)
  BY <1>7, <1>8, Zenon DEF Queue
<1>10. Rising(Asked, <<>>, {i \in 1..Len(<<>>) : <<>>[i] \notin OwnMessages}, 0, 0)
  BY <1>7, <1>8, Zenon
<1>11. Pipeline(Asked, 0, <<>>, Idle, <<>>, e, Idle, <<>>, 0, 0, 0, 0)
  BY <1>6, <1>9, <1>10, Uncounted, Zenon DEF Pipeline
<1>12. Pipeline(Asked, Len(requests), answers, handling[Router], inbox[Router],
                e, handling[e], inbox[e], 0, 0, 0, 0)
  BY <1>1, <1>3, <1>6, <1>11, Zenon
<1>13. IsList(requests) /\ IsList(answers) /\ IsList(inbox[Router]) /\ IsList(inbox[e])
  BY <1>1, <1>3, <1>4, Zenon
<1> QED BY <1>3, <1>5, <1>12, <1>13, Zenon DEF OrderInv

LEMMA OrderNext ==
  ASSUME NEW e \in Apps, Apps = {e}, OrderInv(e), [Next]_vars PROVE OrderInv(e)'
<1>1. CASE Redis
  <2> PICK s \in Subscribers : Loop(s)
    BY <1>1, Zenon DEF Redis
  <2>1. UNCHANGED <<requests, answers, unpublished>>
    BY <1>1, Zenon DEF Redis, local
  <2>2. s \in {Router, e}
    BY DEF Subscribers
  <2>3. CASE Wait(s)
    BY <2>1, <2>3, OrderWait, Zenon
  <2>4. CASE Fetch(s) \/ FetchEnd(s)
    BY <2>1, <2>2, <2>4, OrderFetch, Zenon
  <2>5. CASE Subscribe(s) \/ End(s)
    <3>1. UNCHANGED <<requests, answers, handling, inbox, unpublished>>
      BY <2>1, <2>5, Zenon DEF Subscribe, End
    <3> QED BY <3>1, OrderStutter, Zenon
  <2> QED BY <2>3, <2>4, <2>5, Zenon DEF Loop
<1>2. CASE Deliver
  BY <1>2, OrderDeliver, Zenon
<1>3. CASE \E a \in Apps : Echo(a)
  <2>1. Echo(e)
    BY <1>3
  <2> QED BY <2>1, OrderEcho, Zenon
<1>4. CASE Send
  BY <1>4, OrderSend, Zenon
<1>5. CASE PublishOwn
  BY <1>5, OrderOwn, Zenon
<1>6. CASE UNCHANGED <<requests, answers, handling, inbox, unpublished>>
  BY <1>6, OrderStutter, Zenon
<1>7. \/ Redis \/ Deliver \/ (\E a \in Apps : Echo(a)) \/ Send \/ PublishOwn
      \/ UNCHANGED <<requests, answers, handling, inbox, unpublished>>
  BY Zenon DEF Next, Line, StartRouter, Process, Beacon, StartApp, StopApp, Run, Stop, bus,
               local, serial, vars
<1> QED BY <1>1, <1>2, <1>3, <1>4, <1>5, <1>6, <1>7

LEMMA InOrder == ASSUME NEW e, OrderInv(e) PROVE AnswersInOrder
<1> DEFINE n == Len(requests)
           q == Asked
<1> PICK a, b, c, d : Pipeline(q, n, answers, handling[Router], inbox[Router],
                               e, handling[e], inbox[e], a, b, c, d)
  BY Zenon DEF OrderInv
<1>1. /\ a \in Nat /\ b \in Nat /\ c \in Nat /\ d \in Nat /\ n \in Nat
      /\ a <= b /\ b <= c /\ c <= d /\ d <= n
      /\ Rising(q, answers, Echoed, 0, a)
  BY Zenon DEF Pipeline, Echoed
<1>2. Len(q) = n
  BY <1>1 DEF Asked
<1> HIDE DEF n, q
<1>3. Agree(q, q, a) /\ Echoed \subseteq Echoed /\ 0 \in Nat /\ 0 <= 0 /\ a <= n
      /\ \A i \in Echoed : answers[i] = answers[i]
  BY <1>1 DEF Agree
<1>4. Rising(q, answers, Echoed, 0, n)
  BY <1>1, <1>3, RisingKept, Zenon
<1> PICK place : Rises(place, q, answers, Echoed, 0, n)
  BY <1>4, Zenon DEF Rising
<1>5. 0 + 1 = 1
  OBVIOUS
<1>6. /\ place \in [Echoed -> 1..Len(q)]
      /\ \A i \in Echoed : /\ q[place[i]] = answers[i]
                           /\ \A j \in Echoed : j < i => place[j] < place[i]
  BY <1>2, <1>5, Zenon DEF Rises
<1> QED BY <1>6, Zenon DEF AnswersInOrder, q

\* One echo, whatever else is published: its answers leave the node in the order of the
\* requests, none twice and none for nothing, wherever the threads stand and whenever echo
\* or the router begin to listen (subscription.cpp:39-61, echo.cpp:16-19, router.cpp:48-59).
\* Two echoes on two ports may overtake each other: hence the hypothesis.
THEOREM Answers_In_Order ==
  ASSUME NEW e \in Apps, Apps = {e} PROVE Spec => []AnswersInOrder
<1>1. Init => OrderInv(e)
  BY OrderInit
<1>2. OrderInv(e) /\ [Next]_vars => OrderInv(e)'
  BY OrderNext
<1>3. OrderInv(e) => AnswersInOrder
  BY InOrder
<1> QED BY <1>1, <1>2, <1>3, PTL DEF Spec

\* A set of numbers that begins with 0 and always goes on holds all of them.
LEMMA Induction ==
  ASSUME NEW S, 0 \in S, \A n \in Nat : n \in S => n + 1 \in S
  PROVE  Nat \subseteq S
<1> DEFINE T == Nat \ S
<1>1. T \subseteq Nat /\ (T = {} => Nat \subseteq S)
  OBVIOUS
<1>2. IsWellFoundedOn(OpToRel(<, Nat), Nat)
  BY NatLessThanWellFounded
<1>3. ASSUME T # {} PROVE FALSE
  <2> HIDE DEF T
  <2>1. PICK m \in T : \A y \in T : ~(<<y, m>> \in OpToRel(<, Nat))
    BY <1>1, <1>2, <1>3, WFMin
  <2>2. m \in Nat /\ m \notin S
    BY <2>1 DEF T
  <2>3. m # 0 /\ m - 1 \in Nat /\ m - 1 < m /\ (m - 1) + 1 = m
    BY <2>2
  <2>4. <<m - 1, m>> \in OpToRel(<, Nat)
    BY <2>2, <2>3 DEF OpToRel
  <2>5. m - 1 \in S
    BY <2>1, <2>3, <2>4 DEF T
  <2> QED BY <2>2, <2>3, <2>5
<1> QED BY <1>1, <1>3

\* s[i] is the sum of the first i bytes of b.
Sums(s, b, n) == /\ s \in [0..n -> Nat] /\ s[0] = 0
                 /\ \A i \in 1..n : s[i] = s[i - 1] + b[i]

LEMMA SumsExist ==
  ASSUME NEW n \in Nat, NEW b, \A i \in 1..n : b[i] \in Nat
  PROVE  \E s : Sums(s, b, n)
<1> DEFINE S == {k \in Nat : k <= n => \E s : Sums(s, b, k)}
<1>1. 0 \in S
  <2>1. Sums([i \in 0..0 |-> 0], b, 0)
    BY DEF Sums
  <2> QED BY <2>1
<1>2. ASSUME NEW k \in Nat, k \in S PROVE k + 1 \in S
  <2> SUFFICES ASSUME k + 1 <= n PROVE \E s : Sums(s, b, k + 1)
    OBVIOUS
  <2>1. PICK s : Sums(s, b, k)
    BY <1>2
  <2> DEFINE t == [i \in 0..(k + 1) |-> IF i <= k THEN s[i] ELSE s[k] + b[k + 1]]
  <2>2. b[k + 1] \in Nat /\ \A i \in 0..k : s[i] \in Nat
    BY <2>1 DEF Sums
  <2>3. t[k + 1] = s[k] + b[k + 1] /\ \A i \in 0..k : t[i] = s[i]
    OBVIOUS
  <2>4. t \in [0..(k + 1) -> Nat]
    BY <2>2
  <2> HIDE DEF t
  <2>5. ASSUME NEW i \in 1..(k + 1) PROVE t[i] = t[i - 1] + b[i]
    <3>1. i - 1 \in 0..k /\ (i \in 1..k \/ i = k + 1)
      OBVIOUS
    <3> QED BY <2>1, <2>3, <3>1 DEF Sums
  <2>6. Sums(t, b, k + 1)
    BY <2>1, <2>3, <2>4, <2>5 DEF Sums
  <2> QED BY <2>6
<1> HIDE DEF S
<1>3. n \in S
  BY <1>1, <1>2, Induction
<1> QED BY <1>3 DEF S

\* Whatever way the bytes are added up, the checksum is a byte.
LEMMA ChecksumIsByte ==
  ASSUME NEW b, Len(b) \in Nat, Len(b) > 0, \A i \in 1..Len(b) : b[i] \in Nat
  PROVE  Checksum(b) \in Byte
<1> DEFINE n == Len(b)
           D == (1..n) \X (1..n)
           Half(i, j) == (i + j) \div 2
           Body(g, i, j) == IF i = j THEN b[i] ELSE g[<<i, Half(i, j)>>] + g[<<Half(i, j) + 1, j>>]
           Adds(g) == g = [part \in D |-> Body(g, part[1], part[2])]
           sum == CHOOSE g : Adds(g)
<1>0. Checksum(b) = 255 - (sum[<<1, n>>] % 256)
  BY DEF Checksum
<1> n \in Nat /\ n > 0 /\ \A i \in 1..n : b[i] \in Nat
  OBVIOUS
<1> HIDE DEF n
<1>1. ASSUME NEW i \in 1..n, NEW j \in 1..n, i # j
      PROVE  /\ Half(i, j) \in 1..n /\ Half(i, j) + 1 \in 1..n
             /\ i < j => i <= Half(i, j) /\ Half(i, j) + 1 <= j
  <2> DEFINE h == Half(i, j)
  <2>1. h \in Int /\ 2 * h <= i + j /\ i + j < 2 * h + 2
    OBVIOUS
  <2> HIDE DEF h
  <2>2. h \in 1..n /\ h + 1 \in 1..n /\ (i < j => i <= h /\ h + 1 <= j)
    BY <1>1, <2>1
  <2> QED BY <2>2, Zenon DEF h
<1>2. \A part \in D : part[1] \in 1..n /\ part[2] \in 1..n /\ part = <<part[1], part[2]>>
  OBVIOUS
<1>3. \A i, j \in 1..n : <<i, j>> \in D /\ <<i, j>>[1] = i /\ <<i, j>>[2] = j
  OBVIOUS
<1> HIDE DEF D
<1>4. \E g : Adds(g)
  <2> PICK s : Sums(s, b, n)
    BY SumsExist
  <2> DEFINE g == [part \in D |-> s[part[2]] - s[part[1] - 1]]
  <2>1. \A i \in 0..n : s[i] \in Nat
    BY DEF Sums
  <2>2. \A i, j \in 1..n : g[<<i, j>>] = s[j] - s[i - 1]
    BY <1>3, Zenon
  <2>3. ASSUME NEW i \in 1..n, NEW j \in 1..n
        PROVE  s[j] - s[i - 1] = Body(g, i, j)
    <3>1. i \in 0..n /\ j \in 0..n /\ i - 1 \in 0..n
      OBVIOUS
    <3>2. CASE i = j
      <4>1. s[i] = s[i - 1] + b[i] /\ b[i] \in Nat /\ s[i - 1] \in Nat
        BY <2>1, <3>1 DEF Sums
      <4>2. Body(g, i, j) = b[i]
        BY <3>2, Zenon
      <4> HIDE DEF Body
      <4> QED BY <3>2, <4>1, <4>2
    <3>3. CASE i # j
      <4> DEFINE h == Half(i, j)
      <4>1. h \in 1..n /\ h + 1 \in 1..n
        BY <1>1, <3>3, Zenon
      <4>2. Body(g, i, j) = g[<<i, h>>] + g[<<h + 1, j>>]
        BY <3>3, Zenon
      <4> HIDE DEF h, Half, g, Body
      <4>3. g[<<i, h>>] = s[h] - s[i - 1] /\ g[<<h + 1, j>>] = s[j] - s[(h + 1) - 1]
        BY <2>2, <4>1, Zenon
      <4>4. (h + 1) - 1 = h /\ h \in 0..n
        BY <4>1
      <4>5. s[h] \in Nat /\ s[j] \in Nat /\ s[i - 1] \in Nat
        BY <2>1, <3>1, <4>4, Zenon
      <4>6. (s[h] - s[i - 1]) + (s[j] - s[h]) = s[j] - s[i - 1]
        BY <4>5
      <4> QED BY <4>2, <4>3, <4>4, <4>6, Zenon
    <3> QED BY <3>2, <3>3
  <2> HIDE DEF Body
  <2>4. \A part \in D : s[part[2]] - s[part[1] - 1] = Body(g, part[1], part[2])
    BY <1>2, <2>3, Zenon
  <2>5. g = [part \in D |-> Body(g, part[1], part[2])]
    BY <2>4, Zenon
  <2> QED BY <2>5, Zenon
<1>5. Adds(sum)
  BY <1>4, Zenon
<1> HIDE DEF sum
<1>7. \A i, j \in 1..n : sum[<<i, j>>] = Body(sum, i, j)
  <2> SUFFICES ASSUME NEW i \in 1..n, NEW j \in 1..n PROVE sum[<<i, j>>] = Body(sum, i, j)
    OBVIOUS
  <2> HIDE DEF Body
  <2> QED BY <1>3, <1>5, Zenon
<1> DEFINE T == {k \in Nat : \A i, j \in 1..n : i <= j /\ j - i <= k => sum[<<i, j>>] \in Nat}
<1>8. 0 \in T
  <2> SUFFICES ASSUME NEW i \in 1..n, NEW j \in 1..n, i <= j, j - i <= 0
               PROVE  sum[<<i, j>>] \in Nat
    OBVIOUS
  <2>1. i = j
    OBVIOUS
  <2>2. sum[<<i, j>>] = b[i]
    BY <1>7, <2>1, Zenon
  <2> QED BY <2>2
<1>9. ASSUME NEW k \in Nat, k \in T PROVE k + 1 \in T
  <2>1. k + 1 \in Nat
    OBVIOUS
  <2>2. ASSUME NEW i \in 1..n, NEW j \in 1..n, i <= j, j - i <= k + 1
        PROVE  sum[<<i, j>>] \in Nat
    <3>1. CASE i = j
      <4>1. sum[<<i, j>>] = b[i]
        BY <1>7, <3>1, Zenon
      <4> QED BY <2>2, <4>1
    <3>2. CASE i # j
      <4> DEFINE h == Half(i, j)
      <4>1. h \in 1..n /\ h + 1 \in 1..n /\ i <= h /\ h + 1 <= j
        BY <1>1, <2>2, <3>2
      <4>2. sum[<<i, j>>] = sum[<<i, h>>] + sum[<<h + 1, j>>]
        BY <1>7, <3>2, Zenon
      <4> HIDE DEF h
      <4>3. h - i <= k /\ j - (h + 1) <= k
        BY <2>2, <4>1
      <4>4. sum[<<i, h>>] \in Nat /\ sum[<<h + 1, j>>] \in Nat
        BY <1>9, <4>1, <4>3, Zenon
      <4> QED BY <4>2, <4>4
    <3> QED BY <3>1, <3>2
  <2> QED BY <2>1, <2>2, Zenon DEF T
<1> HIDE DEF T
<1>10. n \in T
  BY <1>8, <1>9, Induction
<1>11. sum[<<1, n>>] \in Nat
  <2>1. 1 \in 1..n /\ n \in 1..n /\ 1 <= n /\ n - 1 <= n
    OBVIOUS
  <2> QED BY <1>10, <2>1, Zenon DEF T
<1> DEFINE x == sum[<<1, n>>]
<1> HIDE DEF x
<1>12. x \in Nat
  BY <1>11 DEF x
<1>13. 255 - (x % 256) \in Byte
  BY <1>12 DEF Byte
<1> QED BY <1>0, <1>13, Zenon DEF x

-----------------------------------------------------------------------------
(* The frames the router sends. *)

LEMMA SerializedBytes ==
  ASSUME NEW S, S \subseteq Nat, Byte \subseteq S, NEW f, IsFrame(f, S), f.type \in Byte
  PROVE  Serialize(f) \in Seq(S)
<1> DEFINE first == <<f.type>>
           two == first \o f.header
           content == two \o f.data
           n == Len(content)
           a == (n \div 256) % 256
           c == n % 256
           sum == Checksum(content)
           start == <<126, a, c>>
           head == start \o content
           last == <<sum>>
<1>1. Serialize(f) = head \o last
  BY Zenon DEF Serialize, Wrapped
<1>2. f.header \in Seq(S) /\ f.data \in Seq(S) /\ f.type \in S
  BY Zenon DEF IsFrame
<1>3. first \in Seq(S) /\ Len(first) = 1
  BY <1>2
<1> HIDE DEF first
<1>4. two \in Seq(S) /\ TwoParts(two, first, f.header)
  BY <1>2, <1>3, Concatenated, Zenon
<1> HIDE DEF two
<1>5. content \in Seq(S) /\ TwoParts(content, two, f.data)
  BY <1>2, <1>4, Concatenated, Zenon
<1> HIDE DEF content
<1>6. n \in Nat /\ n > 0
  <2>1. Len(two) = Len(first) + Len(f.header) /\ n = Len(two) + Len(f.data)
    BY <1>4, <1>5, Zenon DEF TwoParts
  <2>2. Len(f.header) \in Nat /\ Len(f.data) \in Nat
    BY <1>2, LenProperties, Zenon
  <2> DEFINE h == Len(f.header)
             d == Len(f.data)
  <2>3. n = (1 + h) + d /\ h \in Nat /\ d \in Nat
    BY <1>3, <2>1, <2>2, Zenon
  <2> HIDE DEF n, h, d, a, c, sum
  <2> QED BY <2>3
<1>7. \A i \in 1..n : content[i] \in Nat
  BY <1>5, ElementOfSeq, Zenon
<1>8. sum \in Byte
  BY <1>6, <1>7, ChecksumIsByte, Zenon
<1>9. a \in Byte /\ c \in Byte
  <2> HIDE DEF n
  <2> QED BY <1>6 DEF Byte
<1> HIDE DEF a, c, sum
<1>10. start \in Seq(S) /\ last \in Seq(S)
  <2>1. 126 \in S /\ a \in S /\ c \in S /\ sum \in S
    BY <1>8, <1>9 DEF Byte
  <2> QED BY <2>1
<1> HIDE DEF start, last
<1>11. head \in Seq(S)
  BY <1>5, <1>10, ConcatProperties, Zenon
<1> HIDE DEF head
<1>12. head \o last \in Seq(S)
  BY <1>10, <1>11, ConcatProperties, Zenon
<1> QED BY <1>1, <1>12, Zenon

LEMMA MemoryIs == Byte \subseteq Memory /\ Memory \subseteq Nat /\ Memory = 0..256
BY DEF Memory, Byte, Stray

\* What the router says: commands, whose letters are bytes, and packets that fit.
Sayable(f) ==
  /\ IsFrame(f, Memory) /\ f.data \in Seq(Byte)
  /\ f.type \in {Command, Transmit}
  /\ f.type = Command => f.header \in Seq(Byte) /\ Len(f.header) = 3
  /\ Len(f.header) + Len(f.data) + 5 <= 300

\* Two bytes for every command.
Pair(b) == b \in Seq(Byte) /\ Len(b) = 2
LEMMA LettersArePairs == \A k \in 1..7 : Pair(Letters[Script[k]])
<1>1. ASSUME NEW k \in 1..7
      PROVE  Script[k] \in {"FR", "NI", "ID", "SL", "SH", "PL", "MT"}
  BY DEF Script
<1>2. Pair(Letters["FR"])
  <2>1. Letters["FR"] = <<70, 82>>
    BY DEF Letters
  <2>2. Pair(<<70, 82>>)
    BY DEF Pair, Byte
  <2> QED BY <2>1, <2>2, Zenon
<1>3. Pair(Letters["NI"])
  <2>1. Letters["NI"] = <<78, 73>>
    BY DEF Letters
  <2>2. Pair(<<78, 73>>)
    BY DEF Pair, Byte
  <2> QED BY <2>1, <2>2, Zenon
<1>4. Pair(Letters["ID"])
  <2>1. Letters["ID"] = <<73, 68>>
    BY DEF Letters
  <2>2. Pair(<<73, 68>>)
    BY DEF Pair, Byte
  <2> QED BY <2>1, <2>2, Zenon
<1>5. Pair(Letters["SL"])
  <2>1. Letters["SL"] = <<83, 76>>
    BY DEF Letters
  <2>2. Pair(<<83, 76>>)
    BY DEF Pair, Byte
  <2> QED BY <2>1, <2>2, Zenon
<1>6. Pair(Letters["SH"])
  <2>1. Letters["SH"] = <<83, 72>>
    BY DEF Letters
  <2>2. Pair(<<83, 72>>)
    BY DEF Pair, Byte
  <2> QED BY <2>1, <2>2, Zenon
<1>7. Pair(Letters["PL"])
  <2>1. Letters["PL"] = <<80, 76>>
    BY DEF Letters
  <2>2. Pair(<<80, 76>>)
    BY DEF Pair, Byte
  <2> QED BY <2>1, <2>2, Zenon
<1>8. Pair(Letters["MT"])
  <2>1. Letters["MT"] = <<77, 84>>
    BY DEF Letters
  <2>2. Pair(<<77, 84>>)
    BY DEF Pair, Byte
  <2> QED BY <2>1, <2>2, Zenon
<1> QED BY <1>1, <1>2, <1>3, <1>4, <1>5, <1>6, <1>7, <1>8

LEMMA CommandIsSayable == \A k \in 1..7 : Sayable(CommandFrame(Script[k]))
<1> SUFFICES ASSUME NEW k \in 1..7 PROVE Sayable(CommandFrame(Script[k]))
  OBVIOUS
<1> DEFINE one == <<1>>
           letters == Letters[Script[k]]
           header == one \o letters
           f == CommandFrame(Script[k])
<1>1. letters \in Seq(Byte) /\ Len(letters) = 2
  BY LettersArePairs, Zenon DEF Pair
<1>2. one \in Seq(Byte) /\ Len(one) = 1
  BY DEF Byte
<1>3. /\ f = [type |-> f.type, header |-> f.header, data |-> f.data]
      /\ f.type = Command /\ f.header = header
      /\ f.data \in {<<0>>, <<1>>, <<>>}
  BY DEF CommandFrame
<1> HIDE DEF letters, one, f
<1>4. header \in Seq(Byte) /\ TwoParts(header, one, letters)
  BY <1>1, <1>2, Concatenated, Zenon
<1> HIDE DEF header
<1>5. Len(header) = 3
  BY <1>1, <1>2, <1>4 DEF TwoParts
<1>6. f.data \in Seq(Byte) /\ Len(f.data) \in 0..1
  <2>1. /\ <<0>> \in Seq(Byte) /\ Len(<<0>>) \in 0..1
        /\ <<1>> \in Seq(Byte) /\ Len(<<1>>) \in 0..1
        /\ <<>> \in Seq(Byte) /\ Len(<<>>) \in 0..1
    BY DEF Byte
  <2> QED BY <1>3, <2>1, Zenon
<1>7. Width(Command) = 3 /\ Command \in WithData /\ Command \in {Command, Transmit}
  BY DEF Width, WithData, CommandResponse, ModemStatus, Command, CommandQueue, Receive,
         RemoteCommand, RemoteCommandResponse, Transmit, ExplicitTransmit, Status,
         ExplicitReceive
<1>8. Len(f.header) + Len(f.data) + 1 < LengthLimit /\ Len(f.header) + Len(f.data) + 5 <= 300
  <2> DEFINE h == Len(f.header)
             d == Len(f.data)
  <2>1. h = 3 /\ d \in 0..1
    BY <1>3, <1>5, <1>6, Zenon
  <2> HIDE DEF h, d
  <2>2. h + d + 1 < LengthLimit /\ h + d + 5 <= 300
    BY <2>1 DEF LengthLimit
  <2> QED BY <2>2, Zenon DEF h, d
<1>9. header \in Seq(Memory) /\ f.data \in Seq(Memory)
  <2>1. Byte \subseteq Memory
    BY MemoryIs
  <2>2. header \in Seq(Memory)
    BY <1>4, <2>1, SeqMonotonic, Zenon
  <2>3. f.data \in Seq(Memory)
    BY <1>6, <2>1, SeqMonotonic, Zenon
  <2> QED BY <2>2, <2>3
<1>10. IsFrame(f, Memory)
  BY <1>3, <1>5, <1>7, <1>8, <1>9, Zenon DEF IsFrame, Fitting
<1>11. Sayable(f)
  BY <1>3, <1>4, <1>5, <1>6, <1>7, <1>8, <1>10, Zenon DEF Sayable
<1> QED BY <1>11, Zenon DEF f

\* A packet of n bytes.
Bytes(p) == To_frame(p) \in Seq(Byte) /\ Fits(Len(To_frame(p)))

LEMMA TransmitIsSayable ==
  ASSUME NEW id \in Byte, NEW mac \in Seq(Byte), Len(mac) = 8, NEW p, Bytes(p),
         self.network \in Seq(Memory), Len(self.network) = 2
  PROVE  Sayable(TransmitFrame(id, mac, p))
<1> DEFINE one == <<id>>
           two == one \o mac
           three == two \o self.network
           last == <<0, 0>>
           header == three \o last
           data == To_frame(p)
           f == TransmitFrame(id, mac, p)
<1>1. /\ f = [type |-> f.type, header |-> f.header, data |-> f.data]
      /\ f.type = Transmit /\ f.header = header /\ f.data = data
  BY DEF TransmitFrame
<1>2. one \in Seq(Memory) /\ Len(one) = 1 /\ last \in Seq(Memory) /\ Len(last) = 2
  BY MemoryIs
<1>3. data \in Seq(Byte) /\ Fits(Len(data))
  BY Zenon DEF Bytes
<1>4. mac \in Seq(Memory) /\ data \in Seq(Memory)
  <2>1. Byte \subseteq Memory
    BY MemoryIs
  <2> HIDE DEF data
  <2> QED BY <1>3, <2>1, SeqMonotonic, Zenon
<1> HIDE DEF one, last, f, data
<1>5. two \in Seq(Memory) /\ TwoParts(two, one, mac)
  BY <1>2, <1>4, Concatenated, Zenon
<1> HIDE DEF two
<1>6. three \in Seq(Memory) /\ TwoParts(three, two, self.network)
  BY <1>5, Concatenated, Zenon
<1> HIDE DEF three
<1>7. header \in Seq(Memory) /\ TwoParts(header, three, last)
  BY <1>2, <1>6, Concatenated, Zenon
<1> HIDE DEF header
<1>8. Len(header) = 13
  <2>1. /\ Len(two) = Len(one) + Len(mac) /\ Len(three) = Len(two) + Len(self.network)
        /\ Len(header) = Len(three) + Len(last)
    BY <1>5, <1>6, <1>7, Zenon DEF TwoParts
  <2> QED BY <1>2, <2>1
<1>9. Len(header) + Len(data) + 1 < LengthLimit /\ Len(header) + Len(data) + 5 <= 300
  <2>1. Len(data) \in Nat /\ Len(data) < 256
    BY <1>3, LenProperties, Zenon DEF Fits
  <2> QED BY <1>8, <2>1 DEF LengthLimit
<1>10. /\ Width(Transmit) = 13 /\ Transmit \in WithData /\ Transmit # Command
       /\ Transmit \in {Command, Transmit}
  BY DEF Width, WithData, CommandResponse, ModemStatus, Command, CommandQueue, Receive,
         RemoteCommand, RemoteCommandResponse, Transmit, ExplicitTransmit, Status,
         ExplicitReceive
<1>11. IsFrame(f, Memory)
  BY <1>1, <1>4, <1>7, <1>8, <1>9, <1>10, Zenon DEF IsFrame, Fitting
<1>12. Sayable(f)
  BY <1>1, <1>3, <1>9, <1>10, <1>11, Zenon DEF Sayable
<1> QED BY <1>12, Zenon DEF f

\* The packets the router makes.
LEMMA DataBytes ==
  ASSUME NEW p \in DataPackets, Fits(DataSize(Len(p.visited), Len(p.content)))
  PROVE  Bytes(p)
<1>1. /\ To_frame(p) \in Seq(Byte)
      /\ Len(To_frame(p)) = DataSize(Len(p.visited), Len(p.content))
  BY Packets_Survive, Zenon
<1> QED BY <1>1, Zenon DEF Bytes

LEMMA BeaconBytes ==
  ASSUME NEW a \in Byte PROVE Bytes([type |-> "NodeBroadcast", address |-> a])
<1> DEFINE p == [type |-> "NodeBroadcast", address |-> a]
<1>1. p.type = "NodeBroadcast" /\ p.address = a
  OBVIOUS
<1> HIDE DEF p
<1>2. Variable(p) = <<>>
  BY <1>1 DEF Variable
<1>3. TypeCode[p.type] = 254
  BY <1>1 DEF TypeCode
<1>4. To_frame(p) = (<<254>> \o <<a>>) \o <<>>
  BY <1>1, <1>2, <1>3 DEF To_frame
<1> DEFINE one == <<254>>
           two == <<a>>
           b == one \o two
<1>5. one \in Seq(Byte) /\ two \in Seq(Byte) /\ Len(one) = 1 /\ Len(two) = 1
  BY DEF Byte
<1>6. To_frame(p) = b \o <<>>
  BY <1>4, Zenon
<1> HIDE DEF one, two
<1>7. b \in Seq(Byte) /\ TwoParts(b, one, two)
  BY <1>5, Concatenated, Zenon
<1> HIDE DEF b
<1>8. To_frame(p) = b
  BY <1>6, <1>7, ConcatEmptySeq, Zenon
<1>9. Len(b) = 2
  BY <1>5, <1>7 DEF TwoParts
<1>10. Bytes(p)
  BY <1>7, <1>8, <1>9 DEF Bytes, Fits
<1> QED BY <1>10, Zenon DEF p

LEMMA AckBytes ==
  ASSUME NEW p \in DataPackets, NEW self1 \in Byte, NEW status \in Byte
  PROVE  Bytes(AckOf(p, self1, status)) /\ AckOf(p, self1, status).destination \in Byte
<1> DEFINE a == AckOf(p, self1, status)
<1>1. /\ p.source \in Byte /\ p.packet_id \in Byte /\ p.visited \in Seq(Byte)
  BY DEF DataPackets
<1>2. /\ a.type = "Ack" /\ a.source = self1 /\ a.packet_id = p.packet_id
      /\ a.origin = p.source /\ a.status = status /\ a.parameters = <<>>
      /\ a.destination \in {p.source, p.visited[Len(p.visited)]}
      /\ p.visited = <<>> => a.destination = p.source
  BY DEF AckOf
<1>3. a.destination \in Byte
  <2>1. CASE p.visited = <<>>
    BY <1>1, <1>2, <2>1
  <2>2. CASE p.visited # <<>>
    <3>1. p.visited[Len(p.visited)] \in Byte
      BY <1>1, <2>2
    <3> QED BY <1>1, <1>2, <3>1
  <2> QED BY <2>1, <2>2
<1> HIDE DEF a
<1>4. Variable(a) = <<>>
  <2>1. 4 * Len(a.parameters) = 0
    BY <1>2
  <2>2. Variable(a) = [k \in 1..(4 * Len(a.parameters)) |->
                        EntryBytes(a.parameters[(k - 1) \div 4 + 1])[((k - 1) % 4) + 1]]
    BY <1>2, Zenon DEF Variable
  <2>3. \A e : [k \in 1..0 |-> e[k]] = <<>>
    OBVIOUS
  <2> QED BY <2>1, <2>2
<1> DEFINE five == <<a.destination, self1, p.packet_id, p.source, status>>
<1>5. To_frame(a) = <<3>> \o five \o <<>>
  <2>1. TypeCode["Ack"] = 3
    BY DEF TypeCode
  <2> QED BY <1>2, <1>4, <2>1, Zenon DEF To_frame
<1>6. five \in Seq(Byte) /\ <<3>> \in Seq(Byte) /\ Len(five) = 5 /\ Len(<<3>>) = 1
  BY <1>1, <1>3 DEF Byte
<1> HIDE DEF five
<1>7. <<3>> \o five \in Seq(Byte) /\ TwoParts(<<3>> \o five, <<3>>, five)
  BY <1>6, Concatenated, Zenon
<1>8. To_frame(a) = <<3>> \o five
  BY <1>5, <1>7, ConcatEmptySeq, Zenon
<1>9. Len(To_frame(a)) = 6
  BY <1>6, <1>7, <1>8 DEF TwoParts
<1>10. Bytes(a)
  BY <1>7, <1>8, <1>9 DEF Bytes, Fits
<1> QED BY <1>3, <1>10, Zenon DEF a

-----------------------------------------------------------------------------
(* What the radio makes of these frames. *)

\* Every piece ends, at the latest with the last byte.
Ends(b, n, i, j) == (j = n \/ b[j + 1] = 126) /\ \A k \in (i + 1)..j : b[k] # 126

LEMMA PieceEnds ==
  ASSUME NEW b, NEW n \in Nat, NEW i \in 1..n PROVE \E j \in i..n : Ends(b, n, i, j)
<1> DEFINE Found1 == \E j \in i..n : Ends(b, n, i, j)
           S == {m \in Nat : Found1 \/ (i + m <= n /\ \A k \in (i + 1)..(i + m) : b[k] # 126)}
<1>1. 0 \in S
  <2>1. i + 0 <= n /\ \A k \in (i + 1)..(i + 0) : b[k] # 126
    OBVIOUS
  <2> QED BY <2>1
<1>2. ASSUME NEW m \in Nat, m \in S PROVE m + 1 \in S
  <2> SUFFICES ASSUME ~Found1
               PROVE  i + (m + 1) <= n /\ \A k \in (i + 1)..(i + (m + 1)) : b[k] # 126
    OBVIOUS
  <2>1. i + m <= n /\ \A k \in (i + 1)..(i + m) : b[k] # 126
    BY <1>2
  <2>2. i + m \in i..n
    BY <2>1
  <2>3. ~Ends(b, n, i, i + m)
    BY <2>2, Zenon
  <2>4. i + m # n /\ b[(i + m) + 1] # 126
    BY <2>1, <2>3, Zenon DEF Ends
  <2>5. ASSUME NEW k \in (i + 1)..(i + (m + 1)) PROVE b[k] # 126
    <3>1. k \in (i + 1)..(i + m) \/ k = (i + m) + 1
      OBVIOUS
    <3> QED BY <2>1, <2>4, <3>1
  <2>6. i + (m + 1) <= n
    BY <2>1, <2>4
  <2> QED BY <2>5, <2>6
<1> HIDE DEF S
<1>3. n \in S
  BY <1>1, <1>2, Induction
<1>4. ~(i + n <= n)
  OBVIOUS
<1> QED BY <1>3, <1>4 DEF S

LEMMA Pieced ==
  ASSUME NEW b, Len(b) \in Nat, NEW i \in 1..Len(b)
  PROVE  \E j \in i..Len(b) : Ends(b, Len(b), i, j) /\ Piece(b, i) = SubSeq(b, i, j)
<1> DEFINE n == Len(b)
           last == CHOOSE j \in i..n : Ends(b, n, i, j)
<1>1. \E j \in i..n : Ends(b, n, i, j)
  BY PieceEnds, Zenon
<1>2. last \in i..n /\ Ends(b, n, i, last)
  BY <1>1, Zenon
<1>3. Piece(b, i) = SubSeq(b, i, last)
  BY Zenon DEF Piece, Ends
<1> HIDE DEF last
<1> QED BY <1>2, <1>3, Zenon

\* The bytes of a frame that the router sends.
Whole(f, w) ==
  /\ w \in Seq(Memory) /\ Len(w) = Len(f.header) + Len(f.data) + 5 /\ Len(w) >= 4
  /\ w[1] = 126 /\ FrameSize(w) = Len(w) /\ Unserialize(w) = f

LEMMA SayableIsWhole == ASSUME NEW f, Sayable(f) PROVE Whole(f, Serialize(f))
<1> DEFINE w == Serialize(f)
           h == Len(f.header)
           d == Len(f.data)
<1>1. IsFrame(f, Memory) /\ f.type \in {Command, Transmit}
  BY Zenon DEF Sayable
<1>2. Byte \subseteq Memory /\ Memory \subseteq Nat
  BY MemoryIs
<1>3. f.type \in Byte
  BY <1>1 DEF Command, Transmit, Byte
<1>4. w \in Seq(Memory)
  BY <1>1, <1>2, <1>3, SerializedBytes, Zenon
<1>5. <<>> \in Seq(Memory)
  BY EmptySeq, Zenon
<1>6. ReadsAs(w \o <<>>, w, f) /\ Len(w) = h + d + 5
  BY <1>1, <1>5, FrameRead, Zenon
<1>7. w[1] = 126
  <2> DEFINE content == <<f.type>> \o f.header \o f.data
             a == (Len(content) \div 256) % 256
             c == Len(content) % 256
             sum == Checksum(content)
             start == <<126, a, c>>
             head == start \o content
             last == <<sum>>
             T == Memory \cup {f.type, 126, a, c, sum}
  <2>1. w = head \o last
    BY Zenon DEF Serialize, Wrapped
  <2>2. content \in Seq(Memory)
    <3> DEFINE one == <<f.type>>
               two == one \o f.header
    <3>1. one \in Seq(Memory)
      <4> HIDE DEF content, a, c, sum, start, head, last, T, two
      <4>1. f.type \in Memory
        BY <1>2, <1>3, Zenon
      <4> HIDE DEF w, h, d
      <4> QED BY <4>1
    <3> HIDE DEF one
    <3>2. two \in Seq(Memory)
      BY <1>1, <3>1, ConcatProperties, Zenon DEF IsFrame
    <3> HIDE DEF two
    <3>3. two \o f.data \in Seq(Memory)
      BY <1>1, <3>2, ConcatProperties, Zenon DEF IsFrame
    <3> QED BY <3>3, Zenon DEF two, one
  <2> HIDE DEF content, a, c, sum
  <2>3. Memory \subseteq T /\ start \in Seq(T) /\ last \in Seq(T) /\ Len(start) = 3
        /\ start[1] = 126
    OBVIOUS
  <2> HIDE DEF T, start, last
  <2>4. content \in Seq(T)
    BY <2>2, <2>3, SeqMonotonic, Zenon
  <2>5. head \in Seq(T) /\ TwoParts(head, start, content)
    BY <2>3, <2>4, Concatenated, Zenon
  <2> HIDE DEF head
  <2>6. TwoParts(head \o last, head, last)
    BY <2>3, <2>5, Concatenated, Zenon
  <2>7. 1 \in 1..Len(start) /\ 1 \in 1..Len(head)
    <3>1. Len(head) = Len(start) + Len(content) /\ Len(content) \in Nat
      BY <2>4, <2>5, LenProperties, Zenon DEF TwoParts
    <3>2. Len(start) = 3
      BY <2>3, Zenon
    <3> DEFINE s == Len(start)
               t == Len(head)
               r == Len(content)
    <3>3. t = s + r /\ r \in Nat /\ s = 3
      BY <3>1, <3>2, Zenon
    <3> HIDE DEF s, t, r
    <3>4. 1 \in 1..s /\ 1 \in 1..t
      BY <3>3
    <3> QED BY <3>4, Zenon DEF s, t
  <2>8. head[1] = 126 /\ (head \o last)[1] = head[1]
    <3>1. head[1] = start[1]
      BY <2>5, <2>7, Zenon DEF TwoParts
    <3>2. (head \o last)[1] = head[1]
      BY <2>6, <2>7, Zenon DEF TwoParts
    <3>3. start[1] = 126
      BY <2>3, Zenon
    <3> QED BY <3>1, <3>2, <3>3
  <2> QED BY <2>1, <2>8, Zenon
<1> HIDE DEF w
<1>8. w \o <<>> = w
  BY <1>4, ConcatEmptySeq, Zenon
<1>9. FrameSize(w) = Len(w) /\ Unserialize(w) = f
  BY <1>6, <1>8, Zenon DEF ReadsAs
<1>10. Len(w) >= 4
  <2>1. h \in Nat /\ d \in Nat
    BY <1>1, LenProperties, Zenon DEF IsFrame
  <2> HIDE DEF h, d
  <2> QED BY <1>6, <2>1
<1> QED BY <1>4, <1>6, <1>7, <1>9, <1>10, Zenon DEF Whole, w

\* The size of a frame is in its second and third byte.
SizeAt(b, i) == 256 * b[i + 1] + b[i + 2] + 4
LEMMA SizeInPart ==
  ASSUME NEW b \in Seq(Memory), NEW i \in 1..Len(b), NEW j \in i..Len(b), 4 <= j - i + 1
  PROVE  FrameSize(SubSeq(b, i, j)) = SizeAt(b, i) /\ SizeAt(b, i) \in Nat
<1> DEFINE p == SubSeq(b, i, j)
<1>1. Len(b) \in Nat /\ \A k \in 1..Len(b) : b[k] \in Nat
  <2>1. Len(b) \in Nat
    BY LenProperties, Zenon
  <2>2. Memory \subseteq Nat
    BY MemoryIs, Zenon
  <2>3. \A k \in 1..Len(b) : b[k] \in Memory
    BY ElementOfSeq, Zenon
  <2> QED BY <2>1, <2>2, <2>3, Zenon
<1>2. \A k \in i..j : b[k] \in Nat
  BY <1>1
<1>3. i \in Int /\ j \in Int
  BY <1>1
<1>4. \A k \in 1..(j - i + 1) : p[k] = b[i + k - 1]
  BY <1>2, <1>3, SubSeqProperties
<1> HIDE DEF p
<1>5. /\ 2 \in 1..(j - i + 1) /\ 3 \in 1..(j - i + 1) /\ i + 2 - 1 = i + 1 /\ i + 3 - 1 = i + 2
      /\ i + 1 \in i..j /\ i + 2 \in i..j
  BY <1>1
<1>6. p[2] = b[i + 1] /\ p[3] = b[i + 2]
  BY <1>4, <1>5, Zenon
<1>7. FrameSize(p) = SizeAt(b, i)
  BY <1>6, Zenon DEF FrameSize, SizeAt
<1>8. SizeAt(b, i) \in Nat
  BY <1>2, <1>5 DEF SizeAt
<1> QED BY <1>7, <1>8, Zenon DEF p

\* The radio finds one frame in the bytes of a frame, or none.
LEMMA RadioFinds ==
  ASSUME NEW f, NEW w, w = Serialize(f), Whole(f, w), Single(f)
  PROVE  /\ Unmarked(f) => Found(w) = {1} /\ Piece(w, 1) = w
         /\ ~Unmarked(f) => Found(w) = {}
<1> DEFINE n == Len(w)
           Enough(p) == Len(p) >= 4 /\ Len(p) >= FrameSize(p)
<1>1. w \in Seq(Memory) /\ n >= 4 /\ w[1] = 126 /\ FrameSize(w) = n /\ n \in Nat
  BY LenProperties, Zenon DEF Whole
<1>2. ASSUME NEW i \in 1..n PROVE w[i] \in Nat
  <2>1. w[i] \in Memory
    BY <1>1, ElementOfSeq, Zenon
  <2> QED BY <2>1, MemoryIs
<1>3. Found(w) = {i \in 1..n : w[i] = 126 /\ Enough(Piece(w, i))}
  BY Zenon DEF Found
<1>4. SubSeq(w, 1, n) = w
  BY <1>1, SubSeqFull
<1>5. ASSUME NEW i \in 1..n, NEW j \in i..n
      PROVE  Len(SubSeq(w, i, j)) = j - i + 1
  <2>1. \A k \in i..j : w[k] \in Nat
    BY <1>1, <1>2
  <2>2. i \in Int /\ j \in Int /\ i <= j
    BY <1>1
  <2>3. Len(SubSeq(w, i, j)) = IF i <= j THEN j - i + 1 ELSE 0
    BY <2>1, <2>2, SubSeqProperties
  <2> QED BY <2>2, <2>3
<1>6. ASSUME NEW i \in 2..n, w[i] = 126 PROVE ~Enough(Piece(w, i))
  <2> SUFFICES ASSUME Enough(Piece(w, i)) PROVE FALSE
    OBVIOUS
  <2>1. i \in 1..n
    BY <1>1
  <2> PICK j \in i..n : Piece(w, i) = SubSeq(w, i, j)
    BY <1>1, <2>1, Pieced, Zenon
  <2> DEFINE size == FrameSize(SubSeq(w, i, j))
  <2>2. j - i + 1 >= 4 /\ j - i + 1 >= size
    BY <1>5, <2>1, Zenon
  <2>8. 4 <= j - i + 1
    BY <1>1, <2>2
  <2>3. size = SizeAt(w, i) /\ size \in Nat
    BY <1>1, <2>1, <2>8, SizeInPart, Zenon
  <2>4. n \in i..n /\ 4 <= n - i + 1 /\ i \in 2..(n - 3)
    BY <1>1, <2>8
  <2>5. FrameSize(SubSeq(w, i, n)) = SizeAt(w, i)
    BY <1>1, <2>1, <2>4, SizeInPart, Zenon
  <2>6. FrameSize(SubSeq(w, i, n)) > n - i + 1
    BY <1>6, <2>4, Zenon DEF Single
  <2>7. size > n - i + 1
    BY <2>3, <2>5, <2>6, Zenon
  <2> HIDE DEF size
  <2> QED BY <1>1, <2>2, <2>3, <2>7
<1> PICK e \in 1..n : Ends(w, n, 1, e) /\ Piece(w, 1) = SubSeq(w, 1, e)
  <2>1. 1 \in 1..n
    BY <1>1
  <2> QED BY <1>1, <2>1, Pieced, Zenon
<1>7. 1 \in 1..n /\ Len(Piece(w, 1)) = e
  <2>1. 1 \in 1..n /\ e - 1 + 1 = e
    BY <1>1
  <2> QED BY <1>5, <2>1, Zenon
<1>8. ASSUME Unmarked(f) PROVE Found(w) = {1} /\ Piece(w, 1) = w
  <2>1. e = n
    <3> SUFFICES ASSUME e # n PROVE FALSE
      OBVIOUS
    <3>1. e + 1 \in 2..n
      BY <1>1
    <3>2. w[e + 1] = 126
      BY Zenon DEF Ends
    <3> QED BY <1>8, <3>1, <3>2, Zenon DEF Unmarked
  <2>2. Piece(w, 1) = w
    BY <1>4, <2>1, Zenon
  <2>3. n >= n
    BY <1>1
  <2>4. Enough(Piece(w, 1))
    <3>1. Len(w) >= 4 /\ Len(w) >= FrameSize(w)
      BY <1>1, <2>3, Zenon
    <3> HIDE DEF n
    <3> QED BY <2>2, <3>1, Zenon
  <2> HIDE DEF Enough, n
  <2>5. \A i \in 1..n : i = 1 \/ i \in 2..n
    BY <1>1
  <2>6. \A i : i \in Found(w) <=> i = 1
    BY <1>1, <1>3, <1>6, <1>7, <2>4, <2>5, Zenon
  <2> QED BY <2>2, <2>6, Zenon
<1>9. ASSUME ~Unmarked(f) PROVE Found(w) = {}
  <2>1. PICK m \in 2..n : w[m] = 126
    BY <1>9, Zenon DEF Unmarked
  <2>2. e < n
    <3> SUFFICES ASSUME e = n PROVE FALSE
      BY <1>1
    <3>1. m \in (1 + 1)..e
      BY <1>1
    <3> QED BY <2>1, <3>1, Zenon DEF Ends
  <2>3. ~Enough(Piece(w, 1))
    <3> SUFFICES ASSUME Enough(Piece(w, 1)) PROVE FALSE
      OBVIOUS
    <3>1. e >= 4 /\ e >= FrameSize(SubSeq(w, 1, e))
      BY <1>7, Zenon
    <3>2. 4 <= e - 1 + 1 /\ 4 <= n - 1 + 1 /\ n \in 1..n /\ 1 \in 1..n
      BY <1>1, <3>1
    <3>3. FrameSize(SubSeq(w, 1, e)) = FrameSize(SubSeq(w, 1, n))
      BY <1>1, <3>2, SizeInPart, Zenon
    <3>4. e >= n
      BY <1>1, <1>4, <3>1, <3>3, Zenon
    <3> QED BY <1>1, <2>2, <3>4
  <2> HIDE DEF Enough, n
  <2>4. \A i \in 1..n : i = 1 \/ i \in 2..n
    BY <1>1
  <2>5. \A i : i \notin Found(w)
    BY <1>3, <1>6, <2>3, <2>4, Zenon
  <2> QED BY <2>5, Zenon
<1> QED BY <1>8, <1>9

-----------------------------------------------------------------------------
(* What the router has said, and what the radio has heard of it. *)

\* Which of the first n frames of s the radio understands.
Among(s, n) == {k \in 1..n : Unmarked(s[k])}
Place(s, n) == Cardinality(Among(s, n))

LEMMA Places ==
  ASSUME NEW s, NEW n \in Nat
  PROVE  /\ Place(s, n) \in Nat /\ \A k \in Among(s, n) : Place(s, k) \in 1..Place(s, n)
         /\ Unmarked(s[n + 1]) => Among(s, n + 1) = Among(s, n) \cup {n + 1}
                                   /\ Place(s, n + 1) = Place(s, n) + 1
         /\ ~Unmarked(s[n + 1]) => Among(s, n + 1) = Among(s, n)
<1>1. Among(s, n) \in SUBSET (1..n)
  BY DEF Among
<1>2. Place(s, n) \in Nat /\ IsFiniteSet(Among(s, n))
  BY <1>1, Counted, Zenon DEF Place
<1>3. ASSUME NEW k \in Among(s, n) PROVE Place(s, k) \in 1..Place(s, n)
  <2>1. k \in 1..n /\ Unmarked(s[k])
    BY <1>3, Zenon DEF Among
  <2>2. k \in Nat /\ k \in 1..k /\ \A j \in 1..k : j \in 1..n
    BY <2>1
  <2>3. Among(s, k) \subseteq Among(s, n)
    BY <2>2 DEF Among
  <2>4. Among(s, k) \in SUBSET (1..k) /\ k \in Among(s, k)
    BY <2>1, <2>2 DEF Among
  <2>5. Place(s, k) \in Nat /\ Place(s, k) > 0
    <3>1. Among(s, k) # {}
      BY <2>4, Zenon
    <3> QED BY <2>2, <2>4, <3>1, Counted, Zenon DEF Place
  <2>6. Place(s, k) <= Place(s, n)
    BY <1>2, <2>3, FS_Subset, Zenon DEF Place
  <2> QED BY <1>2, <2>5, <2>6
<1>4. 1..(n + 1) = (1..n) \cup {n + 1}
  OBVIOUS
<1>5. ASSUME Unmarked(s[n + 1])
      PROVE  Among(s, n + 1) = Among(s, n) \cup {n + 1} /\ Place(s, n + 1) = Place(s, n) + 1
  <2>1. Among(s, n + 1) = Among(s, n) \cup {n + 1}
    BY <1>4, <1>5, Zenon DEF Among
  <2>2. Cardinality(Among(s, n) \cup {n + 1}) = Cardinality(Among(s, n)) + 1
    BY <1>1, Counted, Zenon
  <2> QED BY <2>1, <2>2, Zenon DEF Place
<1>6. ASSUME ~Unmarked(s[n + 1]) PROVE Among(s, n + 1) = Among(s, n)
  BY <1>4, <1>6, Zenon DEF Among
<1> QED BY <1>2, <1>3, <1>5, <1>6, Zenon

\* h holds those of the first n frames of s, in their order.
HeardOf(h, s, n) ==
  IsList(h) /\ Len(h) = Place(s, n) /\ \A k \in Among(s, n) : h[Place(s, k)] = s[k]

LEMMA HeardStays ==
  ASSUME NEW h, NEW s, NEW n \in Nat, HeardOf(h, s, n), NEW t, \A k \in 1..n : t[k] = s[k]
  PROVE  HeardOf(h, t, n)
<1>1. ASSUME NEW k \in 0..n PROVE Among(t, k) = Among(s, k) /\ Place(t, k) = Place(s, k)
  <2>1. \A j \in 1..k : j \in 1..n
    OBVIOUS
  <2>2. \A j \in 1..k : t[j] = s[j]
    BY <2>1, Zenon
  <2>3. Among(t, k) = Among(s, k)
    BY <2>2, Zenon DEF Among
  <2> QED BY <2>3, Zenon DEF Place
<1>2. n \in 0..n /\ \A k \in 1..n : k \in 0..n
  OBVIOUS
<1>3. \A k \in Among(s, n) : k \in 1..n
  BY Zenon DEF Among
<1>4. ASSUME NEW k \in Among(s, n) PROVE h[Place(t, k)] = t[k]
  BY <1>1, <1>2, <1>3, Zenon DEF HeardOf
<1> QED BY <1>1, <1>2, <1>4, Zenon DEF HeardOf

LEMMA HearsMore ==
  ASSUME NEW h, NEW s, NEW n \in Nat, HeardOf(h, s, n), Unmarked(s[n + 1]),
         NEW g, Grown(g, h, s[n + 1])
  PROVE  HeardOf(g, s, n + 1)
<1>1. /\ Place(s, n) \in Nat /\ \A k \in Among(s, n) : Place(s, k) \in 1..Place(s, n)
      /\ Among(s, n + 1) = Among(s, n) \cup {n + 1} /\ Place(s, n + 1) = Place(s, n) + 1
  BY Places, Zenon
<1>2. /\ IsList(g) /\ Len(g) = Len(h) + 1 /\ g[Len(h) + 1] = s[n + 1]
      /\ \A i \in 1..Len(h) : g[i] = h[i]
  BY Zenon DEF Grown
<1>3. Len(h) = Place(s, n) /\ \A k \in Among(s, n) : h[Place(s, k)] = s[k]
  BY Zenon DEF HeardOf
<1>4. ASSUME NEW k \in Among(s, n + 1) PROVE g[Place(s, k)] = s[k]
  <2>1. CASE k \in Among(s, n)
    BY <1>1, <1>2, <1>3, <2>1, Zenon
  <2>2. CASE k = n + 1
    BY <1>1, <1>2, <1>3, <2>2, Zenon
  <2> QED BY <1>1, <2>1, <2>2
<1> QED BY <1>1, <1>2, <1>3, <1>4, Zenon DEF HeardOf

LEMMA HearsNothing ==
  ASSUME NEW h, NEW s, NEW n \in Nat, HeardOf(h, s, n), ~Unmarked(s[n + 1])
  PROVE  HeardOf(h, s, n + 1)
<1>1. Among(s, n + 1) = Among(s, n)
  BY Places, Zenon
<1>2. Place(s, n + 1) = Place(s, n)
  BY <1>1, Zenon DEF Place
<1> QED BY <1>1, <1>2, Zenon DEF HeardOf

\* What is on the line are the last frames the router has said.
OnLine(d, s) ==
  /\ IsList(d) /\ IsList(s) /\ Len(d) <= Len(s)
  /\ \A i \in 1..Len(d) : d[i] = Serialize(s[Len(s) - Len(d) + i])
AllSayable(s) == \A i \in 1..Len(s) : Sayable(s[i])

Talk == OnLine(down, said) /\ AllSayable(said) /\ HeardOf(heard, said, Len(said) - Len(down))

LEMMA TalkHeard == ASSUME Talk PROVE OnlyMarkedLost
<1> DEFINE n == Len(said) - Len(down)
<1>1. Audible = Among(said, n)
  BY Zenon DEF Audible, Among
<1>2. Len(heard) = Place(said, n) /\ \A k \in Among(said, n) : heard[Place(said, k)] = said[k]
  BY Zenon DEF Talk, HeardOf
<1>3. n \in Nat
  <2>1. Len(said) \in Nat /\ Len(down) \in Nat /\ Len(down) <= Len(said)
    BY LenProperties, Zenon DEF Talk, OnLine, IsList
  <2> QED BY <2>1
<1> HIDE DEF n
<1>4. ASSUME NEW k \in Among(said, n)
      PROVE  {j \in Among(said, n) : j <= k} = Among(said, k)
  <2>1. k \in 1..n
    BY <1>4, Zenon DEF Among
  <2>2. \A j : j \in 1..n /\ j <= k <=> j \in 1..k
    BY <1>3, <2>1
  <2> QED BY <2>2, Zenon DEF Among
<1>5. Len(heard) = Cardinality(Audible)
  BY <1>1, <1>2, Zenon DEF Place
<1>6. ASSUME NEW k \in Audible PROVE heard[Cardinality({j \in Audible : j <= k})] = said[k]
  BY <1>1, <1>2, <1>4, <1>6, Zenon DEF Place
<1> QED BY <1>5, <1>6, Zenon DEF OnlyMarkedLost

LEMMA TalkStutter == ASSUME Talk, UNCHANGED <<down, said, heard>> PROVE Talk'
<1>1. down' = down /\ said' = said /\ heard' = heard
  OBVIOUS
<1> QED BY <1>1, Zenon DEF Talk

LEMMA TalkWrites ==
  ASSUME Talk, NEW f, Sayable(f), Write(f), heard' = heard PROVE Talk'
<1> DEFINE d == Len(down)
           m == Len(said)
           w == Serialize(f)
<1>1. OnLine(down, said) /\ AllSayable(said) /\ HeardOf(heard, said, m - d)
  BY Zenon DEF Talk
<1>2. Grown(said', said, f) /\ Grown(down', down, w)
  <2>1. said' = Append(said, f) /\ down' = Append(down, w)
    BY Zenon DEF Write
  <2> HIDE DEF w
  <2> QED BY <1>1, <2>1, Grows, Zenon DEF OnLine
<1> HIDE DEF w
<1>3. /\ IsList(said') /\ m \in Nat /\ Len(said') = m + 1
      /\ said'[m + 1] = f /\ \A i \in 1..m : said'[i] = said[i]
      /\ IsList(down') /\ d \in Nat /\ Len(down') = d + 1
      /\ down'[d + 1] = w /\ \A i \in 1..d : down'[i] = down[i]
  BY <1>2, Zenon DEF Grown
<1>4. d <= m /\ \A i \in 1..d : down[i] = Serialize(said[m - d + i])
  BY <1>1, Zenon DEF OnLine
<1> HIDE DEF d, m
<1>5. (m + 1) - (d + 1) = m - d /\ m - d \in Nat /\ d + 1 <= m + 1 /\ m - d <= m
  BY <1>3, <1>4
<1>6. ASSUME NEW i \in 1..(d + 1) PROVE down'[i] = Serialize(said'[(m + 1) - (d + 1) + i])
  <2>1. CASE i \in 1..d
    <3>1. m - d + i \in 1..m
      BY <1>3, <1>4, <2>1
    <3> QED BY <1>3, <1>4, <1>5, <2>1, <3>1, Zenon
  <2>2. CASE i = d + 1
    <3>1. m - d + (d + 1) = m + 1
      BY <1>3
    <3> QED BY <1>3, <1>5, <2>2, <3>1, Zenon DEF w
  <2> QED BY <1>3, <2>1, <2>2
<1>7. OnLine(down', said')
  BY <1>3, <1>5, <1>6, Zenon DEF OnLine
<1>8. AllSayable(said')
  <2> SUFFICES ASSUME NEW i \in 1..(m + 1) PROVE Sayable(said'[i])
    BY <1>3, Zenon DEF AllSayable
  <2>1. i \in 1..m \/ i = m + 1
    BY <1>3
  <2> QED BY <1>1, <1>3, <2>1, Zenon DEF AllSayable, m
<1>9. HeardOf(heard', said', Len(said') - Len(down'))
  <2>1. \A k \in 1..(m - d) : said'[k] = said[k]
    <3>1. \A k \in 1..(m - d) : k \in 1..m
      BY <1>3, <1>5
    <3> QED BY <1>3, <3>1, Zenon
  <2>2. HeardOf(heard, said', m - d)
    BY <1>1, <1>5, <2>1, HeardStays, Zenon DEF m, d
  <2> QED BY <1>3, <1>5, <2>2, Zenon
<1> QED BY <1>7, <1>8, <1>9, Zenon DEF Talk

LEMMA TalkListens ==
  ASSUME Talk, Listen, \A k \in 1..Len(said) : Single(said[k]) PROVE Talk'
<1> DEFINE d == Len(down)
           m == Len(said)
           n == m - d
           f == said[n + 1]
           w == Serialize(f)
           rest == Tail(down)
<1>1. OnLine(down, said) /\ AllSayable(said) /\ HeardOf(heard, said, n)
  BY Zenon DEF Talk
<1>2. /\ IsList(down) /\ IsList(said) /\ d <= m
      /\ \A i \in 1..d : down[i] = Serialize(said[m - d + i])
  BY <1>1, Zenon DEF OnLine
<1>3. down # <<>> /\ said' = said
  BY Zenon DEF Listen
<1>4. m \in Nat /\ d \in Nat
  BY <1>2, LenProperties, Zenon DEF IsList
<1>5. /\ Head(down) = down[1] /\ IsList(rest) /\ Len(rest) = d - 1 /\ 1 \in 1..d
      /\ <<>> \o rest = rest /\ \A i \in 1..(d - 1) : rest[i] = down[i + 1]
  <2> PICK S : down \in Seq(S)
    BY <1>2, Zenon DEF IsList
  <2>1. /\ Head(down) = down[1] /\ rest \in Seq(S) /\ Len(rest) = d - 1 /\ 1 \in 1..d
        /\ \A i \in 1..(d - 1) : rest[i] = down[i + 1]
    BY <1>3
  <2>2. <<>> \o rest = rest
    <3> HIDE DEF rest
    <3> QED BY <2>1, ConcatEmptySeq, Zenon
  <2> QED BY <2>1, <2>2, Zenon DEF IsList
<1> HIDE DEF rest
<1>6. n \in Nat /\ n + 1 \in 1..m /\ m - d + 1 = n + 1 /\ m - (d - 1) = n + 1 /\ d - 1 <= m
  BY <1>2, <1>4, <1>5
<1>7. Head(down) = w /\ Sayable(f) /\ Single(f)
  BY <1>1, <1>2, <1>5, <1>6, Zenon DEF AllSayable
<1>8. Whole(f, w) /\ Unserialize(w) = f
  <2>1. Whole(f, w)
    BY <1>7, SayableIsWhole, Zenon
  <2> HIDE DEF f, w
  <2> QED BY <2>1, Zenon DEF Whole
<1> HIDE DEF w
<1>9. /\ Unmarked(f) => Found(w) = {1} /\ Piece(w, 1) = w
      /\ ~Unmarked(f) => Found(w) = {}
  BY <1>7, <1>8, RadioFinds, Zenon DEF w
<1> HIDE DEF f, n
<1>10. \/ Found(w) = {} /\ down' = rest /\ heard' = heard
       \/ \E i \in Found(w) :
            /\ down' = (IF Found(w) = {i} THEN <<>> ELSE <<SubSeq(w, i + 1, Len(w))>>) \o rest
            /\ heard' = Append(heard, Unserialize(Piece(w, i)))
  BY <1>7, Zenon DEF Listen, rest
<1>11. /\ down' = rest
       /\ IF Unmarked(f) THEN heard' = Append(heard, f) ELSE heard' = heard
  <2>1. CASE Unmarked(f)
    <3>1. Found(w) = {1} /\ Piece(w, 1) = w
      BY <1>9, <2>1
    <3>2. Found(w) # {}
      BY <3>1
    <3>3. PICK i \in Found(w) :
            /\ down' = (IF Found(w) = {i} THEN <<>> ELSE <<SubSeq(w, i + 1, Len(w))>>) \o rest
            /\ heard' = Append(heard, Unserialize(Piece(w, i)))
      BY <1>10, <3>2, Zenon
    <3>4. i = 1
      BY <3>1, <3>3
    <3>5. down' = <<>> \o rest /\ heard' = Append(heard, f)
      BY <1>8, <3>1, <3>3, <3>4, Zenon
    <3> QED BY <1>5, <2>1, <3>5, Zenon
  <2>2. CASE ~Unmarked(f)
    <3>1. Found(w) = {}
      BY <1>9, <2>2
    <3>2. down' = rest /\ heard' = heard
      BY <1>10, <3>1, Zenon
    <3> QED BY <2>2, <3>2
  <2> QED BY <2>1, <2>2
<1>12. HeardOf(heard', said, n + 1)
  <2>1. CASE Unmarked(f)
    <3>1. Grown(heard', heard, f)
      <4>1. heard' = Append(heard, f)
        BY <1>11, <2>1, Zenon
      <4> QED BY <1>1, <4>1, Grows, Zenon DEF HeardOf
    <3> QED BY <1>1, <1>6, <2>1, <3>1, HearsMore, Zenon DEF f
  <2>2. CASE ~Unmarked(f)
    <3>1. heard' = heard
      BY <1>11, <2>2, Zenon
    <3> QED BY <1>1, <1>6, <2>2, <3>1, HearsNothing, Zenon DEF f
  <2> QED BY <2>1, <2>2
<1>13. OnLine(down', said')
  <2>1. ASSUME NEW i \in 1..(d - 1) PROVE rest[i] = Serialize(said[m - (d - 1) + i])
    <3>1. i + 1 \in 1..d /\ m - d + (i + 1) = m - (d - 1) + i
      BY <1>4
    <3>2. rest[i] = down[i + 1] /\ down[i + 1] = Serialize(said[m - d + (i + 1)])
      BY <1>2, <1>5, <3>1, Zenon
    <3> QED BY <3>1, <3>2, Zenon
  <2>2. down' = rest
    BY <1>11, Zenon
  <2> QED BY <1>2, <1>3, <1>5, <1>6, <2>1, <2>2, Zenon DEF OnLine
<1>14. HeardOf(heard', said', Len(said') - Len(down')) /\ AllSayable(said')
  <2>1. down' = rest
    BY <1>11, Zenon
  <2>2. Len(said') - Len(down') = n + 1
    BY <1>3, <1>5, <1>6, <2>1, Zenon
  <2> QED BY <1>1, <1>3, <1>12, <2>2, Zenon
<1> QED BY <1>13, <1>14, Zenon DEF Talk

-----------------------------------------------------------------------------
(* What the constructor learns, and the bytes and frames of the line. *)

\* The radio has sent nothing whose length it could not write, and nothing was torn.
OnCourse == ~torn /\ \A i \in 1..Len(sent) : Correct(sent[i])

Learning ==
  /\ step \in 1..8 /\ waiting \in BOOLEAN /\ (waiting => step <= 7)
  /\ self \in [network : [1..2 -> Memory], mac : [1..8 -> Memory]]

ByteFrame(f) == IsFrame(f, Byte) /\ f.type \in Byte
Wire ==
  /\ up \in Seq(Byte)
  /\ IsList(sent) /\ \A i \in 1..Len(sent) : ByteFrame(sent[i])
  /\ IsList(taken) /\ \A i \in 1..Len(taken) : taken[i].type \in Byte

\* A function of 1..n is a list.
LEMMA AsList ==
  ASSUME NEW S, NEW n \in Nat, NEW v \in [1..n -> S] PROVE v \in Seq(S) /\ Len(v) = n
<1>1. v \in UNION {[1..k -> S] : k \in Nat}
  OBVIOUS
<1>2. v \in Seq(S)
  BY <1>1, SeqDef, Zenon
<1>3. DOMAIN v = 1..Len(v) /\ Len(v) \in Nat /\ DOMAIN v = 1..n
  BY <1>2, LenProperties, Zenon
<1>4. Len(v) = n
  <2> DEFINE m == Len(v)
  <2>1. 1..m = 1..n /\ m \in Nat
    BY <1>3, Zenon
  <2> HIDE DEF m
  <2>2. m <= n
    <3> SUFFICES ASSUME m > n PROVE FALSE
      BY <2>1
    <3>1. m \in 1..m /\ m \notin 1..n
      BY <2>1
    <3> QED BY <2>1, <3>1, Zenon
  <2>3. n <= m
    <3> SUFFICES ASSUME n > m PROVE FALSE
      BY <2>1
    <3>1. n \in 1..n /\ n \notin 1..m
      BY <2>1
    <3> QED BY <2>1, <3>1, Zenon
  <2>4. m = n
    BY <2>1, <2>2, <2>3
  <2> QED BY <2>4, Zenon DEF m
<1> QED BY <1>2, <1>4

LEMMA Remembered ==
  ASSUME NEW b \in Seq(Byte), NEW n \in Nat
  PROVE  InMemory(b, n) \in [1..n -> Memory]
<1>1. ASSUME NEW i \in 1..n PROVE (IF i <= Len(b) THEN b[i] ELSE Stray) \in Memory
  <2>1. Byte \subseteq Memory /\ Stray \in Memory
    BY DEF Memory
  <2>2. CASE i <= Len(b)
    <3>1. i \in 1..Len(b)
      BY <2>2, LenProperties
    <3>2. b[i] \in Byte
      BY <3>1, ElementOfSeq, Zenon
    <3> QED BY <2>1, <2>2, <3>2, Zenon
  <2>3. CASE ~(i <= Len(b))
    BY <2>1, <2>3, Zenon
  <2> QED BY <2>2, <2>3
<1> QED BY <1>1, Zenon DEF InMemory

\* Two halves of a MAC.
LEMMA Halves ==
  ASSUME NEW x \in Seq(Memory), NEW y \in Seq(Memory), Len(x) = 4, Len(y) = 4
  PROVE  x \o y \in [1..8 -> Memory]
<1> DEFINE t == x \o y
<1>1. t \in Seq(Memory) /\ Len(t) = Len(x) + Len(y)
  BY Concatenated, Zenon DEF TwoParts
<1> HIDE DEF t
<1>2. Len(t) = 8
  BY <1>1
<1>3. t \in [1..8 -> Memory]
  BY <1>1, <1>2, LenProperties, Zenon
<1> QED BY <1>3, Zenon DEF t

LEMMA LearntKeepsTypes ==
  ASSUME Learning, NEW cmd, NEW b \in Seq(Byte)
  PROVE  Learnt(cmd, b) \in [network : [1..2 -> Memory], mac : [1..8 -> Memory]]
<1> DEFINE net == InMemory(b, 2)
           half == InMemory(b, 4)
           zeros == <<0, 0, 0, 0>>
           tail == SubSeq(self.mac, 5, 8)
           Selves == [network : [1..2 -> Memory], mac : [1..8 -> Memory]]
<1>1. self \in Selves
  BY Zenon DEF Learning
<1>2. net \in [1..2 -> Memory] /\ half \in [1..4 -> Memory]
  <2>1. 2 \in Nat /\ 4 \in Nat
    OBVIOUS
  <2> QED BY <2>1, Remembered, Zenon
<1> HIDE DEF net, half
<1>3. half \in Seq(Memory) /\ Len(half) = 4
  <2> DEFINE n == 4
  <2>1. n \in Nat /\ half \in [1..n -> Memory]
    BY <1>2
  <2> HIDE DEF n
  <2>2. half \in Seq(Memory) /\ Len(half) = n
    BY <2>1, AsList
  <2> QED BY <2>2 DEF n
<1>4. zeros \in Seq(Memory) /\ Len(zeros) = 4
  <2>1. 0 \in Memory
    BY DEF Memory, Byte
  <2> QED BY <2>1
<1>5. tail \in Seq(Memory) /\ Len(tail) = 4
  <2>1. \A k \in 5..8 : self.mac[k] \in Memory
    BY <1>1
  <2> QED BY <2>1, SubSeqProperties
<1> HIDE DEF zeros, tail
<1>6. zeros \o half \in [1..8 -> Memory] /\ half \o tail \in [1..8 -> Memory]
  BY <1>3, <1>4, <1>5, Halves, Zenon
<1>7. \/ Learnt(cmd, b) = [self EXCEPT !.network = net]
      \/ Learnt(cmd, b) = [self EXCEPT !.mac = zeros \o half]
      \/ Learnt(cmd, b) = [self EXCEPT !.mac = half \o tail]
      \/ Learnt(cmd, b) = self
  <2>1. CASE cmd = "ID"
    BY <2>1, Zenon DEF Learnt, net
  <2>2. CASE cmd = "SL"
    BY <2>2 DEF Learnt, half, zeros
  <2>3. CASE cmd = "SH"
    BY <2>3 DEF Learnt, half, tail
  <2>4. CASE cmd \notin {"ID", "SL", "SH"}
    BY <2>4 DEF Learnt
  <2> QED BY <2>1, <2>2, <2>3, <2>4
<1> DEFINE lower == zeros \o half
           upper == half \o tail
<1> HIDE DEF lower, upper
<1>8. lower \in [1..8 -> Memory] /\ upper \in [1..8 -> Memory]
  BY <1>6, Zenon DEF lower, upper
<1>9. /\ [self EXCEPT !.network = net] \in Selves /\ [self EXCEPT !.mac = lower] \in Selves
      /\ [self EXCEPT !.mac = upper] \in Selves
  BY <1>1, <1>2, <1>8
<1> QED BY <1>1, <1>7, <1>9, Zenon DEF lower, upper

\* What the reader takes is a frame of bytes; if it is a Receive frame, it has a packet of
\* another router in it.
LEMMA Received ==
  ASSUME LineInv, OnCourse, Wire, Complete(up), NEW f, f = Unserialize(up)
  PROVE  /\ ByteFrame(f)
         /\ f.type = Receive => \E p \in Passing : From_frame(f.data) = Arrived(p)
<1> DEFINE n == Len(taken)
           m == Len(sent)
           k == n + 1
<1>1. n \in Nat /\ m \in Nat
  BY LenProperties, Zenon DEF Wire, IsList
<1>2. ~torn /\ \A i \in 1..m : Correct(sent[i])
  BY DEF OnCourse
<1>3. InStep
  BY <1>2, Zenon DEF InStep
<1>4. n <= m /\ Cut(up, n, sent)
  BY <1>3, Zenon DEF LineInv
<1>5. n # m
  <2> SUFFICES ASSUME n = m PROVE FALSE
    OBVIOUS
  <2>1. up = <<>>
    BY <1>4, Zenon DEF Cut, CutAt
  <2>2. Len(<<>>) = 0
    OBVIOUS
  <2>3. Len(up) >= 4
    BY Zenon DEF Complete
  <2>4. Len(up) = 0
    BY <2>1, <2>2, Zenon
  <2> HIDE DEF n, m
  <2> QED BY <2>3, <2>4
<1>6. n < m /\ k \in 1..m
  <2> HIDE DEF n, m
  <2> QED BY <1>1, <1>4, <1>5
<1>7. ByteFrame(sent[k])
  BY <1>6, Zenon DEF Wire
<1>8. IsFrame(sent[k], Byte) /\ Written(sent[k]) = Serialize(sent[k])
  BY <1>2, <1>6, <1>7, WrittenRight, Zenon DEF ByteFrame
<1>9. f = sent[k]
  BY <1>1, <1>4, <1>6, <1>8, CutTaken, Zenon
<1>10. ASSUME f.type = Receive
       PROVE  \E p \in Passing : From_frame(f.data) = Arrived(p)
  <2> DEFINE p == aired[Nth(sent, k)]
  <2>1. p \in Passing /\ f.data = To_frame(p)
    BY <1>6, <1>9, <1>10, Zenon DEF LineInv, Carries
  <2> HIDE DEF p
  <2>2. From_frame(f.data) = Arrived(p)
    BY <2>1, Packets_Cross, Zenon DEF Passing
  <2> QED BY <2>1, <2>2, Zenon
<1> QED BY <1>7, <1>9, <1>10, Zenon

LEMMA WireTakes ==
  ASSUME LineInv, OnCourse, Wire, Complete(up), NEW f, f = Unserialize(up), Take(f), sent' = sent
  PROVE  Wire'
<1> DEFINE b == SubSeq(up, FrameSize(up) + 1, Len(up))
           n == Len(taken)
<1>1. ByteFrame(f)
  BY Received, Zenon
<1>2. up' = b /\ taken' = Append(taken, f)
  BY Zenon DEF Take
<1>3. b \in Seq(Byte)
  <2>1. Len(up) \in Nat /\ \A i \in 1..Len(up) : up[i] \in Byte
    BY LenProperties, ElementOfSeq DEF Wire
  <2>2. Len(up) >= 4
    BY Zenon DEF Complete
  <2>3. up[2] \in Nat /\ up[3] \in Nat
    <3>1. 2 \in 1..Len(up) /\ 3 \in 1..Len(up)
      BY <2>1, <2>2
    <3>2. up[2] \in Byte /\ up[3] \in Byte
      BY <2>1, <3>1, Zenon
    <3> QED BY <3>2 DEF Byte
  <2>4. FrameSize(up) \in Nat
    BY <2>3 DEF FrameSize
  <2> DEFINE size == FrameSize(up)
             len == Len(up)
  <2> HIDE DEF size, len
  <2>5. \A i \in (size + 1)..len : up[i] \in Byte
    <3>1. size \in Nat /\ len \in Nat /\ \A i \in 1..len : up[i] \in Byte
      BY <2>1, <2>4, Zenon DEF size, len
    <3>2. \A i \in (size + 1)..len : i \in 1..len
      BY <3>1
    <3> QED BY <3>1, <3>2, Zenon
  <2>6. size + 1 \in Int /\ len \in Int
    BY <2>1, <2>4 DEF size, len
  <2>7. SubSeq(up, size + 1, len) \in Seq(Byte)
    BY <2>5, <2>6, SubSeqProperties, Zenon
  <2> QED BY <2>7, Zenon DEF size, len
<1> HIDE DEF b
<1>4. Grown(taken', taken, f)
  BY <1>2, Grows, Zenon DEF Wire
<1>5. /\ IsList(taken') /\ n \in Nat /\ Len(taken') = n + 1
      /\ taken'[n + 1] = f /\ \A i \in 1..n : taken'[i] = taken[i]
  BY <1>4, Zenon DEF Grown
<1>6. ASSUME NEW i \in 1..(n + 1) PROVE taken'[i].type \in Byte
  <2>1. i \in 1..n \/ i = n + 1
    BY <1>5
  <2> QED BY <1>1, <1>5, <2>1, Zenon DEF Wire, ByteFrame
<1>7. sent' = sent
  OBVIOUS
<1>8. IsList(sent') /\ \A i \in 1..Len(sent') : ByteFrame(sent'[i])
  BY <1>7, Zenon DEF Wire
<1>9. up' \in Seq(Byte)
  BY <1>2, <1>3, Zenon
<1>10. \A i \in 1..Len(taken') : taken'[i].type \in Byte
  BY <1>5, <1>6, Zenon
<1> QED BY <1>5, <1>8, <1>9, <1>10, Zenon DEF Wire

LEMMA WireStutter == ASSUME Wire, UNCHANGED <<up, sent, taken>> PROVE Wire'
<1>1. up' = up /\ sent' = sent /\ taken' = taken
  OBVIOUS
<1> QED BY <1>1, Zenon DEF Wire

\* The radio writes a frame.
LEMMA WireReplies ==
  ASSUME Wire, NEW f, ByteFrame(f), Reply(Written(f), f), OnCourse', taken' = taken
  PROVE  Wire'
<1> DEFINE m == Len(sent)
           w == Written(f)
<1>1. Grown(sent', sent, f) /\ up' = up \o w
  BY Grows, Zenon DEF Wire, Reply
<1>2. /\ IsList(sent') /\ m \in Nat /\ Len(sent') = m + 1
      /\ sent'[m + 1] = f /\ \A i \in 1..m : sent'[i] = sent[i]
  BY <1>1, Zenon DEF Grown
<1>3. m + 1 \in 1..(m + 1)
  BY <1>2
<1>4. Correct(f)
  BY <1>2, <1>3, Zenon DEF OnCourse
<1>5. w = Serialize(f)
  BY <1>4, WrittenRight, Zenon DEF ByteFrame
<1>6. w \in Seq(Byte)
  <2>1. Byte \subseteq Nat /\ Byte \subseteq Byte
    BY DEF Byte
  <2>2. Serialize(f) \in Seq(Byte)
    BY <2>1, SerializedBytes, Zenon DEF ByteFrame
  <2> QED BY <1>5, <2>2, Zenon
<1> HIDE DEF w
<1>7. up' \in Seq(Byte)
  BY <1>1, <1>6, ConcatProperties, Zenon DEF Wire
<1>8. ASSUME NEW i \in 1..(m + 1) PROVE ByteFrame(sent'[i])
  <2>1. i \in 1..m \/ i = m + 1
    BY <1>2
  <2> QED BY <1>2, <2>1, Zenon DEF Wire
<1>9. taken' = taken
  OBVIOUS
<1>10. IsList(taken') /\ \A i \in 1..Len(taken') : taken'[i].type \in Byte
  BY <1>9, Zenon DEF Wire
<1> QED BY <1>2, <1>7, <1>8, <1>10, Zenon DEF Wire

\* What the radio makes of the first frame on the line.
LEMMA HeadHeard ==
  ASSUME Talk, down # <<>>, \A k \in 1..Len(said) : Single(said[k])
  PROVE  \E f : Sayable(f) /\ \A i \in Found(Head(down)) : Unserialize(Piece(Head(down), i)) = f
<1> DEFINE d == Len(down)
           m == Len(said)
           n == m - d
           f == said[n + 1]
           w == Serialize(f)
<1>1. OnLine(down, said) /\ AllSayable(said)
  BY Zenon DEF Talk
<1>2. /\ IsList(down) /\ IsList(said) /\ d <= m
      /\ \A i \in 1..d : down[i] = Serialize(said[m - d + i])
  BY <1>1, Zenon DEF OnLine
<1>3. m \in Nat /\ d \in Nat
  BY <1>2, LenProperties, Zenon DEF IsList
<1>4. Head(down) = down[1] /\ 1 \in 1..d
  <2> PICK S : down \in Seq(S)
    BY <1>2, Zenon DEF IsList
  <2> QED OBVIOUS
<1>5. n + 1 \in 1..m /\ m - d + 1 = n + 1
  BY <1>2, <1>3, <1>4
<1>6. Head(down) = w /\ Sayable(f) /\ Single(f)
  BY <1>1, <1>2, <1>4, <1>5, Zenon DEF AllSayable
<1>7. Whole(f, w) /\ Unserialize(w) = f
  <2>1. Whole(f, w)
    BY <1>6, SayableIsWhole, Zenon
  <2> HIDE DEF f, w
  <2> QED BY <2>1, Zenon DEF Whole
<1> HIDE DEF w
<1>8. /\ Unmarked(f) => Found(w) = {1} /\ Piece(w, 1) = w
      /\ ~Unmarked(f) => Found(w) = {}
  BY <1>6, <1>7, RadioFinds, Zenon DEF w
<1> HIDE DEF f
<1>9. ASSUME NEW i \in Found(w) PROVE Unserialize(Piece(w, i)) = f
  <2>1. Found(w) = {1} /\ Piece(w, 1) = w
    BY <1>8, <1>9
  <2>2. i = 1
    BY <1>9, <2>1
  <2> QED BY <1>7, <2>1, <2>2, Zenon
<1> QED BY <1>6, <1>9, Zenon

\* The answer to a command of the router is a frame of bytes.
LEMMA ReplyBytes ==
  ASSUME NEW f, Sayable(f), f.type = Command PROVE ByteFrame(ReplyTo(f)) /\ ReplyTo(f).type # Receive
<1>1. f.header \in Seq(Byte) /\ Len(f.header) = 3
  BY Zenon DEF Sayable
<1>2. 2 \in 1..Len(f.header) /\ 3 \in 1..Len(f.header)
  BY <1>1
<1>3. f.header[2] \in Byte /\ f.header[3] \in Byte
  BY <1>1, <1>2, ElementOfSeq, Zenon
<1>4. Byte \cup {f.header[2], f.header[3]} = Byte
  BY <1>3, Zenon
<1>5. /\ ReplyTo(f).type \in {ModemStatus, CommandResponse}
      /\ IsFrame(ReplyTo(f), Byte \cup {f.header[2], f.header[3]})
  BY ReplyFrame, Zenon
<1>6. /\ ModemStatus \in Byte /\ CommandResponse \in Byte
      /\ CommandResponse # Receive /\ ModemStatus # Receive
  BY DEF ModemStatus, CommandResponse, Receive, Byte
<1> QED BY <1>4, <1>5, <1>6, Zenon DEF ByteFrame

LEMMA WireListens ==
  ASSUME Wire, Talk, Listen, \A k \in 1..Len(said) : Single(said[k]), OnCourse'
  PROVE  Wire'
<1>1. down # <<>> /\ taken' = taken
  BY Zenon DEF Listen
<1> PICK f : Sayable(f) /\ \A i \in Found(Head(down)) : Unserialize(Piece(Head(down), i)) = f
  BY <1>1, HeadHeard, Zenon
<1> DEFINE r == ReplyTo(f)
<1>2. UNCHANGED <<up, sent>> \/ (f.type = Command /\ Reply(Serialize(r), r))
  <2>1. \/ UNCHANGED <<up, sent>>
        \/ \E i \in Found(Head(down)) : \E g \in {Unserialize(Piece(Head(down), i))} :
             g.type = Command /\ \E s \in {ReplyTo(g)} : Reply(Serialize(s), s)
    BY Zenon DEF Listen
  <2> QED BY <2>1, Zenon
<1>3. CASE UNCHANGED <<up, sent>>
  BY <1>1, <1>3, WireStutter
<1>4. CASE f.type = Command /\ Reply(Serialize(r), r)
  <2>1. ByteFrame(r) /\ r.type # Receive
    BY <1>4, ReplyBytes, Zenon
  <2>2. Reply(Written(r), r)
    BY <1>4, <2>1, Zenon DEF Written
  <2> HIDE DEF r
  <2> QED BY <1>1, <2>1, <2>2, WireReplies, Zenon
<1> QED BY <1>2, <1>3, <1>4

LEMMA WireForwards == ASSUME LineInv, Wire, Forward, OnCourse' PROVE Wire'
<1> DEFINE t == Head(traffic)
           f == ReceiveFrame(t[1], t[2], To_frame(t[3]))
           S == Byte \X Peers \X Passing
<1>1. /\ traffic # <<>> /\ Reply(Forwarded(f), f) /\ taken' = taken
  BY Zenon DEF Forward
<1>2. traffic \in Seq(S) /\ \A i \in 1..Len(traffic) : To_frame(traffic[i][3]) \in Seq(Byte)
  BY Zenon DEF LineInv, IsTransmissions
<1> HIDE DEF S
<1>3. t \in S /\ t = traffic[1] /\ 1 \in 1..Len(traffic)
  BY <1>1, <1>2
<1>4. t[1] \in Byte /\ t[2] \in Peers /\ t[3] \in Passing /\ To_frame(t[3]) \in Seq(Byte)
  <2>1. t[1] \in Byte /\ t[2] \in Peers /\ t[3] \in Passing
    BY <1>3 DEF S
  <2>2. To_frame(t[3]) \in Seq(Byte)
    BY <1>2, <1>3, Zenon
  <2> QED BY <2>1, <2>2, Zenon
<1>5. Fits(Len(To_frame(t[3])))
  BY <1>4, Packets_Cross, Zenon DEF Passing
<1> HIDE DEF t
<1>6. IsFrame(f, Byte) /\ f.type = Receive
  BY <1>4, <1>5, ReceiveFits, Zenon
<1>7. Receive \in Byte
  BY DEF Receive, Byte
<1> HIDE DEF f
<1>8. ByteFrame(f) /\ Reply(Written(f), f)
  BY <1>1, <1>6, <1>7, Zenon DEF ByteFrame, Written
<1> QED BY <1>1, <1>8, WireReplies, Zenon

LEMMA LearnStutter == ASSUME Learning, UNCHANGED router PROVE Learning'
<1>1. step' = step /\ waiting' = waiting /\ self' = self
  BY DEF router
<1> QED BY <1>1 DEF Learning

LEMMA LearnAsk == ASSUME Learning, Ask PROVE Learning'
<1> DEFINE Selves == [network : [1..2 -> Memory], mac : [1..8 -> Memory]]
<1>1. step \in 1..7
  <2>1. Len(Script) = 7
    BY DEF Script
  <2>2. step \in 1..8 /\ ~(step > Len(Script))
    BY Zenon DEF Learning, Ask, Started
  <2> QED BY <2>1, <2>2
<1>2. /\ self' = self
      /\ \/ waiting' = TRUE /\ step' = step
         \/ waiting' = FALSE /\ step' = step + 1
  BY Zenon DEF Ask
<1>3. self' \in Selves
  BY <1>2, Zenon DEF Learning
<1> HIDE DEF Selves
<1>4. step' \in 1..8
  <2>1. step' = step \/ step' = step + 1
    BY <1>2, Zenon
  <2> QED BY <1>1, <2>1
<1>5. waiting' \in BOOLEAN
  BY <1>2, Zenon
<1>6. waiting' => step' <= 7
  <2>1. waiting' => step' = step
    BY <1>2, Zenon
  <2> QED BY <1>1, <2>1
<1> QED BY <1>3, <1>4, <1>5, <1>6, Zenon DEF Learning, Selves

LEMMA LearnGet == ASSUME LineInv, OnCourse, Wire, Learning, Get PROVE Learning'
<1> DEFINE f == Unserialize(up)
           Selves == [network : [1..2 -> Memory], mac : [1..8 -> Memory]]
<1>1. waiting /\ Complete(up)
  BY Zenon DEF Get
<1>2. f.data \in Seq(Byte)
  BY <1>1, Received, Zenon DEF ByteFrame, IsFrame
<1>3. \/ self' = Learnt(Script[step], f.data) /\ waiting' = FALSE /\ step' = step + 1
      \/ UNCHANGED router
  BY Zenon DEF Get
<1>4. CASE UNCHANGED router
  BY <1>4, LearnStutter
<1>5. CASE self' = Learnt(Script[step], f.data) /\ waiting' = FALSE /\ step' = step + 1
  <2>1. self' \in Selves
    BY <1>2, <1>5, LearntKeepsTypes, Zenon
  <2>2. step' \in 1..8 /\ waiting' = FALSE
    BY <1>1, <1>5 DEF Learning
  <2> HIDE DEF Selves
  <2>3. waiting' \in BOOLEAN /\ ~waiting'
    BY <2>2
  <2> QED BY <2>1, <2>2, <2>3, Zenon DEF Learning, Selves
<1> QED BY <1>3, <1>4, <1>5

-----------------------------------------------------------------------------
(* The messages on the bus, and what the router makes of them. *)

\* Messages fit into a packet.
Items == {r \in Replies : r.message \in Contents}

ThreadTypes ==
  /\ thread \in [Subscribers -> {"none", "subscribing", "checking", "reading", "handling",
                                 "ended"}]
  /\ should_run \in [Subscribers -> BOOLEAN] /\ queued \in [Subscribers -> BOOLEAN]
  /\ listening \in [Subscribers -> BOOLEAN] /\ stopping \in [Subscribers -> BOOLEAN]
  /\ late \in [Subscribers -> Nat]
Inboxes == inbox \in [Subscribers -> Seq(Items)]
Handlings == handling \in [Subscribers -> Items]
BusFits == ThreadTypes /\ Inboxes /\ Handlings

\* A data packet that has room for one more router in `visited'.
Roomy(p) == p \in DataPackets /\ Fits(DataSize(Len(p.visited) + 1, Len(p.content)))
Hand == delivering = <<>> \/ \E p : Roomy(p) /\ delivering = <<p>>

Outer == unpublished \subseteq Channels \X Contents /\ beacons \in Nat /\ torn \in BOOLEAN

\* The router writes nothing, or a frame that the radio can understand.
Says == UNCHANGED <<down, said>> \/ \E f : Sayable(f) /\ Write(f)

LEMMA BusFitsTypes == ASSUME BusFits PROVE BusTypeOK
<1>1. inbox \in [Subscribers -> Seq(Items)] /\ handling \in [Subscribers -> Items]
  BY Zenon DEF BusFits, Inboxes, Handlings
<1>2. Items \subseteq Replies
  BY Zenon DEF Items
<1>3. ASSUME NEW s \in Subscribers PROVE inbox[s] \in Seq(Replies) /\ handling[s] \in Replies
  <2>1. inbox[s] \in Seq(Items) /\ handling[s] \in Items
    BY <1>1, Zenon
  <2> QED BY <1>2, <2>1, SeqMonotonic, Zenon
<1>4. inbox \in [Subscribers -> Seq(Replies)] /\ handling \in [Subscribers -> Replies]
  BY <1>1, <1>3, Zenon
<1> QED BY <1>4, Zenon DEF BusFits, ThreadTypes, BusTypeOK

LEMMA IdleItems == Idle \in Items /\ Unsubscribed \in Items
<1>1. <<>> \in Contents
  BY DEF Contents, Fits, DataSize
<1>2. /\ Idle = [kind |-> "none", channel |-> Idle.channel, message |-> <<>>]
      /\ Unsubscribed = [kind |-> "unsubscribe", channel |-> Idle.channel, message |-> <<>>]
      /\ Idle.channel \in Channels
  BY DEF Idle, Unsubscribed, Channels
<1>3. <<>> \in Seq(0..255)
  OBVIOUS
<1>4. Idle \in Replies /\ Unsubscribed \in Replies
  <2>1. ASSUME NEW kind \in {"message", "unsubscribe", "none"}, NEW ch \in Channels
        PROVE  [kind |-> kind, channel |-> ch, message |-> <<>>] \in Replies
    BY <1>3 DEF Replies
  <2>2. "none" \in {"message", "unsubscribe", "none"}
        /\ "unsubscribe" \in {"message", "unsubscribe", "none"}
    OBVIOUS
  <2> QED BY <1>2, <2>1, <2>2, Zenon
<1>5. Idle.message = <<>> /\ Unsubscribed.message = <<>>
  BY <1>2
<1> QED BY <1>1, <1>4, <1>5, Zenon DEF Items

LEMMA MessageItem ==
  ASSUME NEW ch \in Channels, NEW m \in Contents
  PROVE  [kind |-> "message", channel |-> ch, message |-> m] \in Items
<1> DEFINE r == [kind |-> "message", channel |-> ch, message |-> m]
<1>1. m \in Seq(0..255)
  BY DEF Contents
<1>2. r \in Replies /\ r.message = m
  BY <1>1 DEF Replies
<1> HIDE DEF r
<1>3. r \in Items
  BY <1>2, Zenon DEF Items
<1> QED BY <1>3, Zenon DEF r

LEMMA ThreadTypesGo ==
  ASSUME ThreadTypes, NEW s \in Subscribers, Loop(s) \/ Run(s) \/ Stop(s) \/ HandlerReturns(s)
  PROVE  ThreadTypes'
<1>1. CASE Subscribe(s)
  BY <1>1 DEF ThreadTypes, Subscribe
<1>2. CASE Wait(s)
  <2>1. UNCHANGED <<should_run, listening, stopping, late>>
        /\ thread' = [thread EXCEPT ![s] = "reading"]
    BY <1>2, Zenon DEF Wait
  <2>2. queued' = queued \/ queued' = [queued EXCEPT ![s] = FALSE]
    BY <1>2, Zenon DEF Wait
  <2> QED BY <2>1, <2>2 DEF ThreadTypes
<1>3. CASE Fetch(s)
  BY <1>3 DEF ThreadTypes, Fetch
<1>4. CASE FetchEnd(s)
  BY <1>4 DEF ThreadTypes, FetchEnd
<1>5. CASE End(s)
  BY <1>5 DEF ThreadTypes, End
<1>6. CASE Run(s)
  BY <1>6 DEF ThreadTypes, Run
<1>7. CASE Stop(s)
  BY <1>7 DEF ThreadTypes, Stop
<1>8. CASE HandlerReturns(s)
  BY <1>8 DEF ThreadTypes, HandlerReturns
<1> QED BY <1>1, <1>2, <1>3, <1>4, <1>5, <1>6, <1>7, <1>8, Zenon DEF Loop

LEMMA BusStutter == ASSUME BusFits, UNCHANGED bus PROVE BusFits'
BY DEF BusFits, ThreadTypes, Inboxes, Handlings, bus

LEMMA BusStarts == ASSUME BusInit PROVE BusFits
<1>1. ThreadTypes
  BY DEF BusInit, ThreadTypes
<1>2. inbox = [s \in Subscribers |-> <<>>] /\ handling = [s \in Subscribers |-> Idle]
  BY Zenon DEF BusInit
<1>3. <<>> \in Seq(Items)
  OBVIOUS
<1>4. Inboxes
  BY <1>2, <1>3, Zenon DEF Inboxes
<1>5. Handlings
  BY <1>2, IdleItems, Zenon DEF Handlings
<1> QED BY <1>1, <1>4, <1>5, Zenon DEF BusFits

\* One connection changes.
LEMMA InboxChanged ==
  ASSUME Inboxes, NEW s, NEW q \in Seq(Items), inbox' = [inbox EXCEPT ![s] = q]
  PROVE  Inboxes'
BY Zenon DEF Inboxes

LEMMA HandlingChanged ==
  ASSUME Handlings, NEW s, NEW r \in Items, handling' = [handling EXCEPT ![s] = r]
  PROVE  Handlings'
BY Zenon DEF Handlings

LEMMA BusLoops ==
  ASSUME BusFits, NEW s \in Subscribers, Loop(s) \/ Run(s) \/ Stop(s) PROVE BusFits'
<1>1. ThreadTypes /\ Inboxes /\ Handlings
  BY Zenon DEF BusFits
<1>2. ThreadTypes'
  BY <1>1, ThreadTypesGo, Zenon
<1>3. inbox[s] \in Seq(Items)
  BY <1>1, Zenon DEF Inboxes
<1>4. CASE Wait(s)
  <2>1. Append(inbox[s], Unsubscribed) \in Seq(Items)
    BY <1>3, IdleItems, AppendProperties, Zenon
  <2>2. handling' = handling /\ \/ inbox' = inbox
                                \/ inbox' = [inbox EXCEPT ![s] = Append(inbox[s], Unsubscribed)]
                                \/ inbox' = [inbox EXCEPT ![s] = inbox[s]]
    BY <1>4, Zenon DEF Wait
  <2>3. Handlings'
    BY <1>1, <2>2, Zenon DEF Handlings
  <2>4. CASE inbox' = inbox
    <3>1. Inboxes'
      BY <1>1, <2>4, Zenon DEF Inboxes
    <3> QED BY <1>2, <2>3, <3>1, Zenon DEF BusFits
  <2>5. CASE inbox' # inbox
    <3>1. Inboxes'
      BY <1>1, <1>3, <2>1, <2>2, <2>5, InboxChanged, Zenon
    <3> QED BY <1>2, <2>3, <3>1, Zenon DEF BusFits
  <2> QED BY <2>4, <2>5
<1>5. CASE Fetch(s) \/ FetchEnd(s)
  <2>1. inbox[s] # <<>> /\ inbox' = [inbox EXCEPT ![s] = Tail(inbox[s])]
    BY <1>5, Zenon DEF Fetch, FetchEnd
  <2>2. Tail(inbox[s]) \in Seq(Items) /\ Head(inbox[s]) \in Items
    BY <1>3, <2>1, HeadTailProperties, Zenon
  <2>3. Inboxes'
    BY <1>1, <2>1, <2>2, InboxChanged, Zenon
  <2>4. handling' = handling \/ handling' = [handling EXCEPT ![s] = Head(inbox[s])]
    BY <1>5, Zenon DEF Fetch, FetchEnd
  <2>5. CASE handling' = handling
    <3>1. Handlings'
      BY <1>1, <2>5, Zenon DEF Handlings
    <3> QED BY <1>2, <2>3, <3>1, Zenon DEF BusFits
  <2>6. CASE handling' = [handling EXCEPT ![s] = Head(inbox[s])]
    <3>1. Handlings'
      BY <1>1, <2>2, <2>6, HandlingChanged, Zenon
    <3> QED BY <1>2, <2>3, <3>1, Zenon DEF BusFits
  <2> QED BY <2>4, <2>5, <2>6
<1>6. CASE Subscribe(s) \/ End(s) \/ Run(s) \/ Stop(s)
  <2>1. inbox' = inbox /\ handling' = handling
    BY <1>6, Zenon DEF Subscribe, End, Run, Stop
  <2>2. Inboxes' /\ Handlings'
    BY <1>1, <2>1, Zenon DEF Inboxes, Handlings
  <2> QED BY <1>2, <2>2, Zenon DEF BusFits
<1> QED BY <1>4, <1>5, <1>6, Zenon DEF Loop

LEMMA InboxPublished ==
  ASSUME Inboxes, NEW ch \in Channels, NEW m \in Contents, Publish(ch, m) PROVE Inboxes'
<1> DEFINE r == [kind |-> "message", channel |-> ch, message |-> m]
<1>1. r \in Items
  BY MessageItem, Zenon
<1>2. inbox' = [s \in Subscribers |-> IF listening[s] /\ Matches(s, ch)
                                       THEN Append(inbox[s], r) ELSE inbox[s]]
  BY Zenon DEF Publish, Delivered
<1> HIDE DEF r
<1>3. ASSUME NEW s \in Subscribers
      PROVE  inbox[s] \in Seq(Items) /\ Append(inbox[s], r) \in Seq(Items)
  <2>1. inbox[s] \in Seq(Items)
    BY Zenon DEF Inboxes
  <2> QED BY <1>1, <2>1, AppendProperties, Zenon
<1> QED BY <1>2, <1>3, Zenon DEF Inboxes

LEMMA BusPublishes ==
  ASSUME BusFits, NEW ch \in Channels, NEW m \in Contents, Publish(ch, m),
         UNCHANGED <<thread, should_run, queued, listening, handling, stopping, late>>
  PROVE  BusFits'
<1>1. ThreadTypes' /\ Handlings'
  BY DEF BusFits, ThreadTypes, Handlings
<1>2. Inboxes'
  BY InboxPublished, Zenon DEF BusFits
<1> QED BY <1>1, <1>2, Zenon DEF BusFits

\* A handler returns, and has published nothing or a message.
LEMMA BusReturns ==
  ASSUME BusFits, NEW s \in Subscribers, HandlerReturns(s),
         \/ inbox' = inbox
         \/ \E ch \in Channels, m \in Contents : Publish(ch, m)
  PROVE  BusFits'
<1>1. ThreadTypes'
  BY ThreadTypesGo, Zenon DEF BusFits
<1>2. Handlings'
  <2>1. handling' = [handling EXCEPT ![s] = Idle]
    BY Zenon DEF HandlerReturns
  <2> QED BY <2>1, IdleItems, HandlingChanged, Zenon DEF BusFits
<1>3. CASE inbox' = inbox
  <2>1. Inboxes'
    BY <1>3, Zenon DEF BusFits, Inboxes
  <2> QED BY <1>1, <1>2, <2>1, Zenon DEF BusFits
<1>4. CASE \E ch \in Channels, m \in Contents : Publish(ch, m)
  <2>1. Inboxes'
    BY <1>4, InboxPublished, Zenon DEF BusFits
  <2> QED BY <1>1, <1>2, <2>1, Zenon DEF BusFits
<1> QED BY <1>3, <1>4

-----------------------------------------------------------------------------

LEMMA Places8 ==
  ASSUME NEW v \in [1..8 -> 0..255] PROVE v \in Seq(Byte) /\ Len(v) = 8
<1> DEFINE n == 8
<1>1. n \in Nat /\ v \in [1..n -> Byte]
  BY DEF Byte
<1> HIDE DEF n
<1>2. v \in Seq(Byte) /\ Len(v) = n
  BY <1>1, AsList
<1> QED BY <1>2 DEF n

LEMMA KnownMac ==
  ASSUME NEW n \in DOMAIN Macs PROVE Macs[n] \in Seq(Byte) /\ Len(Macs[n]) = 8
<1>1. PICK ns \in SUBSET (1..254) : Macs \in [ns -> [1..8 -> 0..255]]
  BY GatewayAssumption, Zenon
<1>2. Macs[n] \in [1..8 -> 0..255]
  BY <1>1
<1> QED BY <1>2, Places8, Zenon

LEMMA KnownHop == ASSUME NEW n \in DOMAIN Hop PROVE Hop[n] \in DOMAIN Macs
<1>1. PICK ns \in SUBSET (1..254) : Hop \in [ns -> DOMAIN Macs]
  BY GatewayAssumption, Zenon
<1> QED BY <1>1, Zenon

LEMMA OwnNetwork ==
  ASSUME Learning PROVE self.network \in Seq(Memory) /\ Len(self.network) = 2
<1> DEFINE n == 2
           v == self.network
<1>1. n \in Nat /\ v \in [1..n -> Memory]
  BY DEF Learning
<1> HIDE DEF n, v
<1>2. v \in Seq(Memory) /\ Len(v) = n
  BY <1>1, AsList
<1> QED BY <1>2 DEF n, v

LEMMA SendsBytes ==
  ASSUME Learning, NEW n, NEW p, Bytes(p), SendTo(n, p) PROVE Says
<1>1. CASE n \in DOMAIN Macs
  <2>1. Macs[n] \in Seq(Byte) /\ Len(Macs[n]) = 8
    BY <1>1, KnownMac, Zenon
  <2>2. 0 \in Byte
    BY DEF Byte
  <2>3. Sayable(TransmitFrame(0, Macs[n], p))
    BY <2>1, <2>2, OwnNetwork, TransmitIsSayable, Zenon
  <2> QED BY <1>1, <2>3, Zenon DEF SendTo, Says
<1>2. CASE n \notin DOMAIN Macs
  BY <1>2, Zenon DEF SendTo, Says
<1> QED BY <1>1, <1>2

LEMMA DeliversBytes ==
  ASSUME Learning, NEW n, NEW id \in FrameIds, NEW p, Bytes(p), DeliverTo(n, id, p) PROVE Says
<1>1. CASE n \in DOMAIN Hop
  <2>1. Macs[Hop[n]] \in Seq(Byte) /\ Len(Macs[Hop[n]]) = 8
    BY <1>1, KnownMac, KnownHop, Zenon
  <2>2. id \in Byte
    BY GatewayAssumption DEF Byte
  <2>3. Sayable(TransmitFrame(id, Macs[Hop[n]], p))
    BY <2>1, <2>2, OwnNetwork, TransmitIsSayable, Zenon
  <2> QED BY <1>1, <2>3, Zenon DEF DeliverTo, Says
<1>2. CASE n \notin DOMAIN Hop
  BY <1>2, Zenon DEF DeliverTo, Says
<1> QED BY <1>1, <1>2

\* A data packet that passes, and the router that adds itself.
LEMMA PassedOn ==
  ASSUME NEW p, Roomy(p), NEW a \in Byte
  PROVE  Bytes([p EXCEPT !.visited = Append(@, a)])
<1> DEFINE q == [p EXCEPT !.visited = Append(@, a)]
           v == Append(p.visited, a)
<1>1. p \in DataPackets /\ Fits(DataSize(Len(p.visited) + 1, Len(p.content)))
  BY Zenon DEF Roomy
<1>2. p.visited \in Seq(Byte)
  BY <1>1 DEF DataPackets
<1>3. v \in Seq(Byte) /\ Len(v) = Len(p.visited) + 1
  BY <1>2, AppendProperties
<1>4. q = [p EXCEPT !.visited = v]
  OBVIOUS
<1> HIDE DEF v
<1>5. q \in DataPackets /\ q.visited = v /\ q.content = p.content
  BY <1>1, <1>3, <1>4 DEF DataPackets
<1> HIDE DEF q
<1>6. Fits(DataSize(Len(q.visited), Len(q.content)))
  BY <1>1, <1>3, <1>5, Zenon
<1>7. Bytes(q)
  BY <1>5, <1>6, DataBytes, Zenon
<1> QED BY <1>7, Zenon DEF q

LEMMA ArrivedData ==
  ASSUME NEW p \in Passing, Arrived(p).type = "Data" PROVE Arrived(p) = p /\ Roomy(p)
<1>1. p \in Packets
        /\ (p.type = "Data" => Fits(DataSize(Len(p.visited) + 1, Len(p.content))))
  BY Zenon DEF Passing
<1>2. p.type # "Ack"
  <2> SUFFICES ASSUME p.type = "Ack" PROVE FALSE
    OBVIOUS
  <2>1. p \in Acks
    <3>1. \/ p \in DataPackets \/ p \in Acks \/ p \in NodeBroadcasts \/ p \in EdgeDrops
          \/ p \in Graphs
      BY <1>1, Zenon DEF Packets
    <3> QED BY <3>1 DEF DataPackets, NodeBroadcasts, EdgeDrops, Graphs
  <2> DEFINE v == [i \in 1..Len(p.parameters) |-> Arriving(p.parameters[i])]
  <2>2. Arrived(p) = [p EXCEPT !.parameters = v]
    BY Zenon DEF Arrived
  <2> HIDE DEF v
  <2>3. Arrived(p).type = "Ack"
    BY <2>1, <2>2 DEF Acks
  <2> QED BY <2>3
<1>3. Arrived(p) = p
  BY <1>2, Zenon DEF Arrived
<1>4. p.type = "Data"
  BY <1>3, Zenon
<1>5. p \in DataPackets
  <2>1. \/ p \in DataPackets \/ p \in Acks \/ p \in NodeBroadcasts \/ p \in EdgeDrops
        \/ p \in Graphs
    BY <1>1, Zenon DEF Packets
  <2> QED BY <1>4, <2>1 DEF Acks, NodeBroadcasts, EdgeDrops, Graphs
<1> QED BY <1>1, <1>3, <1>4, <1>5, Zenon DEF Roomy

LEMMA HandlesData ==
  ASSUME Learning, NEW p, Roomy(p), delivering = <<>>, HandleData(p) PROVE Says /\ Hand'
<1>1. Address \in Byte /\ 0 \in Byte
  BY GatewayAssumption DEF Byte
<1>2. p \in DataPackets
  BY Zenon DEF Roomy
<1>3. ASSUME NEW i, SendTo(i, AckOf(p, Address, 0)) PROVE Says
  BY <1>1, <1>2, <1>3, AckBytes, SendsBytes, Zenon
<1>4. ASSUME NEW id \in FrameIds,
             DeliverTo(p.destination, id, [p EXCEPT !.visited = Append(@, Address)])
      PROVE  Says
  BY <1>1, <1>4, PassedOn, DeliversBytes, Zenon
<1>5. Says
  BY <1>3, <1>4, Zenon DEF HandleData, Says
<1>6. delivering' = <<p>> \/ delivering' = <<>>
  BY Zenon DEF HandleData
<1>7. Hand'
  BY <1>6, Zenon DEF Hand
<1> QED BY <1>5, <1>7

LEMMA ProcessSays ==
  ASSUME LineInv, OnCourse, Wire, Learning, Hand, Process PROVE Says /\ Hand'
<1> DEFINE f == Unserialize(up)
           p == From_frame(f.data)
<1>1. /\ delivering = <<>> /\ Complete(up)
      /\ \/ f.type = Receive /\ p.type = "Data" /\ HandleData(p)
         \/ UNCHANGED <<down, said, delivering>>
  BY Zenon DEF Process
<1>2. CASE UNCHANGED <<down, said, delivering>>
  BY <1>2 DEF Says, Hand
<1>3. CASE f.type = Receive /\ p.type = "Data" /\ HandleData(p)
  <2>1. PICK q \in Passing : p = Arrived(q)
    BY <1>1, <1>3, Received, Zenon
  <2>2. Roomy(p)
    BY <1>3, <2>1, ArrivedData, Zenon
  <2> QED BY <1>1, <1>3, <2>2, HandlesData, Zenon
<1> QED BY <1>1, <1>2, <1>3

LEMMA AskSays == ASSUME Learning, Ask PROVE Says
<1>1. step \in 1..7
  <2>1. Len(Script) = 7
    BY DEF Script
  <2>2. step \in 1..8 /\ ~(step > Len(Script))
    BY Zenon DEF Learning, Ask, Started
  <2> QED BY <2>1, <2>2
<1>2. Sayable(CommandFrame(Script[step])) /\ Write(CommandFrame(Script[step]))
  BY <1>1, CommandIsSayable, Zenon DEF Ask
<1> QED BY <1>2, Zenon DEF Says

LEMMA BeaconSays == ASSUME Learning, Beacon PROVE Says
<1> DEFINE p == [type |-> "NodeBroadcast", address |-> Address]
<1>1. Address \in Byte /\ 0 \in Byte
  BY GatewayAssumption DEF Byte
<1>2. Bytes(p)
  BY <1>1, BeaconBytes, Zenon
<1>3. Broadcast \in Seq(Byte) /\ Len(Broadcast) = 8
  BY DEF Broadcast, Byte
<1>4. Write(TransmitFrame(0, Broadcast, p))
  BY Zenon DEF Beacon
<1> HIDE DEF p
<1>5. Sayable(TransmitFrame(0, Broadcast, p))
  BY <1>1, <1>2, <1>3, OwnNetwork, TransmitIsSayable, Zenon
<1> QED BY <1>4, <1>5, Zenon DEF Says

LEMMA HandlingItem ==
  ASSUME BusFits, NEW s \in Subscribers
  PROVE  /\ handling[s].channel \in Channels /\ handling[s].message \in Contents
         /\ handling[s].channel.port \in 0..255 /\ handling[s].channel.destination \in 0..255
         /\ handling[s].channel.source \in 0..255
<1>1. handling[s] \in Items
  BY Zenon DEF BusFits, Handlings
<1>2. handling[s] \in Replies /\ handling[s].message \in Contents
  BY <1>1, Zenon DEF Items
<1>3. handling[s].channel \in Channels
  BY <1>2 DEF Replies
<1> QED BY <1>2, <1>3 DEF Channels

LEMMA SendSays == ASSUME Learning, BusFits, Send PROVE Says
<1> DEFINE h == handling[Router]
           p(id) == [type |-> "Data", destination |-> h.channel.destination,
                     source |-> Address, packet_id |-> id, port |-> h.channel.port,
                     visited |-> <<>>, content |-> h.message]
<1>1. \/ \E id \in FrameIds : DeliverTo(h.channel.destination, id, p(id))
      \/ UNCHANGED <<down, said>>
  BY Zenon DEF Send
<1>2. CASE UNCHANGED <<down, said>>
  BY <1>2, Zenon DEF Says
<1>3. ASSUME NEW id \in FrameIds, DeliverTo(h.channel.destination, id, p(id)) PROVE Says
  <2> DEFINE q == p(id)
  <2>1. Router \in Subscribers
    BY Zenon DEF Subscribers
  <2>2. h.channel.port \in 0..255 /\ h.channel.destination \in 0..255 /\ h.message \in Contents
    BY <2>1, HandlingItem, Zenon
  <2>3. h.message \in Seq(0..255) /\ Fits(DataSize(0, Len(h.message)))
    BY <2>2, Zenon DEF Contents
  <2>4. Address \in 0..255 /\ id \in 0..255
    BY GatewayAssumption
  <2>5. <<>> \in Seq(0..255) /\ Len(<<>>) = 0
    OBVIOUS
  <2>6. q \in DataPackets /\ q.visited = <<>> /\ q.content = h.message
    BY <2>2, <2>3, <2>4, <2>5 DEF DataPackets, Byte
  <2>7. DeliverTo(h.channel.destination, id, q)
    BY <1>3
  <2> HIDE DEF q
  <2>8. Bytes(q)
    BY <2>3, <2>5, <2>6, DataBytes, Zenon
  <2> QED BY <2>7, <2>8, DeliversBytes, Zenon
<1> QED BY <1>1, <1>2, <1>3

-----------------------------------------------------------------------------
(* All of it together. *)

\* What the reader may have lost or the radio may take for another frame is behind no frame.
Clean == OnCourse /\ \A k \in 1..Len(said) : Single(said[k])

InOrderOf == Learning /\ Wire /\ Talk /\ Hand /\ BusFits
SoundInv == LineInv /\ IsList(said) /\ Outer /\ (Clean => InOrderOf)

\* s has been added to, or not at all.
Longer(t, s) == t = s \/ \E e : Grown(t, s, e)

LEMMA Changes ==
  ASSUME LineInv, IsList(said), [Next]_vars
  PROVE  torn' = torn /\ Longer(sent', sent) /\ Longer(said', said) /\ IsList(said')
<1>1. torn' = torn
  BY Zenon DEF Next, Line, Redis, StartRouter, Process, Deliver, Send, Beacon, PublishOwn,
               StartApp, Echo, StopApp, Ask, Get, Listen, Forward, vars, serial, radio
<1>2. \/ sent' = sent
      \/ \E f : sent' = Append(sent, f)
  BY Zenon DEF Next, Line, Redis, StartRouter, Process, Deliver, Send, Beacon, PublishOwn,
               StartApp, Echo, StopApp, Ask, Get, Listen, Forward, Reply, vars, serial, radio
<1>3. \/ said' = said
      \/ \E f : said' = Append(said, f)
  BY Zenon DEF Next, Line, Redis, StartRouter, Process, HandleData, SendTo, DeliverTo, Deliver,
               Send, Beacon, PublishOwn, StartApp, Echo, StopApp, Ask, Get, Listen, Forward,
               Write, vars, serial, radio
<1>4. IsList(sent)
  BY Zenon DEF LineInv
<1>5. Longer(sent', sent)
  BY <1>2, <1>4, Grows, Zenon DEF Longer
<1>6. Longer(said', said) /\ IsList(said')
  <2>1. CASE said' = said
    BY <2>1, Zenon DEF Longer
  <2>2. ASSUME NEW f, said' = Append(said, f) PROVE Longer(said', said) /\ IsList(said')
    <3>1. Grown(said', said, f)
      BY <2>2, Grows, Zenon
    <3> QED BY <3>1, Zenon DEF Longer, Grown
  <2> QED BY <1>3, <2>1, <2>2, Zenon
<1> QED BY <1>1, <1>5, <1>6

LEMMA CleanKept == ASSUME LineInv, IsList(said), [Next]_vars, Clean' PROVE Clean
<1>1. torn' = torn /\ Longer(sent', sent) /\ Longer(said', said)
  BY Changes, Zenon
<1>2. ASSUME NEW t, NEW s, Longer(t, s), NEW i \in 1..Len(s)
      PROVE  i \in 1..Len(t) /\ t[i] = s[i]
  <2>1. CASE t = s
    BY <1>2, <2>1, Zenon
  <2>2. CASE \E e : Grown(t, s, e)
    <3>1. /\ Len(s) \in Nat /\ Len(t) = Len(s) + 1 /\ t[i] = s[i]
      BY <1>2, <2>2, Zenon DEF Grown
    <3>2. i \in 1..Len(t)
      BY <3>1
    <3> QED BY <3>1, <3>2
  <2> QED BY <1>2, <2>1, <2>2, Zenon DEF Longer
<1>3. ~torn
  <2>1. ~torn'
    BY Zenon DEF Clean, OnCourse
  <2> QED BY <1>1, <2>1
<1>4. ASSUME NEW i \in 1..Len(sent) PROVE Correct(sent[i])
  BY <1>1, <1>2, <1>4, Zenon DEF Clean, OnCourse
<1>5. ASSUME NEW i \in 1..Len(said) PROVE Single(said[i])
  BY <1>1, <1>2, <1>5, Zenon DEF Clean
<1> QED BY <1>3, <1>4, <1>5, Zenon DEF Clean, OnCourse

LEMMA OuterNext == ASSUME Outer, [Next]_vars, torn' = torn PROVE Outer'
<1>1. torn' \in BOOLEAN
  BY Zenon DEF Outer
<1>2. unpublished' = unpublished \/ \E p \in unpublished : unpublished' = unpublished \ {p}
  <2>1. CASE PublishOwn
    BY <2>1, Zenon DEF PublishOwn
  <2>2. CASE ~PublishOwn
    BY <2>2, Zenon DEF Next, Line, Redis, StartRouter, Process, Deliver, Send, Beacon,
                       StartApp, Echo, StopApp, vars, local
  <2> QED BY <2>1, <2>2
<1>3. beacons' = beacons \/ (beacons > 0 /\ beacons' = beacons - 1)
  <2>1. CASE Beacon
    BY <2>1, Zenon DEF Beacon
  <2>2. CASE ~Beacon
    BY <2>2, Zenon DEF Next, Line, Redis, StartRouter, Process, Deliver, Send, PublishOwn,
                       StartApp, Echo, StopApp, vars, local
  <2> QED BY <2>1, <2>2
<1>4. unpublished' \subseteq Channels \X Contents
  BY <1>2, Zenon DEF Outer
<1>5. beacons' \in Nat
  <2>1. beacons \in Nat
    BY Zenon DEF Outer
  <2> QED BY <1>3, <2>1
<1> QED BY <1>1, <1>4, <1>5, Zenon DEF Outer

\* A step that leaves the line and the router alone.
LEMMA OffLine ==
  ASSUME Learning, Wire, Talk, UNCHANGED serial PROVE Learning' /\ Wire' /\ Talk'
<1>1. UNCHANGED router /\ UNCHANGED <<up, sent, taken>> /\ UNCHANGED <<down, said, heard>>
  BY DEF serial, router
<1> QED BY <1>1, LearnStutter, WireStutter, TalkStutter, Zenon

LEMMA HandStutter == ASSUME Hand, delivering' = delivering PROVE Hand'
BY Zenon DEF Hand

LEMMA TalkSays == ASSUME Talk, Says, heard' = heard PROVE Talk'
<1>1. CASE UNCHANGED <<down, said>>
  <2>1. UNCHANGED <<down, said, heard>>
    BY <1>1
  <2> QED BY <2>1, TalkStutter, Zenon
<1>2. CASE \E f : Sayable(f) /\ Write(f)
  BY <1>2, TalkWrites, Zenon
<1> QED BY <1>1, <1>2, Zenon DEF Says

LEMMA SoundLine ==
  ASSUME LineInv, Clean, InOrderOf, Clean', Line PROVE InOrderOf'
<1>1. /\ Learning /\ Wire /\ Talk /\ Hand /\ BusFits /\ OnCourse /\ OnCourse'
      /\ \A k \in 1..Len(said) : Single(said[k])
  BY Zenon DEF InOrderOf, Clean
<1>2. UNCHANGED bus /\ delivering' = delivering
  BY Zenon DEF Line, local
<1>3. BusFits' /\ Hand'
  BY <1>1, <1>2, BusStutter, HandStutter, Zenon
<1>4. CASE Ask
  <2>1. UNCHANGED <<up, sent, taken>> /\ heard' = heard
    BY <1>4, Zenon DEF Ask, radio
  <2>2. Learning' /\ Wire' /\ Talk'
    BY <1>1, <1>4, <2>1, LearnAsk, WireStutter, AskSays, TalkSays, Zenon
  <2> QED BY <1>3, <2>2, Zenon DEF InOrderOf
<1>5. CASE Get
  <2>1. sent' = sent /\ UNCHANGED <<down, said, heard>>
    BY <1>5, Zenon DEF Get, radio
  <2>2. Complete(up) /\ \E f : f = Unserialize(up) /\ Take(f)
    BY <1>5, Zenon DEF Get
  <2>3. Learning' /\ Wire' /\ Talk'
    BY <1>1, <1>5, <2>1, <2>2, LearnGet, WireTakes, TalkStutter, Zenon
  <2> QED BY <1>3, <2>3, Zenon DEF InOrderOf
<1>6. CASE Listen
  <2>1. UNCHANGED router
    BY <1>6, Zenon DEF Listen
  <2>2. Learning' /\ Wire' /\ Talk'
    BY <1>1, <1>6, <2>1, LearnStutter, WireListens, TalkListens, Zenon
  <2> QED BY <1>3, <2>2, Zenon DEF InOrderOf
<1>7. CASE Forward
  <2>1. UNCHANGED router /\ UNCHANGED <<down, said, heard>>
    BY <1>7, Zenon DEF Forward
  <2>2. Learning' /\ Wire' /\ Talk'
    BY <1>1, <1>7, <2>1, LearnStutter, WireForwards, TalkStutter, Zenon
  <2> QED BY <1>3, <2>2, Zenon DEF InOrderOf
<1> QED BY <1>4, <1>5, <1>6, <1>7, Zenon DEF Line

LEMMA SoundRouter ==
  ASSUME LineInv, Clean, InOrderOf, Process \/ Send \/ Beacon PROVE InOrderOf'
<1>1. Learning /\ Wire /\ Talk /\ Hand /\ BusFits /\ OnCourse
  BY Zenon DEF InOrderOf, Clean
<1>2. UNCHANGED router /\ heard' = heard /\ sent' = sent
  BY Zenon DEF Process, Send, Beacon, radio
<1>3. Learning'
  BY <1>1, <1>2, LearnStutter, Zenon
<1>4. CASE Process
  <2>1. Says /\ Hand'
    BY <1>1, <1>4, ProcessSays, Zenon
  <2>2. UNCHANGED bus /\ Complete(up) /\ \E f : f = Unserialize(up) /\ Take(f)
    BY <1>4, Zenon DEF Process
  <2>3. Wire' /\ Talk' /\ BusFits'
    BY <1>1, <1>2, <2>1, <2>2, WireTakes, TalkSays, BusStutter, Zenon
  <2> QED BY <1>3, <2>1, <2>3, Zenon DEF InOrderOf
<1>5. CASE Send
  <2>1. HandlerReturns(Router) /\ inbox' = inbox /\ up' = up /\ taken' = taken
        /\ delivering' = delivering
    BY <1>5, Zenon DEF Send
  <2>2. Router \in Subscribers
    BY Zenon DEF Subscribers
  <2>3. BusFits'
    BY <1>1, <2>1, <2>2, BusReturns, Zenon
  <2>4. UNCHANGED <<up, sent, taken>>
    BY <1>2, <2>1
  <2>5. Wire' /\ Talk' /\ Hand'
    BY <1>1, <1>2, <1>5, <2>1, <2>4, WireStutter, SendSays, TalkSays, HandStutter, Zenon
  <2> QED BY <1>3, <2>3, <2>5, Zenon DEF InOrderOf
<1>6. CASE Beacon
  <2>1. UNCHANGED bus /\ up' = up /\ taken' = taken /\ delivering' = delivering
    BY <1>6, Zenon DEF Beacon
  <2>2. UNCHANGED <<up, sent, taken>>
    BY <1>2, <2>1
  <2>3. Wire' /\ Talk' /\ Hand' /\ BusFits'
    BY <1>1, <1>2, <1>6, <2>1, <2>2, WireStutter, BeaconSays, TalkSays, HandStutter,
       BusStutter, Zenon
  <2> QED BY <1>3, <2>3, Zenon DEF InOrderOf
<1> QED BY <1>4, <1>5, <1>6

\* Steps that only the bus sees.
LEMMA SoundBus ==
  ASSUME InOrderOf, Outer,
         \/ Redis \/ StartRouter \/ Deliver \/ PublishOwn
         \/ \E a \in Apps : StartApp(a) \/ Echo(a) \/ StopApp(a)
  PROVE  InOrderOf'
<1>1. Learning /\ Wire /\ Talk /\ Hand /\ BusFits
  BY Zenon DEF InOrderOf
<1>2. UNCHANGED serial
  BY Zenon DEF Redis, StartRouter, Deliver, PublishOwn, StartApp, Echo, StopApp
<1>3. Learning' /\ Wire' /\ Talk'
  BY <1>1, <1>2, OffLine, Zenon
<1>4. CASE Redis \/ StartRouter \/ \E a \in Apps : StartApp(a) \/ StopApp(a)
  <2>1. Router \in Subscribers /\ \A a \in Apps : a \in Subscribers
    BY Zenon DEF Subscribers
  <2>2. delivering' = delivering
        /\ \E s \in Subscribers : Loop(s) \/ Run(s) \/ Stop(s)
    BY <1>4, <2>1, Zenon DEF Redis, StartRouter, StartApp, StopApp, local
  <2>3. Hand' /\ BusFits'
    BY <1>1, <2>2, HandStutter, BusLoops, Zenon
  <2> QED BY <1>3, <2>3, Zenon DEF InOrderOf
<1>5. CASE Deliver
  <2> DEFINE p == delivering[1]
             ch == [port |-> p.port, destination |-> SELF, source |-> p.source]
  <2>1. /\ delivering # <<>> /\ delivering' = <<>> /\ Publish(ch, p.content)
        /\ UNCHANGED <<thread, should_run, queued, listening, handling, stopping, late>>
    BY <1>5, Zenon DEF Deliver
  <2>2. PICK r : Roomy(r) /\ delivering = <<r>>
    BY <1>1, <2>1, Zenon DEF Hand
  <2>3. p = r
    BY <2>2
  <2>4. p \in DataPackets /\ Fits(DataSize(Len(p.visited) + 1, Len(p.content)))
    BY <2>2, <2>3, Zenon DEF Roomy
  <2> HIDE DEF p
  <2>5. /\ p.content \in Seq(0..255) /\ p.visited \in Seq(0..255)
        /\ p.port \in 0..255 /\ p.source \in 0..255
    BY <2>4 DEF DataPackets, Byte
  <2>6. p.content \in Contents
    <3>1. Len(p.visited) \in Nat /\ Len(p.content) \in Nat
      BY <2>5, LenProperties, Zenon
    <3> DEFINE v == Len(p.visited)
               c == Len(p.content)
    <3>2. v \in Nat /\ c \in Nat /\ Fits(DataSize(v + 1, c))
      BY <2>4, <3>1, Zenon
    <3> HIDE DEF v, c
    <3>3. Fits(DataSize(0, c))
      BY <3>2 DEF Fits, DataSize
    <3> QED BY <2>5, <3>3, Zenon DEF Contents, c
  <2>7. ch \in Channels
    BY <2>5 DEF Channels, SELF
  <2> HIDE DEF ch
  <2>8. BusFits'
    BY <1>1, <2>1, <2>6, <2>7, BusPublishes, Zenon
  <2>9. Hand'
    BY <2>1, Zenon DEF Hand
  <2> QED BY <1>3, <2>8, <2>9, Zenon DEF InOrderOf
<1>6. CASE PublishOwn
  <2>1. PICK p \in unpublished : Publish(p[1], p[2])
    BY <1>6, Zenon DEF PublishOwn
  <2>2. UNCHANGED <<thread, should_run, queued, listening, handling, stopping, late>>
        /\ delivering' = delivering
    BY <1>6, Zenon DEF PublishOwn
  <2>3. p[1] \in Channels /\ p[2] \in Contents
    BY DEF Outer
  <2>4. BusFits' /\ Hand'
    BY <1>1, <2>1, <2>2, <2>3, BusPublishes, HandStutter, Zenon
  <2> QED BY <1>3, <2>4, Zenon DEF InOrderOf
<1>7. ASSUME NEW a \in Apps, Echo(a) PROVE InOrderOf'
  <2> DEFINE h == handling[a]
             ch == [port |-> Listens[a], destination |-> h.channel.source, source |-> SELF]
  <2>1. a \in Subscribers
    BY Zenon DEF Subscribers
  <2>2. /\ HandlerReturns(a) /\ delivering' = delivering
        /\ Publish(ch, h.message) \/ inbox' = inbox
    BY <1>7, Zenon DEF Echo, local
  <2>3. h.message \in Contents /\ h.channel.source \in 0..255
    BY <1>1, <2>1, HandlingItem, Zenon
  <2>4. Listens[a] \in 0..255
    BY BusAssumption, Zenon
  <2> HIDE DEF h
  <2>5. ch \in Channels
    BY <2>3, <2>4 DEF Channels, SELF
  <2> HIDE DEF ch
  <2>6. BusFits' /\ Hand'
    BY <1>1, <2>1, <2>2, <2>3, <2>5, BusReturns, HandStutter, Zenon
  <2> QED BY <1>3, <2>6, Zenon DEF InOrderOf
<1> QED BY <1>4, <1>5, <1>6, <1>7, Zenon

LEMMA SoundNext == ASSUME SoundInv, [Next]_vars PROVE SoundInv'
<1>1. LineInv /\ IsList(said) /\ Outer /\ (Clean => InOrderOf)
  BY Zenon DEF SoundInv
<1>2. LineInv'
  BY <1>1, LineNext, Zenon
<1>3. IsList(said') /\ torn' = torn
  BY <1>1, Changes, Zenon
<1>4. Outer'
  BY <1>1, <1>3, OuterNext, Zenon
<1>5. ASSUME Clean' PROVE InOrderOf'
  <2>1. Clean /\ InOrderOf
    BY <1>1, <1>5, CleanKept, Zenon
  <2>2. CASE UNCHANGED vars
    <3>1. UNCHANGED serial /\ UNCHANGED bus /\ delivering' = delivering
      BY <2>2, Zenon DEF vars
    <3>2. Learning' /\ Wire' /\ Talk' /\ Hand' /\ BusFits'
      BY <2>1, <3>1, OffLine, BusStutter, HandStutter, Zenon DEF InOrderOf
    <3> QED BY <3>2, Zenon DEF InOrderOf
  <2>3. CASE Line
    BY <1>1, <1>5, <2>1, <2>3, SoundLine, Zenon
  <2>4. CASE Process \/ Send \/ Beacon
    BY <1>1, <2>1, <2>4, SoundRouter, Zenon
  <2>5. CASE \/ Redis \/ StartRouter \/ Deliver \/ PublishOwn
             \/ \E a \in Apps : StartApp(a) \/ Echo(a) \/ StopApp(a)
    BY <1>1, <2>1, <2>5, SoundBus, Zenon
  <2> QED BY <2>2, <2>3, <2>4, <2>5, Zenon DEF Next
<1> QED BY <1>2, <1>3, <1>4, <1>5, Zenon DEF SoundInv

LEMMA SoundInit == ASSUME Init PROVE SoundInv
<1> PICK s \in Scenarios :
      SerialInit(s.traffic) /\ unpublished = s.published /\ beacons = s.beacons
  BY Zenon DEF Init
<1>1. LineInv
  BY LineInit, Zenon
<1>2. /\ up \in Remains /\ torn = (up # <<>>) /\ step = 1 /\ waiting = FALSE
      /\ down = <<>> /\ said = <<>> /\ heard = <<>> /\ sent = <<>> /\ taken = <<>>
      /\ self = [network |-> <<0, 0>>, mac |-> [i \in 1..8 |-> 0]]
  BY Zenon DEF SerialInit
<1>3. IsList(<<>>) /\ Len(<<>>) = 0 /\ 0 <= 0 /\ 0 - 0 = 0 /\ 0 \in Nat
  <2>1. <<>> \in Seq({}) /\ Len(<<>>) = 0
    OBVIOUS
  <2> QED BY <2>1 DEF IsList
<1>4. \A i \in 1..0 : FALSE
  OBVIOUS
<1>5. Outer
  <2>1. torn \in BOOLEAN
    BY <1>2, Zenon
  <2>2. unpublished \subseteq Channels \X Contents /\ beacons \in Nat
    BY GatewayAssumption, Zenon
  <2> QED BY <2>1, <2>2, Zenon DEF Outer
<1>6. Learning
  <2>1. 0 \in Memory
    BY DEF Memory, Byte
  <2>2. self \in [network : [1..2 -> Memory], mac : [1..8 -> Memory]]
    BY <1>2, <2>1
  <2>3. step \in 1..8
    BY <1>2
  <2>4. waiting \in BOOLEAN /\ ~waiting
    BY <1>2
  <2> QED BY <2>2, <2>3, <2>4, Zenon DEF Learning
<1>7. Wire
  <2>1. up \in Seq(Byte)
    BY <1>2, SerialAssumption DEF Byte
  <2> QED BY <1>2, <1>3, <1>4, <2>1, Zenon DEF Wire
<1>8. Talk
  <2>1. Among(<<>>, 0) = {} /\ Place(<<>>, 0) = 0
    <3>1. Among(<<>>, 0) = {}
      BY <1>4, Zenon DEF Among
    <3> QED BY <3>1, FS_EmptySet, Zenon DEF Place
  <2>2. HeardOf(<<>>, <<>>, 0)
    BY <1>3, <2>1, Zenon DEF HeardOf
  <2>3. OnLine(<<>>, <<>>) /\ AllSayable(<<>>)
    BY <1>3, <1>4, Zenon DEF OnLine, AllSayable
  <2> QED BY <1>2, <1>3, <2>2, <2>3, Zenon DEF Talk
<1>9. Hand /\ BusFits
  BY BusStarts, Zenon DEF Init, Hand
<1> QED BY <1>1, <1>2, <1>3, <1>5, <1>6, <1>7, <1>8, <1>9, Zenon DEF SoundInv, InOrderOf

LEMMA CleanTypes == ASSUME LineInv, Outer, InOrderOf PROVE TypeOK
<1>1. Learning /\ Wire /\ Talk /\ Hand /\ BusFits
  BY Zenon DEF InOrderOf
<1>2. step \in 1..(Len(Script) + 1) /\ waiting \in BOOLEAN
  <2>1. Len(Script) = 7
    BY DEF Script
  <2>2. step \in 1..8 /\ waiting \in BOOLEAN
    BY <1>1, Zenon DEF Learning
  <2>3. step \in 1..(Len(Script) + 1)
    BY <2>1, <2>2
  <2> QED BY <2>2, <2>3, Zenon
<1>3. self.network \in [1..2 -> Memory] /\ self.mac \in [1..8 -> Memory]
  BY <1>1 DEF Learning
<1>4. up \in Seq(Byte) /\ \A i \in 1..Len(taken) : taken[i].type \in Byte
  BY <1>1, Zenon DEF Wire
<1>5. ASSUME NEW i \in 1..Len(down) PROVE down[i] \in Seq(Memory)
  <2> DEFINE k == Len(said) - Len(down) + i
  <2>1. /\ down[i] = Serialize(said[k]) /\ Len(down) <= Len(said)
        /\ IsList(down) /\ IsList(said) /\ AllSayable(said)
    BY <1>1, Zenon DEF Talk, OnLine
  <2>2. Len(said) \in Nat /\ Len(down) \in Nat
    BY <2>1, LenProperties, Zenon DEF IsList
  <2>3. k \in 1..Len(said)
    BY <2>1, <2>2
  <2> HIDE DEF k
  <2>4. Sayable(said[k])
    BY <2>1, <2>3, Zenon DEF AllSayable
  <2>5. IsFrame(said[k], Memory) /\ said[k].type \in {Command, Transmit}
    BY <2>4, Zenon DEF Sayable
  <2>6. said[k].type \in Byte
    BY <2>5 DEF Command, Transmit, Byte
  <2> DEFINE g == said[k]
  <2>7. IsFrame(g, Memory) /\ g.type \in Byte
    BY <2>5, <2>6, Zenon
  <2>8. Memory \subseteq Nat /\ Byte \subseteq Memory
    BY MemoryIs, Zenon
  <2>9. down[i] = Serialize(g)
    BY <2>1, Zenon
  <2> HIDE DEF g
  <2>10. Serialize(g) \in Seq(Memory)
    BY <2>7, <2>8, SerializedBytes, Zenon
  <2> QED BY <2>9, <2>10, Zenon
<1>6. torn \in BOOLEAN /\ IsTransmissions(traffic)
  BY Zenon DEF Outer, LineInv
<1>7. ASSUME NEW f, Sayable(f)
      PROVE  /\ f.type \in {Command, Transmit} /\ Len(f.header) = Width(f.type)
             /\ f.header \in Seq(Memory) /\ f.data \in Seq(Byte)
             /\ Len(f.header) + Len(f.data) + 5 <= 300
  BY <1>7, Zenon DEF Sayable, IsFrame
<1>8. \A i \in 1..Len(said) : \A f \in {said[i]} :
        /\ f.type \in {Command, Transmit} /\ Len(f.header) = Width(f.type)
        /\ f.header \in Seq(Memory) /\ f.data \in Seq(Byte)
        /\ Len(f.header) + Len(f.data) + 5 <= 300
  BY <1>1, <1>7, Zenon DEF Talk, AllSayable
<1>9. SerialTypeOK
  BY <1>2, <1>3, <1>4, <1>5, <1>6, <1>8, Zenon DEF SerialTypeOK
<1>10. Len(delivering) <= 1 /\ \A i \in 1..Len(delivering) : delivering[i] \in DataPackets
  <2>1. CASE delivering = <<>>
    BY <2>1
  <2>2. ASSUME NEW p, Roomy(p), delivering = <<p>>
        PROVE  Len(delivering) <= 1 /\ \A i \in 1..Len(delivering) : delivering[i] \in DataPackets
    <3>1. p \in DataPackets
      BY <2>2, Zenon DEF Roomy
    <3> QED BY <2>2, <3>1
  <2> QED BY <1>1, <2>1, <2>2, Zenon DEF Hand
<1>11. BusTypeOK
  BY <1>1, BusFitsTypes, Zenon
<1>12. unpublished \subseteq Channels \X Contents /\ beacons \in Nat
  BY Zenon DEF Outer
<1> QED BY <1>9, <1>10, <1>11, <1>12, Zenon DEF TypeOK

LEMMA SoundHeard == ASSUME SoundInv, OnCourse PROVE OnlyMarkedLost
<1>1. CASE Clean
  <2>1. Talk
    BY <1>1, Zenon DEF SoundInv, InOrderOf
  <2> QED BY <2>1, TalkHeard, Zenon
<1>2. CASE ~Clean
  BY <1>2, Zenon DEF Clean, OnlyMarkedLost
<1> QED BY <1>1, <1>2

\* Until a frame was torn or the simulator has written a wrong length, the radio understands
\* all frames of the router in their order, but for those with the byte 126 after their
\* start, as long as no message is itself a frame: whatever the router was asked, what it
\* was sent, and which frames it acknowledges, passes on or broadcasts
\* (xbee.cpp:173-198, node.rb:47-62).
THEOREM Only_Marked_Lost == Spec => [](OnCourse => OnlyMarkedLost)
<1> DEFINE Lost == OnCourse => OnlyMarkedLost
<1>1. SoundInv => Lost
  BY SoundHeard, Zenon
<1> HIDE DEF Lost
<1>2. Init => SoundInv
  BY SoundInit
<1>3. SoundInv /\ [Next]_vars => SoundInv'
  BY SoundNext
<1>4. Spec => []Lost
  BY <1>1, <1>2, <1>3, PTL DEF Spec
<1> QED BY <1>4 DEF Lost

\* As long as nothing is out of step and no message is itself a frame, every frame, packet
\* and message has its type: what the radio sends are bytes, what the router writes fits the 300 bytes of its buffer, and what
\* it publishes fits into a packet again (radio.h:397-398, xbee.cpp:127-198, packet.cpp:66-206,
\* router.cpp:13-49, driver.cpp:93-111).
THEOREM Clean_TypeOK == Spec => [](Clean => TypeOK)
<1> DEFINE Typed == Clean => TypeOK
<1>1. SoundInv => Typed
  BY CleanTypes, Zenon DEF SoundInv
<1> HIDE DEF Typed
<1>2. Init => SoundInv
  BY SoundInit
<1>3. SoundInv /\ [Next]_vars => SoundInv'
  BY SoundNext
<1>4. Spec => []Typed
  BY <1>1, <1>2, <1>3, PTL DEF Spec
<1> QED BY <1>4 DEF Typed

\* The frames of the radio are correct from now on if they are and the traffic to come is.
Lengths(t) ==
  \A i \in 1..Len(t) : Correct(ReceiveFrame(t[i][1], t[i][2], To_frame(t[i][3])))

LEMMA CorrectGrows ==
  ASSUME OnCourse, torn' = torn, NEW f, Correct(f), IsList(sent), sent' = Append(sent, f)
  PROVE  OnCourse'
<1> DEFINE m == Len(sent)
<1>1. ~torn /\ \A i \in 1..m : Correct(sent[i])
  BY Zenon DEF OnCourse
<1>2. /\ m \in Nat /\ Len(sent') = m + 1
      /\ sent'[m + 1] = f /\ \A i \in 1..m : sent'[i] = sent[i]
  <2>1. Grown(sent', sent, f)
    BY Grows, Zenon
  <2> QED BY <2>1, Zenon DEF Grown
<1> HIDE DEF m
<1>3. ASSUME NEW i \in 1..(m + 1) PROVE Correct(sent'[i])
  <2>1. i \in 1..m \/ i = m + 1
    BY <1>2
  <2> QED BY <1>1, <1>2, <2>1, Zenon
<1>4. ~torn'
  <2>1. torn' = torn
    OBVIOUS
  <2> QED BY <1>1, <2>1
<1> QED BY <1>2, <1>3, <1>4, Zenon DEF OnCourse

LEMMA CorrectNext ==
  ASSUME LineInv, OnCourse, Lengths(traffic), [Next]_vars PROVE OnCourse' /\ Lengths(traffic)'
<1>1. IsList(sent) /\ IsTransmissions(traffic)
  BY Zenon DEF LineInv
<1>2. torn' = torn
  BY Zenon DEF Next, Line, Redis, StartRouter, Process, Deliver, Send, Beacon, PublishOwn,
               StartApp, Echo, StopApp, Ask, Get, Listen, Forward, vars, serial, radio
<1>3. CASE sent' = sent /\ traffic' = traffic
  <2>1. ~torn
    BY Zenon DEF OnCourse
  <2>2. ~torn'
    BY <1>2, <2>1
  <2>3. \A i \in 1..Len(sent') : Correct(sent'[i])
    BY <1>3, Zenon DEF OnCourse
  <2>4. Lengths(traffic')
    BY <1>3, Zenon
  <2> QED BY <2>2, <2>3, <2>4, Zenon DEF OnCourse, Lengths
<1>4. CASE Listen /\ sent' # sent
  <2>1. PICK g : sent' = Append(sent, ReplyTo(g)) /\ traffic' = traffic
    BY <1>4, Zenon DEF Listen, Reply
  <2>2. ReplyTo(g).type \in {ModemStatus, CommandResponse}
    BY ReplyFrame, Zenon
  <2>3. Correct(ReplyTo(g))
    BY <2>2 DEF Correct, ModemStatus, CommandResponse, Receive
  <2>4. OnCourse'
    BY <1>1, <1>2, <2>1, <2>3, CorrectGrows, Zenon
  <2>5. Lengths(traffic')
    BY <2>1, Zenon
  <2> QED BY <2>4, <2>5, Zenon DEF Lengths
<1>5. CASE Forward
  <2> DEFINE t == traffic[1]
             f == ReceiveFrame(t[1], t[2], To_frame(t[3]))
             S == Byte \X Peers \X Passing
  <2>1. traffic # <<>> /\ traffic' = Tail(traffic) /\ Head(traffic) \in {Head(traffic)}
    BY <1>5, Zenon DEF Forward
  <2>2. traffic \in Seq(S)
    BY <1>1, Zenon DEF IsTransmissions
  <2> HIDE DEF S
  <2>3. /\ Head(traffic) = t /\ 1 \in 1..Len(traffic)
        /\ \A i \in 1..Len(traffic') : traffic'[i] = traffic[i + 1] /\ i + 1 \in 1..Len(traffic)
    BY <2>1, <2>2
  <2>4. sent' = Append(sent, f)
    BY <1>5, <2>3, Zenon DEF Forward, Reply
  <2>5. Correct(f)
    BY <2>3, Zenon DEF Lengths
  <2> HIDE DEF f, t
  <2>6. OnCourse'
    BY <1>1, <1>2, <2>4, <2>5, CorrectGrows, Zenon
  <2>7. Lengths(traffic')
    BY <2>3, Zenon DEF Lengths
  <2> QED BY <2>6, <2>7, Zenon DEF Lengths
<1>6. (sent' = sent /\ traffic' = traffic) \/ (Listen /\ sent' # sent) \/ Forward
  <2>1. CASE Listen
    BY <2>1, Zenon DEF Listen
  <2>2. CASE ~Listen
    BY <2>2, Zenon DEF Next, Line, Redis, StartRouter, Process, Deliver, Send, Beacon,
               PublishOwn, StartApp, Echo, StopApp, Ask, Get, vars, serial, radio
  <2> QED BY <2>1, <2>2
<1> QED BY <1>3, <1>4, <1>5, <1>6

\* Whether the reader stays in step is settled before the first step: if tcflush() has left
\* nothing of a frame, and no packet that is still to come has the length the simulator
\* gets wrong, then no length is ever wrong, and the radio misses only marked frames, for
\* good (router.cpp:13, xbee.cpp:173-198, node.rb:47-62, 123-148).
THEOREM Correct_Forever == Spec /\ AllCorrect => [](AllCorrect /\ OnlyMarkedLost)
<1>1. AllCorrect <=> OnCourse /\ Lengths(traffic)
  BY Zenon DEF AllCorrect, OnCourse, Lengths
<1>2. (AllCorrect <=> OnCourse /\ Lengths(traffic))'
  BY Zenon DEF AllCorrect, OnCourse, Lengths
<1>3. SoundInv /\ AllCorrect => OnlyMarkedLost
  BY <1>1, SoundHeard, Zenon
<1>4. Init => SoundInv
  BY SoundInit
<1>5. SoundInv /\ AllCorrect /\ [Next]_vars => SoundInv' /\ AllCorrect'
  <2> SUFFICES ASSUME SoundInv, AllCorrect, [Next]_vars PROVE SoundInv' /\ AllCorrect'
    OBVIOUS
  <2>1. SoundInv'
    BY SoundNext, Zenon
  <2>2. OnCourse' /\ Lengths(traffic)'
    BY <1>1, CorrectNext, Zenon DEF SoundInv
  <2> QED BY <1>2, <2>1, <2>2, Zenon
<1> QED BY <1>3, <1>4, <1>5, PTL DEF Spec

=============================================================================
