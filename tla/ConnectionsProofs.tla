------------------------- MODULE ConnectionsProofs -------------------------
(***************************************************************************)
(* Proofs about what serves an app's connections: its resident instance    *)
(* (Residents), and a mapped UDP port (Peers).  They share nothing.        *)
(***************************************************************************)
EXTENDS Residents, Peers, FiniteSetTheorems, TLAPS

-----------------------------------------------------------------------------
(* The resident instance, for any number of connections, threads, messages,  *)
(* deploys and failures, and any depth of queues.                           *)

\* What a connection is about goes with how far its life is; one that has not
\* come has asked nothing.
ClientsAsk ==
    \A c \in Clients :
        /\ client[c].event = "connect" => client[c].life = "connecting"
        /\ client[c].event = "message" => client[c].life \in {"open", "ended"}
        /\ client[c].event = "close" => client[c].life = "ended"
        /\ client[c].life = "away" => client[c].at = "rest" /\ client[c].on = 0
        /\ client[c].at # "rest" => client[c].event # "none"

\* A close is sent when the connection is over, and it stays over.
Late(job) == job.event = "close" => client[job.client].life \in {"ended", "gone"}

ClosesLate ==
    \A t \in 1..Threads :
        /\ Late(threads[t].job)
        /\ \A i \in 1..Len(threads[t].queue) : Late(threads[t].queue[i])

\* A call runs in an instance, and a thread that is no more has none.
LiveWhileRun ==
    \A t \in 1..Threads :
        /\ threads[t].phase = "run" => threads[t].live
        /\ threads[t].phase \in {"none", "over"} => ~threads[t].live

\* RunsTheHandler, and already of a thread that has read the handler and has yet
\* to start its instance.
HasTheHandler ==
    /\ stoppedFor <= handler
    /\ \A t \in 1..Threads :
          Alive(t) /\ ~threads[t].stopped /\ (threads[t].live \/ threads[t].phase = "loaded")
              => threads[t].code >= stoppedFor

\* OpenIsKnown, and already of a connection that was accepted and has yet to
\* hear of it.
AcceptedIsKnown ==
    \A c \in Clients :
        client[c].life \in {"connecting", "open"} /\ client[c].on # 0 /\ ~client[c].closing
            => threads[client[c].on].live /\ c \in threads[client[c].on].known

ResidentsInv ==
    /\ ResidentsTypeOK
    /\ StopFindsIt
    /\ ClientsAsk
    /\ ClosesLate
    /\ LiveWhileRun
    /\ HasTheHandler
    /\ AcceptedIsKnown

-----------------------------------------------------------------------------
(* What the helpers of the model return.                                      *)

Job == {Wake} \union Delivery

LEMMA JobFacts ==
    /\ Wake \in Job /\ Wake.event = "wake" /\ Wake.client = "none"
    /\ \A job \in Job : job = Wake \/ (job \in Delivery /\ job.client \in Clients /\ job.client # "none")
BY ResidentsAssumption DEF Job, Wake, Delivery

LEMMA ThreadFields ==
    ASSUME ResidentsTypeOK, NEW t \in 1..Threads
    PROVE  /\ threads[t] \in Thread
           /\ threads[t].queue \in Seq(Job) /\ threads[t].job \in Job
           /\ Len(threads[t].queue) \in Nat /\ Len(threads[t].queue) <= Depth
           /\ threads[t].known \subseteq Clients
           /\ threads[t].code \in 0..(Deploys + 1) /\ threads[t].settings \in 0..(Deploys + 1)
BY ResidentsAssumption DEF ResidentsTypeOK, Thread, Job

LEMMA NoThreadType ==
    /\ NoThread \in Thread /\ NoThread.queue = <<>> /\ NoThread.job = Wake
    /\ ~NoThread.live /\ ~NoThread.stopped
BY ResidentsAssumption DEF NoThread, Thread

\* A stop tells the thread and may nudge it, and changes no other.
LEMMA StoppedFacts ==
    ASSUME ResidentsTypeOK, NEW t \in 1..Threads
    PROVE  /\ Stopped(t) \in [1..Threads -> Thread]
           /\ \A u \in 1..Threads : u # t => Stopped(t)[u] = threads[u]
           /\ Stopped(t)[t].stopped
           /\ Stopped(t)[t].phase = threads[t].phase /\ Stopped(t)[t].job = threads[t].job
           /\ Stopped(t)[t].live = threads[t].live /\ Stopped(t)[t].code = threads[t].code
           /\ Stopped(t)[t].known = threads[t].known
           /\ Len(Stopped(t)[t].queue) <= Depth
           /\ \A i \in 1..Len(Stopped(t)[t].queue) :
                 \/ Stopped(t)[t].queue[i] = Wake
                 \/ i \in 1..Len(threads[t].queue) /\ Stopped(t)[t].queue[i] = threads[t].queue[i]
<1> DEFINE q == IF Len(threads[t].queue) < Depth THEN Append(threads[t].queue, Wake) ELSE threads[t].queue
           r == [threads[t] EXCEPT !.stopped = TRUE, !.queue = q]
<1>1. Stopped(t) = [threads EXCEPT ![t] = r]
  BY DEF Stopped, ResidentsTypeOK
<1>2. /\ q \in Seq(Job) /\ Len(q) <= Depth
      /\ \A i \in 1..Len(q) : q[i] = Wake \/ (i \in 1..Len(threads[t].queue) /\ q[i] = threads[t].queue[i])
  BY ThreadFields, JobFacts, ResidentsAssumption
<1>3. /\ r \in Thread /\ r.stopped /\ r.queue = q
      /\ r.phase = threads[t].phase /\ r.job = threads[t].job /\ r.live = threads[t].live
      /\ r.code = threads[t].code /\ r.known = threads[t].known
  <2> HIDE DEF q
  <2> QED
    BY <1>2, ThreadFields DEF Thread, Job
<1> QED
  <2> HIDE DEF q, r
  <2> QED
    BY <1>1, <1>2, <1>3 DEF ResidentsTypeOK

LEMMA ClosedFacts ==
    ASSUME ResidentsTypeOK, NEW cs \in SUBSET Clients
    PROVE  /\ Closed(cs) \in [Clients -> Connection]
           /\ \A c \in Clients :
                 /\ Closed(cs)[c].life = client[c].life /\ Closed(cs)[c].at = client[c].at
                 /\ Closed(cs)[c].event = client[c].event /\ Closed(cs)[c].on = client[c].on
                 /\ client[c].closing => Closed(cs)[c].closing
                 /\ c \in cs /\ client[c].life \in {"connecting", "open"} => Closed(cs)[c].closing
<1>1. \A c \in Clients : client[c] \in Connection
  BY DEF ResidentsTypeOK
<1>2. \A c \in Clients :
        LET k == [client[c] EXCEPT !.closing = TRUE]
        IN  /\ k \in Connection /\ k.closing /\ k.life = client[c].life /\ k.at = client[c].at
            /\ k.event = client[c].event /\ k.on = client[c].on
  BY <1>1 DEF Connection
<1> QED
  BY <1>1, <1>2 DEF Closed

LEMMA RepliedFacts ==
    ASSUME NEW cl \in [Clients -> Connection], NEW job \in Job, NEW ok \in BOOLEAN
    PROVE  /\ Replied(cl, job, ok) \in [Clients -> Connection]
           /\ \A c \in Clients :
                 /\ Replied(cl, job, ok)[c].life = cl[c].life
                 /\ Replied(cl, job, ok)[c].event = cl[c].event
                 /\ Replied(cl, job, ok)[c].on = cl[c].on
                 /\ Replied(cl, job, ok)[c].closing = cl[c].closing
                 /\ cl[c].at # "waits" => Replied(cl, job, ok)[c].at = cl[c].at
<1>1. CASE job.client # "none" /\ cl[job.client].at = "waits"
  <2> DEFINE k == [cl[job.client] EXCEPT !.at = "answered", !.ok = ok]
  <2>1. job.client \in Clients
    BY <1>1, JobFacts
  <2>2. /\ k \in Connection /\ k.life = cl[job.client].life /\ k.event = cl[job.client].event
        /\ k.on = cl[job.client].on /\ k.closing = cl[job.client].closing
    <3>1. cl[job.client] \in Connection
      BY <2>1
    <3> QED
      BY <3>1 DEF Connection
  <2>3. Replied(cl, job, ok) = [cl EXCEPT ![job.client] = k]
    BY <1>1, <2>1 DEF Replied
  <2> QED
    <3> HIDE DEF k
    <3> QED
      BY <1>1, <2>1, <2>2, <2>3
<1>2. CASE ~(job.client # "none" /\ cl[job.client].at = "waits")
  BY <1>2 DEF Replied
<1> QED
  BY <1>1, <1>2

-----------------------------------------------------------------------------
(* Steps of a thread.                                                         *)

Accepted(c) == client[c].life \in {"connecting", "open"} /\ client[c].on # 0 /\ ~client[c].closing

\* What every step of a thread is: it makes r of it, answers a connection that
\* waits or tells some to close, and no connection is left open that r does not
\* know.
ThreadStep(t, r) ==
    /\ threads' = [threads EXCEPT ![t] = r]
    /\ UNCHANGED <<site, current>>
    /\ paused' \in BOOLEAN /\ failures' \in 0..Failures
    /\ Alive(t) /\ r \in Thread /\ r.phase # "none" /\ Len(r.queue) <= Depth
    /\ r.phase # "over" /\ ~r.stopped => ~threads[t].stopped
    /\ Late(r.job) /\ \A i \in 1..Len(r.queue) : Late(r.queue[i])
    /\ r.phase = "run" => r.live
    /\ r.phase = "over" => ~r.live
    /\ r.live \/ r.phase = "loaded" =>
          \/ r.code = handler
          \/ r.code = threads[t].code /\ (threads[t].live \/ threads[t].phase = "loaded")
    /\ client' \in [Clients -> Connection]
    /\ \A c \in Clients :
          /\ client'[c].life = client[c].life /\ client'[c].event = client[c].event
          /\ client[c].closing => client'[c].closing
          /\ client[c].at # "waits" => client'[c].at = client[c].at /\ client'[c].on = client[c].on
          /\ client'[c].on \in {client[c].on, t}
          /\ client'[c].on = t /\ Accepted(c)' => r.live /\ c \in r.known

LEMMA ThreadStepKeeps ==
    ASSUME ResidentsInv, NEW t \in 1..Threads, NEW r, ThreadStep(t, r)
    PROVE  ResidentsInv'
<1>1. /\ threads[t] \in Thread /\ threads' \in [1..Threads -> Thread] /\ threads'[t] = r
      /\ \A u \in 1..Threads : u # t => threads'[u] = threads[u]
  BY DEF ThreadStep, ResidentsInv, ResidentsTypeOK
<1>2. ResidentsTypeOK'
  BY <1>1 DEF ThreadStep, ResidentsInv, ResidentsTypeOK, site
<1>3. StopFindsIt'
  BY <1>1 DEF ThreadStep, ResidentsInv, StopFindsIt, Alive
<1>4. ClientsAsk'
  BY DEF ThreadStep, ResidentsInv, ClientsAsk
<1> DEFINE LateNext(job) == job.event = "close" => client'[job.client].life \in {"ended", "gone"}
<1>5. \A job \in Job : Late(job) => LateNext(job)
  BY JobFacts DEF Late, ThreadStep
<1>6. ClosesLate'
  <2>1. r.job \in Job /\ r.queue \in Seq(Job) /\ Late(r.job)
        /\ \A i \in 1..Len(r.queue) : Late(r.queue[i]) /\ r.queue[i] \in Job
    BY DEF ThreadStep, Thread, Job
  <2>2. \A u \in 1..Threads :
          /\ threads[u].job \in Job /\ Late(threads[u].job)
          /\ \A i \in 1..Len(threads[u].queue) : Late(threads[u].queue[i]) /\ threads[u].queue[i] \in Job
    BY ThreadFields DEF ResidentsInv, ClosesLate
  <2>3. ASSUME NEW u \in 1..Threads
        PROVE  LateNext(threads'[u].job) /\ \A i \in 1..Len(threads'[u].queue) : LateNext(threads'[u].queue[i])
    <3> HIDE DEF LateNext
    <3>1. CASE u = t
      BY <1>1, <1>5, <2>1, <3>1
    <3>2. CASE u # t
      BY <1>1, <1>5, <2>2, <3>2
    <3> QED
      BY <3>1, <3>2
  <2> QED
    BY <2>3 DEF ClosesLate, Late
<1>7. LiveWhileRun'
  BY <1>1 DEF ThreadStep, ResidentsInv, LiveWhileRun
<1>8. HasTheHandler'
  BY <1>1 DEF ThreadStep, ResidentsInv, HasTheHandler, Alive, site
<1>9. AcceptedIsKnown'
  <2>1. ASSUME NEW c \in Clients, Accepted(c)'
        PROVE  threads'[client'[c].on].live /\ c \in threads'[client'[c].on].known
    <3>1. client'[c].on \in 1..Threads
      BY <2>1, ResidentsAssumption DEF ThreadStep, Accepted, Connection
    <3>2. CASE client'[c].on = t
      BY <1>1, <2>1, <3>2 DEF ThreadStep
    <3>3. CASE client'[c].on # t
      <4>1. Accepted(c) /\ client'[c].on = client[c].on
        BY <2>1, <3>3 DEF ThreadStep, Accepted
      <4> QED
        BY <1>1, <3>1, <3>3, <4>1 DEF ResidentsInv, AcceptedIsKnown, Accepted
    <3> QED
      BY <3>2, <3>3
  <2> QED
    BY <2>1 DEF AcceptedIsKnown, Accepted
<1> QED
  BY <1>2, <1>3, <1>4, <1>6, <1>7, <1>8, <1>9 DEF ResidentsInv

\* At most an answer is given, or connections are told to close.
Told ==
    /\ client' \in [Clients -> Connection]
    /\ \A c \in Clients :
          /\ client'[c].life = client[c].life /\ client'[c].event = client[c].event
          /\ client'[c].on = client[c].on
          /\ client[c].closing => client'[c].closing
          /\ client[c].at # "waits" => client'[c].at = client[c].at

LEMMA ReplyTold ==
    ASSUME ResidentsTypeOK,
           client' = client \/ \E job \in Job, ok \in BOOLEAN : client' = Reply(job, ok)
    PROVE  Told
<1>1. client \in [Clients -> Connection]
  BY DEF ResidentsTypeOK
<1>2. CASE client' = client
  BY <1>1, <1>2 DEF Told
<1>3. ASSUME NEW job \in Job, NEW ok \in BOOLEAN, client' = Reply(job, ok) PROVE Told
  <2>1. client' = Replied(client, job, ok)
    BY <1>3 DEF Reply
  <2> QED
    BY <1>1, <2>1, RepliedFacts DEF Told
<1> QED
  BY <1>2, <1>3

\* A step that leaves the instance as it is.
LEMMA QuietStep ==
    ASSUME ResidentsInv, NEW t \in 1..Threads, NEW r \in Thread,
           threads' = [threads EXCEPT ![t] = r],
           UNCHANGED <<site, current, paused, failures>>, Told,
           Alive(t), r.phase \notin {"none", "over"}, Len(r.queue) <= Depth,
           r.stopped = threads[t].stopped, r.live = threads[t].live,
           r.known = threads[t].known, r.code = threads[t].code,
           Late(r.job), \A i \in 1..Len(r.queue) : Late(r.queue[i]),
           r.phase = "run" => r.live,
           r.phase = "loaded" => threads[t].phase = "loaded"
    PROVE  ThreadStep(t, r)
<1>1. \A c \in Clients : client'[c].on = t /\ Accepted(c)' => r.live /\ c \in r.known
  <2> SUFFICES ASSUME NEW c \in Clients, client'[c].on = t, Accepted(c)'
               PROVE  r.live /\ c \in r.known
    OBVIOUS
  <2>1. Accepted(c) /\ client[c].on = t
    BY DEF Told, Accepted
  <2> QED
    BY <2>1 DEF Accepted, ResidentsInv, AcceptedIsKnown
<1>2. paused \in BOOLEAN /\ failures \in 0..Failures
  BY DEF ResidentsInv, ResidentsTypeOK
<1> QED
  BY <1>1, <1>2 DEF ThreadStep, Told

LEMMA WakeLate == Late(Wake)
BY DEF Late, Wake

LEMMA ReceiveStep ==
    ASSUME ResidentsInv, NEW t \in 1..Threads, Receive(t)
    PROVE  ResidentsInv'
<1> DEFINE q == threads[t].queue
           job == Head(q)
           r == [threads[t] EXCEPT !.queue = Tail(q),
                                   !.job = IF threads[t].stopped THEN Wake ELSE job,
                                   !.phase = IF threads[t].stopped THEN "ending"
                                             ELSE IF job = Wake THEN "idle" ELSE "call"]
<1>1. /\ threads[t] \in Thread /\ q \in Seq(Job) /\ Len(q) \in Nat /\ Len(q) <= Depth
      /\ q # <<>> /\ threads[t].phase = "idle"
  BY ThreadFields DEF Receive, ResidentsInv
<1>2. /\ job \in Job /\ Tail(q) \in Seq(Job) /\ Len(Tail(q)) <= Depth
      /\ job = q[1] /\ 1 \in 1..Len(q)
      /\ \A i \in 1..Len(Tail(q)) : Tail(q)[i] = q[i + 1] /\ i + 1 \in 1..Len(q)
  BY <1>1, ResidentsAssumption
<1>3. Late(job) /\ \A i \in 1..Len(Tail(q)) : Late(Tail(q)[i])
  <2>1. \A i \in 1..Len(q) : Late(q[i])
    BY DEF ResidentsInv, ClosesLate
  <2>2. Late(q[1])
    BY <1>2, <2>1
  <2>3. ASSUME NEW i \in 1..Len(Tail(q)) PROVE Late(Tail(q)[i])
    <3>1. Late(q[i + 1]) /\ Tail(q)[i] = q[i + 1]
      BY <1>2, <2>1
    <3> QED
      BY <3>1
  <2>4. Late(job)
    BY <1>2, <2>2
  <2> QED
    BY <2>3, <2>4
<1>4. /\ r \in Thread /\ r.queue = Tail(q) /\ r.job \in {Wake, job}
      /\ r.phase \in {"ending", "idle", "call"} /\ r.stopped = threads[t].stopped
      /\ r.live = threads[t].live /\ r.known = threads[t].known /\ r.code = threads[t].code
  <2> DEFINE now == IF threads[t].stopped THEN Wake ELSE job
             goes == IF threads[t].stopped THEN "ending" ELSE IF job = Wake THEN "idle" ELSE "call"
  <2>1. now \in {Wake, job} /\ goes \in {"ending", "idle", "call"}
    OBVIOUS
  <2> HIDE DEF now, goes, job
  <2> QED
    BY <1>1, <1>2, <2>1, JobFacts DEF Thread, Job
<1>5. threads' = [threads EXCEPT ![t] = r] /\ UNCHANGED <<site, current, paused, failures>>
  BY DEF Receive, ResidentsInv, ResidentsTypeOK
<1>6. Told
  <2>1. client' = client \/ client' = Reply(job, FALSE)
    BY DEF Receive
  <2> QED
    BY <1>2, <2>1, ReplyTold DEF ResidentsInv
<1>7. Alive(t)
  BY <1>1 DEF Alive
<1>8. Late(r.job)
  BY <1>3, <1>4, WakeLate
<1>9. ThreadStep(t, r)
  <2> HIDE DEF r
  <2> QED
    BY <1>2, <1>3, <1>4, <1>5, <1>6, <1>7, <1>8, QuietStep
<1> QED
  BY <1>9, ThreadStepKeeps

\* A step that changes no more of the thread than where it is and its job.
LEMMA PhaseStep ==
    ASSUME ResidentsInv, NEW t \in 1..Threads, Alive(t),
           NEW p \in {"idle", "call", "run", "ending"},
           p = "run" => threads[t].live,
           \/ threads' = [threads EXCEPT ![t] = [threads[t] EXCEPT !.phase = p]]
           \/ threads' = [threads EXCEPT ![t] = [threads[t] EXCEPT !.phase = p, !.job = Wake]],
           UNCHANGED <<site, current, paused, failures>>, Told
    PROVE  ResidentsInv'
<1>1. /\ threads[t] \in Thread /\ threads[t].job \in Job /\ Len(threads[t].queue) <= Depth
      /\ Late(threads[t].job) /\ \A i \in 1..Len(threads[t].queue) : Late(threads[t].queue[i])
  BY ThreadFields DEF ResidentsInv, ClosesLate
<1>2. ASSUME NEW r \in Thread, threads' = [threads EXCEPT ![t] = r], r.phase = p,
             r.job \in {Wake, threads[t].job}, r.queue = threads[t].queue,
             r.stopped = threads[t].stopped, r.live = threads[t].live,
             r.known = threads[t].known, r.code = threads[t].code
      PROVE  ResidentsInv'
  <2>1. Late(r.job)
    BY <1>1, <1>2, WakeLate
  <2>2. ThreadStep(t, r)
    BY <1>1, <1>2, <2>1, QuietStep
  <2> QED
    BY <2>2, ThreadStepKeeps
<1>3. CASE threads' = [threads EXCEPT ![t] = [threads[t] EXCEPT !.phase = p]]
  <2> DEFINE r == [threads[t] EXCEPT !.phase = p]
  <2>1. /\ r \in Thread /\ r.phase = p /\ r.job = threads[t].job /\ r.queue = threads[t].queue
        /\ r.stopped = threads[t].stopped /\ r.live = threads[t].live
        /\ r.known = threads[t].known /\ r.code = threads[t].code
    BY <1>1 DEF Thread
  <2> QED
    BY <1>2, <1>3, <2>1
<1>4. CASE threads' = [threads EXCEPT ![t] = [threads[t] EXCEPT !.phase = p, !.job = Wake]]
  <2> DEFINE r == [threads[t] EXCEPT !.phase = p, !.job = Wake]
  <2>1. /\ r \in Thread /\ r.phase = p /\ r.job = Wake /\ r.queue = threads[t].queue
        /\ r.stopped = threads[t].stopped /\ r.live = threads[t].live
        /\ r.known = threads[t].known /\ r.code = threads[t].code
    BY <1>1 DEF Thread
  <2> QED
    BY <1>2, <1>4, <2>1
<1> QED
  BY <1>3, <1>4

LEMMA PhaseSteps ==
    ASSUME ResidentsInv, NEW t \in 1..Threads,
           \/ ReceiveDisconnected(t) \/ Unknown(t) \/ Enter(t)
           \/ LoadHandler(t) /\ Answers(t, threads[t], FALSE)
    PROVE  ResidentsInv'
<1> DEFINE to(p) == [threads EXCEPT ![t] = [threads[t] EXCEPT !.phase = p]]
<1>1. /\ threads \in [1..Threads -> Thread] /\ threads[t].job \in Job
      /\ \A p \in {"ending", "run"} : [threads EXCEPT ![t].phase = p] = to(p)
  BY ThreadFields DEF ResidentsInv, ResidentsTypeOK
<1>2. CASE ReceiveDisconnected(t)
  <2>1. Alive(t) /\ threads' = to("ending") /\ Told
    BY <1>1, <1>2, ReplyTold DEF ReceiveDisconnected, Alive, ResidentsInv
  <2> QED
    BY <1>2, <2>1, PhaseStep DEF ReceiveDisconnected
<1>3. CASE Enter(t)
  <2>1. Alive(t) /\ threads[t].live /\ threads' = to("run") /\ Told
    BY <1>1, <1>3, ReplyTold DEF Enter, Alive, ResidentsInv
  <2> QED
    BY <1>3, <2>1, PhaseStep DEF Enter
<1>4. ASSUME NEW ok \in BOOLEAN, Answers(t, threads[t], ok), Alive(t),
             UNCHANGED <<site, current, paused, failures>>
      PROVE  ResidentsInv'
  <2>1. Told
    BY <1>1, <1>4, ReplyTold DEF Answers, ResidentsInv
  <2> QED
    BY <1>4, <2>1, PhaseStep DEF Answers
<1>5. CASE Unknown(t)
  <2> DEFINE ok == threads[t].job.event = "close"
  <2>1. ok \in BOOLEAN /\ Answers(t, threads[t], ok) /\ Alive(t)
    BY <1>5 DEF Unknown, Alive
  <2> HIDE DEF ok
  <2> QED
    BY <1>4, <1>5, <2>1 DEF Unknown
<1>6. CASE LoadHandler(t) /\ Answers(t, threads[t], FALSE)
  BY <1>4, <1>6 DEF LoadHandler, Alive
<1> QED
  BY <1>2, <1>3, <1>5, <1>6

LEMMA LoadHandlerStep ==
    ASSUME ResidentsInv, NEW t \in 1..Threads, LoadHandler(t), ~Answers(t, threads[t], FALSE)
    PROVE  ResidentsInv'
<1> DEFINE r == [threads[t] EXCEPT !.phase = "loaded", !.code = handler]
<1>1. /\ threads[t] \in Thread /\ handler \in 0..(Deploys + 1) /\ Len(threads[t].queue) <= Depth
      /\ ~threads[t].live /\ Alive(t)
      /\ Late(threads[t].job) /\ \A i \in 1..Len(threads[t].queue) : Late(threads[t].queue[i])
  BY ThreadFields, ResidentsAssumption DEF ResidentsInv, ResidentsTypeOK, ClosesLate, LoadHandler, Alive
<1>2. /\ r \in Thread /\ r.phase = "loaded" /\ r.code = handler /\ r.queue = threads[t].queue
      /\ r.job = threads[t].job /\ r.stopped = threads[t].stopped /\ r.live = threads[t].live
  BY <1>1 DEF Thread
<1>3. threads' = [threads EXCEPT ![t] = r] /\ UNCHANGED <<site, current, paused, failures, client>>
  BY DEF LoadHandler, ResidentsInv, ResidentsTypeOK
<1>4. \A c \in Clients : Accepted(c)' => client'[c].on # t
  BY <1>1, <1>3 DEF Accepted, ResidentsInv, AcceptedIsKnown
<1>5. ThreadStep(t, r)
  <2> HIDE DEF r
  <2> QED
    BY <1>1, <1>2, <1>3, <1>4 DEF ThreadStep, ResidentsInv, ResidentsTypeOK
<1> QED
  BY <1>5, ThreadStepKeeps

\* Whatever it was doing, its instance goes and what it knew is told to close.
LEMMA FailsStep ==
    ASSUME ResidentsInv, NEW t \in 1..Threads, Alive(t), Fails(t)
    PROVE  ResidentsInv'
<1> DEFINE r == [threads[t] EXCEPT !.phase = "idle", !.job = Wake, !.live = FALSE,
                                   !.code = 0, !.known = {}]
           told == Closed(threads[t].known)
<1>1. /\ threads[t] \in Thread /\ Len(threads[t].queue) <= Depth /\ threads[t].job \in Job
      /\ threads[t].known \in SUBSET Clients
      /\ \A i \in 1..Len(threads[t].queue) : Late(threads[t].queue[i])
  BY ThreadFields DEF ResidentsInv, ClosesLate
<1>2. /\ r \in Thread /\ r.phase = "idle" /\ ~r.live /\ r.queue = threads[t].queue
      /\ r.job = Wake /\ r.stopped = threads[t].stopped
  <2> DEFINE none == {}
  <2>1. none \in SUBSET Clients /\ 0 \in 0..(Deploys + 1)
    BY ResidentsAssumption
  <2>2. [threads[t] EXCEPT !.phase = "idle", !.job = Wake, !.live = FALSE, !.code = 0, !.known = none] \in Thread
    <3> HIDE DEF none
    <3> QED
      BY <1>1, <2>1 DEF Thread
  <2> QED
    BY <1>1, <2>2 DEF Thread
<1>3. threads' = [threads EXCEPT ![t] = r] /\ UNCHANGED <<site, current>>
      /\ paused' \in BOOLEAN /\ failures' \in 0..Failures
      /\ client' = Replied(told, threads[t].job, FALSE)
  BY ResidentsAssumption DEF Fails, ResidentsInv, ResidentsTypeOK
<1>4. /\ told \in [Clients -> Connection]
      /\ \A c \in Clients :
            /\ told[c].life = client[c].life /\ told[c].at = client[c].at
            /\ told[c].event = client[c].event /\ told[c].on = client[c].on
            /\ client[c].closing => told[c].closing
            /\ c \in threads[t].known /\ client[c].life \in {"connecting", "open"} => told[c].closing
  BY <1>1, ClosedFacts DEF ResidentsInv
<1>5. /\ client' \in [Clients -> Connection]
      /\ \A c \in Clients :
            /\ client'[c].life = client[c].life /\ client'[c].event = client[c].event
            /\ client'[c].on = client[c].on
            /\ client[c].closing => client'[c].closing
            /\ client[c].at # "waits" => client'[c].at = client[c].at
            /\ c \in threads[t].known /\ client[c].life \in {"connecting", "open"} => client'[c].closing
  <2> DEFINE job == threads[t].job
             no == FALSE
             heard == Replied(told, job, no)
  <2> HIDE DEF told
  <2>1. /\ heard \in [Clients -> Connection]
        /\ \A c \in Clients :
              /\ heard[c].life = told[c].life /\ heard[c].event = told[c].event
              /\ heard[c].on = told[c].on /\ heard[c].closing = told[c].closing
              /\ told[c].at # "waits" => heard[c].at = told[c].at
    <3>1. job \in Job /\ no \in BOOLEAN
      BY <1>1
    <3> HIDE DEF job, no
    <3> QED
      BY <1>4, <3>1, RepliedFacts
  <2> HIDE DEF heard
  <2>2. client' = heard
    BY <1>3 DEF heard
  <2> QED
    BY <1>4, <2>1, <2>2
<1>6. \A c \in Clients : Accepted(c)' => client'[c].on # t
  <2> SUFFICES ASSUME NEW c \in Clients, Accepted(c)', client'[c].on = t PROVE FALSE
    OBVIOUS
  <2>1. Accepted(c) /\ client[c].on = t
    BY <1>5 DEF Accepted
  <2>2. c \in threads[t].known
    BY <2>1 DEF Accepted, ResidentsInv, AcceptedIsKnown
  <2> QED
    BY <1>5, <2>1, <2>2 DEF Accepted
<1>7. ThreadStep(t, r)
  <2> HIDE DEF r
  <2> QED
    BY <1>1, <1>2, <1>3, <1>5, <1>6, WakeLate DEF ThreadStep
<1> QED
  BY <1>7, ThreadStepKeeps

LEMMA InstantiateStep ==
    ASSUME ResidentsInv, NEW t \in 1..Threads, Instantiate(t)
    PROVE  ResidentsInv'
<1>1. Alive(t)
  BY DEF Instantiate, Alive
<1>2. CASE /\ threads' = [threads EXCEPT ![t].phase = "run", ![t].live = TRUE]
           /\ UNCHANGED <<site, current, paused, failures, client>>
  <2> DEFINE lives == TRUE
             r == [threads[t] EXCEPT !.phase = "run", !.live = lives]
  <2>1. /\ threads[t] \in Thread /\ Len(threads[t].queue) <= Depth /\ threads[t].phase = "loaded"
        /\ Late(threads[t].job) /\ \A i \in 1..Len(threads[t].queue) : Late(threads[t].queue[i])
    BY ThreadFields DEF ResidentsInv, ClosesLate, Instantiate
  <2>2. /\ r \in Thread /\ r.phase = "run" /\ r.live = lives /\ r.code = threads[t].code
        /\ r.queue = threads[t].queue /\ r.job = threads[t].job
        /\ r.stopped = threads[t].stopped /\ r.known = threads[t].known
    <3>1. lives \in BOOLEAN
      OBVIOUS
    <3> HIDE DEF lives
    <3> QED
      BY <2>1, <3>1 DEF Thread
  <2>3. threads' = [threads EXCEPT ![t] = r]
    BY <1>2 DEF ResidentsInv, ResidentsTypeOK
  <2>4. \A c \in Clients : Accepted(c)' /\ client'[c].on = t => c \in threads[t].known
    BY <1>2 DEF Accepted, ResidentsInv, AcceptedIsKnown
  <2>5. r.live
    BY <2>2
  <2>6. ThreadStep(t, r)
    <3> HIDE DEF r, lives
    <3> QED
      BY <1>1, <1>2, <2>1, <2>2, <2>3, <2>4, <2>5 DEF ThreadStep, ResidentsInv, ResidentsTypeOK
  <2> QED
    BY <2>6, ThreadStepKeeps
<1>3. CASE Fails(t)
  BY <1>1, <1>3, FailsStep
<1> QED
  BY <1>2, <1>3 DEF Instantiate

\* The handler's call: a connect it accepts is known from then on, a close known
\* no more.
LEMMA RunStep ==
    ASSUME ResidentsInv, NEW t \in 1..Threads, Run(t)
    PROVE  ResidentsInv'
<1> DEFINE job == threads[t].job
           c == job.client
<1>1. /\ threads[t] \in Thread /\ Len(threads[t].queue) <= Depth /\ threads[t].known \subseteq Clients
      /\ threads[t].live /\ Alive(t) /\ job \in Job
      /\ Late(job) /\ \A i \in 1..Len(threads[t].queue) : Late(threads[t].queue[i])
  BY ThreadFields DEF ResidentsInv, ClosesLate, LiveWhileRun, Run, Alive
<1>2. CASE Fails(t)
  BY <1>1, <1>2, FailsStep
<1>3. ASSUME NEW ok \in BOOLEAN, UNCHANGED <<site, current, paused, failures>>,
             threads' = [threads EXCEPT ![t] = [[threads[t] EXCEPT !.known =
                            IF job.event = "close" THEN @ \ {c}
                            ELSE IF job.event = "connect" /\ ok THEN @ \union {c}
                            ELSE @] EXCEPT !.phase = "idle", !.job = Wake]],
             client' = LET told == Reply(job, ok)
                       IN  IF job.event = "connect" /\ ok /\ client[c].at = "waits"
                           THEN [told EXCEPT ![c].on = t] ELSE told
      PROVE  ResidentsInv'
  <2> DEFINE kn == IF job.event = "close" THEN threads[t].known \ {c}
                   ELSE IF job.event = "connect" /\ ok THEN threads[t].known \union {c}
                   ELSE threads[t].known
             r == [threads[t] EXCEPT !.known = kn, !.phase = "idle", !.job = Wake]
             told == Replied(client, job, ok)
             accepts == job.event = "connect" /\ ok /\ client[c].at = "waits"
  <2>1. job.event \in {"connect", "close"} => c \in Clients
    BY <1>1, JobFacts
  <2>2. /\ kn \subseteq Clients
        /\ job.event = "connect" /\ ok => c \in kn
        /\ \A d \in threads[t].known : d \in kn \/ (job.event = "close" /\ d = c)
    BY <1>1, <2>1
  <2>3. /\ r \in Thread /\ r.phase = "idle" /\ r.live = threads[t].live /\ r.code = threads[t].code
        /\ r.queue = threads[t].queue /\ r.job = Wake
        /\ r.stopped = threads[t].stopped /\ r.known = kn
    <3> HIDE DEF kn
    <3> QED
      BY <1>1, <2>2 DEF Thread
  <2>4. threads' = [threads EXCEPT ![t] = r]
    <3>1. [[threads[t] EXCEPT !.known = kn] EXCEPT !.phase = "idle", !.job = Wake] = r
      <4> HIDE DEF kn
      <4> QED
        BY <1>1 DEF Thread
    <3> QED
      BY <1>3, <3>1
  <2>5. /\ told \in [Clients -> Connection]
        /\ \A d \in Clients :
              /\ told[d].life = client[d].life /\ told[d].event = client[d].event
              /\ told[d].on = client[d].on /\ told[d].closing = client[d].closing
              /\ client[d].at # "waits" => told[d].at = client[d].at
    <3>1. client \in [Clients -> Connection]
      BY DEF ResidentsInv, ResidentsTypeOK
    <3> HIDE DEF job
    <3> QED
      BY <1>1, <3>1, RepliedFacts
  <2>6. /\ client' \in [Clients -> Connection]
        /\ \A d \in Clients :
              /\ client'[d].life = client[d].life /\ client'[d].event = client[d].event
              /\ client'[d].closing = client[d].closing
              /\ client[d].at # "waits" => client'[d].at = client[d].at /\ client'[d].on = client[d].on
              /\ client'[d].on = client[d].on \/ (client'[d].on = t /\ d = c /\ accepts)
    <3>1. CASE accepts
      <4> DEFINE k == [told[c] EXCEPT !.on = t]
      <4>1. c \in Clients /\ told[c] \in Connection /\ t \in 0..Threads
        <5>1. c \in Clients
          BY <2>1, <3>1
        <5> HIDE DEF c, told
        <5> QED
          BY <2>5, <5>1, ResidentsAssumption
      <4>2. /\ k \in Connection /\ k.life = told[c].life /\ k.event = told[c].event
            /\ k.closing = told[c].closing /\ k.at = told[c].at /\ k.on = t
        <5> HIDE DEF told, c
        <5> QED
          BY <4>1 DEF Connection
      <4>3. client' = [told EXCEPT ![c] = k]
        BY <1>3, <2>5, <3>1 DEF Reply
      <4>4. client[c].at = "waits"
        BY <3>1
      <4> HIDE DEF k, told, c
      <4> QED
        BY <2>5, <3>1, <4>1, <4>2, <4>3, <4>4
    <3>2. CASE ~accepts
      <4>1. client' = told
        BY <1>3, <3>2 DEF Reply
      <4> HIDE DEF told
      <4> QED
        BY <2>5, <4>1
    <3> QED
      BY <3>1, <3>2
  <2>7. ASSUME NEW d \in Clients, client'[d].on = t, Accepted(d)' PROVE d \in kn
    <3>1. client[d].life \in {"connecting", "open"} /\ ~client[d].closing
      BY <2>6, <2>7 DEF Accepted
    <3>2. CASE d = c /\ accepts
      BY <2>2, <3>2
    <3>3. CASE client[d].on = t
      <4>1. Accepted(d)
        BY <2>6, <2>7, <3>1, <3>3 DEF Accepted
      <4>2. d \in threads[t].known
        BY <3>3, <4>1 DEF Accepted, ResidentsInv, AcceptedIsKnown
      <4>3. ~(job.event = "close" /\ d = c)
        BY <1>1, <3>1 DEF Late
      <4> QED
        BY <2>2, <4>2, <4>3
    <3> QED
      BY <2>6, <2>7, <3>2, <3>3
  <2>8. ThreadStep(t, r)
    <3>1. /\ \A d \in Clients : client'[d].on \in {client[d].on, t}
          /\ paused \in BOOLEAN /\ failures \in 0..Failures
      BY <2>6 DEF ResidentsInv, ResidentsTypeOK
    <3>2. /\ r.live /\ Late(r.job) /\ Len(r.queue) <= Depth
          /\ \A i \in 1..Len(r.queue) : Late(r.queue[i])
      <4> HIDE DEF r
      <4> QED
        BY <1>1, <2>3, WakeLate
    <3>3. \A d \in Clients : client'[d].on = t /\ Accepted(d)' => r.live /\ d \in r.known
      BY <2>3, <2>7, <3>2
    <3> HIDE DEF r, kn, job, told, accepts, c
    <3>4. /\ UNCHANGED <<site, current>> /\ paused' \in BOOLEAN /\ failures' \in 0..Failures
          /\ r.phase # "none" /\ r.phase # "run" /\ r.phase # "over" /\ r.phase # "loaded"
          /\ ~r.stopped => ~threads[t].stopped
      BY <1>3, <2>3, <3>1
    <3>5. \A d \in Clients :
            /\ client'[d].life = client[d].life /\ client'[d].event = client[d].event
            /\ client[d].closing => client'[d].closing
            /\ client[d].at # "waits" => client'[d].at = client[d].at /\ client'[d].on = client[d].on
            /\ client'[d].on \in {client[d].on, t}
      BY <2>6
    <3> QED
      BY <1>1, <2>3, <2>4, <2>6, <3>2, <3>3, <3>4, <3>5 DEF ThreadStep
  <2> QED
    BY <2>8, ThreadStepKeeps
<1>4. Fails(t) \/ \E ok \in BOOLEAN :
         /\ UNCHANGED <<site, current, paused, failures>>
         /\ threads' = [threads EXCEPT ![t] = [[threads[t] EXCEPT !.known =
                            IF job.event = "close" THEN @ \ {c}
                            ELSE IF job.event = "connect" /\ ok THEN @ \union {c}
                            ELSE @] EXCEPT !.phase = "idle", !.job = Wake]]
         /\ client' = LET told == Reply(job, ok)
                      IN  IF job.event = "connect" /\ ok /\ client[c].at = "waits"
                          THEN [told EXCEPT ![c].on = t] ELSE told
  BY Zenon DEF Run
<1> QED
  BY <1>2, <1>3, <1>4

LEMMA TickFailsStep ==
    ASSUME ResidentsInv, NEW t \in 1..Threads, TickFails(t)
    PROVE  ResidentsInv'
BY FailsStep DEF TickFails, Alive

LEMMA ThreadEndsStep ==
    ASSUME ResidentsInv, NEW t \in 1..Threads, ThreadEnds(t)
    PROVE  ResidentsInv'
<1> DEFINE r == [NoThread EXCEPT !.phase = "over"]
           dropped == {threads[t].queue[i].client : i \in 1..Len(threads[t].queue)}
           told == Closed(threads[t].known)
<1>1. /\ r \in Thread /\ r.queue = <<>> /\ r.job = Wake /\ r.phase = "over" /\ ~r.live
  BY NoThreadType DEF Thread
<1>2. /\ threads[t].known \in SUBSET Clients /\ Alive(t)
      /\ paused \in BOOLEAN /\ failures \in 0..Failures
  BY ThreadFields DEF ResidentsInv, ResidentsTypeOK, ThreadEnds, Alive
<1>3. /\ told \in [Clients -> Connection]
      /\ \A c \in Clients :
            /\ told[c].life = client[c].life /\ told[c].at = client[c].at
            /\ told[c].event = client[c].event /\ told[c].on = client[c].on
            /\ client[c].closing => told[c].closing
            /\ c \in threads[t].known /\ client[c].life \in {"connecting", "open"} => told[c].closing
  BY <1>2, ClosedFacts DEF ResidentsInv
<1>4. client' = [c \in Clients |-> IF c \in dropped /\ told[c].at = "waits"
                                   THEN [told[c] EXCEPT !.at = "answered", !.ok = FALSE]
                                   ELSE told[c]]
      /\ threads' = [threads EXCEPT ![t] = r]
      /\ UNCHANGED <<site, current, paused, failures>>
  BY DEF ThreadEnds
<1>5. \A c \in Clients :
        LET k == [told[c] EXCEPT !.at = "answered", !.ok = FALSE]
        IN  /\ k \in Connection /\ k.life = told[c].life /\ k.event = told[c].event
            /\ k.on = told[c].on /\ k.closing = told[c].closing
  <2> HIDE DEF told
  <2>1. \A c \in Clients : told[c] \in Connection
    BY <1>3
  <2> QED
    BY <2>1 DEF Connection
<1>6. /\ client' \in [Clients -> Connection]
      /\ \A c \in Clients :
            /\ client'[c].life = client[c].life /\ client'[c].event = client[c].event
            /\ client'[c].on = client[c].on
            /\ client[c].closing => client'[c].closing
            /\ client[c].at # "waits" => client'[c].at = client[c].at
            /\ c \in threads[t].known /\ client[c].life \in {"connecting", "open"} => client'[c].closing
  <2> HIDE DEF told, dropped
  <2> QED
    BY <1>3, <1>4, <1>5
<1>7. \A c \in Clients : Accepted(c)' => client'[c].on # t
  <2> SUFFICES ASSUME NEW c \in Clients, Accepted(c)', client'[c].on = t PROVE FALSE
    OBVIOUS
  <2>1. Accepted(c) /\ client[c].on = t
    BY <1>6 DEF Accepted
  <2>2. c \in threads[t].known
    BY <2>1 DEF Accepted, ResidentsInv, AcceptedIsKnown
  <2> QED
    BY <1>6, <2>1, <2>2 DEF Accepted
<1>8. Len(r.queue) <= Depth /\ \A i \in 1..Len(r.queue) : Late(r.queue[i])
  BY <1>1, ResidentsAssumption
<1>9. ThreadStep(t, r)
  <2> HIDE DEF r, dropped, told
  <2> QED
    BY <1>1, <1>2, <1>4, <1>6, <1>7, <1>8, WakeLate DEF ThreadStep
<1> QED
  BY <1>9, ThreadStepKeeps

-----------------------------------------------------------------------------
(* Steps of a connection.                                                     *)

\* What every step of a connection is: it makes k of it, which is accepted only
\* if it was, and over if it was.
Moves(c, k) ==
    /\ client' = [client EXCEPT ![c] = k]
    /\ k \in Connection
    /\ k.event = "connect" => k.life = "connecting"
    /\ k.event = "message" => k.life \in {"open", "ended"}
    /\ k.event = "close" => k.life = "ended"
    /\ k.life = "away" => k.at = "rest" /\ k.on = 0
    /\ k.at # "rest" => k.event # "none"
    /\ client[c].life \in {"ended", "gone"} => k.life \in {"ended", "gone"}
    /\ k.life \in {"connecting", "open"} /\ k.on # 0 /\ ~k.closing =>
          Accepted(c) /\ k.on = client[c].on

LEMMA MovesFacts ==
    ASSUME ResidentsInv, NEW c \in Clients, NEW k, Moves(c, k)
    PROVE  /\ client' \in [Clients -> Connection]
           /\ ClientsAsk'
           /\ \A d \in Clients : Accepted(d)' => Accepted(d) /\ client'[d].on = client[d].on
           /\ \A d \in Clients :
                 client[d].life \in {"ended", "gone"} => client'[d].life \in {"ended", "gone"}
<1>1. /\ client \in [Clients -> Connection] /\ client' \in [Clients -> Connection]
      /\ client'[c] = k /\ \A d \in Clients : d # c => client'[d] = client[d]
  BY DEF Moves, ResidentsInv, ResidentsTypeOK
<1>2. ClientsAsk'
  BY <1>1 DEF Moves, ResidentsInv, ClientsAsk
<1>3. \A d \in Clients : Accepted(d)' => Accepted(d) /\ client'[d].on = client[d].on
  BY <1>1 DEF Moves, Accepted
<1> QED
  BY <1>1, <1>2, <1>3 DEF Moves

\* A thread's queue and flag may change with it, and one may be started; what
\* instances there are stay as they are.
LEMMA MovesKeeps ==
    ASSUME ResidentsInv, NEW c \in Clients, NEW k, Moves(c, k),
           UNCHANGED <<site, paused, failures>>, current' \in 0..Threads,
           threads' \in [1..Threads -> Thread],
           \A u \in 1..Threads :
              \/ /\ threads'[u].phase = threads[u].phase /\ threads'[u].job = threads[u].job
                 /\ threads'[u].live = threads[u].live /\ threads'[u].known = threads[u].known
                 /\ threads'[u].code = threads[u].code
                 /\ threads[u].stopped => threads'[u].stopped
              \/ /\ threads[u].phase = "none" /\ threads'[u].phase = "idle"
                 /\ threads'[u].job = Wake /\ ~threads'[u].live,
           \A u \in 1..Threads :
              /\ Len(threads'[u].queue) <= Depth
              /\ \A i \in 1..Len(threads'[u].queue) : Late(threads'[u].queue[i]),
           StopFindsIt'
    PROVE  ResidentsInv'
<1> DEFINE LateNext(job) == job.event = "close" => client'[job.client].life \in {"ended", "gone"}
<1>1. /\ client' \in [Clients -> Connection]
      /\ ClientsAsk'
      /\ \A d \in Clients : Accepted(d)' => Accepted(d) /\ client'[d].on = client[d].on
      /\ \A d \in Clients :
            client[d].life \in {"ended", "gone"} => client'[d].life \in {"ended", "gone"}
  BY MovesFacts
<1>2. ResidentsTypeOK'
  BY <1>1 DEF ResidentsInv, ResidentsTypeOK, site
<1>3. \A job \in Job : Late(job) => LateNext(job)
  BY <1>1, JobFacts DEF Late
<1>4. ClosesLate'
  <2>1. ASSUME NEW u \in 1..Threads
        PROVE  LateNext(threads'[u].job) /\ \A i \in 1..Len(threads'[u].queue) : LateNext(threads'[u].queue[i])
    <3>1. threads'[u].job \in Job /\ threads'[u].queue \in Seq(Job)
      BY DEF Thread, Job
    <3>2. Late(threads[u].job)
      BY DEF ResidentsInv, ClosesLate
    <3>3. Late(threads'[u].job)
      BY <3>2, WakeLate
    <3> HIDE DEF LateNext
    <3> QED
      BY <1>3, <3>1, <3>3
  <2> QED
    BY <2>1 DEF ClosesLate, Late
<1>5. LiveWhileRun'
  BY DEF ResidentsInv, LiveWhileRun
<1>6. HasTheHandler'
  <2>1. ASSUME NEW u \in 1..Threads, threads'[u].phase \notin {"none", "over"},
               ~threads'[u].stopped, threads'[u].live \/ threads'[u].phase = "loaded"
        PROVE  threads'[u].code >= stoppedFor
    <3>1. /\ threads'[u].phase = threads[u].phase /\ threads'[u].live = threads[u].live
          /\ threads'[u].code = threads[u].code /\ ~threads[u].stopped
      BY <2>1
    <3> QED
      BY <2>1, <3>1 DEF ResidentsInv, HasTheHandler, Alive
  <2> QED
    BY <2>1 DEF ResidentsInv, HasTheHandler, Alive, site
<1>7. AcceptedIsKnown'
  <2>1. ASSUME NEW d \in Clients, Accepted(d)'
        PROVE  threads'[client'[d].on].live /\ d \in threads'[client'[d].on].known
    <3>1. Accepted(d) /\ client'[d].on = client[d].on
      BY <1>1, <2>1
    <3>2. client'[d].on \in 1..Threads
      BY <1>1, <2>1, ResidentsAssumption DEF Accepted, Connection
    <3>3. threads[client[d].on].live /\ d \in threads[client[d].on].known
      BY <3>1 DEF ResidentsInv, AcceptedIsKnown, Accepted
    <3>4. threads[client[d].on].phase # "none"
      BY <3>1, <3>2, <3>3 DEF ResidentsInv, LiveWhileRun
    <3> QED
      BY <3>1, <3>2, <3>3, <3>4
  <2> QED
    BY <2>1 DEF AcceptedIsKnown, Accepted
<1> QED
  BY <1>1, <1>2, <1>4, <1>5, <1>6, <1>7 DEF ResidentsInv

LEMMA MovesAlone ==
    ASSUME ResidentsInv, NEW c \in Clients, NEW k, Moves(c, k),
           UNCHANGED <<site, paused, failures, current, threads>>
    PROVE  ResidentsInv'
<1>1. current' \in 0..Threads /\ threads' \in [1..Threads -> Thread]
  BY DEF ResidentsInv, ResidentsTypeOK
<1>2. \A u \in 1..Threads :
         /\ threads'[u].phase = threads[u].phase /\ threads'[u].job = threads[u].job
         /\ threads'[u].live = threads[u].live /\ threads'[u].known = threads[u].known
         /\ threads'[u].code = threads[u].code
         /\ threads[u].stopped => threads'[u].stopped
  OBVIOUS
<1>3. \A u \in 1..Threads :
         /\ Len(threads'[u].queue) <= Depth
         /\ \A i \in 1..Len(threads'[u].queue) : Late(threads'[u].queue[i])
  BY DEF ResidentsInv, ResidentsTypeOK, ClosesLate
<1>4. StopFindsIt'
  BY DEF ResidentsInv, StopFindsIt, Alive
<1> QED
  BY <1>1, <1>2, <1>3, <1>4, MovesKeeps

LEMMA ConnectionType ==
    ASSUME ResidentsInv, NEW c \in Clients
    PROVE  /\ client \in [Clients -> Connection] /\ client[c] \in Connection
           /\ client[c].event = "connect" => client[c].life = "connecting"
           /\ client[c].event = "message" => client[c].life \in {"open", "ended"}
           /\ client[c].event = "close" => client[c].life = "ended"
           /\ client[c].life = "away" => client[c].at = "rest" /\ client[c].on = 0
           /\ client[c].at # "rest" => client[c].event # "none"
BY DEF ResidentsInv, ResidentsTypeOK, ClientsAsk

LEMMA Zeros == 0 \in 0..(Deploys + 1) /\ 0 \in 0..Threads /\ 0 \in 0..Messages
BY ResidentsAssumption

LEMMA AnswerMoves ==
    ASSUME ResidentsInv, NEW c \in Clients, NEW ok \in BOOLEAN, client[c].at # "rest",
           client' = [client EXCEPT ![c] = Answer(c, ok)]
    PROVE  Moves(c, Answer(c, ok))
<1>1. LET k == Answer(c, ok)
      IN  /\ k \in Connection /\ k.life = client[c].life /\ k.event = client[c].event
          /\ k.on = client[c].on /\ k.closing = client[c].closing
  BY ConnectionType DEF Answer, Connection
<1> DEFINE k == Answer(c, ok)
<1>2. k.life # "away"
  BY <1>1, ConnectionType
<1> QED
  <2> HIDE DEF k
  <2>1. Moves(c, k)
    <3>1. client' = [client EXCEPT ![c] = k]
      BY DEF k
    <3> QED
      BY <1>1, <1>2, <3>1, ConnectionType DEF Moves, Accepted, k
  <2> QED
    BY <2>1 DEF k

LEMMA ReadsStep ==
    ASSUME ResidentsInv, NEW c \in Clients, NEW event \in {"connect", "message", "close"},
           Reads(c, event)
    PROVE  ResidentsInv'
<1> DEFINE goes == IF event = "connect" THEN "connecting" ELSE client[c].life
           said == IF event = "message" THEN client[c].said + 1 ELSE client[c].said
           k == [client[c] EXCEPT !.at = "reads", !.event = event, !.meta = declared,
                                  !.life = goes, !.said = said]
<1>1. /\ client[c] \in Connection /\ declared \in 0..(Deploys + 1)
      /\ event = "connect" => client[c].life = "away" /\ client[c].on = 0
      /\ event = "message" => client[c].life = "open"
      /\ event = "close" => client[c].life = "ended"
  BY ConnectionType DEF Reads, ResidentsInv, ResidentsTypeOK
<1>2. /\ goes \in {"connecting", "open", "ended"} /\ said \in 0..Messages
      /\ event = "connect" => goes = "connecting"
      /\ event # "connect" => goes = client[c].life
  BY <1>1, ResidentsAssumption DEF Reads, Connection
<1>3. /\ k \in Connection /\ k.life = goes /\ k.event = event
      /\ k.on = client[c].on /\ k.closing = client[c].closing
  <2> HIDE DEF goes, said
  <2> QED
    BY <1>1, <1>2 DEF Connection
<1>4. client' = [client EXCEPT ![c] = k] /\ UNCHANGED <<site, current, threads, paused, failures>>
  BY ConnectionType DEF Reads
<1>5. Moves(c, k)
  <2> HIDE DEF k, goes, said
  <2> QED
    BY <1>1, <1>2, <1>3, <1>4 DEF Moves, Accepted
<1> QED
  BY <1>4, <1>5, MovesAlone

LEMMA RunsFreshStep ==
    ASSUME ResidentsInv, NEW c \in Clients, RunsFresh(c)
    PROVE  ResidentsInv'
BY AnswerMoves, MovesAlone DEF RunsFresh

LEMMA GoneMoves ==
    ASSUME ResidentsInv, NEW c \in Clients, client' = [client EXCEPT ![c] = Gone]
    PROVE  Moves(c, Gone)
<1> DEFINE no == FALSE
<1>1. NewClient \in Connection
  <2>1. /\ no \in BOOLEAN
        /\ NewClient = [life |-> "away", at |-> "rest", event |-> "none", meta |-> 0, to |-> 0,
                        ok |-> no, on |-> 0, said |-> 0, closing |-> no]
    BY DEF NewClient
  <2> HIDE DEF no
  <2> QED
    BY <2>1, Zeros DEF Connection
<1>2. /\ Gone \in Connection /\ Gone.life = "gone" /\ Gone.event = "none" /\ Gone.at = "rest"
  BY <1>1 DEF Gone, NewClient, Connection
<1> QED
  BY <1>2 DEF Moves

LEMMA GivesUpStep ==
    ASSUME ResidentsInv, NEW c \in Clients, GivesUp(c)
    PROVE  ResidentsInv'
BY GoneMoves, MovesAlone DEF GivesUp

LEMMA LoopEndsStep ==
    ASSUME ResidentsInv, NEW c \in Clients, LoopEnds(c)
    PROVE  ResidentsInv'
<1> DEFINE no == FALSE
           k == [client[c] EXCEPT !.life = "ended", !.closing = no, !.on = 0]
<1>1. k \in Connection /\ k.life = "ended" /\ k.event = client[c].event /\ k.on = 0 /\ k.at = client[c].at
  <2>1. no \in BOOLEAN
    OBVIOUS
  <2> HIDE DEF no
  <2> QED
    BY <2>1, ConnectionType, Zeros DEF Connection
<1>2. client' = [client EXCEPT ![c] = k] /\ UNCHANGED <<site, current, threads, paused, failures>>
  BY ConnectionType DEF LoopEnds
<1>3. /\ client[c].event # "connect"
      /\ client[c].at # "rest" => client[c].event # "none"
      /\ client[c].event = "message" => client[c].life \in {"open", "ended"}
  BY ConnectionType DEF LoopEnds
<1>4. Moves(c, k)
  <2> HIDE DEF k
  <2> QED
    BY <1>1, <1>2, <1>3 DEF Moves
<1> QED
  BY <1>2, <1>4, MovesAlone

LEMMA HearsStep ==
    ASSUME ResidentsInv, NEW c \in Clients, Hears(c)
    PROVE  ResidentsInv'
<1> DEFINE e == client[c].event
           ok == client[c].ok
           no == FALSE
           rests == [client[c] EXCEPT !.at = "rest", !.event = "none", !.meta = 0, !.to = 0, !.ok = no]
           closes == client[c].closing \/ (client[c].life = "open" /\ ~ok)
           opens == [rests EXCEPT !.life = "open"]
           stays == [rests EXCEPT !.closing = closes]
<1>1. UNCHANGED <<site, current, threads, paused, failures>>
  BY DEF Hears
<1>2. /\ client[c] \in Connection /\ client[c].life # "away" /\ no \in BOOLEAN /\ closes \in BOOLEAN
      /\ client[c].closing => closes
  BY ConnectionType DEF Hears, Connection
<1>3. /\ rests \in Connection /\ rests.at = "rest" /\ rests.event = "none"
      /\ rests.life = client[c].life /\ rests.on = client[c].on /\ rests.closing = client[c].closing
  <2> HIDE DEF no, closes
  <2> QED
    BY <1>2, Zeros DEF Connection
<1>4. CASE client' = [client EXCEPT ![c] = Gone]
  BY <1>1, <1>4, GoneMoves, MovesAlone
<1>5. CASE e = "connect" /\ client' = [client EXCEPT ![c] = opens]
  <2>1. /\ opens \in Connection /\ opens.life = "open" /\ opens.event = "none" /\ opens.at = "rest"
        /\ opens.on = client[c].on /\ opens.closing = client[c].closing
    <3> HIDE DEF rests
    <3> QED
      BY <1>3 DEF Connection
  <2>2. client[c].life = "connecting"
    BY <1>5, ConnectionType
  <2>3. Moves(c, opens)
    <3> HIDE DEF opens
    <3> QED
      BY <1>5, <2>1, <2>2 DEF Moves, Accepted
  <2> QED
    BY <1>1, <2>3, MovesAlone
<1>6. CASE client' = [client EXCEPT ![c] = stays]
  <2>1. /\ stays \in Connection /\ stays.life = client[c].life /\ stays.event = "none" /\ stays.at = "rest"
        /\ stays.on = client[c].on
        /\ client[c].closing => stays.closing
    <3> HIDE DEF rests, closes
    <3> QED
      BY <1>2, <1>3 DEF Connection
  <2>2. Moves(c, stays)
    <3> HIDE DEF stays
    <3> QED
      BY <1>2, <1>6, <2>1 DEF Moves, Accepted
  <2> QED
    BY <1>1, <2>2, MovesAlone
<1>7. \/ client' = [client EXCEPT ![c] = Gone]
      \/ e = "connect" /\ client' = [client EXCEPT ![c] = opens]
      \/ client' = [client EXCEPT ![c] = stays]
  <2>1. \A x : [rests EXCEPT !.closing = x] = [rests EXCEPT !.closing = x]
    OBVIOUS
  <2>2. rests.closing = client[c].closing
    BY <1>3
  <2> QED
    BY <2>2 DEF Hears
<1> QED
  BY <1>4, <1>5, <1>6, <1>7

\* What the next stop does: it tells the app's thread, and then every thread that
\* runs was told.
LEMMA StopTellsAll ==
    ASSUME ResidentsInv, NEW th, th = IF current # 0 THEN Stopped(current) ELSE threads
    PROVE  /\ th \in [1..Threads -> Thread]
           /\ \A u \in 1..Threads :
                 /\ th[u].phase = threads[u].phase /\ th[u].job = threads[u].job
                 /\ th[u].live = threads[u].live /\ th[u].known = threads[u].known
                 /\ th[u].code = threads[u].code
                 /\ threads[u].stopped => th[u].stopped
                 /\ Len(th[u].queue) <= Depth
                 /\ \A i \in 1..Len(th[u].queue) : Late(th[u].queue[i])
                 /\ Alive(u) => th[u].stopped
<1>1. /\ ResidentsTypeOK /\ threads \in [1..Threads -> Thread] /\ current \in 0..Threads
      /\ \A u \in 1..Threads :
            /\ Len(threads[u].queue) <= Depth
            /\ \A i \in 1..Len(threads[u].queue) : Late(threads[u].queue[i])
            /\ Alive(u) /\ ~threads[u].stopped => u = current
  BY DEF ResidentsInv, ResidentsTypeOK, ClosesLate, StopFindsIt
<1>2. CASE current = 0
  BY <1>1, <1>2
<1>3. CASE current # 0
  <2>1. current \in 1..Threads /\ th = Stopped(current)
    BY <1>1, <1>3, ResidentsAssumption
  <2>2. /\ th \in [1..Threads -> Thread]
        /\ \A u \in 1..Threads : u # current => th[u] = threads[u]
        /\ th[current].stopped
        /\ th[current].phase = threads[current].phase /\ th[current].job = threads[current].job
        /\ th[current].live = threads[current].live /\ th[current].code = threads[current].code
        /\ th[current].known = threads[current].known
        /\ Len(th[current].queue) <= Depth
        /\ \A i \in 1..Len(th[current].queue) :
              \/ th[current].queue[i] = Wake
              \/ i \in 1..Len(threads[current].queue) /\ th[current].queue[i] = threads[current].queue[i]
    BY <1>1, <2>1, StoppedFacts
  <2>3. \A i \in 1..Len(th[current].queue) : Late(th[current].queue[i])
    BY <1>1, <2>1, <2>2, WakeLate
  <2> QED
    <3>1. ASSUME NEW u \in 1..Threads
          PROVE  /\ th[u].phase = threads[u].phase /\ th[u].job = threads[u].job
                 /\ th[u].live = threads[u].live /\ th[u].known = threads[u].known
                 /\ th[u].code = threads[u].code
                 /\ threads[u].stopped => th[u].stopped
                 /\ Len(th[u].queue) <= Depth
                 /\ \A i \in 1..Len(th[u].queue) : Late(th[u].queue[i])
                 /\ Alive(u) => th[u].stopped
      <4>1. CASE u = current
        BY <2>2, <2>3, <4>1
      <4>2. CASE u # current
        BY <1>1, <2>2, <4>2
      <4> QED
        BY <4>1, <4>2
    <3> QED
      BY <2>2, <3>1
<1> QED
  BY <1>2, <1>3

LEMMA QueuesStep ==
    ASSUME ResidentsInv, NEW c \in Clients, Queues(c)
    PROVE  ResidentsInv'
<1> DEFINE t == client[c].to
           gone == threads[t].phase = "over"
           full == ~gone /\ Len(threads[t].queue) = Depth
           e == [client |-> c, event |-> client[c].event]
           no == FALSE
<1>1. /\ client[c].at = "holds" /\ UNCHANGED <<site, paused, failures>>
      /\ current' = (IF gone /\ current = t THEN 0 ELSE current)
      /\ no \in BOOLEAN /\ threads \in [1..Threads -> Thread] /\ current \in 0..Threads
  BY DEF Queues, ResidentsInv, ResidentsTypeOK
<1>2. current' \in 0..Threads
  BY <1>1, Zeros
<1>3. \A u \in 1..Threads : Alive(u) /\ ~threads[u].stopped => u = current'
  BY <1>1 DEF Alive, ResidentsInv, StopFindsIt
<1>4. \A u \in 1..Threads :
         /\ Len(threads[u].queue) <= Depth
         /\ \A i \in 1..Len(threads[u].queue) : Late(threads[u].queue[i])
  BY DEF ResidentsInv, ResidentsTypeOK, ClosesLate
<1>5. CASE (gone \/ full) /\ client' = [client EXCEPT ![c] = Answer(c, no)] /\ threads' = threads
  <2>1. Moves(c, Answer(c, no))
    <3> HIDE DEF no
    <3> QED
      BY <1>1, <1>5, AnswerMoves
  <2>2. StopFindsIt'
    BY <1>3, <1>5 DEF StopFindsIt, Alive
  <2>3. \A u \in 1..Threads :
           /\ threads'[u].phase = threads[u].phase /\ threads'[u].job = threads[u].job
           /\ threads'[u].live = threads[u].live /\ threads'[u].known = threads[u].known
           /\ threads'[u].code = threads[u].code
           /\ threads[u].stopped => threads'[u].stopped
           /\ Len(threads'[u].queue) <= Depth
           /\ \A i \in 1..Len(threads'[u].queue) : Late(threads'[u].queue[i])
    BY <1>4, <1>5
  <2>4. threads' \in [1..Threads -> Thread]
    BY <1>1, <1>5
  <2> HIDE DEF no, gone, full, t
  <2> QED
    BY <1>1, <1>2, <2>1, <2>2, <2>3, <2>4, MovesKeeps
<1>6. CASE /\ ~(gone \/ full)
           /\ client' = [client EXCEPT ![c].at = "waits"]
           /\ threads' = [threads EXCEPT ![t].queue = Append(@, e)]
  <2> DEFINE k == [client[c] EXCEPT !.at = "waits"]
  <2>1. Moves(c, k)
    <3>1. /\ k \in Connection /\ k.life = client[c].life /\ k.event = client[c].event
          /\ k.on = client[c].on /\ k.closing = client[c].closing /\ client[c].life # "away"
      BY <1>1, ConnectionType DEF Connection
    <3>2. client' = [client EXCEPT ![c] = k]
      BY <1>6, ConnectionType
    <3> HIDE DEF k
    <3> QED
      BY <1>1, <3>1, <3>2, ConnectionType DEF Moves, Accepted
  <2>2. e \in Job /\ Late(e)
    <3>1. client[c].event \in {"connect", "message", "close"}
      BY <1>1, ConnectionType DEF Connection
    <3>2. e \in Job
      BY <3>1 DEF Job, Delivery
    <3>3. Late(e)
      BY ConnectionType DEF Late
    <3> QED
      BY <3>2, <3>3
  <2> DEFINE q == Append(threads[t].queue, e)
             r == [threads[t] EXCEPT !.queue = q]
  <2>3. CASE t \in 1..Threads
    <3>1. /\ threads[t] \in Thread /\ threads[t].queue \in Seq(Job)
          /\ Len(threads[t].queue) \in Nat /\ Len(threads[t].queue) < Depth
      <4>1. /\ threads[t] \in Thread /\ threads[t].queue \in Seq(Job)
            /\ Len(threads[t].queue) \in Nat /\ Len(threads[t].queue) <= Depth
        BY <2>3, ThreadFields DEF ResidentsInv
      <4> QED
        BY <1>6, <4>1, ResidentsAssumption
    <3>2. /\ q \in Seq(Job) /\ Len(q) <= Depth
          /\ \A i \in 1..Len(q) : q[i] = e \/ (i \in 1..Len(threads[t].queue) /\ q[i] = threads[t].queue[i])
      <4> HIDE DEF e, t
      <4> QED
        BY <2>2, <3>1, ResidentsAssumption
    <3>3. \A i \in 1..Len(q) : Late(q[i])
      <4> HIDE DEF q, e, t
      <4> QED
        BY <1>4, <2>2, <2>3, <3>2
    <3>4. /\ r \in Thread /\ r.phase = threads[t].phase /\ r.job = threads[t].job /\ r.live = threads[t].live
          /\ r.known = threads[t].known /\ r.code = threads[t].code /\ r.queue = q
          /\ r.stopped = threads[t].stopped
      <4> HIDE DEF q, t
      <4> QED
        BY <3>1, <3>2 DEF Thread, Job
    <3>5. threads' = [threads EXCEPT ![t] = r]
      BY <1>1, <1>6, <2>3
    <3>6. /\ threads' \in [1..Threads -> Thread] /\ threads'[t] = r
          /\ \A u \in 1..Threads : u # t => threads'[u] = threads[u]
      <4> HIDE DEF r, t
      <4> QED
        BY <1>1, <2>3, <3>4, <3>5
    <3>7. ASSUME NEW u \in 1..Threads
          PROVE  /\ threads'[u].phase = threads[u].phase /\ threads'[u].job = threads[u].job
                 /\ threads'[u].live = threads[u].live /\ threads'[u].known = threads[u].known
                 /\ threads'[u].code = threads[u].code
                 /\ threads[u].stopped => threads'[u].stopped
                 /\ threads'[u].stopped => threads[u].stopped
                 /\ Len(threads'[u].queue) <= Depth
                 /\ \A i \in 1..Len(threads'[u].queue) : Late(threads'[u].queue[i])
      <4> HIDE DEF r, q, t
      <4>1. CASE u = t
        BY <3>2, <3>3, <3>4, <3>6, <4>1
      <4>2. CASE u # t
        BY <1>4, <3>6, <4>2
      <4> QED
        BY <4>1, <4>2
    <3>8. StopFindsIt'
      BY <1>3, <3>7 DEF StopFindsIt, Alive
    <3> HIDE DEF r, q, t, k
    <3> QED
      BY <1>1, <1>2, <2>1, <3>6, <3>7, <3>8, MovesKeeps
  <2>4. CASE t \notin 1..Threads
    <3>1. threads' = threads
      BY <1>1, <1>6, <2>4
    <3>2. \A u \in 1..Threads :
             /\ threads'[u].phase = threads[u].phase /\ threads'[u].job = threads[u].job
             /\ threads'[u].live = threads[u].live /\ threads'[u].known = threads[u].known
             /\ threads'[u].code = threads[u].code
             /\ threads[u].stopped => threads'[u].stopped
             /\ Len(threads'[u].queue) <= Depth
             /\ \A i \in 1..Len(threads'[u].queue) : Late(threads'[u].queue[i])
      BY <1>4, <3>1
    <3>3. StopFindsIt' /\ threads' \in [1..Threads -> Thread]
      BY <1>1, <1>3, <3>1 DEF StopFindsIt, Alive
    <3> HIDE DEF t, k
    <3> QED
      BY <1>1, <1>2, <2>1, <3>2, <3>3, MovesKeeps
  <2> QED
    BY <2>3, <2>4
<1> QED
  BY <1>5, <1>6 DEF Queues

LEMMA LooksStep ==
    ASSUME ResidentsInv, NEW c \in Clients, Looks(c)
    PROVE  ResidentsInv'
<1> DEFINE kept == current # 0 /\ ~Other(c)
           th == StopOther(c)
           closes == client[c].event = "close"
<1>1. /\ client[c].at = "reads" /\ UNCHANGED <<site, paused, failures>> /\ closes \in BOOLEAN
      /\ threads \in [1..Threads -> Thread] /\ current \in 0..Threads
  BY DEF Looks, ResidentsInv, ResidentsTypeOK
<1>2. ASSUME NEW to \in 0..Threads, client' = [client EXCEPT ![c].at = "holds", ![c].to = to]
      PROVE  Moves(c, [client[c] EXCEPT !.at = "holds", !.to = to])
  <2> DEFINE k == [client[c] EXCEPT !.at = "holds", !.to = to]
  <2>1. /\ k \in Connection /\ k.life = client[c].life /\ k.event = client[c].event
        /\ k.on = client[c].on /\ k.closing = client[c].closing /\ client[c].life # "away"
    BY <1>1, ConnectionType DEF Connection
  <2>2. client' = [client EXCEPT ![c] = k]
    BY <1>2, ConnectionType
  <2> HIDE DEF k
  <2>3. Moves(c, k)
    BY <1>1, <2>1, <2>2, ConnectionType DEF Moves, Accepted
  <2> QED
    BY <2>3 DEF k
<1>3. CASE /\ kept
           /\ client' = [client EXCEPT ![c].at = "holds", ![c].to = current]
           /\ UNCHANGED <<current, threads>>
  BY <1>1, <1>2, <1>3, MovesAlone
<1>4. ~kept => th = IF current # 0 THEN Stopped(current) ELSE threads
  BY DEF StopOther, Other
<1>5. ASSUME ~kept
      PROVE  /\ th \in [1..Threads -> Thread]
             /\ \A u \in 1..Threads :
                   /\ th[u].phase = threads[u].phase /\ th[u].job = threads[u].job
                   /\ th[u].live = threads[u].live /\ th[u].known = threads[u].known
                   /\ th[u].code = threads[u].code
                   /\ threads[u].stopped => th[u].stopped
                   /\ Len(th[u].queue) <= Depth
                   /\ \A i \in 1..Len(th[u].queue) : Late(th[u].queue[i])
                   /\ Alive(u) => th[u].stopped
  <2> HIDE DEF th, kept
  <2> QED
    BY <1>4, <1>5, StopTellsAll
<1>6. CASE /\ ~kept
           /\ client' = [client EXCEPT ![c] = Answer(c, closes)]
           /\ current' = 0
           /\ threads' = th
  <2>1. Moves(c, Answer(c, closes))
    <3> HIDE DEF closes
    <3> QED
      BY <1>1, <1>6, AnswerMoves
  <2> HIDE DEF th, kept, closes
  <2>2. StopFindsIt'
    BY <1>5, <1>6 DEF StopFindsIt, Alive
  <2>3. \A u \in 1..Threads :
           /\ threads'[u].phase = threads[u].phase /\ threads'[u].job = threads[u].job
           /\ threads'[u].live = threads[u].live /\ threads'[u].known = threads[u].known
           /\ threads'[u].code = threads[u].code
           /\ threads[u].stopped => threads'[u].stopped
           /\ Len(threads'[u].queue) <= Depth
           /\ \A i \in 1..Len(threads'[u].queue) : Late(threads'[u].queue[i])
    BY <1>5, <1>6
  <2>4. threads' \in [1..Threads -> Thread] /\ current' \in 0..Threads
    BY <1>5, <1>6, Zeros
  <2> QED
    BY <1>1, <2>1, <2>2, <2>3, <2>4, MovesKeeps
<1>7. ASSUME ~kept, NEW t \in 1..Threads, Unused(t),
             client' = [client EXCEPT ![c].at = "holds", ![c].to = t],
             current' = t,
             threads' = [th EXCEPT ![t] = [NoThread EXCEPT !.phase = "idle", !.settings = client[c].meta]]
      PROVE  ResidentsInv'
  <2> DEFINE r == [NoThread EXCEPT !.phase = "idle", !.settings = client[c].meta]
             k == [client[c] EXCEPT !.at = "holds", !.to = t]
  <2>1. t \in 0..Threads
    BY ResidentsAssumption
  <2>2. Moves(c, k)
    BY <1>2, <1>7, <2>1
  <2>3. /\ r \in Thread /\ r.queue = <<>> /\ r.job = Wake /\ r.phase = "idle" /\ ~r.live
    <3>1. client[c].meta \in 0..(Deploys + 1)
      BY ConnectionType DEF Connection
    <3> QED
      BY <3>1, NoThreadType DEF Thread
  <2>4. Len(r.queue) <= Depth /\ \A i \in 1..Len(r.queue) : Late(r.queue[i])
    BY <2>3, ResidentsAssumption
  <2> HIDE DEF th, kept, r, k
  <2>5. threads' = [th EXCEPT ![t] = r]
    BY <1>7 DEF r
  <2>6. /\ threads' \in [1..Threads -> Thread] /\ threads'[t] = r
        /\ \A u \in 1..Threads : u # t => threads'[u] = th[u]
    BY <1>5, <1>7, <2>3, <2>5
  <2>7. StopFindsIt'
    BY <1>5, <1>7, <2>6 DEF StopFindsIt, Alive
  <2>8. ASSUME NEW u \in 1..Threads
        PROVE  /\ \/ /\ threads'[u].phase = threads[u].phase /\ threads'[u].job = threads[u].job
                     /\ threads'[u].live = threads[u].live /\ threads'[u].known = threads[u].known
                     /\ threads'[u].code = threads[u].code
                     /\ threads[u].stopped => threads'[u].stopped
                  \/ /\ threads[u].phase = "none" /\ threads'[u].phase = "idle"
                     /\ threads'[u].job = Wake /\ ~threads'[u].live
               /\ Len(threads'[u].queue) <= Depth
               /\ \A i \in 1..Len(threads'[u].queue) : Late(threads'[u].queue[i])
    <3>1. CASE u = t
      BY <1>7, <2>3, <2>4, <2>6, <3>1 DEF Unused
    <3>2. CASE u # t
      BY <1>5, <1>7, <2>6, <3>2
    <3> QED
      BY <3>1, <3>2
  <2> QED
    BY <1>1, <1>7, <2>1, <2>2, <2>6, <2>7, <2>8, MovesKeeps
<1> QED
  BY <1>3, <1>6, <1>7 DEF Looks

-----------------------------------------------------------------------------
(* Deploys, and the rest.                                                     *)

LEMMA StopsAfterStep ==
    ASSUME ResidentsInv, StopsAfter
    PROVE  ResidentsInv'
<1>1. /\ threads' = (IF current # 0 THEN Stopped(current) ELSE threads)
      /\ current' = 0 /\ deploying' = FALSE /\ stoppedFor' = handler
      /\ UNCHANGED <<declared, handler, deploys, paused, failures, client>>
  BY DEF StopsAfter, Stop
<1>2. /\ threads' \in [1..Threads -> Thread]
      /\ \A u \in 1..Threads :
            /\ threads'[u].phase = threads[u].phase /\ threads'[u].job = threads[u].job
            /\ threads'[u].live = threads[u].live /\ threads'[u].known = threads[u].known
            /\ threads'[u].code = threads[u].code
            /\ threads[u].stopped => threads'[u].stopped
            /\ Len(threads'[u].queue) <= Depth
            /\ \A i \in 1..Len(threads'[u].queue) : Late(threads'[u].queue[i])
            /\ Alive(u) => threads'[u].stopped
  BY <1>1, StopTellsAll
<1>3. ResidentsTypeOK'
  BY <1>1, <1>2, Zeros DEF ResidentsInv, ResidentsTypeOK
<1>4. StopFindsIt' /\ HasTheHandler'
  BY <1>1, <1>2 DEF StopFindsIt, HasTheHandler, Alive, ResidentsInv, ResidentsTypeOK
<1>5. ClientsAsk'
  BY <1>1 DEF ResidentsInv, ClientsAsk
<1>6. ClosesLate'
  BY <1>1, <1>2 DEF ResidentsInv, ClosesLate, Late
<1>7. LiveWhileRun'
  BY <1>2 DEF ResidentsInv, LiveWhileRun
<1>8. AcceptedIsKnown'
  <2>1. \A c \in Clients : client[c].on # 0 => client[c].on \in 1..Threads
    BY ResidentsAssumption DEF ResidentsInv, ResidentsTypeOK, Connection
  <2> QED
    BY <1>1, <1>2, <2>1 DEF ResidentsInv, AcceptedIsKnown
<1> QED
  BY <1>3, <1>4, <1>5, <1>6, <1>7, <1>8 DEF ResidentsInv

\* What a deploy writes before it stops the instance only moves the handler on.
LEMMA DeployStep ==
    ASSUME ResidentsInv, ReplaceHandler \/ DeclareOtherwise \/ DroppedWriteLands
    PROVE  ResidentsInv'
<1>1. /\ UNCHANGED <<current, threads, paused, failures, client, stoppedFor>>
      /\ deploys' = deploys + 1 /\ deploys < Deploys /\ deploying' \in BOOLEAN
  BY DEF ReplaceHandler, DeclareOtherwise, DroppedWriteLands, Begins, Deploy, ResidentsInv,
         ResidentsTypeOK
<1>2. /\ declared' \in 0..(Deploys + 1) /\ handler' \in 1..(Deploys + 1)
      /\ deploys' \in 0..Deploys /\ declared' <= deploys' + 1 /\ handler' <= deploys' + 1
      /\ handler' >= handler
  <2>1. /\ declared \in 0..(Deploys + 1) /\ handler \in 1..(Deploys + 1) /\ deploys \in 0..Deploys
        /\ declared <= deploys + 1 /\ handler <= deploys + 1
    BY DEF ResidentsInv, ResidentsTypeOK
  <2>2. \/ handler' = handler + 1 /\ declared' = declared
        \/ handler' = handler /\ declared' \in {0, declared + 1}
    BY DEF ReplaceHandler, DeclareOtherwise, DroppedWriteLands
  <2> QED
    BY <1>1, <2>1, <2>2, ResidentsAssumption
<1>3. ResidentsTypeOK'
  BY <1>1, <1>2 DEF ResidentsInv, ResidentsTypeOK
<1>4. HasTheHandler'
  BY <1>1, <1>2 DEF ResidentsInv, ResidentsTypeOK, HasTheHandler, Alive
<1> QED
  BY <1>1, <1>3, <1>4 DEF ResidentsInv, StopFindsIt, ClientsAsk, ClosesLate, Late, LiveWhileRun,
                          AcceptedIsKnown, Alive

LEMMA PauseStep ==
    ASSUME ResidentsInv, PauseEnds \/ DeployBreaksOff \/ UNCHANGED residentsVars
    PROVE  ResidentsInv'
<1>1. /\ UNCHANGED <<declared, handler, deploys, current, threads, failures, client, stoppedFor>>
      /\ paused' \in BOOLEAN /\ deploying' \in BOOLEAN
  BY DEF PauseEnds, DeployBreaksOff, residentsVars, site, ResidentsInv, ResidentsTypeOK
<1> QED
  BY <1>1 DEF ResidentsInv, ResidentsTypeOK, StopFindsIt, ClientsAsk, ClosesLate, Late, LiveWhileRun,
              HasTheHandler, AcceptedIsKnown, Alive

-----------------------------------------------------------------------------

LEMMA InitHolds == ResidentsInit => ResidentsInv
<1> SUFFICES ASSUME ResidentsInit PROVE ResidentsInv
  OBVIOUS
<1> DEFINE no == FALSE
<1>1. NewClient \in Connection /\ NewClient.life = "away" /\ NewClient.at = "rest"
      /\ NewClient.event = "none" /\ NewClient.on = 0
  <2>1. /\ no \in BOOLEAN
        /\ NewClient = [life |-> "away", at |-> "rest", event |-> "none", meta |-> 0, to |-> 0,
                        ok |-> no, on |-> 0, said |-> 0, closing |-> no]
    BY DEF NewClient
  <2> HIDE DEF no
  <2> QED
    BY <2>1, Zeros DEF Connection
<1>2. client = [c \in Clients |-> NewClient] /\ threads = [t \in 1..Threads |-> NoThread]
  BY DEF ResidentsInit
<1>3. NoThread.phase = "none"
  BY DEF NoThread
<1>4. ResidentsTypeOK
  <2>1. \A t \in 1..Threads : Len(threads[t].queue) <= Depth
    BY <1>2, NoThreadType, ResidentsAssumption
  <2>2. /\ client \in [Clients -> Connection] /\ threads \in [1..Threads -> Thread]
    BY <1>1, <1>2, NoThreadType
  <2>3. /\ declared \in 0..(Deploys + 1) /\ handler \in 1..(Deploys + 1)
        /\ deploys \in 0..Deploys /\ failures \in 0..Failures /\ current \in 0..Threads
        /\ declared <= deploys + 1 /\ handler <= deploys + 1
        /\ stoppedFor \in 1..(Deploys + 1)
    BY ResidentsAssumption DEF ResidentsInit
  <2>4. deploying \in BOOLEAN /\ paused \in BOOLEAN
    BY DEF ResidentsInit
  <2> QED
    BY <2>1, <2>2, <2>3, <2>4 DEF ResidentsTypeOK
<1>5. StopFindsIt /\ LiveWhileRun /\ HasTheHandler
  BY <1>2, <1>3, NoThreadType DEF StopFindsIt, LiveWhileRun, HasTheHandler, Alive, ResidentsInit
<1>6. ClientsAsk /\ AcceptedIsKnown
  BY <1>1, <1>2 DEF ClientsAsk, AcceptedIsKnown
<1>7. ClosesLate
  BY <1>2, NoThreadType, WakeLate, ResidentsAssumption DEF ClosesLate
<1> QED
  BY <1>4, <1>5, <1>6, <1>7 DEF ResidentsInv

LEMMA NextKeeps == ResidentsInv /\ [ResidentsNext]_residentsVars => ResidentsInv'
<1> SUFFICES ASSUME ResidentsInv, [ResidentsNext]_residentsVars PROVE ResidentsInv'
  OBVIOUS
<1>1. ASSUME NEW c \in Clients, NEW event \in {"connect", "message", "close"}, Reads(c, event)
      PROVE  ResidentsInv'
  BY <1>1, ReadsStep
<1>2. ASSUME NEW c \in Clients,
             RunsFresh(c) \/ Looks(c) \/ Queues(c) \/ Hears(c) \/ GivesUp(c) \/ LoopEnds(c)
      PROVE  ResidentsInv'
  BY <1>2, RunsFreshStep, LooksStep, QueuesStep, HearsStep, GivesUpStep, LoopEndsStep
<1>3. ASSUME NEW t \in 1..Threads, LoadHandler(t)
      PROVE  ResidentsInv'
  BY <1>3, LoadHandlerStep, PhaseSteps
<1>4. ASSUME NEW t \in 1..Threads,
             Receive(t) \/ ReceiveDisconnected(t) \/ Unknown(t) \/ Instantiate(t)
                \/ Enter(t) \/ Run(t) \/ TickFails(t) \/ ThreadEnds(t)
      PROVE  ResidentsInv'
  BY <1>4, ReceiveStep, PhaseSteps, InstantiateStep, RunStep, TickFailsStep, ThreadEndsStep
<1>5. CASE \/ PauseEnds \/ ReplaceHandler \/ DeclareOtherwise \/ StopsAfter
           \/ DeployBreaksOff \/ DroppedWriteLands \/ UNCHANGED residentsVars
  BY <1>5, PauseStep, DeployStep, StopsAfterStep
<1> QED
  BY <1>1, <1>2, <1>3, <1>4, <1>5 DEF ResidentsNext

LEMMA Invariance == ResidentsSpec => []ResidentsInv
<1>1. ResidentsInit => ResidentsInv
  BY InitHolds
<1>2. ResidentsInv /\ [ResidentsNext]_residentsVars => ResidentsInv'
  BY NextKeeps
<1> QED
  BY <1>1, <1>2, PTL DEF ResidentsSpec

\* Every state of the residents is of the declared types, and no queue holds
\* more than queue_depth events.
THEOREM ResidentsTypeCorrect == ResidentsSpec => []ResidentsTypeOK
<1>1. ResidentsInv => ResidentsTypeOK
  BY DEF ResidentsInv
<1> QED
  BY <1>1, Invariance, PTL

\* A thread that nobody has stopped is the one the next stop will find, so no
\* deploy and no change of settings leaves one running unseen.
THEOREM NoThreadUnseen == ResidentsSpec => []StopFindsIt
<1>1. ResidentsInv => StopFindsIt
  BY DEF ResidentsInv
<1> QED
  BY <1>1, Invariance, PTL

\* No instance that nobody has stopped runs a handler older than the one there
\* was when a deploy was last done, one whose handler was read before that
\* included, whatever deploys are refused or dropped.
THEOREM DeployReplaces == ResidentsSpec => []RunsTheHandler
<1>1. ResidentsInv => RunsTheHandler
  BY DEF ResidentsInv, HasTheHandler, RunsTheHandler
<1> QED
  BY <1>1, Invariance, PTL

\* A connection an instance accepted stays open only while that instance lives
\* and knows it; otherwise it has been told to close, even if it has yet to hear
\* that it was accepted.
THEOREM KnownOrClosed == ResidentsSpec => []OpenIsKnown
<1>1. ResidentsInv => OpenIsKnown
  BY DEF ResidentsInv, AcceptedIsKnown, OpenIsKnown
<1> QED
  BY <1>1, Invariance, PTL

-----------------------------------------------------------------------------
(* Sums.                                                                      *)

\* What the units are.
LEMMA UnitsAre ==
    ASSUME NEW f, NEW S
    PROVE  \A u : u \in Units(f, S) <=> \E s \in S : \E i \in 1..f[s] : u = <<s, i>>
BY DEF Units

\* The units of one place.
LEMMA UnitsOfOne ==
    ASSUME NEW s, NEW n \in Nat
    PROVE  IsFiniteSet({s} \X (1..n)) /\ Cardinality({s} \X (1..n)) = n
<1>1. IsFiniteSet(1..n) /\ Cardinality(1..n) = n
  <2>1. IsFiniteSet(1..n) /\ Cardinality(1..n) = IF 1 > n THEN 0 ELSE n - 1 + 1
    BY FS_Interval
  <2> QED
    BY <2>1
<1> DEFINE g == [i \in 1..n |-> <<s, i>>]
<1>2. g \in Bijection(1..n, {s} \X (1..n))
  <2>1. \A i \in 1..n : g[i] = <<s, i>> /\ g[i] \in {s} \X (1..n)
    OBVIOUS
  <2>2. g \in [1..n -> {s} \X (1..n)]
    BY <2>1
  <2>3. \A i, j \in 1..n : g[i] = g[j] => i = j
    BY <2>1
  <2>4. \A u \in {s} \X (1..n) : \E i \in 1..n : g[i] = u
    <3> SUFFICES ASSUME NEW u \in {s} \X (1..n) PROVE \E i \in 1..n : g[i] = u
      OBVIOUS
    <3>1. u = <<s, u[2]>> /\ u[2] \in 1..n
      OBVIOUS
    <3> QED
      BY <2>1, <3>1
  <2> HIDE DEF g
  <2> QED
    BY <2>2, <2>3, <2>4 DEF Bijection, Injection, Surjection, IsInjective
<1> QED
  BY <1>1, <1>2, FS_Bijection DEF ExistsBijection

\* A sum is that of all places but one, and what is there.
LEMMA TotalBarOne ==
    ASSUME NEW f, NEW S, NEW c \in S, f[c] \in Nat, IsFiniteSet(Units(f, S \ {c}))
    PROVE  IsFiniteSet(Units(f, S)) /\ Total(f, S) = Total(f, S \ {c}) + f[c] /\ Total(f, S \ {c}) \in Nat
<1> DEFINE A == Units(f, S \ {c})
           B == {c} \X (1..f[c])
<1>1. IsFiniteSet(B) /\ Cardinality(B) = f[c]
  BY UnitsOfOne
<1>2. Units(f, S) = A \cup B
  BY DEF Units
<1>3. A \cap B = {}
  BY DEF Units
<1> HIDE DEF A, B
<1>4. /\ IsFiniteSet(A \cup B)
      /\ Cardinality(A \cup B) = Cardinality(A) + Cardinality(B) - Cardinality(A \cap B)
  BY <1>1, FS_Union DEF A
<1>5. Cardinality({}) = 0 /\ Cardinality(A) \in Nat
  BY FS_EmptySet, FS_CardinalityType DEF A
<1>6. Total(f, S) = Cardinality(A \cup B) /\ Total(f, S \ {c}) = Cardinality(A)
  BY <1>2 DEF Total, A
<1>7. IsFiniteSet(Units(f, S))
  BY <1>2, <1>4
<1>8. Cardinality(A \cup B) = Cardinality(A) + f[c]
  <2>1. Cardinality(A \cap B) = 0
    BY <1>3, <1>5
  <2> QED
    BY <1>1, <1>4, <1>5, <2>1
<1> QED
  BY <1>5, <1>6, <1>7, <1>8

\* It is a natural number.
LEMMA TotalType ==
    ASSUME NEW S, IsFiniteSet(S), NEW f, \A s \in S : f[s] \in Nat
    PROVE  IsFiniteSet(Units(f, S)) /\ Total(f, S) \in Nat
<1> DEFINE P == {{s} \X (1..f[s]) : s \in S}
           g == [s \in S |-> {s} \X (1..f[s])]
<1>1. g \in Surjection(S, P)
  BY DEF Surjection
<1>2. IsFiniteSet(P)
  BY <1>1, FS_Surjection DEF ExistsSurjection
<1>3. \A T \in P : IsFiniteSet(T)
  <2> SUFFICES ASSUME NEW s \in S PROVE IsFiniteSet({s} \X (1..f[s]))
    OBVIOUS
  <2>1. f[s] \in Nat
    OBVIOUS
  <2> QED
    BY <2>1, UnitsOfOne
<1>4. IsFiniteSet(UNION P)
  <2> HIDE DEF P
  <2> QED
    BY <1>2, <1>3, FS_UNION
<1> QED
  BY <1>4, FS_CardinalityType DEF Units, Total

\* A sum goes by what there is at its places.
LEMMA TotalSame ==
    ASSUME NEW f, NEW g, NEW S, \A s \in S : f[s] = g[s]
    PROVE  Units(f, S) = Units(g, S) /\ Total(f, S) = Total(g, S)
BY DEF Units, Total

\* What changes at one place changes the sum by as much.
LEMMA TotalChanges ==
    ASSUME NEW S, IsFiniteSet(S), NEW f \in [S -> Nat], NEW g \in [S -> Nat], NEW c \in S,
           \A s \in S \ {c} : g[s] = f[s]
    PROVE  Total(f, S) \in Nat /\ Total(g, S) \in Nat /\ Total(g, S) = Total(f, S) - f[c] + g[c]
<1>1. IsFiniteSet(S \ {c})
  BY FS_Subset
<1>2. IsFiniteSet(Units(f, S \ {c})) /\ IsFiniteSet(Units(g, S \ {c}))
  BY <1>1, TotalType
<1>3. Total(f, S \ {c}) = Total(g, S \ {c})
  BY TotalSame
<1>4. Total(f, S) = Total(f, S \ {c}) + f[c] /\ Total(f, S \ {c}) \in Nat
  BY <1>2, TotalBarOne
<1>5. Total(g, S) = Total(g, S \ {c}) + g[c]
  BY <1>2, TotalBarOne
<1>6. f[c] \in Nat /\ g[c] \in Nat
  OBVIOUS
<1> QED
  BY <1>3, <1>4, <1>5, <1>6

\* The bytes of a queue.
LEMMA BytesType ==
    ASSUME NEW q \in Seq(Nat)
    PROVE  Bytes(q) \in Nat /\ IsFiniteSet(Units(q, DOMAIN q))
<1>1. DOMAIN q = 1..Len(q) /\ Len(q) \in Nat /\ \A i \in DOMAIN q : q[i] \in Nat
  OBVIOUS
<1>2. IsFiniteSet(DOMAIN q)
  BY <1>1, FS_Interval
<1> QED
  BY <1>1, <1>2, TotalType DEF Bytes

LEMMA BytesOfNone == Bytes(<<>>) = 0
<1>1. Units(<<>>, DOMAIN <<>>) = {}
  BY DEF Units
<1> QED
  BY <1>1, FS_EmptySet DEF Bytes, Total

LEMMA BytesAppended ==
    ASSUME NEW q \in Seq(Nat), NEW n \in Nat
    PROVE  Bytes(Append(q, n)) = Bytes(q) + n
<1> DEFINE r == Append(q, n)
           k == Len(q) + 1
<1>1. r \in Seq(Nat) /\ DOMAIN r = 1..k /\ k \in DOMAIN r /\ r[k] = n /\ DOMAIN q = 1..Len(q) /\ Len(q) \in Nat
  OBVIOUS
<1>2. (DOMAIN r) \ {k} = DOMAIN q /\ \A i \in DOMAIN q : r[i] = q[i]
  BY <1>1
<1> HIDE DEF r, k
<1>3. Units(r, DOMAIN q) = Units(q, DOMAIN q) /\ Total(r, DOMAIN q) = Total(q, DOMAIN q)
  BY <1>2, TotalSame
<1>4. IsFiniteSet(Units(q, DOMAIN q))
  BY BytesType
<1>5. IsFiniteSet(Units(r, (DOMAIN r) \ {k})) /\ r[k] \in Nat /\ k \in DOMAIN r
  BY <1>1, <1>2, <1>3, <1>4
<1>6. Total(r, DOMAIN r) = Total(r, (DOMAIN r) \ {k}) + r[k]
  BY <1>5, TotalBarOne
<1> QED
  BY <1>1, <1>2, <1>3, <1>6 DEF Bytes, r

\* Taking the first leaves the others, each a place further ahead.
LEMMA BytesOfRest ==
    ASSUME NEW q \in Seq(Nat), q # <<>>
    PROVE  /\ Bytes(q) = Head(q) + Bytes(Tail(q))
           /\ Head(q) \in Nat /\ Tail(q) \in Seq(Nat) /\ Bytes(Tail(q)) \in Nat
<1> DEFINE r == Tail(q)
           D == (DOMAIN q) \ {1}
<1>1. /\ r \in Seq(Nat) /\ Head(q) = q[1] /\ q[1] \in Nat /\ 1 \in DOMAIN q
      /\ DOMAIN r = 1..(Len(q) - 1) /\ DOMAIN q = 1..Len(q) /\ Len(q) \in Nat \ {0}
      /\ \A i \in DOMAIN r : r[i] = q[i + 1]
  OBVIOUS
<1>2. \A i : i \in D <=> i \in Nat /\ i - 1 \in DOMAIN r
  BY <1>1
<1>3. IsFiniteSet(Units(r, DOMAIN r)) /\ Bytes(r) \in Nat
  BY <1>1, BytesType
<1> DEFINE U == Units(r, DOMAIN r)
           V == Units(q, D)
           g == [u \in U |-> <<u[1] + 1, u[2]>>]
<1> HIDE DEF r, D
<1>4. g \in Bijection(U, V)
  <2>1. \A u \in U : u = <<u[1], u[2]>> /\ u[1] \in DOMAIN r /\ u[2] \in 1..r[u[1]]
    BY UnitsAre
  <2>2. \A i \in DOMAIN r : i + 1 \in D /\ i \in Nat /\ r[i] = q[i + 1]
    <3> SUFFICES ASSUME NEW i \in DOMAIN r PROVE i + 1 \in D /\ i \in Nat /\ r[i] = q[i + 1]
      OBVIOUS
    <3>1. i \in Nat /\ i + 1 \in Nat /\ (i + 1) - 1 = i
      BY <1>1
    <3>2. i + 1 \in D
      BY <1>2, <3>1
    <3> QED
      BY <1>1, <3>1, <3>2
  <2>3. \A u \in U : g[u] \in V
    <3> SUFFICES ASSUME NEW u \in U PROVE <<u[1] + 1, u[2]>> \in V
      OBVIOUS
    <3> QED
      BY <2>1, <2>2, UnitsAre
  <2>4. \A u, v \in U : g[u] = g[v] => u = v
    <3> SUFFICES ASSUME NEW u \in U, NEW v \in U, <<u[1] + 1, u[2]>> = <<v[1] + 1, v[2]>> PROVE u = v
      OBVIOUS
    <3>1. u[1] + 1 = v[1] + 1 /\ u[2] = v[2] /\ u[1] \in Nat /\ v[1] \in Nat
      BY <2>1, <2>2
    <3> QED
      BY <2>1, <3>1
  <2>5. \A w \in V : \E u \in U : g[u] = w
    <3> SUFFICES ASSUME NEW w \in V PROVE \E u \in U : g[u] = w
      OBVIOUS
    <3>1. w = <<w[1], w[2]>> /\ w[1] \in D /\ w[2] \in 1..q[w[1]]
      BY UnitsAre
    <3>2. w[1] - 1 \in DOMAIN r /\ w[1] \in Nat /\ r[w[1] - 1] = q[(w[1] - 1) + 1] /\ (w[1] - 1) + 1 = w[1]
      <4>1. w[1] \in Nat /\ w[1] - 1 \in DOMAIN r
        BY <1>2, <3>1
      <4>2. (w[1] - 1) + 1 = w[1]
        BY <4>1
      <4>3. \A i \in DOMAIN r : r[i] = q[i + 1]
        BY <1>1
      <4> HIDE DEF U, V
      <4> QED
        BY <4>1, <4>2, <4>3
    <3>3. <<w[1] - 1, w[2]>> \in U
      BY <3>1, <3>2, UnitsAre
    <3>4. g[<<w[1] - 1, w[2]>>] = w
      BY <3>1, <3>2, <3>3
    <3> QED
      BY <3>3, <3>4
  <2>6. g \in [U -> V]
    BY <2>3
  <2> HIDE DEF g, U, V
  <2> QED
    BY <2>4, <2>5, <2>6 DEF Bijection, Injection, Surjection, IsInjective
<1>5. IsFiniteSet(V) /\ Cardinality(V) = Cardinality(U)
  <2> HIDE DEF g, U, V
  <2>1. IsFiniteSet(U)
    BY <1>3 DEF U
  <2> QED
    BY <1>4, <2>1, FS_Bijection DEF ExistsBijection
<1>6. Total(q, DOMAIN q) = Total(q, D) + q[1] /\ Total(q, D) \in Nat
  BY <1>1, <1>5, TotalBarOne DEF D
<1> QED
  BY <1>1, <1>3, <1>5, <1>6 DEF Bytes, Total, r

-----------------------------------------------------------------------------
(* The UDP port, for any addresses, datagrams, replies and bounds.           *)

PeerConn ==
    [at : {"none", "opening", "running", "refused", "closing", "left", "dropping", "done"},
     from : Addresses \cup {NoPeer}, taken : Nat, first : BOOLEAN, credit : Nat, heard : Nat, told : Nat]

PortTypes ==
    /\ desk \in [at : {"idle", "known", "counted", "new", "admitted"}, from : Addresses \cup {NoPeer},
                 len : Nat, known : PeerConns \cup {NoPeer}, remotes : Nat]
    /\ peers \in [Addresses -> PeerConns \cup {NoPeer}]
    /\ conns \in [PeerConns -> PeerConn]
    /\ queues \in [PeerConns -> Seq(Nat)]

\* Takes datagrams of the address.
Serves(c, a) == conns[c].at \in {"opening", "running"} /\ conns[c].from = a

\* What the loop has looked up is still so, or the connection is over: no other
\* than the one it found serves the address, and none where it found none or one
\* that took no more.
DeskIsRight ==
    /\ desk.at # "idle" => desk.from \in Addresses
    /\ desk.at \in {"known", "counted"} =>
          /\ desk.known \in PeerConns
          /\ \A c \in PeerConns : Serves(c, desk.from) => c = desk.known
    /\ desk.at \in {"new", "admitted"} => \A c \in PeerConns : ~Serves(c, desk.from)

\* A connection that takes datagrams has an address, and is found by it.
FoundByAddress == \A c \in PeerConns, a \in Addresses \cup {NoPeer} : Serves(c, a) => a \in Addresses /\ peers[a] = c

\* What may yet be told was earned by what was heard.
CreditEarned == \A c \in PeerConns : conns[c].told + conns[c].credit <= Allowance + Ratio * conns[c].heard

PortInv == PortTypes /\ DeskIsRight /\ FoundByAddress /\ CreditEarned

-----------------------------------------------------------------------------

LEMMA PeerNumbers ==
    /\ Sizes \subseteq Nat \ {0} /\ Allowance \in Nat /\ Ratio \in Nat /\ MostCredit \in Nat
    /\ PeerConns \subseteq Nat \ {0}
BY PeersAssumption DEF PeerConns

LEMMA Earns ==
    ASSUME NEW h \in Nat, NEW n \in Nat
    PROVE  Ratio * h \in Nat /\ Ratio * n \in Nat /\ Ratio * (h + n) = Ratio * h + Ratio * n
BY PeerNumbers

LEMMA UnopenedIs == Unopened \in PeerConn /\ Unopened.at = "none"
BY DEF Unopened, PeerConn

LEMMA NothingIs ==
    /\ Nothing.at = "idle"
    /\ Nothing \in [at : {"idle", "known", "counted", "new", "admitted"}, from : Addresses \cup {NoPeer},
                    len : Nat, known : PeerConns \cup {NoPeer}, remotes : Nat]
BY DEF Nothing

\* The loop's own steps, which touch no connection.
LEMMA LoopKeepsPort ==
    ASSUME PortInv,
           Counted \/ Queued \/ Admits \/ \E a \in Addresses, n \in Sizes : Comes(a, n)
    PROVE  PortInv'
<1>1. UNCHANGED <<conns, peers>>
  BY DEF Counted, Queued, Admits, Comes
<1>2. FoundByAddress' /\ CreditEarned'
  BY <1>1 DEF PortInv, FoundByAddress, CreditEarned, Serves
<1>3. \A c \in PeerConns : \A a : Serves(c, a)' = Serves(c, a)
  BY <1>1 DEF Serves
<1>4. desk \in [at : {"idle", "known", "counted", "new", "admitted"}, from : Addresses \cup {NoPeer},
                len : Nat, known : PeerConns \cup {NoPeer}, remotes : Nat]
  BY DEF PortInv, PortTypes
<1>5. CASE \E a \in Addresses, n \in Sizes : Comes(a, n)
  <2>1. PICK a \in Addresses, n \in Sizes : Comes(a, n)
    BY <1>5
  <2> DEFINE at == IF peers[a] = NoPeer THEN "new" ELSE "known"
             remotes == Cardinality({b \in Addresses : peers[b] # NoPeer})
             found == [at |-> at, from |-> a, len |-> n, known |-> peers[a], remotes |-> remotes]
  <2>2. desk' = found /\ queues' = queues
    BY <2>1 DEF Comes
  <2>3. remotes \in Nat
    <3>1. IsFiniteSet({b \in Addresses : peers[b] # NoPeer})
      BY PeersAssumption, FS_Subset
    <3> QED
      BY <3>1, FS_CardinalityType
  <2>4. peers[a] \in PeerConns \cup {NoPeer}
    BY DEF PortInv, PortTypes
  <2>5. \A c \in PeerConns : Serves(c, a) => peers[a] = c
    BY DEF PortInv, FoundByAddress
  <2>6. \A c \in PeerConns : c # NoPeer
    BY PeerNumbers DEF NoPeer
  <2> HIDE DEF remotes
  <2>7. /\ found \in [at : {"idle", "known", "counted", "new", "admitted"}, from : Addresses \cup {NoPeer},
                      len : Nat, known : PeerConns \cup {NoPeer}, remotes : Nat]
        /\ found.at = at /\ found.from = a /\ found.known = peers[a]
    BY <2>3, <2>4, PeerNumbers
  <2> HIDE DEF found
  <2>8. PortTypes'
    BY <1>1, <2>2, <2>7 DEF PortInv, PortTypes
  <2>9. DeskIsRight'
    BY <1>3, <2>2, <2>4, <2>5, <2>6, <2>7 DEF DeskIsRight
  <2> QED
    BY <1>2, <2>8, <2>9 DEF PortInv
<1>6. CASE Counted \/ Queued \/ Admits
  <2>1. queues' \in [PeerConns -> Seq(Nat)]
    <3>1. CASE UNCHANGED queues
      BY <3>1 DEF PortInv, PortTypes
    <3>2. CASE queues' = [queues EXCEPT ![desk.known] = Append(@, desk.len)] /\ desk.at = "counted"
      BY <1>4, <3>2 DEF PortInv, PortTypes, DeskIsRight
    <3> QED
      BY <1>6, <3>1, <3>2 DEF Counted, Queued, Admits
  <2>2. \/ desk' = Nothing
        \/ desk.at = "known" /\ desk' = [desk EXCEPT !.at = "counted"]
        \/ desk.at = "counted" /\ ~Open(desk.known) /\ desk' = [desk EXCEPT !.at = "new"]
        \/ desk.at = "new" /\ desk' = [desk EXCEPT !.at = "admitted"]
    BY <1>6 DEF Counted, Queued, Admits
  <2>3. desk' \in [at : {"idle", "known", "counted", "new", "admitted"}, from : Addresses \cup {NoPeer},
                   len : Nat, known : PeerConns \cup {NoPeer}, remotes : Nat]
    BY <1>4, <2>2, NothingIs
  <2>4. DeskIsRight'
    <3>1. CASE desk' = Nothing
      BY <3>1, NothingIs DEF DeskIsRight
    <3>2. CASE desk.at = "known" /\ desk' = [desk EXCEPT !.at = "counted"]
      BY <1>3, <1>4, <3>2 DEF PortInv, DeskIsRight
    <3>3. CASE desk.at = "counted" /\ ~Open(desk.known) /\ desk' = [desk EXCEPT !.at = "new"]
      <4>1. \A c \in PeerConns : ~Serves(c, desk.from)
        BY <3>3 DEF PortInv, DeskIsRight, Open, Serves
      <4> QED
        BY <1>3, <1>4, <3>3, <4>1 DEF PortInv, DeskIsRight
    <3>4. CASE desk.at = "new" /\ desk' = [desk EXCEPT !.at = "admitted"]
      BY <1>3, <1>4, <3>4 DEF PortInv, DeskIsRight
    <3> QED
      BY <2>2, <3>1, <3>2, <3>3, <3>4
  <2> QED
    BY <1>1, <1>2, <2>1, <2>3, <2>4 DEF PortInv, PortTypes
<1> QED
  BY <1>5, <1>6

LEMMA OpensPeerKeepsPort ==
    ASSUME PortInv, OpensPeer
    PROVE  PortInv'
<1> DEFINE len == desk.len
           from == desk.from
           credit == Allowance + Ratio * len
           addressed == [[Unopened EXCEPT !.at = "opening"] EXCEPT !.from = from]
           opened == [[addressed EXCEPT !.heard = len] EXCEPT !.credit = credit]
<1>1. PICK c \in PeerConns :
         /\ \A d \in PeerConns : conns[d].at = "none" <=> d >= c
         /\ conns' = [conns EXCEPT ![c] = [Unopened EXCEPT !.at = "opening", !.from = desk.from,
                                            !.heard = desk.len,
                                            !.credit = Allowance + Ratio * desk.len]]
         /\ queues' = [queues EXCEPT ![c] = <<desk.len>>]
         /\ peers' = [peers EXCEPT ![desk.from] = c]
  BY DEF OpensPeer
<1>2. desk.at = "admitted" /\ desk' = Nothing
  BY DEF OpensPeer
<1>3. len \in Nat /\ from \in Addresses
  BY <1>2 DEF PortInv, PortTypes, DeskIsRight
<1>4. conns' = [conns EXCEPT ![c] = opened]
  BY <1>1
<1>5. credit \in Nat
  BY <1>3, Earns, PeerNumbers
<1> HIDE DEF from, len, credit
<1>6. addressed \in PeerConn /\ addressed.at = "opening" /\ addressed.from = from /\ addressed.told = 0
  BY <1>3, UnopenedIs DEF PeerConn, Unopened
<1> HIDE DEF addressed
<1>7. opened \in PeerConn /\ opened.at = "opening" /\ opened.from = from /\ opened.told = 0
      /\ opened.credit = credit /\ opened.heard = len
  BY <1>3, <1>5, <1>6 DEF PeerConn
<1> HIDE DEF opened
<1>8. /\ conns \in [PeerConns -> PeerConn] /\ queues \in [PeerConns -> Seq(Nat)]
      /\ peers \in [Addresses -> PeerConns \cup {NoPeer}]
  BY DEF PortInv, PortTypes
<1>9. /\ conns' \in [PeerConns -> PeerConn] /\ queues' \in [PeerConns -> Seq(Nat)]
      /\ peers' \in [Addresses -> PeerConns \cup {NoPeer}]
      /\ conns'[c] = opened /\ peers'[from] = c
  BY <1>1, <1>3, <1>4, <1>7, <1>8 DEF from, len
<1>10. \A d \in PeerConns \ {c} : conns'[d] = conns[d]
  BY <1>4, <1>8
<1>11. \A a \in Addresses \ {from} : peers'[a] = peers[a]
  BY <1>1, <1>8 DEF from
<1>12. \A d \in PeerConns : ~Serves(d, from)
  BY <1>2 DEF PortInv, DeskIsRight, from
<1>13. PortTypes'
  BY <1>2, <1>9, NothingIs DEF PortTypes
<1>14. DeskIsRight'
  BY <1>2, NothingIs DEF DeskIsRight
<1>15. FoundByAddress'
  <2>1. ASSUME NEW d \in PeerConns, NEW a \in Addresses \cup {NoPeer}, Serves(d, a)'
        PROVE  a \in Addresses /\ peers'[a] = d
    <3>1. CASE d = c
      BY <1>3, <1>7, <1>9, <2>1, <3>1 DEF Serves
    <3>2. CASE d # c
      <4>1. Serves(d, a)
        BY <1>10, <2>1, <3>2 DEF Serves
      <4>2. a # from
        BY <1>12, <4>1
      <4> QED
        BY <1>11, <4>1, <4>2 DEF PortInv, FoundByAddress
    <3> QED
      BY <3>1, <3>2
  <2> QED
    BY <2>1 DEF FoundByAddress
<1>16. CreditEarned'
  <2>1. opened.told + opened.credit <= Allowance + Ratio * opened.heard
    BY <1>3, <1>5, <1>7 DEF credit
  <2> QED
    BY <1>9, <1>10, <2>1 DEF PortInv, CreditEarned
<1> QED
  BY <1>13, <1>14, <1>15, <1>16 DEF PortInv

\* A step of a connection's task that serves no other address than before.
LEMMA PeerKeepsPort ==
    ASSUME PortInv, NEW c \in PeerConns, NEW rec \in PeerConn,
           conns' = [conns EXCEPT ![c] = rec],
           UNCHANGED desk,
           peers' \in [Addresses -> PeerConns \cup {NoPeer}],
           \A a \in Addresses, d \in PeerConns \ {c} : peers[a] = d => peers'[a] = d,
           rec.at \in {"opening", "running"} =>
               UNCHANGED peers /\ conns[c].at \in {"opening", "running"} /\ rec.from = conns[c].from,
           queues' \in [PeerConns -> Seq(Nat)],
           rec.told + rec.credit <= Allowance + Ratio * rec.heard
    PROVE  PortInv'
<1>1. conns \in [PeerConns -> PeerConn]
  BY DEF PortInv, PortTypes
<1>2. conns' \in [PeerConns -> PeerConn] /\ conns'[c] = rec /\ \A d \in PeerConns \ {c} : conns'[d] = conns[d]
  BY <1>1
<1>3. \A d \in PeerConns : \A a : Serves(d, a)' => Serves(d, a)
  BY <1>2 DEF Serves
<1>4. PortTypes'
  BY <1>2 DEF PortInv, PortTypes
<1>5. DeskIsRight'
  BY <1>3 DEF PortInv, DeskIsRight
<1>6. FoundByAddress'
  <2>1. ASSUME NEW d \in PeerConns, NEW a \in Addresses \cup {NoPeer}, Serves(d, a)'
        PROVE  a \in Addresses /\ peers'[a] = d
    <3>1. a \in Addresses /\ peers[a] = d
      BY <1>3, <2>1 DEF PortInv, FoundByAddress
    <3>2. d = c => UNCHANGED peers
      BY <1>2, <2>1 DEF Serves
    <3> QED
      BY <3>1, <3>2
  <2> QED
    BY <2>1 DEF FoundByAddress
<1>7. CreditEarned'
  BY <1>2 DEF PortInv, CreditEarned
<1> QED
  BY <1>4, <1>5, <1>6, <1>7 DEF PortInv

\* Steps that change only how far a connection is.
LEMMA GoesKeepsPort ==
    ASSUME PortInv, NEW c \in PeerConns, Connects(c) \/ StopsTaking(c) \/ DropsQueue(c) \/ Removes(c)
    PROVE  PortInv'
<1>1. PICK s \in {"running", "refused", "closing", "left", "dropping", "done"} :
         /\ conns' = [conns EXCEPT ![c].at = s]
         /\ s = "running" => conns[c].at = "opening" /\ UNCHANGED peers
  BY DEF Connects, StopsTaking, DropsQueue, Removes, Becomes
<1> DEFINE rec == [conns[c] EXCEPT !.at = s]
<1>2. /\ conns \in [PeerConns -> PeerConn] /\ queues \in [PeerConns -> Seq(Nat)]
      /\ peers \in [Addresses -> PeerConns \cup {NoPeer}]
      /\ conns[c].told + conns[c].credit <= Allowance + Ratio * conns[c].heard
  BY DEF PortInv, PortTypes, CreditEarned
<1>3. /\ rec \in PeerConn /\ rec.at = s /\ rec.from = conns[c].from
      /\ rec.told = conns[c].told /\ rec.credit = conns[c].credit /\ rec.heard = conns[c].heard
  BY <1>2 DEF PeerConn
<1>4. conns' = [conns EXCEPT ![c] = rec]
  BY <1>1, <1>2
<1> HIDE DEF rec
<1>5. queues' \in [PeerConns -> Seq(Nat)]
  <2>1. UNCHANGED queues \/ queues' = [queues EXCEPT ![c] = <<>>]
    BY DEF Connects, StopsTaking, DropsQueue, Removes
  <2>2. queues \in [PeerConns -> Seq(Nat)] /\ <<>> \in Seq(Nat)
    BY <1>2
  <2> QED
    BY <2>1, <2>2, Zenon
<1>6. /\ peers' \in [Addresses -> PeerConns \cup {NoPeer}]
      /\ \A a \in Addresses, d \in PeerConns \ {c} : peers[a] = d => peers'[a] = d
  <2>1. \/ UNCHANGED peers
        \/ peers' = [a \in Addresses |-> IF peers[a] = c THEN NoPeer ELSE peers[a]]
    BY DEF Connects, StopsTaking, DropsQueue, Removes
  <2> QED
    BY <1>2, <2>1
<1>7. UNCHANGED desk
  BY DEF Connects, StopsTaking, DropsQueue, Removes
<1>8. rec.told + rec.credit <= Allowance + Ratio * rec.heard
  BY <1>2, <1>3
<1> QED
  BY <1>1, <1>3, <1>4, <1>5, <1>6, <1>7, <1>8, PeerKeepsPort

\* Steps of a connection that change what it has taken, heard and told.
LEMMA TakesKeepsPort ==
    ASSUME PortInv, NEW c \in PeerConns, Takes(c)
    PROVE  PortInv'
<1> DEFINE n == Head(queues[c])
           rec == [conns[c] EXCEPT !.taken = n]
<1>1. /\ conns \in [PeerConns -> PeerConn] /\ queues \in [PeerConns -> Seq(Nat)]
      /\ peers \in [Addresses -> PeerConns \cup {NoPeer}]
      /\ conns[c].told + conns[c].credit <= Allowance + Ratio * conns[c].heard
  BY DEF PortInv, PortTypes, CreditEarned
<1>2. /\ conns[c].at = "running" /\ queues[c] # <<>>
      /\ conns' = [conns EXCEPT ![c].taken = n]
      /\ queues' = [queues EXCEPT ![c] = Tail(@)]
      /\ UNCHANGED <<desk, peers>>
  BY DEF Takes
<1>3. n \in Nat /\ queues' \in [PeerConns -> Seq(Nat)]
  BY <1>1, <1>2
<1>4. /\ rec \in PeerConn /\ rec.at = conns[c].at /\ rec.from = conns[c].from
      /\ rec.told = conns[c].told /\ rec.credit = conns[c].credit /\ rec.heard = conns[c].heard
  <2> HIDE DEF n
  <2> QED
    BY <1>1, <1>3 DEF PeerConn
<1>5. conns' = [conns EXCEPT ![c] = rec]
  BY <1>1, <1>2
<1> HIDE DEF rec
<1> QED
  BY <1>1, <1>2, <1>3, <1>4, <1>5, PeerKeepsPort

LEMMA TakenOffKeepsPort ==
    ASSUME PortInv, NEW c \in PeerConns, TakenOff(c)
    PROVE  PortInv'
<1> DEFINE old == conns[c]
           no == FALSE
           heard == old.heard + (IF old.first THEN 0 ELSE old.taken)
           credit == IF old.first THEN old.credit ELSE Least(old.credit + Ratio * old.taken, MostCredit)
           mid == [[old EXCEPT !.taken = 0] EXCEPT !.first = no]
           rec == [[mid EXCEPT !.heard = heard] EXCEPT !.credit = credit]
<1>1. /\ conns \in [PeerConns -> PeerConn] /\ queues \in [PeerConns -> Seq(Nat)]
      /\ peers \in [Addresses -> PeerConns \cup {NoPeer}]
      /\ old.told + old.credit <= Allowance + Ratio * old.heard
      /\ old \in PeerConn
  BY DEF PortInv, PortTypes, CreditEarned
<1>2. /\ conns' = [conns EXCEPT ![c].taken = 0, ![c].first = FALSE,
                      ![c].heard = @ + (IF conns[c].first THEN 0 ELSE conns[c].taken),
                      ![c].credit = IF conns[c].first THEN @
                                    ELSE Least(@ + Ratio * conns[c].taken, MostCredit)]
      /\ UNCHANGED <<desk, peers, queues>>
  BY DEF TakenOff
<1>3. conns' = [conns EXCEPT ![c] = rec]
  BY <1>1, <1>2, Zenon DEF PeerConn
<1>4. /\ old.heard \in Nat /\ old.taken \in Nat /\ old.credit \in Nat /\ old.told \in Nat
  BY <1>1 DEF PeerConn
<1>5. /\ heard \in Nat /\ credit \in Nat
      /\ old.told + credit <= Allowance + Ratio * heard
  <2>1. CASE old.first
    BY <1>1, <1>4, <2>1
  <2>2. CASE ~old.first
    <3> DEFINE more == Ratio * old.taken
               was == Ratio * old.heard
    <3>1. more \in Nat /\ was \in Nat /\ Ratio * heard = was + more /\ heard \in Nat
      <4>1. heard = old.heard + old.taken
        BY <2>2
      <4>2. Ratio * (old.heard + old.taken) = Ratio * old.heard + Ratio * old.taken
            /\ Ratio * old.heard \in Nat /\ Ratio * old.taken \in Nat
        BY <1>4, Earns
      <4> HIDE DEF heard
      <4> QED
        BY <1>4, <4>1, <4>2
    <3>2. old.told + old.credit <= Allowance + was /\ Allowance \in Nat /\ MostCredit \in Nat
      BY <1>1, PeerNumbers
    <3>3. credit = Least(old.credit + more, MostCredit)
      BY <2>2
    <3> HIDE DEF more, was, heard, credit
    <3> QED
      BY <1>4, <3>1, <3>2, <3>3 DEF Least
  <2> QED
    BY <2>1, <2>2
<1>6. no \in BOOLEAN
  OBVIOUS
<1> HIDE DEF heard, credit, no
<1>7. /\ mid \in PeerConn /\ mid.at = old.at /\ mid.from = old.from /\ mid.told = old.told
  BY <1>1, <1>6 DEF PeerConn
<1> HIDE DEF mid
<1>8. /\ rec \in PeerConn /\ rec.at = old.at /\ rec.from = old.from /\ rec.told = old.told
      /\ rec.heard = heard /\ rec.credit = credit
  BY <1>5, <1>7 DEF PeerConn
<1> HIDE DEF rec
<1> QED
  BY <1>1, <1>2, <1>3, <1>5, <1>8, PeerKeepsPort

LEMMA RepliesKeepsPort ==
    ASSUME PortInv, NEW c \in PeerConns, NEW n \in Sizes, Replies(c, n)
    PROVE  PortInv'
<1> DEFINE old == conns[c]
           mid == [old EXCEPT !.credit = old.credit - n]
           rec == [mid EXCEPT !.told = old.told + n]
<1>1. /\ conns \in [PeerConns -> PeerConn] /\ queues \in [PeerConns -> Seq(Nat)]
      /\ peers \in [Addresses -> PeerConns \cup {NoPeer}]
      /\ old.told + old.credit <= Allowance + Ratio * old.heard
      /\ old \in PeerConn /\ n \in Nat
  BY PeerNumbers DEF PortInv, PortTypes, CreditEarned
<1>2. /\ old.at = "running" /\ n <= old.credit
      /\ conns' = [conns EXCEPT ![c].credit = @ - n, ![c].told = @ + n]
      /\ UNCHANGED <<desk, peers, queues>>
  BY DEF Replies
<1>3. conns' = [conns EXCEPT ![c] = rec]
  BY <1>1, <1>2, Zenon DEF PeerConn
<1>4. old.credit \in Nat /\ old.told \in Nat /\ old.credit - n \in Nat /\ old.told + n \in Nat
  BY <1>1, <1>2 DEF PeerConn
<1>5. /\ mid \in PeerConn /\ mid.at = old.at /\ mid.from = old.from /\ mid.heard = old.heard
      /\ mid.credit = old.credit - n
  BY <1>1, <1>4 DEF PeerConn
<1> HIDE DEF mid
<1>6. /\ rec \in PeerConn /\ rec.at = old.at /\ rec.from = old.from /\ rec.heard = old.heard
      /\ rec.credit = old.credit - n /\ rec.told = old.told + n
  BY <1>4, <1>5 DEF PeerConn
<1> HIDE DEF rec
<1>7. rec.told + rec.credit <= Allowance + Ratio * rec.heard
  <2>1. rec.told + rec.credit = old.told + old.credit
    BY <1>1, <1>4, <1>6
  <2> QED
    BY <1>1, <1>6, <2>1
<1> QED
  BY <1>1, <1>2, <1>3, <1>6, <1>7, PeerKeepsPort

-----------------------------------------------------------------------------

LEMMA PeersInitInv ==
    ASSUME PeersInit
    PROVE  PortInv
<1>1. /\ desk = Nothing /\ peers = [a \in Addresses |-> NoPeer] /\ queues = [c \in PeerConns |-> <<>>]
      /\ conns = [c \in PeerConns |-> Unopened]
  BY DEF PeersInit
<1>2. PortTypes
  BY <1>1, NothingIs, UnopenedIs DEF PortTypes
<1>3. \A c \in PeerConns : \A a : ~Serves(c, a)
  BY <1>1, UnopenedIs DEF Serves
<1>4. CreditEarned
  <2>1. Unopened.told + Unopened.credit = 0 /\ Unopened.heard = 0
    BY DEF Unopened
  <2>2. 0 <= Allowance + Ratio * 0
    BY PeerNumbers
  <2> QED
    BY <1>1, <2>1, <2>2 DEF CreditEarned
<1> QED
  BY <1>1, <1>2, <1>3, <1>4, NothingIs DEF PortInv, DeskIsRight, FoundByAddress

LEMMA PeersNextInv ==
    ASSUME PortInv, [PeersNext]_peersVars
    PROVE  PortInv'
<1>1. CASE UNCHANGED peersVars
  BY <1>1 DEF peersVars, PortInv, PortTypes, DeskIsRight, FoundByAddress, CreditEarned, Serves
<1>2. ASSUME NEW c \in PeerConns,
             \/ Connects(c) \/ Takes(c) \/ TakenOff(c) \/ StopsTaking(c) \/ DropsQueue(c) \/ Removes(c)
             \/ \E n \in Sizes : Replies(c, n)
      PROVE  PortInv'
  BY <1>2, GoesKeepsPort, TakesKeepsPort, TakenOffKeepsPort, RepliesKeepsPort
<1> QED
  BY <1>1, <1>2, LoopKeepsPort, OpensPeerKeepsPort DEF PeersNext

\* What holds of a mapped UDP port's loop and connections.
THEOREM PortInvariance == PeersSpec => []PortInv
<1>1. PeersInit => PortInv
  BY PeersInitInv
<1>2. PortInv /\ [PeersNext]_peersVars => PortInv'
  BY PeersNextInv
<1> QED
  BY <1>1, <1>2, PTL DEF PeersSpec

\* Between a look at `peers` and what the loop does of it connections end and
\* remove their entries; yet one that takes datagrams is always the one its
\* address is looked up by (udp.rs, serve, open_peer and the end of a peer).
THEOREM NewestFound == PeersSpec => []NewestIsFound
<1>1. PortInv => NewestIsFound
  BY DEF PortInv, PortTypes, PeerConn, FoundByAddress, NewestIsFound, Serves
<1> QED
  BY <1>1, PortInvariance, PTL

\* A remote is sent no more than the allowance and Ratio bytes for each it sent,
\* whatever order datagrams, replies and ends come in (udp.rs, the credit).
THEOREM TellsAsEarned == PeersSpec => []RepliesEarned
<1>1. PortInv => RepliesEarned
  <2>1. SUFFICES ASSUME PortInv, NEW c \in PeerConns
                 PROVE  conns[c].told <= Allowance + Ratio * conns[c].heard
    BY DEF RepliesEarned
  <2>2. conns[c] \in PeerConn /\ conns[c].told + conns[c].credit <= Allowance + Ratio * conns[c].heard
    BY <2>1 DEF PortInv, PortTypes, CreditEarned
  <2>3. conns[c].told \in Nat /\ conns[c].credit \in Nat /\ Ratio * conns[c].heard \in Nat /\ Allowance \in Nat
    BY <2>2, Earns, PeerNumbers DEF PeerConn
  <2> QED
    BY <2>2, <2>3
<1> QED
  BY <1>1, PortInvariance, PTL

-----------------------------------------------------------------------------
(* What is counted of a port.                                                 *)

WaitFor == [c \in PeerConns |-> WaitsFor(c)]

Between == IF desk.at = "counted" THEN desk.len ELSE 0

\* Only one that runs has a datagram off its queue, and one that is left has none
\* in it.
TakesWhileRunning ==
    \A c \in PeerConns :
        /\ conns[c].taken # 0 => conns[c].at = "running"
        /\ conns[c].at = "left" => queues[c] = <<>>

CountInv == TakesWhileRunning /\ WaitingIsQueued

WaitTypes ==
    /\ IsFiniteSet(PeerConns) /\ WaitFor \in [PeerConns -> Nat] /\ Total(WaitFor, PeerConns) \in Nat
    /\ Between \in Nat
    /\ \A c \in PeerConns : WaitsFor(c) \in Nat /\ Bytes(queues[c]) \in Nat /\ conns[c].taken \in Nat

LEMMA WaitsType == PortTypes => WaitTypes
<1> SUFFICES ASSUME PortTypes PROVE WaitTypes
  OBVIOUS
<1>1. IsFiniteSet(PeerConns)
  BY PeersAssumption, FS_Interval DEF PeerConns
<1>2. \A c \in PeerConns : Bytes(queues[c]) \in Nat /\ conns[c].taken \in Nat
  BY BytesType DEF PortTypes, PeerConn
<1>3. \A c \in PeerConns : WaitsFor(c) \in Nat
  BY <1>2 DEF WaitsFor
<1>4. WaitFor \in [PeerConns -> Nat]
  BY <1>3 DEF WaitFor
<1>5. Between \in Nat
  BY DEF PortTypes, Between
<1> QED
  BY <1>1, <1>2, <1>3, <1>4, <1>5, TotalType DEF WaitTypes

LEMMA WaitsTypeNext == PortTypes' => WaitTypes'
BY WaitsType, PTL

\* The count follows what waits for one connection and what is between.
LEMMA CountFollows ==
    ASSUME PortTypes, PortTypes', WaitingIsQueued, NEW c \in PeerConns,
           \A d \in PeerConns \ {c} : WaitsFor(d)' = WaitsFor(d),
           waiting' = waiting + (WaitsFor(c)' - WaitsFor(c)) + (Between' - Between)
    PROVE  WaitingIsQueued'
<1>1. /\ WaitFor \in [PeerConns -> Nat] /\ WaitFor' \in [PeerConns -> Nat] /\ IsFiniteSet(PeerConns)
      /\ Between \in Nat /\ Between' \in Nat
      /\ WaitsFor(c) \in Nat /\ WaitsFor(c)' \in Nat
  BY WaitsType, WaitsTypeNext DEF WaitTypes
<1>2. /\ WaitFor[c] = WaitsFor(c) /\ WaitFor'[c] = WaitsFor(c)'
      /\ \A d \in PeerConns \ {c} : WaitFor'[d] = WaitFor[d]
  BY DEF WaitFor
<1>3. /\ Total(WaitFor, PeerConns) \in Nat /\ Total(WaitFor', PeerConns) \in Nat
      /\ Total(WaitFor', PeerConns) = Total(WaitFor, PeerConns) - WaitFor[c] + WaitFor'[c]
  BY <1>1, <1>2, TotalChanges
<1>4. waiting = Total(WaitFor, PeerConns) + Between
  BY DEF WaitingIsQueued, WaitFor, Between
<1>5. waiting' = Total(WaitFor', PeerConns) + Between'
  BY <1>1, <1>2, <1>3, <1>4
<1> QED
  BY <1>5 DEF WaitingIsQueued, WaitFor, Between

\* Where no connection's queue changes.
LEMMA CountStays ==
    ASSUME PortTypes, PortTypes', WaitingIsQueued, UNCHANGED <<conns, queues>>,
           waiting' = waiting + (Between' - Between)
    PROVE  WaitingIsQueued'
<1>1. WaitFor' = WaitFor
  BY DEF WaitFor, WaitsFor
<1>2. waiting = Total(WaitFor, PeerConns) + Between
  BY DEF WaitingIsQueued, WaitFor, Between
<1>3. Total(WaitFor, PeerConns) \in Nat /\ Between \in Nat /\ Between' \in Nat
  BY WaitsType, WaitsTypeNext DEF WaitTypes
<1>4. waiting' = Total(WaitFor, PeerConns) + Between'
  BY <1>2, <1>3
<1> QED
  BY <1>1, <1>4 DEF WaitingIsQueued, WaitFor, Between

\* A datagram is counted before it is queued, and off the count if it is not.
LEMMA LoopCounts ==
    ASSUME PortInv, CountInv, PortTypes',
           Counted \/ Queued \/ Admits \/ \E a \in Addresses, n \in Sizes : Comes(a, n)
    PROVE  CountInv'
<1>1. UNCHANGED conns /\ PortTypes /\ desk.len \in Nat /\ waiting \in Nat
  <2>1. waiting = Total(WaitFor, PeerConns) + Between
    BY DEF CountInv, WaitingIsQueued, WaitFor, Between
  <2>2. PortTypes
    BY DEF PortInv
  <2>3. waiting \in Nat
    BY <2>1, <2>2, WaitsType DEF WaitTypes
  <2>4. desk.len \in Nat
    BY <2>2 DEF PortTypes
  <2>5. UNCHANGED conns
    BY DEF Counted, Queued, Admits, Comes
  <2> QED
    BY <2>2, <2>3, <2>4, <2>5
<1>2. Nothing.at = "idle" /\ Nothing.len = 0
  BY DEF Nothing
<1>3. CASE UNCHANGED queues
  <2>1. waiting' = waiting + (Between' - Between)
    <3>1. CASE Counted
      <4>1. desk.at = "known" /\ Between = 0
        BY <3>1 DEF Counted, Between
      <4>2. CASE desk' = Nothing /\ UNCHANGED waiting
        BY <1>1, <1>2, <4>1, <4>2 DEF Between
      <4>3. CASE desk' = [desk EXCEPT !.at = "counted"] /\ waiting' = waiting + desk.len
        <5>1. desk'.at = "counted" /\ desk'.len = desk.len
          BY <1>1, <4>3 DEF PortTypes
        <5> QED
          BY <1>1, <4>1, <4>3, <5>1 DEF Between
      <4> QED
        BY <3>1, <4>2, <4>3 DEF Counted
    <3>2. CASE Queued
      <4>1. desk.at = "counted" /\ desk'.at # "counted" /\ waiting' = waiting - desk.len
        <5>1. desk.at = "counted"
          BY <3>2 DEF Queued
        <5>2. desk.known \in PeerConns
          BY <5>1 DEF PortInv, DeskIsRight
        <5>3. queues[desk.known] \in Seq(Nat)
          BY <1>1, <5>2 DEF PortTypes
        <5>4. Append(queues[desk.known], desk.len) # queues[desk.known]
          <6>1. Len(Append(queues[desk.known], desk.len)) = Len(queues[desk.known]) + 1 /\ Len(queues[desk.known]) \in Nat
            BY <1>1, <5>3
          <6> QED
            BY <6>1
        <5>5. queues' # [queues EXCEPT ![desk.known] = Append(@, desk.len)]
          BY <1>1, <1>3, <5>2, <5>4 DEF PortTypes
        <5> QED
          BY <1>1, <1>2, <3>2, <5>1, <5>5 DEF Queued, PortTypes
      <4> QED
        BY <1>1, <4>1 DEF Between
    <3>3. CASE Admits
      BY <1>1, <1>2, <3>3 DEF Admits, Between, PortTypes
    <3>4. CASE \E a \in Addresses, n \in Sizes : Comes(a, n)
      BY <1>1, <1>2, <3>4 DEF Comes, Between, PortTypes
    <3> QED
      BY <3>1, <3>2, <3>3, <3>4
  <2>2. TakesWhileRunning'
    BY <1>1, <1>3 DEF CountInv, TakesWhileRunning
  <2> QED
    BY <1>1, <1>3, <2>1, <2>2, CountStays DEF CountInv
<1>4. CASE ~(UNCHANGED queues)
  <2>0. PICK c : c = desk.known
    OBVIOUS
  <2>1. /\ desk.at = "counted" /\ Open(c)
        /\ queues' = [queues EXCEPT ![c] = Append(@, desk.len)]
        /\ desk' = Nothing /\ waiting' = waiting
    BY <1>4, <2>0 DEF Counted, Queued, Admits, Comes
  <2>2. c \in PeerConns
    BY <2>0, <2>1 DEF PortInv, DeskIsRight
  <2>3. /\ queues[c] \in Seq(Nat) /\ queues'[c] = Append(queues[c], desk.len)
        /\ \A d \in PeerConns \ {c} : queues'[d] = queues[d]
    BY <1>1, <2>1, <2>2 DEF PortTypes
  <2>4. conns[c].at \notin {"none", "done", "left"}
    BY <2>1 DEF Open
  <2>5. WaitsFor(c)' = WaitsFor(c) + desk.len
    <3>1. Bytes(queues'[c]) = Bytes(queues[c]) + desk.len
      BY <1>1, <2>1, <2>3, BytesAppended
    <3> QED
      BY <1>1, <2>1, <2>2, <2>4, <3>1, WaitsType DEF WaitsFor, WaitTypes
  <2>6. \A d \in PeerConns \ {c} : WaitsFor(d)' = WaitsFor(d)
    BY <1>1, <2>1, <2>3 DEF WaitsFor
  <2>7. Between = desk.len /\ Between' = 0
    BY <1>2, <2>1 DEF Between
  <2>8. WaitsFor(c) \in Nat
    BY <1>1, <2>2, WaitsType, WaitsTypeNext DEF WaitTypes
  <2>9. waiting' = waiting + (WaitsFor(c)' - WaitsFor(c)) + (Between' - Between)
    BY <1>1, <2>1, <2>5, <2>7, <2>8
  <2>10. TakesWhileRunning'
    BY <1>1, <2>3, <2>4 DEF CountInv, TakesWhileRunning
  <2> QED
    BY <1>1, <2>2, <2>6, <2>9, <2>10, CountFollows DEF CountInv
<1> QED
  BY <1>3, <1>4

\* A step of a connection's task, or of the loop that opens it.
LEMMA PeerCounts ==
    ASSUME PortInv, CountInv, PortTypes', NEW c \in PeerConns, NEW rec, NEW q \in Seq(Nat),
           conns' = [conns EXCEPT ![c] = rec],
           queues' = [queues EXCEPT ![c] = q],
           rec.taken # 0 => rec.at = "running",
           rec.at = "left" => q = <<>>,
           waiting' = waiting + (Between' - Between)
                      + (IF rec.at \in {"none", "done"} THEN 0 ELSE Bytes(q) + rec.taken) - WaitsFor(c)
    PROVE  CountInv'
<1>1. /\ conns'[c] = rec /\ queues'[c] = q
      /\ \A d \in PeerConns \ {c} : conns'[d] = conns[d] /\ queues'[d] = queues[d]
      /\ PortTypes
  BY DEF PortInv, PortTypes
<1>2. WaitsFor(c)' = (IF rec.at \in {"none", "done"} THEN 0 ELSE Bytes(q) + rec.taken)
  BY <1>1 DEF WaitsFor
<1>3. \A d \in PeerConns \ {c} : WaitsFor(d)' = WaitsFor(d)
  BY <1>1 DEF WaitsFor
<1>4. waiting \in Nat
  <2>1. waiting = Total(WaitFor, PeerConns) + Between
    BY DEF CountInv, WaitingIsQueued, WaitFor, Between
  <2> QED
    BY <1>1, <2>1, WaitsType DEF WaitTypes
<1>5. WaitsFor(c) \in Nat /\ WaitsFor(c)' \in Nat /\ Between \in Nat /\ Between' \in Nat
  BY <1>1, WaitsType, WaitsTypeNext DEF WaitTypes
<1>6. waiting' = waiting + (WaitsFor(c)' - WaitsFor(c)) + (Between' - Between)
  <2>1. waiting' = waiting + (Between' - Between) + WaitsFor(c)' - WaitsFor(c)
    BY <1>2
  <2> QED
    BY <1>4, <1>5, <2>1
<1>7. TakesWhileRunning'
  BY <1>1 DEF CountInv, TakesWhileRunning
<1> QED
  BY <1>1, <1>3, <1>6, <1>7, CountFollows DEF CountInv

LEMMA WaitingNat ==
    ASSUME PortInv, CountInv
    PROVE  PortTypes /\ waiting \in Nat /\ Between \in Nat
<1>1. waiting = Total(WaitFor, PeerConns) + Between
  BY DEF CountInv, WaitingIsQueued, WaitFor, Between
<1>2. PortTypes
  BY DEF PortInv
<1> QED
  BY <1>1, <1>2, WaitsType DEF WaitTypes

\* A connection opened has one datagram, and it is counted.
LEMMA OpensPeerCounts ==
    ASSUME PortInv, CountInv, PortTypes', OpensPeer
    PROVE  CountInv'
<1> DEFINE q == <<desk.len>>
<1>1. PICK c \in PeerConns :
         /\ \A d \in PeerConns : conns[d].at = "none" <=> d >= c
         /\ conns' = [conns EXCEPT ![c] = [Unopened EXCEPT !.at = "opening", !.from = desk.from,
                                            !.heard = desk.len,
                                            !.credit = Allowance + Ratio * desk.len]]
         /\ queues' = [queues EXCEPT ![c] = q]
  BY DEF OpensPeer
<1> DEFINE rec == [Unopened EXCEPT !.at = "opening", !.from = desk.from, !.heard = desk.len,
                                   !.credit = Allowance + Ratio * desk.len]
<1>2. rec.taken = 0 /\ rec.at = "opening"
  BY DEF Unopened
<1>3. desk.at = "admitted" /\ desk' = Nothing /\ waiting' = waiting + desk.len
  BY DEF OpensPeer
<1>4. Between = 0 /\ Between' = 0
  BY <1>3 DEF Between, Nothing
<1>5. desk.len \in Nat /\ waiting \in Nat
  BY WaitingNat DEF PortTypes
<1>6. conns[c].at = "none"
  BY <1>1, PeerNumbers
<1>7. WaitsFor(c) = 0
  BY <1>6 DEF WaitsFor
<1>8. q \in Seq(Nat) /\ Bytes(q) = desk.len
  <2>1. Append(<<>>, desk.len) = q /\ <<>> \in Seq(Nat)
    BY <1>5
  <2>2. Bytes(Append(<<>>, desk.len)) = Bytes(<<>>) + desk.len
    BY <1>5, <2>1, BytesAppended
  <2> QED
    BY <1>5, <2>1, <2>2, BytesOfNone
<1>9. conns' = [conns EXCEPT ![c] = rec] /\ queues' = [queues EXCEPT ![c] = q]
  BY <1>1
<1> HIDE DEF rec, q
<1>10. waiting' = waiting + (Between' - Between)
                  + (IF rec.at \in {"none", "done"} THEN 0 ELSE Bytes(q) + rec.taken) - WaitsFor(c)
  BY <1>2, <1>3, <1>4, <1>5, <1>7, <1>8
<1> QED
  BY <1>2, <1>8, <1>9, <1>10, PeerCounts

\* What is dropped with a queue is off the count, and nothing else is.
LEMMA GoesCounts ==
    ASSUME PortInv, CountInv, PortTypes', NEW c \in PeerConns,
           Connects(c) \/ StopsTaking(c) \/ DropsQueue(c) \/ Removes(c)
    PROVE  CountInv'
<1>1. /\ conns \in [PeerConns -> PeerConn] /\ queues \in [PeerConns -> Seq(Nat)]
      /\ conns[c] \in PeerConn /\ queues[c] \in Seq(Nat) /\ Bytes(queues[c]) \in Nat /\ waiting \in Nat
  BY WaitingNat, WaitsType DEF PortTypes, WaitTypes
<1>2. conns[c].taken = 0
  BY DEF CountInv, TakesWhileRunning, Connects, StopsTaking, DropsQueue, Removes, Becomes
<1>3. Between' = Between /\ Between \in Nat
  BY WaitingNat DEF Connects, StopsTaking, DropsQueue, Removes, Between
<1>4. conns[c].at \notin {"none", "done"}
  BY DEF Connects, StopsTaking, DropsQueue, Removes, Becomes
<1>5. WaitsFor(c) = Bytes(queues[c])
  BY <1>1, <1>2, <1>4 DEF WaitsFor
<1>6. PICK s \in {"running", "refused", "closing", "left", "dropping", "done"}, q \in {queues[c], <<>>} :
         /\ conns' = [conns EXCEPT ![c].at = s]
         /\ queues' = [queues EXCEPT ![c] = q]
         /\ s = "left" => q = <<>>
         /\ s = "done" => q = <<>>
         /\ waiting' = waiting - Bytes(queues[c]) + Bytes(q)
  <2>1. CASE Connects(c) \/ StopsTaking(c) \/ (Removes(c) /\ conns[c].at = "refused")
    <3>1. /\ UNCHANGED <<queues, waiting>>
          /\ \E s \in {"running", "refused", "closing", "dropping"} : conns' = [conns EXCEPT ![c].at = s]
      BY <2>1 DEF Connects, StopsTaking, Removes, Becomes
    <3>2. queues' = [queues EXCEPT ![c] = queues[c]] /\ waiting' = waiting - Bytes(queues[c]) + Bytes(queues[c])
      BY <1>1, <3>1
    <3> QED
      BY <3>1, <3>2
  <2>2. CASE DropsQueue(c)
    <3>1. waiting' = waiting - Bytes(queues[c]) + Bytes(<<>>)
      BY <1>1, <2>2, BytesOfNone DEF DropsQueue
    <3> QED
      BY <2>2, <3>1 DEF DropsQueue, Becomes
  <2>3. CASE Removes(c) /\ conns[c].at # "refused"
    <3>1. conns[c].at = "left" /\ conns' = [conns EXCEPT ![c].at = "done"] /\ UNCHANGED <<queues, waiting>>
      BY <2>3 DEF Removes, Becomes
    <3>2. queues[c] = <<>>
      BY <3>1 DEF CountInv, TakesWhileRunning
    <3>3. queues' = [queues EXCEPT ![c] = queues[c]] /\ waiting' = waiting - Bytes(queues[c]) + Bytes(queues[c])
      BY <1>1, <3>1
    <3> QED
      BY <3>1, <3>2, <3>3
  <2> QED
    BY <2>1, <2>2, <2>3
<1> DEFINE rec == [conns[c] EXCEPT !.at = s]
<1>7. conns' = [conns EXCEPT ![c] = rec] /\ rec.at = s /\ rec.taken = 0
  BY <1>1, <1>2, <1>6 DEF PeerConn
<1>8. q \in Seq(Nat) /\ Bytes(q) \in Nat
  <2>1. q \in Seq(Nat)
    <3>1. q = queues[c] \/ q = <<>>
      OBVIOUS
    <3>2. <<>> \in Seq(Nat)
      OBVIOUS
    <3> HIDE DEF rec
    <3> QED
      BY <1>1, <3>1, <3>2
  <2> QED
    BY <2>1, BytesType
<1> HIDE DEF rec
<1>9. waiting' = waiting + (Between' - Between)
                 + (IF rec.at \in {"none", "done"} THEN 0 ELSE Bytes(q) + rec.taken) - WaitsFor(c)
  BY <1>1, <1>3, <1>5, <1>6, <1>7, <1>8, BytesOfNone
<1> QED
  BY <1>6, <1>7, <1>8, <1>9, PeerCounts

\* A datagram taken is off its queue, then off the count.
LEMMA TakesCounts ==
    ASSUME PortInv, CountInv, PortTypes', NEW c \in PeerConns,
           Takes(c) \/ TakenOff(c) \/ \E n \in Sizes : Replies(c, n)
    PROVE  CountInv'
<1>1. /\ conns \in [PeerConns -> PeerConn] /\ queues \in [PeerConns -> Seq(Nat)]
      /\ conns[c] \in PeerConn /\ queues[c] \in Seq(Nat) /\ Bytes(queues[c]) \in Nat /\ waiting \in Nat
      /\ conns[c].taken \in Nat
  BY WaitingNat, WaitsType DEF PortTypes, WaitTypes
<1>2. Between' = Between /\ Between \in Nat
  BY WaitingNat DEF Takes, TakenOff, Replies, Between
<1>3. conns[c].at = "running"
  <2>1. conns[c].taken > 0 => conns[c].taken # 0
    BY <1>1
  <2> QED
    BY <2>1 DEF CountInv, TakesWhileRunning, Takes, TakenOff, Replies
<1>4. WaitsFor(c) = Bytes(queues[c]) + conns[c].taken
  BY <1>3 DEF WaitsFor
<1>5. conns' \in [PeerConns -> PeerConn]
  BY DEF PortTypes
<1> DEFINE rec == conns'[c]
<1>6. /\ conns' = [conns EXCEPT ![c] = rec] /\ rec.at = "running"
      /\ \/ /\ queues' = [queues EXCEPT ![c] = Tail(queues[c])] /\ UNCHANGED waiting
            /\ queues[c] # <<>> /\ conns[c].taken = 0 /\ rec.taken = Head(queues[c])
         \/ /\ UNCHANGED queues /\ waiting' = waiting - conns[c].taken /\ rec.taken = 0
         \/ /\ UNCHANGED <<queues, waiting>> /\ rec.taken = conns[c].taken
  <2>1. CASE Takes(c)
    BY <1>1, <1>3, <2>1 DEF Takes, PeerConn
  <2>2. CASE TakenOff(c)
    BY <1>1, <1>3, <2>2 DEF TakenOff, PeerConn
  <2>3. CASE \E n \in Sizes : Replies(c, n)
    <3>1. PICK n \in Sizes : Replies(c, n)
      BY <2>3
    <3> DEFINE mid == [conns[c] EXCEPT !.credit = conns[c].credit - n]
               new == [mid EXCEPT !.told = conns[c].told + n]
    <3>2. conns' = [conns EXCEPT ![c].credit = @ - n, ![c].told = @ + n] /\ UNCHANGED <<queues, waiting>>
      BY <3>1 DEF Replies
    <3>3. conns' = [conns EXCEPT ![c] = new]
      BY <1>1, <3>2, Zenon DEF PeerConn
    <3>4. new.at = conns[c].at /\ new.taken = conns[c].taken
      BY <1>1 DEF PeerConn
    <3> HIDE DEF new
    <3>5. rec = new
      BY <1>1, <3>3
    <3> QED
      BY <1>1, <1>3, <3>2, <3>3, <3>4, <3>5
  <2> QED
    BY <2>1, <2>2, <2>3
<1>7. PICK q \in Seq(Nat) : queues' = [queues EXCEPT ![c] = q] /\ waiting' = waiting + Bytes(q) + rec.taken - WaitsFor(c)
  <2>1. CASE queues' = [queues EXCEPT ![c] = Tail(queues[c])] /\ UNCHANGED waiting
             /\ queues[c] # <<>> /\ conns[c].taken = 0 /\ rec.taken = Head(queues[c])
    <3>1. /\ Bytes(queues[c]) = Head(queues[c]) + Bytes(Tail(queues[c])) /\ Head(queues[c]) \in Nat
          /\ Tail(queues[c]) \in Seq(Nat) /\ Bytes(Tail(queues[c])) \in Nat
      BY <1>1, <2>1, BytesOfRest
    <3> HIDE DEF rec
    <3>2. waiting' = waiting + Bytes(Tail(queues[c])) + rec.taken - WaitsFor(c)
      BY <1>1, <1>4, <2>1, <3>1
    <3> QED
      BY <2>1, <3>1, <3>2
  <2>2. CASE /\ UNCHANGED queues
             /\ \/ waiting' = waiting - conns[c].taken /\ rec.taken = 0
                \/ waiting' = waiting /\ rec.taken = conns[c].taken
    <3>1. queues' = [queues EXCEPT ![c] = queues[c]]
      BY <1>1, <2>2
    <3> HIDE DEF rec
    <3>2. waiting' = waiting + Bytes(queues[c]) + rec.taken - WaitsFor(c)
      BY <1>1, <1>4, <2>2
    <3> QED
      BY <1>1, <3>1, <3>2
  <2> HIDE DEF rec
  <2> QED
    BY <1>6, <2>1, <2>2
<1>8. rec.taken \in Nat /\ Bytes(q) \in Nat
  BY <1>5, BytesType DEF PeerConn
<1> HIDE DEF rec
<1>9. waiting' = waiting + (Between' - Between)
                 + (IF rec.at \in {"none", "done"} THEN 0 ELSE Bytes(q) + rec.taken) - WaitsFor(c)
  <2>1. (IF rec.at \in {"none", "done"} THEN 0 ELSE Bytes(q) + rec.taken) = Bytes(q) + rec.taken
    BY <1>6
  <2> QED
    BY <1>1, <1>2, <1>4, <1>7, <1>8, <2>1
<1> QED
  BY <1>6, <1>7, <1>9, PeerCounts

\* The counter of a mapped port is what waits in its queues and in hand, however
\* datagrams, refusals and ends interleave, of any lengths.
THEOREM CountInvariance == PeersSpec => [](PortInv /\ CountInv)
<1>1. PeersInit => PortInv /\ CountInv
  <2> SUFFICES ASSUME PeersInit PROVE PortInv /\ CountInv
    OBVIOUS
  <2>1. PortInv
    BY PeersInitInv
  <2>2. \A c \in PeerConns : conns[c] = Unopened
    BY DEF PeersInit
  <2>3. \A c \in PeerConns : WaitsFor(c) = 0
    BY <2>2 DEF WaitsFor, Unopened
  <2>4. Units(WaitFor, PeerConns) = {}
    <3>1. \A c \in PeerConns : WaitFor[c] = 0
      BY <2>3 DEF WaitFor
    <3> QED
      BY <3>1 DEF Units
  <2>5. Total(WaitFor, PeerConns) = 0 /\ Between = 0 /\ waiting = 0
    BY <2>4, FS_EmptySet DEF Total, Between, PeersInit, Nothing
  <2>6. WaitingIsQueued
    BY <2>5 DEF WaitingIsQueued, WaitFor, Between
  <2>7. TakesWhileRunning
    BY <2>2 DEF TakesWhileRunning, Unopened
  <2> QED
    BY <2>1, <2>6, <2>7 DEF CountInv
<1>2. (PortInv /\ CountInv) /\ [PeersNext]_peersVars => (PortInv /\ CountInv)'
  <2> SUFFICES ASSUME PortInv, CountInv, [PeersNext]_peersVars PROVE PortInv' /\ CountInv'
    OBVIOUS
  <2>1. PortInv' /\ PortTypes'
    BY PeersNextInv DEF PortInv
  <2>2. CASE UNCHANGED peersVars
    <3>1. UNCHANGED <<conns, queues, waiting, desk>>
      BY <2>2 DEF peersVars
    <3>2. TakesWhileRunning'
      BY <3>1 DEF CountInv, TakesWhileRunning
    <3>3. waiting' = waiting + (Between' - Between)
      BY <3>1, WaitingNat DEF Between
    <3> QED
      BY <2>1, <3>1, <3>2, <3>3, CountStays DEF CountInv, PortInv
  <2>3. ASSUME NEW c \in PeerConns,
               \/ Connects(c) \/ Takes(c) \/ TakenOff(c) \/ StopsTaking(c) \/ DropsQueue(c) \/ Removes(c)
               \/ \E n \in Sizes : Replies(c, n)
        PROVE  CountInv'
    BY <2>1, <2>3, GoesCounts, TakesCounts
  <2> QED
    BY <2>1, <2>2, <2>3, LoopCounts, OpensPeerCounts DEF PeersNext
<1> QED
  BY <1>1, <1>2, PTL DEF PeersSpec

\* What the loop and the connections of a port keep between them agrees with what
\* each has in hand: the counter of waiting bytes, the map of addresses, the credit
\* for replies (udp.rs).
THEOREM PortKept == PeersSpec => []PortAgrees
<1>1. PortInv /\ CountInv => WaitingIsQueued
  BY DEF CountInv
<1>2. NewestIsFound /\ RepliesEarned /\ WaitingIsQueued => PortAgrees
  BY DEF PortAgrees
<1> QED
  BY <1>1, <1>2, CountInvariance, NewestFound, TellsAsEarned, PTL
=============================================================================
