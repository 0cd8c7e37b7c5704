----------------------------- MODULE Residents -----------------------------
(***************************************************************************)
(* One app's resident instance, runtime/resident.rs: the threads started   *)
(* for it one after another, the events its connections deliver, and what  *)
(* stops or breaks an instance.  A connection is what                      *)
(* platform/connections.rs makes of it: connect, messages, close, one      *)
(* event at a time.                                                        *)
(***************************************************************************)
EXTENDS Integers, Sequences, FiniteSets

CONSTANTS Clients,      \* connections that may come, each once
          MaxInstances, \* max_instances: threads of the site at once
          Depth,        \* queue_depth
          Threads,      \* bound: threads ever started, 1..Threads
          Messages,     \* bound: messages of each client
          Deploys,      \* bound: handlers replaced, settings changed
          Failures      \* bound: calls that fail

ASSUME ResidentsAssumption ==
    /\ MaxInstances \in Nat
    /\ Depth \in Nat \ {0}
    /\ Threads \in Nat
    /\ Messages \in Nat
    /\ Deploys \in Nat
    /\ Failures \in Nat
    /\ "none" \notin Clients

VARIABLES declared, \* [resident] as the app's meta has it: 0 for none, else its settings
          handler,  \* the handler on disk, a number
          deploying,\* a deploy has written, and has yet to stop the instance
          deploys,
          current,  \* Entry.worker, 0 for none
          threads,  \* each thread and its Worker
          paused,   \* Backoff.retry_at is to come
          failures,
          client,   \* each connection
          stoppedFor \* history: the handler when a deploy last stopped the instance

residentsVars == <<declared, handler, deploying, deploys, current, threads, paused, failures, client,
                   stoppedFor>>
site == <<declared, handler, deploying, deploys, stoppedFor>>

Wake == [client |-> "none", event |-> "wake"]

NoThread == [phase |-> "none", settings |-> 0, stopped |-> FALSE, queue |-> <<>>, job |-> Wake,
             live |-> FALSE, code |-> 0, known |-> {}]

\* on: the thread whose instance accepted it, 0 for a fresh one or none.
NewClient == [life |-> "away", at |-> "rest", event |-> "none", meta |-> 0, to |-> 0,
              ok |-> FALSE, on |-> 0, said |-> 0, closing |-> FALSE]

Gone == [NewClient EXCEPT !.life = "gone"]

Delivery == [client : Clients, event : {"connect", "message", "close"}]

Thread == [phase : {"none", "idle", "call", "loaded", "run", "ending", "over"},
           settings : 0..(Deploys + 1), stopped : BOOLEAN,
           queue : Seq({Wake} \union Delivery), job : {Wake} \union Delivery,
           live : BOOLEAN, code : 0..(Deploys + 1), known : SUBSET Clients]

Connection == [life : {"away", "connecting", "open", "ended", "gone"},
               at : {"rest", "reads", "holds", "waits", "answered"},
               event : {"none", "connect", "message", "close"},
               meta : 0..(Deploys + 1), to : 0..Threads, ok : BOOLEAN,
               on : 0..Threads, said : 0..Messages, closing : BOOLEAN]

ResidentsTypeOK ==
    /\ declared \in 0..(Deploys + 1) /\ handler \in 1..(Deploys + 1)
    /\ deploying \in BOOLEAN /\ paused \in BOOLEAN
    /\ deploys \in 0..Deploys /\ failures \in 0..Failures
    /\ declared <= deploys + 1 /\ handler <= deploys + 1
    /\ current \in 0..Threads
    /\ threads \in [1..Threads -> Thread]
    /\ \A t \in 1..Threads : Len(threads[t].queue) <= Depth
    /\ client \in [Clients -> Connection]
    /\ stoppedFor \in 1..(Deploys + 1)

ResidentsInit ==
    /\ declared = 1
    /\ handler = 1
    /\ deploying = FALSE
    /\ deploys = 0
    /\ current = 0
    /\ threads = [t \in 1..Threads |-> NoThread]
    /\ paused = FALSE
    /\ failures = 0
    /\ client = [c \in Clients |-> NewClient]
    /\ stoppedFor = 1

Alive(t) == threads[t].phase \notin {"none", "over"}

\* Running: a thread's place is given back when the thread ends.
Places == {t \in 1..Threads : Alive(t)}

\* Worker::stop: the flag, and a nudge if the queue has room.
Stopped(t) ==
    [threads EXCEPT ![t].stopped = TRUE,
                    ![t].queue = IF Len(@) < Depth THEN Append(@, Wake) ELSE @]

-----------------------------------------------------------------------------
(* A connection's side: platform::connections::deliver, then               *)
(* Residents::deliver.                                                     *)

\* An answer comes: what the connection makes of the event it was about.
Answer(c, ok) == [client[c] EXCEPT !.at = "answered", !.ok = ok]

\* platform::connections::deliver reads the app's meta for each event.
Reads(c, event) ==
    /\ client[c].at = "rest"
    /\ \/ event = "connect" /\ client[c].life = "away"
       \/ event = "message" /\ client[c].life = "open" /\ client[c].said < Messages
       \/ event = "close" /\ client[c].life = "ended"
    /\ client' = [client EXCEPT ![c].at = "reads", ![c].event = event, ![c].meta = declared,
                                ![c].life = IF event = "connect" THEN "connecting" ELSE @,
                                ![c].said = IF event = "message" THEN @ + 1 ELSE @]
    /\ UNCHANGED <<site, current, threads, paused, failures>>

\* An app that is not resident: a fresh instance takes the event.
RunsFresh(c) ==
    /\ client[c].at = "reads"
    /\ client[c].meta = 0
    /\ \E ok \in BOOLEAN : client' = [client EXCEPT ![c] = Answer(c, ok)]
    /\ UNCHANGED <<site, current, threads, paused, failures>>

\* The worker was started with other settings than this event's.
Other(c) == current # 0 /\ threads[current].settings # client[c].meta

\* Mutant: it is let go of, and not told.
LeaveOther(c) == threads

StopOther(c) == IF Other(c) THEN Stopped(current) ELSE threads

Unused(t) == threads[t].phase = "none"

\* What the lock of `apps` covers.  Only a connect starts a thread.
Looks(c) ==
    LET kept == current # 0 /\ ~Other(c)
        starts == client[c].event = "connect" /\ Cardinality(Places) < MaxInstances
    IN  /\ client[c].at = "reads"
        /\ client[c].meta # 0
        /\ \/ /\ kept
              /\ client' = [client EXCEPT ![c].at = "holds", ![c].to = current]
              /\ UNCHANGED <<current, threads>>
           \/ /\ ~kept /\ ~starts
              /\ client' = [client EXCEPT ![c] = Answer(c, client[c].event = "close")]
              /\ current' = 0
              /\ threads' = StopOther(c)
           \/ /\ ~kept /\ starts
              /\ \E t \in 1..Threads :
                    /\ Unused(t) /\ \A u \in 1..Threads : Unused(u) => t <= u
                    /\ client' = [client EXCEPT ![c].at = "holds", ![c].to = t]
                    /\ current' = t
                    /\ threads' = [StopOther(c) EXCEPT ![t] =
                          [NoThread EXCEPT !.phase = "idle", !.settings = client[c].meta]]
        /\ UNCHANGED <<site, paused, failures>>

\* The lock is released: the event is queued, or refused by a full queue, or by
\* one whose thread is gone, which is forgotten if it is still the app's.
Queues(c) ==
    LET t == client[c].to
        gone == threads[t].phase = "over"
        full == ~gone /\ Len(threads[t].queue) = Depth
    IN  /\ client[c].at = "holds"
        /\ IF gone \/ full
           THEN client' = [client EXCEPT ![c] = Answer(c, FALSE)] /\ UNCHANGED threads
           ELSE /\ client' = [client EXCEPT ![c].at = "waits"]
                /\ threads' = [threads EXCEPT ![t].queue =
                                  Append(@, [client |-> c, event |-> client[c].event])]
        /\ current' = IF gone /\ current = t THEN 0 ELSE current
        /\ UNCHANGED <<site, paused, failures>>

\* The answer is acted on.  A message that was not handled closes the
\* connection; one told to close while it connected closes once it is accepted.
Hears(c) ==
    /\ client[c].at = "answered"
    /\ LET e == client[c].event
           ok == client[c].ok
           rests == [client[c] EXCEPT !.at = "rest", !.event = "none", !.meta = 0, !.to = 0, !.ok = FALSE]
       IN  client' = [client EXCEPT ![c] =
              IF e = "close" \/ (e = "connect" /\ ~ok) THEN Gone
              ELSE IF e = "connect" THEN [rests EXCEPT !.life = "open"]
              ELSE [rests EXCEPT !.closing = @ \/ (client[c].life = "open" /\ ~ok)]]
    /\ UNCHANGED <<site, current, threads, paused, failures>>

\* The client goes while its connect is asked about: the request is dropped, and
\* the event it queued stays queued.
GivesUp(c) ==
    /\ client[c].life = "connecting"
    /\ client' = [client EXCEPT ![c] = Gone]
    /\ UNCHANGED <<site, current, threads, paused, failures>>

\* The loop of an open connection ends: it was closed, or its peer went.
LoopEnds(c) ==
    /\ client[c].life = "open"
    /\ client' = [client EXCEPT ![c].life = "ended", ![c].closing = FALSE, ![c].on = 0]
    /\ UNCHANGED <<site, current, threads, paused, failures>>

-----------------------------------------------------------------------------
(* The thread's side.                                                      *)

\* Mutant: only connections that were accepted are told to close.
ClosedWhenOpen(cs) ==
    [c \in Clients |-> IF c \in cs /\ client[c].life = "open"
                       THEN [client[c] EXCEPT !.closing = TRUE] ELSE client[c]]

\* close_all: Hub::close of each; one still connecting is held until accepted.
Closed(cs) ==
    [c \in Clients |-> IF c \in cs /\ client[c].life \in {"connecting", "open"}
                       THEN [client[c] EXCEPT !.closing = TRUE] ELSE client[c]]

\* reply.send, to a client that still asks.
Replied(cl, job, ok) ==
    IF job.client # "none" /\ cl[job.client].at = "waits"
    THEN [cl EXCEPT ![job.client].at = "answered", ![job.client].ok = ok] ELSE cl

Reply(job, ok) == Replied(client, job, ok)

\* An event is received, and the flag looked at.
Receive(t) ==
    LET job == Head(threads[t].queue)
    IN  /\ threads[t].phase = "idle"
        /\ threads[t].queue # <<>>
        /\ threads' = [threads EXCEPT ![t].queue = Tail(@),
                                      ![t].job = IF threads[t].stopped THEN Wake ELSE job,
                                      ![t].phase = IF threads[t].stopped THEN "ending"
                                                   ELSE IF job = Wake THEN "idle" ELSE "call"]
        /\ client' = IF threads[t].stopped THEN Reply(job, FALSE) ELSE client
        /\ UNCHANGED <<site, current, paused, failures>>

\* Nobody is left to send.
ReceiveDisconnected(t) ==
    /\ threads[t].phase = "idle"
    /\ threads[t].queue = <<>>
    /\ current # t
    /\ ~ \E c \in Clients : client[c].at = "holds" /\ client[c].to = t
    /\ threads' = [threads EXCEPT ![t].phase = "ending"]
    /\ UNCHANGED <<site, current, paused, failures, client>>

Answers(t, th, ok) ==
    /\ threads' = [threads EXCEPT ![t] = [th EXCEPT !.phase = "idle", !.job = Wake]]
    /\ client' = Reply(threads[t].job, ok)

\* failed: the instance goes, what it knew is closed, and a pause begins.
Fails(t) ==
    /\ failures < Failures
    /\ failures' = failures + 1
    /\ paused' = TRUE
    /\ threads' = [threads EXCEPT ![t] = [@ EXCEPT !.phase = "idle", !.job = Wake, !.live = FALSE,
                                                   !.code = 0, !.known = {}]]
    /\ client' = Replied(Closed(threads[t].known), threads[t].job, FALSE)
    /\ UNCHANGED <<site, current>>

\* One the instance never saw.
Unknown(t) ==
    LET job == threads[t].job
    IN  /\ threads[t].phase = "call"
        /\ job.event # "connect" /\ job.client \notin threads[t].known
        /\ Answers(t, threads[t], job.event = "close")
        /\ UNCHANGED <<site, current, paused, failures>>

\* A connect where no instance is: the handler is read.  It is refused in the
\* pause after a failure, and where no handler is found.
LoadHandler(t) ==
    /\ threads[t].phase = "call"
    /\ threads[t].job.event = "connect"
    /\ ~threads[t].live
    /\ \/ Answers(t, threads[t], FALSE)
       \/ /\ ~paused
          /\ threads' = [threads EXCEPT ![t].phase = "loaded", ![t].code = handler]
          /\ UNCHANGED client
    /\ UNCHANGED <<site, current, paused, failures>>

\* ... and instantiated.
Instantiate(t) ==
    /\ threads[t].phase = "loaded"
    /\ \/ /\ threads' = [threads EXCEPT ![t].phase = "run", ![t].live = TRUE]
          /\ UNCHANGED <<site, current, paused, failures, client>>
       \/ Fails(t)

Enter(t) ==
    /\ threads[t].phase = "call"
    /\ threads[t].live
    /\ threads[t].job.event = "connect" \/ threads[t].job.client \in threads[t].known
    /\ threads' = [threads EXCEPT ![t].phase = "run"]
    /\ UNCHANGED <<site, current, paused, failures, client>>

\* The handler's call returns, or does not return in time.
Run(t) ==
    LET job == threads[t].job
        c == job.client
        now(ok) == [threads[t] EXCEPT !.known = IF job.event = "close" THEN @ \ {c}
                                                ELSE IF job.event = "connect" /\ ok THEN @ \union {c}
                                                ELSE @]
    IN  /\ threads[t].phase = "run"
        /\ \/ /\ \E ok \in (IF job.event = "connect" THEN BOOLEAN ELSE {TRUE}) :
                    /\ threads' = [threads EXCEPT ![t] = [now(ok) EXCEPT !.phase = "idle", !.job = Wake]]
                    /\ client' = LET heard == Reply(job, ok)
                                 IN  IF job.event = "connect" /\ ok /\ client[c].at = "waits"
                                     THEN [heard EXCEPT ![c].on = t] ELSE heard
              /\ UNCHANGED <<site, current, paused, failures>>
           \/ Fails(t)

\* on-tick fails.
TickFails(t) ==
    /\ threads[t].phase = "idle"
    /\ threads[t].live
    /\ Fails(t)

\* What it knew is closed, what is queued is dropped unanswered, its place is
\* given back.
ThreadEnds(t) ==
    LET dropped == {threads[t].queue[i].client : i \in 1..Len(threads[t].queue)}
        closed == Closed(threads[t].known)
    IN  /\ threads[t].phase = "ending"
        /\ threads' = [threads EXCEPT ![t] = [NoThread EXCEPT !.phase = "over"]]
        /\ client' = [c \in Clients |-> IF c \in dropped /\ closed[c].at = "waits"
                                        THEN [closed[c] EXCEPT !.at = "answered", !.ok = FALSE]
                                        ELSE closed[c]]
        /\ UNCHANGED <<site, current, paused, failures>>

PauseEnds ==
    /\ paused
    /\ paused' = FALSE
    /\ UNCHANGED <<site, current, threads, failures, client>>

-----------------------------------------------------------------------------
(* Deploys, one at a time under `declaring`: each writes, then stops.  One   *)
(* whose write is refused, or whose caller goes, lets go without stopping.    *)

Deploy ==
    /\ deploys < Deploys
    /\ deploys' = deploys + 1
    /\ UNCHANGED <<current, threads, paused, failures, client, stoppedFor>>

Begins ==
    /\ Deploy
    /\ ~deploying
    /\ deploying' = TRUE

ReplaceHandler ==
    /\ Begins
    /\ handler' = handler + 1
    /\ UNCHANGED declared

\* The manifest's [resident] changes, or goes.
DeclareOtherwise ==
    /\ Begins
    /\ \E settings \in {0, declared + 1} \ {declared} : declared' = settings
    /\ UNCHANGED handler

\* The handler may be written and its count refused, or either call dropped
\* with the caller's request.
DeployBreaksOff ==
    /\ deploying
    /\ deploying' = FALSE
    /\ UNCHANGED <<declared, handler, deploys, current, threads, paused, failures, client, stoppedFor>>

\* The write of a deploy dropped before is under way still, and lands.
DroppedWriteLands ==
    /\ Deploy
    /\ handler' = handler + 1
    /\ UNCHANGED <<declared, deploying>>

\* Mutant: a thread that has yet to start its instance is taken for none.
StopLive ==
    /\ current' = 0
    /\ threads' = IF current # 0 /\ threads[current].live THEN Stopped(current) ELSE threads

Stop ==
    /\ current' = 0
    /\ threads' = IF current # 0 THEN Stopped(current) ELSE threads

StopsAfter ==
    /\ deploying
    /\ deploying' = FALSE
    /\ stoppedFor' = handler
    /\ Stop
    /\ UNCHANGED <<declared, handler, deploys, paused, failures, client>>

-----------------------------------------------------------------------------

ResidentsNext ==
    \/ \E c \in Clients :
          \/ \E event \in {"connect", "message", "close"} : Reads(c, event)
          \/ RunsFresh(c) \/ Looks(c) \/ Queues(c) \/ Hears(c) \/ GivesUp(c) \/ LoopEnds(c)
    \/ \E t \in 1..Threads :
          \/ Receive(t) \/ ReceiveDisconnected(t) \/ Unknown(t) \/ LoadHandler(t) \/ Instantiate(t)
          \/ Enter(t) \/ Run(t) \/ TickFails(t) \/ ThreadEnds(t)
    \/ PauseEnds \/ ReplaceHandler \/ DeclareOtherwise \/ StopsAfter
    \/ DeployBreaksOff \/ DroppedWriteLands

ResidentsSpec == ResidentsInit /\ [][ResidentsNext]_residentsVars

-----------------------------------------------------------------------------

\* resident.rs:20-25: a connection an instance accepted stays open only while
\* that instance lives and knows it, whatever fails, is stopped or is deployed
\* while it connects; otherwise it has been told to close.
OpenIsKnown ==
    \A c \in Clients :
        client[c].life = "open" /\ client[c].on # 0 /\ ~client[c].closing =>
            threads[client[c].on].live /\ c \in threads[client[c].on].known

\* upload.rs:511, "A resident instance runs the code that was replaced": no
\* instance that nobody has stopped runs a handler older than the one that was
\* there when a deploy was last done, whatever was being started meanwhile and
\* whatever deploys broke off since.  One that breaks off after its write leaves
\* the instance with the handler it has, until it stops or another is done.
RunsTheHandler ==
    \A t \in 1..Threads :
        Alive(t) /\ ~threads[t].stopped /\ threads[t].live => threads[t].code >= stoppedFor

\* A thread that nobody has stopped is the one the next stop will find.
StopFindsIt ==
    \A t \in 1..Threads : Alive(t) /\ ~threads[t].stopped => t = current
=============================================================================
