------------------------------ MODULE Sockets ------------------------------
(***************************************************************************)
(* One app's live connections: the registry of runtime/connections.rs, and *)
(* the loop and the worker platform/connections.rs runs for each.  The app *)
(* keeps one topic; its connect handler joins it, reads a snapshot of what *)
(* the topic tells of, and sends the snapshot.                             *)
(***************************************************************************)
EXTENDS Integers, Sequences, FiniteSets

CONSTANTS Conns,      \* connections that may come
          Tcp,        \* those over TCP; the others are WebSockets
          Queue,      \* QUEUE: frames that may wait for one connection
          EventQueue, \* EVENT_QUEUE: events that may wait for its handler
          HeldQueue,  \* HELD_QUEUE: the same where the transport holds back
          MostHere,       \* the app's ceiling on connections
          Comers,     \* bound: connections that come
          Publishes,  \* bound
          Frames      \* bound: frames each peer sends

ASSUME SocketsAssumption ==
    /\ "others" \notin Conns   \* who delivers what no connection's own handler sends
    /\ Tcp \subseteq Conns
    /\ Queue \in Nat \ {0}
    /\ EventQueue \in Nat \ {0}
    /\ HeldQueue \in Nat \ {0}
    /\ MostHere \in Nat
    /\ Comers \in Nat
    /\ Publishes \in Nat
    /\ Frames \in Nat

VARIABLES hidden,    \* the app is hidden
          published, \* what the topic told of so far, each a number
          step,      \* how far each connection has come
          place,     \* the connections the registry holds
          joined,    \* those on the topic
          cut,       \* those whose sender was dropped for falling behind
          holding,   \* those whose connect event has not returned
          held,      \* what waits for that
          outbox,    \* what waits for the transport
          inHand,    \* the frame its connect event or its transport is about to send
          got,       \* history: what the peer was sent
          heard,     \* frames the peer has sent
          sawEnd,    \* the peer ended first: sender_done
          inbox,     \* events that wait for the handler
          worker     \* the event the handler is on

socketsVars == <<hidden, published, step, place, joined, cut, holding, held, outbox,
                 inHand, got, heard, sawEnd, inbox, worker>>
registry == <<place, joined, cut, holding, held, outbox>>

Snapshot(k) == [kind |-> "snapshot", upTo |-> k]
Told(n) == [kind |-> "told", upTo |-> n]
Goodbye == [kind |-> "close", upTo |-> 0]
NoFrame == <<>>

\* Steps of open, then of run's loop, then of its end.
Opening == {"admitted", "connecting", "joined", "read", "greeted", "accepted"}
Looping == {"select", "sending", "pinging", "parting"}
Ending == {"leaving", "waits", "drains", "drainSends", "drained", "flushes", "flushSends"}
SocketSteps == {"away", "over"} \union Opening \union Looping \union Ending

\* What may be sent.
Item == {Goodbye} \union {Snapshot(k) : k \in 0..Publishes} \union {Told(n) : n \in 1..Publishes}

SocketsTypeOK ==
    /\ hidden \in BOOLEAN
    /\ published \in 0..Publishes
    /\ step \in [Conns -> SocketSteps]
    /\ place \subseteq Conns
    /\ joined \subseteq place /\ cut \subseteq place /\ holding \subseteq place
    /\ {held, outbox, inHand, got} \subseteq [Conns -> Seq(Item)]
    /\ \A c \in Conns : Len(held[c]) <= Queue /\ Len(outbox[c]) <= Queue
    /\ heard \in [Conns -> 0..Frames]
    /\ sawEnd \in [Conns -> BOOLEAN]
    /\ inbox \in [Conns -> Seq({"message", "close"})]
    /\ worker \in [Conns -> {"none", "idle", "message", "close", "done"}]

SocketsInit ==
    /\ hidden = FALSE
    /\ published = 0
    /\ step = [c \in Conns |-> "away"]
    /\ place = {} /\ joined = {} /\ cut = {} /\ holding = {}
    /\ held = [c \in Conns |-> <<>>]
    /\ outbox = [c \in Conns |-> <<>>]
    /\ inHand = [c \in Conns |-> NoFrame]
    /\ got = [c \in Conns |-> <<>>]
    /\ heard = [c \in Conns |-> 0]
    /\ sawEnd = [c \in Conns |-> FALSE]
    /\ inbox = [c \in Conns |-> <<>>]
    /\ worker = [c \in Conns |-> "none"]

LoopGoes(c, from, to) == step[c] = from /\ step' = [step EXCEPT ![c] = to]

-----------------------------------------------------------------------------
(* The registry.                                                           *)

\* Hub::forget.  What is in the channel stays for its receiver.
Forget(c) ==
    /\ place' = place \ {c}
    /\ joined' = joined \ {c}
    /\ cut' = cut \ {c}
    /\ holding' = holding \ {c}
    /\ held' = [held EXCEPT ![c] = <<>>]

\* What its tasks held goes with them.
Over(c) ==
    /\ step' = [step EXCEPT ![c] = "over"]
    /\ outbox' = [outbox EXCEPT ![c] = <<>>]
    /\ inHand' = [inHand EXCEPT ![c] = NoFrame]
    /\ got' = [got EXCEPT ![c] = <<>>]
    /\ heard' = [heard EXCEPT ![c] = 0]
    /\ sawEnd' = [sawEnd EXCEPT ![c] = FALSE]
    /\ inbox' = [inbox EXCEPT ![c] = <<>>]
    /\ worker' = [worker EXCEPT ![c] = "none"]

Reachable(c) == c \in place \ cut

\* Mutant: what others send goes out at once, connecting or not.
WaitsForNone(c, from) == FALSE

\* What others send waits while the connect event runs, and counts against the
\* same queue.
Waits(c, from) == c \in holding /\ from # c

HasRoom(c, from) ==
    IF Waits(c, from) THEN Len(held[c]) < Queue - Len(outbox[c]) ELSE Len(outbox[c]) < Queue

\* Who is still counted of those that fell behind.
KeepsPlace(behind) == place

\* Hub::deliver: without waiting; one with no room is cut off.
Deliver(to, item, from) ==
    LET reached == {c \in to : Reachable(c)}
        behind == {c \in reached : ~HasRoom(c, from)}
        holds(c) == c \in reached \ behind /\ Waits(c, from)
        takes(c) == c \in reached \ behind /\ ~Waits(c, from)
    IN  /\ held' = [c \in Conns |-> IF c \in behind THEN <<>>
                                    ELSE IF holds(c) THEN Append(held[c], item) ELSE held[c]]
        /\ outbox' = [c \in Conns |-> IF takes(c) THEN Append(outbox[c], item) ELSE outbox[c]]
        /\ place' = KeepsPlace(behind)
        /\ cut' = (cut \union behind) \intersect place'
        /\ holding' = holding \ behind
        /\ joined' = joined \intersect place'

\* A handler's publish, and what it tells of.
Publish ==
    /\ published < Publishes
    /\ published' = published + 1
    /\ Deliver(joined, Told(published + 1), "others")
    /\ UNCHANGED <<hidden, step, inHand, got, heard, sawEnd, inbox, worker>>

\* close_app, with the app hidden or removed.
Hide ==
    /\ ~hidden
    /\ hidden' = TRUE
    /\ Deliver(place, Goodbye, "others")
    /\ UNCHANGED <<published, step, inHand, got, heard, sawEnd, inbox, worker>>

-----------------------------------------------------------------------------
(* open: the door, the ceilings, the connect event.                        *)

PassesDoor(c) ==
    /\ ~hidden
    /\ Cardinality({d \in Conns : step[d] # "away"}) < Comers
    /\ LoopGoes(c, "away", "admitted")
    /\ UNCHANGED <<hidden, published, registry, inHand, got, heard, sawEnd, inbox, worker>>

RegisterFrom(c) ==
    /\ IF Cardinality(place) < MostHere
       THEN /\ LoopGoes(c, "admitted", "connecting")
            /\ place' = place \union {c}
            /\ holding' = holding \union {c}
       ELSE LoopGoes(c, "admitted", "over") /\ UNCHANGED <<place, holding>>
    /\ UNCHANGED <<hidden, published, joined, cut, held, outbox, inHand, got, heard, sawEnd, inbox, worker>>

\* The handler's subscribe, its read, and its send.
Join(c) ==
    /\ LoopGoes(c, "connecting", "joined")
    /\ joined' = joined \union {c}
    /\ UNCHANGED <<hidden, published, place, cut, holding, held, outbox, inHand, got, heard, sawEnd, inbox, worker>>

ReadSnapshot(c) ==
    /\ LoopGoes(c, "joined", "read")
    /\ inHand' = [inHand EXCEPT ![c] = <<Snapshot(published)>>]
    /\ UNCHANGED <<hidden, published, registry, got, heard, sawEnd, inbox, worker>>

Greet(c) ==
    /\ LoopGoes(c, "read", "greeted")
    /\ Deliver({c}, inHand[c][1], c)
    /\ inHand' = [inHand EXCEPT ![c] = NoFrame]
    /\ UNCHANGED <<hidden, published, got, heard, sawEnd, inbox, worker>>

\* Refused by the handler, or the handler failed: the registration is dropped.
Refused(c) ==
    /\ step[c] \in {"connecting", "joined", "read", "greeted"}
    /\ Forget(c)
    /\ Over(c)
    /\ UNCHANGED <<hidden, published>>

\* Hub::accept: what was held follows.  What the connect event sent itself may
\* have taken its room.
Accept(c) ==
    LET room == Queue - Len(outbox[c])
        flushed == SubSeq(held[c], 1, IF Len(held[c]) < room THEN Len(held[c]) ELSE room)
    IN  /\ LoopGoes(c, "greeted", "accepted")
        /\ holding' = holding \ {c}
        /\ held' = [held EXCEPT ![c] = <<>>]
        /\ outbox' = [outbox EXCEPT ![c] = @ \o flushed]
        /\ cut' = IF Len(held[c]) > room THEN cut \union {c} ELSE cut
        /\ UNCHANGED <<hidden, published, place, joined, inHand, got, heard, sawEnd, inbox, worker>>

\* The client is gone before its upgrade is done: the session is dropped.
UpgradeLost(c) ==
    /\ c \notin Tcp
    /\ step[c] = "accepted"
    /\ Forget(c)
    /\ Over(c)
    /\ UNCHANGED <<hidden, published>>

RunBegins(c) ==
    /\ LoopGoes(c, "accepted", "select")
    /\ worker' = [worker EXCEPT ![c] = "idle"]
    /\ UNCHANGED <<hidden, published, registry, inHand, got, heard, sawEnd, inbox>>

-----------------------------------------------------------------------------
(* run's loop.                                                             *)

\* What comes out of the channel.  One that was cut off is closed, whatever is
\* still queued.
TakeOut(c) ==
    /\ \/ outbox[c] # <<>>
       \/ c \in cut
    /\ IF c \in cut \/ Head(outbox[c]) = Goodbye
       THEN LoopGoes(c, "select", "parting") /\ UNCHANGED inHand
       ELSE /\ LoopGoes(c, "select", "sending")
            /\ inHand' = [inHand EXCEPT ![c] = <<Head(outbox[c])>>]
    /\ outbox' = [outbox EXCEPT ![c] = IF @ = <<>> THEN @ ELSE Tail(@)]
    /\ UNCHANGED <<hidden, published, place, joined, cut, holding, held, got, heard, sawEnd, inbox, worker>>

Sent(c) ==
    /\ inHand' = [inHand EXCEPT ![c] = NoFrame]
    /\ got' = [got EXCEPT ![c] = @ \o inHand[c]]
    /\ UNCHANGED <<hidden, published, registry, heard, sawEnd, inbox, worker>>

NotSent(c) ==
    /\ inHand' = [inHand EXCEPT ![c] = NoFrame]
    /\ UNCHANGED <<hidden, published, registry, got, heard, sawEnd, inbox, worker>>

SendDone(c) == LoopGoes(c, "sending", "select") /\ Sent(c)

\* The peer is gone.  A TCP peer that takes nothing for tcp_send_timeout counts
\* as gone; a WebSocket's send waits for as long as the peer is there.
SendFails(c) == LoopGoes(c, "sending", "leaving") /\ NotSent(c)

InboxSize(c) == IF c \in Tcp THEN HeldQueue ELSE EventQueue

\* A transport that holds back is not read while the handler is behind.
MayRead(c) == c \in Tcp => Len(inbox[c]) < InboxSize(c)

Hear(c) ==
    /\ MayRead(c)
    /\ heard[c] < Frames
    /\ heard' = [heard EXCEPT ![c] = @ + 1]
    /\ IF Len(inbox[c]) < InboxSize(c)
       THEN /\ step[c] = "select" /\ UNCHANGED step
            /\ inbox' = [inbox EXCEPT ![c] = Append(@, "message")]
       ELSE LoopGoes(c, "select", "parting") /\ UNCHANGED inbox
    /\ UNCHANGED <<hidden, published, registry, inHand, got, sawEnd, worker>>

\* Gone, or idle for tcp_idle.
PeerEnds(c) ==
    /\ MayRead(c)
    /\ LoopGoes(c, "select", "leaving")
    /\ sawEnd' = [sawEnd EXCEPT ![c] = TRUE]
    /\ UNCHANGED <<hidden, published, registry, inHand, got, heard, inbox, worker>>

\* Mutant: the check forgets to ask whether the app is there to be shown.
MayStayAnyway == TRUE

MayStay == ~hidden

\* Every check_every: may the connection still come in this way, and does its
\* peer answer.
Check(c) ==
    /\ \/ ~MayStay /\ LoopGoes(c, "select", "parting")
       \/ MayStay /\ c \notin Tcp /\ LoopGoes(c, "select", "pinging")
       \/ c \notin Tcp /\ LoopGoes(c, "select", "leaving")
    /\ UNCHANGED <<hidden, published, registry, inHand, got, heard, sawEnd, inbox, worker>>

PingDone(c) ==
    /\ \/ LoopGoes(c, "pinging", "select")
       \/ LoopGoes(c, "pinging", "leaving")
    /\ UNCHANGED <<hidden, published, registry, inHand, got, heard, sawEnd, inbox, worker>>

\* transport.close: a WebSocket's is a frame more to send.
PartDone(c) ==
    /\ LoopGoes(c, "parting", "leaving")
    /\ UNCHANGED <<hidden, published, registry, inHand, got, heard, sawEnd, inbox, worker>>

-----------------------------------------------------------------------------
(* The end: the close event, and what is still to be sent to a peer that    *)
(* stopped sending.                                                         *)

SendClose(c) ==
    /\ Len(inbox[c]) < InboxSize(c)
    /\ LoopGoes(c, "leaving", IF sawEnd[c] THEN "drains" ELSE "waits")
    /\ inbox' = [inbox EXCEPT ![c] = Append(@, "close")]
    /\ UNCHANGED <<hidden, published, registry, inHand, got, heard, sawEnd, worker>>

Draining(c) ==
    /\ outbox[c] # <<>> \/ c \in cut
    /\ outbox' = [outbox EXCEPT ![c] = IF @ = <<>> THEN @ ELSE Tail(@)]
    /\ IF outbox[c] # <<>> /\ Head(outbox[c]) # Goodbye
       THEN /\ LoopGoes(c, "drains", "drainSends")
            /\ inHand' = [inHand EXCEPT ![c] = <<Head(outbox[c])>>]
       ELSE LoopGoes(c, "drains", "drained") /\ UNCHANGED inHand
    /\ UNCHANGED <<hidden, published, place, joined, cut, holding, held, got, heard, sawEnd, inbox, worker>>

DrainSendDone(c) == LoopGoes(c, "drainSends", "drains") /\ Sent(c)

DrainSendFails(c) == LoopGoes(c, "drainSends", "drained") /\ NotSent(c)

\* The worker is done, and the registration gone with it.
WorkerSeen(c) ==
    /\ worker[c] = "done"
    /\ \/ LoopGoes(c, "drains", "flushes") /\ UNCHANGED <<inHand, got, heard, sawEnd, inbox, worker, outbox>>
       \/ step[c] \in {"waits", "drained"} /\ Over(c)
    /\ UNCHANGED <<hidden, published, place, joined, cut, holding, held>>

Flush(c) ==
    /\ step[c] = "flushes"
    /\ IF outbox[c] # <<>> /\ Head(outbox[c]) # Goodbye
       THEN /\ step' = [step EXCEPT ![c] = "flushSends"]
            /\ inHand' = [inHand EXCEPT ![c] = <<Head(outbox[c])>>]
            /\ outbox' = [outbox EXCEPT ![c] = Tail(@)]
            /\ UNCHANGED <<got, heard, sawEnd, inbox, worker>>
       ELSE Over(c)
    /\ UNCHANGED <<hidden, published, place, joined, cut, holding, held>>

FlushSendDone(c) == LoopGoes(c, "flushSends", "flushes") /\ Sent(c)

FlushSendFails(c) ==
    /\ step[c] = "flushSends"
    /\ Over(c)
    /\ UNCHANGED <<hidden, published, place, joined, cut, holding, held>>

-----------------------------------------------------------------------------
(* The worker: events one at a time.                                       *)

WorkerTakes(c) ==
    /\ worker[c] = "idle"
    /\ inbox[c] # <<>>
    /\ worker' = [worker EXCEPT ![c] = Head(inbox[c])]
    /\ inbox' = [inbox EXCEPT ![c] = Tail(@)]
    /\ UNCHANGED <<hidden, published, step, registry, inHand, got, heard, sawEnd>>

WorkerAnswers(c) ==
    /\ worker[c] = "message"
    /\ worker' = [worker EXCEPT ![c] = "idle"]
    /\ UNCHANGED <<hidden, published, step, registry, inHand, got, heard, sawEnd, inbox>>

\* Mutant: a handler that failed ends the worker.
WorkerGivesUp(c) ==
    /\ worker[c] = "message"
    /\ worker' = [worker EXCEPT ![c] = "none"]
    /\ Deliver({c}, Goodbye, "others")
    /\ UNCHANGED <<hidden, published, step, inHand, got, heard, sawEnd, inbox>>

\* The handler failed, or asked for it itself: the connection is closed.
WorkerCloses(c) ==
    /\ worker[c] = "message"
    /\ worker' = [worker EXCEPT ![c] = "idle"]
    /\ Deliver({c}, Goodbye, "others")
    /\ UNCHANGED <<hidden, published, step, inHand, got, heard, sawEnd, inbox>>

WorkerEnds(c) ==
    /\ worker[c] = "close"
    /\ worker' = [worker EXCEPT ![c] = "done"]
    /\ Forget(c)
    /\ UNCHANGED <<hidden, published, step, outbox, inHand, got, heard, sawEnd, inbox>>

-----------------------------------------------------------------------------

Opens(c) ==
    \/ PassesDoor(c) \/ RegisterFrom(c) \/ Join(c) \/ ReadSnapshot(c) \/ Greet(c)
    \/ Refused(c) \/ Accept(c) \/ UpgradeLost(c) \/ RunBegins(c)

Loops(c) ==
    \/ TakeOut(c) \/ SendDone(c) \/ SendFails(c) \/ Hear(c) \/ PeerEnds(c)
    \/ Check(c) \/ PingDone(c) \/ PartDone(c)

RunsOut(c) ==
    \/ SendClose(c) \/ Draining(c) \/ DrainSendDone(c) \/ DrainSendFails(c)
    \/ WorkerSeen(c) \/ Flush(c) \/ FlushSendDone(c) \/ FlushSendFails(c)

Works(c) == WorkerTakes(c) \/ WorkerAnswers(c) \/ WorkerCloses(c) \/ WorkerEnds(c)

SocketsNext ==
    \/ Publish \/ Hide
    \/ \E c \in Conns : Opens(c) \/ Loops(c) \/ RunsOut(c) \/ Works(c)

\* Mutant: tcp_send_timeout is not kept.
SendWaits(c) == FALSE

\* A send over TCP ends, one way or the other.
SendEnds(c) == c \in Tcp

\* What happens whatever the peers do.  A handler's call ends, by its wall clock
\* if by nothing else; a TCP send ends, by its timeout if by nothing else.
ByItself(c) ==
    \/ RegisterFrom(c) \/ Join(c) \/ ReadSnapshot(c) \/ Greet(c) \/ Accept(c) \/ RunBegins(c)
    \/ TakeOut(c)
    \/ ~MayStay /\ Check(c)
    \/ SendEnds(c) /\ (SendDone(c) \/ SendFails(c) \/ PartDone(c))
    \/ SendEnds(c) /\ (DrainSendDone(c) \/ DrainSendFails(c) \/ FlushSendDone(c) \/ FlushSendFails(c))
    \/ SendClose(c) \/ Draining(c) \/ WorkerSeen(c) \/ Flush(c)
    \/ Works(c)

\* The runtime polls every task.  That a WebSocket's peer reads is not assumed.
SocketsSpec == SocketsInit /\ [][SocketsNext]_socketsVars /\ \A c \in Conns : WF_socketsVars(ByItself(c))

-----------------------------------------------------------------------------

GoesOn(c) == step[c] \in {"greeted", "accepted", "select", "sending", "pinging"}

\* What a connection has been sent and, while it goes on, what is on its way.
Line(c) == got[c] \o (IF GoesOn(c) THEN inHand[c] \o (outbox[c] \o held[c]) ELSE <<>>)

\* The places of a line that tell of the topic, and one that comes next.
Tells(line, i) == i \in 1..Len(line) /\ line[i] # Goodbye
TellsNext(line, i, j) ==
    /\ Tells(line, i) /\ Tells(line, j) /\ i < j
    /\ \A k \in (i + 1)..(j - 1) : ~Tells(line, k)

\* The snapshot comes first,
SnapshotFirst(line) ==
    \A i \in 1..Len(line) :
        Tells(line, i) /\ (\A k \in 1..(i - 1) : ~Tells(line, k)) => line[i].kind = "snapshot"

\* then one thing after the other, from no later than what it does not tell of,
NoneLost(line) ==
    \A i, j \in 1..Len(line) :
        TellsNext(line, i, j) => /\ line[j].kind = "told"
                                 /\ line[j].upTo <= line[i].upTo + 1
                                 /\ line[i].kind = "told" => line[j].upTo = line[i].upTo + 1

\* to the n-th thing published.
ToTheLast(line, n) ==
    \A i \in 1..Len(line) :
        Tells(line, i) /\ (\A k \in (i + 1)..Len(line) : ~Tells(line, k)) => line[i].upTo = n

\* runtime/connections.rs:15-16, "a handler can join a topic, read a snapshot
\* and send it, and know the snapshot arrives before anything published on the
\* topic, with nothing published in between lost".
SnapshotThenTheRest ==
    \A c \in Conns :
        /\ SnapshotFirst(Line(c))
        /\ NoneLost(Line(c))
        /\ GoesOn(c) /\ Reachable(c) => ToTheLast(Line(c), published)

\* platform/connections.rs:5-7: a connection that ran gets its close event,
\* however it ended, and then its place is free.
EndedIsClosed == \A c \in Conns : step[c] \in Ending ~> worker[c] = "done" /\ c \notin place

\* events.rs and README:1053-1054: once the app is hidden its connections go,
\* one that was on its way in then too.  Over TCP.
HiddenGoes == \A c \in Tcp : hidden ~> step[c] \in {"away", "over"}

\* README:1062-1063, "A connection that falls more than 64 messages behind is
\* closed".  Over TCP.
BehindIsClosedOverTcp == \A c \in Tcp : c \in cut ~> step[c] = "over"

\* The same of every connection.
BehindIsClosed == \A c \in Conns : c \in cut ~> step[c] = "over"
=============================================================================
