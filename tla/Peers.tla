------------------------------- MODULE Peers -------------------------------
(***************************************************************************)
(* One mapped UDP port, platform/udp.rs: the loop that takes datagrams, a  *)
(* connection for each remote address, and the bytes that wait for them.   *)
(* The loop and the tasks of the connections share `peers` under its lock, *)
(* the channels, and the counter `waiting`; each touch of one of them is a *)
(* step.  A datagram over its address's rate is one that does not come.    *)
(***************************************************************************)
EXTENDS Integers, Sequences, FiniteSets, Sums

CONSTANTS Addresses,
          Sizes,        \* the lengths of datagrams
          PeerQueue,    \* QUEUE
          MostWaiting,  \* udp_queued_bytes
          MostRemotes,  \* raw_per_app, as the loop checks it
          Allowance,    \* REPLY_ALLOWANCE
          Ratio,        \* REPLY_RATIO
          MostCredit,   \* MAX_REPLY_CREDIT
          MaxPeers,     \* bound: connections opened
          MaxDatagrams, \* bound: datagrams that come
          MaxReplies    \* bound: replies an app sends

ASSUME PeersAssumption ==
    /\ IsFiniteSet(Addresses)
    /\ Sizes \subseteq Nat \ {0}
    /\ {PeerQueue, MostWaiting, MostRemotes, Allowance, Ratio, MostCredit, MaxPeers,
        MaxDatagrams, MaxReplies} \subseteq Nat

PeerConns == 1..MaxPeers
NoPeer == 0

VARIABLES desk,      \* what the loop has in hand
          peers,     \* the map of addresses to the newest connection's channel
          conns,     \* the task of each connection, in the order they were opened
          queues,    \* the datagrams in each channel
          waiting,   \* the counter of bytes waiting
          datagrams,
          replies

peersVars == <<desk, peers, conns, queues, waiting, datagrams, replies>>

Nothing == [at |-> "idle", from |-> NoPeer, len |-> 0, known |-> NoPeer, remotes |-> 0]

\* `taken` is a datagram off the channel whose bytes are not yet off the count;
\* `heard` and `told` are what the remote sent, and was sent, on the connection.
Unopened == [at |-> "none", from |-> NoPeer, taken |-> 0, first |-> TRUE, credit |-> 0,
             heard |-> 0, told |-> 0]

PeersTypeOK ==
    /\ desk \in [at : {"idle", "known", "counted", "new", "admitted"}, from : Addresses \cup {NoPeer},
                 len : Sizes \cup {0}, known : PeerConns \cup {NoPeer}, remotes : 0..MaxPeers]
    /\ peers \in [Addresses -> PeerConns \cup {NoPeer}]
    /\ \A c \in PeerConns :
          /\ conns[c].at \in {"none", "opening", "running", "refused", "closing", "left", "dropping", "done"}
          /\ conns[c].credit \in 0..MostCredit + Allowance + Ratio * MostWaiting
          /\ queues[c] \in Seq(Sizes) /\ Len(queues[c]) <= PeerQueue
    /\ waiting \in 0..MostWaiting

Bytes(q) == Total(q, DOMAIN q)
Least(i, j) == IF i < j THEN i ELSE j

\* Connections that have a channel whose receiver is not closed.
Open(c) == conns[c].at \in {"opening", "running", "refused", "dropping"}

-----------------------------------------------------------------------------
(* The loop: serve and open_peer.                                           *)

Comes(a, n) ==
    /\ desk.at = "idle"
    /\ datagrams < MaxDatagrams
    /\ datagrams' = datagrams + 1
    /\ desk' = [at |-> IF peers[a] = NoPeer THEN "new" ELSE "known",
                from |-> a, len |-> n, known |-> peers[a],
                remotes |-> Cardinality({b \in Addresses : peers[b] # NoPeer})]
    /\ UNCHANGED <<peers, conns, queues, waiting, replies>>

\* enqueue counts first.
Counted ==
    /\ desk.at = "known"
    /\ IF waiting + desk.len > MostWaiting
       THEN /\ desk' = Nothing
            /\ UNCHANGED waiting
       ELSE /\ desk' = [desk EXCEPT !.at = "counted"]
            /\ waiting' = waiting + desk.len
    /\ UNCHANGED <<peers, conns, queues, datagrams, replies>>

\* try_send: queued, dropped since the queue is full, or handed back since the
\* connection takes no more, which makes it the first of a new one.
Queued ==
    /\ desk.at = "counted"
    /\ \/ /\ Open(desk.known) /\ Len(queues[desk.known]) < PeerQueue
          /\ queues' = [queues EXCEPT ![desk.known] = Append(@, desk.len)]
          /\ desk' = Nothing
          /\ UNCHANGED waiting
       \/ /\ Open(desk.known) /\ Len(queues[desk.known]) >= PeerQueue
          /\ waiting' = waiting - desk.len
          /\ desk' = Nothing
          /\ UNCHANGED queues
       \/ /\ ~Open(desk.known)
          /\ waiting' = waiting - desk.len
          /\ desk' = [desk EXCEPT !.at = "new"]
          /\ UNCHANGED queues
    /\ UNCHANGED <<peers, conns, datagrams, replies>>

\* The checks before a connection is opened, the app's own among them.
Admits ==
    /\ desk.at = "new"
    /\ \/ /\ desk.remotes < MostRemotes
          /\ waiting + desk.len <= MostWaiting
          /\ desk' = [desk EXCEPT !.at = "admitted"]
       \/ desk' = Nothing
    /\ UNCHANGED <<peers, conns, queues, waiting, datagrams, replies>>

OpensPeer ==
    /\ desk.at = "admitted"
    /\ \E c \in PeerConns :
          /\ \A d \in PeerConns : conns[d].at = "none" <=> d >= c
          /\ conns' = [conns EXCEPT ![c] = [Unopened EXCEPT !.at = "opening", !.from = desk.from,
                                             !.heard = desk.len,
                                             !.credit = Allowance + Ratio * desk.len]]
          /\ queues' = [queues EXCEPT ![c] = <<desk.len>>]
          /\ peers' = [peers EXCEPT ![desk.from] = c]
    /\ waiting' = waiting + desk.len
    /\ desk' = Nothing
    /\ UNCHANGED <<datagrams, replies>>

-----------------------------------------------------------------------------
(* A connection's task.                                                     *)

Becomes(c, from, s) ==
    /\ conns[c].at = from
    /\ conns' = [conns EXCEPT ![c].at = s]

\* connections::open: the app's connect handler ran, or it refused.
Connects(c) ==
    /\ \E s \in {"running", "refused"} : Becomes(c, "opening", s)
    /\ UNCHANGED <<desk, peers, queues, waiting, datagrams, replies>>

\* Queue::recv takes a datagram ...
Takes(c) ==
    /\ conns[c].at = "running"
    /\ conns[c].taken = 0
    /\ queues[c] # <<>>
    /\ conns' = [conns EXCEPT ![c].taken = Head(queues[c])]
    /\ queues' = [queues EXCEPT ![c] = Tail(@)]
    /\ UNCHANGED <<desk, peers, waiting, datagrams, replies>>

\* ... and off the count; all but the first, counted at the opening, earn replies.
TakenOff(c) ==
    /\ conns[c].taken > 0
    /\ waiting' = waiting - conns[c].taken
    /\ conns' = [conns EXCEPT ![c].taken = 0, ![c].first = FALSE,
                    ![c].heard = @ + (IF conns[c].first THEN 0 ELSE conns[c].taken),
                    ![c].credit = IF conns[c].first THEN @
                                  ELSE Least(@ + Ratio * conns[c].taken, MostCredit)]
    /\ UNCHANGED <<desk, peers, queues, datagrams, replies>>

\* A reply, dropped when it is more than was earned.
Replies(c, n) ==
    /\ conns[c].at = "running"
    /\ conns[c].taken = 0
    /\ replies < MaxReplies
    /\ replies' = replies + 1
    /\ n <= conns[c].credit
    /\ conns' = [conns EXCEPT ![c].credit = @ - n, ![c].told = @ + n]
    /\ UNCHANGED <<desk, peers, queues, waiting, datagrams>>

\* The address was quiet for the idle timeout, or whatever else ends a
\* connection: it takes no more while its close event runs.
StopsTaking(c) ==
    /\ conns[c].taken = 0
    /\ Becomes(c, "running", "closing")
    /\ UNCHANGED <<desk, peers, queues, waiting, datagrams, replies>>

\* Queue::drop, at the end of the transport or, refused, of the task.
DropsQueue(c) ==
    /\ \/ Becomes(c, "closing", "left") \/ Becomes(c, "dropping", "done")
    /\ queues' = [queues EXCEPT ![c] = <<>>]
    /\ waiting' = waiting - Bytes(queues[c])
    /\ UNCHANGED <<desk, peers, datagrams, replies>>

\* Mutant: the address's entry is removed, whoever's it is.
RemovesAny(c) ==
    /\ \/ Becomes(c, "left", "done") \/ Becomes(c, "refused", "dropping")
    /\ peers' = [peers EXCEPT ![conns[c].from] = NoPeer]
    /\ UNCHANGED <<desk, queues, waiting, datagrams, replies>>

\* Only this connection's own entry is removed.
Removes(c) ==
    /\ \/ Becomes(c, "left", "done") \/ Becomes(c, "refused", "dropping")
    /\ peers' = [a \in Addresses |-> IF peers[a] = c THEN NoPeer ELSE peers[a]]
    /\ UNCHANGED <<desk, queues, waiting, datagrams, replies>>

-----------------------------------------------------------------------------

PeersInit ==
    /\ desk = Nothing
    /\ peers = [a \in Addresses |-> NoPeer]
    /\ conns = [c \in PeerConns |-> Unopened]
    /\ queues = [c \in PeerConns |-> <<>>]
    /\ waiting = 0
    /\ datagrams = 0
    /\ replies = 0

PeersNext ==
    \/ \E a \in Addresses, n \in Sizes : Comes(a, n)
    \/ Counted \/ Queued \/ Admits \/ OpensPeer
    \/ \E c \in PeerConns :
          \/ Connects(c) \/ Takes(c) \/ TakenOff(c) \/ StopsTaking(c) \/ DropsQueue(c) \/ Removes(c)
          \/ \E n \in Sizes : Replies(c, n)

PeersSpec == PeersInit /\ [][PeersNext]_peersVars

-----------------------------------------------------------------------------
(* Properties.                                                              *)

\* What waits for a connection.
WaitsFor(c) == IF conns[c].at \in {"none", "done"} THEN 0 ELSE Bytes(queues[c]) + conns[c].taken

\* The counter is what waits, and what is between a queue and the count: nothing
\* that was dropped, refused or left behind stays counted, or the port would in
\* time take no datagrams at all.
WaitingIsQueued ==
    waiting = Total([c \in PeerConns |-> WaitsFor(c)], PeerConns) + (IF desk.at = "counted" THEN desk.len ELSE 0)

\* A connection that takes datagrams is the one its address is looked up by: the
\* end of an older one never takes the entry of its successor.
NewestIsFound ==
    \A c \in PeerConns : conns[c].at \in {"opening", "running"} => peers[conns[c].from] = c

\* A remote is sent at most the allowance and Ratio bytes for each it sent.
RepliesEarned ==
    \A c \in PeerConns : conns[c].told <= Allowance + Ratio * conns[c].heard

\* What the loop and the connections keep of the port between them agrees with
\* what each of them has in hand.
PortAgrees == WaitingIsQueued /\ NewestIsFound /\ RepliesEarned
=============================================================================
