----------------------------- MODULE MCStreams -----------------------------
(* What comes, or is done, in pieces, in parts that share no state: a file    *)
(* sent inline (Uploads), a connection's frames (Sockets), a UDP port's       *)
(* datagrams (Peers), an OAuth grant that is traded (Grants), and a site that *)
(* is copied (Transfer).  A behaviour follows one.                            *)
EXTENDS Uploads, Sockets, Peers, Grants, Transfer, TLC

CONSTANTS r1, r2, r3, f1

MCChunks == {r1, r2, r3}
MCSizeOf == (r1 :> 1) @@ (r2 :> 1) @@ (r3 :> 2)
MCFinishes == {f1}
\* Callers and addresses share their names with two chunks, whom they never
\* meet, so that one symmetry does for all.
MCPair == {r1, r2}
MCSymmetry == Permutations({r1, r2})

VARIABLE part

streamsVars == <<part, uploadsVars, socketsVars, peersVars, grantsVars, transferVars>>

StreamsInit ==
    /\ part \in {"uploads", "sockets", "peers", "grants", "transfer"}
    /\ UploadsInit
    /\ SocketsInit
    /\ PeersInit
    /\ GrantsInit
    /\ TransferInit
    \* Of the parts that do not go one beginning will do.
    /\ part # "uploads" => ~bucket
    /\ part # "grants" => backend = "files"
    /\ part # "transfer" => home = "old"

OfUploads ==
    part = "uploads" /\ UNCHANGED <<part, socketsVars, peersVars, grantsVars, transferVars>>
OfSockets ==
    part = "sockets" /\ UNCHANGED <<part, uploadsVars, peersVars, grantsVars, transferVars>>
OfPeers ==
    part = "peers" /\ UNCHANGED <<part, uploadsVars, socketsVars, grantsVars, transferVars>>
OfGrants ==
    part = "grants" /\ UNCHANGED <<part, uploadsVars, socketsVars, peersVars, transferVars>>
OfTransfer ==
    part = "transfer" /\ UNCHANGED <<part, uploadsVars, socketsVars, peersVars, grantsVars>>

StreamsNext ==
    \/ OfUploads /\ UploadsNext
    \/ OfSockets /\ SocketsNext
    \/ OfPeers /\ PeersNext
    \/ OfGrants /\ GrantsNext
    \/ OfTransfer /\ TransferNext

StreamsSpec == StreamsInit /\ [][StreamsNext]_streamsVars
=============================================================================
