----------------------------- MODULE MCDeploys -----------------------------
(* What an app's files run into, in parts that share no state: writers and    *)
(* readers of what is published (Publishes), the resident instance with its   *)
(* connections (Residents), and the files it stores itself (Blobs).  A        *)
(* behaviour follows one.                                                     *)
EXTENDS MCPublishes, Residents, Blobs

\* Connections and stored writes share their names with two requests, whom they
\* never meet, so that one symmetry does for all.
MCClients == MCReaders

VARIABLE part

deploysVars == <<part, publishesVars, residentsVars, blobsVars>>

DeploysInit ==
    /\ part \in {"publishes", "resident", "blobs"}
    /\ PublishesInit
    /\ ResidentsInit
    /\ BlobsInit
    \* Of the parts that do not go one beginning will do.
    /\ part # "blobs" => inBucket
    /\ part # "publishes" => there = {}

OfPublishes == part = "publishes" /\ UNCHANGED <<part, residentsVars, blobsVars>>
OfResident == part = "resident" /\ UNCHANGED <<part, publishesVars, blobsVars>>
OfBlobs == part = "blobs" /\ UNCHANGED <<part, publishesVars, residentsVars>>

DeploysNext ==
    \/ OfPublishes /\ PublishesNext
    \/ OfResident /\ ResidentsNext
    \/ OfBlobs /\ BlobsNext

DeploysSpec == DeploysInit /\ [][DeploysNext]_deploysVars
=============================================================================
