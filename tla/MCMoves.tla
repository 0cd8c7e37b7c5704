------------------------------ MODULE MCMoves ------------------------------
(* What is moved, claimed and rebuilt by several at once, in three parts that *)
(* share no state: two projects that may each hold one more, with an app that *)
(* has its name (Projects), the slots of jobs (JobSlots), and an app's schema *)
(* (Schema).  A behaviour follows one.                                        *)
EXTENDS MCJobSlots, Projects, MCSchema

CONSTANTS a1

\* Two projects, and two who deploy, share their names with two jobs, whom they
\* never meet, so that one symmetry does for all.
MCApps == {a1}
MCProjectPaths == {<<j1>>, <<j2>>, <<j1, a1>>, <<j2, a1>>}

VARIABLE part

movesVars == <<part, vars, projectsVars, schemaVars>>

MovesInit ==
    /\ part \in {"slots", "projects", "schema"}
    /\ Init
    /\ ProjectsInit
    /\ SchemaInit
    \* Of the part that does not go one beginning will do.
    /\ part # "projects" => DOMAIN tree = {} /\ Existing = {}

OfSlots == part = "slots" /\ UNCHANGED <<part, projectsVars, schemaVars>>
OfProjects == part = "projects" /\ UNCHANGED <<part, vars, schemaVars>>
OfSchema == part = "schema" /\ UNCHANGED <<part, vars, projectsVars>>

MovesNext ==
    \/ OfSlots /\ Next
    \/ OfProjects /\ ProjectsNext
    \/ OfSchema /\ SchemaNext

MovesSpec == MovesInit /\ [][MovesNext]_movesVars
=============================================================================
