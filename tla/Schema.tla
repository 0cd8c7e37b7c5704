-------------------------------- MODULE Schema --------------------------------
(***************************************************************************)
(* One app's schema and the view an access policy makes of it               *)
(* (src/src/runtime/migrate.rs, runtime/access.rs, and what                 *)
(* platform/manifest.rs and platform/upload.rs do with them).  Migrations   *)
(* move the database's version; a migration and a manifest each rebuild the *)
(* view, from the meta they read, in statements with time between them.     *)
(* The app has one table with a policy; a policy's view is a public name    *)
(* over an inner view whose name carries the app's salt.                    *)
(***************************************************************************)
EXTENDS Integers, FiniteSets

CONSTANTS Deployers, \* uploads, one call each at a time
          Policies,  \* what may be declared
          Longest,   \* bound: files in a ladder
          Standing,  \* of a policy at a version: "waits" for its table, "fits" or "breaks"
          MaxDeploys \* bound: calls

ASSUME SchemaAssumption ==
    /\ Longest \in Nat /\ MaxDeploys \in Nat
    /\ Standing \in [Policies -> [0..Longest -> {"waits", "fits", "breaks"}]]

VARIABLES ladder,  \* how many migrations are stored
          version, \* user_version
          meta,    \* the policy declared, the names generated and the salt of the app's meta
          public,  \* the salt of the inner view the public one reads, 0 for none
          inner,   \* the inner view with each salt: its policy, and the version it was made for
          minted,  \* salts so far
          call,    \* each deployer's
          deploys, \* calls so far
          settled, \* history: the last call was answered OK and nothing ran beside it
          marks    \* history: "failed" once a call was not answered OK, "untidy" once two
                   \* ran at a time or one stopped before it wrote what it had made

schemaVars == <<ladder, version, meta, public, inner, minted, call, deploys, settled, marks>>

NoPolicy == "none"
NoView == [of |-> NoPolicy, at |-> 0]
Declared == [policy : Policies \union {NoPolicy}, generated : SUBSET (1..MaxDeploys), salt : 0..MaxDeploys]
Undeclared == [policy |-> NoPolicy, generated |-> {}, salt |-> 0]
NoDeploy == [op |-> "none", at |-> "idle", files |-> 0, read |-> Undeclared, plan |-> 0, salt |-> 0,
         mixed |-> FALSE]

Steps == {"idle", "ladder", "up", "meta", "plan", "script", "write"}

SchemaTypeOK ==
    /\ ladder \in 0..Longest /\ version \in 0..Longest
    /\ meta \in Declared
    /\ public \in 0..MaxDeploys
    /\ \A s \in 1..MaxDeploys : inner[s].of \in Policies \union {NoPolicy}
    /\ \A d \in Deployers : call[d].at \in Steps

SchemaInit ==
    /\ ladder = 0 /\ version = 0
    /\ meta = Undeclared
    /\ public = 0
    /\ inner = [s \in 1..MaxDeploys |-> NoView]
    /\ minted = 0
    /\ call = [d \in Deployers |-> NoDeploy]
    /\ deploys = 0
    /\ settled = FALSE
    /\ marks = {}

-----------------------------------------------------------------------------

DeployAt(d, op, at) == call[d].op = op /\ call[d].at = at

Database == <<version, public, inner>>

\* A call begins: it and all that are under way have run beside another.
Deploys(d, op, at, files, read) ==
    LET others == {e \in Deployers \ {d} : call[e] # NoDeploy}
    IN  /\ call[d] = NoDeploy
        /\ deploys < MaxDeploys
        /\ deploys' = deploys + 1
        /\ settled' = FALSE
        /\ call' = [e \in Deployers |->
               IF e = d
               THEN [NoDeploy EXCEPT !.op = op, !.at = at, !.files = files, !.read = read, !.mixed = others # {}]
               ELSE IF e \in others THEN [call[e] EXCEPT !.mixed = TRUE] ELSE call[e]]
        /\ marks' = IF others = {} THEN marks ELSE marks \union {"untidy"}
        /\ UNCHANGED minted

DeployGoes(d, at) ==
    /\ call' = [call EXCEPT ![d].at = at]
    /\ UNCHANGED <<minted, deploys, settled, marks>>

\* Answered OK.
Deployed(d) ==
    /\ call' = [call EXCEPT ![d] = NoDeploy]
    /\ settled' = ~call[d].mixed
    /\ UNCHANGED <<deploys, marks>>

Refused(d) ==
    /\ call' = [call EXCEPT ![d] = NoDeploy]
    /\ marks' = marks \union {"failed"} \union (IF call[d].at = "write" THEN {"untidy"} ELSE {})
    /\ UNCHANGED <<deploys, settled>>

\* migrate::store and apply, or apply alone (app_migrations without files).
UploadsLadder(d, n) ==
    /\ Deploys(d, "migrate", "ladder", 0, Undeclared)
    /\ ladder' = n
    /\ UNCHANGED <<meta, Database>>

AsksForLadder(d) ==
    /\ Deploys(d, "migrate", "ladder", 0, Undeclared)
    /\ UNCHANGED <<ladder, meta, Database>>

\* migrate::stored.  Without files there is nothing to do.
LoadsLadder(d) ==
    /\ DeployAt(d, "migrate", "ladder")
    /\ IF ladder = 0
       THEN call' = [call EXCEPT ![d] = NoDeploy]
       ELSE call' = [call EXCEPT ![d].files = ladder, ![d].at = "up"]
    /\ UNCHANGED <<ladder, meta, Database, minted, deploys, settled, marks>>

\* Mutant: the view is rebuilt only when a step ran.
MigratesIfBehind(d) ==
    /\ DeployAt(d, "migrate", "up")
    /\ IF call[d].files > version
       THEN version' = call[d].files /\ DeployGoes(d, "meta")
       ELSE UNCHANGED <<version, minted>> /\ Deployed(d)
    /\ UNCHANGED <<ladder, meta, public, inner>>

\* to_latest is one transaction, and refuses a database that is further.
MigratesUp(d) ==
    /\ DeployAt(d, "migrate", "up")
    /\ IF call[d].files >= version
       THEN version' = call[d].files /\ DeployGoes(d, "meta")
       ELSE UNCHANGED <<version, minted>> /\ Refused(d)
    /\ UNCHANGED <<ladder, meta, public, inner>>

ReadsMeta(d) ==
    /\ DeployAt(d, "migrate", "meta")
    /\ IF meta.policy = NoPolicy /\ meta.generated = {}
       THEN UNCHANGED minted /\ Deployed(d)
       ELSE /\ call' = [call EXCEPT ![d].read = meta, ![d].at = "plan"]
            /\ UNCHANGED <<minted, deploys, settled, marks>>
    /\ UNCHANGED <<ladder, meta, Database>>

\* A manifest with [access], under the lock of those that declare.
Declares(d, policy) ==
    /\ \A e \in Deployers : call[e].op # "manifest"
    /\ Deploys(d, "manifest", "plan", 0, [meta EXCEPT !.policy = policy])
    /\ UNCHANGED <<ladder, meta, Database>>

\* regenerate reads the schema, checks the policy against it, and mints a salt
\* for an app that has none.
Plans(d) ==
    LET read == call[d].read
    IN  /\ call[d].at = "plan"
        /\ IF read.policy # NoPolicy /\ Standing[read.policy][version] = "breaks"
           THEN UNCHANGED minted /\ Refused(d)
           ELSE /\ minted' = IF read.salt = 0 THEN minted + 1 ELSE minted
                /\ call' = [call EXCEPT ![d].at = "script", ![d].plan = version,
                                        ![d].salt = IF read.salt = 0 THEN minted + 1 ELSE read.salt]
                /\ UNCHANGED <<deploys, settled, marks>>
        /\ UNCHANGED <<ladder, meta, Database>>

\* The names the call's script makes: the public view and the inner one.
Makes(d) ==
    IF call[d].read.policy # NoPolicy /\ Standing[call[d].read.policy][call[d].plan] = "fits"
    THEN {call[d].salt} ELSE {}

\* regenerate's script, one transaction: what the policy makes is made anew, and
\* what the meta that was read lists and no policy claims is dropped.  A
\* migration that changed none of the names has nothing to write.
Rebuilds(d) ==
    LET read == call[d].read
    IN  /\ call[d].at = "script"
        /\ inner' = [s \in 1..MaxDeploys |->
               IF s \in Makes(d) THEN [of |-> read.policy, at |-> call[d].plan]
               ELSE IF s \in read.generated THEN NoView ELSE inner[s]]
        /\ public' = IF Makes(d) # {} THEN call[d].salt
                     ELSE IF read.generated # {} THEN 0 ELSE public
        /\ IF call[d].op = "migrate" /\ read.generated = Makes(d) /\ read.salt = call[d].salt
           THEN UNCHANGED minted /\ Deployed(d)
           ELSE DeployGoes(d, "write")
        /\ UNCHANGED <<ladder, version, meta>>

\* A migration writes what was generated; a manifest also what it declares.
WritesMeta(d) ==
    /\ call[d].at = "write"
    /\ meta' = [policy |-> IF call[d].op = "manifest" THEN call[d].read.policy ELSE meta.policy,
                generated |-> Makes(d), salt |-> call[d].salt]
    /\ UNCHANGED minted /\ Deployed(d)
    /\ UNCHANGED <<ladder, Database>>

\* An error, or the end of the process.
DeployStops(d) ==
    /\ call[d] # NoDeploy
    /\ UNCHANGED minted
    /\ Refused(d)
    /\ UNCHANGED <<ladder, meta, Database>>

SchemaNext ==
    \E d \in Deployers :
        \/ \E n \in 1..Longest : UploadsLadder(d, n)
        \/ AsksForLadder(d) \/ LoadsLadder(d) \/ MigratesUp(d) \/ ReadsMeta(d)
        \/ \E p \in Policies \union {NoPolicy} : Declares(d, p)
        \/ Plans(d) \/ Rebuilds(d) \/ WritesMeta(d) \/ DeployStops(d)

SchemaSpec == SchemaInit /\ [][SchemaNext]_schemaVars

-----------------------------------------------------------------------------

\* db.rs Scope::of: what an account may reach.
Reachable == meta.policy # NoPolicy /\ meta.salt # 0 /\ meta.salt \in meta.generated

\* The view is the declared policy's on the schema as it is; and where there is
\* none to make, nothing is reachable and, as long as calls are tidy, nothing is
\* there.
Realised ==
    IF meta.policy # NoPolicy /\ Standing[meta.policy][version] # "waits"
    THEN /\ Reachable
         /\ public = meta.salt
         /\ inner[meta.salt] = [of |-> meta.policy, at |-> version]
    ELSE ~Reachable /\ ("untidy" \in marks \/ public = 0)

\* README.md:1823-1825 and migrate.rs:85-86: a migration or a manifest that
\* nothing ran beside leaves the view as declared, on the schema as it is,
\* whatever stopped or raced before it: a migration that stopped half way is
\* made good by running it again.
RealisedAlone == settled => Realised

\* README.md:1823-1825, "They are rebuilt whenever the manifest or the schema
\* changes, so a new column reaches the view, and dropped when the policy goes":
\* when no call is under way and all were answered OK.
RealisedWhenQuiet ==
    "failed" \notin marks /\ (\A d \in Deployers : call[d] = NoDeploy) => Realised
=============================================================================
