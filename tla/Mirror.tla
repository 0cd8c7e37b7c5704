------------------------------- MODULE Mirror -------------------------------
(***************************************************************************)
(* The repository an app's source is kept in (src/src/platform/github.rs): *)
(* publishes that push, webhooks that pull, and the link between the app   *)
(* and the branch.  Every call of GitHub or of a store is one step, and    *)
(* other requests' come in between.  What a commit or an archive holds is  *)
(* a name: of who published it, or the number of who pushed it.            *)
(***************************************************************************)
EXTENDS Integers, Sequences, FiniteSets

CONSTANTS Requests,  \* the requests made, each once
          Pushes     \* bound: commits people push to the branch themselves

ASSUME MirrorAssumption == Pushes \in Nat

VARIABLES branch,   \* the commits of the linked branch, by what they hold
          hooks,    \* pushes GitHub has not told of: it may never do
          source,   \* <app>.source: what it holds, and the commit it is from or became
          link,     \* <app>.repo
          request,  \* the requests, by what they have read
          pushed    \* commits people pushed so far

mirrorVars == <<branch, hooks, source, link, request, pushed>>

\* A link that is not live is as good as none.
NoLink == [live |-> FALSE, push |-> 0, deployed |-> 0]

NoRequest == [op |-> "none", at |-> "idle", tracked |-> 0, sha |-> 0, holds |-> <<0, 0>>, alone |-> TRUE]

Commits == 1..Len(branch)

MirrorInit ==
    /\ \/ branch = <<>> /\ link = NoLink
       \/ branch = <<1>> /\ link = NoLink
       \/ branch = <<1>> /\ link = [live |-> TRUE, push |-> 1, deployed |-> 1]
    /\ hooks = {}
    /\ source = <<1, Len(branch)>>
    /\ request = [r \in Requests |-> NoRequest]
    /\ pushed = 0

-----------------------------------------------------------------------------

Stands(r, at) == request[r].at = at

Working == {r \in Requests : request[r].at \notin {"idle", "done", "failed"}}

\* A request is alone if no other was under way at any moment of it.
Comes(r, op, at, sha, holds) ==
    /\ Stands(r, "idle")
    /\ request' = [q \in Requests |->
                     IF q = r THEN [NoRequest EXCEPT !.op = op, !.at = at, !.sha = sha, !.holds = holds,
                                                     !.alone = Working = {}]
                     ELSE [request[q] EXCEPT !.alone = @ /\ q \notin Working]]

\* Of a request that is over nothing is left but what it was.
Moves(r, at) ==
    request' = [request EXCEPT ![r] = IF at \in {"done", "failed"}
                                      THEN [NoRequest EXCEPT !.op = request[r].op, !.at = at]
                                      ELSE [request[r] EXCEPT !.at = at]]

\* GitHub or a store does not answer, or the process ends.
Fails(r) ==
    /\ r \in Working
    /\ Moves(r, "failed")
    /\ UNCHANGED <<branch, hooks, source, link, pushed>>

\* update_link: the live link is changed with it held, and there is no other.
UpdateLink(r, push, deployed, then) ==
    IF link.live
    THEN link' = [link EXCEPT !.push = push, !.deployed = deployed] /\ Moves(r, then)
    ELSE Moves(r, "failed") /\ UNCHANGED link

-----------------------------------------------------------------------------
(* Publishing the source, and the push that follows.                       *)

\* An archive may hold what the branch held before.  One that comes with a
\* deploy token is not pushed.
PublishSource(r, holds, push) ==
    /\ Comes(r, "publish", IF push THEN "link" ELSE "done", 0, <<holds, 0>>)
    /\ source' = <<holds, 0>>
    /\ UNCHANGED <<branch, hooks, link, pushed>>

\* push_source, and pull: the link is read once.
ReadLink(r) ==
    /\ Stands(r, "link")
    /\ Moves(r, IF ~link.live THEN "done" ELSE IF request[r].op = "publish" THEN "tracked" ELSE "head")
    /\ UNCHANGED <<branch, hooks, source, link, pushed>>

\* What the project no longer has is looked for in the tip.
ReadTracked(r) ==
    /\ Stands(r, "tracked")
    /\ request' = [request EXCEPT ![r].tracked = Len(branch), ![r].at = "parent"]
    /\ UNCHANGED <<branch, hooks, source, link, pushed>>

\* commit_tree reads the tip anew, to build on it; the same files as the tip's make
\* no commit.
ReadParent(r) ==
    /\ Stands(r, "parent")
    /\ IF branch[Len(branch)] = request[r].holds[1]
       THEN Moves(r, "done")
       ELSE request' = [request EXCEPT ![r].sha = Len(branch), ![r].at = "move"]
    /\ UNCHANGED <<branch, hooks, source, link, pushed>>

\* The branch is moved without force: not if others moved it since.  What came to
\* it between the two looks stays beside the project's files.
MoveBranch(r) ==
    /\ Stands(r, "move")
    /\ IF request[r].sha = Len(branch)
       THEN LET sha == Len(branch) + 1
                whole == request[r].tracked = request[r].sha
            IN  /\ branch' = Append(branch, IF whole THEN request[r].holds[1] ELSE sha)
                /\ hooks' = hooks \union {sha}
                /\ source' = IF whole /\ source = request[r].holds THEN <<source[1], sha>> ELSE source
                /\ request' = [request EXCEPT ![r].sha = sha, ![r].at = "record"]
       ELSE Moves(r, "failed") /\ UNCHANGED <<branch, hooks, source>>
    /\ UNCHANGED <<link, pushed>>

RecordPush(r) ==
    /\ Stands(r, "record") /\ request[r].op = "publish"
    /\ UpdateLink(r, request[r].sha, request[r].sha, "done")
    /\ UNCHANGED <<branch, hooks, source, pushed>>

\* record_deployed: a publisher says which commit the app came from.
RecordDeployed(r, sha) ==
    /\ Stands(r, "idle")
    /\ link.live
    /\ UpdateLink(r, link.push, sha, "done")
    /\ UNCHANGED <<branch, hooks, source, pushed>>

-----------------------------------------------------------------------------
(* Pulling.                                                                *)

\* record_event: a commit that the link names already is our own.
HookHeard(r, sha) ==
    /\ sha \in hooks
    /\ Comes(r, "hook", IF ~link.live \/ link.push = sha THEN "done" ELSE "heard", sha, <<0, 0>>)
    /\ hooks' = hooks \ {sha}
    /\ UNCHANGED <<branch, source, link, pushed>>

RecordHeard(r) ==
    /\ Stands(r, "heard")
    /\ UpdateLink(r, request[r].sha, link.deployed, "link")
    /\ UNCHANGED <<branch, hooks, source, pushed>>

Pull(r) ==
    /\ Comes(r, "pull", "link", 0, <<0, 0>>)
    /\ UNCHANGED <<branch, hooks, source, link, pushed>>

\* pull_into: the head is read, and then the branch is fetched, by its name.
ReadHead(r) ==
    /\ Stands(r, "head")
    /\ request' = [request EXCEPT ![r].sha = Len(branch), ![r].at = "tarball"]
    /\ UNCHANGED <<branch, hooks, source, link, pushed>>

Tarball(r) ==
    /\ Stands(r, "tarball")
    /\ request' = [request EXCEPT ![r].holds = <<branch[Len(branch)], Len(branch)>>, ![r].at = "store"]
    /\ UNCHANGED <<branch, hooks, source, link, pushed>>

StorePulled(r) ==
    /\ Stands(r, "store")
    /\ source' = request[r].holds
    /\ Moves(r, IF request[r].op = "import" THEN "write" ELSE "record")
    /\ UNCHANGED <<branch, hooks, link, pushed>>

\* Mutant: the link is told of the branch's head as it is now.
HeadNow(r) == Len(branch)

HeadRead(r) == request[r].sha

RecordPulled(r) ==
    /\ Stands(r, "record") /\ request[r].op # "publish"
    /\ UpdateLink(r, HeadRead(r), link.deployed, "done")
    /\ UNCHANGED <<branch, hooks, source, pushed>>

-----------------------------------------------------------------------------
(* Linking.                                                                *)

Import(r) ==
    /\ ~link.live /\ branch # <<>>
    /\ Comes(r, "import", "head", 0, <<0, 0>>)
    /\ UNCHANGED <<branch, hooks, source, link, pushed>>

Create(r) ==
    /\ ~link.live
    /\ Comes(r, "create", "create", 0, source)
    /\ UNCHANGED <<branch, hooks, source, link, pushed>>

\* A repository of the name may be there already: GitHub refuses.
CreateRepo(r) ==
    /\ Stands(r, "create")
    /\ IF branch = <<>>
       THEN /\ branch' = <<request[r].holds[1]>>
            /\ hooks' = {1}
            /\ source' = IF source = request[r].holds THEN <<source[1], 1>> ELSE source
            /\ request' = [request EXCEPT ![r].sha = 1, ![r].at = "write"]
       ELSE Moves(r, "failed") /\ UNCHANGED <<branch, hooks, source>>
    /\ UNCHANGED <<link, pushed>>

\* write_link replaces whatever is there.
WriteLink(r) ==
    /\ Stands(r, "write")
    /\ link' = [live |-> TRUE, push |-> request[r].sha,
                deployed |-> IF request[r].op = "create" THEN request[r].sha ELSE 0]
    /\ Moves(r, "done")
    /\ UNCHANGED <<branch, hooks, source, pushed>>

Disconnect(r) ==
    /\ Stands(r, "idle")
    /\ link.live
    /\ link' = NoLink
    /\ Moves(r, "done")
    /\ UNCHANGED <<branch, hooks, source, pushed>>

-----------------------------------------------------------------------------

\* Someone pushes to the branch: a commit that holds what none did before.
PersonPushes ==
    /\ branch # <<>>
    /\ pushed < Pushes
    /\ pushed' = pushed + 1
    /\ branch' = Append(branch, Len(branch) + 1)
    /\ hooks' = hooks \union {Len(branch) + 1}
    /\ UNCHANGED <<source, link, request>>

MirrorNext ==
    \/ \E r \in Requests :
          \/ \E holds \in {r} \union {branch[n] : n \in Commits}, push \in BOOLEAN : PublishSource(r, holds, push)
          \/ ReadLink(r) \/ ReadTracked(r) \/ ReadParent(r) \/ MoveBranch(r) \/ RecordPush(r)
          \/ \E sha \in Commits : RecordDeployed(r, sha)
          \/ \E sha \in hooks : HookHeard(r, sha)
          \/ RecordHeard(r) \/ Pull(r) \/ ReadHead(r) \/ Tarball(r) \/ StorePulled(r) \/ RecordPulled(r)
          \/ Import(r) \/ Create(r) \/ CreateRepo(r) \/ WriteLink(r) \/ Disconnect(r)
          \/ Fails(r)
    \/ PersonPushes

MirrorSpec == MirrorInit /\ [][MirrorNext]_mirrorVars

-----------------------------------------------------------------------------

\* github.rs:10-11: a pull that no other request overlapped leaves the app with
\* the commit the link names, or one after it: a push the link has seen, and will
\* call its own when it is told of it, is in the archive.
SeenIsStored ==
    [][\A r \in Requests :
          /\ Stands(r, "record") /\ request'[r].at = "done"
          /\ request[r].op \in {"pull", "hook"} /\ request[r].alone
          => link'.push <= source'[2]]_mirrorVars

=============================================================================
