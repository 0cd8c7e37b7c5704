------------------------------- MODULE Projects -------------------------------
(***************************************************************************)
(* The tree of projects, the apps in it and who holds access where          *)
(* (src/src/platform/projects.rs, content/store.rs, platform/upload.rs).    *)
(* A path is a sequence of names; an app's path is its project's and its    *)
(* name, and a row of access counts at its path and below.  Changes that    *)
(* hold moves run one at a time, in steps, and may fail at any of them: a   *)
(* project's move is then left in its journal.  Publishes, rows, locks and  *)
(* gates change beside them.                                                *)
(***************************************************************************)
EXTENDS Integers, Sequences

CONSTANTS Apps,       \* names, some of them of projects too
          ProjectPaths,
          Publishers, \* of first publishes, each with its own permit
          Changes     \* bound: rows, locks and gates set, publishes, changes that hold moves

Absent == <<"absent">>
Root == <<>>

\* What names are made of, and the paths there may be of them.
PathNames == Apps \union UNION {{p[i] : i \in 1..Len(p)} : p \in ProjectPaths}

Parent(path) == SubSeq(path, 1, Len(path) - 1)

ASSUME ProjectsAssumption ==
    /\ Apps # {}
    /\ ProjectPaths \subseteq Seq(PathNames)
    /\ Root \notin ProjectPaths /\ Absent \notin ProjectPaths
    /\ \A p \in ProjectPaths : Len(p) > 1 => Parent(p) \in ProjectPaths
    /\ Changes \in Nat

VARIABLES tree,     \* the projects: locked, and their general access
          place,    \* the project each app names, Absent before its first publish
          access,     \* where an account holds access
          journal,  \* platform.relocations, or relocating.json
          mover,    \* the call that holds moves
          permit,   \* each publisher's
          changes,  \* how many so far
          beside,   \* history: "row" once one was given where a move was going,
                    \* "project" once one was created while a move was left
          late      \* history: apps first published beside a change that holds moves,
                    \* or on a ticket older than the tree

projectsVars == <<tree, place, access, journal, mover, permit, changes, beside, late>>

NoMove == [from |-> Root, to |-> Root]
Folders == ProjectPaths \union {Root}
AppPath(folder, a) == Append(folder, a)
RowPaths == ProjectPaths \union {AppPath(f, a) : f \in Folders, a \in Apps}

\* prefix_covers.
Covers(prefix, path) == Len(prefix) <= Len(path) /\ \A i \in 1..Len(prefix) : prefix[i] = path[i]

\* The path once `from` has become `to`.
Renamed(path, from, to) ==
    IF from # Root /\ Covers(from, path) THEN to \o SubSeq(path, Len(from) + 1, Len(path)) ELSE path

Existing == {a \in Apps : place[a] # Absent}

AnyApp == CHOOSE a \in Apps : TRUE
NoMover == [op |-> "none", at |-> "idle", app |-> AnyApp, from |-> Root, to |-> Root,
            left |-> {}, goes |-> FALSE]
NoPermit == [at |-> "none", app |-> AnyApp, folder |-> Root, new |-> FALSE]

Settings == [locked : BOOLEAN, gate : {"unset", "public", "restricted"}]

ProjectsTypeOK ==
    /\ \A p \in DOMAIN tree : tree[p] \in Settings
    /\ journal \in [from : Folders, to : Folders]

-----------------------------------------------------------------------------
(* Who may open what.                                                      *)

\* locked_prefixes_blocking: the locks of a tree, and while a move is left those
\* of where it goes at where it came from.
LocksOf(t, j) ==
    LET locked == {p \in DOMAIN t : t[p].locked}
    IN  locked \union {Renamed(p, j.to, j.from) : p \in {q \in locked : j # NoMove /\ Covers(j.to, q)}}

\* lock_over: the outermost over the path, in a set of one.
LockOver(path, locks) ==
    {l \in locks : Covers(l, path) /\ \A m \in locks : Covers(m, path) => Len(l) <= Len(m)}

\* row_counts.
RowCounts(prefix, path, lock) == Covers(prefix, path) /\ \A l \in lock : Covers(prefix, l)

\* explain_scope, whether there is any.
ScopeAt(path, held, locks) == \E prefix \in held : RowCounts(prefix, path, LockOver(path, locks))

\* resolve_gate, for an app without a gate or rules of its own; the site's
\* default is restricted.
ProjectGate(t, folder) ==
    LET chain == {p \in DOMAIN t : Covers(p, folder)}
        lock == LockOver(folder, {p \in chain : t[p].locked})
        set == {p \in chain : t[p].gate # "unset" /\ \A l \in lock : Len(p) <= Len(l)}
    IN  /\ folder \in DOMAIN t
        /\ \E p \in set : t[p].gate = "public" /\ \A q \in set : Len(q) <= Len(p)

OpenIn(t, folder, a, held, locks) ==
    ProjectGate(t, folder) \/ ScopeAt(AppPath(folder, a), held, locks)

\* Whether the account may open a published app.
Open(a) == OpenIn(tree, place[a], a, access, LocksOf(tree, journal))

\* The same once everything at one path is at another.
OpenWith(a, from, to) ==
    LET t == [p \in {Renamed(q, from, to) : q \in DOMAIN tree} |->
                 tree[CHOOSE q \in DOMAIN tree : Renamed(q, from, to) = p]]
        held == {Renamed(r, from, to) : r \in access}
    IN  OpenIn(t, Renamed(place[a], from, to), a, held, LocksOf(t, NoMove))

-----------------------------------------------------------------------------

ProjectsInit ==
    /\ \E ps \in SUBSET ProjectPaths :
          /\ \A p \in ps : Len(p) > 1 => Parent(p) \in ps
          /\ tree = [p \in ps |-> [locked |-> FALSE, gate |-> "unset"]]
    /\ place \in [Apps -> DOMAIN tree \union {Root, Absent}]
    /\ \A a \in Existing : AppPath(place[a], a) \notin DOMAIN tree
    /\ access = {}
    /\ journal = NoMove
    /\ mover = NoMover
    /\ permit = [p \in Publishers |-> NoPermit]
    /\ changes = 0
    /\ beside = {}
    /\ late = {}

Counted == changes < Changes /\ changes' = changes + 1

-----------------------------------------------------------------------------
(* Rows, locks and gates: each one step, under no hold.                    *)

Sets ==
    /\ Counted
    /\ UNCHANGED <<place, journal, mover, permit, late>>

\* grant and revoke: the path need be nothing's.
SetsRow(r) ==
    /\ Sets
    /\ access' = IF r \in access THEN access \ {r} ELSE access \union {r}
    /\ beside' = IF r \notin access /\ \E to \in {mover.to, journal.to} : to # Root /\ Covers(to, r)
                 THEN beside \union {"row"} ELSE beside
    /\ UNCHANGED tree

SetsLock(p) ==
    /\ Sets
    /\ p \in DOMAIN tree
    /\ tree' = [tree EXCEPT ![p].locked = ~@]
    /\ UNCHANGED <<access, beside>>

SetsGate(p, g) ==
    /\ Sets
    /\ p \in DOMAIN tree
    /\ tree[p].gate # g
    /\ \A q \in DOMAIN tree \ {p} : Covers(q, p) => ~tree[q].locked
    /\ tree' = [tree EXCEPT ![p].gate = g]
    /\ UNCHANGED <<access, beside>>

-----------------------------------------------------------------------------
(* First publishes.                                                        *)

\* allowed_to_publish, when the upload is asked for.
Asks(p, a, folder) ==
    /\ Counted
    /\ permit[p].at = "none"
    /\ a \notin Existing
    /\ folder \in DOMAIN tree \union {Root}
    /\ AppPath(folder, a) \notin DOMAIN tree
    /\ permit' = [permit EXCEPT ![p] = [at |-> "asked", app |-> a, folder |-> folder, new |-> FALSE]]
    /\ UNCHANGED <<tree, place, access, journal, mover, beside, late>>

\* store_for_publisher: whether there is an app, and then the files.
Arrives(p) ==
    LET new == permit[p].app \notin Existing
    IN  /\ permit[p].at = "asked"
        /\ permit' = [permit EXCEPT ![p].at = IF new THEN "meta" ELSE "store", ![p].new = new]
        /\ UNCHANGED <<tree, place, access, journal, mover, changes, beside, late>>

LandsLate(a, folder) ==
    LET quiet == mover = NoMover /\ journal = NoMove
        there == folder \in DOMAIN tree \union {Root} /\ AppPath(folder, a) \notin DOMAIN tree
    IN  late' = IF place'[a] # place[a] /\ ~(quiet /\ there) THEN late \union {a} ELSE late

\* forget_stale_meta, also of who published in between.
ForgetsMeta(p) ==
    LET a == permit[p].app
    IN  /\ permit[p].at = "meta"
        /\ place' = [place EXCEPT ![a] = IF @ = Absent THEN Absent ELSE Root]
        /\ permit' = [permit EXCEPT ![p].at = "store"]
        /\ LandsLate(a, Root)
        /\ UNCHANGED <<tree, access, journal, mover, changes, beside>>

StoresFiles(p) ==
    LET a == permit[p].app
    IN  /\ permit[p].at = "store"
        /\ place' = [place EXCEPT ![a] = IF @ = Absent THEN Root ELSE @]
        /\ permit' = [permit EXCEPT ![p].at = IF permit[p].new THEN "forget" ELSE "stamp"]
        /\ LandsLate(a, Root)
        /\ UNCHANGED <<tree, access, journal, mover, changes, beside>>

\* forget_stale_access.
ForgetsAccess(p) ==
    LET a == permit[p].app
    IN  /\ permit[p].at = "forget"
        /\ access' = {r \in access : ~Covers(AppPath(permit[p].folder, a), r)}
        /\ permit' = [permit EXCEPT ![p].at = "stamp"]
        /\ UNCHANGED <<tree, place, journal, mover, changes, beside, late>>

\* stamp_new_app, also when the app was there.
Stamps(p) ==
    /\ permit[p].at = "stamp"
    /\ place' = [place EXCEPT ![permit[p].app] = IF @ = Root THEN permit[p].folder ELSE @]
    /\ permit' = [permit EXCEPT ![p] = [NoPermit EXCEPT !.at = "done"]]
    /\ LandsLate(permit[p].app, permit[p].folder)
    /\ UNCHANGED <<tree, access, journal, mover, changes, beside>>

\* Refused, or stopped on the way.
GivesUp(p) ==
    /\ permit[p].at \in {"asked", "meta", "store", "forget", "stamp"}
    /\ permit' = [permit EXCEPT ![p] = [NoPermit EXCEPT !.at = "done"]]
    /\ UNCHANGED <<tree, place, access, journal, mover, changes, beside, late>>

-----------------------------------------------------------------------------
(* Changes that hold moves.                                                *)

MoverAt(op, at) == mover.op = op /\ mover.at = at

StepsTo(at) == mover' = [mover EXCEPT !.at = at]

LetsGo == mover' = NoMover

HoldsRelocations(op, at, a, from, to) ==
    /\ mover = NoMover
    /\ mover' = [NoMover EXCEPT !.op = op, !.at = at, !.app = a, !.from = from, !.to = to]
    /\ UNCHANGED <<tree, place, access, journal, permit, beside, late>>

\* create goes straight to its work; the others finish what was left first.
CreateProject(path) == Counted /\ HoldsRelocations("create", "check", AnyApp, Root, path)
MoveApp(a, folder) == Counted /\ HoldsRelocations("app", "resume", a, Root, folder)
\* A bound of the instance: what is below `from` has its place below `to`.
Relocate(from, to) ==
    /\ Counted
    /\ ~Covers(from, to)
    /\ \A p \in DOMAIN tree : Renamed(p, from, to) \in ProjectPaths
    /\ HoldsRelocations("project", "resume", AnyApp, from, to)
RemoveProject(path) == Counted /\ HoldsRelocations("remove", "resume", AnyApp, path, Root)

\* resume_pending, when a process starts.
Boots == journal # NoMove /\ HoldsRelocations("boot", "resume", AnyApp, Root, Root) /\ UNCHANGED changes

\* An error, or the end of the process, at any await.
ChangeFails ==
    /\ mover # NoMover
    /\ LetsGo
    /\ UNCHANGED <<tree, place, access, journal, permit, changes, beside, late>>

Quiet == UNCHANGED <<permit, changes, late>>

\* resume_held.
Resumes ==
    /\ mover.at = "resume"
    /\ IF journal # NoMove THEN StepsTo("list") ELSE IF mover.op = "boot" THEN LetsGo ELSE StepsTo("check")
    /\ UNCHANGED <<tree, place, access, journal, beside>> /\ Quiet

\* finish, on what the journal says: the apps inside, each with its project ...
ListsApps ==
    /\ mover.at = "list"
    /\ mover' = [mover EXCEPT !.at = "apps",
                              !.left = {<<a, place[a]>> : a \in
                                            {b \in Existing : place[b] # Root /\ Covers(journal.from, place[b])}}]
    /\ UNCHANGED <<tree, place, access, journal, beside>> /\ Quiet

\* ... one after the other, by what was listed, whatever a publish made of it since.
MovesOne(a) ==
    /\ mover.at = "apps"
    /\ \E listed \in mover.left :
          /\ listed[1] = a
          /\ place' = [place EXCEPT ![a] = Renamed(listed[2], journal.from, journal.to)]
          /\ mover' = [mover EXCEPT !.left = @ \ {listed}]
    /\ UNCHANGED <<tree, access, journal, beside>> /\ Quiet

TreeMoves == journal.from \in DOMAIN tree /\ journal.to \notin DOMAIN tree

\* relocate_folder.
TreeRenamed ==
    [p \in {Renamed(q, journal.from, journal.to) : q \in DOMAIN tree} |->
        tree[CHOOSE q \in DOMAIN tree : Renamed(q, journal.from, journal.to) = p]]

MovesTree ==
    /\ mover.at = "apps" /\ mover.left = {}
    /\ tree' = IF TreeMoves THEN TreeRenamed ELSE tree
    /\ StepsTo("scopes")
    /\ UNCHANGED <<place, access, journal, beside>> /\ Quiet

\* Mutant: the rows go before the tree.
MovesScopesFirst ==
    /\ mover.at = "apps" /\ mover.left = {}
    /\ access' = {Renamed(r, journal.from, journal.to) : r \in access}
    /\ UNCHANGED <<tree, place, journal, mover, beside>> /\ Quiet

MovesScopes ==
    /\ mover.at = "scopes"
    /\ access' = {Renamed(r, journal.from, journal.to) : r \in access}
    /\ StepsTo("clear")
    /\ UNCHANGED <<tree, place, journal, beside>> /\ Quiet

EndsRelocation ==
    /\ mover.at = "clear"
    /\ journal' = NoMove
    /\ IF mover.goes \/ mover.op = "boot" THEN LetsGo ELSE StepsTo("check")
    /\ UNCHANGED <<tree, place, access, beside>> /\ Quiet

AppPaths(apps) == {AppPath(place[a], a) : a \in apps}

\* Mutant: the apps' paths are not looked at.
ProducedNothing == {}

Produced == {Renamed(p, mover.from, mover.to) : p \in {q \in DOMAIN tree : Covers(mover.from, q)}}

\* create_folder.
ChecksCreate ==
    /\ MoverAt("create", "check")
    /\ IF mover.to \in AppPaths(Existing) THEN LetsGo ELSE StepsTo("insert")
    /\ UNCHANGED <<tree, place, access, journal, beside>> /\ Quiet

Inserts ==
    /\ MoverAt("create", "insert")
    /\ IF mover.to \notin DOMAIN tree /\ Parent(mover.to) \in DOMAIN tree \union {Root}
       THEN /\ tree' = [p \in DOMAIN tree \union {mover.to} |->
                          IF p = mover.to THEN [locked |-> FALSE, gate |-> "unset"] ELSE tree[p]]
            /\ beside' = IF journal # NoMove THEN beside \union {"project"} ELSE beside
       ELSE UNCHANGED <<tree, beside>>
    /\ LetsGo
    /\ UNCHANGED <<place, access, journal>> /\ Quiet

\* move_app_held.
ChecksApp ==
    LET a == mover.app
        from == AppPath(place[a], a)
        to == AppPath(mover.to, a)
    IN  /\ MoverAt("app", "check")
        /\ IF a \in Existing /\ mover.to \in DOMAIN tree \union {Root} /\ to \notin DOMAIN tree /\ from # to
           THEN mover' = [mover EXCEPT !.at = "meta", !.from = from]
           ELSE LetsGo
        /\ UNCHANGED <<tree, place, access, journal, beside>> /\ Quiet

NamesProject ==
    /\ MoverAt("app", "meta")
    /\ place' = [place EXCEPT ![mover.app] = mover.to]
    /\ StepsTo("rows")
    /\ UNCHANGED <<tree, access, journal, beside>> /\ Quiet

\* rename_scope: its error is dropped (ChangeFails).
RowsFollow ==
    /\ MoverAt("app", "rows")
    /\ access' = {IF r = mover.from THEN AppPath(mover.to, mover.app) ELSE r : r \in access}
    /\ LetsGo
    /\ UNCHANGED <<tree, place, journal, beside>> /\ Quiet

\* relocate_held: both ends are asked for again, and no path the move makes may
\* be an app's.
ChecksRelocate ==
    LET others == {a \in Existing : place[a] = Root \/ ~Covers(mover.from, place[a])}
    IN  /\ MoverAt("project", "check")
        /\ IF /\ mover.from \in DOMAIN tree
              /\ Parent(mover.to) \in DOMAIN tree \union {Root}
              /\ mover.to \notin DOMAIN tree
              /\ Produced \intersect AppPaths(others) = {}
           THEN StepsTo("sweep") ELSE LetsGo
        /\ UNCHANGED <<tree, place, access, journal, beside>> /\ Quiet

\* Rows at the new path belong to nothing.
SweepsRows ==
    /\ MoverAt("project", "sweep")
    /\ access' = {r \in access : ~Covers(mover.to, r)}
    /\ StepsTo("begin")
    /\ UNCHANGED <<tree, place, journal, beside>> /\ Quiet

BeginsRelocation ==
    /\ MoverAt("project", "begin")
    /\ journal' = [from |-> mover.from, to |-> mover.to]
    /\ mover' = [mover EXCEPT !.at = "list", !.goes = TRUE]
    /\ UNCHANGED <<tree, place, access, beside>> /\ Quiet

\* Mutant: the apps inside are not looked for.
EmptyOfProjects(path) == \A p \in DOMAIN tree \ {path} : ~Covers(path, p)

EmptyProject(path) ==
    /\ \A p \in DOMAIN tree \ {path} : ~Covers(path, p)
    /\ \A a \in Existing : place[a] = Root \/ ~Covers(path, place[a])

\* remove_held: only of an empty project.
ChecksRemove ==
    LET path == mover.from
    IN  /\ MoverAt("remove", "check")
        /\ IF path \in DOMAIN tree /\ EmptyProject(path)
           THEN StepsTo("rows") ELSE LetsGo
        /\ UNCHANGED <<tree, place, access, journal, beside>> /\ Quiet

RemovesRows ==
    /\ MoverAt("remove", "rows")
    /\ access' = {r \in access : ~Covers(mover.from, r)}
    /\ StepsTo("tree")
    /\ UNCHANGED <<tree, place, journal, beside>> /\ Quiet

RemovesProject ==
    /\ MoverAt("remove", "tree")
    /\ tree' = [p \in DOMAIN tree \ {mover.from} |-> tree[p]]
    /\ LetsGo
    /\ UNCHANGED <<place, access, journal, beside>> /\ Quiet

-----------------------------------------------------------------------------

ProjectsNext ==
    \/ \E r \in RowPaths : SetsRow(r)
    \/ \E p \in ProjectPaths :
          \/ SetsLock(p)
          \/ \E g \in {"unset", "public", "restricted"} : SetsGate(p, g)
          \/ CreateProject(p) \/ RemoveProject(p)
          \/ \E q \in ProjectPaths : Relocate(p, q)
    \/ \E a \in Apps, f \in Folders : MoveApp(a, f)
    \/ \E p \in Publishers :
          \/ \E a \in Apps, f \in Folders : Asks(p, a, f)
          \/ Arrives(p) \/ ForgetsMeta(p) \/ StoresFiles(p) \/ ForgetsAccess(p) \/ Stamps(p) \/ GivesUp(p)
    \/ Boots \/ ChangeFails \/ Resumes
    \/ ListsApps \/ (\E a \in Apps : MovesOne(a)) \/ MovesTree \/ MovesScopes \/ EndsRelocation
    \/ ChecksCreate \/ Inserts
    \/ ChecksApp \/ NamesProject \/ RowsFollow
    \/ ChecksRelocate \/ SweepsRows \/ BeginsRelocation
    \/ ChecksRemove \/ RemovesRows \/ RemovesProject

ProjectsSpec == ProjectsInit /\ [][ProjectsNext]_projectsVars

-----------------------------------------------------------------------------

Ambiguous == journal.from \in DOMAIN tree /\ journal.to \in DOMAIN tree

\* projects.rs:310-318, "the order that keeps every state in between at most as
\* open as before and after it": in the middle of a project's move, whoever may
\* open an app by what is set on projects may do so before the move or after it,
\* whatever publishes and locks come beside it.  A row given where the move is
\* going counts from then on, and is left out.
RowsOpenNothing ==
    journal # NoMove /\ ~Ambiguous /\ beside = {} =>
        \A a \in Existing :
            Open(a) => OpenWith(a, journal.to, journal.from) \/ OpenWith(a, journal.from, journal.to)

\* store.rs:680-683, 695, projects.rs:136-139, 171-172 and 367-371: no project
\* has an app's path, where rows set on one would count on the other, and between
\* changes every app names a project that is there, whichever changes are made
\* and stop.  Two ways to fail are left out, by name: an app first published
\* beside a change or on an old ticket, and a project created while a move is
\* left in its journal (projects.rs:124 does not finish it first).
AppsFitTheTree ==
    "project" \notin beside =>
        /\ AppPaths(Existing \ late) \intersect DOMAIN tree = {}
        /\ journal = NoMove /\ mover = NoMover =>
               \A a \in Existing \ late : place[a] \in DOMAIN tree \union {Root}

=============================================================================
