# Toolsite in TLA+

Toolsite serves small apps (static files, a WebAssembly handler, an SQLite
database each) that people and agents upload to it. One process can run on
files alone; several can share a Postgres database and a bucket. This directory
models the parts of `src/src` in which steps of several actors meet: what is
kept in Postgres and raced for by processes, what is kept in memory and raced
for by tasks and threads of one process, and what is done in several steps that
may stop between any two.

Modules are named for what they model. Every definition that stands for code is
listed in `PROJECT.json` under `map` with the lines it stands for.

## Running

    tlc -workers 2 -config Loops.cfg MCLoops
    tlapm JobSlotsProofs.tla

Runs and their configurations are listed under `runs` in `PROJECT.json`;
`expect: violation` marks those that show that something the repository says
of the program does not hold. Mutants, under `mutants`, are small bugs written
beside the definition they would replace (`\* Mutant: ...`); each breaks the
property it is listed with.

## The system: an inventory

| Part | State it keeps | Operations | What is hard | What makes it correct |
|---|---|---|---|---|
| Leases `state/leases.rs` | rows of name, group, epoch, until, again | acquire, renew, ask_again, again_or_release, orphans | reads and writes in separate statements, delayed renewals, lost answers | an epoch tells one holder from the next; a request is not lost; the group's ceiling |
| Rate windows `state/rate.rs` | counts by key and slice | spend, which also forgets | the edge of the window | never one more than allowed |
| Runner registry `state/runners.rs` | heartbeat rows; each process's view of its peers | register, beat, leave | beats that fail, pauses, deaths, rows that outlive their process | one process opens app databases; one left alone comes to |
| Jobs `platform/schedule.rs`, `platform/records` | job records, turns claimed, slots | run, start from the app, tick, take over, queued runs | two schedulers with two clocks, crashes at every await, futures dropped | one holder of a slot at a time, a turn once, a queued run comes unless its keeper went, the app's ceiling |
| Scheduler loop `platform/schedule.rs` | the sleep, the notification permit | plan, sleep, tick | notifications during the sleep | only notifications hold a due turn back; owed runs are looked for once they pause |
| Connection pool `state/pg.rs`, `content/files/bucket.rs`, `content/catalog/postgres.rs` | connections, turns, places, advisory locks | take a turn, hold moves, count, release | callers that hold one connection and ask for another | whoever asks is served |
| Live connections `runtime/connections.rs`, `platform/connections.rs`, `websocket.rs`, `tcp.rs` | registry of connections, topics, queues; a loop and a worker for each | register, deliver, accept, send, publish, close, re-check | a peer that does not read, events out of order around connect, half-closed peers, an app hidden at any moment | snapshot then the rest, a close event for each that ran |
| UDP and ports `platform/udp.rs`, `ports.rs` | peers by address, their queues, the count of waiting bytes, credit for replies | datagram in, out, end of a connection | a remote that comes back while its connection ends | the count is what waits; the newest connection is found; replies are earned |
| Resident instances `runtime/resident.rs` | a thread, a queue and an instance for each app | deliver, stop, claim, tick, failed | stops and deploys against connects, full queue, a thread that ends late | open connections are known; after a deploy is done no older code runs |
| Publishing `platform/upload.rs`, `content/files`, `content/catalog`, `platform/trash.rs` | objects, generations, caches, turns | publish, unpublish, remove, restore, read | writers that die, or whose puts outlive their caller and turn; caches by generation; removal in two stores | once it is done, what was done is what is served; nothing is stranded |
| Apps' stored files `runtime/blobs.rs`, `platform/blob_upload.rs` | a file and its mark, temporary files, uploads in the bucket | put, writers, receive, get, stat, delete | pieces, lost answers, drops, deaths | a read is all of one write; nothing is left behind |
| App databases and row policies `runtime/migrate.rs`, `access.rs`, `platform/manifest.rs` | SQLite per app, `user_version`, the ladder, generated views and their names in the meta | migrate, declare, regenerate | two that rebuild from what they read before, stops half way | the view is the declared one on the schema as it is |
| Inline uploads `platform/inline_upload.rs` | a ticket and pieces | begin, chunk, finish, sweep | overlapping chunks and finishes | what is handed over is what was sent |
| OAuth grants `platform/oauth_store` | codes, access and refresh tokens | consent, exchange, rotate, revoke, sweep | a revocation in the middle, one code twice, roll-backs | each call is whole; a code or token trades once |
| Accounts and two-step sign-in `accounts` | users, sessions, pending sign-ins, TOTP steps, recovery codes, failures | sign in, change password, enable, confirm, turn off, reset, invite | each spread over several store calls | a changed password, or two-step sign-in turned on, leaves nothing open that it should have closed, by whatever door it came; a code opens once; tries are counted |
| Projects and access `platform/projects.rs`, `content/store.rs`, `accounts/users.rs` | a tree with locks, access rows by path, a journal of the move under way | create, move, remove, first publish, grant | a move in three steps over apps, tree and rows, finished later | nothing is open in the middle that is not before or after; apps fit the tree |
| GitHub sync `platform/github.rs` | a link per app, what it has seen and stored | create, import, push, pull, webhook | the branch moves meanwhile | a pull that nothing overlapped, and that was answered, stored no less than the link calls seen |
| Transfer and boot `platform/transfer.rs`, `main.rs`, `state/mod.rs` | both stores, a flag, a marker | copy, compare, start | commands that die and are run again, servers beside them | where the site lives is what was last written, but for what the code does not look at again; no start on another copy |

The other parts (serving, MCP, admin pages, tokens, tickets, secrets, command
line) are listed with the reason they are not modelled under `components` in
`PROJECT.json`. How they meet: handlers run in the wasm runtime, called by
requests (`serve.rs`), by jobs (`schedule.rs`) and by connection events
(`platform/connections.rs`, through `resident.rs` when the app is resident); all
of them reach shared state through `state::Stores`, which is either in memory
and on files or in Postgres and a bucket; hiding or removing an app is told to
connections and instances by `runtime/events.rs`. A deploy is an upload of each
part by its own ticket: files and handler (`Publishes`, `Residents`), migrations
and manifest (`Schema`).

## Modules

| Module | Models | Uses |
|---|---|---|
| `Leases` | the lease table, one operator per operation, time as `until` counted down | |
| `JobSlots` | tasks that run jobs, every await a boundary of steps | EXTENDS `Leases` |
| `JobTurns` | the turns of one job, schedulers with their own clocks | |
| `Wakes` | the scheduler's loop | |
| `Sums` | a sum of natural numbers as the number of their units, where a recursive sum could not be proved about | |
| `Rates` | one rate key, in memory (grain 1) and in slices | EXTENDS `Sums` |
| `Runners` | heartbeats and peers | |
| `Pool` | the pools of processes and those who hold one connection while they need another | |
| `Sockets` | one app's connections: registry, loop, worker | |
| `Peers` | one mapped UDP port: its loop and its connections | EXTENDS `Sums` |
| `Residents` | one app's resident instances, threads and clients | |
| `Uploads` | one inline upload | |
| `Publishes` | one app's files, generations, caches and removal | |
| `Blobs` | one key of the files an app stores | |
| `Schema` | one app's ladder, version and the view of its policy | |
| `GrantBook`, `Grants` | what an OAuth store promises; the two stores | `Grants` instantiates `GrantBook` |
| `SignIn` | one account's password, sessions and two-step sign-in | |
| `Projects` | the tree of projects, the apps in it, rows of access and locks | |
| `Mirror` | one app's repository and link | |
| `Transfer` | where the site lives, the two commands that move it, and servers | |
| `JobSlotsProofs`, `PublishesProofs` | theorems about the module each is named for | EXTENDS it and TLAPS |
| `TablesProofs` | theorems about `JobTurns`, `Rates` and `Pool` | EXTENDS the three and TLAPS |
| `AccessProofs` | theorems about `Grants` and `Projects` | EXTENDS both and TLAPS |
| `AccountsProofs` | theorems about `SignIn` and `Mirror` | EXTENDS both and TLAPS |
| `LoopsProofs` | theorems about `Runners`, `Wakes` and `Sockets` | EXTENDS the three and TLAPS |
| `ConnectionsProofs` | theorems about `Residents` and `Peers` | EXTENDS both and TLAPS |
| `StoredProofs` | theorems about `Uploads`, `Blobs`, `Schema` and `Transfer` | EXTENDS the four and TLAPS |
| `MCJobSlots`, `MCJobTurns`, `MCSockets`, `MCPublishes`, `MCSchema` | instances of one module | |
| `MCTables`, `MCLoops`, `MCStreams`, `MCMoves`, `MCAccounts`, `MCDeploys` | several modules in one run | |

How state maps to code, where it is not one to one:

* `JobSlots.task` is the state of one asynchronous task: `pc` is the await it is
  at, `epoch` its `Lease`. `wire` holds renewals sent and not yet carried out,
  which may land after the task ended (`Keeping::drop` aborts the client, not
  the statement). `owed` and `lost` are history: which queued runs were promised,
  and why one was dropped (a crash, a hang-up, a lost answer, a refused start).
  Of two runs of one caller the second is the background's (`begin_next`) only once
  its start was recorded: until then a hang-up takes the request along.
* In `JobTurns` a scheduler's clock is the common one plus its own `Ahead`.
  Records are read once (`Look`) and used at later steps, as `tick` does.
* In `Pool` what a caller holds (turn, place, advisory lock, connection) follows
  from the step it is at. A second connection that is taken for one statement is
  taken and given back in one step. The changes of projects are those of one
  process; between processes it is publishes of one app that contend.
* `Sockets.outbox` is the channel between the registry and the loop, `inbox` the
  one between the loop and the worker, `inHand` what a send is in the middle of.
  A `select!` is a disjunction of actions at step `"select"`; what its branches
  await is a step of its own, during which the other branches are not polled.
  The connect handler is the one runtime/connections.rs:13-17 describes: it
  joins a topic, reads, and sends what it read.
* In `Peers` each touch of the map, a channel or the counter is a step, and
  `try_send` is atomic. A datagram over its address's rate is one that does not
  come.
* In `Residents`, `deliver` is four steps: the meta is read, the lock of `apps`
  is held (`Looks`), the event is queued, the answer is acted on. The same
  thread number is never used twice. A deploy may break off after its write
  (`DeployBreaksOff`: the count was refused, or the caller went), and then neither
  forgets nor stops anything; a write whose caller went may land even later.
* In `Uploads` a ticket is held while it changes (`state/tickets.rs`). A piece is
  put at once in a bucket; on files it is emptied and then written. A finish whose
  take fails clears the pieces and leaves the ticket (`TakeFails`).
* In `Publishes` a call of the bucket or a statement is one step; what a key holds
  is named by how often it changed. A writer has the keys it was not answered OK
  about (`left`) and what it left at those it changed (`wrote`). `CallerGoes` lets
  the turn go at once; a bundle is unpacked on its blocking thread, so its puts may
  go on after that (`dropped`), beside whoever has the turn by then, and are counted
  by nobody. A tree moves as one: part of it moved is nothing a removal or a restore
  knows of (`Known`), which then does not count it.
* In `Blobs` bytes are the write they come from and how many of its pieces.
  `strays` is history: the temporaries that the code cannot remove, or leaves to
  its sweep.
* In `Schema` the view is its policy and the version it was made for; one of an
  older version is one that lacks what a migration brought. What a policy needs
  of a version (`Standing`) is the app's, and a constant. `settled` and `marks`
  are history.
* In `Grants` a Postgres call is a transaction in steps, whose deletes show to
  others at its commit; a call on files takes the file's write lock, except a
  rotation, which reads before it has it. `GrantBook` has one whole step for
  each call.
* In `SignIn` a request is a call with a name, made once, and what it makes is
  named for it; each of its calls of the store is a step. A sign-in
  begins with a password or with a provider's word; `ForProviders` is the setting
  by which the second owes a code too. `past` and `free` are history. `past` of a
  sign-in is the changes whose ending of sessions it was on its way through, which
  the code does not hold it to: `delete_sessions_for` comes before
  `delete_pending_for`, so that a pending sign-in that is finished between the two
  outlives the change. `free` is the two-step sign-in that was on when the door let
  it by without a code, as it does a provider's where `for_providers` is off, and
  whoever comes when the status cannot be read.
* In `Projects` changes that hold moves go one at a time, each step its own
  action. A resumed move lists the apps once, and moves each to the place it had in
  that list, renamed, whatever became of it since (`MovesOne`). `late` and `beside` are history and name the behaviours the properties
  leave out. Access given on one app is left out of `RowsOpenNothing`'s reading:
  while a locked project moves it counts between the first and the second step
  (projects.rs:311).
* In `Mirror` a call of GitHub or of a store is a step; a commit is what it
  holds.
* In `Transfer` one command runs at a time. `home`, `copies`, `untold`, `newest` and
  `missed` are history: where the site lives, which places hold it, which it left
  with nothing there to say so, what was last written, and of what a finished
  command missed the last write. It misses a published file written on the source
  when the copy does not look at it again (`LookedAt`), platform state written there
  after the second look, and what a server whose heartbeat it did not see wrote in
  the target after the comparison. A verify-only run, and
  a migrate on a directory that has its marker, change nothing and are left out.
  A database an export has left is not exported again.

## What each run checks

One run has room for several parts that share no state: variable `part` picks
one at the start, and the others stay as they began. Every behaviour of a part
is a behaviour of the run and the other way round, so this is the separate
checks in one; fairness is stated for a part's steps in its own part. Model
values are shared between parts only to share a symmetry.

| Run | Shows | Bounds, and why they are enough |
|---|---|---|
| `Tables` | two schedulers, one clock ahead, and a person: a turn once, and claimed. A rate window. Publishes and moves that share pools: everyone is served | two turns, a set and a removal, a crash. Slices of 1 and 2 in a window of 3: its edge needs one slice more than the window. Two processes, one turn each, pools of 3 (one more than turns and a move hold), three publishes of two apps so that two contend across processes, two moves so that one queues, one caller that goes away |
| `Loops` | the scheduler's loop; one connection to its end, whatever peers and handlers do; heartbeats; one job with renewals as late as they like: epochs, fenced requests, and under fairness free slots and queued runs | a sleep of 2 to 5, a turn every 7, notifications at any time, so that a sleep can be begun again just before its end; one connection at a time over either transport, queue of 2; two processes, heartbeats live for 2 and forgotten after 3; two tasks, each may stall past its lease, two starts and one fault from nothing held; and, so that a holder that stalled meets a request made of the next one, one start more from the state that two starts and a lost answer leave (`StaleHolderLeft`) |
| `Streams` | an inline upload whose calls may fail, two connections' order, a UDP port, OAuth grants and their refinement of `GrantBook`, a site that is copied | two chunks of one index and one of another; two publishes and a queue of 1: one before the snapshot, one after, and a queue that fills; two remotes and two connections, so that one ends as its successor comes; consent, exchange and one rotation make five secrets, one revocation; a server, a write and two directories beside a database: copy there, back, and to another |
| `Accounts` | one account and three calls, two at once, of a password or a provider; an app's repository and three requests, two pushes of publishes and one of a person | a third call finds what two that overlapped left; `for_providers` off, its default, which lets more in than on; two tries and two failures let a limit be met and passed; one TOTP step, whose code several calls can give, and recovery codes beside it |
| `Moves` | a tree of projects with an app; two jobs of one app on two runners with timely renewals; an app's schema | two projects that each may hold one more, with an app that has its name; three changes (a row or a lock, a publish, a move), any of which stops. Three tasks let one hold, one queue and one race; two faults reach every fault during the recovery from another. Five deploys, two at once, three versions, two policies of which one breaks at the last: a stop, what it left, and two deploys that make it good |
| `Deploys` | publishes: three writers, one reader, two keys. Resident: two clients, two threads, one deploy, one failure, a queue of one. A stored file: two writes and a read | one writer's partial work, another's publish, a removal; one caller, answer or turn that is lost, and what a bundle puts after that; a second client is needed for a full queue and for a connect during a stop; pieces up to one past the ceiling, two troubles |
| `SlotsHangUp`, `SlotsRefusal`, `Stranded`, `SocketStuck`, `ViewBehind`, `SourceChanged` | what the repository says and the code does not do; see `findings` | |

`CHECK_DEADLOCK FALSE` stands where the bounds let every actor finish: each
client comes once, each writer writes once, a clock stops at its bound.

### What the runs found

* `SlotsHangUp`: a person's run goes on without its keeper when the request is
  dropped, so a second run of the job starts beside it.
* `SlotsRefusal`: an app's start refused by the rate drops the owed run it found.
* `Stranded`: a publish between a removal's turn and its catalog step loses its
  row; its files stay in the bucket unseen until the next publish of the name.
* `SocketStuck`: a WebSocket whose peer does not read keeps its loop in a send;
  cut-off, re-check and close event wait for as long as it likes.
* `ViewBehind`: a migration and a manifest at once each rebuild a policy's view
  from a meta read before; both are answered OK and the view is behind.
* `SourceChanged`: a file published on the source while it is migrated, after the
  copy has looked at it, does not keep the migration from finishing, though
  README.md:283-284 says that it fails. `HomeIsLatest` leaves out what is `missed`
  so; everything else where the site lives is the latest.

Differences met while modelling that are not runs:

* The scheduler's sleep starts again at every notification, so while jobs keep
  being set sooner than `MAX_SLEEP` and no turn is due, nothing looks for owed
  runs (schedule.rs:699). `OwedIsTakenOver` assumes that notifications pause.
* Pools: `TOOLSITE_DATABASE_POOL` may be any number above 0 (state/mod.rs:131-137),
  while bucket.rs:60-63 wants more connections than turns; with a pool of
  `MAX_TURNS` plus one or fewer, those who hold one can take all of it, and wait
  until a wait runs out. `Tables` has one more.
* Schema: README.md:697-698 says of a failed deploy that it "leaves the database
  as it was". A migration that breaks a policy is committed, and its ladder
  stored, before the rebuilding fails (migrate.rs:69-87).
* Projects: creating one does not finish a move that was left (projects.rs:122-124),
  and a ticket is judged by the tree when it was made; `AppsFitTheTree` leaves
  both out by name (`beside`, `late`).
* Transfer: a command refused between the flag's "done" and the marker leaves
  both places telling of a move; an export that stopped into a directory a server
  had claimed is not resumed; what the comparison does not find is
  `SourceChanged`'s.
* Publishing: a bundle whose caller is gone is unpacked to its end without the turn
  (files/mod.rs:276-291), beside the next deploy, where files/mod.rs:25-29 says
  "never interleaved"; a removal or a restore whose move of the tree fails part way
  does not count it (trash.rs:134-163), though 161-162 says it is "counted even when
  a move failed part way". `DoneIsServed` begins where an operation is done, and
  these are not.
* Handlers: one whose publish breaks off after the write (upload.rs:506-509) is
  there while the instance goes on with the one before, until it ends or the next
  deploy.
* Two-step sign-in: mfa.rs:418-422 says that whatever was signed in without a code
  "now has to sign in with one". A provider's sign-in owes none by default
  (mfa.rs:522, README.md:1530), and a status that cannot be read is one that is off
  (mfa.rs:362-378).
* Blobs: a larger file may come between `get`'s look at the size and its read
  (blobs.rs:325); writes that overlap on the volume may keep one's bytes and the
  other's type; what a dropped upload spooled, and the temporary file of a put
  whose rename failed, are never swept.

## Fairness

* `JobSlots!Fairness`: tasks are polled, a handler ends by its wall clock, a
  renewal is answered or fails, time passes, and each scheduler goes through the
  owed runs again and again. The last is what `Wakes` shows of the loop
  (`OwedIsTakenOver`), and holds as far as that does.
* `JobTurns!FairSpec`: time passes and each task goes on; nothing is assumed of
  clocks but their difference.
* `Pool!PoolFairness`: each caller goes on when it can. That a wait runs out is
  not assumed, so what is shown is that none has to.
* `Wakes`: the loop's own steps; `TickDue` with strong fairness, because
  `select!` polls both branches and a notification may switch the sleep off and
  on; it is used for turns that are due, whose sleep is not pushed back.
* `Runners`, in `Loops`: heartbeats begin; a database asked again and again
  answers some time (strong fairness of the two statements).
* `Sockets!SocketsSpec`: what happens whatever peers do (`ByItself`): the loop's
  and worker's own steps, handler calls (bounded by their wall clock) and TCP
  sends (bounded by `tcp_send_timeout`). A WebSocket send is not assumed to
  end, since nothing in the code bounds it.

## Proofs

TLAPS checks, for any jobs, runners, tasks, clocks, turns, callers and bounds:

* `JobSlotsProofs`: `TypeCorrect`; `HoldersApart` (epochs tell holders apart,
  whatever the delays); `OneHolder` and `CeilingKept` (with timely renewals);
  `QueuedRunsKept`; `RequestsSpentByHolders`, an action property.
  One-holder is not inductive: a task in the middle of `acquire` has seen a free
  slot and has yet to take it. The invariant is `HolderInv /\ TakerInv`:
  a holder's epoch was given out, and with timely renewals is the slot's current
  one on a live slot; one task of a group at a time is between look and take (the
  group's advisory lock), and with timely renewals the slot it saw has no
  holder. `RoomToTake` adds that the app still has room then, from which the
  ceiling follows. Lemmas say what each kind of step does to a task
  (`GoesType`, `BecomesType`, ...) so that the proof has one step per action.
* `TablesProofs`, the turns of a job: `TypeCorrect`; `LatestTurn`, from lemmas on
  the least and greatest of a finite set of turns; `TurnsRunOnce` on Postgres, from
  `TurnInv`: a turn in hand or run is not past the latest claimed in its life of the
  job, no two tasks have the same, and one in hand has not run. Rate windows:
  `NeverMoreSpent`, for every grain. `Total` of `Sums` counts one unit for each spend
  (`Units`), and the invariant is an injection from the spends of the window to
  those the store counts from their slice's start (`EachCounted`): a slice goes only
  when none of its moments is in the window. The pool: `PoolTypeCorrect`, and
  `OneConnectionLeft`, where the pool is larger than the places for publishes and
  the one turn for moves (`Placed`, `Turned`); those who hold a connection while
  they need another are among them. The hypothesis is true of the defaults (16 and
  4) and not of every `TOOLSITE_DATABASE_POOL`, which may be as small as 1.
* `AccessProofs`, the OAuth store: `GrantsTypeCorrect`; `TradesOnce`; and `StoreKeepsTheBook`,
  that every behaviour of either store is one of `GrantBook`. The invariant names
  what a call under way has seen and holds: `CallShape` (what is true of a call at
  each step), `TurnHeld` (a transaction past its wait has the account's turn),
  `SpentThere` (what a call has deleted is there for others until it commits),
  `AllDoomed` (a revocation has in hand all that there is of what it has come to),
  `SnapshotHolds` (a rotation on files whose snapshot is not stale read what is
  there); beside it `Apart` (no secret is a code and a refresh token) and
  `UnpaidYet` (what can still be traded has not been). With it each commit is the
  book's step and every other step a stutter.
  The tree of projects: `ProjectsTypeCorrect` and `AppsFit`. That apps fit the tree
  is not inductive: in the middle of a move apps name projects that are not there
  yet. The invariant `Fits` says instead that they fit the tree once everything at
  `from` is renamed to `to` (`FitsAfter`), of the journal's move and of the one
  about to be written there; that the tree has yet to move, or has moved after all
  apps (`TreeBefore`, `TreeAfter`); that no project is without those it is in
  (`Rooted`); and what each change has checked and goes by (`CreateFits`,
  `AppFits`, `RelocateFits`, `RemoveFits`, `ResumeFits`). Under it lie lemmas on
  what `Covers` and `Renamed` do to paths: covering is an order, `Renamed` keeps
  paths below `from` apart, a path is not renamed twice (so finishing a move again
  changes nothing), and a rooted tree stays one. `MoveOpensNothing`, from `RowsInv`:
  until the tree has moved no row lies where it is going; before it moves only rows
  above count at the new place, and once it locks, locks count at both ends. The
  lemmas `ReadsTheSame` and `LocksRead` say that the tree read renamed gives each app
  the access and the locks it had, so that who may open it in the middle of a move
  may do so before it (`OpenBefore`) or after it (`OpenAfter`).
* `LoopsProofs`: `RunnersTypeCorrect`; `OneServesAtATime`, while heartbeats are
  punctual, from `RunnersInv`: a heartbeat not yet written is not stale, nor is
  the row of who is up or has yet to read, so that of two that are up one saw the
  other. `StartsUnlessNotified`: a due turn waits longer than the least
  sleep only while a notification came within that sleep. `WakesInv` says that a
  sleep was planned for the turn, or was begun again no longer ago than the last
  notification. Nothing is supposed of how close notifications come: the code does
  not space them, and while they come closer than the least sleep no bound holds.
  `SocketsTypeCorrect` (a connection being let in has its place and no worker yet)
  and `SnapshotComesFirst`, from `LineInv`: a connection's line is what it was
  sent, has in hand, has queued and has held, one after the other, and each step
  moves an item along it, appends what was published, cuts its end off, or puts
  the snapshot before it (`StartKeeps`, `NextKeeps`, `SnapshotBefore`,
  `OrderGoesOn`). Nothing waits to be let go but while the connect event runs
  (`LineShape`), which is why what others send never overtakes.
* `PublishesProofs`: `PublishesTypeCorrect`; `DoneServed`. What a writer left at a
  key is not later than what is there (`WroteBefore`); a generation is never given
  out twice (`NumbersGiven`), so what was fetched under the current one was fetched
  after it was counted, and what a done writer left was there by then
  (`FetchedAsDone`). Neither needs the turn, which a writer may have lost.
* `ConnectionsProofs`, resident instances: `ResidentsTypeCorrect`,
  `NoThreadUnseen`, `DeployReplaces`, `KnownOrClosed`. An instance
  that nobody has stopped has no older handler than the one there was when a deploy
  last stopped the one before it (`HasTheHandler`), a close comes after its connect (`ClosesLate`), and a
  connection a thread accepted is known to it (`AcceptedIsKnown`). The UDP port:
  `PortKept`, its parts `NewestFound` and `TellsAsEarned` from `PortInv`: what the
  loop has looked up is still so or its connection is over (`DeskIsRight`), one
  that takes datagrams is found by its address (`FoundByAddress`), what may yet
  be told was earned (`CreditEarned`); and its part about the counter of waiting
  bytes from `CountInv`: the counter is what waits for each connection and what
  the loop has counted and not queued yet. What a queue holds is a `Total`, the
  number of its units, so that a datagram more or less is a set of units more or
  less and takes no induction.
* `AccountsProofs`, an account: `SignInTypeCorrect`, `PasswordChangeCloses`, `TwoStepCloses`,
  `OneCallForACode`, `TriesBound`, from one invariant of four parts: each call at
  its step has what that step goes by (`AllOnCourse`); pending sign-ins count the
  codes tried on them (`TriesInv`); secrets, steps and recovery codes are used in
  order (`CodesInv`); and what a change has left open was under way beside it, or
  was let by without a code (`ClosedInv`), for either setting of `for_providers`. The repository: `PullKeepsUp`, from
  `MirrorInv`: who goes by a link found a branch (`BranchThere`), a request
  counted alone is the only one at work (`AloneAtWork`), and at each step a pull's
  commit is in the branch, then in its archive, then, if it is alone, in the app's
  source (`GoesBy`).
* `StoredProofs`: `JoinsAsSent` of uploads: of each piece no two chunks put
  undisturbed at once, and the last that counted is the one kept (`PutAsSent`);
  once a finish has the ticket, none is on its way (`Reads`). `BlobsTypeCorrect`,
  `WholeReads`, `NothingLeft` of stored files, from the shape of a write at each
  of its steps (`WriteShape`) and where what is kept came from (`FromWrite`).
  `SchemaTypeCorrect`, `AloneIsRealised` of an app's database: a deploy alone
  goes by what is there (`AloneAsRead`), and what was settled stays realised
  until the next (`SettledIsRealised`). `TransferTypeCorrect`, `MovesWhole` and
  the action property `StartsAtHome` of the site: what a command at each step has
  seen and done (`RunShape`), what it will have missed if it finishes, and which
  directories tell of a move or know of none (`Untold`).

They assume what the modules assume of their constants: finite sets of tasks and
names, natural bounds, an expiry of at least one step, chunks that are not
finishes, some app and project paths of names that have their parents among them.
Three hypotheses are stated in the theorems that need them: timely renewals and
punctual heartbeats, which the code's intervals are there for, and a pool larger
than the turns. Each inductive invariant was
first checked by TLC on its run's instance.

Only model-checked:

* The liveness properties, `DueTurnIsClaimed` and `CallsEnd` among them: temporal
  proofs under fairness are out of the prover's reach.

## Not modelled

See `components` with status `not_modelled`, and `hazards` with a note. In the
modelled parts: disk failure and SQLite's own atomicity are trusted; Postgres
gives what its isolation level and advisory locks promise; clocks of processes
agree except in `JobTurns`; ids and secrets are never made twice.

## Plan

Next to model: what a removal forgets of people and rules beside a first publish
(`trash.rs:101`), hand-written views in `Schema`, and the clients table of the
OAuth store.
