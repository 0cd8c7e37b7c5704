------------------------------ MODULE Transfer ------------------------------
(***************************************************************************)
(* Where a site lives: in a data directory or on Postgres, and the two      *)
(* commands that move it (src/src/platform/transfer.rs, state/mod.rs,       *)
(* main.rs).  A command may die at any step and be run again; servers start *)
(* and stop as they are let, also beside a command.  What a place holds is  *)
(* one item of platform state (a session, a token, a grant) and one         *)
(* published file, each told apart by the write it is from.                 *)
(***************************************************************************)
EXTENDS Integers, FiniteSets

CONSTANTS Servers,
          Writes     \* bound: writes of servers

ASSUME TransferAssumption == Writes \in Nat

VARIABLES kept,    \* what each place holds, 0 what it does not
          auth,    \* accounts are there: in a directory, .site/auth.db
          marker,  \* .site/migrated-to-postgres
          flag,    \* TRANSFER_FLAG in platform.site_flags
          server,  \* the servers, by how far they are and where
          row,     \* state.runners
          run,     \* the command under way
          home,    \* history: where the site lives
          copies,  \* history: the places that hold it, or part of it
          untold,  \* history: places the site has left with nothing there to say so
          newest,  \* history: what was last written where the site lives
          missed,  \* history: items whose last write a finished command did not look at
          written  \* writes so far

siteVars == <<home, copies, untold, newest, missed, written>>
transferVars == <<kept, auth, marker, flag, server, row, run, siteVars>>

Dirs == {"old", "new"}
Places == Dirs \union {"postgres"}
Items == {"state", "published"}

Empty == [i \in Items |-> 0]
NoRun == [op |-> "none", at |-> "idle", src |-> "old", dst |-> "old", here |-> Empty, there |-> Empty,
          finished |-> FALSE, heard |-> {}, unseen |-> {}, changed |-> FALSE]
Off == [at |-> "off", place |-> "old"]

TransferTypeOK ==
    /\ kept \in [Places -> [Items -> 0..Writes + 1]]
    /\ auth \in [Places -> BOOLEAN]
    /\ marker \in [Dirs -> {"none", "moved", "exporting"}]
    /\ flag \in {"none", "copying", "done"}
    /\ server \in [Servers -> [at : {"off", "checked", "on"}, place : Places]]
    /\ row \in [Servers -> {"none", "live", "stale"}]
    /\ home \in Places /\ copies \subseteq Places /\ untold \subseteq Places
    /\ newest \in [Items -> 0..Writes + 1] /\ missed \subseteq Items

\* A site in file mode, or one that began on Postgres.
TransferInit ==
    /\ home \in {"old", "postgres"}
    /\ kept = [p \in Places |-> IF p = home THEN [i \in Items |-> 1] ELSE Empty]
    /\ auth = [p \in Places |-> p = home]
    /\ marker = [d \in Dirs |-> IF d = "old" /\ home = "postgres" THEN "moved" ELSE "none"]
    /\ flag = "none"
    /\ server = [s \in Servers |-> Off]
    /\ row = [s \in Servers |-> "none"]
    /\ run = NoRun
    /\ copies = {home}
    /\ untold = {}
    /\ newest = [i \in Items |-> 1]
    /\ missed = {}
    /\ written = 1

-----------------------------------------------------------------------------
(* Servers.                                                                *)

\* Mutant: the guard looks for what the migration wrote, not for the export's.
MigratedOnly(d) == marker[d] = "moved"

\* check: whether the directory belongs to Postgres.
Migrated(d) == marker[d] # "none"

\* The first start makes auth.db.  A directory that is no copy of the site would
\* be another site, and is left alone.
StartOnFiles(s, d) ==
    /\ server[s].at = "off"
    /\ d \in copies
    /\ ~Migrated(d)
    /\ server' = [server EXCEPT ![s] = [at |-> "on", place |-> d]]
    /\ auth' = [auth EXCEPT ![d] = TRUE]
    /\ UNCHANGED <<kept, marker, flag, row, run, siteVars>>

\* open: the guards, and claim.
OpenPostgres(s, d) ==
    /\ server[s].at = "off"
    /\ Migrated(d) \/ ~auth[d]
    /\ flag # "copying"
    /\ server' = [server EXCEPT ![s] = [at |-> "checked", place |-> "postgres"]]
    /\ marker' = [marker EXCEPT ![d] = IF @ = "none" THEN "moved" ELSE @]
    /\ UNCHANGED <<kept, auth, flag, row, run, siteVars>>

\* A beat of the registry, register's the first.
Heartbeat(s) ==
    /\ server[s].at # "off" /\ server[s].place = "postgres"
    /\ row[s] # "live" \/ (run.op # "none" /\ s \notin run.heard)
    /\ server' = [server EXCEPT ![s].at = "on"]
    /\ row' = [row EXCEPT ![s] = "live"]
    /\ run' = IF run.op = "none" THEN run ELSE [run EXCEPT !.heard = @ \union {s}]
    /\ UNCHANGED <<kept, auth, marker, flag, siteVars>>

RowAges(s) ==
    /\ row[s] = "live"
    /\ row' = [row EXCEPT ![s] = "stale"]
    /\ UNCHANGED <<kept, auth, marker, flag, server, run, siteVars>>

Leaves(s) ==
    /\ server[s].at # "off"
    /\ server' = [server EXCEPT ![s] = Off]
    /\ row' = [row EXCEPT ![s] = "none"]
    /\ UNCHANGED <<kept, auth, marker, flag, run, siteVars>>

IsKilled(s) ==
    /\ server[s].at # "off"
    /\ server' = [server EXCEPT ![s] = Off]
    /\ UNCHANGED <<kept, auth, marker, flag, row, run, siteVars>>

\* The command may not look at the item there again.  A published file it looks at
\* only to copy it, and then it ends if the file changed; so what a finished run
\* has missed of it came after the copy, or the target had it already, or the
\* source had none when it was read.
LookedAt(p, i) ==
    \/ p = run.src /\ (i = "published" \/ run.at \in {"alone", "finish", "mark"})
    \/ p = run.dst /\ run.at \in {"recheck", "alone", "finish", "mark"}

\* A person's, or a handler's, write or removal.
ServerWrites(s, i, to) ==
    LET p == server[s].place
    IN  /\ server[s].at = "on"
        /\ written <= Writes
        /\ to \in {0, written + 1} \ {kept[p][i]}
        /\ written' = written + 1
        /\ kept' = [kept EXCEPT ![p][i] = to]
        /\ newest' = IF p = home THEN [newest EXCEPT ![i] = to] ELSE newest
        /\ missed' = IF p = home THEN missed \ {i} ELSE missed
        /\ run' = IF run.op # "none" /\ LookedAt(p, i)
                  THEN [run EXCEPT !.unseen = @ \union {<<i, s>>}] ELSE run
        /\ auth' = [auth EXCEPT ![p] = TRUE]
        /\ UNCHANGED <<marker, flag, server, row, home, copies, untold>>

-----------------------------------------------------------------------------
(* What both commands do.                                                  *)

RunAt(op, at) == run.op = op /\ run.at = at

RunEnds == run' = NoRun

\* Stopped by an error, or a crash.
RunDies ==
    /\ run.op # "none"
    /\ RunEnds
    /\ UNCHANGED <<kept, auth, marker, flag, server, row, siteVars>>

AnyLive == \E s \in Servers : row[s] = "live"

\* A site has an account, whatever else was removed from it.
Holding(p) == auth[p] \/ kept[p] # Empty

\* Mutant: what only the target holds is let be.
MatchesBarExtras(here, there) == \A i \in Items : here[i] = 0 \/ here[i] = there[i]

\* compare_all found no difference.
Matches(here, there) == here = there

\* copy: platform state, and then the published files, of which each must still
\* be what was read.  Nothing is removed.
CopyItem(i, at, then) ==
    /\ run.at = at
    /\ LET differs == run.here[i] # 0 /\ run.here[i] # run.there[i]
           changed == i = "published" /\ kept[run.src][i] # run.here[i]
       IN  IF differs /\ changed
           THEN RunEnds /\ UNCHANGED <<kept, auth>>
           ELSE /\ kept' = IF differs THEN [kept EXCEPT ![run.dst][i] = run.here[i]] ELSE kept
                /\ auth' = [auth EXCEPT ![run.dst] = TRUE]
                /\ run' = [run EXCEPT !.at = then]
    /\ UNCHANGED <<marker, flag, server, row, siteVars>>

CopyState == CopyItem("state", "state", "published")

CopyPublished == CopyItem("published", "published", "readBack")

\* The target is read again, and compared with what was read of the source.
ReadBack ==
    /\ run.at = "readBack"
    /\ run' = IF Matches(run.here, kept[run.dst]) THEN [run EXCEPT !.at = "recheck"] ELSE NoRun
    /\ UNCHANGED <<kept, auth, marker, flag, server, row, siteVars>>

\* unchanged: the source is read again, and compared but for published files.
Unchanged ==
    /\ run.at = "recheck"
    /\ run' = IF kept[run.src]["state"] = run.here["state"]
              THEN [run EXCEPT !.at = "alone", !.changed = kept[run.src] # run.here]
              ELSE NoRun
    /\ UNCHANGED <<kept, auth, marker, flag, server, row, siteVars>>

\* Mutant: the registry is not read again.
NobodyAsked == {}

\* Runners whose row is new, or newer than when the command began.
Beating == {s \in run.heard : row[s] # "none"}

\* still_alone.  What no heartbeat told of, it cannot see.
StillAlone ==
    /\ run.at = "alone"
    /\ run' = IF Beating = {}
              THEN [run EXCEPT !.at = "finish",
                               !.unseen = {u \in @ : u[2] \notin {s \in run.heard : row[s] # "none"}}]
              ELSE NoRun
    /\ UNCHANGED <<kept, auth, marker, flag, server, row, siteVars>>

\* The site lives in the target now.
MovesTo(p) ==
    /\ home' = p
    /\ missed' = missed \union {u[1] : u \in run.unseen}

-----------------------------------------------------------------------------
(* migrate-to-postgres.  With the marker there it only compares.           *)

Prepare(d) ==
    /\ run.op = "none"
    /\ d \in copies
    /\ marker[d] = "none"
    /\ run' = [NoRun EXCEPT !.op = "migrate", !.at = "target", !.src = d, !.dst = "postgres", !.here = kept[d]]
    /\ UNCHANGED <<kept, auth, marker, flag, server, row, siteVars>>

\* transfer_target: no runner is live.
TransferTarget ==
    /\ RunAt("migrate", "target")
    /\ run' = IF AnyLive THEN NoRun ELSE [run EXCEPT !.at = "flag"]
    /\ UNCHANGED <<kept, auth, marker, flag, server, row, siteVars>>

\* Mutant: a finished copy is made again.
FinishedNever == FALSE

TransferFinished == flag = "done"

\* The row, the registry and the target are read.  A database that holds a site,
\* and was not copied into, is refused.
ReadTarget ==
    /\ RunAt("migrate", "flag")
    /\ run' = IF flag = "none" /\ Holding("postgres")
              THEN NoRun
              ELSE [run EXCEPT !.finished = TransferFinished, !.heard = {}, !.there = kept["postgres"],
                               !.at = CASE TransferFinished -> "readBack"
                                        [] ~TransferFinished /\ flag = "none" -> "begin"
                                        [] OTHER -> "state"]
    /\ UNCHANGED <<kept, auth, marker, flag, server, row, siteVars>>

SetCopying ==
    /\ RunAt("migrate", "begin")
    /\ flag' = "copying"
    /\ copies' = copies \union {"postgres"}
    /\ run' = [run EXCEPT !.at = "state"]
    /\ UNCHANGED <<kept, auth, marker, server, row, home, untold, newest, missed, written>>

SetDone ==
    /\ RunAt("migrate", "finish")
    /\ IF run.finished
       THEN UNCHANGED <<flag, home, untold, missed>>
       ELSE flag' = "done" /\ MovesTo("postgres") /\ untold' = {run.src}
    /\ run' = [run EXCEPT !.at = "mark"]
    /\ UNCHANGED <<kept, auth, marker, server, row, copies, newest, written>>

WriteMarker ==
    /\ RunAt("migrate", "mark")
    /\ marker' = [marker EXCEPT ![run.src] = "moved"]
    /\ IF home = run.src
       THEN MovesTo("postgres") /\ untold' = untold \ {"postgres"}
       ELSE untold' = untold \ {run.src} /\ UNCHANGED <<home, missed>>
    /\ RunEnds
    /\ UNCHANGED <<kept, auth, flag, server, row, copies, newest, written>>

-----------------------------------------------------------------------------
(* export-to-files.                                                        *)

Resuming(d) == marker[d] = "exporting"

\* A directory with file-mode state of its own is refused.
MayExportInto(d) == Resuming(d) \/ ~Holding(d)

\* The database an export has left is not untold again.
ExportBegins(d) ==
    /\ run.op = "none"
    /\ home = "postgres"
    /\ flag # "copying"
    /\ ~AnyLive
    /\ MayExportInto(d)
    /\ run' = [NoRun EXCEPT !.op = "export", !.at = "exporting", !.src = "postgres", !.dst = d,
                            !.here = kept["postgres"], !.there = kept[d]]
    /\ UNCHANGED <<kept, auth, marker, flag, server, row, siteVars>>

\* The marker is there for the whole copy.
MarkExporting ==
    /\ RunAt("export", "exporting")
    /\ marker' = [marker EXCEPT ![run.dst] = IF @ = "none" THEN "exporting" ELSE @]
    /\ copies' = copies \union {run.dst}
    /\ run' = [run EXCEPT !.at = "state"]
    /\ UNCHANGED <<kept, auth, flag, server, row, home, untold, newest, missed, written>>

RemoveMarker ==
    /\ RunAt("export", "finish")
    /\ marker' = [marker EXCEPT ![run.dst] = "none"]
    /\ MovesTo(run.dst)
    /\ untold' = (untold \ {run.dst}) \union {"postgres"}
    /\ RunEnds
    /\ UNCHANGED <<kept, auth, flag, server, row, copies, newest, written>>

-----------------------------------------------------------------------------

TransferNext ==
    \/ \E s \in Servers :
          \/ \E d \in Dirs : StartOnFiles(s, d) \/ OpenPostgres(s, d)
          \/ Heartbeat(s) \/ RowAges(s) \/ Leaves(s) \/ IsKilled(s)
          \/ \E i \in Items, to \in 0..Writes + 1 : ServerWrites(s, i, to)
    \/ \E d \in Dirs : Prepare(d) \/ ExportBegins(d)
    \/ TransferTarget \/ ReadTarget \/ SetCopying \/ SetDone \/ WriteMarker
    \/ MarkExporting \/ RemoveMarker
    \/ CopyState \/ CopyPublished \/ ReadBack \/ Unchanged \/ StillAlone
    \/ RunDies

TransferSpec == TransferInit /\ [][TransferNext]_transferVars

-----------------------------------------------------------------------------

\* transfer.rs:8-13, 31-36, 822-826: each item of where the site lives is what was
\* last written there, through copies that stop and are run again: what was removed
\* stays removed, a copy is only done when it is whole, and a change to the source's
\* platform state ends the run.  Left out is what a finished run missed (LookedAt):
\* a published file written on the source that the run did not look at again, which
\* FailsIfChanged is about; platform state written there after it was read again; and
\* what a server, whose heartbeat the run did not see, wrote in the target after it
\* was compared.
HomeIsLatest == \A i \in Items : kept[home][i] = newest[i] \/ i \in missed

\* README.md:283-284, a migration "fails rather than finishing if the source
\* changed during the copy": one that is about to finish found the source, when it
\* read it again, as it was read at first.
FailsIfChanged == RunAt("migrate", "finish") \/ RunAt("migrate", "mark") => ~run.changed

Starts(s, p) == server[s].at = "off" /\ server'[s].at # "off" /\ server'[s].place = p

\* state/mod.rs:150-160: a server starts on no copy of the site but the one it
\* lives in, however the commands were stopped, but for the database an export
\* has left, and the directory of a migration that died before its marker.
StartsWhereItLives ==
    [][\A s \in Servers, p \in copies : Starts(s, p) => p = home \/ p \in untold]_transferVars

=============================================================================
