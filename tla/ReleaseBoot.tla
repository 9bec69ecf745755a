---------------------------- MODULE ReleaseBoot ----------------------------
(***************************************************************************)
(* Which release a container runs: boot.mjs selects it at every start and  *)
(* finishes a staged update (migrate, activate, prune), the updater of the *)
(* running backend (system_update.go) installs and stages one, and the     *)
(* deployment script replaces the image.  They communicate through         *)
(* state.json and the release directories of a volume, and through the     *)
(* database schema, which none of them ever takes back.                    *)
(*                                                                         *)
(* A version stands for its code, its directory v<version> and the schema  *)
(* its migrations produce.  A directory counts as present when it is       *)
(* complete (resolveRelease accepts it).  The backfill only ever adds a    *)
(* warning and is left out, as are the recorded results.                   *)
(***************************************************************************)
EXTENDS Naturals

CONSTANTS
  Versions,        \* releases, ordered by releaseIsNewer
  Broken,          \* releases whose migrations always fail and roll back
  MaxAttempts,     \* MAX_PENDING_ATTEMPTS
  MaxKills,        \* bound: kills of the container during a switch
  Faults,          \* what may fail: see below
  MigratesAtStart, \* GO_BACKEND_SKIP_MIGRATION is not "true" (root compose)
  None

\* write: state.json cannot be written; read: it cannot be read;
\* database: a migration fails before its commit; commit: after it.
AllFaults == {"write", "read", "database", "commit"}

ASSUME VersionsAssumption == Versions \subseteq Nat /\ None \notin Versions
ASSUME LimitsAssumption == /\ Broken \subseteq Versions
                           /\ MaxAttempts \in Nat \ {0}
                           /\ MaxKills \in Nat
ASSUME SettingsAssumption == Faults \subseteq AllFaults /\ MigratesAtStart \in BOOLEAN

VARIABLES
  image,   \* version of the image
  schema,  \* version whose migrations the database has
  active,  \* state.json: the release in force
  pending, \* state.json: the release to switch to
  files,   \* complete release directories on the volume
  pc,      \* where the container is, from "down" to "run"
  boot,    \* local variables of runBoot, and the release it selected
  job,     \* update job of the running backend
  kills,   \* kills since the last staging
  harmed   \* history: a fault, or MaxAttempts kills in a row

disk == <<active, pending>>
vars == <<image, schema, active, pending, files, pc, boot, job, kills, harmed>>

Entries == [ver : Versions, base : Versions]
PendingEntries == [ver : Versions, base : Versions, attempts : 0 .. MaxAttempts]
ASSUME NoneAssumption == None \notin Entries \cup PendingEntries

BootStates == [active : Entries \cup {None}, pending : PendingEntries \cup {None},
               current : [ver : Versions, inVolume : BOOLEAN], keep : SUBSET Versions]
PCs == {"down", "reset", "pending", "migrate", "giveup", "activate", "prune", "serve", "run"}
Booting == PCs \ {"down", "run"}
Phases == {"idle", "downloading", "extracted", "removed", "installed", "staged"}

Image(v) == [ver |-> v, inVolume |-> FALSE]
Release(v) == [ver |-> v, inVolume |-> TRUE]
NoJob == [phase |-> "idle", target |-> None]
Newest(v, w) == IF v > w THEN v ELSE w
Dirs(release) == IF release.inVolume THEN {release.ver} ELSE {}

\* Bug: the base image of the entry is not compared.
ValidForAnyImage(entry) == entry # None /\ entry.ver \in files

\* resolveRelease, for an entry of state.json made on this image
Valid(entry) == entry # None /\ entry.base = image /\ entry.ver \in files

Init ==
  /\ image \in Versions \ Broken
  /\ schema = image
  /\ active = None /\ pending = None /\ files = {}
  /\ pc = "down"
  /\ boot = [active |-> None, pending |-> None, current |-> Image(image), keep |-> {}]
  /\ job = NoJob
  /\ kills = 0 /\ harmed = FALSE

-----------------------------------------------------------------------------
(* boot.mjs                                                                *)

\* The state is read; an active release of another image, or without its
\* files, is dropped in memory.
ReadState ==
  /\ pc = "down"
  /\ boot' = [active  |-> IF Valid(active) THEN active ELSE None,
              pending |-> pending,
              current |-> IF Valid(active) THEN Release(active.ver) ELSE Image(image),
              keep    |-> {}]
  /\ pc' = CASE pending # None -> "pending"
             [] pending = None /\ active # None /\ ~Valid(active) -> "reset"
             [] OTHER -> "serve"
  /\ UNCHANGED <<image, schema, disk, files, job, kills, harmed>>

\* An unreadable state.json, or a volume that is not there: the image.
ReadNothing ==
  /\ pc = "down" /\ "read" \in Faults
  /\ boot' = [active |-> None, pending |-> None, current |-> Image(image), keep |-> {}]
  /\ pc' = "serve"
  /\ harmed' = TRUE
  /\ UNCHANGED <<image, schema, disk, files, job, kills>>

\* persistState; its failure is only logged.
Persist ==
  \/ active' = boot'.active /\ pending' = boot'.pending /\ UNCHANGED harmed
  \/ "write" \in Faults /\ UNCHANGED disk /\ harmed' = TRUE

Reset ==
  /\ pc = "reset"
  /\ boot' = [boot EXCEPT !.keep = {}]
  /\ Persist
  /\ pc' = "prune"
  /\ UNCHANGED <<image, schema, files, job, kills>>

\* Bug: nothing is kept, although the selected release is in the volume.
AbandonKeepingNothing ==
  /\ boot' = [boot EXCEPT !.pending = None, !.keep = {}]
  /\ Persist
  /\ pc' = "prune"
  /\ UNCHANGED <<image, schema, files, job, kills>>

\* The switch is abandoned and the release selected before it stays.
Abandon ==
  /\ boot' = [boot EXCEPT !.pending = None, !.keep = Dirs(boot.current)]
  /\ Persist
  /\ pc' = "prune"
  /\ UNCHANGED <<image, schema, files, job, kills>>

\* Bugs: the limit is off by one, either way.
StartableOnceMore == Valid(boot.pending) /\ boot.pending.attempts <= MaxAttempts
StartableOnceLess == Valid(boot.pending) /\ boot.pending.attempts + 1 < MaxAttempts

Startable == Valid(boot.pending) /\ boot.pending.attempts < MaxAttempts

\* Bug: a release that cannot be started is passed over and stays pending.
DiscardPassingOver ==
  /\ pc = "pending" /\ ~Startable
  /\ pc' = "serve"
  /\ UNCHANGED <<image, schema, disk, files, boot, job, kills, harmed>>

\* release_invalid, too_many_attempts
Discard == pc = "pending" /\ ~Startable /\ Abandon

\* The attempt is recorded before it starts.
Count ==
  /\ pc = "pending" /\ Startable
  /\ boot' = [boot EXCEPT !.pending.attempts = @ + 1]
  /\ active' = boot'.active /\ pending' = boot'.pending
  /\ pc' = "migrate"
  /\ UNCHANGED <<image, schema, files, job, kills, harmed>>

CountFails ==
  /\ pc = "pending" /\ Startable /\ "write" \in Faults
  /\ boot' = [boot EXCEPT !.pending.attempts = @ + 1]
  /\ pc' = "serve"
  /\ harmed' = TRUE
  /\ UNCHANGED <<image, schema, disk, files, job, kills>>

\* backend --migrate: one transaction, and nothing to do when the ledger
\* already has its migrations.
Migrated == schema' = Newest(schema, boot.pending.ver)

Migrate ==
  /\ pc = "migrate" /\ boot.pending.ver \notin Broken
  /\ Migrated
  /\ pc' = "activate"
  /\ UNCHANGED <<image, disk, files, boot, job, kills, harmed>>

MigrationFails ==
  /\ pc = "migrate"
  /\ \/ (boot.pending.ver \in Broken \/ "database" \in Faults) /\ UNCHANGED schema
     \/ boot.pending.ver \notin Broken /\ "commit" \in Faults /\ Migrated
  /\ harmed' = (harmed \/ boot.pending.ver \notin Broken)
  /\ pc' = "giveup"
  /\ UNCHANGED <<image, disk, files, boot, job, kills>>

\* migration_failed
GiveUp == pc = "giveup" /\ Abandon

Activate ==
  /\ pc = "activate"
  /\ LET target == Release(boot.pending.ver)
     IN  boot' = [active  |-> [ver |-> boot.pending.ver, base |-> boot.pending.base],
                  pending |-> None,
                  current |-> target,
                  keep    |-> Dirs(target) \cup Dirs(boot.current)]
  /\ Persist
  /\ pc' = "prune"
  /\ UNCHANGED <<image, schema, files, job, kills>>

\* pruneReleases removes one directory after another.
Prune(v) ==
  /\ pc = "prune" /\ v \in files \ boot.keep
  /\ files' = files \ {v}
  /\ UNCHANGED <<image, schema, disk, pc, boot, job, kills, harmed>>

Pruned ==
  /\ pc = "prune" /\ files \subseteq boot.keep
  /\ pc' = "serve"
  /\ UNCHANGED <<image, schema, disk, files, boot, job, kills, harmed>>

\* The supervisor starts the selected release; where migrations are not
\* skipped its backend applies its own first.
Serve ==
  /\ pc = "serve"
  /\ schema' = IF MigratesAtStart THEN Newest(schema, boot.current.ver) ELSE schema
  /\ pc' = "run"
  /\ UNCHANGED <<image, disk, files, boot, job, kills, harmed>>

\* The container is killed; `restart: unless-stopped` starts it again.
Kill ==
  /\ pc \in Booting /\ kills < MaxKills
  /\ kills' = kills + 1 /\ harmed' = (harmed \/ kills' >= MaxAttempts)
  /\ pc' = "down"
  /\ UNCHANGED <<image, schema, disk, files, boot, job>>

\* A restart of the running container, whatever its update job was doing.
Stop ==
  /\ pc = "run"
  /\ pc' = "down" /\ job' = NoJob
  /\ UNCHANGED <<image, schema, disk, files, boot, kills, harmed>>

-----------------------------------------------------------------------------
(* system_update.go, in the running backend                                *)

StartUpdate(v) ==
  /\ pc = "run" /\ job.phase = "idle"
  /\ v > boot.current.ver
  /\ job' = [phase |-> "downloading", target |-> v]
  /\ UNCHANGED <<image, schema, disk, files, pc, boot, kills, harmed>>

\* downloaded, extracted and verified
Extract ==
  /\ pc = "run" /\ job.phase = "downloading"
  /\ job' = [job EXCEPT !.phase = "extracted"]
  /\ UNCHANGED <<image, schema, disk, files, pc, boot, kills, harmed>>

RemoveOld ==
  /\ pc = "run" /\ job.phase = "extracted"
  /\ job.target \notin Dirs(boot.current)
  /\ files' = files \ {job.target}
  /\ job' = [job EXCEPT !.phase = "removed"]
  /\ UNCHANGED <<image, schema, disk, pc, boot, kills, harmed>>

Install ==
  /\ pc = "run" /\ job.phase = "removed"
  /\ files' = files \cup {job.target}
  /\ job' = [job EXCEPT !.phase = "installed"]
  /\ UNCHANGED <<image, schema, disk, pc, boot, kills, harmed>>

\* The backup is made and the update recorded; an unreadable state.json
\* counts as an empty one.
Stage ==
  /\ pc = "run" /\ job.phase = "installed"
  /\ pending' = [ver |-> job.target, base |-> image, attempts |-> 0]
  /\ \/ active' = active /\ UNCHANGED harmed
     \/ "read" \in Faults /\ active' = None /\ harmed' = TRUE
  /\ job' = [job EXCEPT !.phase = "staged"]
  /\ kills' = 0
  /\ UNCHANGED <<image, schema, files, pc, boot>>

\* Any step of install fails; once it is installed the directory goes too.
Abort ==
  /\ pc = "run" /\ job.phase \in {"downloading", "extracted", "removed", "installed"}
  /\ files' = IF job.phase = "installed" THEN files \ {job.target} ELSE files
  /\ job' = NoJob
  /\ UNCHANGED <<image, schema, disk, pc, boot, kills, harmed>>

Restart == pc = "run" /\ job.phase = "staged" /\ Stop

\* The supervisor cannot be signalled: discardPending.
RestartFails ==
  /\ pc = "run" /\ job.phase = "staged"
  /\ \/ pending' = IF pending # None /\ pending.ver = job.target THEN None ELSE pending
     \/ Faults \cap {"read", "write"} # {} /\ UNCHANGED pending
  /\ files' = files \ {job.target}
  /\ job' = NoJob
  /\ UNCHANGED <<image, schema, active, pc, boot, kills, harmed>>

-----------------------------------------------------------------------------
(* The image changes and the container is created anew                     *)

\* The container that runs or boots is removed; an interrupted boot counts
\* as killed.
Recreate ==
  /\ pc' = "down" /\ job' = NoJob
  /\ kills' = IF pc \in Booting THEN kills + 1 ELSE kills
  /\ kills' <= MaxKills /\ harmed' = (harmed \/ kills' >= MaxAttempts)
  /\ UNCHANGED <<files, boot>>

\* Bug: the script leaves state.json where it is.
DeployKeepingState(v) ==
  /\ ~MigratesAtStart /\ v \notin Broken
  /\ image' = v /\ schema' = v
  /\ Recreate
  /\ UNCHANGED disk

\* deploy-release.sh retires state.json, switches the image and migrates;
\* for an older image the operator has restored its database before.
Deploy(v) ==
  /\ ~MigratesAtStart /\ v \notin Broken
  /\ image' = v /\ schema' = v
  /\ active' = None /\ pending' = None
  /\ Recreate

\* A newer image is pulled by hand: state.json stays, and the backend
\* migrates when it starts.
ReplaceImage(v) ==
  /\ MigratesAtStart /\ v \notin Broken /\ v >= schema
  /\ image' = v
  /\ Recreate
  /\ UNCHANGED <<schema, disk>>

Boot ==
  \/ ReadState \/ ReadNothing \/ Reset \/ Discard \/ Count \/ CountFails
  \/ Migrate \/ MigrationFails \/ GiveUp \/ Activate
  \/ (\E v \in Versions : Prune(v)) \/ Pruned \/ Serve

Update ==
  \/ \E v \in Versions : StartUpdate(v)
  \/ Extract \/ RemoveOld \/ Install \/ Stage \/ Abort \/ Restart \/ RestartFails

Next ==
  \/ Boot \/ Kill \/ Stop
  \/ Update
  \/ \E v \in Versions : Deploy(v) \/ ReplaceImage(v)

Spec == Init /\ [][Next]_vars

\* A started boot goes on, and the updater, once it has staged a release,
\* signals the supervisor or finds that it cannot.
FairSpec == Spec /\ WF_vars(Boot) /\ WF_vars(Restart \/ RestartFails)

-----------------------------------------------------------------------------
(* Properties                                                              *)

Current == boot.current.ver
Serving == pc = "run"

\* The columns of state.json and the local variables of boot and of the
\* updater keep their types; an attempt is never counted past the limit.
TypeOK ==
  /\ image \in Versions /\ schema \in Versions
  /\ active \in Entries \cup {None} /\ pending \in PendingEntries \cup {None}
  /\ files \subseteq Versions
  /\ pc \in PCs
  /\ boot \in BootStates
  /\ pc \in {"migrate", "giveup", "activate"} => boot.pending # None
  /\ job \in [phase : Phases, target : Versions \cup {None}]
  /\ job.phase # "idle" => job.target # None /\ pc = "run"
  /\ kills \in 0 .. MaxKills /\ harmed \in BOOLEAN

\* The code that serves requests never needs a migration that the database
\* does not have, whatever fails and whichever release boot.mjs falls back
\* to: a switch happens only after its migration.
NeverAhead == Serving => Current <= schema

\* README.md: after an update's migrations are committed the old code must
\* not be used again (boot.mjs 450, "only the new code may be started").
CommittedMigrationKept == Serving => Current >= schema

\* As long as nothing fails and fewer starts in a row die than attempts are
\* allowed, the container comes back with the code that the schema was last
\* migrated for, wherever those starts died.
NeverBehind == ~harmed => CommittedMigrationKept

\* README.md: a deployed image always wins over the releases that updates
\* left on the volume: nothing older than the image serves.
ImageWins == Serving => Current >= image

\* The release in force and the running one keep their directories: neither
\* the pruning of boot.mjs nor the updater removes them.
ReleasesIntact ==
  /\ active # None /\ active.base = image => active.ver \in files
  /\ Serving => Dirs(boot.current) \subseteq files

\* An update that was staged is sooner or later activated or given up, and
\* the container serves again: no sequence of failed starts loops for ever.
UpdateResolved == pending # None ~> pending = None /\ Serving

=============================================================================
