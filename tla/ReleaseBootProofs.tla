------------------------- MODULE ReleaseBootProofs -------------------------
(***************************************************************************)
(* Types, and what holds of release selection under every fault: the code  *)
(* that serves is never ahead of the schema and never older than the image,*)
(* and directories in use are kept while state.json can be read.           *)
(***************************************************************************)
EXTENDS ReleaseBoot, TLAPS

\* An entry of state.json is made by an updater that runs on its base image
\* and only installs newer releases.
NewerThanBase(entry) == entry # None => entry.ver >= entry.base

\* A selected release, once boot.mjs has read the state.
Up == pc # "down"

\* Who may be newer than the image, and why no selection can be older.
ImageInv ==
  /\ NewerThanBase(active) /\ NewerThanBase(pending)
  /\ Up => /\ NewerThanBase(boot.active) /\ NewerThanBase(boot.pending)
           /\ Current >= image
  /\ pc \in {"migrate", "giveup", "activate"} => boot.pending.base = image
  /\ job.phase # "idle" => job.target >= image

\* What the database must have. Where the backend does not migrate when it
\* starts, that includes everything boot.mjs could select.
MigratedEntry(entry) == entry # None => entry.ver <= schema

SchemaInv ==
  \/ /\ ~MigratesAtStart
     /\ image <= schema
     /\ MigratedEntry(active)
     /\ Up => MigratedEntry(boot.active) /\ Current <= schema
     /\ pc = "activate" => MigratedEntry(boot.pending)
  \/ MigratesAtStart /\ NeverAhead

\* Which directories the state and the boot still need. An entry is in force
\* when it was made on this image; what boot.mjs selected before it migrates
\* is the release in force, and updates are newer than both.
InForce(entry) == entry # None /\ entry.base = image

Switching == pc \in {"reset", "pending", "migrate", "giveup", "activate"}

DirsInv ==
  /\ InForce(active) => /\ active.ver \in files
                        /\ Up => active.ver <= Current
                        /\ InForce(pending) => active.ver <= pending.ver
  /\ Up => Dirs(boot.current) \subseteq files
  /\ Switching =>
       /\ InForce(active) => boot.active = active
       /\ boot.active # None => /\ boot.active = active
                                /\ boot.current = Release(active.ver)
       /\ InForce(active) /\ InForce(boot.pending) => active.ver <= boot.pending.ver
  /\ pc \in {"migrate", "giveup", "activate"} => boot.pending.ver \in files
  /\ pc = "reset" => boot.active = None /\ ~InForce(active) /\ Dirs(boot.current) = {}
  /\ pc = "prune" => /\ Dirs(boot.current) \subseteq boot.keep
                     /\ InForce(active) => active.ver \in boot.keep
  /\ job.phase # "idle" => job.target > Current

\* What the next start would select, and why that is never behind: without
\* faults state.json agrees with what boot.mjs did, a release that is being
\* switched to is complete and newer than the selected one, and its counted
\* attempts are the kills since it was staged, so that a release whose
\* migration is committed can still be started.
Selected == IF Valid(active) THEN Release(active.ver) ELSE Image(image)
Attempting == pc \in {"migrate", "giveup", "activate"}

FilesKept ==
  /\ job.phase # "idle" => job.target > Current
  /\ Attempting => Valid(boot.pending)

InStep ==
  /\ Up => /\ boot.current = Selected
           /\ boot.active = IF Valid(active) THEN active ELSE None
  /\ pc \notin {"down", "reset", "pending"} => active = None \/ Valid(active)
  /\ pc = "pending" \/ Attempting => boot.pending = pending
  /\ pc \in {"reset", "prune", "serve"} => pending = None
  /\ pc = "reset" => boot.pending = None /\ boot.active = None
  /\ pc = "prune" => Dirs(boot.current) \subseteq boot.keep
  /\ active # None /\ pending # None /\ active.base = pending.base => active.ver <= pending.ver

Counted ==
  /\ kills < MaxAttempts
  /\ pending # None => pending.attempts <= kills + (IF Attempting THEN 1 ELSE 0)

Resumable ==
  /\ pc \in {"down", "pending", "migrate", "activate"}
  /\ Valid(pending) /\ pending.ver >= schema /\ pending.ver \notin Broken

SchemaKept ==
  /\ Selected.ver >= schema \/ Resumable
  /\ pc = "activate" => pending.ver >= schema

Unharmed == ~harmed => InStep /\ Counted /\ SchemaKept

IInv == TypeOK /\ ImageInv /\ SchemaInv

-----------------------------------------------------------------------------

LEMMA InitInv == Init => IInv
<1> SUFFICES ASSUME Init PROVE IInv
  OBVIOUS
<1> USE VersionsAssumption, LimitsAssumption, SettingsAssumption
<1>1. image \in Versions /\ image \in Nat
  BY DEF Init
<1>2. TypeOK
  <2>1. kills \in 0 .. MaxKills /\ harmed = FALSE
    BY DEF Init
  <2>2. boot \in BootStates /\ pc \in PCs
    BY <1>1 DEF Init, Image, PCs, BootStates
  <2>3. job \in [phase : Phases, target : Versions \cup {None}]
    BY DEF Init, NoJob, Phases
  <2> QED
    BY <1>1, <2>1, <2>2, <2>3 DEF Init, TypeOK, NoJob
<1>3. ImageInv
  BY <1>1 DEF Init, ImageInv, NewerThanBase, Up, Image, NoJob, Current
<1>4. SchemaInv
  BY <1>1 DEF Init, SchemaInv, MigratedEntry, Up, NeverAhead, Serving
<1> QED
  BY <1>2, <1>3, <1>4 DEF IInv

\* The columns and the local variables keep their types.
LEMMA TypeStep == TypeOK /\ [Next]_vars => TypeOK'
<1> SUFFICES ASSUME TypeOK, [Next]_vars PROVE TypeOK'
  OBVIOUS
<1> USE VersionsAssumption, LimitsAssumption
<1> USE DEF TypeOK, PCs, Phases, Entries, PendingEntries, BootStates, NoJob, disk
<1>1. CASE ReadState
  BY <1>1 DEF ReadState, Valid, Image, Release
<1>2. CASE ReadNothing
  BY <1>2 DEF ReadNothing, Image
<1>3. CASE Reset
  BY <1>3 DEF Reset, Persist
<1>4. CASE Discard \/ GiveUp
  <2>1. Abandon
    BY <1>4 DEF Discard, GiveUp
  <2>2. Dirs(boot.current) \in SUBSET Versions
    BY DEF Dirs
  <2>3. boot' \in BootStates
    BY <2>1, <2>2 DEF Abandon
  <2>4. /\ active' \in Entries \cup {None} /\ pending' \in PendingEntries \cup {None}
        /\ harmed' \in BOOLEAN
    BY <2>1, <2>3 DEF Abandon, Persist
  <2>5. pc' = "prune" /\ pc # "run" /\ UNCHANGED <<image, schema, files, job, kills>>
    BY <2>1, <1>4 DEF Discard, GiveUp, Abandon
  <2> QED
    BY <2>3, <2>4, <2>5
<1>5. CASE Count
  <2>1. boot.pending \in PendingEntries /\ boot.pending.attempts + 1 \in 0 .. MaxAttempts
    BY <1>5 DEF Count, Startable, Valid
  <2> DEFINE counted == [boot.pending EXCEPT !.attempts = @ + 1]
  <2>2. counted \in PendingEntries /\ counted # None
    BY <2>1, NoneAssumption
  <2>3. boot' = [boot EXCEPT !.pending = counted]
    BY <1>5 DEF Count
  <2> HIDE DEF counted
  <2>4. boot' \in BootStates /\ boot'.pending # None
    BY <2>2, <2>3
  <2> QED
    BY <1>5, <2>4 DEF Count
<1>6. CASE CountFails
  BY <1>6 DEF CountFails, Startable, Valid
<1>7. CASE Migrate \/ MigrationFails
  BY <1>7 DEF Migrate, MigrationFails, Migrated, Newest
<1>8. CASE Activate
  <2>1. boot' \in BootStates
    BY <1>8 DEF Activate, Release, Dirs
  <2>2. /\ active' \in Entries \cup {None} /\ pending' \in PendingEntries \cup {None}
        /\ harmed' \in BOOLEAN
    BY <1>8, <2>1 DEF Activate, Persist
  <2> QED
    BY <1>8, <2>1, <2>2 DEF Activate
<1>9. CASE (\E v \in Versions : Prune(v)) \/ Pruned
  BY <1>9 DEF Prune, Pruned
<1>10. CASE Serve
  BY <1>10 DEF Serve, Newest
<1>11. CASE Kill
  BY <1>11 DEF Kill, Booting
<1>12. CASE Stop \/ Restart
  <2>1. pc' = "down" /\ job' = NoJob
    BY <1>12 DEF Stop, Restart
  <2>2. UNCHANGED <<image, schema, active, pending, files, boot, kills, harmed>>
    BY <1>12 DEF Stop, Restart
  <2> QED
    BY <2>1, <2>2
<1>18. CASE \E v \in Versions : StartUpdate(v)
  <2>1. PICK v \in Versions : StartUpdate(v)
    BY <1>18
  <2>2. job' \in [phase : Phases, target : Versions \cup {None}] /\ job'.target # None
    BY <2>1 DEF StartUpdate
  <2> QED
    BY <2>1, <2>2 DEF StartUpdate
<1>13. CASE Extract \/ RemoveOld \/ Install \/ Abort
  BY <1>13 DEF Extract, RemoveOld, Install, Abort
<1>14. CASE Stage
  <2>1. pending' \in PendingEntries /\ active' \in Entries \cup {None}
    BY <1>14 DEF Stage
  <2>2. job' \in [phase : Phases, target : Versions \cup {None}]
    BY <1>14 DEF Stage
  <2>3. harmed' \in BOOLEAN /\ kills' = 0
    BY <1>14 DEF Stage
  <2> QED
    BY <1>14, <2>1, <2>2, <2>3 DEF Stage
<1>15. CASE RestartFails
  BY <1>15 DEF RestartFails
<1>16. CASE \E v \in Versions : Deploy(v) \/ ReplaceImage(v)
  <2>1. PICK v \in Versions : Deploy(v) \/ ReplaceImage(v)
    BY <1>16
  <2>2. kills' \in 0 .. MaxKills
    BY <2>1 DEF Deploy, ReplaceImage, Recreate, Booting
  <2>6. harmed' = (harmed \/ kills' >= MaxAttempts)
    BY <2>1 DEF Deploy, ReplaceImage, Recreate
  <2>3. active' \in Entries \cup {None} /\ pending' \in PendingEntries \cup {None}
    BY <2>1 DEF Deploy, ReplaceImage
  <2>4. image' \in Versions /\ schema' \in Versions
    BY <2>1 DEF Deploy, ReplaceImage
  <2>5. pc' = "down" /\ job' = NoJob /\ UNCHANGED <<files, boot>>
    BY <2>1 DEF Deploy, ReplaceImage, Recreate
  <2>7. harmed' \in BOOLEAN
    BY <2>6
  <2> QED
    BY <2>2, <2>3, <2>4, <2>5, <2>7
<1>17. CASE UNCHANGED vars
  BY <1>17 DEF vars
<1> QED
  BY <1>1, <1>2, <1>3, <1>4, <1>5, <1>6, <1>7, <1>8, <1>9, <1>10, <1>11, <1>12, <1>13,
     <1>14, <1>15, <1>16, <1>17, <1>18 DEF Next, Boot, Update

\* No step selects a release older than the image: an entry made on this
\* image is newer than it, and an entry of another image is never selected.
LEMMA ImageStep == TypeOK /\ ImageInv /\ [Next]_vars => ImageInv'
<1> SUFFICES ASSUME TypeOK, ImageInv, [Next]_vars PROVE ImageInv'
  OBVIOUS
<1> USE VersionsAssumption, NoneAssumption
<1> USE DEF ImageInv, NewerThanBase, Up, Current
<1>0. /\ image \in Nat /\ boot.current.ver \in Nat /\ boot \in BootStates
      /\ active # None => active \in Entries /\ active.ver \in Nat /\ active.base \in Nat
      /\ pending # None => /\ pending \in PendingEntries
                           /\ pending.ver \in Nat /\ pending.base \in Nat
      /\ boot.active # None => boot.active \in Entries
      /\ boot.pending # None => /\ boot.pending \in PendingEntries
                                /\ boot.pending.ver \in Nat /\ boot.pending.base \in Nat
      /\ job.phase # "idle" => job.target \in Nat /\ pc = "run"
  BY DEF TypeOK, Entries, PendingEntries, BootStates
<1>1. CASE ReadState
  <2>1. NewerThanBase(boot'.active) /\ NewerThanBase(boot'.pending)
    BY <1>1, <1>0 DEF ReadState
  <2>2. boot'.current.ver >= image
    BY <1>1, <1>0 DEF ReadState, Valid, Image, Release
  <2>3. pc' \in {"pending", "reset", "serve"}
    BY <1>1 DEF ReadState
  <2> QED
    BY <1>1, <1>0, <2>1, <2>2, <2>3 DEF disk, ReadState
<1>2. CASE ReadNothing
  BY <1>2, <1>0 DEF ReadNothing, Image, disk
<1>3. CASE Reset
  BY <1>3, <1>0 DEF Reset, Persist, disk, BootStates
<1>4. CASE Discard \/ GiveUp
  <2>1. Abandon /\ Up
    BY <1>4 DEF Discard, GiveUp
  <2>2. /\ boot'.active = boot.active /\ boot'.pending = None
        /\ boot'.current = boot.current
    BY <2>1, <1>0 DEF Abandon, BootStates
  <2>3. NewerThanBase(active') /\ NewerThanBase(pending')
    BY <2>1, <2>2 DEF Abandon, Persist, disk
  <2> QED
    BY <2>1, <2>2, <2>3 DEF Abandon
<1>5. CASE Count \/ CountFails
  <2> DEFINE counted == [boot.pending EXCEPT !.attempts = @ + 1]
  <2>1. boot.pending # None /\ boot.pending.base = image /\ Up
    BY <1>5 DEF Count, CountFails, Startable, Valid
  <2>2. counted.ver = boot.pending.ver /\ counted.base = boot.pending.base
    BY <2>1, <1>0 DEF PendingEntries
  <2>3. boot' = [boot EXCEPT !.pending = counted]
    BY <1>5 DEF Count, CountFails
  <2> HIDE DEF counted
  <2>4. boot'.active = boot.active /\ boot'.pending = counted /\ boot'.current = boot.current
    BY <2>3, <1>0 DEF BootStates
  <2>5. NewerThanBase(boot'.active) /\ NewerThanBase(boot'.pending) /\ boot'.pending.base = image
    BY <2>1, <2>2, <2>4
  <2>6. NewerThanBase(active') /\ NewerThanBase(pending')
    BY <1>5, <2>5 DEF Count, CountFails, disk
  <2> QED
    BY <1>5, <2>1, <2>4, <2>5, <2>6 DEF Count, CountFails
<1>6. CASE Migrate \/ MigrationFails
  BY <1>6, <1>0 DEF Migrate, MigrationFails, disk
<1>7. CASE Activate
  <2>1. boot.pending # None /\ boot.pending.base = image /\ boot.pending.ver >= image
    BY <1>7, <1>0 DEF Activate, TypeOK
  <2>2. /\ boot'.active = [ver |-> boot.pending.ver, base |-> boot.pending.base]
        /\ boot'.pending = None /\ boot'.current.ver = boot.pending.ver
    BY <1>7 DEF Activate, Release
  <2>3. NewerThanBase(boot'.active) /\ NewerThanBase(active') /\ NewerThanBase(pending')
    BY <1>7, <2>1, <2>2 DEF Activate, Persist, disk
  <2> QED
    BY <1>7, <2>1, <2>2, <2>3 DEF Activate
<1>8. CASE (\E v \in Versions : Prune(v)) \/ Pruned \/ Serve
  BY <1>8, <1>0 DEF Prune, Pruned, Serve, disk
<1>9. CASE Kill \/ Stop \/ Restart
  BY <1>9, <1>0 DEF Kill, Stop, Restart, disk, NoJob, Booting
<1>10. CASE \E v \in Versions : StartUpdate(v)
  <2>1. PICK v \in Versions : StartUpdate(v)
    BY <1>10
  <2>2. job'.target = v /\ v >= image
    BY <2>1, <1>0 DEF StartUpdate
  <2> QED
    BY <2>1, <2>2, <1>0 DEF StartUpdate, disk
<1>11. CASE Extract \/ RemoveOld \/ Install \/ Abort
  BY <1>11, <1>0 DEF Extract, RemoveOld, Install, Abort, disk, NoJob, TypeOK
<1>12. CASE Stage
  BY <1>12, <1>0 DEF Stage, TypeOK
<1>13. CASE RestartFails
  BY <1>13, <1>0 DEF RestartFails, NoJob
<1>14. CASE \E v \in Versions : Deploy(v) \/ ReplaceImage(v)
  BY <1>14, <1>0 DEF Deploy, ReplaceImage, Recreate, NoJob, disk
<1>15. CASE UNCHANGED vars
  BY <1>15 DEF vars, disk
<1> QED
  BY <1>1, <1>2, <1>3, <1>4, <1>5, <1>6, <1>7, <1>8, <1>9, <1>10, <1>11, <1>12, <1>13,
     <1>14, <1>15 DEF Next, Boot, Update

\* The schema only grows, except when a restored database is deployed, and
\* then nothing of the volume is selected any more.
LEMMA SchemaStep == TypeOK /\ SchemaInv /\ [Next]_vars => SchemaInv'
<1> SUFFICES ASSUME TypeOK, SchemaInv, [Next]_vars PROVE SchemaInv'
  OBVIOUS
<1> USE VersionsAssumption, NoneAssumption, SettingsAssumption
<1>0. /\ image \in Nat /\ schema \in Nat /\ boot.current.ver \in Nat /\ boot \in BootStates
      /\ active # None => active.ver \in Nat
      /\ boot.active # None => boot.active.ver \in Nat
      /\ boot.pending # None => boot.pending \in PendingEntries /\ boot.pending.ver \in Nat
      /\ pc \in {"migrate", "giveup", "activate"} => boot.pending # None
  BY DEF TypeOK, Entries, PendingEntries, BootStates
<1>a. CASE MigratesAtStart
  <2> USE <1>a DEF SchemaInv, NeverAhead, Serving, Current
  <2>1. CASE Serve
    BY <2>1, <1>0 DEF Serve, Newest
  <2>2. CASE pc = "run" /\ pc' = "run" /\ boot' = boot /\ schema' = schema
    BY <2>2
  <2>3. CASE pc' # "run"
    BY <2>3
  <2>4. Serve \/ pc' # "run" \/ (pc = "run" /\ pc' = "run" /\ boot' = boot /\ schema' = schema)
    <3>1. CASE Boot
      BY <3>1 DEF Boot, ReadState, ReadNothing, Reset, Discard, Count, CountFails, Migrate,
                  MigrationFails, GiveUp, Activate, Prune, Pruned, Abandon
    <3>2. CASE Kill \/ Stop \/ \E v \in Versions : Deploy(v) \/ ReplaceImage(v)
      BY <3>2 DEF Kill, Stop, Deploy, ReplaceImage, Recreate
    <3>3. CASE Update
      BY <3>3 DEF Update, StartUpdate, Extract, RemoveOld, Install, Stage, Abort, Restart,
                  Stop, RestartFails
    <3>4. CASE UNCHANGED vars
      BY <3>4 DEF vars
    <3> QED
      BY <3>1, <3>2, <3>3, <3>4 DEF Next
  <2> QED
    BY <2>1, <2>2, <2>3, <2>4
<1>b. CASE ~MigratesAtStart
  <2> USE <1>b DEF SchemaInv, MigratedEntry, Up, Current
  <2>1. CASE ReadState
    BY <2>1, <1>0 DEF ReadState, Valid, Image, Release, disk
  <2>2. CASE ReadNothing
    BY <2>2, <1>0 DEF ReadNothing, Image, disk
  <2>3. CASE Reset
    BY <2>3, <1>0 DEF Reset, Persist, disk, BootStates
  <2>4. CASE Discard \/ GiveUp
    <3>1. Abandon /\ Up
      BY <2>4 DEF Discard, GiveUp
    <3>2. boot'.active = boot.active /\ boot'.current = boot.current
      BY <3>1, <1>0 DEF Abandon, BootStates
    <3> QED
      BY <3>1, <3>2, <1>0 DEF Abandon, Persist, disk
  <2>5. CASE Count \/ CountFails
    <3>1. boot'.active = boot.active /\ boot'.current = boot.current
      BY <2>5, <1>0 DEF Count, CountFails, BootStates
    <3> QED
      BY <2>5, <3>1, <1>0 DEF Count, CountFails, disk
  <2>6. CASE Migrate \/ MigrationFails
    BY <2>6, <1>0 DEF Migrate, MigrationFails, Migrated, Newest, disk
  <2>7. CASE Activate
    <3>1. /\ boot'.active.ver = boot.pending.ver /\ boot'.current.ver = boot.pending.ver
          /\ boot.pending.ver <= schema
      BY <2>7, <1>0 DEF Activate, Release
    <3> QED
      BY <2>7, <3>1, <1>0 DEF Activate, Persist, disk
  <2>8. CASE (\E v \in Versions : Prune(v)) \/ Pruned \/ Serve
    BY <2>8, <1>0 DEF Prune, Pruned, Serve, disk
  <2>9. CASE Kill \/ Stop \/ Restart
    BY <2>9, <1>0 DEF Kill, Stop, Restart, disk
  <2>10. CASE \E v \in Versions : StartUpdate(v)
    BY <2>10, <1>0 DEF StartUpdate, disk
  <2>11. CASE Extract \/ RemoveOld \/ Install \/ Abort \/ Stage \/ RestartFails
    BY <2>11, <1>0 DEF Extract, RemoveOld, Install, Abort, Stage, RestartFails, disk
  <2>12. CASE \E v \in Versions : Deploy(v) \/ ReplaceImage(v)
    BY <2>12, <1>0 DEF Deploy, ReplaceImage, Recreate
  <2>13. CASE UNCHANGED vars
    BY <2>13 DEF vars, disk
  <2> QED
    BY <2>1, <2>2, <2>3, <2>4, <2>5, <2>6, <2>7, <2>8, <2>9, <2>10, <2>11, <2>12, <2>13
       DEF Next, Boot, Update
<1> QED
  BY <1>a, <1>b DEF SettingsAssumption

\* Pruning and updating spare the directories of the release in force and of
\* the running one, as long as state.json can be read.
LEMMA DirsStep ==
  ASSUME "read" \notin Faults, ~MigratesAtStart, TypeOK, ImageInv, DirsInv, [Next]_vars
  PROVE  DirsInv'
<1> USE VersionsAssumption, NoneAssumption
<1> USE DEF DirsInv, InForce, Up, Switching, Current
<1>0. /\ image \in Nat /\ boot.current.ver \in Versions /\ boot.current.ver \in Nat
      /\ boot \in BootStates /\ pc \in PCs /\ files \subseteq Versions
      /\ active # None => active \in Entries /\ active.ver \in Nat /\ active.base \in Nat
      /\ pending # None => /\ pending \in PendingEntries
                           /\ pending.ver \in Nat /\ pending.base \in Nat
      /\ boot.active # None => boot.active \in Entries
      /\ boot.pending # None => /\ boot.pending \in PendingEntries
                                /\ boot.pending.ver \in Nat /\ boot.pending.base \in Nat
      /\ job.phase # "idle" => job.target \in Nat /\ pc = "run"
      /\ pc \in {"migrate", "giveup", "activate"} => boot.pending # None
  BY DEF TypeOK, Entries, PendingEntries, BootStates
<1>1. CASE ReadState
  <2>1. /\ pc' \in {"pending", "reset", "serve"}
        /\ UNCHANGED <<image, active, pending, files, job>> /\ job.phase = "idle"
    BY <1>1, <1>0 DEF ReadState, disk
  <2>2. /\ boot'.active = IF Valid(active) THEN active ELSE None
        /\ boot'.current = IF Valid(active) THEN Release(active.ver) ELSE Image(image)
        /\ boot'.pending = pending
    BY <1>1 DEF ReadState
  <2>3. InForce(active) => Valid(active)
    BY DEF Valid
  <2>4. Dirs(boot'.current) \subseteq files
    BY <2>2 DEF Valid, Dirs, Release, Image
  <2>5. InForce(active) => boot'.current.ver = active.ver
    BY <2>2, <2>3 DEF Release
  <2>6. boot'.active # None => boot'.current = Release(boot'.active.ver)
    BY <2>2
  <2>7. pc' = "reset" => ~Valid(active)
    BY <1>1 DEF ReadState
  <2>8. ~Valid(active) => Dirs(boot'.current) = {} /\ boot'.active = None
    BY <2>2 DEF Image, Dirs
  <2> QED
    BY <1>0, <2>1, <2>2, <2>3, <2>4, <2>5, <2>6, <2>7, <2>8
<1>2. CASE Reset
  <2>1. boot'.active = boot.active /\ boot'.pending = boot.pending /\ boot'.current = boot.current
    BY <1>2, <1>0 DEF Reset, BootStates
  <2>2. ~InForce(active)'
    BY <1>2, <2>1 DEF Reset, Persist, disk
  <2> QED
    BY <1>2, <2>1, <2>2, <1>0 DEF Reset
<1>3. CASE Discard \/ GiveUp
  <2>1. Abandon /\ Up /\ Switching /\ job.phase = "idle"
    BY <1>3, <1>0 DEF Discard, GiveUp
  <2>2. /\ boot'.active = boot.active /\ boot'.current = boot.current
        /\ boot'.pending = None /\ boot'.keep = Dirs(boot.current)
    BY <2>1, <1>0 DEF Abandon, BootStates
  <2>3. InForce(active)' => boot.active # None /\ active' = boot.active
    BY <2>1, <2>2 DEF Abandon, Persist, disk
  <2>4. InForce(active)' => active'.ver = Current /\ Dirs(boot.current) = {active'.ver}
    BY <2>1, <2>3 DEF Release, Dirs
  <2>5. InForce(active)' /\ InForce(pending)' => active'.ver <= pending'.ver
    BY <2>1, <2>2 DEF Abandon, Persist, disk
  <2> QED
    BY <2>1, <2>2, <2>4, <2>5, <1>0 DEF Abandon
<1>4. CASE Count \/ CountFails
  <2> DEFINE counted == [boot.pending EXCEPT !.attempts = @ + 1]
  <2>1. /\ Valid(boot.pending) /\ boot.pending # None /\ pc = "pending" /\ job.phase = "idle"
        /\ pc' \in {"migrate", "serve"} /\ UNCHANGED <<image, files, job>>
    BY <1>4, <1>0 DEF Count, CountFails, Startable, Valid
  <2>2. counted.ver = boot.pending.ver /\ counted.base = boot.pending.base
    BY <2>1, <1>0 DEF PendingEntries
  <2>3. boot' = [boot EXCEPT !.pending = counted]
    BY <1>4 DEF Count, CountFails
  <2>4. \/ active' = boot'.active /\ pending' = boot'.pending
        \/ UNCHANGED disk
    BY <1>4 DEF Count, CountFails
  <2> HIDE DEF counted
  <2>5. boot'.active = boot.active /\ boot'.pending = counted /\ boot'.current = boot.current
    BY <2>3, <1>0 DEF BootStates
  <2>6. InForce(active)' => boot.active # None /\ active' = boot.active
    BY <2>1, <2>4, <2>5 DEF disk
  <2>7. InForce(active)' => active'.ver = Current /\ Dirs(boot.current) = {active'.ver}
    BY <2>1, <2>6 DEF Release, Dirs
  <2>8. InForce(active)' => InForce(active)
    BY <2>1, <2>4, <2>5 DEF disk
  <2>9. InForce(active)' => active' = active
    BY <2>1, <2>6, <2>8
  <2>10. InForce(active)' /\ InForce(boot.pending)' => active'.ver <= boot'.pending.ver
    BY <2>1, <2>2, <2>5, <2>8, <2>9
  <2>11. InForce(active)' /\ InForce(pending)' => active'.ver <= pending'.ver
    BY <2>1, <2>4, <2>5, <2>8, <2>9, <2>10 DEF disk
  <2>12. InForce(active)' => active'.ver \in files' /\ (Up' => active'.ver <= Current')
    BY <2>1, <2>5, <2>7, <2>8, <2>9, <1>0
  <2>13. Switching' => /\ InForce(active)' => boot'.active = active'
                       /\ boot'.active # None => /\ boot'.active = active'
                                                 /\ boot'.current = Release(active'.ver)
    BY <2>1, <2>4, <2>5, <2>6, <1>4 DEF disk, Count, CountFails
  <2>14. Dirs(boot.current)' \subseteq files' /\ boot'.pending.ver \in files'
    BY <2>1, <2>2, <2>5 DEF Valid
  <2> QED
    BY <2>1, <2>10, <2>11, <2>12, <2>13, <2>14
<1>5. CASE Migrate \/ MigrationFails
  BY <1>5, <1>0 DEF Migrate, MigrationFails, disk
<1>6. CASE Activate
  <2> DEFINE new == boot.pending.ver
  <2>1. /\ new \in files /\ new \in Nat /\ pc' = "prune" /\ job.phase = "idle"
        /\ UNCHANGED <<image, files, job>>
    BY <1>6, <1>0 DEF Activate
  <2>2. /\ boot'.active = [ver |-> new, base |-> boot.pending.base]
        /\ boot'.pending = None /\ boot'.current = Release(new)
        /\ boot'.keep = Dirs(Release(new)) \cup Dirs(boot.current)
    BY <1>6 DEF Activate
  <2>3. Dirs(Release(new)) = {new} /\ Release(new).ver = new
    BY DEF Dirs, Release
  <2>4. boot.pending.base = image /\ boot.pending # None
    BY <1>6, <1>0 DEF Activate, ImageInv
  <2>5. InForce(active) => /\ active.ver \in Dirs(boot.current)
                           /\ active.ver <= new
    BY <1>6, <2>4 DEF Activate, Dirs, Release
  <2>6. CASE active' = boot'.active /\ pending' = boot'.pending
    BY <2>1, <2>2, <2>3, <2>6
  <2>7. CASE UNCHANGED disk
    BY <2>1, <2>2, <2>3, <2>5, <2>7 DEF disk
  <2> QED
    BY <1>6, <2>6, <2>7 DEF Activate, Persist
<1>7. CASE \E v \in Versions : Prune(v)
  BY <1>7, <1>0 DEF Prune, disk
<1>8. CASE Pruned \/ Serve
  BY <1>8, <1>0 DEF Pruned, Serve, disk
<1>9. CASE Kill \/ Stop \/ Restart
  BY <1>9, <1>0 DEF Kill, Stop, Restart, Booting, NoJob, disk
<1>10. CASE \E v \in Versions : StartUpdate(v)
  BY <1>10, <1>0 DEF StartUpdate, disk
<1>11. CASE Extract \/ RemoveOld \/ Install \/ Abort
  <2>1. /\ pc = "run" /\ job.phase # "idle" /\ job.target > Current
        /\ UNCHANGED <<image, active, pending, pc, boot>>
    BY <1>11, <1>0 DEF Extract, RemoveOld, Install, Abort, disk
  <2>2. job.target \notin Dirs(boot.current)
    BY <2>1, <1>0 DEF Dirs
  <2>3. InForce(active) => active.ver # job.target
    BY <2>1, <1>0
  <2>4. files \ {job.target} \subseteq files'
    BY <1>11 DEF Extract, RemoveOld, Install, Abort
  <2>5. job'.phase = "idle" \/ job'.target = job.target
    BY <1>11, <1>0 DEF Extract, RemoveOld, Install, Abort, NoJob, TypeOK
  <2> QED
    BY <2>1, <2>2, <2>3, <2>4, <2>5, <1>0
<1>12. CASE Stage
  BY <1>12, <1>0 DEF Stage
<1>13. CASE RestartFails
  BY <1>13, <1>0 DEF RestartFails, NoJob, Dirs
<1>14. CASE \E v \in Versions : Deploy(v) \/ ReplaceImage(v)
  BY <1>14, <1>0 DEF Deploy, ReplaceImage, Recreate, NoJob
<1>15. CASE UNCHANGED vars
  BY <1>15 DEF vars, disk
<1>16. ~ReadNothing
  BY DEF ReadNothing
<1> QED
  BY <1>1, <1>2, <1>3, <1>4, <1>5, <1>6, <1>7, <1>8, <1>9, <1>10, <1>11, <1>12, <1>13,
     <1>14, <1>15, <1>16 DEF Next, Boot, Update

\* The updater only installs what is newer than the running code, and what is
\* being switched to stays complete.
LEMMA FilesStep ==
  ASSUME TypeOK, FilesKept, [Next]_vars
  PROVE  FilesKept'
<1> USE VersionsAssumption, NoneAssumption
<1> USE DEF FilesKept, Attempting, Current, Valid
<1>0. /\ boot.current.ver \in Nat /\ boot \in BootStates
      /\ boot.pending # None => boot.pending \in PendingEntries
      /\ job.phase # "idle" => job.target \in Nat /\ pc = "run"
  BY DEF TypeOK, PendingEntries, BootStates
<1>1. CASE ReadState \/ ReadNothing
  BY <1>1, <1>0 DEF ReadState, ReadNothing
<1>2. CASE Reset \/ Discard \/ GiveUp \/ Activate \/ Serve \/ Kill \/ Stop \/ Restart \/ CountFails
  BY <1>2, <1>0 DEF Reset, Discard, GiveUp, Abandon, Activate, Serve, Kill, Stop, Restart,
     CountFails, NoJob, Booting
<1>3. CASE Count
  <2> DEFINE counted == [boot.pending EXCEPT !.attempts = @ + 1]
  <2>1. Valid(boot.pending) /\ job.phase = "idle" /\ UNCHANGED <<image, files, job>>
    BY <1>3, <1>0 DEF Count, Startable
  <2>5. boot.pending \in PendingEntries /\ boot.pending.attempts + 1 \in 0 .. MaxAttempts
    BY <1>3, <1>0, LimitsAssumption DEF Count, Startable, PendingEntries
  <2>6. counted \in PendingEntries
    BY <2>5 DEF PendingEntries
  <2>2. counted.ver = boot.pending.ver /\ counted.base = boot.pending.base /\ counted # None
    BY <2>5, <2>6 DEF PendingEntries
  <2>3. boot' = [boot EXCEPT !.pending = counted]
    BY <1>3 DEF Count
  <2> HIDE DEF counted
  <2>4. boot'.pending = counted
    BY <2>3, <1>0 DEF BootStates
  <2> QED
    BY <2>1, <2>2, <2>4
<1>4. CASE Migrate \/ MigrationFails
  BY <1>4, <1>0 DEF Migrate, MigrationFails
<1>5. CASE (\E v \in Versions : Prune(v)) \/ Pruned
  BY <1>5, <1>0 DEF Prune, Pruned
<1>6. CASE \E v \in Versions : StartUpdate(v)
  BY <1>6, <1>0 DEF StartUpdate
<1>7. CASE Extract \/ RemoveOld \/ Install \/ Abort \/ Stage \/ RestartFails
  BY <1>7, <1>0 DEF Extract, RemoveOld, Install, Abort, Stage, RestartFails, NoJob, TypeOK
<1>8. CASE \E v \in Versions : Deploy(v) \/ ReplaceImage(v)
  BY <1>8, <1>0 DEF Deploy, ReplaceImage, Recreate, NoJob
<1>9. CASE UNCHANGED vars
  BY <1>9 DEF vars, disk
<1> QED
  BY <1>1, <1>2, <1>3, <1>4, <1>5, <1>6, <1>7, <1>8, <1>9 DEF Next, Boot, Update

\* A release that may have migrated the database is not given up: unharmed,
\* its attempts are bounded by the kills, and it stays complete.
LEMMA UnharmedStep ==
  ASSUME TypeOK, ImageInv, FilesKept, Unharmed, [Next]_vars
  PROVE  Unharmed'
<1> USE VersionsAssumption, NoneAssumption, LimitsAssumption
<1>h. SUFFICES ASSUME ~harmed' PROVE (InStep /\ Counted /\ SchemaKept)'
  BY DEF Unharmed
<1>0. /\ image \in Nat /\ schema \in Nat /\ kills \in Nat /\ MaxAttempts \in Nat \ {0}
      /\ boot \in BootStates /\ pc \in PCs /\ files \subseteq Versions
      /\ active # None => /\ active \in Entries /\ active.ver \in Nat /\ active.base \in Nat
                          /\ active.ver >= active.base
      /\ pending # None => /\ pending \in PendingEntries /\ pending.ver \in Nat
                           /\ pending.base \in Nat /\ pending.attempts \in Nat
                           /\ pending.ver >= pending.base
      /\ boot.current.ver \in Nat
      /\ job.phase # "idle" => job.target \in Nat /\ pc = "run" /\ job.target > Current
      /\ Attempting => boot.pending # None /\ Valid(boot.pending)
  BY DEF TypeOK, Entries, PendingEntries, BootStates, ImageInv, NewerThanBase, Attempting, FilesKept
<1>k. Image(image).ver = image /\ \A v : Release(v).ver = v /\ Dirs(Release(v)) = {v}
  BY DEF Image, Release, Dirs
<1>s. Selected.ver \in Nat /\ (Valid(active) => Selected = Release(active.ver))
  BY <1>0, <1>k DEF Selected, Valid
<1>u. harmed' = harmed => InStep /\ Counted /\ SchemaKept
  BY <1>h DEF Unharmed
<1> USE DEF InStep, Counted, SchemaKept, Resumable, Attempting, Up
<1>1. CASE ReadState
  <2>1. /\ UNCHANGED <<image, schema, active, pending, files, kills, harmed>>
        /\ pc = "down" /\ pc' \in {"pending", "reset", "serve"}
        /\ pending # None <=> pc' = "pending"
        /\ pc' = "serve" => active = None \/ Valid(active)
        /\ pc' = "reset" => ~Valid(active)
    BY <1>1 DEF ReadState, disk
  <2>2. /\ boot'.current = Selected /\ boot'.pending = pending
        /\ boot'.active = IF Valid(active) THEN active ELSE None
    BY <1>1 DEF ReadState, Selected
  <2>3. Selected' = Selected /\ Valid(active)' = Valid(active) /\ Valid(pending)' = Valid(pending)
    BY <2>1 DEF Selected, Valid
  <2> QED
    BY <2>1, <2>2, <2>3, <1>u, <1>0 DEF Valid
<1>2. CASE ReadNothing \/ CountFails
  BY <1>2, <1>h DEF ReadNothing, CountFails
<1>3. CASE Reset
  <2>1. /\ active' = None /\ pending' = None /\ boot'.active = None /\ harmed' = harmed
        /\ boot'.current = boot.current /\ boot'.keep = {} /\ pc' = "prune"
        /\ UNCHANGED <<image, schema, files, kills>>
    BY <1>3, <1>u, <1>h, <1>0 DEF Reset, Persist, BootStates
  <2>2. boot.current = Image(image) /\ Selected = Image(image)
    BY <1>3, <1>u, <2>1, <1>0 DEF Reset, Selected, Valid
  <2>3. Selected' = Image(image) /\ ~Valid(active)' /\ Dirs(Image(image)) = {}
    BY <2>1 DEF Selected, Valid, Dirs, Image
  <2> QED
    BY <1>3, <2>1, <2>2, <2>3, <1>u, <1>0 DEF Reset
<1>4. CASE Discard \/ GiveUp
  <2>1. Abandon /\ harmed' = harmed /\ active' = boot'.active /\ pending' = boot'.pending
    BY <1>4, <1>h DEF Discard, GiveUp, Abandon, Persist
  <2>2. /\ boot'.active = boot.active /\ boot'.pending = None /\ boot'.current = boot.current
        /\ boot'.keep = Dirs(boot.current)
        /\ pc' = "prune" /\ UNCHANGED <<image, schema, files, kills>>
    BY <2>1, <1>0 DEF Abandon, BootStates
  <2>3. boot.current = Selected /\ boot.active = IF Valid(active) THEN active ELSE None
    BY <1>4, <2>1, <1>u DEF Discard, GiveUp
  <2>4. Valid(active)' = Valid(active) /\ (Valid(active) => active' = active)
        /\ (~Valid(active) => active' = None)
    BY <2>1, <2>2, <2>3 DEF Valid
  <2>5. Selected' = Selected
    BY <2>2, <2>4 DEF Selected
  <2>6. ~Resumable
    <3>1. CASE GiveUp
      BY <3>1 DEF GiveUp
    <3>2. CASE Discard
      <4>1. pc = "pending" /\ boot.pending = pending /\ ~Startable
        BY <3>2, <2>1, <1>u DEF Discard
      <4>2. Valid(pending) => pending.attempts < MaxAttempts
        BY <4>1, <2>1, <1>u, <1>0 DEF Valid
      <4> QED
        BY <4>1, <4>2 DEF Startable
    <3> QED
      BY <1>4, <3>1, <3>2
  <2>7. Selected.ver >= schema
    BY <2>6, <2>1, <1>u
  <2> QED
    BY <2>1, <2>2, <2>3, <2>4, <2>5, <2>7, <1>u, <1>0
<1>5. CASE Count
  <2> DEFINE counted == [boot.pending EXCEPT !.attempts = @ + 1]
  <2>1. /\ Valid(boot.pending) /\ pc = "pending" /\ pc' = "migrate" /\ boot.pending = pending
        /\ UNCHANGED <<image, schema, files, kills, harmed>>
    BY <1>5, <1>u DEF Count, Startable
  <2>2. /\ counted.ver = pending.ver /\ counted.base = pending.base /\ counted # None
        /\ counted.attempts = pending.attempts + 1
    BY <2>1, <1>0, <1>5 DEF PendingEntries, Count, Startable, Valid
  <2>3. boot' = [boot EXCEPT !.pending = counted]
    BY <1>5 DEF Count
  <2> HIDE DEF counted
  <2>4. boot'.active = boot.active /\ boot'.pending = counted /\ boot'.current = boot.current
    BY <2>3, <1>0 DEF BootStates
  <2>5. active' = boot.active /\ pending' = counted
    BY <1>5, <2>4 DEF Count
  <2>6. boot.current = Selected /\ boot.active = IF Valid(active) THEN active ELSE None
    BY <2>1, <1>u
  <2>7. Valid(active)' = Valid(active) /\ (Valid(active) => active' = active)
        /\ (~Valid(active) => active' = None)
    BY <2>1, <2>5, <2>6 DEF Valid
  <2>8. Selected' = Selected
    BY <2>1, <2>7 DEF Selected
  <2>9. Valid(pending)' = Valid(pending)
    BY <2>1, <2>2, <2>5 DEF Valid
  <2>13. active' # None => active' = active /\ active # None
    BY <2>7
  <2>10. InStep'
    <3>1. boot'.current = Selected' /\ boot'.active = IF Valid(active)' THEN active' ELSE None
      BY <2>4, <2>5, <2>6, <2>7, <2>8
    <3>2. active' = None \/ Valid(active)'
      BY <2>7
    <3>3. active' # None /\ active'.base = pending'.base => active'.ver <= pending'.ver
      BY <2>1, <2>2, <2>5, <2>13, <1>u, <1>0 DEF Valid
    <3> QED
      BY <2>1, <2>4, <2>5, <3>1, <3>2, <3>3
  <2>14. pending # None
    BY <2>1 DEF Valid
  <2>11. Counted'
    BY <2>1, <2>2, <2>5, <2>14, <1>u, <1>0
  <2>12. SchemaKept'
    BY <2>1, <2>2, <2>5, <2>8, <2>9, <1>u, <1>0
  <2> QED
    BY <2>10, <2>11, <2>12
<1>6. CASE Migrate
  <2>1. /\ pc = "migrate" /\ pc' = "activate" /\ boot.pending = pending /\ pending # None
        /\ pending.ver \notin Broken /\ schema' = Newest(schema, pending.ver)
        /\ UNCHANGED <<image, active, pending, files, boot, kills, harmed>>
    BY <1>6, <1>u, <1>0 DEF Migrate, Migrated, disk
  <2>2. Valid(pending) /\ pending.base = image
    BY <2>1, <1>0 DEF Valid
  <2>3. Selected.ver <= pending.ver
    BY <2>1, <2>2, <1>u, <1>0, <1>k DEF Selected, Valid
  <2>4. schema' = pending.ver
    BY <2>1, <2>3, <1>u, <1>0, <1>s DEF Newest
  <2>5. Selected' = Selected /\ Valid(active)' = Valid(active) /\ Valid(pending)' = Valid(pending)
    BY <2>1 DEF Selected, Valid
  <2> QED
    BY <2>1, <2>2, <2>4, <2>5, <1>u, <1>0
<1>7. CASE MigrationFails
  <2>4. boot.pending.ver \in Broken /\ harmed' = harmed
    BY <1>7, <1>h, ZenonT(30) DEF MigrationFails, TypeOK
  <2>1. /\ pc = "migrate" /\ pc' = "giveup" /\ boot.pending.ver \in Broken
        /\ UNCHANGED <<image, schema, active, pending, files, boot, kills, harmed>>
    BY <1>7, <2>4 DEF MigrationFails, disk
  <2>2. Selected' = Selected /\ Valid(active)' = Valid(active)
    BY <2>1 DEF Selected, Valid
  <2>3. Selected.ver >= schema
    BY <2>1, <1>u
  <2> QED
    BY <2>1, <2>2, <2>3, <1>u
<1>8. CASE Activate
  <2> DEFINE new == boot.pending.ver
  <2>1. /\ boot.pending = pending /\ Valid(pending) /\ pending.base = image
        /\ pending.ver >= schema /\ harmed' = harmed /\ pc' = "prune"
        /\ active' = boot'.active /\ pending' = boot'.pending
        /\ UNCHANGED <<image, schema, files, kills>>
    BY <1>8, <1>h, <1>u, <1>0 DEF Activate, Persist, Valid
  <2>2. /\ boot'.active = [ver |-> new, base |-> boot.pending.base]
        /\ boot'.pending = None /\ boot'.current = Release(new)
        /\ boot'.keep = Dirs(Release(new)) \cup Dirs(boot.current)
    BY <1>8 DEF Activate
  <2>3. active'.ver = new /\ active'.base = image /\ active' # None
    BY <2>1, <2>2, <1>8, <1>0 DEF TypeOK, BootStates, Entries, Activate, PendingEntries
  <2>4. Valid(active)' /\ Selected' = Release(new)
    BY <2>1, <2>3 DEF Valid, Selected
  <2> QED
    BY <2>1, <2>2, <2>3, <2>4, <1>u, <1>0, <1>k
<1>9. CASE \E v \in Versions : Prune(v)
  <2>1. /\ pc = "prune" /\ UNCHANGED <<image, schema, active, pending, pc, boot, kills, harmed>>
        /\ boot.keep \cap files \subseteq files'  /\ files' \subseteq files
    BY <1>9 DEF Prune, disk
  <2>2. Valid(active) => active.ver \in boot.keep
    BY <2>1, <1>u, <1>s, <1>k
  <2>3. Valid(active)' = Valid(active)
    BY <2>1, <2>2 DEF Valid
  <2>4. Selected' = Selected
    BY <2>1, <2>3 DEF Selected
  <2> QED
    BY <2>1, <2>3, <2>4, <1>u
<1>10. CASE Pruned \/ Serve
  <2>1. /\ pc \in {"prune", "serve"} /\ pc' \in {"serve", "run"}
        /\ UNCHANGED <<image, active, pending, files, boot, kills, harmed>>
        /\ schema' = schema \/ schema' = Newest(schema, boot.current.ver)
    BY <1>10 DEF Pruned, Serve, disk
  <2>2. Selected' = Selected /\ Valid(active)' = Valid(active)
    BY <2>1 DEF Selected, Valid
  <2>3. boot.current = Selected /\ Selected.ver >= schema
    BY <2>1, <1>u
  <2>4. Selected.ver >= schema'
    BY <2>1, <2>3, <1>0 DEF Newest
  <2> QED
    BY <2>1, <2>2, <2>3, <2>4, <1>u
<1>11. CASE Kill \/ Stop \/ Restart
  <2>3. harmed' = harmed /\ (Kill => ~(kills' >= MaxAttempts))
    BY <1>11, <1>h DEF Kill, Stop, Restart, TypeOK
  <2>1. /\ pc' = "down" /\ UNCHANGED <<image, schema, active, pending, files, boot>>
        /\ harmed' = harmed /\ kills' < MaxAttempts
        /\ \/ pc # "run" /\ kills' = kills + 1
           \/ pc = "run" /\ kills' = kills
    BY <1>11, <2>3, <1>u, <1>0 DEF Kill, Stop, Restart, disk, Booting
  <2>2. Selected' = Selected /\ Valid(active)' = Valid(active) /\ Valid(pending)' = Valid(pending)
    BY <2>1 DEF Selected, Valid
  <2> QED
    BY <2>1, <2>2, <1>u, <1>0
<1>12. CASE (\E v \in Versions : StartUpdate(v)) \/ Extract \/ RemoveOld \/ Install \/ Abort
  <2>1. /\ pc = "run" /\ UNCHANGED <<image, schema, active, pending, pc, boot, kills, harmed>>
        /\ files \ {job.target} \subseteq files' /\ files' \subseteq files \cup {job.target}
        /\ files' # files => job.phase # "idle"
    BY <1>12 DEF StartUpdate, Extract, RemoveOld, Install, Abort, disk
  <2>2. Valid(active) => files' = files \/ active.ver # job.target
    BY <2>1, <1>u, <1>s, <1>k, <1>0 DEF Current
  <2>3. Valid(active)' = Valid(active)
    BY <2>1, <2>2, <1>u DEF Valid
  <2>4. Selected' = Selected
    BY <2>1, <2>3 DEF Selected
  <2> QED
    BY <2>1, <2>3, <2>4, <1>u
<1>13. CASE Stage
  <2>1. /\ pc = "run" /\ UNCHANGED <<image, schema, active, files, pc, boot, harmed>>
        /\ kills' = 0 /\ pending' = [ver |-> job.target, base |-> image, attempts |-> 0]
        /\ job.phase # "idle"
    BY <1>13, <1>h DEF Stage
  <2>2. Selected' = Selected /\ Valid(active)' = Valid(active)
    BY <2>1 DEF Selected, Valid
  <2>3. active # None /\ active.base = image => active.ver <= job.target
    BY <2>1, <1>u, <1>s, <1>k, <1>0 DEF Current, Valid
  <2> QED
    BY <2>1, <2>2, <2>3, <1>u, <1>0
<1>14. CASE RestartFails
  <2>1. /\ pc = "run" /\ UNCHANGED <<image, schema, active, pc, boot, kills, harmed>>
        /\ pending' \in {None, pending} /\ files' = files \ {job.target} /\ job.phase # "idle"
    BY <1>14 DEF RestartFails
  <2>2. Valid(active) => active.ver # job.target
    BY <2>1, <1>u, <1>s, <1>k, <1>0 DEF Current
  <2>3. Valid(active)' = Valid(active)
    BY <2>1, <2>2 DEF Valid
  <2>4. Selected' = Selected
    BY <2>1, <2>3 DEF Selected
  <2> QED
    BY <2>1, <2>3, <2>4, <1>u, <1>0
<1>15. CASE \E v \in Versions : Deploy(v)
  <2>1. /\ pc' = "down" /\ active' = None /\ pending' = None /\ schema' = image'
        /\ image' \in Versions /\ kills' < MaxAttempts
    <3>1. ~(kills' >= MaxAttempts)
      BY <1>15, <1>h DEF Deploy, Recreate
    <3>2. kills' \in Nat
      BY <1>15, <1>0 DEF Deploy, Recreate
    <3> QED
      BY <1>15, <3>1, <3>2, <1>0 DEF Deploy, Recreate
  <2>2. Selected'.ver = image'
    BY <2>1 DEF Selected, Valid, Image
  <2> QED
    BY <2>1, <2>2
<1>16. CASE \E v \in Versions : ReplaceImage(v)
  <2>1. /\ pc' = "down" /\ image' \in Versions /\ image' >= schema
        /\ UNCHANGED <<schema, active, pending, files, boot>>
        /\ harmed' = harmed /\ kills' < MaxAttempts
        /\ kills' = IF pc \in Booting THEN kills + 1 ELSE kills
    <3>1. harmed' = harmed /\ ~(kills' >= MaxAttempts)
      BY <1>16, <1>h DEF ReplaceImage, Recreate, TypeOK
    <3>2. kills' = IF pc \in Booting THEN kills + 1 ELSE kills
      BY <1>16 DEF ReplaceImage, Recreate
    <3> QED
      BY <1>16, <3>1, <3>2, <1>0 DEF ReplaceImage, Recreate, disk
  <2>2. Selected'.ver >= image'
    <3>1. image' \in Nat /\ active' = active
      BY <2>1
    <3>2. CASE Valid(active)'
      BY <3>1, <3>2, <1>0, <1>k DEF Selected, Valid
    <3>3. CASE ~Valid(active)'
      BY <3>1, <3>3 DEF Selected, Image
    <3> QED
      BY <3>2, <3>3
  <2>3. Selected'.ver >= schema'
    <3>1. Selected'.ver \in Nat /\ image' \in Nat
      <4>1. image' \in Nat /\ (Valid(active)' => active'.ver \in Nat)
        BY <2>1, <1>0 DEF Valid
      <4> QED
        BY <4>1 DEF Selected, Image, Release
    <3> QED
      BY <2>1, <2>2, <3>1, <1>0
  <2>4. pending' # None => pending'.attempts <= kills'
    BY <2>1, <1>u, <1>0 DEF Booting, PCs
  <2> QED
    BY <2>1, <2>3, <2>4, <1>u, <1>0
<1>17. CASE UNCHANGED vars
  <2>1. Selected' = Selected /\ Valid(active)' = Valid(active) /\ Valid(pending)' = Valid(pending)
    BY <1>17 DEF Selected, Valid, vars, disk
  <2> QED
    BY <1>17, <2>1, <1>u DEF vars, disk
<1> QED
  BY <1>1, <1>2, <1>3, <1>4, <1>5, <1>6, <1>7, <1>8, <1>9, <1>10, <1>11, <1>12, <1>13,
     <1>14, <1>15, <1>16, <1>17 DEF Next, Boot, Update

-----------------------------------------------------------------------------

\* The inductive invariant of the switch holds in every behaviour.
THEOREM BootInvariance == Spec => []IInv
<1>1. IInv /\ [Next]_vars => IInv'
  BY TypeStep, ImageStep, SchemaStep DEF IInv
<1> QED
  BY InitInv, <1>1, PTL DEF Spec

\* The types of the boot and of the updater, for every set of releases.
THEOREM BootTypeCorrect == Spec => []TypeOK
<1>1. IInv => TypeOK
  BY DEF IInv
<1> QED
  BY BootInvariance, <1>1, PTL

\* Whatever fails and however often the container is killed, the code that
\* serves finds every migration it needs.
THEOREM ServedSchema == Spec => []NeverAhead
<1>1. IInv => NeverAhead
  BY DEF IInv, SchemaInv, NeverAhead, Serving, Up
<1> QED
  BY BootInvariance, <1>1, PTL

\* Nothing older than the deployed image ever serves.
THEOREM DeployedImageWins == Spec => []ImageWins
<1>1. IInv => ImageWins
  BY DEF IInv, ImageInv, ImageWins, Serving, Up
<1> QED
  BY BootInvariance, <1>1, PTL

\* Without a fault, and with fewer kills since the staging than attempts are
\* allowed, the code that serves is the one the schema was last migrated for.
THEOREM CommittedCodeServes == Spec => []NeverBehind
<1>1. Init => FilesKept /\ Unharmed
  <2> SUFFICES ASSUME Init PROVE FilesKept /\ Unharmed
    OBVIOUS
  <2>1. image \in Nat /\ MaxAttempts \in Nat \ {0}
    BY VersionsAssumption, LimitsAssumption DEF Init
  <2>2. Selected = Image(image) /\ Selected.ver = image
    BY DEF Init, Selected, Valid, Image
  <2> QED
    BY <2>1, <2>2 DEF Init, FilesKept, Unharmed, InStep, Counted, SchemaKept, Attempting, Up, NoJob
<1>2. IInv /\ FilesKept /\ Unharmed /\ [Next]_vars => (FilesKept /\ Unharmed)'
  BY FilesStep, UnharmedStep DEF IInv
<1>3. Unharmed => NeverBehind
  BY DEF Unharmed, InStep, SchemaKept, Resumable, NeverBehind, CommittedMigrationKept, Serving,
         Current, Up
<1> QED
  BY BootInvariance, <1>1, <1>2, <1>3, PTL DEF Spec

\* As long as state.json can be read, and where deployments retire it, no
\* failed write, kill or failed migration costs the release in force or the
\* running one its directory.
THEOREM DirectoriesKept ==
  "read" \notin Faults /\ ~MigratesAtStart /\ Spec => []ReleasesIntact
<1> SUFFICES ASSUME "read" \notin Faults, ~MigratesAtStart PROVE Spec => []ReleasesIntact
  OBVIOUS
<1>1. Init => DirsInv
  BY DEF Init, DirsInv, InForce, Up, Switching, NoJob
<1>2. IInv /\ DirsInv /\ [Next]_vars => DirsInv'
  BY DirsStep DEF IInv
<1>3. DirsInv => ReleasesIntact
  BY DEF DirsInv, ReleasesIntact, InForce, Up, Serving
<1> QED
  BY BootInvariance, <1>1, <1>2, <1>3, PTL DEF Spec
=============================================================================
