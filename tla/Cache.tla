------------------------------- MODULE Cache -------------------------------
(***************************************************************************)
(* The persistent in-memory cache of internal/utils/cache/cache.go.        *)
(*                                                                         *)
(* An in-memory map guarded by a read-write lock is copied to one file by  *)
(* goroutines that call Save or ForceSave concurrently: the periodic       *)
(* saver, a connection serving PURGE, the signal handler, the daemon's     *)
(* final CloseWithError.  A section of the code that runs under the        *)
(* read-write lock is one action; the calls between two such sections, and *)
(* every system call of writeSnapshot, are actions of their own.           *)
(*                                                                         *)
(* The disk is external.  "file" is what the path names now; "images" are  *)
(* the files a power loss may leave there (a rename is only certain once   *)
(* the directory has been synced).  The "gen" of an image and the          *)
(* variables floor and acked are recorded for the properties; no action    *)
(* reads them.                                                             *)
(***************************************************************************)
EXTENDS Naturals

CONSTANTS
  Keys, Values,
  NoValue,          \* the value of a key the map does not hold
  Savers,           \* goroutines that may call into the cache
  Periodic,         \* the one that runs periodicSave
  Nobody,           \* the holder of a free persistMu
  Missing,          \* content of a path that names no file
  Corrupt,          \* content that does not decode
  MaxGeneration,    \* bound on the changes to the map
  MaxFaults         \* bound on failed writes, crashes and damaged files

Maps == [Keys -> Values \cup {NoValue}]

EmptyMap == [k \in Keys |-> NoValue]

ASSUME CacheAssumption ==
  /\ NoValue \notin Values
  /\ Periodic \in Savers
  /\ Nobody \notin Savers
  /\ Missing \notin Maps /\ Corrupt \notin Maps /\ Missing # Corrupt
  /\ MaxGeneration \in Nat /\ MaxFaults \in Nat

VARIABLES
  data, dirty, generation,                        \* under the read-write lock
  persistedGeneration, hasPersistedGeneration,    \* under persistMu
  persistMu,                                      \* its holder
  closed,                                         \* quit is closed
  pc, snap, force,                                \* the savers' progress
  file, images,                                   \* the disk
  tmpSynced,                                      \* the temporary file is on it
  faults,                                         \* of the disk and the machine
  floor, acked                                    \* recorded only

memory == <<data, dirty, generation>>
persisted == <<persistedGeneration, hasPersistedGeneration>>
savers == <<pc, snap, force, floor>>
disk == <<file, images, tmpSynced>>
vars == <<memory, persisted, persistMu, closed, savers, disk, faults, acked>>

Images == [content : Maps \cup {Missing, Corrupt}, gen : Nat]

Snapshots == [content : Maps, gen : Nat]

NoSnapshot == [content |-> EmptyMap, gen |-> 0]

(* The savers inside persistSnapshot, which hold persistMu.                *)
Writing == {"sync", "rename", "syncdir"}

PCs == {"idle", "closing", "save", "lock", "persisted", "exited"} \cup Writing

(* The map that load() builds from a file: none for a missing path.        *)
Decoded(img) == IF img.content = Missing THEN EmptyMap ELSE img.content

---------------------------------------------------------------------------
LoadMissingNil ==           \* mutant: the nil map is not replaced by an empty one
  /\ file'.content = Missing
  /\ data' = file'.content
  /\ dirty' = FALSE
  /\ generation' = 0
  /\ hasPersistedGeneration' = FALSE

(* load and New: a missing file is an empty, clean cache; a file that      *)
(* cannot be read is an empty cache marked dirty, so that the next save    *)
(* replaces it.                                                            *)
LoadMissing ==
  /\ file'.content = Missing
  /\ data' = EmptyMap
  /\ dirty' = FALSE
  /\ generation' = 0
  /\ hasPersistedGeneration' = FALSE

LoadStored ==
  /\ file'.content \in Maps
  /\ data' = file'.content
  /\ dirty' = FALSE
  /\ generation' = 0
  /\ hasPersistedGeneration' = TRUE

LoadErrorClean ==           \* mutant: New does not mark the cache dirty
  /\ file'.content # Missing
  /\ data' = EmptyMap
  /\ dirty' = FALSE
  /\ generation' = 0
  /\ hasPersistedGeneration' = FALSE

LoadError ==
  /\ file'.content # Missing
  /\ data' = EmptyMap
  /\ dirty' = TRUE
  /\ generation' = 1
  /\ hasPersistedGeneration' = FALSE

New ==
  /\ LoadMissing \/ LoadStored \/ LoadError
  /\ persistedGeneration' = 0
  /\ persistMu' = Nobody
  /\ closed' = FALSE
  /\ pc' = [s \in Savers |-> "idle"]
  /\ snap' = [s \in Savers |-> NoSnapshot]
  /\ force' = [s \in Savers |-> FALSE]
  /\ floor' = [s \in Savers |-> 0]
  /\ tmpSynced' = FALSE
  /\ acked' = 0

(* The process starts on a disk without a cache file.                      *)
Init ==
  /\ data = EmptyMap /\ dirty = FALSE /\ generation = 0
  /\ persistedGeneration = 0 /\ hasPersistedGeneration = FALSE
  /\ persistMu = Nobody /\ closed = FALSE
  /\ pc = [s \in Savers |-> "idle"]
  /\ snap = [s \in Savers |-> NoSnapshot]
  /\ force = [s \in Savers |-> FALSE]
  /\ floor = [s \in Savers |-> 0]
  /\ file = [content |-> Missing, gen |-> 0]
  /\ images = {file}
  /\ tmpSynced = FALSE
  /\ faults = 0 /\ acked = 0

---------------------------------------------------------------------------
(* Operations on the map.                                                  *)
Touch ==
  /\ generation < MaxGeneration
  /\ dirty' = TRUE
  /\ generation' = generation + 1

Set(k, v) ==
  /\ Touch
  /\ data' = [data EXCEPT ![k] = v]
  /\ UNCHANGED <<persisted, persistMu, closed, savers, disk, faults, acked>>

(* Update with a function that changes only a key that is present, as      *)
(* flushing the hit counters does.                                         *)
Update(k, v) ==
  /\ data[k] # NoValue
  /\ Touch
  /\ data' = [data EXCEPT ![k] = v]
  /\ UNCHANGED <<persisted, persistMu, closed, savers, disk, faults, acked>>

Remove(k) ==
  /\ data[k] # NoValue
  /\ Touch
  /\ data' = [data EXCEPT ![k] = NoValue]
  /\ UNCHANGED <<persisted, persistMu, closed, savers, disk, faults, acked>>

(* The locked part of Purge; its caller goes on to Save(false).            *)
Purge(s) ==
  /\ pc[s] = "idle" /\ s # Periodic
  /\ Touch
  /\ data' = EmptyMap
  /\ pc' = [pc EXCEPT ![s] = "save"]
  /\ floor' = [floor EXCEPT ![s] = generation + 1]
  /\ UNCHANGED <<persisted, persistMu, closed, snap, force, disk, faults,
                 acked>>

---------------------------------------------------------------------------
(* A call of save(false, force) returns; nil promises that everything the *)
(* map held when the operation was called is durable.                      *)
Return(s) ==
  /\ pc' = [pc EXCEPT ![s] = "idle"]
  /\ snap' = [snap EXCEPT ![s] = NoSnapshot]
  /\ force' = [force EXCEPT ![s] = FALSE]
  /\ floor' = [floor EXCEPT ![s] = 0]

Ack(g) == acked' = IF g > acked THEN g ELSE acked

(* A caller enters from outside ("idle") or from Purge or CloseWithError   *)
(* ("save"), which have set what their Save has to make durable.           *)
Floor(s) == IF pc[s] = "idle" THEN generation ELSE floor[s]

MayCall(s, f) ==
  \/ pc[s] = "idle" /\ (s = Periodic => ~f)
  \/ pc[s] = "save" /\ ~f

SaveNothing(s) ==
  /\ MayCall(s, FALSE)
  /\ ~dirty
  /\ Return(s)
  /\ Ack(Floor(s))
  /\ UNCHANGED <<memory, persisted, persistMu, closed, disk, faults>>

SaveSnapshot(s, f) ==
  /\ MayCall(s, f)
  /\ f \/ dirty
  /\ snap' = [snap EXCEPT ![s] = [content |-> data, gen |-> generation]]
  /\ force' = [force EXCEPT ![s] = f]
  /\ floor' = [floor EXCEPT ![s] = Floor(s)]
  /\ pc' = [pc EXCEPT ![s] = "lock"]
  /\ UNCHANGED <<memory, persisted, persistMu, closed, disk, faults, acked>>

---------------------------------------------------------------------------
SupersededByEqual(s) ==     \* mutant: only an equal generation is recognised
  hasPersistedGeneration /\ snap[s].gen = persistedGeneration /\ ~force[s]

(* persistSnapshot: under persistMu, a snapshot that is not newer than the *)
(* last persisted one is dropped without an error.                         *)
Superseded(s) ==
  /\ hasPersistedGeneration
  /\ \/ snap[s].gen < persistedGeneration
     \/ snap[s].gen = persistedGeneration /\ ~force[s]

PersistSkip(s) ==
  /\ pc[s] = "lock" /\ persistMu = Nobody
  /\ Superseded(s)
  /\ pc' = [pc EXCEPT ![s] = "persisted"]
  /\ UNCHANGED <<memory, persisted, persistMu, closed, snap, force, floor,
                 disk, faults, acked>>

(* persistMu is taken, and writeSnapshot encodes into a temporary file.    *)
PersistBegin(s) ==
  /\ pc[s] = "lock" /\ persistMu = Nobody
  /\ ~Superseded(s)
  /\ persistMu' = s
  /\ tmpSynced' = FALSE
  /\ pc' = [pc EXCEPT ![s] = "sync"]
  /\ UNCHANGED <<memory, persisted, closed, snap, force, floor, file, images,
                 faults, acked>>

(* The rest of writeSnapshot: sync the temporary file, rename it over the  *)
(* cache file, sync the directory.                                         *)
WriteStep(s, from, to) ==
  /\ pc[s] = from
  /\ pc' = [pc EXCEPT ![s] = to]
  /\ UNCHANGED <<memory, persisted, closed, snap, force, floor, faults,
                 acked>>

SyncTmp(s) ==
  /\ WriteStep(s, "sync", "rename")
  /\ tmpSynced' = TRUE
  /\ UNCHANGED <<persistMu, file, images>>

(* What a power loss may make of the temporary file.                       *)
TmpImages(s) ==
  {snap[s]} \cup
  IF tmpSynced THEN {} ELSE {[content |-> Corrupt, gen |-> snap[s].gen]}

RenameTmp(s) ==
  /\ WriteStep(s, "rename", "syncdir")
  /\ file' = snap[s]
  /\ images' = images \cup TmpImages(s)
  /\ UNCHANGED <<persistMu, tmpSynced>>

(* syncDirectory, then the end of persistSnapshot.                         *)
SyncDirectory(s) ==
  /\ pc[s] = "syncdir"
  /\ images' = TmpImages(s)
  /\ persistedGeneration' = snap[s].gen
  /\ hasPersistedGeneration' = TRUE
  /\ persistMu' = Nobody
  /\ pc' = [pc EXCEPT ![s] = "persisted"]
  /\ UNCHANGED <<memory, closed, snap, force, floor, file, tmpSynced, faults,
                 acked>>

(* Any step of writeSnapshot may fail.  Before the rename the file is      *)
(* untouched; when only syncDirectory fails the new file is in place, but  *)
(* the caller gets an error and persistedGeneration keeps its value.       *)
WriteError(s) ==
  /\ pc[s] \in Writing
  /\ faults < MaxFaults
  /\ faults' = faults + 1
  /\ persistMu' = Nobody
  /\ Return(s)
  /\ UNCHANGED <<memory, persisted, closed, disk, acked>>

SaveEndClean(s) ==          \* mutant: changes made during the write are not noticed
  /\ pc[s] = "persisted"
  /\ dirty' = FALSE
  /\ Return(s)
  /\ Ack(floor[s])
  /\ UNCHANGED <<data, generation, persisted, persistMu, closed, disk,
                 faults>>

(* The end of save: the map is clean if nothing changed it meanwhile.      *)
SaveEnd(s) ==
  /\ pc[s] = "persisted"
  /\ dirty' = (dirty /\ generation # snap[s].gen)
  /\ Return(s)
  /\ Ack(floor[s])
  /\ UNCHANGED <<data, generation, persisted, persistMu, closed, disk,
                 faults>>

---------------------------------------------------------------------------
CloseForgetsQuit(s) ==      \* mutant: quit is not closed
  /\ pc[s] = "idle" /\ s # Periodic
  /\ ~closed
  /\ pc' = [pc EXCEPT ![s] = "closing"]
  /\ floor' = [floor EXCEPT ![s] = generation]
  /\ UNCHANGED <<memory, persisted, persistMu, closed, snap, force, disk, faults,
                 acked>>

(* CloseWithError, once: close quit, wait for periodicSave to return, and  *)
(* Save(false).                                                            *)
Close(s) ==
  /\ pc[s] = "idle" /\ s # Periodic
  /\ ~closed
  /\ closed' = TRUE
  /\ pc' = [pc EXCEPT ![s] = "closing"]
  /\ floor' = [floor EXCEPT ![s] = generation]
  /\ UNCHANGED <<memory, persisted, persistMu, snap, force, disk, faults,
                 acked>>

PeriodicExit ==
  /\ closed /\ pc[Periodic] = "idle"
  /\ pc' = [pc EXCEPT ![Periodic] = "exited"]
  /\ UNCHANGED <<memory, persisted, persistMu, closed, snap, force, floor,
                 disk, faults, acked>>

CloseSave(s) ==
  /\ pc[s] = "closing" /\ pc[Periodic] = "exited"
  /\ pc' = [pc EXCEPT ![s] = "save"]
  /\ UNCHANGED <<memory, persisted, persistMu, closed, snap, force, floor,
                 disk, faults, acked>>

---------------------------------------------------------------------------
(* The process is killed, or the machine loses power, and the daemon       *)
(* starts again.  Generations count the changes of one process, so those   *)
(* recorded with the images start over.                                    *)
Restarted(img) == [img EXCEPT !.gen = 0]

Kill ==
  /\ faults < MaxFaults
  /\ faults' = faults + 1
  /\ file' = Restarted(file)
  /\ images' = {Restarted(img) : img \in images}
  /\ New

PowerLoss ==
  /\ faults < MaxFaults
  /\ faults' = faults + 1
  /\ \E img \in images : file' = Restarted(img) /\ images' = {Restarted(img)}
  /\ New

(* Between two runs of the daemon the file is damaged.                     *)
Damage ==
  /\ faults < MaxFaults
  /\ faults' = faults + 1
  /\ file' = [content |-> Corrupt, gen |-> 0]
  /\ images' = {file'}
  /\ New

Restart == Kill \/ PowerLoss \/ Damage

SaverStep(s) ==
  \/ PersistSkip(s) \/ PersistBegin(s)
  \/ SyncTmp(s) \/ RenameTmp(s) \/ SyncDirectory(s)
  \/ WriteError(s)
  \/ SaveEnd(s)
  \/ CloseSave(s)

Next ==
  \/ \E k \in Keys, v \in Values : Set(k, v) \/ Update(k, v)
  \/ \E k \in Keys : Remove(k)
  \/ \E s \in Savers : \/ Purge(s) \/ SaveNothing(s) \/ Close(s)
                       \/ \E f \in BOOLEAN : SaveSnapshot(s, f)
                       \/ SaverStep(s)
  \/ PeriodicExit
  \/ Restart

Spec == Init /\ [][Next]_vars

---------------------------------------------------------------------------
(* Every variable keeps its type: a started cache always has a map, and    *)
(* generations never leave the natural numbers.                            *)
TypeOK ==
  /\ data \in Maps /\ dirty \in BOOLEAN /\ generation \in Nat
  /\ persistedGeneration \in Nat /\ hasPersistedGeneration \in BOOLEAN
  /\ persistMu \in Savers \cup {Nobody}
  /\ closed \in BOOLEAN
  /\ pc \in [Savers -> PCs]
  /\ snap \in [Savers -> Snapshots]
  /\ force \in [Savers -> BOOLEAN]
  /\ floor \in [Savers -> Nat]
  /\ file \in Images /\ images \in SUBSET Images /\ tmpSynced \in BOOLEAN
  /\ faults \in Nat /\ acked \in Nat

(* A map that save considers clean, so that every later Save skips it, is  *)
(* exactly what the cache file holds, whatever savers raced to write it;   *)
(* and once this process has changed the map, it is what the file holds    *)
(* after a power loss too.                                                 *)
CleanIsOnDisk ==
  ~dirty => /\ Decoded(file) = data
            /\ generation > 0 => \A img \in images : Decoded(img) = data

(* When Save, Purge or CloseWithError has returned nil, no crash and no    *)
(* saver still at work with an older snapshot brings back a file from      *)
(* before that call: a purged entry stays purged.                          *)
AckedSurvives == \A img \in images : img.gen >= acked

(* Within one life of the process the file never goes back to an older     *)
(* snapshot.  persistSnapshot compares generations to ensure this, but     *)
(* after a failed syncDirectory it compares with the one before.           *)
NewestSnapshotKept == [][~Restart => file'.gen >= file.gen]_vars

(* Fairness: a goroutine that can go on does; a mutex is not withheld from *)
(* one waiter for ever; the ticker ticks; select does not ignore a closed  *)
(* quit for ever.                                                          *)
GoOn(s) ==
  \/ SyncTmp(s) \/ RenameTmp(s) \/ SyncDirectory(s) \/ SaveEnd(s)
  \/ CloseSave(s)
  \/ pc[s] = "save" /\ (SaveNothing(s) \/ SaveSnapshot(s, FALSE))

Fairness ==
  /\ WF_vars(SaveSnapshot(Periodic, FALSE))
  /\ SF_vars(PeriodicExit)
  /\ \A s \in Savers : WF_vars(GoOn(s)) /\ SF_vars(PersistSkip(s) \/ PersistBegin(s))

FairSpec == Spec /\ Fairness

(* Once the changes stop, the periodic saver brings the file up to date,   *)
(* after failed writes, restarts and races with other savers; only a       *)
(* closed cache is left as it is.                                          *)
EventuallyOnDisk == <>[](closed \/ Decoded(file) = data)

(* CloseWithError returns: waiting for the periodic saver and for          *)
(* persistMu does not block it for ever.                                   *)
CloseReturns == \A s \in Savers : pc[s] = "closing" ~> pc[s] = "idle"
---------------------------------------------------------------------------
(* The abstract store.  A version may come back if a crash may leave its   *)
(* file behind, if a saver may still write it, or if it is the map itself. *)
Version(img) == [content |-> IF img.content \in Maps THEN img.content ELSE EmptyMap,
                 gen |-> img.gen]

MapVersion == [content |-> data, gen |-> generation]

Pending == {s \in Savers : pc[s] \in Writing \/ (pc[s] = "lock" /\ ~Superseded(s))}

Revivable ==
  {Version(img) : img \in images} \cup {snap[s] : s \in Pending} \cup {MapVersion}

Durable == INSTANCE DurableStore
           WITH current <- MapVersion, revivable <- Revivable, promised <- acked

(* The cache implements the durable store: whatever savers race, fail or   *)
(* are cut off by a crash, a version that a save has superseded is never   *)
(* written or loaded again, and an acknowledged save is never undone.      *)
ImplementsDurableStore == Durable!Spec
============================================================================
