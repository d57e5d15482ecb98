---------------------------- MODULE CacheProofs ----------------------------
(***************************************************************************)
(* For any number of goroutines, keys, values, changes and faults: a map   *)
(* the cache considers clean is on disk, and what an acknowledged save     *)
(* promised to keep is kept.                                               *)
(***************************************************************************)
EXTENDS Cache, TLAPS

(* persistMu is held by exactly the saver inside writeSnapshot.            *)
MutexInv == \A s \in Savers : pc[s] \in Writing <=> persistMu = s

(* A snapshot is no newer than the map, and of the same generation only    *)
(* if equal to it.  No saver promises more than its snapshot holds.        *)
SnapInv ==
  \A s \in Savers :
    /\ floor[s] <= generation
    /\ pc[s] \in Writing \cup {"lock", "persisted"} =>
         /\ floor[s] <= snap[s].gen
         /\ snap[s].gen <= generation
         /\ snap[s].gen = generation => snap[s].content = data

(* What the checks under persistMu establish: the snapshot being written   *)
(* is not older than the last persisted one, and is synced before it is    *)
(* renamed; a saver that has persisted is covered by the last persisted    *)
(* one.                                                                    *)
PersistInv ==
  \A s \in Savers :
    /\ pc[s] \in Writing /\ hasPersistedGeneration =>
         persistedGeneration <= snap[s].gen
    /\ pc[s] \in {"rename", "syncdir"} => tmpSynced
    /\ pc[s] = "syncdir" => file = snap[s]
    /\ pc[s] = "persisted" => /\ hasPersistedGeneration
                              /\ snap[s].gen <= persistedGeneration

(* Whatever a crash leaves is between the last persisted snapshot and the  *)
(* map.                                                                    *)
DiskInv ==
  /\ file \in images
  /\ hasPersistedGeneration => persistedGeneration <= generation
  /\ \A img \in images :
       /\ img.gen <= generation
       /\ hasPersistedGeneration => persistedGeneration <= img.gen
       /\ generation > 0 /\ img.gen = generation => Decoded(img) = data
  /\ generation = 0 => ~dirty /\ Decoded(file) = data

(* A clean map, and an acknowledged save, rest on the last persisted       *)
(* snapshot.                                                               *)
CleanInv ==
  /\ ~dirty /\ generation > 0 => /\ hasPersistedGeneration
                                 /\ persistedGeneration = generation
  /\ acked > 0 => hasPersistedGeneration /\ acked <= persistedGeneration

IInv == TypeOK /\ MutexInv /\ SnapInv /\ PersistInv /\ DiskInv /\ CleanInv

---------------------------------------------------------------------------
(* The empty map, an empty disk and idle savers satisfy the invariant.     *)
LEMMA InitInv == Init => IInv
<1> SUFFICES ASSUME Init PROVE IInv
  OBVIOUS
<1>1. EmptyMap \in Maps
  BY DEF EmptyMap, Maps
<1>2. TypeOK
  <2>1. NoSnapshot \in Snapshots /\ file \in Images
    BY <1>1 DEF Init, NoSnapshot, Snapshots, Images
  <2>2. snap \in [Savers -> Snapshots] /\ pc \in [Savers -> PCs]
    BY <2>1 DEF Init, PCs
  <2>3. force \in [Savers -> BOOLEAN] /\ floor \in [Savers -> Nat]
    BY DEF Init
  <2> QED
    BY <1>1, <2>1, <2>2, <2>3, Zenon DEF Init, TypeOK
<1>3. MutexInv /\ SnapInv /\ PersistInv
  BY CacheAssumption
  DEF Init, MutexInv, SnapInv, PersistInv, Writing, NoSnapshot
<1>4. DiskInv /\ CleanInv
  BY DEF Init, DiskInv, CleanInv, Decoded
<1> QED
  BY <1>2, <1>3, <1>4 DEF IInv

(* A change of the map (Set, Update, Remove) starts a new generation that  *)
(* no snapshot and no image has.                                           *)
LEMMA TouchInv ==
  ASSUME IInv, Touch, data' \in Maps,
         UNCHANGED <<persisted, persistMu, closed, savers, disk, faults, acked>>
  PROVE  IInv'
<1> USE DEF IInv, Touch, persisted, savers, disk
<1>1. TypeOK'
  BY DEF TypeOK
<1>2. MutexInv'
  BY DEF MutexInv
<1>3. SnapInv'
  BY DEF SnapInv, TypeOK, Snapshots
<1>4. PersistInv'
  BY DEF PersistInv
<1>5. DiskInv'
  BY DEF DiskInv, TypeOK, Images
<1>6. CleanInv'
  BY DEF CleanInv
<1> QED
  BY <1>1, <1>2, <1>3, <1>4, <1>5, <1>6

(* Purge is a change of the map, and promises that change.                 *)
LEMMA PurgeInv ==
  ASSUME IInv, NEW s \in Savers, Purge(s)
  PROVE  IInv'
<1> USE DEF IInv, Purge, Touch, persisted, disk
<1>1. TypeOK'
  BY DEF TypeOK, PCs, EmptyMap, Maps
<1>2. MutexInv'
  BY DEF MutexInv, TypeOK, Writing
<1>3. SnapInv'
  BY DEF SnapInv, TypeOK, Snapshots, Writing
<1>4. PersistInv'
  BY DEF PersistInv, TypeOK, Snapshots, Writing
<1>5. DiskInv'
  BY DEF DiskInv, TypeOK, Images
<1>6. CleanInv'
  BY Zenon DEF CleanInv, TypeOK
<1> QED
  BY <1>1, <1>2, <1>3, <1>4, <1>5, <1>6

(* Save with nothing to do: a clean map is on disk already.                *)
LEMMA SaveNothingInv ==
  ASSUME IInv, NEW s \in Savers, SaveNothing(s)
  PROVE  IInv'
<1> USE DEF IInv, SaveNothing, MayCall, Return, Ack, Floor, memory, persisted, disk
<1>1. TypeOK'
  BY Zenon DEF TypeOK, Snapshots, PCs, NoSnapshot, EmptyMap, Maps
<1>2. MutexInv'
  BY Zenon DEF MutexInv, TypeOK, Writing
<1>3. SnapInv'
  BY DEF SnapInv, TypeOK, Snapshots, Writing
<1>4. PersistInv'
  BY Zenon DEF PersistInv, TypeOK, Snapshots, Writing
<1>5. DiskInv'
  BY Zenon DEF DiskInv, TypeOK
<1>6. CleanInv'
  BY DEF CleanInv, TypeOK, SnapInv
<1> QED
  BY <1>1, <1>2, <1>3, <1>4, <1>5, <1>6, Zenon

(* A snapshot of the map has its generation.                               *)
LEMMA SaveSnapshotInv ==
  ASSUME IInv, NEW s \in Savers, NEW f \in BOOLEAN, SaveSnapshot(s, f)
  PROVE  IInv'
<1> USE DEF IInv, SaveSnapshot, MayCall, Floor, memory, persisted, disk
<1>1. TypeOK'
  BY Zenon DEF TypeOK, Snapshots, PCs, Writing
<1>2. MutexInv'
  BY Zenon DEF MutexInv, TypeOK, Writing
<1>3. SnapInv'
  BY DEF SnapInv, TypeOK, Snapshots, Writing
<1>4. PersistInv'
  BY Zenon DEF PersistInv, TypeOK, Snapshots, Writing
<1>5. DiskInv'
  BY Zenon DEF DiskInv, TypeOK
<1>6. CleanInv'
  BY DEF CleanInv, TypeOK
<1> QED
  BY <1>1, <1>2, <1>3, <1>4, <1>5, <1>6, Zenon

(* A superseded snapshot is covered by the last persisted one.             *)
LEMMA PersistSkipInv ==
  ASSUME IInv, NEW s \in Savers, PersistSkip(s)
  PROVE  IInv'
<1> USE DEF IInv, PersistSkip, Superseded, memory, persisted, disk
<1>1. TypeOK'
  BY Zenon DEF TypeOK, Snapshots, PCs, Writing
<1>2. MutexInv'
  BY Zenon DEF MutexInv, TypeOK, Writing
<1>3. SnapInv'
  BY Zenon DEF SnapInv, TypeOK, Snapshots, Writing
<1>4. PersistInv'
  BY DEF PersistInv, TypeOK, Snapshots, Writing
<1>5. DiskInv'
  BY Zenon DEF DiskInv, TypeOK
<1>6. CleanInv'
  BY Zenon DEF CleanInv, TypeOK
<1> QED
  BY <1>1, <1>2, <1>3, <1>4, <1>5, <1>6, Zenon

(* A snapshot that passes the check is not older than the last one.        *)
LEMMA PersistBeginInv ==
  ASSUME IInv, NEW s \in Savers, PersistBegin(s)
  PROVE  IInv'
<1> USE DEF IInv, PersistBegin, Superseded, memory, persisted
<1>1. TypeOK'
  BY Zenon DEF TypeOK, Snapshots, PCs, Writing
<1>2. MutexInv'
  BY CacheAssumption DEF MutexInv, TypeOK, Writing
<1>3. SnapInv'
  BY DEF SnapInv, TypeOK, Snapshots, Writing
<1>4. PersistInv'
  BY CacheAssumption DEF PersistInv, MutexInv, TypeOK, Snapshots, Writing
<1>5. DiskInv'
  BY DEF DiskInv, TypeOK
<1>6. CleanInv'
  BY DEF CleanInv, TypeOK
<1> QED
  BY <1>1, <1>2, <1>3, <1>4, <1>5, <1>6, Zenon

(* The temporary file is synced.                                           *)
LEMMA SyncTmpInv ==
  ASSUME IInv, NEW s \in Savers, SyncTmp(s)
  PROVE  IInv'
<1> USE DEF IInv, SyncTmp, WriteStep, memory, persisted
<1>1. TypeOK'
  BY DEF TypeOK, Snapshots, PCs, Writing
<1>2. MutexInv'
  BY DEF MutexInv, TypeOK, Writing
<1>3. SnapInv'
  BY Zenon DEF SnapInv, TypeOK, Snapshots, Writing
<1>4. PersistInv'
  BY Zenon DEF PersistInv, TypeOK, Snapshots, Writing
<1>5. DiskInv'
  BY Zenon DEF DiskInv, TypeOK
<1>6. CleanInv'
  BY Zenon DEF CleanInv, TypeOK
<1> QED
  BY <1>1, <1>2, <1>3, <1>4, <1>5, <1>6

(* The snapshot becomes the file: it is complete, because synced, and not  *)
(* older than the last persisted one.                                      *)
LEMMA RenameTmpInv ==
  ASSUME IInv, NEW s \in Savers, RenameTmp(s)
  PROVE  IInv'
<1> USE DEF IInv, RenameTmp, WriteStep, TmpImages, memory, persisted
<1>1. TypeOK'
  BY DEF TypeOK, PersistInv, Snapshots, Images, PCs, Writing
<1>2. MutexInv'
  BY Zenon DEF MutexInv, TypeOK, Writing
<1>3. SnapInv'
  BY Zenon DEF SnapInv, TypeOK, Snapshots, Writing
<1>4. PersistInv'
  BY Zenon DEF PersistInv, MutexInv, TypeOK, Writing
<1>5. DiskInv'
  BY CacheAssumption DEF DiskInv, SnapInv, PersistInv, TypeOK, Snapshots, Writing, Decoded
<1>6. CleanInv'
  BY Zenon DEF CleanInv, TypeOK
<1> QED
  BY <1>1, <1>2, <1>3, <1>4, <1>5, <1>6, Zenon

(* The snapshot becomes the last persisted one.                            *)
LEMMA SyncDirectoryInv ==
  ASSUME IInv, NEW s \in Savers, SyncDirectory(s)
  PROVE  IInv'
<1> USE DEF IInv, SyncDirectory, TmpImages, memory
<1>1. TypeOK'
  BY Zenon DEF TypeOK, PersistInv, Snapshots, Images, PCs, Writing
<1>2. MutexInv'
  BY CacheAssumption, Zenon DEF MutexInv, TypeOK, Writing
<1>3. SnapInv'
  BY Zenon DEF SnapInv, TypeOK, Snapshots, Writing
<1>4. PersistInv'
  BY DEF PersistInv, MutexInv, TypeOK, Snapshots, Writing
<1>5. DiskInv'
  BY CacheAssumption DEF DiskInv, SnapInv, PersistInv, TypeOK, Snapshots, Writing, Decoded
<1>6. CleanInv'
  BY DEF CleanInv, SnapInv, PersistInv, TypeOK, Snapshots, Writing
<1> QED
  BY <1>1, <1>2, <1>3, <1>4, <1>5, <1>6, Zenon

(* A failed write leaves every promise as it was.                          *)
LEMMA WriteErrorInv ==
  ASSUME IInv, NEW s \in Savers, WriteError(s)
  PROVE  IInv'
<1> USE DEF IInv, WriteError, Return, memory, persisted, disk
<1>1. TypeOK'
  BY DEF TypeOK, Snapshots, PCs, NoSnapshot, EmptyMap, Maps
<1>2. MutexInv'
  BY CacheAssumption, Zenon DEF MutexInv, TypeOK, Writing
<1>3. SnapInv'
  BY DEF SnapInv, TypeOK, Snapshots, Writing
<1>4. PersistInv'
  BY Zenon DEF PersistInv, TypeOK, Snapshots, Writing
<1>5. DiskInv'
  BY Zenon DEF DiskInv, TypeOK
<1>6. CleanInv'
  BY Zenon DEF CleanInv, TypeOK
<1> QED
  BY <1>1, <1>2, <1>3, <1>4, <1>5, <1>6, Zenon

(* The map becomes clean only if the persisted snapshot is its own.        *)
LEMMA SaveEndInv ==
  ASSUME IInv, NEW s \in Savers, SaveEnd(s)
  PROVE  IInv'
<1> USE DEF IInv, SaveEnd, Return, Ack, persisted, disk
<1>1. TypeOK'
  BY Zenon DEF TypeOK, Snapshots, PCs, NoSnapshot, EmptyMap, Maps
<1>2. MutexInv'
  BY Zenon DEF MutexInv, TypeOK, Writing
<1>3. SnapInv'
  BY DEF SnapInv, TypeOK, Snapshots, Writing
<1>4. PersistInv'
  BY Zenon DEF PersistInv, TypeOK, Snapshots, Writing
<1>5. DiskInv'
  BY Zenon DEF DiskInv, TypeOK
<1>6. CleanInv'
  BY DEF CleanInv, TypeOK, SnapInv, PersistInv, DiskInv, Snapshots, Writing
<1> QED
  BY <1>1, <1>2, <1>3, <1>4, <1>5, <1>6, Zenon

(* CloseWithError closes quit.                                             *)
LEMMA CloseInv ==
  ASSUME IInv, NEW s \in Savers, Close(s)
  PROVE  IInv'
<1> USE DEF IInv, Close, memory, persisted, disk
<1>1. TypeOK'
  BY Zenon DEF TypeOK, Snapshots, PCs, Writing
<1>2. MutexInv'
  BY Zenon DEF MutexInv, TypeOK, Writing
<1>3. SnapInv'
  BY DEF SnapInv, TypeOK, Snapshots, Writing
<1>4. PersistInv'
  BY Zenon DEF PersistInv, TypeOK, Snapshots, Writing
<1>5. DiskInv'
  BY Zenon DEF DiskInv, TypeOK
<1>6. CleanInv'
  BY Zenon DEF CleanInv, TypeOK
<1> QED
  BY <1>1, <1>2, <1>3, <1>4, <1>5, <1>6, Zenon

(* The periodic saver returns.                                             *)
LEMMA PeriodicExitInv ==
  ASSUME IInv, PeriodicExit
  PROVE  IInv'
<1> USE DEF IInv, PeriodicExit, memory, persisted, disk
<1>1. TypeOK'
  BY CacheAssumption, Zenon DEF TypeOK, PCs
<1>2. MutexInv'
  BY CacheAssumption, Zenon DEF MutexInv, TypeOK, Writing
<1>3. SnapInv'
  BY CacheAssumption, Zenon DEF SnapInv, TypeOK, Writing
<1>4. PersistInv'
  BY CacheAssumption, Zenon DEF PersistInv, TypeOK, Writing
<1>5. DiskInv'
  BY Zenon DEF DiskInv, TypeOK
<1>6. CleanInv'
  BY Zenon DEF CleanInv, TypeOK
<1> QED
  BY <1>1, <1>2, <1>3, <1>4, <1>5, <1>6, Zenon

(* CloseWithError goes on to its Save.                                     *)
LEMMA CloseSaveInv ==
  ASSUME IInv, NEW s \in Savers, CloseSave(s)
  PROVE  IInv'
<1> USE DEF IInv, CloseSave, memory, persisted, disk
<1>1. TypeOK'
  BY Zenon DEF TypeOK, Snapshots, PCs, Writing
<1>2. MutexInv'
  BY Zenon DEF MutexInv, TypeOK, Writing
<1>3. SnapInv'
  BY Zenon DEF SnapInv, TypeOK, Snapshots, Writing
<1>4. PersistInv'
  BY Zenon DEF PersistInv, TypeOK, Snapshots, Writing
<1>5. DiskInv'
  BY Zenon DEF DiskInv, TypeOK
<1>6. CleanInv'
  BY Zenon DEF CleanInv, TypeOK
<1> QED
  BY <1>1, <1>2, <1>3, <1>4, <1>5, <1>6, Zenon

(* A daemon that starts on any disk image: nothing of this process is      *)
(* promised yet.                                                           *)
LEMMA NewInv ==
  ASSUME IInv, New, file' \in Images, images' \in SUBSET Images,
         file' \in images', \A img \in images' : img.gen = 0, faults' \in Nat
  PROVE  IInv'
<1>1. EmptyMap \in Maps /\ NoSnapshot \in Snapshots
  BY Zenon DEF EmptyMap, Maps, NoSnapshot, Snapshots
<1>2. /\ data' \in Maps
      /\ dirty' \in BOOLEAN /\ hasPersistedGeneration' \in BOOLEAN
  BY <1>1, Zenon DEF New, LoadMissing, LoadStored, LoadError
<1>3. /\ generation' = 0 \/ generation' = 1
      /\ generation' = 0 => dirty' = FALSE /\ Decoded(file') = data'
  BY CacheAssumption DEF New, LoadMissing, LoadStored, LoadError, Decoded
<1>4. generation' = 1 => dirty' = TRUE /\ hasPersistedGeneration' = FALSE
  BY DEF New, LoadMissing, LoadStored, LoadError
<1>5. TypeOK'
  <2>1. pc' \in [Savers -> PCs] /\ snap' \in [Savers -> Snapshots]
    BY <1>1 DEF New, PCs
  <2>2. force' \in [Savers -> BOOLEAN] /\ floor' \in [Savers -> Nat]
    BY DEF New
  <2>3. /\ persistedGeneration' \in Nat /\ acked' \in Nat
        /\ persistMu' \in Savers \cup {Nobody}
        /\ closed' \in BOOLEAN /\ tmpSynced' \in BOOLEAN
    BY Zenon DEF New
  <2> QED
    BY <1>2, <1>3, <2>1, <2>2, <2>3 DEF TypeOK
<1>6. MutexInv' /\ SnapInv' /\ PersistInv'
  BY <1>3, CacheAssumption DEF New, MutexInv, SnapInv, PersistInv, Writing
<1>7. DiskInv' /\ CleanInv'
  BY <1>3, <1>4 DEF New, DiskInv, CleanInv, Decoded
<1> QED
  BY <1>5, <1>6, <1>7, Zenon DEF IInv

(* A kill, a power loss and a damaged file are such starts.                *)
LEMMA RestartInv ==
  ASSUME IInv, Restart
  PROVE  IInv'
<1>1. \A img \in Images : Restarted(img) \in Images /\ Restarted(img).gen = 0
  BY DEF Restarted, Images
<1>2. TypeOK /\ file \in images
  BY DEF IInv, DiskInv
<1>3. CASE Kill
  BY <1>1, <1>2, <1>3, NewInv DEF Kill, TypeOK
<1>4. CASE PowerLoss
  BY <1>1, <1>2, <1>4, NewInv DEF PowerLoss, TypeOK
<1>5. CASE Damage
  <2>1. [content |-> Corrupt, gen |-> 0] \in Images
    BY Zenon DEF Images
  <2> QED
    BY <2>1, <1>2, <1>5, NewInv DEF Damage, TypeOK
<1> QED
  BY <1>3, <1>4, <1>5 DEF Restart

(* Every step keeps the invariant.                                         *)
LEMMA NextInv == IInv /\ [Next]_vars => IInv'
<1> SUFFICES ASSUME IInv, [Next]_vars PROVE IInv'
  BY Zenon
<1>1. ASSUME NEW k \in Keys, NEW v \in Values, Set(k, v) \/ Update(k, v)
      PROVE  IInv'
  <2>1. data' \in Maps
    BY <1>1, Zenon DEF IInv, TypeOK, Maps, Set, Update
  <2> QED
    BY <1>1, <2>1, TouchInv, Zenon DEF Set, Update
<1>2. ASSUME NEW k \in Keys, Remove(k)
      PROVE  IInv'
  <2>1. data' \in Maps
    BY <1>2, Zenon DEF IInv, TypeOK, Maps, Remove
  <2> QED
    BY <1>2, <2>1, TouchInv, Zenon DEF Remove
<1>3. ASSUME NEW s \in Savers, SaverStep(s)
      PROVE  IInv'
  BY <1>3, PersistSkipInv, PersistBeginInv, SyncTmpInv, RenameTmpInv,
     SyncDirectoryInv, WriteErrorInv, SaveEndInv, CloseSaveInv, Zenon
  DEF SaverStep
<1>4. CASE UNCHANGED vars
  BY <1>4
  DEF IInv, TypeOK, MutexInv, SnapInv, PersistInv, DiskInv, CleanInv, Decoded,
      vars, memory, persisted, savers, disk
<1> QED
  BY <1>1, <1>2, <1>3, <1>4, PurgeInv, SaveNothingInv, SaveSnapshotInv,
     CloseInv, PeriodicExitInv, RestartInv, Zenon
  DEF Next

---------------------------------------------------------------------------
(* The inductive invariant holds of every behaviour.                       *)
LEMMA Invariance == Spec => []IInv
BY InitInv, NextInv, PTL DEF Spec

(* The fields of the Cache struct, the savers' local state and the disk    *)
(* keep their types.                                                       *)
THEOREM TypeCorrect == Spec => []TypeOK
<1>1. IInv => TypeOK
  BY DEF IInv
<1> QED
  BY <1>1, Invariance, PTL

(* save marks the map clean only when the file holds it, however many      *)
(* savers race, fail or are cut off by a crash.                            *)
THEOREM CleanIsOnDiskAlways == Spec => []CleanIsOnDisk
<1>1. IInv => CleanIsOnDisk
  <2> SUFFICES ASSUME IInv, ~dirty PROVE CleanIsOnDisk
    BY Zenon DEF CleanIsOnDisk
  <2>1. ASSUME generation > 0, NEW img \in images
        PROVE  Decoded(img) = data
    <3>1. img.gen = generation
      BY <2>1 DEF IInv, DiskInv, CleanInv, TypeOK, Images
    <3> QED
      BY <2>1, <3>1, Zenon DEF IInv, DiskInv
  <2>2. Decoded(file) = data
    BY <2>1 DEF IInv, DiskInv, TypeOK
  <2> QED
    BY <2>1, <2>2 DEF CleanIsOnDisk
<1> QED
  BY <1>1, Invariance, PTL

(* A nil from Save, Purge or CloseWithError is a promise no later saver    *)
(* and no crash breaks.                                                    *)
THEOREM AckedSurvivesAlways == Spec => []AckedSurvives
<1>1. IInv => AckedSurvives
  BY DEF IInv, TypeOK, Images, DiskInv, CleanInv, AckedSurvives
<1> QED
  BY <1>1, Invariance, PTL
---------------------------------------------------------------------------
(* Nothing that may come back is older than what has been acknowledged.    *)
NothingOlder == \A v \in Revivable : acked <= v.gen

LEMMA PromiseKept == IInv => NothingOlder
<1> SUFFICES ASSUME IInv, NEW v \in Revivable PROVE acked <= v.gen
  BY Zenon DEF NothingOlder
<1>1. CASE v = MapVersion
  BY <1>1 DEF MapVersion, IInv, TypeOK, CleanInv, DiskInv
<1>2. ASSUME NEW img \in images, v = Version(img) PROVE acked <= v.gen
  BY <1>2 DEF Version, IInv, TypeOK, Images, CleanInv, DiskInv
<1>3. ASSUME NEW s \in Pending, v = snap[s] PROVE acked <= v.gen
  BY <1>3 DEF Pending, Superseded, IInv, TypeOK, Snapshots, CleanInv, PersistInv
<1> QED
  BY <1>1, <1>2, <1>3 DEF Revivable

(* A step that leaves the map alone, lets no new image and no new snapshot *)
(* appear and takes no promise back is a Settle step of the store.         *)
LEMMA SettleStep ==
  ASSUME IInv', UNCHANGED <<data, generation>>, acked <= acked',
         \A img \in images' : Version(img) \in Revivable,
         \A s \in Pending' : snap'[s] \in Revivable
  PROVE  Durable!Next
<1>1. MapVersion' = MapVersion
  BY Zenon DEF MapVersion
<1>2. Revivable' \subseteq Revivable
  <2> SUFFICES ASSUME NEW v \in Revivable' PROVE v \in Revivable
    BY Zenon
  <2>1. CASE v = MapVersion'
    BY <1>1, <2>1, Zenon DEF Revivable
  <2>2. ASSUME NEW img \in images', v = Version(img) PROVE v \in Revivable
    BY <2>2
  <2>3. ASSUME NEW s \in Pending', v = snap'[s] PROVE v \in Revivable
    BY <2>3, Zenon
  <2> QED
    BY <2>1, <2>2, <2>3, Zenon DEF Revivable, Version
<1>3. MapVersion \in Revivable'
  BY <1>1, Zenon DEF Revivable
<1>4. NothingOlder'
  BY PromiseKept, PTL
<1> QED
  BY <1>1, <1>2, <1>3, <1>4, Zenon DEF NothingOlder, Durable!Next, Durable!Settle
(* A change of the map is a Change step of the store: the snapshots and    *)
(* images stay what they are.                                              *)
LEMMA ChangeStep ==
  ASSUME Touch, data' \in Maps, UNCHANGED <<persisted, snap, force, images, acked>>,
         \A s \in Savers : pc'[s] = pc[s] \/ pc'[s] = "save"
  PROVE  Durable!Next
<1>1. MapVersion' = [content |-> data', gen |-> MapVersion.gen + 1]
  BY Zenon DEF MapVersion, Touch
<1>2. Pending' \subseteq Pending
  BY Zenon DEF Pending, Superseded, persisted, Writing
<1>3. Revivable' \subseteq Revivable \cup {MapVersion'}
  <2> SUFFICES ASSUME NEW v \in Revivable', v # MapVersion' PROVE v \in Revivable
    BY Zenon
  <2>1. ASSUME NEW img \in images', v = Version(img) PROVE v \in Revivable
    BY <2>1, Zenon DEF Revivable
  <2>2. ASSUME NEW s \in Pending', v = snap'[s] PROVE v \in Revivable
    BY <2>2, <1>2, Zenon DEF Revivable
  <2> QED
    BY <2>1, <2>2, Zenon DEF Revivable, Version
<1>4. MapVersion' \in Revivable'
  BY Zenon DEF Revivable
<1> QED
  BY <1>1, <1>3, <1>4, Zenon DEF Durable!Next, Durable!Change

(* A saver's step that touches no file: whatever it may still write it     *)
(* could write before.                                                     *)
PendingKept ==
  \A s \in Pending' : (s \in Pending /\ snap'[s] = snap[s]) \/ snap'[s] = MapVersion

LEMMA SaverOnlyStep ==
  ASSUME IInv', UNCHANGED <<data, generation, images>>, acked <= acked', PendingKept
  PROVE  Durable!Next
<1>1. \A s \in Pending' : snap'[s] \in Revivable
  BY Zenon DEF Revivable, PendingKept
<1>2. \A img \in images' : Version(img) \in Revivable
  BY Zenon DEF Revivable
<1> QED
  BY <1>1, <1>2, SettleStep, Zenon

(* The steps of a save other than the writes, and those of CloseWithError. *)
LEMMA SaveSteps ==
  ASSUME IInv, IInv', NEW s \in Savers,
         \/ SaveNothing(s) \/ PersistSkip(s) \/ PersistBegin(s) \/ SyncTmp(s)
         \/ WriteError(s) \/ SaveEnd(s) \/ Close(s) \/ CloseSave(s)
         \/ \E f \in BOOLEAN : SaveSnapshot(s, f)
  PROVE  Durable!Next
<1>0. /\ pc \in [Savers -> PCs] /\ snap \in [Savers -> Snapshots]
      /\ force \in [Savers -> BOOLEAN] /\ floor \in [Savers -> Nat]
      /\ acked \in Nat /\ generation \in Nat
  BY Zenon DEF IInv, TypeOK
<1>1. CASE SaveNothing(s)
  <2>1. UNCHANGED <<data, generation, images>> /\ UNCHANGED persisted
    BY <1>1, Zenon DEF SaveNothing, memory, disk
  <2>3. acked <= acked'
    BY <1>0, <1>1 DEF SaveNothing, Ack, Floor
  <2>2. PendingKept
    BY <1>0, <1>1, <2>1
    DEF SaveNothing, Return, PendingKept, Pending, Superseded, Writing, persisted
  <2> QED
    BY <2>1, <2>2, <2>3, SaverOnlyStep, Zenon
<1>2. CASE PersistSkip(s)
  <2>1. UNCHANGED <<data, generation, images>> /\ UNCHANGED persisted
    BY <1>2, Zenon DEF PersistSkip, memory, disk
  <2>3. acked <= acked'
    BY <1>0, <1>2 DEF PersistSkip
  <2>2. PendingKept
    BY <1>0, <1>2, <2>1
    DEF PersistSkip, PendingKept, Pending, Superseded, Writing, persisted
  <2> QED
    BY <2>1, <2>2, <2>3, SaverOnlyStep
<1>3. CASE PersistBegin(s)
  <2>1. UNCHANGED <<data, generation, images>> /\ UNCHANGED persisted
    BY <1>3, Zenon DEF PersistBegin, memory
  <2>3. acked <= acked'
    BY <1>0, <1>3 DEF PersistBegin
  <2>2. PendingKept
    BY <1>0, <1>3, <2>1
    DEF PersistBegin, PendingKept, Pending, Superseded, Writing, persisted
  <2> QED
    BY <2>1, <2>2, <2>3, SaverOnlyStep
<1>4. CASE SyncTmp(s)
  <2>1. UNCHANGED <<data, generation, images>> /\ UNCHANGED persisted
    BY <1>4, Zenon DEF SyncTmp, WriteStep, memory
  <2>3. acked <= acked'
    BY <1>0, <1>4 DEF SyncTmp, WriteStep
  <2>2. PendingKept
    BY <1>0, <1>4, <2>1
    DEF SyncTmp, WriteStep, PendingKept, Pending, Superseded, Writing, persisted
  <2> QED
    BY <2>1, <2>2, <2>3, SaverOnlyStep
<1>5. CASE WriteError(s)
  <2>1. UNCHANGED <<data, generation, images>> /\ UNCHANGED persisted
    BY <1>5, Zenon DEF WriteError, memory, disk
  <2>3. acked <= acked'
    BY <1>0, <1>5 DEF WriteError
  <2>2. PendingKept
    BY <1>0, <1>5, <2>1
    DEF WriteError, Return, PendingKept, Pending, Superseded, Writing, persisted
  <2> QED
    BY <2>1, <2>2, <2>3, SaverOnlyStep
<1>6. CASE SaveEnd(s)
  <2>1. UNCHANGED <<data, generation, images>> /\ UNCHANGED persisted
    BY <1>6, ZenonT(60) DEF SaveEnd, disk
  <2>3. acked <= acked'
    BY <1>0, <1>6 DEF SaveEnd, Ack
  <2>2. PendingKept
    BY <1>0, <1>6, <2>1
    DEF SaveEnd, Return, PendingKept, Pending, Superseded, Writing, persisted
  <2> QED
    BY <2>1, <2>2, <2>3, SaverOnlyStep
<1>7. CASE Close(s)
  <2>1. UNCHANGED <<data, generation, images>> /\ UNCHANGED persisted
    BY <1>7, Zenon DEF Close, memory, disk
  <2>3. acked <= acked'
    BY <1>0, <1>7 DEF Close
  <2>2. PendingKept
    BY <1>0, <1>7, <2>1
    DEF Close, PendingKept, Pending, Superseded, Writing, persisted
  <2> QED
    BY <2>1, <2>2, <2>3, SaverOnlyStep
<1>8. CASE CloseSave(s)
  <2>1. UNCHANGED <<data, generation, images>> /\ UNCHANGED persisted
    BY <1>8, Zenon DEF CloseSave, memory, disk
  <2>3. acked <= acked'
    BY <1>0, <1>8 DEF CloseSave
  <2>2. PendingKept
    BY <1>0, <1>8, <2>1
    DEF CloseSave, PendingKept, Pending, Superseded, Writing, persisted
  <2> QED
    BY <2>1, <2>2, <2>3, SaverOnlyStep
<1>9. ASSUME NEW f \in BOOLEAN, SaveSnapshot(s, f) PROVE Durable!Next
  <2>1. UNCHANGED <<data, generation, images>> /\ UNCHANGED persisted
    BY <1>9, Zenon DEF SaveSnapshot, memory, disk
  <2>3. acked <= acked'
    BY <1>0, <1>9 DEF SaveSnapshot
  <2>2. PendingKept
    BY <1>0, <1>9, <2>1
    DEF SaveSnapshot, MapVersion, PendingKept, Pending, Superseded, Writing, persisted
  <2> QED
    BY <2>1, <2>2, <2>3, SaverOnlyStep, Zenon
<1> QED
  BY <1>1, <1>2, <1>3, <1>4, <1>5, <1>6, <1>7, <1>8, <1>9, Zenon

(* The periodic saver returns.                                             *)
LEMMA PeriodicExitStep ==
  ASSUME IInv, IInv', PeriodicExit
  PROVE  Durable!Next
<1>1. UNCHANGED <<data, generation, images>> /\ UNCHANGED persisted
  BY Zenon DEF PeriodicExit, memory, disk
<1>3. acked <= acked'
  BY DEF PeriodicExit, IInv, TypeOK
<1>2. PendingKept
  BY <1>1, CacheAssumption
  DEF PeriodicExit, PendingKept, Pending, Superseded, Writing, persisted, IInv, TypeOK
<1> QED
  BY <1>1, <1>2, <1>3, SaverOnlyStep, Zenon

(* The file that rename puts in place is a snapshot that was pending, and  *)
(* complete because synced.                                                *)
LEMMA RenameStep ==
  ASSUME IInv, IInv', NEW s \in Savers, RenameTmp(s)
  PROVE  Durable!Next
<1> USE DEF RenameTmp, WriteStep, Writing, memory, persisted, IInv, TypeOK
<1>1. /\ UNCHANGED <<data, generation>> /\ acked <= acked'
  OBVIOUS
<1>6. images' = images \cup {snap[s]}
  BY ZenonT(60) DEF TmpImages, PersistInv
<1>2. s \in Pending /\ Version(snap[s]) = snap[s]
  BY Zenon DEF Pending, Version, Snapshots
<1>3. \A img \in images' : Version(img) \in Revivable
  BY <1>6, <1>2, Zenon DEF Revivable
<1>4. \A t \in Pending' : t \in Pending /\ snap'[t] = snap[t]
  BY Zenon DEF Pending, Superseded
<1>5. \A t \in Pending' : snap'[t] \in Revivable
  BY <1>4, Zenon DEF Revivable
<1> QED
  BY <1>1, <1>3, <1>5, SettleStep, ZenonT(60)

(* The sync of the directory gives up every other image, and with them the *)
(* snapshots that are older.                                               *)
LEMMA SyncDirectoryStep ==
  ASSUME IInv, IInv', NEW s \in Savers, SyncDirectory(s)
  PROVE  Durable!Next
<1> USE DEF SyncDirectory, Writing, memory, IInv, TypeOK
<1>1. /\ UNCHANGED <<data, generation>> /\ acked <= acked'
      /\ images' = {snap[s]}
  <2>1. UNCHANGED <<data, generation, acked>> /\ acked \in Nat
    BY Zenon
  <2>2. tmpSynced /\ images' = TmpImages(s)
    BY Zenon DEF PersistInv
  <2>3. images' = {snap[s]}
    BY <2>2, Zenon DEF TmpImages
  <2>4. \A n \in Nat : n <= n
    OBVIOUS
  <2> QED
    BY <2>1, <2>3, <2>4, Zenon
<1>2. s \in Pending /\ Version(snap[s]) = snap[s]
  BY Zenon DEF Pending, Version, Snapshots
<1>3. \A img \in images' : Version(img) \in Revivable
  BY <1>1, <1>2 DEF Revivable
<1>4. \A t \in Pending' : t \in Pending /\ snap'[t] = snap[t]
  BY DEF Pending, Superseded, PersistInv, Snapshots
<1>5. \A t \in Pending' : snap'[t] \in Revivable
  BY <1>4 DEF Revivable
<1> QED
  BY <1>1, <1>3, <1>5, SettleStep, Zenon

(* A process that starts on an image of the disk has one of the versions   *)
(* that could come back, or an unreadable file.                            *)
LEMMA RestartStep ==
  ASSUME IInv, IInv', Restart
  PROVE  Durable!Next
<1> DEFINE Old == {Durable!Fresh(v) : v \in Revivable}
<1>1. New /\ acked' = 0
  BY Zenon DEF Restart, Kill, PowerLoss, Damage, New
<1>2. Revivable' = {Version(img) : img \in images'} \cup {MapVersion'}
  <2>1. Pending' = {}
    BY <1>1, Zenon DEF New, Pending, Writing
  <2> QED
    BY <2>1, Zenon DEF Revivable, Version
<1>3. \A img \in images : Version(Restarted(img)) \in Old
  <2> SUFFICES ASSUME NEW img \in images PROVE Version(Restarted(img)) \in Old
    OBVIOUS
  <2>1. Version(Restarted(img)) = Durable!Fresh(Version(img))
    BY DEF Version, Restarted, Durable!Fresh, IInv, TypeOK, Images
  <2> QED
    BY <2>1, Zenon DEF Revivable
<1>4. ASSUME Damage \/ LoadError PROVE Durable!Next
  <2>1. MapVersion' = [content |-> EmptyMap, gen |-> 1]
    BY <1>1, <1>4, CacheAssumption
    DEF MapVersion, Damage, New, LoadError, LoadMissing, LoadStored
  <2>2. \A img \in images' : Version(img) \in Old \cup {[content |-> EmptyMap, gen |-> 0]}
    <3>1. CASE Damage
      <4>1. images' = {[content |-> Corrupt, gen |-> 0]}
        BY <3>1, Zenon DEF Damage
      <4> QED
        BY <4>1, CacheAssumption DEF Version
    <3>2. CASE Kill \/ PowerLoss
      BY <3>2, <1>3, Zenon DEF Kill, PowerLoss
    <3> QED
      BY <3>1, <3>2, Zenon DEF Restart
  <2> QED
    BY <1>1, <1>2, <2>1, <2>2, Zenon DEF Durable!Next, Durable!Unreadable
<1>5. ASSUME ~Damage, ~LoadError PROVE Durable!Next
  <2>1. /\ \A img \in images' : Version(img) \in Old
        /\ file' \in images'
    BY <1>3, <1>5, Zenon DEF Restart, Kill, PowerLoss, IInv, DiskInv
  <2>2. MapVersion' = Version(file')
    <3>1. file'.gen = 0
      BY <1>5, Zenon DEF Restart, Kill, PowerLoss, Restarted, IInv, TypeOK, Images
    <3> QED
      BY <1>1, <1>5, <3>1, CacheAssumption, Zenon
      DEF MapVersion, Version, New, LoadMissing, LoadStored
  <2>3. \E v \in Revivable : MapVersion' = Durable!Fresh(v)
    BY <2>1, <2>2, Zenon
  <2> QED
    BY <1>1, <1>2, <2>1, <2>2, <2>3, Zenon DEF Durable!Next, Durable!Restart
<1> QED
  BY <1>4, <1>5, Zenon

(* Every step of the cache is a step of the store or leaves it unchanged.  *)
LEMMA StepSimulation == IInv /\ IInv' /\ [Next]_vars => [Durable!Next]_(Durable!vars)
<1> SUFFICES ASSUME IInv, IInv', [Next]_vars PROVE [Durable!Next]_(Durable!vars)
  BY Zenon
<1>1. ASSUME NEW k \in Keys, NEW v \in Values, Set(k, v) \/ Update(k, v)
      PROVE  Durable!Next
  BY <1>1, ChangeStep, Zenon DEF IInv, TypeOK, Maps, Set, Update, persisted, savers, disk
<1>2. ASSUME NEW k \in Keys, Remove(k) PROVE Durable!Next
  BY <1>2, ChangeStep, Zenon DEF IInv, TypeOK, Maps, Remove, persisted, savers, disk
<1>3. ASSUME NEW s \in Savers, Purge(s) PROVE Durable!Next
  BY <1>3, ChangeStep, Zenon DEF IInv, TypeOK, Maps, EmptyMap, Purge, persisted, disk
<1>4. CASE UNCHANGED vars
  BY <1>4, ZenonT(60)
  DEF Durable!vars, vars, memory, persisted, savers, disk, MapVersion, Revivable, Version,
      Pending, Superseded
<1> QED
  BY <1>1, <1>2, <1>3, <1>4, SaveSteps, PeriodicExitStep, RenameStep, SyncDirectoryStep,
     RestartStep, Zenon
  DEF Next, SaverStep

(* The cache implements the durable store, for any number of goroutines,   *)
(* keys, values, changes and faults.                                       *)
THEOREM Implementation == Spec => ImplementsDurableStore
<1>1. Init => Durable!Init
  <2> SUFFICES ASSUME Init PROVE Durable!Init
    OBVIOUS
  <2>1. Pending = {}
    BY Zenon DEF Init, Pending, Writing
  <2>2. images = {file} /\ Version(file) = MapVersion
    BY CacheAssumption DEF Init, Version, MapVersion
  <2> QED
    BY <2>1, <2>2, ZenonT(60) DEF Init, Durable!Init, Revivable, MapVersion
<1> QED
  BY <1>1, StepSimulation, Invariance, PTL DEF Spec, ImplementsDurableStore, Durable!Spec
============================================================================
