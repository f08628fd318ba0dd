------------------------- MODULE ObjectStore_proofs -------------------------
(* No sweep deletes an object a manifest names, for any number of tasks,    *)
(* packages and objects.                                                    *)
EXTENDS ObjectStore, TLAPS

USE ObjectStoreAssumption, NoneAssumption

LEMMA IdleOK == Idle \in Op /\ Idle.stage = "idle" /\ Idle.kind = "none" /\ Idle.busy = FALSE
BY DEF Idle, NewOp, Op, Stages, Revision, NoRevision

\* The invariants ask nothing of an idle task.
LEMMA IdleHolds ==
    ASSUME NEW p \in Procs
    PROVE  /\ StageOK(p, Idle) /\ CoverOK(p, Idle) /\ CandOK(Idle) /\ FilingOK(Idle)
           /\ StageOK(p, Idle)' /\ CoverOK(p, Idle)' /\ CandOK(Idle)' /\ FilingOK(Idle)'
BY IdleOK DEF StageOK, CoverOK, CandOK, FilingOK, WriterStages, SweepStages, Sweeping, Deciding

LEMMA NamedByEach ==
    ASSUME NEW revs, NEW r \in revs
    PROVE  Names(r) \subseteq NamedBy(revs)
BY DEF NamedBy

LEMMA InitInv == Init => IInv
<1> SUFFICES ASSUME Init PROVE IInv
  OBVIOUS
<1> USE DEF Init
<1>1. \A r \in Revision : [cur |-> r, keep |-> {r}] \in Entry
  BY DEF Entry
<1>2. entry \in [Packages -> Entry \cup {None}]
  BY <1>1
<1>3. \A n \in Packages : entry[n] # None => entry[n].cur \in Revision /\ entry[n].keep = {entry[n].cur}
  BY <1>1
<1>4. manifests \in [Packages -> SUBSET Revision] /\ published \in [Packages -> SUBSET Revision]
  BY <1>3
<1>5. objects \subseteq Objects
  BY <1>4 DEF Used, NamedBy, Names, Revision
<1>6. TypeOK
  BY <1>2, <1>4, <1>5, IdleOK DEF TypeOK
<1>7. StageInv /\ CoverInv /\ CandInv /\ FilingInv
  BY IdleHolds DEF StageInv, CoverInv, CandInv, FilingInv
<1>8. NoDanglingRow
  BY DEF NoDanglingRow
<1>9. KeptRevisionsStay
  BY <1>3 DEF KeptRevisionsStay
<1> QED BY <1>6, <1>7, <1>8, <1>9 DEF IInv

\* A step that moves only one task on.
LEMMA OpStep ==
    ASSUME IInv, NEW p \in Procs, NEW o \in Op, op' = [op EXCEPT ![p] = o],
           UNCHANGED <<objects, manifests, published, entry, lockFiles, lock>>,
           started' \in 0..MaxOps, crashes' \in 0..MaxCrashes,
           StageOK(p, o), CoverOK(p, o), CandOK(o), FilingOK(o)
    PROVE  IInv'
<1>1. \A q \in Procs : op'[q] = IF q = p THEN o ELSE op[q]
  BY DEF IInv, TypeOK
<1>2. TypeOK'
  BY DEF IInv, TypeOK
<1>3. \A q \in Procs : StageOK(q, op'[q])
  BY <1>1 DEF IInv, StageInv
<1>4. \A q \in Procs : CoverOK(q, op'[q])
  BY <1>1 DEF IInv, CoverInv
<1>5. \A q \in Procs : CandOK(op'[q])
  BY <1>1 DEF IInv, CandInv
<1>6. \A q \in Procs : FilingOK(op'[q])
  BY <1>1 DEF IInv, FilingInv
<1>7. StageInv'
  BY <1>3 DEF StageInv, StageOK
<1>8. CoverInv'
  BY <1>4 DEF CoverInv, CoverOK, Unknown
<1>9. CandInv'
  BY <1>5 DEF CandInv, CandOK, Used
<1>10. FilingInv'
  BY <1>6 DEF FilingInv, FilingOK
<1>11. NoDanglingRow' /\ KeptRevisionsStay'
  BY DEF IInv, NoDanglingRow, KeptRevisionsStay
<1> QED BY <1>2, <1>7, <1>8, <1>9, <1>10, <1>11 DEF IInv

\* Leaving frees only the task's own locks, which nobody else counts on.
LEMMA LeaveStep ==
    ASSUME IInv, NEW p \in Procs, Leave(p),
           UNCHANGED <<objects, manifests, published, entry, lockFiles>>,
           started' \in 0..MaxOps, crashes' \in 0..MaxCrashes
    PROVE  IInv'
<1>1. \A q \in Procs : op'[q] = IF q = p THEN Idle ELSE op[q]
  BY DEF IInv, TypeOK, Leave, Put
<1>2. \A q \in Procs, n \in Packages : q # p => (lock'[n] = q <=> lock[n] = q)
  BY DEF IInv, TypeOK, Leave, Freed
<1>3. lock' \in [Packages -> Procs \cup {Free}]
  BY DEF IInv, TypeOK, Leave, Freed
<1>4. TypeOK'
  BY <1>3, IdleOK DEF IInv, TypeOK, Leave, Put
<1>5. StageInv'
  <2> SUFFICES ASSUME NEW q \in Procs PROVE StageOK(q, op[q])'
    BY DEF StageInv
  <2>1. CASE q = p
    BY <1>1, <2>1, IdleOK DEF StageOK, WriterStages, SweepStages, Sweeping
  <2>2. CASE q # p
    <3>1. StageOK(q, op[q])
      BY DEF IInv, StageInv
    <3> QED BY <1>1, <1>2, <2>2, <3>1 DEF StageOK, WriterStages
  <2> QED BY <2>1, <2>2
<1>6. CoverInv'
  BY <1>1, <1>2, IdleOK DEF IInv, CoverInv, CoverOK, Unknown, Deciding
<1>7. CandInv'
  BY <1>1, IdleOK DEF IInv, CandInv, CandOK, Used, Deciding
<1>8. FilingInv'
  BY <1>1, IdleOK DEF IInv, FilingInv, FilingOK
<1>9. NoDanglingRow' /\ KeptRevisionsStay'
  BY DEF IInv, NoDanglingRow, KeptRevisionsStay
<1> QED BY <1>4, <1>5, <1>6, <1>7, <1>8, <1>9 DEF IInv

LEMMA StartWriterInv ==
    ASSUME IInv, NEW p \in Procs, NEW kind \in WriterKinds, NEW n \in Packages,
           StartWriter(p, kind, n)
    PROVE  IInv'
<1> DEFINE o == NewOp(kind, n, "waiting")
<1>1. o \in Op /\ o.kind = kind /\ o.ns = n /\ o.stage = "waiting" /\ o.busy = FALSE
  BY DEF NewOp, Op, Stages, Revision, NoRevision
<1>2. /\ op' = [op EXCEPT ![p] = o] /\ started' \in 0..MaxOps /\ crashes' \in 0..MaxCrashes
      /\ UNCHANGED <<objects, manifests, published, entry, lockFiles, lock>>
  BY DEF StartWriter, Begin, Put, IInv, TypeOK
<1> HIDE DEF o
<1>3. StageOK(p, o)
  BY <1>1 DEF StageOK, WriterStages, SweepStages, Sweeping, WriterKinds, NewKinds, Updates
<1>4. CoverOK(p, o) /\ CandOK(o) /\ FilingOK(o)
  BY <1>1 DEF CoverOK, CandOK, FilingOK, Deciding, SweepStages, Sweeping
<1> QED BY <1>1, <1>2, <1>3, <1>4, OpStep

LEMMA StartGcInv ==
    ASSUME IInv, NEW p \in Procs, StartGc(p)
    PROVE  IInv'
<1> DEFINE o == NewOp("gc", None, "lineage")
<1>1. o \in Op /\ o.kind = "gc" /\ o.stage = "lineage" /\ o.busy = FALSE
  BY DEF NewOp, Op, Stages, Revision, NoRevision
<1>2. /\ op' = [op EXCEPT ![p] = o] /\ started' \in 0..MaxOps /\ crashes' \in 0..MaxCrashes
      /\ UNCHANGED <<objects, manifests, published, entry, lockFiles, lock>>
  BY DEF StartGc, Begin, Put, IInv, TypeOK
<1> HIDE DEF o
<1>3. StageOK(p, o)
  BY <1>1 DEF StageOK, WriterStages, SweepStages, Sweeping
<1>4. CoverOK(p, o) /\ CandOK(o) /\ FilingOK(o)
  BY <1>1 DEF CoverOK, CandOK, FilingOK, Deciding, SweepStages, Sweeping
<1> QED BY <1>1, <1>2, <1>3, <1>4, OpStep

\* What the invariants say of a task that is at a stage of a sweep.
LEMMA SweepFacts ==
    ASSUME IInv, NEW p \in Procs
    PROVE  /\ op[p] \in Op
           /\ StageOK(p, op[p]) /\ CoverOK(p, op[p]) /\ CandOK(op[p]) /\ FilingOK(op[p])
           /\ started \in 0..MaxOps /\ crashes \in 0..MaxCrashes
           /\ manifests \in [Packages -> SUBSET Revision]
           /\ objects \subseteq Objects /\ lockFiles \subseteq Packages
BY DEF IInv, TypeOK, StageInv, CoverInv, CandInv, FilingInv

LEMMA ReadLineageInv ==
    ASSUME IInv, NEW p \in Procs, ReadLineage(p)
    PROVE  IInv'
<1> DEFINE o == [op[p] EXCEPT !.stage = "scanning", !.locks = {n \in Packages : entry[n] # None}]
<1>1. op[p].stage = "lineage" /\ op' = [op EXCEPT ![p] = o]
      /\ UNCHANGED <<objects, manifests, published, entry, lockFiles, lock, started, crashes>>
  BY DEF ReadLineage, Put
<1>2. o \in Op
  BY SweepFacts, ZenonT(40) DEF Op, Stages
<1>3. /\ o.stage = "scanning" /\ o.locks = {n \in Packages : entry[n] # None}
      /\ o.kind = op[p].kind /\ o.ns = op[p].ns /\ o.busy = op[p].busy /\ o.gone = op[p].gone
  BY SweepFacts DEF Op
<1> HIDE DEF o
<1>4. StageOK(p, o)
  BY <1>1, <1>3, SweepFacts DEF StageOK, WriterStages, SweepStages, Sweeping
<1>5. CoverOK(p, o)
  BY <1>3 DEF CoverOK, Unknown, Deciding
<1>6. CandOK(o) /\ FilingOK(o)
  BY <1>1, <1>3, SweepFacts DEF CandOK, FilingOK, Deciding, SweepStages
<1> QED BY <1>1, <1>2, <1>4, <1>5, <1>6, SweepFacts, OpStep

LEMMA ScanLocksInv ==
    ASSUME IInv, NEW p \in Procs, ScanLocks(p)
    PROVE  IInv'
<1> DEFINE o == [op[p] EXCEPT !.stage = "locking", !.locks = (@ \cup lockFiles) \ Own(op[p])]
<1>1. op[p].stage = "scanning" /\ op' = [op EXCEPT ![p] = o]
      /\ UNCHANGED <<objects, manifests, published, entry, lockFiles, lock, started, crashes>>
  BY DEF ScanLocks, Put
<1>2. o \in Op
  BY SweepFacts, ZenonT(40) DEF Op, Stages
<1>3. /\ o.stage = "locking" /\ o.locks = (op[p].locks \cup lockFiles) \ Own(op[p])
      /\ o.kind = op[p].kind /\ o.ns = op[p].ns /\ o.busy = op[p].busy /\ o.gone = op[p].gone
  BY SweepFacts DEF Op
<1> HIDE DEF o
<1>4. StageOK(p, o)
  BY <1>1, <1>3, SweepFacts DEF StageOK, WriterStages, SweepStages, Sweeping
<1>5. CoverOK(p, o)
  BY <1>1, <1>3, SweepFacts DEF CoverOK, StageOK, Unknown, Deciding, Own
<1>6. CandOK(o) /\ FilingOK(o)
  BY <1>1, <1>3, SweepFacts DEF CandOK, FilingOK, Deciding, SweepStages, Sweeping
<1> QED BY <1>1, <1>2, <1>4, <1>5, <1>6, SweepFacts, OpStep

LEMMA ListObjectsInv ==
    ASSUME IInv, NEW p \in Procs, ListObjects(p)
    PROVE  IInv'
<1> DEFINE o == [op[p] EXCEPT !.stage = "unused", !.cand = Candidates(op[p]),
                              !.unread = Packages \ Own(op[p])]
<1>1. /\ \/ op[p].stage = "locking" /\ op[p].locks = {}
         \/ op[p].stage = "listing"
      /\ op' = [op EXCEPT ![p] = o]
      /\ UNCHANGED <<objects, manifests, published, entry, lockFiles, lock, started, crashes>>
  BY DEF ListObjects, Put
<1>2. Candidates(op[p]) \subseteq Objects
  BY SweepFacts DEF Candidates, Op
<1>3. o \in Op
  BY <1>2, SweepFacts, ZenonT(40) DEF Op, Stages
<1>4. /\ o.stage = "unused" /\ o.cand = Candidates(op[p]) /\ o.unread = Packages \ Own(op[p])
      /\ o.kind = op[p].kind /\ o.ns = op[p].ns /\ o.busy = op[p].busy /\ o.gone = op[p].gone
  BY SweepFacts DEF Op
<1>5. op[p].kind \in {"gc", "prune", "remove"}
  BY <1>1, SweepFacts DEF StageOK, SweepStages, Sweeping
<1>6. op[p].stage = "listing" => op[p].busy
  BY SweepFacts DEF StageOK
<1> HIDE DEF o
<1>7. StageOK(p, o)
  BY <1>1, <1>4, <1>5, SweepFacts DEF StageOK, WriterStages, SweepStages, Sweeping
<1>8. CoverOK(p, o)
  BY <1>1, <1>4, <1>6, SweepFacts DEF CoverOK, Deciding
<1>9. CandOK(o)
  <2> SUFFICES ASSUME ~o.busy
               PROVE  /\ \A n \in Packages \ o.unread : n \notin Own(o) => o.cand \cap Used(n) = {}
                      /\ \A n \in Own(o) : \A r \in manifests[n] \ o.gone : o.cand \cap Names(r) = {}
                      /\ o.kind = "gc" =>
                           \A x \in objects \ o.cand :
                              \E n \in Packages \ o.unread : x \in Used(n)
    BY DEF CandOK
  <2>1. Own(o) = Own(op[p])
    BY <1>4 DEF Own
  <2>2. \A n \in Packages \ o.unread : n \in Own(o)
    BY <1>4, <2>1
  <2>3. ASSUME NEW n \in Own(o), NEW r \in manifests[n] \ o.gone
        PROVE  o.cand \cap Names(r) = {}
    <3>1. op[p].kind = "remove" /\ n = op[p].ns
      BY <1>4, <2>3 DEF Own
    <3>2. o.cand \cap NamedBy(manifests[op[p].ns] \ op[p].gone) = {}
      BY <1>4, <3>1 DEF Candidates
    <3>3. Names(r) \subseteq NamedBy(manifests[op[p].ns] \ op[p].gone)
      BY <1>4, <3>1, NamedByEach
    <3> QED BY <3>2, <3>3
  <2>4. o.kind = "gc" => objects \subseteq o.cand
    BY <1>4 DEF Candidates
  <2> QED BY <2>2, <2>3, <2>4
<1>10. FilingOK(o)
  BY <1>1, <1>4, SweepFacts DEF FilingOK, SweepStages, Sweeping
<1> QED BY <1>1, <1>3, <1>7, <1>8, <1>9, <1>10, SweepFacts, OpStep

LEMMA ReadManifestsInv ==
    ASSUME IInv, NEW p \in Procs, ReadManifests(p)
    PROVE  IInv'
<1>0. PICK m \in op[p].unread :
         op' = [op EXCEPT ![p] = [op[p] EXCEPT !.unread = @ \ {m}, !.cand = @ \ Used(m)]]
  BY DEF ReadManifests, Put
<1> DEFINE o == [op[p] EXCEPT !.unread = @ \ {m}, !.cand = @ \ Used(m)]
<1>1. op[p].stage = "unused" /\ op' = [op EXCEPT ![p] = o]
      /\ UNCHANGED <<objects, manifests, published, entry, lockFiles, lock, started, crashes>>
  BY <1>0 DEF ReadManifests
<1>2. o \in Op /\ m \in Packages
  BY SweepFacts DEF Op
<1>3. /\ o.stage = "unused" /\ o.cand = op[p].cand \ Used(m) /\ o.unread = op[p].unread \ {m}
      /\ o.kind = op[p].kind /\ o.ns = op[p].ns /\ o.busy = op[p].busy /\ o.gone = op[p].gone
      /\ o.locks = op[p].locks
  BY <1>1, SweepFacts DEF Op
<1> HIDE DEF o
<1>4. StageOK(p, o)
  BY <1>1, <1>3, SweepFacts DEF StageOK, WriterStages, SweepStages, Sweeping
<1>5. CoverOK(p, o)
  BY <1>1, <1>3, SweepFacts DEF CoverOK, Deciding
<1>6. CandOK(o)
  <2>1. Own(o) = Own(op[p])
    BY <1>3 DEF Own
  <2> QED BY <1>1, <1>2, <1>3, <2>1, SweepFacts DEF CandOK, Deciding
<1>7. FilingOK(o)
  BY <1>1, <1>3, SweepFacts DEF FilingOK, SweepStages, Sweeping
<1> QED BY <1>1, <1>2, <1>4, <1>5, <1>6, <1>7, SweepFacts, OpStep

LEMMA StartDeleteInv ==
    ASSUME IInv, NEW p \in Procs, StartDelete(p)
    PROVE  IInv'
<1> DEFINE o == [op[p] EXCEPT !.stage = IF op[p].kind = "remove" THEN "removing" ELSE "deleting"]
<1>1. op[p].stage = "unused" /\ op[p].unread = {} /\ op' = [op EXCEPT ![p] = o]
      /\ UNCHANGED <<objects, manifests, published, entry, lockFiles, lock, started, crashes>>
  BY DEF StartDelete, Put
<1>2. o \in Op
  BY SweepFacts DEF Op, Stages
<1>3. /\ o.stage = (IF op[p].kind = "remove" THEN "removing" ELSE "deleting")
      /\ o.cand = op[p].cand /\ o.unread = op[p].unread
      /\ o.kind = op[p].kind /\ o.ns = op[p].ns /\ o.busy = op[p].busy /\ o.gone = op[p].gone
  BY SweepFacts DEF Op
<1> HIDE DEF o
<1>4. StageOK(p, o)
  BY <1>1, <1>3, SweepFacts DEF StageOK, WriterStages, SweepStages, Sweeping
<1>5. CoverOK(p, o)
  BY <1>1, <1>3, SweepFacts DEF CoverOK, Deciding
<1>6. CandOK(o)
  <2>1. Own(o) = Own(op[p])
    BY <1>3 DEF Own
  <2> QED BY <1>1, <1>3, <2>1, SweepFacts DEF CandOK, Deciding
<1>7. FilingOK(o)
  BY <1>1, <1>3, SweepFacts DEF FilingOK, SweepStages, Sweeping
<1> QED BY <1>1, <1>2, <1>4, <1>5, <1>6, <1>7, SweepFacts, OpStep

-----------------------------------------------------------------------------
\* Who holds its package's lock.
Holding(o) == o.stage \in WriterStages \/ o.kind = "remove"

\* Two of them are on two packages, and while one is at work no other task is
\* past the locks of a sweep that still means to delete objects.
LEMMA HolderAlone ==
    ASSUME IInv, NEW p \in Procs, Holding(op[p]), NEW q \in Procs, q # p
    PROVE  /\ op[p].ns \in Packages /\ lock[op[p].ns] = p /\ op[p].ns \in lockFiles
           /\ Holding(op[q]) => op[q].ns # op[p].ns
           /\ op[q].stage \in Deciding => op[q].busy
<1>1. /\ op[p].ns \in Packages /\ lock[op[p].ns] = p /\ op[p].ns \in lockFiles
  BY SweepFacts DEF Holding, StageOK, WriterStages
<1>2. Holding(op[q]) => lock[op[q].ns] = q
  BY SweepFacts DEF Holding, StageOK
<1>3. ~Unknown(op[p].ns)
  BY <1>1 DEF Unknown
<1>4. op[q].stage \in Deciding => op[q].busy
  BY <1>1, <1>3, SweepFacts DEF CoverOK
<1> QED BY <1>1, <1>2, <1>4

LEMMA TakeLockInv ==
    ASSUME IInv, NEW p \in Procs, TakeLock(p)
    PROVE  IInv'
<1> DEFINE o == [op[p] EXCEPT !.stage = "reading"]
           m == op[p].ns
<1>1. /\ op[p].stage = "waiting" /\ m \in Packages /\ lock[m] = Free
      /\ lock' = [lock EXCEPT ![m] = p] /\ lockFiles' = lockFiles \cup {m}
      /\ op' = [op EXCEPT ![p] = o]
      /\ UNCHANGED <<objects, manifests, published, entry, started, crashes>>
  BY SweepFacts DEF TakeLock, Put, StageOK
<1>2. o \in Op
  BY SweepFacts DEF Op, Stages
<1>3. o.stage = "reading" /\ o.kind = op[p].kind /\ o.ns = m /\ o.busy = op[p].busy
  BY SweepFacts DEF Op
<1>4. Unknown(m) => NoSweepRuns
  BY DEF TakeLock
<1> HIDE DEF o
<1>5. \A q \in Procs : op'[q] = IF q = p THEN o ELSE op[q]
  BY <1>1 DEF IInv, TypeOK
<1>6. \A n \in Packages : lock'[n] = IF n = m THEN p ELSE lock[n]
  BY <1>1 DEF IInv, TypeOK
<1>7. TypeOK'
  BY <1>1, <1>2 DEF IInv, TypeOK
<1>8. StageInv'
  <2> SUFFICES ASSUME NEW q \in Procs PROVE StageOK(q, op[q])'
    BY DEF StageInv
  <2>1. CASE q = p
    BY <1>1, <1>3, <1>5, <1>6, <2>1, SweepFacts
       DEF StageOK, WriterStages, SweepStages, Sweeping
  <2>2. CASE q # p
    BY <1>1, <1>5, <1>6, <2>2, SweepFacts DEF StageOK, WriterStages
  <2> QED BY <2>1, <2>2
<1>9. CoverInv'
  <2> SUFFICES ASSUME NEW q \in Procs PROVE CoverOK(q, op[q])'
    BY DEF CoverInv
  <2>1. CASE q = p
    BY <1>3, <1>5, <2>1 DEF CoverOK, Deciding
  <2>2. CASE q # p
    <3>1. CoverOK(q, op[q]) /\ op'[q] = op[q]
      BY <1>5, <2>2, SweepFacts
    <3>2. op[q].stage \in Sweeping => ~Unknown(m)
      BY <1>4 DEF NoSweepRuns
    <3>3. \A n \in Packages : n # m => (Unknown(n)' <=> Unknown(n))
      BY <1>1 DEF Unknown
    <3>4. \A n \in Packages : ~Unknown(n) => ~Unknown(n)'
      BY <1>1 DEF Unknown
    <3>5. \A n \in Packages : n # m => lock'[n] = lock[n]
      BY <1>6
    <3>6. lock[m] # q /\ m \in Packages
      BY <1>1
    <3>7. op[q] \in Op /\ op[q].locks \subseteq Packages
      BY SweepFacts DEF Op
    <3> QED BY <1>1, <3>1, <3>2, <3>3, <3>4, <3>5, <3>6, <3>7 DEF CoverOK, Sweeping, Deciding
  <2> QED BY <2>1, <2>2
<1>10. CandInv'
  BY <1>1, <1>3, <1>5 DEF IInv, CandInv, CandOK, Used, Deciding
<1>11. FilingInv'
  <2>1. FilingOK(o)
    BY <1>1, <1>3, SweepFacts DEF FilingOK, StageOK, SweepStages, Sweeping
  <2> QED BY <1>1, <1>5, <2>1 DEF IInv, FilingInv, FilingOK
<1>12. NoDanglingRow' /\ KeptRevisionsStay'
  BY <1>1 DEF IInv, NoDanglingRow, KeptRevisionsStay
<1> QED BY <1>7, <1>8, <1>9, <1>10, <1>11, <1>12 DEF IInv

LEMMA ReadEntryInv ==
    ASSUME IInv, NEW p \in Procs, ReadEntry(p)
    PROVE  IInv'
<1> DEFINE n == op[p].ns
           e == entry[n]
<1>1. /\ op[p].stage = "reading" /\ n \in Packages /\ op[p].kind \in WriterKinds
      /\ lock[n] = p /\ n \in lockFiles
      /\ UNCHANGED <<objects, manifests, published, entry, lockFiles, started, crashes>>
  BY SweepFacts DEF ReadEntry, StageOK, WriterStages
<1>2. CASE Leave(p)
  BY <1>1, <1>2, LeaveStep, SweepFacts
<1>3. CASE /\ Accepts(op[p].kind, n) /\ op[p].kind \in {"uninstall", "prune"}
           /\ Put(p, [op[p] EXCEPT !.stage = "uninstalling",
                        !.cand = IF op[p].kind = "prune" THEN Used(n) \cap objects ELSE {}])
           /\ UNCHANGED lock
  <2> DEFINE o == [op[p] EXCEPT !.stage = "uninstalling",
                        !.cand = IF op[p].kind = "prune" THEN Used(n) \cap objects ELSE {}]
  <2>1. o \in Op
    BY SweepFacts, ZenonT(40) DEF Op, Stages
  <2>2. /\ o.stage = "uninstalling" /\ o.kind = op[p].kind /\ o.ns = n /\ o.busy = op[p].busy
        /\ o.kind # "prune" => o.cand = {}
    BY SweepFacts DEF Op
  <2>3. op' = [op EXCEPT ![p] = o]
    BY <1>3 DEF Put
  <2> HIDE DEF o
  <2>4. StageOK(p, o)
    BY <1>1, <2>2, SweepFacts DEF StageOK, WriterStages, SweepStages, Sweeping
  <2>5. CoverOK(p, o) /\ CandOK(o) /\ FilingOK(o)
    BY <2>2 DEF CoverOK, CandOK, FilingOK, Deciding, SweepStages, Sweeping
  <2> QED BY <1>1, <1>3, <2>1, <2>3, <2>4, <2>5, OpStep, SweepFacts
<1>4. ASSUME NEW files \in SUBSET Objects, NEW rev \in Made(op[p].kind, e, files),
             Accepts(op[p].kind, n), op[p].kind \notin {"uninstall", "prune"},
             Put(p, [op[p] EXCEPT !.stage = "filing", !.rev = rev,
                                  !.todo = Filed(op[p].kind, files)]),
             UNCHANGED lock
      PROVE  IInv'
  <2> DEFINE todo == Filed(op[p].kind, files)
             o == [op[p] EXCEPT !.stage = "filing", !.rev = rev, !.todo = todo]
  <2>1. op[p].kind \notin NewKinds =>
           /\ e # None /\ e \in Entry /\ e.cur \in manifests[n]
           /\ e.keep \subseteq manifests[n] /\ e.cur \in Revision /\ e.cur.local \subseteq objects
           /\ \A r \in e.keep : r \in Revision /\ r.local \subseteq objects
    BY <1>1, <1>4 DEF IInv, TypeOK, Accepts, KeptRevisionsStay, NoDanglingRow, Entry
  <2>2. op[p].kind \in NewKinds => e = None
    BY <1>4 DEF Accepts
  <2>3. /\ rev \in Revision /\ todo \subseteq Objects
        /\ rev.local \subseteq objects \cup (IF op[p].kind \in Updates THEN {} ELSE todo)
    <3>1. CASE op[p].kind \in {"create", "install"} \cup Updates
      BY <1>4, <3>1 DEF Made, Filed, Revision, Updates
    <3>2. CASE op[p].kind \in {"commit", "undo", "push", "download"}
      BY <1>4, <2>1, <3>2 DEF Made, Filed, Revision, NewKinds, Updates
    <3> QED BY <1>1, <1>4, <3>1, <3>2 DEF WriterKinds, NewKinds, Updates
  <2> HIDE DEF todo
  <2>4. o \in Op
    BY <2>3, SweepFacts, ZenonT(40) DEF Op, Stages
  <2>5. /\ o.stage = "filing" /\ o.kind = op[p].kind /\ o.ns = n /\ o.busy = op[p].busy
        /\ o.rev = rev /\ o.todo = todo
    BY SweepFacts DEF Op
  <2>6. op' = [op EXCEPT ![p] = o]
    BY <1>4 DEF Put, todo
  <2> HIDE DEF o
  <2>7. StageOK(p, o)
    BY <1>1, <1>4, <2>5, SweepFacts DEF StageOK, WriterStages, SweepStages, Sweeping
  <2>8. CoverOK(p, o) /\ CandOK(o)
    BY <2>5 DEF CoverOK, CandOK, Deciding
  <2>9. FilingOK(o)
    BY <2>1, <2>2, <2>3, <2>5 DEF FilingOK, SweepStages, Sweeping
  <2> QED BY <1>1, <1>4, <2>4, <2>6, <2>7, <2>8, <2>9, OpStep, SweepFacts
<1> QED BY <1>2, <1>3, <1>4 DEF ReadEntry

LEMMA FileObjectInv ==
    ASSUME IInv, NEW p \in Procs, FileObject(p)
    PROVE  IInv'
<1>0. PICK x \in op[p].todo :
         /\ objects' = objects \cup {x}
         /\ op' = [op EXCEPT ![p] = [op[p] EXCEPT !.todo = @ \ {x}]]
  BY DEF FileObject, Put
<1> DEFINE o == [op[p] EXCEPT !.todo = @ \ {x}]
<1>1. /\ op[p].stage = (IF op[p].kind \in Updates THEN "saving" ELSE "filing")
      /\ op' = [op EXCEPT ![p] = o] /\ Holding(op[p])
      /\ UNCHANGED <<manifests, published, entry, lockFiles, lock, started, crashes>>
  BY <1>0 DEF FileObject, Holding, WriterStages
<1>2. o \in Op /\ x \in Objects
  BY SweepFacts DEF Op
<1>3. /\ o.stage = op[p].stage /\ o.kind = op[p].kind /\ o.ns = op[p].ns /\ o.busy = op[p].busy
      /\ o.rev = op[p].rev /\ o.todo = op[p].todo \ {x}
  BY <1>1, SweepFacts DEF Op
<1> HIDE DEF o
<1>4. \A q \in Procs : op'[q] = IF q = p THEN o ELSE op[q]
  BY <1>1 DEF IInv, TypeOK
<1>5. TypeOK'
  BY <1>0, <1>1, <1>2, ZenonT(40) DEF IInv, TypeOK
<1>6. StageInv'
  <2>1. StageOK(p, o)
    BY <1>1, <1>3, SweepFacts DEF StageOK, WriterStages, SweepStages, Sweeping
  <2> QED BY <1>1, <1>4, <2>1 DEF IInv, StageInv, StageOK
<1>7. CoverInv'
  BY <1>1, <1>3, <1>4 DEF IInv, CoverInv, CoverOK, Unknown, Deciding
<1>8. CandInv'
  <2>1. \A q \in Procs : op'[q].stage \in Deciding => op'[q].busy
    BY <1>1, <1>3, <1>4, HolderAlone DEF Deciding
  <2> QED BY <2>1 DEF CandInv, CandOK
<1>9. FilingInv'
  <2> SUFFICES ASSUME NEW q \in Procs PROVE FilingOK(op[q])'
    BY DEF FilingInv
  <2>1. FilingOK(op[q])
    BY SweepFacts
  <2> QED BY <1>0, <1>1, <1>3, <1>4, <2>1 DEF FilingOK, SweepStages, Sweeping
<1>10. NoDanglingRow' /\ KeptRevisionsStay'
  BY <1>0, <1>1 DEF IInv, NoDanglingRow, KeptRevisionsStay
<1> QED BY <1>5, <1>6, <1>7, <1>8, <1>9, <1>10 DEF IInv

LEMMA WriteManifestInv ==
    ASSUME IInv, NEW p \in Procs, WriteManifest(p)
    PROVE  IInv'
<1> DEFINE o == [op[p] EXCEPT !.stage = "saving"]
           m == op[p].ns
           rev == op[p].rev
<1>1. /\ op[p].stage = "filing" /\ op' = [op EXCEPT ![p] = o]
      /\ op[p].kind \in Updates \/ op[p].todo = {}
      /\ Holding(op[p])
      /\ manifests' = [manifests EXCEPT ![m] = @ \cup {rev}]
      /\ published' = [published EXCEPT ![m] = @ \cup {rev}] \/ published' = published
      /\ UNCHANGED <<objects, entry, lockFiles, lock, started, crashes>>
  BY DEF WriteManifest, Put, Holding, WriterStages
<1>2. o \in Op /\ rev \in Revision /\ m \in Packages
  BY <1>1, SweepFacts, HolderAlone DEF Op, Stages, StageOK, WriterStages
<1>3. /\ o.stage = "saving" /\ o.kind = op[p].kind /\ o.ns = m /\ o.busy = op[p].busy
      /\ o.rev = rev
  BY <1>1, SweepFacts DEF Op
<1>31. \A q \in Procs : q # p /\ Holding(op[q]) => op[q].ns # m
  BY <1>1, HolderAlone
<1>32. rev.local \subseteq objects
  BY <1>1, SweepFacts DEF FilingOK
<1> HIDE DEF o, rev
<1>4. \A q \in Procs : op'[q] = IF q = p THEN o ELSE op[q]
  BY <1>1 DEF IInv, TypeOK
<1>41. \A n \in Packages : manifests'[n] = IF n = m THEN manifests[m] \cup {rev} ELSE manifests[n]
  BY <1>1, <1>2 DEF IInv, TypeOK
<1>5. TypeOK'
  BY <1>1, <1>2 DEF IInv, TypeOK
<1>6. StageInv'
  <2>1. StageOK(p, o)
    BY <1>1, <1>3, SweepFacts DEF StageOK, WriterStages, SweepStages, Sweeping
  <2> QED BY <1>1, <1>4, <2>1 DEF IInv, StageInv, StageOK
<1>7. CoverInv'
  BY <1>1, <1>3, <1>4 DEF IInv, CoverInv, CoverOK, Unknown, Deciding
<1>8. CandInv'
  <2>1. \A q \in Procs : op'[q].stage \in Deciding => op'[q].busy
    BY <1>1, <1>3, <1>4, HolderAlone DEF Deciding
  <2> QED BY <2>1 DEF CandInv, CandOK
<1>9. FilingInv'
  <2> SUFFICES ASSUME NEW q \in Procs PROVE FilingOK(op[q])'
    BY DEF FilingInv
  <2>1. CASE q = p
    <3>1. FilingOK(op[p])
      BY SweepFacts
    <3> QED BY <1>1, <1>2, <1>3, <1>4, <1>41, <2>1, <3>1 DEF FilingOK, SweepStages, Sweeping
  <2>2. CASE q # p
    <3>1. FilingOK(op[q]) /\ StageOK(q, op[q]) /\ op'[q] = op[q]
      BY <1>4, <2>2, SweepFacts
    <3>2. op[q].stage \in {"filing", "saving"} => op[q].ns \in Packages /\ op[q].ns # m
      BY <1>31, <2>2, <3>1 DEF Holding, StageOK, WriterStages
    <3> QED BY <1>1, <1>41, <3>1, <3>2 DEF FilingOK
  <2> QED BY <2>1, <2>2
<1>10. NoDanglingRow'
  BY <1>1, <1>2, <1>32, <1>41 DEF IInv, NoDanglingRow
<1>11. KeptRevisionsStay'
  <2>1. entry[m] # None => entry[m].keep \subseteq manifests[m]
    BY <1>1, SweepFacts DEF FilingOK
  <2> QED BY <1>1, <1>41, <2>1 DEF IInv, KeptRevisionsStay
<1> QED BY <1>5, <1>6, <1>7, <1>8, <1>9, <1>10, <1>11 DEF IInv

\* Leave, with something else changed too: what the task itself still counts on.
LEMMA LeaveFacts ==
    ASSUME IInv, NEW p \in Procs, Leave(p)
    PROVE  /\ \A q \in Procs : op'[q] = IF q = p THEN Idle ELSE op[q]
           /\ \A q \in Procs, n \in Packages : q # p => (lock'[n] = q <=> lock[n] = q)
           /\ lock' \in [Packages -> Procs \cup {Free}] /\ op' \in [Procs -> Op]
BY IdleOK DEF IInv, TypeOK, Leave, Put, Freed

LEMMA SaveEntryInv ==
    ASSUME IInv, NEW p \in Procs, SaveEntry(p)
    PROVE  IInv'
<1> DEFINE m == op[p].ns
           new == [cur |-> op[p].rev, keep |-> Kept(op[p], entry[m])]
<1>1. /\ op[p].stage = "saving" /\ Holding(op[p]) /\ Leave(p)
      /\ entry' = [entry EXCEPT ![m] = new]
      /\ UNCHANGED <<objects, manifests, published, lockFiles, started, crashes>>
  BY DEF SaveEntry, Holding, WriterStages
<1>2. m \in Packages /\ m \in lockFiles /\ op[p].rev \in Revision
  BY <1>1, SweepFacts DEF Op, StageOK, WriterStages
<1>3. \A q \in Procs : q # p /\ Holding(op[q]) => op[q].ns # m
  BY <1>1, HolderAlone
<1>4. new \in Entry /\ new.keep \subseteq manifests[m]
  <2>1. op[p].kind \notin NewKinds => entry[m] \in Entry /\ entry[m].keep \subseteq manifests[m]
    BY <1>1, <1>2, SweepFacts DEF IInv, TypeOK, FilingOK
  <2>2. op[p].rev \in manifests[m]
    BY <1>1, SweepFacts DEF FilingOK
  <2>3. Kept(op[p], entry[m]) \subseteq manifests[m]
    BY <2>1, <2>2 DEF Kept, NewKinds
  <2> QED BY <1>2, <2>3, SweepFacts DEF Entry
<1> HIDE DEF new
<1>5. \A n \in Packages : entry'[n] = IF n = m THEN new ELSE entry[n]
  BY <1>1 DEF IInv, TypeOK
<1>6. \A n \in Packages : Unknown(n)' <=> Unknown(n)
  BY <1>1, <1>2, <1>5 DEF Unknown
<1>7. TypeOK'
  BY <1>1, <1>4, LeaveFacts DEF IInv, TypeOK
<1>8. StageInv'
  <2> SUFFICES ASSUME NEW q \in Procs PROVE StageOK(q, op[q])'
    BY DEF StageInv
  <2>1. CASE q = p
    BY <1>1, <2>1, LeaveFacts, IdleHolds DEF StageOK
  <2>2. CASE q # p
    BY <1>1, <2>2, LeaveFacts, SweepFacts DEF StageOK, WriterStages
  <2> QED BY <2>1, <2>2
<1>9. CoverInv'
  <2> SUFFICES ASSUME NEW q \in Procs PROVE CoverOK(q, op[q])'
    BY DEF CoverInv
  <2>1. CASE q = p
    BY <1>1, <2>1, LeaveFacts, IdleOK DEF CoverOK, Deciding
  <2>2. CASE q # p
    <3>1. CoverOK(q, op[q]) /\ op'[q] = op[q] /\ op[q].locks \subseteq Packages
      BY <1>1, <2>2, LeaveFacts, SweepFacts DEF Op
    <3>2. \A n \in Packages : lock'[n] = q <=> lock[n] = q
      BY <1>1, <2>2, LeaveFacts
    <3> QED BY <1>1, <1>2, <1>5, <1>6, <3>1, <3>2 DEF CoverOK
  <2> QED BY <2>1, <2>2
<1>10. CandInv'
  BY <1>1, LeaveFacts, IdleOK DEF IInv, CandInv, CandOK, Used, Deciding
<1>11. FilingInv'
  <2> SUFFICES ASSUME NEW q \in Procs PROVE FilingOK(op[q])'
    BY DEF FilingInv
  <2>1. CASE q = p
    BY <1>1, <2>1, LeaveFacts, IdleOK DEF FilingOK, SweepStages, Sweeping
  <2>2. CASE q # p
    <3>1. FilingOK(op[q]) /\ StageOK(q, op[q]) /\ op'[q] = op[q]
      BY <1>1, <2>2, LeaveFacts, SweepFacts
    <3>2. op[q].stage \in {"filing", "saving"} \/ op[q].kind = "remove" =>
             op[q].ns \in Packages /\ op[q].ns # m
      BY <1>3, <2>2, <3>1 DEF Holding, StageOK, WriterStages
    <3> QED BY <1>1, <1>5, <3>1, <3>2 DEF FilingOK
  <2> QED BY <2>1, <2>2
<1>12. NoDanglingRow' /\ KeptRevisionsStay'
  BY <1>1, <1>4, <1>5 DEF IInv, NoDanglingRow, KeptRevisionsStay
<1> QED BY <1>7, <1>8, <1>9, <1>10, <1>11, <1>12 DEF IInv

LEMMA RemovePackageManifestsInv ==
    ASSUME IInv, NEW p \in Procs, RemovePackageManifests(p)
    PROVE  IInv'
<1> DEFINE o == [op[p] EXCEPT !.stage = "dropping"]
           m == op[p].ns
<1>1. /\ op[p].stage = "uninstalling" /\ op' = [op EXCEPT ![p] = o] /\ Holding(op[p])
      /\ manifests' = [manifests EXCEPT ![m] = {}]
      /\ UNCHANGED <<objects, published, entry, lockFiles, lock, started, crashes>>
  BY DEF RemovePackageManifests, Put, Holding, WriterStages
<1>2. o \in Op /\ m \in Packages
  BY <1>1, SweepFacts DEF Op, Stages, StageOK, WriterStages
<1>3. /\ o.stage = "dropping" /\ o.kind = op[p].kind /\ o.ns = m /\ o.busy = op[p].busy
      /\ o.cand = op[p].cand
  BY <1>1, SweepFacts DEF Op
<1>4. \A q \in Procs : q # p /\ Holding(op[q]) => op[q].ns # m
  BY <1>1, HolderAlone
<1> HIDE DEF o
<1>5. \A q \in Procs : op'[q] = IF q = p THEN o ELSE op[q]
  BY <1>1 DEF IInv, TypeOK
<1>6. \A n \in Packages : manifests'[n] = IF n = m THEN {} ELSE manifests[n]
  BY <1>1, <1>2 DEF IInv, TypeOK
<1>7. TypeOK'
  BY <1>1, <1>2 DEF IInv, TypeOK
<1>8. StageInv'
  <2>1. StageOK(p, o)
    BY <1>1, <1>3, SweepFacts DEF StageOK, WriterStages, SweepStages, Sweeping
  <2> QED BY <1>1, <1>5, <2>1 DEF IInv, StageInv, StageOK
<1>9. CoverInv'
  BY <1>1, <1>3, <1>5 DEF IInv, CoverInv, CoverOK, Unknown, Deciding
<1>10. CandInv'
  <2>1. \A q \in Procs : op'[q].stage \in Deciding => op'[q].busy
    BY <1>1, <1>3, <1>5, HolderAlone DEF Deciding
  <2> QED BY <2>1 DEF CandInv, CandOK
<1>11. FilingInv'
  <2> SUFFICES ASSUME NEW q \in Procs PROVE FilingOK(op[q])'
    BY DEF FilingInv
  <2>1. CASE q = p
    BY <1>1, <1>3, <1>5, <2>1 DEF FilingOK, SweepStages, Sweeping
  <2>2. CASE q # p
    <3>1. FilingOK(op[q]) /\ StageOK(q, op[q]) /\ op'[q] = op[q]
      BY <1>5, <2>2, SweepFacts
    <3>2. op[q].stage \in {"filing", "saving"} => op[q].ns \in Packages /\ op[q].ns # m
      BY <1>4, <2>2, <3>1 DEF Holding, StageOK, WriterStages
    <3> QED BY <1>1, <1>6, <3>1, <3>2 DEF FilingOK
  <2> QED BY <2>1, <2>2
<1>12. NoDanglingRow' /\ KeptRevisionsStay'
  BY <1>1, <1>6 DEF IInv, NoDanglingRow, KeptRevisionsStay
<1> QED BY <1>7, <1>8, <1>9, <1>10, <1>11, <1>12 DEF IInv

LEMMA DropEntryInv ==
    ASSUME IInv, NEW p \in Procs, DropEntry(p)
    PROVE  IInv'
<1> DEFINE m == op[p].ns
           on == [op[p] EXCEPT !.stage = "lineage"]
           o == IF op[p].cand = {} THEN Idle ELSE on
<1>1. /\ op[p].stage = "dropping" /\ Holding(op[p])
      /\ op' = [op EXCEPT ![p] = o] /\ lock' = Freed(p)
      /\ entry' = [entry EXCEPT ![m] = None]
      /\ UNCHANGED <<objects, manifests, published, lockFiles, started, crashes>>
  BY DEF DropEntry, Put, Leave, Holding, WriterStages
<1>2. m \in Packages /\ m \in lockFiles
  BY <1>1, SweepFacts DEF StageOK, WriterStages
<1>3. on \in Op /\ on.stage = "lineage" /\ on.kind = op[p].kind /\ on.busy = op[p].busy
  BY SweepFacts DEF Op, Stages
<1>4. op[p].kind \in WriterKinds /\ (op[p].cand # {} => op[p].kind = "prune")
  BY <1>1, SweepFacts DEF StageOK, WriterStages
<1>5. /\ o \in Op /\ o.stage \in {"idle", "lineage"} /\ o.busy = FALSE
      /\ o.stage = "lineage" => o.kind = "prune"
      /\ o.kind # "remove"
  BY <1>3, <1>4, IdleOK, SweepFacts DEF StageOK, Op
<1>6. \A q \in Procs : q # p /\ Holding(op[q]) => op[q].ns # m
  BY <1>1, HolderAlone
<1> HIDE DEF o, on
<1>7. \A q \in Procs : op'[q] = IF q = p THEN o ELSE op[q]
  BY <1>1 DEF IInv, TypeOK
<1>8. \A n \in Packages : entry'[n] = IF n = m THEN None ELSE entry[n]
  BY <1>1 DEF IInv, TypeOK
<1>9. /\ \A q \in Procs, n \in Packages : q # p => (lock'[n] = q <=> lock[n] = q)
      /\ lock' \in [Packages -> Procs \cup {Free}]
  BY <1>1 DEF IInv, TypeOK, Freed
<1>10. \A n \in Packages : Unknown(n)' <=> Unknown(n)
  BY <1>1, <1>2, <1>8 DEF Unknown
<1>11. TypeOK'
  BY <1>1, <1>5, <1>9 DEF IInv, TypeOK
<1>12. StageInv'
  <2> SUFFICES ASSUME NEW q \in Procs PROVE StageOK(q, op[q])'
    BY DEF StageInv
  <2>1. CASE q = p
    BY <1>5, <1>7, <2>1 DEF StageOK, WriterStages, SweepStages, Sweeping
  <2>2. CASE q # p
    BY <1>1, <1>7, <1>9, <2>2, SweepFacts DEF StageOK, WriterStages
  <2> QED BY <2>1, <2>2
<1>13. CoverInv'
  <2> SUFFICES ASSUME NEW q \in Procs PROVE CoverOK(q, op[q])'
    BY DEF CoverInv
  <2>1. CASE q = p
    BY <1>5, <1>7, <2>1 DEF CoverOK, Deciding
  <2>2. CASE q # p
    <3>1. CoverOK(q, op[q]) /\ op'[q] = op[q] /\ op[q].locks \subseteq Packages
      BY <1>7, <2>2, SweepFacts DEF Op
    <3>2. \A n \in Packages : lock'[n] = q <=> lock[n] = q
      BY <1>9, <2>2
    <3> QED BY <1>1, <1>8, <1>10, <3>1, <3>2 DEF CoverOK
  <2> QED BY <2>1, <2>2
<1>14. CandInv'
  BY <1>1, <1>5, <1>7 DEF IInv, CandInv, CandOK, Used, Deciding
<1>15. FilingInv'
  <2> SUFFICES ASSUME NEW q \in Procs PROVE FilingOK(op[q])'
    BY DEF FilingInv
  <2>1. CASE q = p
    BY <1>5, <1>7, <2>1 DEF FilingOK
  <2>2. CASE q # p
    <3>1. FilingOK(op[q]) /\ StageOK(q, op[q]) /\ op'[q] = op[q]
      BY <1>7, <2>2, SweepFacts
    <3>2. op[q].stage \in {"filing", "saving"} \/ op[q].kind = "remove" =>
             op[q].ns \in Packages /\ op[q].ns # m
      BY <1>6, <2>2, <3>1 DEF Holding, StageOK, WriterStages
    <3> QED BY <1>1, <1>8, <3>1, <3>2 DEF FilingOK
  <2> QED BY <2>1, <2>2
<1>16. NoDanglingRow' /\ KeptRevisionsStay'
  BY <1>1, <1>8 DEF IInv, NoDanglingRow, KeptRevisionsStay
<1> QED BY <1>11, <1>12, <1>13, <1>14, <1>15, <1>16 DEF IInv

LEMMA RemoveManifestInv ==
    ASSUME IInv, NEW p \in Procs, RemoveManifest(p)
    PROVE  IInv'
<1> DEFINE m == op[p].ns
<1>1. /\ op[p].stage = "removing" /\ op[p].kind = "remove" /\ m \in Packages
      /\ Holding(op[p]) /\ op[p].unread = {} /\ op[p] \in Op
      /\ UNCHANGED <<objects, published, entry, lockFiles, lock, started, crashes>>
  BY SweepFacts DEF RemoveManifest, StageOK, Holding
<1>2. CASE op[p].gone = {} /\ Put(p, [op[p] EXCEPT !.stage = "deleting"]) /\ UNCHANGED manifests
  <2> DEFINE o == [op[p] EXCEPT !.stage = "deleting"]
  <2>1. o \in Op
    BY <1>1 DEF Op, Stages
  <2>2. /\ o.stage = "deleting" /\ o.kind = op[p].kind /\ o.ns = m /\ o.busy = op[p].busy
        /\ o.cand = op[p].cand /\ o.unread = {} /\ o.gone = {}
    BY <1>1, <1>2 DEF Op
  <2>3. op' = [op EXCEPT ![p] = o]
    BY <1>2 DEF Put
  <2> HIDE DEF o
  <2>4. StageOK(p, o)
    BY <1>1, <2>2, SweepFacts DEF StageOK, WriterStages, SweepStages, Sweeping
  <2>5. CoverOK(p, o)
    BY <1>1, <2>2, SweepFacts DEF CoverOK, Deciding
  <2>6. CandOK(o)
    <3>1. Own(o) = Own(op[p])
      BY <2>2 DEF Own
    <3> QED BY <1>1, <1>2, <2>2, <3>1, SweepFacts DEF CandOK, Deciding
  <2>7. FilingOK(o)
    BY <1>1, <2>2, SweepFacts DEF FilingOK, SweepStages, Sweeping
  <2> QED BY <1>1, <1>2, <2>1, <2>3, <2>4, <2>5, <2>6, <2>7, OpStep, SweepFacts
<1>3. ASSUME NEW r \in op[p].gone, manifests' = [manifests EXCEPT ![m] = @ \ {r}],
             Put(p, [op[p] EXCEPT !.gone = @ \ {r}])
      PROVE  IInv'
  <2> DEFINE o == [op[p] EXCEPT !.gone = @ \ {r}]
  <2>1. o \in Op
    BY <1>1 DEF Op
  <2>2. /\ o.stage = "removing" /\ o.kind = "remove" /\ o.ns = m /\ o.busy = op[p].busy
        /\ o.cand = op[p].cand /\ o.unread = {} /\ o.gone = op[p].gone \ {r}
    BY <1>1 DEF Op
  <2>3. op' = [op EXCEPT ![p] = o]
    BY <1>3 DEF Put
  <2>4. \A q \in Procs : q # p /\ Holding(op[q]) => op[q].ns # m
    BY <1>1, HolderAlone
  <2> HIDE DEF o
  <2>5. \A q \in Procs : op'[q] = IF q = p THEN o ELSE op[q]
    BY <2>3 DEF IInv, TypeOK
  <2>6. \A n \in Packages : manifests'[n] = IF n = m THEN manifests[m] \ {r} ELSE manifests[n]
    BY <1>1, <1>3 DEF IInv, TypeOK
  <2>7. TypeOK'
    BY <1>1, <1>3, <2>1, <2>3 DEF IInv, TypeOK
  <2>8. StageInv'
    <3>1. StageOK(p, o)
      BY <1>1, <2>2, SweepFacts DEF StageOK, WriterStages, SweepStages, Sweeping
    <3> QED BY <1>1, <2>5, <3>1 DEF IInv, StageInv, StageOK
  <2>9. CoverInv'
    <3>1. CoverOK(p, o)
      BY <1>1, <2>2, SweepFacts DEF CoverOK, Deciding
    <3> QED BY <1>1, <2>5, <3>1 DEF IInv, CoverInv, CoverOK, Unknown
  <2>10. CandInv'
    <3> SUFFICES ASSUME NEW q \in Procs PROVE CandOK(op[q])'
      BY DEF CandInv
    <3>1. CASE q # p
      BY <1>1, <2>5, <3>1, HolderAlone DEF CandOK
    <3>2. CASE q = p
      <4> SUFFICES ASSUME ~o.busy
                   PROVE  /\ \A n \in Packages : n # m => o.cand \cap Used(n)' = {}
                          /\ \A x \in manifests'[m] \ o.gone : o.cand \cap Names(x) = {}
        BY <2>2, <2>5, <3>2 DEF CandOK, Own
      <4>1. /\ \A n \in Packages : n # m => op[p].cand \cap Used(n) = {}
            /\ \A x \in manifests[m] \ op[p].gone : op[p].cand \cap Names(x) = {}
        BY <1>1, <2>2, SweepFacts DEF CandOK, Own, Deciding
      <4>2. \A n \in Packages : n # m => Used(n)' = Used(n)
        BY <2>6 DEF Used
      <4>3. manifests'[m] \ o.gone \subseteq manifests[m] \ op[p].gone
        BY <1>1, <2>2, <2>6
      <4> QED BY <2>2, <4>1, <4>2, <4>3
    <3> QED BY <3>1, <3>2
  <2>11. FilingInv'
    <3> SUFFICES ASSUME NEW q \in Procs PROVE FilingOK(op[q])'
      BY DEF FilingInv
    <3>1. CASE q = p
      BY <1>1, <2>2, <2>5, <3>1, SweepFacts DEF FilingOK, SweepStages, Sweeping
    <3>2. CASE q # p
      <4>1. FilingOK(op[q]) /\ StageOK(q, op[q]) /\ op'[q] = op[q]
        BY <2>5, <3>2, SweepFacts
      <4>2. op[q].stage \in {"filing", "saving"} => op[q].ns \in Packages /\ op[q].ns # m
        BY <2>4, <3>2, <4>1 DEF Holding, StageOK, WriterStages
      <4> QED BY <1>1, <2>6, <4>1, <4>2 DEF FilingOK
    <3> QED BY <3>1, <3>2
  <2>12. NoDanglingRow'
    BY <1>1, <2>6 DEF IInv, NoDanglingRow
  <2>13. KeptRevisionsStay'
    <3>1. entry[m] # None => r \notin entry[m].keep
      BY <1>1, SweepFacts DEF FilingOK, SweepStages, Sweeping
    <3> QED BY <1>1, <2>6, <3>1 DEF IInv, KeptRevisionsStay
  <2> QED BY <2>7, <2>8, <2>9, <2>10, <2>11, <2>12, <2>13 DEF IInv
<1> QED BY <1>2, <1>3 DEF RemoveManifest

LEMMA DeleteObjectInv ==
    ASSUME IInv, NEW p \in Procs, DeleteObject(p)
    PROVE  IInv'
<1>0. PICK x \in op[p].cand :
         /\ objects' = objects \ {x}
         /\ op' = [op EXCEPT ![p] = [op[p] EXCEPT !.cand = @ \ {x}]]
  BY DEF DeleteObject, Put
<1> DEFINE o == [op[p] EXCEPT !.cand = @ \ {x}]
<1>1. /\ op[p].stage = "deleting" /\ ~op[p].busy /\ op' = [op EXCEPT ![p] = o]
      /\ UNCHANGED <<manifests, published, entry, lockFiles, lock, started, crashes>>
  BY <1>0 DEF DeleteObject
<1>2. o \in Op
  BY SweepFacts DEF Op
<1>3. /\ o.stage = "deleting" /\ o.kind = op[p].kind /\ o.ns = op[p].ns /\ o.busy = op[p].busy
      /\ o.cand = op[p].cand \ {x} /\ o.unread = op[p].unread /\ o.gone = op[p].gone
  BY <1>1, SweepFacts DEF Op
<1> HIDE DEF o
<1>4. \A q \in Procs : op'[q] = IF q = p THEN o ELSE op[q]
  BY <1>1 DEF IInv, TypeOK
<1>5. TypeOK'
  BY <1>0, <1>1, <1>2, ZenonT(40) DEF IInv, TypeOK
<1>6. StageInv'
  <2>1. StageOK(p, o)
    BY <1>1, <1>3, SweepFacts DEF StageOK, WriterStages, SweepStages, Sweeping
  <2> QED BY <1>1, <1>4, <2>1 DEF IInv, StageInv, StageOK
<1>7. CoverInv'
  <2>1. CoverOK(p, o)
    BY <1>1, <1>3, SweepFacts DEF CoverOK, Deciding
  <2> QED BY <1>1, <1>4, <2>1 DEF IInv, CoverInv, CoverOK, Unknown
<1>8. CandInv'
  <2> SUFFICES ASSUME NEW q \in Procs PROVE CandOK(op[q])'
    BY DEF CandInv
  <2>1. CandOK(op[q])
    BY SweepFacts
  <2>2. \A n \in Packages : Used(n)' = Used(n)
    BY <1>1 DEF Used
  <2>3. CASE q = p
    <3>1. Own(op[q])' = Own(op[q])
      BY <1>3, <1>4, <2>3 DEF Own
    <3>2. /\ op'[q].cand = op[q].cand \ {x} /\ op'[q].unread = op[q].unread
          /\ op'[q].gone = op[q].gone /\ op'[q].kind = op[q].kind /\ op'[q].stage = op[q].stage
          /\ op'[q].busy = op[q].busy
      BY <1>1, <1>3, <1>4, <2>3
    <3> SUFFICES ASSUME op[q].stage \in Deciding /\ ~op[q].busy
                 PROVE  /\ \A n \in Packages \ op'[q].unread :
                              n \notin Own(op'[q]) => op'[q].cand \cap Used(n)' = {}
                        /\ \A n \in Own(op'[q]) : \A r \in manifests[n] \ op'[q].gone :
                              op'[q].cand \cap Names(r) = {}
                        /\ op'[q].kind = "gc" =>
                              \A y \in objects' \ op'[q].cand :
                                 \E n \in Packages \ op'[q].unread : y \in Used(n)'
      BY <1>1, <3>2 DEF CandOK
    <3>3. \A n \in Packages \ op'[q].unread :
             n \notin Own(op'[q]) => op'[q].cand \cap Used(n)' = {}
      BY <2>1, <2>2, <3>1, <3>2 DEF CandOK
    <3>4. \A n \in Own(op'[q]) : \A r \in manifests[n] \ op'[q].gone :
             op'[q].cand \cap Names(r) = {}
      BY <2>1, <3>1, <3>2 DEF CandOK
    <3>5. op'[q].kind = "gc" =>
             \A y \in objects' \ op'[q].cand :
                \E n \in Packages \ op'[q].unread : y \in Used(n)'
      BY <1>0, <2>1, <2>2, <3>2 DEF CandOK
    <3> QED BY <3>3, <3>4, <3>5
  <2>4. CASE q # p
    BY <1>0, <1>1, <1>4, <2>1, <2>2, <2>4 DEF CandOK, Own
  <2> QED BY <2>3, <2>4
<1>9. FilingInv'
  <2> SUFFICES ASSUME NEW q \in Procs PROVE FilingOK(op[q])'
    BY DEF FilingInv
  <2>1. FilingOK(op[q])
    BY SweepFacts
  <2>2. op'[q].stage # "filing"
    BY <1>1, <1>3, <1>4, HolderAlone DEF Holding, WriterStages, Deciding
  <2> QED BY <1>1, <1>3, <1>4, <2>1, <2>2 DEF FilingOK
<1>10. NoDanglingRow'
  <2>1. CandOK(op[p]) /\ op[p].unread = {} /\ (op[p].kind = "remove" => op[p].gone = {})
    BY <1>1, SweepFacts DEF StageOK
  <2> SUFFICES ASSUME NEW n \in Packages, NEW r \in manifests[n] PROVE x \notin Names(r)
    BY <1>0, <1>1 DEF IInv, NoDanglingRow, Names
  <2>2. CASE n \in Own(op[p])
    BY <1>0, <1>1, <2>1, <2>2 DEF CandOK, Deciding, Own
  <2>3. CASE n \notin Own(op[p])
    <3>1. x \notin Used(n)
      BY <1>0, <1>1, <2>1, <2>3 DEF CandOK, Deciding
    <3> QED BY <3>1, NamedByEach DEF Used
  <2> QED BY <2>2, <2>3
<1>11. KeptRevisionsStay'
  BY <1>1 DEF IInv, KeptRevisionsStay
<1> QED BY <1>5, <1>6, <1>7, <1>8, <1>9, <1>10, <1>11 DEF IInv

LEMMA LeaveObjectInv ==
    ASSUME IInv, NEW p \in Procs, LeaveObject(p)
    PROVE  IInv'
<1>0. PICK x \in op[p].cand : op' = [op EXCEPT ![p] = [op[p] EXCEPT !.cand = @ \ {x}]]
  BY DEF LeaveObject, Put
<1> DEFINE o == [op[p] EXCEPT !.cand = @ \ {x}]
<1>1. /\ op[p].stage = "deleting" /\ op[p].kind = "remove" /\ ~op[p].busy
      /\ op' = [op EXCEPT ![p] = o]
      /\ UNCHANGED <<objects, manifests, published, entry, lockFiles, lock, started, crashes>>
  BY <1>0 DEF LeaveObject
<1>2. o \in Op
  BY SweepFacts DEF Op
<1>3. /\ o.stage = "deleting" /\ o.kind = op[p].kind /\ o.ns = op[p].ns /\ o.busy = op[p].busy
      /\ o.cand = op[p].cand \ {x} /\ o.unread = op[p].unread /\ o.gone = op[p].gone
  BY <1>1, SweepFacts DEF Op
<1> HIDE DEF o
<1>4. StageOK(p, o)
  BY <1>1, <1>3, SweepFacts DEF StageOK, WriterStages, SweepStages, Sweeping
<1>5. CoverOK(p, o)
  BY <1>1, <1>3, SweepFacts DEF CoverOK, Deciding
<1>6. CandOK(o)
  <2>1. Own(o) = Own(op[p])
    BY <1>3 DEF Own
  <2> QED BY <1>1, <1>3, <2>1, SweepFacts DEF CandOK, Deciding
<1>7. FilingOK(o)
  BY <1>1, <1>3, SweepFacts DEF FilingOK, SweepStages, Sweeping
<1> QED BY <1>1, <1>2, <1>4, <1>5, <1>6, <1>7, SweepFacts, OpStep

\* A step that takes a free lock, of a package that is known, for task p.
LEMMA LockStep ==
    ASSUME IInv, NEW p \in Procs, NEW o \in Op, NEW m \in Packages,
           lock[m] = Free, ~Unknown(m),
           lock' = [lock EXCEPT ![m] = p], lockFiles' = lockFiles \cup {m},
           op' = [op EXCEPT ![p] = o],
           UNCHANGED <<objects, manifests, published, entry>>,
           started' \in 0..MaxOps, crashes' \in 0..MaxCrashes,
           \A q \in Procs : q = p => StageOK(q, op[q])' /\ CoverOK(q, op[q])',
           CandOK(o), FilingOK(o)
    PROVE  IInv'
<1>1. \A q \in Procs : op'[q] = IF q = p THEN o ELSE op[q]
  BY DEF IInv, TypeOK
<1>2. \A n \in Packages : lock'[n] = IF n = m THEN p ELSE lock[n]
  BY DEF IInv, TypeOK
<1>3. TypeOK'
  BY DEF IInv, TypeOK
<1>4. StageInv'
  <2> SUFFICES ASSUME NEW q \in Procs, q # p PROVE StageOK(q, op[q])'
    BY DEF StageInv
  <2> QED BY <1>1, <1>2, SweepFacts DEF StageOK, WriterStages
<1>5. CoverInv'
  <2> SUFFICES ASSUME NEW q \in Procs, q # p PROVE CoverOK(q, op[q])'
    BY DEF CoverInv
  <2>1. CoverOK(q, op[q]) /\ op'[q] = op[q] /\ op[q].locks \subseteq Packages
    BY <1>1, SweepFacts DEF Op
  <2>2. \A n \in Packages : Unknown(n)' <=> Unknown(n)
    BY DEF Unknown
  <2>3. \A n \in Packages : lock'[n] = q <=> lock[n] = q
    BY <1>2
  <2> QED BY <2>1, <2>2, <2>3 DEF CoverOK
<1>6. CandInv'
  BY <1>1 DEF IInv, CandInv, CandOK, Used
<1>7. FilingInv'
  BY <1>1 DEF IInv, FilingInv, FilingOK
<1>8. NoDanglingRow' /\ KeptRevisionsStay'
  BY DEF IInv, NoDanglingRow, KeptRevisionsStay
<1> QED BY <1>3, <1>4, <1>5, <1>6, <1>7, <1>8 DEF IInv

LEMMA StartRemoveInv ==
    ASSUME IInv, NEW p \in Procs, NEW n \in Packages, NEW gone \in SUBSET manifests[n],
           StartRemove(p, n, gone)
    PROVE  IInv'
<1> DEFINE o == [NewOp("remove", n, "lineage") EXCEPT !.gone = gone]
<1>1. /\ lock[n] = Free /\ entry[n] # None /\ gone \cap entry[n].keep = {}
      /\ lock' = [lock EXCEPT ![n] = p] /\ lockFiles' = lockFiles \cup {n}
      /\ op' = [op EXCEPT ![p] = o] /\ started' \in 0..MaxOps /\ crashes' \in 0..MaxCrashes
      /\ UNCHANGED <<objects, manifests, published, entry>>
  BY DEF StartRemove, Put, IInv, TypeOK
<1>2. gone \subseteq Revision
  BY SweepFacts
<1>3. /\ o \in Op /\ o.kind = "remove" /\ o.ns = n /\ o.stage = "lineage"
      /\ o.gone = gone /\ o.busy = FALSE
  BY <1>2 DEF NewOp, Op, Stages, Revision, NoRevision
<1> HIDE DEF o
<1>4. \A q \in Procs : op'[q] = IF q = p THEN o ELSE op[q]
  BY <1>1 DEF IInv, TypeOK
<1>5. lock'[n] = p /\ n \in lockFiles' /\ ~Unknown(n)
  BY <1>1 DEF IInv, TypeOK, Unknown
<1>6. \A q \in Procs : q = p => StageOK(q, op[q])' /\ CoverOK(q, op[q])'
  BY <1>3, <1>4, <1>5 DEF StageOK, CoverOK, WriterStages, SweepStages, Sweeping, Deciding
<1>7. CandOK(o) /\ FilingOK(o)
  BY <1>1, <1>3 DEF CandOK, FilingOK, Deciding, SweepStages
<1> QED BY <1>1, <1>3, <1>5, <1>6, <1>7, LockStep

LEMMA TryLockInv ==
    ASSUME IInv, NEW p \in Procs, TryLock(p)
    PROVE  IInv'
<1>0. PICK n \in op[p].locks :
          IF lock[n] = Free
          THEN /\ lock' = [lock EXCEPT ![n] = p]
               /\ lockFiles' = lockFiles \cup {n}
               /\ Put(p, [op[p] EXCEPT !.locks = @ \ {n}])
          ELSE Busy(p) /\ UNCHANGED lockFiles
  BY DEF TryLock
<1>1. /\ op[p].stage = "locking" /\ op[p] \in Op /\ n \in Packages /\ ~Unknown(n)
      /\ UNCHANGED <<objects, manifests, published, entry, started, crashes>>
  BY SweepFacts DEF TryLock, Op, CoverOK
<1>2. CASE lock[n] = Free
  <2> DEFINE o == [op[p] EXCEPT !.locks = @ \ {n}]
  <2>1. op' = [op EXCEPT ![p] = o] /\ lock' = [lock EXCEPT ![n] = p]
        /\ lockFiles' = lockFiles \cup {n}
    BY <1>0, <1>2 DEF Put
  <2>2. /\ o \in Op /\ o.stage = "locking" /\ o.kind = op[p].kind /\ o.ns = op[p].ns
        /\ o.locks = op[p].locks \ {n} /\ o.busy = op[p].busy /\ o.gone = op[p].gone
    BY <1>1 DEF Op
  <2> HIDE DEF o
  <2>3. \A q \in Procs : op'[q] = IF q = p THEN o ELSE op[q]
    BY <2>1 DEF IInv, TypeOK
  <2>4. \A m \in Packages : lock'[m] = IF m = n THEN p ELSE lock[m]
    BY <2>1 DEF IInv, TypeOK
  <2>5. \A m \in Packages : Unknown(m)' <=> Unknown(m)
    BY <1>1, <2>1 DEF Unknown
  <2>6. StageOK(p, op[p]) /\ CoverOK(p, op[p]) /\ op[p].locks \subseteq Packages
    BY SweepFacts DEF Op
  <2>7. ASSUME NEW q \in Procs, q = p PROVE StageOK(q, op[q])'
    BY <1>1, <2>1, <2>2, <2>3, <2>4, <2>6, <2>7
       DEF StageOK, WriterStages, SweepStages, Sweeping
  <2>8. ASSUME NEW q \in Procs, q = p PROVE CoverOK(q, op[q])'
    BY <1>1, <2>2, <2>3, <2>4, <2>5, <2>6, <2>8 DEF CoverOK, Deciding
  <2>9. CandOK(o) /\ FilingOK(o)
    BY <1>1, <2>2, SweepFacts DEF CandOK, FilingOK, Deciding, SweepStages, Sweeping
  <2> QED BY <1>1, <1>2, <2>1, <2>2, <2>7, <2>8, <2>9, LockStep, SweepFacts
<1>3. CASE lock[n] # Free /\ op[p].kind # "remove"
  BY <1>0, <1>1, <1>3, LeaveStep, SweepFacts DEF Busy
<1>4. CASE lock[n] # Free /\ op[p].kind = "remove"
  <2> DEFINE o == [op[p] EXCEPT !.stage = "listing", !.locks = {}, !.busy = TRUE]
             own == op[p].ns
  <2>1. /\ op' = [op EXCEPT ![p] = o] /\ lockFiles' = lockFiles
        /\ lock' = [x \in Packages |-> IF lock[x] = p /\ x # own THEN Free ELSE lock[x]]
    BY <1>0, <1>4 DEF Put, Busy
  <2>2. /\ o \in Op /\ o.stage = "listing" /\ o.kind = "remove" /\ o.ns = own
        /\ o.busy = TRUE /\ o.gone = op[p].gone
    BY <1>1, <1>4 DEF Op, Stages
  <2> HIDE DEF o
  <2>3. \A q \in Procs : op'[q] = IF q = p THEN o ELSE op[q]
    BY <2>1 DEF IInv, TypeOK
  <2>4. own \in Packages /\ lock[own] = p /\ own \in lockFiles
    BY <1>4, SweepFacts DEF StageOK
  <2>5. \A q \in Procs, x \in Packages : q # p => (lock'[x] = q <=> lock[x] = q)
    BY <2>1
  <2>6. lock'[own] = p
    BY <2>1, <2>4
  <2>7. TypeOK'
    BY <1>1, <2>1, <2>2 DEF IInv, TypeOK
  <2>8. StageInv'
    <3> SUFFICES ASSUME NEW q \in Procs PROVE StageOK(q, op[q])'
      BY DEF StageInv
    <3>1. CASE q = p
      BY <2>1, <2>2, <2>3, <2>4, <2>6, <3>1 DEF StageOK, WriterStages, SweepStages, Sweeping
    <3>2. CASE q # p
      BY <2>1, <2>3, <2>5, <3>2, SweepFacts DEF StageOK, WriterStages
    <3> QED BY <3>1, <3>2
  <2>9. CoverInv'
    <3> SUFFICES ASSUME NEW q \in Procs PROVE CoverOK(q, op[q])'
      BY DEF CoverInv
    <3>1. CASE q = p
      BY <2>2, <2>3, <3>1 DEF CoverOK, Deciding
    <3>2. CASE q # p
      <4>1. CoverOK(q, op[q]) /\ op'[q] = op[q] /\ op[q].locks \subseteq Packages
        BY <2>3, <3>2, SweepFacts DEF Op
      <4>2. \A x \in Packages : Unknown(x)' <=> Unknown(x)
        BY <1>1, <2>1 DEF Unknown
      <4>3. \A x \in Packages : lock'[x] = q <=> lock[x] = q
        BY <2>5, <3>2
      <4> QED BY <1>1, <2>1, <4>1, <4>2, <4>3 DEF CoverOK
    <3> QED BY <3>1, <3>2
  <2>10. CandInv'
    BY <1>1, <2>2, <2>3 DEF IInv, CandInv, CandOK, Used, Deciding
  <2>11. FilingInv'
    <3> SUFFICES ASSUME NEW q \in Procs PROVE FilingOK(op[q])'
      BY DEF FilingInv
    <3>1. FilingOK(op[q])
      BY SweepFacts
    <3> QED BY <1>1, <1>4, <2>2, <2>3, <3>1 DEF FilingOK, SweepStages, Sweeping
  <2>12. NoDanglingRow' /\ KeptRevisionsStay'
    BY <1>1 DEF IInv, NoDanglingRow, KeptRevisionsStay
  <2> QED BY <2>7, <2>8, <2>9, <2>10, <2>11, <2>12 DEF IInv
<1> QED BY <1>2, <1>3, <1>4

LEMMA FinishInv ==
    ASSUME IInv, NEW p \in Procs, FinishSweep(p) \/ Abandon(p)
    PROVE  IInv'
<1>1. Leave(p) /\ UNCHANGED <<objects, manifests, published, entry, lockFiles>>
      /\ started' = started /\ crashes' \in 0..MaxCrashes
  BY DEF FinishSweep, Abandon, IInv, TypeOK
<1> QED BY <1>1, LeaveStep, SweepFacts

LEMMA StepInv == IInv /\ [Next]_vars => IInv'
<1> SUFFICES ASSUME IInv, [Next]_vars PROVE IInv'
  OBVIOUS
<1>1. CASE UNCHANGED vars
  <2> USE <1>1 DEF vars
  <2>1. TypeOK' /\ StageInv'
    BY DEF IInv, TypeOK, StageInv, StageOK
  <2>2. CoverInv' /\ FilingInv'
    BY DEF IInv, CoverInv, CoverOK, Unknown, FilingInv, FilingOK
  <2>3. CandInv'
    BY DEF IInv, CandInv, CandOK, Used
  <2>4. NoDanglingRow' /\ KeptRevisionsStay'
    BY DEF IInv, NoDanglingRow, KeptRevisionsStay
  <2> QED BY <2>1, <2>2, <2>3, <2>4 DEF IInv
<1>2. ASSUME NEW p \in Procs, NEW kind \in WriterKinds, NEW n \in Packages, StartWriter(p, kind, n)
      PROVE  IInv'
  BY <1>2, StartWriterInv
<1>3. ASSUME NEW p \in Procs, NEW n \in Packages, NEW gone \in SUBSET manifests[n],
             StartRemove(p, n, gone)
      PROVE  IInv'
  BY <1>3, StartRemoveInv
<1>4. ASSUME NEW p \in Procs,
             \/ StartGc(p) \/ TakeLock(p) \/ ReadEntry(p) \/ FileObject(p) \/ WriteManifest(p)
             \/ SaveEntry(p) \/ RemovePackageManifests(p) \/ DropEntry(p)
      PROVE  IInv'
  BY <1>4, StartGcInv, TakeLockInv, ReadEntryInv, FileObjectInv, WriteManifestInv, SaveEntryInv,
     RemovePackageManifestsInv, DropEntryInv
<1>5. ASSUME NEW p \in Procs,
             \/ ReadLineage(p) \/ ScanLocks(p) \/ TryLock(p) \/ ListObjects(p)
             \/ ReadManifests(p) \/ StartDelete(p) \/ RemoveManifest(p) \/ DeleteObject(p)
             \/ LeaveObject(p) \/ FinishSweep(p) \/ Abandon(p)
      PROVE  IInv'
  BY <1>5, ReadLineageInv, ScanLocksInv, TryLockInv, ListObjectsInv, ReadManifestsInv,
     StartDeleteInv, RemoveManifestInv, DeleteObjectInv, LeaveObjectInv, FinishInv
<1> QED BY <1>1, <1>2, <1>3, <1>4, <1>5 DEF Next

\* Of every state the program reaches: who holds which lock at which stage, what
\* a sweep may still delete, and what a writer has filed (IInv).
THEOREM InductiveInvariant == Spec => []IInv
<1> QED BY InitInv, StepInv, PTL DEF Spec

\* A row whose bytes are nowhere else never loses its object, for any number of
\* writers and sweeps, in any order and stopped anywhere.
THEOREM ObjectsOutliveSweeps == Spec => []NoDanglingRow
<1>1. IInv => NoDanglingRow
  BY DEF IInv
<1> QED BY <1>1, InductiveInvariant, PTL

\* A removal of revisions leaves every revision the package still needs, if
\* commits, pulls and pushes move what it needs meanwhile.
THEOREM RemovalKeepsTheNeeded == Spec => []KeptRevisionsStay
<1>1. IInv => KeptRevisionsStay
  BY DEF IInv
<1> QED BY <1>1, InductiveInvariant, PTL

-----------------------------------------------------------------------------
\* What a sweep has left to delete when it starts deleting, no manifest names.
LEMMA DeletingNamesNone ==
    ASSUME IInv, NEW p \in Procs, op[p].stage = "deleting", ~op[p].busy,
           NEW n \in Packages
    PROVE  op[p].cand \cap Used(n) = {}
<1>1. /\ CandOK(op[p]) /\ op[p].unread = {}
      /\ op[p].kind = "remove" => op[p].gone = {}
  BY SweepFacts DEF StageOK
<1>2. CASE n \in Own(op[p])
  <2>1. \A r \in manifests[n] : op[p].cand \cap Names(r) = {}
    BY <1>1, <1>2 DEF CandOK, Deciding, Own
  <2> QED BY <2>1 DEF Used, NamedBy
<1>3. CASE n \notin Own(op[p])
  BY <1>1, <1>3 DEF CandOK, Deciding
<1> QED BY <1>2, <1>3

\* gc, a pruning uninstall and a removal of revisions delete an object only when
\* no installed manifest of any package names it.
THEOREM SweepsDeleteOnlyUnused == Spec => DeletesOnlyUnused
<1>1. ASSUME IInv, [Next]_vars, NEW x \in objects \ objects', NEW n \in Packages
      PROVE  x \notin Used(n)
  <2>1. PICK p \in Procs : DeleteObject(p)
    BY <1>1, ZenonT(40) DEF Next, vars, StartWriter, StartGc, Begin, StartRemove, TakeLock,
                ReadEntry, FileObject,
                WriteManifest, SaveEntry, RemovePackageManifests, DropEntry, ReadLineage,
                ScanLocks, TryLock, ListObjects, ReadManifests, StartDelete, RemoveManifest,
                LeaveObject, FinishSweep, Abandon
  <2>2. op[p].stage = "deleting" /\ ~op[p].busy /\ x \in op[p].cand
    BY <1>1, <2>1 DEF DeleteObject
  <2> QED BY <1>1, <2>2, DeletingNamesNone
<1>2. IInv /\ [Next]_vars => [\A x \in objects \ objects' : \A n \in Packages : x \notin Used(n)]_vars
  BY <1>1
<1> QED BY <1>2, InductiveInvariant, PTL DEF Spec, DeletesOnlyUnused

\* How a sweep's last step looks from outside.
LEMMA EndsBySweeping ==
    ASSUME IInv, NEW p \in Procs, [Next]_vars,
           op[p].stage = "deleting", op'[p] = Idle, crashes' = crashes
    PROVE  FinishSweep(p)
<1>1. op[p] # Idle
  BY IdleOK
<1>2. PICK q \in Procs :
        \/ \E kind \in WriterKinds, n \in Packages : StartWriter(q, kind, n)
        \/ StartGc(q)
        \/ \E n \in Packages : \E gone \in SUBSET manifests[n] : StartRemove(q, n, gone)
        \/ TakeLock(q) \/ ReadEntry(q) \/ FileObject(q) \/ WriteManifest(q)
        \/ SaveEntry(q) \/ RemovePackageManifests(q) \/ DropEntry(q)
        \/ ReadLineage(q) \/ ScanLocks(q) \/ TryLock(q) \/ ListObjects(q)
        \/ ReadManifests(q) \/ StartDelete(q) \/ RemoveManifest(q) \/ DeleteObject(q)
        \/ LeaveObject(q) \/ FinishSweep(q) \/ Abandon(q)
  BY <1>1 DEF Next, vars
<1>3. \E o : Put(q, o)
  BY <1>2 DEF StartWriter, StartGc, Begin, StartRemove, TakeLock, ReadEntry, FileObject,
              WriteManifest, SaveEntry, RemovePackageManifests, DropEntry, ReadLineage,
              ScanLocks, TryLock, Busy, ListObjects, ReadManifests, StartDelete, RemoveManifest,
              DeleteObject, LeaveObject, FinishSweep, Abandon, Leave
<1>4. q = p
  BY <1>1, <1>3 DEF Put, IInv, TypeOK
<1>5. DeleteObject(p) \/ LeaveObject(p) \/ FinishSweep(p) \/ Abandon(p)
  BY <1>1, <1>2, <1>4 DEF StartWriter, StartGc, Begin, StartRemove, TakeLock, ReadEntry, FileObject,
              WriteManifest, SaveEntry, RemovePackageManifests, DropEntry, ReadLineage,
              ScanLocks, TryLock, ListObjects, ReadManifests, StartDelete, RemoveManifest
<1>6. ~Abandon(p)
  BY SweepFacts DEF Abandon
<1>7. ~DeleteObject(p) /\ ~LeaveObject(p)
  <2> SUFFICES ASSUME DeleteObject(p) \/ LeaveObject(p) PROVE FALSE
    OBVIOUS
  <2>1. PICK x \in op[p].cand : op' = [op EXCEPT ![p] = [op[p] EXCEPT !.cand = @ \ {x}]]
    BY DEF DeleteObject, LeaveObject, Put
  <2>2. op'[p].stage = "deleting"
    BY <2>1, SweepFacts DEF IInv, TypeOK, Op
  <2> QED BY <2>2, IdleOK
<1> QED BY <1>5, <1>6, <1>7

\* A gc that was not stopped has deleted every object no manifest names.
THEOREM GcDeletesAllUnused == Spec => GcLeavesNoGarbage
<1>1. ASSUME IInv, NEW p \in Procs, [Next]_vars,
             op[p].kind = "gc", op[p].stage = "deleting", op'[p] = Idle, crashes' = crashes
      PROVE  objects \subseteq UNION {Used(n) : n \in Packages}
  <2>1. op[p].cand = {} /\ ~op[p].busy /\ op[p].unread = {}
    BY <1>1, EndsBySweeping, SweepFacts DEF FinishSweep, StageOK
  <2>2. \A x \in objects : \E n \in Packages : x \in Used(n)
    BY <1>1, <2>1, SweepFacts DEF CandOK, Deciding
  <2> QED BY <2>2
<1>2. IInv /\ [Next]_vars =>
        [\A p \in Procs :
            /\ op[p].kind = "gc" /\ op[p].stage = "deleting"
            /\ op'[p] = Idle /\ crashes' = crashes
            => objects \subseteq UNION {Used(n) : n \in Packages}]_vars
  BY <1>1
<1> QED BY <1>2, InductiveInvariant, PTL DEF Spec, GcLeavesNoGarbage

=============================================================================
