---------------------------- MODULE ObjectStore ----------------------------
(***************************************************************************)
(* .quilt/objects: the content-addressed files every package shares, and   *)
(* the installed manifests that name them.  Writers file objects before    *)
(* the manifest that names them; gc, a pruning uninstall and the removal   *)
(* of old revisions delete the objects no manifest names, with every       *)
(* package's lock try-locked (flow/gc.rs, flow/remove_revisions.rs,        *)
(* local_domain.rs).  There is no reference count.                         *)
(*                                                                         *)
(* A revision is abstracted to the objects its rows name: local rows have  *)
(* their bytes nowhere else, remote rows can be downloaded again.          *)
(***************************************************************************)
EXTENDS Integers, FiniteSets

CONSTANTS
    Procs,      \* the tasks that call the library, in any process
    Packages,
    Objects,
    None,       \* no entry
    Free,
    MaxOps,     \* bound: operations started
    MaxCrashes  \* bound: operations abandoned

ASSUME ObjectStoreAssumption ==
    /\ Free \notin Procs
    /\ None \notin Packages
    /\ MaxOps \in Nat /\ MaxCrashes \in Nat

Revision == [local : SUBSET Objects, remote : SUBSET Objects]

\* keep: current, latest, base and the pending chain (Kept).
Entry == [cur : Revision, keep : SUBSET Revision]

NoRevision == [local |-> {}, remote |-> {}]

ASSUME NoneAssumption == None \notin Entry

VARIABLES
    objects,    \* the files in .quilt/objects
    manifests,  \* the installed manifests of each package
    published,  \* the revisions each package's registry lists
    entry,      \* each package's entry in data.json
    lockFiles,  \* the packages that have a lock file, which none loses
    lock,       \* who holds each package's lock
    op,
    started,
    crashes

vars == <<objects, manifests, published, entry, lockFiles, lock, op, started, crashes>>

NewKinds == {"create", "install"}

\* apply_latest_update: the manifest first, then the files.
Updates == {"pull", "reset"}

WriterKinds ==
    NewKinds \cup Updates \cup {"commit", "undo", "push", "download", "uninstall", "prune"}

Stages == {"idle", "waiting", "reading", "filing", "saving", "uninstalling",
           "dropping", "lineage", "scanning", "locking", "listing", "unused",
           "removing", "deleting"}

\* ns: the package it is called on.  rev, todo: what a writer makes and has
\* yet to file.  locks, unread: the packages a sweep has yet to lock, to read.
\* cand: the objects it may delete.  gone: the revisions to remove.
Op == [kind : WriterKinds \cup {"gc", "remove", "none"}, ns : Packages \cup {None},
       stage : Stages, rev : Revision, todo : SUBSET Objects,
       locks : SUBSET Packages, unread : SUBSET Packages, cand : SUBSET Objects,
       gone : SUBSET Revision, busy : BOOLEAN]

NewOp(kind, n, stage) ==
    [kind |-> kind, ns |-> n, stage |-> stage, rev |-> NoRevision, todo |-> {},
     locks |-> {}, unread |-> {}, cand |-> {}, gone |-> {}, busy |-> FALSE]

Idle == NewOp("none", None, "idle")

Names(r) == r.local \cup r.remote

NamedBy(revs) == UNION {Names(r) : r \in revs}

Used(n) == NamedBy(manifests[n])

Init ==
    /\ entry \in [Packages -> {None} \cup {[cur |-> r, keep |-> {r}] : r \in Revision}]
    /\ published = [n \in Packages |-> IF entry[n] # None /\ entry[n].cur.local = {}
                                      THEN {entry[n].cur} ELSE {}]
    /\ manifests = [n \in Packages |-> IF entry[n] = None THEN {} ELSE {entry[n].cur}]
    /\ \E downloaded \in SUBSET UNION {Used(n) : n \in Packages} :
          objects = downloaded \cup UNION {r.local : r \in UNION {manifests[n] : n \in Packages}}
    /\ lockFiles = {}
    /\ lock = [n \in Packages |-> Free]
    /\ op = [p \in Procs |-> Idle]
    /\ started = 0
    /\ crashes = 0

-----------------------------------------------------------------------------
Put(p, o) == op' = [op EXCEPT ![p] = o]

Freed(p) == [n \in Packages |-> IF lock[n] = p THEN Free ELSE lock[n]]

\* The call returns or is dropped, and every guard it holds with it.
Leave(p) == Put(p, Idle) /\ lock' = Freed(p)

Begin(p, o) ==
    /\ op[p] = Idle
    /\ started < MaxOps
    /\ started' = started + 1
    /\ Put(p, o)
    /\ UNCHANGED <<objects, manifests, published, entry, lockFiles, lock, crashes>>

StartWriter(p, kind, n) == Begin(p, NewOp(kind, n, "waiting"))

StartGc(p) == Begin(p, NewOp("gc", None, "lineage"))

Sweeping == {"locking", "listing", "unused", "removing", "deleting"}

\* A package that no writer has started yet.
Unknown(n) == n \notin lockFiles /\ entry[n] = None

\* lock_every_package: "starting one while gc runs is unsupported", and only
\* the user starts a package.  This is the one assumption on the callers.
NoSweepRuns == \A p \in Procs : op[p].stage \notin Sweeping

TakeLock(p) ==
    /\ op[p].stage = "waiting"
    /\ lock[op[p].ns] = Free
    /\ Unknown(op[p].ns) => NoSweepRuns
    /\ lock' = [lock EXCEPT ![op[p].ns] = p]
    /\ lockFiles' = lockFiles \cup {op[p].ns}
    /\ Put(p, [op[p] EXCEPT !.stage = "reading"])
    /\ UNCHANGED <<objects, manifests, published, entry, started, crashes>>

-----------------------------------------------------------------------------
(* Writers, from the first read under the package's lock *)

\* AlreadyInstalled, NotInstalled, the current manifest is not there to read; a
\* pull with a commit pending, a reset with no remote, a push or an undo with
\* nothing to push or to go back to.
Accepts(kind, n) ==
    IF kind \in NewKinds THEN entry[n] = None
    ELSE /\ entry[n] # None
         /\ kind \in {"uninstall", "prune"} \/ entry[n].cur \in manifests[n]
         /\ kind = "pull" => entry[n].cur \in published[n]
         /\ kind = "reset" => published[n] # {}
         /\ kind \in {"push", "undo"} => entry[n].cur \notin published[n]
         /\ kind = "undo" => entry[n].keep # {entry[n].cur}

\* create files its source's files; commit the changed ones, and carries over the
\* rows that are neither changed nor removed; undo goes back along the pending
\* chain.
Made(kind, e, files) ==
    CASE kind = "create" -> {[local |-> files, remote |-> {}]}
      [] kind \in Updates \cup {"install"} -> {[local |-> {}, remote |-> new] : new \in SUBSET Objects}
      [] kind = "commit" -> {[local |-> l \cup files, remote |-> r] :
                               l \in SUBSET e.cur.local, r \in SUBSET e.cur.remote}
      [] kind = "undo" -> e.keep \ {e.cur}
      [] OTHER -> {e.cur}

Filed(kind, files) ==
    IF kind \in Updates \cup {"create", "commit", "download"} THEN files ELSE {}

ReadEntry(p) ==
    /\ op[p].stage = "reading"
    /\ LET o == op[p]
           e == entry[o.ns]
       IN \/ ~Accepts(o.kind, o.ns) /\ Leave(p)
          \/ /\ Accepts(o.kind, o.ns) /\ o.kind \in {"uninstall", "prune"}
             /\ Put(p, [o EXCEPT !.stage = "uninstalling",
                                 !.cand = IF o.kind = "prune" THEN Used(o.ns) \cap objects ELSE {}])
             /\ UNCHANGED lock
          \/ /\ Accepts(o.kind, o.ns) /\ o.kind \notin {"uninstall", "prune"}
             /\ \E files \in SUBSET Objects : \E rev \in Made(o.kind, e, files) :
                   /\ o.kind \in Updates \cup {"download"} => files \subseteq rev.remote
                   /\ Put(p, [o EXCEPT !.stage = "filing", !.rev = rev,
                                       !.todo = Filed(o.kind, files)])
             /\ UNCHANGED lock
    /\ UNCHANGED <<objects, manifests, published, entry, lockFiles, started, crashes>>

\* Copied or downloaded into place, unless it is there already.
FileObject(p) ==
    /\ op[p].stage = IF op[p].kind \in Updates THEN "saving" ELSE "filing"
    /\ \E x \in op[p].todo :
          /\ objects' = objects \cup {x}
          /\ Put(p, [op[p] EXCEPT !.todo = @ \ {x}])
    /\ UNCHANGED <<manifests, published, entry, lockFiles, lock, started, crashes>>

\* Mutant: the manifest is written while its objects are still being copied.
WriteManifest_First(p) ==
    /\ op[p].stage = "filing"
    /\ manifests' = [manifests EXCEPT ![op[p].ns] = @ \cup {op[p].rev}]
    /\ Put(p, [op[p] EXCEPT !.stage = "saving"])
    /\ UNCHANGED <<objects, published, entry, lockFiles, lock, started, crashes>>

\* push keeps the installed manifest as it is, file keys and all, and the
\* registry lists the revision from here on; it listed what was installed or
\* pulled before.
WriteManifest(p) ==
    /\ op[p].stage = "filing"
    /\ op[p].kind \in Updates \/ op[p].todo = {}
    /\ LET n == op[p].ns IN
       /\ manifests' = [manifests EXCEPT ![n] = @ \cup {op[p].rev}]
       /\ published' = IF op[p].kind \in Updates \cup {"install", "push"}
                       THEN [published EXCEPT ![n] = @ \cup {op[p].rev}]
                       ELSE published
    /\ Put(p, [op[p] EXCEPT !.stage = "saving"])
    /\ UNCHANGED <<objects, entry, lockFiles, lock, started, crashes>>

Kept(o, e) ==
    CASE o.kind = "commit" -> e.keep \cup {o.rev}
      [] o.kind = "undo" -> e.keep \ {e.cur}
      [] o.kind = "download" -> e.keep
      [] OTHER -> {o.rev}

SaveEntry(p) ==
    /\ op[p].stage = "saving"
    /\ op[p].todo = {}
    /\ entry' = [entry EXCEPT ![op[p].ns] =
                    [cur |-> op[p].rev, keep |-> Kept(op[p], @)]]
    /\ Leave(p)
    /\ UNCHANGED <<objects, manifests, published, lockFiles, started, crashes>>

RemovePackageManifests(p) ==
    /\ op[p].stage = "uninstalling"
    /\ manifests' = [manifests EXCEPT ![op[p].ns] = {}]
    /\ Put(p, [op[p] EXCEPT !.stage = "dropping"])
    /\ UNCHANGED <<objects, published, entry, lockFiles, lock, started, crashes>>

\* A pruning uninstall goes on as a sweep of its own objects, with no lock.
DropEntry(p) ==
    /\ op[p].stage = "dropping"
    /\ entry' = [entry EXCEPT ![op[p].ns] = None]
    /\ IF op[p].cand = {}
       THEN Leave(p)
       ELSE lock' = Freed(p) /\ Put(p, [op[p] EXCEPT !.stage = "lineage"])
    /\ UNCHANGED <<objects, manifests, published, lockFiles, started, crashes>>

-----------------------------------------------------------------------------
(* Sweeps *)

\* InstalledPackage::remove_revisions: PackageBusy when the lock is taken,
\* and a revision that is kept or not published is not removable.
StartRemove(p, n, gone) ==
    /\ op[p] = Idle
    /\ started < MaxOps
    /\ lock[n] = Free
    /\ entry[n] # None
    /\ gone # {}
    /\ gone \subseteq (manifests[n] \cap published[n]) \ entry[n].keep
    /\ started' = started + 1
    /\ lock' = [lock EXCEPT ![n] = p]
    /\ lockFiles' = lockFiles \cup {n}
    /\ Put(p, [NewOp("remove", n, "lineage") EXCEPT !.gone = gone])
    /\ UNCHANGED <<objects, manifests, published, entry, crashes>>

\* Its own lock is held already by a removal, and by nothing else.
Own(o) == IF o.kind = "remove" THEN {o.ns} ELSE {}

ReadLineage(p) ==
    /\ op[p].stage = "lineage"
    /\ Put(p, [op[p] EXCEPT !.stage = "scanning",
                            !.locks = {n \in Packages : entry[n] # None}])
    /\ UNCHANGED <<objects, manifests, published, entry, lockFiles, lock, started, crashes>>

ScanLocks(p) ==
    /\ op[p].stage = "scanning"
    /\ Put(p, [op[p] EXCEPT !.stage = "locking",
                            !.locks = (@ \cup lockFiles) \ Own(op[p])])
    /\ UNCHANGED <<objects, manifests, published, entry, lockFiles, lock, started, crashes>>

\* A busy package stops gc and a prune; a removal lets go of the other locks
\* and keeps the objects.
Busy(p) ==
    IF op[p].kind = "remove"
    THEN /\ Put(p, [op[p] EXCEPT !.stage = "listing", !.locks = {}, !.busy = TRUE])
         /\ lock' = [n \in Packages |->
                        IF lock[n] = p /\ n # op[p].ns THEN Free ELSE lock[n]]
    ELSE Leave(p)

TryLock(p) ==
    /\ op[p].stage = "locking"
    /\ \E n \in op[p].locks :
          IF lock[n] = Free
          THEN /\ lock' = [lock EXCEPT ![n] = p]
               /\ lockFiles' = lockFiles \cup {n}
               /\ Put(p, [op[p] EXCEPT !.locks = @ \ {n}])
          ELSE Busy(p) /\ UNCHANGED lockFiles
    /\ UNCHANGED <<objects, manifests, published, entry, started, crashes>>

\* gc may delete anything in the store, a prune the removed package's objects,
\* a removal those its revisions use and no other of its own manifests does.
Candidates(o) ==
    CASE o.kind = "gc" -> objects
      [] o.kind = "prune" -> o.cand
      [] OTHER -> objects \cap (NamedBy(o.gone) \ NamedBy(manifests[o.ns] \ o.gone))

ListObjects(p) ==
    /\ \/ op[p].stage = "locking" /\ op[p].locks = {}
       \/ op[p].stage = "listing"
    /\ Put(p, [op[p] EXCEPT !.stage = "unused", !.cand = Candidates(op[p]),
                            !.unread = Packages \ Own(op[p])])
    /\ UNCHANGED <<objects, manifests, published, entry, lockFiles, lock, started, crashes>>

\* objects_in_use, one package's manifests at a time.
ReadManifests(p) ==
    /\ op[p].stage = "unused"
    /\ \E n \in op[p].unread :
          Put(p, [op[p] EXCEPT !.unread = @ \ {n}, !.cand = @ \ Used(n)])
    /\ UNCHANGED <<objects, manifests, published, entry, lockFiles, lock, started, crashes>>

\* Mutant: the objects go before the manifests that name them.
StartDelete_ObjectsFirst(p) ==
    /\ op[p].stage = "unused"
    /\ op[p].unread = {}
    /\ Put(p, [op[p] EXCEPT !.stage = "deleting"])
    /\ UNCHANGED <<objects, manifests, published, entry, lockFiles, lock, started, crashes>>

StartDelete(p) ==
    /\ op[p].stage = "unused"
    /\ op[p].unread = {}
    /\ Put(p, [op[p] EXCEPT !.stage = IF op[p].kind = "remove" THEN "removing" ELSE "deleting"])
    /\ UNCHANGED <<objects, manifests, published, entry, lockFiles, lock, started, crashes>>

\* Manifests first.
RemoveManifest(p) ==
    /\ op[p].stage = "removing"
    /\ IF op[p].gone = {}
       THEN /\ Put(p, [op[p] EXCEPT !.stage = "deleting"])
            /\ UNCHANGED manifests
       ELSE \E r \in op[p].gone :
            /\ manifests' = [manifests EXCEPT ![op[p].ns] = @ \ {r}]
            /\ Put(p, [op[p] EXCEPT !.gone = @ \ {r}])
    /\ UNCHANGED <<objects, published, entry, lockFiles, lock, started, crashes>>

DeleteObject(p) ==
    /\ op[p].stage = "deleting"
    /\ ~op[p].busy
    /\ \E x \in op[p].cand :
          /\ objects' = objects \ {x}
          /\ Put(p, [op[p] EXCEPT !.cand = @ \ {x}])
    /\ UNCHANGED <<manifests, published, entry, lockFiles, lock, started, crashes>>

\* remove_revisions leaves an object it cannot delete to the next gc.
LeaveObject(p) ==
    /\ op[p].stage = "deleting"
    /\ op[p].kind = "remove" /\ ~op[p].busy
    /\ \E x \in op[p].cand : Put(p, [op[p] EXCEPT !.cand = @ \ {x}])
    /\ UNCHANGED <<objects, manifests, published, entry, lockFiles, lock, started, crashes>>

\* Mutant: the loop breaks where it should go on to the next object.
FinishSweep_Early(p) ==
    /\ op[p].stage = "deleting"
    /\ Leave(p)
    /\ UNCHANGED <<objects, manifests, published, entry, lockFiles, started, crashes>>

FinishSweep(p) ==
    /\ op[p].stage = "deleting"
    /\ op[p].busy \/ op[p].cand = {}
    /\ Leave(p)
    /\ UNCHANGED <<objects, manifests, published, entry, lockFiles, started, crashes>>

\* An error, a cancelled call or a dead process, between any two steps.
Abandon(p) ==
    /\ op[p].stage # "idle"
    /\ crashes < MaxCrashes
    /\ crashes' = crashes + 1
    /\ Leave(p)
    /\ UNCHANGED <<objects, manifests, published, entry, lockFiles, started>>

-----------------------------------------------------------------------------
Next ==
    \E p \in Procs :
        \/ \E kind \in WriterKinds, n \in Packages : StartWriter(p, kind, n)
        \/ StartGc(p)
        \/ \E n \in Packages : \E gone \in SUBSET manifests[n] : StartRemove(p, n, gone)
        \/ TakeLock(p)
        \/ ReadEntry(p)
        \/ FileObject(p)
        \/ WriteManifest(p)
        \/ SaveEntry(p)
        \/ RemovePackageManifests(p)
        \/ DropEntry(p)
        \/ ReadLineage(p)
        \/ ScanLocks(p)
        \/ TryLock(p)
        \/ ListObjects(p)
        \/ ReadManifests(p)
        \/ StartDelete(p)
        \/ RemoveManifest(p)
        \/ DeleteObject(p)
        \/ LeaveObject(p)
        \/ FinishSweep(p)
        \/ Abandon(p)

Spec == Init /\ [][Next]_vars

-----------------------------------------------------------------------------
(* Properties *)

TypeOK ==
    /\ objects \in SUBSET Objects
    /\ manifests \in [Packages -> SUBSET Revision]
    /\ published \in [Packages -> SUBSET Revision]
    /\ entry \in [Packages -> Entry \cup {None}]
    /\ lockFiles \in SUBSET Packages
    /\ lock \in [Packages -> Procs \cup {Free}]
    /\ op \in [Procs -> Op]
    /\ started \in 0..MaxOps
    /\ crashes \in 0..MaxCrashes

WriterStages == {"reading", "filing", "saving", "uninstalling", "dropping"}

SweepStages == {"lineage", "scanning"} \cup Sweeping

Deciding == {"unused", "removing", "deleting"}

\* What holds of whoever is at which stage: its kind, its package, the lock it
\* holds on it, and where a removal stands.
StageOK(p, o) ==
    /\ o.stage # "idle" => o.kind # "none"
    /\ o.stage \in WriterStages \cup {"waiting"} => o.kind \in WriterKinds /\ o.ns \in Packages
    /\ o.stage \in SweepStages => o.kind \in {"gc", "prune", "remove"}
    /\ o.kind = "remove" => o.ns \in Packages /\ o.stage \in SweepStages
    /\ o.stage \in WriterStages \/ o.kind = "remove" =>
          lock[o.ns] = p /\ o.ns \in lockFiles
    /\ o.stage \in {"filing", "saving"} => o.kind \notin {"uninstall", "prune"}
    /\ o.stage \in {"uninstalling", "dropping"} /\ o.cand # {} => o.kind = "prune"
    /\ o.stage = "removing" => o.kind = "remove"
    /\ o.stage \in {"removing", "deleting"} => o.unread = {}
    /\ o.stage = "deleting" /\ o.kind = "remove" => o.gone = {}
    /\ o.busy => o.kind = "remove"
    /\ o.stage = "listing" => o.busy

StageInv == \A p \in Procs : StageOK(p, op[p])

\* A sweep past its scan has every package that any writer can be at work on:
\* it still has to try its lock, or it holds it.
CoverOK(p, o) ==
    /\ o.stage \in {"scanning", "locking"} => \A n \in o.locks : ~Unknown(n)
    /\ o.stage = "scanning" =>
          \A n \in Packages : entry[n] # None => n \in o.locks \cup lockFiles
    /\ o.stage = "locking" =>
          \A n \in Packages : Unknown(n) \/ n \in o.locks \/ lock[n] = p
    /\ o.stage \in Deciding /\ ~o.busy =>
          \A n \in Packages : Unknown(n) \/ lock[n] = p

CoverInv == \A p \in Procs : CoverOK(p, op[p])

\* What it may still delete, no manifest it has read names.
CandOK(o) ==
    o.stage \in Deciding /\ ~o.busy =>
        /\ \A n \in Packages \ o.unread : n \notin Own(o) => o.cand \cap Used(n) = {}
        /\ \A n \in Own(o) : \A r \in manifests[n] \ o.gone : o.cand \cap Names(r) = {}
        /\ o.kind = "gc" =>
              \A x \in objects \ o.cand : \E n \in Packages \ o.unread : x \in Used(n)

CandInv == \A p \in Procs : CandOK(op[p])

\* A writer's revision: filed but for what is left to do, then written.
FilingOK(o) ==
    /\ o.stage = "filing" =>
          o.rev.local \subseteq objects \cup (IF o.kind \in Updates THEN {} ELSE o.todo)
    /\ o.stage \in {"filing", "saving"} =>
          IF o.kind \in NewKinds THEN entry[o.ns] = None
          ELSE entry[o.ns] # None /\ entry[o.ns].keep \subseteq manifests[o.ns]
    /\ o.stage = "saving" => o.rev \in manifests[o.ns]
    /\ o.kind = "remove" /\ o.stage \in SweepStages /\ entry[o.ns] # None =>
          o.gone \cap entry[o.ns].keep = {}

FilingInv == \A p \in Procs : FilingOK(op[p])

\* A row whose bytes are nowhere else has its object, whatever was committed,
\* removed or swept meanwhile and wherever any of it stopped.
NoDanglingRow ==
    \A n \in Packages : \A r \in manifests[n] : r.local \subseteq objects

\* The revisions a package still needs are not removed from under it.  (An
\* uninstall that stopped midway has removed them all.)
KeptRevisionsStay ==
    \A n \in Packages :
        entry[n] # None =>
            entry[n].keep \subseteq manifests[n] \/ manifests[n] = {}

IInv ==
    /\ TypeOK /\ StageInv /\ CoverInv /\ CandInv /\ FilingInv
    /\ NoDanglingRow /\ KeptRevisionsStay

\* "An object none of them names is one no package can reach": only such an
\* object is deleted, downloaded ones included.
DeletesOnlyUnused ==
    [][\A x \in objects \ objects' : \A n \in Packages : x \notin Used(n)]_vars

\* A gc that runs to its end leaves no object that no manifest names.
GcLeavesNoGarbage ==
    [][\A p \in Procs :
          /\ op[p].kind = "gc" /\ op[p].stage = "deleting"
          /\ op'[p] = Idle /\ crashes' = crashes
          => objects \subseteq UNION {Used(n) : n \in Packages}]_vars

=============================================================================
