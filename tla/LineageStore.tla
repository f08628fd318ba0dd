---------------------------- MODULE LineageStore ----------------------------
(***************************************************************************)
(* data.json, the one record of a domain: its home directory and the entry *)
(* of every installed package.  Writers, in any process, hold a package's  *)
(* lock from their first read of its entry to their write, and meet at the *)
(* short lock, data.json.lock, around a re-read, a splice and an atomic    *)
(* replace of the file (lineage.rs, package_lock.rs, local_domain.rs).     *)
(*                                                                         *)
(* An entry is abstracted to the writes it is made of and the homes the    *)
(* working files it tracks were put under.                                 *)
(***************************************************************************)
EXTENDS Integers, FiniteSets

CONSTANTS
    Writers,
    Namespaces,
    Homes,
    NoHome,     \* a record of an old version, without a home
    None,       \* no entry; no record
    Free,
    MaxOps,     \* bound: operations started
    MaxCrashes  \* bound: writers that die or fail midway

ASSUME LineageStoreAssumption ==
    /\ NoHome \notin Homes
    /\ Free \notin Writers
    /\ MaxOps \in Nat /\ MaxCrashes \in Nat

VARIABLES
    record,     \* data.json, None before the first set_home
    pkgLock,    \* .quilt/locks/<namespace>.lock: who holds it
    shortLock,  \* data.json.lock: who holds it
    op,         \* each writer's operation
    started,
    crashes

vars == <<record, pkgLock, shortLock, op, started, crashes>>

Ids == 1..MaxOps

Entry == [by : SUBSET Ids, at : SUBSET Homes]

Record == [home : Homes \cup {NoHome}, packages : [Namespaces -> Entry \cup {None}]]

ASSUME NoneAssumption ==
    /\ None \notin Entry /\ None \notin Record
    /\ None \notin Homes /\ None \notin Namespaces
    /\ \A S \in SUBSET Ids : S # None

\* DomainLineage::from_slice: no file, or no home in it, is an error.
Readable(r) == r # None /\ r.home # NoHome

\* install, create: insert_package.  write: PackageLineageIo::write, after any
\* work on the package.  edit: PackageLineageIo::edit, with no read before it.
PackageKinds == {"install", "create", "write", "edit", "uninstall"}

HomeKinds == {"set_home", "overwrite_home"}

\* waiting: for the package's lock.  reading: holds it.  splicing: wants the
\* short lock.  rereading, writing: holds that too.  leaving: drops the rest.
Stages == {"idle", "waiting", "reading", "splicing", "rereading", "writing", "leaving"}

NewOp(kind, n, home, stage) ==
    [kind |-> kind, ns |-> n, home |-> home, stage |-> stage,
     id |-> started + 1, seen |-> None, buf |-> None]

Idle == [kind |-> None, ns |-> None, home |-> None, stage |-> "idle",
         id |-> 0, seen |-> None, buf |-> None]

Op == [kind : PackageKinds \cup HomeKinds \cup {None}, ns : Namespaces \cup {None},
       home : Homes \cup {None}, stage : Stages, id : Ids \cup {0},
       seen : Entry \cup {None}, buf : Record \cup {None}]

Init ==
    /\ record \in {None} \cup
         {r \in [home : Homes \cup {NoHome},
                 packages : [Namespaces -> {None, [by |-> {}, at |-> {}]}]] :
            r.home # NoHome \/ \E n \in Namespaces : r.packages[n] # None}
    /\ pkgLock = [n \in Namespaces |-> Free]
    /\ shortLock = Free
    /\ op = [w \in Writers |-> Idle]
    /\ started = 0
    /\ crashes = 0

-----------------------------------------------------------------------------
FreePackage(w) == [n \in Namespaces |-> IF pkgLock[n] = w THEN Free ELSE pkgLock[n]]

\* Every guard the operation holds is dropped.
Leave(w) ==
    /\ op' = [op EXCEPT ![w] = Idle]
    /\ pkgLock' = FreePackage(w)
    /\ shortLock' = IF shortLock = w THEN Free ELSE shortLock

Start(w, kind, n) ==
    /\ op[w] = Idle
    /\ started < MaxOps
    /\ started' = started + 1
    /\ op' = [op EXCEPT ![w] = NewOp(kind, n, None, "waiting")]
    /\ UNCHANGED <<record, pkgLock, shortLock, crashes>>

\* change_home takes the short lock alone.
StartHome(w, kind, home) ==
    /\ op[w] = Idle
    /\ started < MaxOps
    /\ started' = started + 1
    /\ op' = [op EXCEPT ![w] = NewOp(kind, None, home, "splicing")]
    /\ UNCHANGED <<record, pkgLock, shortLock, crashes>>

\* Mutant: one writer too many.
TakePackageLock_Shared(w) ==
    /\ op[w].stage = "waiting"
    /\ pkgLock' = [pkgLock EXCEPT ![op[w].ns] = w]
    /\ op' = [op EXCEPT ![w] = [@ EXCEPT !.stage =
                 IF op[w].kind = "edit" THEN "splicing" ELSE "reading"]]
    /\ UNCHANGED <<record, shortLock, started, crashes>>

TakePackageLock(w) ==
    /\ op[w].stage = "waiting"
    /\ pkgLock[op[w].ns] = Free
    /\ pkgLock' = [pkgLock EXCEPT ![op[w].ns] = w]
    /\ op' = [op EXCEPT ![w] = [@ EXCEPT !.stage =
                 IF op[w].kind = "edit" THEN "splicing" ELSE "reading"]]
    /\ UNCHANGED <<record, shortLock, started, crashes>>

\* AlreadyInstalled and NotInstalled.
Expected(kind, entry) == (entry = None) <=> (kind \in {"install", "create"})

\* Mutant: the work calls a public entry point of the same package.
ReadEntry_Reentrant(w) ==
    /\ op[w].stage = "reading"
    /\ op' = [op EXCEPT ![w] = [@ EXCEPT !.stage = "waiting"]]
    /\ UNCHANGED <<record, pkgLock, shortLock, started, crashes>>

\* The first read; the work that follows it, under the home it found, ends in
\* stage "splicing".
ReadEntry(w) ==
    /\ op[w].stage = "reading"
    /\ IF Readable(record) /\ Expected(op[w].kind, record.packages[op[w].ns])
       THEN /\ op' = [op EXCEPT ![w] =
                         [@ EXCEPT !.stage = "splicing", !.home = record.home,
                                   !.seen = record.packages[op[w].ns], !.buf = record]]
            /\ UNCHANGED <<pkgLock, shortLock>>
       ELSE Leave(w)
    /\ UNCHANGED <<record, started, crashes>>

\* Mutant: anybody in.
TakeShortLock_Shared(w) ==
    /\ op[w].stage = "splicing"
    /\ shortLock' = w
    /\ op' = [op EXCEPT ![w] = [@ EXCEPT !.stage = "rereading"]]
    /\ UNCHANGED <<record, pkgLock, started, crashes>>

TakeShortLock(w) ==
    /\ op[w].stage = "splicing"
    /\ shortLock = Free
    /\ shortLock' = w
    /\ op' = [op EXCEPT ![w] = [@ EXCEPT !.stage = "rereading"]]
    /\ UNCHANGED <<record, pkgLock, started, crashes>>

\* HomeInUse, unless the record has no home or the caller overwrites.
MayMove(o) ==
    \/ o.kind = "overwrite_home"
    \/ record = None
    \/ record.home = NoHome
    \/ \A n \in Namespaces : record.packages[n] = None

\* What update's step and change_home answer with an error or no write.
Refused(o) ==
    IF o.kind \in HomeKinds
    THEN (record # None /\ record.home = o.home) \/ ~MayMove(o)
    ELSE \/ ~Readable(record)
         \/ o.kind = "edit" /\ record.packages[o.ns] = None

\* Mutant: the whole record is spliced as the work first read it.
Reread_Stale(w) ==
    /\ op[w].stage = "rereading"
    /\ IF Refused(op[w])
       THEN Leave(w)
       ELSE /\ op' = [op EXCEPT ![w] = [@ EXCEPT !.stage = "writing",
                         !.buf = IF op[w].buf = None THEN record ELSE op[w].buf]]
            /\ UNCHANGED <<pkgLock, shortLock>>
    /\ UNCHANGED <<record, started, crashes>>

Reread(w) ==
    /\ op[w].stage = "rereading"
    /\ IF Refused(op[w])
       THEN Leave(w)
       ELSE /\ op' = [op EXCEPT ![w] = [@ EXCEPT !.stage = "writing", !.buf = record]]
            /\ UNCHANGED <<pkgLock, shortLock>>
    /\ UNCHANGED <<record, started, crashes>>

\* The entry an operation writes: made anew, computed from the entry it first
\* read, or, for an edit, from the one it re-read.
NewEntry(o) ==
    CASE o.kind = "uninstall" -> None
      [] o.kind = "install" -> [by |-> {o.id}, at |-> {}]
      [] o.kind = "create" -> [by |-> {o.id}, at |-> {o.home}]
      [] o.kind = "write" -> [by |-> o.seen.by \cup {o.id}, at |-> o.seen.at \cup {o.home}]
      [] o.kind = "edit" -> [o.buf.packages[o.ns] EXCEPT !.by = @ \cup {o.id}]

Spliced(o) ==
    IF o.kind \notin HomeKinds
    THEN [o.buf EXCEPT !.packages = [@ EXCEPT ![o.ns] = NewEntry(o)]]
    ELSE IF o.buf = None
    THEN [home |-> o.home, packages |-> [n \in Namespaces |-> None]]
    ELSE [o.buf EXCEPT !.home = o.home]

\* write_unlocked replaces the file by rename, and the short lock is dropped.
WriteRecord(w) ==
    /\ op[w].stage = "writing"
    /\ record' = Spliced(op[w])
    /\ shortLock' = Free
    /\ op' = [op EXCEPT ![w] = [@ EXCEPT !.stage = "leaving"]]
    /\ UNCHANGED <<pkgLock, started, crashes>>

\* The package's guard drops at the end of the public call.
Finish(w) ==
    /\ op[w].stage = "leaving"
    /\ Leave(w)
    /\ UNCHANGED <<record, started, crashes>>

\* The work fails, the call is cancelled, or its process dies: guards drop, the
\* OS frees what a dead process held, and the record is whole or not replaced.
Abandon(w) ==
    /\ op[w] # Idle
    /\ crashes < MaxCrashes
    /\ crashes' = crashes + 1
    /\ Leave(w)
    /\ UNCHANGED <<record, started>>

-----------------------------------------------------------------------------
Step(w) ==
    \/ TakePackageLock(w)
    \/ ReadEntry(w)
    \/ TakeShortLock(w)
    \/ Reread(w)
    \/ WriteRecord(w)
    \/ Finish(w)

Next ==
    \E w \in Writers :
        \/ \E kind \in PackageKinds, n \in Namespaces : Start(w, kind, n)
        \/ \E kind \in HomeKinds, home \in Homes : StartHome(w, kind, home)
        \/ Step(w)
        \/ Abandon(w)

Spec == Init /\ [][Next]_vars

\* An operation runs on, and a free lock is taken: the locks are lost by
\* nobody (PathLock), and only MaxOps operations compete for them.
Fairness == \A w \in Writers : WF_vars(Step(w))

FairSpec == Spec /\ Fairness

-----------------------------------------------------------------------------
(* Properties *)

TypeOK ==
    /\ record \in Record \cup {None}
    /\ pkgLock \in [Namespaces -> Writers \cup {Free}]
    /\ shortLock \in Writers \cup {Free}
    /\ op \in [Writers -> Op]
    /\ started \in 0..MaxOps
    /\ crashes \in 0..MaxCrashes

\* A package's lock is held from before the first read until after the write,
\* the short lock inside it around the re-read and the write, and no guard
\* outlives its operation.
LockInv ==
    /\ \A w \in Writers, n \in Namespaces :
          pkgLock[n] = w <=> op[w].ns = n /\ op[w].stage # "waiting"
    /\ \A w \in Writers :
          shortLock = w <=> op[w].stage \in {"rereading", "writing"}

\* The writes an entry shows were all started, and each operation is its own.
IdInv ==
    /\ record # None =>
          \A n \in Namespaces : record.packages[n] # None =>
              record.packages[n].by \subseteq 1..started
    /\ \A w \in Writers : op[w].id <= started
    /\ \A w \in Writers : op[w].stage # "idle" => op[w].id > 0
    /\ \A v, w \in Writers : v # w /\ op[v].stage # "idle" => op[v].id # op[w].id
    /\ \A w \in Writers, n \in Namespaces :
          /\ record # None
          /\ record.packages[n] # None
          /\ op[w].stage # "idle"
          /\ op[w].id \in record.packages[n].by
          => op[w].stage = "leaving"

\* What an operation has checked by the time it stands where it does.
OpInv ==
    \A w \in Writers :
        LET o == op[w] IN
        /\ o.stage = "idle" => o = Idle
        /\ o.stage # "idle" =>
              \/ o.kind \in PackageKinds /\ o.ns \in Namespaces
              \/ /\ o.kind \in HomeKinds /\ o.ns = None /\ o.home \in Homes
                 /\ o.stage \notin {"waiting", "reading"}
        /\ o.stage = "writing" =>
              /\ o.kind \in PackageKinds => o.buf # None
              /\ o.kind = "edit" => o.buf.packages[o.ns] # None
              /\ o.kind = "set_home" /\ o.buf # None /\ o.buf.home # NoHome =>
                    \A n \in Namespaces : o.buf.packages[n] = None

Committing(o) == o.stage \in {"splicing", "rereading", "writing"}

\* "The entry it replaces is the one it read" (PackageLineageIo::write): from
\* a writer's first read to its write nobody else changes its entry, while
\* other packages' entries and the home may change under it.
EntryIsTheOneRead ==
    \A w \in Writers :
        /\ op[w].kind \in {"install", "create", "write", "uninstall"}
        /\ Committing(op[w])
        => /\ record # None
           /\ record.packages[op[w].ns] = op[w].seen
           /\ Expected(op[w].kind, op[w].seen)
           /\ op[w].home \in Homes

\* Between its re-read and its write the short lock's holder has the record as
\* it is on disk, so a splice drops no other package's entry and no move.
SpliceIsCurrent ==
    \A w \in Writers : op[w].stage = "writing" => op[w].buf = record

IInv == TypeOK /\ LockInv /\ OpInv /\ IdInv /\ EntryIsTheOneRead /\ SpliceIsCurrent

\* A home is only moved from under an empty domain, unless the caller asked to
\* overwrite it: no install or create is spliced in between the check and the
\* write (change_home).
MovesOnlyEmptyHome ==
    [][ /\ Readable(record) /\ Readable(record') /\ record'.home # record.home
        => \/ \A n \in Namespaces : record.packages[n] = None
           \/ \E w \in Writers : op[w].kind = "overwrite_home" /\ op[w].stage = "writing"
      ]_vars

\* Every entry is a register of its own: no save of one package, of another
\* package or of the home, in any process, is lost or applied twice.
Entries ==
    [n \in Namespaces |->
        IF record = None THEN None
        ELSE IF record.packages[n] = None THEN None
        ELSE record.packages[n].by]

Reg == INSTANCE EntryRegisters WITH Saves <- Ids, entries <- Entries

ImplementsRegisters == Reg!Spec

\* With the two locks always taken in one order, and neither twice, writers do
\* not wait on each other for ever.
WritersFinish == <>[](\A w \in Writers : op[w] = Idle)

\* The operation asks for a lock another one has.
Blocked(w) ==
    \/ op[w].stage = "waiting" /\ pkgLock[op[w].ns] # Free
    \/ op[w].stage = "splicing" /\ shortLock # Free

\* As long as an operation is unfinished, one that is blocked by nobody is: the
\* short lock is asked for under a package's lock and never the other way round.
SomeWriterGoesOn ==
    (\E w \in Writers : op[w] # Idle) => \E w \in Writers : op[w] # Idle /\ ~Blocked(w)

Rank(o) ==
    CASE o.stage = "waiting"    -> 6
      [] o.stage = "reading"    -> 5
      [] o.stage = "splicing"   -> 4
      [] o.stage = "rereading"  -> 3
      [] o.stage = "writing"    -> 2
      [] o.stage = "leaving"    -> 1
      [] o.stage = "idle"       -> 0

\* Whatever becomes of an operation brings it nearer to its end: it asks for no
\* lock twice.
WritersRunDown ==
    [][\A w \in Writers :
          op[w] # Idle /\ op'[w] # op[w] => Rank(op'[w]) < Rank(op[w])]_vars

=============================================================================
