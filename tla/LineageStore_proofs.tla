------------------------ MODULE LineageStore_proofs ------------------------
(* For any number of writers, packages and homes: nobody else changes an    *)
(* entry between a writer's read and its write, and no save is lost.        *)
EXTENDS LineageStore, TLAPS

USE LineageStoreAssumption, NoneAssumption

LEMMA InitInv == Init => IInv
<1> SUFFICES ASSUME Init PROVE IInv
  OBVIOUS
<1> USE DEF Init, Idle
<1>1. Idle \in Op
  BY DEF Op, Stages
<1>2. [by |-> {}, at |-> {}] \in Entry
  BY DEF Entry
<1>3. record \in Record \cup {None}
  BY <1>2 DEF Record
<1>4. TypeOK
  BY <1>1, <1>3 DEF TypeOK
<1>5. IdInv
  BY <1>3 DEF IdInv, Record
<1>6. LockInv /\ OpInv /\ EntryIsTheOneRead /\ SpliceIsCurrent
  BY DEF LockInv, OpInv, EntryIsTheOneRead, SpliceIsCurrent, Committing
<1> QED BY <1>4, <1>5, <1>6 DEF IInv

\* Dropping an operation's guards disturbs nothing another writer relies on.
LEMMA LeaveInv ==
    ASSUME IInv, NEW w \in Writers, Leave(w), UNCHANGED <<record, started>>,
           crashes' \in 0..MaxCrashes
    PROVE  IInv'
<1> USE DEF Leave
<1>1. Idle \in Op
  BY DEF Op, Idle, Stages
<1>2. TypeOK'
  BY <1>1 DEF IInv, TypeOK, FreePackage
<1>3. LockInv'
  BY DEF IInv, TypeOK, LockInv, FreePackage, Idle
<1>4. OpInv'
  BY DEF IInv, TypeOK, OpInv, Idle
<1>5. IdInv'
  <2>1. started \in Nat
    BY DEF IInv, TypeOK
  <2> QED BY <2>1 DEF IInv, TypeOK, IdInv, Idle
<1>6. EntryIsTheOneRead'
  BY DEF IInv, TypeOK, EntryIsTheOneRead, Committing, Idle
<1>7. SpliceIsCurrent'
  BY DEF IInv, TypeOK, SpliceIsCurrent, Idle
<1> QED BY <1>2, <1>3, <1>4, <1>5, <1>6, <1>7 DEF IInv

\* A step that only moves one operation on.
LEMMA StartInv ==
    ASSUME IInv, NEW w \in Writers, op[w] = Idle, NEW o \in Op,
           started < MaxOps, started' = started + 1,
           op' = [op EXCEPT ![w] = o], UNCHANGED <<record, pkgLock, shortLock, crashes>>,
           o.id = started + 1,
           \/ o.stage = "waiting" /\ o.kind \in PackageKinds /\ o.ns \in Namespaces
           \/ o.stage = "splicing" /\ o.kind \in HomeKinds /\ o.ns = None /\ o.home \in Homes
    PROVE  IInv'
<1>0. started \in Nat
  BY DEF IInv, TypeOK
<1>1. TypeOK'
  BY <1>0 DEF IInv, TypeOK
<1>2. LockInv'
  BY DEF IInv, TypeOK, LockInv, Idle
<1>3. OpInv'
  BY DEF IInv, TypeOK, OpInv
<1>4. IdInv'
  <2>1. 1..started \subseteq 1..started' /\ started + 1 \notin 1..started
    BY <1>0
  <2>2. \A v \in Writers : op[v].id <= started /\ op[v].id \in Int
    BY DEF IInv, TypeOK, IdInv, Op, Ids
  <2>3. op[w].stage = "idle"
    BY DEF Idle
  <2>4. \A v \in Writers : op'[v] = IF v = w THEN o ELSE op[v]
    BY DEF IInv, TypeOK
  <2>5. \A v \in Writers : op'[v].id <= started'
    BY <1>0, <2>2, <2>4
  <2>6. \A v \in Writers : op'[v].stage # "idle" => op'[v].id > 0
    BY <1>0, <2>4 DEF IInv, IdInv
  <2>7. \A u, v \in Writers : u # v /\ op'[u].stage # "idle" => op'[u].id # op'[v].id
    BY <1>0, <2>2, <2>4 DEF IInv, IdInv
  <2>8. record # None => \A n \in Namespaces :
           record.packages[n] # None => record.packages[n].by \subseteq 1..started
    BY DEF IInv, IdInv
  <2>9. \A v \in Writers, n \in Namespaces :
           /\ record # None /\ record.packages[n] # None
           /\ op'[v].stage # "idle" /\ op'[v].id \in record.packages[n].by
           => op'[v].stage = "leaving"
    BY <2>1, <2>4, <2>8 DEF IInv, IdInv
  <2> QED BY <2>1, <2>5, <2>6, <2>7, <2>8, <2>9 DEF IdInv
<1>5. EntryIsTheOneRead'
  BY DEF IInv, TypeOK, EntryIsTheOneRead, Committing, HomeKinds, PackageKinds
<1>6. SpliceIsCurrent'
  BY DEF IInv, TypeOK, SpliceIsCurrent
<1> QED BY <1>1, <1>2, <1>3, <1>4, <1>5, <1>6 DEF IInv

\* A step on the way: the record stays, and so does which operation it is.
LEMMA MoveOnInv ==
    ASSUME IInv, NEW w \in Writers, NEW o \in Op, o.stage # "idle", op[w].stage # "idle",
           o.kind = op[w].kind, o.ns = op[w].ns, o.id = op[w].id,
           op' = [op EXCEPT ![w] = o], UNCHANGED <<record, started, crashes>>,
           op[w].stage # "leaving"
    PROVE  IdInv'
<1>1. \A v \in Writers : op'[v].id = op[v].id /\ (op'[v].stage = "idle" <=> op[v].stage = "idle")
  BY DEF IInv, TypeOK
<1>2. \A v \in Writers : op[v].stage = "leaving" => op'[v].stage = "leaving"
  BY DEF IInv, TypeOK
<1> QED BY <1>1, <1>2 DEF IInv, IdInv

LEMMA TakePackageLockInv ==
    ASSUME IInv, NEW w \in Writers, TakePackageLock(w)
    PROVE  IInv'
<1> DEFINE o == [op[w] EXCEPT !.stage = IF op[w].kind = "edit" THEN "splicing" ELSE "reading"]
<1> USE DEF TakePackageLock
<1>1. op[w] \in Op /\ o \in Op
  BY DEF IInv, TypeOK, Op, Stages
<1>2. /\ o.kind = op[w].kind /\ o.ns = op[w].ns /\ o.id = op[w].id /\ o.home = op[w].home
      /\ o.stage = IF op[w].kind = "edit" THEN "splicing" ELSE "reading"
  BY <1>1 DEF Op
<1>3. op' = [op EXCEPT ![w] = o]
  OBVIOUS
<1>4. op[w].kind \in PackageKinds /\ op[w].ns \in Namespaces
  BY DEF IInv, OpInv
<1> HIDE DEF o
<1>5. TypeOK'
  BY <1>1, <1>3, <1>4 DEF IInv, TypeOK
<1>6. LockInv'
  BY <1>1, <1>2, <1>3, <1>4 DEF IInv, TypeOK, LockInv
<1>7. OpInv'
  BY <1>1, <1>2, <1>3, <1>4 DEF IInv, TypeOK, OpInv
<1>8. IdInv'
  BY <1>1, <1>2, <1>3, MoveOnInv
<1>9. EntryIsTheOneRead'
  BY <1>1, <1>2, <1>3 DEF IInv, TypeOK, EntryIsTheOneRead, Committing
<1>10. SpliceIsCurrent'
  BY <1>1, <1>2, <1>3 DEF IInv, TypeOK, SpliceIsCurrent
<1> QED BY <1>5, <1>6, <1>7, <1>8, <1>9, <1>10 DEF IInv

LEMMA ReadEntryInv ==
    ASSUME IInv, NEW w \in Writers, ReadEntry(w)
    PROVE  IInv'
<1> DEFINE o == [op[w] EXCEPT !.stage = "splicing", !.home = record.home,
                              !.seen = record.packages[op[w].ns], !.buf = record]
<1>1. CASE Leave(w)
  BY <1>1, LeaveInv DEF ReadEntry, IInv, TypeOK
<1>2. CASE /\ Readable(record) /\ Expected(op[w].kind, record.packages[op[w].ns])
           /\ op' = [op EXCEPT ![w] = o] /\ UNCHANGED <<pkgLock, shortLock>>
  <2>1. op[w].kind \in PackageKinds /\ op[w].ns \in Namespaces /\ op[w].stage = "reading"
    BY DEF ReadEntry, IInv, OpInv
  <2>2. record \in Record /\ record.home \in Homes /\ record.packages[op[w].ns] \in Entry \cup {None}
    BY <1>2, <2>1 DEF IInv, TypeOK, Readable, Record
  <2>3. op[w] \in Op /\ o \in Op
    <3>1. op[w] \in Op
      BY DEF IInv, TypeOK
    <3> QED BY <2>2, <3>1 DEF Op, Stages
  <2>4. /\ o.kind = op[w].kind /\ o.ns = op[w].ns /\ o.id = op[w].id /\ o.stage = "splicing"
        /\ o.home = record.home /\ o.seen = record.packages[op[w].ns]
    BY <2>3 DEF Op
  <2>5. op' = [op EXCEPT ![w] = o] /\ UNCHANGED <<record, pkgLock, shortLock, started, crashes>>
    BY <1>2 DEF ReadEntry
  <2>6. record # None /\ Expected(op[w].kind, record.packages[op[w].ns])
    BY <1>2 DEF Readable
  <2> HIDE DEF o
  <2>7. TypeOK'
    BY <2>3, <2>5 DEF IInv, TypeOK
  <2>8. LockInv'
    BY <2>1, <2>3, <2>4, <2>5 DEF IInv, TypeOK, LockInv
  <2>9. OpInv'
    BY <2>1, <2>3, <2>4, <2>5 DEF IInv, TypeOK, OpInv
  <2>10. IdInv'
    BY <2>1, <2>3, <2>4, <2>5, MoveOnInv
  <2>11. EntryIsTheOneRead'
    BY <2>1, <2>2, <2>3, <2>4, <2>5, <2>6 DEF IInv, TypeOK, EntryIsTheOneRead, Committing
  <2>12. SpliceIsCurrent'
    BY <2>3, <2>4, <2>5 DEF IInv, TypeOK, SpliceIsCurrent
  <2> QED BY <2>7, <2>8, <2>9, <2>10, <2>11, <2>12 DEF IInv
<1> QED BY <1>1, <1>2 DEF ReadEntry

LEMMA TakeShortLockInv ==
    ASSUME IInv, NEW w \in Writers, TakeShortLock(w)
    PROVE  IInv'
<1> DEFINE o == [op[w] EXCEPT !.stage = "rereading"]
<1> USE DEF TakeShortLock
<1>1. op[w] \in Op /\ o \in Op
  BY DEF IInv, TypeOK, Op, Stages
<1>2. /\ o.kind = op[w].kind /\ o.ns = op[w].ns /\ o.id = op[w].id /\ o.home = op[w].home
      /\ o.seen = op[w].seen /\ o.stage = "rereading"
  BY <1>1 DEF Op
<1>3. op' = [op EXCEPT ![w] = o]
  OBVIOUS
<1> HIDE DEF o
<1>5. TypeOK'
  BY <1>1, <1>3 DEF IInv, TypeOK
<1>6. LockInv'
  BY <1>1, <1>2, <1>3 DEF IInv, TypeOK, LockInv
<1>7. OpInv'
  BY <1>1, <1>2, <1>3 DEF IInv, TypeOK, OpInv
<1>8. IdInv'
  BY <1>1, <1>2, <1>3, MoveOnInv
<1>9. EntryIsTheOneRead'
  BY <1>1, <1>2, <1>3 DEF IInv, TypeOK, EntryIsTheOneRead, Committing
<1>10. SpliceIsCurrent'
  BY <1>1, <1>2, <1>3 DEF IInv, TypeOK, SpliceIsCurrent
<1> QED BY <1>5, <1>6, <1>7, <1>8, <1>9, <1>10 DEF IInv

LEMMA RereadInv ==
    ASSUME IInv, NEW w \in Writers, Reread(w)
    PROVE  IInv'
<1> DEFINE o == [op[w] EXCEPT !.stage = "writing", !.buf = record]
<1>1. CASE Leave(w)
  BY <1>1, LeaveInv DEF Reread, IInv, TypeOK
<1>2. CASE ~Refused(op[w]) /\ op' = [op EXCEPT ![w] = o] /\ UNCHANGED <<pkgLock, shortLock>>
  <2>1. op[w].stage = "rereading" /\ UNCHANGED <<record, pkgLock, shortLock, started, crashes>>
    BY <1>2 DEF Reread
  <2>2. op[w] \in Op /\ o \in Op
    <3>1. op[w] \in Op /\ record \in Record \cup {None} /\ "writing" \in Stages
      BY DEF IInv, TypeOK, Stages
    <3> QED
      BY <3>1 DEF Op
  <2>3. /\ o.kind = op[w].kind /\ o.ns = op[w].ns /\ o.id = op[w].id /\ o.home = op[w].home
        /\ o.seen = op[w].seen /\ o.stage = "writing" /\ o.buf = record
    BY <2>2 DEF Op
  <2>4. op' = [op EXCEPT ![w] = o]
    BY <1>2
  <2>5. \/ op[w].kind \in PackageKinds /\ op[w].ns \in Namespaces
        \/ op[w].kind \in HomeKinds /\ op[w].ns = None /\ op[w].home \in Homes
    BY <2>1 DEF IInv, OpInv
  <2>6. op[w].kind \in PackageKinds => record # None
    BY <1>2 DEF Refused, Readable, PackageKinds, HomeKinds
  <2>7. op[w].kind = "edit" => record.packages[op[w].ns] # None
    BY <1>2 DEF Refused, HomeKinds
  <2>8. op[w].kind = "set_home" /\ record # None /\ record.home # NoHome =>
           \A n \in Namespaces : record.packages[n] = None
    BY <1>2 DEF Refused, MayMove, HomeKinds
  <2> HIDE DEF o
  <2>9. TypeOK'
    BY <2>1, <2>2, <2>4 DEF IInv, TypeOK
  <2>10. LockInv'
    BY <2>1, <2>2, <2>3, <2>4 DEF IInv, TypeOK, LockInv
  <2>11. OpInv'
    BY <2>1, <2>2, <2>3, <2>4, <2>5, <2>6, <2>7, <2>8 DEF IInv, TypeOK, OpInv
  <2>12. IdInv'
    BY <2>1, <2>2, <2>3, <2>4, MoveOnInv
  <2>13. EntryIsTheOneRead'
    BY <2>1, <2>2, <2>3, <2>4 DEF IInv, TypeOK, EntryIsTheOneRead, Committing
  <2>14. SpliceIsCurrent'
    BY <2>1, <2>2, <2>3, <2>4 DEF IInv, TypeOK, SpliceIsCurrent
  <2> QED BY <2>9, <2>10, <2>11, <2>12, <2>13, <2>14 DEF IInv
<1> QED BY <1>1, <1>2 DEF Reread

\* What a write of a package's entry leaves, and which abstract operation it is.
LEMMA EntryWritten ==
    ASSUME IInv, NEW w \in Writers, WriteRecord(w), op[w].kind \in PackageKinds
    PROVE  LET o == op[w] IN
           /\ o.ns \in Namespaces /\ record # None /\ record \in Record
           /\ NewEntry(o) \in Entry \cup {None}
           /\ record' = [record EXCEPT !.packages = [@ EXCEPT ![o.ns] = NewEntry(o)]]
           /\ \/ record.packages[o.ns] = None /\ NewEntry(o) # None /\ NewEntry(o).by = {o.id}
              \/ record.packages[o.ns] # None /\ NewEntry(o) = None
              \/ /\ record.packages[o.ns] # None /\ NewEntry(o) # None
                 /\ NewEntry(o).by = record.packages[o.ns].by \cup {o.id}
<1> DEFINE o == op[w]
<1>1. o.stage = "writing"
  BY DEF WriteRecord
<1>2. o \in Op /\ o.id \in Ids
  BY <1>1 DEF IInv, TypeOK, IdInv, Op, Ids
<1>3. o.ns \in Namespaces /\ o.buf = record /\ record # None
  BY <1>1 DEF IInv, OpInv, SpliceIsCurrent, PackageKinds, HomeKinds
<1>4. record \in Record
  BY <1>3 DEF IInv, TypeOK
<1>5. record.packages[o.ns] \in Entry \cup {None}
  BY <1>3, <1>4 DEF Record
<1>6. record' = [record EXCEPT !.packages = [@ EXCEPT ![o.ns] = NewEntry(o)]]
  BY <1>3 DEF WriteRecord, Spliced, PackageKinds, HomeKinds
<1>7. CASE o.kind = "edit"
  <2>1. NewEntry(o) = [record.packages[o.ns] EXCEPT !.by = @ \cup {o.id}]
    BY <1>3, <1>7 DEF NewEntry
  <2>2. record.packages[o.ns] \in Entry
    BY <1>1, <1>3, <1>5, <1>7 DEF IInv, OpInv
  <2>3. NewEntry(o) \in Entry /\ NewEntry(o).by = record.packages[o.ns].by \cup {o.id}
    BY <1>2, <2>1, <2>2 DEF Entry
  <2>4. record.packages[o.ns] # None /\ NewEntry(o) # None
    BY <2>2, <2>3
  <2> QED BY <1>3, <1>4, <1>6, <2>3, <2>4
<1>8. CASE o.kind # "edit"
  <2>1. /\ record.packages[o.ns] = o.seen /\ Expected(o.kind, o.seen) /\ o.home \in Homes
    BY <1>1, <1>8 DEF IInv, EntryIsTheOneRead, Committing, PackageKinds
  <2>2. CASE o.kind = "uninstall"
    <3>1. NewEntry(o) = None /\ o.seen # None
      BY <2>1, <2>2 DEF NewEntry, Expected
    <3> QED BY <1>3, <1>4, <1>6, <2>1, <3>1
  <2>3. CASE o.kind \in {"install", "create"}
    <3>1. NewEntry(o) \in Entry /\ NewEntry(o).by = {o.id} /\ o.seen = None
      BY <1>2, <2>1, <2>3 DEF NewEntry, Expected, Entry
    <3> QED BY <1>3, <1>4, <1>6, <2>1, <3>1
  <2>4. CASE o.kind = "write"
    <3>1. o.seen \in Entry
      BY <1>5, <2>1, <2>4 DEF Expected
    <3>2. NewEntry(o) = [by |-> o.seen.by \cup {o.id}, at |-> o.seen.at \cup {o.home}]
      BY <2>4 DEF NewEntry
    <3>3. NewEntry(o) \in Entry /\ NewEntry(o).by = o.seen.by \cup {o.id}
      BY <1>2, <2>1, <3>1, <3>2 DEF Entry
    <3> QED BY <1>3, <1>4, <1>6, <2>1, <3>1, <3>3
  <2> QED BY <1>8, <2>2, <2>3, <2>4 DEF PackageKinds
<1> QED BY <1>7, <1>8

LEMMA HomeWritten ==
    ASSUME IInv, NEW w \in Writers, WriteRecord(w), op[w].kind \in HomeKinds
    PROVE  /\ record' \in Record
           /\ record # None => record'.packages = record.packages
           /\ record = None => \A n \in Namespaces : record'.packages[n] = None
<1>1. op[w].stage = "writing" /\ record' = Spliced(op[w])
  BY DEF WriteRecord
<1>2. op[w].buf = record /\ op[w].home \in Homes
  BY <1>1 DEF IInv, OpInv, SpliceIsCurrent, PackageKinds, HomeKinds
<1>3. CASE record = None
  BY <1>1, <1>2, <1>3 DEF Spliced, Record
<1>4. CASE record # None
  <2>1. record \in Record
    BY <1>4 DEF IInv, TypeOK
  <2> QED BY <1>1, <1>2, <1>4, <2>1 DEF Spliced, Record
<1> QED BY <1>3, <1>4

LEMMA WriteRecordInv ==
    ASSUME IInv, NEW w \in Writers, WriteRecord(w)
    PROVE  IInv'
<1> DEFINE o == [op[w] EXCEPT !.stage = "leaving"]
<1>1. /\ op[w].stage = "writing" /\ shortLock' = Free /\ op' = [op EXCEPT ![w] = o]
      /\ UNCHANGED <<pkgLock, started, crashes>>
  BY DEF WriteRecord
<1>2. op[w] \in Op /\ o \in Op
  BY DEF IInv, TypeOK, Op, Stages
<1>3. /\ o.kind = op[w].kind /\ o.ns = op[w].ns /\ o.id = op[w].id /\ o.home = op[w].home
      /\ o.stage = "leaving"
  BY <1>2 DEF Op
<1>4. op[w].kind \in PackageKinds \/ op[w].kind \in HomeKinds
  BY <1>1 DEF IInv, OpInv
<1>5. record' \in Record
  <2>1. CASE op[w].kind \in PackageKinds
    BY <2>1, EntryWritten DEF Record
  <2>2. CASE op[w].kind \in HomeKinds
    BY <2>2, HomeWritten
  <2> QED BY <1>4, <2>1, <2>2
<1>6. \A n \in Namespaces : n # op[w].ns /\ record # None => record'.packages[n] = record.packages[n]
  <2>1. CASE op[w].kind \in PackageKinds
    BY <2>1, EntryWritten DEF Record
  <2>2. CASE op[w].kind \in HomeKinds
    BY <2>2, HomeWritten
  <2> QED BY <1>4, <2>1, <2>2
<1> HIDE DEF o
<1>7. \A v \in Writers : op'[v] = IF v = w THEN o ELSE op[v]
  BY <1>1 DEF IInv, TypeOK
<1>8. TypeOK'
  BY <1>1, <1>2, <1>5 DEF IInv, TypeOK
<1>9. LockInv'
  BY <1>1, <1>2, <1>3, <1>7 DEF IInv, TypeOK, LockInv
<1>10. OpInv'
  BY <1>1, <1>3, <1>7 DEF IInv, OpInv
<1>11. record'.packages \in [Namespaces -> Entry \cup {None}]
  BY <1>5 DEF Record
<1>12. EntryIsTheOneRead'
  <2> SUFFICES ASSUME NEW v \in Writers,
                      op'[v].kind \in {"install", "create", "write", "uninstall"},
                      Committing(op'[v])
               PROVE  /\ record' # None
                      /\ record'.packages[op'[v].ns] = op'[v].seen
                      /\ Expected(op'[v].kind, op'[v].seen)
                      /\ op'[v].home \in Homes
    BY DEF EntryIsTheOneRead
  <2>1. v # w /\ op'[v] = op[v]
    BY <1>3, <1>7 DEF Committing
  <2>2. op[v].ns \in Namespaces /\ op[v].stage # "waiting" /\ pkgLock[op[v].ns] = v
    BY <2>1 DEF IInv, OpInv, LockInv, Committing, PackageKinds, HomeKinds
  <2>3. op[v].ns # op[w].ns
    BY <1>1, <2>1, <2>2 DEF IInv, LockInv
  <2>4. /\ record # None /\ record.packages[op[v].ns] = op[v].seen
        /\ Expected(op[v].kind, op[v].seen) /\ op[v].home \in Homes
    BY <2>1 DEF IInv, EntryIsTheOneRead
  <2> QED BY <1>5, <1>6, <2>1, <2>2, <2>3, <2>4
<1>13. SpliceIsCurrent'
  <2>1. \A v \in Writers : v # w => op[v].stage # "writing"
    BY <1>1 DEF IInv, LockInv
  <2> QED BY <1>3, <1>7, <2>1 DEF SpliceIsCurrent
<1>14. \A n \in Namespaces : record'.packages[n] # None =>
          \/ record # None /\ record.packages[n] # None /\ record'.packages[n].by = record.packages[n].by
          \/ record'.packages[n].by = {op[w].id}
          \/ /\ record # None /\ record.packages[n] # None
             /\ record'.packages[n].by = record.packages[n].by \cup {op[w].id}
  <2>1. CASE op[w].kind \in PackageKinds
    BY <2>1, EntryWritten DEF Record
  <2>2. CASE op[w].kind \in HomeKinds
    BY <2>2, HomeWritten
  <2> QED BY <1>4, <2>1, <2>2
<1>15. IdInv'
  <2>1. op[w].id \in 1..started /\ started \in Nat
    BY <1>1, <1>2 DEF IInv, TypeOK, IdInv, Op, Ids
  <2>2. \A n \in Namespaces : record'.packages[n] # None =>
           record'.packages[n].by \subseteq 1..started
    BY <1>14, <2>1 DEF IInv, IdInv
  <2>3. \A v \in Writers : op'[v].id = op[v].id /\ (op'[v].stage = "idle" <=> op[v].stage = "idle")
    BY <1>1, <1>3, <1>7
  <2>4. \A v \in Writers, n \in Namespaces :
           /\ record'.packages[n] # None
           /\ op'[v].stage # "idle"
           /\ op'[v].id \in record'.packages[n].by
           => op'[v].stage = "leaving"
    <3> SUFFICES ASSUME NEW v \in Writers, NEW n \in Namespaces, v # w,
                        record'.packages[n] # None, op[v].stage # "idle",
                        op[v].id \in record'.packages[n].by
                 PROVE  op[v].stage = "leaving"
      BY <1>3, <1>7
    <3>1. op[v].id # op[w].id
      BY DEF IInv, IdInv
    <3>2. record # None /\ record.packages[n] # None /\ op[v].id \in record.packages[n].by
      BY <1>14, <3>1
    <3> QED BY <3>2 DEF IInv, IdInv
  <2> QED BY <1>1, <2>2, <2>3, <2>4 DEF IInv, IdInv
<1> QED BY <1>8, <1>9, <1>10, <1>12, <1>13, <1>15 DEF IInv

LEMMA StepInv == IInv /\ [Next]_vars => IInv'
<1> SUFFICES ASSUME IInv, [Next]_vars PROVE IInv'
  OBVIOUS
<1>0. started \in Nat /\ MaxOps \in Nat
  BY DEF IInv, TypeOK
<1>1. ASSUME NEW w \in Writers, NEW kind \in PackageKinds, NEW n \in Namespaces,
             Start(w, kind, n)
      PROVE  IInv'
  <2> DEFINE o == NewOp(kind, n, None, "waiting")
  <2>1. op' = [op EXCEPT ![w] = o] /\ o.id = started + 1 /\ o.stage = "waiting"
        /\ o.kind = kind /\ o.ns = n
    BY <1>1 DEF Start, NewOp
  <2>2. started + 1 \in Ids
    BY <1>0, <1>1 DEF Start, Ids
  <2>3. o \in Op
    BY <2>2 DEF NewOp, Op, Stages
  <2> HIDE DEF o
  <2> QED BY <1>1, <2>1, <2>3, StartInv DEF Start
<1>2. ASSUME NEW w \in Writers, NEW kind \in HomeKinds, NEW home \in Homes,
             StartHome(w, kind, home)
      PROVE  IInv'
  <2> DEFINE o == NewOp(kind, None, home, "splicing")
  <2>1. op' = [op EXCEPT ![w] = o] /\ o.id = started + 1 /\ o.stage = "splicing"
        /\ o.kind = kind /\ o.ns = None /\ o.home = home
    BY <1>2 DEF StartHome, NewOp
  <2>2. started + 1 \in Ids
    BY <1>0, <1>2 DEF StartHome, Ids
  <2>3. o \in Op
    BY <2>2 DEF NewOp, Op, Stages
  <2> HIDE DEF o
  <2> QED BY <1>2, <2>1, <2>3, StartInv DEF StartHome
<1>3. ASSUME NEW w \in Writers, Finish(w) PROVE IInv'
  BY <1>3, LeaveInv DEF Finish, IInv, TypeOK
<1>4. ASSUME NEW w \in Writers, Abandon(w) PROVE IInv'
  <2>1. crashes' \in 0..MaxCrashes
    BY <1>4 DEF Abandon, IInv, TypeOK
  <2> QED BY <1>4, <2>1, LeaveInv DEF Abandon
<1>5. CASE UNCHANGED vars
  BY <1>5 DEF vars, IInv, TypeOK, LockInv, OpInv, IdInv, EntryIsTheOneRead, SpliceIsCurrent
<1> QED
  BY <1>1, <1>2, <1>3, <1>4, <1>5, TakePackageLockInv, ReadEntryInv, TakeShortLockInv,
     RereadInv, WriteRecordInv
  DEF Next, Step

\* The invariant the results below rest on.
THEOREM InductiveInvariant == Spec => []IInv
BY InitInv, StepInv, PTL DEF Spec

LEMMA OneRead == IInv => EntryIsTheOneRead
BY DEF IInv

\* The entry a writer replaces is the one it read, whatever others write.
THEOREM ReplacesTheEntryRead == Spec => []EntryIsTheOneRead
BY InductiveInvariant, OneRead, PTL

-----------------------------------------------------------------------------
(* The home *)

LEMMA OnlyWriteRecord ==
    ASSUME [Next]_vars, record' # record
    PROVE  \E w \in Writers : WriteRecord(w)
BY DEF Next, Step, vars, Start, StartHome, TakePackageLock, ReadEntry, TakeShortLock, Reread,
       Finish, Abandon

LEMMA HomeStep ==
    ASSUME IInv, [Next]_vars,
           Readable(record), Readable(record'), record'.home # record.home
    PROVE  \/ \A n \in Namespaces : record.packages[n] = None
           \/ \E w \in Writers : op[w].kind = "overwrite_home" /\ op[w].stage = "writing"
<1>1. PICK w \in Writers : WriteRecord(w)
  BY OnlyWriteRecord
<1>2. record \in Record /\ record # None
  BY DEF IInv, TypeOK, Readable
<1>3. op[w].kind \notin PackageKinds
  <2> SUFFICES ASSUME op[w].kind \in PackageKinds PROVE FALSE
    OBVIOUS
  <2>1. record' = [record EXCEPT !.packages = [@ EXCEPT ![op[w].ns] = NewEntry(op[w])]]
    BY <1>1, EntryWritten
  <2> QED BY <1>2, <2>1 DEF Record
<1>4. op[w].stage = "writing" /\ op[w].buf = record
  BY <1>1 DEF WriteRecord, IInv, SpliceIsCurrent
<1>5. op[w].kind \in {"set_home", "overwrite_home"}
  BY <1>3, <1>4 DEF IInv, OpInv, HomeKinds
<1> QED BY <1>2, <1>4, <1>5 DEF IInv, OpInv, Readable

\* A home moves from under an empty domain, or because it was overwritten.
THEOREM HomeMovesOnlyEmpty == Spec => MovesOnlyEmptyHome
<1>1. IInv /\ [Next]_vars =>
      [ /\ Readable(record) /\ Readable(record') /\ record'.home # record.home
        => \/ \A n \in Namespaces : record.packages[n] = None
           \/ \E w \in Writers : op[w].kind = "overwrite_home" /\ op[w].stage = "writing"
      ]_vars
  BY HomeStep
<1> QED BY <1>1, InductiveInvariant, PTL DEF Spec, MovesOnlyEmptyHome

-----------------------------------------------------------------------------
(* Refinement *)

LEMMA InitRefines == Init => Reg!Init
<1> SUFFICES ASSUME Init PROVE Entries \in [Namespaces -> (SUBSET Ids) \cup {None}]
  BY DEF Reg!Init
<1>1. record # None => record.packages \in [Namespaces -> {None, [by |-> {}, at |-> {}]}]
  BY DEF Init
<1>2. ASSUME NEW n \in Namespaces PROVE Entries[n] \in (SUBSET Ids) \cup {None}
  <2>1. CASE record = None
    BY <2>1 DEF Entries
  <2>2. CASE record # None /\ record.packages[n] = None
    BY <2>2 DEF Entries
  <2>3. CASE record # None /\ record.packages[n] = [by |-> {}, at |-> {}]
    <3>1. [by |-> {}, at |-> {}] \in Entry
      BY DEF Entry
    <3>2. record.packages[n] # None
      BY <2>3, <3>1
    <3> QED BY <2>3, <3>2 DEF Entries
  <2> QED BY <1>1, <2>1, <2>2, <2>3
<1> QED BY <1>2 DEF Entries

LEMMA StepRefines == IInv /\ IInv' /\ [Next]_vars => [Reg!Next]_Entries
<1> SUFFICES ASSUME IInv, IInv', [Next]_vars PROVE Reg!Next \/ Entries' = Entries
  OBVIOUS
<1>1. CASE record' = record
  BY <1>1 DEF Entries
<1>2. CASE record' # record
  <2>1. PICK w \in Writers : WriteRecord(w)
    BY <1>2, OnlyWriteRecord
  <2> DEFINE o == op[w]
  <2>2. o.stage = "writing"
    BY <2>1 DEF WriteRecord
  <2>3. CASE o.kind \in HomeKinds
    BY <2>1, <2>3, HomeWritten DEF Entries
  <2>4. CASE o.kind \in PackageKinds
    <3>1. /\ o.ns \in Namespaces /\ record # None /\ record \in Record
          /\ NewEntry(o) \in Entry \cup {None}
          /\ record' = [record EXCEPT !.packages = [@ EXCEPT ![o.ns] = NewEntry(o)]]
          /\ \/ record.packages[o.ns] = None /\ NewEntry(o) # None /\ NewEntry(o).by = {o.id}
             \/ record.packages[o.ns] # None /\ NewEntry(o) = None
             \/ /\ record.packages[o.ns] # None /\ NewEntry(o) # None
                /\ NewEntry(o).by = record.packages[o.ns].by \cup {o.id}
      BY <2>1, <2>4, EntryWritten
    <3>2. o.id \in Ids
      BY <2>2 DEF IInv, TypeOK, IdInv, Op, Ids
    <3>3. record.packages[o.ns] # None => o.id \notin record.packages[o.ns].by
      BY <2>2, <3>1 DEF IInv, IdInv
    <3>4. record' # None /\ record'.packages = [record.packages EXCEPT ![o.ns] = NewEntry(o)]
      BY <3>1, NoneAssumption DEF Record
    <3>5. record.packages \in [Namespaces -> Entry \cup {None}]
      BY <3>1 DEF Record
    <3> HIDE DEF o
    <3>6. Entries' = [Entries EXCEPT ![o.ns] =
                        IF NewEntry(o) = None THEN None ELSE NewEntry(o).by]
      <4>1. \A n \in Namespaces : n # o.ns => record'.packages[n] = record.packages[n]
        BY <3>4, <3>5
      <4>2. record'.packages[o.ns] = NewEntry(o)
        BY <3>1, <3>4, <3>5
      <4>3. \A n \in Namespaces : Entries'[n] =
               IF n = o.ns THEN IF NewEntry(o) = None THEN None ELSE NewEntry(o).by
               ELSE Entries[n]
        BY <3>1, <3>4, <4>1, <4>2 DEF Entries
      <4>4. Entries' = [n \in Namespaces |-> Entries'[n]] /\ Entries = [n \in Namespaces |-> Entries[n]]
        BY DEF Entries
      <4> HIDE DEF Entries
      <4> QED BY <3>1, <4>3, <4>4
    <3>7. Entries[o.ns] = IF record.packages[o.ns] = None THEN None ELSE record.packages[o.ns].by
      BY <3>1 DEF Entries
    <3>8. record.packages[o.ns] # None => record.packages[o.ns].by # None
      BY <3>1, <3>5 DEF Entry
    <3>9. CASE record.packages[o.ns] = None /\ NewEntry(o) # None /\ NewEntry(o).by = {o.id}
      BY <3>1, <3>2, <3>6, <3>7, <3>9 DEF Reg!Next, Reg!Insert
    <3>10. CASE record.packages[o.ns] # None /\ NewEntry(o) = None
      BY <3>1, <3>6, <3>7, <3>8, <3>10 DEF Reg!Next, Reg!Remove
    <3>11. CASE /\ record.packages[o.ns] # None /\ NewEntry(o) # None
                /\ NewEntry(o).by = record.packages[o.ns].by \cup {o.id}
      BY <3>1, <3>2, <3>3, <3>6, <3>7, <3>8, <3>11 DEF Reg!Next, Reg!Save
    <3> QED BY <3>1, <3>9, <3>10, <3>11
  <2> QED BY <2>2, <2>3, <2>4 DEF IInv, OpInv
<1> QED BY <1>1, <1>2

\* No save is lost or applied twice.
THEOREM NoSaveIsLost == Spec => ImplementsRegisters
BY InitRefines, StepRefines, InductiveInvariant, PTL DEF Spec, ImplementsRegisters, Reg!Spec

-----------------------------------------------------------------------------
(* Every operation ends: what WritersFinish rests on but for fairness       *)

LEMMA StepRunsDown ==
  ASSUME IInv, NEW w \in Writers, Step(w) \/ Abandon(w)
  PROVE  /\ \A v \in Writers \ {w} : op'[v] = op[v]
         /\ op[w] # Idle => Rank(op'[w]) < Rank(op[w])
<1>0. op \in [Writers -> Op] /\ op[w] \in Op /\ Rank(Idle) = 0
  BY DEF IInv, TypeOK, Rank, Idle
<1>1. ASSUME Leave(w) PROVE /\ \A v \in Writers \ {w} : op'[v] = op[v]
                            /\ op[w] # Idle => Rank(op'[w]) < Rank(op[w])
  <2>1. op[w] # Idle => op[w].stage \in Stages \ {"idle"}
    BY <1>0 DEF IInv, OpInv, Op
  <2>2. op[w] # Idle => Rank(op[w]) > 0
    BY <2>1 DEF Stages, Rank
  <2>3. op' = [op EXCEPT ![w] = Idle]
    BY <1>1 DEF Leave
  <2> QED
    BY <1>0, <2>2, <2>3
<1>2. CASE TakePackageLock(w)
  <2>1. /\ \A v \in Writers \ {w} : op'[v] = op[v]
        /\ op[w].stage = "waiting" /\ op'[w].stage \in {"splicing", "reading"}
    BY <1>0, <1>2 DEF TakePackageLock, Op
  <2> QED
    BY <2>1 DEF Rank
<1>3. CASE ReadEntry(w) /\ ~Leave(w)
  <2>1. /\ \A v \in Writers \ {w} : op'[v] = op[v]
        /\ op[w].stage = "reading" /\ op'[w].stage = "splicing"
    <3>1. /\ op[w].stage = "reading"
          /\ op' = [op EXCEPT ![w] =
               [op[w] EXCEPT !.stage = "splicing", !.home = record.home,
                             !.seen = record.packages[op[w].ns], !.buf = record]]
      BY <1>3 DEF ReadEntry
    <3>2. op'[w] = [op[w] EXCEPT !.stage = "splicing", !.home = record.home,
                      !.seen = record.packages[op[w].ns], !.buf = record]
      BY <1>0, <3>1
    <3>3. op'[w].stage = "splicing"
      BY <1>0, <3>2 DEF Op
    <3> QED
      BY <1>0, <3>1, <3>3
  <2> QED
    BY <2>1 DEF Rank
<1>4. CASE TakeShortLock(w)
  <2>1. /\ \A v \in Writers \ {w} : op'[v] = op[v]
        /\ op[w].stage = "splicing" /\ op'[w].stage = "rereading"
    BY <1>0, <1>4 DEF TakeShortLock, Op
  <2> QED
    BY <2>1 DEF Rank
<1>5. CASE Reread(w) /\ ~Leave(w)
  <2>1. /\ \A v \in Writers \ {w} : op'[v] = op[v]
        /\ op[w].stage = "rereading" /\ op'[w].stage = "writing"
    <3>1. /\ op[w].stage = "rereading"
          /\ op' = [op EXCEPT ![w] = [op[w] EXCEPT !.stage = "writing", !.buf = record]]
      BY <1>5 DEF Reread
    <3>2. op'[w] = [op[w] EXCEPT !.stage = "writing", !.buf = record]
      BY <1>0, <3>1
    <3>3. op'[w].stage = "writing"
      BY <1>0, <3>2 DEF Op
    <3> QED
      BY <1>0, <3>1, <3>3
  <2> QED
    BY <2>1 DEF Rank
<1>6. CASE WriteRecord(w)
  <2>1. /\ \A v \in Writers \ {w} : op'[v] = op[v]
        /\ op[w].stage = "writing" /\ op'[w].stage = "leaving"
    BY <1>0, <1>6 DEF WriteRecord, Op
  <2> QED
    BY <2>1 DEF Rank
<1>7. CASE Finish(w) \/ Abandon(w)
  BY <1>1, <1>7 DEF Finish, Abandon
<1> QED
  BY <1>1, <1>2, <1>3, <1>4, <1>5, <1>6, <1>7 DEF Step

\* No operation begun is given more steps by anything.
THEOREM EveryWriterRunsDown == Spec => WritersRunDown
<1> DEFINE Down == \A w \in Writers :
              op[w] # Idle /\ op'[w] # op[w] => Rank(op'[w]) < Rank(op[w])
<1>1. IInv /\ [Next]_vars => [Down]_vars
  <2> SUFFICES ASSUME IInv, Next, NEW w \in Writers, op[w] # Idle, op'[w] # op[w]
               PROVE  Rank(op'[w]) < Rank(op[w])
    OBVIOUS
  <2>1. ASSUME NEW v \in Writers, Step(v) \/ Abandon(v)
        PROVE  Rank(op'[w]) < Rank(op[w])
    BY <2>1, StepRunsDown
  <2>2. ASSUME NEW v \in Writers, op[v] = Idle, NEW o, op' = [op EXCEPT ![v] = o]
        PROVE  FALSE
    BY <2>2 DEF IInv, TypeOK
  <2>3. \A v \in Writers, kind \in PackageKinds, n \in Namespaces : ~Start(v, kind, n)
    BY <2>2 DEF Start
  <2>4. \A v \in Writers, kind \in HomeKinds, home \in Homes : ~StartHome(v, kind, home)
    BY <2>2 DEF StartHome
  <2> QED
    BY <2>1, <2>3, <2>4 DEF Next
<1> QED
  BY <1>1, InductiveInvariant, PTL DEF Spec, WritersRunDown

\* Nobody waits in a circle: who has the short lock waits for nothing, and who
\* has a package's lock waits for the short lock at most.
THEOREM NobodyWaitsInACircle == Spec => []SomeWriterGoesOn
<1>1. IInv => SomeWriterGoesOn
  <2> SUFFICES ASSUME IInv, NEW w \in Writers, op[w] # Idle
               PROVE  \E v \in Writers : op[v] # Idle /\ ~Blocked(v)
    BY DEF SomeWriterGoesOn
  <2>1. ASSUME NEW v \in Writers, op[v].stage = "splicing", Blocked(v)
        PROVE  \E u \in Writers : op[u] # Idle /\ ~Blocked(u)
    <3>1. shortLock \in Writers /\ op[shortLock].stage \in {"rereading", "writing"}
      BY <2>1 DEF Blocked, IInv, TypeOK, LockInv
    <3> QED
      BY <3>1 DEF Blocked, Idle
  <2>2. ASSUME op[w].stage = "waiting", Blocked(w)
        PROVE  \E u \in Writers : op[u] # Idle /\ ~Blocked(u)
    <3> DEFINE n == op[w].ns
               h == pkgLock[n]
    <3>1. n \in Namespaces /\ h \in Writers
      BY <2>2 DEF Blocked, IInv, TypeOK, OpInv
    <3>2. op[h].ns = n /\ op[h].stage # "waiting"
      BY <3>1 DEF IInv, LockInv
    <3>3. op[h] # Idle
      BY <3>1, <3>2 DEF Idle
    <3>4. CASE op[h].stage = "splicing" /\ Blocked(h)
      BY <2>1, <3>1, <3>4
    <3>5. CASE ~Blocked(h)
      BY <3>1, <3>3, <3>5
    <3> QED
      BY <3>2, <3>4, <3>5 DEF Blocked
  <2> QED
    BY <2>1, <2>2 DEF Blocked
<1> QED
  BY <1>1, InductiveInvariant, PTL

=============================================================================
