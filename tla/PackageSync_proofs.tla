------------------------ MODULE PackageSync_proofs ------------------------
(***************************************************************************)
(* Proofs about a package shared by several copies, PackageSync, and about *)
(* the lock its operations run under, PathLock, for any copies, revisions, *)
(* tasks, processes and bounds.  EntriesSound of PackageSync is inductive: type    *)
(* correctness, the soundness of every hash and the writer invariants of   *)
(* the lineage follow from it.  So is LayersInv of PathLock.               *)
(***************************************************************************)
EXTENDS PackageSync, PathLock, SequenceTheorems, TLAPS

-----------------------------------------------------------------------------
(* Entries *)

LEMMA CommittedEntry ==
    ASSUME NEW e \in Entry, NEW r \in Revisions
    PROVE  /\ Committed(e, r) \in Entry
           /\ Pending(Committed(e, r))
           /\ Head(Committed(e, r).chain) = r
           /\ Tail(Committed(e, r).chain) = e.chain
           /\ Committed(e, r).remote = e.remote
           /\ Committed(e, r).base = e.base
           /\ Committed(e, r).latest = e.latest
<1>1. e.chain \in Seq(Revisions) /\ <<r>> \in Seq(Revisions)  BY DEF Entry
<1>2. <<r>> \o e.chain \in Seq(Revisions)  BY <1>1, ConcatProperties
<1>3. <<r>> \o e.chain # <<>> /\ Head(<<r>> \o e.chain) = r
  BY <1>1
<1>4. Tail(<<r>> \o e.chain) = e.chain  BY <1>1
<1> QED  BY <1>2, <1>3, <1>4 DEF Committed, Entry, Pending

LEMMA TailOfLonger ==
    ASSUME NEW S, NEW s \in Seq(S), Len(s) > 1
    PROVE  Tail(s) \in Seq(S) /\ Tail(s) # <<>> /\ Head(Tail(s)) = s[2]
<1>1. Tail(s) \in Seq(S) /\ Len(Tail(s)) = Len(s) - 1 /\ Len(s) \in Nat
  BY HeadTailProperties
<1>2. Tail(s) # <<>>
  <2>1. Len(Tail(s)) # 0 /\ Len(<<>>) = 0  BY <1>1
  <2> QED  BY <2>1, Zenon
<1>3. Head(Tail(s)) = s[2]  BY <1>1
<1> QED  BY <1>1, <1>2, <1>3

-----------------------------------------------------------------------------
(* The two shapes of a step.  A step that saves an entry, or drops it, and  *)
(* one that starts or moves an operation; uploads only add manifests.       *)

LEMMA SaveStep ==
    ASSUME EntriesSound, NEW c \in Clients, ~Running(c),
           NEW e \in Entry \cup {NotInstalled},
           e # NotInstalled => FirstPushShape(e) /\ PointsAtUploaded(e),
           Save(c, e), UNCHANGED <<manifests, latest, op, faults>>
    PROVE  EntriesSound'
<1>1. TypeOK'  BY DEF EntriesSound, TypeOK, Save
<1>2. \A d \in Clients : lineage'[d] = IF d = c THEN e ELSE lineage[d]
  BY DEF EntriesSound, TypeOK, Save
<1>3. NoDanglingPointer' /\ WriterInvariants'
  BY <1>2 DEF EntriesSound, NoDanglingPointer, WriterInvariants, Installed, PointsAtUploaded, Uploaded,
              FirstPushShape, Pending
<1>4. \A d \in Clients : InFlightOK(op[d])' /\ (Running(d) => Installed(d))'
  BY <1>2 DEF EntriesSound, InFlightOK, Running, Installed, PointsAtUploaded, Uploaded, FirstPushShape, Pending
<1> QED  BY <1>1, <1>3, <1>4 DEF EntriesSound

LEMMA OperationStep ==
    ASSUME EntriesSound, NEW c \in Clients, Installed(c),
           NEW o \in Op, op' = [op EXCEPT ![c] = o],
           manifests \subseteq manifests', manifests' \subseteq Revisions,
           latest' \in manifests' \cup {NoHash}, faults' \in 0..MaxFaults,
           InFlightOK(op[c])',
           UNCHANGED lineage
    PROVE  EntriesSound'
<1>1. TypeOK'  BY DEF EntriesSound, TypeOK
<1>2. \A d \in Clients : op'[d] = IF d = c THEN o ELSE op[d]
  BY DEF EntriesSound, TypeOK
<1>3. NoDanglingPointer' /\ WriterInvariants'
  BY DEF EntriesSound, NoDanglingPointer, WriterInvariants, Installed, PointsAtUploaded, Uploaded,
         FirstPushShape, Pending
<1>4. ASSUME NEW d \in Clients, d # c
      PROVE  InFlightOK(op[d])' /\ (Running(d) => Installed(d))'
  BY <1>2, <1>4 DEF EntriesSound, InFlightOK, Running, Installed, PointsAtUploaded, Uploaded,
                    FirstPushShape, Pending
<1>5. InFlightOK(op[c])' /\ (Running(c) => Installed(c))'
  BY DEF Installed
<1>6. \A d \in Clients : InFlightOK(op[d])' /\ (Running(d) => Installed(d))'
  BY <1>4, <1>5
<1> QED  BY <1>1, <1>3, <1>6 DEF EntriesSound

-----------------------------------------------------------------------------
(* The steps *)

LEMMA InitSound == Init => EntriesSound
<1> SUFFICES ASSUME Init PROVE EntriesSound  OBVIOUS
<1>1. TypeOK  BY ConstantsAssumption DEF Init, TypeOK, Op
<1>2. NoDanglingPointer /\ WriterInvariants
  BY DEF Init, NoDanglingPointer, WriterInvariants, Installed, Uploaded
<1>3. \A c \in Clients : InFlightOK(op[c]) /\ (Running(c) => Installed(c))
  BY DEF Init, InFlightOK, Running, Idle
<1> QED  BY <1>1, <1>2, <1>3 DEF EntriesSound

\* What an installed copy's entry is worth at any moment.
LEMMA SavedEntry ==
    ASSUME EntriesSound, NEW c \in Clients, Installed(c)
    PROVE  /\ lineage[c] \in Entry
           /\ FirstPushShape(lineage[c])
           /\ PointsAtUploaded(lineage[c])
  BY DEF EntriesSound, TypeOK, Installed, WriterInvariants, NoDanglingPointer

LEMMA LocalStepSound ==
    ASSUME EntriesSound, NEW c \in Clients, LocalStep(c)
    PROVE  EntriesSound'
<1>1. ASSUME NEW r \in Revisions, Create(c, r) PROVE EntriesSound'
  <2> DEFINE e == [remote |-> NoRemote, base |-> NoHash, latest |-> NoHash, chain |-> <<r>>]
  <2>1. <<r>> \in Seq(Revisions) /\ <<r>> # <<>>  OBVIOUS
  <2>2. e \in Entry /\ FirstPushShape(e) /\ PointsAtUploaded(e)
    BY <2>1 DEF Entry, FirstPushShape, PointsAtUploaded, Uploaded, Pending
  <2> HIDE DEF e
  <2>3. Save(c, e)  BY <1>1 DEF Create, e
  <2> QED  BY <1>1, <2>2, <2>3, SaveStep DEF Create
<1>2. ASSUME NEW r \in Revisions, InstallPackage(c, r) PROVE EntriesSound'
  <2> DEFINE e == [remote |-> r, base |-> r, latest |-> latest, chain |-> <<>>]
  <2>1. e \in Entry /\ FirstPushShape(e) /\ PointsAtUploaded(e)
    BY <1>2, ConstantsAssumption
       DEF InstallPackage, EntriesSound, TypeOK, NoDanglingPointer, Entry, FirstPushShape,
           PointsAtUploaded, Uploaded, Pending
  <2> HIDE DEF e
  <2>2. Save(c, e)  BY <1>2 DEF InstallPackage, e
  <2> QED  BY <1>2, <2>1, <2>2, SaveStep DEF InstallPackage
<1>3. ASSUME UninstallPackage(c) PROVE EntriesSound'
  BY <1>3, SaveStep DEF UninstallPackage, Ready
<1>4. ASSUME NEW r \in Revisions, Commit(c, r) PROVE EntriesSound'
  <2>1. Ready(c) /\ Save(c, Committed(lineage[c], r))  BY <1>4 DEF Commit
  <2>2. lineage[c] \in Entry /\ FirstPushShape(lineage[c]) /\ PointsAtUploaded(lineage[c])
    BY <2>1, SavedEntry DEF Ready
  <2>3. /\ Committed(lineage[c], r) \in Entry
        /\ FirstPushShape(Committed(lineage[c], r))
        /\ PointsAtUploaded(Committed(lineage[c], r))
    BY <2>2, CommittedEntry DEF FirstPushShape, PointsAtUploaded
  <2> QED  BY <1>4, <2>1, <2>3, SaveStep DEF Commit, Ready
<1>5. ASSUME UndoCommit(c) PROVE EntriesSound'
  <2> DEFINE e == [lineage[c] EXCEPT !.chain = Tail(@)]
  <2>1. lineage[c] \in Entry /\ FirstPushShape(lineage[c]) /\ PointsAtUploaded(lineage[c])
    BY <1>5, SavedEntry DEF UndoCommit, Ready
  <2>2. Tail(lineage[c].chain) \in Seq(Revisions) /\ Tail(lineage[c].chain) # <<>>
    <3>1. lineage[c].chain \in Seq(Revisions)  BY <2>1 DEF Entry
    <3>2. Len(lineage[c].chain) > 1  BY <1>5 DEF UndoCommit
    <3> QED  BY <3>1, <3>2, TailOfLonger
  <2>3. e \in Entry /\ FirstPushShape(e) /\ PointsAtUploaded(e)
    BY <2>1, <2>2 DEF Entry, FirstPushShape, PointsAtUploaded, Pending
  <2> HIDE DEF e
  <2>4. Save(c, e)  BY <1>5 DEF UndoCommit, e
  <2> QED  BY <1>5, <2>3, <2>4, SaveStep DEF UndoCommit, Ready
<1>6. ASSUME CanSetRemote(c) PROVE
        LET e == [lineage[c] EXCEPT !.remote = NoHash]
        IN  e \in Entry /\ FirstPushShape(e) /\ PointsAtUploaded(e)
  <2>1. lineage[c] \in Entry /\ FirstPushShape(lineage[c]) /\ PointsAtUploaded(lineage[c])
    BY <1>6, SavedEntry DEF CanSetRemote, Ready
  <2> QED  BY <1>6, <2>1 DEF CanSetRemote, Entry, FirstPushShape, PointsAtUploaded, Uploaded, Pending
<1>7. ASSUME NEW r \in Revisions, SetRemoteRecommit(c, r) PROVE EntriesSound'
  <2> DEFINE e == [lineage[c] EXCEPT !.remote = NoHash]
  <2>1. Ready(c) /\ Save(c, Committed(e, r))  BY <1>7 DEF SetRemoteRecommit, CanSetRemote
  <2>2. e \in Entry /\ FirstPushShape(e) /\ PointsAtUploaded(e)
    BY <1>6, <1>7 DEF SetRemoteRecommit
  <2> HIDE DEF e
  <2>3. /\ Committed(e, r) \in Entry
        /\ FirstPushShape(Committed(e, r))
        /\ PointsAtUploaded(Committed(e, r))
    BY <2>2, CommittedEntry DEF FirstPushShape, PointsAtUploaded
  <2> QED  BY <1>7, <2>1, <2>3, SaveStep DEF SetRemoteRecommit, Ready
<1>8. ASSUME SetRemoteOnly(c) PROVE EntriesSound'
  <2> DEFINE e == [lineage[c] EXCEPT !.remote = NoHash]
  <2>1. Ready(c) /\ Save(c, e)  BY <1>8 DEF SetRemoteOnly, CanSetRemote
  <2>2. e \in Entry /\ FirstPushShape(e) /\ PointsAtUploaded(e)
    BY <1>6, <1>8 DEF SetRemoteOnly
  <2> HIDE DEF e
  <2> QED  BY <1>8, <2>1, <2>2, SaveStep DEF SetRemoteOnly, Ready
<1> QED
  BY <1>1, <1>2, <1>3, <1>4, <1>5, <1>7, <1>8 DEF LocalStep

LEMMA PublishStepSound ==
    ASSUME EntriesSound, NEW c \in Clients, PublishStep(c)
    PROVE  EntriesSound'
<1> DEFINE New(kind, to, e) == [kind |-> kind, at |-> to, lin |-> e, pushing |-> <<>>]
<1>a. /\ manifests \subseteq Revisions /\ latest \in manifests \cup {NoHash}
      /\ faults \in 0..MaxFaults /\ op \in [Clients -> Op]
  BY ConstantsAssumption DEF EntriesSound, TypeOK, NoDanglingPointer, Uploaded
<1>b. ASSUME Publishable(c)
      PROVE  /\ lineage[c] \in Entry /\ lineage[c].remote # NoRemote
             /\ FirstPushShape(lineage[c]) /\ PointsAtUploaded(lineage[c])
             /\ Installed(c) /\ ~Running(c)
  BY <1>b, SavedEntry DEF Publishable, Ready
\* The start of an upload: of the pending commit, or of a new one.
<1>c. ASSUME Publishable(c), NEW e \in Entry, Pending(e), e.remote # NoRemote,
             FirstPushShape(e), PointsAtUploaded(e),
             NEW kind \in {"push", "publish", "certify"},
             Begin(c, kind, "upload", e), UNCHANGED <<manifests, latest, lineage, faults>>
      PROVE  EntriesSound'
  <2>1. New(kind, "upload", e) \in Op  BY <1>c DEF Op
  <2>2. op' = [op EXCEPT ![c] = New(kind, "upload", e)]  BY <1>c DEF Begin
  <2>3. InFlightOK(op[c])'
    BY <1>a, <1>c, <2>2 DEF InFlightOK, FirstPushShape, PointsAtUploaded, Uploaded, Pending
  <2> HIDE DEF New
  <2> QED  BY <1>a, <1>b, <1>c, <2>1, <2>2, <2>3, OperationStep
<1>1. ASSUME StartPush(c) \/ StartPublishPending(c) PROVE EntriesSound'
  BY <1>1, <1>b, <1>c DEF StartPush, StartPublishPending
<1>2. ASSUME NEW r \in Revisions, StartPublish(c, r) PROVE EntriesSound'
  <2>1. Publishable(c) /\ Begin(c, "publish", "upload", Committed(lineage[c], r))
    BY <1>2 DEF StartPublish
  <2>2. /\ Committed(lineage[c], r) \in Entry
        /\ Pending(Committed(lineage[c], r))
        /\ Committed(lineage[c], r).remote # NoRemote
        /\ FirstPushShape(Committed(lineage[c], r))
        /\ PointsAtUploaded(Committed(lineage[c], r))
    BY <1>b, <2>1, CommittedEntry DEF FirstPushShape, PointsAtUploaded
  <2> QED  BY <1>2, <1>c, <2>1, <2>2 DEF StartPublish
<1>3. ASSUME StartCertify(c) PROVE EntriesSound'
  <2>1. CASE Pending(lineage[c])  BY <1>3, <1>b, <1>c, <2>1 DEF StartCertify
  <2>2. CASE ~Pending(lineage[c])
    <3>1. Publishable(c) /\ op' = [op EXCEPT ![c] = New("promote", "tag", lineage[c])]
      BY <1>3, <2>2 DEF StartCertify, Begin
    <3>2. lineage[c].remote \in Revisions /\ lineage[c].base # NoHash
      BY <1>b, <2>2, <3>1 DEF Entry, FirstPushShape
    <3>3. New("promote", "tag", lineage[c]) \in Op  BY <1>b, <3>1, <3>2 DEF Op, Kinds
    <3>4. InFlightOK(op[c])'
      BY <1>3, <1>a, <1>b, <3>1, <3>2 DEF StartCertify, InFlightOK, PointsAtUploaded, Uploaded
    <3> HIDE DEF New
    <3> QED  BY <1>3, <1>a, <1>b, <3>1, <3>3, <3>4, OperationStep DEF StartCertify
  <2> QED  BY <2>1, <2>2
\* The steps of a started operation; o is what the step makes of it.
<1>d. ASSUME Running(c) PROVE Installed(c) /\ op[c] \in Op /\ InFlightOK(op[c])
  BY <1>a, <1>d DEF EntriesSound
<1>4. ASSUME UploadManifest(c) PROVE EntriesSound'
  <2> DEFINE o == [op[c] EXCEPT !.at = "resolve", !.lin = op[c].lin]
  <2>1. op[c].at = "upload" /\ Running(c)  BY <1>4 DEF UploadManifest, Running
  <2>2. /\ op[c].kind \in {"push", "publish", "certify"} /\ op[c].pushing = <<>>
        /\ op[c].lin \in Entry /\ Pending(op[c].lin) /\ op[c].lin.remote # NoRemote
        /\ op[c] = [kind |-> op[c].kind, at |-> op[c].at, lin |-> op[c].lin, pushing |-> op[c].pushing]
    BY <1>d, <2>1 DEF Op, Idle
  <2>3. Head(op[c].lin.chain) \in Revisions  BY <2>2 DEF Entry, Pending
  <2>4. op' = [op EXCEPT ![c] = o]  BY <1>4, <1>a, <2>2 DEF UploadManifest, Advance
  <2>5. o \in Op  BY <2>2 DEF Op
  <2>6. InFlightOK(op[c])'
    BY <1>4, <1>a, <1>d, <2>1, <2>2, <2>4 DEF UploadManifest, InFlightOK, FirstPushShape, PointsAtUploaded, Uploaded, Pending
  <2> HIDE DEF o
  <2> QED  BY <1>4, <1>a, <1>d, <2>1, <2>3, <2>4, <2>5, <2>6, OperationStep DEF UploadManifest
<1>5. ASSUME NEW r \in Revisions, UploadRehashed(c, r) PROVE EntriesSound'
  <2>1. Running(c) /\ op' = [op EXCEPT ![c] = Idle]  BY <1>5 DEF UploadRehashed, Running
  <2>2. faults' \in 0..MaxFaults
    BY <1>5, <1>a, ConstantsAssumption DEF UploadRehashed
  <2>3. Idle \in Op /\ InFlightOK(op[c])'  BY <1>a, <2>1 DEF Op, Idle, InFlightOK
  <2> QED  BY <1>5, <1>a, <1>d, <2>1, <2>2, <2>3, OperationStep DEF UploadRehashed
<1>6. ASSUME ResolveLatest(c) PROVE EntriesSound'
  <2> DEFINE e == op[c].lin
             to == IF MayCertify(e, latest) THEN "tag" ELSE "save"
             f == Pushed(e, latest)
             o == [op[c] EXCEPT !.at = to, !.lin = f, !.pushing = e.chain]
  <2>1. op[c].at = "resolve" /\ Running(c)  BY <1>6 DEF ResolveLatest, Running
  <2>2. /\ op[c].kind \in {"push", "publish", "certify"} /\ e \in Entry /\ Pending(e)
        /\ op[c] = [kind |-> op[c].kind, at |-> op[c].at, lin |-> op[c].lin, pushing |-> op[c].pushing]
    BY <1>d, <2>1 DEF Op, Idle
  <2>3. Head(e.chain) \in manifests /\ PointsAtUploaded(e)  BY <1>d, <2>1 DEF InFlightOK
  <2>4. f \in Entry /\ f.remote \in Revisions /\ f.base # NoHash /\ PointsAtUploaded(f)
    BY <1>a, <2>2, <2>3, ConstantsAssumption DEF Pushed, Entry, PointsAtUploaded, Uploaded
  <2>5. op' = [op EXCEPT ![c] = o]  BY <1>6 DEF ResolveLatest
  <2>6. o \in Op  BY <2>2, <2>4 DEF Op, Kinds, Entry
  <2>7. InFlightOK(op[c])'
    BY <1>6, <1>a, <2>4, <2>5 DEF ResolveLatest, InFlightOK, PointsAtUploaded, Uploaded
  <2> HIDE DEF o
  <2> QED  BY <1>6, <1>a, <1>d, <2>1, <2>5, <2>6, <2>7, OperationStep DEF ResolveLatest
<1>7. ASSUME TagLatest(c) PROVE EntriesSound'
  <2> DEFINE e == op[c].lin
             f == [e EXCEPT !.base = e.remote, !.latest = e.remote]
             o == [op[c] EXCEPT !.at = "save", !.lin = f]
  <2>1. op[c].at = "tag" /\ Running(c)  BY <1>7 DEF TagLatest, Running
  <2>2. /\ op[c].kind \in Kinds /\ e \in Entry /\ e.remote \in Revisions
        /\ op[c].pushing \in Seq(Revisions)
        /\ op[c] = [kind |-> op[c].kind, at |-> op[c].at, lin |-> op[c].lin, pushing |-> op[c].pushing]
    BY <1>d, <2>1 DEF Op, Idle
  <2>3. e.remote \in manifests
    BY <1>d, <2>1, <2>2, ConstantsAssumption DEF InFlightOK, PointsAtUploaded, Uploaded
  <2>4. /\ f \in Entry /\ f.remote = e.remote
        /\ f.base = e.remote /\ f.latest = e.remote
    BY <2>2 DEF Entry
  <2>5. f.base # NoHash /\ PointsAtUploaded(f)
    BY <2>2, <2>3, <2>4, ConstantsAssumption DEF PointsAtUploaded, Uploaded
  <2>6. op' = [op EXCEPT ![c] = o]  BY <1>7 DEF TagLatest, Advance
  <2>7. o \in Op  BY <2>2, <2>4 DEF Op
  <2>8. InFlightOK(op[c])'
    BY <1>7, <1>a, <2>3, <2>4, <2>5, <2>6 DEF TagLatest, InFlightOK, PointsAtUploaded, Uploaded
  <2> HIDE DEF o
  <2> QED  BY <1>7, <1>a, <1>d, <2>1, <2>3, <2>6, <2>7, <2>8, OperationStep DEF TagLatest
<1> QED
  BY <1>1, <1>2, <1>3, <1>4, <1>5, <1>6, <1>7 DEF PublishStep

LEMMA FetchStepSound ==
    ASSUME EntriesSound, NEW c \in Clients, FetchStep(c)
    PROVE  EntriesSound'
<1> DEFINE New(kind, e) == [kind |-> kind, at |-> "save", lin |-> e, pushing |-> <<>>]
<1>1. /\ CanFetch(c) /\ latest \in manifests /\ latest \in Revisions
      /\ lineage[c] \in Entry /\ FirstPushShape(lineage[c]) /\ PointsAtUploaded(lineage[c])
      /\ Installed(c) /\ ~Running(c) /\ UNCHANGED <<manifests, latest, lineage, faults>>
  BY SavedEntry, ConstantsAssumption
     DEF FetchStep, PullUpToDate, Pull, Reset, CanFetch, Ready, EntriesSound, TypeOK, NoDanglingPointer, Uploaded
<1>2. /\ Moved(latest) \in Entry /\ Moved(latest).remote \in Revisions
      /\ Moved(latest).base # NoHash /\ PointsAtUploaded(Moved(latest))
  BY <1>1, ConstantsAssumption DEF Moved, Entry, PointsAtUploaded, Uploaded
<1>3. PICK kind \in {"pull", "reset"}, e \in Entry :
        /\ op' = [op EXCEPT ![c] = New(kind, e)]
        /\ e.remote \in Revisions /\ e.base # NoHash /\ PointsAtUploaded(e)
  <2>1. CASE PullUpToDate(c)
    <3> DEFINE e == [lineage[c] EXCEPT !.latest = latest]
    <3>1. /\ e \in Entry /\ e.remote = lineage[c].remote /\ e.base = lineage[c].base
          /\ e.latest = latest
      BY <1>1 DEF Entry
    <3>2. latest = lineage[c].base /\ latest # NoHash
      BY <1>1, <2>1, ConstantsAssumption DEF PullUpToDate
    <3>3. e.remote \in Revisions /\ e.base # NoHash /\ PointsAtUploaded(e)
      BY <1>1, <3>1, <3>2 DEF Entry, FirstPushShape, PointsAtUploaded, Uploaded
    <3>4. op' = [op EXCEPT ![c] = New("pull", e)]  BY <2>1 DEF PullUpToDate, Begin
    <3> HIDE DEF e
    <3> QED  BY <3>1, <3>3, <3>4
  <2>2. CASE Pull(c)
    <3>1. op' = [op EXCEPT ![c] = New("pull", Moved(latest))]  BY <2>2 DEF Pull, Begin
    <3> QED  BY <1>2, <3>1
  <2>3. CASE Reset(c)
    <3>1. CASE latest = lineage[c].remote /\ ~Pending(lineage[c])
      <4>1. op' = [op EXCEPT ![c] = New("reset", lineage[c])]  BY <2>3, <3>1 DEF Reset, Begin
      <4>2. lineage[c].remote \in Revisions /\ lineage[c].base # NoHash
        BY <1>1, <3>1, ConstantsAssumption DEF Entry, FirstPushShape
      <4> QED  BY <1>1, <4>1, <4>2
    <3>2. CASE ~(latest = lineage[c].remote /\ ~Pending(lineage[c]))
      <4>1. op' = [op EXCEPT ![c] = New("reset", Moved(latest))]  BY <2>3, <3>2 DEF Reset, Begin
      <4> QED  BY <1>2, <4>1
    <3> QED  BY <3>1, <3>2
  <2> QED  BY <2>1, <2>2, <2>3 DEF FetchStep
<1>4. New(kind, e) \in Op  BY <1>3 DEF Op, Kinds
<1>5. InFlightOK(op[c])'  BY <1>1, <1>3 DEF EntriesSound, TypeOK, InFlightOK, PointsAtUploaded, Uploaded
<1>6. /\ manifests' \subseteq Revisions /\ manifests \subseteq manifests'
      /\ latest' \in manifests' \cup {NoHash} /\ faults' \in 0..MaxFaults
  BY <1>1 DEF EntriesSound, TypeOK
<1> HIDE DEF New
<1> QED  BY <1>1, <1>3, <1>4, <1>5, <1>6, OperationStep

LEMMA EndStepSound ==
    ASSUME EntriesSound, NEW c \in Clients, SaveLineage(c) \/ Fail(c)
    PROVE  EntriesSound'
<1>a. /\ manifests \subseteq Revisions /\ latest \in manifests \cup {NoHash}
      /\ faults \in 0..MaxFaults /\ op \in [Clients -> Op]
  BY ConstantsAssumption DEF EntriesSound, TypeOK, NoDanglingPointer, Uploaded
<1>b. Running(c) /\ Installed(c) /\ op[c] \in Op /\ InFlightOK(op[c])
  BY <1>a DEF EntriesSound, SaveLineage, Fail, Running
<1>c. Idle \in Op  BY DEF Op
<1>1. CASE Fail(c)
  <2>1. faults' \in 0..MaxFaults  BY <1>1, <1>a, ConstantsAssumption DEF Fail
  <2>2. InFlightOK(op[c])'  BY <1>1, <1>a DEF Fail, Idle, InFlightOK
  <2> QED  BY <1>1, <1>a, <1>b, <1>c, <2>1, <2>2, OperationStep DEF Fail
<1>2. CASE SaveLineage(c)
  <2> DEFINE e == op[c].lin
             o == IF op[c].kind = "certify"
                  THEN [kind |-> "promote", at |-> "tag", lin |-> e, pushing |-> <<>>] ELSE Idle
  <2>1. op[c].at = "save" /\ UNCHANGED <<manifests, latest, faults>>  BY <1>2 DEF SaveLineage
  <2>2. e \in Entry /\ e.remote \in Revisions  BY <1>b, <2>1 DEF Op, Idle
  <2>3. e.base # NoHash /\ PointsAtUploaded(e)  BY <1>b, <2>1 DEF InFlightOK
  <2>4. FirstPushShape(e)  BY <2>2, <2>3, ConstantsAssumption DEF FirstPushShape
  <2>5. op' = [op EXCEPT ![c] = o]  BY <1>2 DEF SaveLineage, Begin
  <2>6. o \in Op  BY <1>c, <2>2 DEF Op, Kinds
  <2>7. InFlightOK(op[c])'
    BY <1>a, <2>1, <2>3, <2>5 DEF InFlightOK, PointsAtUploaded, Uploaded, Idle
  <2>8. \A d \in Clients : lineage'[d] = IF d = c THEN e ELSE lineage[d]
    BY <1>2 DEF SaveLineage, Save, EntriesSound, TypeOK
  <2>9. TypeOK'
    <3>1. lineage' \in [Clients -> Entry \cup {NotInstalled}]
      BY <1>2, <2>2 DEF SaveLineage, Save, EntriesSound, TypeOK
    <3> HIDE DEF o
    <3> QED  BY <1>a, <2>1, <2>5, <2>6, <3>1 DEF EntriesSound, TypeOK
  <2>10. NoDanglingPointer' /\ WriterInvariants'
    BY <2>1, <2>3, <2>4, <2>8
       DEF EntriesSound, NoDanglingPointer, WriterInvariants, Installed, PointsAtUploaded, Uploaded,
           FirstPushShape, Pending
  <2>11. ASSUME NEW d \in Clients PROVE InFlightOK(op[d])' /\ (Running(d) => Installed(d))'
    <3>1. CASE d = c
      BY <2>2, <2>7, <2>8, <3>1, EntryAssumption DEF Installed
    <3>2. CASE d # c
      BY <1>a, <2>1, <2>5, <2>8, <3>2
         DEF EntriesSound, InFlightOK, Running, Installed, PointsAtUploaded, Uploaded, FirstPushShape, Pending
    <3> QED  BY <3>1, <3>2
  <2> QED  BY <2>9, <2>10, <2>11 DEF EntriesSound
<1> QED  BY <1>1, <1>2

LEMMA StepSound == EntriesSound /\ [Next]_vars => EntriesSound'
<1> SUFFICES ASSUME EntriesSound, [Next]_vars PROVE EntriesSound'  OBVIOUS
<1>1. CASE Next
  BY <1>1, LocalStepSound, PublishStepSound, FetchStepSound, EndStepSound DEF Next
<1>2. CASE UNCHANGED vars
  BY <1>2 DEF vars, EntriesSound, TypeOK, NoDanglingPointer, WriterInvariants, InFlightOK, Running,
              Installed, PointsAtUploaded, Uploaded, FirstPushShape, Pending
<1> QED  BY <1>1, <1>2

\* What is saved and what is in flight is sound in every reachable state.
THEOREM EntriesAreSound == Spec => []EntriesSound
BY InitSound, StepSound, PTL DEF Spec

\* Type correctness: entries and operations in flight keep their kinds.
THEOREM TypeCorrect == Spec => []TypeOK
<1>1. EntriesSound => TypeOK  BY DEF EntriesSound
<1> QED  BY <1>1, EntriesAreSound, PTL

\* The `latest` tag and every saved hash name an uploaded revision, for any
\* number of copies and failures.
THEOREM PointersAreUploaded == Spec => []NoDanglingPointer
<1>1. EntriesSound => NoDanglingPointer  BY DEF EntriesSound
<1> QED  BY <1>1, EntriesAreSound, PTL

\* Every saved entry has the writers' shape: unpushed entries have a pending
\* commit and no base or latest hash, pushed ones have both hashes.
THEOREM WritersKeepShape == Spec => []WriterInvariants
<1>1. EntriesSound => WriterInvariants  BY DEF EntriesSound
<1> QED  BY <1>1, EntriesAreSound, PTL

-----------------------------------------------------------------------------
(* What the package lock buys *)

\* An idle copy's operation says nothing, and only the stepping copy's
\* operation and entry change.
LEMMA IdleOperation ==
    ASSUME EntriesSound, NEW c \in Clients, ~Running(c)
    PROVE  op[c] = Idle
  BY DEF EntriesSound, TypeOK, Running, Op

LEMMA InitLockInv == Init => LockInv
  BY DEF Init, LockInv, DerivedEntry, Idle

LEMMA StepLockInv == EntriesSound /\ LockInv /\ [Next]_vars => LockInv'
<1> SUFFICES ASSUME EntriesSound, LockInv, [Next]_vars PROVE LockInv'  OBVIOUS
<1>a. op \in [Clients -> Op] /\ lineage \in [Clients -> Entry \cup {NotInstalled}]
  BY DEF EntriesSound, TypeOK
<1>1. CASE UNCHANGED vars  BY <1>1 DEF vars, LockInv, DerivedEntry
<1>2. ASSUME NEW c \in Clients, LocalStep(c) PROVE LockInv'
  <2>1. ~Running(c) /\ UNCHANGED op
    BY <1>2 DEF LocalStep, Create, InstallPackage, UninstallPackage, Commit, UndoCommit,
                SetRemoteRecommit, SetRemoteOnly, CanSetRemote, Ready
  <2>2. \A d \in Clients : d # c => lineage'[d] = lineage[d]
    BY <1>2, <1>a DEF LocalStep, Create, InstallPackage, UninstallPackage, Commit, UndoCommit,
                SetRemoteRecommit, SetRemoteOnly, Save
  <2>3. op[c] = Idle  BY <2>1, IdleOperation
  <2> QED  BY <2>1, <2>2, <2>3 DEF LockInv, DerivedEntry, Idle
\* The other steps leave every other copy alone; o is the stepping one's operation.
<1>b. ASSUME NEW c \in Clients, NEW o, op' = [op EXCEPT ![c] = o],
             \A d \in Clients : d # c => lineage'[d] = lineage[d],
             DerivedEntry(o, lineage'[c])
      PROVE  LockInv'
  <2>1. \A d \in Clients : op'[d] = IF d = c THEN o ELSE op[d]  BY <1>a, <1>b
  <2> QED  BY <1>b, <2>1 DEF LockInv
<1>3. ASSUME NEW c \in Clients, PublishStep(c) PROVE LockInv'
  <2>a. UNCHANGED lineage
    BY <1>3 DEF PublishStep, StartPush, StartPublish, StartPublishPending, StartCertify,
                UploadManifest, UploadRehashed, ResolveLatest, TagLatest
  <2>1. CASE StartPush(c) \/ StartPublishPending(c)
    <3>1. PICK kind \in {"push", "publish"} :
            op' = [op EXCEPT ![c] = [kind |-> kind, at |-> "upload", lin |-> lineage[c], pushing |-> <<>>]]
      BY <2>1 DEF StartPush, StartPublishPending, Begin
    <3> QED  BY <1>b, <2>a, <3>1 DEF DerivedEntry
  <2>2. ASSUME NEW r \in Revisions, StartPublish(c, r) PROVE LockInv'
    <3> DEFINE o == [kind |-> "publish", at |-> "upload", lin |-> Committed(lineage[c], r), pushing |-> <<>>]
    <3>1. op' = [op EXCEPT ![c] = o]  BY <2>2 DEF StartPublish, Begin
    <3>2. lineage[c] \in Entry  BY <2>2, SavedEntry DEF StartPublish, Publishable, Ready
    <3>3. DerivedEntry(o, lineage'[c])  BY <2>a, <3>2, CommittedEntry DEF DerivedEntry
    <3> HIDE DEF o
    <3> QED  BY <1>b, <2>a, <3>1, <3>3
  <2>3. CASE StartCertify(c)
    <3>1. CASE Pending(lineage[c])
      <4>1. op' = [op EXCEPT ![c] =
                     [kind |-> "certify", at |-> "upload", lin |-> lineage[c], pushing |-> <<>>]]
        BY <2>3, <3>1 DEF StartCertify, Begin
      <4> QED  BY <1>b, <2>a, <4>1 DEF DerivedEntry
    <3>2. CASE ~Pending(lineage[c])
      <4>1. op' = [op EXCEPT ![c] =
                     [kind |-> "promote", at |-> "tag", lin |-> lineage[c], pushing |-> <<>>]]
        BY <2>3, <3>2 DEF StartCertify, Begin
      <4> QED  BY <1>b, <2>a, <3>2, <4>1 DEF DerivedEntry, Pending
    <3> QED  BY <3>1, <3>2
  <2>4. CASE UploadManifest(c)
    <3> DEFINE o == [op[c] EXCEPT !.at = "resolve", !.lin = op[c].lin]
    <3>1. op[c].at = "upload" /\ op' = [op EXCEPT ![c] = o]  BY <2>4 DEF UploadManifest, Advance
    <3>2. op[c].kind # "promote" /\ DerivedEntry(op[c], lineage[c]) /\ op[c] \in Op
      BY <1>a, <3>1 DEF Op, Idle, LockInv
    <3>3. o.at = "resolve" /\ o.lin = op[c].lin /\ o.kind = op[c].kind  BY <3>1, <3>2 DEF Op, Idle
    <3>4. DerivedEntry(o, lineage'[c])  BY <2>a, <3>1, <3>2, <3>3 DEF DerivedEntry
    <3> HIDE DEF o
    <3> QED  BY <1>b, <2>a, <3>1, <3>4
  <2>5. ASSUME NEW r \in Revisions, UploadRehashed(c, r) PROVE LockInv'
    BY <1>b, <2>a, <2>5 DEF UploadRehashed, DerivedEntry, Idle
  <2>6. CASE ResolveLatest(c)
    <3> DEFINE e == op[c].lin
               to == IF MayCertify(e, latest) THEN "tag" ELSE "save"
               o == [op[c] EXCEPT !.at = to, !.lin = Pushed(e, latest), !.pushing = e.chain]
    <3>1. op[c].at = "resolve" /\ op' = [op EXCEPT ![c] = o]  BY <2>6 DEF ResolveLatest
    <3>2. op[c].kind \in {"push", "publish", "certify"} /\ op[c] \in Op /\ Pending(e)
      BY <1>a, <3>1 DEF Op, Idle
    <3>4. lineage[c].chain \in {e.chain, Tail(e.chain)}
      BY <3>1 DEF LockInv, DerivedEntry
    <3>3. /\ o.at = to /\ o.lin = Pushed(e, latest) /\ o.kind = op[c].kind /\ o.pushing = e.chain
      BY <3>1, <3>2 DEF Op, Idle
    <3>6. /\ o.at \in {"tag", "save"} /\ o.pushing # <<>>
          /\ o.lin.remote = Head(o.pushing) /\ o.lin.chain = <<>>
      BY <3>2, <3>3 DEF Pushed, Pending
    <3> HIDE DEF o
    <3>5. DerivedEntry(o, lineage'[c])
      BY <2>a, <3>2, <3>3, <3>4, <3>6 DEF DerivedEntry
    <3> QED  BY <1>b, <2>a, <3>1, <3>5
  <2>7. CASE TagLatest(c)
    <3> DEFINE e == op[c].lin
               f == [e EXCEPT !.base = e.remote, !.latest = e.remote]
               o == [op[c] EXCEPT !.at = "save", !.lin = f]
    <3>1. op[c].at = "tag" /\ op' = [op EXCEPT ![c] = o]  BY <2>7 DEF TagLatest, Advance
    <3>2. op[c] \in Op /\ e \in Entry /\ DerivedEntry(op[c], lineage[c])
      BY <1>a, <3>1 DEF Op, Idle, LockInv
    <3>3. o.at = "save" /\ o.lin = f /\ o.kind = op[c].kind /\ o.pushing = op[c].pushing
      BY <3>1, <3>2 DEF Op, Idle
    <3>4. f.chain = e.chain /\ f.remote = e.remote /\ f.base = e.remote /\ f.latest = e.remote
      BY <3>2 DEF Entry
    <3>5. DerivedEntry(o, lineage'[c])
      BY <2>a, <3>1, <3>2, <3>3, <3>4 DEF DerivedEntry
    <3> HIDE DEF o
    <3> QED  BY <1>b, <2>a, <3>1, <3>5
  <2> QED  BY <1>3, <2>1, <2>2, <2>3, <2>4, <2>5, <2>6, <2>7 DEF PublishStep
<1>4. ASSUME NEW c \in Clients, FetchStep(c) PROVE LockInv'
  <2>a. UNCHANGED lineage /\ Ready(c)  BY <1>4 DEF FetchStep, PullUpToDate, Pull, Reset, CanFetch
  <2>b. lineage[c] \in Entry  BY <2>a, SavedEntry DEF Ready
  <2>1. CASE PullUpToDate(c)
    <3> DEFINE o == [kind |-> "pull", at |-> "save", lin |-> [lineage[c] EXCEPT !.latest = latest], pushing |-> <<>>]
    <3>1. op' = [op EXCEPT ![c] = o]  BY <2>1 DEF PullUpToDate, Begin
    <3>2. o.lin.chain = lineage[c].chain  BY <2>b DEF Entry
    <3>3. DerivedEntry(o, lineage'[c])  BY <2>a, <3>2 DEF DerivedEntry
    <3> HIDE DEF o
    <3> QED  BY <1>b, <2>a, <3>1, <3>3
  <2>2. CASE Pull(c)
    <3> DEFINE o == [kind |-> "pull", at |-> "save", lin |-> Moved(latest), pushing |-> <<>>]
    <3>1. op' = [op EXCEPT ![c] = o]  BY <2>2 DEF Pull, Begin
    <3>2. DerivedEntry(o, lineage'[c])  BY <2>a, <2>2 DEF Pull, Moved, Pending, DerivedEntry
    <3> HIDE DEF o
    <3> QED  BY <1>b, <2>a, <3>1, <3>2
  <2>3. CASE Reset(c)
    <3>1. PICK e : op' = [op EXCEPT ![c] =
                            [kind |-> "reset", at |-> "save", lin |-> e, pushing |-> <<>>]]
      BY <2>3 DEF Reset, Begin
    <3> QED  BY <1>b, <2>a, <3>1 DEF DerivedEntry
  <2> QED  BY <1>4, <2>1, <2>2, <2>3 DEF FetchStep
<1>5. ASSUME NEW c \in Clients, Fail(c) PROVE LockInv'
  BY <1>b, <1>5 DEF Fail, DerivedEntry, Idle
<1>6. ASSUME NEW c \in Clients, SaveLineage(c) PROVE LockInv'
  <2> DEFINE e == op[c].lin
             p == [kind |-> "promote", at |-> "tag", lin |-> e, pushing |-> <<>>]
  <2>1. op[c].at = "save" /\ op[c] \in Op /\ DerivedEntry(op[c], lineage[c])
    BY <1>a, <1>6 DEF SaveLineage, LockInv
  <2>2. \A d \in Clients : lineage'[d] = IF d = c THEN e ELSE lineage[d]
    BY <1>a, <1>6 DEF SaveLineage, Save
  <2>3. CASE op[c].kind = "certify"
    <3>1. op' = [op EXCEPT ![c] = p]  BY <1>6, <2>3 DEF SaveLineage, Begin
    <3>2. DerivedEntry(p, lineage'[c]) <=> e.chain = <<>>  BY <2>2 DEF DerivedEntry
    <3>3. e.chain = <<>>  BY <2>1, <2>3 DEF DerivedEntry
    <3> HIDE DEF p
    <3> QED  BY <1>b, <2>2, <3>1, <3>2, <3>3
  <2>4. CASE op[c].kind # "certify"
    <3>1. op' = [op EXCEPT ![c] = Idle]  BY <1>6, <2>4 DEF SaveLineage
    <3> QED  BY <1>b, <2>2, <3>1 DEF DerivedEntry, Idle
  <2> QED  BY <2>3, <2>4
<1> QED  BY <1>1, <1>2, <1>3, <1>4, <1>5, <1>6 DEF Next

\* IInv is inductive: the entries are sound, and a running operation works on the
\* entry its copy still has saved.
THEOREM InductiveInvariant == Spec => []IInv
<1>1. Init => IInv
  BY InitSound, InitLockInv DEF IInv
<1>2. IInv /\ [Next]_vars => IInv'
  BY StepSound, StepLockInv DEF IInv
<1> QED  BY <1>1, <1>2, PTL DEF Spec

\* The entry of a copy changes under its own local step or its own save.
LEMMA ChangedBy ==
    ASSUME EntriesSound, [Next]_vars, NEW c \in Clients, lineage'[c] # lineage[c]
    PROVE  (LocalStep(c) /\ op[c] = Idle) \/ SaveLineage(c)
<1>1. lineage \in [Clients -> Entry \cup {NotInstalled}]  BY DEF EntriesSound, TypeOK
<1>2. PICK d \in Clients : LocalStep(d) \/ SaveLineage(d)
  BY DEF Next, vars, PublishStep, StartPush, StartPublish, StartPublishPending, StartCertify,
         UploadManifest, UploadRehashed, ResolveLatest, TagLatest,
         FetchStep, PullUpToDate, Pull, Reset, Fail
<1>3. d = c
  BY <1>1, <1>2 DEF LocalStep, Create, InstallPackage, UninstallPackage, Commit, UndoCommit,
              SetRemoteRecommit, SetRemoteOnly, SaveLineage, Save
<1>4. LocalStep(c) => ~Running(c)
  BY DEF LocalStep, Create, InstallPackage, UninstallPackage, Commit, UndoCommit,
         SetRemoteRecommit, SetRemoteOnly, CanSetRemote, Ready
<1> QED  BY <1>2, <1>3, <1>4, IdleOperation

\* No pending commit is lost: whatever ends a copy's pending chain recorded it
\* in a later commit, undid it, reset it, or uploaded it.
THEOREM PendingWorkIsKept == Spec => PendingWorkKept
<1> DEFINE Kept(c) ==
      LET e == lineage[c]
          f == lineage'[c]
      IN  Installed(c) /\ Pending(e) /\ f # NotInstalled /\ f.chain # e.chain =>
            \/ Pending(f) /\ Tail(f.chain) = e.chain
            \/ e.remote = NoRemote /\ f.chain = Tail(e.chain)
            \/ op[c].kind = "reset"
            \/ /\ Head(e.chain) \in Range(op[c].pushing)
               /\ f.remote = Head(op[c].pushing)
               /\ f.remote \in manifests
<1>1. ASSUME EntriesSound, LockInv, [Next]_vars, NEW c \in Clients PROVE Kept(c)
  <2> SUFFICES ASSUME Installed(c), Pending(lineage[c]),
                      lineage'[c] # NotInstalled, lineage'[c].chain # lineage[c].chain
               PROVE  Kept(c)
    OBVIOUS
  <2>1. lineage[c] \in Entry  BY <1>1, SavedEntry
  <2>2. op \in [Clients -> Op] /\ lineage \in [Clients -> Entry \cup {NotInstalled}]
    BY <1>1 DEF EntriesSound, TypeOK
  <2>3. LocalStep(c) \/ SaveLineage(c)  BY <1>1, ChangedBy
  <2>5. ASSUME NEW r \in Revisions, Commit(c, r) PROVE Kept(c)
    <3>1. lineage'[c] = Committed(lineage[c], r)  BY <2>2, <2>5 DEF Commit, Save
    <3> QED  BY <2>1, <3>1, CommittedEntry
  <2>6. CASE UndoCommit(c)
    <3>1. lineage[c].remote = NoRemote /\ lineage'[c] = [lineage[c] EXCEPT !.chain = Tail(@)]
      BY <2>2, <2>6 DEF UndoCommit, Save
    <3> QED  BY <2>1, <3>1 DEF Entry
  <2>7. ASSUME NEW r \in Revisions, SetRemoteRecommit(c, r) PROVE Kept(c)
    <3> DEFINE e == [lineage[c] EXCEPT !.remote = NoHash]
    <3>1. lineage'[c] = Committed(e, r)  BY <2>2, <2>7 DEF SetRemoteRecommit, Save
    <3>2. e \in Entry /\ e.chain = lineage[c].chain  BY <2>1 DEF Entry
    <3> HIDE DEF e
    <3> QED  BY <3>1, <3>2, CommittedEntry
  <2>8. CASE SetRemoteOnly(c)
    <3>1. lineage'[c] = [lineage[c] EXCEPT !.remote = NoHash]  BY <2>2, <2>8 DEF SetRemoteOnly, Save
    <3> QED  BY <2>1, <3>1 DEF Entry
  <2>9. CASE SaveLineage(c)
    <3>1. /\ op[c].at = "save" /\ lineage'[c] = op[c].lin
          /\ op[c] \in Op /\ InFlightOK(op[c]) /\ DerivedEntry(op[c], lineage[c])
      BY <1>1, <2>2, <2>9 DEF SaveLineage, Save, EntriesSound, LockInv
    <3>2. CASE op[c].kind \in {"push", "publish", "certify"}
      <4> DEFINE p == op[c].pushing
      <4>1. /\ p # <<>> /\ lineage[c].chain \in {p, Tail(p)}
            /\ op[c].lin.remote = Head(p) /\ p \in Seq(Revisions)
        BY <3>1, <3>2 DEF DerivedEntry, Op, Idle
      <4>2. Head(lineage[c].chain) \in Range(p)
        <5>1. CASE lineage[c].chain = p  BY <4>1, <5>1 DEF Range
        <5>2. CASE lineage[c].chain = Tail(p)
          <6>1. Len(p) > 1  BY <4>1, <5>2, HeadTailProperties, EmptySeq DEF Pending
          <6>2. Head(Tail(p)) = p[2] /\ 2 \in DOMAIN p  BY <4>1, <6>1, TailOfLonger
          <6> QED  BY <5>2, <6>2 DEF Range
        <5> QED  BY <4>1, <5>1, <5>2
      <4>3. op[c].lin.remote \in manifests
        BY <3>1, ConstantsAssumption DEF InFlightOK, PointsAtUploaded, Uploaded, Op, Idle
      <4> QED  BY <3>1, <4>1, <4>2, <4>3
    <3>3. CASE op[c].kind \notin {"push", "publish", "certify"}
      BY <3>1, <3>3 DEF DerivedEntry
    <3> QED  BY <3>2, <3>3
  <2>10. ~UninstallPackage(c) /\ \A r \in Revisions : ~Create(c, r) /\ ~InstallPackage(c, r)
    BY <2>2 DEF UninstallPackage, Create, InstallPackage, Save
  <2> QED  BY <2>3, <2>5, <2>6, <2>7, <2>8, <2>9, <2>10 DEF LocalStep
<1>2. IInv /\ [Next]_vars => [\A c \in Clients : Kept(c)]_vars
  BY <1>1 DEF IInv
<1> QED  BY <1>2, InductiveInvariant, PTL DEF Spec, PendingWorkKept

\* A first push is final: a copy with a base keeps a base and a remote hash
\* until it is uninstalled.
THEOREM FirstPushStays == Spec => FirstPushIsFinal
<1> DEFINE Final(c) ==
      Installed(c) /\ lineage[c].base # NoHash /\ lineage'[c] # NotInstalled =>
        lineage'[c].base # NoHash /\ lineage'[c].remote \in Revisions
<1>1. ASSUME EntriesSound, EntriesSound', [Next]_vars, NEW c \in Clients PROVE Final(c)
  <2> SUFFICES ASSUME Installed(c), lineage[c].base # NoHash, lineage'[c] # NotInstalled
               PROVE  Final(c)
    OBVIOUS
  <2>1. /\ lineage[c] \in Entry /\ FirstPushShape(lineage[c])
        /\ lineage \in [Clients -> Entry \cup {NotInstalled}]
    BY <1>1, SavedEntry DEF EntriesSound, TypeOK
  <2>2. lineage'[c] \in Entry /\ FirstPushShape(lineage'[c])
    BY <1>1 DEF EntriesSound, TypeOK, WriterInvariants, Installed, FirstPushShape, Pending
  <2>3. lineage[c].remote \in Revisions  BY <2>1 DEF Entry, FirstPushShape
  <2>4. lineage'[c].base # NoHash
    <3>1. CASE lineage'[c] = lineage[c]  BY <3>1
    <3>2. CASE SaveLineage(c)
      BY <1>1, <2>1, <3>2 DEF SaveLineage, Save, EntriesSound, InFlightOK
    <3>3. CASE LocalStep(c)
      <4>1. ASSUME NEW r \in Revisions, Commit(c, r) PROVE lineage'[c].base # NoHash
        <5>1. lineage'[c] = Committed(lineage[c], r)  BY <2>1, <4>1 DEF Commit, Save
        <5> QED  BY <2>1, <5>1, CommittedEntry
      <4>2. ~UndoCommit(c)  BY <2>3, ConstantsAssumption DEF UndoCommit
      <4>3. ~CanSetRemote(c)  BY <2>3, ConstantsAssumption DEF CanSetRemote
      <4>4. ~UninstallPackage(c)  BY <2>1 DEF UninstallPackage, Save
      <4>5. \A r \in Revisions : ~Create(c, r) /\ ~InstallPackage(c, r)
        BY DEF Create, InstallPackage
      <4> QED
        BY <3>3, <4>1, <4>2, <4>3, <4>4, <4>5 DEF LocalStep, SetRemoteRecommit, SetRemoteOnly
    <3> QED  BY <1>1, <3>1, <3>2, <3>3, ChangedBy
  <2> QED  BY <2>2, <2>4 DEF Entry, FirstPushShape
<1>2. EntriesSound /\ EntriesSound' /\ [Next]_vars => [\A c \in Clients : Final(c)]_vars
  BY <1>1
<1> QED  BY <1>2, EntriesAreSound, PTL DEF Spec, FirstPushIsFinal

\* Promote ends in step with the tag it wrote.
THEOREM PromoteLeavesUpToDate == Spec => PromoteSettles
<1> DEFINE Settles(c) ==
      op[c].kind = "promote" /\ lineage'[c] # lineage[c] =>
        /\ UpstreamState(lineage'[c]) = "UpToDate"
        /\ lineage'[c].remote \in manifests
<1>1. ASSUME EntriesSound, LockInv, [Next]_vars, NEW c \in Clients PROVE Settles(c)
  <2> SUFFICES ASSUME op[c].kind = "promote", lineage'[c] # lineage[c] PROVE Settles(c)
    OBVIOUS
  <2> DEFINE e == op[c].lin
  <2>1. SaveLineage(c)  BY <1>1, ChangedBy DEF Idle
  <2>2. op[c].at = "save" /\ lineage'[c] = e /\ op[c] \in Op
    BY <1>1, <2>1 DEF SaveLineage, Save, EntriesSound, TypeOK
  <2>3. e \in Entry /\ e.remote \in Revisions  BY <2>2 DEF Op, Idle
  <2>4. e.chain = <<>> /\ e.base = e.remote /\ e.latest = e.remote
    BY <1>1, <2>2 DEF LockInv, DerivedEntry
  <2>5. e.remote \in manifests
    BY <1>1, <2>2, <2>3, ConstantsAssumption DEF EntriesSound, InFlightOK, PointsAtUploaded, Uploaded
  <2>6. UpstreamState(e) = "UpToDate"
    BY <2>3, <2>4, ConstantsAssumption DEF UpstreamState, CurrentHash, Pending
  <2> QED  BY <2>2, <2>5, <2>6
<1>2. IInv /\ [Next]_vars => [\A c \in Clients : Settles(c)]_vars
  BY <1>1 DEF IInv
<1> QED  BY <1>2, InductiveInvariant, PTL DEF Spec, PromoteSettles

-----------------------------------------------------------------------------
(* The lock on one path, which package lock and domain lock are built on.   *)
(* LayersInv is inductive, and with it the lock excludes for any number of  *)
(* tasks, processes, cancellations and deaths.                              *)

LEMMA QueueLeft ==
    ASSUME NEW q \in Seq(Tasks), NEW i \in DOMAIN q
    PROVE  RemoveAt(q, i) \in Seq(Tasks)
BY DEF RemoveAt

LEMMA LayersInitInv == LayersInit => LayersInv
BY PathLockAssumption, SMT DEF LayersInit, LayersInv, LayersTypeOK, Ownership, Queues, Stages, Mutex, OwnsOs, OwnsMutex

\* Of who owns what, a step of task t disturbs only what t owns.
LEMMA OwnershipStep == LayersInv /\ [LayersNext]_layersVars => (LayersTypeOK /\ Ownership)'
<1> SUFFICES ASSUME LayersInv, [LayersNext]_layersVars PROVE (LayersTypeOK /\ Ownership)'
  OBVIOUS
<1> USE PathLockAssumption DEF LayersInv, Mutex, Goto, OwnsOs, OwnsMutex
<1>1. ASSUME NEW t \in Tasks, Lock(t) PROVE (LayersTypeOK /\ Ownership)'
  BY <1>1 DEF Lock, LayersTypeOK, Ownership, Stages
<1>2. ASSUME NEW t \in Tasks, TryLock(t) PROVE (LayersTypeOK /\ Ownership)'
  BY <1>2 DEF TryLock, TakeMutex, LayersTypeOK, Ownership, Stages
<1>3. ASSUME NEW t \in Tasks, GetMutex(t) PROVE (LayersTypeOK /\ Ownership)'
  <2>1. Tail(queue[ProcessOf[t]]) \in Seq(Tasks)
    BY <1>3 DEF GetMutex, LayersTypeOK
  <2>2. LayersTypeOK'
    BY <1>3, <2>1 DEF GetMutex, TakeMutex, LayersTypeOK, Stages
  <2>3. Ownership'
    BY <1>3 DEF GetMutex, TakeMutex, LayersTypeOK, Ownership, Stages
  <2> QED BY <2>2, <2>3
<1>4. ASSUME NEW t \in Tasks, OsLock(t) PROVE (LayersTypeOK /\ Ownership)'
  BY <1>4 DEF OsLock, LayersTypeOK, Ownership, Stages
<1>5. ASSUME NEW t \in Tasks, Resume(t) PROVE (LayersTypeOK /\ Ownership)'
  BY <1>5 DEF Resume, LayersTypeOK, Ownership, Stages
<1>6. ASSUME NEW t \in Tasks, TryOs(t) PROVE (LayersTypeOK /\ Ownership)'
  <2>1. CASE os = Free
    <3>1. os' = t /\ Goto(t, "tried") /\ UNCHANGED <<mutex, queue, cancels, crashes>>
      BY <1>6, <2>1 DEF TryOs
    <3>2. LayersTypeOK'
      BY <3>1 DEF LayersTypeOK, Stages
    <3>3. Ownership'
      BY <1>6, <2>1, <3>1 DEF TryOs, LayersTypeOK, Ownership, Stages
    <3> QED BY <3>2, <3>3
  <2>2. CASE os # Free
    <3>1. FreeMutex(t) /\ Goto(t, "idle") /\ UNCHANGED <<os, queue, cancels, crashes>>
      BY <1>6, <2>2 DEF TryOs
    <3>2. LayersTypeOK'
      BY <3>1 DEF FreeMutex, LayersTypeOK, Stages
    <3>3. Ownership'
      BY <1>6, <3>1 DEF TryOs, FreeMutex, LayersTypeOK, Ownership, Stages
    <3> QED BY <3>2, <3>3
  <2> QED BY <2>1, <2>2
<1>7. ASSUME NEW t \in Tasks, StrayOs(t) PROVE (LayersTypeOK /\ Ownership)'
  BY <1>7 DEF StrayOs, LayersTypeOK, Ownership, Stages
<1>8. ASSUME NEW t \in Tasks, CloseFile(t) PROVE (LayersTypeOK /\ Ownership)'
  BY <1>8 DEF CloseFile, LayersTypeOK, Ownership, Stages
<1>9. ASSUME NEW t \in Tasks, DropHeld(t) PROVE (LayersTypeOK /\ Ownership)'
  BY <1>9 DEF DropHeld, FreeMutex, LayersTypeOK, Ownership, Stages
<1>10. ASSUME NEW t \in Tasks, StrayClose(t) PROVE (LayersTypeOK /\ Ownership)'
  BY <1>10 DEF StrayClose, LayersTypeOK, Ownership, Stages
<1>11. ASSUME NEW t \in Tasks, Cancel(t) PROVE (LayersTypeOK /\ Ownership)'
  <2> USE DEF LayersTypeOK, Ownership, Stages, FreeMutex
  <2>0. cancels' \in 0..MaxCancels /\ UNCHANGED <<os, crashes>>
    BY <1>11 DEF Cancel
  <2>1. CASE at[t] = "queued" /\ Goto(t, "idle") /\ LeaveQueue(t) /\ UNCHANGED mutex
    <3>1. PICK i \in DOMAIN queue[ProcessOf[t]] :
                 queue' = [queue EXCEPT ![ProcessOf[t]] = RemoveAt(@, i)]
      BY <2>1 DEF LeaveQueue
    <3>2. RemoveAt(queue[ProcessOf[t]], i) \in Seq(Tasks)
      BY <3>1, QueueLeft
    <3>3. LayersTypeOK'
      BY <2>0, <2>1, <3>1, <3>2
    <3>4. Ownership'
      BY <2>0, <2>1
    <3> QED BY <3>3, <3>4
  <2>2. CASE /\ at[t] \in {"parked", "granted"}
             /\ Goto(t, IF at[t] = "parked" THEN "orphan" ELSE "unread")
             /\ UNCHANGED <<queue, mutex>>
    BY <2>0, <2>2
  <2>3. CASE /\ at[t] \in {"trying", "tried"}
             /\ Goto(t, IF at[t] = "trying" THEN "stray" ELSE "strayed")
             /\ FreeMutex(t)
             /\ UNCHANGED queue
    BY <2>0, <2>3
  <2> QED BY <1>11, <2>1, <2>2, <2>3 DEF Cancel
<1>12. ASSUME NEW p \in Processes, Crash(p) PROVE (LayersTypeOK /\ Ownership)'
  <2>1. LayersTypeOK'
    BY <1>12 DEF Crash, LayersTypeOK, Stages
  <2>2. Ownership'
    BY <1>12 DEF Crash, LayersTypeOK, Ownership, Stages
  <2> QED BY <2>1, <2>2
<1>13. CASE UNCHANGED layersVars
  BY <1>13 DEF layersVars, LayersTypeOK, Ownership, Stages
<1> QED
  BY <1>1, <1>2, <1>3, <1>4, <1>5, <1>6, <1>7, <1>8, <1>9, <1>10, <1>11, <1>12, <1>13
  DEF LayersNext, Progress

\* What is left of a queue when its i-th attempt leaves it.
LEMMA LeftQueue ==
    ASSUME NEW q \in Seq(Tasks), NEW i \in DOMAIN q
    PROVE  /\ DOMAIN RemoveAt(q, i) = 1..(Len(q) - 1)
           /\ \A j \in 1..(Len(q) - 1) :
                 RemoveAt(q, i)[j] = IF j < i THEN q[j] ELSE q[j + 1]
<1> DEFINE l == SubSeq(q, 1, i - 1)
           r == SubSeq(q, i + 1, Len(q))
<1>1. i \in 1..Len(q) /\ Len(q) \in Nat /\ \A j \in 1..Len(q) : q[j] \in Tasks
  OBVIOUS
<1>2. l \in Seq(Tasks) /\ Len(l) = i - 1 /\ \A j \in 1..(i - 1) : l[j] = q[j]
  BY <1>1, SubSeqProperties
<1>3. r \in Seq(Tasks) /\ Len(r) = Len(q) - i /\ \A j \in 1..(Len(q) - i) : r[j] = q[i + j]
  BY <1>1, SubSeqProperties
<1>4. RemoveAt(q, i) = l \o r
  BY DEF RemoveAt
<1> HIDE DEF l, r
<1>5. l \o r \in Seq(Tasks) /\ Len(l \o r) = Len(q) - 1
  BY <1>1, <1>2, <1>3
<1>6. ASSUME NEW j \in 1..(Len(q) - 1) PROVE (l \o r)[j] = IF j < i THEN q[j] ELSE q[j + 1]
  <2>0. j \in 1..(Len(l) + Len(r))
    BY <1>1, <1>2, <1>3
  <2>1. CASE j < i
    BY <1>1, <1>2, <1>3, <2>1
  <2>2. CASE j >= i
    <3>1. j - (i - 1) \in 1..(Len(q) - i) /\ i + (j - (i - 1)) = j + 1 /\ ~(j <= i - 1)
      BY <1>1, <2>2
    <3>2. (l \o r)[j] = r[j - (i - 1)]
      <4>1. (l \o r)[j] = IF j <= Len(l) THEN l[j] ELSE r[j - Len(l)]
        BY <1>2, <1>3, <2>0, ConcatProperties
      <4> QED
        BY <1>2, <3>1, <4>1
    <3>3. r[j - (i - 1)] = q[i + (j - (i - 1))]
      BY <1>3, <3>1
    <3>4. ~(j < i)
      BY <1>1, <2>2
    <3> QED
      BY <3>1, <3>2, <3>3, <3>4
  <2>3. j < i \/ j >= i
    BY <1>1, <1>6
  <2> QED
    BY <2>1, <2>2, <2>3
<1>7. DOMAIN (l \o r) = 1..(Len(q) - 1)
  BY <1>5
<1> QED
  BY <1>4, <1>6, <1>7

\* A queue is left by the attempt at its head with the mutex, by a cancelled one
\* from any place, and by all when the process dies.
LEMMA QueuesStep == LayersInv /\ [LayersNext]_layersVars => Queues'
<1> SUFFICES ASSUME LayersInv, [LayersNext]_layersVars PROVE Queues'
  OBVIOUS
<1>0. /\ at \in [Tasks -> Stages] /\ queue \in [Processes -> Seq(Tasks)]
      /\ ProcessOf \in [Tasks -> Processes] /\ Queues
  BY PathLockAssumption DEF LayersInv, LayersTypeOK
<1>a. \A p \in Processes : \A i \in DOMAIN queue[p] :
         at[queue[p][i]] = "queued" /\ ProcessOf[queue[p][i]] = p
  BY <1>0 DEF Queues
<1>b. \A p \in Processes : \A i, j \in DOMAIN queue[p] :
         queue[p][i] = queue[p][j] => i = j
  BY <1>0 DEF Queues
<1>1. ASSUME UNCHANGED queue, \A t \in Tasks : at'[t] = "queued" <=> at[t] = "queued"
      PROVE  Queues'
  <2>1. \A p \in Processes : \A i \in DOMAIN queue[p] : queue[p][i] \in Tasks
    BY <1>0
  <2> QED
    BY <1>0, <1>1, <2>1 DEF Queues
<1>2. ASSUME NEW t \in Tasks, Lock(t) PROVE Queues'
  <2> DEFINE p == ProcessOf[t]
             n == Len(queue[p]) + 1
  <2>1. /\ p \in Processes /\ at[t] = "idle"
        /\ at' = [at EXCEPT ![t] = "queued"]
        /\ queue' = [queue EXCEPT ![p] = Append(queue[p], t)]
    BY <1>0, <1>2 DEF Lock, Goto
  <2>2. /\ queue'[p] = Append(queue[p], t) /\ DOMAIN queue'[p] = 1..n
        /\ n \in Nat \ {0} /\ DOMAIN queue[p] = 1..(n - 1)
        /\ queue'[p][n] = t /\ \A i \in 1..(n - 1) : queue'[p][i] = queue[p][i]
    BY <1>0, <2>1
  <2>3. \A o \in Processes \ {p} : queue'[o] = queue[o]
    BY <1>0, <2>1
  <2>4. \A o \in Processes : \A i \in DOMAIN queue[o] :
            queue[o][i] \in Tasks /\ queue[o][i] # t /\ at'[queue[o][i]] = "queued"
    BY <1>0, <2>1 DEF Queues
  <2> HIDE DEF n, p
  <2>5. ASSUME NEW o \in Processes, NEW i \in DOMAIN queue'[o], NEW j \in DOMAIN queue'[o]
        PROVE  /\ at'[queue'[o][i]] = "queued" /\ ProcessOf[queue'[o][i]] = o
               /\ queue'[o][i] = queue'[o][j] => i = j
    <3>1. CASE o # p
      BY <1>0, <2>3, <2>4, <2>5, <3>1 DEF Queues
    <3>2. CASE o = p
      <4>1. \A k \in 1..n : k = n \/ k \in 1..(n - 1)
        BY <2>2
      <4>2. at'[t] = "queued" /\ ProcessOf[t] = p
        BY <1>0, <2>1 DEF p
      <4>3. \A k \in DOMAIN queue'[p] :
                \/ k = n /\ queue'[p][k] = t
                \/ k \in DOMAIN queue[p] /\ queue'[p][k] = queue[p][k]
        BY <2>2, <4>1
      <4>4. p \in Processes /\ i \in DOMAIN queue'[p] /\ j \in DOMAIN queue'[p]
        BY <2>5, <3>2
      <4>5. at'[queue'[p][i]] = "queued" /\ ProcessOf[queue'[p][i]] = p
        BY <1>a, <2>4, <4>2, <4>3, <4>4
      <4>6. queue'[p][i] = queue'[p][j] => i = j
        BY <1>b, <2>4, <4>3, <4>4
      <4> QED
        BY <3>2, <4>5, <4>6
    <3> QED
      BY <3>1, <3>2
  <2>6. ASSUME NEW u \in Tasks, at'[u] = "queued"
        PROVE  \E i \in DOMAIN queue'[ProcessOf[u]] : queue'[ProcessOf[u]][i] = u
    <3>1. CASE u = t
      BY <2>2, <3>1 DEF p
    <3>2. CASE u # t
      <4>1. PICK i \in DOMAIN queue[ProcessOf[u]] : queue[ProcessOf[u]][i] = u
        BY <1>0, <2>1, <2>6, <3>2 DEF Queues
      <4>2. CASE ProcessOf[u] = p
        BY <2>2, <4>1, <4>2
      <4>3. CASE ProcessOf[u] # p
        BY <1>0, <2>3, <4>1, <4>3
      <4> QED
        BY <4>2, <4>3
    <3> QED
      BY <3>1, <3>2
  <2> QED
    BY <2>5, <2>6 DEF Queues
<1>3. ASSUME NEW t \in Tasks, NEW i \in DOMAIN queue[ProcessOf[t]],
             queue[ProcessOf[t]][i] = t, at'[t] # "queued",
             \A u \in Tasks \ {t} : at'[u] = at[u],
             NEW rest \in Seq(Tasks), queue' = [queue EXCEPT ![ProcessOf[t]] = rest],
             DOMAIN rest = 1..(Len(queue[ProcessOf[t]]) - 1),
             \A j \in 1..(Len(queue[ProcessOf[t]]) - 1) :
                 rest[j] = queue[ProcessOf[t]][IF j < i THEN j ELSE j + 1]
      PROVE  Queues'
  <2> DEFINE p == ProcessOf[t]
             n == Len(queue[p])
  <2>1. p \in Processes /\ n \in Nat /\ DOMAIN queue[p] = 1..n /\ i \in 1..n /\ queue[p][i] = t
    BY <1>0, <1>3
  <2>2. queue'[p] = rest /\ \A o \in Processes \ {p} : queue'[o] = queue[o]
    BY <1>0, <1>3
  <2> DEFINE Old(j) == IF j < i THEN j ELSE j + 1
  <2>3. \A j \in 1..(n - 1) : Old(j) \in 1..n /\ Old(j) # i
    BY <2>1
  <2>4. \A j, k \in 1..(n - 1) : Old(j) = Old(k) => j = k
    BY <2>1
  <2>5. \A k \in 1..n : k # i => \E j \in 1..(n - 1) : Old(j) = k
    <3> TAKE k \in 1..n
    <3> HAVE k # i
    <3>1. CASE k < i
      <4>1. k \in 1..(n - 1) /\ Old(k) = k
        BY <2>1, <3>1
      <4> QED
        BY <4>1
    <3>2. CASE k > i
      <4>1. k - 1 \in 1..(n - 1) /\ Old(k - 1) = k
        BY <2>1, <3>2
      <4> QED
        BY <4>1
    <3> QED
      BY <2>1, <3>1, <3>2
  <2>6. DOMAIN rest = 1..(n - 1) /\ \A j \in 1..(n - 1) : rest[j] = queue[p][Old(j)]
    BY <1>3
  <2> HIDE DEF p, n, Old
  <2>7. \A o \in Processes : \A j \in DOMAIN queue[o] :
            /\ queue[o][j] \in Tasks
            /\ queue[o][j] # t => at'[queue[o][j]] = "queued"
            /\ queue[o][j] = t => o = p /\ j = i
    BY <1>0, <1>3, <2>1 DEF Queues, p
  <2>8. ASSUME NEW o \in Processes, NEW j \in DOMAIN queue'[o], NEW k \in DOMAIN queue'[o]
        PROVE  /\ at'[queue'[o][j]] = "queued" /\ ProcessOf[queue'[o][j]] = o
               /\ queue'[o][j] = queue'[o][k] => j = k
    <3>1. CASE o # p
      BY <1>0, <2>2, <2>7, <2>8, <3>1 DEF Queues
    <3>2. CASE o = p
      <4>1. /\ j \in 1..(n - 1) /\ k \in 1..(n - 1)
            /\ queue'[o][j] = queue[p][Old(j)] /\ queue'[o][k] = queue[p][Old(k)]
        BY <2>2, <2>6, <2>8, <3>2
      <4>2. Old(j) \in DOMAIN queue[p] /\ Old(k) \in DOMAIN queue[p] /\ Old(j) # i
        BY <2>1, <2>3, <4>1
      <4>3. \A a, b \in DOMAIN queue[p] : queue[p][a] = queue[p][b] => a = b
        BY <1>b, <2>1
      <4>4. ProcessOf[queue[p][Old(j)]] = p
        BY <1>0, <2>1, <4>2 DEF Queues
      <4>5. queue[p][Old(j)] # t
        BY <2>1, <2>7, <4>2
      <4>6. at'[queue'[o][j]] = "queued"
        BY <2>1, <2>7, <4>1, <4>2, <4>5
      <4> QED
        BY <2>4, <3>2, <4>1, <4>2, <4>3, <4>4, <4>6
    <3> QED
      BY <3>1, <3>2
  <2>9. ASSUME NEW u \in Tasks, at'[u] = "queued"
        PROVE  \E j \in DOMAIN queue'[ProcessOf[u]] : queue'[ProcessOf[u]][j] = u
    <3>1. u # t /\ at[u] = "queued"
      BY <1>3, <2>9
    <3>2. PICK k \in DOMAIN queue[ProcessOf[u]] : queue[ProcessOf[u]][k] = u
      BY <1>0, <3>1 DEF Queues
    <3>3. CASE ProcessOf[u] # p
      BY <1>0, <2>2, <3>2, <3>3
    <3>4. CASE ProcessOf[u] = p
      <4>1. k \in 1..n /\ k # i
        BY <2>1, <3>1, <3>2, <3>4
      <4>2. PICK j \in 1..(n - 1) : Old(j) = k
        BY <2>5, <4>1
      <4> QED
        BY <2>2, <2>6, <3>2, <3>4, <4>2
    <3> QED
      BY <3>3, <3>4
  <2> QED
    BY <2>8, <2>9 DEF Queues
<1>4. ASSUME NEW t \in Tasks, GetMutex(t) PROVE Queues'
  <2> DEFINE q == queue[ProcessOf[t]]
  <2>1. /\ q \in Seq(Tasks) /\ q # <<>> /\ Head(q) = t
        /\ at' = [at EXCEPT ![t] = "parked"]
        /\ queue' = [queue EXCEPT ![ProcessOf[t]] = Tail(q)]
    BY <1>0, <1>4 DEF GetMutex, Goto
  <2>2. /\ 1 \in DOMAIN q /\ q[1] = t /\ Tail(q) \in Seq(Tasks)
        /\ DOMAIN Tail(q) = 1..(Len(q) - 1)
        /\ \A j \in 1..(Len(q) - 1) : Tail(q)[j] = q[j + 1]
    BY <2>1
  <2>3. \A j \in 1..(Len(q) - 1) : Tail(q)[j] = q[IF j < 1 THEN j ELSE j + 1]
    BY <2>2
  <2>4. at'[t] # "queued" /\ \A u \in Tasks \ {t} : at'[u] = at[u]
    BY <1>0, <2>1
  <2> QED
    BY <1>3, <2>1, <2>2, <2>3, <2>4
<1>5. ASSUME NEW t \in Tasks, Cancel(t) PROVE Queues'
  <2>1. CASE at[t] = "queued" /\ Goto(t, "idle") /\ LeaveQueue(t)
    <3> DEFINE q == queue[ProcessOf[t]]
    <3>1. PICK i \in DOMAIN q :
                 q[i] = t /\ queue' = [queue EXCEPT ![ProcessOf[t]] = RemoveAt(q, i)]
      BY <2>1 DEF LeaveQueue
    <3>2. q \in Seq(Tasks)
      BY <1>0
    <3>3. RemoveAt(q, i) \in Seq(Tasks)
      BY <3>1, <3>2, QueueLeft
    <3>4. /\ DOMAIN RemoveAt(q, i) = 1..(Len(q) - 1)
          /\ \A j \in 1..(Len(q) - 1) :
                RemoveAt(q, i)[j] = q[IF j < i THEN j ELSE j + 1]
      BY <3>1, <3>2, LeftQueue
    <3>5. at'[t] # "queued" /\ \A u \in Tasks \ {t} : at'[u] = at[u]
      BY <1>0, <2>1 DEF Goto
    <3> QED
      BY <1>3, <3>1, <3>3, <3>4, <3>5
  <2>2. CASE /\ at[t] \in {"parked", "granted"} /\ UNCHANGED queue
             /\ Goto(t, IF at[t] = "parked" THEN "orphan" ELSE "unread")
    BY <1>0, <1>1, <2>2 DEF Goto
  <2>3. CASE /\ at[t] \in {"trying", "tried"} /\ UNCHANGED queue
             /\ Goto(t, IF at[t] = "trying" THEN "stray" ELSE "strayed")
    BY <1>0, <1>1, <2>3 DEF Goto
  <2> QED
    BY <1>5, <2>1, <2>2, <2>3 DEF Cancel
<1>6. ASSUME NEW o \in Processes, Crash(o) PROVE Queues'
  <2>1. /\ at' = [t \in Tasks |-> IF ProcessOf[t] = o THEN "idle" ELSE at[t]]
        /\ queue'[o] = <<>> /\ \A p \in Processes \ {o} : queue'[p] = queue[p]
    BY <1>0, <1>6 DEF Crash
  <2>2. \A p \in Processes : \A i \in DOMAIN queue[p] : queue[p][i] \in Tasks
    BY <1>0
  <2>3. \A p \in Processes : \A i \in DOMAIN queue'[p] : p # o
    BY <2>1
  <2>4. ASSUME NEW p \in Processes, NEW i \in DOMAIN queue'[p], NEW j \in DOMAIN queue'[p]
        PROVE  /\ at'[queue'[p][i]] = "queued" /\ ProcessOf[queue'[p][i]] = p
               /\ queue'[p][i] = queue'[p][j] => i = j
    <3>1. p # o /\ queue'[p] = queue[p]
      BY <2>1, <2>3, <2>4
    <3> QED
      BY <1>a, <1>b, <2>1, <2>2, <2>4, <3>1
  <2>5. ASSUME NEW t \in Tasks, at'[t] = "queued"
        PROVE  \E i \in DOMAIN queue'[ProcessOf[t]] : queue'[ProcessOf[t]][i] = t
    <3>1. ProcessOf[t] # o /\ at[t] = "queued"
      BY <2>1, <2>5
    <3>2. \E i \in DOMAIN queue[ProcessOf[t]] : queue[ProcessOf[t]][i] = t
      BY <1>0, <3>1 DEF Queues
    <3>3. queue'[ProcessOf[t]] = queue[ProcessOf[t]]
      BY <1>0, <2>1, <3>1
    <3> QED
      BY <3>2, <3>3
  <2> QED
    BY <2>4, <2>5 DEF Queues
<1>7. ASSUME NEW t \in Tasks,
             TryLock(t) \/ OsLock(t) \/ Resume(t) \/ TryOs(t) \/ StrayOs(t)
               \/ CloseFile(t) \/ DropHeld(t) \/ StrayClose(t)
      PROVE  Queues'
  <2>1. /\ UNCHANGED queue /\ at[t] # "queued"
        /\ \E stage \in Stages \ {"queued"} : at' = [at EXCEPT ![t] = stage]
    BY <1>0, <1>7 DEF TryLock, OsLock, Resume, TryOs, StrayOs, CloseFile, DropHeld,
                      StrayClose, Goto, Stages
  <2> QED
    BY <1>0, <1>1, <2>1
<1>8. CASE UNCHANGED layersVars
  BY <1>1, <1>8 DEF layersVars
<1> QED
  BY <1>2, <1>4, <1>5, <1>6, <1>7, <1>8 DEF LayersNext, Progress

LEMMA LayersStepInv == LayersInv /\ [LayersNext]_layersVars => LayersInv'
BY OwnershipStep, QueuesStep DEF LayersInv

\* Who owns the OS lock and the mutexes is never in doubt.
THEOREM OwnershipInvariant == LayersSpec => []LayersInv
BY LayersInitInv, LayersStepInv, PTL DEF LayersSpec

LEMMA Excludes == LayersInv => MutualExclusion
BY PathLockAssumption DEF LayersInv, Ownership, MutualExclusion, OwnsOs

LEMMA ParksOne == LayersInv => OneParkedThread
BY PathLockAssumption DEF LayersInv, Ownership, OneParkedThread, OwnsMutex, Mutex

\* One guard at a time, in all processes together.
THEOREM LockExcludes == LayersSpec => []MutualExclusion
BY OwnershipInvariant, Excludes, PTL

\* At most one blocking thread per process waits for the file.
THEOREM ParksOneThread == LayersSpec => []OneParkedThread
BY OwnershipInvariant, ParksOne, PTL

-----------------------------------------------------------------------------
(* Every attempt ends: what LockNotLost rests on but for fairness           *)

\* Who is queued waits for a mutex's owner or for the head of its queue, who is
\* parked for the one attempt that has the OS lock, and that one for nobody.
THEOREM LockIsNeverLost == LayersSpec => []SomeAttemptGoesOn
<1>1. LayersInv => SomeAttemptGoesOn
  <2> SUFFICES ASSUME LayersInv, NEW t \in Tasks, at[t] # "idle"
               PROVE  \E u \in Tasks : at[u] # "idle" /\ ~Blocked(u)
    BY DEF SomeAttemptGoesOn
  <2>0. ProcessOf \in [Tasks -> Processes] /\ Queues
    BY PathLockAssumption DEF LayersInv
  <2>1. ASSUME NEW u \in Tasks, at[u] # "idle", at[u] # "queued"
        PROVE  \E v \in Tasks : at[v] # "idle" /\ ~Blocked(v)
    <3>1. CASE Blocked(u)
      <4>1. os \in Tasks /\ at[os] \in OwnsOs
        BY <2>1, <3>1 DEF Blocked, LayersInv, LayersTypeOK, Ownership
      <4> QED
        BY <4>1 DEF Blocked, OwnsOs
    <3> QED
      BY <2>1, <3>1
  <2>2. CASE at[t] = "queued"
    <3> DEFINE p == ProcessOf[t]
    <3>1. CASE mutex[p] # Free
      <4>1. mutex[p] \in Tasks /\ at[mutex[p]] \in OwnsMutex
        BY <2>0, <3>1 DEF LayersInv, LayersTypeOK, Ownership, Mutex
      <4> QED
        BY <2>1, <4>1 DEF OwnsMutex
    <3>2. CASE mutex[p] = Free
      <4>1. p \in Processes /\ queue[p] \in Seq(Tasks)
        BY <2>0 DEF LayersInv, LayersTypeOK
      <4>2. PICK i \in DOMAIN queue[p] : queue[p][i] = t
        BY <2>0, <2>2 DEF Queues
      <4>3. /\ queue[p] # <<>> /\ 1 \in DOMAIN queue[p]
            /\ queue[p][1] = Head(queue[p]) /\ queue[p][1] \in Tasks
        BY <4>1, <4>2
      <4>4. at[Head(queue[p])] = "queued" /\ ProcessOf[Head(queue[p])] = p
        BY <2>0, <4>1, <4>3 DEF Queues
      <4> QED
        BY <3>2, <4>3, <4>4 DEF Blocked, Mutex
    <3> QED
      BY <3>1, <3>2
  <2> QED
    BY <2>1, <2>2
<1> QED
  BY <1>1, OwnershipInvariant, PTL

\* No attempt is given more steps, by its own cancellation or by others.
THEOREM EveryAttemptRunsDown == LayersSpec => AttemptsRunDown
<1> DEFINE Down == \A t \in Tasks : at[t] # "idle" /\ at'[t] # at[t]
                                    => StepsLeft(t)' < StepsLeft(t)
<1>1. LayersInv /\ [LayersNext]_layersVars => [Down]_layersVars
  <2> SUFFICES ASSUME LayersInv, LayersNext, NEW t \in Tasks, at[t] # "idle", at'[t] # at[t]
               PROVE  StepsLeft(t)' < StepsLeft(t)
    OBVIOUS
  <2>0. at \in [Tasks -> Stages] /\ at[t] \in Stages
    BY DEF LayersInv, LayersTypeOK
  <2>1. ASSUME NEW u \in Tasks, Lock(u) \/ TryLock(u) PROVE FALSE
    BY <2>0, <2>1 DEF Lock, TryLock, Goto
  <2>2. ASSUME NEW u \in Tasks, Progress(u) \/ Cancel(u) PROVE u = t
    BY <2>0, <2>2 DEF Progress, Cancel, Goto, GetMutex, OsLock, Resume, TryOs, StrayOs,
                      CloseFile, DropHeld, StrayClose
  <2>3. CASE Progress(t)
    <3>1. \/ at[t] = "queued" /\ at'[t] = "parked"
          \/ at[t] = "parked" /\ at'[t] = "granted"
          \/ at[t] = "orphan" /\ at'[t] = "unread"
          \/ at[t] \in {"granted", "tried"} /\ at'[t] = "held"
          \/ at[t] = "trying" /\ at'[t] \in {"tried", "idle"}
          \/ at[t] = "stray" /\ at'[t] \in {"strayed", "idle"}
          \/ at[t] \in {"held", "unread"} /\ at'[t] = "closing"
          \/ at[t] \in {"closing", "strayed"} /\ at'[t] = "idle"
      BY <2>0, <2>3 DEF Progress, Goto, GetMutex, OsLock, Resume, TryOs, StrayOs,
                        CloseFile, DropHeld, StrayClose
    <3> QED
      BY <3>1 DEF StepsLeft
  <2>4. CASE Cancel(t)
    <3>1. \/ at[t] = "queued" /\ at'[t] = "idle"
          \/ at[t] = "parked" /\ at'[t] = "orphan"
          \/ at[t] = "granted" /\ at'[t] = "unread"
          \/ at[t] = "trying" /\ at'[t] = "stray"
          \/ at[t] = "tried" /\ at'[t] = "strayed"
      BY <2>0, <2>4 DEF Cancel, Goto
    <3> QED
      BY <3>1 DEF StepsLeft
  <2>5. CASE at'[t] = "idle"
    BY <2>0, <2>5 DEF StepsLeft, Stages
  <2>6. ASSUME NEW p \in Processes, Crash(p) PROVE at'[t] = "idle"
    BY <2>6 DEF Crash
  <2> QED
    BY <2>1, <2>2, <2>3, <2>4, <2>5, <2>6 DEF LayersNext
<1> QED
  BY <1>1, OwnershipInvariant, PTL DEF LayersSpec, AttemptsRunDown

-----------------------------------------------------------------------------
(* The two layers of a path's lock implement one exclusive lock *)

\* An attempt holds the lock between resuming with the guard and closing the
\* file; dying is the other way out.
LEMMA HoldersStep ==
    ASSUME LayersInv, [LayersNext]_layersVars
    PROVE  \/ Holders' = Holders
           \/ \E t \in Tasks : Holders = {} /\ Holders' = {t}
           \/ \E t \in Tasks : Holders = {t} /\ Holders' = {}
<1> USE PathLockAssumption DEF Holders, Goto
<1>1. \A t \in Holders : os = t
  BY DEF LayersInv, Ownership, OwnsOs
<1>2. at \in [Tasks -> Stages]
  BY DEF LayersInv, LayersTypeOK
<1>3. ASSUME NEW t \in Tasks, Resume(t) PROVE Holders = {} /\ Holders' = {t}
  <2>1. os = t
    BY <1>3 DEF Resume, LayersInv, Ownership, OwnsOs
  <2>2. at[t] # "held"
    BY <1>3 DEF Resume
  <2>3. Holders = {}
    BY <1>1, <2>1, <2>2
  <2> QED BY <1>2, <1>3, <2>3 DEF Resume
<1>4. ASSUME NEW t \in Tasks, CloseFile(t), at[t] = "held"
      PROVE  Holders = {t} /\ Holders' = {}
  <2>1. Holders = {t}
    BY <1>1, <1>4
  <2> QED BY <1>2, <1>4, <2>1 DEF CloseFile
<1>5. ASSUME NEW t \in Tasks, CloseFile(t), at[t] # "held"
      PROVE  Holders' = Holders
  BY <1>2, <1>5 DEF CloseFile
<1>6. ASSUME NEW p \in Processes, Crash(p)
      PROVE  Holders' = Holders \/ \E t \in Tasks : Holders = {t} /\ Holders' = {}
  <2>1. Holders' \subseteq Holders
    BY <1>6 DEF Crash
  <2> QED BY <1>1, <2>1
<1>7. ASSUME NEW t \in Tasks,
             Lock(t) \/ TryLock(t) \/ GetMutex(t) \/ OsLock(t)
      PROVE  Holders' = Holders
  BY <1>2, <1>7 DEF Lock, TryLock, GetMutex, OsLock
<1>8. ASSUME NEW t \in Tasks,
             TryOs(t) \/ StrayOs(t) \/ DropHeld(t) \/ StrayClose(t)
      PROVE  Holders' = Holders
  BY <1>2, <1>8 DEF TryOs, StrayOs, DropHeld, StrayClose
<1>9. ASSUME NEW t \in Tasks, Cancel(t) PROVE Holders' = Holders
  BY <1>2, <1>9 DEF Cancel
<1>10. CASE UNCHANGED layersVars
  BY <1>10 DEF layersVars
<1> QED
  BY <1>3, <1>4, <1>5, <1>6, <1>7, <1>8, <1>9, <1>10 DEF LayersNext, Progress

LEMMA LayersInitRefines == LayersInit => Lk!Init
BY DEF LayersInit, Lk!Init, Holder, Holders

LEMMA LayersStepRefines == LayersInv /\ [LayersNext]_layersVars => [Lk!Next]_Holder
<1> SUFFICES ASSUME LayersInv, [LayersNext]_layersVars PROVE Lk!Next \/ Holder' = Holder
  OBVIOUS
<1>1. CASE Holders' = Holders
  BY <1>1 DEF Holder
<1>2. ASSUME NEW t \in Tasks, Holders = {}, Holders' = {t} PROVE Lk!Next
  <2>1. Holder = Free /\ Holder' = t
    BY <1>2 DEF Holder
  <2> QED BY <2>1 DEF Lk!Next, Lk!Acquire
<1>3. ASSUME NEW t \in Tasks, Holders = {t}, Holders' = {} PROVE Lk!Next
  <2>1. Holder = t /\ Holder' = Free
    BY <1>3 DEF Holder
  <2> QED BY <2>1 DEF Lk!Next, Lk!Release
<1> QED BY <1>1, <1>2, <1>3, HoldersStep

\* The mutex and the OS lock together are one exclusive lock.
THEOREM LayersImplementLock == LayersSpec => ImplementsLock
BY LayersInitRefines, LayersStepRefines, OwnershipInvariant, PTL DEF LayersSpec, ImplementsLock, Lk!Spec

=============================================================================
