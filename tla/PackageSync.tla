---------------------------- MODULE PackageSync ----------------------------
(***************************************************************************)
(* One package namespace, shared through one bucket by several working     *)
(* copies.  Each copy keeps the package's lineage entry, the "four hashes" *)
(* of lineage/package.rs; the bucket keeps the uploaded manifests and the  *)
(* mutable `latest` tag.  An operation that talks to the bucket runs under *)
(* the copy's package lock but is not atomic: between reading `latest`,    *)
(* writing it and saving the lineage, other copies run and this one may    *)
(* fail or crash.  An operation works on its own copy of the entry         *)
(* (op[c].lin) and saves it once, at the end.                              *)
(*                                                                         *)
(* A revision is its top hash.  The bytes of files, the timestamp tags and *)
(* the workflow gate are abstracted: a refused gate is a failed operation. *)
(***************************************************************************)
EXTENDS Naturals, Sequences, Functions

CONSTANTS
    Clients,      \* the working copies
    Revisions,    \* the top hashes a manifest may have
    NoHash,       \* the empty hash ""
    NoRemote,     \* remote_uri = None
    NotInstalled, \* no lineage entry
    MaxLocal,     \* bound: pending commits of a copy that never pushed
    MaxChain,     \* bound: pending commits of one that did
    MaxFaults     \* bound: operations that fail or crash

ASSUME ConstantsAssumption ==
    /\ NoHash \notin Revisions
    /\ NoRemote \notin Revisions \cup {NoHash}
    /\ MaxLocal \in Nat \ {0} /\ MaxChain \in Nat \ {0}
    /\ MaxFaults \in Nat

VARIABLES
    manifests, \* the manifests uploaded to the bucket
    latest,    \* the bucket's `latest` tag, NoHash when absent
    lineage,   \* each copy's saved lineage entry
    op,        \* each copy's running operation
    faults     \* failures so far

vars == <<manifests, latest, lineage, op, faults>>

-----------------------------------------------------------------------------
(* The lineage entry and its classifier *)

\* chain holds the pending commit's hash followed by its prev_hashes.
Entry == [remote : Revisions \cup {NoHash, NoRemote},
          base   : Revisions \cup {NoHash},
          latest : Revisions \cup {NoHash},
          chain  : Seq(Revisions)]

ASSUME EntryAssumption == NotInstalled \notin Entry

Installed(c) == lineage[c] # NotInstalled

Pending(e) == e.chain # <<>>

CurrentHash(e) == IF Pending(e) THEN Head(e.chain)
                  ELSE IF e.remote # NoRemote THEN e.remote
                  ELSE e.base

UpstreamState(e) ==
    LET ahead  == e.base # CurrentHash(e)
        behind == e.base # e.latest
    IN  CASE e.remote = NoRemote                    -> "Local"
          [] e.remote = NoHash /\ e.latest = NoHash -> "Local"
          [] e.remote = NoHash /\ e.latest # NoHash -> "Diverged"
          [] OTHER -> IF ahead
                      THEN IF behind THEN "Diverged" ELSE "Ahead"
                      ELSE IF behind THEN "Behind"   ELSE "UpToDate"

\* The entry once r is recorded as a new pending commit.
Committed(e, r) == [e EXCEPT !.chain = <<r>> \o @]

\* Within the bounds, one more may be recorded.
HasRoom(e) == Len(e.chain) < IF e.base = NoHash THEN MaxLocal ELSE MaxChain

-----------------------------------------------------------------------------
(* Operations in flight *)

Kinds == {"push", "publish", "certify", "promote", "pull", "reset"}

Idle == [kind |-> "idle", at |-> "idle", lin |-> NotInstalled, pushing |-> <<>>]

\* lin is the entry the operation works on; pushing is push's local `commit`,
\* taken out of the entry with its prev_hashes.
Op == {Idle}
      \cup [kind : {"push", "publish", "certify"}, at : {"upload", "resolve"},
            lin : {e \in Entry : Pending(e) /\ e.remote # NoRemote}, pushing : {<<>>}]
      \cup [kind : Kinds, at : {"tag", "save"},
            lin : {e \in Entry : e.remote \in Revisions}, pushing : Seq(Revisions)]

Running(c) == op[c].at # "idle"

\* The copy's package lock is free and it has the package.
Ready(c) == ~Running(c) /\ Installed(c)

Begin(c, kind, at, e) ==
    op' = [op EXCEPT ![c] = [kind |-> kind, at |-> at, lin |-> e, pushing |-> <<>>]]

Advance(c, at, e) == op' = [op EXCEPT ![c] = [@ EXCEPT !.at = at, !.lin = e]]

Save(c, e) == lineage' = [lineage EXCEPT ![c] = e]

-----------------------------------------------------------------------------
Init ==
    /\ manifests = {}
    /\ latest = NoHash
    /\ lineage = [c \in Clients |-> NotInstalled]
    /\ op = [c \in Clients |-> Idle]
    /\ faults = 0

(* Local operations: one lineage save, nothing another copy can see *)

Create(c, r) ==
    /\ ~Running(c) /\ ~Installed(c)
    /\ Save(c, [remote |-> NoRemote, base |-> NoHash, latest |-> NoHash, chain |-> <<r>>])
    /\ UNCHANGED <<manifests, latest, op, faults>>

InstallPackage(c, r) ==
    /\ ~Running(c) /\ ~Installed(c)
    /\ r \in manifests
    /\ latest # NoHash
    /\ Save(c, [remote |-> r, base |-> r, latest |-> latest, chain |-> <<>>])
    /\ UNCHANGED <<manifests, latest, op, faults>>

UninstallPackage(c) ==
    /\ Ready(c)
    /\ Save(c, NotInstalled)
    /\ UNCHANGED <<manifests, latest, op, faults>>

\* Mutant: the commit does not take the package lock.
Commit_NoLock(c, r) ==
    /\ Installed(c)
    /\ r # CurrentHash(lineage[c])
    /\ HasRoom(lineage[c])
    /\ Save(c, Committed(lineage[c], r))
    /\ UNCHANGED <<manifests, latest, op, faults>>

\* A commit whose top hash is the current one records nothing.
Commit(c, r) ==
    /\ Ready(c)
    /\ r # CurrentHash(lineage[c])
    /\ HasRoom(lineage[c])
    /\ Save(c, Committed(lineage[c], r))
    /\ UNCHANGED <<manifests, latest, op, faults>>

UndoCommit(c) ==
    /\ Ready(c)
    /\ lineage[c].remote = NoRemote
    /\ Len(lineage[c].chain) > 1
    /\ Save(c, [lineage[c] EXCEPT !.chain = Tail(@)])
    /\ UNCHANGED <<manifests, latest, op, faults>>

CanSetRemote(c) == Ready(c) /\ lineage[c].remote \in {NoRemote, NoHash}

\* Rehashed with the bucket's settings: the recommit follows the old commit,
\* and is recorded even when its hash is the same.
SetRemoteRecommit(c, r) ==
    /\ CanSetRemote(c)
    /\ Pending(lineage[c])
    /\ HasRoom(lineage[c])
    /\ Save(c, Committed([lineage[c] EXCEPT !.remote = NoHash], r))
    /\ UNCHANGED <<manifests, latest, op, faults>>

\* Nothing to recommit, or the recommit failed for another reason than the
\* workflow gate: the remote alone is saved.
SetRemoteOnly(c) ==
    /\ CanSetRemote(c)
    /\ Save(c, [lineage[c] EXCEPT !.remote = NoHash])
    /\ UNCHANGED <<manifests, latest, op, faults>>

-----------------------------------------------------------------------------
(* Push, Publish and Certify Latest *)

Publishable(c) == Ready(c) /\ lineage[c].remote # NoRemote

StartPush(c) ==
    /\ Publishable(c)
    /\ Pending(lineage[c])
    /\ Begin(c, "push", "upload", lineage[c])
    /\ UNCHANGED <<manifests, latest, lineage, faults>>

\* The commit goes into the operation's entry, not into the saved one.
StartPublish(c, r) ==
    /\ Publishable(c)
    /\ r # CurrentHash(lineage[c])
    /\ HasRoom(lineage[c])
    /\ Begin(c, "publish", "upload", Committed(lineage[c], r))
    /\ UNCHANGED <<manifests, latest, lineage, faults>>

\* No changes, or none that make a new hash: the pending commit is pushed.
StartPublishPending(c) ==
    /\ Publishable(c)
    /\ Pending(lineage[c])
    /\ Begin(c, "publish", "upload", lineage[c])
    /\ UNCHANGED <<manifests, latest, lineage, faults>>

\* "certify" is the inner push of a pending commit, "promote" the tagging.
StartCertify(c) ==
    /\ Publishable(c)
    /\ IF Pending(lineage[c]) THEN Begin(c, "certify", "upload", lineage[c])
       ELSE Begin(c, "promote", "tag", lineage[c])
    /\ UNCHANGED <<manifests, latest, lineage, faults>>

UploadManifest(c) ==
    /\ op[c].at = "upload"
    /\ manifests' = manifests \cup {Head(op[c].lin.chain)}
    /\ Advance(c, "resolve", op[c].lin)
    /\ UNCHANGED <<latest, lineage, faults>>

\* The rows were rehashed on the way: another revision is uploaded, and push
\* reports the mismatch with nothing saved.
UploadRehashed(c, r) ==
    /\ op[c].at = "upload"
    /\ r # Head(op[c].lin.chain)
    /\ faults < MaxFaults
    /\ manifests' = manifests \cup {r}
    /\ op' = [op EXCEPT ![c] = Idle]
    /\ faults' = faults + 1
    /\ UNCHANGED <<latest, lineage>>

\* What push makes of the entry e when the tag it reads is t.
Pushed(e, t) == [remote |-> Head(e.chain),
                 base   |-> IF e.base = NoHash THEN Head(e.chain) ELSE e.base,
                 latest |-> t,
                 chain  |-> <<>>]

MayCertify(e, t) == \/ e.base = NoHash
                    \/ e.base = t
                    \/ t = NoHash

ResolveLatest(c) ==
    LET e == op[c].lin
        at == IF MayCertify(e, latest) THEN "tag" ELSE "save"
    IN  /\ op[c].at = "resolve"
        /\ op' = [op EXCEPT ![c] =
                     [@ EXCEPT !.at = at, !.lin = Pushed(e, latest), !.pushing = e.chain]]
        /\ UNCHANGED <<manifests, latest, lineage, faults>>

\* Mutant: update_latest forgets the base hash.
TagLatest_KeepsBase(c) ==
    LET r == op[c].lin.remote
    IN  /\ op[c].at = "tag"
        /\ latest' = r
        /\ Advance(c, "save", [op[c].lin EXCEPT !.latest = r])
        /\ UNCHANGED <<manifests, lineage, faults>>

\* flow::certify_latest: write the tag, then update_latest.
TagLatest(c) ==
    LET r == op[c].lin.remote
    IN  /\ op[c].at = "tag"
        /\ latest' = r
        /\ Advance(c, "save", [op[c].lin EXCEPT !.base = r, !.latest = r])
        /\ UNCHANGED <<manifests, lineage, faults>>

-----------------------------------------------------------------------------
(* Pull and Reset.  The files they write are module WorkingTree's subject;  *)
(* here an apply is the time between reading the tag and saving.            *)

Moved(t) == [remote |-> t, base |-> t, latest |-> t, chain |-> <<>>]

CanFetch(c) == Ready(c) /\ lineage[c].remote # NoRemote /\ latest # NoHash

\* The tag names the base: only the refreshed latest hash is saved.
PullUpToDate(c) ==
    /\ CanFetch(c)
    /\ latest = lineage[c].base
    /\ Begin(c, "pull", "save", [lineage[c] EXCEPT !.latest = latest])
    /\ UNCHANGED <<manifests, latest, lineage, faults>>

\* Mutant: the refusal of a package with pending commits is gone.
Pull_DropsCommit(c) ==
    /\ CanFetch(c)
    /\ latest # lineage[c].base
    /\ lineage[c].remote = lineage[c].base
    /\ Begin(c, "pull", "save", Moved(latest))
    /\ UNCHANGED <<manifests, latest, lineage, faults>>

Pull(c) ==
    /\ CanFetch(c)
    /\ latest # lineage[c].base
    /\ ~Pending(lineage[c])
    /\ lineage[c].remote = lineage[c].base
    /\ Begin(c, "pull", "save", Moved(latest))
    /\ UNCHANGED <<manifests, latest, lineage, faults>>

\* A package already at the tag, with no commit to discard, is saved as it is.
Reset(c) ==
    /\ CanFetch(c)
    /\ Begin(c, "reset", "save",
             IF latest = lineage[c].remote /\ ~Pending(lineage[c])
             THEN lineage[c] ELSE Moved(latest))
    /\ UNCHANGED <<manifests, latest, lineage, faults>>

-----------------------------------------------------------------------------
(* How an operation ends *)

\* Certify's inner push saves its own entry and carries on to the tag.
SaveLineage(c) ==
    /\ op[c].at = "save"
    /\ Save(c, op[c].lin)
    /\ IF op[c].kind = "certify" THEN Begin(c, "promote", "tag", op[c].lin)
       ELSE op' = [op EXCEPT ![c] = Idle]
    /\ UNCHANGED <<manifests, latest, faults>>

\* An error, or a crash: what reached the bucket stays, the entry is not saved.
Fail(c) ==
    /\ Running(c)
    /\ faults < MaxFaults
    /\ op' = [op EXCEPT ![c] = Idle]
    /\ faults' = faults + 1
    /\ UNCHANGED <<manifests, latest, lineage>>

-----------------------------------------------------------------------------
LocalStep(c) ==
    \/ \E r \in Revisions : Create(c, r)
    \/ \E r \in Revisions : InstallPackage(c, r)
    \/ UninstallPackage(c)
    \/ \E r \in Revisions : Commit(c, r)
    \/ UndoCommit(c)
    \/ \E r \in Revisions : SetRemoteRecommit(c, r)
    \/ SetRemoteOnly(c)

PublishStep(c) ==
    \/ StartPush(c)
    \/ \E r \in Revisions : StartPublish(c, r)
    \/ StartPublishPending(c)
    \/ StartCertify(c)
    \/ UploadManifest(c)
    \/ \E r \in Revisions : UploadRehashed(c, r)
    \/ ResolveLatest(c)
    \/ TagLatest(c)

FetchStep(c) == PullUpToDate(c) \/ Pull(c) \/ Reset(c)

Next == \E c \in Clients : \/ LocalStep(c)
                           \/ PublishStep(c)
                           \/ FetchStep(c)
                           \/ SaveLineage(c)
                           \/ Fail(c)

Spec == Init /\ [][Next]_vars

-----------------------------------------------------------------------------
(* Properties *)

TypeOK ==
    /\ manifests \subseteq Revisions
    /\ latest \in Revisions \cup {NoHash}
    /\ lineage \in [Clients -> Entry \cup {NotInstalled}]
    /\ op \in [Clients -> Op]
    /\ faults \in 0..MaxFaults

Uploaded == manifests \cup {NoHash, NoRemote}

PointsAtUploaded(e) == {e.remote, e.base, e.latest} \subseteq Uploaded

\* Nothing ever names a revision the bucket does not hold: not the `latest`
\* tag other copies install from, and not a saved remote, base or latest hash,
\* however operations of several copies interleave, fail or crash.
NoDanglingPointer ==
    /\ latest \in Uploaded
    /\ \A c \in Clients : Installed(c) => PointsAtUploaded(lineage[c])

\* The writer invariants of a saved entry.  remote.hash and base_hash are both
\* empty or both set; until the first push the copy has a pending commit,
\* which is what keeps certify_latest from tagging an empty hash, and knows no
\* latest hash.
FirstPushShape(e) ==
    LET unpushed == e.remote \in {NoHash, NoRemote}
    IN  /\ unpushed <=> e.base = NoHash
        /\ unpushed => Pending(e) /\ e.latest = NoHash

WriterInvariants == \A c \in Clients : Installed(c) => FirstPushShape(lineage[c])

\* What makes these inductive: the entry an operation will save is sound too,
\* the uploaded commit is in the bucket before the tag is read, and from then
\* on the entry has its base.
InFlightOK(o) ==
    /\ o.at \in {"upload", "resolve"} => FirstPushShape(o.lin) /\ PointsAtUploaded(o.lin)
    /\ o.at = "resolve" => Head(o.lin.chain) \in manifests
    /\ o.at \in {"tag", "save"} => o.lin.base # NoHash /\ PointsAtUploaded(o.lin)

\* No operation, at any of its steps, holds an entry it could not save.
EntriesSound ==
    /\ TypeOK
    /\ NoDanglingPointer
    /\ WriterInvariants
    /\ \A c \in Clients : InFlightOK(op[c]) /\ (Running(c) => Installed(c))

\* What the package lock buys a running operation: the saved entry is still
\* the one it read, so its own entry holds the saved chain, that chain with
\* the commit it made, or nothing of it once the chain is taken for the push.
DerivedEntry(o, saved) ==
    /\ o.at \in {"upload", "resolve"} => saved.chain \in {o.lin.chain, Tail(o.lin.chain)}
    /\ o.at \in {"tag", "save"} =>
          IF o.kind \in {"push", "publish", "certify"}
          THEN /\ o.pushing # <<>>
               /\ saved.chain \in {o.pushing, Tail(o.pushing)}
               /\ o.lin.remote = Head(o.pushing)
               /\ o.lin.chain = <<>>
          ELSE o.kind = "reset" \/ o.lin.chain = saved.chain
    /\ o.kind = "promote" => o.lin.chain = <<>> /\ o.at \in {"tag", "save"}
    /\ o.kind = "promote" /\ o.at = "save" =>
          o.lin.base = o.lin.remote /\ o.lin.latest = o.lin.remote

LockInv == \A c \in Clients : DerivedEntry(op[c], lineage[c])

\* The inductive invariant: what is saved or in flight is sound, and what is in
\* flight is derived from what is saved.
IInv == EntriesSound /\ LockInv

\* A pending commit leaves a saved entry in one of four ways only: a later
\* commit records it in prev_hashes, undo steps back over it, reset discards
\* it, or a push uploaded it or a commit made on top of it.
PendingWorkKept ==
    [][\A c \in Clients :
         LET e == lineage[c]
             f == lineage'[c]
         IN  Installed(c) /\ Pending(e) /\ f # NotInstalled /\ f.chain # e.chain =>
               \/ Pending(f) /\ Tail(f.chain) = e.chain
               \/ e.remote = NoRemote /\ f.chain = Tail(e.chain)
               \/ op[c].kind = "reset"
               \/ /\ Head(e.chain) \in Range(op[c].pushing)
                  /\ f.remote = Head(op[c].pushing)
                  /\ f.remote \in manifests]_vars

\* Once the first push is made the copy stays attached to that remote: set
\* remote never empties the remote hash again, so undo, which needs a copy
\* with no remote, is over for good.
FirstPushIsFinal ==
    [][\A c \in Clients :
         Installed(c) /\ lineage[c].base # NoHash /\ lineage'[c] # NotInstalled =>
           lineage'[c].base # NoHash /\ lineage'[c].remote \in Revisions]_vars

\* Promote leaves the copy at the revision it tagged, in step with the tag it
\* wrote, whatever state it set out from and whatever the inner push met.
PromoteSettles ==
    [][\A c \in Clients :
         op[c].kind = "promote" /\ lineage'[c] # lineage[c] =>
           /\ UpstreamState(lineage'[c]) = "UpToDate"
           /\ lineage'[c].remote \in manifests]_vars

=============================================================================
