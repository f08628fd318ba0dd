----------------------------- MODULE LocalEntry ----------------------------
(***************************************************************************)
(* A package with no remote, file by file, as the working copy of          *)
(* PackageSync: what LocalCommits does in many steps, each of which may be *)
(* the last, is one Commit or one UndoCommit of the entry, or nothing.     *)
(***************************************************************************)
EXTENDS LocalCommits

CONSTANTS
    Here,         \* the working copy
    NoHash,       \* the markers of PackageSync
    NoRemote,
    NotInstalled

ASSUME MarkersAssumption ==
    NoHash \notin Revision /\ NoRemote \notin Revision \cup {NoHash}

\* The four hashes of a package that was never pushed.
FourHashes == [remote |-> NoRemote, base |-> NoHash, latest |-> NoHash, chain |-> lineage.chain]

Pk == INSTANCE PackageSync WITH
        Clients <- {Here}, Revisions <- Revision,
        MaxLocal <- MaxChain, MaxFaults <- 0,
        manifests <- {}, latest <- NoHash, faults <- 0,
        lineage <- [c \in {Here} |-> FourHashes],
        op <- [c \in {Here} |->
                 [kind |-> "idle", at |-> "idle", lin |-> NotInstalled, pushing |-> <<>>]]

ASSUME EntryMarked == NotInstalled \notin Pk!Entry

\* REFINEMENT.  From what a create leaves, the entry moves by a Commit of another
\* revision on top of the saved ones or by an UndoCommit, whatever is stopped and
\* wherever: no operation saves a chain it read before another's save, records the
\* revision that is current already, or undoes the first one (commit.rs
\* `commit_package`, undo_commit.rs `undo_commit`).
ImplementsEntry ==
    /\ \E r \in Revision : lineage.chain = <<r>>
    /\ [][lineage'.chain # lineage.chain
            => Pk!UndoCommit(Here) \/ \E r \in Revision : Pk!Commit(Here, r)]_vars

=============================================================================
