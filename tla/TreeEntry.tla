----------------------------- MODULE TreeEntry -----------------------------
(***************************************************************************)
(* A package's folder, file by file, as the working copy of PackageSync:   *)
(* a pull or a reset that moves and deletes many files, and may stop after *)
(* any of them, is one Pull or Reset and one SaveLineage of the entry, or  *)
(* nothing; downloads and uninstalls of files are nothing of it.  The tag  *)
(* is moved by the other copies.                                           *)
(***************************************************************************)
EXTENDS WorkingTree

CONSTANTS
    Here,         \* the working copy
    NoHash,       \* the markers of PackageSync
    NoRemote,
    NotInstalled

ASSUME MarkersAssumption ==
    NoHash \notin Revision /\ NoRemote \notin Revision \cup {NoHash}

\* The four hashes of a package at a revision, with no commit pending.
FourHashes(r) == [remote |-> r, base |-> r, latest |-> r, chain |-> <<>>]

\* Of the operation: a fetch of the revision that its entry will name.
Fetch ==
    IF op.kind \in {"pull", "reset"}
    THEN [kind |-> op.kind, at |-> "save", lin |-> FourHashes(op.to), pushing |-> <<>>]
    ELSE [kind |-> "idle", at |-> "idle", lin |-> NotInstalled, pushing |-> <<>>]

Pk == INSTANCE PackageSync WITH
        Clients <- {Here}, Revisions <- Revision,
        MaxLocal <- 1, MaxChain <- 1, MaxFaults <- 0,
        manifests <- Revision, faults <- 0,
        lineage <- [c \in {Here} |-> FourHashes(lineage.base)],
        op <- [c \in {Here} |-> Fetch]

ASSUME EntryMarked == NotInstalled \notin Pk!Entry

\* PackageSync's Fail, uncounted.
Dropped == Pk!Running(Here) /\ ~Pk!Running(Here)' /\ UNCHANGED lineage

\* REFINEMENT.  From what an install leaves, the entry moves only by a pull or a
\* reset to the revision the tag named when it began, saved whole at its end or
\* not at all, whatever the tag does meanwhile, wherever the operation stops and
\* however many files it has placed by then; and no download or uninstall runs
\* beside it or touches the hashes (apply_update.rs, reset_to_latest.rs,
\* install_paths.rs, uninstall_paths.rs).
ImplementsFetches ==
    /\ lineage.base = latest
    /\ [][ <<lineage.base, Fetch>>' # <<lineage.base, Fetch>>
             => \/ Pk!Pull(Here) \/ Pk!Reset(Here)
                \/ Pk!SaveLineage(Here)
                \/ Dropped ]_vars

=============================================================================
