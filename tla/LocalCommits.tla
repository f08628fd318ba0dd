---------------------------- MODULE LocalCommits ---------------------------
(***************************************************************************)
(* Local revisions of a package with no remote: the status walk and its    *)
(* stat cache, the commit that files what the walk found, and the undo     *)
(* that restores the revision before.  One operation runs at a time (the   *)
(* package's lock), and a status walk, which takes no lock, beside it; the *)
(* user's programs write files at any moment, and an operation may fail or *)
(* die between any two steps, within a copy too.                           *)
(*                                                                         *)
(* A revision is its rows, its hash as good as they are.  Edits keep a     *)
(* file's size, and the file system's clock counts seconds, the worst case *)
(* of the stat cache: a finer one has more files hashed.  A walk hashes    *)
(* and saves in one step: an edit in between would do to the entry what it *)
(* does once saved.  Paths do not nest; ignored files, workflows,          *)
(* messages and metadata are left out.                                     *)
(***************************************************************************)
EXTENDS Naturals, Sequences

CONSTANTS
    Paths,
    Contents,
    Part,      \* what a file half copied holds
    Absent,    \* no file, no row, no object
    MaxEdits,  \* bound: the user's writes, deletes and uninstalled paths
    MaxChain,  \* bound: revisions in the chain
    MaxStops   \* bound: operations that fail or are killed midway

ASSUME LocalCommitsAssumption ==
    /\ Part \in Contents /\ Absent \notin Contents
    /\ MaxEdits \in Nat /\ MaxChain \in Nat /\ MaxStops \in Nat

Content == Contents \cup {Absent}
Revision == [Paths -> Content]

VARIABLES
    files,     \* the working folder
    recent,    \* the files written in the current second
    objects,   \* what each object file holds, by the content that names it
    manifests, \* the installed manifests
    lineage,   \* the saved entry: the commit and those before it, the tracked paths
    cache,     \* the stat cache
    walks,     \* the walk of a commit, and one of a status
    op,        \* the operation that has the package's lock
    touched,   \* the paths the user wrote since the operation read them
    torn,      \* the objects whose copy stopped midway or met an edit
    edits, stops

vars == <<files, recent, objects, manifests, lineage, cache, walks, op, touched,
          torn, edits, stops>>

Head1 == Head(lineage.chain)

Files(rows) == {p \in Paths : rows[p] # Absent}

\* A stamp is "old" when it was read after the second it names, "now" when it names
\* the current second, and "racy" when it did; a stamp the file bears no more is
\* "lost", and an entry with it as good as none.
NoEntry == [hash |-> Absent, stamp |-> "lost"]

NoWalk == [on |-> FALSE, seen |-> [p \in Paths |-> Absent], found |-> {}, gone |-> {},
           stamps |-> [p \in Paths |-> NoEntry]]

Idle == [kind |-> "none", at |-> "idle", seen |-> [p \in Paths |-> Absent],
         todo |-> {}, now |-> Absent]

\* A package just created from its folder.
Init ==
    /\ files \in [Paths -> Content \ {Part}]
    /\ recent = {}
    /\ objects = [c \in Contents |-> IF \E p \in Paths : files[p] = c THEN c ELSE Absent]
    /\ manifests = {files}
    /\ lineage = [chain |-> <<files>>, tracked |-> Files(files)]
    /\ cache = [p \in Paths |-> NoEntry]
    /\ walks = [w \in {"commit", "status"} |-> NoWalk]
    /\ op = Idle
    /\ touched = {} /\ torn = {}
    /\ edits = 0 /\ stops = 0

saved == <<manifests, lineage>>
bounds == <<edits, stops>>

-----------------------------------------------------------------------------
(* The user's programs, and time *)

\* A write in the second of a saved stamp gives the file that stamp again.
Rewritten(entry) == IF entry.stamp = "now" THEN entry ELSE NoEntry

\* Any program's write, or removal, of a file.
Writes(p, c) ==
    /\ files' = [files EXCEPT ![p] = c]
    /\ recent' = recent \cup {p}
    /\ cache' = [cache EXCEPT ![p] = Rewritten(@)]
    /\ walks' = [w \in DOMAIN walks |-> [walks[w] EXCEPT !.stamps[p] = Rewritten(@)]]

Edit(p, c) ==
    /\ edits < MaxEdits
    /\ edits' = edits + 1
    /\ c # files[p]
    /\ Writes(p, c)
    /\ touched' = IF op.at = "idle" THEN touched ELSE touched \cup {p}
    /\ UNCHANGED <<op, objects, saved, torn, stops>>

Aged(entries) == [p \in Paths |->
    [entries[p] EXCEPT !.stamp = IF @ = "now" THEN "racy" ELSE @]]

SecondPasses ==
    /\ recent' = {}
    /\ cache' = Aged(cache)
    /\ walks' = [w \in DOMAIN walks |-> [walks[w] EXCEPT !.stamps = Aged(@)]]
    /\ UNCHANGED <<files, op, objects, saved, touched, torn, bounds>>

\* What the operation held in memory is gone.
Ends ==
    /\ op' = Idle /\ touched' = {}
    /\ walks' = [walks EXCEPT !["commit"] = NoWalk]

Stop ==
    /\ op.at # "idle" /\ stops < MaxStops
    /\ stops' = stops + 1
    /\ Ends
    /\ torn' = IF op.at = "copying" THEN torn \cup {op.seen[op.now]} ELSE torn
    /\ UNCHANGED <<files, recent, objects, saved, cache, edits>>

-----------------------------------------------------------------------------
(* The status walk *)

\* Mutant of Trusted: an entry saved in the second of its stamp is trusted.
Trusted_Racy(entry) == entry.stamp # "lost"

Trusted(entry) == entry.stamp = "old"

\* A walk stamps every file; all are to be hashed in a full one.
Walked(full) ==
    [on |-> TRUE, found |-> Files(files),
     seen |-> [p \in Paths |-> IF p \in Files(files) /\ ~full /\ Trusted(cache[p])
                               THEN cache[p].hash ELSE Absent],
     gone |-> {p \in Paths \ Files(files) : cache[p] # NoEntry},
     stamps |-> [p \in Paths |-> IF p \in Files(files)
                  THEN [NoEntry EXCEPT !.stamp = IF p \in recent THEN "now" ELSE "old"]
                  ELSE NoEntry]]

Walk(w, full) ==
    /\ ~walks[w].on
    /\ walks' = [walks EXCEPT ![w] = Walked(full)]
    /\ IF w = "status" THEN UNCHANGED op
       ELSE op.at = "idle" /\ op' = [Idle EXCEPT !.kind = "commit", !.at = "walking"]
    /\ UNCHANGED <<files, recent, objects, saved, cache, touched, torn, bounds>>

Fresh(walk) == {p \in walk.found : walk.seen[p] = Absent}

\* What the walk hashed goes into the cache, what it did not find goes.
Saved(walk) == [p \in Paths |->
    IF p \in Fresh(walk) /\ walk.stamps[p] # NoEntry
    THEN [walk.stamps[p] EXCEPT !.hash = files[p]]
    ELSE IF p \in Fresh(walk) \cup walk.gone THEN NoEntry ELSE cache[p]]

\* The files whose stamp told nothing are hashed, and the cache saved.
StatusHashes ==
    /\ walks["status"].on
    /\ walks' = [walks EXCEPT !["status"] = NoWalk]
    /\ cache' = IF \E p \in Fresh(walks["status"]) : files[p] = Absent
                THEN cache ELSE Saved(walks["status"])
    /\ UNCHANGED <<files, recent, objects, saved, op, touched, torn, bounds>>

CommitHashes ==
    /\ walks["commit"].on
    /\ LET walk == walks["commit"] IN
       IF \E p \in Fresh(walk) : files[p] = Absent THEN Ends /\ UNCHANGED cache
       ELSE /\ cache' = Saved(walk)
            /\ walks' = [walks EXCEPT !["commit"] = NoWalk]
            /\ op' = [op EXCEPT !.at = "walked", !.seen =
                         [p \in Paths |-> IF p \in Fresh(walk) THEN files[p] ELSE walk.seen[p]]]
            /\ UNCHANGED touched
    /\ UNCHANGED <<files, recent, objects, saved, torn, bounds>>

-----------------------------------------------------------------------------
(* Commit *)

\* A row whose path is not tracked stays when its file is absent.
Keeps(p) == op.seen[p] = Absent /\ p \notin lineage.tracked

Rows == [p \in Paths |-> IF Keeps(p) THEN Head1[p] ELSE op.seen[p]]

Changed == {p \in Paths : Rows[p] # Head1[p]}

Rehashed == [p \in Paths |-> IF p \in Changed /\ op.seen[p] # Absent THEN files[p] ELSE op.seen[p]]

\* Added and modified files are hashed again, without the cache.
Rehash ==
    /\ op.at = "walked"
    /\ IF \E p \in Changed : op.seen[p] # Absent /\ files[p] = Absent THEN Ends
       ELSE /\ op' = [op EXCEPT !.at = "copy", !.seen = Rehashed,
                  !.todo = {p \in Changed : Rehashed[p] \notin {Absent, Head1[p]}}]
            /\ touched' = touched \ Changed
            /\ UNCHANGED walks
    /\ UNCHANGED <<files, recent, objects, saved, cache, torn, bounds>>

\* An object there is taken for right.
Copy(p) ==
    /\ op.at = "copy" /\ p \in op.todo
    /\ IF files[p] = Absent THEN Ends /\ UNCHANGED objects
       ELSE /\ IF objects[op.seen[p]] # Absent
               THEN op' = [op EXCEPT !.todo = @ \ {p}] /\ UNCHANGED objects
               ELSE /\ op' = [op EXCEPT !.at = "copying", !.now = p, !.todo = @ \ {p}]
                    /\ objects' = [objects EXCEPT ![op.seen[p]] = Part]
            /\ UNCHANGED <<walks, touched>>
    /\ UNCHANGED <<files, recent, saved, cache, torn, bounds>>

\* A file written meanwhile is copied as it was, as it is, or in part.
Copied ==
    /\ op.at = "copying"
    /\ LET h == op.seen[op.now]
           met == op.now \in touched IN
       /\ \E held \in (IF met THEN {h, files[op.now], Part} ELSE {files[op.now]}) \ {Absent} :
            objects' = [objects EXCEPT ![h] = held]
       /\ torn' = IF met THEN torn \cup {h} ELSE torn
    /\ IF files[op.now] = Absent THEN Ends
       ELSE op' = [op EXCEPT !.at = "copy", !.now = Absent] /\ UNCHANGED <<walks, touched>>
    /\ UNCHANGED <<files, recent, saved, cache, bounds>>

\* Mutant: a revision equal to the head is filed again.
FileManifest_Unchanged ==
    /\ op.at = "copy" /\ op.todo = {} /\ Len(lineage.chain) < MaxChain
    /\ manifests' = manifests \cup {Rows}
    /\ op' = [op EXCEPT !.at = "filed"]
    /\ UNCHANGED <<walks, touched, files, recent, objects, lineage, cache, torn, bounds>>

\* A revision equal to the head is none.
FileManifest ==
    /\ op.at = "copy" /\ op.todo = {}
    /\ \/ Rows = Head1 /\ Ends /\ UNCHANGED manifests
       \/ /\ Rows # Head1 /\ Len(lineage.chain) < MaxChain
          /\ manifests' = manifests \cup {Rows}
          /\ op' = [op EXCEPT !.at = "filed"]
          /\ UNCHANGED <<walks, touched>>
    /\ UNCHANGED <<files, recent, objects, lineage, cache, torn, bounds>>

Gone == {p \in lineage.tracked : op.seen[p] = Absent}

SaveCommit ==
    /\ op.at = "filed"
    /\ lineage' = [chain |-> <<Rows>> \o lineage.chain,
                   tracked |-> (lineage.tracked \cup Changed) \ Gone]
    /\ Ends
    /\ UNCHANGED <<files, recent, objects, manifests, cache, torn, bounds>>

-----------------------------------------------------------------------------
(* Undo, and removing files from the folder only *)

Second == lineage.chain[2]

Delta == {p \in Paths : Head1[p] # Second[p]}

\* Mutant of Restores: only the files the head modified are restored.
Restores_Modified == {p \in Delta : Second[p] # Absent /\ Head1[p] # Absent}

Restores == {p \in Delta : Second[p] # Absent}

\* Mutant of Checked: a destination the package does not track is not asked about.
Checked_Tracked == lineage.tracked

Checked == lineage.tracked \cup Restores

Undo ==
    /\ op.at = "idle" /\ Len(lineage.chain) > 1
    /\ op' = [Idle EXCEPT !.kind = "undo", !.at = "checking", !.todo = Checked]
    /\ UNCHANGED <<walks, files, recent, objects, saved, cache, touched, torn, bounds>>

\* One file that is not what the head says, and the undo is refused.
Check(p) ==
    /\ op.at = "checking" /\ p \in op.todo
    /\ IF files[p] # Head1[p] THEN Ends
       ELSE /\ op' = [op EXCEPT !.todo = @ \ {p}] /\ touched' = touched \ {p}
            /\ UNCHANGED walks
    /\ UNCHANGED <<files, recent, objects, saved, cache, torn, bounds>>

Agreed ==
    /\ op.at = "checking" /\ op.todo = {}
    /\ op' = [op EXCEPT !.at = "restoring", !.todo = Delta]
    /\ UNCHANGED <<walks, files, recent, objects, saved, cache, touched, torn, bounds>>

Restore(p) ==
    /\ op.at = "restoring" /\ p \in op.todo \cap Restores
    /\ IF objects[Second[p]] = Absent
       THEN Ends /\ UNCHANGED <<files, recent, cache>>
       ELSE /\ Writes(p, Part)
            /\ op' = [op EXCEPT !.at = "writing", !.now = p, !.todo = @ \ {p}]
            /\ UNCHANGED touched
    /\ UNCHANGED <<objects, saved, torn, bounds>>

Restored ==
    /\ op.at = "writing"
    /\ Writes(op.now, objects[Second[op.now]])
    /\ op' = [op EXCEPT !.at = "restoring", !.now = Absent]
    /\ UNCHANGED <<objects, saved, touched, torn, bounds>>

\* Files the restored revision has not go last.
Remove(p) ==
    /\ op.at = "restoring" /\ op.todo \cap Restores = {} /\ p \in op.todo
    /\ Writes(p, Absent)
    /\ op' = [op EXCEPT !.todo = @ \ {p}]
    /\ UNCHANGED <<objects, saved, touched, torn, bounds>>

SaveUndo ==
    /\ op.at = "restoring" /\ op.todo = {}
    /\ lineage' = [chain |-> Tail(lineage.chain),
                   tracked |-> (lineage.tracked \ Delta) \cup Restores]
    /\ Ends
    /\ UNCHANGED <<files, recent, objects, manifests, cache, torn, bounds>>

\* One step: stopped after the file went, the package is as if the user had.
UninstallPath(p) ==
    /\ op.at = "idle" /\ p \in lineage.tracked
    /\ edits < MaxEdits
    /\ edits' = edits + 1
    /\ Writes(p, Absent)
    /\ lineage' = [lineage EXCEPT !.tracked = @ \ {p}]
    /\ UNCHANGED <<objects, manifests, op, touched, torn, stops>>

-----------------------------------------------------------------------------

Next ==
    \/ \E p \in Paths, c \in Content \ {Part} : Edit(p, c)
    \/ SecondPasses \/ Stop
    \/ \E w \in DOMAIN walks, full \in BOOLEAN : Walk(w, full)
    \/ StatusHashes \/ CommitHashes \/ Rehash
    \/ \E p \in Paths : Copy(p)
    \/ Copied \/ FileManifest \/ SaveCommit
    \/ Undo \/ Agreed
    \/ \E p \in Paths : Check(p) \/ Restore(p) \/ Remove(p) \/ UninstallPath(p)
    \/ Restored \/ SaveUndo

Spec == Init /\ [][Next]_vars

-----------------------------------------------------------------------------
(* Properties *)

Entry == [hash : Content, stamp : {"lost", "old", "now", "racy"}]

CommitStages == {"walking", "walked", "copy", "copying", "filed"}
UndoStages == {"checking", "restoring", "writing"}

TypeOK ==
    /\ files \in Revision
    /\ recent \subseteq Paths /\ touched \subseteq Paths
    /\ objects \in [Contents -> Content]
    /\ manifests \subseteq Revision
    /\ lineage \in [chain : Seq(Revision) \ {<<>>}, tracked : SUBSET Paths]
    /\ cache \in [Paths -> Entry]
    /\ walks \in [{"commit", "status"} ->
                   [on : BOOLEAN, seen : Revision, found : SUBSET Paths, gone : SUBSET Paths,
                    stamps : [Paths -> Entry]]]
    /\ op \in [kind : {"none", "commit", "undo"}, at : {"idle"} \cup CommitStages \cup UndoStages,
               seen : Revision, todo : SUBSET Paths, now : Paths \cup {Absent}]
    /\ torn \subseteq Contents
    /\ edits \in 0..MaxEdits /\ stops \in 0..MaxStops

\* Every revision the package can go back to is filed: its manifest is
\* installed and there is an object for each of its rows.
ChainIsFiled ==
    \A i \in DOMAIN lineage.chain : LET rows == lineage.chain[i] IN
      /\ rows \in manifests
      /\ \A p \in Files(rows) : objects[rows[p]] # Absent

\* An object not of its name's content is one whose copy stopped midway or
\* met an edit.
HonestObjects == \A c \in Contents : objects[c] \notin {Absent, c} =>
    c \in torn \/ (op.at = "copying" /\ c = op.seen[op.now])

\* A saved hash the next walk would take for a file's is the file's.
CacheIsTrue == \A p \in Paths : files[p] # Absent /\ Trusted(cache[p]) => cache[p].hash = files[p]

\* The package tracks no file its head revision lacks.
TracksHead == lineage.tracked \subseteq Files(Head1)

\* A commit in flight: what it will file has its objects but for those still to
\* copy, it copies what it hashed, or what the user wrote since, and what it has
\* filed is no revision that is current already.
CommitOK ==
    /\ op.at \in {"copy", "copying", "filed"} =>
          \A p \in Files(Rows) : p \in op.todo \/ objects[Rows[p]] # Absent
    /\ op.at \in {"copy", "copying"} =>
          \A p \in op.todo : op.seen[p] # Absent /\ (op.seen[p] = files[p] \/ p \in touched)
    /\ op.at = "copying" =>
          /\ op.now \in Paths /\ op.seen[op.now] # Absent
          /\ op.seen[op.now] = files[op.now] \/ op.now \in touched
    /\ op.at = "filed" => /\ Rows \in manifests /\ op.todo = {}
                          /\ Rows # Head1 /\ Len(lineage.chain) < MaxChain

\* An undo in flight: what it asked about and has yet to change is as the head
\* says, what it has changed or leaves alone as the revision before says.
UndoOK ==
    op.at \in UndoStages =>
      /\ Len(lineage.chain) > 1
      /\ op.at = "checking" => \A p \in Checked \ op.todo : files[p] = Head1[p] \/ p \in touched
      /\ op.at # "checking" =>
            /\ op.todo \subseteq Delta
            /\ \A p \in Checked \cap op.todo : files[p] = Head1[p] \/ p \in touched
            /\ \A p \in (lineage.tracked \cup Delta) \ op.todo :
                  \/ files[p] = Second[p] \/ p \in touched \/ Second[p] \in torn
                  \/ op.at = "writing" /\ p = op.now
      /\ op.at = "writing" => op.now \in Restores \ op.todo /\ objects[Second[op.now]] # Absent

OpOK ==
    /\ op.kind = "commit" <=> op.at \in CommitStages
    /\ op.kind = "undo" <=> op.at \in UndoStages
    /\ walks["commit"].on => op.at = "walking"
    /\ CommitOK /\ UndoOK

\* The package's record, objects and stat cache stay true to each other and
\* to the folder, whatever is stopped and whatever is written meanwhile.
IInv == TypeOK /\ ChainIsFiled /\ HonestObjects /\ CacheIsTrue /\ TracksHead /\ OpOK

\* The undo writes over, or removes, a file it is to ask about only when the
\* file holds what the undone revision committed there; a write after the
\* question goes unseen.  (It removes a file it does not ask about: one that
\* is not tracked and that the restored revision lacks.)
UndoSparesEdits == [][
    op.kind = "undo" /\ edits' = edits =>
      \A p \in lineage.tracked \cup {q \in Delta : Second[q] # Absent} :
        files'[p] # files[p] => files[p] = Head1[p] \/ p = op.now \/ p \in touched]_vars

\* An undo that is saved has brought back the revision before: each file that
\* the package tracks or the undo changes is that revision's, unless the user
\* wrote it meanwhile or its object is torn.
UndoRestores == [][
    op.kind = "undo" /\ lineage' # lineage =>
      \A p \in lineage.tracked \cup Delta :
        files[p] = Second[p] \/ p \in touched \/ Second[p] \in torn]_vars

\* What the commit's rehash is for: objects are named by what they hold.
ObjectsHoldTheirNames ==
    op.at # "copying" => \A c \in Contents : objects[c] \in {Absent, c}

=============================================================================
