---------------------------- MODULE WorkingTree ----------------------------
(***************************************************************************)
(* The working folder of one package: what a pull, a reset, a download and *)
(* an uninstall of paths do to its files, and how a pull tells the user's  *)
(* work from the revision's bytes.  One operation runs at a time (the      *)
(* package's lock); the user's own programs write files at any moment, the *)
(* `latest` tag moves, and an operation may stop between any two steps.    *)
(* The package has no pending commit (a pull refuses one).                 *)
(***************************************************************************)
EXTENDS Naturals

CONSTANTS
    Paths,
    Contents,
    Absent,       \* no file, or no row
    MaxEdits,     \* bound: the user's writes and deletes
    MaxRevisions, \* bound: moves of the latest tag
    MaxStops      \* bound: operations that fail or are killed midway

Content == Contents \cup {Absent}

\* A revision's rows; its hash is as good as its rows.
Revision == [Paths -> Content]

ASSUME WorkingTreeAssumption ==
    /\ Absent \notin Contents
    /\ MaxEdits \in Nat /\ MaxRevisions \in Nat /\ MaxStops \in Nat

VARIABLES
    files,    \* the working folder
    lineage,  \* the saved entry: the base revision and the tracked paths
    latest,   \* the revision the remote's tag names
    scope,    \* the paths a pull fetches though the copy does not track them
    rules,    \* ignore rules by path: none, the package's own, the user's
    op,       \* the operation that has the package's lock
    by,       \* who wrote a path last: the user; an operation not saved yet,
              \* for the latest revision or for another; or a saved operation
    edits, moves, stops

vars == <<files, lineage, latest, scope, rules, op, by, edits, moves, stops>>

Lineage == [base : Revision, tracked : SUBSET Paths]

Kinds == {"pull", "reset", "download", "uninstall"}

\* walking: before the status walk.  verifying: the touch set is known.
\* staged: everything is fetched.  placing: files are moved and deleted.
Stages == {"idle", "walking", "verifying", "staged", "placing"}

\* base, tracked: the lineage in memory.  to: the revision it becomes.
\* todo: the paths still to write.  gone: those still to delete.
Op == [kind : Kinds \cup {"none"}, stage : Stages, base : Revision,
       tracked : SUBSET Paths, to : Revision,
       todo : SUBSET Paths, gone : SUBSET Paths]

Idle == [kind |-> "none", stage |-> "idle", base |-> [p \in Paths |-> Absent],
         tracked |-> {}, to |-> [p \in Paths |-> Absent], todo |-> {}, gone |-> {}]

Begin(kind, stage, to, todo, gone) ==
    [kind |-> kind, stage |-> stage, base |-> lineage.base,
     tracked |-> lineage.tracked, to |-> to, todo |-> todo, gone |-> gone]

\* A package just installed: its manifest and no file.
Init ==
    /\ \E r \in Revision : latest = r /\ lineage = [base |-> r, tracked |-> {}]
    /\ files = [p \in Paths |-> Absent]
    /\ scope \in SUBSET Paths
    /\ rules \in [Paths -> {"none", "package", "user"}]
    /\ op = Idle
    /\ by = [p \in Paths |-> "base"]
    /\ edits = 0 /\ moves = 0 /\ stops = 0

-----------------------------------------------------------------------------
(* The status walk and the classification of a pull *)

\* A path the package already has is hidden only by the package's own rules.
Hidden(l, p) ==
    \/ rules[p] = "package"
    \/ rules[p] = "user" /\ p \notin l.tracked /\ l.base[p] = Absent

\* detect_change.
Change(l, p) ==
    IF p \in l.tracked /\ (files[p] = Absent \/ Hidden(l, p)) THEN "removed"
    ELSE IF files[p] = Absent \/ Hidden(l, p) \/ files[p] = l.base[p] THEN "none"
    ELSE IF l.base[p] = Absent THEN "added"
    ELSE "modified"

Delta(l, to) == {p \in Paths : l.base[p] # to[p]}

\* Both sides changed the path to the same result.
SameResult(l, to, p) ==
    IF Change(l, p) = "removed" THEN to[p] = Absent ELSE files[p] = to[p]

\* A file the walk gave no hash, where the remote writes: neither revision's.
InTheWay(l, to, p) ==
    /\ p \notin l.tracked /\ to[p] # Absent
    /\ files[p] \notin {Absent, l.base[p], to[p]}

Conflicts(l, to) ==
    {p \in Delta(l, to) :
        IF Change(l, p) = "none" THEN InTheWay(l, to, p) ELSE ~SameResult(l, to, p)}

TouchSet(l, to) ==
    {p \in Delta(l, to) : (p \in l.tracked \/ p \in scope) /\ Change(l, p) = "none"}

-----------------------------------------------------------------------------
Leave == op' = Idle

Environment == <<latest, scope, rules, edits, moves, stops>>

\* The user's programs, at any moment.
Edit(p, c) ==
    /\ edits < MaxEdits
    /\ edits' = edits + 1
    /\ c # files[p]
    /\ files' = [files EXCEPT ![p] = c]
    /\ by' = [by EXCEPT ![p] = "user"]
    /\ UNCHANGED <<lineage, latest, scope, rules, op, moves, stops>>

\* Another copy pushes.
MoveLatest(r) ==
    /\ moves < MaxRevisions
    /\ moves' = moves + 1
    /\ r # latest
    /\ latest' = r
    /\ by' = [p \in Paths |-> IF by[p] = "latest" THEN "stale" ELSE by[p]]
    /\ UNCHANGED <<files, lineage, scope, rules, op, edits, stops>>

\* The operation fails, or its process dies: nothing it had in memory is saved.
Stop ==
    /\ op.stage # "idle"
    /\ stops < MaxStops
    /\ stops' = stops + 1
    /\ Leave
    /\ UNCHANGED <<files, lineage, latest, scope, rules, by, edits, moves>>

-----------------------------------------------------------------------------
\* snapshot_for_pull: the tag is read once, before the walk.
StartPull ==
    /\ op.stage = "idle"
    /\ latest # lineage.base
    /\ op' = Begin("pull", "walking", latest, {}, {})
    /\ UNCHANGED <<files, lineage, by>> /\ UNCHANGED Environment

\* classify_pull and touch_set.  The status walk cannot name a tracked path the
\* base has no row for, and fails.
Walk ==
    /\ op.stage = "walking"
    /\ IF \/ \E p \in op.tracked : op.base[p] = Absent
          \/ Conflicts(op, op.to) # {}
       THEN Leave
       ELSE op' = [op EXCEPT !.stage = "verifying",
                             !.todo = {p \in TouchSet(op, op.to) : op.to[p] # Absent},
                             !.gone = {p \in TouchSet(op, op.to) \cap op.tracked :
                                          op.to[p] = Absent}]
    /\ UNCHANGED <<files, lineage, by>> /\ UNCHANGED Environment

\* Every tracked path of the touch set still holds its base row, or the pull is
\* refused before a byte is fetched.
Verify ==
    /\ op.stage = "verifying"
    /\ IF \E p \in (op.todo \cup op.gone) \cap op.tracked : files[p] # op.base[p]
       THEN Leave
       ELSE op' = [op EXCEPT !.stage = "placing"]
    /\ UNCHANGED <<files, lineage, by>> /\ UNCHANGED Environment

\* reset_to_latest: every tracked path, whatever it holds.
StartReset ==
    /\ op.stage = "idle"
    /\ latest # lineage.base
    /\ op' = Begin("reset", "placing", latest,
                   {p \in lineage.tracked : latest[p] # Absent},
                   {p \in lineage.tracked : latest[p] = Absent})
    /\ UNCHANGED <<files, lineage, by>> /\ UNCHANGED Environment

\* install_paths refuses a path with no row, and one where a file is.
StartDownload(ps) ==
    /\ op.stage = "idle"
    /\ \A p \in ps \ lineage.tracked : lineage.base[p] # Absent /\ files[p] = Absent
    /\ op' = Begin("download", "staged", lineage.base, ps \ lineage.tracked, {})
    /\ UNCHANGED <<files, lineage, by>> /\ UNCHANGED Environment

\* What was fetched: a row whose bytes the remote no longer holds is left out.
\* place_where_absent looks again at every destination before the first rename.
CheckAbsent ==
    /\ op.stage = "staged"
    /\ \E fetched \in SUBSET op.todo :
          IF \E p \in fetched : files[p] # Absent
          THEN Leave
          ELSE op' = [op EXCEPT !.stage = "placing", !.todo = fetched]
    /\ UNCHANGED <<files, lineage, by>> /\ UNCHANGED Environment

StartUninstall(ps) ==
    /\ op.stage = "idle"
    /\ op' = Begin("uninstall", "placing", lineage.base, {}, ps)
    /\ UNCHANGED <<files, lineage, by>> /\ UNCHANGED Environment

\* What a pull demands of a destination at the moment it replaces it.
Unchanged(p) ==
    IF p \notin op.tracked /\ files[p] \in {Absent, op.to[p]} THEN TRUE
    ELSE IF op.base[p] # Absent THEN files[p] = op.base[p]
    ELSE p \in op.tracked

Writer == IF op.to = latest THEN "latest" ELSE "stale"

\* Mutant: the verification before the fetch is trusted.
Place_Unchecked(p) ==
    /\ op.stage = "placing"
    /\ p \in op.todo
    /\ files' = [files EXCEPT ![p] = op.to[p]]
    /\ by' = [by EXCEPT ![p] = Writer]
    /\ op' = [op EXCEPT !.todo = @ \ {p}, !.tracked = @ \cup {p}]
    /\ UNCHANGED lineage /\ UNCHANGED Environment

\* swap_staged_into_place: one check and one rename.
Place(p) ==
    /\ op.stage = "placing"
    /\ p \in op.todo
    /\ IF op.kind = "pull" /\ ~Unchanged(p)
       THEN Leave /\ UNCHANGED <<files, by>>
       ELSE /\ files' = [files EXCEPT ![p] = op.to[p]]
            /\ by' = [by EXCEPT ![p] = Writer]
            /\ op' = [op EXCEPT !.todo = @ \ {p}, !.tracked = @ \cup {p}]
    /\ UNCHANGED lineage /\ UNCHANGED Environment

\* Mutant: the files go before their replacements are in place.
Delete_Early(p) ==
    /\ op.stage = "placing"
    /\ p \in op.gone \cup (op.todo \cap op.tracked)
    /\ IF p \in op.tracked
       THEN /\ files' = [files EXCEPT ![p] = Absent]
            /\ by' = [by EXCEPT ![p] = Writer]
            /\ op' = [op EXCEPT !.gone = @ \ {p}, !.tracked = @ \ {p}]
       ELSE Leave /\ UNCHANGED <<files, by>>
    /\ UNCHANGED lineage /\ UNCHANGED Environment

\* uninstall_paths, after the last rename: no look at what the file holds, and
\* an error on a path the copy does not track.
Delete(p) ==
    /\ op.stage = "placing"
    /\ op.todo = {}
    /\ p \in op.gone
    /\ IF p \in op.tracked
       THEN /\ files' = [files EXCEPT ![p] = Absent]
            /\ by' = [by EXCEPT ![p] = IF op.kind = "uninstall" THEN "user" ELSE Writer]
            /\ op' = [op EXCEPT !.gone = @ \ {p}, !.tracked = @ \ {p}]
       ELSE Leave /\ UNCHANGED <<files, by>>
    /\ UNCHANGED lineage /\ UNCHANGED Environment

Settled(l, p) ==
    files[p] = IF p \in l.tracked THEN l.base[p] ELSE Absent

\* Mutant: the rows that have no path any more stay tracked.
Save_NoPrune ==
    /\ op.stage = "placing"
    /\ op.todo = {} /\ op.gone = {}
    /\ lineage' = [base |-> op.to, tracked |-> op.tracked]
    /\ by' = [p \in Paths |-> IF Settled(lineage', p) THEN "base" ELSE by[p]]
    /\ Leave
    /\ UNCHANGED files /\ UNCHANGED Environment

\* Mutant: the tag is read again for the entry.
Save_AtTheTag ==
    /\ op.stage = "placing"
    /\ op.todo = {} /\ op.gone = {}
    /\ LET to == IF op.kind \in {"pull", "reset"} THEN latest ELSE op.to IN
       lineage' = [base |-> to, tracked |-> {p \in op.tracked : to[p] # Absent}]
    /\ by' = [p \in Paths |-> IF Settled(lineage', p) THEN "base" ELSE by[p]]
    /\ Leave
    /\ UNCHANGED files /\ UNCHANGED Environment

\* The lineage in memory, less the paths the new base has no row for, becomes
\* the saved one.
Save ==
    /\ op.stage = "placing"
    /\ op.todo = {} /\ op.gone = {}
    /\ lineage' = [base |-> op.to, tracked |-> {p \in op.tracked : op.to[p] # Absent}]
    /\ by' = [p \in Paths |-> IF Settled(lineage', p) THEN "base" ELSE by[p]]
    /\ Leave
    /\ UNCHANGED files /\ UNCHANGED Environment

-----------------------------------------------------------------------------
Step ==
    \/ Walk
    \/ Verify
    \/ CheckAbsent
    \/ \E p \in Paths : Place(p) \/ Delete(p)
    \/ Save

Next ==
    \/ \E p \in Paths, c \in Content : Edit(p, c)
    \/ \E r \in Revision : MoveLatest(r)
    \/ StartPull
    \/ StartReset
    \/ \E ps \in SUBSET Paths \ {{}} : StartDownload(ps) \/ StartUninstall(ps)
    \/ Step
    \/ Stop

Spec == Init /\ [][Next]_vars

-----------------------------------------------------------------------------
(* Properties *)

TypeOK ==
    /\ files \in Revision
    /\ lineage \in Lineage
    /\ latest \in Revision
    /\ scope \in SUBSET Paths
    /\ rules \in [Paths -> {"none", "package", "user"}]
    /\ op \in Op
    /\ by \in [Paths -> {"user", "latest", "stale", "base"}]
    /\ edits \in 0..MaxEdits /\ moves \in 0..MaxRevisions /\ stops \in 0..MaxStops

\* Every tracked path has a row in the base: the status walk fails on one that
\* has none, and with it every later pull and commit.
TrackedHaveRows ==
    \A p \in lineage.tracked : lineage.base[p] # Absent

\* A path only saved operations wrote holds the base's row if the copy tracks
\* it, and no file if it does not (a file the package's rules hide may stay
\* behind when the remote drops its row); one an operation wrote for the latest
\* revision holds that revision's row.
WrittenByUs ==
    \A p \in Paths :
        /\ by[p] = "base" /\ (p \in lineage.tracked \/ rules[p] = "none") =>
              Settled(lineage, p)
        /\ by[p] = "latest" => files[p] = latest[p]

\* Where an operation stands: what it left out of todo and gone needs no change.
OpOK ==
    /\ op.stage = "idle" => op = Idle
    /\ op.stage # "idle" =>
          /\ op.base = lineage.base
          /\ op.kind \notin {"pull", "reset"} => op.to = lineage.base
          /\ \A p \in op.tracked \ lineage.tracked : by[p] # "base" /\ p \notin op.todo
          /\ \A p \in lineage.tracked \ op.tracked : by[p] # "base"
    /\ op.stage \in {"walking", "verifying", "staged"} => op.tracked = lineage.tracked
    /\ op.stage = "staged" => op.to = lineage.base
    /\ op.stage \in {"verifying", "staged", "placing"} =>
          /\ \A p \in op.todo : op.to[p] # Absent
          /\ op.kind # "uninstall" => \A p \in op.gone : op.to[p] = Absent
          /\ \A p \in lineage.tracked \ (op.todo \cup op.gone) :
                by[p] = "base" =>
                    \/ op.to[p] = lineage.base[p]
                    \/ op.to[p] = Absent /\ rules[p] = "package"

IInv == TypeOK /\ TrackedHaveRows /\ WrittenByUs /\ OpOK

\* A renaming step of a pull replaces nothing but a revision's bytes: what the
\* user wrote after the walk, the verification or the fetch stays.
RenamesKeepEdits ==
    [][ \A p \in Paths :
          op.kind = "pull" /\ files'[p] # files[p] /\ files'[p] # Absent
              /\ edits' = edits
          => files[p] \in {Absent, op.base[p]} ]_vars

\* A pull stopped midway can be repeated: nothing but the user's work, a rule
\* that hides the path, or bytes of a revision that is no longer the latest,
\* ever blocks a pull.
OnlyEditsBlock ==
    \A p \in Conflicts(lineage, latest) : by[p] \in {"user", "stale"} \/ rules[p] # "none"

=============================================================================
