# TLA+ models of quilt-rs

This directory holds TLA+ models of the parts of this repository where several
actors meet: working copies that share a bucket, processes that share one
`.quilt` directory or one login, an operation and the user who edits the files
it reads or writes, the loops and timers of the desktop engine, an agent and
the engine that may die under it.
TLC checks each model on a small instance; TLAPS proves the safety properties
of all eleven components for every value of the constants. All definitions are
translated from the Rust sources; `PROJECT.json` maps each definition to the lines
it stands for.

    tlc -workers 2 -config MCPathLock.cfg MCPathLock     # one run
    tlapm PackageSync_proofs.tla                         # one module's proofs

1. [The system](#1-the-system)
2. [The modules](#2-the-modules)
3. [The runs](#3-the-runs)
4. [The proofs](#4-the-proofs)
5. [Where the code and its documents differ](#5-where-the-code-and-its-documents-differ)
6. [What is not modelled](#6-what-is-not-modelled)
7. [Plan](#7-plan)

## 1. The system

Quilt versions datasets. A **package** is a namespace (`owner/name`) in an S3
bucket; a **revision** of it is a manifest, named by its top hash, whose rows
map logical paths to content-addressed objects. `quilt-rs` is the library,
`quilt-cli` and the desktop engine `quilt-sync/src-tauri` call it, often at the
same time and from different processes, over one domain directory:

    <domain>/.quilt/data.json          home directory, one lineage entry per package
             .quilt/data.json.lock     the short lock
             .quilt/locks/<ns>.lock    a lock per package
             .quilt/objects/           objects, shared by all packages
             .quilt/installed/, packages/   manifests in use, manifests cached
             .auth/<host>/             tokens.json, credentials.json, client.json
             .auth/.locks/<host>       a lock per catalog host
    <home>/<owner>/<name>/             the working folder the user edits

### Inventory

For each component: its state, its operations, whom it meets, what is hard and
what must hold. "Modelled by" is empty where section 6 says why.

**Lineage entry and synchronisation** (`installed_package.rs`,
`lineage/package.rs`, `flow/push.rs`, `publish.rs`, `certify_latest.rs`,
`pull.rs`, `reset_to_latest.rs`). State: the entry's four hashes (pending
commit, `remote.hash`, `base_hash`, `latest_hash`), the bucket's manifests and
its mutable `latest` tag. Operations: create, install, commit, undo, set remote
(with or without recommit), push, publish, Certify Latest, pull, reset,
uninstall. Copies of other users meet it through the tag only. Hard: the tag is
read, judged and written in separate requests; an operation works on a copy of
the entry and saves it once at the end, so an error in between leaves the bucket
ahead of the entry. Must hold: no pointer to a revision the bucket lacks; no
pending commit lost; a settled state after each user action that promises one;
autosync does not stay behind. *Modelled by PackageSync.*

**Lock on one path** (`io/storage/lock.rs`). State: a registry of async mutexes
per process, OS locks on open files. Operations: lock, try-lock, drop. Hard:
futures are cancelled while a blocking thread waits for the file; two open files
conflict inside one process; a process dies. Must hold: one holder over all
processes; one parked thread per process and path; the lock is never lost.
*Modelled by PathLock, which implements ExclusiveLock.*

**Package lock** (`package_lock.rs`). One path lock per package, held from the
first read of an entry to its save. *Used as a lock in LineageStore and
ObjectStore.*

**Domain record** (`lineage.rs`, `lineage/home.rs`, `local_domain.rs`). State:
`data.json`. Operations: install and create (splice a new entry), write and
edit (replace one), uninstall (drop one), set home and overwrite home. Hard: all
of them rewrite one file; two locks are nested; the check that guards a move of
the home looks at entries already saved. Must hold: no save lost or applied
twice; a writer replaces the entry it read; nobody waits for ever. *Modelled by
LineageStore, which implements EntryRegisters.*

**Object store** (`flow/gc.rs`, `flow/remove_revisions.rs`, `flow/commit.rs`,
`flow/uninstall_package.rs`). State: object files, installed manifests. There is
no reference count: a sweep lists what manifests name and deletes the rest,
with every package's lock try-locked. Operations: filing by commit, install,
pull, reset and download; uninstall with or without pruning; gc; removal of
chosen revisions. Hard: filing takes minutes and the manifest is written last; a
sweep deletes file by file; either may stop anywhere. Must hold: a row whose
bytes are nowhere else keeps its object; only unused objects go; the revisions
an entry needs stay; a complete gc leaves no garbage. *Modelled by ObjectStore.*

**Working folder** (`flow/pull.rs`, `pull_outcome.rs`, `apply_update.rs`,
`install_paths.rs`, `uninstall_paths.rs`, `reset_to_latest.rs`). State: files,
the entry's base manifest and tracked paths. Operations: pull (tag, walk,
classify, verify, fetch, rename, delete, save), reset, download of paths,
uninstall of paths. Hard: the user writes at every moment; renames are not
atomic over the set; an operation may stop between any two files, and the tag
moves before it is repeated. Must hold: tracked paths have rows; a stopped pull
can be repeated; no rename replaces the user's bytes; the entry moves to one revision
whole or stays. *Modelled by WorkingTree; TreeEntry shows it to be PackageSync's pulls
and resets.*

**Status walk, stat cache, ignore rules** (`flow/status.rs`, `file_stamp.rs`,
`stat_cache.rs`, `quiltignore.rs`). State: a row per path with a hash and the
stamp it was taken under. A walk reports each path as unchanged, added, modified
or removed; a stamp older than its second stands for a hash. Hard: a walk takes
no lock; a file is written between its stat, its hash and the save of both, or
again within the second of its stamp; two walks save over each other. Must hold:
a hash that a walk would trust is the file's. *Modelled by LocalCommits; what
ignore rules make of a path by WorkingTree.*

**Commit, create, recommit, undo** (`flow/commit.rs`, `create_package.rs`,
`recommit.rs`, `undo_commit.rs`). A commit walks, hashes the changed files again,
copies each into the store under its hash, writes the manifest and saves. An undo
checks the files it will touch, restores from the store, removes, and saves. Hard:
the user writes between any two of these steps, and either may stop between, or
within, copies. Must hold: a revision the package can go back to has its manifest
and objects; an object is what its name says; an undo replaces no edit and brings
the revision before back. *Modelled by LocalCommits, which LocalEntry shows to be
PackageSync's steps; their effect on an entry with a remote by PackageSync, on a store
shared with sweeps by ObjectStore.*

**Authentication** (`auth.rs`, `auth/*`, `io/storage/auth.rs`, the client cache of
`io/remote/s3.rs`, `engine/commands/auth.rs`). State per catalog host: tokens and
vended credentials on disk, a lock file; in each process the role last observed,
the S3 clients with an identity of their own, a generation that each clear of them
advances. The active role is the server's. Operations: use of S3 (cached client,
cached identity, stored credentials, or a refresh), role switch, role observation,
registry queries, login, logout. Hard: a refresh retires the token it was made
with; the role changes elsewhere; a client keeps credentials that disk no longer
has; processes share the files only; a login takes no lock. Must hold: nobody
presents a token another call retired; a flush, a clear of the clients or a logout
is not undone by a vend in flight; a failed flush is repeated. *Modelled by
AuthSession.*

**State store** (`state_store.rs`): the stat cache, last change and conflict per
package in SQLite, a transaction per call. *Its rows are variables of LocalCommits
and Autosync.* **Manifests, hashes, workflow validation, URI parsing**: pure. **S3
client, local storage**: I/O.

**Autosync** (`engine/autopull/tick.rs`, `publish_timer.rs`, `last_change.rs`).
State per package: the last tree seen, the time a change is waited from, pauses,
whether the last pass found changes, back-off; an epoch that each rewrite of the folder advances; the timer's deadline
and its stored wake-up. A pass walks the tree and pulls, publishes or defers; the
tick runs passes over all packages, the timer over those whose wait is over. Hard:
a pass works from a walk while commands of the window and the command line come
between; deadlines move while the timer computes its own; signals are lost. Must
hold: nothing is done on a verdict that a rewrite made stale; no deadline is slept
over; new changes wait; changes are published in the end. *Modelled by Autosync.*

**Kept walks and the file watcher** (`engine/autopull/watched.rs`,
`engine/fswatcher/*`). A check may reuse the last walk of a package whose folder
is watched and of which nothing was heard since. State: the watch, the signals on
their way, the marks that order walks and signals, the walk kept. Hard: the watch
is lost or misses folders; signals arrive while a walk runs or while the remote is
asked; the entry changes under a walk. Must hold: a walk that is reused tells the
folder, unless news is on its way; a publish never rests on one; an edit is seen in
the end. *Modelled by KeptWalks.*

**Agent tasks** (`engine/tasks.rs`, `engine/tasks/*`). A revision's metadata asks
for a task; a desktop claims it by a revision, runs an agent process in the folder
and closes the claim by another. Hard: pushes race; the engine dies and the agent
lives on; the next start must tell a run of its own that is over from one that is
not. Must hold: one outcome per claim, none while the agent writes, every claim
closed. *Modelled by AgentTasks, which implements TaskRuns.*

**Quit gate** (`engine/quit.rs`, `tray.rs`, the window's prompt). A quit while
files are written is deferred to a prompt; a timer quits if no window shows it.
Hard: events, acknowledgements and answers are late, lost or of a prompt dismissed
before; the page that shows the prompt may be reloaded. Must hold: a request is neither forgotten nor cut short. *Modelled by
QuitGate.*

**The rest of the desktop engine**: request handlers over these components, page
data, settings, telemetry.

### How the components interact

    caller (CLI process, engine, tick)
      └─ package lock ── path lock (mutex per process, OS lock)
           ├─ reads its entry            data.json, no short lock
           ├─ works: bucket, objects, working folder
           └─ saves its entry            short lock: re-read, splice, replace
    sweep (gc, prune, removal)
      └─ try-locks every package lock, reads manifests, deletes
    other copies ── only through the bucket: manifests, then the tag

    use of S3 ── client cache ── credentials on disk ── refresh
      └─ the host's lock: refreshes, role calls and logouts, not logins

    folder ── watcher ── signals ── reactor ── kept walks, times of changes
      └─ tick and publish timer ── passes, each under the package lock
           └─ tasks: claims, agents and their outcomes, by the same publishes

PathLock shows that the lock is a lock. LineageStore, ObjectStore and AuthSession
take locks as given and show what they buy. PackageSync and WorkingTree take for granted
what LineageStore shows, that one operation at a time works on an entry and that
its save replaces the entry it read: PackageSync abstracts files away to look at
the hashes, WorkingTree abstracts the bucket to a tag that moves, LocalCommits
leaves the bucket out and looks at files and objects, and LocalEntry shows that of the
entry nothing is seen of it but PackageSync's commits and undos. TreeEntry shows the
same of WorkingTree: file by file as it works, its entry sees PackageSync's pulls and
resets, and nothing of a download or an uninstall. Autosync and KeptWalks are two
views of a tick: the one abstracts a walk to what it found, the other a pass to when
it walks. AgentTasks takes a push for two steps, as PackageSync shows it is.

## 2. The modules

| module | models | lines of code |
| --- | --- | --- |
| `PackageSync` | the four hashes, the tag and the manifests under every operation of several copies | `installed_package.rs`, `flow/push.rs`, `publish.rs`, ... |
| `PathLock` | lock, try-lock, cancel, drop, death on one path | `io/storage/lock.rs` |
| `ExclusiveLock` | what PathLock promises: one holder | |
| `LineageStore` | data.json, both locks, all writers, moves of the home | `lineage.rs`, `local_domain.rs`, `package_lock.rs` |
| `EntryRegisters` | what LineageStore promises: a register per package | |
| `ObjectStore` | objects, manifests, writers and sweeps | `flow/gc.rs`, `remove_revisions.rs`, `commit.rs`, ... |
| `WorkingTree` | one package's files against its lineage and the tag | `flow/pull*.rs`, `apply_update.rs`, `install_paths.rs`, ... |
| `TreeEntry` | WorkingTree's package as the working copy of a PackageSync | `lineage/package.rs`, `flow/pull.rs` |
| `AuthSession` | one host's tokens, credentials, roles and clients in several processes | `auth.rs`, `io/storage/auth.rs`, `io/remote/s3.rs`, `commands/auth.rs` |
| `LocalCommits` | walk, stat cache, commit, undo and removal of files, one file at a time | `flow/commit.rs`, `status.rs`, `undo_commit.rs`, `stat_cache.rs` |
| `LocalEntry` | LocalCommits's package as the working copy of a PackageSync | `lineage/package.rs` |
| `AgentTasks` | claims, runs, outcomes and sweeps of several desktops | `engine/tasks.rs`, `engine/tasks/*` |
| `TaskRuns` | what AgentTasks promises: a run is closed once, its agent works before | |
| `Autosync` | passes, waits, pauses and the publish timer | `engine/autopull/tick.rs`, `publish_timer.rs`, `last_change.rs` |
| `KeptWalks` | the watch, its signals and when a walk is reused | `engine/autopull/watched.rs`, `engine/fswatcher/*` |
| `QuitGate` | deferred quits, prompts and their timers | `engine/quit.rs`, `tray.rs` |
| `MC<module>` | symmetry sets and instances for TLC | |
| `<module>_proofs` | the theorems; PathLock's are in `PackageSync_proofs`, those of Autosync, KeptWalks and QuitGate in `Engine_proofs` | |

A definition whose name carries a suffix (`TryOs_IgnoresBusy`) is a wrong variant
of the one after it, kept to show that the property it is written for would
notice; no specification uses it. Its comment says what bug it stands for.

**PackageSync.** `lineage[c]` is copy c's saved entry: `remote`, `base`,
`latest`, and `chain`, the pending commit's hash followed by its `prev_hashes`.
`NoRemote` is `remote_uri = None`, `NoHash` the empty string. `op[c].lin` is the
entry the running operation works on. A push is UploadManifest, ResolveLatest
(which also applies `is_first_push || base == latest || latest == ""`), TagLatest
when certified, SaveLineage. Publish commits in memory first; Certify Latest is
the inner push of a pending commit, its own save, then the tag and a second save.
Pull and reset read the tag in one step and save in another. Fail ends any
operation with nothing saved and stands for an error, a refused workflow gate or
a crash. Revisions are top hashes: a commit may return to an earlier one.

**PathLock.** `at[t]` is the stage of one attempt, `mutex` and `queue` the tokio
mutex of each process (fair, first come first served), `os` the attempt whose
open file has the OS lock. The guard of the mutex moves into the blocking thread
in `lock_exclusive` and stays in the future in `try_lock_exclusive`, so a
cancelled lock leaves an *orphan* thread with the guard and a cancelled try a
*stray* thread without it. The file is closed before the mutex is freed, as the
field order of `LockGuard` says. I/O errors of the lock calls are left out; they drop
what is held, as a cancelled wait does.

**LineageStore.** `record` is the file. An entry is the set of saves it is made
of and the homes its files were put under, which is enough to tell a lost save, a
save applied to another entry and files left under an old home. Each writer goes
waiting, reading (under the package lock), splicing, rereading, writing (under
the short lock), leaving. `edit` has no read before its splice and `set_home` no
package lock. Writing the file is one step: `local.rs` writes a temporary file
and renames it.

**ObjectStore.** A revision is two sets: objects whose only bytes are local, and
objects the remote has too. Writers file objects, write the manifest, save the
entry; a commit keeps any of the rows before it; pull and reset write the manifest first. A prune and a gc scan the lock
files and the entries, try-lock every package, list, read manifests, delete. A
removal that meets a held lock deletes its manifests but no object. Undo may
return to any kept revision. `NoSweepRuns` is the one assumption about
callers: a package that has neither entry nor lock file is not started while a
sweep is past its scan, which `gc.rs:401-404` documents as unsupported.

**WorkingTree.** A revision is its rows. `by` is a history variable: whether the
user, an unsaved operation (for the revision that still is the latest, or for
one that no longer is) or a saved operation wrote a path last. `scope` is the
pull scope (none: only tracked files; all: the entire package; between: folders),
`rules` an ignore rule per path. The walk and the verification are one step each:
they only read, and reads of different paths commute with edits of the others.
The check and the rename of one path are one step too; the code documents the
window of two system calls between them.

**TreeEntry.** WorkingTree's entry as the four hashes of PackageSync, all of them
`lineage.base`, since no commit is pending beside a pull; the operation that runs as
its `op`, with the entry it will save. The manifests are the revisions that may be
tagged, and the tag is moved by others. An operation that ends with nothing saved is
PackageSync's Fail, without its count.

**AuthSession.** Disk: `tokens` (a session and how often it was refreshed) and
`creds` (the epoch of the role, the session, and whether a login vended them).
Server: `roles`, the active role of each *epoch*, an epoch ending with a switch
here or elsewhere; `rotation`, the refreshes of each session, so that a token is
current when it has its session's count. `lock` is the host's lock, the per-process
mutex and the lock file together, which PathLock shows to be one lock. Per process:
`baseline` (the entry of `session_roles`), `client` and `gen`. `op[t]` is a call:
its stage, the tokens, credentials and role it holds, and the generation its client
was built under. A use of S3 is Open, CheckCredentials, and when nothing is stored
TakeLock, Recheck, ReadTokens, perhaps RefreshTokens and StoreTokens, Vend,
SaveCredentials; ReturnCredentials caches a new client if no clear came between
(`cache_client_if_current`) or gives the identity to the client that asked, which
nobody finds any more if it was cleared. A role call ends in ObserveRole, Flush and,
after the lock, ClearClients, the caller's half of the flush. Server, SDK and the
web catalog are external. Left out: client registration, several regions (clients
of one host are cleared together), unreadable files, and the second attempt of
`refresh_tokens_with_retry`, which presents the same token again. A role call that
is dropped in the middle of the flush's one unlink is left out too: the unlink runs
on a thread of its own and ends anyway.

**LocalCommits.** `files`, `objects` (what each object file holds, by the content
that names it), `manifests`, `lineage` (the chain of commits and the tracked
paths) and `cache` are what is on disk; `walks` and `op` are what a walk and the one
operation under the package's lock hold in memory, and go with it when it stops. A
stamp is *old* (read after the second it names), *now*, *racy* (saved in that second;
such an entry is not trusted) or *lost* (no file bears it any more). A commit is Walk,
CommitHashes, Rehash, Copy and Copied per file, FileManifest, SaveCommit; a copy that
a write meets holds the old bytes, the new ones or parts. An undo is Undo, Check per
file, Agreed, Restore and Restored per file, Remove per file, SaveUndo. A status walk
runs beside either. `touched` and `torn` are history: paths the user wrote since the
operation read them, objects whose copy stopped midway or met a write. Edits keep a
file's size and the clock counts seconds, the worst case of a stamp. Left out: nested
paths, ignored files, workflows, messages and metadata; walk, hash and save of a walk's
fresh files are one step, and so is `uninstall_paths`.

**AgentTasks.** A revision is a number with the claim in its metadata. `pkg[d]` is
desktop d's entry, `own[d]` the runs it remembers, `saved` the outcome file of a run,
`recorded` the agent's process record, `agents` the processes alive. `task[d]` is the
stage of d's engine: a pass of autosync, a look at the head, a publish (resolve, tag,
land; it may fail before each, so also when its tag is written and its entry not saved)
for a claim, an outcome, a refusal or a sweep, an agent's turn. A crash leaves the
files, the bucket and perhaps the agent; the next look at the head finds the claim its
own and interrupted, stops what is on record, and closes it. Users and other
copies commit, pull, reset and push at any time.

**Autosync.** `tree[p]` is what a walk of p finds, `newer` whether the remote is
ahead, `commit` a commit not pushed. `pass` is the pass that runs, of the tick or of
the timer, from the choice of a package over lock, walk, decision and action to its
record, which comes after the lock is freed; `torn` is history, that a command rewrote
the folder as the pass walked it, `moved` what the epoch tells: a write to the package
started since it was sampled. A request of a pass is *transient* when it is retried
later and *refused* (a role, a workflow) when it pauses the package
(`classify_sync_err`). A walk of the watcher moves the clock (`observe_walk`) and then,
in another step, the packages counting down; a toggle of publishing between the clock
and the read of the settings is the same as one before both. `dirty` is the
aggregator's `namespaces_with_changes`. A failed publish of the window is noted after
its lock is free; `note_committed` and `note_published` stay one step, of clock and
countdown. `timer` computes the next deadline, registers and sleeps;
`permit` is the wake-up that tokio's `Notify` stores. `command` is the window's or the
command line's own operation. Time passes by Elapse, a unit at a time. Pull's and
publish's inner steps are PackageSync's and WorkingTree's. The initial states include
those a restart finds.

**KeptWalks.** `disk` and `entry` are counters of edits and of lineage changes, so a
walk tells the folder when it saw the counters of now. `os` is the OS watch (whole,
blind to a folder, none), `listed` the subscriber's record of it, `debounce`, `batch`
and `signals` news on its way. `marks` are the values of the one counter that orders
walks and signals (`stale`, `kept`, and the walks of the trailing walk and the check),
kept as ranks. A trailing walk begins, reads the lineage, walks and is recorded, a step
each. A watcher error that names no path is told as a rescan of every watched root,
which is what both come to here. A check reads the entry, locks, reuses or walks, asks the remote, and
walks again when it would publish.

**QuitGate.** One step per method of the gate, which has one lock. Events to the
window, its acknowledgements and its answers are sets of calls on their way, each with
the generation it was made for, where the code sends one; a click on Stay sends none.
A call that fails may have been carried out all the same. A grace timer is never
cancelled. A reload of the page takes the prompt off the screen, tells the gate nothing,
and leaves the clicks of the page before as `orphans`: they still arrive or not, and
nobody reads the reply. `forgotten` is history: the request whose prompt went that way. The flag whether a write is in progress is read just
before the gate's lock, and in its step here.

## 3. The runs

### Runs that pass

| run | instance | what it shows |
| --- | --- | --- |
| `package_sync` | 2 copies, 3 revisions, 2 commits before the first push and 1 after, 1 failure, symmetric | the hashes and the tag under every interleaving |
| `path_lock` | 2 tasks in one process and 1 in another, 2 cancels, 1 death, fair | the lock excludes, parks one thread, is not lost |
| `lineage_store` | 2 writers, 2 packages, 2 homes, 3 operations, 1 crash, fair | entries are registers; writers finish |
| `object_store` | 2 tasks, 2 packages, 1 object, 3 operations, 1 crash, symmetric | sweeps and writers |
| `working_tree` | 2 paths, 2 contents, 1 edit, 2 moves of the tag, 1 stop, symmetric | pulls, resets and the user |
| `local_commits` | 2 paths, 2 contents and a partial one, 2 edits, chain of 3, 1 stop, symmetric | walks, commits, undos and the user |
| `auth_session` | 2 tasks in one process and 1 in another, 2 roles, 3 events | refreshes, role changes, logins and logouts |
| `agent_tasks` | 1 desktop, 2 runs, 4 revisions, 1 crash, 1 fault, other copies, fair | claims are closed, once |
| `autosync` | 1 package, a wait of 2, 4 commands, 1 event, fair | passes, deadlines, refusals and commands |
| `kept_walks` | 1 package, 2 events, fair | when a walk may be reused |
| `quit_gate` | 2 writes, 3 requests, 3 answers, fair | prompts and their timers |

The invariant that is proved inductive is in each run: `IInv`, or `LayersInv`
(PathLock), `WalksInv` (KeptWalks), `QuitInv` (QuitGate), named apart where one module
of proofs speaks of several. Its parts have names, and the text below speaks of them.

*package_sync.* In IInv, `NoDanglingPointer`: the tag and every saved hash name a
manifest the bucket has; `WriterInvariants`: `remote.hash` and `base_hash` are both
empty or both set, and a copy that never pushed has a pending commit and knows no
latest, which keeps Certify Latest from tagging the empty hash. `PendingWorkKept`: a
pending commit ends in a later commit, an undo, a reset or an upload that contains it,
and in nothing else. `PromoteSettles` speaks of Certify Latest. `LockInv`, in IInv too,
is what the package lock gives a running operation and the reason these two hold: the
entry in flight is derived from the saved one. Two copies
are what one tag can be fought over by; three revisions let a third party's tag
differ from both the base and the commit; one failure at any step is enough to
leave the bucket ahead of an entry. Two pending commits before the first push are what
undo, and the recommit of set remote, need; the proofs have any.

*path_lock.* `OneParkedThread` is the reason the mutex is there. `LockNotLost`:
while somebody waits, somebody gets the lock, after cancelled waits and a dead
process. Fairness: each thread and each task's next step (the runtime and the OS
schedule them), and a holder drops its guard in time. The OS lock itself is not
assumed fair between processes, so the property says *somebody*, not *everybody*.
`ImplementsLock`: the abstract lock, with the task whose attempt is held as its
holder. Two tasks of one process plus one of another are the fewest that meet at
both layers. In LayersInv, `Queues`: who waits for a mutex is in its queue, once, and
nobody else is. `SomeAttemptGoesOn` and `AttemptsRunDown` are in no run, since they are
proved (section 4), and so are their like of LineageStore and AuthSession.

*lineage_store.* In IInv, `EntryIsTheOneRead`: from a writer's first read to its write its
entry is untouched while others move. `MovesOnlyEmptyHome`: `change_home`'s
refusal. `ImplementsRegisters`: the record is a register per package.
`WritersFinish`: all end idle, with both locks taken in one order. Fairness is
per writer and strong enough only because operations are bounded; the path lock
is never lost and frees what a dead holder had. The run does not check deadlock:
once the bounded operations are done the system may stop.

*object_store.* `NoDanglingRow` and `KeptRevisionsStay` in IInv, `DeletesOnlyUnused` and
`GcLeavesNoGarbage` in the words of section 1. One object shared by two packages
is the case the missing reference count is about; two tasks and three operations
let a sweep meet a writer after an earlier one stopped. More of each is in the
proofs. Deadlock is not checked, for the reason above.

*working_tree.* `OnlyEditsBlock`: nothing but the user's writes, an ignore rule
or bytes of a revision that is no longer the latest ever blocks a pull, so a
stopped operation does not. `RenamesKeepEdits`: a pull's rename replaces nothing
the user wrote. Two paths let one be done and the other not when an operation
stops; two moves of the tag let the latest change before a retry. `ImplementsFetches`:
of the entry a pull or reset is PackageSync's one Pull or Reset and its one save, to the
revision the tag named when it began, or nothing, whatever it placed before it stopped.

*local_commits.* In IInv, `ChainIsFiled`: each revision the package can go back to has
its manifest and objects, whatever commit stopped; `HonestObjects`: an object holds what
its name says unless its copy stopped midway or met a write; `CacheIsTrue`: no stamp that
a walk would trust stands for another content. `UndoSparesEdits`: what an undo replaces or
removes, of the paths it asks about, is as the undone revision committed it, or was
written after the question. `UndoRestores`: an undo that is saved leaves every tracked or
restored path as the revision before. `ImplementsEntry`: the entry moves by a whole commit
of another revision or a whole undo, so PackageSync's single steps stand for what is done
here file by file. Two edits let one fall between stat and hash and
another between hash and copy; a chain of three lets an undo follow a commit whose copy
was stopped; a second path lets one file be done and the other not.

*auth_session.* `RefreshesAreCurrent`: the token a call presents is the newest, or
the newest died with a call that had not stored it. In IInv, `FlushHolds`: after a flush
for an epoch, disk holds no vended credentials of an earlier one, whichever process
vended them; `BaselineHolds`: a process that remembers a role, and is not about to
flush for it, has nothing older on disk, so a failed flush forgets the role.
`ClientsFollow`: a process's cached client has no identity of a role or session it
had been told was over when it last cleared. `LogoutIsFinal`: an erased session
stays erased. `NeverStuck`: some call can always go on while one is unfinished; calls
have finitely many steps, so all end. `NeverStuck` and `RefreshesAreCurrent` apart, they
speak of credentials vended under the lock only (`by = "vend"`); section 5 says why. One
budget, three *events*, bounds calls, switches elsewhere and faults (a refusal, a failed
or cancelled call, a dead process) together: enough for two calls and a third, a fault
or a web switch between them, which every property's interesting case is; expiry of
credentials is not bounded. More of each is in the proofs.

*agent_tasks.* `ImplementsRuns`: to a reader of the bucket a run is closed with one
outcome, once and for good (a sweep after a restart never says *interrupted* of a run that
another revision says ended), and no agent is prompted, or there, once it is. IInv says
why: what is saved, on record, alive and in the bucket of each run. `ClaimsAreClosed`: a claim
that is latest is closed, unless the package of the desktop that made it waits for its
user (diverged, blocked, committed over). Fairness: the engine of each desktop goes on,
and is started again when it died; an agent's turn ends. One desktop of its own and
copies that push at any time (`OthersPush`) are enough for a claim to be lost, closed
elsewhere or left to a sweep; two desktops with engines are in the proofs.

*autosync.* In IInv, `NoLostDeadline`: while the timer sleeps, with no wake-up stored and
nobody about to store one, it sleeps no longer than the soonest deadline;
`WalksStillTree`: a pass never walks, and so never pulls, publishes or reports a conflict
from, a tree that a command is rewriting, and reports no conflict past a raised flag;
`LocksOK` and `TurnsOK`: the package lock and the turn of tick and timer.
`NewChangesWait`: a pass does not publish changes its own walk is the first to find, and
changes that moved into the app's own commit do not wait once more for it.
`ChangesArePublished`: again and again a package has nothing to publish, or it is paused
or publishing is off. Fairness: a pass that runs goes on, commands end, time passes, and
the tick gets its turn (strong fairness: the mutex it shares with the timer is tokio's,
first come first served). Nothing is asked of the timer and the watcher, so a check that
comes round is enough. One event, an edit, a command,
a failure or a push elsewhere, meets every stage of a pass and of the timer; its safety
properties were also checked with two (11.9 million states), in which the run's five
minutes do not suffice for liveness. One package: the passes of several only share the
turn and the lock of each is its own.

*kept_walks.* In WalksInv, `KeptIsTrue`: what a check may reuse tells the folder and the
entry, unless news of a change is still on its way (or slipped, section 5). Its other
parts are what makes it inductive (section 4). `ReusesTheTruth`: a
check acts on a reused walk only if it still tells the folder once the remote answered.
`PublishesUnderLock`: a publish acts on a walk made under its lock. `EditsAreSeen`: an
edit is reported in the end, though every event of it was lost. Fairness: the check comes
round and an hour passes, nothing more; the watcher may stop for ever. Two events
let an edit and a loss of the watch, or a second edit, fall into one walk; the proofs have
any number.

*quit_gate.* In QuitInv, `PendingIsAttended`: a deferred quit has its own grace timer running,
or a prompt acknowledged for it on screen or being answered, or had one until the page was
reloaded. `FullGrace`: the fallback
quits only when the outstanding request had its whole grace. `QuitIsHeard`: the app quits
or a prompt comes up, unless an earlier answer ends the request or a reload takes its
prompt away (section 5). Fairness: timers ring, and
what is on its way arrives or is lost; nobody has to answer. Three requests and three
answers let a late call of one prompt meet the second request after it. Deadlock is not
checked: an app that quit stops.

### The run that is meant to fail

`torn_object` checks that an object holds the content it is named by whenever no copy is
under way, and TLC finds it violated; section 5 tells the story.

## 4. The proofs

All proofs are of the specifications the runs check, for any values of the
constants that satisfy the named assumptions: distinct markers (`NoHash`, `None`,
`Free`, ...) and natural bounds. No set is assumed finite. `ObjectStore` also has
`NoSweepRuns` in its actions (section 2).

In each component the argument has the same shape: `Init => IInv`,
`IInv /\ [Next]_vars => IInv'` with one step per action, then the invariants and
the action properties from IInv. PathLock names these `LayersInit`, `LayersInv` and so
on, KeptWalks `Walks...`, QuitGate `Quit...`.

- **PackageSync_proofs.** `NoDanglingPointer` is not inductive: an operation saves
  an entry it computed steps ago. IInv adds `InFlightOK`: the entry in flight is
  already sound, and its commit is in the bucket before the tag is read.
  Manifests only grow, so what was uploaded stays. So much, `EntriesSound`, is inductive
  alone (`EntriesAreSound`). The other half of IInv, `LockInv`, relates the entry in
  flight to the saved one and gives `PendingWorkKept` and `PromoteSettles`.
- **PathLock** (in PackageSync_proofs). LayersInv is `Ownership`: the OS lock and each process's mutex
  belong to exactly the attempt past taking them. Exclusion and one parked thread
  follow by uniqueness of the owner. `LayersImplementLock` proves the refinement of
  `ExclusiveLock`. `Queues` survives a cancelled wait in the middle of a queue by
  `LeftQueue`, what a sequence is without its i-th element, and gives `LockIsNeverLost`:
  who waits, waits for an owner that goes on or for the head of its queue, so some attempt
  can always take its next step. By `EveryAttemptRunsDown` each step brings its attempt
  nearer to its end. Of `LockNotLost` only the scheduling is left to TLC.
- **LineageStore_proofs.** IInv joins lock ownership (`LockInv`), the shape of an
  operation (`OpInv`), fresh ids of saves (`IdInv`), `EntryIsTheOneRead` and
  `SpliceIsCurrent`. The last, "between re-read and write the buffer is the file",
  holds because every write needs the short lock, and gives `NoSaveIsLost`, the
  refinement of `EntryRegisters`. `NobodyWaitsInACircle` follows from the nesting of the
  locks in `LockInv`, `EveryWriterRunsDown` ranks the stages: together what
  `WritersFinish` rests on but for fairness.
- **ObjectStore_proofs.** The hard one. `CoverInv`: a sweep that decides without
  having met a held lock holds the lock of every package anybody could be writing,
  so no writer is between filing and saving. `CandInv`: what it may still delete,
  no manifest it has read names. `FilingInv`: a writer's objects are filed but for
  what is left to do. Together a deletion never meets a row that needs it.
- **WorkingTree_proofs.** IInv has `WrittenByUs` (a path only we wrote holds what
  the entry says) and `OpOK` (an operation accounts for every tracked path it
  leaves alone), which make a saved lineage true of the folder whatever was
  stopped. `FetchesAreAtomic` shows `ImplementsFetches`: the revision an operation set out
  for stays its aim while the tag moves (`AimKept`), one that is no pull and no reset aims
  at the base (`OpOK`), so only their saves change the entry.
- **AuthSession_proofs.** What is on disk is sound only if what every call is about
  to write is. IInv therefore speaks of tokens, credentials, roles and identities in
  hand (`InHand`), ties the lock to the stages under it (`Ownership`), and keeps a
  stored token fresh but while its successor is being stored (`StoredFresh`). A call
  that is about to save was vended in the current epoch or one no flush and no
  baseline has passed, because nobody flushes or observes beside it: that is where
  the lock is used. `NewLogins` shows that a login, which has no lock, brings a
  session nobody else knows. There is one lemma per action; they rest on nothing but
  the type of what it reads. `CallsInOrder` gives each kind of call its stages; with it
  `NobodyWaitsInACircle` (the lock's holder waits for nobody, who constructs a client
  waits for the lock at most) and `EveryCallRunsDown`, whose rank pays for the one
  construction of a client and the one retry after a refusal. That is `NeverStuck` with
  the wait spelt out in place of ENABLED.

- **LocalCommits_proofs.** Three of IInv's parts carry each other. `CommitOK`: each row
  of what a commit is to file has an object but for the files still to copy, and what is
  still to copy holds what was hashed or was touched since; so the chain stays filed and a
  copy is honest unless a write met it. `UndoOK`: a path asked about and not yet changed
  is as the head says, one done with as the revision before, or was touched, or its object
  is torn; it needs `HonestObjects`, for a restored file holds what the object does.
  `CacheIsTrue` is inductive alone: a write loses every stamp but one of the current
  second, and a walk saves the hash of what it read with the stamp from before.
  `CommitsAreAtomic` shows `ImplementsEntry`: only SaveCommit and SaveUndo change the chain,
  and IInv tells that by then the rows filed are not the head's (`CommitOK`) and an undo's
  chain is longer than one (`UndoOK`), which are PackageSync's guards.
- **AgentTasks_proofs.** A revision that closes a claim is `Justified` by what its run
  saved, or by a run that is over without; the bucket only grows and an outcome is saved
  once, so it stays so. `HoldOK`, `AgentOK` and `SavedOK` tie the stage of a desktop's
  engine to its run, the record and the agent; `OwnInv` gives each run to one desktop.
  `RunsAreImplemented` maps every step to one of TaskRuns or a stutter: what is uploaded
  closes its run with what is saved of it, which is what any revision before said
  (`ClosedAlike`), and a prompt finds nothing saved, hence nothing closed. From IInv
  alone, `ClosedAfterItsAgent`: no revision closes a claim while its agent may write.

- **Autosync** (in Engine_proofs). `NoLostDeadline` survives a step for one of three
  reasons: the step leaves the timer's sleep and every deadline alone (`DeadlineStands`);
  it is a timer's own, and the deadline it computes is the least (`SoonestIsLeast`: a
  well-founded minimum, so the set of packages may be infinite); or it moves a deadline,
  and then a permit is stored or the one who moved it is about to store it. `ElapseDeadline`:
  time takes as much from the sleep as from the deadline. `WalksStillTree` needs `LocksOK`,
  and `ResultsOK`, that a pass has a result only when it ended and lost its flag before it acts. `PublishesFromDecide` then
  gives `NewChangesWait` action by action.
- **KeptWalks** (in Engine_proofs). `KeptIsTrue` speaks of the kept walk only, but that
  walk was the trailing walk's or the check's before, so `WalksHold` says of all three: a
  walk no news came after found what is there now, or news is on its way. Losing the
  folder is news only because of `LossTold`: whoever still vouches for a package whose
  watch is not good is about to be told. `EntriesInOrder` says that the lineage a walk is
  matched against was read before it, and that a check that has asked the remote knows the
  entry of now. The marks are ranks, renumbered by each step: `RenumberedOrder` shows that
  renumbering keeps their order, and is the only place that looks inside
  `Cardinality`; `MarksMove` and `MarksPass` say what each step does to them.
  `HeldInOrder` gives `PublishesUnderLock`; `ReusesTheTruth` follows from `WalksHold`.
- **QuitGate** (in Engine_proofs). `PendingIsAttended` counts on messages of the current
  generation. `NoneToCome` keeps one of a generation to come from being mistaken for it
  once it comes; `AcksAreOfPrompts` is why an acknowledgement that arrives finds the
  prompt it speaks of, shown, answered or taken away by a reload; `GenerationsCount` keeps
  the counter of generations, which clicks on their way of any page advance, within its bound. The fallback's `FullGrace` follows from its guard and the timers.

`NobodyWaitsInACircle` and its like take "blocked" for what the actions wait for, locks
and places in a queue, written out in `Blocked`. That whoever is under way and not blocked
has its next step enabled was checked with TLC once, on the instances of these runs.

What stays with TLC: liveness (`LockNotLost`, `WritersFinish`, `ClaimsAreClosed`,
`ChangesArePublished`, `EditsAreSeen`, `QuitIsHeard`) and `NeverStuck`, because TLAPS
does not handle fairness and ENABLED. Every other property of the passing runs is
proved. The statements that section 5 finds to be false have no proof.

## 5. Where the code and its documents differ

**An object that is not what its name says** (`torn_object`). A commit copies a changed
file straight onto the object's final name (`commit.rs:134`, a plain `fs::copy`) and
compares nothing: stopped midway, or met by a write between the rehash and the copy, it
leaves other bytes under the name, and the next commit of that content finds the object
by `exists` (`commit.rs:124`) and keeps it. `install_paths.rs:71` says that the store is
trusted on every later read, "so what lands there must be verified first", and downloads
are staged, verified and renamed. `HonestObjects` says that nothing else makes an object
false; an undo or a later install of that revision brings the wrong bytes back.

The other differences have no run of their own. What the models keep of each is written
with it.

- **A failed publish drops its commit.** `docs/architecture.md:245` promises that a push
  failure leaves the commit in place; `publish_unlocked` saves only after the push
  (`installed_package.rs:933`). The working files are untouched, so the next publish
  commits them anew. In PackageSync the commit is lost with the operation's memory.
- **A later push can replace a moved tag.** `push.rs` reads the tag at 271, decides at
  313, writes at 315, unconditionally; `docs/architecture.md:234` says that only the first
  push does so. ResolveLatest and TagLatest are two steps, in PackageSync and AgentTasks.
- **A create may track files under an old home.** `set_home` looks for installed packages
  under the short lock alone (`lineage.rs:272`); a create that read the home before it
  splices its entry in after. `MovesOnlyEmptyHome` speaks of what `set_home` sees.
- **A pull deletes an edit.** Every touched path is verified before the fetch, renames look
  again, deletions of rows the remote dropped do not (`apply_update.rs:180`): a write
  during the fetch is lost, where `docs/architecture.md:268-271` says that any drift aborts
  the pull.
- **A stopped pull can be stuck.** If a newer revision is pushed before the retry, files the
  first pull renamed are neither base's nor latest's, count as the user's
  (`pull_outcome.rs:414`), and block every later pull. `OnlyEditsBlock` names the case.
- **An undo removes a file unasked.** `refuse_unless_clean` checks the tracked paths and the
  destinations (`undo_commit.rs:182`); a path of the undone revision that is no longer
  tracked (`uninstall_paths`, which neither client calls today) and that the revision
  before lacks is removed whatever it holds, where the comment at 163 speaks of every path
  the undo would touch. What is written after the check is overwritten too, and a restore
  copies onto the working file where a pull stages and renames.
- **A lost re-watch.** `Subscription::add` reads `rewatch` under one lock and replaces the
  root under another (`subscriber.rs:376-387`): a flag set in between is overwritten, though
  the comment at 182 relies on it. Events of a package that is being added are dropped, too.
  `Slipped` names the case; a kept walk's age limit heals it within an hour.
- **Pauses and times of autosync.** A pass records a conflict's pause after it freed the lock,
  so a hand pull that clears it in between is followed by the stale pause. A publish forgets
  the time of an edit heard while it ran, and that edit waits for the next check. Neither
  breaks `ChangesArePublished`, which excludes paused packages.
- **A quit that hears nothing.** A reload of the page (the window follows a link to the
  page it is on, `connection.rs:115`) takes a prompt off the screen, and the gate stays
  pending and shown: the grace timer finds it answered for, and every later Quit joins a
  request that nobody can answer. `tray.rs:187` says that "a Quit that appears to do
  nothing is a worse outcome than an interrupted apply", and the comment at
  `quit_prompt.rs:124` asks again rather than leave later quits waiting. `QuitIsHeard` and
  `PendingIsAttended` name the case (`forgotten`).
- **A leftover agent.** `stop_leftover` runs only when the head is an interrupted claim: if
  another copy replaced it by a new task first, the old agent may write beside the new one.
  `ClosedAfterItsAgent` (section 4) holds all the same, claim by claim.

Met while modelling, because nothing that a property states goes wrong: a repeated push
after a lost save reports `certified_latest = false` although the tag is its own revision;
commits A, B, A leave a pending commit equal to `base_hash`, which a moved tag makes Behind
though tick.rs:459-463 holds that state unreachable (its `has_pending_commit` clause saves
it); a create stopped after its manifest leaves objects no gc frees; a download stopped
halfway is refused by the files it left.

- **Reset and Diverged.** After a push whose save was lost, the retried push finds
  its own revision as latest and does not certify; the entry is at latest with an
  older base. Reset returns early because `remote.hash` is the tag's hash
  (`reset_to_latest.rs:38`), so the package stays Diverged where
  `docs/architecture.md:314` names Reset as a way out; Certify Latest is one.
- **Login without the lock.** `login` and `login_oauth` save tokens and credentials
  without the host's lock, though `lock_host` says that every refresh holds it. Over
  a session that is still there, a refresh in flight writes the old session's tokens
  over the new login's; a login that vended before a role switch, or a logout, writes
  its credentials after them. `FlushHolds`, `BaselineHolds`, `ClientsFollow` and
  `LogoutIsFinal` hold of everything but what a login vended; with logins in them,
  TLC finds each of these orders.
- **Roles that go there and back.** A role switched away and back between two
  observations is not noticed. Credentials on disk are then of the same role, or of
  the one in between until they expire.
- **Other processes' clients.** A flush clears the S3 clients of its own process;
  another's keep their identity until it expires, about an hour, or until that
  process observes the role.

## 6. What is not modelled

- *Encodings and hashes* (manifest rows, top hash, checksums), *workflow
  validation*, *URI parsing*: pure functions, tested against vectors. A revision is
  a model value or its rows.
- *S3 and file system calls*: a request succeeds or the operation fails; a rename
  is atomic; a file lock is freed when its process dies (external, PathLock's
  `Crash`).
- *Timestamp tags*: written, never read by the operations modelled; two commits in
  one second share a key, as `io/manifest.rs:109` notes.
- *The sweep's staging area and cached manifests*, junk files: no manifest row
  depends on them, though a lock-free reader of the cache may have to fetch again.
- *Folders, links and pipes at a path, revisions that differ in metadata only,
  algorithms of checksums* (WorkingTree); the protection of the latest revision
  from removal (ObjectStore lets it go, so removes a superset).
- *Command line, desktop commands, telemetry, UI*: callers and views, with no
  protocol of their own.
- *The registry and the token endpoint* (external): a call succeeds, is refused or
  fails; a refresh retires the token presented.
- *Of the desktop engine*: sign-in and catalogs, task holds and roles of autosync, packages
  without a remote, several volumes and user-wide ignore rules of the watcher, pauses and
  back-off of tasks, the engine lock (one try-lock of a file).
- *Of LocalCommits*: nested paths, ignored files, metadata, a crash of the file system itself.

## 7. Plan

Done, in this order: PackageSync (what users share), PathLock and LineageStore
(what every operation stands on), ObjectStore (the one place bytes are deleted),
WorkingTree (the one place the user's bytes are replaced), AuthSession (the one
login all processes share), AgentTasks (the one operation that outlives its process),
Autosync, KeptWalks and QuitGate (the engine's loops and timers), LocalCommits (what is
done with the user's bytes before they reach the store).

Worth adding next:

1. Several packages in one Autosync instance, with the task holds of `tasks.rs` between
   them, and packages without a remote.
2. Workflow validation and the row order of manifests as functions checked over bounded
   inputs.
