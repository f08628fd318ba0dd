------------------------------ MODULE PathLock ------------------------------
(***************************************************************************)
(* The exclusive lock on one path, io/storage/lock.rs: a tokio mutex per   *)
(* process, found in that process's registry, and under it an OS lock on   *)
(* the file, taken by a blocking thread.  A task may be cancelled at any   *)
(* await; its thread cannot be, and finishes without it.  A process may    *)
(* die, and the OS frees what it held.                                     *)
(***************************************************************************)
EXTENDS Naturals, Sequences, SequencesExt

CONSTANTS
    Tasks,      \* one attempt at a time each
    Processes,
    ProcessOf,  \* the process a task runs in
    Free,
    MaxCancels, \* bound: cancelled attempts
    MaxCrashes  \* bound: processes that die

ASSUME PathLockAssumption ==
    /\ ProcessOf \in [Tasks -> Processes]
    /\ Free \notin Tasks
    /\ MaxCancels \in Nat /\ MaxCrashes \in Nat

VARIABLES
    at,      \* where a task's attempt stands
    mutex,   \* each process's mutex: the attempt that owns its guard
    queue,   \* each process's attempts waiting for its mutex, in order
    os,      \* the attempt whose open file has the OS lock
    cancels,
    crashes

layersVars == <<at, mutex, queue, os, cancels, crashes>>

\* queued: waiting for the mutex.  parked: its thread waits for the OS lock.
\* granted: the thread has it and the task has not resumed.  trying, tried:
\* the same for try_lock.  closing: the file is closed, the mutex still held.
\* orphan, stray: cancelled while parked, while trying; the thread goes on.
\* unread: a thread's result with no task left to take it.
Stages == {"idle", "queued", "parked", "granted", "held", "closing",
           "trying", "tried", "orphan", "stray", "unread", "strayed"}

Mutex(t) == mutex[ProcessOf[t]]

Goto(t, stage) == at' = [at EXCEPT ![t] = stage]

TakeMutex(t) == mutex' = [mutex EXCEPT ![ProcessOf[t]] = t]

FreeMutex(t) == mutex' = [mutex EXCEPT ![ProcessOf[t]] = Free]

LeaveQueue(t) ==
    \E i \in DOMAIN queue[ProcessOf[t]] :
        /\ queue[ProcessOf[t]][i] = t
        /\ queue' = [queue EXCEPT ![ProcessOf[t]] = RemoveAt(@, i)]

LayersInit ==
    /\ at = [t \in Tasks |-> "idle"]
    /\ mutex = [p \in Processes |-> Free]
    /\ queue = [p \in Processes |-> <<>>]
    /\ os = Free
    /\ cancels = 0
    /\ crashes = 0

-----------------------------------------------------------------------------
(* lock_exclusive *)

Lock(t) ==
    /\ at[t] = "idle"
    /\ Goto(t, "queued")
    /\ queue' = [queue EXCEPT ![ProcessOf[t]] = Append(@, t)]
    /\ UNCHANGED <<mutex, os, cancels, crashes>>

\* lock_owned is fair: first come, first served.
GetMutex(t) ==
    /\ at[t] = "queued"
    /\ queue[ProcessOf[t]] # <<>>
    /\ Head(queue[ProcessOf[t]]) = t
    /\ Mutex(t) = Free
    /\ TakeMutex(t)
    /\ Goto(t, "parked")
    /\ queue' = [queue EXCEPT ![ProcessOf[t]] = Tail(@)]
    /\ UNCHANGED <<os, cancels, crashes>>

\* The blocking thread's file.lock() returns.
OsLock(t) ==
    /\ at[t] \in {"parked", "orphan"}
    /\ os = Free
    /\ os' = t
    /\ Goto(t, IF at[t] = "parked" THEN "granted" ELSE "unread")
    /\ UNCHANGED <<mutex, queue, cancels, crashes>>

\* The task resumes with the guard.
Resume(t) ==
    /\ at[t] \in {"granted", "tried"}
    /\ Goto(t, "held")
    /\ UNCHANGED <<mutex, queue, os, cancels, crashes>>

-----------------------------------------------------------------------------
(* try_lock_exclusive.  A mutex that is not free answers None at once.      *)

TryLock(t) ==
    /\ at[t] = "idle"
    /\ Mutex(t) = Free
    /\ queue[ProcessOf[t]] = <<>>
    /\ TakeMutex(t)
    /\ Goto(t, "trying")
    /\ UNCHANGED <<queue, os, cancels, crashes>>

\* Mutant: WouldBlock is not told from Ok.
TryOs_IgnoresBusy(t) ==
    /\ at[t] = "trying"
    /\ Goto(t, "tried")
    /\ os' = t
    /\ UNCHANGED <<mutex, queue, cancels, crashes>>

\* The thread's file.try_lock(): got it, or busy and the mutex freed again.
TryOs(t) ==
    /\ at[t] = "trying"
    /\ IF os = Free
       THEN os' = t /\ Goto(t, "tried") /\ UNCHANGED mutex
       ELSE FreeMutex(t) /\ Goto(t, "idle") /\ UNCHANGED os
    /\ UNCHANGED <<queue, cancels, crashes>>

\* The thread of a cancelled try.
StrayOs(t) ==
    /\ at[t] = "stray"
    /\ IF os = Free THEN os' = t /\ Goto(t, "strayed")
       ELSE Goto(t, "idle") /\ UNCHANGED os
    /\ UNCHANGED <<mutex, queue, cancels, crashes>>

-----------------------------------------------------------------------------
(* The end of an attempt *)

\* Mutant: the guard's two fields the other way round.
CloseFile_MutexFirst(t) ==
    /\ at[t] \in {"held", "unread"}
    /\ FreeMutex(t)
    /\ Goto(t, "closing")
    /\ UNCHANGED <<queue, os, cancels, crashes>>

\* LockGuard drops _file, then _held; an unread result drops the same way.
CloseFile(t) ==
    /\ at[t] \in {"held", "unread"}
    /\ os' = Free
    /\ Goto(t, "closing")
    /\ UNCHANGED <<mutex, queue, cancels, crashes>>

DropHeld(t) ==
    /\ at[t] = "closing"
    /\ FreeMutex(t)
    /\ Goto(t, "idle")
    /\ UNCHANGED <<queue, os, cancels, crashes>>

\* Mutant: the file of an unread result stays open.
StrayClose_Leaks(t) ==
    /\ at[t] = "strayed"
    /\ Goto(t, "idle")
    /\ UNCHANGED <<mutex, queue, os, cancels, crashes>>

\* Only the file is in a cancelled try's result.
StrayClose(t) ==
    /\ at[t] = "strayed"
    /\ os' = Free
    /\ Goto(t, "idle")
    /\ UNCHANGED <<mutex, queue, cancels, crashes>>

\* Mutant: the guard stays in the future, as it does in try_lock.
Cancel_FreesMutex(t) ==
    /\ cancels < MaxCancels
    /\ cancels' = cancels + 1
    /\ at[t] \in {"parked", "granted"}
    /\ Goto(t, IF at[t] = "parked" THEN "orphan" ELSE "unread")
    /\ FreeMutex(t)
    /\ UNCHANGED <<queue, os, crashes>>

\* The future is dropped at the await it stands at.  The mutex guard went to
\* the thread in lock_exclusive; in try_lock it is the future's own.
Cancel(t) ==
    /\ cancels < MaxCancels
    /\ cancels' = cancels + 1
    /\ \/ /\ at[t] = "queued"
          /\ Goto(t, "idle")
          /\ LeaveQueue(t)
          /\ UNCHANGED mutex
       \/ /\ at[t] \in {"parked", "granted"}
          /\ Goto(t, IF at[t] = "parked" THEN "orphan" ELSE "unread")
          /\ UNCHANGED <<queue, mutex>>
       \/ /\ at[t] \in {"trying", "tried"}
          /\ Goto(t, IF at[t] = "trying" THEN "stray" ELSE "strayed")
          /\ FreeMutex(t)
          /\ UNCHANGED queue
    /\ UNCHANGED <<os, crashes>>

Crash(p) ==
    /\ crashes < MaxCrashes
    /\ crashes' = crashes + 1
    /\ at' = [t \in Tasks |-> IF ProcessOf[t] = p THEN "idle" ELSE at[t]]
    /\ mutex' = [mutex EXCEPT ![p] = Free]
    /\ queue' = [queue EXCEPT ![p] = <<>>]
    /\ os' = IF os # Free /\ ProcessOf[os] = p THEN Free ELSE os
    /\ UNCHANGED cancels

-----------------------------------------------------------------------------
\* What the threads and the runtime do by themselves, and a holder in time.
Progress(t) ==
    \/ GetMutex(t)
    \/ OsLock(t)
    \/ Resume(t)
    \/ TryOs(t)
    \/ StrayOs(t)
    \/ CloseFile(t)
    \/ DropHeld(t)
    \/ StrayClose(t)

LayersNext ==
    \/ \E t \in Tasks : Lock(t) \/ TryLock(t) \/ Progress(t) \/ Cancel(t)
    \/ \E p \in Processes : Crash(p)

LayersSpec == LayersInit /\ [][LayersNext]_layersVars

Fairness == \A t \in Tasks : WF_layersVars(Progress(t))

FairSpec == LayersSpec /\ Fairness

-----------------------------------------------------------------------------
(* Properties *)

LayersTypeOK ==
    /\ at \in [Tasks -> Stages]
    /\ mutex \in [Processes -> Tasks \cup {Free}]
    /\ queue \in [Processes -> Seq(Tasks)]
    /\ os \in Tasks \cup {Free}
    /\ cancels \in 0..MaxCancels
    /\ crashes \in 0..MaxCrashes

\* One guard at a time on a path, across processes, whatever was cancelled and
\* whoever died.
MutualExclusion ==
    \A t, u \in Tasks : at[t] = "held" /\ at[u] = "held" => t = u

\* A process never has two threads blocked on the file: a second one would
\* block its own runtime thread, since two open files conflict in one process.
OneParkedThread ==
    \A t, u \in Tasks :
        /\ at[t] \in {"parked", "orphan"} /\ at[u] \in {"parked", "orphan"}
        /\ ProcessOf[t] = ProcessOf[u]
        => t = u

OwnsOs == {"granted", "held", "tried", "unread", "strayed"}

OwnsMutex == {"parked", "orphan", "granted", "held", "unread", "closing", "trying", "tried"}

\* Who owns what: the OS lock and a mutex each belong to exactly the attempt
\* that is past taking it.  A cancelled try is the one attempt that can have
\* the OS lock without its process's mutex.
Ownership ==
    /\ \A t \in Tasks : at[t] \in OwnsOs <=> os = t
    /\ \A t \in Tasks : at[t] \in OwnsMutex <=> Mutex(t) = t
    /\ \A p \in Processes : mutex[p] # Free => ProcessOf[mutex[p]] = p

\* The waiting attempts of a process are its queue, each once.
Queues ==
    /\ \A p \in Processes : \A i, j \in DOMAIN queue[p] :
          /\ at[queue[p][i]] = "queued" /\ ProcessOf[queue[p][i]] = p
          /\ queue[p][i] = queue[p][j] => i = j
    /\ \A t \in Tasks : at[t] = "queued" =>
          \E i \in DOMAIN queue[ProcessOf[t]] : queue[ProcessOf[t]][i] = t

LayersInv == LayersTypeOK /\ Ownership /\ Queues

Holders == {t \in Tasks : at[t] = "held"}

Holder == IF Holders = {} THEN Free ELSE CHOOSE t \in Holders : TRUE

Lk == INSTANCE ExclusiveLock WITH holder <- Holder

\* The two layers implement one lock.
ImplementsLock == Lk!Spec

\* What keeps an attempt's next step from happening.
Blocked(t) ==
    \/ /\ at[t] = "queued"
       /\ queue[ProcessOf[t]] = <<>> \/ Head(queue[ProcessOf[t]]) # t \/ Mutex(t) # Free
    \/ at[t] \in {"parked", "orphan"} /\ os # Free

\* Attempts never all wait: for each other, for one that was cancelled, or for a
\* lock or a place in a queue that nobody has.
SomeAttemptGoesOn ==
    (\E t \in Tasks : at[t] # "idle") => \E t \in Tasks : at[t] # "idle" /\ ~Blocked(t)

\* The steps an attempt and its thread have left, at most.
StepsLeft(t) ==
    CASE at[t] = "queued" -> 6
      [] at[t] = "parked" -> 5
      [] at[t] \in {"orphan", "trying"} -> 4
      [] at[t] \in {"granted", "tried"} -> 3
      [] at[t] \in {"held", "unread", "stray"} -> 2
      [] at[t] \in {"closing", "strayed"} -> 1
      [] OTHER -> 0

\* An attempt begun comes nearer to its end with every step, of whomever.
AttemptsRunDown ==
    [][\A t \in Tasks : at[t] # "idle" /\ at'[t] # at[t]
                        => StepsLeft(t)' < StepsLeft(t)]_layersVars

\* The lock is never lost: as long as somebody waits, somebody gets it, with
\* no thread, mutex or OS lock left behind by cancelled tasks or dead processes.
LockNotLost ==
    (\E t \in Tasks : at[t] \in {"queued", "parked"})
        ~> (\/ \E t \in Tasks : at[t] = "held"
            \/ \A t \in Tasks : at[t] \notin {"queued", "parked"})

=============================================================================
