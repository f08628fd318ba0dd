----------------------------- MODULE Autosync ------------------------------
(***************************************************************************)
(* Autosync of QuiltSync: the check (a tick) that runs a pass over every   *)
(* package, the publish timer that runs one over the packages whose        *)
(* deadline came, the last-change clock both read, the file watcher that   *)
(* moves it, and the user's commands, the `quilt` command line and the     *)
(* settings, which change all of it meanwhile.                             *)
(*                                                                         *)
(* A tree is reduced to the set of changes a walk finds in it: "clean",    *)
(* "kept" (changes a newer revision keeps) or "clash" (changes it does     *)
(* not).  Times are counts of one unit left until an instant; `Elapse` is  *)
(* the only step in which time passes.  Pulling stays on; sign-in,         *)
(* catalogs, roles, agent tasks and packages without a remote are left     *)
(* out, and so is the tree of a walk reused (KeptWalks).                   *)
(***************************************************************************)
EXTENDS Integers, FiniteSets

CONSTANTS
    Packages,
    Wait,       \* from the last change to the publish
    MaxSleep,   \* the publish timer's longest sleep
    BusyRetry,  \* how soon the timer tries a held package again
    Backoff,    \* a retry delay after a failure
    Commands,   \* the commands given: by whom ("app": the window, "cli"), and what
    MaxEvents   \* bound: edits, commands, others' pushes and faults

ASSUME TimesAssumption ==
    /\ Wait \in Nat \ {0} /\ MaxSleep \in Nat \ {0}
    /\ BusyRetry \in Nat \ {0} /\ Backoff \in Nat \ {0}
    /\ MaxEvents \in Nat

ASSUME PackagesAssumption == Packages # {}   \* without one there is nothing to check

ASSUME CommandsAssumption ==
    Commands \subseteq {"app", "cli"} \X {"pull", "reset", "publish", "commit"}

VARIABLES
    tree,     \* what a walk would find changed
    newer,    \* is there a newer revision than the package's?
    commit,   \* the pending commit, and what the app knows of it
    locked,   \* who holds the package's lock
    lastSeen, \* what the last observed walk found
    clock,    \* the time left of the wait, or NoTime
    waiting,  \* the packages counting down
    paused,   \* the paused packages
    dirty,    \* the packages whose last pass found changes
    backoff,  \* the time left of the retry delay
    held,     \* the time left of the timer's busy retry
    pushOn,   \* is publishing on?
    watcher,  \* what the file watcher has to do about a package
    pass,     \* the pass in progress
    timer,    \* where the publish timer is
    permit,   \* the permit stored in its Notify
    command,  \* the user's or the command line's command in progress
    events

vars == <<tree, newer, commit, locked, lastSeen, clock, waiting, paused, dirty, backoff,
          held, pushOn, watcher, pass, timer, permit, command, events>>

folder == <<tree, newer, commit>>
clocks == <<lastSeen, clock>>
queue == <<waiting, paused, dirty, backoff, held>>

-----------------------------------------------------------------------------

Trees == {"clean", "kept", "clash"}

\* No stored last-change time, no deadline.
NoTime == -1

\* "foreign": not known to be the app's own; "fresh": the app's own, in no walk
\* yet; "seen": known, and walked.
Commits == {"none", "foreign", "fresh", "seen"}

Pending(p) == IF commit[p] = "none" THEN "none" ELSE "at"

Conflicts(p) == newer[p] /\ tree[p] = "clash"

NoPass == [by |-> "none", at |-> "idle", p |-> CHOOSE p \in Packages : TRUE, todo |-> {},
           push |-> FALSE, had |-> "none", seen |-> "clean", upstream |-> "same",
           moved |-> FALSE, torn |-> FALSE, result |-> "none"]

NoCommand == [by |-> "none", op |-> "none", p |-> CHOOSE p \in Packages : TRUE, at |-> "idle"]

\* A command rewriting the package's files at this moment.
Writing(p) == command.at = "locked" /\ command.p = p /\ command.op \in {"pull", "reset"}

\* What a walk may find: while the files are rewritten, anything.
Finds(p) == IF Writing(p) THEN Trees ELSE {tree[p]}

Init ==
    /\ tree \in [Packages -> Trees]
    /\ newer \in [Packages -> BOOLEAN]
    /\ commit \in [Packages -> {"none", "foreign"}]
    /\ locked = [p \in Packages |-> "free"]
    /\ lastSeen = [p \in Packages |-> "unwalked"]
    /\ clock \in [Packages -> {NoTime, 0}]   \* as the last session stored it
    /\ waiting = {}
    /\ paused = {} /\ dirty = {}
    /\ backoff = [p \in Packages |-> 0]
    /\ held = [p \in Packages |-> 0]
    /\ pushOn \in BOOLEAN
    /\ watcher = [p \in Packages |-> [event |-> FALSE, due |-> TRUE, walk |-> "none",
                                  pending |-> "none", counts |-> "none"]]
    /\ pass = NoPass
    /\ timer = [at |-> "ready", left |-> NoTime]
    /\ permit = FALSE
    /\ command = NoCommand
    /\ events = 0

Happens == events < MaxEvents /\ events' = events + 1

-----------------------------------------------------------------------------
(* The last-change clock *)

\* A time is recorded: a foreign commit is older than it from now on.
Recorded(p, c) == IF c = "foreign" THEN "seen" ELSE c

\* A pending commit's walk moves into the app's own commit.
IntoOwnCommit(p, seen, pending) == pending = "at" /\ commit[p] = "fresh" /\ seen = "clean"

Forgets(seen, pending) == seen = "clean" /\ pending = "none"
LearnsNothing(seen, pending) == seen = "clean" /\ pending = "unknown"

\* Mutant of Restarts: only signals restart the wait.
Restarts_BySignals(p, seen, pending, closed) ==
    \/ clock[p] = NoTime
    \/ pending = "at" /\ commit[p] = "foreign"
    \/ lastSeen[p] = "unwalked" /\ closed

\* Whether an observed walk restarts the wait; `closed` is the restart check of
\* the first walk.
Restarts(p, seen, pending, closed) ==
    \/ /\ ~IntoOwnCommit(p, seen, pending)
       /\ lastSeen[p] \notin {"unwalked", seen}
    \/ clock[p] = NoTime
    \/ pending = "at" /\ commit[p] = "foreign"
    \/ lastSeen[p] = "unwalked" /\ closed

\* Mutant of Observed: every walk that finds changes restarts the wait.
Observed_Again(p, seen, pending, closed) ==
    IF Forgets(seen, pending) THEN NoTime
    ELSE IF LearnsNothing(seen, pending) THEN clock[p]
    ELSE Wait

\* The last-change time an observed walk leaves and returns.
Observed(p, seen, pending, closed) ==
    IF Forgets(seen, pending) THEN NoTime
    ELSE IF LearnsNothing(seen, pending) THEN clock[p]
    ELSE IF Restarts(p, seen, pending, closed) THEN Wait
    ELSE clock[p]

Observe(p, seen, pending, closed) ==
    /\ lastSeen' = [lastSeen EXCEPT ![p] = seen]
    /\ clock' = [clock EXCEPT ![p] = Observed(p, seen, pending, closed)]
    /\ commit' = [commit EXCEPT ![p] =
           IF Forgets(seen, pending) \/ LearnsNothing(seen, pending) THEN @
           ELSE IF @ = "fresh" THEN "seen"
           ELSE IF Restarts(p, seen, pending, closed) THEN Recorded(p, @) ELSE @]

Published(p) == clock' = [clock EXCEPT ![p] = NoTime]

-----------------------------------------------------------------------------
(* One package's pass *)

Begin(p) ==
    /\ pass.at = "next" /\ p \in pass.todo
    /\ IF p \in paused \/ backoff[p] > 0
       THEN /\ pass' = [pass EXCEPT !.todo = @ \ {p}]
            /\ waiting' = IF pass.by = "timer" THEN waiting \ {p} ELSE waiting
       ELSE /\ pass' = [pass EXCEPT !.at = "lock", !.p = p, !.todo = @ \ {p},
                                    !.had = Pending(p), !.moved = FALSE, !.torn = FALSE]
            /\ UNCHANGED waiting
    /\ UNCHANGED <<folder, locked, clocks, paused, dirty, backoff, held, pushOn, watcher, timer,
                   permit, command, events>>

TryLock ==
    /\ pass.at = "lock"
    /\ IF locked[pass.p] = "free"
       THEN /\ locked' = [locked EXCEPT ![pass.p] = "pass"]
            /\ pass' = [pass EXCEPT !.at = "walk"]
            /\ UNCHANGED held
       ELSE /\ held' = IF pass.by = "timer" THEN [held EXCEPT ![pass.p] = BusyRetry] ELSE held
            /\ pass' = [pass EXCEPT !.at = "next"]
            /\ UNCHANGED locked
    /\ UNCHANGED <<folder, clocks, waiting, paused, dirty, backoff, pushOn, watcher, timer,
                   permit, command, events>>

\* The refresh ends: the lock is free before its result is recorded.
Ends(result) ==
    /\ pass' = [NoPass EXCEPT !.by = pass.by, !.at = "record", !.p = pass.p, !.push = pass.push,
                              !.todo = pass.todo, !.seen = pass.seen,
                              !.moved = IF result = "conflict" THEN pass.moved ELSE FALSE,
                              !.torn = pass.torn \/ Writing(pass.p), !.result = result]
    /\ locked' = [locked EXCEPT ![pass.p] = "free"]

Upstream(p) ==
    IF ~newer[p] THEN "same" ELSE IF commit[p] = "none" THEN "behind" ELSE "diverged"

\* The remote is out of reach, and tried again later; or it refuses (a role, a
\* workflow), and only the user can help.
Failures == {"transient", "refused"}

Failed == Happens /\ \E why \in Failures : Ends(why)

\* The status walk, or a failure of the request it makes.
Walk ==
    /\ pass.at = "walk"
    /\ \/ /\ \E seen \in Finds(pass.p) :
               pass' = [pass EXCEPT !.at = "decide", !.seen = seen, !.torn = Writing(pass.p),
                                    !.upstream = Upstream(pass.p)]
          /\ UNCHANGED <<locked, events>>
       \/ Failed
    /\ UNCHANGED <<folder, clocks, queue, pushOn, watcher, timer, permit, command>>

\* A write to the package started since the epoch was sampled.  A create
\* refused for a package that exists raises the flag without the lock.
FlagRaised ==
    /\ pass.at \in {"walk", "decide"} /\ ~pass.moved
    /\ Happens
    /\ pass' = [pass EXCEPT !.moved = TRUE]
    /\ UNCHANGED <<folder, locked, clocks, queue, pushOn, watcher, timer, permit, command>>

VerdictHeldStill == ~pass.moved

\* Observe the walk, then pull, publish, defer or stop.
Decide ==
    /\ pass.at = "decide"
    /\ \E closed \in IF lastSeen[pass.p] = "unwalked" THEN BOOLEAN ELSE {FALSE} :
         LET p == pass.p
             at == Observed(p, pass.seen, pass.had, closed)
             behind == pass.upstream = "behind" /\ pass.had = "none"
             eligible == pass.push /\ pass.upstream = "same"
                         /\ (pass.seen # "clean" \/ pass.had = "at")
         IN  /\ Observe(p, pass.seen, pass.had, closed)
             /\ IF pass.upstream = "diverged" THEN Ends("diverged")
                ELSE IF behind
                THEN \E now \in Finds(p) :
                       IF now = "clash"
                       THEN Ends(IF VerdictHeldStill THEN "conflict" ELSE "observed")
                       ELSE /\ pass' = [pass EXCEPT !.at = "pull", !.seen = now, !.moved = FALSE]
                            /\ UNCHANGED locked
                ELSE IF ~eligible THEN Ends("observed")
                ELSE IF at > 0 THEN Ends("deferred")
                ELSE pass' = [pass EXCEPT !.at = "publish", !.moved = FALSE] /\ UNCHANGED locked
    /\ UNCHANGED <<tree, newer, queue, pushOn, watcher, timer, permit, command, events>>

\* The pull classifies again: an edit since may clash, and nothing is applied.
Pull ==
    /\ pass.at = "pull"
    /\ LET p == pass.p IN
       \/ /\ tree[p] # "clash"
          /\ newer' = [newer EXCEPT ![p] = FALSE]
          /\ IF pass.seen # "clean"
             THEN /\ lastSeen' = [lastSeen EXCEPT ![p] = tree[p]]
                  /\ clock' = IF tree[p] = pass.seen THEN clock ELSE [clock EXCEPT ![p] = Wait]
             ELSE UNCHANGED clocks
          /\ Ends(IF pass.seen # "clean" THEN "pulled" ELSE "settled")
          /\ UNCHANGED events
       \/ tree[p] = "clash" /\ Ends("conflict") /\ UNCHANGED <<newer, clocks, events>>
       \/ Failed /\ UNCHANGED <<newer, clocks>>
    /\ UNCHANGED <<tree, commit, queue, pushOn, watcher, timer, permit, command>>

\* A publish failed: it left no commit, and one pending before is the app's own.
NotesFailure(p) == commit' = [commit EXCEPT ![p] = IF @ = "none" THEN @ ELSE "fresh"]

\* The publish ends.  An edit since the walk is not in the revision.
Publish ==
    /\ pass.at = "publish"
    /\ LET p == pass.p IN
       \/ /\ tree' = [tree EXCEPT ![p] = IF @ = pass.seen THEN "clean" ELSE @]
          /\ commit' = [commit EXCEPT ![p] = "none"]
          /\ Published(p)
          /\ Ends("settled") /\ UNCHANGED events
       \/ Failed /\ NotesFailure(p) /\ UNCHANGED <<tree, clock>>
    /\ UNCHANGED <<newer, lastSeen, queue, pushOn, watcher, timer, permit, command>>

Pauses == {"conflict", "diverged", "refused"}

Counts == pass.result = "deferred" \/ (pass.push /\ pass.result = "pulled")

\* What the result says of the tree.
FoundChanges ==
    \/ pass.result \in {"conflict", "pulled"}
    \/ pass.result \in {"observed", "deferred"} /\ pass.seen # "clean"

\* What sync_package does with the result, the lock released.
Record ==
    /\ pass.at = "record"
    /\ LET p == pass.p IN
       /\ waiting' = IF Counts THEN waiting \cup {p} ELSE waiting \ {p}
       /\ paused' = IF pass.result \in Pauses THEN paused \cup {p} ELSE paused
       /\ backoff' = [backoff EXCEPT ![p] =
              CASE pass.result = "transient" -> Backoff
                [] pass.result \in Pauses -> @
                [] OTHER -> 0]
       /\ dirty' = CASE pass.result = "transient" -> dirty
                     [] FoundChanges -> dirty \cup {p}
                     [] OTHER -> dirty \ {p}
    /\ pass' = [NoPass EXCEPT !.by = pass.by, !.at = "next", !.push = pass.push,
                              !.todo = pass.todo]
    /\ UNCHANGED <<folder, locked, clocks, held, pushOn, watcher, timer, permit, command,
                   events>>

PassStep == (\E p \in Packages : Begin(p)) \/ TryLock \/ Walk \/ Decide \/ Pull \/ Publish \/ Record

-----------------------------------------------------------------------------
(* The check and the publish timer: `passes` lets one of them run *)

TickStarts ==
    /\ pass.by = "none"
    /\ pass' = [NoPass EXCEPT !.by = "tick", !.at = "next", !.push = pushOn, !.todo = Packages]
    /\ UNCHANGED <<folder, locked, clocks, queue, pushOn, watcher, timer, permit, command,
                   events>>

\* Mutant of Notify: it wakes a sleeping timer and stores nothing.
Notify_Waiters == permit' = (permit \/ timer.at = "asleep")

Notify == permit' = TRUE

TickEnds ==
    /\ pass.by = "tick" /\ pass.at = "next" /\ pass.todo = {}
    /\ pass' = NoPass
    /\ Notify
    /\ UNCHANGED <<folder, locked, clocks, queue, pushOn, watcher, timer, command, events>>

Later(a, b) == IF a > b THEN a ELSE b
Sooner(a, b) == IF a < b THEN a ELSE b

\* When the timer may run a package, NoTime for a paused one or one without a time.
DueAt(p) ==
    IF p \in paused \/ clock[p] = NoTime THEN NoTime
    ELSE Later(clock[p], Later(backoff[p], held[p]))

\* The soonest of the packages counting down; NoTime: none.
Soonest(set) ==
    LET at == {DueAt(p) : p \in set} \ {NoTime}
    IN  IF at = {} THEN NoTime ELSE CHOOSE a \in at : \A b \in at : a <= b

TimerReads ==
    /\ timer.at = "ready" /\ pass.by = "none"
    /\ LET due == {p \in waiting : DueAt(p) = 0} IN
       IF pushOn /\ due # {}
       THEN /\ pass' = [NoPass EXCEPT !.by = "timer", !.at = "next", !.push = TRUE, !.todo = due]
            /\ timer' = [at |-> "passing", left |-> NoTime]
       ELSE /\ timer' = [at |-> "computed", left |-> IF pushOn THEN Soonest(waiting) ELSE NoTime]
            /\ UNCHANGED pass
    /\ UNCHANGED <<folder, locked, clocks, queue, pushOn, watcher, permit, command, events>>

TimerEnds ==
    /\ pass.by = "timer" /\ pass.at = "next" /\ pass.todo = {}
    /\ pass' = NoPass
    /\ timer' = [at |-> "computed", left |-> Soonest(waiting)]
    /\ UNCHANGED <<folder, locked, clocks, queue, pushOn, watcher, permit, command, events>>

\* It registers for a wake-up only after the deadline is computed: a permit
\* stored in between wakes it at once.
TimerSleeps ==
    /\ timer.at = "computed" /\ ~permit
    /\ timer' = [timer EXCEPT !.at = "asleep",
                              !.left = IF @ = NoTime THEN NoTime ELSE Sooner(@, MaxSleep)]
    /\ UNCHANGED <<folder, locked, clocks, queue, pushOn, watcher, pass, permit, command,
                   events>>

TimerWoken ==
    /\ timer.at \in {"computed", "asleep"} /\ permit
    /\ timer' = [at |-> "ready", left |-> NoTime]
    /\ permit' = FALSE
    /\ UNCHANGED <<folder, locked, clocks, queue, pushOn, watcher, pass, command, events>>

TimerRings ==
    /\ timer.at = "asleep" /\ timer.left = 0
    /\ timer' = [at |-> "ready", left |-> NoTime]
    /\ UNCHANGED <<folder, locked, clocks, queue, pushOn, watcher, pass, permit, command,
                   events>>

Less(t) == IF t > 0 THEN t - 1 ELSE t

Elapse ==
    /\ clock' = [p \in Packages |-> Less(clock[p])]
    /\ backoff' = [p \in Packages |-> Less(backoff[p])]
    /\ held' = [p \in Packages |-> Less(held[p])]
    /\ timer' = [timer EXCEPT !.left = Less(@)]
    /\ UNCHANGED <<folder, locked, lastSeen, waiting, paused, dirty, pushOn, watcher, pass,
                   permit, command, events>>

-----------------------------------------------------------------------------
(* The folder and the file watcher *)

\* A program writes in the folder; the watcher hears of it or not.
Edit(p, to, heard) ==
    /\ Happens /\ tree[p] # to
    /\ tree' = [tree EXCEPT ![p] = to]
    /\ watcher' = IF heard THEN [watcher EXCEPT ![p].event = TRUE] ELSE watcher
    /\ UNCHANGED <<newer, commit, locked, clocks, queue, pushOn, pass, timer, permit, command>>

Signal(p) ==
    /\ watcher[p].event
    /\ watcher' = [watcher EXCEPT ![p].event = FALSE, ![p].due = TRUE]
    /\ clock' = [clock EXCEPT ![p] = Wait]
    /\ commit' = [commit EXCEPT ![p] = Recorded(p, @)]
    /\ UNCHANGED <<tree, newer, locked, lastSeen, queue, pushOn, pass, timer, permit, command,
                   events>>

\* The trailing walk takes no lock.
TrailingWalk(p) ==
    /\ watcher[p].due /\ watcher[p].walk = "none" /\ watcher[p].counts = "none"
    /\ \E seen \in Finds(p) :
         watcher' = [watcher EXCEPT ![p].due = FALSE, ![p].walk = seen,
                       ![p].pending = IF seen = "clean" THEN Pending(p) ELSE "unknown"]
    /\ UNCHANGED <<folder, locked, clocks, queue, pushOn, pass, timer, permit, command, events>>

\* observe_walk: the clock and the settings, then the packages counting down.  A
\* toggle of publishing between the first two is as one before them.
ObserveWalk(p) ==
    /\ watcher[p].walk # "none"
    /\ \E closed \in IF lastSeen[p] = "unwalked" THEN BOOLEAN ELSE {FALSE} :
         LET w == watcher[p]
             counts == pushOn /\ Observed(p, w.walk, w.pending, closed) # NoTime
         IN  /\ Observe(p, w.walk, w.pending, closed)
             /\ watcher' = [watcher EXCEPT ![p].walk = "none", ![p].pending = "none",
                                           ![p].counts = IF counts THEN "yes" ELSE "no"]
    /\ UNCHANGED <<tree, newer, locked, queue, pushOn, pass, timer, permit, command, events>>

CountsDown(p) ==
    /\ watcher[p].counts # "none"
    /\ IF watcher[p].counts = "yes" THEN waiting' = waiting \cup {p} /\ Notify
       ELSE waiting' = waiting \ {p} /\ UNCHANGED permit
    /\ watcher' = [watcher EXCEPT ![p].counts = "none"]
    /\ UNCHANGED <<folder, locked, clocks, paused, dirty, backoff, held, pushOn, pass, timer,
                   command, events>>

-----------------------------------------------------------------------------
(* Other writers *)

\* Another computer pushes.  A push racing the pass's own is PackageSync's.
OthersPush(p) ==
    /\ Happens /\ ~newer[p] /\ locked[p] = "free"
    /\ newer' = [newer EXCEPT ![p] = TRUE]
    /\ UNCHANGED <<tree, commit, locked, clocks, queue, pushOn, watcher, pass, timer, permit,
                   command>>

\* A command of the window or of the `quilt` command line takes the lock.
Start(by, op, p) ==
    /\ command.at = "idle" /\ locked[p] = "free" /\ Happens
    /\ op = "pull" => newer[p]
    /\ op \in {"publish", "commit"} => tree[p] # "clean" /\ ~newer[p]
    /\ command' = [by |-> by, op |-> op, p |-> p, at |-> "locked"]
    /\ locked' = [locked EXCEPT ![p] = by]
    /\ UNCHANGED <<folder, clocks, queue, pushOn, watcher, pass, timer, permit>>

Unlock == locked' = [locked EXCEPT ![command.p] = "free"]

\* It succeeds; the window's command has bookkeeping left.
Done ==
    /\ command.at = "locked"
    /\ LET p == command.p IN
       /\ command.op = "pull" => tree[p] # "clash"
       /\ tree' = IF command.op = "pull" THEN tree ELSE [tree EXCEPT ![p] = "clean"]
       /\ newer' = IF command.op \in {"pull", "reset"} THEN [newer EXCEPT ![p] = FALSE] ELSE newer
       /\ commit' = [commit EXCEPT ![p] =
              CASE command.op = "commit" -> "foreign"
                [] command.op = "pull" -> @
                [] OTHER -> "none"]
    /\ Unlock
    /\ command' = IF command.by = "app" THEN [command EXCEPT !.at = "clear"] ELSE NoCommand
    /\ UNCHANGED <<clocks, queue, pushOn, watcher, pass, timer, permit, events>>

\* It fails; a pull by hand that met a conflict pauses, the lock still held.
Fails ==
    /\ command.at = "locked"
    /\ IF command.by = "app" /\ command.op = "pull" /\ Conflicts(command.p)
       THEN paused' = paused \cup {command.p} /\ dirty' = dirty \cup {command.p}
       ELSE UNCHANGED <<paused, dirty>>
    /\ Unlock
    /\ command' = IF command.by = "app" /\ command.op = "publish" THEN [command EXCEPT !.at = "failed"]
                  ELSE NoCommand
    /\ UNCHANGED <<folder, clocks, waiting, backoff, held, pushOn, watcher, pass, timer, permit,
                   events>>

NotePublishFailed ==
    /\ command.at = "failed"
    /\ NotesFailure(command.p)
    /\ command' = NoCommand
    /\ UNCHANGED <<tree, newer, locked, clocks, queue, pushOn, watcher, pass, timer, permit, events>>

\* clear_paused: the pause, and in another step the timer.
Clear ==
    /\ command.at = "clear"
    /\ paused' = paused \ {command.p}
    /\ dirty' = dirty \ {command.p}
    /\ command' = [command EXCEPT !.at = "notify"]
    /\ UNCHANGED <<folder, locked, clocks, waiting, backoff, held, pushOn, watcher, pass, timer,
                   permit, events>>

Reschedule ==
    /\ command.at = "notify" /\ Notify
    /\ command' = IF command.op \in {"publish", "commit"} THEN [command EXCEPT !.at = "note"]
                  ELSE NoCommand
    /\ UNCHANGED <<folder, locked, clocks, queue, pushOn, watcher, pass, timer, events>>

NotePublished ==
    /\ command.at = "note" /\ command.op = "publish"
    /\ Published(command.p)
    /\ waiting' = waiting \ {command.p}
    /\ command' = NoCommand
    /\ UNCHANGED <<folder, locked, lastSeen, paused, dirty, backoff, held, pushOn, watcher, pass,
                   timer, permit, events>>

NoteCommitted ==
    /\ command.at = "note" /\ command.op = "commit"
    /\ clock' = [clock EXCEPT ![command.p] = Wait]
    /\ commit' = [commit EXCEPT ![command.p] = IF @ = "none" THEN @ ELSE "fresh"]
    /\ waiting' = IF pushOn THEN waiting \cup {command.p} ELSE waiting
    /\ command' = [command EXCEPT !.op = "reschedule", !.at = IF pushOn THEN "notify" ELSE "idle",
                                  !.by = IF pushOn THEN @ ELSE "none"]
    /\ UNCHANGED <<tree, newer, locked, lastSeen, paused, dirty, backoff, held, pushOn, watcher,
                   pass, timer, permit, events>>

\* Publishing is turned on or off, under the settings' lock.
TogglePush ==
    /\ command.at = "idle" /\ Happens
    /\ pushOn' = ~pushOn
    /\ LET moved == {p \in Packages : clock[p] # NoTime} \cup dirty
       IN  IF pushOn THEN UNCHANGED <<clock, commit, waiting, permit>>
           ELSE /\ clock' = [p \in Packages |-> IF p \in moved THEN Wait ELSE clock[p]]
                /\ commit' = [p \in Packages |->
                                IF p \in moved THEN Recorded(p, commit[p]) ELSE commit[p]]
                /\ waiting' = waiting \cup moved
                /\ Notify
    /\ command' = [command EXCEPT !.by = "app", !.op = "settings", !.at = "notify"]
    /\ UNCHANGED <<tree, newer, locked, lastSeen, paused, dirty, backoff, held, watcher, pass, timer>>

CommandStep ==
    Done \/ Fails \/ NotePublishFailed \/ Clear \/ Reschedule \/ NotePublished \/ NoteCommitted

-----------------------------------------------------------------------------

TimerStep == TimerEnds \/ TimerSleeps \/ TimerWoken \/ TimerRings
WatcherStep(p) == Signal(p) \/ TrailingWalk(p) \/ ObserveWalk(p) \/ CountsDown(p)

Next ==
    \/ PassStep \/ TickStarts \/ TickEnds \/ TimerReads \/ TimerStep \/ Elapse \/ FlagRaised
    \/ CommandStep \/ TogglePush
    \/ \E p \in Packages :
         \/ WatcherStep(p) \/ OthersPush(p)
         \/ \E to \in Trees, heard \in BOOLEAN : Edit(p, to, heard)
         \/ \E c \in Commands : Start(c[1], c[2], p)

Spec == Init /\ [][Next]_vars

\* The check gets its turn of the fair mutex it shares with the timer; a pass, a
\* command and time go on.  Nothing is asked of the timer and the watcher.
Fairness ==
    /\ WF_vars(PassStep \/ TickEnds \/ TimerEnds) /\ SF_vars(TickStarts)
    /\ WF_vars(CommandStep) /\ WF_vars(Elapse)

FairSpec == Spec /\ Fairness
-----------------------------------------------------------------------------
(* Properties *)

Counters(n) == NoTime..n

WatcherType == [event : BOOLEAN, due : BOOLEAN, walk : Trees \cup {"none"},
                pending : {"none", "at", "unknown"}, counts : {"none", "yes", "no"}]

PassType ==
    [by : {"none", "tick", "timer"},
     at : {"idle", "next", "lock", "walk", "decide", "pull", "publish", "record"},
     p : Packages, todo : SUBSET Packages, push : BOOLEAN, had : {"none", "at"},
     seen : Trees, upstream : {"same", "behind", "diverged"}, moved : BOOLEAN, torn : BOOLEAN,
     result : {"none", "observed", "deferred", "pulled", "settled"} \cup Failures \cup Pauses]

CommandType ==
    [by : {"none", "app", "cli"}, p : Packages,
     op : {"none", "pull", "reset", "publish", "commit", "settings", "reschedule"},
     at : {"idle", "locked", "clear", "notify", "note", "failed"}]

TypeOK ==
    /\ tree \in [Packages -> Trees]
    /\ newer \in [Packages -> BOOLEAN]
    /\ commit \in [Packages -> Commits]
    /\ locked \in [Packages -> {"free", "pass", "app", "cli"}]
    /\ lastSeen \in [Packages -> Trees \cup {"unwalked"}]
    /\ clock \in [Packages -> Counters(Wait)]
    /\ waiting \subseteq Packages
    /\ paused \subseteq Packages /\ dirty \subseteq Packages
    /\ backoff \in [Packages -> 0..Backoff]
    /\ held \in [Packages -> 0..BusyRetry]
    /\ pushOn \in BOOLEAN
    /\ watcher \in [Packages -> WatcherType]
    /\ pass \in PassType
    /\ timer \in [at : {"ready", "passing", "computed", "asleep"}, left : Int]
    /\ permit \in BOOLEAN
    /\ command \in CommandType
    /\ events \in 0..MaxEvents

\* A package's lock is held by the pass working on it, by the command working
\* on it, or by nobody.
LocksOK ==
    \A p \in Packages :
        /\ locked[p] = "pass" <=>
               pass.at \in {"walk", "decide", "pull", "publish"} /\ pass.p = p
        /\ locked[p] \in {"app", "cli"} <=> command.at = "locked" /\ command.p = p

\* At most one of the tick and the timer runs passes.
TurnsOK ==
    /\ timer.at = "passing" <=> pass.by = "timer"
    /\ pass.by = "none" <=> pass.at = "idle"
    /\ pass.by = "timer" => pass.push

\* A result is there once the refresh has ended, and a raised flag before the verdict.
ResultsOK ==
    /\ pass.result # "none" <=> pass.at = "record"
    /\ pass.at \in {"pull", "publish"} => ~pass.moved

\* A walk is due, or made and not all noted.
WalkToNote(p) == watcher[p].due \/ watcher[p].walk # "none" \/ watcher[p].counts # "none"

\* INVARIANT.  No deadline is slept over: while the publish timer sleeps or is
\* about to, with no permit stored and nobody about to store one, it wakes no
\* later than the soonest deadline of a package counting down, those whose walk is
\* still to be observed and noted apart.  It computes that deadline before it
\* registers for a wake-up (publish_timer.rs `run`), while walks, commands and
\* ticks move deadlines and then call `reschedule_publish`.
NoLostDeadline ==
    timer.at \in {"computed", "asleep"} /\ ~permit /\ pushOn
        /\ pass.by # "tick" /\ command.at # "notify"
    => \A p \in waiting :
          DueAt(p) # NoTime /\ ~WalkToNote(p)
              => timer.left # NoTime /\ timer.left <= DueAt(p)

\* INVARIANT.  A pass never walks, and so never pulls, publishes or reports a
\* conflict from, a tree that a command is rewriting (tick.rs
\* `refresh_then_maybe_sync`: the try-lock; package_ops.rs: the commands rewrite
\* under the lock), and reports no conflict when a write's flag was raised from
\* its walk to its verdict, whoever raised it (tick.rs `verdict_held_still`).
WalksStillTree == ~pass.torn /\ (pass.result = "conflict" => ~pass.moved)

\* A tree no walk had found before this one.
IsNews == lastSeen[pass.p] \notin {"unwalked", pass.seen}

OwnCommitSeen == IntoOwnCommit(pass.p, pass.seen, pass.had)
Timed(p) == clock[p] # NoTime

\* ACTION PROPERTY.  A pass does not publish changes its own walk is the first to
\* find: they wait, though every signal about them was lost (last_change.rs
\* `observe`).  Changes moved into the app's own commit are not new: they do not
\* wait again for having left the tree.
NewChangesWait ==
    [][/\ pass.at = "decide" /\ pass'.at = "publish" => ~IsNews \/ OwnCommitSeen
       /\ pass.at = "decide" /\ pass'.at # "decide" /\ IsNews /\ OwnCommitSeen /\ Timed(pass.p)
            => clock' = clock]_vars

\* What holds in every reachable state.
IInv == TypeOK /\ LocksOK /\ TurnsOK /\ ResultsOK /\ NoLostDeadline /\ WalksStillTree

NeedsPublish(p) == tree[p] # "clean" \/ commit[p] # "none"

\* LIVENESS.  Changes in a package do not wait forever: again and again there is
\* nothing to publish, or the package is paused or publishing is off, however
\* ticks, the timer, walks and failures interleave, and if the timer never ran
\* (autopull/tick.rs, publish_timer.rs, last_change.rs).
ChangesArePublished == \A p \in Packages : []<>(~NeedsPublish(p) \/ p \in paused \/ ~pushOn)
=============================================================================
