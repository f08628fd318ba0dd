--------------------------- MODULE Engine_proofs ---------------------------
(***************************************************************************)
(* Proofs about the desktop engine: autosync, its kept walks and the quit  *)
(* gate, for any packages, delays and bounds.  The three components share  *)
(* no state; each has its own inductive invariant (IInv, WalksInv,         *)
(* QuitInv).                                                               *)
(***************************************************************************)
EXTENDS Autosync, KeptWalks, QuitGate, FunctionTheorems, FiniteSetTheorems,
        WellFoundedInduction, TLAPS

-----------------------------------------------------------------------------
(* Autosync: types *)

LEMMA NoPassType == NoPass \in PassType /\ NoCommand \in CommandType
<1>1. (CHOOSE p \in Packages : TRUE) \in Packages
  BY PackagesAssumption
<1> QED  BY <1>1 DEF NoPass, NoCommand, PassType, CommandType, Trees

LEMMA NoPassIs ==
    /\ NoPass \in PassType /\ NoPass.by = "none" /\ NoPass.at = "idle" /\ ~NoPass.torn
    /\ NoPass.result = "none" /\ ~NoPass.moved
    /\ NoCommand \in CommandType /\ NoCommand.at = "idle"
BY NoPassType DEF NoPass, NoCommand

LEMMA WaitCounts == Wait \in Counters(Wait) /\ NoTime \in Counters(Wait)
BY TimesAssumption DEF Counters, NoTime

LEMMA InitType == Init => TypeOK
<1> SUFFICES ASSUME Init PROVE TypeOK
  OBVIOUS
<1> USE TimesAssumption DEF Init
<1>1. watcher \in [Packages -> WatcherType]
  BY DEF WatcherType
<1>2. pass \in PassType /\ command \in CommandType
  BY NoPassType
<1>3. permit \in BOOLEAN
  BY Zenon
<1>4. clock \in [Packages -> Counters(Wait)]
  BY DEF Counters, NoTime
<1>5. timer \in [at : {"ready", "passing", "computed", "asleep"}, left : Int]
  BY DEF NoTime
<1>6. commit \in [Packages -> Commits]
  BY DEF Commits
<1>7. backoff \in [Packages -> 0..Backoff] /\ held \in [Packages -> 0..BusyRetry]
      /\ events \in 0..MaxEvents
  OBVIOUS
<1> QED  BY <1>1, <1>2, <1>3, <1>4, <1>5, <1>6, <1>7 DEF TypeOK

LEMMA ObservedType ==
    ASSUME TypeOK, NEW p \in Packages, NEW seen, NEW pending, NEW closed
    PROVE  Observed(p, seen, pending, closed) \in Counters(Wait)
BY TimesAssumption DEF TypeOK, Observed, Counters, NoTime

LEMMA ObserveType ==
    ASSUME TypeOK, NEW p \in Packages, NEW seen \in Trees, NEW pending, NEW closed,
           Observe(p, seen, pending, closed)
    PROVE  /\ lastSeen' \in [Packages -> Trees \cup {"unwalked"}]
           /\ clock' \in [Packages -> Counters(Wait)]
           /\ commit' \in [Packages -> Commits]
<1>1. Observed(p, seen, pending, closed) \in Counters(Wait)
  BY ObservedType
<1>2. Recorded(p, commit[p]) \in Commits
  BY DEF TypeOK, Recorded, Commits
<1>3. commit \in [Packages -> Commits] /\ clock \in [Packages -> Counters(Wait)]
      /\ lastSeen \in [Packages -> Trees \cup {"unwalked"}]
  BY DEF TypeOK
<1>4. clock' \in [Packages -> Counters(Wait)]
      /\ lastSeen' \in [Packages -> Trees \cup {"unwalked"}]
  BY <1>1, <1>3 DEF Observe
<1>5. commit' \in [Packages -> Commits]
  BY <1>2, <1>3 DEF Observe, Commits
<1> QED  BY <1>4, <1>5

\* What a refresh ends with.
Results == {"transient", "refused", "diverged", "conflict", "observed", "deferred", "pulled",
            "settled"}

LEMMA EndsType ==
    ASSUME TypeOK, \E r \in Results : Ends(r)
    PROVE  pass' \in PassType /\ locked' \in [Packages -> {"free", "pass", "app", "cli"}]
<1>1. PICK r \in Results : Ends(r)
  OBVIOUS
<1>2. pass \in PassType /\ NoPass \in PassType
  BY NoPassType DEF TypeOK
<1>3. (pass.torn \/ Writing(pass.p)) \in BOOLEAN
  OBVIOUS
<1>4. pass' \in PassType
  <2>1. PICK b \in BOOLEAN : b = (pass.torn \/ Writing(pass.p))
    BY <1>3
  <2>2. PICK m \in BOOLEAN : m = IF r = "conflict" THEN pass.moved ELSE FALSE
    BY <1>2 DEF PassType
  <2>3. pass' = [NoPass EXCEPT !.by = pass.by, !.at = "record", !.p = pass.p, !.push = pass.push,
                              !.todo = pass.todo, !.seen = pass.seen, !.moved = m, !.torn = b,
                              !.result = r]
    BY <1>1, <2>1, <2>2, Zenon DEF Ends
  <2>4. pass' = [by |-> pass.by, at |-> "record", p |-> pass.p, todo |-> pass.todo,
                 push |-> pass.push, had |-> "none", seen |-> pass.seen, upstream |-> "same",
                 moved |-> m, torn |-> b, result |-> r]
    BY <2>3 DEF NoPass
  <2>5. /\ pass.by \in {"none", "tick", "timer"} /\ pass.p \in Packages
        /\ pass.todo \in SUBSET Packages /\ pass.push \in BOOLEAN /\ pass.seen \in Trees
    BY <1>2 DEF PassType
  <2> QED  BY <2>4, <2>5 DEF PassType, Results, Failures, Pauses
<1>5. locked' \in [Packages -> {"free", "pass", "app", "cli"}]
  BY <1>1, <1>2 DEF Ends, TypeOK, PassType
<1> QED  BY <1>4, <1>5

-----------------------------------------------------------------------------
(* Autosync: steps keep the types *)

LEMMA PassStepType ==
    ASSUME TypeOK, PassStep
    PROVE  TypeOK'
<1> USE TimesAssumption
<1>0. NoPass \in PassType /\ pass \in PassType /\ pass.p \in Packages
  BY NoPassType DEF TypeOK, PassType
<1>1. ASSUME NEW p \in Packages, Begin(p) PROVE TypeOK'
  <2>1. pass' \in PassType
    <3>1. Pending(p) \in {"none", "at"} /\ (pass.todo \ {p}) \in SUBSET Packages
      BY <1>0 DEF Pending, PassType
    <3>2. \/ pass' = [pass EXCEPT !.todo = pass.todo \ {p}]
          \/ pass' = [pass EXCEPT !.at = "lock", !.p = p, !.todo = pass.todo \ {p},
                                    !.had = Pending(p), !.moved = FALSE, !.torn = FALSE]
      BY <1>0, <1>1 DEF Begin, PassType
    <3>3. [pass EXCEPT !.todo = pass.todo \ {p}] \in PassType
      BY <1>0, <3>1 DEF PassType
    <3>4. [pass EXCEPT !.at = "lock", !.p = p, !.todo = pass.todo \ {p}, !.had = Pending(p),
                       !.moved = FALSE, !.torn = FALSE] \in PassType
      BY <1>0, <3>1, ZenonT(40) DEF PassType
    <3> QED  BY <3>2, <3>3, <3>4
  <2>2. waiting' \subseteq Packages
    BY <1>1 DEF Begin, TypeOK
  <2> QED  BY <1>1, <2>1, <2>2 DEF Begin, TypeOK, folder, clocks
<1>2. ASSUME TryLock PROVE TypeOK'
  <2>1. pass' \in PassType
    BY <1>0, <1>2 DEF TryLock, PassType
  <2>2. locked' \in [Packages -> {"free", "pass", "app", "cli"}]
        /\ held' \in [Packages -> 0..BusyRetry]
    BY <1>0, <1>2 DEF TryLock, TypeOK
  <2> QED  BY <1>2, <2>1, <2>2 DEF TryLock, TypeOK, folder, clocks
<1>3. ASSUME Walk PROVE TypeOK'
  <2>1. CASE Failed
    <3>1. pass' \in PassType /\ locked' \in [Packages -> {"free", "pass", "app", "cli"}]
      BY <2>1, EndsType DEF Failed, Failures, Results
    <3>2. events' \in 0..MaxEvents
      BY <2>1 DEF Failed, Happens, TypeOK
    <3> QED  BY <1>3, <3>1, <3>2 DEF Walk, TypeOK, folder, clocks, queue
  <2>2. ASSUME NEW seen \in Finds(pass.p),
               pass' = [pass EXCEPT !.at = "decide", !.seen = seen, !.torn = Writing(pass.p),
                                    !.upstream = Upstream(pass.p)],
               UNCHANGED <<locked, events>>
        PROVE TypeOK'
    <3>1. seen \in Trees /\ Upstream(pass.p) \in {"same", "behind", "diverged"}
      BY <1>0, <2>2 DEF Finds, Upstream, TypeOK
    <3>2. PICK b \in BOOLEAN : b = Writing(pass.p)
      BY DEF Writing
    <3>3. pass' = [pass EXCEPT !.at = "decide", !.seen = seen, !.torn = b,
                               !.upstream = Upstream(pass.p)]
      BY <2>2, <3>2, Zenon
    <3>4. pass' \in PassType
      BY <1>0, <3>1, <3>3, ZenonT(40) DEF PassType
    <3> QED  BY <1>3, <2>2, <3>4 DEF Walk, TypeOK, folder, clocks, queue
  <2> QED  BY <1>3, <2>1, <2>2 DEF Walk
<1>4. ASSUME Decide PROVE TypeOK'
  <2>1. PICK closed \in BOOLEAN : Observe(pass.p, pass.seen, pass.had, closed)
    BY <1>4 DEF Decide
  <2>2. /\ lastSeen' \in [Packages -> Trees \cup {"unwalked"}]
        /\ clock' \in [Packages -> Counters(Wait)]
        /\ commit' \in [Packages -> Commits]
    BY <1>0, <2>1, ObserveType DEF PassType
  <2>3. pass' \in PassType /\ locked' \in [Packages -> {"free", "pass", "app", "cli"}]
    <3>1. \/ \E r \in Results : Ends(r)
          \/ /\ \E now \in Finds(pass.p) :
                  pass' = [pass EXCEPT !.at = "pull", !.seen = now, !.moved = FALSE]
             /\ UNCHANGED locked
          \/ /\ pass' = [pass EXCEPT !.at = "publish", !.moved = FALSE]
             /\ UNCHANGED locked
      BY <1>4 DEF Decide, Results
    <3>2. Finds(pass.p) \subseteq Trees
      BY <1>0 DEF Finds, TypeOK
    <3>3. ASSUME NEW now \in Trees,
          pass' = [pass EXCEPT !.at = "pull", !.seen = now, !.moved = FALSE]
          PROVE  pass' \in PassType
      BY <1>0, <3>3 DEF PassType
    <3>4. CASE pass' = [pass EXCEPT !.at = "publish", !.moved = FALSE] /\ UNCHANGED locked
      BY <1>0, <3>4 DEF PassType, TypeOK
    <3>5. locked \in [Packages -> {"free", "pass", "app", "cli"}]
      BY DEF TypeOK
    <3> QED  BY <3>1, <3>2, <3>3, <3>4, <3>5, EndsType
  <2> QED  BY <1>4, <2>2, <2>3 DEF Decide, TypeOK, queue
<1>5. ASSUME Pull PROVE TypeOK'
  <2>1. \E r \in Results : Ends(r)
    BY <1>5 DEF Pull, Failed, Failures, Results
  <2>2. /\ newer' \in [Packages -> BOOLEAN]
        /\ lastSeen' \in [Packages -> Trees \cup {"unwalked"}]
        /\ clock' \in [Packages -> Counters(Wait)]
        /\ events' \in 0..MaxEvents
    <3>1. tree[pass.p] \in Trees
      BY <1>0 DEF TypeOK
    <3>2. /\ newer' \in {newer, [newer EXCEPT ![pass.p] = FALSE]}
          /\ lastSeen' \in {lastSeen, [lastSeen EXCEPT ![pass.p] = tree[pass.p]]}
          /\ clock' \in {clock, [clock EXCEPT ![pass.p] = Wait]}
      BY <1>5 DEF Pull, clocks
    <3>3. events' \in 0..MaxEvents
      BY <1>5 DEF Pull, Failed, Happens, TypeOK
    <3>4. [newer EXCEPT ![pass.p] = FALSE] \in [Packages -> BOOLEAN]
      BY DEF TypeOK
    <3>5. [clock EXCEPT ![pass.p] = Wait] \in [Packages -> Counters(Wait)]
      BY WaitCounts DEF TypeOK
    <3> QED  BY <3>1, <3>2, <3>3, <3>4, <3>5 DEF TypeOK
  <2> QED  BY <1>5, <2>1, <2>2, EndsType DEF Pull, TypeOK, queue
<1>6. ASSUME Publish PROVE TypeOK'
  <2>1. \E r \in Results : Ends(r)
    BY <1>6 DEF Publish, Failed, Failures, Results
  <2>2. /\ tree' \in [Packages -> Trees]
        /\ commit' \in [Packages -> Commits]
        /\ clock' \in [Packages -> Counters(Wait)]
        /\ events' \in 0..MaxEvents
    BY <1>0, <1>6 DEF Publish, TypeOK, Counters, NoTime, Trees, Commits, Published, NotesFailure,
       Failed, Happens
  <2> QED  BY <1>6, <2>1, <2>2, EndsType DEF Publish, TypeOK, queue
<1>7. ASSUME Record PROVE TypeOK'
  <2>1. pass' \in PassType
    BY <1>0, <1>7 DEF Record, PassType
  <2>2. /\ waiting' \subseteq Packages
        /\ paused' \subseteq Packages /\ dirty' \subseteq Packages
        /\ backoff' \in [Packages -> 0..Backoff]
    BY <1>0, <1>7 DEF Record, TypeOK
  <2> QED  BY <1>7, <2>1, <2>2 DEF Record, TypeOK, folder, clocks
<1> QED  BY <1>1, <1>2, <1>3, <1>4, <1>5, <1>6, <1>7 DEF PassStep

LessOnNat == {ss \in Nat \X Nat : ss[1] < ss[2]}

LEMMA LessWellFounded == IsWellFoundedOn(LessOnNat, Nat)
BY NatLessThanWellFounded, Zenon DEF OpToRel, LessOnNat

\* A set of times has a soonest.
LEMMA LeastExists ==
    ASSUME NEW S \in SUBSET Nat, S # {}
    PROVE  \E a \in S : \A b \in S : a <= b
<1>1. PICK a \in S : \A b \in S : ~ (<<b, a>> \in LessOnNat)
  BY LessWellFounded, WFMin, Zenon
<1>2. ASSUME NEW b \in S PROVE a <= b
  <2>1. a \in Nat /\ b \in Nat /\ ~ (<<b, a>> \in LessOnNat)
    BY <1>1
  <2>2. ~ (b < a)
    BY <2>1, Zenon DEF LessOnNat
  <2> QED  BY <2>1, <2>2
<1> QED  BY <1>2

LEMMA DueAtType ==
    ASSUME TypeOK, NEW p \in Packages
    PROVE  DueAt(p) \in Nat \cup {NoTime}
<1> USE TimesAssumption
<1>1. clock[p] \in Counters(Wait) /\ backoff[p] \in Nat /\ held[p] \in Nat
  BY DEF TypeOK
<1> QED  BY <1>1 DEF DueAt, Later, Counters, NoTime

LEMMA SoonestIsLeast ==
    ASSUME TypeOK, NEW P \in SUBSET Packages
    PROVE  /\ Soonest(P) \in Nat \cup {NoTime}
           /\ \A p \in P : DueAt(p) # NoTime => Soonest(P) # NoTime /\ Soonest(P) <= DueAt(p)
<1> DEFINE at == {DueAt(p) : p \in P} \ {NoTime}
<1>1. at \in SUBSET Nat
  BY DueAtType
<1>2. CASE at = {}
  BY <1>2 DEF Soonest
<1>3. CASE at # {}
  <2>1. \E a \in at : \A b \in at : a <= b
    BY <1>1, <1>3, LeastExists
  <2>2. Soonest(P) = CHOOSE a \in at : \A b \in at : a <= b
    BY <1>3 DEF Soonest
  <2>3. Soonest(P) \in at /\ \A b \in at : Soonest(P) <= b
    BY <2>1, <2>2
  <2>4. NoTime \notin Nat
    BY DEF NoTime
  <2> QED  BY <1>1, <2>3, <2>4
<1> QED  BY <1>2, <1>3

LEMMA SoonestType ==
    ASSUME TypeOK, NEW P \in SUBSET Packages
    PROVE  Soonest(P) \in Int
BY SoonestIsLeast DEF NoTime

LEMMA LoopStepType ==
    ASSUME TypeOK, TickStarts \/ TickEnds \/ TimerReads \/ TimerStep \/ Elapse \/ FlagRaised
    PROVE  TypeOK'
<1> USE TimesAssumption
<1>0. NoPass \in PassType /\ pass \in PassType /\ pushOn \in BOOLEAN
      /\ timer \in [at : {"ready", "passing", "computed", "asleep"}, left : Int]
  BY NoPassType DEF TypeOK
<1>1. ASSUME TickStarts PROVE TypeOK'
  <2>1. pass' \in PassType
    BY <1>0, <1>1, ZenonT(40) DEF TickStarts, PassType
  <2> QED  BY <1>1, <2>1 DEF TickStarts, TypeOK, folder, clocks, queue
<1>2. ASSUME TickEnds PROVE TypeOK'
  BY <1>0, <1>2 DEF TickEnds, Notify, TypeOK, folder, clocks, queue
<1>3. ASSUME NEW P \in SUBSET Packages PROVE Soonest(P) \in Int
  BY SoonestType, <1>3
<1>4. ASSUME TimerReads PROVE TypeOK'
  <2>1. pass' \in PassType
    <3> DEFINE due == {p \in waiting : DueAt(p) = 0}
    <3>1. due \in SUBSET Packages
      BY DEF TypeOK
    <3>2. ASSUME NEW todo \in SUBSET Packages
          PROVE  [NoPass EXCEPT !.by = "timer", !.at = "next", !.push = TRUE, !.todo = todo]
                   \in PassType
      BY <1>0, ZenonT(40) DEF PassType
    <3>3. [NoPass EXCEPT !.by = "timer", !.at = "next", !.push = TRUE, !.todo = due] \in PassType
      BY <3>1, <3>2
    <3> QED  BY <1>0, <1>4, <3>3 DEF TimerReads
  <2>2. timer' \in [at : {"ready", "passing", "computed", "asleep"}, left : Int]
    BY <1>0, <1>3, <1>4 DEF TimerReads, TypeOK, NoTime
  <2> QED  BY <1>4, <2>1, <2>2 DEF TimerReads, TypeOK, folder, clocks, queue
<1>5. ASSUME TimerStep PROVE TypeOK'
  <2>1. timer' \in [at : {"ready", "passing", "computed", "asleep"}, left : Int]
    <3>1. CASE TimerEnds
      <4>1. Soonest(waiting) \in Int
        BY <1>3 DEF TypeOK
      <4> QED  BY <3>1, <4>1 DEF TimerEnds
    <3>2. CASE TimerSleeps
      <4>1. NoTime \in Int /\ Sooner(timer.left, MaxSleep) \in Int
        BY <1>0 DEF NoTime, Sooner
      <4> QED  BY <1>0, <3>2, <4>1 DEF TimerSleeps
    <3>3. CASE TimerWoken \/ TimerRings
      BY <3>3 DEF TimerWoken, TimerRings, NoTime
    <3> QED  BY <1>5, <3>1, <3>2, <3>3 DEF TimerStep
  <2>2. pass' \in PassType /\ permit' \in BOOLEAN
    BY <1>0, <1>5 DEF TimerStep, TimerEnds, TimerSleeps, TimerWoken, TimerRings, TypeOK
  <2> QED  BY <1>5, <2>1, <2>2 DEF TimerStep, TimerEnds, TimerSleeps, TimerWoken, TimerRings,
                                   TypeOK, folder, clocks, queue
<1>6. ASSUME Elapse PROVE TypeOK'
  <2>1. /\ clock' \in [Packages -> Counters(Wait)]
        /\ backoff' \in [Packages -> 0..Backoff] /\ held' \in [Packages -> 0..BusyRetry]
    BY <1>6 DEF Elapse, TypeOK, Less, Counters, NoTime
  <2>2. timer' \in [at : {"ready", "passing", "computed", "asleep"}, left : Int]
    BY <1>0, <1>6 DEF Elapse, Less
  <2> QED  BY <1>6, <2>1, <2>2 DEF Elapse, TypeOK, folder
<1>7. ASSUME FlagRaised PROVE TypeOK'
  <2>1. pass' \in PassType
    BY <1>0, <1>7 DEF FlagRaised, PassType
  <2> QED  BY <1>7, <2>1 DEF FlagRaised, TypeOK, folder, clocks, queue, Happens
<1> QED  BY <1>1, <1>2, <1>4, <1>5, <1>6, <1>7

LEMMA WatcherStepType ==
    ASSUME TypeOK, NEW p \in Packages,
           \/ WatcherStep(p) \/ OthersPush(p)
           \/ \E to \in Trees, heard \in BOOLEAN : Edit(p, to, heard)
    PROVE  TypeOK'
<1> USE TimesAssumption
<1>0. watcher \in [Packages -> WatcherType] /\ watcher[p] \in WatcherType
  BY DEF TypeOK
<1>1. ASSUME Signal(p) PROVE TypeOK'
  <2>1. watcher' \in [Packages -> WatcherType]
    BY <1>0, <1>1 DEF Signal, WatcherType
  <2>2. clock' \in [Packages -> Counters(Wait)]
    BY WaitCounts, <1>1 DEF Signal, TypeOK
  <2>3. commit' \in [Packages -> Commits]
    BY <1>1 DEF Signal, TypeOK, Recorded, Commits
  <2> QED  BY <1>1, <2>1, <2>2, <2>3 DEF Signal, TypeOK, queue
<1>2. ASSUME TrailingWalk(p) PROVE TypeOK'
  <2>1. PICK seen \in Finds(p) :
          watcher' = [watcher EXCEPT ![p].due = FALSE, ![p].walk = seen,
                        ![p].pending = IF seen = "clean" THEN Pending(p) ELSE "unknown"]
    BY <1>2 DEF TrailingWalk
  <2>2. seen \in Trees /\ Pending(p) \in {"none", "at"}
    BY DEF Finds, Pending, TypeOK
  <2>3. watcher' \in [Packages -> WatcherType]
    BY <1>0, <2>1, <2>2 DEF WatcherType
  <2> QED  BY <1>2, <2>3 DEF TrailingWalk, TypeOK, folder, clocks, queue
<1>3. ASSUME ObserveWalk(p) PROVE TypeOK'
  <2>1. PICK closed \in BOOLEAN : Observe(p, watcher[p].walk, watcher[p].pending, closed)
    BY <1>3 DEF ObserveWalk
  <2>2. watcher[p].walk \in Trees
    BY <1>0, <1>3 DEF ObserveWalk, WatcherType
  <2>3. /\ lastSeen' \in [Packages -> Trees \cup {"unwalked"}]
        /\ clock' \in [Packages -> Counters(Wait)]
        /\ commit' \in [Packages -> Commits]
    BY <2>1, <2>2, ObserveType
  <2>4. watcher' \in [Packages -> WatcherType]
    <3>1. PICK c \in {"yes", "no"} :
            watcher' = [watcher EXCEPT ![p].walk = "none", ![p].pending = "none", ![p].counts = c]
      BY <1>3 DEF ObserveWalk
    <3> QED  BY <1>0, <3>1 DEF WatcherType
  <2> QED  BY <1>3, <2>3, <2>4 DEF ObserveWalk, TypeOK, queue
<1>4. ASSUME OthersPush(p) PROVE TypeOK'
  BY <1>4 DEF OthersPush, TypeOK, clocks, queue, Happens
<1>5. ASSUME NEW to \in Trees, NEW heard \in BOOLEAN, Edit(p, to, heard) PROVE TypeOK'
  <2>1. watcher' \in [Packages -> WatcherType]
    BY <1>0, <1>5 DEF Edit, WatcherType
  <2> QED  BY <1>5, <2>1 DEF Edit, TypeOK, clocks, queue, Happens
<1>6. ASSUME CountsDown(p) PROVE TypeOK'
  <2>1. watcher' \in [Packages -> WatcherType]
    BY <1>0, <1>6 DEF CountsDown, WatcherType
  <2>2. waiting' \subseteq Packages /\ permit' \in BOOLEAN
    BY <1>6 DEF CountsDown, Notify, TypeOK
  <2> QED  BY <1>6, <2>1, <2>2 DEF CountsDown, TypeOK, folder, clocks
<1> QED  BY <1>1, <1>2, <1>3, <1>4, <1>5, <1>6 DEF WatcherStep

LEMMA StartType ==
    ASSUME TypeOK, NEW p \in Packages, NEW c \in Commands, Start(c[1], c[2], p)
    PROVE  TypeOK'
<1>1. c[1] \in {"app", "cli"} /\ c[2] \in {"pull", "reset", "publish", "commit"}
  BY CommandsAssumption
<1>2. command' \in CommandType
  BY <1>1 DEF Start, CommandType
<1>3. locked' \in [Packages -> {"free", "pass", "app", "cli"}]
  BY <1>1 DEF Start, TypeOK
<1> QED  BY TimesAssumption, <1>2, <1>3 DEF Start, TypeOK, folder, clocks, queue, Happens

LEMMA CommandStepType ==
    ASSUME TypeOK, CommandStep
    PROVE  TypeOK'
<1>0. command \in CommandType /\ NoCommand \in CommandType /\ command.p \in Packages
  BY NoPassType DEF TypeOK, CommandType
<1>1. ASSUME Done PROVE TypeOK'
  <2>1. command' \in CommandType
    BY <1>0, <1>1 DEF Done, CommandType
  <2>2. /\ tree' \in [Packages -> Trees] /\ newer' \in [Packages -> BOOLEAN]
        /\ locked' \in [Packages -> {"free", "pass", "app", "cli"}]
    BY <1>0, <1>1 DEF Done, Unlock, TypeOK, Trees
  <2>3. commit' \in [Packages -> Commits]
    BY <1>0, <1>1 DEF Done, TypeOK, Commits
  <2> QED  BY <1>1, <2>1, <2>2, <2>3 DEF Done, TypeOK, clocks, queue
<1>2. ASSUME Fails PROVE TypeOK'
  <2>1. paused' \subseteq Packages /\ dirty' \subseteq Packages
    BY <1>0, <1>2 DEF Fails, TypeOK
  <2>2. command' \in CommandType
    BY <1>0, <1>2 DEF Fails, CommandType
  <2>3. locked' \in [Packages -> {"free", "pass", "app", "cli"}]
    BY <1>0, <1>2 DEF Fails, Unlock, TypeOK
  <2> QED  BY <1>2, <2>1, <2>2, <2>3 DEF Fails, TypeOK, clocks, folder
<1>3. ASSUME Clear PROVE TypeOK'
  <2>1. paused' \subseteq Packages /\ dirty' \subseteq Packages /\ command' \in CommandType
    BY <1>0, <1>3 DEF Clear, TypeOK, CommandType
  <2> QED  BY <1>3, <2>1 DEF Clear, TypeOK, clocks, folder
<1>4. ASSUME Reschedule PROVE TypeOK'
  <2>1. command' \in CommandType
    BY <1>0, <1>4 DEF Reschedule, CommandType
  <2> QED  BY <1>4, <2>1 DEF Reschedule, Notify, TypeOK, clocks, folder, queue
<1>5. ASSUME NotePublished PROVE TypeOK'
  <2>1. clock' \in [Packages -> Counters(Wait)] /\ waiting' \subseteq Packages
    BY WaitCounts, <1>0, <1>5 DEF NotePublished, Published, TypeOK
  <2> QED  BY <1>0, <1>5, <2>1 DEF NotePublished, TypeOK, folder
<1>6. ASSUME NoteCommitted PROVE TypeOK'
  <2>1. clock' \in [Packages -> Counters(Wait)] /\ waiting' \subseteq Packages
    BY WaitCounts, <1>0, <1>6 DEF NoteCommitted, TypeOK
  <2>2. commit' \in [Packages -> Commits]
    BY <1>0, <1>6 DEF NoteCommitted, TypeOK, Commits
  <2>3. command' \in CommandType
    BY <1>0, <1>6 DEF NoteCommitted, CommandType
  <2> QED  BY <1>6, <2>1, <2>2, <2>3 DEF NoteCommitted, TypeOK
<1>7. ASSUME NotePublishFailed PROVE TypeOK'
  <2>1. commit' \in [Packages -> Commits]
    BY <1>0, <1>7 DEF NotePublishFailed, NotesFailure, TypeOK, Commits
  <2> QED  BY <1>0, <1>7, <2>1 DEF NotePublishFailed, TypeOK, clocks, queue
<1> QED  BY <1>1, <1>2, <1>3, <1>4, <1>5, <1>6, <1>7 DEF CommandStep

LEMMA TogglePushType ==
    ASSUME TypeOK, TogglePush
    PROVE  TypeOK'
<1>1. command' \in CommandType
  BY TimesAssumption DEF TogglePush, TypeOK, CommandType
<1>2. pushOn' \in BOOLEAN /\ permit' \in BOOLEAN /\ waiting' \subseteq Packages
  <2>1. pushOn' \in BOOLEAN
    BY Zenon DEF TogglePush
  <2> QED  BY <2>1 DEF TogglePush, Notify, TypeOK
<1>3. clock' \in [Packages -> Counters(Wait)]
  BY WaitCounts DEF TogglePush, TypeOK
<1>4. commit' \in [Packages -> Commits]
  BY DEF TogglePush, TypeOK, Recorded, Commits
<1>5. events' \in 0..MaxEvents
  <2>1. Happens
    BY DEF TogglePush
  <2> QED  BY TimesAssumption, <2>1 DEF Happens, TypeOK
<1> QED  BY <1>1, <1>2, <1>3, <1>4, <1>5 DEF TogglePush, TypeOK

LEMMA TypeStep ==
    ASSUME TypeOK, [Next]_vars
    PROVE  TypeOK'
<1>1. CASE UNCHANGED vars
  BY <1>1 DEF vars, TypeOK
<1>2. CASE Next
  BY <1>2, PassStepType, LoopStepType, WatcherStepType, CommandStepType, TogglePushType,
     StartType DEF Next
<1> QED  BY <1>1, <1>2

-----------------------------------------------------------------------------
(* Autosync: locks and turns *)

LEMMA TimerReadsTo ==
    ASSUME TimerReads
    PROVE  \/ UNCHANGED pass /\ timer'.at = "computed"
           \/ /\ pass'.by = "timer" /\ pass'.at = "next" /\ pass'.push /\ ~pass'.torn
              /\ pass'.result = "none" /\ timer'.at = "passing"
<1> DEFINE due == {p \in waiting : DueAt(p) = 0}
<1>1. ASSUME NEW todo,
      pass' = [NoPass EXCEPT !.by = "timer", !.at = "next", !.push = TRUE, !.todo = todo]
      PROVE  /\ pass'.by = "timer" /\ pass'.at = "next" /\ pass'.push /\ ~pass'.torn
             /\ pass'.result = "none"
  BY <1>1, NoPassIs DEF PassType
<1>2. CASE pushOn /\ due # {}
  <2>1. /\ pass' = [NoPass EXCEPT !.by = "timer", !.at = "next", !.push = TRUE, !.todo = due]
        /\ timer' = [at |-> "passing", left |-> NoTime]
    BY <1>2 DEF TimerReads
  <2> QED  BY <1>1, <2>1
<1>3. CASE ~(pushOn /\ due # {})
  BY <1>3 DEF TimerReads
<1> QED  BY <1>2, <1>3

\* Where a decision leads.
LEMMA DecideTo ==
    ASSUME TypeOK, Decide
    PROVE  \/ \E r \in Results : Ends(r) /\ (r = "conflict" => ~pass.moved)
           \/ /\ UNCHANGED locked /\ pass'.p = pass.p /\ pass'.at \in {"pull", "publish"}
              /\ pass'.by = pass.by /\ pass'.push = pass.push /\ ~pass'.moved
              /\ pass'.torn = pass.torn /\ pass'.result = pass.result
<1>0. pass \in PassType
  BY DEF TypeOK
<1>1. \/ Ends("diverged") \/ Ends("observed") \/ Ends("deferred")
      \/ Ends("conflict") /\ ~pass.moved
      \/ \E now : /\ pass' = [pass EXCEPT !.at = "pull", !.seen = now, !.moved = FALSE]
                  /\ UNCHANGED locked
      \/ pass' = [pass EXCEPT !.at = "publish", !.moved = FALSE] /\ UNCHANGED locked
  BY Zenon DEF Decide, VerdictHeldStill
<1>2. CASE \/ Ends("diverged") \/ Ends("observed") \/ Ends("deferred")
           \/ Ends("conflict") /\ ~pass.moved
  BY <1>2 DEF Results
<1>3. ASSUME NEW now, pass' = [pass EXCEPT !.at = "pull", !.seen = now, !.moved = FALSE],
             UNCHANGED locked
      PROVE  /\ UNCHANGED locked /\ pass'.p = pass.p /\ pass'.at \in {"pull", "publish"}
             /\ pass'.by = pass.by /\ pass'.push = pass.push /\ ~pass'.moved
             /\ pass'.torn = pass.torn /\ pass'.result = pass.result
  BY <1>0, <1>3 DEF PassType
<1>4. CASE pass' = [pass EXCEPT !.at = "publish", !.moved = FALSE] /\ UNCHANGED locked
  BY <1>0, <1>4 DEF PassType
<1> QED  BY <1>1, <1>2, <1>3, <1>4

LEMMA LocksStep ==
    ASSUME TypeOK, LocksOK, TurnsOK, [Next]_vars
    PROVE  LocksOK'
<1>0. /\ pass.p \in Packages /\ pass \in PassType /\ command \in CommandType
      /\ locked \in [Packages -> {"free", "pass", "app", "cli"}]
  BY DEF TypeOK, PassType, CommandType
<1>1. ASSUME UNCHANGED <<locked, pass, command>> PROVE LocksOK'
  BY <1>1 DEF LocksOK
<1>2. CASE UNCHANGED vars \/ TimerSleeps \/ TimerWoken \/ TimerRings \/ Elapse
           \/ (\E p \in Packages : WatcherStep(p) \/ OthersPush(p)
                 \/ \E to \in Trees, heard \in BOOLEAN : Edit(p, to, heard))
  BY <1>1, <1>2 DEF vars, TimerSleeps, TimerWoken, TimerRings, Elapse, WatcherStep, Signal,
     TrailingWalk, ObserveWalk, CountsDown, OthersPush, Edit
\* The pass moves on where it neither holds a lock nor takes one.
<1>3. ASSUME UNCHANGED <<locked, command>>,
             pass.at \notin {"walk", "decide", "pull", "publish"},
             pass'.at \notin {"walk", "decide", "pull", "publish"}
      PROVE  LocksOK'
  BY <1>3 DEF LocksOK
\* It moves on and keeps the lock it holds.
<1>4. ASSUME UNCHANGED <<locked, command>>, pass'.p = pass.p,
             pass.at \in {"walk", "decide", "pull", "publish"},
             pass'.at \in {"walk", "decide", "pull", "publish"}
      PROVE  LocksOK'
  BY <1>4 DEF LocksOK
<1>5. ASSUME NEW r, Ends(r), UNCHANGED command,
             pass.at \in {"walk", "decide", "pull", "publish"}
      PROVE  LocksOK'
  <2>1. pass'.at = "record"
    BY <1>5 DEF Ends, NoPass
  <2> QED  BY <1>0, <1>5, <2>1 DEF Ends, LocksOK
<1>6. CASE TickStarts \/ TickEnds \/ TimerReads \/ TimerEnds \/ Record
           \/ \E p \in Packages : Begin(p)
  <2>1. CASE TickStarts \/ TickEnds \/ TimerEnds \/ Record
    <3>1. UNCHANGED <<locked, command>>
      BY <2>1 DEF TickStarts, TickEnds, TimerEnds, Record
    <3>2. pass.at \notin {"walk", "decide", "pull", "publish"}
      BY <2>1 DEF TickStarts, TickEnds, TimerEnds, Record, TurnsOK
    <3>3. pass'.at \in {"idle", "next"}
      BY NoPassIs, <2>1 DEF TickStarts, TickEnds, TimerEnds, Record, PassType
    <3> QED  BY <1>3, <3>1, <3>2, <3>3
  <2>2. CASE TimerReads
    <3>1. pass.at = "idle" /\ UNCHANGED <<locked, command>>
      BY <2>2 DEF TimerReads, TurnsOK
    <3> QED  BY <1>1, <1>3, <2>2, <3>1, TimerReadsTo
  <2>3. ASSUME NEW p \in Packages, Begin(p) PROVE LocksOK'
    BY <1>0, <1>3, <2>3, ZenonT(40) DEF Begin, PassType
  <2> QED  BY <1>6, <2>1, <2>2, <2>3
<1>7. CASE TryLock
  BY <1>0, <1>7 DEF TryLock, LocksOK, PassType
<1>8. CASE Walk
  <2>1. \/ \E r \in Results : Ends(r)
        \/ UNCHANGED locked /\ pass'.p = pass.p /\ pass'.at = "decide"
    BY <1>0, <1>8 DEF Walk, Failed, Failures, Results, PassType
  <2> QED  BY <1>4, <1>5, <1>8, <2>1 DEF Walk
<1>9. CASE FlagRaised
  BY <1>0, <1>4, <1>9 DEF FlagRaised, PassType
<1>10. CASE Decide
  <2>1. \/ \E r \in Results : Ends(r)
        \/ UNCHANGED locked /\ pass'.p = pass.p /\ pass'.at \in {"pull", "publish"}
    BY <1>10, DecideTo
  <2> QED  BY <1>4, <1>5, <1>10, <2>1 DEF Decide
<1>11. CASE Pull \/ Publish
  <2>1. \E r \in Results : Ends(r)
    BY <1>11 DEF Pull, Publish, Failed, Failures, Results
  <2> QED  BY <1>5, <1>11, <2>1 DEF Pull, Publish
<1>12. ASSUME NEW p \in Packages, NEW c \in Commands, Start(c[1], c[2], p) PROVE LocksOK'
  <2>1. c[1] \in {"app", "cli"}
    BY CommandsAssumption
  <2> QED  BY <1>0, <1>12, <2>1 DEF Start, LocksOK
<1>13. CASE Done \/ Fails
  <2>1. command'.at # "locked" /\ UNCHANGED pass /\ Unlock /\ command.at = "locked"
    BY <1>0, <1>13 DEF Done, Fails, NoCommand, CommandType
  <2> QED  BY <1>0, <2>1 DEF Unlock, LocksOK
<1>14. CASE Clear \/ Reschedule \/ NotePublished \/ NoteCommitted \/ NotePublishFailed \/ TogglePush
  <2>1. command'.at # "locked" /\ command.at # "locked" /\ UNCHANGED <<pass, locked>>
    BY NoPassIs, <1>0, <1>14 DEF Clear, Reschedule, NotePublished, NoteCommitted,
                                 NotePublishFailed, TogglePush, CommandType
  <2> QED  BY <2>1 DEF LocksOK
<1> QED  BY <1>2, <1>6, <1>7, <1>8, <1>9, <1>10, <1>11, <1>12, <1>13, <1>14
         DEF Next, PassStep, TimerStep, CommandStep

LEMMA PassGoesOn ==
    ASSUME TypeOK, PassStep \/ FlagRaised
    PROVE  pass'.by = pass.by /\ pass'.push = pass.push /\ pass'.at # "idle"
<1>0. pass \in PassType
  BY DEF TypeOK
<1>8. ASSUME NEW r, Ends(r)
      PROVE pass'.by = pass.by /\ pass'.push = pass.push /\ pass'.at = "record"
  BY <1>8, NoPassIs DEF Ends, PassType
<1>1. CASE FlagRaised
  BY <1>0, <1>1 DEF FlagRaised, PassType
<1>2. ASSUME NEW p \in Packages, Begin(p)
      PROVE pass'.by = pass.by /\ pass'.push = pass.push /\ pass'.at # "idle"
  BY <1>0, <1>2 DEF Begin, PassType
<1>3. CASE TryLock
  BY <1>0, <1>3 DEF TryLock, PassType
<1>4. CASE Walk
  BY <1>0, <1>8, <1>4 DEF Walk, Failed, PassType
<1>5. CASE Decide
  BY <1>5, <1>8, DecideTo
<1>6. CASE Pull \/ Publish
  BY <1>8, <1>6 DEF Pull, Publish, Failed
<1>7. CASE Record
  BY <1>7, NoPassIs DEF Record, PassType
<1> QED  BY <1>1, <1>2, <1>3, <1>4, <1>5, <1>6, <1>7 DEF PassStep

LEMMA TurnsStep ==
    ASSUME TypeOK, TurnsOK, [Next]_vars
    PROVE  TurnsOK'
<1>0. pass \in PassType /\ timer \in [at : {"ready", "passing", "computed", "asleep"}, left : Int]
  BY DEF TypeOK
<1>1. ASSUME UNCHANGED <<timer, pass>> PROVE TurnsOK'
  BY <1>1 DEF TurnsOK
\* A pass of somebody goes on.
<1>2. ASSUME UNCHANGED timer, pass'.by = pass.by, pass'.push = pass.push, pass.at # "idle",
             pass'.at # "idle"
      PROVE  TurnsOK'
  BY <1>2 DEF TurnsOK
<1>4. CASE PassStep \/ FlagRaised
  <2>1. UNCHANGED timer /\ pass.at # "idle"
    BY <1>4 DEF PassStep, FlagRaised, Begin, TryLock, Walk, Decide, Pull, Publish, Record
  <2>2. pass'.by = pass.by /\ pass'.push = pass.push /\ pass'.at # "idle"
    BY <1>4, PassGoesOn
  <2> QED  BY <1>2, <2>1, <2>2
<1>5. CASE TickStarts \/ TickEnds
  BY NoPassIs, <1>0, <1>5, ZenonT(40) DEF TurnsOK, TickStarts, TickEnds, PassType
<1>6. CASE TimerReads \/ TimerEnds
  <2>1. CASE TimerReads
    BY <2>1, TimerReadsTo DEF TurnsOK, TimerReads
  <2>2. CASE TimerEnds
    BY NoPassIs, <2>2 DEF TurnsOK, TimerEnds
  <2> QED  BY <1>6, <2>1, <2>2
<1>7. CASE TimerSleeps \/ TimerWoken \/ TimerRings \/ Elapse
  <2>1. UNCHANGED pass /\ (timer'.at = "passing" <=> timer.at = "passing")
    <3>1. CASE TimerSleeps
      BY <1>0, <3>1 DEF TimerSleeps
    <3>2. CASE TimerWoken \/ TimerRings
      BY <3>2 DEF TimerWoken, TimerRings
    <3>3. CASE Elapse
      BY <1>0, <3>3 DEF Elapse
    <3> QED  BY <1>7, <3>1, <3>2, <3>3
  <2> QED  BY <2>1 DEF TurnsOK
<1>8. CASE CommandStep \/ TogglePush \/ UNCHANGED vars
           \/ (\E p \in Packages : WatcherStep(p) \/ OthersPush(p)
                 \/ (\E to \in Trees, heard \in BOOLEAN : Edit(p, to, heard))
                 \/ (\E c \in Commands : Start(c[1], c[2], p)))
  BY <1>1, <1>8 DEF CommandStep, Done, Fails, Clear, Reschedule, NotePublished, NoteCommitted,
     NotePublishFailed, TogglePush, vars, WatcherStep, Signal, TrailingWalk, ObserveWalk,
     CountsDown, OthersPush, Edit, Start
<1> QED  BY <1>4, <1>5, <1>6, <1>7, <1>8 DEF Next, TimerStep

\* What the end of a refresh leaves.
LEMMA EndsIs ==
    ASSUME NEW r, Ends(r)
    PROVE  /\ pass'.at = "record" /\ pass'.result = r
           /\ pass'.torn = (pass.torn \/ Writing(pass.p))
           /\ pass'.moved = IF r = "conflict" THEN pass.moved ELSE FALSE
BY DEF Ends, NoPass

\* The steps that take the pass neither through a walk nor to the end of a refresh.
Elsewhere ==
    \/ TryLock \/ FlagRaised \/ Record \/ TickStarts \/ TickEnds \/ TimerReads \/ TimerEnds
    \/ \E p \in Packages : Begin(p)

LEMMA ElsewhereTo ==
    ASSUME TypeOK, ResultsOK, Elsewhere
    PROVE  \/ UNCHANGED pass
           \/ /\ pass'.at \notin {"record", "pull", "publish"} /\ pass'.result = "none"
              /\ (pass'.torn => pass.torn)
<1>0. pass \in PassType
  BY DEF TypeOK
<1>1. CASE TimerReads
  BY <1>1, TimerReadsTo
<1>2. CASE TickStarts \/ TickEnds \/ TimerEnds \/ Record
  <2>1. CASE TickStarts
    BY <2>1, NoPassIs DEF TickStarts, PassType
  <2>2. CASE TickEnds \/ TimerEnds
    BY <2>2, NoPassIs DEF TickEnds, TimerEnds
  <2>3. CASE Record
    BY <2>3, NoPassIs DEF Record, PassType
  <2> QED  BY <1>2, <2>1, <2>2, <2>3
<1>3. CASE TryLock
  BY <1>0, <1>3 DEF TryLock, PassType, ResultsOK
<1>4. CASE FlagRaised
  BY <1>0, <1>4 DEF FlagRaised, PassType, ResultsOK
<1>5. ASSUME NEW p \in Packages, Begin(p)
      PROVE  /\ pass'.at \notin {"record", "pull", "publish"} /\ pass'.result = "none"
             /\ (pass'.torn => pass.torn)
  BY <1>0, <1>5, ZenonT(40) DEF Begin, PassType, ResultsOK
<1> QED  BY <1>1, <1>2, <1>3, <1>4, <1>5 DEF Elsewhere

\* The steps that leave the pass alone, and the others.
LEMMA PassSteps ==
    ASSUME [Next]_vars
    PROVE  UNCHANGED pass \/ Elsewhere \/ Walk \/ Decide \/ Pull \/ Publish
<1>1. CASE TimerSleeps \/ TimerWoken \/ TimerRings \/ Elapse \/ CommandStep \/ TogglePush
           \/ UNCHANGED vars
           \/ (\E p \in Packages : WatcherStep(p) \/ OthersPush(p)
                 \/ (\E to \in Trees, heard \in BOOLEAN : Edit(p, to, heard))
                 \/ (\E c \in Commands : Start(c[1], c[2], p)))
  BY <1>1 DEF TimerSleeps, TimerWoken, TimerRings, Elapse, CommandStep, Done, Fails, Clear,
     Reschedule, NotePublished, NoteCommitted, NotePublishFailed, TogglePush, vars, WatcherStep,
     Signal, TrailingWalk, ObserveWalk, CountsDown, OthersPush, Edit, Start
<1> QED  BY <1>1 DEF Next, PassStep, TimerStep, Elsewhere

LEMMA WalkTo ==
    ASSUME TypeOK, Walk
    PROVE  \/ \E r \in Results \ {"conflict"} : Ends(r)
           \/ /\ pass'.at = "decide" /\ pass'.result = pass.result
              /\ pass'.torn = Writing(pass.p)
<1>0. pass \in PassType
  BY DEF TypeOK
<1>1. CASE Failed
  BY <1>1 DEF Failed, Failures, Results
<1>2. ASSUME NEW seen,
             pass' = [pass EXCEPT !.at = "decide", !.seen = seen, !.torn = Writing(pass.p),
                                  !.upstream = Upstream(pass.p)]
      PROVE  /\ pass'.at = "decide" /\ pass'.result = pass.result
             /\ pass'.torn = Writing(pass.p)
  BY <1>0, <1>2 DEF PassType
<1> QED  BY <1>1, <1>2 DEF Walk

LEMMA ResultsStep ==
    ASSUME TypeOK, ResultsOK, [Next]_vars
    PROVE  ResultsOK'
<1>1. ASSUME NEW r \in Results, Ends(r) PROVE ResultsOK'
  <2>1. pass'.at = "record" /\ pass'.result # "none"
    BY <1>1, EndsIs DEF Results
  <2> QED  BY <2>1 DEF ResultsOK
<1>2. CASE UNCHANGED pass
  BY <1>2 DEF ResultsOK
<1>3. CASE Elsewhere
  BY <1>2, <1>3, ElsewhereTo DEF ResultsOK
<1>4. CASE Walk
  <2>1. pass.result = "none"
    BY <1>4 DEF Walk, ResultsOK
  <2> QED  BY <1>1, <1>4, <2>1, WalkTo DEF ResultsOK
<1>5. CASE Decide
  <2>1. pass.result = "none"
    BY <1>5 DEF Decide, ResultsOK
  <2> QED  BY <1>1, <1>5, <2>1, DecideTo DEF ResultsOK
<1>6. CASE Pull \/ Publish
  BY <1>1, <1>6 DEF Pull, Publish, Failed, Failures, Results
<1> QED  BY <1>2, <1>3, <1>4, <1>5, <1>6, PassSteps

LEMMA StillTreeStep ==
    ASSUME TypeOK, LocksOK, ResultsOK, WalksStillTree, [Next]_vars
    PROVE  WalksStillTree'
<1>0. pass \in PassType /\ pass.p \in Packages
  BY DEF TypeOK, PassType
\* Who holds the package's lock sees no command rewriting it.
<1>1. pass.at \in {"walk", "decide", "pull", "publish"} => ~Writing(pass.p)
  BY <1>0 DEF LocksOK, Writing
<1>2. ASSUME NEW r, Ends(r), pass.at \in {"walk", "decide", "pull", "publish"},
             r = "conflict" => ~pass.moved
      PROVE  WalksStillTree'
  BY <1>1, <1>2, EndsIs DEF WalksStillTree
<1>3. CASE UNCHANGED pass
  BY <1>3 DEF WalksStillTree
<1>4. CASE Elsewhere
  BY <1>3, <1>4, ElsewhereTo DEF WalksStillTree
<1>5. CASE Walk
  <2>1. pass.at = "walk" /\ pass.result = "none"
    BY <1>5 DEF Walk, ResultsOK
  <2>2. CASE \E r \in Results \ {"conflict"} : Ends(r)
    BY <1>2, <2>1, <2>2
  <2>3. CASE pass'.result = pass.result /\ pass'.torn = Writing(pass.p)
    BY <1>1, <2>1, <2>3 DEF WalksStillTree
  <2> QED  BY <1>5, <2>2, <2>3, WalkTo
<1>6. CASE Decide
  <2>1. pass.at = "decide" /\ pass.result = "none"
    BY <1>6 DEF Decide, ResultsOK
  <2> QED  BY <1>2, <1>6, <2>1, DecideTo DEF WalksStillTree
<1>7. CASE Pull \/ Publish
  <2>1. pass.at \in {"walk", "decide", "pull", "publish"} /\ ~pass.moved
    BY <1>7 DEF Pull, Publish, ResultsOK
  <2>2. \E r \in Results : Ends(r)
    BY <1>7 DEF Pull, Publish, Failed, Failures, Results
  <2> QED  BY <1>2, <2>1, <2>2
<1> QED  BY <1>3, <1>4, <1>5, <1>6, <1>7, PassSteps

-----------------------------------------------------------------------------
(* Autosync: deadlines *)

DueSame(p) == DueAt(p)' = DueAt(p)

LEMMA DueAtSame ==
    ASSUME NEW p, (p \in paused') = (p \in paused), clock'[p] = clock[p],
           backoff'[p] = backoff[p], held'[p] = held[p]
    PROVE  DueSame(p)
BY DEF DueSame, DueAt

\* The timer's deadline stands, and nothing unblocked came sooner.
LEMMA DeadlineStands ==
    ASSUME NoLostDeadline, UNCHANGED <<timer, permit, pushOn>>, pass.by # "tick",
          command.at # "notify",
           \A p \in waiting' : DueAt(p)' # NoTime /\ ~WalkToNote(p)'
              => p \in waiting /\ DueSame(p) /\ ~WalkToNote(p)
    PROVE  NoLostDeadline'
BY DEF NoLostDeadline, DueSame

LEMMA ElapseDeadline ==
    ASSUME TypeOK, NoLostDeadline, Elapse
    PROVE  NoLostDeadline'
<1> USE TimesAssumption
<1>1. ASSUME NEW p \in waiting, DueAt(p)' # NoTime
      PROVE  DueAt(p) # NoTime /\ DueAt(p) \in Nat /\ DueAt(p)' = Less(DueAt(p))
  <2>1. p \in Packages /\ clock[p] \in Counters(Wait) /\ backoff[p] \in Nat /\ held[p] \in Nat
    BY DEF TypeOK
  <2>2. /\ clock'[p] = Less(clock[p]) /\ backoff'[p] = Less(backoff[p])
        /\ held'[p] = Less(held[p]) /\ (p \in paused') = (p \in paused)
    BY <2>1 DEF Elapse
  <2>3. p \notin paused /\ clock'[p] # NoTime
    BY <1>1, <2>2 DEF DueAt
  <2>4. clock[p] \in Nat
    BY <2>1, <2>2, <2>3 DEF Counters, NoTime, Less
  <2>5. DueAt(p) = Later(clock[p], Later(backoff[p], held[p]))
    BY <2>3, <2>4 DEF DueAt, NoTime
  <2>6. DueAt(p)' = Later(Less(clock[p]), Later(Less(backoff[p]), Less(held[p])))
    BY <2>2, <2>3 DEF DueAt
  <2> QED  BY <2>1, <2>4, <2>5, <2>6 DEF Later, Less, NoTime
<1>2. /\ timer.left \in Int /\ timer'.left = Less(timer.left) /\ timer'.at = timer.at
      /\ UNCHANGED <<permit, pushOn, pass, command, waiting, watcher>>
  BY DEF Elapse, TypeOK
<1>3. ASSUME NEW d \in Nat, timer.left # NoTime, timer.left <= d
      PROVE  timer'.left # NoTime /\ timer'.left <= Less(d)
  BY <1>2, <1>3 DEF Less, NoTime
<1>4. ASSUME NEW p PROVE WalkToNote(p)' = WalkToNote(p)
  BY <1>2 DEF WalkToNote
<1> QED  BY <1>1, <1>2, <1>3, <1>4 DEF NoLostDeadline

LEMMA TimerDeadline ==
    ASSUME TypeOK, NoLostDeadline, TimerReads \/ TimerStep
    PROVE  NoLostDeadline'
<1> USE TimesAssumption
<1>0. timer \in [at : {"ready", "passing", "computed", "asleep"}, left : Int]
      /\ waiting \in SUBSET Packages
  BY DEF TypeOK
<1>1. \A p \in waiting : DueSame(p)
  BY DEF DueSame, DueAt, TimerReads, TimerStep, TimerEnds, TimerSleeps, TimerWoken, TimerRings,
     queue, clocks
<1>2. ASSUME timer'.at = "computed" => timer'.left = Soonest(waiting), timer'.at # "asleep",
             UNCHANGED waiting
      PROVE  NoLostDeadline'
  BY <1>0, <1>1, <1>2, SoonestIsLeast DEF NoLostDeadline, DueSame
<1>3. CASE TimerReads
  <2>1. CASE pushOn
    <3>1. timer' = [at |-> "passing", left |-> NoTime]
          \/ timer' = [at |-> "computed", left |-> Soonest(waiting)]
      BY <1>3, <2>1 DEF TimerReads
    <3> QED  BY <1>2, <1>3, <3>1 DEF TimerReads, queue
  <2>2. CASE ~pushOn
    BY <1>3, <2>2 DEF TimerReads, NoLostDeadline
  <2> QED  BY <2>1, <2>2
<1>4. CASE TimerEnds
  <2>1. timer' = [at |-> "computed", left |-> Soonest(waiting)] /\ UNCHANGED waiting
    BY <1>4 DEF TimerEnds, queue
  <2> QED  BY <1>2, <2>1
<1>5. CASE TimerSleeps
  <2>1. UNCHANGED <<waiting, watcher, permit, pushOn, pass, command>> /\ timer.at = "computed"
    BY <1>5 DEF TimerSleeps, queue
  <2>2. timer.left # NoTime => timer'.left = Sooner(timer.left, MaxSleep)
    BY <1>0, <1>5 DEF TimerSleeps
  <2>3. ASSUME NEW p \in waiting PROVE DueAt(p) \in Nat \cup {NoTime}
    BY <1>0, DueAtType
  <2>4. ASSUME NEW d \in Nat, timer.left # NoTime, timer.left <= d
        PROVE  timer'.left # NoTime /\ timer'.left <= d
    <3>1. timer'.left = Sooner(timer.left, MaxSleep) /\ timer.left \in Int
      BY <1>0, <2>2, <2>4
    <3> QED  BY <2>4, <3>1 DEF Sooner, NoTime
  <2> QED  BY <1>1, <2>1, <2>3, <2>4 DEF NoLostDeadline, DueSame, WalkToNote
<1>6. CASE TimerWoken \/ TimerRings
  <2>1. timer'.at = "ready"
    BY <1>6 DEF TimerWoken, TimerRings
  <2> QED  BY <2>1 DEF NoLostDeadline
<1> QED  BY <1>3, <1>4, <1>5, <1>6 DEF TimerStep

LEMMA WatcherDeadline ==
    ASSUME TypeOK, NoLostDeadline, NEW p \in Packages,
           \/ WatcherStep(p) \/ OthersPush(p)
           \/ \E to \in Trees, heard \in BOOLEAN : Edit(p, to, heard)
    PROVE  NoLostDeadline'
<1>0. watcher \in [Packages -> WatcherType] /\ clock \in [Packages -> Counters(Wait)]
      /\ waiting \subseteq Packages
  BY DEF TypeOK
<1>a. UNCHANGED <<timer, pushOn, pass, command, paused, backoff, held>>
  BY DEF WatcherStep, Signal, TrailingWalk, ObserveWalk, CountsDown, OthersPush, Edit, queue
<1>b. CASE pass.by = "tick" \/ command.at = "notify"
  BY <1>a, <1>b DEF NoLostDeadline
<1> SUFFICES ASSUME pass.by # "tick", command.at # "notify" PROVE NoLostDeadline'
  BY <1>b
\* A walk of p is now on its way to be noted, and nothing else moved.
<1>c. ASSUME WalkToNote(p)', UNCHANGED <<waiting, permit>>,
             \A r \in Packages : r # p => watcher'[r] = watcher[r] /\ clock'[r] = clock[r]
      PROVE  NoLostDeadline'
  <2>1. \A r \in waiting : r # p => DueSame(r) /\ WalkToNote(r)' = WalkToNote(r)
    BY <1>0, <1>a, <1>c, DueAtSame DEF WalkToNote
  <2> QED  BY <1>0, <1>a, <1>c, <2>1, DeadlineStands
\* Nothing of the deadlines moved.
<1>d. ASSUME UNCHANGED <<waiting, permit, clock>>,
             \A r \in Packages : WalkToNote(r)' = WalkToNote(r)
      PROVE  NoLostDeadline'
  <2>1. \A r \in waiting : DueSame(r)
    BY <1>0, <1>a, <1>d, DueAtSame
  <2> QED  BY <1>0, <1>a, <1>d, <2>1, DeadlineStands
<1>1. ASSUME Signal(p) PROVE NoLostDeadline'
  <2>1. watcher'[p].due
    BY <1>0, <1>1 DEF Signal, WatcherType
  <2>2. \A r \in Packages : r # p => watcher'[r] = watcher[r] /\ clock'[r] = clock[r]
    BY <1>0, <1>1 DEF Signal
  <2>3. UNCHANGED <<waiting, permit>>
    BY <1>1 DEF Signal, queue
  <2> QED  BY <1>c, <2>1, <2>2, <2>3 DEF WalkToNote
<1>2. ASSUME TrailingWalk(p) PROVE NoLostDeadline'
  <2>1. PICK seen \in Finds(p) :
          watcher' = [watcher EXCEPT ![p].due = FALSE, ![p].walk = seen,
                        ![p].pending = IF seen = "clean" THEN Pending(p) ELSE "unknown"]
    BY <1>2 DEF TrailingWalk
  <2>2. seen # "none"
    BY DEF Finds, Trees, TypeOK
  <2>3. watcher'[p].walk # "none"
    BY <1>0, <2>1, <2>2 DEF WatcherType
  <2>4. \A r \in Packages : r # p => watcher'[r] = watcher[r]
    BY <1>0, <2>1
  <2>5. UNCHANGED <<waiting, permit, clock>>
    BY <1>2 DEF TrailingWalk, queue, clocks
  <2> QED  BY <1>c, <2>3, <2>4, <2>5 DEF WalkToNote
<1>3. ASSUME ObserveWalk(p) PROVE NoLostDeadline'
  <2>1. watcher'[p].counts # "none"
    BY <1>0, <1>3 DEF ObserveWalk, WatcherType
  <2>2. \A r \in Packages : r # p => watcher'[r] = watcher[r] /\ clock'[r] = clock[r]
    BY <1>0, <1>3 DEF ObserveWalk, Observe
  <2>3. UNCHANGED <<waiting, permit>>
    BY <1>3 DEF ObserveWalk, queue
  <2> QED  BY <1>c, <2>1, <2>2, <2>3 DEF WalkToNote
<1>4. CASE OthersPush(p)
  <2>1. UNCHANGED <<waiting, permit, clock, watcher>>
    BY <1>4 DEF OthersPush, queue, clocks
  <2> QED  BY <1>d, <2>1 DEF WalkToNote
<1>5. ASSUME NEW to \in Trees, NEW heard \in BOOLEAN, Edit(p, to, heard) PROVE NoLostDeadline'
  <2>1. UNCHANGED <<waiting, permit, clock>>
    BY <1>5 DEF Edit, queue, clocks
  <2>2. \A r \in Packages : WalkToNote(r)' = WalkToNote(r)
    BY <1>0, <1>5 DEF Edit, WatcherType, WalkToNote
  <2> QED  BY <1>d, <2>1, <2>2
<1>6. ASSUME CountsDown(p) PROVE NoLostDeadline'
  <2>1. permit' \/ (UNCHANGED permit /\ waiting' = waiting \ {p})
    BY <1>6 DEF CountsDown, Notify
  <2>2. CASE permit'
    BY <2>2 DEF NoLostDeadline
  <2>3. CASE UNCHANGED permit /\ waiting' = waiting \ {p}
    <3>1. \A r \in Packages : r # p => watcher'[r] = watcher[r] /\ clock'[r] = clock[r]
      BY <1>0, <1>6 DEF CountsDown, clocks
    <3>2. \A r \in waiting' : DueSame(r) /\ WalkToNote(r)' = WalkToNote(r) /\ r \in waiting
      BY <1>0, <1>a, <2>3, <3>1, DueAtSame DEF WalkToNote
    <3> QED  BY <1>a, <2>3, <3>2, DeadlineStands
  <2> QED  BY <2>1, <2>2, <2>3
<1> QED  BY <1>1, <1>2, <1>3, <1>4, <1>5, <1>6 DEF WatcherStep

LEMMA CommandDeadline ==
    ASSUME TypeOK, NoLostDeadline,
           CommandStep \/ TogglePush \/ \E p \in Packages, c \in Commands : Start(c[1], c[2], p)
    PROVE  NoLostDeadline'
<1>0. /\ command \in CommandType /\ waiting \subseteq Packages /\ command.p \in Packages
      /\ paused \subseteq Packages
      /\ clock \in [Packages -> Counters(Wait)]
  BY DEF TypeOK, CommandType
<1>1. CASE Reschedule \/ Clear \/ TogglePush
  <2>1. CASE Reschedule
    BY <2>1 DEF Reschedule, Notify, NoLostDeadline
  <2>2. CASE Clear \/ TogglePush
    <3>1. command'.at = "notify"
      BY <1>0, <2>2 DEF Clear, TogglePush, CommandType
    <3> QED  BY <3>1 DEF NoLostDeadline
  <2> QED  BY <1>1, <2>1, <2>2
<1>2. CASE NoteCommitted
  <2>1. CASE pushOn
    <3>1. command'.at = "notify"
      BY <1>0, <1>2, <2>1 DEF NoteCommitted, CommandType
    <3> QED  BY <3>1 DEF NoLostDeadline
  <2>2. CASE ~pushOn
    BY <1>2, <2>2 DEF NoteCommitted, NoLostDeadline
  <2> QED  BY <2>1, <2>2
<1> DEFINE Quiet == /\ UNCHANGED <<timer, permit, pushOn, pass, watcher, backoff, held>>
                    /\ command.at # "notify" /\ waiting' \subseteq waiting
                    /\ paused \subseteq paused'
                    /\ \A r \in waiting' : clock'[r] = clock[r]
<1>3. ASSUME Quiet PROVE NoLostDeadline'
  <2>1. CASE pass.by = "tick"
    BY <1>3, <2>1 DEF NoLostDeadline
  <2>2. ASSUME NEW r \in waiting', DueAt(r)' # NoTime PROVE DueSame(r)
    <3>1. r \notin paused'
      BY <2>2 DEF DueAt
    <3>2. (r \in paused') = (r \in paused)
      BY <1>3, <3>1
    <3> QED  BY <1>3, <3>2, DueAtSame
  <2>3. \A r : WalkToNote(r)' = WalkToNote(r)
    BY <1>3 DEF WalkToNote
  <2> QED  BY <1>3, <2>1, <2>2, <2>3, DeadlineStands
<1>4. CASE Done
  <2>1. Quiet
    BY <1>4 DEF Done, queue, clocks
  <2> QED  BY <1>3, <2>1
<1>5. CASE Fails
  <2>1. paused \subseteq paused'
    BY <1>5 DEF Fails
  <2>2. Quiet
    BY <1>5, <2>1 DEF Fails, clocks
  <2> QED  BY <1>3, <2>2
<1>6. CASE NotePublished
  <2>1. \A r \in waiting' : clock'[r] = clock[r]
    BY <1>0, <1>6 DEF NotePublished, Published
  <2>2. Quiet
    BY <1>6, <2>1 DEF NotePublished
  <2> QED  BY <1>3, <2>2
<1>7. ASSUME NEW p \in Packages, NEW c \in Commands, Start(c[1], c[2], p) PROVE NoLostDeadline'
  <2>1. Quiet
    BY <1>7 DEF Start, queue, clocks
  <2> QED  BY <1>3, <2>1
<1>8. CASE NotePublishFailed
  <2>1. Quiet
    BY <1>8 DEF NotePublishFailed, queue, clocks
  <2> QED  BY <1>3, <2>1
<1> QED  BY <1>1, <1>2, <1>4, <1>5, <1>6, <1>7, <1>8 DEF CommandStep

LEMMA DeadlineStep ==
    ASSUME TypeOK, TurnsOK, NoLostDeadline, [Next]_vars
    PROVE  NoLostDeadline'
<1>1. CASE PassStep \/ FlagRaised \/ TickStarts
  <2>1. TurnsOK' /\ TypeOK'
    BY TurnsStep, TypeStep
  <2>2. pass'.at # "idle"
    <3>1. CASE TickStarts
      BY <3>1, NoPassIs DEF TickStarts, PassType
    <3> QED  BY <1>1, <3>1, PassGoesOn
  <2>3. pass'.by = "tick" \/ pass'.by = "timer"
    BY <2>1, <2>2 DEF TurnsOK, TypeOK, PassType
  <2> QED  BY <2>1, <2>3 DEF TurnsOK, NoLostDeadline
<1>2. CASE TickEnds
  BY <1>2 DEF TickEnds, Notify, NoLostDeadline
<1>3. CASE UNCHANGED vars
  BY <1>3 DEF vars, NoLostDeadline, DueAt, WalkToNote
<1> QED  BY <1>1, <1>2, <1>3, ElapseDeadline, TimerDeadline, WatcherDeadline, CommandDeadline
      DEF Next

-----------------------------------------------------------------------------
(* Autosync: the invariant, and news *)

LEMMA InitInv == Init => IInv
<1> SUFFICES ASSUME Init PROVE IInv
  OBVIOUS
<1>1. TypeOK
  BY InitType
<1>2. LocksOK /\ TurnsOK /\ ResultsOK /\ WalksStillTree
  BY NoPassIs DEF Init, LocksOK, TurnsOK, ResultsOK, WalksStillTree
<1>3. NoLostDeadline
  BY DEF Init, NoLostDeadline
<1> QED  BY <1>1, <1>2, <1>3 DEF IInv

LEMMA StepInv == IInv /\ [Next]_vars => IInv'
BY TypeStep, LocksStep, TurnsStep, ResultsStep, StillTreeStep, DeadlineStep DEF IInv

\* IInv of Autosync is inductive: who holds which lock, whose turn it is, that a
\* walk never meets a tree being rewritten, and that the publish timer sleeps past
\* no deadline.
THEOREM DeadlinesAreKept == Spec => []IInv
<1> QED  BY InitInv, StepInv, PTL DEF Spec

LEMMA DecidePublishes ==
    ASSUME TypeOK, Decide, pass'.at = "publish"
    PROVE  ~IsNews \/ OwnCommitSeen
<1> USE TimesAssumption
<1>0. pass \in PassType
  BY DEF TypeOK
<1>1. SUFFICES ASSUME IsNews, ~IntoOwnCommit(pass.p, pass.seen, pass.had) PROVE FALSE
  BY DEF OwnCommitSeen
<1>2. PICK closed \in BOOLEAN :
        LET at == Observed(pass.p, pass.seen, pass.had, closed)
            eligible == pass.push /\ pass.upstream = "same"
                        /\ (pass.seen # "clean" \/ pass.had = "at")
        IN  \/ \E r \in {"diverged", "conflict", "observed", "deferred"} : Ends(r)
            \/ pass'.at = "pull"
            \/ eligible /\ ~(at > 0)
  BY <1>0 DEF Decide, PassType
<1>3. \A r : ~Ends(r)
  BY NoPassIs DEF Ends, PassType
<1>4. pass.seen # "clean" \/ pass.had = "at"
  BY <1>2, <1>3
<1>5. ~Forgets(pass.seen, pass.had) /\ ~LearnsNothing(pass.seen, pass.had)
  BY <1>0, <1>4 DEF Forgets, LearnsNothing, PassType
<1>6. Restarts(pass.p, pass.seen, pass.had, closed)
  BY <1>1 DEF Restarts, IsNews
<1>7. Observed(pass.p, pass.seen, pass.had, closed) = Wait
  BY <1>5, <1>6 DEF Observed
<1> QED  BY <1>2, <1>3, <1>7

\* What moved into the app's own commit does not wait again.
LEMMA DecideKeepsWait ==
    ASSUME TypeOK, Decide, IsNews, OwnCommitSeen, Timed(pass.p)
    PROVE  clock' = clock
<1>0. pass.p \in Packages /\ clock \in [Packages -> Counters(Wait)]
  BY DEF TypeOK, PassType
<1>1. PICK closed : Observe(pass.p, pass.seen, pass.had, closed)
  BY DEF Decide
<1>2. /\ pass.had = "at" /\ commit[pass.p] = "fresh"
      /\ lastSeen[pass.p] # "unwalked" /\ clock[pass.p] # NoTime
  BY DEF IsNews, OwnCommitSeen, IntoOwnCommit, Timed
<1>3. ~Restarts(pass.p, pass.seen, pass.had, closed) /\ ~Forgets(pass.seen, pass.had)
  BY <1>2 DEF Restarts, OwnCommitSeen, Forgets
<1>4. Observed(pass.p, pass.seen, pass.had, closed) = clock[pass.p]
  BY <1>3 DEF Observed
<1>5. clock' = [clock EXCEPT ![pass.p] = clock[pass.p]]
  BY <1>1, <1>4 DEF Observe
<1> QED  BY <1>0, <1>5

\* Only the decision takes a pass on from its walk.
LEMMA DecisionIsDecide ==
    ASSUME TypeOK, TurnsOK, [Next]_vars, pass.at = "decide", pass'.at # "decide"
    PROVE  Decide
<1>0. pass \in PassType /\ pass.by # "none" /\ pass' # pass
  BY DEF TypeOK, TurnsOK
<1>1. ~TryLock /\ ~Walk /\ ~Pull /\ ~Publish /\ ~Record /\ \A p \in Packages : ~Begin(p)
  BY DEF TryLock, Walk, Pull, Publish, Record, Begin
<1>2. ~FlagRaised
  BY <1>0 DEF FlagRaised, PassType
<1>3. ~TickStarts /\ ~TickEnds /\ ~TimerReads /\ ~TimerEnds
  BY <1>0 DEF TickStarts, TickEnds, TimerReads, TimerEnds
<1> QED  BY <1>0, <1>1, <1>2, <1>3, PassSteps DEF Elsewhere

\* Changes no walk had found before are not published by the pass that finds
\* them, and those that moved into the app's own commit do not wait once more.
THEOREM NewsWaits == Spec => NewChangesWait
<1>1. IInv /\ [Next]_vars
        => [/\ pass.at = "decide" /\ pass'.at = "publish" => ~IsNews \/ OwnCommitSeen
            /\ pass.at = "decide" /\ pass'.at # "decide" /\ IsNews /\ OwnCommitSeen
                 /\ Timed(pass.p) => clock' = clock]_vars
  <2> SUFFICES ASSUME IInv, [Next]_vars
               PROVE  /\ pass.at = "decide" /\ pass'.at = "publish" => ~IsNews \/ OwnCommitSeen
                      /\ pass.at = "decide" /\ pass'.at # "decide" /\ IsNews /\ OwnCommitSeen
                           /\ Timed(pass.p) => clock' = clock
    OBVIOUS
  <2>1. pass.at = "decide" /\ pass'.at # "decide" => Decide
    BY DecisionIsDecide DEF IInv
  <2>2. Decide /\ pass'.at = "publish" => ~IsNews \/ OwnCommitSeen
    BY DecidePublishes DEF IInv
  <2>3. Decide /\ IsNews /\ OwnCommitSeen /\ Timed(pass.p) => clock' = clock
    BY DecideKeepsWait DEF IInv
  <2> QED  BY <2>1, <2>2, <2>3
<1> QED  BY <1>1, InitInv, StepInv, PTL DEF Spec, NewChangesWait

-----------------------------------------------------------------------------
(* The kept walks: marks *)

LEMMA MarkedSize == IsFiniteSet(Marked) /\ Cardinality(Marked) \in Nat \ {0}
<1>1. IsFiniteSet({}) /\ Cardinality({}) = 0
  BY FS_EmptySet
<1>2. IsFiniteSet(Marked)
  <2>1. Marked = ((({} \cup {"stale"}) \cup {"kept"}) \cup {"trail"}) \cup {"tick"}
    BY DEF Marked
  <2> QED  BY <1>1, <2>1, FS_AddElement
<1>3. Cardinality(Marked) # 0
  BY <1>2, FS_EmptySet DEF Marked
<1> QED  BY <1>2, <1>3, FS_CardinalityType

\* Renumbering keeps the order of the marks, and bounds them.
LEMMA RenumberedOrder ==
    ASSUME NEW m \in [Marked -> Nat]
    PROVE  /\ Renumbered(m) \in [Marked -> 0..(Cardinality(Marked) - 1)]
           /\ \A a, b \in Marked : Renumbered(m)[a] < Renumbered(m)[b] <=> m[a] < m[b]
<1> DEFINE S == {m[g] : g \in Marked}
           B(f) == {n \in S : n < m[f]}
<1>1. IsFiniteSet(S) /\ Cardinality(S) \in Nat /\ Cardinality(S) <= Cardinality(Marked)
  <2>1. m \in Surjection(Marked, S)
    BY DEF Surjection
  <2> QED  BY <2>1, MarkedSize, FS_Surjection, FS_CardinalityType
<1>2. ASSUME NEW a \in Marked PROVE IsFiniteSet(B(a)) /\ Cardinality(B(a)) \in Nat
  <2>1. B(a) \subseteq S
    OBVIOUS
  <2> QED  BY <1>1, <2>1, FS_Subset, FS_CardinalityType
<1>3. ASSUME NEW a \in Marked PROVE Cardinality(B(a)) < Cardinality(S)
  <2>1. B(a) \subseteq S /\ m[a] \in S /\ m[a] \notin B(a)
    OBVIOUS
  <2>2. Cardinality(B(a)) <= Cardinality(S) /\ Cardinality(B(a)) # Cardinality(S)
    BY <1>1, <2>1, FS_Subset
  <2> HIDE DEF S, B
  <2> QED  BY <1>1, <1>2, <2>2
<1>4. ASSUME NEW a \in Marked, NEW b \in Marked, m[a] < m[b]
      PROVE Cardinality(B(a)) < Cardinality(B(b))
  <2>1. B(a) \subseteq B(b) /\ m[a] \in B(b) /\ m[a] \notin B(a)
    BY <1>4
  <2>2. Cardinality(B(a)) <= Cardinality(B(b)) /\ Cardinality(B(a)) # Cardinality(B(b))
    BY <1>2, <2>1, FS_Subset
  <2>3. Cardinality(B(a)) \in Nat /\ Cardinality(B(b)) \in Nat
    BY <1>2
  <2> HIDE DEF S, B
  <2> QED  BY <2>2, <2>3
<1>5. ASSUME NEW a \in Marked, NEW b \in Marked, ~(m[a] < m[b])
      PROVE Cardinality(B(b)) <= Cardinality(B(a))
  <2>1. B(b) \subseteq B(a)
    BY <1>5
  <2> QED  BY <1>2, <2>1, FS_Subset
<1>6. Renumbered(m) = [f \in Marked |-> Cardinality(B(f))]
  BY DEF Renumbered
<1> HIDE DEF S, B
<1>7. ASSUME NEW a \in Marked PROVE Cardinality(B(a)) \in 0..(Cardinality(Marked) - 1)
  BY <1>1, <1>2, <1>3, MarkedSize
<1>8. Renumbered(m) \in [Marked -> 0..(Cardinality(Marked) - 1)]
  BY <1>6, <1>7
<1>9. ASSUME NEW a \in Marked, NEW b \in Marked
      PROVE Renumbered(m)[a] < Renumbered(m)[b] <=> m[a] < m[b]
  <2>1. Renumbered(m)[a] = Cardinality(B(a)) /\ Renumbered(m)[b] = Cardinality(B(b))
    BY <1>6
  <2>2. Cardinality(B(a)) < Cardinality(B(b)) <=> m[a] < m[b]
    <3>1. CASE m[a] < m[b]
      BY <1>4, <3>1
    <3>2. CASE ~(m[a] < m[b])
      <4>1. Cardinality(B(b)) <= Cardinality(B(a))
        BY <1>5, <3>2
      <4> QED  BY <1>2, <3>2, <4>1
    <3> QED  BY <3>1, <3>2
  <2> QED  BY <2>1, <2>2
<1> QED  BY <1>8, <1>9

\* What each renumbering does to the order.
LEMMA MarksMove ==
    ASSUME marks \in Marks
    PROVE  \A f \in Marked :
                /\ NextMark(f) \in Marks
                /\ Retired(f) \in Marks
                /\ \A a \in Marked \ {f} : NextMark(f)[a] < NextMark(f)[f]
                /\ \A a, b \in Marked \ {f} :
                     /\ NextMark(f)[a] < NextMark(f)[b] <=> marks[a] < marks[b]
                     /\ Retired(f)[a] < Retired(f)[b] <=> marks[a] < marks[b]
<1>0. Cardinality(Marked) \in Nat \ {0} /\ marks \in [Marked -> Nat]
  BY MarkedSize DEF Marks
<1>1. ASSUME NEW f \in Marked, NEW n \in Nat PROVE [marks EXCEPT ![f] = n] \in [Marked -> Nat]
  BY <1>0
<1>2. ASSUME NEW f \in Marked
      PROVE  /\ NextMark(f) \in Marks
             /\ \A a \in Marked \ {f} : NextMark(f)[a] < NextMark(f)[f]
             /\ \A a, b \in Marked \ {f} : NextMark(f)[a] < NextMark(f)[b] <=> marks[a] < marks[b]
  <2> DEFINE m == [marks EXCEPT ![f] = Cardinality(Marked)]
  <2>1. m \in [Marked -> Nat] /\ NextMark(f) = Renumbered(m)
    BY <1>0, <1>1 DEF NextMark
  <2>2. m[f] = Cardinality(Marked) /\ \A a \in Marked \ {f} : m[a] = marks[a] /\ m[a] < m[f]
    BY <1>0, MarkedSize DEF Marks
  <2> HIDE DEF m
  <2> QED  BY <2>1, <2>2, RenumberedOrder DEF Marks
<1>3. ASSUME NEW f \in Marked
      PROVE  /\ Retired(f) \in Marks
             /\ \A a, b \in Marked \ {f} : Retired(f)[a] < Retired(f)[b] <=> marks[a] < marks[b]
  <2> DEFINE m == [marks EXCEPT ![f] = 0]
  <2>1. m \in [Marked -> Nat] /\ Retired(f) = Renumbered(m)
    BY <1>1 DEF Retired
  <2>2. \A a \in Marked \ {f} : m[a] = marks[a]
    BY <1>0
  <2> HIDE DEF m
  <2> QED  BY <2>1, <2>2, RenumberedOrder DEF Marks
<1> QED  BY <1>2, <1>3

\* The mark of the walk a check reuses, and of a walk kept.
LEMMA MarksPass ==
    ASSUME marks \in Marks,
           NEW from \in {"kept", "trail", "tick"}, NEW to \in {"kept", "tick"}, NEW m,
           m = [marks EXCEPT ![to] = marks[from]]
                 \/ m = [marks EXCEPT ![to] = marks[from], ![from] = 0],
           from # to
    PROVE  /\ Renumbered(m) \in Marks
           /\ Renumbered(m).stale < Renumbered(m)[to] <=> marks.stale < marks[from]
           /\ \A a \in Marked \ {from, to} : Renumbered(m).stale < Renumbered(m)[a]
                 <=> marks.stale < marks[a]
           /\ m = [marks EXCEPT ![to] = marks[from]]
                => (Renumbered(m).stale < Renumbered(m)[from] <=> marks.stale < marks[from])
<1>1. marks \in [Marked -> Nat] /\ Marked = {"stale", "kept", "trail", "tick"}
  BY MarkedSize DEF Marked, Marks
<1>2. m \in [Marked -> Nat] /\ m[to] = marks[from]
      /\ \A a \in Marked \ {from, to} : m[a] = marks[a]
  BY <1>1
<1>3. m.stale = marks.stale /\ (m = [marks EXCEPT ![to] = marks[from]] => m[from] = marks[from])
  BY <1>1, <1>2
<1> QED  BY <1>1, <1>2, <1>3, RenumberedOrder DEF Marks

-----------------------------------------------------------------------------
(* The kept walks: types *)

Signals == {"changed", "stale", "rescan", "lost"}

LEMMA OneSignal ==
    /\ <<>> \in Seq(Signals)
    /\ \A k \in Signals : <<k>> \in Seq(Signals) /\ <<k>> # <<>> /\ Len(<<k>>) = 1 /\ <<k>>[1] = k
BY DEF Signals

LEMMA ScreenedIs ==
    /\ Screened \in Seq(Signals)
    /\ "changed" \in debounce \/ "stale" \in debounce => Screened # <<>>
<1>1. "changed" \in Signals /\ "stale" \in Signals
  BY DEF Signals
<1> QED  BY <1>1, OneSignal DEF Screened

LEMMA FlushSends ==
    ASSUME WalksTypeOK, Flush
    PROVE  /\ batch' \in Seq(Signals)
           /\ listed # "none" => batch' # <<>>
           /\ listed' # listed => \E i \in 1..Len(batch') : batch'[i] \in {"rescan", "lost"}
<1>1. CASE listed = "none"
  BY <1>1 DEF Flush, WalksTypeOK, Signals
<1>2. CASE listed # "none"
  <2>1. PICK a, b, c : /\ a = Screened
                       /\ b = IF "rescan" \in debounce THEN <<"rescan">> ELSE <<>>
                       /\ c = IF "gone" \in debounce THEN <<"lost">> ELSE <<>>
    OBVIOUS
  <2>2. batch' = (a \o b) \o c
    BY <1>2, <2>1, Zenon DEF Flush
  <2>3. a \in Seq(Signals) /\ b \in Seq(Signals) /\ c \in Seq(Signals)
    <3>1. "rescan" \in Signals /\ "lost" \in Signals
      BY DEF Signals
    <3> QED  BY <2>1, <3>1, ScreenedIs, OneSignal
  <2>4. batch' \in Seq(Signals) /\ Len(batch') = Len(a) + Len(b) + Len(c)
    BY <2>2, <2>3
  <2>5. a # <<>> \/ b # <<>> \/ c # <<>>
    <3>1. \E e \in {"changed", "stale", "rescan", "gone"} : e \in debounce
      <4>1. debounce \ {"error"} # {}
        BY <1>2 DEF Flush
      <4>2. debounce \subseteq {"changed", "stale", "rescan", "gone", "error"}
        BY DEF WalksTypeOK
      <4> QED  BY <4>1, <4>2
    <3> QED  BY <2>1, <3>1, ScreenedIs
  <2>6. batch' # <<>>
    BY <2>3, <2>4, <2>5
  <2>7. ASSUME listed' # listed PROVE \E i \in 1..Len(batch') : batch'[i] \in {"rescan", "lost"}
    <3>1. "rescan" \in debounce \/ "gone" \in debounce
      BY <1>2, <2>7 DEF Flush
    <3>2. CASE "gone" \in debounce
      <4>1. c = <<"lost">>
        BY <2>1, <3>2
      <4>2. Len(batch') \in 1..Len(batch') /\ batch'[Len(batch')] = "lost"
        BY <2>2, <2>3, <2>4, <4>1
      <4> QED  BY <4>2
    <3>3. CASE "gone" \notin debounce
      <4>1. b = <<"rescan">> /\ c = <<>>
        BY <2>1, <3>1, <3>3
      <4>2. Len(batch') \in 1..Len(batch') /\ batch'[Len(batch')] = "rescan"
        BY <2>2, <2>3, <2>4, <4>1
      <4> QED  BY <4>2
    <3> QED  BY <3>2, <3>3
  <2> QED  BY <2>4, <2>6, <2>7
<1> QED  BY <1>1, <1>2

\* The walk kept of one recorded.
NewKept(walk) ==
    [is |-> TRUE, entry |-> walk.entry, of |-> walk.of, seen |-> walk.seen, old |-> FALSE]

LEMMA RecordWalkDoes ==
    ASSUME marks \in Marks,
           NEW w \in {"trail", "tick"}, NEW walk, RecordWalk(w, walk)
    PROVE  /\ vouched' = vouched
           /\ marks' \in Marks
           /\ \A a \in {"trail", "tick"} \ {w} : marks'.stale < marks'[a]
                 <=> marks.stale < marks[a]
           /\ \/ kept' = kept /\ (marks'.stale < marks'.kept <=> marks.stale < marks.kept)
              \/ kept' = NewKept(walk) /\ (marks'.stale < marks'.kept <=> marks.stale < marks[w])
<1>0. {"trail", "tick"} \subseteq Marked /\ "stale" \in Marked /\ "kept" \in Marked
  BY DEF Marked
<1>1. CASE kept' = NewKept(walk) /\ marks' = Renumbered([marks EXCEPT !.kept = marks[w], ![w] = 0])
           /\ UNCHANGED vouched
  <2> DEFINE m == [marks EXCEPT !.kept = marks[w], ![w] = 0]
  <2>1. marks' = Renumbered(m) /\ "kept" \in {"kept", "tick"} /\ w \in {"kept", "trail", "tick"}
        /\ w # "kept"
    BY <1>1
  <2>2. /\ Renumbered(m) \in Marks
        /\ Renumbered(m).stale < Renumbered(m)["kept"] <=> marks.stale < marks[w]
        /\ \A a \in Marked \ {w, "kept"} : Renumbered(m).stale < Renumbered(m)[a]
              <=> marks.stale < marks[a]
    BY <2>1, MarksPass
  <2> HIDE DEF m
  <2> QED  BY <1>0, <1>1, <2>1, <2>2
<1>2. CASE marks' = Retired(w) /\ UNCHANGED <<vouched, kept>>
  BY <1>0, <1>2, MarksMove
<1> QED  BY <1>1, <1>2 DEF RecordWalk, NewKept

LEMMA WalksInitType == WalksInit => WalksTypeOK
<1> SUFFICES ASSUME WalksInit PROVE WalksTypeOK
  OBVIOUS
<1>1. marks \in Marks
  BY MarkedSize DEF WalksInit, Marks
<1>2. batch \in Seq(Signals) /\ signals \in Seq(Signals)
  BY DEF WalksInit
<1>3. 0 \in Moments
  BY BoundsAssumption DEF Moments
<1>4. enabled \in BOOLEAN /\ vouched \in BOOLEAN
  BY Zenon DEF WalksInit
<1> QED  BY <1>1, <1>2, <1>3, <1>4 DEF WalksInit, WalksTypeOK, Signals, NoWalk, NoTrail, NoTick,
      KeptType, TrailType, TickType

LEMMA FolderType ==
    ASSUME WalksTypeOK, Counted, EditFolder \/ Command \/ Switch \/ Age
    PROVE  WalksTypeOK' /\ Counted'
<1>0. disk \in Nat /\ entry \in Nat /\ occurred \in Nat /\ MaxOccurrences \in Nat
  BY BoundsAssumption DEF WalksTypeOK, Moments
<1>1. CASE EditFolder
  <2>1. disk' \in Moments /\ occurred' \in Moments /\ Counted'
    BY <1>0, <1>1 DEF EditFolder, Occurs, Counted, Moments
  <2>2. os' \in {"whole", "blind", "none"}
        /\ debounce' \subseteq {"changed", "stale", "rescan", "gone", "error"}
    BY <1>1 DEF EditFolder, WalksTypeOK
  <2> QED  BY <1>1, <2>1, <2>2 DEF EditFolder, WalksTypeOK, calls, walks
<1>2. CASE Command
  <2>1. entry' \in Moments /\ occurred' \in Moments /\ Counted'
    BY <1>0, <1>2 DEF Command, Occurs, Counted, Moments
  <2> QED  BY <1>2, <2>1 DEF Command, WalksTypeOK, calls, walks, watch
<1>3. CASE Switch
  <2>1. occurred' \in Moments /\ Counted'
    BY <1>0, <1>3 DEF Switch, Occurs, Counted, Moments, folderVars
  <2>2. enabled' \in BOOLEAN
    BY <1>3, Zenon DEF Switch
  <2> QED  BY <1>3, <2>1, <2>2 DEF Switch, WalksTypeOK, walks, watch, folderVars
<1>4. CASE Age
  <2>1. kept' \in KeptType
    BY <1>4 DEF Age, WalksTypeOK, KeptType
  <2>2. Counted'
    BY <1>4 DEF Age, Counted, folderVars
  <2> QED  BY <1>4, <2>1, <2>2 DEF Age, WalksTypeOK, calls, watch, folderVars
<1> QED  BY <1>1, <1>2, <1>3, <1>4

LEMMA WatchesType ==
    ASSUME WalksTypeOK, Counted, Watches
    PROVE  WalksTypeOK' /\ Counted'
<1>1. CASE Flush
  <2>1. batch' \in Seq(Signals) /\ listed' \in {"none", "ok", "rewatch"}
    BY <1>1, FlushSends DEF Flush, WalksTypeOK
  <2> QED  BY <1>1, <2>1 DEF Flush, WalksTypeOK, Counted, folderVars, walks, Signals
<1>2. CASE HandleAsyncError
  <2>1. batch' \in Seq(Signals)
    <3>1. "lost" \in Signals
      BY DEF Signals
    <3> QED  BY <1>2, <3>1, OneSignal DEF HandleAsyncError
  <2> QED  BY <1>2, <2>1 DEF HandleAsyncError, WalksTypeOK, Counted, folderVars, walks, Signals
<1>3. CASE Send
  <2>1. batch' \in Seq(Signals) /\ signals' \in Seq(Signals)
    BY <1>3 DEF Send, WalksTypeOK, Signals
  <2> QED  BY <1>3, <2>1 DEF Send, WalksTypeOK, Counted, folderVars, walks, watch, Signals
<1> QED  BY <1>1, <1>2, <1>3 DEF Watches

LEMMA MarkTypes ==
    ASSUME WalksTypeOK, NEW f \in {"stale", "kept", "trail", "tick"}
    PROVE  /\ NextMark(f) \in Marks
           /\ Retired(f) \in Marks
<1>1. f \in Marked /\ marks \in Marks
  BY DEF Marked, WalksTypeOK
<1> QED  BY <1>1, MarksMove

LEMMA ForgetType ==
    ASSUME WalksTypeOK, Forget \/ OnSignal
    PROVE  /\ vouched' \in BOOLEAN
           /\ marks' \in Marks
           /\ kept' \in KeptType
<1>1. NoWalk \in KeptType
  BY BoundsAssumption DEF NoWalk, Moments, KeptType
<1>2. Retired("kept") \in Marks
      /\ NextMark("stale") \in Marks
  BY MarkTypes
<1>3. vouched' \in BOOLEAN
  <2>1. CASE Forget
    BY <2>1, Zenon DEF Forget
  <2>2. CASE OnSignal
    BY <2>2 DEF OnSignal, WalksTypeOK
  <2> QED  BY <2>1, <2>2
<1> QED  BY <1>1, <1>2, <1>3 DEF Forget, OnSignal, WalksTypeOK

LEMMA ReactsType ==
    ASSUME WalksTypeOK, Counted, Reacts
    PROVE  WalksTypeOK' /\ Counted'
<1>1. CASE Hear
  <2>1. signals' \in Seq(Signals) /\ reactor' \in {"loop", "hearing"}
    BY <1>1 DEF Hear, WalksTypeOK, Signals
  <2>2. Forget \/ OnSignal \/ UNCHANGED walks
    BY <1>1 DEF Hear
  <2>3. /\ vouched' \in BOOLEAN
        /\ marks' \in Marks
        /\ kept' \in KeptType
    BY <2>2, ForgetType DEF walks, WalksTypeOK
  <2>4. trail' \in TrailType
    <3>1. PICK b \in BOOLEAN : b = (trail.due \/ (enabled /\ Head(signals) = "rescan"))
      OBVIOUS
    <3>2. trail' = [trail EXCEPT !.due = b]
      BY <1>1, <3>1, Zenon DEF Hear
    <3> QED  BY <3>2 DEF WalksTypeOK, TrailType
  <2> QED  BY <1>1, <2>1, <2>3, <2>4 DEF Hear, WalksTypeOK, Counted, folderVars, watch, Signals
<1>2. CASE HearChanged
  <2>1. trail' \in TrailType
    BY <1>2 DEF HearChanged, WalksTypeOK, TrailType
  <2> QED  BY <1>2, <2>1, ForgetType DEF HearChanged, WalksTypeOK, Counted, folderVars, watch
<1>3. CASE Reconcile
  <2>1. occurred' \in Moments /\ occurred <= occurred'
    <3>1. occurred \in Nat /\ occurred <= MaxOccurrences
      BY BoundsAssumption DEF WalksTypeOK, Moments
    <3>2. UNCHANGED occurred \/ Occurs
      BY <1>3 DEF Reconcile
    <3> QED  BY BoundsAssumption, <3>1, <3>2 DEF Occurs, Moments
  <2>2. Counted'
    <3>1. UNCHANGED <<disk, entry>>
      BY <1>3 DEF Reconcile, folderVars
    <3>2. disk \in Nat /\ entry \in Nat /\ occurred \in Nat /\ occurred' \in Nat
      BY <2>1 DEF WalksTypeOK, Moments
    <3> QED  BY <2>1, <3>1, <3>2 DEF Counted
  <2>3. /\ os' \in {"whole", "blind", "none"} /\ debounce' \subseteq debounce
        /\ reactor' \in {"refresh", "insert", "vouch"}
    BY <1>3 DEF Reconcile, WalksTypeOK
  <2> QED  BY <1>3, <2>1, <2>2, <2>3 DEF Reconcile, WalksTypeOK, folderVars, walks
<1>4. CASE Replace
  BY <1>4 DEF Replace, WalksTypeOK, Counted, folderVars, walks
<1>5. CASE SyncVouched
  <2>1. /\ vouched' \in BOOLEAN
        /\ marks' \in Marks
        /\ kept' \in {kept, NoWalk}
    <3>1. PICK live \in BOOLEAN : live = (listed = "ok")
      OBVIOUS
    <3>2. VouchFor(live)
      BY <1>5, <3>1, Zenon DEF SyncVouched
    <3>3. NextMark("stale") \in Marks
      BY MarkTypes
    <3> QED  BY <3>1, <3>2, <3>3 DEF VouchFor, WalksTypeOK, walks
  <2>2. NoWalk \in KeptType
    BY BoundsAssumption DEF NoWalk, Moments, KeptType
  <2> QED  BY <1>5, <2>1, <2>2 DEF SyncVouched, WalksTypeOK, Counted, folderVars, watch
<1>6. CASE Unwatch
  BY <1>6 DEF Unwatch, WalksTypeOK, Counted, folderVars, walks
<1>7. CASE ClearWatch
  <2>1. trail' \in TrailType
    BY <1>7 DEF ClearWatch, WalksTypeOK, TrailType
  <2> QED  BY <1>7, <2>1, ForgetType DEF ClearWatch, WalksTypeOK, Counted, folderVars, watch
<1> QED  BY <1>1, <1>2, <1>3, <1>4, <1>5, <1>6, <1>7 DEF Reacts

LEMMA TrailsType ==
    ASSUME WalksTypeOK, Counted, Trails
    PROVE  WalksTypeOK' /\ Counted'
<1>0. /\ vouched \in BOOLEAN /\ disk \in Moments /\ entry \in Moments /\ 0 \in Moments
      /\ trail \in TrailType
  BY BoundsAssumption DEF WalksTypeOK, Moments
<1>1. CASE TakeDue
  <2>1. trail' \in TrailType
    BY <1>0, <1>1 DEF TakeDue, TrailType
  <2>2. marks' \in Marks
    BY <1>1, MarkTypes DEF TakeDue, WalksTypeOK
  <2> QED  BY <1>1, <2>1, <2>2 DEF TakeDue, WalksTypeOK, Counted, folderVars, watch, calls
<1>2. CASE TrailReads
  <2>1. trail' \in TrailType
    BY <1>0, <1>2 DEF TrailReads, TrailType
  <2> QED  BY <1>2, <2>1 DEF TrailReads, WalksTypeOK, Counted, folderVars, watch, calls, walks
<1>3. CASE TrailWalks
  <2>1. trail' \in TrailType
    BY <1>0, <1>3 DEF TrailWalks, TrailType
  <2> QED  BY <1>3, <2>1 DEF TrailWalks, WalksTypeOK, Counted, folderVars, watch, calls, walks
<1>4. CASE TrailEnds
  <2>1. trail' \in TrailType
    BY <1>0, <1>4 DEF TrailEnds, NoTrail, TrailType
  <2>2. /\ vouched' = vouched /\ marks' \in Marks
        /\ kept' \in {kept, NewKept(trail)}
    BY <1>4, RecordWalkDoes DEF TrailEnds, WalksTypeOK
  <2>3. NewKept(trail) \in KeptType
    BY <1>0 DEF NewKept, KeptType, TrailType
  <2> QED  BY <1>0, <1>4, <2>1, <2>2, <2>3 DEF TrailEnds, WalksTypeOK, Counted, watch, calls,
        TrailType
<1> QED  BY <1>1, <1>2, <1>3, <1>4 DEF Trails

LEMMA ChecksType ==
    ASSUME WalksTypeOK, Counted, Checks
    PROVE  WalksTypeOK' /\ Counted'
<1>0. /\ vouched \in BOOLEAN /\ disk \in Moments /\ entry \in Moments /\ 0 \in Moments
      /\ tick \in TickType /\ NoTick \in TickType
      /\ kept \in KeptType
  BY BoundsAssumption DEF WalksTypeOK, Moments, TickType, NoTick
<1>1. WalkBegins \in TickType /\ AfterReuse \in TickType
  BY <1>0 DEF WalkBegins, AfterReuse, TickType
<1>2. CASE TickBegins
  <2>1. tick' \in TickType
    BY <1>0, <1>2 DEF TickBegins, TickType
  <2> QED  BY <1>2, <2>1 DEF TickBegins, WalksTypeOK, Counted, folderVars, watch, calls, walks
<1>3. ASSUME NEW publishes \in BOOLEAN, TickLocks(publishes) PROVE WalksTypeOK' /\ Counted'
  <2>1. tick' \in TickType
    <3>1. \/ tick' = [WalkBegins EXCEPT !.held = disk]
          \/ tick' = [tick EXCEPT !.at = "fetch", !.start = TRUE, !.held = disk, !.of = kept.of,
                                  !.seen = kept.seen]
      BY <1>3 DEF TickLocks
    <3>2. [WalkBegins EXCEPT !.held = disk] \in TickType
      BY <1>0, <1>1 DEF TickType
    <3>3. ASSUME NEW of \in Moments, NEW seen \in Moments
          PROVE  [tick EXCEPT !.at = "fetch", !.start = TRUE, !.held = disk, !.of = of,
                              !.seen = seen] \in TickType
      BY <1>0 DEF TickType
    <3>4. kept.of \in Moments /\ kept.seen \in Moments
      BY <1>0 DEF KeptType
    <3> QED  BY <3>1, <3>2, <3>3, <3>4
  <2>2. marks' \in Marks
    <3>1. Renumbered([marks EXCEPT !.tick = marks.kept]) \in Marks
      BY MarksPass DEF WalksTypeOK
    <3> QED  BY <1>3, <3>1, MarkTypes DEF TickLocks
  <2> QED  BY <1>3, <2>1, <2>2 DEF TickLocks, WalksTypeOK, Counted, folderVars, watch, calls
<1>4. ASSUME NEW publishes \in BOOLEAN, TickFetched(publishes) PROVE WalksTypeOK' /\ Counted'
  <2>1. tick' \in TickType /\ observed' \in {observed, tick.seen}
    BY <1>0, <1>1, <1>4 DEF TickFetched
  <2>2. marks' \in Marks
    BY <1>4, MarkTypes DEF TickFetched
  <2> QED  BY <1>0, <1>4, <2>1, <2>2 DEF TickFetched, WalksTypeOK, Counted, watch, calls, TickType
<1>5. CASE TickWalks
  <2>1. tick' \in TickType
    <3>1. PICK b \in BOOLEAN : b = (tick.reused /\ tick.seen # disk)
      OBVIOUS
    <3>2. tick' = [tick EXCEPT !.at = "record", !.of = entry, !.seen = disk, !.differs = b]
      BY <1>5, <3>1, Zenon DEF TickWalks
    <3> QED  BY <1>0, <3>2 DEF TickType
  <2> QED  BY <1>5, <2>1 DEF TickWalks, WalksTypeOK, Counted, folderVars, watch, calls, walks
<1>6. ASSUME NEW publishes \in BOOLEAN, TickRecords(publishes) PROVE WalksTypeOK' /\ Counted'
  <2>1. tick' \in TickType
    BY <1>0, <1>6 DEF TickRecords, TickType
  <2>2. /\ vouched' = vouched /\ marks' \in Marks
        /\ kept' \in {kept, NewKept(tick)}
    BY <1>6, RecordWalkDoes DEF TickRecords, WalksTypeOK
  <2>3. NewKept(tick) \in KeptType
    BY <1>0 DEF NewKept, TickType, KeptType
  <2>4. observed' = tick.seen /\ tick.seen \in Moments
    BY <1>0, <1>6 DEF TickRecords, TickType
  <2> QED  BY <1>0, <1>6, <2>1, <2>2, <2>3, <2>4 DEF TickRecords, WalksTypeOK, Counted, watch,
        calls
<1>7. CASE Publishes
  <2>1. entry' \in Moments /\ occurred' \in Moments /\ Counted'
    <3>1. disk \in Nat /\ entry \in Nat /\ occurred \in Nat /\ MaxOccurrences \in Nat
      BY BoundsAssumption DEF WalksTypeOK, Moments
    <3>2. CASE Occurs /\ entry' = entry + 1
      BY <1>7, <3>1, <3>2 DEF Publishes, Occurs, Counted, Moments
    <3>3. CASE UNCHANGED <<entry, occurred>>
      BY <1>7, <3>3 DEF Publishes, Counted, WalksTypeOK
    <3> QED  BY <1>7, <3>2, <3>3 DEF Publishes
  <2> QED  BY <1>0, <1>7, <2>1 DEF Publishes, WalksTypeOK, watch, calls, walks
<1> QED  BY <1>2, <1>3, <1>4, <1>5, <1>6, <1>7 DEF Checks

LEMMA WalksTypeStep ==
    ASSUME WalksTypeOK, Counted, [WalksNext]_walksVars
    PROVE  WalksTypeOK' /\ Counted'
<1>1. CASE UNCHANGED walksVars
  BY <1>1 DEF walksVars, WalksTypeOK, Counted
<1> QED  BY <1>1, FolderType, WatchesType, ReactsType, TrailsType, ChecksType DEF WalksNext

-----------------------------------------------------------------------------
(* The kept walks: news of the folder *)

\* A loss is announced in the signals of `s`.
Announced(s) == \E i \in 1..Len(s) : s[i] \in {"rescan", "lost"}

LEMMA AnnouncedStays ==
    ASSUME NEW s \in Seq(Signals), NEW t \in Seq(Signals), Announced(s) \/ Announced(t)
    PROVE  Announced(s \o t)
<1>1. CASE Announced(s)
  <2>1. PICK i \in 1..Len(s) : s[i] \in {"rescan", "lost"}
    BY <1>1 DEF Announced
  <2>2. i \in 1..Len(s \o t) /\ (s \o t)[i] = s[i]
    OBVIOUS
  <2> QED  BY <2>1, <2>2 DEF Announced
<1>2. CASE Announced(t)
  <2>1. PICK i \in 1..Len(t) : t[i] \in {"rescan", "lost"}
    BY <1>2 DEF Announced
  <2>2. Len(s) + i \in 1..Len(s \o t) /\ (s \o t)[Len(s) + i] = t[i]
    OBVIOUS
  <2> QED  BY <2>1, <2>2 DEF Announced
<1> QED  BY <1>1, <1>2

LEMMA LossStep ==
    ASSUME WalksTypeOK, LossTold, [WalksNext]_walksVars
    PROVE  LossTold'
<1> DEFINE Told == reactor = "clear" \/ Announced(batch) \/ Announced(signals)
<1>0. /\ LossTold = (vouched /\ listed # "ok" => Told)
      /\ LossTold' = (vouched' /\ listed' # "ok" => Told')
  BY DEF LossTold, Announced
<1>1. /\ batch \in Seq(Signals) /\ signals \in Seq(Signals)
  BY DEF WalksTypeOK, Signals
<1>2. ASSUME UNCHANGED <<listed, batch, signals>>, vouched' => vouched,
             reactor = "clear" => reactor' = "clear" \/ ~vouched'
      PROVE  LossTold'
  BY <1>0, <1>2
<1>3. CASE EditFolder \/ Command \/ Switch \/ Age \/ UNCHANGED walksVars
  BY <1>2, <1>3 DEF EditFolder, Command, Switch, Age, walksVars, calls, walks, watch
<1>4. CASE Flush
  <2>1. UNCHANGED <<vouched, signals, reactor>> /\ batch = <<>>
    BY <1>4 DEF Flush, walks
  <2>2. ~Announced(<<>>)
    BY DEF Announced
  <2>3. CASE listed' = listed
    BY <1>0, <2>1, <2>2, <2>3
  <2>4. CASE listed' # listed
    BY <1>0, <1>4, <2>4, FlushSends DEF Announced
  <2> QED  BY <2>3, <2>4
<1>5. CASE HandleAsyncError
  <2>1. UNCHANGED <<vouched, signals, reactor>> /\ batch = <<>>
    BY <1>5 DEF HandleAsyncError, walks
  <2>2. ~Announced(<<>>) /\ Announced(<<"lost">>)
    BY DEF Announced
  <2>3. listed = "none" \/ batch' = <<"lost">>
    BY <1>5 DEF HandleAsyncError
  <2> QED  BY <1>0, <2>1, <2>2, <2>3
<1>6. CASE Send
  <2>1. signals' = signals \o batch /\ UNCHANGED <<vouched, listed, reactor>>
    BY <1>6 DEF Send, walks, watch
  <2> QED  BY <1>0, <1>1, <2>1, AnnouncedStays
<1>7. CASE Hear
  <2>1. UNCHANGED <<listed, batch>> /\ reactor = "loop" /\ signals # <<>>
        /\ signals' = Tail(signals)
    BY <1>7 DEF Hear, watch
  <2>2. CASE Forget
    BY <1>0, <2>2 DEF Forget
  <2>3. CASE ~Forget
    <3>1. Head(signals) \notin {"rescan", "lost"} /\ UNCHANGED vouched
      BY <1>7, <2>3 DEF Hear, OnSignal, walks
    <3>2. ASSUME Announced(signals) PROVE Announced(Tail(signals))
      <4>1. PICK i \in 1..Len(signals) : signals[i] \in {"rescan", "lost"}
        BY <3>2 DEF Announced
      <4>2. i # 1
        BY <1>1, <2>1, <3>1, <4>1
      <4>3. i - 1 \in 1..Len(Tail(signals)) /\ Tail(signals)[i - 1] = signals[i]
        BY <1>1, <2>1, <4>2
      <4> QED  BY <4>1, <4>3 DEF Announced
    <3> QED  BY <1>0, <2>1, <3>1, <3>2
  <2> QED  BY <2>2, <2>3
<1>8. CASE HearChanged \/ Reconcile
  <2>1. UNCHANGED <<listed, batch, signals, vouched>> /\ reactor # "clear"
    BY <1>8 DEF HearChanged, Reconcile, OnSignal, watch, walks
  <2> QED  BY <1>2, <2>1
<1>9. CASE Replace
  <2>1. UNCHANGED <<batch, signals, vouched>> /\ reactor # "clear" /\ listed' \in {listed, "ok"}
    BY <1>9 DEF Replace, walks
  <2> QED  BY <1>0, <2>1
<1>10. CASE SyncVouched
  <2>1. vouched' => listed' = "ok"
    <3>1. PICK live \in BOOLEAN : live = (listed = "ok")
      OBVIOUS
    <3>2. VouchFor(live) /\ UNCHANGED listed
      BY <1>10, <3>1, Zenon DEF SyncVouched, watch
    <3>3. vouched' = live
      BY <3>2 DEF VouchFor, walks
    <3> QED  BY <3>1, <3>2, <3>3
  <2> QED  BY <1>0, <2>1
<1>11. CASE Unwatch
  BY <1>0, <1>11 DEF Unwatch
<1>12. CASE ClearWatch
  BY <1>0, <1>12 DEF ClearWatch, Forget
<1>13. CASE Trails
  <2>1. UNCHANGED <<vouched, listed, batch, signals, reactor>>
    BY <1>13, RecordWalkDoes DEF Trails, TakeDue, TrailReads, TrailWalks, TrailEnds, WalksTypeOK,
       watch, calls, walks
  <2> QED  BY <1>0, <2>1
<1>14. CASE Checks
  <2>1. UNCHANGED <<vouched, listed, batch, signals, reactor>>
    BY <1>14, RecordWalkDoes DEF Checks, TickBegins, TickLocks, TickFetched, TickWalks,
       TickRecords,
       Publishes, WalksTypeOK, watch, calls, walks
  <2> QED  BY <1>0, <2>1
<1> QED  BY <1>3, <1>4, <1>5, <1>6, <1>7, <1>8, <1>9, <1>10, <1>11, <1>12, <1>13, <1>14
         DEF WalksNext, Watches, Reacts

Told == Notice \/ Slipped

\* News is newer than every walk.
NewsIsNewest == ~vouched \/ \A w \in Marked \ {"stale"} : marks[w] < marks.stale

\* Nothing was told, nothing happened.
Calm == disk' = disk /\ (Told => Told')

LEMMA OnSignalNewest ==
    ASSUME WalksTypeOK, Forget \/ OnSignal
    PROVE  NewsIsNewest'
<1>1. "stale" \in Marked
  BY DEF Marked
<1>2. \A w \in Marked \ {"stale"} : NextMark("stale")[w] < NextMark("stale").stale
  BY <1>1, MarksMove DEF WalksTypeOK
<1>3. CASE Forget
  BY <1>3 DEF Forget, NewsIsNewest
<1>4. CASE OnSignal
  BY <1>2, <1>4 DEF OnSignal, NewsIsNewest
<1> QED  BY <1>3, <1>4

\* A step keeps the news, or announces it, or makes it newer than the walks.
LEMMA NewsStep ==
    ASSUME WalksTypeOK, LossTold, vouched,
           EditFolder \/ Command \/ Switch \/ Age \/ Watches \/ Reacts
    PROVE  Calm \/ Told' \/ NewsIsNewest'
<1>1. CASE EditFolder
  <2>1. UNCHANGED <<listed, batch, signals, reactor>>
    BY <1>1 DEF EditFolder, calls
  <2>2. CASE debounce' # {}
    BY <2>2 DEF Told, Notice
  <2>3. CASE debounce' = {}
    <3>1. os' # "whole"
      BY <1>1, <2>3 DEF EditFolder
    <3>2. CASE listed = "ok"
      BY <2>1, <3>1, <3>2 DEF Told, Slipped
    <3>3. CASE listed # "ok"
      BY <2>1, <3>3 DEF LossTold, Told, Notice
    <3> QED  BY <3>2, <3>3
  <2> QED  BY <2>2, <2>3
<1>2. CASE Command \/ Switch \/ Age
  BY <1>2 DEF Command, Switch, Age, Calm, Told, Notice, Slipped, watch, calls, folderVars
<1>3. CASE Flush
  <2>1. UNCHANGED <<signals, reactor>> /\ batch = <<>>
    BY <1>3 DEF Flush
  <2>2. CASE listed = "none"
    BY <2>1, <2>2 DEF LossTold, Told, Notice
  <2>3. CASE listed # "none"
    BY <1>3, <2>3, FlushSends DEF Told, Notice
  <2> QED  BY <2>2, <2>3
<1>4. CASE HandleAsyncError
  <2>1. UNCHANGED <<signals, reactor>> /\ batch = <<>>
    BY <1>4 DEF HandleAsyncError
  <2>2. CASE listed = "none"
    BY <2>1, <2>2 DEF LossTold, Told, Notice
  <2>3. CASE listed # "none"
    BY <1>4, <2>3 DEF HandleAsyncError, Told, Notice
  <2> QED  BY <2>2, <2>3
<1>5. CASE Send
  <2>1. signals' # <<>>
    BY <1>5 DEF Send, WalksTypeOK
  <2> QED  BY <2>1 DEF Told, Notice
<1>6. CASE Hear
  <2>1. CASE enabled /\ Head(signals) = "changed"
    BY <1>6, <2>1 DEF Hear, Told, Notice
  <2>2. CASE ~(enabled /\ Head(signals) = "changed")
    <3>1. Head(signals) \in {"changed", "stale", "rescan", "lost"}
      BY <1>6 DEF Hear, WalksTypeOK
    <3>2. Forget \/ OnSignal
      BY <1>6, <2>2, <3>1 DEF Hear
    <3> QED  BY <3>2, OnSignalNewest
  <2> QED  BY <2>1, <2>2
<1>7. CASE HearChanged
  BY <1>7, OnSignalNewest DEF HearChanged
<1>8. CASE Reconcile
  <2>1. UNCHANGED <<disk, listed, batch, signals>> /\ reactor = "loop"
    BY <1>8 DEF Reconcile, folderVars
  <2>2. CASE listed = "ok"
    <3>1. UNCHANGED <<os, debounce>>
      BY <1>8, <2>2 DEF Reconcile
    <3> QED  BY <2>1, <3>1 DEF Calm, Told, Notice, Slipped
  <2>3. CASE listed # "ok"
    BY <2>1, <2>3 DEF LossTold, Told, Notice
  <2> QED  BY <2>2, <2>3
<1>9. CASE Replace
  BY <1>9 DEF Replace, Calm, Told, Notice, Slipped, folderVars
<1>10. CASE SyncVouched
  <2>1. UNCHANGED <<disk, os, listed, debounce, batch, signals>> /\ reactor = "vouch"
    BY <1>10 DEF SyncVouched, folderVars, watch
  <2> QED  BY <2>1 DEF Calm, Told, Notice, Slipped
<1>11. CASE Unwatch
  BY <1>11 DEF Unwatch, Told, Notice
<1>12. CASE ClearWatch
  BY <1>12, OnSignalNewest DEF ClearWatch
<1> QED  BY <1>1, <1>2, <1>3, <1>4, <1>5, <1>6, <1>7, <1>8, <1>9, <1>10, <1>11, <1>12
         DEF Watches, Reacts

LEMMA ToldOrNewest ==
    ASSUME WalksTypeOK', Told' \/ NewsIsNewest'
    PROVE  WalksHold'
<1>1. ASSUME NewsIsNewest', NEW w \in {"kept", "trail", "tick"} PROVE ~StillCurrent(w)'
  <2>1. w \in Marked \ {"stale"} /\ "stale" \in Marked
    BY DEF Marked
  <2>2. marks'[w] \in Int /\ marks'["stale"] \in Int
    BY <2>1, MarkedSize DEF WalksTypeOK, Marks
  <2> QED  BY <1>1, <2>1, <2>2 DEF NewsIsNewest, StillCurrent
<1>2. CASE Told'
  BY <1>2 DEF Told, WalksHold, Holds
<1> QED  BY <1>1, <1>2 DEF WalksHold, Holds

LEMMA NewsWalksHold ==
    ASSUME WalksTypeOK, WalksTypeOK', LossTold, WalksHold,
           EditFolder \/ Command \/ Switch \/ Age \/ Watches \/ Reacts
    PROVE  WalksHold'
<1>1. CASE ~vouched
  <2>1. ~vouched' \/ NewsIsNewest'
    <3>1. CASE SyncVouched
      <4>1. PICK live \in BOOLEAN : live = (listed = "ok")
        OBVIOUS
      <4>2. VouchFor(live)
        BY <3>1, <4>1, Zenon DEF SyncVouched
      <4>3. CASE ~live
        BY <1>1, <4>2, <4>3 DEF VouchFor, walks
      <4>4. CASE live
        <5>1. marks' = NextMark("stale")
          BY <1>1, <4>2, <4>4 DEF VouchFor
        <5>2. "stale" \in Marked
          BY DEF Marked
        <5> QED  BY <5>1, <5>2, MarksMove DEF WalksTypeOK, NewsIsNewest
      <4> QED  BY <4>3, <4>4
    <3>2. CASE ~SyncVouched
      BY <1>1, <3>2 DEF EditFolder, Command, Switch, Age, Watches, Flush, HandleAsyncError, Send,
         Reacts, Hear, HearChanged, Reconcile, Replace, Unwatch, ClearWatch, Forget, OnSignal,
               walks
    <3> QED  BY <3>1, <3>2
  <2> QED  BY <2>1, ToldOrNewest DEF NewsIsNewest
<1>2. CASE vouched
  <2>1. CASE Told' \/ NewsIsNewest'
    BY <2>1, ToldOrNewest
  <2>2. CASE Calm /\ ~NewsIsNewest'
    <3>1. ~(Forget \/ OnSignal)
      BY <2>2, OnSignalNewest
    <3>2. /\ UNCHANGED <<marks, vouched>> /\ kept'.is = kept.is /\ kept'.seen = kept.seen
          /\ trail'.at = trail.at /\ trail'.seen = trail.seen /\ UNCHANGED tick
      <4>1. CASE EditFolder \/ Command \/ Switch \/ Watches
        BY <4>1 DEF EditFolder, Command, Switch, Watches, Flush, HandleAsyncError, Send, walks
      <4>2. CASE Age
        BY <4>2 DEF Age, WalksTypeOK, KeptType
      <4>3. CASE Hear
        <5>1. UNCHANGED walks
          BY <3>1, <4>3 DEF Hear
        <5> QED  BY <4>3, <5>1 DEF Hear, WalksTypeOK, walks
      <4>4. CASE HearChanged \/ ClearWatch
        BY <3>1, <4>4 DEF HearChanged, ClearWatch
      <4>5. CASE Reconcile \/ Replace \/ Unwatch
        BY <4>5 DEF Reconcile, Replace, Unwatch, walks
      <4>6. CASE SyncVouched
        <5>1. PICK live \in BOOLEAN : live = (listed = "ok")
          OBVIOUS
        <5>2. VouchFor(live)
          BY <4>6, <5>1, Zenon DEF SyncVouched
        <5>3. vouched'
          BY <2>2 DEF NewsIsNewest
        <5>4. UNCHANGED walks
          BY <1>2, <5>2, <5>3 DEF VouchFor
        <5> QED  BY <4>6, <5>4 DEF SyncVouched, walks
      <4> QED  BY <4>1, <4>2, <4>3, <4>4, <4>5, <4>6 DEF Reacts
    <3> QED  BY <2>2, <3>2 DEF WalksHold, Holds, StillCurrent, Calm, Told
  <2> QED  BY <1>2, <2>1, <2>2, NewsStep
<1> QED  BY <1>1, <1>2

-----------------------------------------------------------------------------
(* The kept walks: the walks *)

\* Moving the mark of `f` leaves the other walks as current as they were.
LEMMA OthersCurrent ==
    ASSUME WalksTypeOK, NEW f \in {"trail", "tick"}, marks' \in {NextMark(f), Retired(f)},
           UNCHANGED vouched, NEW w \in {"kept", "trail", "tick"} \ {f}
    PROVE  StillCurrent(w)' <=> StillCurrent(w)
<1>1. f \in Marked /\ "stale" \in Marked \ {f} /\ w \in Marked \ {f}
  BY DEF Marked
<1>2. marks'["stale"] < marks'[w] <=> marks["stale"] < marks[w]
  BY <1>1, MarksMove DEF WalksTypeOK
<1> QED  BY <1>2 DEF StillCurrent

LEMMA TrailsWalksHold ==
    ASSUME WalksTypeOK, WalksHold, Trails
    PROVE  WalksHold'
<1>0. Told' = Told /\ UNCHANGED <<disk, vouched, tick>>
  BY RecordWalkDoes DEF Trails, TakeDue, TrailReads, TrailWalks, TrailEnds, WalksTypeOK, Told,
     Notice, Slipped, watch, calls, walks, folderVars
<1>1. WalksHold <=> /\ kept.is /\ StillCurrent("kept") => kept.seen = disk \/ Told
                    /\ trail.at = "record" /\ StillCurrent("trail") => trail.seen = disk \/ Told
                    /\ tick.at \in {"fetch", "record"} /\ StillCurrent("tick")
                         => tick.seen = disk \/ Told
  BY DEF WalksHold, Holds, Told
<1>2. WalksHold' <=> /\ kept'.is /\ StillCurrent("kept")' => kept'.seen = disk' \/ Told'
                     /\ trail'.at = "record" /\ StillCurrent("trail")'
                          => trail'.seen = disk' \/ Told'
                     /\ tick'.at \in {"fetch", "record"} /\ StillCurrent("tick")'
                          => tick'.seen = disk' \/ Told'
  BY DEF WalksHold, Holds, Told
<1>3. CASE TakeDue
  <2>1. trail'.at # "record" /\ UNCHANGED kept
    BY <1>3 DEF TakeDue, WalksTypeOK, TrailType
  <2>2. marks' = NextMark("trail") \/ UNCHANGED marks
    BY <1>3 DEF TakeDue
  <2>3. ASSUME NEW w \in {"kept", "tick"} PROVE StillCurrent(w)' <=> StillCurrent(w)
    <3>1. CASE marks' = NextMark("trail")
      BY <1>0, <3>1, OthersCurrent
    <3>2. CASE UNCHANGED marks
      BY <1>0, <3>2 DEF StillCurrent
    <3> QED  BY <2>2, <3>1, <3>2
  <2> QED  BY <1>0, <1>1, <1>2, <2>1, <2>3
<1>4. CASE TrailReads
  <2>1. UNCHANGED <<marks, kept>> /\ trail'.at # "record"
    BY <1>4 DEF TrailReads, WalksTypeOK, TrailType, walks
  <2>2. ASSUME NEW w PROVE StillCurrent(w)' <=> StillCurrent(w)
    BY <1>0, <2>1 DEF StillCurrent
  <2> QED  BY <1>0, <1>1, <1>2, <2>1, <2>2
<1>5. CASE TrailWalks
  <2>1. UNCHANGED <<marks, kept>> /\ trail'.seen = disk
    BY <1>5 DEF TrailWalks, WalksTypeOK, walks
  <2>2. ASSUME NEW w PROVE StillCurrent(w)' <=> StillCurrent(w)
    BY <1>0, <2>1 DEF StillCurrent
  <2> QED  BY <1>0, <1>1, <1>2, <2>1, <2>2
<1>6. CASE TrailEnds
  <2>1. trail'.at = "idle" /\ trail.at = "record"
    BY <1>6 DEF TrailEnds, NoTrail
  <2>2. /\ marks'.stale < marks'.tick <=> marks.stale < marks.tick
        /\ \/ kept' = kept /\ (marks'.stale < marks'.kept <=> marks.stale < marks.kept)
           \/ kept'.seen = trail.seen /\ (marks'.stale < marks'.kept <=> marks.stale < marks.trail)
    BY <1>6, RecordWalkDoes DEF TrailEnds, WalksTypeOK, NewKept
  <2> QED  BY <1>0, <1>1, <1>2, <2>1, <2>2 DEF StillCurrent
<1> QED  BY <1>3, <1>4, <1>5, <1>6 DEF Trails

LEMMA ChecksWalksHold ==
    ASSUME WalksTypeOK, WalksHold, Checks
    PROVE  WalksHold'
<1>0. Told' = Told /\ UNCHANGED <<disk, vouched, trail>>
  BY RecordWalkDoes DEF Checks, TickBegins, TickLocks, TickFetched, TickWalks, TickRecords,
     Publishes,
     WalksTypeOK, Told, Notice, Slipped, watch, calls, walks, folderVars
<1>1. WalksHold <=> /\ kept.is /\ StillCurrent("kept") => kept.seen = disk \/ Told
                    /\ trail.at = "record" /\ StillCurrent("trail") => trail.seen = disk \/ Told
                    /\ tick.at \in {"fetch", "record"} /\ StillCurrent("tick")
                         => tick.seen = disk \/ Told
  BY DEF WalksHold, Holds, Told
<1>2. WalksHold' <=> /\ kept'.is /\ StillCurrent("kept")' => kept'.seen = disk' \/ Told'
                     /\ trail'.at = "record" /\ StillCurrent("trail")'
                          => trail'.seen = disk' \/ Told'
                     /\ tick'.at \in {"fetch", "record"} /\ StillCurrent("tick")'
                          => tick'.seen = disk' \/ Told'
  BY DEF WalksHold, Holds, Told
\* The check's walk has ended, or has not begun.
<1>3. ASSUME tick'.at \notin {"fetch", "record"}, UNCHANGED kept,
             marks' \in {marks, NextMark("tick"), Retired("tick")}
      PROVE  WalksHold'
  <2>1. ASSUME NEW w \in {"kept", "trail"} PROVE StillCurrent(w)' <=> StillCurrent(w)
    <3>1. CASE marks' \in {NextMark("tick"), Retired("tick")}
      BY <1>0, <3>1, OthersCurrent
    <3>2. CASE UNCHANGED marks
      BY <1>0, <3>2 DEF StillCurrent
    <3> QED  BY <1>3, <3>1, <3>2
  <2> QED  BY <1>0, <1>1, <1>2, <1>3, <2>1
<1>4. CASE TickBegins \/ Publishes
  <2>1. tick'.at \in {"lock", "idle"}
    <3>1. CASE TickBegins
      BY <3>1 DEF TickBegins, NoTick
    <3>2. CASE Publishes
      BY <3>2 DEF Publishes, NoTick
    <3> QED  BY <1>4, <3>1, <3>2
  <2>2. UNCHANGED <<kept, marks>>
    BY <1>4 DEF TickBegins, Publishes, walks
  <2> QED  BY <1>3, <2>1, <2>2
<1>5. ASSUME NEW publishes \in BOOLEAN, TickLocks(publishes) PROVE WalksHold'
  <2>1. CASE ~publishes /\ Reusable /\ kept.entry = entry
    <3>1. /\ marks' = Renumbered([marks EXCEPT !.tick = marks.kept]) /\ UNCHANGED kept
          /\ tick'.seen = kept.seen
      BY <1>5, <2>1 DEF TickLocks, WalksTypeOK, TickType
    <3>2. /\ marks'.stale < marks'.tick <=> marks.stale < marks.kept
          /\ marks'.stale < marks'.kept <=> marks.stale < marks.kept
          /\ marks'.stale < marks'.trail <=> marks.stale < marks.trail
      <4> DEFINE m == [marks EXCEPT !.tick = marks.kept]
      <4>1. /\ Renumbered(m).stale < Renumbered(m)["tick"] <=> marks.stale < marks["kept"]
            /\ \A a \in Marked \ {"kept", "tick"} : Renumbered(m).stale < Renumbered(m)[a]
                  <=> marks.stale < marks[a]
            /\ Renumbered(m).stale < Renumbered(m)["kept"] <=> marks.stale < marks["kept"]
        BY MarksPass DEF WalksTypeOK
      <4>2. "trail" \in Marked \ {"kept", "tick"}
        BY DEF Marked
      <4> HIDE DEF m
      <4> QED  BY <3>1, <4>1, <4>2 DEF m
    <3>3. kept.is
      BY <2>1 DEF Reusable
    <3> QED  BY <1>0, <1>1, <1>2, <3>1, <3>2, <3>3 DEF StillCurrent
  <2>2. CASE ~(~publishes /\ Reusable /\ kept.entry = entry)
    <3>1. marks' = NextMark("tick") /\ tick'.at = "walk" /\ UNCHANGED kept
      BY <1>5, <2>2 DEF TickLocks, WalkBegins, WalksTypeOK, TickType
    <3> QED  BY <1>3, <3>1
  <2> QED  BY <2>1, <2>2
<1>6. ASSUME NEW publishes \in BOOLEAN, TickFetched(publishes) PROVE WalksHold'
  <2>1. marks' \in {NextMark("tick"), Retired("tick")} /\ UNCHANGED kept
    BY <1>6 DEF TickFetched
  <2>2. tick' \in {WalkBegins, AfterReuse, NoTick}
    BY <1>6 DEF TickFetched
  <2>3. tick'.at \in {"walk", "idle"}
    <3>1. WalkBegins.at = "walk" /\ AfterReuse.at = "walk" /\ NoTick.at = "idle"
      BY DEF WalkBegins, AfterReuse, NoTick, WalksTypeOK
    <3> QED  BY <2>2, <3>1
  <2> QED  BY <1>3, <2>1, <2>3
<1>7. CASE TickWalks
  <2>1. UNCHANGED <<marks, kept>> /\ tick'.seen = disk
    BY <1>7 DEF TickWalks, WalksTypeOK, walks
  <2>2. ASSUME NEW w PROVE StillCurrent(w)' <=> StillCurrent(w)
    BY <1>0, <2>1 DEF StillCurrent
  <2> QED  BY <1>0, <1>1, <1>2, <2>1, <2>2
<1>8. ASSUME NEW publishes \in BOOLEAN, TickRecords(publishes) PROVE WalksHold'
  <2>1. tick'.at \in {"idle", "publish"} /\ tick.at = "record"
    BY <1>8 DEF TickRecords, NoTick, WalksTypeOK
  <2>2. /\ marks'.stale < marks'.trail <=> marks.stale < marks.trail
        /\ \/ kept' = kept /\ (marks'.stale < marks'.kept <=> marks.stale < marks.kept)
           \/ kept'.seen = tick.seen /\ (marks'.stale < marks'.kept <=> marks.stale < marks.tick)
    BY <1>8, RecordWalkDoes DEF TickRecords, WalksTypeOK, NewKept
  <2> QED  BY <1>0, <1>1, <1>2, <2>1, <2>2 DEF StillCurrent
<1> QED  BY <1>4, <1>5, <1>6, <1>7, <1>8 DEF Checks

\* News leaves the walks as they are, or drops the kept one.
LEMMA NewsLeavesWalks ==
    ASSUME WalksTypeOK, EditFolder \/ Command \/ Switch \/ Age \/ Watches \/ Reacts
    PROVE  /\ \/ ~kept'.is
              \/ kept'.is = kept.is /\ kept'.entry = kept.entry /\ kept'.of = kept.of
           /\ trail'.at = trail.at /\ trail'.entry = trail.entry /\ trail'.of = trail.of
           /\ UNCHANGED tick /\ disk' \in {disk, disk + 1} /\ entry' \in {entry, entry + 1}
           /\ UNCHANGED entry \/ tick.at \in {"idle", "lock"}
<1>0. disk \in Nat /\ entry \in Nat
  BY DEF WalksTypeOK, Moments
<1>1. CASE EditFolder \/ Command \/ Switch \/ Watches
  <2>1. UNCHANGED <<kept, trail, tick>>
    BY <1>1 DEF EditFolder, Command, Switch, Watches, Flush, HandleAsyncError, Send, walks
  <2>2. disk' \in {disk, disk + 1} /\ entry' \in {entry, entry + 1}
    BY <1>1 DEF EditFolder, Command, Switch, Watches, Flush, HandleAsyncError, Send, folderVars
  <2>3. UNCHANGED entry \/ tick.at \in {"idle", "lock"}
    BY <1>1 DEF EditFolder, Command, Switch, Watches, Flush, HandleAsyncError, Send, folderVars
  <2> QED  BY <2>1, <2>2, <2>3
<1>2. CASE Age
  <2>1. UNCHANGED <<disk, entry, trail, tick>> /\ kept' = [kept EXCEPT !.old = TRUE]
    BY <1>2 DEF Age, folderVars
  <2>2. kept'.is = kept.is /\ kept'.entry = kept.entry /\ kept'.of = kept.of
    BY <2>1 DEF WalksTypeOK
  <2> QED  BY <2>1, <2>2
<1>3. CASE Reacts
  <2>1. UNCHANGED <<disk, entry, tick>>
    BY <1>3 DEF Reacts, Hear, HearChanged, Reconcile, Replace, SyncVouched, Unwatch, ClearWatch,
       folderVars
  <2>2. kept' \in {kept, NoWalk}
    BY <1>3 DEF Reacts, Hear, HearChanged, Reconcile, Replace, SyncVouched, Unwatch, ClearWatch,
       Forget, OnSignal, VouchFor, walks
  <2>3. trail'.at = trail.at /\ trail'.entry = trail.entry /\ trail'.of = trail.of
    BY <1>3 DEF Reacts, Hear, HearChanged, Reconcile, Replace, SyncVouched, Unwatch, ClearWatch,
       WalksTypeOK, TrailType
  <2> QED  BY <1>0, <2>1, <2>2, <2>3 DEF NoWalk
<1> QED  BY <1>1, <1>2, <1>3

LEMMA EntriesStep ==
    ASSUME WalksTypeOK, EntriesInOrder, HeldInOrder, [WalksNext]_walksVars
    PROVE  EntriesInOrder' /\ HeldInOrder'
<1>0. /\ disk \in Nat /\ entry \in Nat
      /\ kept \in [is : BOOLEAN, entry : Nat, of : Nat, seen : Nat, old : BOOLEAN]
      /\ trail \in [at : {"idle", "begun", "walk", "record"}, start : BOOLEAN, entry : Nat,
                    of : Nat, seen : Nat, due : BOOLEAN]
      /\ tick \in [at : {"idle", "lock", "fetch", "walk", "record", "publish"}, start : BOOLEAN,
                   entry : Nat, of : Nat, seen : Nat, held : Nat, reused : BOOLEAN,
                   differs : BOOLEAN]
  BY DEF WalksTypeOK, Moments, KeptType, TrailType, TickType
<1>1. CASE UNCHANGED walksVars
  BY <1>1 DEF walksVars, EntriesInOrder, HeldInOrder
<1>2. CASE EditFolder \/ Command \/ Switch \/ Age \/ Watches \/ Reacts
  <2>1. disk' \in {disk, disk + 1} /\ entry' \in {entry, entry + 1} /\ UNCHANGED tick
        /\ (UNCHANGED entry \/ tick.at \in {"idle", "lock"})
    BY <1>2, NewsLeavesWalks
  <2>2. EntriesInOrder'
    BY <1>0, <1>2, <2>1, NewsLeavesWalks DEF EntriesInOrder
  <2>3. HeldInOrder'
    BY <1>0, <2>1 DEF HeldInOrder
  <2> QED  BY <2>2, <2>3
<1>3. CASE TakeDue
  <2>1. UNCHANGED <<disk, entry, kept, tick>> /\ trail'.at # "record"
        /\ (trail'.at = "walk" => trail'.entry = trail.entry /\ trail.at = "walk")
    BY <1>0, <1>3 DEF TakeDue, folderVars
  <2> QED  BY <1>0, <2>1 DEF EntriesInOrder, HeldInOrder
<1>12. CASE TrailReads
  <2>1. UNCHANGED <<disk, entry, kept, tick>> /\ trail'.at = "walk" /\ trail'.entry = entry
    BY <1>0, <1>12 DEF TrailReads, folderVars, walks
  <2> QED  BY <1>0, <2>1 DEF EntriesInOrder, HeldInOrder
<1>4. CASE TrailWalks
  <2>1. UNCHANGED <<disk, entry, kept, tick>> /\ trail.at = "walk" /\ trail'.at = "record"
        /\ trail'.entry = trail.entry /\ trail'.of = entry
    BY <1>0, <1>4 DEF TrailWalks, folderVars, walks
  <2> QED  BY <1>0, <2>1 DEF EntriesInOrder, HeldInOrder
<1>5. CASE TrailEnds
  <2>1. UNCHANGED <<disk, entry, tick>> /\ trail.at = "record" /\ trail'.at = "idle"
        /\ kept' \in {kept, NewKept(trail)}
    BY <1>5, RecordWalkDoes DEF TrailEnds, NoTrail, WalksTypeOK
  <2> QED  BY <2>1 DEF EntriesInOrder, HeldInOrder, NewKept
<1>6. CASE TickBegins
  <2>1. UNCHANGED <<disk, entry, kept, trail>> /\ tick'.at = "lock" /\ tick'.entry = entry
        /\ ~tick'.reused
    BY <1>6 DEF TickBegins, NoTick, folderVars, walks
  <2> QED  BY <1>0, <2>1 DEF EntriesInOrder, HeldInOrder
<1>7. ASSUME NEW publishes \in BOOLEAN, TickLocks(publishes) PROVE EntriesInOrder' /\ HeldInOrder'
  <2>1. UNCHANGED <<disk, entry, kept, trail>> /\ tick.at = "lock" /\ tick'.entry = tick.entry
        /\ tick'.held = disk
    BY <1>0, <1>7 DEF TickLocks, WalkBegins, folderVars
  <2>2. tick'.at = "walk"
        \/ (tick'.at = "fetch" /\ kept.is /\ kept.entry = entry /\ tick'.of = kept.of
              /\ tick'.reused = tick.reused)
    BY <1>0, <1>7, ZenonT(40) DEF TickLocks, WalkBegins, Reusable
  <2>3. tick.at = "lock" => ~tick.reused
    BY DEF EntriesInOrder
  <2> QED  BY <1>0, <2>1, <2>2, <2>3 DEF EntriesInOrder, HeldInOrder
<1>8. ASSUME NEW publishes \in BOOLEAN, TickFetched(publishes)
      PROVE EntriesInOrder' /\ HeldInOrder'
  <2>1. UNCHANGED <<disk, entry, kept, trail>> /\ tick.at = "fetch"
        /\ \/ tick'.at = "idle"
           \/ tick'.at = "walk" /\ tick'.entry = tick.entry /\ tick'.held = tick.held
    <3>1. /\ UNCHANGED <<disk, entry, kept, trail>> /\ tick.at = "fetch"
          /\ tick' \in {WalkBegins, AfterReuse, NoTick}
      BY <1>8 DEF TickFetched
    <3>2. /\ NoTick.at = "idle"
          /\ WalkBegins.at = "walk" /\ WalkBegins.entry = tick.entry /\ WalkBegins.held = tick.held
          /\ AfterReuse.at = "walk" /\ AfterReuse.entry = tick.entry /\ AfterReuse.held = tick.held
      BY <1>0 DEF WalkBegins, AfterReuse, NoTick
    <3> QED  BY <3>1, <3>2
  <2> QED  BY <2>1 DEF EntriesInOrder, HeldInOrder
<1>9. CASE TickWalks
  <2>1. UNCHANGED <<disk, entry, kept, trail>> /\ tick.at = "walk" /\ tick'.at = "record"
        /\ tick'.entry = tick.entry /\ tick'.held = tick.held /\ tick'.of = entry
              /\ tick'.seen = disk
    BY <1>0, <1>9 DEF TickWalks, folderVars, walks
  <2> QED  BY <1>0, <2>1 DEF EntriesInOrder, HeldInOrder
<1>10. ASSUME NEW publishes \in BOOLEAN, TickRecords(publishes)
      PROVE EntriesInOrder' /\ HeldInOrder'
  <2>1. UNCHANGED <<disk, entry, trail>> /\ tick.at = "record" /\ kept' \in {kept, NewKept(tick)}
        /\ \/ tick'.at = "idle"
           \/ /\ tick'.at = "publish" /\ tick'.entry = tick.entry
              /\ tick'.held = tick.held /\ tick'.seen = tick.seen
    BY <1>0, <1>10, RecordWalkDoes DEF TickRecords, NoTick, WalksTypeOK
  <2> QED  BY <2>1 DEF EntriesInOrder, HeldInOrder, NewKept
<1>11. CASE Publishes
  <2>1. UNCHANGED <<disk, kept, trail>> /\ tick'.at = "idle" /\ entry' \in Nat /\ entry <= entry'
    BY <1>0, <1>11 DEF Publishes, NoTick, walks
  <2> QED  BY <1>0, <2>1 DEF EntriesInOrder, HeldInOrder
<1> QED  BY <1>1, <1>2, <1>3, <1>4, <1>5, <1>6, <1>7, <1>8, <1>9, <1>10, <1>11,
            <1>12
         DEF WalksNext, Trails, Checks

-----------------------------------------------------------------------------
(* The kept walks: the invariant, and reuse *)

\* The kept walk a check may reuse.
LEMMA KeptFromWalks == WalksTypeOK /\ WalksHold /\ EntriesInOrder => KeptIsTrue
<1> SUFFICES ASSUME WalksTypeOK, WalksHold, EntriesInOrder, Reusable, kept.entry = entry
      PROVE Tells(kept)
  BY DEF KeptIsTrue
<1>1. kept.is /\ vouched /\ marks.stale < marks.kept
  <2>1. marks.stale \in Int /\ marks.kept \in Int
    BY MarkedSize DEF WalksTypeOK, Marked, Marks
  <2> QED  BY <2>1 DEF Reusable
<1>2. kept.entry \in Nat /\ kept.of \in Nat
  BY DEF WalksTypeOK, Moments, KeptType
<1>3. kept.of = entry
  BY <1>1, <1>2 DEF EntriesInOrder
<1>4. kept.seen = disk \/ Notice \/ Slipped
  BY <1>1 DEF WalksHold, Holds, StillCurrent
<1> QED  BY <1>3, <1>4 DEF Tells

LEMMA WalksInitInv == WalksInit => WalksInv
<1> SUFFICES ASSUME WalksInit PROVE WalksInv
  OBVIOUS
<1>1. WalksTypeOK
  BY WalksInitType
<1>2. Counted /\ LossTold /\ WalksHold /\ EntriesInOrder /\ HeldInOrder
  BY DEF WalksInit, Counted, LossTold, WalksHold, EntriesInOrder, HeldInOrder, NoWalk, NoTrail,
     NoTick
<1> QED  BY <1>1, <1>2, KeptFromWalks DEF WalksInv

LEMMA WalksStepInv == WalksInv /\ [WalksNext]_walksVars => WalksInv'
<1> SUFFICES ASSUME WalksInv, [WalksNext]_walksVars PROVE WalksInv'
  OBVIOUS
<1> USE DEF WalksInv
<1>1. WalksTypeOK' /\ Counted'
  BY WalksTypeStep
<1>2. LossTold' /\ EntriesInOrder' /\ HeldInOrder'
  BY LossStep, EntriesStep
<1>3. WalksHold'
  <2>1. CASE UNCHANGED walksVars
    BY <2>1 DEF walksVars, WalksHold, Holds, StillCurrent, Notice, Slipped
  <2> QED  BY <1>1, <2>1, NewsWalksHold, TrailsWalksHold, ChecksWalksHold DEF WalksNext
<1>4. KeptIsTrue'
  BY <1>1, <1>2, <1>3, KeptFromWalks, PTL
<1> QED  BY <1>1, <1>2, <1>3, <1>4

\* WalksInv is inductive: a walk the check may reuse tells the folder and the
\* entry of now, or news is on its way, or slipped between the locks of `add`.
THEOREM KeptWalksTellTheTruth == WalksSpec => []WalksInv
BY WalksInitInv, WalksStepInv, PTL DEF WalksSpec

\* A publish acts on a tree no older than its lock.
THEOREM PublishesWhatItWalked == WalksSpec => []PublishesUnderLock
<1>1. WalksInv => PublishesUnderLock
  <2> SUFFICES ASSUME WalksInv PROVE PublishesUnderLock
    OBVIOUS
  <2>1. tick.held \in Nat /\ tick.seen \in Nat
    BY DEF WalksInv, WalksTypeOK, Moments, TickType
  <2> QED  BY <2>1 DEF WalksInv, HeldInOrder, PublishesUnderLock
<1> QED  BY <1>1, KeptWalksTellTheTruth, PTL

LEMMA ReuseStep ==
    ASSUME WalksInv, [WalksNext]_walksVars, tick.at = "fetch",
           tick'.at \in {"idle", "publish"} \/ tick'.reused
    PROVE  Tells(tick)
<1>1. ~tick.reused /\ tick.of = entry
  BY DEF WalksInv, EntriesInOrder
<1>2. tick' # tick
  BY <1>1
<1>3. PICK publishes \in BOOLEAN : TickFetched(publishes)
  <2>1. ~(EditFolder \/ Command \/ Switch \/ Age \/ Watches \/ Reacts)
    BY <1>2, NewsLeavesWalks DEF WalksInv
  <2>2. ~Trails /\ ~UNCHANGED walksVars
    BY <1>2 DEF Trails, TakeDue, TrailReads, TrailWalks, TrailEnds, walksVars
  <2>3. \A publishes \in BOOLEAN : ~TickLocks(publishes) /\ ~TickRecords(publishes)
    BY DEF TickLocks, TickRecords
  <2>4. ~TickBegins /\ ~TickWalks /\ ~Publishes
    BY DEF TickBegins, TickWalks, Publishes
  <2> QED  BY <2>1, <2>2, <2>3, <2>4 DEF WalksNext, Checks
<1>4. StillCurrent("tick")
  <2>1. CASE ~StillCurrent("tick")
    <3>1. tick' = WalkBegins
      BY <1>3, <2>1 DEF TickFetched
    <3>2. tick'.at = "walk" /\ tick'.reused = tick.reused
      BY <3>1 DEF WalkBegins, WalksInv, WalksTypeOK
    <3> QED  BY <1>1, <3>2
  <2> QED  BY <2>1
<1> QED  BY <1>1, <1>4 DEF WalksInv, WalksHold, Holds, Tells

\* What a check reuses still told the folder when the remote had answered.
THEOREM ReusedWalksAreTrue == WalksSpec => ReusesTheTruth
<1>1. WalksInv /\ [WalksNext]_walksVars
        => [tick.at = "fetch" /\ (tick'.at \in {"idle", "publish"} \/ tick'.reused)
              => Tells(tick)]_walksVars
  BY ReuseStep
<1> QED  BY <1>1, WalksInitInv, WalksStepInv, PTL DEF WalksSpec, ReusesTheTruth

-----------------------------------------------------------------------------
(* The quit gate *)

LEMMA QuitInitInv == QuitInit => QuitInv
<1> SUFFICES ASSUME QuitInit PROVE QuitInv
  OBVIOUS
<1> USE QuitBounds DEF QuitInit
<1>1. gate.pending = FALSE /\ gate.shown = FALSE /\ gate.generation = 0
  OBVIOUS
<1>v. visible \in BOOLEAN  BY Zenon
<1>2. QuitTypeOK
  BY <1>v DEF QuitTypeOK, Generations
<1>3. PendingIsAttended /\ GenerationsCount /\ NoneToCome /\ AcksAreOfPrompts
  BY <1>1 DEF PendingIsAttended, GenerationsCount, NoneToCome, AcksAreOfPrompts
<1> QED  BY <1>2, <1>3 DEF QuitInv

LEMMA QuitStep == QuitInv /\ [QuitNext]_quitVars => QuitInv'
<1> SUFFICES ASSUME QuitInv, [QuitNext]_quitVars PROVE QuitInv'
  OBVIOUS
<1> USE QuitBounds DEF QuitInv, QuitTypeOK, Generations, Runs, PendingIsAttended,
    GenerationsCount, NoneToCome, AcksAreOfPrompts, Asked, quitPage
<1>1. CASE Write \/ WriteEnds
  BY <1>1 DEF Write, WriteEnds
<1>2. CASE Request
  <2>1. CASE gate' = gate
    <3>1. /\ Runs /\ requests < MaxRequests /\ requests' = requests + 1
          /\ exit' \in {exit, "idle"}
          /\ UNCHANGED <<gate, prompts, timers, writes, listens, acks, answers, quitPage>>
      BY <1>2, <2>1 DEF Request, Deferred
    <3> QED  BY <3>1
  <2>2. CASE gate' # gate
    <3>1. /\ Runs /\ requests < MaxRequests /\ requests' = requests + 1 /\ ~gate.pending
          /\ gate' = Deferred /\ UNCHANGED <<writes, listens, acks, answers, quitPage>>
      BY <1>2, <2>2 DEF Request
    <3>2. /\ gate'.pending = TRUE /\ gate'.shown = FALSE
          /\ gate'.generation = gate.generation + 1
      BY <3>1 DEF Deferred
    <3>3. gate.generation + 1 \in Generations
      BY <3>1
    <3>4. \/ /\ prompts' = prompts \cup {gate.generation + 1}
             /\ timers' = timers \cup {gate.generation + 1} /\ exit' = exit
          \/ prompts' = prompts /\ timers' = timers /\ exit' = "unasked"
      BY <1>2, <2>2, <3>1 DEF Request
    <3>5. QuitTypeOK'
      BY <3>1, <3>3, <3>4 DEF Deferred
    <3>6. PendingIsAttended' /\ GenerationsCount' /\ NoneToCome' /\ AcksAreOfPrompts'
      BY <3>1, <3>2, <3>4
    <3> QED  BY <3>5, <3>6
  <2> QED  BY <2>1, <2>2
<1>3. CASE Cancel
  <2>1. gate'.pending = FALSE /\ gate'.generation = gate.generation + 1
    BY <1>3 DEF Cancel, Dismissed
  <2>2. QuitTypeOK'
    BY <1>3, <2>1 DEF Cancel, Dismissed
  <2>3. PendingIsAttended' /\ GenerationsCount' /\ NoneToCome' /\ AcksAreOfPrompts'
    BY <1>3, <2>1 DEF Cancel
  <2> QED  BY <2>2, <2>3
<1>4. CASE Stay
  <2>1. visible' \in BOOLEAN
    BY <1>4, Zenon DEF Stay
  <2>2. stays' = stays + 1 /\ answers < MaxAnswers /\ answers' = answers + 1
    BY <1>4 DEF Stay
  <2>3. UNCHANGED <<gate, writes, listens, prompts, acks, timers, orphans, forgotten, exit,
                    requests>>
    BY <1>4 DEF Stay
  <2> QED  BY <2>1, <2>2, <2>3
<1>5. CASE StayFails \/ OrphanEnds
  <2>1. UNCHANGED <<writes, listens, prompts, acks, timers, forgotten, exit, requests, answers>>
    BY <1>5 DEF StayFails, OrphanEnds
  <2>2. \/ StayFails /\ stays > 0 /\ stays' = stays - 1 /\ orphans' = orphans
        \/ OrphanEnds /\ orphans > 0 /\ orphans' = orphans - 1 /\ stays' = stays
    BY <1>5 DEF StayFails, OrphanEnds
  <2>3. visible' \in BOOLEAN /\ (StayFails => visible') /\ (OrphanEnds => visible' = visible)
    <3>1. CASE StayFails
      <4>1. visible' = TRUE  BY <3>1, Zenon DEF StayFails
      <4>2. OrphanEnds => visible' = visible  BY Zenon DEF OrphanEnds
      <4> QED  BY <4>1, <4>2, Zenon
    <3>2. CASE OrphanEnds /\ ~StayFails
      <4>1. visible' = visible  BY <3>2, Zenon DEF OrphanEnds
      <4> QED  BY <3>2, <4>1, Zenon
    <3> QED  BY <1>5, <3>1, <3>2
  <2>4. gate' = gate \/ gate' = Dismissed
    BY <1>5, Zenon DEF StayFails, OrphanEnds
  <2>5. gate.generation + 1 \in Generations
    BY <2>2
  <2>6. CASE gate' = gate
    BY <2>1, <2>2, <2>3, <2>6
  <2>7. CASE gate' = Dismissed
    <3>1. gate'.pending = FALSE /\ gate'.generation = gate.generation + 1
      BY <2>7 DEF Dismissed
    <3>2. QuitTypeOK'
      BY <2>1, <2>2, <2>3, <2>5, <2>7 DEF Dismissed
    <3>3. PendingIsAttended' /\ GenerationsCount' /\ NoneToCome' /\ AcksAreOfPrompts'
      BY <2>1, <2>2, <3>1
    <3> QED  BY <3>2, <3>3
  <2> QED  BY <2>4, <2>6, <2>7
<1>6. CASE Reload
  <2>1. /\ UNCHANGED <<gate, writes, listens, prompts, acks, timers, exit, requests, answers>>
        /\ stays' = 0 /\ orphans' = orphans + stays
    BY <1>6 DEF Reload
  <2>v. visible' \in BOOLEAN
    BY <1>6, Zenon DEF Reload
  <2>2. /\ forgotten' \in {forgotten, gate.generation}
        /\ gate.pending /\ Asked => gate.generation = forgotten'
    BY <1>6 DEF Reload
  <2> QED  BY <2>1, <2>v, <2>2
<1>7. CASE QuitAnyway
  BY <1>7 DEF QuitAnyway
<1>8. ASSUME NEW g \in Generations, NoteShown(g) PROVE QuitInv'
  BY <1>8 DEF NoteShown, Shown
<1>9. ASSUME NEW g \in Generations, GraceEnds(g) PROVE QuitInv'
  BY <1>9 DEF GraceEnds, Unanswerable
<1>10. ASSUME NEW g \in Generations, Raise(g) \/ Drop(g) \/ LoseAck(g) PROVE QuitInv'
  BY <1>10 DEF Raise, Drop, LoseAck
<1>11. CASE UNCHANGED quitVars
  BY <1>11 DEF quitVars
<1> QED
  BY <1>1, <1>2, <1>3, <1>4, <1>5, <1>6, <1>7, <1>8, <1>9, <1>10, <1>11 DEF QuitNext

\* QuitInv is inductive: a deferred quit is attended, by a prompt on screen or
\* being answered, or by the timer of its own generation.
THEOREM QuitIsAttended == QuitSpec => []QuitInv
BY QuitInitInv, QuitStep, PTL DEF QuitSpec

\* No deferred quit exits unasked before the timer of its own generation ran out.
THEOREM GraceIsWhole == QuitSpec => FullGrace
<1>1. ASSUME [QuitNext]_quitVars
      PROVE  [exit = "no" /\ exit' = "unasked" /\ gate.pending
                => gate.generation \notin timers']_quitVars
  <2> USE DEF Runs
  <2> SUFFICES ASSUME QuitNext, exit = "no", exit' = "unasked", gate.pending
               PROVE  gate.generation \notin timers'
    BY <1>1
  <2>1. PICK g \in Generations : GraceEnds(g)
    BY DEF QuitNext, Write, WriteEnds, Request, Cancel, Stay, StayFails, QuitAnyway, NoteShown,
           Raise, Drop, LoseAck, Reload, OrphanEnds
  <2> QED  BY <2>1 DEF GraceEnds, Unanswerable
<1> QED  BY <1>1, PTL DEF QuitSpec, FullGrace
=============================================================================
