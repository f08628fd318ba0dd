----------------------------- MODULE KeptWalks -----------------------------
(***************************************************************************)
(* Walks kept for the check: the file watcher of a package folder, from    *)
(* the OS events to the reactor's signals, its watch made and made again,  *)
(* the walk that trails the signals, and the check (a tick), which reuses  *)
(* a walk the watcher vouches for instead of walking the folder itself.    *)
(*                                                                         *)
(* One package.  A tree and a lineage entry are counts of their changes,   *)
(* and an entry never comes back (its `latest` aside).  The watcher may    *)
(* lose events, its watch and its folder; one callback, the reactor, the   *)
(* trailing walk, the check and the user's edits and commands interleave.  *)
(* Volumes, the user-wide rules' watch and uninstalls are left out.        *)
(***************************************************************************)
EXTENDS Naturals, Sequences, FiniteSets

CONSTANTS
    MaxOccurrences  \* bound: edits, commands, switches of the watcher, refused watches

ASSUME BoundsAssumption == MaxOccurrences \in Nat

VARIABLES
    disk,      \* the tree, as many changes as it had
    entry,     \* the lineage entry, likewise
    os,        \* the OS watch; a "blind" one misses a folder
    listed,    \* the subscription's root: "none", "ok" or "rewatch"
    debounce,  \* OS events not flushed yet
    batch,     \* the signals the callback is about to send
    signals,   \* the signals sent
    enabled,   \* is the file watcher on?
    reactor,   \* where the reactor is
    vouched,   \* is the package vouched for?
    marks,     \* the order of the marks: of its last news and of each walk
    kept,      \* the kept walk
    trail,     \* the trailing walk: is it due, and where is it?
    tick,      \* the check
    observed,  \* the tree last reported
    occurred

walksVars == <<disk, entry, os, listed, debounce, batch, signals, enabled, reactor, vouched,
               marks, kept, trail, tick, observed, occurred>>

folderVars == <<disk, entry, observed>>
watch == <<os, listed, debounce>>
calls == <<batch, signals, enabled, reactor>>
walks == <<vouched, marks, kept>>

-----------------------------------------------------------------------------
(* Marks: only their order matters, so each change renumbers them. *)

Marked == {"stale", "kept", "trail", "tick"}

Renumbered(m) == [f \in Marked |-> Cardinality({n \in {m[g] : g \in Marked} : n < m[f]})]

NextMark(f) == Renumbered([marks EXCEPT ![f] = Cardinality(Marked)])

\* The mark of a walk that ended counts no more.
Retired(f) == Renumbered([marks EXCEPT ![f] = 0])

NoWalk == [is |-> FALSE, entry |-> 0, of |-> 0, seen |-> 0, old |-> FALSE]

\* A walk not begun.
NoTrail == [at |-> "idle", start |-> FALSE, entry |-> 0, of |-> 0, seen |-> 0, due |-> FALSE]

NoTick == [at |-> "idle", start |-> FALSE, entry |-> 0, of |-> 0, seen |-> 0,
           held |-> 0, reused |-> FALSE, differs |-> FALSE]

WalksInit ==
    /\ disk = 0 /\ entry = 0
    /\ os = "whole" /\ listed = "ok"
    /\ debounce = {} /\ batch = <<>> /\ signals = <<>>
    /\ enabled = TRUE
    /\ reactor = "vouch"
    /\ vouched = FALSE
    /\ marks = [f \in Marked |-> 0]
    /\ kept = NoWalk
    /\ trail = NoTrail
    /\ tick = NoTick
    /\ observed = 0
    /\ occurred = 0

Occurs == occurred < MaxOccurrences /\ occurred' = occurred + 1

-----------------------------------------------------------------------------
(* The folder and what the OS tells of it *)

\* A whole watch reports an edit or an edit the ignore rules screen out, or
\* loses it and asks for a rescan, and then may miss a folder; or the folder was
\* moved or the watch lost.
EditFolder ==
    /\ Occurs
    /\ disk' = disk + 1
    /\ \/ os \in {"whole", "blind"} /\ \E e \in {"changed", "stale"} : debounce' = debounce \cup {e}
          /\ UNCHANGED os
       \/ os \in {"whole", "blind"} /\ \E e \in {"rescan", "gone"} : debounce' = debounce \cup {e}
          /\ os' = "blind"
       \/ os \in {"whole", "blind"} /\ debounce' = debounce \cup {"error"}
          /\ os' = "none"
       \/ os \in {"blind", "none"} /\ UNCHANGED <<os, debounce>>
    /\ UNCHANGED <<entry, observed, listed, calls, walks, trail, tick>>

\* A commit, a pull, ... under the package's lock.
Command ==
    /\ Occurs
    /\ tick.at \in {"idle", "lock"}
    /\ entry' = entry + 1
    /\ UNCHANGED <<disk, observed, watch, calls, walks, trail, tick>>

Switch ==
    /\ Occurs
    /\ enabled' = ~enabled
    /\ UNCHANGED <<folderVars, watch, batch, signals, reactor, walks, trail, tick>>

-----------------------------------------------------------------------------
(* The debouncer's callback *)

Screened == IF "changed" \in debounce THEN <<"changed">>
            ELSE IF "stale" \in debounce THEN <<"stale">> ELSE <<>>

\* The events of a package not listed are dropped.  An error that names no path
\* is told as a rescan is.
Flush ==
    /\ batch = <<>> /\ debounce \ {"error"} # {}
    /\ debounce' = debounce \cap {"error"}
    /\ IF listed = "none" THEN UNCHANGED <<batch, listed>>
       ELSE /\ batch' = Screened \o (IF "rescan" \in debounce THEN <<"rescan">> ELSE <<>>)
                                 \o (IF "gone" \in debounce THEN <<"lost">> ELSE <<>>)
            /\ listed' = IF debounce \cap {"rescan", "gone"} # {} THEN "rewatch" ELSE listed
    /\ UNCHANGED <<folderVars, os, signals, enabled, reactor, walks, trail, tick, occurred>>

HandleAsyncError ==
    /\ batch = <<>> /\ "error" \in debounce
    /\ debounce' = debounce \ {"error"}
    /\ listed' = "none"
    /\ batch' = IF listed = "none" THEN <<>> ELSE <<"lost">>
    /\ UNCHANGED <<folderVars, os, signals, enabled, reactor, walks, trail, tick, occurred>>

Send ==
    /\ batch # <<>>
    /\ signals' = signals \o batch
    /\ batch' = <<>>
    /\ UNCHANGED <<folderVars, watch, enabled, reactor, walks, trail, tick, occurred>>

-----------------------------------------------------------------------------
(* The kept walks *)

Forget ==
    /\ vouched' = FALSE
    /\ kept' = NoWalk
    /\ marks' = Retired("kept")

\* Mutant of OnSignal: the kept walk is dropped, a walk in flight is not.
OnSignal_DropsKept ==
    /\ kept' = NoWalk
    /\ UNCHANGED <<vouched, marks>>

OnSignal ==
    /\ marks' = IF vouched THEN NextMark("stale") ELSE marks
    /\ UNCHANGED <<vouched, kept>>

\* A package new to it starts with no walk.
VouchFor(live) ==
    IF live = vouched THEN UNCHANGED walks
    ELSE /\ vouched' = live
         /\ marks' = IF live THEN NextMark("stale") ELSE marks
         /\ kept' = NoWalk

\* The walk of `w`, "trail" or "tick", ends.
RecordWalk(w, walk) ==
    IF walk.start /\ vouched /\ marks.stale <= marks[w] /\ (kept.is => marks.kept <= marks[w])
    THEN /\ kept' = [is |-> TRUE, entry |-> walk.entry, of |-> walk.of, seen |-> walk.seen,
                     old |-> FALSE]
         /\ marks' = Renumbered([marks EXCEPT !.kept = marks[w], ![w] = 0])
         /\ UNCHANGED vouched
    ELSE /\ marks' = Retired(w)
         /\ UNCHANGED <<vouched, kept>>

\* Mutant of Reusable: a walk never grows old.
Reusable_AnyAge == vouched /\ kept.is /\ marks.kept > marks.stale

Reusable == vouched /\ kept.is /\ marks.kept > marks.stale /\ ~kept.old

\* Mutant of StillCurrent: what was heard while the remote answered is ignored.
StillCurrent_Unasked(w) == TRUE

StillCurrent(w) == vouched /\ marks.stale < marks[w]

\* An hour passes.
Age ==
    /\ kept.is /\ ~kept.old
    /\ kept' = [kept EXCEPT !.old = TRUE]
    /\ UNCHANGED <<folderVars, watch, calls, vouched, marks, trail, tick, occurred>>

-----------------------------------------------------------------------------
(* The reactor *)

\* Take a signal.
Hear ==
    /\ reactor = "loop" /\ signals # <<>>
    /\ signals' = Tail(signals)
    /\ LET kind == Head(signals) IN
       /\ reactor' = IF enabled /\ kind = "changed" THEN "hearing" ELSE reactor
       /\ IF ~enabled \/ kind \in {"rescan", "lost"} THEN Forget
          ELSE IF kind = "stale" THEN OnSignal
          ELSE UNCHANGED walks
       /\ trail' = [trail EXCEPT !.due = @ \/ (enabled /\ kind = "rescan")]
    /\ UNCHANGED <<folderVars, watch, batch, enabled, tick, occurred>>

\* The last-change clock is told first, and its lock awaited.
HearChanged ==
    /\ reactor = "hearing"
    /\ reactor' = "loop"
    /\ OnSignal
    /\ trail' = [trail EXCEPT !.due = TRUE]
    /\ UNCHANGED <<folderVars, watch, batch, signals, enabled, tick, occurred>>

\* `add` reads the root, and takes the lock again to replace it.
Reconcile ==
    /\ reactor = "loop" /\ enabled
    /\ \/ /\ listed = "ok"
          /\ reactor' = "refresh"
          /\ UNCHANGED <<os, debounce, occurred>>
       \/ /\ listed # "ok"
          /\ reactor' = "insert"
          /\ os' = "whole"
          /\ debounce' = IF listed = "rewatch" THEN debounce \cap {"error"} ELSE debounce
          /\ UNCHANGED occurred
       \/ /\ listed # "ok" /\ Occurs
          /\ reactor' = "vouch"
          /\ os' = "none"
          /\ debounce' = IF listed = "rewatch" THEN debounce \cap {"error"} ELSE debounce
    /\ UNCHANGED <<folderVars, listed, batch, signals, enabled, walks, trail, tick>>

\* The replaced root forgets a rescan flagged meanwhile.
Replace ==
    /\ reactor \in {"refresh", "insert"}
    /\ reactor' = "vouch"
    /\ listed' = IF reactor = "refresh" /\ listed = "none" THEN "none" ELSE "ok"
    /\ UNCHANGED <<folderVars, os, debounce, batch, signals, enabled, walks, trail, tick, occurred>>

SyncVouched ==
    /\ reactor = "vouch"
    /\ reactor' = "loop"
    /\ VouchFor(listed = "ok")
    /\ UNCHANGED <<folderVars, watch, batch, signals, enabled, trail, tick, occurred>>

Unwatch ==
    /\ reactor = "loop" /\ ~enabled /\ (listed # "none" \/ vouched \/ trail.due)
    /\ reactor' = "clear"
    /\ listed' = "none"
    /\ os' = IF listed = "none" THEN os ELSE "none"
    /\ UNCHANGED <<folderVars, debounce, batch, signals, enabled, walks, trail, tick, occurred>>

ClearWatch ==
    /\ reactor = "clear"
    /\ reactor' = "loop"
    /\ Forget
    /\ trail' = [trail EXCEPT !.due = FALSE]
    /\ UNCHANGED <<folderVars, watch, batch, signals, enabled, tick, occurred>>

-----------------------------------------------------------------------------
(* The trailing walk *)

TakeDue ==
    /\ reactor = "loop" /\ trail.due /\ trail.at = "idle"
    /\ IF enabled THEN /\ marks' = NextMark("trail")
                       /\ trail' = [trail EXCEPT !.due = FALSE, !.at = "begun", !.start = vouched]
       ELSE trail' = [trail EXCEPT !.due = FALSE] /\ UNCHANGED marks
    /\ UNCHANGED <<folderVars, watch, calls, vouched, kept, tick, occurred>>

\* The lineage the walk is matched against.
TrailReads ==
    /\ trail.at = "begun"
    /\ trail' = [trail EXCEPT !.at = "walk", !.entry = entry]
    /\ UNCHANGED <<folderVars, watch, calls, walks, tick, occurred>>

TrailWalks ==
    /\ trail.at = "walk"
    /\ trail' = [trail EXCEPT !.at = "record", !.of = entry, !.seen = disk]
    /\ UNCHANGED <<folderVars, watch, calls, walks, tick, occurred>>

TrailEnds ==
    /\ trail.at = "record"
    /\ RecordWalk("trail", trail)
    /\ observed' = trail.seen
    /\ trail' = [NoTrail EXCEPT !.due = trail.due]
    /\ UNCHANGED <<disk, entry, watch, calls, tick, occurred>>

-----------------------------------------------------------------------------
(* The check *)

\* It reads the lineage, and then takes the package's lock.
TickBegins ==
    /\ tick.at = "idle"
    /\ tick' = [NoTick EXCEPT !.at = "lock", !.entry = entry]
    /\ UNCHANGED <<folderVars, watch, calls, walks, trail, occurred>>

\* Mutant of AfterReuse: the reused walk is published.
AfterReuse_Publishes == [tick EXCEPT !.at = "publish"]

AfterReuse == [tick EXCEPT !.at = "walk", !.reused = TRUE, !.start = vouched]

WalkBegins == [tick EXCEPT !.at = "walk", !.start = vouched, !.of = 0, !.seen = 0]

\* A kept walk is reused, unless the check may publish or the entry is another.
TickLocks(publishes) ==
    /\ tick.at = "lock"
    /\ IF ~publishes /\ Reusable /\ kept.entry = entry
       THEN /\ marks' = Renumbered([marks EXCEPT !.tick = marks.kept])
            /\ tick' = [tick EXCEPT !.at = "fetch", !.start = TRUE, !.held = disk, !.of = kept.of,
                                    !.seen = kept.seen]
       ELSE marks' = NextMark("tick") /\ tick' = [WalkBegins EXCEPT !.held = disk]
    /\ UNCHANGED <<folderVars, watch, calls, vouched, kept, trail, occurred>>

\* The remote answered: the walk reused is observed, or made.  A publish acts on
\* a second walk, as its wait may have ended meanwhile.
TickFetched(publishes) ==
    /\ tick.at = "fetch"
    /\ IF ~StillCurrent("tick")
       THEN marks' = NextMark("tick") /\ tick' = WalkBegins /\ UNCHANGED observed
       ELSE /\ observed' = tick.seen
            /\ IF publishes
               THEN marks' = NextMark("tick") /\ tick' = AfterReuse
               ELSE marks' = Retired("tick") /\ tick' = NoTick
    /\ UNCHANGED <<disk, entry, watch, calls, vouched, kept, trail, occurred>>

TickWalks ==
    /\ tick.at = "walk"
    /\ tick' = [tick EXCEPT !.at = "record", !.of = entry, !.seen = disk,
                            !.differs = tick.reused /\ tick.seen # disk]
    /\ UNCHANGED <<folderVars, watch, calls, walks, trail, occurred>>

\* The walk is observed.  A second walk that found another tree is a new change,
\* with a wait of its own.
TickRecords(publishes) ==
    /\ tick.at = "record"
    /\ RecordWalk("tick", tick)
    /\ observed' = tick.seen
    /\ tick' = IF publishes /\ ~tick.differs THEN [tick EXCEPT !.at = "publish"] ELSE NoTick
    /\ tick.reused => publishes
    /\ UNCHANGED <<disk, entry, watch, calls, trail, occurred>>

\* The publish goes through, and its entry is recorded, or it fails.
Publishes ==
    /\ tick.at = "publish"
    /\ tick' = NoTick
    /\ \/ Occurs /\ entry' = entry + 1
       \/ UNCHANGED <<entry, occurred>>
    /\ UNCHANGED <<disk, observed, watch, calls, walks, trail>>

-----------------------------------------------------------------------------

Watches == Flush \/ HandleAsyncError \/ Send
Reacts == Hear \/ HearChanged \/ Reconcile \/ Replace \/ SyncVouched \/ Unwatch \/ ClearWatch
Trails == TakeDue \/ TrailReads \/ TrailWalks \/ TrailEnds
Checks ==
    \/ TickBegins \/ TickWalks \/ Publishes
    \/ \E publishes \in BOOLEAN : TickLocks(publishes) \/ TickFetched(publishes) \/ TickRecords(publishes)

WalksNext == EditFolder \/ Command \/ Switch \/ Age \/ Watches \/ Reacts \/ Trails \/ Checks

WalksSpec == WalksInit /\ [][WalksNext]_walksVars

\* The check comes round, and an hour passes.
FairWalks == WalksSpec /\ WF_walksVars(Checks) /\ WF_walksVars(Age)

-----------------------------------------------------------------------------
(* Properties *)

Moments == 0..MaxOccurrences

Marks == [Marked -> 0..(Cardinality(Marked) - 1)]

KeptType == [is : BOOLEAN, entry : Moments, of : Moments, seen : Moments, old : BOOLEAN]

TrailType == [at : {"idle", "begun", "walk", "record"}, start : BOOLEAN, entry : Moments,
              of : Moments, seen : Moments, due : BOOLEAN]

TickType == [at : {"idle", "lock", "fetch", "walk", "record", "publish"}, start : BOOLEAN,
             entry : Moments, of : Moments, seen : Moments, held : Moments,
             reused : BOOLEAN, differs : BOOLEAN]

WalksTypeOK ==
    /\ {disk, entry, observed} \subseteq Moments /\ occurred \in Moments
    /\ os \in {"whole", "blind", "none"} /\ listed \in {"none", "ok", "rewatch"}
    /\ debounce \subseteq {"changed", "stale", "rescan", "gone", "error"}
    /\ batch \in Seq({"changed", "stale", "rescan", "lost"})
    /\ signals \in Seq({"changed", "stale", "rescan", "lost"})
    /\ reactor \in {"loop", "hearing", "refresh", "insert", "vouch", "clear"}
    /\ enabled \in BOOLEAN /\ vouched \in BOOLEAN
    /\ marks \in Marks /\ kept \in KeptType /\ trail \in TrailType /\ tick \in TickType

\* News of the folder still on its way to the kept walks.
Notice ==
    \/ debounce # {} \/ batch # <<>> \/ signals # <<>>
    \/ reactor \in {"hearing", "clear"}

\* News of the watch fell between the two locks of `add`, where a flag set is
\* overwritten: a root taken for well watched is not.
Slipped == listed = "ok" /\ os # "whole"

Tells(walk) == walk.of = entry /\ (walk.seen = disk \/ Notice \/ Slipped)

\* INVARIANT.  What the check may reuse tells the folder and the entry of now,
\* unless news is still on its way: no change falls between a walk, a signal, a
\* lost watch and a new one (watched.rs, reactor.rs).
KeptIsTrue == Reusable /\ kept.entry = entry => Tells(kept)

\* Edits and entries are counted.
Counted == disk + entry <= occurred

\* A package vouched for without a good watch is about to be told.
LossTold ==
    vouched /\ listed # "ok"
        => \/ reactor = "clear"
           \/ \E i \in 1..Len(batch) : batch[i] \in {"rescan", "lost"}
           \/ \E i \in 1..Len(signals) : signals[i] \in {"rescan", "lost"}

\* What a walk no news came after found is there still, or news is on its way.
Holds(w, walk) == StillCurrent(w) => walk.seen = disk \/ Notice \/ Slipped

WalksHold ==
    /\ kept.is => Holds("kept", kept)
    /\ trail.at = "record" => Holds("trail", trail)
    /\ tick.at \in {"fetch", "record"} => Holds("tick", tick)

\* The lineage is read before the walk it is matched against, and only moves on.
EntriesInOrder ==
    /\ kept.is => kept.entry <= kept.of /\ kept.of <= entry
    /\ trail.at \in {"walk", "record"} => trail.entry <= entry
    /\ trail.at = "record" => trail.entry <= trail.of /\ trail.of <= entry
    /\ tick.at # "idle" => tick.entry <= entry
    /\ tick.at = "record" => tick.entry <= tick.of /\ tick.of <= entry
    /\ tick.at = "fetch" => tick.of = entry
    /\ tick.at \in {"lock", "fetch"} => ~tick.reused

\* The check's walk follows its lock.
HeldInOrder ==
    /\ tick.at \in {"fetch", "walk"} => tick.held <= disk
    /\ tick.at \in {"record", "publish"} => tick.held <= tick.seen

\* What holds in every reachable state.
WalksInv ==
    WalksTypeOK /\ Counted /\ LossTold /\ WalksHold /\ EntriesInOrder /\ HeldInOrder /\ KeptIsTrue

\* ACTION PROPERTY.  A check acts on a reused walk only if it still tells the
\* folder once the remote answered (tick.rs, `still_current`).
ReusesTheTruth ==
    [][tick.at = "fetch" /\ (tick'.at \in {"idle", "publish"} \/ tick'.reused) => Tells(tick)]_walksVars

\* INVARIANT.  A publish acts on a tree walked under the lock, not on one the
\* folder had before (tick.rs, `may_publish` and the second walk).
PublishesUnderLock == tick.at = "publish" => tick.seen >= tick.held

\* LIVENESS.  The last edit is reported, even one no event told of.
EditsAreSeen == disk # observed ~> disk = observed
=============================================================================
