----------------------------- MODULE AgentTasks -----------------------------
(***************************************************************************)
(* The agent tasks of QuiltSync.  A revision's metadata may ask for a      *)
(* task.  A desktop that can do it claims it by publishing a revision,     *)
(* runs an agent in the package's folder, and closes the claim by          *)
(* publishing what the agent left.  The engine may die between any two     *)
(* steps, and the agent may outlive it; the next start sweeps the claim.   *)
(*                                                                         *)
(* One package, one bucket, several desktops.  A push reads `latest` and   *)
(* writes it in another step, so two desktops may both see their claim     *)
(* certified.  A revision is a number with the claim its metadata carries; *)
(* the files are reduced to whether the tree differs from the head.        *)
(* Pauses, back-off and errors of the three small files in the data        *)
(* folder are left out.                                                    *)
(***************************************************************************)
EXTENDS Naturals, FiniteSets

CONSTANTS
    Desktops,
    Runs,         \* invocation ids
    NoRun,        \* no invocation id
    MaxRevisions, \* bound: revisions ever made
    MaxCrashes,   \* bound: engines that die
    MaxFaults     \* bound: publishes that fail, agents that do not stop

ASSUME BoundsAssumption ==
    MaxRevisions \in Nat /\ MaxCrashes \in Nat /\ MaxFaults \in Nat

ASSUME NoRunAssumption == NoRun \notin Runs

VARIABLES
    latest,   \* the revision tagged latest
    bucket,   \* the revisions uploaded
    made,     \* how many revisions were made
    pkg,      \* each desktop's lineage entry and whether its tree is dirty
    own,      \* the invocations each desktop remembers as its own
    saved,    \* the outcome each run saved
    recorded, \* runs with an agent on record
    agents,   \* runs whose agent was prompted and is alive
    task,     \* what each desktop's engine is doing with the package
    crashes, faults

vars == <<latest, bucket, made, pkg, own, saved, recorded, agents, task, crashes, faults>>

-----------------------------------------------------------------------------
(* Revisions and claims *)

Outcomes == {"done", "failed", "not_started", "unrunnable"}
Closing == Outcomes \cup {"interrupted"}

\* A claim's status and invocation; "none" is a revision that asks nothing,
\* "interrupted" a `failed` with the reason the sweep gives.
Claims == [status : {"none", "unclaimed", "unrunnable"}, run : {NoRun}]
          \cup [status : {"claimed"} \cup Closing, run : Runs]

Revision == [n : Nat, claim : Claims]

NoRevision == [n |-> 0, claim |-> [status |-> "none", run |-> NoRun]]

IsHeldIn(i, r) == r.claim = [status |-> "claimed", run |-> i]

\* The next revision, with this claim.
New(c) == [n |-> made + 1, claim |-> c]

\* chain counts the commits pending on the base; cur is the current revision.
Entry == [base : Revision, cur : Revision, chain : Nat, dirty : BOOLEAN]

At(r, dirty) == [base |-> r, cur |-> r, chain |-> 0, dirty |-> dirty]

-----------------------------------------------------------------------------
(* What the engine is doing *)

Labels == {"down", "idle", "pass", "look", "stop", "walk",
           "resolve", "tag", "land", "undo",
           "spawn", "recheck", "repull", "prompt", "turn", "close", "ended"}

\* The steps of a publish, and those of a run up to its outcome.
PublishSteps == {"resolve", "tag", "land", "undo"}
RunSteps == {"spawn", "recheck", "repull", "prompt", "turn"}

Whys == {"none", "auto", "refuse", "claim", "outcome", "sweep"}

\* run holds the package, rev is the revision being looked at or published,
\* certify the push's decision, undoable whether the publish changed only the
\* metadata, touched whether the tree was written since it was walked.
Task == [at : Labels, run : Runs \cup {NoRun}, rev : Revision, why : Whys,
         certify : BOOLEAN, undoable : BOOLEAN, touched : BOOLEAN]

Holds(d) == task[d].run # NoRun

Is(d, at) == task[d].at = at

\* The package's lock is held from the walk until the entry is saved.
Locked(d) == task[d].at \in {"stop", "walk"} \cup PublishSteps

Goes(d, at) == task' = [task EXCEPT ![d].at = at]

Idle == [at |-> "idle", run |-> NoRun, rev |-> NoRevision, why |-> "none",
         certify |-> FALSE, undoable |-> FALSE, touched |-> FALSE]

\* Back to waiting for the next tick: the hold is dropped with the run.
Rests(d) == task' = [task EXCEPT ![d] = Idle]

Publishes(d, i, r, why, undoable) ==
    task' = [task EXCEPT ![d] = [Idle EXCEPT !.at = "resolve", !.run = i, !.rev = r,
                                             !.why = why, !.undoable = undoable]]

Entries(d, e) == pkg' = [pkg EXCEPT ![d] = e]

-----------------------------------------------------------------------------
Init ==
    /\ latest = [n |-> 1, claim |-> [status |-> "unclaimed", run |-> NoRun]]
    /\ bucket = {latest}
    /\ made = 1
    /\ pkg = [d \in Desktops |-> At(latest, FALSE)]
    /\ own = [d \in Desktops |-> {}]
    /\ saved = [i \in Runs |-> "none"]
    /\ recorded = {}
    /\ agents = {}
    /\ task = [d \in Desktops |-> Idle]
    /\ crashes = 0
    /\ faults = 0

-----------------------------------------------------------------------------
(* The user, other writers of the bucket, and the agents *)

Dirtied(d) ==
    /\ pkg' = [pkg EXCEPT ![d].dirty = TRUE]
    /\ task' = [task EXCEPT ![d].touched = task[d].at \in {"resolve", "tag", "land"}]
    /\ UNCHANGED <<latest, bucket, made, own, saved, recorded, agents, crashes, faults>>

Edit(d) == Dirtied(d)

\* A prompted agent writes in the folder of the desktop that started it.
AgentWrites(i, d) == i \in agents /\ i \in own[d] /\ Dirtied(d)

\* An agent whose engine died ends by itself.
OrphanEnds(i) ==
    /\ i \in agents
    /\ \A d \in Desktops : task[d].run # i
    /\ agents' = agents \ {i}
    /\ UNCHANGED <<latest, bucket, made, pkg, own, saved, recorded, task, crashes, faults>>

\* A commit by hand, with the head's metadata or with none of its task.
UserCommit(d, c) ==
    /\ ~Locked(d)
    /\ made < MaxRevisions
    /\ pkg[d].dirty
    /\ c \in {pkg[d].cur.claim, [status |-> "none", run |-> NoRun]}
    /\ Entries(d, [pkg[d] EXCEPT !.cur = New(c), !.chain = @ + 1, !.dirty = FALSE])
    /\ made' = made + 1
    /\ UNCHANGED <<latest, bucket, own, saved, recorded, agents, task, crashes, faults>>

\* A pull or a reset by hand.
UserPull(d) ==
    /\ ~Locked(d)
    /\ pkg[d].chain = 0
    /\ Entries(d, At(latest, pkg[d].dirty))
    /\ UNCHANGED <<latest, bucket, made, own, saved, recorded, agents, task, crashes, faults>>

UserReset(d) ==
    /\ ~Locked(d)
    /\ Entries(d, At(latest, FALSE))
    /\ UNCHANGED <<latest, bucket, made, own, saved, recorded, agents, task, crashes, faults>>

\* Another writer tags a revision: a task, no task, or files under the claim
\* latest carries.
OthersPush(c) ==
    /\ made < MaxRevisions
    /\ c \in {latest.claim} \cup [status : {"none", "unclaimed"}, run : {NoRun}]
    /\ latest' = New(c)
    /\ bucket' = bucket \cup {New(c)}
    /\ made' = made + 1
    /\ UNCHANGED <<pkg, own, saved, recorded, agents, task, crashes, faults>>

-----------------------------------------------------------------------------
(* Passes of autosync *)

\* The head is this desktop's own claim and no run is alive to finish it.
Interrupted(d, r) == r.claim.status = "claimed" /\ r.claim.run \in own[d]

AwaitsSweep(d) == Interrupted(d, pkg[d].cur) /\ pkg[d].base = latest

\* Only an idle package is passed: a held one is skipped.
Pass(d) ==
    /\ Is(d, "idle")
    /\ Goes(d, IF AwaitsSweep(d) THEN "look" ELSE "pass")
    /\ UNCHANGED <<latest, bucket, made, pkg, own, saved, recorded, agents, crashes, faults>>

AutoPull(d) ==
    /\ Is(d, "pass")
    /\ pkg[d].chain = 0 /\ pkg[d].base = pkg[d].cur /\ pkg[d].base # latest
    /\ Entries(d, At(latest, pkg[d].dirty))
    /\ Goes(d, "look")
    /\ UNCHANGED <<latest, bucket, made, own, saved, recorded, agents, crashes, faults>>

\* A publish keeps the head's task; a clean tree with a commit is pushed as is.
AutoPublish(d) ==
    /\ Is(d, "pass")
    /\ pkg[d].base = latest
    /\ \/ /\ pkg[d].dirty
          /\ made < MaxRevisions
          /\ made' = made + 1
          /\ Publishes(d, NoRun, New(pkg[d].cur.claim), "auto", FALSE)
       \/ /\ ~pkg[d].dirty /\ pkg[d].chain > 0
          /\ made' = made
          /\ Publishes(d, NoRun, pkg[d].cur, "auto", FALSE)
    /\ UNCHANGED <<latest, bucket, pkg, own, saved, recorded, agents, crashes, faults>>

\* Nothing to sync, a publish deferred, a blocked pull or a diverged entry.
AutoNothing(d) ==
    /\ Is(d, "pass")
    /\ pkg[d].dirty \/ pkg[d].base = latest \/ pkg[d].cur # pkg[d].base
    /\ Goes(d, "look")
    /\ UNCHANGED <<latest, bucket, made, pkg, own, saved, recorded, agents, crashes, faults>>

-----------------------------------------------------------------------------
(* The task check of a tick *)

\* The head is read before the lock is taken.
ReadHead(d) ==
    LET r == pkg[d].cur
    IN  /\ Is(d, "look")
        /\ \/ /\ Interrupted(d, r)
              /\ task' = [task EXCEPT ![d].at = "stop", ![d].rev = r]
           \/ /\ \/ r.claim.status = "unclaimed"
                 \/ r.claim.status = "not_started" /\ r.claim.run \notin own[d]
              /\ task' = [task EXCEPT ![d].at = "walk", ![d].rev = r]
           \/ /\ ~Interrupted(d, r)
              /\ Rests(d)
        /\ UNCHANGED <<latest, bucket, made, pkg, own, saved, recorded, agents, crashes, faults>>

\* The agent the interrupted run left behind is stopped before the walk.
StopLeftover(d) ==
    /\ Is(d, "stop")
    /\ agents' = IF task[d].rev.claim.run \in recorded
                 THEN agents \ {task[d].rev.claim.run} ELSE agents
    /\ recorded' = recorded \ {task[d].rev.claim.run}
    /\ Goes(d, "walk")
    /\ UNCHANGED <<latest, bucket, made, pkg, own, saved, crashes, faults>>

\* It is still running after SIGKILL: the sweep waits.
LeftoverStays(d) ==
    /\ Is(d, "stop")
    /\ task[d].rev.claim.run \in agents
    /\ faults < MaxFaults
    /\ faults' = faults + 1
    /\ Rests(d)
    /\ UNCHANGED <<latest, bucket, made, pkg, own, saved, recorded, agents, crashes>>

\* Mutant: every claim found after a restart is called interrupted.
SweepClaim_Forgets(i) == [status |-> "interrupted", run |-> i]

\* What a sweep publishes: the outcome the run saved, or an interruption.
SweepClaim(i) ==
    [status |-> IF saved[i] = "none" THEN "interrupted" ELSE saved[i], run |-> i]

\* Only the metadata changes: an uncertified publish can be undone.
OnlyMetadata(e, o) == o \in {"not_started", "unrunnable"} /\ ~e.dirty /\ e.chain = 0

Sweep(d) ==
    LET e == pkg[d]
        i == e.cur.claim.run
        lost == e.cur # latest /\ ~IsHeldIn(i, latest)
    IN  /\ Is(d, "walk")
        /\ Interrupted(d, task[d].rev)
        /\ e.cur = task[d].rev /\ e.base = latest
        /\ \/ /\ lost /\ ~e.dirty /\ e.chain < 2
              /\ Entries(d, At(latest, FALSE))
              /\ made' = made
              /\ Rests(d)
           \/ /\ ~lost /\ ~e.dirty /\ e.chain > 0
              /\ UNCHANGED <<pkg, made>>
              /\ Publishes(d, NoRun, e.cur, "sweep", FALSE)
           \/ /\ ~lost /\ (e.dirty \/ e.chain = 0)
              /\ pkg' = pkg
              /\ made' = made + 1
              /\ Publishes(d, NoRun, New(SweepClaim(i)), "sweep",
                           OnlyMetadata(e, SweepClaim(i).status))
        /\ UNCHANGED <<latest, bucket, own, saved, recorded, agents, crashes, faults>>

\* An unclaimed task, on a clean tree at latest with nothing pending.
Claimable(d) ==
    /\ Is(d, "walk")
    /\ ~Interrupted(d, task[d].rev)
    /\ pkg[d] = At(task[d].rev, FALSE)
    /\ pkg[d].base = latest
    /\ made < MaxRevisions

\* Mutant: the invocation is not remembered before the publish.
Claim_Unremembered(d, i) ==
    /\ Claimable(d)
    /\ \A e \in Desktops : i \notin own[e] /\ task[e].run # i
    /\ made' = made + 1
    /\ Publishes(d, i, New([status |-> "claimed", run |-> i]), "claim", TRUE)
    /\ UNCHANGED <<latest, bucket, pkg, own, saved, recorded, agents, crashes, faults>>

\* The hold and the invocation come before the publish.
Claim(d, i) ==
    /\ Claimable(d)
    /\ \A e \in Desktops : i \notin own[e]
    /\ own' = [own EXCEPT ![d] = @ \cup {i}]
    /\ made' = made + 1
    /\ Publishes(d, i, New([status |-> "claimed", run |-> i]), "claim", TRUE)
    /\ UNCHANGED <<latest, bucket, pkg, saved, recorded, agents, crashes, faults>>

\* A task whose document or agent is missing.
Refuse(d) ==
    /\ Claimable(d)
    /\ made' = made + 1
    /\ Publishes(d, NoRun, New([status |-> "unrunnable", run |-> NoRun]), "refuse", TRUE)
    /\ UNCHANGED <<latest, bucket, pkg, own, saved, recorded, agents, crashes, faults>>

\* The head moved, the tree is not clean, or it is not at latest.
LeaveAlone(d) ==
    /\ Is(d, "walk")
    /\ \/ pkg[d].cur # task[d].rev
       \/ pkg[d].base # latest
       \/ ~Interrupted(d, task[d].rev)
       \/ /\ pkg[d].cur # latest /\ ~IsHeldIn(pkg[d].cur.claim.run, latest)
          /\ pkg[d].dirty \/ pkg[d].chain > 1
    /\ Rests(d)
    /\ UNCHANGED <<latest, bucket, made, pkg, own, saved, recorded, agents, crashes, faults>>

-----------------------------------------------------------------------------
(* A publish: commit and upload, tag, save the entry *)

\* The tag is read, and decides whether this push may move it.
Resolve(d) ==
    /\ Is(d, "resolve")
    /\ bucket' = bucket \cup {task[d].rev}
    /\ task' = [task EXCEPT ![d].at = "tag", ![d].certify = latest = pkg[d].base]
    /\ UNCHANGED <<latest, made, pkg, own, saved, recorded, agents, crashes, faults>>

Tag(d) ==
    /\ Is(d, "tag")
    /\ latest' = IF task[d].certify THEN task[d].rev ELSE latest
    /\ Goes(d, "land")
    /\ UNCHANGED <<bucket, made, pkg, own, saved, recorded, agents, crashes, faults>>

Ends(d) == task' = [task EXCEPT ![d] = [Idle EXCEPT !.at = "ended", !.run = task[d].run]]

\* A pushed claim starts the run; the run's own publish ends it.
AfterPublish(d) ==
    LET t == task[d]
    IN  IF t.undoable /\ ~t.certify THEN [t EXCEPT !.at = "undo"]
        ELSE CASE t.why = "claim" /\ t.certify ->
                      [Idle EXCEPT !.at = "spawn", !.run = t.run, !.rev = t.rev, !.why = "outcome"]
               [] t.why = "outcome" -> [Idle EXCEPT !.at = "ended", !.run = t.run]
               [] t.why = "auto" -> [Idle EXCEPT !.at = "look"]
               [] OTHER -> Idle

Land(d) ==
    LET t == task[d]
    IN  /\ Is(d, "land")
        /\ Entries(d, [base |-> IF t.certify THEN t.rev ELSE pkg[d].base,
                       cur |-> t.rev, chain |-> 0, dirty |-> t.touched])
        /\ task' = [task EXCEPT ![d] = AfterPublish(d)]
        /\ UNCHANGED <<latest, bucket, made, own, saved, recorded, agents, crashes, faults>>

\* An uncertified metadata-only publish goes back to latest, if that loses
\* nothing.
ResetIfClean(d) ==
    /\ Is(d, "undo")
    /\ pkg' = IF pkg[d].dirty \/ pkg[d].chain > 0 THEN pkg
              ELSE [pkg EXCEPT ![d] = At(latest, FALSE)]
    /\ IF task[d].why = "outcome" THEN Ends(d) ELSE Rests(d)
    /\ UNCHANGED <<latest, bucket, made, own, saved, recorded, agents, crashes, faults>>

\* The upload, the tag or the save of the entry fails: the entry stays as it was.
PublishFails(d) ==
    /\ task[d].at \in {"resolve", "tag", "land"}
    /\ faults < MaxFaults
    /\ faults' = faults + 1
    /\ CASE task[d].why = "outcome" -> Ends(d)
         [] task[d].why = "auto"    -> task' = [task EXCEPT ![d] = [Idle EXCEPT !.at = "look"]]
         [] OTHER                   -> Rests(d)
    /\ UNCHANGED <<latest, bucket, made, pkg, own, saved, recorded, agents, crashes>>

-----------------------------------------------------------------------------
(* A run *)

\* The outcome is saved before anything is published.
RunEnds(d, o) ==
    /\ saved' = [saved EXCEPT ![task[d].run] = o]
    /\ agents' = agents \ {task[d].run}
    /\ task' = [task EXCEPT ![d] = [Idle EXCEPT !.at = "close", !.run = task[d].run]]

\* Mutant: the agent's process is not recorded.
SpawnAgent_Unrecorded(d) ==
    /\ Is(d, "spawn")
    /\ Goes(d, "recheck")
    /\ UNCHANGED <<latest, bucket, made, pkg, own, saved, recorded, agents, crashes, faults>>

SpawnAgent(d) ==
    /\ Is(d, "spawn")
    /\ recorded' = recorded \cup {task[d].run}
    /\ Goes(d, "recheck")
    /\ UNCHANGED <<latest, bucket, made, pkg, own, saved, agents, crashes, faults>>

\* The agent does not start, or its session does not open.
SpawnFails(d) ==
    /\ task[d].at \in {"spawn", "recheck"}
    /\ RunEnds(d, "not_started")
    /\ UNCHANGED <<latest, bucket, made, pkg, own, recorded, crashes, faults>>

\* latest is read again before the prompt.
Recheck(d) ==
    LET i == task[d].run
    IN  /\ Is(d, "recheck")
        /\ Goes(d, IF latest = task[d].rev THEN "prompt"
                   ELSE IF IsHeldIn(i, latest) THEN "repull" ELSE "undo")
        /\ UNCHANGED <<latest, bucket, made, pkg, own, saved, recorded, agents, crashes, faults>>

\* A later revision under the same claim is pulled and its task read again.
Repull(d) ==
    LET i == task[d].run
    IN  /\ Is(d, "repull")
        /\ pkg[d].chain = 0 /\ pkg[d].base = pkg[d].cur
        /\ Entries(d, At(latest, pkg[d].dirty))
        /\ Goes(d, IF IsHeldIn(i, latest) THEN "prompt" ELSE "undo")
        /\ UNCHANGED <<latest, bucket, made, own, saved, recorded, agents, crashes, faults>>

\* The pull fails, or the task changed under the claim.
RepullFails(d) ==
    /\ task[d].at \in {"repull", "prompt"}
    /\ \E o \in {"not_started", "unrunnable"} : RunEnds(d, o)
    /\ UNCHANGED <<latest, bucket, made, pkg, own, recorded, crashes, faults>>

Prompt(d) ==
    /\ Is(d, "prompt")
    /\ agents' = agents \cup {task[d].run}
    /\ Goes(d, "turn")
    /\ UNCHANGED <<latest, bucket, made, pkg, own, saved, recorded, crashes, faults>>

\* The turn ends, fails, or is refused for want of a sign-in; the agent is killed.
TurnEnds(d) ==
    /\ Is(d, "turn")
    /\ \E o \in {"done", "failed", "not_started"} : RunEnds(d, o)
    /\ UNCHANGED <<latest, bucket, made, pkg, own, recorded, crashes, faults>>

\* The outcome goes on the head if that still holds the claim; a commit by
\* hand on a clean tree is pushed in its place.
FinishRun(d) ==
    LET e == pkg[d]
        i == task[d].run
        pushed == ~e.dirty /\ e.chain > 0
    IN  /\ Is(d, "close")
        /\ IF ~IsHeldIn(i, e.cur) THEN Ends(d) /\ made' = made
           ELSE /\ made' = IF pushed THEN made ELSE made + 1
                /\ Publishes(d, i,
                             IF pushed THEN e.cur ELSE New([status |-> saved[i], run |-> i]),
                             "outcome", OnlyMetadata(e, saved[i]))
        /\ UNCHANGED <<latest, bucket, pkg, own, saved, recorded, agents, crashes, faults>>

\* The record of the agent goes, and the hold with the run.
RunOver(d) ==
    /\ Is(d, "ended")
    /\ recorded' = recorded \ {task[d].run}
    /\ Rests(d)
    /\ UNCHANGED <<latest, bucket, made, pkg, own, saved, agents, crashes, faults>>

-----------------------------------------------------------------------------
(* The engine dies, and is started again *)

Crash(d) ==
    /\ ~Is(d, "down")
    /\ crashes < MaxCrashes
    /\ crashes' = crashes + 1
    /\ agents' \in {agents, agents \ {task[d].run}}
    /\ task' = [task EXCEPT ![d] = [Idle EXCEPT !.at = "down"]]
    /\ UNCHANGED <<latest, bucket, made, pkg, own, saved, recorded, faults>>

Start(d) ==
    /\ Is(d, "down")
    /\ Rests(d)
    /\ UNCHANGED <<latest, bucket, made, pkg, own, saved, recorded, agents, crashes, faults>>

-----------------------------------------------------------------------------
Engine(d) ==
    \/ Pass(d) \/ AutoPull(d) \/ AutoPublish(d) \/ AutoNothing(d)
    \/ ReadHead(d) \/ StopLeftover(d) \/ LeftoverStays(d) \/ Sweep(d)
    \/ \E i \in Runs : Claim(d, i)
    \/ Refuse(d) \/ LeaveAlone(d)
    \/ Resolve(d) \/ Tag(d) \/ Land(d) \/ ResetIfClean(d) \/ PublishFails(d)
    \/ SpawnAgent(d) \/ SpawnFails(d) \/ Recheck(d) \/ Repull(d) \/ RepullFails(d)
    \/ Prompt(d) \/ TurnEnds(d) \/ FinishRun(d) \/ RunOver(d)
    \/ Start(d)

Environment ==
    \/ \E d \in Desktops :
         \/ Edit(d) \/ UserPull(d) \/ UserReset(d) \/ Crash(d)
         \/ \E c \in Claims : UserCommit(d, c)
         \/ \E i \in Runs : AgentWrites(i, d)
    \/ \E i \in Runs : OrphanEnds(i)
    \/ \E c \in Claims : OthersPush(c)

Next == Environment \/ \E d \in Desktops : Engine(d)

\* The engine ticks and is started again; an agent's turn ends.
Fairness == \A d \in Desktops : WF_vars(Engine(d))

Spec == Init /\ [][Next]_vars /\ Fairness

-----------------------------------------------------------------------------
(* Properties *)

TypeOK ==
    /\ latest \in Revision
    /\ bucket \in SUBSET Revision
    /\ made \in Nat
    /\ pkg \in [Desktops -> Entry]
    /\ own \in [Desktops -> SUBSET Runs]
    /\ saved \in [Runs -> Outcomes \cup {"none"}]
    /\ recorded \in SUBSET Runs
    /\ agents \in SUBSET Runs
    /\ task \in [Desktops -> Task]
    /\ crashes \in Nat /\ faults \in Nat

\* A package is held by the run of its desktop's own claim, and by no other
\* part of the engine.
HoldOK(d, t) ==
    /\ IF \/ t.at \in {"down", "idle", "pass", "look", "stop", "walk"}
          \/ t.at \in PublishSteps /\ t.why \in {"auto", "refuse", "sweep"}
       THEN t.run = NoRun
       ELSE t.run \in own[d]
    /\ t.at \in RunSteps => t.why = "outcome"

\* The agent of a live run works only during its turn, and is on record before;
\* one left by a run that died is stopped when the sweep walks.
AgentOK(d, t) ==
    /\ t.run \in agents => t.at = "turn"
    /\ t.at \in RunSteps \ {"spawn"} => t.run \in recorded
    /\ t.at = "stop" => Interrupted(d, t.rev)
    /\ t.at = "walk" /\ Interrupted(d, t.rev) => t.rev.claim.run \notin agents

\* An outcome is saved when its run ends, and not before.
SavedOK(t) ==
    /\ t.at \in RunSteps \/ (t.at \in PublishSteps /\ t.why = "claim")
         => saved[t.run] = "none"
    /\ t.at = "close" => saved[t.run] # "none"

Closed(r) == r.claim.status \in Closing /\ r.claim.run \in Runs

\* A closing revision says what its run saved; without that its run is over.
Justified(r) ==
    Closed(r) =>
        /\ \E d \in Desktops : r.claim.run \in own[d]
        /\ r.claim.run \notin agents
        /\ \/ r.claim.status = saved[r.claim.run]
           \/ /\ r.claim.status = "interrupted" /\ saved[r.claim.run] = "none"
              /\ \A d \in Desktops : task[d].run # r.claim.run

OwnInv ==
    /\ \A d, e \in Desktops : d # e => own[d] \cap own[e] = {}
    /\ \A i \in Runs : i \in agents \/ saved[i] # "none"
                          => \E d \in Desktops : i \in own[d]

\* The engine's bookkeeping, and what the revisions in the bucket and on the
\* desktops say of each run.
IInv ==
    /\ TypeOK
    /\ OwnInv
    /\ agents \subseteq recorded
    /\ \A d \in Desktops :
         /\ HoldOK(d, task[d]) /\ AgentOK(d, task[d]) /\ SavedOK(task[d])
         /\ Justified(pkg[d].base) /\ Justified(pkg[d].cur) /\ Justified(task[d].rev)
    /\ \A r \in bucket \cup {latest} : Justified(r)

\* Whatever revisions close one claim, they close it with one outcome: a sweep
\* after a restart never says a run was interrupted that another revision says
\* ended, and never twice differently.
OneOutcome ==
    \A r, s \in bucket : Closed(r) /\ Closed(s) /\ r.claim.run = s.claim.run
                            => r.claim = s.claim

Published == [i \in Runs |->
    {r.claim.status : r \in {q \in bucket : Closed(q) /\ q.claim.run = i}}]

Tr == INSTANCE TaskRuns WITH Outcomes <- Closing, closed <- Published, working <- agents

\* REFINEMENT.  To whoever reads the bucket a run is closed once and for good: no
\* sweep, retry or push made while another was tagged publishes a second outcome or
\* takes one back, and no agent is prompted, or still there, for a run that is
\* closed (tasks.rs `sweep`, `finish`, `stop_leftover_agent`).
ImplementsRuns == Tr!Spec

\* No revision closes a claim while its own agent may still write.
ClosedAfterAgent == \A r \in bucket : Closed(r) => r.claim.run \notin agents

\* Nothing the engine may do alone closes the claim: the entry is diverged, its
\* pull may be blocked, or the user committed over the claim.
NeedsUser(d, i) ==
    IF pkg[d].base = latest THEN ~IsHeldIn(i, pkg[d].cur)
    ELSE pkg[d].dirty \/ pkg[d].cur # pkg[d].base

\* A claim that is latest is closed, by its run or by a sweep, unless the
\* package of the desktop that knows the claim as its own waits for its user.
ClaimsAreClosed ==
    \A i \in Runs :
        IsHeldIn(i, latest)
            ~> \/ ~IsHeldIn(i, latest)
               \/ \E d \in Desktops : i \in own[d] /\ NeedsUser(d, i)

=============================================================================
