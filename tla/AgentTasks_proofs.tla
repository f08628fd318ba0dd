------------------------- MODULE AgentTasks_proofs -------------------------
(***************************************************************************)
(* Proofs about AgentTasks for any desktops, runs and bounds.  IInv of     *)
(* AgentTasks is inductive; that closing revisions agree, that the agent   *)
(* is gone by then, and that TaskRuns is implemented follow from it.       *)
(***************************************************************************)
EXTENDS AgentTasks, TLAPS

USE DEF PublishSteps, RunSteps

-----------------------------------------------------------------------------
(* Revisions, entries and tasks *)

LEMMA RevisionTypes ==
    /\ NoRevision \in Revision
    /\ Idle \in Task
    /\ \A c \in Claims : made \in Nat => New(c) \in Revision
    /\ \A r \in Revision, b \in BOOLEAN : At(r, b) \in Entry
  BY DEF NoRevision, Idle, Task, Labels, Whys, New, At, Entry, Revision, Claims

LEMMA ClaimTypes ==
    /\ \A i \in Runs : [status |-> "claimed", run |-> i] \in Claims
    /\ \A i \in Runs, o \in Closing : [status |-> o, run |-> i] \in Claims
    /\ \A s \in {"none", "unclaimed", "unrunnable"} : [status |-> s, run |-> NoRun] \in Claims
  BY DEF Claims

\* A claim that does not close one is never in question.
LEMMA OpenIsJustified ==
    ASSUME NEW r, r.claim.status \in {"none", "unclaimed", "claimed"} \/ r.claim.run = NoRun
    PROVE  Justified(r)
  BY NoRunAssumption DEF Justified, Closed, Closing, Outcomes

LEMMA SameClaimJustified ==
    ASSUME NEW r, NEW s, r.claim = s.claim, Justified(s)
    PROVE  Justified(r)
  BY DEF Justified, Closed

LEMMA DirtyEntry ==
    ASSUME NEW e \in Entry
    PROVE  /\ [e EXCEPT !.dirty = TRUE] \in Entry
           /\ [e EXCEPT !.dirty = TRUE].base = e.base
           /\ [e EXCEPT !.dirty = TRUE].cur = e.cur
  BY DEF Entry

LEMMA CommittedEntry ==
    ASSUME NEW e \in Entry, NEW r \in Revision
    PROVE  LET f == [e EXCEPT !.cur = r, !.chain = @ + 1, !.dirty = FALSE]
           IN  f \in Entry /\ f.base = e.base /\ f.cur = r
<1>1. e.chain \in Nat /\ e.chain + 1 \in Nat  BY DEF Entry
<1> QED  BY <1>1 DEF Entry

LEMMA TaskTouched ==
    ASSUME NEW t \in Task, NEW b \in BOOLEAN
    PROVE  LET u == [t EXCEPT !.touched = b]
           IN  /\ u \in Task /\ u.at = t.at /\ u.run = t.run
               /\ u.rev = t.rev /\ u.why = t.why
  BY DEF Task

LEMMA TaskAt ==
    ASSUME NEW t \in Task, NEW l \in Labels
    PROVE  LET u == [t EXCEPT !.at = l]
           IN  /\ u \in Task /\ u.at = l /\ u.run = t.run
               /\ u.rev = t.rev /\ u.why = t.why
  BY DEF Task

-----------------------------------------------------------------------------
(* The shapes of a step *)

\* A step that leaves the runs and their agents alone.
LEMMA QuietStep ==
    ASSUME IInv, NEW d \in Desktops, NEW t \in Task, NEW e \in Entry,
           task' = [task EXCEPT ![d] = t], pkg' = [pkg EXCEPT ![d] = e],
           UNCHANGED <<own, saved, recorded, agents>>,
           made' \in Nat, crashes' \in Nat, faults' \in Nat,
           latest' \in Revision, bucket' \in SUBSET Revision,
           t.run \in {NoRun, task[d].run},
           HoldOK(d, t), AgentOK(d, t), SavedOK(t),
           Justified(t.rev), Justified(e.base), Justified(e.cur), Justified(latest'),
           \A r \in bucket' : r \in bucket \/ Justified(r)
    PROVE  IInv'
<1>1. TypeOK'  BY DEF IInv, TypeOK
<1>2. \A x \in Desktops : /\ task'[x] = IF x = d THEN t ELSE task[x]
                          /\ pkg'[x] = IF x = d THEN e ELSE pkg[x]
  BY DEF IInv, TypeOK
<1>3. OwnInv' /\ (agents \subseteq recorded)'  BY DEF IInv, OwnInv
<1>4. ASSUME NEW r, Justified(r) PROVE Justified(r)'
  <2> SUFFICES ASSUME Closed(r) PROVE Justified(r)'
    BY DEF Justified, Closed
  <2>1. r.claim.run # NoRun  BY NoRunAssumption DEF Closed
  <2>2. ASSUME NEW x \in Desktops, task[x].run # r.claim.run PROVE task'[x].run # r.claim.run
    BY <1>2, <2>1, <2>2
  <2> QED  BY <1>4, <2>2 DEF Justified, Closed
<1>5. ASSUME NEW x \in Desktops
      PROVE  /\ HoldOK(x, task[x])' /\ AgentOK(x, task[x])' /\ SavedOK(task[x])'
             /\ Justified(pkg[x].base)' /\ Justified(pkg[x].cur)' /\ Justified(task[x].rev)'
  <2>1. /\ HoldOK(x, task[x]) /\ AgentOK(x, task[x]) /\ SavedOK(task[x])
        /\ Justified(pkg[x].base) /\ Justified(pkg[x].cur) /\ Justified(task[x].rev)
    BY DEF IInv
  <2>2. HoldOK(x, task[x])' /\ AgentOK(x, task[x])' /\ SavedOK(task[x])'
    BY <1>2, <2>1 DEF HoldOK, AgentOK, SavedOK, Interrupted
  <2>3. CASE x = d
    BY <1>2, <1>4, <2>2, <2>3
  <2>4. CASE x # d
    BY <1>2, <1>4, <2>1, <2>2, <2>4
  <2> QED  BY <2>3, <2>4
<1>6. \A r \in (bucket \cup {latest})' : Justified(r)'
  <2>1. \A r \in bucket : Justified(r)  BY DEF IInv
  <2> QED  BY <1>4, <2>1
<1> QED  BY <1>1, <1>3, <1>5, <1>6 DEF IInv

\* A step of a desktop's run, its agent or what it remembers: no revision moves.
LEMMA RunStep ==
    ASSUME IInv, NEW d \in Desktops, NEW t \in Task,
           task' = [task EXCEPT ![d] = t],
           UNCHANGED <<latest, bucket, pkg>>, made' \in Nat, crashes' \in Nat, faults' \in Nat,
           own' \in [Desktops -> SUBSET Runs],
           saved' \in [Runs -> Outcomes \cup {"none"}],
           recorded' \in SUBSET Runs, agents' \in SUBSET Runs,
           OwnInv', agents' \subseteq recorded',
           HoldOK(d, t)', AgentOK(d, t)', SavedOK(t)', Justified(t.rev)',
           \A x \in Desktops : x # d => /\ HoldOK(x, task[x])' /\ AgentOK(x, task[x])'
                                        /\ SavedOK(task[x])',
           \A r \in Revision : Justified(r) => Justified(r)'
    PROVE  IInv'
<1>1. TypeOK'  BY DEF IInv, TypeOK
<1>2. \A x \in Desktops : task'[x] = IF x = d THEN t ELSE task[x]
  BY DEF IInv, TypeOK
<1>3. ASSUME NEW x \in Desktops
      PROVE  /\ HoldOK(x, task[x])' /\ AgentOK(x, task[x])' /\ SavedOK(task[x])'
             /\ Justified(pkg[x].base)' /\ Justified(pkg[x].cur)' /\ Justified(task[x].rev)'
  <2>1. /\ pkg[x].base \in Revision /\ pkg[x].cur \in Revision /\ task[x].rev \in Revision
        /\ Justified(pkg[x].base) /\ Justified(pkg[x].cur) /\ Justified(task[x].rev)
    BY DEF IInv, TypeOK, Entry, Task
  <2>2. Justified(pkg[x].base)' /\ Justified(pkg[x].cur)'
    BY <2>1
  <2>3. CASE x = d
    BY <1>2, <2>2, <2>3 DEF HoldOK, AgentOK, SavedOK
  <2>4. CASE x # d
    <3>1. task'[x] = task[x]  BY <1>2, <2>4
    <3>2. Justified(task[x].rev)'  BY <2>1, <3>1
    <3> QED  BY <2>2, <2>4, <3>2
  <2> QED  BY <2>3, <2>4
<1>4. \A r \in (bucket \cup {latest})' : Justified(r)'
  <2>1. \A r \in bucket \cup {latest} : r \in Revision /\ Justified(r)  BY DEF IInv, TypeOK
  <2> QED  BY <2>1
<1> QED  BY <1>1, <1>3, <1>4 DEF IInv

\* A step that leaves runs alone keeps what closing revisions say, and so does
\* one that only loses agents.
LEMMA FewerAgents ==
    ASSUME IInv, NEW r, Justified(r), agents' \subseteq agents, UNCHANGED <<own, saved>>,
           \A x \in Desktops : task'[x].run \in {NoRun, task[x].run}
    PROVE  Justified(r)'
<1> SUFFICES ASSUME Closed(r) PROVE Justified(r)'
  BY DEF Justified, Closed
<1>1. \A x \in Desktops : task[x].run # r.claim.run => task'[x].run # r.claim.run
  BY NoRunAssumption DEF Closed
<1> QED  BY <1>1 DEF Justified, Closed

-----------------------------------------------------------------------------
(* The steps of the user, of others and of the agents *)

LEMMA DirtiedIInv ==
    ASSUME IInv, NEW d \in Desktops, Dirtied(d)
    PROVE  IInv'
<1> DEFINE t == [task[d] EXCEPT !.touched = task[d].at \in {"resolve", "tag", "land"}]
<1> DEFINE e == [pkg[d] EXCEPT !.dirty = TRUE]
<1>1. task[d] \in Task /\ pkg[d] \in Entry  BY DEF IInv, TypeOK
<1>a. (task[d].at \in {"resolve", "tag", "land"}) \in BOOLEAN  OBVIOUS
<1>2. t \in Task /\ e \in Entry  BY <1>a, <1>1, TaskTouched, DirtyEntry
<1>3. task' = [task EXCEPT ![d] = t] /\ pkg' = [pkg EXCEPT ![d] = e]
  BY DEF Dirtied, IInv, TypeOK
<1>4. /\ t.at = task[d].at /\ t.run = task[d].run /\ t.rev = task[d].rev /\ t.why = task[d].why
  BY <1>a, <1>1, TaskTouched
<1>b. e.base = pkg[d].base /\ e.cur = pkg[d].cur
  BY <1>1, DirtyEntry
<1>5. /\ UNCHANGED <<latest, bucket, made, own, saved, recorded, agents, crashes, faults>>
      /\ made \in Nat /\ crashes \in Nat /\ faults \in Nat /\ latest \in Revision
      /\ bucket \in SUBSET Revision
  BY DEF Dirtied, IInv, TypeOK
<1>6. /\ HoldOK(d, t) /\ AgentOK(d, t) /\ SavedOK(t)
      /\ Justified(t.rev) /\ Justified(e.base) /\ Justified(e.cur) /\ Justified(latest)
  BY <1>4, <1>b DEF IInv, HoldOK, AgentOK, SavedOK
<1> HIDE DEF t, e
<1> QED  BY <1>2, <1>3, <1>4, <1>5, <1>6, QuietStep

\* A step that gives a desktop another entry and nothing else.
LEMMA EntryStep ==
    ASSUME IInv, NEW d \in Desktops, NEW e \in Entry, Entries(d, e),
           UNCHANGED <<latest, bucket, own, saved, recorded, agents, task, crashes, faults>>,
           made' \in Nat, Justified(e.base), Justified(e.cur)
    PROVE  IInv'
<1>1. task[d] \in Task /\ task' = [task EXCEPT ![d] = task[d]]  BY DEF IInv, TypeOK
<1>2. /\ crashes \in Nat /\ faults \in Nat /\ latest \in Revision /\ bucket \in SUBSET Revision
  BY DEF IInv, TypeOK
<1>3. /\ HoldOK(d, task[d]) /\ AgentOK(d, task[d]) /\ SavedOK(task[d])
      /\ Justified(task[d].rev) /\ Justified(latest)
  BY DEF IInv
<1> QED  BY <1>1, <1>2, <1>3, QuietStep DEF Entries

LEMMA LatestEntry ==
    ASSUME IInv, NEW b \in BOOLEAN
    PROVE  /\ At(latest, b) \in Entry
           /\ At(latest, b).base = latest /\ At(latest, b).cur = latest
           /\ Justified(latest)
  BY RevisionTypes DEF IInv, TypeOK, At

LEMMA UserIInv ==
    ASSUME IInv, NEW d \in Desktops,
           (\E c \in Claims : UserCommit(d, c)) \/ UserPull(d) \/ UserReset(d)
    PROVE  IInv'
<1>1. pkg[d] \in Entry /\ made \in Nat  BY DEF IInv, TypeOK
<1>2. ASSUME NEW c \in Claims, UserCommit(d, c) PROVE IInv'
  <2> DEFINE e == [pkg[d] EXCEPT !.cur = New(c), !.chain = @ + 1, !.dirty = FALSE]
  <2>1. New(c) \in Revision /\ New(c).claim = c  BY <1>1, RevisionTypes DEF New
  <2>2. e \in Entry /\ e.base = pkg[d].base /\ e.cur = New(c)
    BY <1>1, <2>1, CommittedEntry
  <2>3. Justified(New(c))
    <3>1. CASE c = pkg[d].cur.claim
      BY <2>1, <3>1, SameClaimJustified DEF IInv
    <3>2. CASE c = [status |-> "none", run |-> NoRun]
      BY <2>1, <3>2, OpenIsJustified
    <3> QED  BY <1>2, <3>1, <3>2 DEF UserCommit
  <2>4. Justified(pkg[d].base)  BY DEF IInv
  <2>5. Entries(d, e)  BY <1>2 DEF UserCommit
  <2> HIDE DEF e
  <2>6. UNCHANGED <<latest, bucket, own, saved, recorded, agents, task, crashes, faults>>
    BY <1>2 DEF UserCommit
  <2>7. made' = made + 1  BY <1>2 DEF UserCommit
  <2> QED  BY <1>1, <2>2, <2>3, <2>4, <2>5, <2>6, <2>7, EntryStep
<1>3. ASSUME UserPull(d) PROVE IInv'
  <2>1. pkg[d].dirty \in BOOLEAN  BY <1>1 DEF Entry
  <2> QED  BY <1>1, <1>3, <2>1, LatestEntry, EntryStep DEF UserPull
<1>4. ASSUME UserReset(d) PROVE IInv'
  BY <1>1, <1>4, LatestEntry, EntryStep DEF UserReset
<1> QED  BY <1>2, <1>3, <1>4

LEMMA OthersPushIInv ==
    ASSUME IInv, NEW c \in Claims, OthersPush(c)
    PROVE  IInv'
<1>1. New(c) \in Revision /\ New(c).claim = c
  BY RevisionTypes DEF IInv, TypeOK, New
<1>2. Justified(New(c))
  <2>1. CASE c = latest.claim  BY <1>1, <2>1, SameClaimJustified DEF IInv
  <2>2. CASE c.status \in {"none", "unclaimed"}  BY <1>1, <2>2, OpenIsJustified
  <2> QED  BY <2>1, <2>2 DEF OthersPush
<1>3. UNCHANGED <<pkg, own, saved, recorded, agents, task, crashes, faults>>
  BY DEF OthersPush
<1>4. latest' = New(c) /\ bucket' = bucket \cup {New(c)} /\ made' = made + 1
  BY DEF OthersPush
<1>5. TypeOK'  BY <1>1, <1>3, <1>4 DEF IInv, TypeOK
<1>6. OwnInv' /\ (agents \subseteq recorded)'  BY <1>3 DEF IInv, OwnInv
<1>7. ASSUME NEW r, Justified(r) PROVE Justified(r)'
  BY <1>3, <1>7 DEF Justified, Closed
<1>8. \A x \in Desktops :
        /\ HoldOK(x, task[x])' /\ AgentOK(x, task[x])' /\ SavedOK(task[x])'
        /\ Justified(pkg[x].base)' /\ Justified(pkg[x].cur)' /\ Justified(task[x].rev)'
  <2>1. \A x \in Desktops :
        /\ HoldOK(x, task[x])' /\ AgentOK(x, task[x])' /\ SavedOK(task[x])'
    BY <1>3 DEF IInv, HoldOK, AgentOK, SavedOK, Interrupted
  <2>2. \A x \in Desktops :
        /\ Justified(pkg[x].base)' /\ Justified(pkg[x].cur)' /\ Justified(task[x].rev)'
    BY <1>3, <1>7 DEF IInv
  <2> QED  BY <2>1, <2>2
<1>9. \A r \in (bucket \cup {latest})' : Justified(r)'
  BY <1>2, <1>4, <1>7 DEF IInv
<1> QED  BY <1>5, <1>6, <1>8, <1>9 DEF IInv

LEMMA OrphanEndsIInv ==
    ASSUME IInv, NEW i \in Runs, OrphanEnds(i)
    PROVE  IInv'
<1>1. /\ agents' = agents \ {i}
      /\ UNCHANGED <<latest, bucket, made, pkg, own, saved, recorded, task, crashes, faults>>
  BY DEF OrphanEnds
<1>2. TypeOK'  BY <1>1 DEF IInv, TypeOK
<1>3. OwnInv' /\ (agents \subseteq recorded)'  BY <1>1 DEF IInv, OwnInv
<1>4. ASSUME NEW r, Justified(r) PROVE Justified(r)'
  BY <1>1, <1>4, FewerAgents
<1>5. \A x \in Desktops :
        /\ HoldOK(x, task[x])' /\ AgentOK(x, task[x])' /\ SavedOK(task[x])'
  BY <1>1 DEF IInv, HoldOK, AgentOK, SavedOK, Interrupted
<1>6. \A x \in Desktops :
        /\ Justified(pkg[x].base)' /\ Justified(pkg[x].cur)' /\ Justified(task[x].rev)'
  BY <1>1, <1>4 DEF IInv
<1>7. \A r \in (bucket \cup {latest})' : Justified(r)'
  BY <1>1, <1>4 DEF IInv
<1> QED  BY <1>2, <1>3, <1>5, <1>6, <1>7 DEF IInv

-----------------------------------------------------------------------------
(* The engine's steps that leave the runs alone *)

LEMMA DesktopFacts ==
    ASSUME IInv, NEW d \in Desktops
    PROVE  /\ task[d] \in Task /\ pkg[d] \in Entry
           /\ task[d].rev \in Revision /\ pkg[d].base \in Revision /\ pkg[d].cur \in Revision
           /\ task[d].run \in Runs \cup {NoRun}
           /\ HoldOK(d, task[d]) /\ AgentOK(d, task[d]) /\ SavedOK(task[d])
           /\ Justified(pkg[d].base) /\ Justified(pkg[d].cur) /\ Justified(task[d].rev)
           /\ Justified(latest) /\ latest \in Revision /\ bucket \in SUBSET Revision
           /\ made \in Nat /\ crashes \in Nat /\ faults \in Nat
           /\ pkg = [pkg EXCEPT ![d] = pkg[d]]
           /\ NoRun \notin agents
  BY NoRunAssumption DEF IInv, TypeOK, Task, Entry

\* Only the engine's place moves, its entry and made may.
LEMMA PlaceStep ==
    ASSUME IInv, NEW d \in Desktops, NEW t \in Task, task' = [task EXCEPT ![d] = t],
           UNCHANGED <<latest, bucket, pkg, own, saved, recorded, agents>>,
           made' \in Nat, crashes' \in Nat, faults' \in Nat,
           t.run \in {NoRun, task[d].run},
           HoldOK(d, t), AgentOK(d, t), SavedOK(t), Justified(t.rev)
    PROVE  IInv'
<1>1. pkg' = [pkg EXCEPT ![d] = pkg[d]]  BY DesktopFacts
<1>2. /\ pkg[d] \in Entry /\ Justified(pkg[d].base) /\ Justified(pkg[d].cur)
      /\ Justified(latest) /\ latest \in Revision /\ bucket \in SUBSET Revision
  BY DesktopFacts
<1> QED  BY <1>1, <1>2, QuietStep

LEMMA IdleTask ==
    ASSUME IInv, NEW d \in Desktops
    PROVE  /\ Idle \in Task /\ Idle.run = NoRun
           /\ HoldOK(d, Idle) /\ AgentOK(d, Idle) /\ SavedOK(Idle) /\ Justified(Idle.rev)
<1>1. Idle \in Task  BY RevisionTypes
<1>2. Idle.at = "idle" /\ Idle.run = NoRun /\ Idle.why = "none" /\ Idle.rev = NoRevision
  BY DEF Idle
<1>3. Justified(NoRevision)  BY OpenIsJustified DEF NoRevision
<1> QED  BY <1>1, <1>2, <1>3, DesktopFacts DEF HoldOK, AgentOK, SavedOK

LEMMA RestsIInv ==
    ASSUME IInv, NEW d \in Desktops, Rests(d),
           UNCHANGED <<latest, bucket, pkg, own, saved, recorded, agents>>,
           made' \in Nat, crashes' \in Nat, faults' \in Nat
    PROVE  IInv'
  BY IdleTask, PlaceStep DEF Rests

\* The engine goes on to look at a package that no run holds.
LEMMA IdleAt ==
    ASSUME NEW l \in Labels
    PROVE  LET t == [Idle EXCEPT !.at = l]
           IN  /\ t \in Task /\ t.at = l /\ t.run = NoRun /\ t.why = "none" /\ t.rev = NoRevision
<1>1. Idle \in Task  BY RevisionTypes
<1>2. Idle.run = NoRun /\ Idle.why = "none" /\ Idle.rev = NoRevision  BY DEF Idle
<1> QED  BY <1>1, <1>2, TaskAt

LEMMA IdleAtTask ==
    ASSUME IInv, NEW d \in Desktops, NEW l \in {"down", "idle", "pass", "look"}
    PROVE  LET t == [Idle EXCEPT !.at = l]
           IN  /\ t \in Task /\ t.run = NoRun
               /\ HoldOK(d, t) /\ AgentOK(d, t) /\ SavedOK(t) /\ Justified(t.rev)
<1>1. l \in Labels  BY DEF Labels
<1>2. Justified(NoRevision)  BY OpenIsJustified DEF NoRevision
<1> DEFINE t == [Idle EXCEPT !.at = l]
<1>3. t \in Task /\ t.at = l /\ t.run = NoRun /\ t.why = "none" /\ t.rev = NoRevision
  BY <1>1, IdleAt
<1> HIDE DEF t
<1> QED  BY <1>2, <1>3, DesktopFacts DEF HoldOK, AgentOK, SavedOK, t

\* What a publish that starts is.
Publishing(i, r, why, undoable) ==
    [Idle EXCEPT !.at = "resolve", !.run = i, !.rev = r, !.why = why, !.undoable = undoable]

LEMMA PublishingTask ==
    ASSUME NEW i \in Runs \cup {NoRun}, NEW r \in Revision, NEW why \in Whys, NEW u \in BOOLEAN
    PROVE  LET t == Publishing(i, r, why, u)
           IN  /\ t \in Task /\ t.at = "resolve" /\ t.run = i /\ t.rev = r /\ t.why = why
  BY DEF Publishing, Idle, Task, Labels

LEMMA PublishStep ==
    ASSUME IInv, NEW d \in Desktops, NEW r \in Revision, NEW why \in Whys, NEW u \in BOOLEAN,
           NEW i \in Runs \cup {NoRun}, Publishes(d, i, r, why, u),
           UNCHANGED <<latest, bucket, pkg, own, saved, recorded, agents>>,
           made' \in Nat, crashes' \in Nat, faults' \in Nat,
           Justified(r),
           \/ i = NoRun /\ why \in {"auto", "refuse", "sweep"}
           \/ i = task[d].run /\ i \in own[d] /\ i \notin agents /\ why = "outcome"
    PROVE  IInv'
<1> DEFINE t == Publishing(i, r, why, u)
<1>1. task' = [task EXCEPT ![d] = t]  BY DEF Publishes, Publishing
<1>2. t \in Task /\ t.at = "resolve" /\ t.run = i /\ t.rev = r /\ t.why = why
  BY PublishingTask
<1> HIDE DEF t
<1>3. HoldOK(d, t) /\ AgentOK(d, t) /\ SavedOK(t)
  BY <1>2, DesktopFacts DEF HoldOK, AgentOK, SavedOK
<1> QED  BY <1>1, <1>2, <1>3, PlaceStep

\* The engine goes to another place with the package it has.
LEMMA GoesTask ==
    ASSUME IInv, NEW d \in Desktops, NEW l \in Labels, Goes(d, l)
    PROVE  \E t \in Task :
              /\ task' = [task EXCEPT ![d] = t]
              /\ t.at = l /\ t.run = task[d].run /\ t.rev = task[d].rev /\ t.why = task[d].why
              /\ Justified(t.rev)
<1> DEFINE t == [task[d] EXCEPT !.at = l]
<1>1. task[d] \in Task /\ Justified(task[d].rev)  BY DesktopFacts
<1>2. t \in Task /\ t.at = l /\ t.run = task[d].run /\ t.rev = task[d].rev /\ t.why = task[d].why
  BY <1>1, TaskAt
<1>3. task' = [task EXCEPT ![d] = t]  BY DEF Goes
<1> HIDE DEF t
<1> QED  BY <1>1, <1>2, <1>3

LEMMA PassIInv ==
    ASSUME IInv, NEW d \in Desktops, Pass(d) \/ AutoNothing(d)
    PROVE  IInv'
<1>1. UNCHANGED <<latest, bucket, made, pkg, own, saved, recorded, agents, crashes, faults>>
  BY DEF Pass, AutoNothing
<1>2. task[d].at \in {"idle", "pass"}  BY DEF Pass, AutoNothing, Is
<1>3. PICK l \in {"look", "pass"} : Goes(d, l)  BY DEF Pass, AutoNothing
<1>4. l \in Labels  BY DEF Labels
<1>5. PICK t \in Task : /\ task' = [task EXCEPT ![d] = t]
                        /\ t.at = l /\ t.run = task[d].run /\ t.why = task[d].why
                        /\ Justified(t.rev)
  BY <1>3, <1>4, GoesTask
<1>6. HoldOK(d, t) /\ AgentOK(d, t) /\ SavedOK(t)
  BY <1>2, <1>5, DesktopFacts DEF HoldOK, AgentOK, SavedOK
<1>7. made' \in Nat /\ crashes' \in Nat /\ faults' \in Nat  BY <1>1, DesktopFacts
<1> QED  BY <1>1, <1>5, <1>6, <1>7, PlaceStep

LEMMA AutoPullIInv ==
    ASSUME IInv, NEW d \in Desktops, AutoPull(d)
    PROVE  IInv'
<1>1. UNCHANGED <<latest, bucket, made, own, saved, recorded, agents, crashes, faults>>
  BY DEF AutoPull
<1>2. pkg[d].dirty \in BOOLEAN  BY DesktopFacts DEF Entry
<1>3. "look" \in Labels  BY DEF Labels
<1>4. PICK t \in Task : /\ task' = [task EXCEPT ![d] = t]
                        /\ t.at = "look" /\ t.run = task[d].run /\ t.why = task[d].why
                        /\ Justified(t.rev)
  BY <1>3, GoesTask DEF AutoPull
<1>5. HoldOK(d, t) /\ AgentOK(d, t) /\ SavedOK(t)
  BY <1>4, DesktopFacts DEF AutoPull, Is, HoldOK, AgentOK, SavedOK
<1> DEFINE e == At(latest, pkg[d].dirty)
<1>6. e \in Entry /\ Justified(e.base) /\ Justified(e.cur) /\ Justified(latest)
  BY <1>2, LatestEntry
<1>7. pkg' = [pkg EXCEPT ![d] = e]  BY DEF AutoPull, Entries
<1> HIDE DEF e
<1>8. /\ made' \in Nat /\ crashes' \in Nat /\ faults' \in Nat
      /\ latest' \in Revision /\ bucket' \in SUBSET Revision
  BY <1>1, DesktopFacts
<1> QED  BY <1>1, <1>4, <1>5, <1>6, <1>7, <1>8, QuietStep

LEMMA AutoPublishIInv ==
    ASSUME IInv, NEW d \in Desktops, AutoPublish(d)
    PROVE  IInv'
<1>1. UNCHANGED <<latest, bucket, pkg, own, saved, recorded, agents, crashes, faults>>
  BY DEF AutoPublish
<1>2. "auto" \in Whys /\ FALSE \in BOOLEAN /\ NoRun \in Runs \cup {NoRun}  BY DEF Whys
<1>3. made \in Nat /\ crashes' \in Nat /\ faults' \in Nat  BY <1>1, DesktopFacts
<1>4. CASE made' = made + 1 /\ Publishes(d, NoRun, New(pkg[d].cur.claim), "auto", FALSE)
  <2> DEFINE r == New(pkg[d].cur.claim)
  <2>1. pkg[d].cur.claim \in Claims  BY DesktopFacts DEF Revision
  <2>2. r \in Revision  BY <2>1, <1>3, RevisionTypes
  <2>3. r.claim = pkg[d].cur.claim  BY DEF New
  <2>4. Justified(r)  BY <2>3, DesktopFacts, SameClaimJustified
  <2>5. Publishes(d, NoRun, r, "auto", FALSE)  BY <1>4
  <2>6. made' = made + 1  BY <1>4
  <2>7. made' \in Nat  BY <1>3, <2>6
  <2> HIDE DEF r
  <2> QED  BY <1>1, <1>2, <1>3, <2>2, <2>4, <2>5, <2>7, PublishStep
<1>5. CASE made' = made /\ Publishes(d, NoRun, pkg[d].cur, "auto", FALSE)
  <2>1. pkg[d].cur \in Revision /\ Justified(pkg[d].cur)  BY DesktopFacts
  <2> QED  BY <1>1, <1>2, <1>3, <1>5, <2>1, PublishStep
<1> QED  BY <1>4, <1>5 DEF AutoPublish

LEMMA ReadHeadIInv ==
    ASSUME IInv, NEW d \in Desktops, ReadHead(d)
    PROVE  IInv'
<1>1. UNCHANGED <<latest, bucket, made, pkg, own, saved, recorded, agents, crashes, faults>>
  BY DEF ReadHead
<1>2. made' \in Nat /\ crashes' \in Nat /\ faults' \in Nat  BY <1>1, DesktopFacts
<1>3. CASE Rests(d)  BY <1>1, <1>2, <1>3, RestsIInv
<1>4. ASSUME NEW l \in {"stop", "walk"},
             l = "walk" <=> ~Interrupted(d, pkg[d].cur),
             task' = [task EXCEPT ![d].at = l, ![d].rev = pkg[d].cur]
      PROVE  IInv'
  <2> DEFINE t == [task[d] EXCEPT !.at = l, !.rev = pkg[d].cur]
  <2>1. l \in Labels /\ task[d] \in Task /\ pkg[d].cur \in Revision /\ Justified(pkg[d].cur)
    BY DesktopFacts DEF Labels
  <2>2. t \in Task /\ t.at = l /\ t.run = task[d].run /\ t.rev = pkg[d].cur /\ t.why = task[d].why
    BY <2>1 DEF Task
  <2>3. task' = [task EXCEPT ![d] = t]  BY <1>4 DEF IInv, TypeOK
  <2> HIDE DEF t
  <2>4. HoldOK(d, t) /\ AgentOK(d, t) /\ SavedOK(t) /\ Justified(t.rev)
    BY <1>4, <2>1, <2>2, DesktopFacts DEF ReadHead, Is, HoldOK, AgentOK, SavedOK
  <2> QED  BY <1>1, <1>2, <2>2, <2>3, <2>4, PlaceStep
<1>5. \A r : r.claim.status \in {"unclaimed", "not_started"} => ~Interrupted(d, r)
  BY DEF Interrupted
<1>6. CASE /\ Interrupted(d, pkg[d].cur)
           /\ task' = [task EXCEPT ![d].at = "stop", ![d].rev = pkg[d].cur]
  BY <1>4, <1>6
<1>7. CASE /\ pkg[d].cur.claim.status \in {"unclaimed", "not_started"}
           /\ task' = [task EXCEPT ![d].at = "walk", ![d].rev = pkg[d].cur]
  BY <1>4, <1>5, <1>7
<1> QED  BY <1>3, <1>6, <1>7 DEF ReadHead

\* Giving up a check, a claim or a sweep.
LEMMA GivesUpIInv ==
    ASSUME IInv, NEW d \in Desktops, LeftoverStays(d) \/ LeaveAlone(d) \/ Start(d)
    PROVE  IInv'
<1>1. /\ UNCHANGED <<latest, bucket, pkg, made, own, saved, recorded, agents, crashes>>
      /\ Rests(d) /\ faults' \in {faults, faults + 1}
  BY DEF LeftoverStays, LeaveAlone, Start
<1>2. made' \in Nat /\ crashes' \in Nat /\ faults' \in Nat  BY <1>1, DesktopFacts
<1> QED  BY <1>1, <1>2, RestsIInv

LEMMA RefuseIInv ==
    ASSUME IInv, NEW d \in Desktops, Refuse(d)
    PROVE  IInv'
<1>1. UNCHANGED <<latest, bucket, pkg, own, saved, recorded, agents, crashes, faults>>
  BY DEF Refuse
<1> DEFINE r == New([status |-> "unrunnable", run |-> NoRun])
<1>2. "refuse" \in Whys /\ TRUE \in BOOLEAN /\ NoRun \in Runs \cup {NoRun}  BY DEF Whys
<1>3. made' \in Nat /\ crashes' \in Nat /\ faults' \in Nat  BY <1>1, DesktopFacts DEF Refuse
<1>4. r \in Revision  BY ClaimTypes, RevisionTypes, DesktopFacts
<1>5. Justified(r)  BY OpenIsJustified DEF New
<1>6. Publishes(d, NoRun, r, "refuse", TRUE)  BY DEF Refuse
<1> HIDE DEF r
<1> QED  BY <1>1, <1>2, <1>3, <1>4, <1>5, <1>6, PublishStep

\* What the sweep of an interrupted claim publishes is what its run saved, or
\* an interruption of a run that is over: no desktop's run has that invocation,
\* the one desktop that made it being at the walk.
LEMMA SweepIsJustified ==
    ASSUME IInv, NEW d \in Desktops, Is(d, "walk"), Interrupted(d, task[d].rev)
    PROVE  LET i == task[d].rev.claim.run
           IN  /\ i \in Runs
               /\ SweepClaim(i) \in Claims
               /\ Justified(New(SweepClaim(i)))
<1> DEFINE i == task[d].rev.claim.run
<1>1. i \in own[d] /\ i \in Runs  BY DEF Interrupted, IInv, TypeOK
<1>2. i \notin agents  BY DesktopFacts DEF AgentOK, Is
<1>3. \A x \in Desktops : task[x].run # i
  <2> SUFFICES ASSUME NEW x \in Desktops, task[x].run = i PROVE FALSE
    OBVIOUS
  <2>1. CASE x = d
    BY <1>1, <2>1, NoRunAssumption, DesktopFacts DEF HoldOK, Is
  <2>2. CASE x # d
    <3>1. i \in own[x]  BY <1>1, NoRunAssumption DEF IInv, HoldOK
    <3> QED  BY <1>1, <2>2, <3>1 DEF IInv, OwnInv
  <2> QED  BY <2>1, <2>2
<1>4. saved[i] \in Outcomes \cup {"none"}  BY <1>1 DEF IInv, TypeOK
<1>5. SweepClaim(i).run = i
      /\ SweepClaim(i).status = IF saved[i] = "none" THEN "interrupted" ELSE saved[i]
  BY DEF SweepClaim
<1>6. SweepClaim(i) \in Claims
  BY <1>1, <1>4 DEF SweepClaim, Claims, Closing
<1>7. New(SweepClaim(i)).claim = SweepClaim(i)  BY DEF New
<1>8. Justified(New(SweepClaim(i)))
  BY <1>1, <1>2, <1>3, <1>5, <1>7 DEF Justified
<1> QED  BY <1>1, <1>6, <1>8

LEMMA SweepIInv ==
    ASSUME IInv, NEW d \in Desktops, Sweep(d)
    PROVE  IInv'
<1> DEFINE i == pkg[d].cur.claim.run
<1>1. UNCHANGED <<latest, bucket, own, saved, recorded, agents, crashes, faults>>
  BY DEF Sweep
<1>2. made \in Nat /\ crashes' \in Nat /\ faults' \in Nat  BY <1>1, DesktopFacts
<1>3. "sweep" \in Whys /\ FALSE \in BOOLEAN /\ NoRun \in Runs \cup {NoRun}  BY DEF Whys
<1>4. CASE /\ Entries(d, At(latest, FALSE)) /\ made' = made /\ Rests(d)
  <2>1. /\ At(latest, FALSE) \in Entry /\ Justified(At(latest, FALSE).base)
        /\ Justified(At(latest, FALSE).cur)
    BY LatestEntry
  <2>2. pkg' = [pkg EXCEPT ![d] = At(latest, FALSE)]  BY <1>4 DEF Entries
  <2>3. task' = [task EXCEPT ![d] = Idle]  BY <1>4 DEF Rests
  <2>4. /\ latest' \in Revision /\ bucket' \in SUBSET Revision /\ Justified(latest')
        /\ made' \in Nat
    BY <1>1, <1>4, <1>2, DesktopFacts
  <2> QED  BY <1>1, <1>2, <2>1, <2>2, <2>3, <2>4, IdleTask, QuietStep
<1>5. CASE UNCHANGED <<pkg, made>> /\ Publishes(d, NoRun, pkg[d].cur, "sweep", FALSE)
  <2>1. pkg[d].cur \in Revision /\ Justified(pkg[d].cur)  BY DesktopFacts
  <2> QED  BY <1>1, <1>2, <1>3, <1>5, <2>1, PublishStep
<1>6. CASE /\ pkg' = pkg /\ made' = made + 1
           /\ Publishes(d, NoRun, New(SweepClaim(i)), "sweep",
                        OnlyMetadata(pkg[d], SweepClaim(i).status))
  <2> DEFINE r == New(SweepClaim(i))
             u == OnlyMetadata(pkg[d], SweepClaim(i).status)
  <2>1. task[d].rev.claim.run = i /\ Is(d, "walk") /\ Interrupted(d, task[d].rev)
    BY DEF Sweep
  <2>2. SweepClaim(i) \in Claims /\ Justified(r)  BY <2>1, SweepIsJustified
  <2>3. r \in Revision  BY <1>2, <2>2, RevisionTypes
  <2>4. u \in BOOLEAN  BY DEF OnlyMetadata
  <2>5. made' \in Nat /\ Publishes(d, NoRun, r, "sweep", u) /\ pkg' = pkg  BY <1>2, <1>6
  <2> HIDE DEF r, u
  <2> QED  BY <1>1, <1>2, <1>3, <2>2, <2>3, <2>4, <2>5, PublishStep
<1> QED  BY <1>4, <1>5, <1>6 DEF Sweep


-----------------------------------------------------------------------------
(* Publishing *)

LEMMA ResolveIInv ==
    ASSUME IInv, NEW d \in Desktops, Resolve(d)
    PROVE  IInv'
<1>1. /\ UNCHANGED <<latest, made, pkg, own, saved, recorded, agents, crashes, faults>>
      /\ bucket' = bucket \cup {task[d].rev}
  BY DEF Resolve
<1> DEFINE b == (latest = pkg[d].base)
           t == [task[d] EXCEPT !.at = "tag", !.certify = b]
<1>2. task[d] \in Task /\ "tag" \in Labels /\ b \in BOOLEAN  BY DesktopFacts DEF Labels
<1>3. task' = [task EXCEPT ![d] = t]  BY DEF Resolve, IInv, TypeOK
<1> HIDE DEF b
<1>4. t \in Task /\ t.at = "tag" /\ t.run = task[d].run /\ t.rev = task[d].rev /\ t.why = task[d].why
  BY <1>2 DEF Task
<1> HIDE DEF t
<1>5. HoldOK(d, t) /\ AgentOK(d, t) /\ SavedOK(t) /\ Justified(t.rev)
  BY <1>4, DesktopFacts DEF Resolve, Is, HoldOK, AgentOK, SavedOK
<1>6. /\ pkg[d] \in Entry /\ pkg' = [pkg EXCEPT ![d] = pkg[d]]
      /\ Justified(pkg[d].base) /\ Justified(pkg[d].cur) /\ Justified(latest')
      /\ latest' \in Revision /\ bucket' \in SUBSET Revision
      /\ \A r \in bucket' : r \in bucket \/ Justified(r)
  BY <1>1, DesktopFacts
<1>7. made' \in Nat /\ crashes' \in Nat /\ faults' \in Nat  BY <1>1, DesktopFacts
<1> QED  BY <1>1, <1>3, <1>4, <1>5, <1>6, <1>7, QuietStep

LEMMA TagIInv ==
    ASSUME IInv, NEW d \in Desktops, Tag(d)
    PROVE  IInv'
<1>1. /\ UNCHANGED <<bucket, made, pkg, own, saved, recorded, agents, crashes, faults>>
      /\ latest' \in {latest, task[d].rev}
  BY DEF Tag
<1>2. "land" \in Labels  BY DEF Labels
<1>3. PICK t \in Task : /\ task' = [task EXCEPT ![d] = t]
                        /\ t.at = "land" /\ t.run = task[d].run /\ t.why = task[d].why
                        /\ Justified(t.rev)
  BY <1>2, GoesTask DEF Tag
<1>4. HoldOK(d, t) /\ AgentOK(d, t) /\ SavedOK(t)
  BY <1>3, DesktopFacts DEF Tag, Is, HoldOK, AgentOK, SavedOK
<1>5. /\ pkg[d] \in Entry /\ pkg' = [pkg EXCEPT ![d] = pkg[d]]
      /\ Justified(pkg[d].base) /\ Justified(pkg[d].cur) /\ Justified(latest')
      /\ latest' \in Revision /\ bucket' \in SUBSET Revision
  BY <1>1, DesktopFacts
<1>6. made' \in Nat /\ crashes' \in Nat /\ faults' \in Nat  BY <1>1, DesktopFacts
<1> QED  BY <1>1, <1>3, <1>4, <1>5, <1>6, QuietStep

\* The shapes a task takes once its publish is over.
LEMMA EndedTask ==
    ASSUME IInv, NEW d \in Desktops, task[d].run \in own[d], task[d].run \notin agents
    PROVE  LET t == [Idle EXCEPT !.at = "ended", !.run = task[d].run]
           IN  /\ t \in Task /\ t.run = task[d].run /\ t.at = "ended"
               /\ HoldOK(d, t) /\ AgentOK(d, t) /\ SavedOK(t) /\ Justified(t.rev)
<1> DEFINE t == [Idle EXCEPT !.at = "ended", !.run = task[d].run]
<1>1. /\ t \in Task /\ t.at = "ended" /\ t.run = task[d].run /\ t.why = "none"
      /\ t.rev = NoRevision
  BY RevisionTypes, DesktopFacts DEF Idle, Task, Labels
<1>2. Justified(NoRevision)  BY OpenIsJustified DEF NoRevision
<1> HIDE DEF t
<1>3. HoldOK(d, t) /\ AgentOK(d, t) /\ SavedOK(t) /\ Justified(t.rev)
  BY <1>1, <1>2 DEF HoldOK, AgentOK, SavedOK
<1> QED  BY <1>1, <1>3 DEF t

LEMMA SpawnTask ==
    ASSUME IInv, NEW d \in Desktops, task[d].at = "land", task[d].why = "claim"
    PROVE  LET t == [Idle EXCEPT !.at = "spawn", !.run = task[d].run,
                                 !.rev = task[d].rev, !.why = "outcome"]
           IN  /\ t \in Task /\ t.run = task[d].run
               /\ HoldOK(d, t) /\ AgentOK(d, t) /\ SavedOK(t) /\ Justified(t.rev)
<1> DEFINE t == [Idle EXCEPT !.at = "spawn", !.run = task[d].run,
                             !.rev = task[d].rev, !.why = "outcome"]
<1>1. task[d].run \in Runs \cup {NoRun} /\ task[d].rev \in Revision  BY DesktopFacts
<1>2. /\ t \in Task /\ t.at = "spawn" /\ t.run = task[d].run /\ t.why = "outcome"
      /\ t.rev = task[d].rev
  BY <1>1, RevisionTypes DEF Idle, Task, Labels, Whys
<1> HIDE DEF t
<1>3. HoldOK(d, t) /\ AgentOK(d, t) /\ SavedOK(t) /\ Justified(t.rev)
  BY <1>2, DesktopFacts DEF HoldOK, AgentOK, SavedOK
<1> QED  BY <1>2, <1>3 DEF t

LEMMA AfterPublishTask ==
    ASSUME IInv, NEW d \in Desktops, Is(d, "land"), NEW t, t = AfterPublish(d)
    PROVE  /\ t \in Task /\ t.run \in {NoRun, task[d].run}
           /\ HoldOK(d, t) /\ AgentOK(d, t) /\ SavedOK(t) /\ Justified(t.rev)
<1>1. CASE t = [task[d] EXCEPT !.at = "undo"]
  <2> DEFINE u == [task[d] EXCEPT !.at = "undo"]
  <2>1. task[d] \in Task /\ "undo" \in Labels  BY DesktopFacts DEF Labels
  <2>2. u \in Task /\ u.at = "undo" /\ u.run = task[d].run /\ u.rev = task[d].rev
        /\ u.why = task[d].why
    BY <2>1, TaskAt
  <2> HIDE DEF u
  <2>3. HoldOK(d, u) /\ AgentOK(d, u) /\ SavedOK(u) /\ Justified(u.rev)
    BY <2>2, DesktopFacts DEF Is, HoldOK, AgentOK, SavedOK
  <2>4. t = u  BY <1>1 DEF u
  <2> QED  BY <2>2, <2>3, <2>4
<1>2. CASE /\ task[d].why = "claim"
           /\ t = [Idle EXCEPT !.at = "spawn", !.run = task[d].run,
                               !.rev = task[d].rev, !.why = "outcome"]
  <2> QED  BY <1>2, SpawnTask DEF Is
<1>3. CASE task[d].why = "outcome" /\ t = [Idle EXCEPT !.at = "ended", !.run = task[d].run]
  <2>1. task[d].run \in own[d] /\ task[d].run \notin agents
    BY <1>3, DesktopFacts DEF HoldOK, AgentOK, Is
  <2> QED  BY <1>3, <2>1, EndedTask
<1>4. CASE t = [Idle EXCEPT !.at = "look"]
  <2> QED  BY <1>4, IdleAtTask
<1>5. CASE t = Idle
  <2> QED  BY <1>5, IdleTask
<1>6. \/ t = [task[d] EXCEPT !.at = "undo"]
      \/ /\ task[d].why = "claim"
         /\ t = [Idle EXCEPT !.at = "spawn", !.run = task[d].run,
                             !.rev = task[d].rev, !.why = "outcome"]
      \/ task[d].why = "outcome" /\ t = [Idle EXCEPT !.at = "ended", !.run = task[d].run]
      \/ t = [Idle EXCEPT !.at = "look"]
      \/ t = Idle
  BY DEF AfterPublish
<1> QED  BY <1>1, <1>2, <1>3, <1>4, <1>5, <1>6

LEMMA LandIInv ==
    ASSUME IInv, NEW d \in Desktops, Land(d)
    PROVE  IInv'
<1>1. /\ UNCHANGED <<latest, bucket, made, own, saved, recorded, agents, crashes, faults>>
      /\ Is(d, "land")
      /\ task' = [task EXCEPT ![d] = AfterPublish(d)]
  BY DEF Land
<1> DEFINE e == [base |-> IF task[d].certify THEN task[d].rev ELSE pkg[d].base,
                 cur |-> task[d].rev, chain |-> 0, dirty |-> task[d].touched]
<1>2. pkg' = [pkg EXCEPT ![d] = e]  BY DEF Land, Entries
<1>3. e \in Entry  BY DesktopFacts DEF Entry, Task
<1>4. Justified(e.base) /\ Justified(e.cur)
  <2>1. e.base \in {task[d].rev, pkg[d].base} /\ e.cur = task[d].rev  OBVIOUS
  <2> HIDE DEF e
  <2> QED  BY <2>1, DesktopFacts
<1> HIDE DEF e
<1>5. /\ AfterPublish(d) \in Task /\ AfterPublish(d).run \in {NoRun, task[d].run}
      /\ HoldOK(d, AfterPublish(d)) /\ AgentOK(d, AfterPublish(d)) /\ SavedOK(AfterPublish(d))
      /\ Justified(AfterPublish(d).rev)
  BY <1>1, AfterPublishTask
<1>6. /\ made' \in Nat /\ crashes' \in Nat /\ faults' \in Nat
      /\ latest' \in Revision /\ bucket' \in SUBSET Revision /\ Justified(latest')
  BY <1>1, DesktopFacts
<1> QED  BY <1>1, <1>2, <1>3, <1>4, <1>5, <1>6, QuietStep

\* A run that is over keeps its hold until its agent's record is gone.
LEMMA EndsTask ==
    ASSUME IInv, NEW d \in Desktops,
           \/ /\ Ends(d)
              /\ \/ task[d].at = "close"
                 \/ task[d].at \in {"undo", "resolve", "tag", "land"} /\ task[d].why = "outcome"
           \/ Rests(d)
           \/ task' = [task EXCEPT ![d] = [Idle EXCEPT !.at = "look"]]
    PROVE  \E t \in Task :
              /\ task' = [task EXCEPT ![d] = t]
              /\ t.run \in {NoRun, task[d].run}
              /\ HoldOK(d, t) /\ AgentOK(d, t) /\ SavedOK(t) /\ Justified(t.rev)
<1>1. CASE /\ Ends(d)
           /\ \/ task[d].at = "close"
              \/ task[d].at \in {"undo", "resolve", "tag", "land"} /\ task[d].why = "outcome"
  <2>1. task[d].run \in own[d] /\ task[d].run \notin agents
    BY <1>1, DesktopFacts DEF HoldOK, AgentOK
  <2> QED  BY <1>1, <2>1, EndedTask DEF Ends
<1>2. CASE Rests(d)  BY <1>2, IdleTask DEF Rests
<1>3. CASE task' = [task EXCEPT ![d] = [Idle EXCEPT !.at = "look"]]
  BY <1>3, IdleAtTask
<1> QED  BY <1>1, <1>2, <1>3

LEMMA ResetIfCleanIInv ==
    ASSUME IInv, NEW d \in Desktops, ResetIfClean(d)
    PROVE  IInv'
<1>1. UNCHANGED <<latest, bucket, made, own, saved, recorded, agents, crashes, faults>>
  BY DEF ResetIfClean
<1>2. PICK t \in Task :
         /\ task' = [task EXCEPT ![d] = t]
         /\ t.run \in {NoRun, task[d].run}
         /\ HoldOK(d, t) /\ AgentOK(d, t) /\ SavedOK(t) /\ Justified(t.rev)
  <2>1. task[d].at = "undo"  BY DEF ResetIfClean, Is
  <2>2. (task[d].why = "outcome" /\ Ends(d)) \/ Rests(d)  BY DEF ResetIfClean
  <2> QED  BY <2>1, <2>2, EndsTask
<1>3. PICK e \in Entry : pkg' = [pkg EXCEPT ![d] = e] /\ Justified(e.base) /\ Justified(e.cur)
  <2>1. CASE pkg' = pkg  BY <2>1, DesktopFacts
  <2>2. CASE pkg' = [pkg EXCEPT ![d] = At(latest, FALSE)]  BY <2>2, LatestEntry
  <2> QED  BY <2>1, <2>2 DEF ResetIfClean
<1>4. /\ made' \in Nat /\ crashes' \in Nat /\ faults' \in Nat
      /\ latest' \in Revision /\ bucket' \in SUBSET Revision /\ Justified(latest')
  BY <1>1, DesktopFacts
<1> QED  BY <1>1, <1>2, <1>3, <1>4, QuietStep

LEMMA PublishFailsIInv ==
    ASSUME IInv, NEW d \in Desktops, PublishFails(d)
    PROVE  IInv'
<1>1. /\ UNCHANGED <<latest, bucket, made, pkg, own, saved, recorded, agents, crashes>>
      /\ faults' = faults + 1
  BY DEF PublishFails
<1>2. task[d].at \in {"resolve", "tag", "land"}  BY DEF PublishFails
<1>3. PICK t \in Task :
         /\ task' = [task EXCEPT ![d] = t]
         /\ t.run \in {NoRun, task[d].run}
         /\ HoldOK(d, t) /\ AgentOK(d, t) /\ SavedOK(t) /\ Justified(t.rev)
  <2>1. CASE task[d].why = "outcome"
    <3>1. Ends(d)  BY <2>1 DEF PublishFails
    <3> QED  BY <1>2, <2>1, <3>1, EndsTask
  <2>2. CASE task[d].why = "auto"
    <3>1. task' = [task EXCEPT ![d] = [Idle EXCEPT !.at = "look"]]  BY <2>2 DEF PublishFails
    <3> QED  BY <3>1, EndsTask
  <2>3. CASE task[d].why \notin {"outcome", "auto"}
    <3>1. Rests(d)  BY <2>3 DEF PublishFails
    <3> QED  BY <3>1, EndsTask
  <2> QED  BY <2>1, <2>2, <2>3
<1>4. made' \in Nat /\ crashes' \in Nat  BY <1>1, DesktopFacts
<1>5. faults' \in Nat  BY <1>1, DesktopFacts
<1> QED  BY <1>1, <1>3, <1>4, <1>5, PlaceStep

-----------------------------------------------------------------------------
(* A run *)

LEMMA RecheckIInv ==
    ASSUME IInv, NEW d \in Desktops, Recheck(d)
    PROVE  IInv'
<1>1. /\ UNCHANGED <<latest, bucket, made, pkg, own, saved, recorded, agents, crashes, faults>>
      /\ task[d].at = "recheck"
  BY DEF Recheck, Is
<1>2. PICK l \in {"prompt", "repull", "undo"} : Goes(d, l)  BY DEF Recheck
<1>3. l \in Labels  BY DEF Labels
<1>4. PICK t \in Task : /\ task' = [task EXCEPT ![d] = t]
                        /\ t.at = l /\ t.run = task[d].run /\ t.why = task[d].why
                        /\ Justified(t.rev)
  BY <1>2, <1>3, GoesTask
<1>5. HoldOK(d, t) /\ AgentOK(d, t) /\ SavedOK(t)
  BY <1>1, <1>4, DesktopFacts DEF HoldOK, AgentOK, SavedOK
<1>6. made' \in Nat /\ crashes' \in Nat /\ faults' \in Nat  BY <1>1, DesktopFacts
<1> QED  BY <1>1, <1>4, <1>5, <1>6, PlaceStep

LEMMA RepullIInv ==
    ASSUME IInv, NEW d \in Desktops, Repull(d)
    PROVE  IInv'
<1>1. /\ UNCHANGED <<latest, bucket, made, own, saved, recorded, agents, crashes, faults>>
      /\ task[d].at = "repull"
  BY DEF Repull, Is
<1>2. PICK l \in {"prompt", "undo"} : Goes(d, l)  BY DEF Repull
<1>3. l \in Labels  BY DEF Labels
<1>4. PICK t \in Task : /\ task' = [task EXCEPT ![d] = t]
                        /\ t.at = l /\ t.run = task[d].run /\ t.why = task[d].why
                        /\ Justified(t.rev)
  BY <1>2, <1>3, GoesTask
<1>5. HoldOK(d, t) /\ AgentOK(d, t) /\ SavedOK(t)
  BY <1>1, <1>4, DesktopFacts DEF HoldOK, AgentOK, SavedOK
<1> DEFINE e == At(latest, pkg[d].dirty)
<1>6. pkg[d].dirty \in BOOLEAN  BY DesktopFacts DEF Entry
<1>7. e \in Entry /\ Justified(e.base) /\ Justified(e.cur) /\ Justified(latest)
  BY <1>6, LatestEntry
<1>8. pkg' = [pkg EXCEPT ![d] = e]  BY DEF Repull, Entries
<1> HIDE DEF e
<1>9. /\ made' \in Nat /\ crashes' \in Nat /\ faults' \in Nat
      /\ latest' \in Revision /\ bucket' \in SUBSET Revision
  BY <1>1, DesktopFacts
<1> QED  BY <1>1, <1>4, <1>5, <1>7, <1>8, <1>9, QuietStep

\* A run closes its own claim with what it saved.
LEMMA FinishRunIInv ==
    ASSUME IInv, NEW d \in Desktops, FinishRun(d)
    PROVE  IInv'
<1> DEFINE i == task[d].run
<1>1. /\ UNCHANGED <<latest, bucket, pkg, own, saved, recorded, agents, crashes, faults>>
      /\ task[d].at = "close"
  BY DEF FinishRun, Is
<1>2. made \in Nat /\ crashes' \in Nat /\ faults' \in Nat  BY <1>1, DesktopFacts
<1>3. i \in own[d] /\ i \notin agents /\ saved[i] # "none"
  BY <1>1, DesktopFacts DEF HoldOK, AgentOK, SavedOK
<1>4. i \in Runs /\ saved[i] \in Outcomes
  BY <1>3 DEF IInv, TypeOK
<1>5. CASE Ends(d) /\ made' = made
  <2>1. PICK t \in Task :
           /\ task' = [task EXCEPT ![d] = t]
           /\ t.run \in {NoRun, task[d].run}
           /\ HoldOK(d, t) /\ AgentOK(d, t) /\ SavedOK(t) /\ Justified(t.rev)
    BY <1>1, <1>5, EndsTask
  <2>2. made' \in Nat  BY <1>2, <1>5
  <2> QED  BY <1>1, <1>2, <2>1, <2>2, PlaceStep
<1>6. ASSUME NEW r \in Revision, NEW u \in BOOLEAN, Justified(r),
             Publishes(d, i, r, "outcome", u), made' \in {made, made + 1}
      PROVE  IInv'
  <2>1. made' \in Nat  BY <1>2, <1>6
  <2>2. "outcome" \in Whys /\ i \in Runs \cup {NoRun} /\ i = task[d].run  BY <1>4 DEF Whys
  <2> HIDE DEF i
  <2> QED  BY <1>1, <1>2, <1>3, <1>6, <2>1, <2>2, PublishStep
<1> DEFINE u == OnlyMetadata(pkg[d], saved[i])
           c == [status |-> saved[i], run |-> i]
<1>7. u \in BOOLEAN  BY DEF OnlyMetadata
<1>8. c \in Claims  BY <1>4 DEF Claims, Closing
<1>9. New(c) \in Revision /\ New(c).claim = c  BY <1>2, <1>8, RevisionTypes DEF New
<1>10. Justified(New(c))  BY <1>3, <1>4, <1>9 DEF Justified
<1>11. pkg[d].cur \in Revision /\ Justified(pkg[d].cur)  BY DesktopFacts
<1>12. \/ Ends(d) /\ made' = made
       \/ made' = made /\ Publishes(d, i, pkg[d].cur, "outcome", u)
       \/ made' = made + 1 /\ Publishes(d, i, New(c), "outcome", u)
  BY DEF FinishRun
<1> HIDE DEF i, u, c
<1> QED  BY <1>5, <1>6, <1>7, <1>9, <1>10, <1>11, <1>12

\* The run of a desktop is no other's.
LEMMA RunIsOwn ==
    ASSUME IInv, NEW d \in Desktops, NEW i \in own[d]
    PROVE  /\ i \in Runs /\ i # NoRun
           /\ \A x \in Desktops : x # d => i \notin own[x] /\ task[x].run # i
<1>1. i \in Runs /\ i # NoRun  BY NoRunAssumption DEF IInv, TypeOK
<1>2. ASSUME NEW x \in Desktops, x # d PROVE i \notin own[x] /\ task[x].run # i
  BY <1>1, <1>2 DEF IInv, OwnInv, HoldOK
<1> QED  BY <1>1, <1>2

\* While a run has saved nothing no revision closes its claim.
LEMMA NotYetClosed ==
    ASSUME IInv, NEW d \in Desktops, task[d].run \in Runs, saved[task[d].run] = "none",
           NEW r, Justified(r), Closed(r)
    PROVE  r.claim.run # task[d].run
  BY DEF Justified, Closed, Closing, Outcomes

LEMMA StopLeftoverIInv ==
    ASSUME IInv, NEW d \in Desktops, StopLeftover(d)
    PROVE  IInv'
<1> DEFINE i == task[d].rev.claim.run
<1>1. /\ UNCHANGED <<latest, bucket, made, pkg, own, saved, crashes, faults>>
      /\ task[d].at = "stop" /\ recorded' = recorded \ {i}
      /\ agents' = IF i \in recorded THEN agents \ {i} ELSE agents
  BY DEF StopLeftover, Is
<1>2. agents \subseteq recorded /\ recorded \in SUBSET Runs /\ agents \in SUBSET Runs
  BY DEF IInv, TypeOK
<1>3. /\ agents' \subseteq recorded' /\ agents' \subseteq agents /\ i \notin agents'
      /\ recorded' \in SUBSET Runs /\ agents' \in SUBSET Runs
  BY <1>1, <1>2
<1>4. "walk" \in Labels  BY DEF Labels
<1>5. PICK t \in Task : /\ task' = [task EXCEPT ![d] = t]
                        /\ t.at = "walk" /\ t.run = task[d].run /\ t.rev = task[d].rev
                        /\ t.why = task[d].why
                        /\ Justified(t.rev)
  BY <1>4, GoesTask DEF StopLeftover
<1>6. \A x \in Desktops : task'[x].run \in {NoRun, task[x].run}
  BY <1>5 DEF IInv, TypeOK
<1>7. \A r \in Revision : Justified(r) => Justified(r)'
  BY <1>1, <1>3, <1>6, FewerAgents
<1>8. Justified(t.rev)'  BY <1>5, <1>7 DEF Task
<1>9. HoldOK(d, t)' /\ AgentOK(d, t)' /\ SavedOK(t)'
  BY <1>1, <1>3, <1>5, DesktopFacts DEF HoldOK, AgentOK, SavedOK
<1>10. i \in own[d]  BY <1>1, DesktopFacts DEF AgentOK, Interrupted
<1>11. \A x \in Desktops : x # d => /\ HoldOK(x, task[x])' /\ AgentOK(x, task[x])'
                                    /\ SavedOK(task[x])'
  <2> SUFFICES ASSUME NEW x \in Desktops, x # d
               PROVE  HoldOK(x, task[x])' /\ AgentOK(x, task[x])' /\ SavedOK(task[x])'
    OBVIOUS
  <2>1. task'[x] = task[x]  BY <1>5 DEF IInv, TypeOK
  <2>2. task[x].run # i  BY <1>10, RunIsOwn
  <2>3. HoldOK(x, task[x]) /\ AgentOK(x, task[x]) /\ SavedOK(task[x])  BY DEF IInv
  <2> HIDE DEF i
  <2> QED  BY <1>1, <1>3, <2>1, <2>2, <2>3 DEF HoldOK, AgentOK, SavedOK, Interrupted
<1>12. OwnInv'  BY <1>1, <1>3 DEF IInv, OwnInv
<1>13. /\ own' \in [Desktops -> SUBSET Runs] /\ saved' \in [Runs -> Outcomes \cup {"none"}]
       /\ made' \in Nat /\ crashes' \in Nat /\ faults' \in Nat
  BY <1>1 DEF IInv, TypeOK
<1> HIDE DEF i
<1> QED  BY <1>1, <1>3, <1>5, <1>7, <1>8, <1>9, <1>11, <1>12, <1>13, RunStep

\* The steps of a run, from what it changes of itself.  A revision closes the
\* claim of the run only once the run has saved its outcome.
LEMMA OwnRunStep ==
    ASSUME IInv, NEW d \in Desktops, NEW t \in Task,
           task' = [task EXCEPT ![d] = t],
           UNCHANGED <<latest, bucket, made, pkg, own, crashes, faults>>,
           NEW i \in own[d], task[d].run = i, t.run \in {NoRun, i},
           saved' \in [Runs -> Outcomes \cup {"none"}],
           \A j \in Runs : j # i => saved'[j] = saved[j],
           saved'[i] # saved[i] => saved[i] = "none",
           recorded' \in SUBSET Runs, recorded \ {i} \subseteq recorded',
           agents' \in SUBSET Runs, agents' \subseteq agents \cup {i},
           agents' \subseteq recorded',
           i \in agents' => saved[i] = "none",
           HoldOK(d, t)', AgentOK(d, t)', SavedOK(t)', Justified(t.rev)
    PROVE  IInv'
<1>1. /\ i \in Runs /\ i # NoRun
      /\ \A x \in Desktops : x # d => i \notin own[x] /\ task[x].run # i
  BY RunIsOwn
<1>2. \A x \in Desktops : task'[x] = IF x = d THEN t ELSE task[x]
  BY DEF IInv, TypeOK
<1>3. ASSUME NEW r, Justified(r) PROVE Justified(r)'
  <2> SUFFICES ASSUME Closed(r) PROVE Justified(r)'
    BY DEF Justified, Closed
  <2>1. r.claim.run \in Runs /\ r.claim.run # NoRun /\ r.claim.status \in Closing
    BY NoRunAssumption DEF Closed
  <2>2. (\E x \in Desktops : r.claim.run \in own[x]) /\ r.claim.run \notin agents
    BY <1>3 DEF Justified
  <2>3. CASE saved[i] = "none"
    <3>1. r.claim.run # i  BY <1>1, <1>3, <2>3, NotYetClosed
    <3>2. \A x \in Desktops : task[x].run # r.claim.run => task'[x].run # r.claim.run
      BY <1>2, <2>1, <3>1
    <3>3. saved'[r.claim.run] = saved[r.claim.run]  BY <2>1, <3>1
    <3> QED  BY <1>3, <2>1, <2>2, <3>1, <3>2, <3>3 DEF Justified
  <2>4. CASE saved[i] # "none"
    <3>1. saved'[r.claim.run] = saved[r.claim.run] /\ r.claim.run \notin agents'
      BY <2>1, <2>2, <2>4
    <3>2. \A x \in Desktops : task[x].run # r.claim.run => task'[x].run # r.claim.run
      BY <1>2, <2>1
    <3> QED  BY <1>3, <2>1, <2>2, <3>1, <3>2 DEF Justified
  <2> QED  BY <2>3, <2>4
<1>4. OwnInv'
  <2>1. \A x, y \in Desktops : x # y => own'[x] \cap own'[y] = {}  BY DEF IInv, OwnInv
  <2>2. ASSUME NEW j \in Runs, j \in agents' \/ saved'[j] # "none"
        PROVE  \E x \in Desktops : j \in own'[x]
    <3>1. CASE j = i  BY <3>1
    <3>2. CASE j # i  BY <2>2, <3>2 DEF IInv, OwnInv
    <3> QED  BY <3>1, <3>2
  <2> QED  BY <2>1, <2>2 DEF OwnInv
<1>5. ASSUME NEW x \in Desktops, x # d
      PROVE  HoldOK(x, task[x])' /\ AgentOK(x, task[x])' /\ SavedOK(task[x])'
  <2>1. task'[x] = task[x] /\ task[x].run # i /\ i \notin own[x]  BY <1>1, <1>2, <1>5
  <2>2. HoldOK(x, task[x]) /\ AgentOK(x, task[x]) /\ SavedOK(task[x])  BY DEF IInv
  <2>3. HoldOK(x, task[x])'  BY <2>1, <2>2 DEF HoldOK
  <2>4. AgentOK(x, task[x])'
    <3>1. Interrupted(x, task[x].rev) => task[x].rev.claim.run # i
      BY <2>1 DEF Interrupted
    <3>2. Interrupted(x, task[x].rev)' = Interrupted(x, task[x].rev)
      BY <2>1 DEF Interrupted
    <3> QED  BY <2>1, <2>2, <3>1, <3>2 DEF AgentOK
  <2>5. SavedOK(task[x])'
    <3>1. task[x].at \in RunSteps \cup {"close"}
              \/ (task[x].at \in PublishSteps /\ task[x].why = "claim")
            => task[x].run \in Runs
      BY <2>2 DEF HoldOK, IInv, TypeOK
    <3> QED  BY <2>1, <2>2, <3>1 DEF SavedOK
  <2> QED  BY <2>3, <2>4, <2>5
<1>6. own' \in [Desktops -> SUBSET Runs] /\ made' \in Nat /\ crashes' \in Nat /\ faults' \in Nat
  BY DEF IInv, TypeOK
<1>7. (\A r \in Revision : Justified(r) => Justified(r)') /\ Justified(t.rev)'
  BY <1>3
<1> QED  BY <1>4, <1>5, <1>6, <1>7, RunStep

LEMMA SpawnAgentIInv ==
    ASSUME IInv, NEW d \in Desktops, SpawnAgent(d)
    PROVE  IInv'
<1> DEFINE i == task[d].run
<1>1. /\ UNCHANGED <<latest, bucket, made, pkg, own, saved, agents, crashes, faults>>
      /\ task[d].at = "spawn" /\ recorded' = recorded \cup {i}
  BY DEF SpawnAgent, Is
<1>2. "recheck" \in Labels  BY DEF Labels
<1>3. PICK t \in Task : /\ task' = [task EXCEPT ![d] = t]
                        /\ t.at = "recheck" /\ t.run = i /\ t.why = task[d].why
                        /\ Justified(t.rev)
  BY <1>2, GoesTask DEF SpawnAgent
<1>4. i \in own[d] /\ i \notin agents /\ saved[i] = "none"
  BY <1>1, DesktopFacts DEF HoldOK, AgentOK, SavedOK
<1>5. i \in Runs  BY <1>4, RunIsOwn
<1>6. HoldOK(d, t)' /\ AgentOK(d, t)' /\ SavedOK(t)'
  BY <1>1, <1>3, <1>4, DesktopFacts DEF HoldOK, AgentOK, SavedOK
<1>7. /\ recorded' \in SUBSET Runs /\ agents' \in SUBSET Runs /\ agents' \subseteq recorded'
      /\ saved' \in [Runs -> Outcomes \cup {"none"}]
  BY <1>1, <1>5 DEF IInv, TypeOK
<1> HIDE DEF i
<1> QED  BY <1>1, <1>3, <1>4, <1>6, <1>7, OwnRunStep DEF i

LEMMA PromptIInv ==
    ASSUME IInv, NEW d \in Desktops, Prompt(d)
    PROVE  IInv'
<1> DEFINE i == task[d].run
<1>1. /\ UNCHANGED <<latest, bucket, made, pkg, own, saved, recorded, crashes, faults>>
      /\ task[d].at = "prompt" /\ agents' = agents \cup {i}
  BY DEF Prompt, Is
<1>2. "turn" \in Labels  BY DEF Labels
<1>3. PICK t \in Task : /\ task' = [task EXCEPT ![d] = t]
                        /\ t.at = "turn" /\ t.run = i /\ t.why = task[d].why
                        /\ Justified(t.rev)
  BY <1>2, GoesTask DEF Prompt
<1>4. i \in own[d] /\ i \in recorded /\ saved[i] = "none"
  BY <1>1, DesktopFacts DEF HoldOK, AgentOK, SavedOK
<1>5. i \in Runs  BY <1>4, RunIsOwn
<1>6. HoldOK(d, t)' /\ AgentOK(d, t)' /\ SavedOK(t)'
  BY <1>1, <1>3, <1>4, DesktopFacts DEF HoldOK, AgentOK, SavedOK
<1>7. /\ recorded' \in SUBSET Runs /\ agents' \in SUBSET Runs /\ agents' \subseteq recorded'
      /\ saved' \in [Runs -> Outcomes \cup {"none"}]
  BY <1>1, <1>4, <1>5 DEF IInv, TypeOK
<1> HIDE DEF i
<1> QED  BY <1>1, <1>3, <1>4, <1>6, <1>7, OwnRunStep DEF i

LEMMA RunOverIInv ==
    ASSUME IInv, NEW d \in Desktops, RunOver(d)
    PROVE  IInv'
<1> DEFINE i == task[d].run
<1>1. /\ UNCHANGED <<latest, bucket, made, pkg, own, saved, agents, crashes, faults>>
      /\ task[d].at = "ended" /\ recorded' = recorded \ {i}
      /\ task' = [task EXCEPT ![d] = Idle]
  BY DEF RunOver, Is, Rests
<1>2. i \in own[d] /\ i \notin agents
  BY <1>1, DesktopFacts DEF HoldOK, AgentOK
<1>3. Idle \in Task /\ Idle.run = NoRun /\ Justified(Idle.rev) /\ Idle.at = "idle" /\ Idle.why = "none"
  BY IdleTask DEF Idle
<1>4. HoldOK(d, Idle)' /\ AgentOK(d, Idle)' /\ SavedOK(Idle)'
  BY <1>1, <1>3, DesktopFacts DEF HoldOK, AgentOK, SavedOK
<1>5. /\ recorded' \in SUBSET Runs /\ agents' \in SUBSET Runs /\ agents' \subseteq recorded'
      /\ saved' \in [Runs -> Outcomes \cup {"none"}]
  BY <1>1, <1>2 DEF IInv, TypeOK
<1> HIDE DEF i
<1> QED  BY <1>1, <1>2, <1>3, <1>4, <1>5, OwnRunStep DEF i

\* The outcome is saved when the agent is gone.
LEMMA RunEndsIInv ==
    ASSUME IInv, NEW d \in Desktops, SpawnFails(d) \/ RepullFails(d) \/ TurnEnds(d)
    PROVE  IInv'
<1> DEFINE i == task[d].run
<1>1. /\ UNCHANGED <<latest, bucket, made, pkg, own, recorded, crashes, faults>>
      /\ task[d].at \in RunSteps
  BY DEF SpawnFails, RepullFails, TurnEnds, Is
<1>2. PICK o \in Outcomes : RunEnds(d, o)
  BY DEF SpawnFails, RepullFails, TurnEnds, Outcomes
<1>3. /\ saved' = [saved EXCEPT ![i] = o] /\ agents' = agents \ {i}
      /\ task' = [task EXCEPT ![d] = [Idle EXCEPT !.at = "close", !.run = i]]
  BY <1>2 DEF RunEnds
<1>4. i \in own[d] /\ saved[i] = "none"
  BY <1>1, DesktopFacts DEF HoldOK, SavedOK
<1>5. i \in Runs  BY <1>4, RunIsOwn
<1>6. PICK t \in Task : /\ task' = [task EXCEPT ![d] = t] /\ t.at = "close" /\ t.run = i
                        /\ t.why = "none" /\ t.rev = NoRevision
  <2> DEFINE t == [Idle EXCEPT !.at = "close", !.run = i]
  <2>1. t \in Task /\ t.at = "close" /\ t.run = i /\ t.why = "none" /\ t.rev = NoRevision
    BY <1>5, RevisionTypes DEF Idle, Task, Labels
  <2>2. task' = [task EXCEPT ![d] = t]  BY <1>3
  <2> HIDE DEF t
  <2> QED  BY <2>1, <2>2
<1>7. Justified(NoRevision)  BY OpenIsJustified DEF NoRevision
<1>8. saved'[i] = o /\ o # "none"  BY <1>3, <1>5 DEF IInv, TypeOK, Outcomes
<1>9. HoldOK(d, t)' /\ AgentOK(d, t)' /\ SavedOK(t)'
  BY <1>1, <1>3, <1>4, <1>6, <1>8 DEF HoldOK, AgentOK, SavedOK
<1>10. /\ saved' \in [Runs -> Outcomes \cup {"none"}]
       /\ \A j \in Runs : j # i => saved'[j] = saved[j]
  BY <1>3 DEF IInv, TypeOK
<1>11. /\ recorded' \in SUBSET Runs /\ agents' \in SUBSET Runs /\ agents' \subseteq recorded'
       /\ recorded \ {i} \subseteq recorded' /\ agents' \subseteq agents \cup {i} /\ i \notin agents'
  BY <1>1, <1>3 DEF IInv, TypeOK
<1>12. /\ UNCHANGED <<latest, bucket, made, pkg, own, crashes, faults>>
       /\ task[d].run = i /\ task' = [task EXCEPT ![d] = t] /\ t.run \in {NoRun, i}
       /\ Justified(t.rev) /\ i \in own[d]
       /\ saved[i] = "none" /\ (i \in agents' => saved[i] = "none")
  BY <1>1, <1>3, <1>4, <1>6, <1>7
<1> HIDE DEF i
<1> QED  BY <1>9, <1>10, <1>11, <1>12, OwnRunStep

LEMMA CrashIInv ==
    ASSUME IInv, NEW d \in Desktops, Crash(d)
    PROVE  IInv'
<1>1. /\ UNCHANGED <<latest, bucket, made, pkg, own, saved, recorded, faults>>
      /\ agents' \subseteq agents /\ crashes' = crashes + 1
      /\ task' = [task EXCEPT ![d] = [Idle EXCEPT !.at = "down"]]
  BY DEF Crash
<1>2. PICK t \in Task : /\ task' = [task EXCEPT ![d] = t] /\ t.run = NoRun /\ t.at = "down"
                        /\ t.why = "none" /\ t.rev = NoRevision /\ Justified(t.rev)
  <2>1. "down" \in Labels  BY DEF Labels
  <2>2. Justified(NoRevision)  BY OpenIsJustified DEF NoRevision
  <2> DEFINE t == [Idle EXCEPT !.at = "down"]
  <2>3. t \in Task /\ t.at = "down" /\ t.run = NoRun /\ t.why = "none" /\ t.rev = NoRevision
    BY <2>1, IdleAt
  <2>4. task' = [task EXCEPT ![d] = t]  BY <1>1
  <2> HIDE DEF t
  <2> QED  BY <2>2, <2>3, <2>4
<1>3. \A x \in Desktops : task'[x] = IF x = d THEN t ELSE task[x]
  BY <1>2 DEF IInv, TypeOK
<1>4. \A r \in Revision : Justified(r) => Justified(r)'
  BY <1>1, <1>2, <1>3, FewerAgents
<1>5. Justified(t.rev)'  BY <1>2, <1>4 DEF Task
<1>6. HoldOK(d, t)' /\ AgentOK(d, t)' /\ SavedOK(t)'
  BY <1>1, <1>2, DesktopFacts DEF HoldOK, AgentOK, SavedOK
<1>7. \A x \in Desktops : x # d => /\ HoldOK(x, task[x])' /\ AgentOK(x, task[x])'
                                   /\ SavedOK(task[x])'
  BY <1>1, <1>3 DEF IInv, HoldOK, AgentOK, SavedOK, Interrupted
<1>8. OwnInv'  BY <1>1 DEF IInv, OwnInv
<1>9. /\ own' \in [Desktops -> SUBSET Runs] /\ saved' \in [Runs -> Outcomes \cup {"none"}]
      /\ recorded' \in SUBSET Runs /\ agents' \in SUBSET Runs /\ agents' \subseteq recorded'
      /\ made' \in Nat /\ crashes' \in Nat /\ faults' \in Nat
  BY <1>1 DEF IInv, TypeOK
<1> QED  BY <1>1, <1>2, <1>4, <1>5, <1>6, <1>7, <1>8, <1>9, RunStep

LEMMA ClaimIInv ==
    ASSUME IInv, NEW d \in Desktops, NEW i \in Runs, Claim(d, i)
    PROVE  IInv'
<1> DEFINE r == New([status |-> "claimed", run |-> i])
<1>1. /\ UNCHANGED <<latest, bucket, pkg, saved, recorded, agents, crashes, faults>>
      /\ own' = [own EXCEPT ![d] = @ \cup {i}] /\ made' = made + 1
      /\ \A x \in Desktops : i \notin own[x]
      /\ task' = [task EXCEPT ![d] = Publishing(i, r, "claim", TRUE)]
  BY DEF Claim, Publishes, Publishing
<1>2. r \in Revision /\ r.claim.status = "claimed"
  BY ClaimTypes, RevisionTypes, DesktopFacts DEF New
<1> HIDE DEF r
<1>3. PICK t \in Task : /\ task' = [task EXCEPT ![d] = t] /\ t.at = "resolve" /\ t.run = i
                        /\ t.rev = r /\ t.why = "claim"
  <2> DEFINE t == Publishing(i, r, "claim", TRUE)
  <2>1. "claim" \in Whys /\ TRUE \in BOOLEAN /\ i \in Runs \cup {NoRun}  BY DEF Whys
  <2>2. t \in Task /\ t.at = "resolve" /\ t.run = i /\ t.rev = r /\ t.why = "claim"
    BY <1>2, <2>1 DEF Publishing, Idle, Task, Labels
  <2>3. task' = [task EXCEPT ![d] = t]  BY <1>1
  <2> HIDE DEF t
  <2> QED  BY <2>2, <2>3
<1>4. \A x \in Desktops : own'[x] = IF x = d THEN own[x] \cup {i} ELSE own[x]
  BY <1>1 DEF IInv, TypeOK
<1>5. i \notin agents /\ saved[i] = "none"
  BY <1>1 DEF IInv, OwnInv
<1>6. \A x \in Desktops : task'[x] = IF x = d THEN t ELSE task[x]
  BY <1>3 DEF IInv, TypeOK
<1>7. ASSUME NEW q, Justified(q) PROVE Justified(q)'
  <2> SUFFICES ASSUME Closed(q) PROVE Justified(q)'
    BY DEF Justified, Closed
  <2>1. PICK x \in Desktops : q.claim.run \in own[x]  BY <1>7 DEF Justified
  <2>2. q.claim.run # i /\ q.claim.run \in own'[x]  BY <1>1, <1>4, <2>1
  <2>3. \A y \in Desktops : task[y].run # q.claim.run => task'[y].run # q.claim.run
    BY <1>3, <1>6, <2>2
  <2> QED  BY <1>1, <1>7, <2>2, <2>3 DEF Justified
<1>8. Justified(t.rev)'
  <2>1. Justified(t.rev)  BY <1>2, <1>3, OpenIsJustified
  <2> QED  BY <1>7, <2>1
<1>9. HoldOK(d, t)' /\ AgentOK(d, t)' /\ SavedOK(t)'
  BY <1>1, <1>3, <1>4, <1>5 DEF HoldOK, AgentOK, SavedOK
<1>10. \A x \in Desktops : x # d => /\ HoldOK(x, task[x])' /\ AgentOK(x, task[x])'
                                    /\ SavedOK(task[x])'
  BY <1>1, <1>4, <1>6 DEF IInv, HoldOK, AgentOK, SavedOK, Interrupted
<1>11. OwnInv'
  <2>1. \A x, y \in Desktops : x # y => own'[x] \cap own'[y] = {}
    BY <1>1, <1>4 DEF IInv, OwnInv
  <2>2. \A j \in Runs : j \in agents' \/ saved'[j] # "none" => \E x \in Desktops : j \in own'[x]
    BY <1>1, <1>4 DEF IInv, OwnInv
  <2> QED  BY <2>1, <2>2 DEF OwnInv
<1>12. /\ own' \in [Desktops -> SUBSET Runs] /\ saved' \in [Runs -> Outcomes \cup {"none"}]
       /\ recorded' \in SUBSET Runs /\ agents' \in SUBSET Runs /\ agents' \subseteq recorded'
       /\ crashes' \in Nat /\ faults' \in Nat
  BY <1>1 DEF IInv, TypeOK
<1>13. made' \in Nat  BY <1>1 DEF IInv, TypeOK
<1> QED  BY <1>1, <1>3, <1>7, <1>8, <1>9, <1>10, <1>11, <1>12, <1>13, RunStep

-----------------------------------------------------------------------------
(* The theorems *)

LEMMA InitIInv == Init => IInv
<1> SUFFICES ASSUME Init PROVE IInv
  OBVIOUS
<1>1. latest \in Revision /\ latest.claim.status = "unclaimed"
  BY ClaimTypes DEF Init, Revision
<1>2. Idle \in Task /\ At(latest, FALSE) \in Entry  BY <1>1, RevisionTypes
<1>3. TypeOK  BY <1>1, <1>2 DEF Init, TypeOK
<1>4. OwnInv /\ agents \subseteq recorded  BY DEF Init, OwnInv
<1>5. Justified(latest) /\ Justified(NoRevision)
  BY <1>1, OpenIsJustified DEF NoRevision
<1>6. ASSUME NEW d \in Desktops
      PROVE  /\ HoldOK(d, task[d]) /\ AgentOK(d, task[d]) /\ SavedOK(task[d])
             /\ Justified(pkg[d].base) /\ Justified(pkg[d].cur) /\ Justified(task[d].rev)
  <2>1. /\ task[d].at = "idle" /\ task[d].run = NoRun /\ task[d].rev = NoRevision
        /\ task[d].why = "none" /\ pkg[d].base = latest /\ pkg[d].cur = latest
    BY DEF Init, Idle, At
  <2>2. NoRun \notin agents  BY DEF Init
  <2> QED  BY <1>5, <2>1, <2>2 DEF HoldOK, AgentOK, SavedOK
<1>7. \A r \in bucket \cup {latest} : Justified(r)  BY <1>5 DEF Init
<1> QED  BY <1>3, <1>4, <1>6, <1>7 DEF IInv

LEMMA NextIInv == IInv /\ [Next]_vars => IInv'
<1> SUFFICES ASSUME IInv, [Next]_vars PROVE IInv'
  OBVIOUS
<1>1. CASE UNCHANGED vars
  <2>1. TypeOK' /\ OwnInv' /\ (agents \subseteq recorded)'
    BY <1>1 DEF vars, IInv, TypeOK, OwnInv
  <2>2. ASSUME NEW r, Justified(r) PROVE Justified(r)'
    BY <1>1, <2>2 DEF vars, Justified, Closed
  <2>3. ASSUME NEW d \in Desktops
        PROVE  /\ HoldOK(d, task[d])' /\ AgentOK(d, task[d])' /\ SavedOK(task[d])'
               /\ Justified(pkg[d].base)' /\ Justified(pkg[d].cur)' /\ Justified(task[d].rev)'
    <3>1. HoldOK(d, task[d])' /\ AgentOK(d, task[d])' /\ SavedOK(task[d])'
      BY <1>1 DEF vars, IInv, HoldOK, AgentOK, SavedOK, Interrupted
    <3>2. /\ pkg' = pkg /\ task' = task
          /\ Justified(pkg[d].base) /\ Justified(pkg[d].cur) /\ Justified(task[d].rev)
      BY <1>1 DEF vars, IInv
    <3> QED  BY <2>2, <3>1, <3>2
  <2>4. \A r \in (bucket \cup {latest})' : Justified(r)'
    BY <1>1, <2>2 DEF vars, IInv
  <2> QED  BY <2>1, <2>3, <2>4 DEF IInv
<1>2. CASE Environment
  BY <1>2, DirtiedIInv, UserIInv, OthersPushIInv, OrphanEndsIInv, CrashIInv
     DEF Environment, Edit, AgentWrites
<1>3. ASSUME NEW d \in Desktops, Engine(d) PROVE IInv'
  BY <1>3, PassIInv, AutoPullIInv, AutoPublishIInv, ReadHeadIInv, GivesUpIInv, RefuseIInv,
     SweepIInv, ResolveIInv, TagIInv, LandIInv, ResetIfCleanIInv, PublishFailsIInv,
     RecheckIInv, RepullIInv, FinishRunIInv, StopLeftoverIInv, SpawnAgentIInv, PromptIInv,
     RunOverIInv, RunEndsIInv, ClaimIInv
     DEF Engine
<1> QED  BY <1>1, <1>2, <1>3 DEF Next

\* The engine's bookkeeping holds in every state: a package is held by its own
\* desktop's run, and what a revision says of a run is what that run saved or
\* that it is over.
THEOREM InductiveInvariant == Spec => []IInv
  BY InitIInv, NextIInv, PTL DEF Spec

\* Two revisions that are justified close a claim the same way.
LEMMA ClosedAlike == IInv => OneOutcome
<1> SUFFICES ASSUME IInv, NEW r \in bucket, NEW s \in bucket, Closed(r), Closed(s),
                    r.claim.run = s.claim.run
             PROVE  r.claim = s.claim
  BY DEF OneOutcome
<1>1. Justified(r) /\ Justified(s)  BY DEF IInv
<1>2. r.claim.status = s.claim.status
  BY <1>1 DEF Justified, Closed, Closing, Outcomes
<1>3. r.claim \in Claims /\ s.claim \in Claims  BY DEF IInv, TypeOK, Revision
<1> QED  BY <1>2, <1>3 DEF Claims

LEMMA ClosedAlikeNext == IInv' => OneOutcome'
  BY ClosedAlike, PTL

\* All revisions that close one claim close it the same way: a sweep after a
\* restart does not contradict what the run published, and neither does a second
\* sweep.
THEOREM OneOutcomeOfAClaim == Spec => []OneOutcome
  BY ClosedAlike, InductiveInvariant, PTL

\* When a revision closes a claim, the agent that worked under it is gone.
THEOREM ClosedAfterItsAgent == Spec => []ClosedAfterAgent
<1>1. IInv => ClosedAfterAgent
  BY DEF IInv, Justified, ClosedAfterAgent
<1> QED  BY <1>1, InductiveInvariant, PTL

-----------------------------------------------------------------------------
(* What a reader of the bucket sees of each run: AgentTasks implements       *)
(* TaskRuns.  The invariant is needed at every step: a revision that is      *)
(* uploaded closes its run as the ones before it did, and while no agent of  *)
(* that run is left.                                                         *)

LEMMA BucketKept ==
    ASSUME bucket' = bucket
    PROVE  Published' = Published
  BY DEF Published, Closed

LEMMA InitRefines == Init => Tr!Init
<1> SUFFICES ASSUME Init PROVE Tr!Init  OBVIOUS
<1>1. \A r \in bucket : ~Closed(r)  BY DEF Init, Closed, Closing, Outcomes
<1>2. Published = [i \in Runs |-> {}]  BY <1>1 DEF Published
<1> QED  BY <1>2 DEF Tr!Init, Init

\* One more revision in the bucket closes its run, or says nothing new of it.
LEMMA UploadRefines ==
    ASSUME IInv, IInv', NEW q \in Revision, Justified(q),
           bucket' = bucket \cup {q}, agents' = agents
    PROVE  [Tr!Next]_<<Published, agents>>
<1>1. CASE ~Closed(q)
  <2>1. \A i \in Runs : {r \in bucket' : Closed(r) /\ r.claim.run = i}
                        = {r \in bucket : Closed(r) /\ r.claim.run = i}
    BY <1>1
  <2>2. Published' = Published  BY <2>1 DEF Published, Closed
  <2> QED  BY <2>2
<1>2. CASE Closed(q)
  <2> DEFINE i == q.claim.run
  <2> DEFINE o == q.claim.status
  <2>1. i \in Runs /\ o \in Closing /\ i \notin agents  BY <1>2 DEF Closed, Justified
  <2>2. ASSUME NEW r \in bucket', Closed(r), r.claim.run = i PROVE r.claim.status = o
    <3>1. OneOutcome'  BY ClosedAlikeNext
    <3> QED  BY <1>2, <2>2, <3>1 DEF OneOutcome, Closed
  <2>3. Published'[i] = {o}
    BY <1>2, <2>1, <2>2 DEF Published, Closed
  <2>4. \A j \in Runs : j # i => Published'[j] = Published[j]
    BY DEF Published, Closed
  <2>5. Published' = [Published EXCEPT ![i] = {o}]
    BY <2>1, <2>3, <2>4 DEF Published
  <2>6. Published[i] \subseteq {o}
    BY <2>1, <2>2 DEF Published
  <2> HIDE DEF i, o
  <2>7. CASE Published[i] = {}
    <3>1. Tr!Close(i)  BY <2>1, <2>3, <2>5, <2>7 DEF Tr!Close
    <3> QED  BY <2>1, <3>1 DEF Tr!Next
  <2>8. CASE Published[i] = {o}
    <3>1. Published' = Published  BY <2>5, <2>8 DEF Published
    <3> QED  BY <3>1
  <2> QED  BY <2>6, <2>7, <2>8
<1> QED  BY <1>1, <1>2

\* An agent is prompted before anything closes its run.
LEMMA PromptRefines ==
    ASSUME IInv, NEW d \in Desktops, Prompt(d)
    PROVE  [Tr!Next]_<<Published, agents>>
<1> DEFINE i == task[d].run
<1>1. i \in own[d] /\ saved[i] = "none" /\ i \notin agents /\ task[d].at = "prompt"
  BY DesktopFacts DEF Prompt, Is, HoldOK, AgentOK, SavedOK
<1>2. i \in Runs  BY <1>1, RunIsOwn
<1>3. \A r \in bucket : Closed(r) => r.claim.run # i
  BY <1>1, <1>2, NotYetClosed DEF IInv
<1>4. Published[i] = {}  BY <1>2, <1>3 DEF Published
<1>5. Published' = Published /\ agents' = agents \cup {i}
  BY BucketKept DEF Prompt
<1> HIDE DEF i
<1>6. Tr!Prompt(i)  BY <1>1, <1>4, <1>5 DEF Tr!Prompt
<1> QED  BY <1>2, <1>6 DEF Tr!Next

\* An agent less, or none.
LEMMA StopRefines ==
    ASSUME IInv, bucket' = bucket, NEW i, agents' = agents \/ agents' = agents \ {i}
    PROVE  [Tr!Next]_<<Published, agents>>
<1>1. Published' = Published  BY BucketKept
<1>2. CASE i \in agents /\ agents' = agents \ {i}
  <2>1. Tr!Stop(i) /\ i \in Runs  BY <1>1, <1>2 DEF Tr!Stop, IInv, TypeOK
  <2> QED  BY <2>1 DEF Tr!Next
<1>3. CASE agents' = agents  BY <1>1, <1>3
<1> QED  BY <1>2, <1>3

LEMMA EnvironmentRefines ==
    ASSUME IInv, IInv', Environment
    PROVE  [Tr!Next]_<<Published, agents>>
<1>1. ASSUME bucket' = bucket, agents' = agents PROVE [Tr!Next]_<<Published, agents>>
  BY <1>1, BucketKept
<1>2. ASSUME NEW d \in Desktops, \/ Dirtied(d) \/ UserPull(d) \/ UserReset(d)
                                 \/ \E c \in Claims : UserCommit(d, c)
      PROVE  [Tr!Next]_<<Published, agents>>
  BY <1>1, <1>2 DEF Dirtied, UserPull, UserReset, UserCommit
<1>3. ASSUME NEW d \in Desktops, Crash(d) PROVE [Tr!Next]_<<Published, agents>>
  <2>1. bucket' = bucket /\ (agents' = agents \/ agents' = agents \ {task[d].run})
    BY <1>3 DEF Crash
  <2> QED  BY <2>1, StopRefines
<1>4. ASSUME NEW i \in Runs, OrphanEnds(i) PROVE [Tr!Next]_<<Published, agents>>
  BY <1>4, StopRefines DEF OrphanEnds
<1>5. ASSUME NEW c \in Claims, OthersPush(c) PROVE [Tr!Next]_<<Published, agents>>
  <2>1. New(c) \in Revision /\ New(c).claim = c
    BY RevisionTypes DEF IInv, TypeOK, New
  <2>2. Justified(New(c))
    <3>1. CASE c = latest.claim  BY <2>1, <3>1, SameClaimJustified DEF IInv
    <3>2. CASE c.status \in {"none", "unclaimed"}  BY <2>1, <3>2, OpenIsJustified
    <3> QED  BY <1>5, <3>1, <3>2 DEF OthersPush
  <2> QED  BY <1>5, <2>1, <2>2, UploadRefines DEF OthersPush
<1> QED  BY <1>2, <1>3, <1>4, <1>5 DEF Environment, Edit, AgentWrites

LEMMA EngineRefines ==
    ASSUME IInv, IInv', NEW d \in Desktops, Engine(d)
    PROVE  [Tr!Next]_<<Published, agents>>
<1>1. ASSUME bucket' = bucket, agents' = agents PROVE [Tr!Next]_<<Published, agents>>
  BY <1>1, BucketKept
<1>2. CASE Pass(d) \/ AutoPull(d) \/ AutoPublish(d) \/ AutoNothing(d) \/ ReadHead(d)
  BY <1>1, <1>2 DEF Pass, AutoPull, AutoPublish, AutoNothing, ReadHead
<1>3. CASE StopLeftover(d)
  <2> DEFINE i == task[d].rev.claim.run
  <2>1. bucket' = bucket /\ (agents' = agents \/ agents' = agents \ {i})
    BY <1>3 DEF StopLeftover
  <2> HIDE DEF i
  <2> QED  BY <2>1, StopRefines
<1>4. CASE \/ LeftoverStays(d) \/ Sweep(d) \/ Refuse(d) \/ LeaveAlone(d)
           \/ \E i \in Runs : Claim(d, i)
  BY <1>1, <1>4 DEF LeftoverStays, Sweep, Refuse, LeaveAlone, Claim
<1>5. CASE Resolve(d)
  <2>1. task[d].rev \in Revision /\ Justified(task[d].rev)  BY DesktopFacts
  <2>2. bucket' = bucket \cup {task[d].rev} /\ agents' = agents  BY <1>5 DEF Resolve
  <2> QED  BY <2>1, <2>2, UploadRefines
<1>6. CASE Tag(d) \/ Land(d) \/ ResetIfClean(d) \/ PublishFails(d)
  BY <1>1, <1>6 DEF Tag, Land, ResetIfClean, PublishFails
<1>7. CASE SpawnAgent(d) \/ Recheck(d) \/ Repull(d)
  BY <1>1, <1>7 DEF SpawnAgent, Recheck, Repull
<1>8. CASE SpawnFails(d) \/ RepullFails(d) \/ TurnEnds(d)
  <2>1. bucket' = bucket /\ agents' = agents \ {task[d].run}
    BY <1>8 DEF SpawnFails, RepullFails, TurnEnds, RunEnds
  <2> QED  BY <2>1, StopRefines
<1>9. CASE Prompt(d)  BY <1>9, PromptRefines
<1>10. CASE FinishRun(d) \/ RunOver(d) \/ Start(d)
  BY <1>1, <1>10 DEF FinishRun, RunOver, Start
<1> QED  BY <1>2, <1>3, <1>4, <1>5, <1>6, <1>7, <1>8, <1>9, <1>10 DEF Engine

\* REFINEMENT.  Whatever crashes, retries and pushes come between, a run is closed
\* once and for good, and its agent works only before that.
THEOREM RunsAreImplemented == Spec => ImplementsRuns
<1>1. IInv /\ IInv' /\ [Next]_vars => [Tr!Next]_<<Published, agents>>
  <2> SUFFICES ASSUME IInv, IInv', [Next]_vars PROVE [Tr!Next]_<<Published, agents>>
    OBVIOUS
  <2>1. CASE UNCHANGED vars
    BY <2>1, BucketKept DEF vars
  <2>2. CASE Next
    BY <2>2, EnvironmentRefines, EngineRefines DEF Next
  <2> QED  BY <2>1, <2>2
<1> QED  BY <1>1, InitRefines, InductiveInvariant, PTL DEF Spec, ImplementsRuns, Tr!Spec

=============================================================================
