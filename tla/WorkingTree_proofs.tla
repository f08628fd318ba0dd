------------------------- MODULE WorkingTree_proofs -------------------------
(* Proofs about WorkingTree, for any paths, contents and bounds.            *)
EXTENDS TreeEntry, Sequences, TLAPS

USE WorkingTreeAssumption

LEMMA IdleTyped == Idle \in Op
  BY DEF Idle, Op, Kinds, Stages, Revision, Content

LEMMA InitInv == Init => IInv
<1> SUFFICES ASSUME Init PROVE IInv
  OBVIOUS
<1>1. TypeOK
  BY IdleTyped DEF Init, TypeOK, Revision, Content, Lineage
<1>2. /\ lineage.tracked = {}
      /\ \A p \in Paths : files[p] = Absent /\ by[p] = "base"
  BY DEF Init
<1>3. TrackedHaveRows /\ WrittenByUs
  BY <1>2 DEF TrackedHaveRows, WrittenByUs, Settled
<1>4. OpOK
  <2>1. op = Idle /\ op.stage = "idle"
    BY DEF Init, Idle
  <2> QED
    BY <2>1 DEF OpOK
<1> QED
  BY <1>1, <1>3, <1>4 DEF IInv

\* The user's write, the tag's move and a stop touch no lineage.
LEMMA EditInv ==
  ASSUME IInv, NEW p \in Paths, NEW c \in Content, Edit(p, c)
  PROVE  IInv'
<1> USE DEF Edit
<1>1. TypeOK'
  BY DEF IInv, TypeOK, Revision
<1>2. TrackedHaveRows'
  BY DEF IInv, TrackedHaveRows
<1>3. \A q \in Paths : by'[q] = IF q = p THEN "user" ELSE by[q]
  BY DEF IInv, TypeOK
<1>4. \A q \in Paths : q # p => files'[q] = files[q]
  BY DEF IInv, TypeOK, Revision
<1>5. WrittenByUs'
  BY <1>3, <1>4 DEF IInv, WrittenByUs, Settled
<1>6. OpOK'
  BY <1>3 DEF IInv, OpOK, TypeOK, Op, Lineage
<1> QED
  BY <1>1, <1>2, <1>5, <1>6 DEF IInv

LEMMA MoveLatestInv ==
  ASSUME IInv, NEW r \in Revision, MoveLatest(r)
  PROVE  IInv'
<1> USE DEF MoveLatest
<1>1. TypeOK'
  BY DEF IInv, TypeOK
<1>2. TrackedHaveRows'
  BY DEF IInv, TrackedHaveRows
<1>3. \A q \in Paths : by'[q] = IF by[q] = "latest" THEN "stale" ELSE by[q]
  OBVIOUS
<1>4. WrittenByUs'
  BY <1>3 DEF IInv, WrittenByUs, Settled
<1>5. OpOK'
  BY <1>3 DEF IInv, OpOK, TypeOK, Op, Lineage
<1> QED
  BY <1>1, <1>2, <1>4, <1>5 DEF IInv

\* An operation that ends without saving: its lineage goes with it.
LEMMA LeaveInv ==
  ASSUME IInv, Leave,
         UNCHANGED <<files, lineage, latest, scope, rules, by, edits, moves>>,
         stops' \in 0..MaxStops
  PROVE  IInv'
<1>1. TypeOK'
  BY IdleTyped DEF Leave, IInv, TypeOK
<1>2. TrackedHaveRows' /\ WrittenByUs'
  BY DEF IInv, TrackedHaveRows, WrittenByUs, Settled
<1>3. OpOK'
  BY DEF Leave, OpOK, Idle
<1> QED
  BY <1>1, <1>2, <1>3 DEF IInv

\* A step that changes only the operation keeps the invariant if the operation
\* stays typed and in order.
LEMMA OpStepInv ==
  ASSUME IInv, UNCHANGED <<files, lineage, by>>, UNCHANGED Environment,
         op' \in Op, OpOK'
  PROVE  IInv'
<1>1. TypeOK'
  BY DEF IInv, TypeOK, Environment
<1>2. TrackedHaveRows' /\ WrittenByUs'
  BY DEF IInv, TrackedHaveRows, WrittenByUs, Settled, Environment
<1> QED
  BY <1>1, <1>2 DEF IInv

LEMMA StopInv ==
  ASSUME IInv, Stop
  PROVE  IInv'
<1>1. stops' \in 0..MaxStops
  BY DEF Stop, IInv, TypeOK
<1> QED
  BY <1>1, LeaveInv DEF Stop

LEMMA StartPullInv ==
  ASSUME IInv, StartPull
  PROVE  IInv'
<1>1. op' \in Op
  BY DEF StartPull, Begin, IInv, TypeOK, Op, Kinds, Stages, Lineage
<1>2. OpOK'
  BY DEF StartPull, Begin, OpOK
<1> QED
  BY <1>1, <1>2, OpStepInv DEF StartPull

LEMMA StartResetInv ==
  ASSUME IInv, StartReset
  PROVE  IInv'
<1> DEFINE todo == {p \in lineage.tracked : latest[p] # Absent}
           gone == {p \in lineage.tracked : latest[p] = Absent}
<1>1. op' = Begin("reset", "placing", latest, todo, gone)
  BY DEF StartReset
<1>2. todo \subseteq Paths /\ gone \subseteq Paths
  BY DEF IInv, TypeOK, Lineage
<1>3. /\ \A p \in todo : latest[p] # Absent
      /\ \A p \in lineage.tracked : p \in todo \cup gone
  OBVIOUS
<1> HIDE DEF todo, gone
<1>4. op' \in Op
  BY <1>1, <1>2 DEF Begin, IInv, TypeOK, Op, Kinds, Stages, Lineage
<1>5. OpOK'
  BY <1>1, <1>3 DEF StartReset, Begin, OpOK
<1> QED
  BY <1>4, <1>5, OpStepInv DEF StartReset

LEMMA StartDownloadInv ==
  ASSUME IInv, NEW ps \in SUBSET Paths, StartDownload(ps)
  PROVE  IInv'
<1>1. op' \in Op
  BY DEF StartDownload, Begin, IInv, TypeOK, Op, Kinds, Stages, Lineage
<1>2. OpOK'
  BY DEF StartDownload, Begin, OpOK
<1> QED
  BY <1>1, <1>2, OpStepInv DEF StartDownload

LEMMA StartUninstallInv ==
  ASSUME IInv, NEW ps \in SUBSET Paths, StartUninstall(ps)
  PROVE  IInv'
<1>1. op' \in Op
  BY DEF StartUninstall, Begin, IInv, TypeOK, Op, Kinds, Stages, Lineage
<1>2. OpOK'
  BY DEF StartUninstall, Begin, OpOK
<1> QED
  BY <1>1, <1>2, OpStepInv DEF StartUninstall

\* A pull's touch set leaves out only paths that stay the same, and tracked
\* paths that the package's rules hide and the remote dropped.
LEMMA WalkInv ==
  ASSUME IInv, Walk
  PROVE  IInv'
<1> DEFINE touched == TouchSet(op, op.to)
           todo == {p \in touched : op.to[p] # Absent}
           gone == {p \in touched \cap op.tracked : op.to[p] = Absent}
<1>0. UNCHANGED <<files, lineage, by>> /\ UNCHANGED Environment
  BY DEF Walk
<1>1. CASE Leave
  BY <1>0, <1>1, LeaveInv DEF Environment, IInv, TypeOK
<1>2. CASE /\ \A p \in op.tracked : op.base[p] # Absent
           /\ Conflicts(op, op.to) = {}
           /\ op' = [op EXCEPT !.stage = "verifying", !.todo = todo, !.gone = gone]
  <2>1. /\ op \in Op /\ op.stage = "walking"
        /\ op.base = lineage.base /\ op.tracked = lineage.tracked
        /\ op.kind \notin {"pull", "reset"} => op.to = lineage.base
    BY DEF Walk, IInv, TypeOK, OpOK
  <2>2. touched \subseteq Paths
    BY DEF TouchSet, Delta
  <2>3. op' \in Op
    BY <1>2, <2>1, <2>2 DEF Op, Stages
  <2>5. ASSUME NEW p \in lineage.tracked, p \notin todo \cup gone, by[p] = "base",
               op.to[p] # lineage.base[p]
        PROVE  op.to[p] = Absent /\ rules[p] = "package"
    <3>1. p \in Paths /\ files[p] = lineage.base[p] /\ lineage.base[p] # Absent
      BY <2>5 DEF IInv, TypeOK, Lineage, TrackedHaveRows, WrittenByUs, Settled
    <3>2. p \in Delta(op, op.to)
      BY <2>1, <2>5, <3>1 DEF Delta
    <3>3. Change(op, p) \in {"none", "removed"}
      BY <2>1, <3>1 DEF Change
    <3>4. CASE Change(op, p) = "none"
      <4>1. p \in touched
        BY <2>1, <2>5, <3>2, <3>4 DEF TouchSet
      <4> QED
        BY <2>1, <2>5, <4>1
    <3>5. CASE Change(op, p) = "removed"
      <4>1. SameResult(op, op.to, p)
        BY <1>2, <3>2, <3>5 DEF Conflicts
      <4>2. op.to[p] = Absent
        BY <4>1, <3>5 DEF SameResult
      <4>3. p \in op.tracked /\ (files[p] = Absent \/ Hidden(op, p))
        BY <3>5 DEF Change
      <4>4. rules[p] = "package"
        BY <4>3, <3>1 DEF Hidden
      <4> QED
        BY <4>2, <4>4
    <3> QED
      BY <3>3, <3>4, <3>5
  <2>6. /\ \A p \in todo : op.to[p] # Absent
        /\ \A p \in gone : op.to[p] = Absent
    OBVIOUS
  <2>7. /\ op'.kind = op.kind /\ op'.stage = "verifying"
        /\ op'.base = op.base /\ op'.tracked = op.tracked
        /\ op'.to = op.to /\ op'.todo = todo /\ op'.gone = gone
    BY <1>2, <2>1 DEF Op
  <2> HIDE DEF touched, todo, gone
  <2>8. OpOK'
    BY <1>0, <2>1, <2>5, <2>6, <2>7 DEF OpOK, Environment
  <2> QED
    BY <1>0, <2>3, <2>8, OpStepInv
<1> QED
  BY <1>1, <1>2 DEF Walk

LEMMA VerifyInv ==
  ASSUME IInv, Verify
  PROVE  IInv'
<1>0. UNCHANGED <<files, lineage, by>> /\ UNCHANGED Environment
  BY DEF Verify
<1>1. CASE Leave
  BY <1>0, <1>1, LeaveInv DEF Environment, IInv, TypeOK
<1>2. CASE op' = [op EXCEPT !.stage = "placing"]
  <2>1. op \in Op /\ op.stage = "verifying"
    BY DEF Verify, IInv, TypeOK
  <2>2. op' \in Op
    BY <1>2, <2>1 DEF Op, Stages
  <2>3. OpOK'
    BY <1>0, <1>2, <2>1 DEF IInv, OpOK, Op, Environment
  <2> QED
    BY <1>0, <2>2, <2>3, OpStepInv
<1> QED
  BY <1>1, <1>2 DEF Verify

LEMMA CheckAbsentInv ==
  ASSUME IInv, CheckAbsent
  PROVE  IInv'
<1>0. UNCHANGED <<files, lineage, by>> /\ UNCHANGED Environment
  BY DEF CheckAbsent
<1>1. CASE Leave
  BY <1>0, <1>1, LeaveInv DEF Environment, IInv, TypeOK
<1>2. ASSUME NEW fetched \in SUBSET op.todo,
             op' = [op EXCEPT !.stage = "placing", !.todo = fetched]
      PROVE  IInv'
  <2>1. op \in Op /\ op.stage = "staged"
    BY DEF CheckAbsent, IInv, TypeOK
  <2>2. op' \in Op
    BY <1>2, <2>1 DEF Op, Stages
  <2>3. OpOK'
    BY <1>0, <1>2, <2>1 DEF IInv, OpOK, Op, Environment
  <2> QED
    BY <1>0, <2>2, <2>3, OpStepInv
<1> QED
  BY <1>1, <1>2 DEF CheckAbsent

\* A path an operation has written or deleted is the operation's, not the base's.
LEMMA PlaceInv ==
  ASSUME IInv, NEW p \in Paths, Place(p)
  PROVE  IInv'
<1>0. /\ op \in Op /\ op.stage = "placing" /\ p \in op.todo
      /\ UNCHANGED lineage /\ UNCHANGED Environment
  BY DEF Place, IInv, TypeOK
<1>1. CASE Leave /\ UNCHANGED <<files, by>>
  BY <1>0, <1>1, LeaveInv DEF Environment, IInv, TypeOK
<1>2. CASE /\ files' = [files EXCEPT ![p] = op.to[p]]
           /\ by' = [by EXCEPT ![p] = Writer]
           /\ op' = [op EXCEPT !.todo = @ \ {p}, !.tracked = @ \cup {p}]
  <2>1. op.to \in Revision /\ op.to[p] \in Content
    BY <1>0 DEF Op, Revision
  <2>2. TypeOK'
    BY <1>0, <1>2, <2>1 DEF IInv, TypeOK, Op, Writer, Revision, Environment
  <2>3. TrackedHaveRows'
    BY <1>0 DEF IInv, TrackedHaveRows
  <2>4. \A q \in Paths : /\ by'[q] = IF q = p THEN Writer ELSE by[q]
                         /\ files'[q] = IF q = p THEN op.to[p] ELSE files[q]
    BY <1>2 DEF IInv, TypeOK, Revision
  <2>5. WrittenByUs'
    BY <1>0, <2>4 DEF IInv, WrittenByUs, Settled, Writer, Environment
  <2>6. OpOK'
    <3>1. /\ op'.stage = "placing" /\ op'.base = op.base /\ op'.to = op.to
          /\ op'.todo = op.todo \ {p} /\ op'.gone = op.gone
          /\ op'.tracked = op.tracked \cup {p}
      BY <1>0, <1>2 DEF Op
    <3>2. op'.tracked \subseteq Paths /\ lineage.tracked \subseteq Paths
      BY <1>0, <3>1 DEF IInv, TypeOK, Op, Lineage
    <3>3. /\ op.base = lineage.base
          /\ op.kind \notin {"pull", "reset"} => op.to = lineage.base
          /\ \A q \in op.tracked \ lineage.tracked : by[q] # "base" /\ q \notin op.todo
          /\ \A q \in lineage.tracked \ op.tracked : by[q] # "base"
          /\ \A q \in op.todo : op.to[q] # Absent
          /\ op.kind # "uninstall" => \A q \in op.gone : op.to[q] = Absent
          /\ \A q \in lineage.tracked \ (op.todo \cup op.gone) :
                by[q] = "base" => \/ op.to[q] = lineage.base[q]
                                  \/ op.to[q] = Absent /\ rules[q] = "package"
      BY <1>0 DEF IInv, OpOK
    <3>4. by'[p] # "base" /\ \A q \in Paths : q # p => by'[q] = by[q]
      BY <2>4 DEF Writer
    <3>5. op'.kind = op.kind /\ rules' = rules /\ lineage' = lineage
      BY <1>0, <1>2 DEF Op, Environment
    <3> QED
      BY <3>1, <3>2, <3>3, <3>4, <3>5 DEF OpOK
  <2> QED
    BY <2>2, <2>3, <2>5, <2>6 DEF IInv
<1> QED
  BY <1>1, <1>2 DEF Place

LEMMA DeleteInv ==
  ASSUME IInv, NEW p \in Paths, Delete(p)
  PROVE  IInv'
<1> DEFINE w == IF op.kind = "uninstall" THEN "user" ELSE Writer
<1>0. /\ op \in Op /\ op.stage = "placing" /\ p \in op.gone
      /\ UNCHANGED lineage /\ UNCHANGED Environment
  BY DEF Delete, IInv, TypeOK
<1>1. CASE Leave /\ UNCHANGED <<files, by>>
  BY <1>0, <1>1, LeaveInv DEF Environment, IInv, TypeOK
<1>2. CASE /\ files' = [files EXCEPT ![p] = Absent]
           /\ by' = [by EXCEPT ![p] = w]
           /\ op' = [op EXCEPT !.gone = @ \ {p}, !.tracked = @ \ {p}]
  <2>1. w \in {"user", "latest", "stale"}
    BY DEF Writer
  <2>11. w = "latest" => op.kind # "uninstall" /\ op.to = latest
    BY DEF Writer
  <2> HIDE DEF w
  <2>2. TypeOK'
    BY <1>0, <1>2, <2>1 DEF IInv, TypeOK, Op, Revision, Content, Environment
  <2>3. TrackedHaveRows'
    BY <1>0 DEF IInv, TrackedHaveRows
  <2>4. \A q \in Paths : /\ by'[q] = IF q = p THEN w ELSE by[q]
                         /\ files'[q] = IF q = p THEN Absent ELSE files[q]
    BY <1>2 DEF IInv, TypeOK, Revision
  <2>5. WrittenByUs'
    BY <1>0, <2>1, <2>11, <2>4 DEF IInv, OpOK, WrittenByUs, Settled, Environment
  <2>6. OpOK'
    <3>1. /\ op'.stage = "placing" /\ op'.base = op.base /\ op'.to = op.to
          /\ op'.todo = op.todo /\ op'.gone = op.gone \ {p}
          /\ op'.tracked = op.tracked \ {p}
      BY <1>0, <1>2 DEF Op
    <3>2. op'.tracked \subseteq Paths /\ lineage.tracked \subseteq Paths
      BY <1>0, <3>1 DEF IInv, TypeOK, Op, Lineage
    <3>3. /\ op.base = lineage.base
          /\ op.kind \notin {"pull", "reset"} => op.to = lineage.base
          /\ \A q \in op.tracked \ lineage.tracked : by[q] # "base" /\ q \notin op.todo
          /\ \A q \in lineage.tracked \ op.tracked : by[q] # "base"
          /\ \A q \in op.todo : op.to[q] # Absent
          /\ op.kind # "uninstall" => \A q \in op.gone : op.to[q] = Absent
          /\ \A q \in lineage.tracked \ (op.todo \cup op.gone) :
                by[q] = "base" => \/ op.to[q] = lineage.base[q]
                                  \/ op.to[q] = Absent /\ rules[q] = "package"
      BY <1>0 DEF IInv, OpOK
    <3>4. by'[p] # "base" /\ \A q \in Paths : q # p => by'[q] = by[q]
      BY <2>1, <2>4
    <3>5. op'.kind = op.kind /\ rules' = rules /\ lineage' = lineage
      BY <1>0, <1>2 DEF Op, Environment
    <3> QED
      BY <3>1, <3>2, <3>3, <3>4, <3>5 DEF OpOK
  <2> QED
    BY <2>2, <2>3, <2>5, <2>6 DEF IInv
<1> QED
  BY <1>1, <1>2 DEF Delete

\* A path nobody wrote since the last save holds the new base's row already, or
\* is dropped.
LEMMA SaveInv ==
  ASSUME IInv, Save
  PROVE  IInv'
<1>0. /\ op \in Op /\ op.stage = "placing" /\ op.todo = {} /\ op.gone = {}
      /\ lineage'.base = op.to
      /\ lineage'.tracked = {p \in op.tracked : op.to[p] # Absent}
      /\ UNCHANGED files /\ UNCHANGED Environment /\ op' = Idle
  BY DEF Save, Leave, IInv, TypeOK
<1>1. \A p \in Paths : by'[p] = IF files[p] = (IF p \in lineage'.tracked THEN op.to[p] ELSE Absent)
                               THEN "base" ELSE by[p]
  BY <1>0 DEF Save, Settled
<1>2. lineage' \in Lineage
  BY <1>0 DEF Save, Lineage, Op
<1>3. TypeOK'
  BY <1>0, <1>2, IdleTyped DEF Save, IInv, TypeOK, Environment
<1>4. TrackedHaveRows'
  BY <1>0 DEF TrackedHaveRows
<1>5. ASSUME NEW p \in Paths, by'[p] = "base", p \in lineage'.tracked \/ rules[p] = "none"
      PROVE  files[p] = (IF p \in lineage'.tracked THEN op.to[p] ELSE Absent)
  <2> SUFFICES ASSUME files[p] # (IF p \in lineage'.tracked THEN op.to[p] ELSE Absent)
               PROVE  FALSE
    OBVIOUS
  <2>1. by[p] = "base"
    BY <1>1, <1>5
  <2>2. p \in lineage'.tracked => p \in op.tracked
    BY <1>0
  <2>3. p \in op.tracked => p \in lineage.tracked
    BY <1>0, <2>1 DEF IInv, OpOK
  <2>4. files[p] = (IF p \in lineage.tracked THEN lineage.base[p] ELSE Absent)
    BY <1>5, <2>1, <2>2, <2>3 DEF IInv, WrittenByUs, Settled
  <2>5. p \in lineage.tracked => \/ op.to[p] = lineage.base[p]
                                 \/ op.to[p] = Absent /\ rules[p] = "package"
    BY <1>0, <2>1 DEF IInv, OpOK
  <2>6. p \in lineage.tracked => p \in op.tracked /\ lineage.base[p] # Absent
    BY <1>0, <2>1 DEF IInv, OpOK, TrackedHaveRows
  <2>7. CASE p \notin lineage.tracked
    BY <2>2, <2>3, <2>4, <2>7
  <2>8. CASE p \in lineage.tracked /\ op.to[p] = lineage.base[p]
    BY <1>0, <2>4, <2>6, <2>8
  <2>9. CASE p \in lineage.tracked /\ op.to[p] = Absent /\ rules[p] = "package"
    BY <1>0, <1>5, <2>9
  <2> QED
    BY <2>5, <2>7, <2>8, <2>9
<1>6. WrittenByUs'
  BY <1>0, <1>1, <1>5 DEF IInv, WrittenByUs, Settled, Environment
<1>7. OpOK'
  BY <1>0 DEF OpOK, Idle
<1> QED
  BY <1>3, <1>4, <1>6, <1>7 DEF IInv

\* The operation is in order and the files' writers are known after every step
\* of the user, of the remote and of the operation.
LEMMA NextInv == IInv /\ [Next]_vars => IInv'
<1> SUFFICES ASSUME IInv, [Next]_vars
             PROVE  IInv'
  OBVIOUS
<1>1. ASSUME NEW p \in Paths, NEW c \in Content, Edit(p, c) PROVE IInv'
  BY <1>1, EditInv
<1>2. ASSUME NEW r \in Revision, MoveLatest(r) PROVE IInv'
  BY <1>2, MoveLatestInv
<1>3. CASE StartPull
  BY <1>3, StartPullInv
<1>4. CASE StartReset
  BY <1>4, StartResetInv
<1>5. ASSUME NEW ps \in SUBSET Paths, StartDownload(ps) \/ StartUninstall(ps) PROVE IInv'
  BY <1>5, StartDownloadInv, StartUninstallInv
<1>6. CASE Step
  BY <1>6, WalkInv, VerifyInv, CheckAbsentInv, PlaceInv, DeleteInv, SaveInv DEF Step
<1>7. CASE Stop
  BY <1>7, StopInv
<1>8. CASE UNCHANGED vars
  <2> USE <1>8 DEF vars
  <2>1. TypeOK'
    BY DEF IInv, TypeOK
  <2>2. TrackedHaveRows' /\ WrittenByUs'
    BY DEF IInv, TrackedHaveRows, WrittenByUs, Settled
  <2>3. OpOK'
    BY DEF IInv, OpOK
  <2> QED
    BY <2>1, <2>2, <2>3 DEF IInv
<1> QED
  BY <1>1, <1>2, <1>3, <1>4, <1>5, <1>6, <1>7, <1>8 DEF Next

\* Tracked paths have rows, what nobody edited holds the base's row, and an
\* operation in flight accounts for every path it leaves alone.
THEOREM InductiveInvariant == Spec => []IInv
<1>1. Init => IInv
  BY InitInv
<1>2. IInv /\ [Next]_vars => IInv'
  BY NextInv
<1> QED
  BY <1>1, <1>2, PTL DEF Spec

\* Only the user's work, a rule, or bytes of a revision no longer the latest
\* ever blocks a pull, whatever was stopped before it.
THEOREM InterruptionsDoNotBlock == Spec => []OnlyEditsBlock
<1>1. IInv => OnlyEditsBlock
  <2> SUFFICES ASSUME IInv, NEW p \in Conflicts(lineage, latest),
                      by[p] \notin {"user", "stale"}, rules[p] = "none"
               PROVE  FALSE
    BY DEF OnlyEditsBlock
  <2>1. p \in Paths /\ p \in Delta(lineage, latest)
    BY DEF Conflicts, Delta
  <2>2. ~Hidden(lineage, p)
    BY DEF Hidden
  <2>3. CASE by[p] = "base"
    <3>1. files[p] = (IF p \in lineage.tracked THEN lineage.base[p] ELSE Absent)
      BY <2>1, <2>3 DEF IInv, WrittenByUs, Settled
    <3>2. Change(lineage, p) = "none"
      BY <2>2, <3>1 DEF Change, IInv, TrackedHaveRows
    <3>3. ~InTheWay(lineage, latest, p)
      BY <3>1 DEF InTheWay
    <3> QED
      BY <3>2, <3>3 DEF Conflicts
  <2>4. CASE by[p] = "latest"
    <3>1. files[p] = latest[p]
      BY <2>1, <2>4 DEF IInv, WrittenByUs
    <3>2. ~InTheWay(lineage, latest, p)
      BY <3>1 DEF InTheWay
    <3>3. SameResult(lineage, latest, p)
      BY <2>2, <3>1 DEF SameResult, Change
    <3> QED
      BY <3>2, <3>3 DEF Conflicts
  <2> QED
    BY <2>1, <2>3, <2>4 DEF IInv, TypeOK
<1> QED
  BY <1>1, InductiveInvariant, PTL

\* What the user writes while a pull is under way is not replaced by it.
THEOREM PullRenamesKeepEdits == Spec => RenamesKeepEdits
<1> DEFINE Keeps ==
      \A p \in Paths :
          op.kind = "pull" /\ files'[p] # files[p] /\ files'[p] # Absent
              /\ edits' = edits
          => files[p] \in {Absent, op.base[p]}
<1>1. IInv /\ [Next]_vars => Keeps
  <2> SUFFICES ASSUME IInv, [Next]_vars, NEW p \in Paths,
                      op.kind = "pull", files'[p] # files[p], files'[p] # Absent,
                      edits' = edits
               PROVE  files[p] \in {Absent, op.base[p]}
    OBVIOUS
  <2>1. ASSUME NEW q \in Paths, NEW c \in Content, Edit(q, c) PROVE FALSE
    BY <2>1 DEF Edit, IInv, TypeOK
  <2>2. ASSUME NEW q \in Paths, Place(q) PROVE files[p] \in {Absent, op.base[p]}
    <3>1. /\ op.stage = "placing" /\ q \in op.todo
          /\ Unchanged(q) /\ files' = [files EXCEPT ![q] = op.to[q]]
      BY <2>2 DEF Place
    <3>2. p = q /\ files'[p] = op.to[p]
      BY <3>1 DEF IInv, TypeOK, Revision
    <3>3. q \in op.tracked => op.base[q] # Absent
      BY <3>1 DEF IInv, OpOK, TrackedHaveRows
    <3> QED
      BY <3>1, <3>2, <3>3 DEF Unchanged
  <2>3. ASSUME NEW q \in Paths, Delete(q) PROVE FALSE
    BY <2>3 DEF Delete, IInv, TypeOK, Revision
  <2>4. CASE files' = files
    BY <2>4
  <2> QED
    BY <2>1, <2>2, <2>3, <2>4
    DEF Next, Step, MoveLatest, StartPull, StartReset, StartDownload, StartUninstall,
        Walk, Verify, CheckAbsent, Save, Stop, vars
<1>2. IInv /\ [Next]_vars => [Keeps]_vars
  BY <1>1
<1> QED
  BY <1>2, InductiveInvariant, PTL DEF Spec, RenamesKeepEdits

-----------------------------------------------------------------------------
(* One working copy of PackageSync                                          *)

LEMMA EntryTyped ==
  ASSUME NEW r \in Revision
  PROVE  /\ FourHashes(r) \in Pk!Entry /\ FourHashes(r) # NotInstalled
         /\ Pk!Moved(r) = FourHashes(r)
<1>1. <<>> \in Seq(Revision)
  OBVIOUS
<1>2. FourHashes(r) \in Pk!Entry
  BY <1>1 DEF FourHashes, Pk!Entry
<1> QED
  BY <1>2, EntryMarked DEF FourHashes, Pk!Moved

\* The operation is over, or aims at what it aimed at.
AimKept == op' = Idle \/ (op'.kind = op.kind /\ op'.to = op.to)

LEMMA StepsKeepAim ==
  ASSUME IInv, NEW p, Walk \/ Verify \/ CheckAbsent \/ Stop \/ Place(p) \/ Delete(p)
  PROVE  op.stage # "idle" /\ UNCHANGED lineage /\ AimKept
<1>1. op.stage # "idle" /\ UNCHANGED lineage
  BY DEF Walk, Verify, CheckAbsent, Stop, Place, Delete
<1>2. \/ op' = Idle
      \/ \E todo, gone : op' = [op EXCEPT !.stage = "verifying", !.todo = todo, !.gone = gone]
      \/ \E todo : op' = [op EXCEPT !.stage = "placing", !.todo = todo]
      \/ op' = [op EXCEPT !.stage = "placing"]
      \/ \E todo, tracked : op' = [op EXCEPT !.todo = todo, !.tracked = tracked]
      \/ \E gone, tracked : op' = [op EXCEPT !.gone = gone, !.tracked = tracked]
  BY DEF Walk, Verify, CheckAbsent, Stop, Place, Delete, Leave
<1>3. op \in Op
  BY DEF IInv, TypeOK
<1> QED
  BY <1>1, <1>2, <1>3 DEF AimKept, Op

\* Of an operation that goes on, or that is a download or an uninstall, nothing
\* is seen; of one that stops, that it is gone.
LEMMA Unseen ==
  ASSUME op.stage # "idle", UNCHANGED lineage,
         AimKept
  PROVE  Dropped \/ Fetch' = Fetch
<1> USE DEF AimKept
<1>1. CASE op'.kind = op.kind /\ op'.to = op.to
  BY <1>1 DEF Fetch
<1>2. CASE op' = Idle /\ op.kind \in {"pull", "reset"}
  BY <1>2 DEF Dropped, Pk!Running, Fetch, Idle
<1>3. CASE op' = Idle /\ op.kind \notin {"pull", "reset"}
  BY <1>3 DEF Fetch, Idle
<1> QED
  BY <1>1, <1>2, <1>3

\* A fetch begins at the revision the tag names, from an entry at another.
LEMMA FetchBegins ==
  ASSUME IInv, StartPull \/ StartReset
  PROVE  Pk!Pull(Here) \/ Pk!Reset(Here)
<1> DEFINE e == FourHashes(lineage.base)
           f == FourHashes(latest)
<1>1. /\ lineage.base \in Revision /\ latest \in Revision /\ latest # lineage.base
      /\ op = Idle /\ UNCHANGED <<lineage, latest>>
  BY DEF StartPull, StartReset, Environment, IInv, TypeOK, Lineage, OpOK
<1>2. /\ e \in Pk!Entry /\ e # NotInstalled
      /\ Pk!Moved(latest) = f
  BY <1>1, EntryTyped
<1>3. /\ e.remote = lineage.base /\ e.base = lineage.base /\ e.chain = <<>>
      /\ e.remote # NoRemote /\ latest # NoHash
  BY <1>1, MarkersAssumption DEF FourHashes
<1>4. Fetch.at = "idle"
  BY <1>1 DEF Fetch, Idle
<1>5. Pk!CanFetch(Here) /\ ~Pk!Pending(e)
  BY <1>2, <1>3, <1>4 DEF Pk!CanFetch, Pk!Ready, Pk!Running, Pk!Installed, Pk!Pending
<1>6. CASE StartPull
  <2>1. Fetch' = [kind |-> "pull", at |-> "save", lin |-> f, pushing |-> <<>>]
    BY <1>1, <1>6 DEF StartPull, Begin, Fetch
  <2>2. Pk!Begin(Here, "pull", "save", Pk!Moved(latest))
    BY <1>2, <2>1 DEF Pk!Begin
  <2> QED
    BY <1>1, <1>3, <1>5, <2>2 DEF Pk!Pull
<1>7. CASE StartReset
  <2>1. Fetch' = [kind |-> "reset", at |-> "save", lin |-> f, pushing |-> <<>>]
    BY <1>1, <1>7 DEF StartReset, Begin, Fetch
  <2>2. Pk!Begin(Here, "reset", "save", Pk!Moved(latest))
    BY <1>2, <2>1 DEF Pk!Begin
  <2> QED
    BY <1>1, <1>3, <1>5, <2>2 DEF Pk!Reset
<1> QED
  BY <1>6, <1>7

\* What is saved at the end is the revision of the beginning; a download or an
\* uninstall saves the base that it found.
LEMMA FetchSaves ==
  ASSUME IInv, Save
  PROVE  Pk!SaveLineage(Here) \/ UNCHANGED <<lineage.base, Fetch>>
<1>1. /\ op.stage = "placing" /\ lineage'.base = op.to /\ op' = Idle
      /\ op.kind \notin {"pull", "reset"} => op.to = lineage.base
      /\ UNCHANGED latest
  BY DEF Save, Leave, Environment, IInv, OpOK
<1>2. CASE op.kind \in {"pull", "reset"}
  <2>1. /\ Fetch = [kind |-> op.kind, at |-> "save", lin |-> FourHashes(op.to), pushing |-> <<>>]
        /\ Fetch' = [kind |-> "idle", at |-> "idle", lin |-> NotInstalled, pushing |-> <<>>]
    BY <1>1, <1>2 DEF Fetch, Idle
  <2>2. Pk!Save(Here, FourHashes(op.to))
    BY <1>1 DEF Pk!Save
  <2> QED
    BY <1>1, <1>2, <2>1, <2>2 DEF Pk!SaveLineage, Pk!Idle
<1>3. CASE op.kind \notin {"pull", "reset"}
  BY <1>1, <1>3 DEF Fetch, Idle
<1> QED
  BY <1>2, <1>3

\* Of files placed, deleted and edited, of walks, downloads and uninstalls, and
\* of an operation that stops anywhere, the entry shows a fetch that begins at
\* the tag, one that is saved, one that is dropped, or nothing.
THEOREM FetchesAreAtomic == Spec => ImplementsFetches
<1> DEFINE Seen == \/ Pk!Pull(Here) \/ Pk!Reset(Here)
                   \/ Pk!SaveLineage(Here)
                   \/ Dropped
<1>1. Init => lineage.base = latest
  BY DEF Init
<1>2. IInv /\ [Next]_vars
        => [<<lineage.base, Fetch>>' # <<lineage.base, Fetch>> => Seen]_vars
  <2> SUFFICES ASSUME IInv, Next
               PROVE  Seen \/ UNCHANGED <<lineage.base, Fetch>>
    OBVIOUS
  <2>1. CASE UNCHANGED <<lineage, op>>
    BY <2>1 DEF Fetch
  <2>2. CASE StartPull \/ StartReset
    BY <2>2, FetchBegins
  <2>3. ASSUME NEW ps \in SUBSET Paths, StartDownload(ps) \/ StartUninstall(ps)
        PROVE  UNCHANGED <<lineage.base, Fetch>>
    <3>1. op = Idle /\ UNCHANGED lineage /\ op'.kind \in {"download", "uninstall"}
      BY <2>3 DEF StartDownload, StartUninstall, Begin, IInv, OpOK
    <3> QED
      BY <3>1 DEF Fetch, Idle
  <2>4. op.stage # "idle" /\ UNCHANGED lineage /\ AimKept
          => Dropped \/ UNCHANGED <<lineage.base, Fetch>>
    BY Unseen DEF AimKept
  <2>6. CASE Walk \/ Verify \/ CheckAbsent \/ Stop
    BY <2>4, <2>6, StepsKeepAim
  <2>7. ASSUME NEW p \in Paths, Place(p) \/ Delete(p)
        PROVE  Dropped \/ UNCHANGED <<lineage.base, Fetch>>
    BY <2>4, <2>7, StepsKeepAim
  <2>8. CASE Save
    BY <2>8, FetchSaves
  <2>9. ASSUME NEW p \in Paths, NEW c \in Content, Edit(p, c)
        PROVE  UNCHANGED <<lineage, op>>
    BY <2>9 DEF Edit
  <2>10. ASSUME NEW r \in Revision, MoveLatest(r)
         PROVE  UNCHANGED <<lineage, op>>
    BY <2>10 DEF MoveLatest
  <2> HIDE DEF Seen
  <2> QED
    BY <2>1, <2>2, <2>3, <2>6, <2>7, <2>8, <2>9, <2>10 DEF Next, Step, Seen
<1> QED
  BY <1>1, <1>2, InductiveInvariant, PTL DEF Spec, ImplementsFetches

=============================================================================
