------------------------- MODULE AuthSession_proofs -------------------------
(* Proofs about AuthSession, for any tasks, processes, roles and bound.     *)
EXTENDS AuthSession, SequenceTheorems, TLAPS

USE AuthSessionAssumption, NoneAssumption

LEMMA IdleTyped == Idle \in Op
  BY DEF Idle, Op, Kinds, Stages

LEMMA IdleHolds ==
  ASSUME TypeOK, NEW p \in Processes
  PROVE  /\ TokenInHand(Idle) /\ CredsInHand(Idle) /\ AnswerInHand(Idle)
         /\ IdentityInHand(Idle, p)
  BY DEF TypeOK, Idle, TokenInHand, CredsInHand, AnswerInHand, IdentityInHand

LEMMA InitInv == Init => IInv
<1> SUFFICES ASSUME Init PROVE IInv
  OBVIOUS
<1>1. Epoch = 1 /\ Len(rotation) = 1 /\ Sessions = {1} /\ rotation[1] = 0
  BY DEF Init, Epoch, Sessions
<1>2. TypeOK
  <2>1. roles \in Seq(Roles) \ {<<>>} /\ rotation \in Seq(Nat)
    BY DEF Init
  <2>2. tokens \in Token \cup {None} /\ creds \in Creds \cup {None}
    BY DEF Init, Token, Creds
  <2> QED
    BY <2>1, <2>2, IdleTyped DEF Init, TypeOK
<1>3. \A t \in Tasks : op[t] = Idle /\ op[t].stage = "idle"
  BY DEF Init, Idle
<1>4. InHand /\ NewLogins /\ Ownership
  <2>1. InHand
    BY <1>2, <1>3, IdleHolds DEF InHand
  <2>2. NewLogins
    BY <1>3 DEF NewLogins
  <2>3. Ownership
    BY <1>3 DEF Ownership, Locked, Init
  <2> QED BY <2>1, <2>2, <2>3
<1>5. Issued
  BY <1>1 DEF Init, Issued
<1>6. StoredFresh
  BY <1>1 DEF Init, StoredFresh, Fresh, Current, Sessions
<1>7. CachedAreCurrent /\ ClientsFollow
  BY DEF Init, CachedAreCurrent, ClientsFollow, Cached
<1>8. FlushHolds /\ BaselineHolds /\ LogoutIsFinal
  BY DEF Init, FlushHolds, BaselineHolds, LogoutIsFinal, Follows, Outside
<1> QED
  BY <1>2, <1>4, <1>5, <1>6, <1>7, <1>8 DEF IInv

-----------------------------------------------------------------------------
(* Steps that change the call alone                                         *)

\* Nobody else's share of the lock changes.
OthersLock(t) == \A u \in Tasks \ {t} : lock' = u <=> lock = u

\* A call goes on to o.  No new session or answer comes in but what the server
\* has issued, and none is dropped on its way to the disk.
LEMMA OpClientStep ==
  ASSUME IInv, NEW t \in Tasks, NEW o \in Op,
         op' = [op EXCEPT ![t] = o],
         lock' \in Tasks \cup {Free}, o.stage \in Locked <=> lock' = t, OthersLock(t),
         roles' \in Seq(Roles) \ {<<>>}, Len(roles') >= Epoch, events' \in Nat,
         UNCHANGED <<rotation, disk, baseline, gen, cleared, history>>,
         client' \in [Processes -> Client \cup {None}], CachedAreCurrent', ClientsFollow',
         op[t].stage \notin {"storing", "flushing"}, o.stage # "entered",
         o.tok # None => o.tok = op[t].tok \/ o.tok = tokens,
         TokenInHand(o), CredsInHand(o), IdentityInHand(o, ProcessOf[t]),
         o.stage \in {"observing", "flushing"} =>
            o.answer \in 1..Len(roles') /\ o.answer >= flushed
  PROVE  IInv'
<1> USE DEF disk, history
<1>1. /\ op[t] \in Op /\ op'[t] = o
      /\ \A u \in Tasks \ {t} : op'[u] = op[u]
  BY DEF IInv, TypeOK
<1>2. TypeOK'
  BY DEF IInv, TypeOK
<1>3. Ownership'
  BY <1>1 DEF IInv, Ownership, OthersLock
<1>4. Epoch' \in Nat /\ Epoch \in Nat /\ Epoch' >= Epoch
  BY DEF Epoch, IInv, TypeOK
<1>5. Issued'
  BY <1>4, SMTT(30) DEF IInv, TypeOK, Issued, Sessions
<1>6. StoredFresh'
  <2>1. ASSUME NEW s, Storing(s) PROVE Storing(s)'
    BY <1>1, <2>1 DEF Storing
  <2> QED
    BY <2>1 DEF IInv, StoredFresh, Fresh, Current
<1>7. NewLogins'
  <2> SUFFICES ASSUME NEW u \in Tasks, op'[u].stage = "entered"
               PROVE  LET s == op'[u].tok.session IN
                      /\ s \notin ended
                      /\ tokens # None => tokens.session # s
                      /\ creds # None => creds.session # s
                      /\ \A v \in Tasks \ {u} : op'[v].tok # None => op'[v].tok.session # s
    BY DEF NewLogins
  <2>1. u # t /\ op'[u] = op[u]
    BY <1>1
  <2> QED
    BY <1>1, <2>1 DEF IInv, NewLogins
<1>8. InHand'
  <2> SUFFICES ASSUME NEW u \in Tasks
               PROVE  /\ TokenInHand(op[u])' /\ CredsInHand(op[u])' /\ AnswerInHand(op[u])'
                      /\ IdentityInHand(op[u], ProcessOf[u])'
    BY DEF InHand
  <2>1. /\ TokenInHand(op'[u]) /\ CredsInHand(op'[u])
        /\ IdentityInHand(op'[u], ProcessOf[u])
    BY <1>1 DEF IInv, InHand
  <2>2. TokenInHand(op[u])'
    BY <2>1 DEF TokenInHand, Fresh, Current, Sessions
  <2>3. CredsInHand(op[u])'
    BY <2>1 DEF CredsInHand
  <2>4. IdentityInHand(op[u], ProcessOf[u])'
    BY <2>1 DEF IdentityInHand, Follows, Outside
  <2>5. AnswerInHand(op[u])'
    <3>1. CASE u = t
      BY <1>1, <3>1 DEF AnswerInHand, Epoch
    <3>2. CASE u # t
      <4>1. AnswerInHand(op[u]) /\ op'[u] = op[u] /\ op[u] \in Op
        BY <1>1, <3>2 DEF IInv, InHand, TypeOK
      <4> QED
        BY <1>4, <4>1 DEF AnswerInHand, Op
    <3> QED BY <3>1, <3>2
  <2> QED
    BY <2>2, <2>3, <2>4, <2>5
<1>9. FlushHolds' /\ LogoutIsFinal'
  BY DEF IInv, FlushHolds, LogoutIsFinal, Follows, Outside
<1>10. BaselineHolds'
  <2>1. ASSUME NEW p \in Processes, Flushing(p) PROVE Flushing(p)'
    BY <1>1, <2>1 DEF Flushing
  <2> QED
    BY <2>1 DEF IInv, BaselineHolds, Follows
<1> QED
  BY <1>2, <1>3, <1>5, <1>6, <1>7, <1>8, <1>9, <1>10 DEF IInv
LEMMA OpStep ==
  ASSUME IInv, NEW t \in Tasks, NEW o \in Op,
         op' = [op EXCEPT ![t] = o],
         lock' \in Tasks \cup {Free}, o.stage \in Locked <=> lock' = t, OthersLock(t),
         roles' \in Seq(Roles) \ {<<>>}, Len(roles') >= Epoch, events' \in Nat,
         UNCHANGED <<rotation, disk, local, history>>,
         op[t].stage \notin {"storing", "flushing"}, o.stage # "entered",
         o.tok # None => o.tok = op[t].tok \/ o.tok = tokens,
         TokenInHand(o), CredsInHand(o), IdentityInHand(o, ProcessOf[t]),
         o.stage \in {"observing", "flushing"} =>
            o.answer \in 1..Len(roles') /\ o.answer >= flushed
  PROVE  IInv'
<1>1. UNCHANGED <<client, baseline, gen, cleared>>
  BY DEF local
<1>2. /\ client' \in [Processes -> Client \cup {None}]
      /\ CachedAreCurrent' /\ ClientsFollow'
  BY <1>1 DEF IInv, TypeOK, CachedAreCurrent, ClientsFollow, Cached, Follows, Outside
<1> QED
  BY <1>1, <1>2, OpClientStep

\* What the invariant says of one call.
LEMMA Has ==
  ASSUME IInv, NEW t \in Tasks
  PROVE  /\ op \in [Tasks -> Op] /\ op[t] \in Op /\ ProcessOf[t] \in Processes
         /\ TokenInHand(op[t]) /\ CredsInHand(op[t]) /\ AnswerInHand(op[t])
         /\ IdentityInHand(op[t], ProcessOf[t])
         /\ Epoch \in Nat /\ Epoch >= 1 /\ Epoch = Len(roles)
         /\ roles \in Seq(Roles) \ {<<>>} /\ rotation \in Seq(Nat)
  BY DEF IInv, TypeOK, InHand, Epoch

LEMMA Leaving ==
  ASSUME IInv, NEW t \in Tasks, Leave(t)
  PROVE  /\ op' = [op EXCEPT ![t] = Idle] /\ Idle \in Op
         /\ lock' \in Tasks \cup {Free}
         /\ lock' # t /\ Idle.stage \notin Locked
         /\ OthersLock(t)
  BY IdleTyped DEF Leave, Put, Unlock, IInv, TypeOK, OthersLock, Idle, Locked

\* A call that leaves, with nothing unsaved and nothing to flush for.
LEMMA LeaveStep ==
  ASSUME IInv, NEW t \in Tasks, Leave(t), events' \in Nat,
         UNCHANGED <<server, disk, local, history>>,
         op[t].stage \notin {"storing", "flushing"}
  PROVE  IInv'
<1>1. /\ TokenInHand(Idle) /\ CredsInHand(Idle) /\ IdentityInHand(Idle, ProcessOf[t])
      /\ Idle.tok = None /\ Idle.stage = "idle"
  BY IdleHolds, Has DEF Idle, IInv
<1>2. roles' \in Seq(Roles) \ {<<>>} /\ Len(roles') >= Epoch /\ rotation' = rotation
  BY Has DEF server
<1> QED
  BY <1>1, <1>2, Leaving, OpStep

\* A step of a call that keeps the lock, if it has it, and sees the same world.
LEMMA SameWorld ==
  ASSUME IInv, NEW t \in Tasks, NEW o \in Op,
         op' = [op EXCEPT ![t] = o], lock' = lock, events' \in Nat,
         o.stage \in Locked <=> op[t].stage \in Locked,
         UNCHANGED <<server, disk, local, history>>,
         op[t].stage \notin {"storing", "flushing"}, o.stage # "entered",
         o.tok # None => o.tok = op[t].tok \/ o.tok = tokens,
         TokenInHand(o), CredsInHand(o), AnswerInHand(o), IdentityInHand(o, ProcessOf[t])
  PROVE  IInv'
<1>1. lock' \in Tasks \cup {Free} /\ OthersLock(t) /\ (o.stage \in Locked <=> lock' = t)
  BY DEF IInv, TypeOK, Ownership, OthersLock
<1>2. roles' \in Seq(Roles) \ {<<>>} /\ Len(roles') >= Epoch /\ rotation' = rotation /\ roles' = roles
  BY Has DEF server
<1> QED
  BY <1>1, <1>2, OpStep, Has DEF AnswerInHand

LEMMA StartInv ==
  ASSUME IInv, NEW t \in Tasks, NEW kind \in Kinds,
         NEW stage \in {"opening", "waiting", "entering", "clearing"},
         Start(t, kind, stage)
  PROVE  IInv'
<1> DEFINE o == [Idle EXCEPT !.kind = kind, !.stage = stage]
<1>1. o \in Op /\ op' = [op EXCEPT ![t] = o]
  BY IdleTyped DEF Start, Put, Op, Stages
<1>2. /\ TokenInHand(o) /\ CredsInHand(o) /\ AnswerInHand(o)
      /\ IdentityInHand(o, ProcessOf[t])
  BY Has, SMTT(30) DEF Idle, TokenInHand, CredsInHand, AnswerInHand, IdentityInHand, IInv, TypeOK
<1>3. /\ o.stage \notin Locked /\ o.stage # "entered" /\ o.tok = None
      /\ op[t].stage = "idle" /\ op[t].stage \notin Locked
  BY DEF Start, Idle, Locked
<1>4. events' \in Nat /\ lock' = lock /\ UNCHANGED <<server, disk, local, history>>
  BY DEF Start, Happens, IInv, TypeOK
<1> HIDE DEF o
<1> QED
  BY <1>1, <1>2, <1>3, <1>4, SameWorld

LEMMA StartsInv ==
  ASSUME IInv, NEW t \in Tasks,
         Use(t) \/ Login(t) \/ Logout(t)
            \/ \E kind \in {"switch", "observe", "list"} : RoleCall(t, kind)
  PROVE  IInv'
  BY StartInv DEF Use, Login, Logout, RoleCall, Kinds

LEMMA OpenInv ==
  ASSUME IInv, NEW t \in Tasks, Open(t)
  PROVE  IInv'
<1> DEFINE p == ProcessOf[t]
           a == [op[t] EXCEPT !.stage = "signing", !.cgen = client[p].gen]
           b == [op[t] EXCEPT !.stage = "checking", !.building = TRUE, !.cgen = gen[p]]
<1>1. events' \in Nat /\ lock' = lock /\ UNCHANGED <<server, disk, local, history>>
  BY DEF Open, IInv, TypeOK
<1>2. op[t].stage = "opening" /\ p \in Processes /\ gen[p] \in Nat
  BY Has DEF Open, IInv, TypeOK
<1>3. CASE Cached(p)
  <2>1. client[p].gen = gen[p] /\ op' = [op EXCEPT ![t] = a]
    BY <1>2, <1>3 DEF Open, Put, IInv, CachedAreCurrent
  <2>2. a \in Op
    <3>1. client[p].gen \in Nat /\ "signing" \in Stages
      BY <1>2, <2>1 DEF Stages
    <3> QED BY <3>1, Has DEF Op
  <2>3. /\ TokenInHand(a) /\ CredsInHand(a) /\ AnswerInHand(a)
        /\ IdentityInHand(a, p)
    BY <1>2, <2>1, Has DEF Op, TokenInHand, CredsInHand, AnswerInHand, IdentityInHand
  <2>4. a.stage = "signing" /\ a.tok = op[t].tok
    BY Has DEF Op
  <2> HIDE DEF a
  <2> QED
    BY <1>1, <1>2, <2>1, <2>2, <2>3, <2>4, SameWorld DEF Locked
<1>4. CASE ~Cached(p)
  <2>1. op' = [op EXCEPT ![t] = b]
    BY <1>4 DEF Open, Put
  <2>2. b \in Op
    <3>1. gen[p] \in Nat /\ "checking" \in Stages
      BY <1>2 DEF Stages
    <3> QED
      BY <3>1, Has DEF Op
  <2>3. /\ TokenInHand(b) /\ CredsInHand(b) /\ AnswerInHand(b)
        /\ IdentityInHand(b, p)
    BY <1>2, Has DEF Op, TokenInHand, CredsInHand, AnswerInHand, IdentityInHand
  <2>4. b.stage = "checking" /\ b.tok = op[t].tok
    BY Has DEF Op
  <2> HIDE DEF b
  <2> QED
    BY <1>1, <1>2, <2>1, <2>2, <2>3, <2>4, SameWorld DEF Locked
<1> QED BY <1>3, <1>4

\* The call only changes its stage.
LEMMA GotoStep ==
  ASSUME IInv, NEW t \in Tasks, NEW stage \in Stages, Goto(t, stage)
  PROVE  LET o == [op[t] EXCEPT !.stage = stage] IN
         /\ op' = [op EXCEPT ![t] = o]
         /\ o \in Op /\ o.stage = stage /\ o.tok = op[t].tok /\ o.got = op[t].got
         /\ o.answer = op[t].answer /\ o.cgen = op[t].cgen
  BY Has DEF Goto, Op

LEMMA SignInv ==
  ASSUME IInv, NEW t \in Tasks, Sign(t)
  PROVE  IInv'
<1>1. /\ events' \in Nat /\ lock' = lock /\ UNCHANGED <<server, disk, local, history>>
      /\ op[t].stage = "signing"
  BY DEF Sign, IInv, TypeOK
<1>2. CASE Goto(t, "checking")
  <2> DEFINE o == [op[t] EXCEPT !.stage = "checking"]
  <2>1. /\ op' = [op EXCEPT ![t] = o] /\ o \in Op
        /\ o.stage = "checking" /\ o.tok = op[t].tok /\ o.cgen = op[t].cgen
    BY <1>2, GotoStep DEF Stages
  <2> HIDE DEF o
  <2>2. /\ TokenInHand(o) /\ CredsInHand(o) /\ AnswerInHand(o)
        /\ IdentityInHand(o, ProcessOf[t])
    BY <1>1, <2>1, Has DEF TokenInHand, CredsInHand, AnswerInHand, IdentityInHand
  <2> QED
    BY <1>1, <2>1, <2>2, SameWorld DEF Locked
<1>3. CASE Put(t, Idle)
  <2>1. Leave(t)
    BY <1>1, <1>3 DEF Leave, Unlock, IInv, Ownership, Locked
  <2> QED
    BY <1>1, <2>1, LeaveStep
<1> QED
  BY <1>2, <1>3 DEF Sign
\* Credentials read from the disk are as new as any clearing of clients before.
LEMMA DiskIsCurrent ==
  ASSUME IInv, NEW p \in Processes
  PROVE  Follows(creds, cleared[p].epoch) /\ Outside(creds, cleared[p].out)
<1>1. /\ flushed \in Nat /\ cleared[p].epoch \in Nat /\ cleared[p].epoch <= flushed
      /\ cleared[p].out \subseteq ended
      /\ creds # None => creds \in Creds
  BY DEF IInv, TypeOK, Issued
<1>2. Follows(creds, flushed) /\ Outside(creds, ended)
  BY DEF IInv, FlushHolds, LogoutIsFinal
<1> QED
  BY <1>1, <1>2 DEF Follows, Outside, Creds

\* The call has read the credentials and returns them.
LEMMA Returning ==
  ASSUME IInv, NEW t \in Tasks, creds # None
  PROVE  LET o == [op[t] EXCEPT !.stage = "returning", !.got = creds] IN
         /\ o \in Op /\ o.stage = "returning" /\ o.tok = op[t].tok
         /\ TokenInHand(o) /\ CredsInHand(o) /\ AnswerInHand(o)
         /\ IdentityInHand(o, ProcessOf[t])
<1> DEFINE o == [op[t] EXCEPT !.stage = "returning", !.got = creds]
<1>1. /\ o \in Op /\ o.stage = "returning" /\ o.tok = op[t].tok /\ o.got = creds
      /\ o.cgen = op[t].cgen
  <2>1. creds \in Creds /\ "returning" \in Stages
    BY DEF IInv, TypeOK, Stages
  <2> QED BY <2>1, Has DEF Op
<1> HIDE DEF o
<1>2. TokenInHand(o) /\ CredsInHand(o) /\ AnswerInHand(o)
  BY <1>1, Has DEF TokenInHand, CredsInHand, AnswerInHand
<1>3. IdentityInHand(o, ProcessOf[t])
  BY <1>1, Has, DiskIsCurrent DEF IdentityInHand
<1> QED
  BY <1>1, <1>2, <1>3 DEF o

LEMMA CheckCredentialsInv ==
  ASSUME IInv, NEW t \in Tasks, CheckCredentials(t)
  PROVE  IInv'
<1>1. /\ events' \in Nat /\ lock' = lock /\ UNCHANGED <<server, disk, local, history>>
      /\ op[t].stage = "checking"
  BY DEF CheckCredentials, IInv, TypeOK
<1>2. CASE creds # None
  <2> DEFINE o == [op[t] EXCEPT !.stage = "returning", !.got = creds]
  <2>1. op' = [op EXCEPT ![t] = o]
    BY <1>2 DEF CheckCredentials, Put
  <2>2. /\ o \in Op /\ o.stage = "returning" /\ o.tok = op[t].tok
        /\ TokenInHand(o) /\ CredsInHand(o) /\ AnswerInHand(o)
        /\ IdentityInHand(o, ProcessOf[t])
    BY <1>2, Returning
  <2> HIDE DEF o
  <2> QED
    BY <1>1, <2>1, <2>2, SameWorld DEF Locked
<1>3. CASE creds = None /\ Goto(t, "waiting")
  <2> DEFINE o == [op[t] EXCEPT !.stage = "waiting"]
  <2>1. /\ op' = [op EXCEPT ![t] = o] /\ o \in Op
        /\ o.stage = "waiting" /\ o.tok = op[t].tok /\ o.cgen = op[t].cgen
    BY <1>3, GotoStep DEF Stages
  <2> HIDE DEF o
  <2>2. /\ TokenInHand(o) /\ CredsInHand(o) /\ AnswerInHand(o)
        /\ IdentityInHand(o, ProcessOf[t])
    BY <1>1, <2>1, Has DEF TokenInHand, CredsInHand, AnswerInHand, IdentityInHand
  <2> QED
    BY <1>1, <2>1, <2>2, SameWorld DEF Locked
<1>4. CASE creds = None /\ Put(t, Idle)
  <2>1. Leave(t)
    BY <1>1, <1>4 DEF Leave, Unlock, IInv, Ownership, Locked
  <2> QED
    BY <1>1, <2>1, LeaveStep
<1> QED
  BY <1>2, <1>3, <1>4 DEF CheckCredentials

LEMMA TakeLockInv ==
  ASSUME IInv, NEW t \in Tasks, TakeLock(t)
  PROVE  IInv'
<1> DEFINE stage == CASE op[t].kind = "use"    -> "rechecking"
                      [] op[t].kind = "logout" -> "erasing"
                      [] OTHER                 -> "token"
           o == [op[t] EXCEPT !.stage = stage]
<1>1. stage \in {"rechecking", "erasing", "token"} /\ stage \in Stages
  BY DEF Stages, Locked
<1>2. Goto(t, stage)
  BY DEF TakeLock, Enter
<1> HIDE DEF stage
<1>3. /\ op' = [op EXCEPT ![t] = o] /\ o \in Op
      /\ o.stage = stage /\ o.tok = op[t].tok /\ o.cgen = op[t].cgen
  BY <1>1, <1>2, GotoStep
<1> HIDE DEF o
<1>4. /\ events' \in Nat /\ UNCHANGED <<server, disk, local, history>>
      /\ op[t].stage = "waiting" /\ lock = Free /\ lock' = t
  BY DEF TakeLock, Enter, IInv, TypeOK
<1>5. TokenInHand(o) /\ CredsInHand(o) /\ IdentityInHand(o, ProcessOf[t])
  BY <1>1, <1>3, Has DEF TokenInHand, CredsInHand, IdentityInHand
<1>6. roles' \in Seq(Roles) \ {<<>>} /\ Len(roles') >= Epoch /\ rotation' = rotation
  BY <1>4, Has DEF server
<1>7. OthersLock(t)
  BY <1>4 DEF OthersLock
<1>8. o.stage \in Locked /\ o.stage \notin {"entered", "observing", "flushing"}
  BY <1>1, <1>3 DEF Locked
<1> QED
  BY <1>3, <1>4, <1>5, <1>6, <1>7, <1>8, OpStep

LEMMA RecheckInv ==
  ASSUME IInv, NEW t \in Tasks, Recheck(t)
  PROVE  IInv'
<1>1. /\ events' \in Nat /\ UNCHANGED <<server, disk, local, history>>
      /\ op[t].stage = "rechecking"
  BY DEF Recheck, IInv, TypeOK
<1>2. CASE creds # None
  <2> DEFINE o == [op[t] EXCEPT !.stage = "returning", !.got = creds]
  <2>1. op' = [op EXCEPT ![t] = o] /\ Unlock(t)
    BY <1>2 DEF Recheck, Put
  <2>2. /\ o \in Op /\ o.stage = "returning" /\ o.tok = op[t].tok
        /\ TokenInHand(o) /\ CredsInHand(o) /\ AnswerInHand(o)
        /\ IdentityInHand(o, ProcessOf[t])
    BY <1>2, Returning
  <2>3. lock' \in Tasks \cup {Free} /\ lock' # t /\ OthersLock(t)
    BY <2>1 DEF Unlock, OthersLock, IInv, TypeOK
  <2>4. roles' \in Seq(Roles) \ {<<>>} /\ Len(roles') >= Epoch /\ rotation' = rotation
    BY <1>1, Has DEF server
  <2> HIDE DEF o
  <2> QED
    BY <1>1, <2>1, <2>2, <2>3, <2>4, OpStep DEF Locked
<1>3. CASE creds = None
  <2> DEFINE o == [op[t] EXCEPT !.stage = "token"]
  <2>1. /\ op' = [op EXCEPT ![t] = o] /\ o \in Op /\ lock' = lock
        /\ o.stage = "token" /\ o.tok = op[t].tok /\ o.cgen = op[t].cgen
    <3>1. Goto(t, "token") /\ lock' = lock /\ "token" \in Stages
      BY <1>3 DEF Recheck, Stages, Locked
    <3> QED BY <3>1, GotoStep
  <2> HIDE DEF o
  <2>2. /\ TokenInHand(o) /\ CredsInHand(o) /\ AnswerInHand(o)
        /\ IdentityInHand(o, ProcessOf[t])
    BY <1>1, <2>1, Has DEF TokenInHand, CredsInHand, AnswerInHand, IdentityInHand
  <2> QED
    BY <1>1, <2>1, <2>2, SameWorld DEF Locked
<1> QED BY <1>2, <1>3

\* Only the lock's holder is at work on the disk's tokens.
LEMMA OneInLock ==
  ASSUME IInv, NEW t \in Tasks, op[t].stage \in Locked
  PROVE  lock = t /\ \A u \in Tasks \ {t} : op[u].stage \notin Locked
  BY DEF IInv, Ownership

LEMMA ReadTokensInv ==
  ASSUME IInv, NEW t \in Tasks, ReadTokens(t)
  PROVE  IInv'
<1>1. /\ events' \in Nat /\ UNCHANGED <<server, disk, local, history>>
      /\ op[t].stage = "token"
  BY DEF ReadTokens, IInv, TypeOK
<1>2. CASE tokens = None
  BY <1>1, <1>2, LeaveStep DEF ReadTokens
<1>3. CASE tokens # None
  <2>1. PICK stage \in {"refreshing", "calling"} :
               op' = [op EXCEPT ![t] = [op[t] EXCEPT !.stage = stage, !.tok = tokens]]
    BY <1>3 DEF ReadTokens, Put
  <2>2. lock' = lock
    BY <1>3 DEF ReadTokens
  <2> DEFINE o == [op[t] EXCEPT !.stage = stage, !.tok = tokens]
  <2>3. o \in Op /\ o.stage = stage /\ o.tok = tokens /\ o.cgen = op[t].cgen
    <3>1. tokens \in Token /\ stage \in Stages
      BY <1>3 DEF IInv, TypeOK, Stages, Locked
    <3> QED BY <3>1, Has DEF Op
  <2> HIDE DEF o
  <2>4. Fresh(tokens) /\ tokens.session \in Sessions /\ tokens.session \notin ended
    <3>1. ~Storing(tokens.session)
      BY <1>1, OneInLock DEF Storing, Locked
    <3> QED BY <1>3, <3>1 DEF IInv, StoredFresh, Issued, LogoutIsFinal
  <2>5. TokenInHand(o)
    BY <1>3, <2>3, <2>4 DEF TokenInHand
  <2>6. CredsInHand(o) /\ AnswerInHand(o) /\ IdentityInHand(o, ProcessOf[t])
    BY <2>3, Has DEF CredsInHand, AnswerInHand, IdentityInHand
  <2> QED
    BY <1>1, <2>1, <2>2, <2>3, <2>5, <2>6, SameWorld DEF Locked, o
<1> QED BY <1>2, <1>3
LEMMA ListCallInv ==
  ASSUME IInv, NEW t \in Tasks, ListCall(t)
  PROVE  IInv'
<1>1. events' \in Nat /\ UNCHANGED <<server, disk, local, history>>
  BY DEF ListCall, IInv, TypeOK
<1> QED
  BY <1>1, LeaveStep DEF ListCall

LEMMA RefusedInv ==
  ASSUME IInv, NEW t \in Tasks, Refused(t)
  PROVE  IInv'
<1> DEFINE o == [op[t] EXCEPT !.stage = "token", !.forced = TRUE]
<1>1. /\ events' \in Nat /\ lock' = lock /\ UNCHANGED <<server, disk, local, history>>
      /\ op[t].stage = "calling" /\ op' = [op EXCEPT ![t] = o]
  BY DEF Refused, Put, Happens, IInv, TypeOK
<1>2. o \in Op /\ o.stage = "token" /\ o.tok = op[t].tok /\ o.cgen = op[t].cgen
  <2>1. "token" \in Stages
    BY DEF Stages, Locked
  <2> QED BY <2>1, Has DEF Op
<1> HIDE DEF o
<1>3. /\ TokenInHand(o) /\ CredsInHand(o) /\ AnswerInHand(o)
      /\ IdentityInHand(o, ProcessOf[t])
  BY <1>1, <1>2, Has DEF TokenInHand, CredsInHand, AnswerInHand, IdentityInHand
<1> QED
  BY <1>1, <1>2, <1>3, SameWorld DEF Locked

\* The server has answered the call.
LEMMA Answered ==
  ASSUME IInv, NEW t \in Tasks, NEW stage \in {"saving", "observing"}, NEW epoch \in Nat,
         Called(t, stage, epoch), op[t].stage = "calling", epoch >= Epoch
  PROVE  \E o \in Op :
            /\ op' = [op EXCEPT ![t] = o]
            /\ o.stage = stage /\ o.tok = op[t].tok /\ o.answer = epoch
            /\ TokenInHand(o) /\ CredsInHand(o) /\ IdentityInHand(o, ProcessOf[t])
<1> DEFINE got == IF stage = "saving"
                  THEN [epoch |-> epoch, session |-> op[t].tok.session, by |-> "vend"]
                  ELSE None
           o == [op[t] EXCEPT !.stage = stage, !.answer = epoch, !.got = got]
<1>1. op[t].tok # None /\ op[t].tok \in Token /\ op[t].tok.session \in Nat
  BY Has DEF TokenInHand, Op, Token
<1>2. got \in Creds \cup {None}
  BY <1>1 DEF Creds
<1>3. stage = "saving" => got.epoch = epoch /\ got.session = op[t].tok.session /\ got.by = "vend" /\ got # None
  BY <1>1, <1>2 DEF Creds
<1>4. op' = [op EXCEPT ![t] = o]
  BY DEF Called, Put
<1> HIDE DEF got
<1>5. /\ o \in Op /\ o.stage = stage /\ o.tok = op[t].tok /\ o.answer = epoch /\ o.got = got
      /\ o.cgen = op[t].cgen
  <2>1. stage \in Stages
    BY DEF Stages, Locked
  <2> QED BY <1>2, <2>1, Has DEF Op
<1> HIDE DEF o
<1>6. TokenInHand(o)
  BY <1>5, Has DEF TokenInHand
<1>7. CredsInHand(o)
  <2>1. /\ flushed \in Nat /\ flushed <= Epoch /\ Epoch \in Nat
        /\ \A p \in Processes : baseline[p] \in Nat /\ baseline[p] <= Epoch
    BY Has DEF IInv, TypeOK, Issued
  <2> QED
    BY <1>3, <1>5, <2>1 DEF CredsInHand
<1>8. IdentityInHand(o, ProcessOf[t])
  BY <1>5, Has DEF IdentityInHand
<1> QED
  BY <1>4, <1>5, <1>6, <1>7, <1>8

\* A vend and a read of the roles change nothing at the server.
LEMMA AskedInv ==
  ASSUME IInv, NEW t \in Tasks, Vend(t) \/ RefreshRoles(t)
  PROVE  IInv'
<1>1. /\ events' \in Nat /\ lock' = lock /\ UNCHANGED <<server, disk, local, history>>
      /\ op[t].stage = "calling"
  BY DEF Vend, RefreshRoles, IInv, TypeOK
<1>2. PICK stage \in {"saving", "observing"} : Called(t, stage, Epoch)
  BY DEF Vend, RefreshRoles
<1>3. PICK o \in Op :
            /\ op' = [op EXCEPT ![t] = o]
            /\ o.stage = stage /\ o.tok = op[t].tok /\ o.answer = Epoch
            /\ TokenInHand(o) /\ CredsInHand(o) /\ IdentityInHand(o, ProcessOf[t])
  BY <1>1, <1>2, Answered, Has
<1>4. AnswerInHand(o)
  BY <1>3, Has DEF AnswerInHand, IInv, TypeOK, Issued
<1> QED
  BY <1>1, <1>3, <1>4, SameWorld DEF Locked

LEMMA SwitchRoleInv ==
  ASSUME IInv, NEW t \in Tasks, NEW r \in Roles, SwitchRole(t, r)
  PROVE  IInv'
<1>1. /\ events' \in Nat /\ lock' = lock /\ UNCHANGED <<rotation, disk, local, history>>
      /\ op[t].stage = "calling" /\ roles' = Append(roles, r)
  BY DEF SwitchRole, IInv, TypeOK
<1>2. roles' \in Seq(Roles) \ {<<>>} /\ Len(roles') = Epoch + 1
  BY <1>1, Has
<1>3. PICK o \in Op :
            /\ op' = [op EXCEPT ![t] = o]
            /\ o.stage = "observing" /\ o.tok = op[t].tok /\ o.answer = Epoch + 1
            /\ TokenInHand(o) /\ CredsInHand(o) /\ IdentityInHand(o, ProcessOf[t])
  <2>1. Called(t, "observing", Epoch + 1) /\ Epoch + 1 \in Nat /\ Epoch + 1 >= Epoch
    BY Has DEF SwitchRole
  <2> QED BY <1>1, <2>1, Answered
<1>4. o.answer \in 1..Len(roles') /\ o.answer >= flushed /\ Len(roles') >= Epoch
  BY <1>2, <1>3, Has, SMTT(30) DEF IInv, TypeOK, Issued
<1>5. lock' \in Tasks \cup {Free} /\ OthersLock(t) /\ (o.stage \in Locked <=> lock' = t)
  BY <1>1, <1>3 DEF IInv, TypeOK, Ownership, OthersLock, Locked
<1> QED
  BY <1>1, <1>2, <1>3, <1>4, <1>5, OpStep

LEMMA WebSwitchInv ==
  ASSUME IInv, NEW r \in Roles, WebSwitch(r)
  PROVE  IInv'
<1> USE DEF disk, local, history
<1>1. roles' = Append(roles, r) /\ events' \in Nat /\ UNCHANGED <<rotation, disk, lock, local, op, history>>
  BY DEF WebSwitch, Happens, IInv, TypeOK
<1>2. roles \in Seq(Roles) /\ Epoch \in Nat
  BY DEF IInv, TypeOK, Epoch
<1>3. roles' \in Seq(Roles) \ {<<>>} /\ Epoch' = Epoch + 1
  BY <1>1, <1>2 DEF Epoch
<1>4. TypeOK'
  BY <1>1, <1>3 DEF IInv, TypeOK
<1>5. Issued'
  BY <1>1, <1>2, <1>3 DEF IInv, TypeOK, Issued, Sessions
<1>6. /\ Ownership' /\ StoredFresh' /\ NewLogins' /\ CachedAreCurrent'
      /\ ClientsFollow' /\ FlushHolds' /\ BaselineHolds' /\ LogoutIsFinal'
  BY <1>1 DEF IInv, Ownership, StoredFresh, NewLogins, CachedAreCurrent, ClientsFollow,
     FlushHolds, BaselineHolds, LogoutIsFinal, Fresh, Current, Storing, Cached, Follows,
     Outside, Flushing
<1>7. InHand'
  <2> SUFFICES ASSUME NEW t \in Tasks
               PROVE  /\ TokenInHand(op[t])' /\ CredsInHand(op[t])' /\ AnswerInHand(op[t])'
                      /\ IdentityInHand(op[t], ProcessOf[t])'
    BY DEF InHand
  <2>1. TokenInHand(op[t])' /\ CredsInHand(op[t])' /\ IdentityInHand(op[t], ProcessOf[t])'
    BY <1>1, Has DEF TokenInHand, CredsInHand, IdentityInHand, Fresh, Current, Sessions,
       Follows, Outside
  <2>2. AnswerInHand(op[t])'
    BY <1>1, <1>2, <1>3, Has DEF AnswerInHand, Op
  <2> QED BY <2>1, <2>2
<1> QED
  BY <1>4, <1>5, <1>6, <1>7 DEF IInv

LEMMA VendLoginInv ==
  ASSUME IInv, NEW t \in Tasks, VendLogin(t)
  PROVE  IInv'
<1> DEFINE got == [epoch |-> Epoch, session |-> op[t].tok.session, by |-> "login"]
           o == [op[t] EXCEPT !.stage = "vended", !.got = got]
<1>1. /\ events' \in Nat /\ lock' = lock /\ UNCHANGED <<server, disk, local, history>>
      /\ op[t].stage = "vending" /\ op' = [op EXCEPT ![t] = o]
  BY DEF VendLogin, Put, IInv, TypeOK
<1>2. op[t].tok # None /\ op[t].tok \in Token /\ op[t].tok.session \in Nat
  BY <1>1, Has DEF TokenInHand, Op, Token
<1>3. got \in Creds /\ got # None /\ got.session = op[t].tok.session /\ got.by = "login"
  BY <1>2, Has DEF Creds
<1> HIDE DEF got
<1>4. /\ o \in Op /\ o.stage = "vended" /\ o.tok = op[t].tok /\ o.got = got
      /\ o.cgen = op[t].cgen
  <2>1. "vended" \in Stages
    BY DEF Stages
  <2> QED BY <1>3, <2>1, Has DEF Op
<1> HIDE DEF o
<1>5. /\ TokenInHand(o) /\ CredsInHand(o) /\ AnswerInHand(o)
      /\ IdentityInHand(o, ProcessOf[t])
  BY <1>2, <1>3, <1>4, Has DEF TokenInHand, CredsInHand, AnswerInHand, IdentityInHand
<1> QED
  BY <1>1, <1>4, <1>5, SameWorld DEF Locked
LEMMA ReturnCredentialsInv ==
  ASSUME IInv, NEW t \in Tasks, ReturnCredentials(t)
  PROVE  IInv'
<1> DEFINE p == ProcessOf[t]
<1>1. /\ events' \in Nat /\ lock' = lock /\ op[t].stage = "returning"
      /\ UNCHANGED <<server, disk, baseline, gen, cleared, history>>
  BY DEF ReturnCredentials, IInv, TypeOK
<1>2. /\ p \in Processes /\ gen[p] \in Nat /\ IdentityInHand(op[t], p)
      /\ client \in [Processes -> Client \cup {None}]
      /\ op[t] \in Op /\ op[t].got \in Creds
  BY <1>1, Has DEF IInv, TypeOK, IdentityInHand, Op
<1>3. /\ roles' \in Seq(Roles) \ {<<>>} /\ Len(roles') >= Epoch /\ rotation' = rotation
      /\ roles' = roles
  BY <1>1, Has DEF server
<1>4. lock' \in Tasks \cup {Free} /\ OthersLock(t) /\ lock' # t
  BY <1>1 DEF IInv, TypeOK, Ownership, OthersLock, Locked
<1>5. CASE op[t].building
  <2> DEFINE o == [op[t] EXCEPT !.stage = "signing", !.got = None, !.building = FALSE,
                                !.forced = FALSE]
             new == [gen |-> gen[p], id |-> None]
  <2>1. /\ op' = [op EXCEPT ![t] = o]
        /\ client' = IF gen[p] = op[t].cgen THEN [client EXCEPT ![p] = new] ELSE client
    BY <1>5 DEF ReturnCredentials, Put
  <2>2. /\ o \in Op /\ o.stage = "signing" /\ o.tok = op[t].tok /\ o.cgen = op[t].cgen
    BY <1>2 DEF Op, Stages
  <2>3. new \in Client /\ new.gen = gen[p] /\ new.id = None
    BY <1>2 DEF Client
  <2> HIDE DEF o, new
  <2>4. /\ client' \in [Processes -> Client \cup {None}]
        /\ \A q \in Processes : client'[q] = client[q] \/ (q = p /\ client'[q] = new)
    BY <1>2, <2>1, <2>3
  <2>5. CachedAreCurrent' /\ ClientsFollow'
    BY <1>1, <2>3, <2>4 DEF IInv, CachedAreCurrent, ClientsFollow, Cached, Follows, Outside
  <2>6. TokenInHand(o) /\ CredsInHand(o) /\ IdentityInHand(o, p)
    BY <1>1, <2>2, Has DEF TokenInHand, CredsInHand, IdentityInHand
  <2> QED
    BY <1>1, <1>3, <1>4, <2>1, <2>2, <2>4, <2>5, <2>6, OpClientStep DEF Locked
<1>6. CASE ~op[t].building
  <2>1. /\ op' = [op EXCEPT ![t] = Idle]
        /\ client' = IF Holds(t) THEN [client EXCEPT ![p].id = op[t].got] ELSE client
    BY <1>6 DEF ReturnCredentials, Put
  <2>2. CASE ~Holds(t)
    <3>1. Leave(t) /\ client' = client
      BY <1>1, <2>1, <2>2 DEF Leave, Put, Unlock, IInv, Ownership, Locked
    <3> QED
      BY <1>1, <3>1, LeaveStep DEF local
  <2>3. CASE Holds(t)
    <3>1. client[p] \in Client /\ client[p].gen = op[t].cgen /\ op[t].cgen = gen[p]
      BY <1>2, <2>3 DEF Holds, Cached, IInv, CachedAreCurrent
    <3>2. /\ Follows(op[t].got, cleared[p].epoch) /\ Outside(op[t].got, cleared[p].out)
      BY <1>1, <1>2, <3>1 DEF IdentityInHand
    <3>3. /\ client'[p] \in Client /\ client'[p].gen = gen[p] /\ client'[p].id = op[t].got
          /\ client' \in [Processes -> Client \cup {None}]
          /\ \A q \in Processes \ {p} : client'[q] = client[q]
      BY <1>2, <2>1, <2>3, <3>1 DEF Client
    <3>4. CachedAreCurrent'
      BY <1>1, <3>3 DEF IInv, CachedAreCurrent, Cached
    <3>5. ClientsFollow'
      BY <1>1, <3>2, <3>3 DEF IInv, ClientsFollow, Cached, Follows, Outside
    <3>6. /\ TokenInHand(Idle) /\ CredsInHand(Idle) /\ IdentityInHand(Idle, p)
          /\ Idle.tok = None /\ Idle.stage = "idle" /\ Idle \in Op
      BY IdleHolds, IdleTyped, <1>2 DEF Idle, IInv
    <3> QED
      BY <1>1, <1>3, <1>4, <2>1, <3>3, <3>4, <3>5, <3>6, OpClientStep DEF Locked
  <2> QED BY <2>2, <2>3
<1> QED BY <1>5, <1>6
-----------------------------------------------------------------------------
(* Steps that change the disk                                               *)

LEMMA CallFrame ==
  ASSUME IInv, NEW t \in Tasks, NEW o \in Op,
         op' = [op EXCEPT ![t] = o],
         lock' \in Tasks \cup {Free}, o.stage \in Locked <=> lock' = t, OthersLock(t)
  PROVE  /\ op'[t] = o /\ \A u \in Tasks \ {t} : op'[u] = op[u]
         /\ op' \in [Tasks -> Op] /\ Ownership'
<1>1. /\ op'[t] = o /\ \A u \in Tasks \ {t} : op'[u] = op[u]
      /\ op' \in [Tasks -> Op]
  BY Has
<1> QED
  BY <1>1 DEF IInv, Ownership, OthersLock

\* What the other calls hold stays good while only the disk and clients change.
LEMMA HandsKept ==
  ASSUME IInv, NEW t \in Tasks, NEW o \in Op,
         op' = [op EXCEPT ![t] = o],
         UNCHANGED <<server, baseline, gen, cleared, history>>,
         TokenInHand(o), CredsInHand(o), AnswerInHand(o), IdentityInHand(o, ProcessOf[t])
  PROVE  InHand'
<1> USE DEF server, history
<1> SUFFICES ASSUME NEW u \in Tasks
             PROVE  /\ TokenInHand(op[u])' /\ CredsInHand(op[u])' /\ AnswerInHand(op[u])'
                    /\ IdentityInHand(op[u], ProcessOf[u])'
  BY DEF InHand
<1>1. /\ TokenInHand(op'[u]) /\ CredsInHand(op'[u]) /\ AnswerInHand(op'[u])
      /\ IdentityInHand(op'[u], ProcessOf[u])
  BY Has DEF IInv, InHand
<1> QED
  BY <1>1 DEF TokenInHand, CredsInHand, AnswerInHand, IdentityInHand, Fresh, Current,
     Sessions, Follows, Outside, Epoch

LEMMA ExpireInv ==
  ASSUME IInv, Expire
  PROVE  IInv'
<1> USE DEF server, local, history
<1>1. creds' = None /\ UNCHANGED <<server, tokens, lock, local, op, events, history>>
  BY DEF Expire
<1>2. TypeOK'
  BY <1>1 DEF IInv, TypeOK
<1>3. /\ Ownership' /\ Issued' /\ StoredFresh' /\ NewLogins' /\ CachedAreCurrent'
      /\ ClientsFollow' /\ FlushHolds' /\ BaselineHolds' /\ LogoutIsFinal'
  BY <1>1 DEF IInv, Ownership, Issued, StoredFresh, NewLogins, CachedAreCurrent,
     ClientsFollow, FlushHolds, BaselineHolds, LogoutIsFinal, Fresh, Current, Storing,
     Cached, Follows, Outside, Flushing, Sessions, Epoch
<1>4. InHand'
  BY <1>1 DEF IInv, InHand, TokenInHand, CredsInHand, AnswerInHand, IdentityInHand, Fresh,
     Current, Sessions, Follows, Outside, Epoch
<1> QED
  BY <1>2, <1>3, <1>4 DEF IInv

\* Tokens reach the disk, refreshed or new: their session is known from now on.
LEMMA TokensSavedInv ==
  ASSUME IInv, NEW t \in Tasks, StoreTokens(t) \/ SaveLoginTokens(t)
  PROVE  IInv'
<1> USE DEF server, local, history
<1> DEFINE before == op[t].stage
<1>0. PICK after \in {"calling", "vending"} :
            /\ before \in {"storing", "entered"} /\ (before = "storing" <=> after = "calling")
            /\ Goto(t, after)
  BY DEF StoreTokens, SaveLoginTokens
<1>1. /\ tokens' = op[t].tok
      /\ UNCHANGED <<server, creds, lock, local, events, history>>
  BY DEF StoreTokens, SaveLoginTokens
<1> DEFINE o == [op[t] EXCEPT !.stage = after]
<1>2. /\ op' = [op EXCEPT ![t] = o] /\ o \in Op /\ o.stage = after
      /\ o.tok = op[t].tok /\ o.got = op[t].got /\ o.cgen = op[t].cgen
  <2>1. after \in Stages
    BY DEF Stages, Locked
  <2> QED BY <1>0, <2>1, GotoStep
<1> HIDE DEF o
<1>3. /\ op[t].tok \in Token /\ Current(op[t].tok) /\ op[t].tok.session \in Sessions
      /\ op[t].tok.session \notin ended /\ op[t].tok # None
  BY <1>0, Has DEF Op, TokenInHand, IInv, NewLogins
<1>4. /\ TokenInHand(o) /\ CredsInHand(o) /\ AnswerInHand(o)
      /\ IdentityInHand(o, ProcessOf[t])
  BY <1>0, <1>2, <1>3, Has DEF TokenInHand, CredsInHand, AnswerInHand, IdentityInHand
<1>5. InHand'
  BY <1>1, <1>2, <1>4, HandsKept
<1>6. lock' \in Tasks \cup {Free} /\ OthersLock(t) /\ (o.stage \in Locked <=> lock' = t)
  BY <1>0, <1>1, <1>2 DEF IInv, TypeOK, Ownership, OthersLock, Locked
<1>7. /\ op'[t] = o /\ \A u \in Tasks \ {t} : op'[u] = op[u]
      /\ op' \in [Tasks -> Op] /\ Ownership'
  BY <1>2, <1>6, CallFrame
<1>8. TypeOK'
  BY <1>1, <1>3, <1>7 DEF IInv, TypeOK
<1>9. Issued' /\ StoredFresh' /\ LogoutIsFinal'
  BY <1>1, <1>3 DEF IInv, Issued, StoredFresh, LogoutIsFinal, Fresh, Current, Sessions, Epoch, Outside
<1>10. NewLogins'
  <2>1. ASSUME NEW u \in Tasks, op[u].stage = "entered", u # t
        PROVE  op[u].tok.session # op[t].tok.session
    BY <1>3, <2>1 DEF IInv, NewLogins
  <2> QED
    BY <1>0, <1>1, <1>2, <1>3, <1>7, <2>1 DEF IInv, NewLogins
<1>11. CachedAreCurrent' /\ ClientsFollow' /\ FlushHolds'
  BY <1>1 DEF IInv, CachedAreCurrent, ClientsFollow, FlushHolds, Cached, Follows, Outside
<1>12. BaselineHolds'
  <2>1. ASSUME NEW p \in Processes, Flushing(p) PROVE Flushing(p)'
    BY <1>0, <1>7, <2>1 DEF Flushing
  <2> QED
    BY <1>1, <2>1 DEF IInv, BaselineHolds, Follows
<1> QED
  BY <1>5, <1>7, <1>8, <1>9, <1>10, <1>11, <1>12 DEF IInv

\* Credentials vended under the lock reach the disk.
LEMMA SaveCredentialsInv ==
  ASSUME IInv, NEW t \in Tasks, SaveCredentials(t)
  PROVE  IInv'
<1> USE DEF server, local, history
<1> DEFINE o == [op[t] EXCEPT !.stage = "returning"]
<1>1. /\ op[t].stage = "saving" /\ creds' = op[t].got /\ Goto(t, "returning") /\ Unlock(t)
      /\ UNCHANGED <<server, tokens, local, events, history>>
  BY DEF SaveCredentials
<1>2. /\ op' = [op EXCEPT ![t] = o] /\ o \in Op /\ o.stage = "returning"
      /\ o.tok = op[t].tok /\ o.got = op[t].got /\ o.cgen = op[t].cgen
  <2>1. "returning" \in Stages
    BY DEF Stages
  <2> QED BY <1>1, <2>1, GotoStep
<1> HIDE DEF o
<1> DEFINE got == op[t].got
<1>3. /\ got \in Creds /\ got # None /\ got.by = "vend" /\ got.epoch >= flushed
      /\ \A p \in Processes : got.epoch >= baseline[p]
      /\ got.session = op[t].tok.session /\ got.session \in Sessions /\ got.session \notin ended
      /\ op[t].tok # None
  BY <1>1, Has DEF Op, TokenInHand, CredsInHand
<1>4. IdentityInHand(o, ProcessOf[t])
  <2>1. \A p \in Processes :
           /\ cleared[p].epoch \in Nat /\ cleared[p].epoch <= flushed
           /\ cleared[p].out \subseteq ended
    BY DEF IInv, TypeOK, Issued
  <2>2. flushed \in Nat /\ got.epoch \in Nat
    BY <1>3 DEF IInv, TypeOK, Creds
  <2> QED
    BY <1>2, <1>3, <2>1, <2>2, Has DEF IdentityInHand, Follows, Outside
<1>5. TokenInHand(o) /\ CredsInHand(o) /\ AnswerInHand(o)
  BY <1>2, Has DEF TokenInHand, CredsInHand, AnswerInHand
<1>6. InHand'
  BY <1>1, <1>2, <1>4, <1>5, HandsKept
<1>7. lock = t /\ \A u \in Tasks \ {t} : op[u].stage \notin Locked
  BY <1>1, OneInLock DEF Locked
<1>8. lock' = Free /\ lock' \in Tasks \cup {Free} /\ OthersLock(t) /\ o.stage \notin Locked
  BY <1>1, <1>2, <1>7 DEF Unlock, OthersLock, Locked
<1>9. /\ op'[t] = o /\ \A u \in Tasks \ {t} : op'[u] = op[u]
      /\ op' \in [Tasks -> Op] /\ Ownership'
  BY <1>2, <1>8, CallFrame
<1>10. TypeOK'
  BY <1>1, <1>3, <1>8, <1>9 DEF IInv, TypeOK
<1>11. Issued' /\ LogoutIsFinal'
  BY <1>1, <1>3 DEF IInv, Issued, LogoutIsFinal, Sessions, Epoch, Outside
<1>12. StoredFresh'
  <2>1. ~Storing(tokens.session)
    BY <1>1, <1>7 DEF Storing, Locked
  <2> QED
    BY <1>1, <2>1 DEF IInv, StoredFresh, Fresh, Current
<1>13. NewLogins'
  <2>1. ASSUME NEW u \in Tasks, op[u].stage = "entered"
        PROVE  op[u].tok.session # got.session /\ u # t
    BY <1>1, <1>3, <2>1 DEF IInv, NewLogins
  <2> QED
    BY <1>1, <1>2, <1>3, <1>9, <2>1 DEF IInv, NewLogins
<1>14. CachedAreCurrent' /\ ClientsFollow' /\ FlushHolds' /\ BaselineHolds'
  BY <1>1, <1>3 DEF IInv, CachedAreCurrent, ClientsFollow, FlushHolds, BaselineHolds,
     Cached, Follows, Outside
<1> QED
  BY <1>6, <1>9, <1>10, <1>11, <1>12, <1>13, <1>14 DEF IInv

\* A login's credentials reach the disk, whatever happened to it meanwhile.
LEMMA SaveLoginCredentialsInv ==
  ASSUME IInv, NEW t \in Tasks, SaveLoginCredentials(t)
  PROVE  IInv'
<1> USE DEF server, local, history
<1> DEFINE got == op[t].got
<1>1. /\ op[t].stage = "vended" /\ creds' = got /\ op' = [op EXCEPT ![t] = Idle]
      /\ UNCHANGED <<server, tokens, lock, local, events, history>>
  BY DEF SaveLoginCredentials, Put
<1>2. /\ got \in Creds /\ got # None /\ got.by = "login" /\ op[t].tok # None
      /\ got.session = op[t].tok.session /\ got.session \in Sessions
  BY <1>1, Has DEF Op, TokenInHand, CredsInHand
<1>3. /\ TokenInHand(Idle) /\ CredsInHand(Idle) /\ AnswerInHand(Idle)
      /\ IdentityInHand(Idle, ProcessOf[t])
      /\ Idle.tok = None /\ Idle.stage = "idle" /\ Idle \in Op
  BY IdleHolds, IdleTyped, Has DEF Idle, IInv
<1>4. InHand'
  BY <1>1, <1>3, HandsKept
<1>5. lock' \in Tasks \cup {Free} /\ OthersLock(t) /\ lock' # t
  BY <1>1 DEF IInv, TypeOK, Ownership, OthersLock, Locked
<1>6. /\ op'[t] = Idle /\ \A u \in Tasks \ {t} : op'[u] = op[u]
      /\ op' \in [Tasks -> Op] /\ Ownership'
  BY <1>1, <1>3, <1>5, CallFrame DEF Locked
<1>7. TypeOK'
  BY <1>1, <1>2, <1>6 DEF IInv, TypeOK
<1>8. Issued' /\ LogoutIsFinal' /\ FlushHolds'
  BY <1>1, <1>2 DEF IInv, Issued, LogoutIsFinal, FlushHolds, Sessions, Epoch, Follows, Outside
<1>9. StoredFresh'
  <2>1. ASSUME NEW s, Storing(s) PROVE Storing(s)'
    BY <1>1, <1>6, <2>1 DEF Storing
  <2> QED
    BY <1>1, <2>1 DEF IInv, StoredFresh, Fresh, Current
<1>10. NewLogins'
  <2>1. ASSUME NEW u \in Tasks, op[u].stage = "entered"
        PROVE  op[u].tok.session # got.session /\ u # t
    BY <1>1, <1>2, <2>1 DEF IInv, NewLogins
  <2> QED
    BY <1>1, <1>2, <1>3, <1>6, <2>1 DEF IInv, NewLogins
<1>11. CachedAreCurrent' /\ ClientsFollow' /\ BaselineHolds'
  BY <1>1, <1>2 DEF IInv, CachedAreCurrent, ClientsFollow, BaselineHolds, Cached, Follows, Outside
<1> QED
  BY <1>4, <1>6, <1>7, <1>8, <1>9, <1>10, <1>11 DEF IInv

\* An erase that stops halfway leaves less on the disk than there was.
LEMMA EraseFailsInv ==
  ASSUME IInv, NEW t \in Tasks, EraseFails(t)
  PROVE  IInv'
<1> USE DEF server, local, history
<1>1. /\ op[t].stage = "erasing" /\ tokens' \in {None, tokens} /\ creds' \in {None, creds}
      /\ Leave(t) /\ events' \in Nat
      /\ UNCHANGED <<server, local, history>>
  BY DEF EraseFails, Happens, IInv, TypeOK
<1>2. /\ op' = [op EXCEPT ![t] = Idle] /\ Idle \in Op /\ lock' \in Tasks \cup {Free}
      /\ lock' # t /\ Idle.stage \notin Locked /\ OthersLock(t)
  BY <1>1, Leaving
<1>3. /\ TokenInHand(Idle) /\ CredsInHand(Idle) /\ AnswerInHand(Idle)
      /\ IdentityInHand(Idle, ProcessOf[t])
      /\ Idle.tok = None /\ Idle.stage = "idle"
  BY IdleHolds, Has DEF Idle, IInv
<1>4. InHand'
  BY <1>1, <1>2, <1>3, HandsKept
<1>5. /\ op'[t] = Idle /\ \A u \in Tasks \ {t} : op'[u] = op[u]
      /\ op' \in [Tasks -> Op] /\ Ownership'
  BY <1>2, CallFrame
<1>6. TypeOK'
  BY <1>1, <1>2, <1>5 DEF IInv, TypeOK
<1>7. Issued' /\ LogoutIsFinal' /\ FlushHolds'
  BY <1>1 DEF IInv, Issued, LogoutIsFinal, FlushHolds, Sessions, Epoch, Follows, Outside
<1>8. StoredFresh'
  <2>1. ~Storing(tokens.session)
    BY <1>1, OneInLock DEF Storing, Locked
  <2> QED
    BY <1>1, <2>1 DEF IInv, StoredFresh, Fresh, Current
<1>9. NewLogins'
  BY <1>1, <1>3, <1>5 DEF IInv, NewLogins
<1>10. CachedAreCurrent' /\ ClientsFollow' /\ BaselineHolds'
  <2>1. ASSUME NEW p \in Processes, Flushing(p) PROVE Flushing(p)'
    BY <1>1, <1>5, <2>1 DEF Flushing
  <2> QED
    BY <1>1, <2>1 DEF IInv, CachedAreCurrent, ClientsFollow, BaselineHolds, Cached, Follows, Outside
<1> QED
  BY <1>4, <1>5, <1>6, <1>7, <1>8, <1>9, <1>10 DEF IInv
-----------------------------------------------------------------------------
(* Steps of the server                                                      *)

LEMMA RefreshTokensInv ==
  ASSUME IInv, NEW t \in Tasks, RefreshTokens(t)
  PROVE  IInv'
<1> USE DEF disk, local, history
<1>1. /\ op[t].stage = "refreshing"
      /\ UNCHANGED <<roles, disk, local, events, history>>
      /\ events' \in Nat
  BY DEF RefreshTokens, IInv, TypeOK
<1>2. CASE ~Current(op[t].tok)
  <2>1. Leave(t) /\ UNCHANGED server
    BY <1>1, <1>2 DEF RefreshTokens, server
  <2> QED
    BY <1>1, <2>1, LeaveStep
<1>3. CASE Current(op[t].tok)
  <2> DEFINE tok == op[t].tok
             s == tok.session
             o == [op[t] EXCEPT !.stage = "storing", !.tok.n = @ + 1]
  <2>1. /\ rotation' = [rotation EXCEPT ![s] = @ + 1] /\ lock' = lock
        /\ op' = [op EXCEPT ![t] = o]
    BY <1>3 DEF RefreshTokens, Put
  <2>2. /\ tok \in Token /\ tok # None /\ s \in Sessions /\ s \notin ended
        /\ rotation \in Seq(Nat) /\ rotation[s] = tok.n /\ s \in DOMAIN rotation
    BY <1>1, <1>3, Has DEF Op, TokenInHand, Current, Sessions
  <2>3. /\ rotation' \in Seq(Nat) /\ Sessions' = Sessions
        /\ rotation'[s] = rotation[s] + 1
        /\ \A x \in Sessions \ {s} : rotation'[x] = rotation[x]
    BY <2>1, <2>2 DEF Sessions
  <2>4. /\ o \in Op /\ o.stage = "storing" /\ o.got = op[t].got /\ o.cgen = op[t].cgen
        /\ o.tok \in Token /\ o.tok.session = s /\ o.tok.n = tok.n + 1
    <3>1. "storing" \in Stages
      BY DEF Stages, Locked
    <3>2. [tok EXCEPT !.n = @ + 1] \in Token /\ [tok EXCEPT !.n = @ + 1].session = s
          /\ [tok EXCEPT !.n = @ + 1].n = tok.n + 1
      BY <2>2 DEF Token
    <3>3. o = [op[t] EXCEPT !.stage = "storing", !.tok = [tok EXCEPT !.n = @ + 1]]
      BY Has DEF Op
    <3> HIDE DEF o
    <3> QED BY <3>1, <3>2, <3>3, Has DEF Op
  <2> HIDE DEF o
  <2>5. lock = t /\ \A u \in Tasks \ {t} : op[u].stage \notin Locked
    BY <1>1, OneInLock DEF Locked
  <2>6. lock' \in Tasks \cup {Free} /\ OthersLock(t) /\ (o.stage \in Locked <=> lock' = t)
    BY <2>1, <2>4, <2>5 DEF IInv, TypeOK, OthersLock, Locked
  <2>7. /\ op'[t] = o /\ \A u \in Tasks \ {t} : op'[u] = op[u]
        /\ op' \in [Tasks -> Op] /\ Ownership'
    BY <2>1, <2>4, <2>6, CallFrame
  <2>8. TypeOK'
    BY <1>1, <2>3, <2>6, <2>7 DEF IInv, TypeOK
  <2>9. Issued' /\ FlushHolds' /\ LogoutIsFinal' /\ CachedAreCurrent' /\ ClientsFollow'
    BY <1>1, <2>3 DEF IInv, Issued, FlushHolds, LogoutIsFinal, CachedAreCurrent, ClientsFollow,
       Epoch, Cached, Follows, Outside
  <2>10. StoredFresh'
    <3>1. CASE tokens # None /\ tokens.session = s
      <4>1. tokens' = tokens /\ op'[t].stage = "storing" /\ op'[t].tok.session = tokens.session
        BY <1>1, <2>4, <2>7, <3>1
      <4> QED BY <4>1 DEF StoredFresh, Storing
    <3>2. CASE tokens # None /\ tokens.session # s
      <4>1. ~Storing(tokens.session)
        BY <1>1, <2>5 DEF Storing, Locked
      <4>2. Fresh(tokens) /\ tokens.session \in Sessions
        BY <3>2, <4>1 DEF IInv, StoredFresh, Issued
      <4>3. Fresh(tokens)'
        BY <1>1, <2>3, <3>2, <4>2 DEF Fresh, Current, Sessions
      <4> QED BY <4>3 DEF StoredFresh
    <3>3. CASE tokens = None
      BY <1>1, <3>3 DEF StoredFresh
    <3> QED BY <3>1, <3>2, <3>3
  <2>11. \A u \in Tasks : op[u].stage = "entered" => u # t /\ op[u].tok.session # s
    BY <1>1, <2>2 DEF IInv, NewLogins
  <2>12. NewLogins'
    <3>1. /\ op'[t].stage = "storing" /\ op'[t].tok.session = s
          /\ UNCHANGED <<tokens, creds, ended>>
      BY <1>1, <2>4, <2>7
    <3>2. \A u \in Tasks : op'[u].stage = "entered" =>
             u # t /\ op'[u] = op[u] /\ op[u].tok.session # s
      BY <2>7, <2>11, <3>1
    <3> HIDE DEF s, tok
    <3> QED BY <2>7, <3>1, <3>2 DEF IInv, NewLogins
  <2>13. InHand'
    <3> SUFFICES ASSUME NEW u \in Tasks
                 PROVE  /\ TokenInHand(op[u])' /\ CredsInHand(op[u])' /\ AnswerInHand(op[u])'
                        /\ IdentityInHand(op[u], ProcessOf[u])'
      BY DEF InHand
    <3>1. CASE u = t
      <4>1. TokenInHand(op[u])'
        BY <1>1, <2>2, <2>3, <2>4, <2>7, <3>1 DEF TokenInHand, Current, Sessions, Token
      <4>2. CredsInHand(op[u])' /\ AnswerInHand(op[u])' /\ IdentityInHand(op[u], ProcessOf[u])'
        BY <1>1, <2>4, <2>7, <3>1, Has DEF CredsInHand, AnswerInHand, IdentityInHand
      <4> QED BY <4>1, <4>2
    <3>2. CASE u # t
      <4>1. /\ op'[u] = op[u] /\ op[u].stage \notin Locked
            /\ TokenInHand(op[u]) /\ CredsInHand(op[u]) /\ AnswerInHand(op[u])
            /\ IdentityInHand(op[u], ProcessOf[u])
        BY <2>5, <2>7, <3>2, Has
      <4>2. TokenInHand(op[u])'
        BY <1>1, <2>3, <2>11, <4>1 DEF TokenInHand, Current, Sessions, Locked
      <4>3. CredsInHand(op[u])' /\ AnswerInHand(op[u])' /\ IdentityInHand(op[u], ProcessOf[u])'
        BY <1>1, <4>1 DEF CredsInHand, AnswerInHand, IdentityInHand, Epoch, Follows, Outside
      <4> QED BY <4>2, <4>3
    <3> QED BY <3>1, <3>2
  <2>14. BaselineHolds'
    <3>1. ASSUME NEW p \in Processes, Flushing(p) PROVE Flushing(p)'
      BY <1>1, <2>7, <3>1 DEF Flushing
    <3> QED
      BY <1>1, <3>1 DEF IInv, BaselineHolds, Follows
  <2> QED
    BY <2>7, <2>8, <2>9, <2>10, <2>12, <2>13, <2>14 DEF IInv
<1> QED BY <1>2, <1>3

LEMMA ExchangeCodeInv ==
  ASSUME IInv, NEW t \in Tasks, ExchangeCode(t)
  PROVE  IInv'
<1> USE DEF disk, local, history
<1> DEFINE s == Len(rotation) + 1
           tok == [session |-> s, n |-> 0]
           o == [op[t] EXCEPT !.stage = "entered", !.tok = tok]
<1>1. /\ op[t].stage = "entering" /\ rotation' = Append(rotation, 0)
      /\ op' = [op EXCEPT ![t] = o]
      /\ UNCHANGED <<roles, disk, lock, local, events, history>>
  BY DEF ExchangeCode, Put
<1>2. /\ tok \in Token /\ tok # None /\ tok.session = s /\ tok.n = 0 /\ rotation \in Seq(Nat)
  BY Has DEF Token
<1>3. /\ rotation' \in Seq(Nat) /\ s \in Sessions' /\ s \notin Sessions /\ rotation'[s] = 0
      /\ \A x \in Sessions : x \in Sessions' /\ rotation'[x] = rotation[x]
  BY <1>1, <1>2 DEF Sessions
<1> HIDE DEF s, tok
<1>4. /\ o \in Op /\ o.stage = "entered" /\ o.tok = tok /\ o.got = op[t].got /\ o.cgen = op[t].cgen
  <2>1. "entered" \in Stages
    BY DEF Stages
  <2> QED BY <1>2, <2>1, Has DEF Op
<1> HIDE DEF o
<1>5. lock' \in Tasks \cup {Free} /\ OthersLock(t) /\ lock' # t /\ o.stage \notin Locked
  BY <1>1, <1>4 DEF IInv, TypeOK, Ownership, OthersLock, Locked
<1>6. /\ op'[t] = o /\ \A u \in Tasks \ {t} : op'[u] = op[u]
      /\ op' \in [Tasks -> Op] /\ Ownership'
  BY <1>1, <1>4, <1>5, CallFrame
<1>7. TypeOK'
  BY <1>1, <1>3, <1>6 DEF IInv, TypeOK
<1>8. Issued' /\ FlushHolds' /\ LogoutIsFinal' /\ CachedAreCurrent' /\ ClientsFollow'
  BY <1>1, <1>3 DEF IInv, Issued, FlushHolds, LogoutIsFinal, CachedAreCurrent, ClientsFollow,
     Epoch, Cached, Follows, Outside
<1>9. StoredFresh'
  <2>1. ASSUME NEW x, Storing(x) PROVE Storing(x)'
    BY <1>1, <1>6, <2>1 DEF Storing
  <2> QED
    BY <1>1, <1>3, <2>1 DEF IInv, StoredFresh, Issued, Fresh, Current, Sessions
<1>10. NewLogins'
  <2> SUFFICES ASSUME NEW u \in Tasks, op'[u].stage = "entered"
               PROVE  LET x == op'[u].tok.session IN
                      /\ x \notin ended
                      /\ tokens # None => tokens.session # x
                      /\ creds # None => creds.session # x
                      /\ \A v \in Tasks \ {u} : op'[v].tok # None => op'[v].tok.session # x
    BY <1>1 DEF NewLogins
  <2>1. CASE u = t
    <3>1. \A v \in Tasks \ {t} : op[v].tok # None => op[v].tok.session \in Sessions
      BY Has DEF TokenInHand
    <3>2. op'[u].tok.session = s /\ \A v \in Tasks \ {u} : op'[v] = op[v]
      BY <1>2, <1>4, <1>6, <2>1
    <3>3. /\ s \notin ended
          /\ tokens # None => tokens.session # s
          /\ creds # None => creds.session # s
      BY <1>3 DEF IInv, Issued
    <3> QED
      BY <1>3, <2>1, <3>1, <3>2, <3>3
  <2>2. CASE u # t
    <3>1. op'[u] = op[u] /\ op[u].stage = "entered" /\ op[u].tok.session \in Sessions
      BY <1>6, <2>2, Has DEF TokenInHand
    <3> QED
      BY <1>2, <1>3, <1>4, <1>6, <3>1 DEF IInv, NewLogins
  <2> QED BY <2>1, <2>2
<1>11. InHand'
  <2> SUFFICES ASSUME NEW u \in Tasks
               PROVE  /\ TokenInHand(op[u])' /\ CredsInHand(op[u])' /\ AnswerInHand(op[u])'
                      /\ IdentityInHand(op[u], ProcessOf[u])'
    BY DEF InHand
  <2>1. CASE u = t
    <3>1. TokenInHand(op[u])'
      BY <1>1, <1>2, <1>3, <1>4, <1>6, <2>1 DEF TokenInHand, Current, Sessions
    <3>2. CredsInHand(op[u])' /\ AnswerInHand(op[u])' /\ IdentityInHand(op[u], ProcessOf[u])'
      BY <1>1, <1>4, <1>6, <2>1, Has DEF CredsInHand, AnswerInHand, IdentityInHand
    <3> QED BY <3>1, <3>2
  <2>2. CASE u # t
    <3>1. /\ op'[u] = op[u] /\ TokenInHand(op[u]) /\ CredsInHand(op[u]) /\ AnswerInHand(op[u])
          /\ IdentityInHand(op[u], ProcessOf[u])
      BY <1>6, <2>2, Has
    <3>2. TokenInHand(op[u])'
      BY <1>1, <1>3, <3>1 DEF TokenInHand, Fresh, Current, Sessions
    <3>3. CredsInHand(op[u])' /\ AnswerInHand(op[u])' /\ IdentityInHand(op[u], ProcessOf[u])'
      BY <1>1, <3>1 DEF CredsInHand, AnswerInHand, IdentityInHand, Epoch, Follows, Outside
    <3> QED BY <3>2, <3>3
  <2> QED BY <2>1, <2>2
<1>12. BaselineHolds'
  <2>1. ASSUME NEW p \in Processes, Flushing(p) PROVE Flushing(p)'
    BY <1>1, <1>6, <2>1 DEF Flushing
  <2> QED
    BY <1>1, <2>1 DEF IInv, BaselineHolds, Follows
<1> QED
  BY <1>6, <1>7, <1>8, <1>9, <1>10, <1>11, <1>12 DEF IInv
-----------------------------------------------------------------------------
(* Roles and logouts                                                        *)

LEMMA UnlockFrees ==
  ASSUME IInv, NEW t \in Tasks, op[t].stage \in Locked, Unlock(t)
  PROVE  lock' = Free /\ lock' # t /\ OthersLock(t)
  BY OneInLock DEF Unlock, OthersLock

LEMMA ObserveRoleInv ==
  ASSUME IInv, NEW t \in Tasks, ObserveRole(t)
  PROVE  IInv'
<1> USE DEF server, disk, history
<1> DEFINE p == ProcessOf[t]
<1>1. /\ op[t].stage = "observing" /\ events' \in Nat
      /\ UNCHANGED <<server, disk, client, gen, cleared, events, history>>
  BY DEF ObserveRole, IInv, TypeOK
<1>2. lock = t /\ \A u \in Tasks \ {t} : op[u].stage \notin Locked
  BY <1>1, OneInLock DEF Locked
<1>3. CASE SameRole(t)
  <2> DEFINE o == [op[t] EXCEPT !.stage = "clearing"]
  <2>1. Goto(t, "clearing") /\ Unlock(t) /\ baseline' = baseline
    BY <1>3 DEF ObserveRole
  <2>2. /\ op' = [op EXCEPT ![t] = o] /\ o \in Op /\ o.stage = "clearing"
        /\ o.tok = op[t].tok /\ o.cgen = op[t].cgen
    <3>1. "clearing" \in Stages
      BY DEF Stages
    <3> QED BY <2>1, <3>1, GotoStep
  <2> HIDE DEF o
  <2>3. lock' \in Tasks \cup {Free} /\ OthersLock(t) /\ lock' # t
    BY <1>1, <2>1, UnlockFrees DEF Locked
  <2>4. TokenInHand(o) /\ CredsInHand(o) /\ IdentityInHand(o, p)
    BY <2>2, Has DEF TokenInHand, CredsInHand, IdentityInHand
  <2>5. roles' \in Seq(Roles) \ {<<>>} /\ Len(roles') >= Epoch
    BY <1>1, Has
  <2> QED
    BY <1>1, <2>1, <2>2, <2>3, <2>4, <2>5, OpStep DEF Locked, local
<1>4. CASE ~SameRole(t)
  <2> DEFINE o == [op[t] EXCEPT !.stage = "flushing"]
             answer == op[t].answer
  <2>1. Goto(t, "flushing") /\ lock' = lock /\ baseline' = [baseline EXCEPT ![p] = answer]
    BY <1>4 DEF ObserveRole
  <2>2. /\ op' = [op EXCEPT ![t] = o] /\ o \in Op /\ o.stage = "flushing"
        /\ o.tok = op[t].tok /\ o.got = op[t].got /\ o.answer = answer /\ o.cgen = op[t].cgen
    <3>1. "flushing" \in Stages
      BY DEF Stages, Locked
    <3> QED BY <2>1, <3>1, GotoStep
  <2> HIDE DEF o
  <2>3. /\ answer \in Nat /\ answer <= Epoch /\ answer \in 1..Epoch /\ answer >= flushed
    BY <1>1, Has DEF AnswerInHand, Op
  <2>4. lock' \in Tasks \cup {Free} /\ OthersLock(t) /\ (o.stage \in Locked <=> lock' = t)
    BY <1>2, <2>1, <2>2 DEF OthersLock, Locked
  <2>5. /\ op'[t] = o /\ \A u \in Tasks \ {t} : op'[u] = op[u]
        /\ op' \in [Tasks -> Op] /\ Ownership'
    BY <2>2, <2>4, CallFrame
  <2>6. /\ baseline' \in [Processes -> Nat] /\ baseline'[p] = answer
        /\ \A q \in Processes \ {p} : baseline'[q] = baseline[q]
    BY <2>1, <2>3, Has DEF IInv, TypeOK
  <2>7. TypeOK'
    BY <1>1, <2>4, <2>5, <2>6 DEF IInv, TypeOK
  <2>8. Issued'
    BY <1>1, <2>3, <2>6 DEF IInv, Issued, Epoch, Sessions
  <2>9. /\ FlushHolds' /\ LogoutIsFinal' /\ CachedAreCurrent' /\ ClientsFollow'
    BY <1>1 DEF IInv, FlushHolds, LogoutIsFinal, CachedAreCurrent, ClientsFollow, Cached,
       Follows, Outside
  <2>10. StoredFresh' /\ NewLogins'
    <3>1. ASSUME NEW s, Storing(s) PROVE Storing(s)'
      BY <1>1, <2>5, <3>1 DEF Storing
    <3>2. StoredFresh'
      BY <1>1, <3>1 DEF IInv, StoredFresh, Fresh, Current
    <3>3. NewLogins'
      BY <1>1, <2>2, <2>5 DEF IInv, NewLogins
    <3> QED BY <3>2, <3>3
  <2>11. BaselineHolds'
    <3>1. Flushing(p)'
      BY <2>2, <2>5 DEF Flushing
    <3>2. ASSUME NEW q \in Processes, Flushing(q) PROVE Flushing(q)'
      BY <1>1, <2>5, <3>2 DEF Flushing
    <3> QED
      BY <1>1, <2>6, <3>1, <3>2 DEF IInv, BaselineHolds, Follows
  <2>12. InHand'
    <3> SUFFICES ASSUME NEW u \in Tasks
                 PROVE  /\ TokenInHand(op[u])' /\ CredsInHand(op[u])' /\ AnswerInHand(op[u])'
                        /\ IdentityInHand(op[u], ProcessOf[u])'
      BY DEF InHand
    <3>1. /\ TokenInHand(op'[u]) /\ AnswerInHand(op'[u]) /\ IdentityInHand(op'[u], ProcessOf[u])
      BY <1>1, <2>2, <2>3, <2>5, Has DEF TokenInHand, AnswerInHand, IdentityInHand
    <3>2. TokenInHand(op[u])' /\ AnswerInHand(op[u])' /\ IdentityInHand(op[u], ProcessOf[u])'
      BY <1>1, <3>1 DEF TokenInHand, AnswerInHand, IdentityInHand, Fresh, Current, Sessions,
         Epoch, Follows, Outside
    <3>3. CredsInHand(op'[u]) /\ op'[u].stage # "saving"
      BY <1>1, <1>2, <2>2, <2>5, Has DEF CredsInHand, Locked
    <3>4. CredsInHand(op[u])'
      BY <1>1, <3>3 DEF CredsInHand
    <3> QED BY <3>2, <3>4
  <2> QED
    BY <2>5, <2>7, <2>8, <2>9, <2>10, <2>11, <2>12 DEF IInv
<1> QED BY <1>3, <1>4

LEMMA FlushInv ==
  ASSUME IInv, NEW t \in Tasks, Flush(t)
  PROVE  IInv'
<1> USE DEF server, local
<1> DEFINE o == [op[t] EXCEPT !.stage = "clearing"]
           answer == op[t].answer
<1>1. /\ op[t].stage = "flushing" /\ creds' = None /\ flushed' = answer
      /\ Goto(t, "clearing") /\ Unlock(t)
      /\ UNCHANGED <<server, tokens, local, events, lost, ended>>
  BY DEF Flush
<1>2. lock = t /\ \A u \in Tasks \ {t} : op[u].stage \notin Locked
  BY <1>1, OneInLock DEF Locked
<1>3. /\ op' = [op EXCEPT ![t] = o] /\ o \in Op /\ o.stage = "clearing"
      /\ o.tok = op[t].tok /\ o.got = op[t].got /\ o.cgen = op[t].cgen
  <2>1. "clearing" \in Stages
    BY DEF Stages
  <2> QED BY <1>1, <2>1, GotoStep
<1> HIDE DEF o
<1>4. answer \in Nat /\ answer <= Epoch /\ answer >= flushed
  BY <1>1, Has DEF AnswerInHand, Op
<1>5. lock' \in Tasks \cup {Free} /\ OthersLock(t) /\ lock' # t /\ o.stage \notin Locked
  BY <1>1, <1>3, UnlockFrees DEF Locked
<1>6. /\ op'[t] = o /\ \A u \in Tasks \ {t} : op'[u] = op[u]
      /\ op' \in [Tasks -> Op] /\ Ownership'
  BY <1>3, <1>5, CallFrame
<1>7. TypeOK'
  BY <1>1, <1>4, <1>5, <1>6 DEF IInv, TypeOK
<1>8. Issued'
  <2>1. flushed \in Nat /\ \A p \in Processes : cleared[p].epoch \in Nat
    BY DEF IInv, TypeOK
  <2> QED BY <1>1, <1>4, <2>1 DEF IInv, Issued, Epoch, Sessions
<1>9. /\ FlushHolds' /\ BaselineHolds' /\ LogoutIsFinal' /\ CachedAreCurrent' /\ ClientsFollow'
  BY <1>1 DEF IInv, FlushHolds, BaselineHolds, LogoutIsFinal, CachedAreCurrent, ClientsFollow,
     Cached, Follows, Outside
<1>10. StoredFresh' /\ NewLogins'
  <2>1. ASSUME NEW s, Storing(s) PROVE Storing(s)'
    BY <1>1, <1>6, <2>1 DEF Storing
  <2>2. StoredFresh'
    BY <1>1, <2>1 DEF IInv, StoredFresh, Fresh, Current
  <2>3. NewLogins'
    BY <1>1, <1>3, <1>6 DEF IInv, NewLogins
  <2> QED BY <2>2, <2>3
<1>11. InHand'
  <2> SUFFICES ASSUME NEW u \in Tasks
               PROVE  /\ TokenInHand(op[u])' /\ CredsInHand(op[u])' /\ AnswerInHand(op[u])'
                      /\ IdentityInHand(op[u], ProcessOf[u])'
    BY DEF InHand
  <2>1. /\ TokenInHand(op'[u]) /\ CredsInHand(op'[u]) /\ IdentityInHand(op'[u], ProcessOf[u])
        /\ op'[u].stage \notin Locked
    BY <1>2, <1>3, <1>6, Has DEF TokenInHand, CredsInHand, IdentityInHand, Locked
  <2>2. TokenInHand(op[u])' /\ IdentityInHand(op[u], ProcessOf[u])'
    BY <1>1, <2>1 DEF TokenInHand, IdentityInHand, Fresh, Current, Sessions, Follows, Outside
  <2>3. CredsInHand(op[u])' /\ AnswerInHand(op[u])'
    BY <2>1 DEF CredsInHand, AnswerInHand, Locked
  <2> QED BY <2>2, <2>3
<1> QED
  BY <1>6, <1>7, <1>8, <1>9, <1>10, <1>11 DEF IInv

\* The role is unknown again, so nothing is claimed of the credentials that stay.
LEMMA FlushFailsInv ==
  ASSUME IInv, NEW t \in Tasks, FlushFails(t)
  PROVE  IInv'
<1> USE DEF server, disk, history
<1> DEFINE p == ProcessOf[t]
<1>1. /\ op[t].stage = "flushing" /\ events' \in Nat /\ Leave(t)
      /\ baseline' = [baseline EXCEPT ![p] = 0]
      /\ UNCHANGED <<server, disk, client, gen, cleared, history>>
  BY DEF FlushFails, Happens, IInv, TypeOK
<1>2. lock = t /\ \A u \in Tasks \ {t} : op[u].stage \notin Locked
  BY <1>1, OneInLock DEF Locked
<1>3. /\ op' = [op EXCEPT ![t] = Idle] /\ Idle \in Op /\ lock' \in Tasks \cup {Free}
      /\ lock' # t /\ Idle.stage \notin Locked /\ OthersLock(t)
  BY <1>1, Leaving
<1>4. /\ op'[t] = Idle /\ \A u \in Tasks \ {t} : op'[u] = op[u]
      /\ op' \in [Tasks -> Op] /\ Ownership'
  BY <1>3, CallFrame
<1>5. /\ baseline' \in [Processes -> Nat] /\ baseline'[p] = 0
      /\ \A q \in Processes \ {p} : baseline'[q] = baseline[q]
  BY <1>1, Has DEF IInv, TypeOK
<1>6. TypeOK'
  BY <1>1, <1>3, <1>4, <1>5 DEF IInv, TypeOK
<1>7. Issued'
  BY <1>1, <1>5, Has DEF IInv, Issued, Epoch, Sessions
<1>8. /\ FlushHolds' /\ LogoutIsFinal' /\ CachedAreCurrent' /\ ClientsFollow'
  BY <1>1 DEF IInv, FlushHolds, LogoutIsFinal, CachedAreCurrent, ClientsFollow, Cached,
     Follows, Outside
<1>9. StoredFresh' /\ NewLogins'
  <2>1. ASSUME NEW s, Storing(s) PROVE Storing(s)'
    BY <1>1, <1>4, <2>1 DEF Storing
  <2>2. StoredFresh'
    BY <1>1, <2>1 DEF IInv, StoredFresh, Fresh, Current
  <2>3. NewLogins'
    BY <1>1, <1>4 DEF IInv, NewLogins, Idle
  <2> QED BY <2>2, <2>3
<1>10. BaselineHolds'
  <2>1. ASSUME NEW q \in Processes, q # p PROVE ~Flushing(q)
    BY <1>2, <2>1 DEF Flushing, Locked
  <2> QED
    BY <1>1, <1>5, <2>1 DEF IInv, BaselineHolds, Follows
<1>11. InHand'
  <2> SUFFICES ASSUME NEW u \in Tasks
               PROVE  /\ TokenInHand(op[u])' /\ CredsInHand(op[u])' /\ AnswerInHand(op[u])'
                      /\ IdentityInHand(op[u], ProcessOf[u])'
    BY DEF InHand
  <2>1. /\ TokenInHand(op'[u]) /\ CredsInHand(op'[u]) /\ AnswerInHand(op'[u])
        /\ IdentityInHand(op'[u], ProcessOf[u]) /\ op'[u].stage \notin Locked
    BY <1>2, <1>3, <1>4, Has, IdleHolds DEF IInv
  <2>2. TokenInHand(op[u])' /\ AnswerInHand(op[u])' /\ IdentityInHand(op[u], ProcessOf[u])'
    BY <1>1, <2>1 DEF TokenInHand, AnswerInHand, IdentityInHand, Fresh, Current, Sessions,
       Epoch, Follows, Outside
  <2>3. CredsInHand(op[u])'
    BY <2>1 DEF CredsInHand, Locked
  <2> QED BY <2>2, <2>3
<1> QED
  BY <1>4, <1>6, <1>7, <1>8, <1>9, <1>10, <1>11 DEF IInv

LEMMA EraseInv ==
  ASSUME IInv, NEW t \in Tasks, Erase(t)
  PROVE  IInv'
<1> USE DEF server, local
<1> DEFINE o == [op[t] EXCEPT !.stage = "clearing"]
<1>1. /\ op[t].stage = "erasing" /\ tokens' = None /\ creds' = None
      /\ ended' = ended \cup {x.session : x \in {tokens, creds} \ {None}}
      /\ Goto(t, "clearing") /\ Unlock(t)
      /\ UNCHANGED <<server, local, events, lost, flushed>>
  BY DEF Erase
<1>2. lock = t /\ \A u \in Tasks \ {t} : op[u].stage \notin Locked
  BY <1>1, OneInLock DEF Locked
<1>3. /\ op' = [op EXCEPT ![t] = o] /\ o \in Op /\ o.stage = "clearing"
      /\ o.tok = op[t].tok /\ o.got = op[t].got /\ o.cgen = op[t].cgen
  <2>1. "clearing" \in Stages
    BY DEF Stages
  <2> QED BY <1>1, <2>1, GotoStep
<1> HIDE DEF o
<1>4. lock' \in Tasks \cup {Free} /\ OthersLock(t) /\ lock' # t /\ o.stage \notin Locked
  BY <1>1, <1>3, UnlockFrees DEF Locked
<1>5. /\ op'[t] = o /\ \A u \in Tasks \ {t} : op'[u] = op[u]
      /\ op' \in [Tasks -> Op] /\ Ownership'
  BY <1>3, <1>4, CallFrame
<1>6. /\ ended \subseteq ended'
      /\ \A s \in ended' : \/ s \in ended
                           \/ tokens # None /\ s = tokens.session
                           \/ creds # None /\ s = creds.session
  BY <1>1
<1>7. TypeOK'
  <2>1. ended' \subseteq Nat
    BY <1>6 DEF IInv, TypeOK, Token, Creds
  <2> QED
    BY <1>1, <1>4, <1>5, <2>1 DEF IInv, TypeOK
<1>8. Issued'
  <2>1. ended' \subseteq Sessions
    BY <1>6 DEF IInv, Issued
  <2> QED
    BY <1>1, <1>6, <2>1 DEF IInv, Issued, Epoch, Sessions
<1>9. /\ FlushHolds' /\ BaselineHolds' /\ LogoutIsFinal' /\ CachedAreCurrent' /\ ClientsFollow'
      /\ StoredFresh'
  BY <1>1 DEF IInv, FlushHolds, BaselineHolds, LogoutIsFinal, CachedAreCurrent, ClientsFollow,
     StoredFresh, Cached, Follows, Outside
<1>10. NewLogins'
  <2> SUFFICES ASSUME NEW u \in Tasks, op'[u].stage = "entered"
               PROVE  LET s == op'[u].tok.session IN
                      /\ s \notin ended'
                      /\ \A v \in Tasks \ {u} : op'[v].tok # None => op'[v].tok.session # s
    BY <1>1 DEF NewLogins
  <2>1. u # t /\ op'[u] = op[u]
    BY <1>3, <1>5
  <2> QED
    BY <1>3, <1>5, <1>6, <2>1 DEF IInv, NewLogins
<1>11. InHand'
  <2> SUFFICES ASSUME NEW u \in Tasks
               PROVE  /\ TokenInHand(op[u])' /\ CredsInHand(op[u])' /\ AnswerInHand(op[u])'
                      /\ IdentityInHand(op[u], ProcessOf[u])'
    BY DEF InHand
  <2>1. /\ TokenInHand(op'[u]) /\ CredsInHand(op'[u]) /\ IdentityInHand(op'[u], ProcessOf[u])
        /\ op'[u].stage \notin Locked
    BY <1>2, <1>3, <1>5, Has DEF TokenInHand, CredsInHand, IdentityInHand, Locked
  <2>2. TokenInHand(op[u])' /\ IdentityInHand(op[u], ProcessOf[u])'
    BY <1>1, <2>1 DEF TokenInHand, IdentityInHand, Current, Sessions, Follows, Outside, Locked
  <2>3. CredsInHand(op[u])' /\ AnswerInHand(op[u])'
    BY <2>1 DEF CredsInHand, AnswerInHand, Locked
  <2> QED BY <2>2, <2>3
<1> QED
  BY <1>5, <1>7, <1>8, <1>9, <1>10, <1>11 DEF IInv
\* Calls that began before the clearing hold an older generation.
LEMMA ClearClientsInv ==
  ASSUME IInv, NEW t \in Tasks, ClearClients(t)
  PROVE  IInv'
<1> USE DEF server, disk, history
<1> DEFINE p == ProcessOf[t]
<1>1. /\ op[t].stage = "clearing" /\ op' = [op EXCEPT ![t] = Idle]
      /\ gen' = [gen EXCEPT ![p] = @ + 1]
      /\ client' = [client EXCEPT ![p] = None]
      /\ cleared' = [cleared EXCEPT ![p] = [epoch |-> flushed, out |-> ended]]
      /\ UNCHANGED <<server, disk, lock, baseline, events, history>>
  BY DEF ClearClients, Put
<1>2. /\ p \in Processes /\ flushed \in Nat /\ ended \subseteq Nat
      /\ gen \in [Processes -> Nat]
      /\ cleared \in [Processes -> [epoch : Nat, out : SUBSET Nat]]
      /\ client \in [Processes -> Client \cup {None}]
  BY Has DEF IInv, TypeOK
<1>3. /\ gen'[p] = gen[p] + 1 /\ cleared'[p] = [epoch |-> flushed, out |-> ended]
      /\ client'[p] = None
      /\ \A q \in Processes \ {p} : gen'[q] = gen[q] /\ cleared'[q] = cleared[q] /\ client'[q] = client[q]
  BY <1>1, <1>2
<1>4. lock' \in Tasks \cup {Free} /\ OthersLock(t) /\ lock' # t /\ Idle.stage \notin Locked
  BY <1>1 DEF IInv, TypeOK, Ownership, OthersLock, Locked, Idle
<1>5. /\ op'[t] = Idle /\ \A u \in Tasks \ {t} : op'[u] = op[u]
      /\ op' \in [Tasks -> Op] /\ Ownership'
  BY <1>1, <1>4, IdleTyped, CallFrame
<1>6. TypeOK'
  <2>1. [epoch |-> flushed, out |-> ended] \in [epoch : Nat, out : SUBSET Nat]
    BY <1>2
  <2>2. /\ gen' \in [Processes -> Nat] /\ client' \in [Processes -> Client \cup {None}]
        /\ cleared' \in [Processes -> [epoch : Nat, out : SUBSET Nat]]
    BY <1>1, <1>2, <2>1
  <2> QED
    BY <1>1, <1>5, <2>2 DEF IInv, TypeOK
<1>7. Issued'
  BY <1>1, <1>2, <1>3 DEF IInv, Issued, Epoch, Sessions
<1>8. FlushHolds' /\ LogoutIsFinal' /\ CachedAreCurrent' /\ ClientsFollow'
  <2>1. FlushHolds' /\ LogoutIsFinal'
    BY <1>1 DEF IInv, FlushHolds, LogoutIsFinal, Follows, Outside
  <2>2. CachedAreCurrent' /\ ClientsFollow'
    BY <1>1, <1>3 DEF IInv, CachedAreCurrent, ClientsFollow, Cached, Follows, Outside
  <2> QED BY <2>1, <2>2
<1>9. StoredFresh' /\ NewLogins' /\ BaselineHolds'
  <2>1. ASSUME NEW s, Storing(s) PROVE Storing(s)'
    BY <1>1, <1>5, <2>1 DEF Storing
  <2>2. StoredFresh'
    BY <1>1, <2>1 DEF IInv, StoredFresh, Fresh, Current
  <2>3. NewLogins'
    BY <1>1, <1>5 DEF IInv, NewLogins, Idle
  <2>4. ASSUME NEW q \in Processes, Flushing(q) PROVE Flushing(q)'
    BY <1>1, <1>5, <2>4 DEF Flushing
  <2>5. BaselineHolds'
    BY <1>1, <2>4 DEF IInv, BaselineHolds, Follows
  <2> QED BY <2>2, <2>3, <2>5
<1>10. InHand'
  <2> SUFFICES ASSUME NEW u \in Tasks
               PROVE  /\ TokenInHand(op[u])' /\ CredsInHand(op[u])' /\ AnswerInHand(op[u])'
                      /\ IdentityInHand(op[u], ProcessOf[u])'
    BY DEF InHand
  <2>1. /\ TokenInHand(op'[u]) /\ CredsInHand(op'[u]) /\ AnswerInHand(op'[u])
        /\ IdentityInHand(op'[u], ProcessOf[u]) /\ op'[u] \in Op /\ ProcessOf[u] \in Processes
    BY <1>2, <1>5, Has, IdleHolds, IdleTyped DEF IInv
  <2>2. TokenInHand(op[u])' /\ CredsInHand(op[u])' /\ AnswerInHand(op[u])'
    BY <1>1, <2>1 DEF TokenInHand, CredsInHand, AnswerInHand, Fresh, Current, Sessions, Epoch
  <2>3. IdentityInHand(op[u], ProcessOf[u])'
    <3>1. CASE ProcessOf[u] = p
      <4>1. op'[u].cgen \in Nat /\ gen[p] \in Nat /\ op'[u].cgen <= gen[p]
        BY <1>2, <2>1, <3>1 DEF IdentityInHand, Op
      <4> QED
        BY <1>3, <2>1, <3>1, <4>1 DEF IdentityInHand
    <3>2. CASE ProcessOf[u] # p
      BY <1>3, <2>1, <3>2 DEF IdentityInHand, Follows, Outside
    <3> QED BY <3>1, <3>2
  <2> QED BY <2>2, <2>3
<1> QED
  BY <1>5, <1>6, <1>7, <1>8, <1>9, <1>10 DEF IInv

-----------------------------------------------------------------------------
(* Failures *)

LEMMA FailInv ==
  ASSUME IInv, NEW t \in Tasks, Fail(t)
  PROVE  IInv'
<1> USE DEF server, disk, local
<1>1. /\ op[t].stage # "flushing" /\ events' \in Nat /\ Leave(t)
      /\ lost' = lost \cup Unsaved(t)
      /\ UNCHANGED <<server, disk, local, ended, flushed>>
  BY DEF Fail, Happens, IInv, TypeOK
<1>2. CASE op[t].stage # "storing"
  <2>1. lost' = lost
    BY <1>1, <1>2 DEF Unsaved
  <2> QED
    BY <1>1, <1>2, <2>1, LeaveStep DEF history
<1>3. CASE op[t].stage = "storing"
  <2> DEFINE s == op[t].tok.session
  <2>1. s \in Nat /\ lost' = lost \cup {s}
    BY <1>1, <1>3, Has DEF Unsaved, Op, TokenInHand, Token
  <2> HIDE DEF s
  <2>2. /\ op' = [op EXCEPT ![t] = Idle] /\ Idle \in Op /\ lock' \in Tasks \cup {Free}
        /\ lock' # t /\ Idle.stage \notin Locked /\ OthersLock(t)
    BY <1>1, Leaving
  <2>3. /\ op'[t] = Idle /\ \A u \in Tasks \ {t} : op'[u] = op[u]
        /\ op' \in [Tasks -> Op] /\ Ownership'
    BY <2>2, CallFrame
  <2>4. TypeOK'
    BY <1>1, <2>1, <2>2, <2>3 DEF IInv, TypeOK
  <2>5. Issued' /\ FlushHolds' /\ LogoutIsFinal' /\ CachedAreCurrent' /\ ClientsFollow'
    BY <1>1 DEF IInv, Issued, FlushHolds, LogoutIsFinal, CachedAreCurrent, ClientsFollow,
       Epoch, Sessions, Cached, Follows, Outside
  <2>6. StoredFresh'
    <3>1. \A u \in Tasks \ {t} : op[u].stage # "storing"
      BY <1>3, OneInLock DEF Locked
    <3>2. Storing(tokens.session) => tokens.session = s
      BY <3>1 DEF Storing, s
    <3> QED
      BY <1>1, <2>1, <3>2 DEF IInv, StoredFresh, Fresh, Current
  <2>7. NewLogins'
    BY <1>1, <2>3 DEF IInv, NewLogins, Idle
  <2>8. BaselineHolds'
    <3>1. ASSUME NEW q \in Processes, Flushing(q) PROVE Flushing(q)'
      BY <1>1, <2>3, <3>1 DEF Flushing
    <3> QED
      BY <1>1, <3>1 DEF IInv, BaselineHolds, Follows
  <2>9. InHand'
    <3> SUFFICES ASSUME NEW u \in Tasks
                 PROVE  /\ TokenInHand(op[u])' /\ CredsInHand(op[u])' /\ AnswerInHand(op[u])'
                        /\ IdentityInHand(op[u], ProcessOf[u])'
      BY DEF InHand
    <3>1. /\ TokenInHand(op'[u]) /\ CredsInHand(op'[u]) /\ AnswerInHand(op'[u])
          /\ IdentityInHand(op'[u], ProcessOf[u])
      BY <2>3, Has, IdleHolds DEF IInv
    <3> QED
      BY <1>1, <2>1, <3>1 DEF TokenInHand, CredsInHand, AnswerInHand, IdentityInHand, Fresh,
         Current, Sessions, Epoch, Follows, Outside
  <2> QED
    BY <2>3, <2>4, <2>5, <2>6, <2>7, <2>8, <2>9 DEF IInv
<1> QED BY <1>2, <1>3

LEMMA CrashInv ==
  ASSUME IInv, NEW p \in Processes, Crash(p)
  PROVE  IInv'
<1> USE DEF server, disk
<1> DEFINE dead == {t \in Tasks : ProcessOf[t] = p}
<1>1. /\ events' \in Nat
      /\ op' = [t \in Tasks |-> IF t \in dead THEN Idle ELSE op[t]]
      /\ lock' = IF lock \in dead THEN Free ELSE lock
      /\ lost' = lost \cup UNION {Unsaved(t) : t \in dead}
      /\ baseline' = [baseline EXCEPT ![p] = 0]
      /\ client' = [client EXCEPT ![p] = None]
      /\ gen' = [gen EXCEPT ![p] = 0]
      /\ cleared' = [cleared EXCEPT ![p] = [epoch |-> 0, out |-> {}]]
      /\ UNCHANGED <<server, disk, ended, flushed>>
  BY DEF Crash, Happens, IInv, TypeOK
<1>2. /\ \A t \in dead : op'[t] = Idle
      /\ \A t \in Tasks \ dead : op'[t] = op[t] /\ ProcessOf[t] # p
      /\ op' \in [Tasks -> Op]
      /\ Idle.stage = "idle" /\ Idle.tok = None
  BY <1>1, IdleTyped, Has DEF IInv, TypeOK, Idle
<1>3. /\ baseline' \in [Processes -> Nat] /\ gen' \in [Processes -> Nat]
      /\ client' \in [Processes -> Client \cup {None}]
      /\ cleared' \in [Processes -> [epoch : Nat, out : SUBSET Nat]]
      /\ baseline'[p] = 0 /\ gen'[p] = 0 /\ client'[p] = None
      /\ cleared'[p] = [epoch |-> 0, out |-> {}]
      /\ \A q \in Processes \ {p} : /\ baseline'[q] = baseline[q] /\ gen'[q] = gen[q]
                                    /\ client'[q] = client[q] /\ cleared'[q] = cleared[q]
  <2>1. [epoch |-> 0, out |-> {}] \in [epoch : Nat, out : SUBSET Nat]
    OBVIOUS
  <2> QED
    BY <1>1, <2>1 DEF IInv, TypeOK
<1>4. /\ lost \subseteq lost' /\ lost' \subseteq Nat
      /\ \A t \in dead : op[t].stage = "storing" => op[t].tok.session \in lost'
  <2>1. ASSUME NEW t \in Tasks PROVE Unsaved(t) \subseteq Nat
    <3>1. op[t].stage = "storing" => op[t].tok.session \in Nat
      BY Has DEF TokenInHand, Op, Token
    <3> QED BY <3>1 DEF Unsaved
  <2>2. lost \subseteq Nat
    BY DEF IInv, TypeOK
  <2>3. lost \subseteq lost' /\ lost' \subseteq Nat
    BY <1>1, <2>1, <2>2
  <2>4. ASSUME NEW t \in dead, op[t].stage = "storing" PROVE op[t].tok.session \in lost'
    <3>1. Unsaved(t) = {op[t].tok.session}
      BY <2>4 DEF Unsaved
    <3> QED BY <1>1, <3>1
  <2> QED BY <2>3, <2>4
<1>5. lock' \in Tasks \cup {Free}
  BY <1>1 DEF IInv, TypeOK
<1>6. Ownership'
  <2> SUFFICES ASSUME NEW t \in Tasks PROVE op'[t].stage \in Locked <=> lock' = t
    BY DEF Ownership
  <2>1. op[t].stage \in Locked <=> lock = t
    BY DEF IInv, Ownership
  <2>2. CASE t \in dead
    BY <1>1, <1>2, <2>2 DEF Locked
  <2>3. CASE t \notin dead
    BY <1>1, <1>2, <2>1, <2>3
  <2> QED BY <2>2, <2>3
<1>7. TypeOK'
  BY <1>1, <1>2, <1>3, <1>4, <1>5 DEF IInv, TypeOK
<1>8. Issued'
  <2>1. flushed \in Nat /\ Epoch \in Nat
    BY DEF IInv, TypeOK, Epoch
  <2> QED
    BY <1>1, <1>3, <2>1 DEF IInv, Issued, Epoch, Sessions
<1>9. FlushHolds' /\ LogoutIsFinal' /\ CachedAreCurrent' /\ ClientsFollow'
  <2>1. FlushHolds' /\ LogoutIsFinal'
    BY <1>1 DEF IInv, FlushHolds, LogoutIsFinal, Follows, Outside
  <2>2. CachedAreCurrent' /\ ClientsFollow'
    BY <1>3 DEF IInv, CachedAreCurrent, ClientsFollow, Cached, Follows, Outside
  <2> QED BY <2>1, <2>2
<1>10. StoredFresh'
  <2>1. ASSUME NEW s, Storing(s) PROVE s \in lost' \/ Storing(s)'
    <3>1. PICK t \in Tasks : op[t].stage = "storing" /\ op[t].tok.session = s
      BY <2>1 DEF Storing
    <3>2. CASE t \in dead
      BY <1>4, <3>1, <3>2
    <3>3. CASE t \notin dead
      <4>1. op'[t].stage = "storing" /\ op'[t].tok.session = s
        BY <1>2, <3>1, <3>3
      <4> QED BY <4>1 DEF Storing
    <3> QED BY <3>2, <3>3
  <2> QED
    BY <1>1, <1>4, <2>1 DEF IInv, StoredFresh, Fresh, Current
<1>11. NewLogins'
  BY <1>1, <1>2 DEF IInv, NewLogins
<1>12. BaselineHolds'
  <2>1. ASSUME NEW q \in Processes, q # p, Flushing(q) PROVE Flushing(q)'
    <3>1. PICK t \in Tasks : ProcessOf[t] = q /\ op[t].stage = "flushing"
      BY <2>1 DEF Flushing
    <3>2. op'[t].stage = "flushing"
      BY <1>2, <2>1, <3>1
    <3> QED BY <3>1, <3>2 DEF Flushing
  <2> QED
    BY <1>1, <1>3, <2>1 DEF IInv, BaselineHolds, Follows
<1>13. InHand'
  <2> SUFFICES ASSUME NEW t \in Tasks
               PROVE  /\ TokenInHand(op[t])' /\ CredsInHand(op[t])' /\ AnswerInHand(op[t])'
                      /\ IdentityInHand(op[t], ProcessOf[t])'
    BY DEF InHand
  <2>1. CASE t \in dead
    <3>1. op'[t] = Idle /\ Idle.cgen = 0 /\ gen'[ProcessOf[t]] = 0
      BY <1>2, <1>3, <2>1 DEF Idle
    <3> QED
      BY <1>2, <3>1 DEF TokenInHand, CredsInHand, AnswerInHand, IdentityInHand
  <2>2. CASE t \notin dead
    <3>1. /\ op'[t] = op[t] /\ ProcessOf[t] \in Processes \ {p}
          /\ TokenInHand(op[t]) /\ CredsInHand(op[t]) /\ AnswerInHand(op[t])
          /\ IdentityInHand(op[t], ProcessOf[t])
      BY <1>2, <2>2, Has
    <3>2. TokenInHand(op[t])' /\ AnswerInHand(op[t])'
      BY <1>1, <1>4, <3>1 DEF TokenInHand, AnswerInHand, Fresh, Current, Sessions, Epoch
    <3>3. IdentityInHand(op[t], ProcessOf[t])'
      BY <1>3, <3>1 DEF IdentityInHand, Follows, Outside
    <3>4. CredsInHand(op[t])'
      <4>1. op[t].stage = "saving" => \A q \in Processes : op[t].got.epoch >= baseline'[q]
        <5>1. op[t].stage = "saving" => op[t].got.epoch \in Nat
          BY <3>1, Has DEF CredsInHand, Op, Creds
        <5> QED BY <1>3, <3>1, <5>1 DEF CredsInHand
      <4> QED BY <1>1, <3>1, <4>1 DEF CredsInHand
    <3> QED BY <3>2, <3>3, <3>4
  <2> QED BY <2>1, <2>2
<1> QED
  BY <1>6, <1>7, <1>8, <1>9, <1>10, <1>11, <1>12, <1>13 DEF IInv

-----------------------------------------------------------------------------
LEMMA StepInv == IInv /\ [Next]_vars => IInv'
<1> SUFFICES ASSUME IInv, [Next]_vars PROVE IInv'
  OBVIOUS
<1>1. ASSUME NEW t \in Tasks, Step(t) PROVE IInv'
  BY <1>1, OpenInv, SignInv, CheckCredentialsInv, ReturnCredentialsInv, TakeLockInv, RecheckInv,
     ReadTokensInv, RefreshTokensInv, TokensSavedInv, AskedInv, SaveCredentialsInv, SwitchRoleInv,
     ListCallInv, ObserveRoleInv, FlushInv, EraseInv, ClearClientsInv, ExchangeCodeInv,
     VendLoginInv, SaveLoginCredentialsInv DEF Step
<1>2. CASE UNCHANGED vars
  <2>1. /\ UNCHANGED <<roles, rotation, tokens, creds, lock, baseline, client, gen, cleared>>
        /\ UNCHANGED <<op, events, lost, ended, flushed>>
    BY <1>2 DEF vars, server, disk, local, history
  <2> QED
    BY <2>1, SMTT(30) DEF IInv, TypeOK, Ownership, Issued, StoredFresh, NewLogins, InHand,
       CachedAreCurrent, FlushHolds, BaselineHolds, ClientsFollow, LogoutIsFinal, TokenInHand,
       CredsInHand, AnswerInHand, IdentityInHand, Fresh, Current, Storing, Sessions, Epoch,
       Cached, Follows, Outside, Flushing
<1> QED
  BY <1>1, <1>2, StartsInv, RefusedInv, FlushFailsInv, EraseFailsInv, FailInv, WebSwitchInv,
     ExpireInv, CrashInv DEF Next

\* What is on disk, in clients and in every call's hand is current in all that
\* the properties below ask of it.
THEOREM SessionInvariant == Spec => []IInv
BY InitInv, StepInv, PTL DEF Spec

LEMMA Refreshes == IInv => RefreshesAreCurrent
  BY DEF IInv, InHand, TokenInHand, RefreshesAreCurrent, Fresh

\* Nobody presents a refresh token that another call's refresh has retired.
THEOREM WinnersTokensAreRead == Spec => []RefreshesAreCurrent
BY SessionInvariant, Refreshes, PTL

\* A flush is not undone by a vend in flight, in any process.
THEOREM FlushIsKept == Spec => []FlushHolds
<1>1. IInv => FlushHolds
  BY DEF IInv
<1> QED BY <1>1, SessionInvariant, PTL

\* A known role has no older role's credentials under it.
THEOREM RoleIsTheCredentials == Spec => []BaselineHolds
<1>1. IInv => BaselineHolds
  BY DEF IInv
<1> QED BY <1>1, SessionInvariant, PTL

\* A client cleared of a role or a session does not come back with it.
THEOREM ClearedClientsStayCleared == Spec => []ClientsFollow
<1>1. IInv => ClientsFollow
  BY DEF IInv
<1> QED BY <1>1, SessionInvariant, PTL

\* No refresh in flight brings a logged-out session back.
THEOREM LogoutStays == Spec => []LogoutIsFinal
<1>1. IInv => LogoutIsFinal
  BY DEF IInv
<1> QED BY <1>1, SessionInvariant, PTL

-----------------------------------------------------------------------------
(* Every call ends: what NeverStuck rests on, whatever the steps before     *)

\* One step of a call: to the next of its stages, from the construction of a
\* client to the request, or back from a refusal to the tokens.
GoesTo(o, n, from, to) == o.stage = from /\ n.stage \in to

Continues(o, n) ==
    \/ GoesTo(o, n, "opening", {"signing"})
    \/ GoesTo(o, n, "signing", {"checking"})
    \/ GoesTo(o, n, "checking", {"waiting", "returning"})
    \/ GoesTo(o, n, "waiting", {"rechecking", "token", "erasing"})
    \/ GoesTo(o, n, "rechecking", {"token", "returning"})
    \/ GoesTo(o, n, "token", {"refreshing", "calling"})
    \/ GoesTo(o, n, "refreshing", {"storing"})
    \/ GoesTo(o, n, "storing", {"calling"})
    \/ GoesTo(o, n, "calling", {"saving", "observing"})
    \/ GoesTo(o, n, "saving", {"returning"})
    \/ GoesTo(o, n, "observing", {"flushing", "clearing"})
    \/ GoesTo(o, n, "flushing", {"clearing"})
    \/ GoesTo(o, n, "erasing", {"clearing"})
    \/ GoesTo(o, n, "entering", {"entered"})
    \/ GoesTo(o, n, "entered", {"vending"})
    \/ GoesTo(o, n, "vending", {"vended"})

GoesOn(o, n) ==
    /\ n.kind = o.kind /\ n.stage \in StagesOf(n.kind)
    /\ \/ Continues(o, n) /\ n.building = o.building /\ n.forced = o.forced
       \/ GoesTo(o, n, "opening", {"checking"}) /\ n.building /\ n.forced = o.forced
       \/ GoesTo(o, n, "returning", {"signing"}) /\ o.building /\ ~n.building /\ ~n.forced
       \/ /\ GoesTo(o, n, "calling", {"token"}) /\ ~o.forced /\ n.forced
          /\ n.building = o.building

LEMMA IdleRank == Rank(Idle) = 0 /\ InOrder(Idle)
  BY DEF Rank, Idle, InOrder, StagesOf

LEMMA RankTyped ==
  ASSUME NEW o
  PROVE  Rank(o) \in Nat /\ (o.stage # "idle" => Rank(o) > 0)
  BY DEF Rank

LEMMA GoingOn ==
  ASSUME NEW o \in Op, NEW n \in Op, InOrder(o), GoesOn(o, n)
  PROVE  InOrder(n) /\ Rank(n) < Rank(o)
<1>1. o.building \in BOOLEAN /\ n.building \in BOOLEAN /\ o.forced \in BOOLEAN /\ n.forced \in BOOLEAN
  BY DEF Op
<1>2. n.stage # "idle"
  BY DEF GoesOn, Continues, GoesTo
<1>3. InOrder(n)
  BY <1>2 DEF InOrder, GoesOn, Continues, GoesTo, StagesOf
<1>4. Rank(n) < Rank(o)
  <2>1. CASE Continues(o, n) /\ n.building = o.building /\ n.forced = o.forced
    BY <1>1, <2>1 DEF Rank, Continues, GoesTo
  <2>2. CASE GoesTo(o, n, "opening", {"checking"}) /\ n.building /\ n.forced = o.forced
    BY <1>1, <2>2 DEF Rank, GoesTo
  <2>3. CASE GoesTo(o, n, "returning", {"signing"}) /\ o.building /\ ~n.building /\ ~n.forced
    BY <1>1, <2>3 DEF Rank, GoesTo
  <2>4. CASE /\ GoesTo(o, n, "calling", {"token"}) /\ ~o.forced /\ n.forced
             /\ n.building = o.building
    BY <1>1, <2>4 DEF Rank, GoesTo
  <2> QED
    BY <2>1, <2>2, <2>3, <2>4 DEF GoesOn
<1> QED
  BY <1>3, <1>4

\* What a step makes of its call.
Moves(t) ==
    /\ \A u \in Tasks \ {t} : op'[u] = op[u]
    /\ op'[t] = Idle \/ GoesOn(op[t], op'[t])

LEMMA UseMoves ==
  ASSUME IInv, CallsInOrder, NEW t \in Tasks,
         Open(t) \/ Sign(t) \/ CheckCredentials(t) \/ ReturnCredentials(t)
  PROVE  Moves(t)
<1>0. op \in [Tasks -> Op] /\ op[t] \in Op /\ op[t].stage \in StagesOf(op[t].kind)
  BY DEF IInv, TypeOK, CallsInOrder, InOrder
<1>1. ASSUME Open(t) PROVE Moves(t)
  <2>1. /\ \A u \in Tasks \ {t} : op'[u] = op[u]
        /\ op[t].stage = "opening" /\ op'[t].kind = op[t].kind /\ op'[t].forced = op[t].forced
        /\ \/ op'[t].stage = "signing" /\ op'[t].building = op[t].building
           \/ op'[t].stage = "checking" /\ op'[t].building
    <3>1. CASE Cached(ProcessOf[t])
      <4>1. op' = [op EXCEPT ![t] = [op[t] EXCEPT !.stage = "signing",
                                                  !.cgen = client[ProcessOf[t]].gen]]
        BY <1>1, <3>1 DEF Open, Put
      <4> QED
        BY <1>0, <1>1, <4>1 DEF Open, Op
    <3>2. CASE ~Cached(ProcessOf[t])
      <4>1. op' = [op EXCEPT ![t] = [op[t] EXCEPT !.stage = "checking", !.building = TRUE,
                                                  !.cgen = gen[ProcessOf[t]]]]
        BY <1>1, <3>2 DEF Open, Put
      <4> QED
        BY <1>0, <1>1, <4>1 DEF Open, Op
    <3> QED
      BY <3>1, <3>2
  <2> QED
    BY <1>0, <2>1 DEF Moves, GoesOn, Continues, GoesTo, StagesOf
<1>2. ASSUME Sign(t) PROVE Moves(t)
  <2>1. /\ \A u \in Tasks \ {t} : op'[u] = op[u]
        /\ \/ op'[t] = Idle
           \/ /\ op[t].stage = "signing" /\ op'[t].stage = "checking"
              /\ op'[t].kind = op[t].kind
              /\ op'[t].forced = op[t].forced /\ op'[t].building = op[t].building
    BY <1>0, <1>2 DEF Sign, Goto, Put, Op
  <2> QED
    BY <1>0, <2>1 DEF Moves, GoesOn, Continues, GoesTo, StagesOf
<1>3. ASSUME CheckCredentials(t) PROVE Moves(t)
  <2>1. /\ \A u \in Tasks \ {t} : op'[u] = op[u]
        /\ \/ op'[t] = Idle
           \/ /\ op[t].stage = "checking" /\ op'[t].stage \in {"returning", "waiting"}
              /\ op'[t].kind = op[t].kind
              /\ op'[t].forced = op[t].forced /\ op'[t].building = op[t].building
    <3>1. CASE creds # None
      <4>1. op' = [op EXCEPT ![t] = [op[t] EXCEPT !.stage = "returning", !.got = creds]]
        BY <1>3, <3>1 DEF CheckCredentials, Put
      <4> QED
        BY <1>0, <1>3, <4>1 DEF CheckCredentials, Op
    <3>2. CASE creds = None
      BY <1>0, <1>3, <3>2 DEF CheckCredentials, Goto, Put, Op
    <3> QED
      BY <3>1, <3>2
  <2> QED
    BY <1>0, <2>1 DEF Moves, GoesOn, Continues, GoesTo, StagesOf
<1>4. ASSUME ReturnCredentials(t) PROVE Moves(t)
  <2>1. /\ \A u \in Tasks \ {t} : op'[u] = op[u]
        /\ \/ op'[t] = Idle
           \/ /\ op[t].stage = "returning" /\ op'[t].stage = "signing"
              /\ op'[t].kind = op[t].kind
              /\ op[t].building /\ ~op'[t].building /\ ~op'[t].forced
    <3>1. CASE op[t].building
      <4>1. op' = [op EXCEPT ![t] = [op[t] EXCEPT !.stage = "signing", !.got = None,
                                                  !.building = FALSE, !.forced = FALSE]]
        BY <1>4, <3>1 DEF ReturnCredentials, Put
      <4> QED
        BY <1>0, <1>4, <3>1, <4>1 DEF ReturnCredentials, Op
    <3>2. CASE ~op[t].building
      BY <1>0, <1>4, <3>2 DEF ReturnCredentials, Put
    <3> QED
      BY <3>1, <3>2
  <2> QED
    BY <1>0, <2>1 DEF Moves, GoesOn, GoesTo, StagesOf
<1> QED
  BY <1>1, <1>2, <1>3, <1>4

\* Under the lock, to the answer of the server.
LEMMA LockedMoves ==
  ASSUME IInv, CallsInOrder, NEW t \in Tasks,
         TakeLock(t) \/ Recheck(t) \/ ReadTokens(t) \/ RefreshTokens(t) \/ StoreTokens(t)
  PROVE  Moves(t)
<1>0. op \in [Tasks -> Op] /\ op[t] \in Op /\ op[t].stage \in StagesOf(op[t].kind)
  BY DEF IInv, TypeOK, CallsInOrder, InOrder
<1> DEFINE Kept == /\ \A u \in Tasks \ {t} : op'[u] = op[u]
                   /\ op'[t].kind = op[t].kind
                   /\ op'[t].forced = op[t].forced /\ op'[t].building = op[t].building
<1>1. ASSUME TakeLock(t) PROVE Moves(t)
  <2>1. /\ Kept /\ op[t].stage = "waiting"
        /\ op'[t].stage = CASE op[t].kind = "use"    -> "rechecking"
                            [] op[t].kind = "logout" -> "erasing"
                            [] OTHER                 -> "token"
    BY <1>0, <1>1 DEF TakeLock, Enter, Goto, Op
  <2> QED
    BY <1>0, <2>1 DEF Moves, GoesOn, Continues, GoesTo, StagesOf
<1>2. ASSUME Recheck(t) PROVE Moves(t)
  <2>1. /\ Kept /\ op[t].stage = "rechecking"
        /\ op'[t].stage \in {"returning", "token"}
    <3>1. CASE creds # None
      <4>1. op' = [op EXCEPT ![t] = [op[t] EXCEPT !.stage = "returning", !.got = creds]]
        BY <1>2, <3>1 DEF Recheck, Put
      <4> QED
        BY <1>0, <1>2, <4>1 DEF Recheck, Op
    <3>2. CASE creds = None
      BY <1>0, <1>2, <3>2 DEF Recheck, Goto, Op
    <3> QED
      BY <3>1, <3>2
  <2> QED
    BY <1>0, <2>1 DEF Moves, GoesOn, Continues, GoesTo, StagesOf
<1>3. ASSUME ReadTokens(t) PROVE Moves(t)
  <2>1. CASE Leave(t)
    BY <1>0, <2>1 DEF Leave, Put, Moves
  <2>2. CASE ~Leave(t)
    <3>1. PICK stage \in {"refreshing", "calling"} :
             op' = [op EXCEPT ![t] = [op[t] EXCEPT !.stage = stage, !.tok = tokens]]
      BY <1>3, <2>2 DEF ReadTokens, Put
    <3>2. Kept /\ op[t].stage = "token" /\ op'[t].stage = stage
      BY <1>0, <1>3, <3>1 DEF ReadTokens, Op
    <3> QED
      BY <1>0, <3>2 DEF Moves, GoesOn, Continues, GoesTo, StagesOf
  <2> QED
    BY <2>1, <2>2
<1>4. ASSUME RefreshTokens(t) PROVE Moves(t)
  <2>1. CASE Leave(t)
    BY <1>0, <2>1 DEF Leave, Put, Moves
  <2>2. CASE ~Leave(t)
    <3>1. Kept /\ op[t].stage = "refreshing" /\ op'[t].stage = "storing"
      <4>1. op' = [op EXCEPT ![t] = [op[t] EXCEPT !.stage = "storing", !.tok.n = @ + 1]]
        BY <1>4, <2>2 DEF RefreshTokens, Put
      <4>2. op[t].stage = "refreshing"
        BY <1>4 DEF RefreshTokens
      <4> QED
        BY <1>0, <4>1, <4>2 DEF Op
    <3> QED
      BY <1>0, <3>1 DEF Moves, GoesOn, Continues, GoesTo, StagesOf
  <2> QED
    BY <2>1, <2>2
<1>5. ASSUME StoreTokens(t) PROVE Moves(t)
  <2>1. Kept /\ op[t].stage = "storing" /\ op'[t].stage = "calling"
    BY <1>0, <1>5 DEF StoreTokens, Goto, Op
  <2> QED
    BY <1>0, <2>1 DEF Moves, GoesOn, Continues, GoesTo, StagesOf
<1> QED
  BY <1>1, <1>2, <1>3, <1>4, <1>5

\* What is done with the answer.
LEMMA AnswerMoves ==
  ASSUME IInv, CallsInOrder, NEW t \in Tasks,
         \/ Vend(t) \/ SaveCredentials(t) \/ (\E r \in Roles : SwitchRole(t, r))
         \/ RefreshRoles(t) \/ ListCall(t) \/ ObserveRole(t) \/ Flush(t) \/ Refused(t)
  PROVE  Moves(t)
<1>0. op \in [Tasks -> Op] /\ op[t] \in Op /\ op[t].stage \in StagesOf(op[t].kind)
  BY DEF IInv, TypeOK, CallsInOrder, InOrder
<1> DEFINE Kept == /\ \A u \in Tasks \ {t} : op'[u] = op[u]
                   /\ op'[t].kind = op[t].kind
                   /\ op'[t].forced = op[t].forced /\ op'[t].building = op[t].building
<1>1. ASSUME NEW stage, NEW epoch, Called(t, stage, epoch)
      PROVE  Kept /\ op'[t].stage = stage
  BY <1>0, <1>1 DEF Called, Put, Op
<1>2. ASSUME Vend(t) PROVE Moves(t)
  <2>1. Kept /\ op[t].stage = "calling" /\ op[t].kind = "use" /\ op'[t].stage = "saving"
    BY <1>1, <1>2 DEF Vend
  <2> QED
    BY <2>1 DEF Moves, GoesOn, Continues, GoesTo, StagesOf
<1>3. ASSUME SaveCredentials(t) PROVE Moves(t)
  <2>1. Kept /\ op[t].stage = "saving" /\ op'[t].stage = "returning"
    BY <1>0, <1>3 DEF SaveCredentials, Goto, Op
  <2> QED
    BY <1>0, <2>1 DEF Moves, GoesOn, Continues, GoesTo, StagesOf
<1>4. ASSUME (\E r \in Roles : SwitchRole(t, r)) \/ RefreshRoles(t) PROVE Moves(t)
  <2>1. /\ Kept /\ op[t].stage = "calling" /\ op[t].kind \in {"switch", "observe"}
        /\ op'[t].stage = "observing"
    BY <1>1, <1>4 DEF SwitchRole, RefreshRoles
  <2> QED
    BY <2>1 DEF Moves, GoesOn, Continues, GoesTo, StagesOf
<1>5. ASSUME ListCall(t) PROVE Moves(t)
  BY <1>0, <1>5 DEF ListCall, Leave, Put, Moves
<1>6. ASSUME ObserveRole(t) PROVE Moves(t)
  <2>1. Kept /\ op[t].stage = "observing" /\ op'[t].stage \in {"flushing", "clearing"}
    BY <1>0, <1>6 DEF ObserveRole, Goto, Op
  <2> QED
    BY <1>0, <2>1 DEF Moves, GoesOn, Continues, GoesTo, StagesOf
<1>7. ASSUME Flush(t) PROVE Moves(t)
  <2>1. Kept /\ op[t].stage = "flushing" /\ op'[t].stage = "clearing"
    BY <1>0, <1>7 DEF Flush, Goto, Op
  <2> QED
    BY <1>0, <2>1 DEF Moves, GoesOn, Continues, GoesTo, StagesOf
<1>8. ASSUME Refused(t) PROVE Moves(t)
  <2>1. /\ \A u \in Tasks \ {t} : op'[u] = op[u]
        /\ op[t].stage = "calling" /\ op'[t].stage = "token" /\ op'[t].kind = op[t].kind
        /\ ~op[t].forced /\ op'[t].forced /\ op'[t].building = op[t].building
    BY <1>0, <1>8 DEF Refused, Put, Op
  <2> QED
    BY <1>0, <2>1 DEF Moves, GoesOn, GoesTo, StagesOf
<1> QED
  BY <1>2, <1>3, <1>4, <1>5, <1>6, <1>7, <1>8

\* Logins, the end of a logout, and failures.
LEMMA OtherMoves ==
  ASSUME IInv, CallsInOrder, NEW t \in Tasks,
         \/ Erase(t) \/ ClearClients(t) \/ ExchangeCode(t) \/ SaveLoginTokens(t)
         \/ VendLogin(t) \/ SaveLoginCredentials(t)
         \/ FlushFails(t) \/ EraseFails(t) \/ Fail(t)
  PROVE  Moves(t)
<1>0. op \in [Tasks -> Op] /\ op[t] \in Op /\ op[t].stage \in StagesOf(op[t].kind)
  BY DEF IInv, TypeOK, CallsInOrder, InOrder
<1> DEFINE Kept == /\ \A u \in Tasks \ {t} : op'[u] = op[u]
                   /\ op'[t].kind = op[t].kind
                   /\ op'[t].forced = op[t].forced /\ op'[t].building = op[t].building
<1>1. ASSUME Erase(t) PROVE Moves(t)
  <2>1. Kept /\ op[t].stage = "erasing" /\ op'[t].stage = "clearing"
    BY <1>0, <1>1 DEF Erase, Goto, Op
  <2> QED
    BY <1>0, <2>1 DEF Moves, GoesOn, Continues, GoesTo, StagesOf
<1>2. ASSUME \/ ClearClients(t) \/ SaveLoginCredentials(t)
             \/ FlushFails(t) \/ EraseFails(t) \/ Fail(t)
      PROVE  Moves(t)
  <2>1. op' = [op EXCEPT ![t] = Idle]
    BY <1>2 DEF ClearClients, SaveLoginCredentials, FlushFails, EraseFails, Fail, Leave, Put
  <2> QED
    BY <1>0, <2>1 DEF Moves
<1>3. ASSUME ExchangeCode(t) PROVE Moves(t)
  <2>1. Kept /\ op[t].stage = "entering" /\ op'[t].stage = "entered"
    BY <1>0, <1>3 DEF ExchangeCode, Put, Op
  <2> QED
    BY <1>0, <2>1 DEF Moves, GoesOn, Continues, GoesTo, StagesOf
<1>4. ASSUME SaveLoginTokens(t) PROVE Moves(t)
  <2>1. Kept /\ op[t].stage = "entered" /\ op'[t].stage = "vending"
    BY <1>0, <1>4 DEF SaveLoginTokens, Goto, Op
  <2> QED
    BY <1>0, <2>1 DEF Moves, GoesOn, Continues, GoesTo, StagesOf
<1>5. ASSUME VendLogin(t) PROVE Moves(t)
  <2>1. Kept /\ op[t].stage = "vending" /\ op'[t].stage = "vended"
    BY <1>0, <1>5 DEF VendLogin, Put, Op
  <2> QED
    BY <1>0, <2>1 DEF Moves, GoesOn, Continues, GoesTo, StagesOf
<1> QED
  BY <1>1, <1>2, <1>3, <1>4, <1>5

\* A call that begins.
LEMMA StartMoves ==
  ASSUME IInv, NEW t \in Tasks,
         Use(t) \/ Login(t) \/ Logout(t)
            \/ \E kind \in {"switch", "observe", "list"} : RoleCall(t, kind)
  PROVE  /\ \A u \in Tasks \ {t} : op'[u] = op[u]
         /\ op[t] = Idle /\ InOrder(op'[t])
<1>0. op \in [Tasks -> Op]
  BY DEF IInv, TypeOK
<1>1. PICK kind \in Kinds, stage \in Stages :
         Start(t, kind, stage) /\ stage \in StagesOf(kind) /\ stage # "idle"
  BY DEF Use, Login, Logout, RoleCall, StagesOf, Kinds, Stages
<1>2. op' = [op EXCEPT ![t] = [Idle EXCEPT !.kind = kind, !.stage = stage]] /\ op[t] = Idle
  BY <1>1 DEF Start, Put
<1>3. /\ \A u \in Tasks \ {t} : op'[u] = op[u]
      /\ op'[t].kind = kind /\ op'[t].stage = stage /\ op'[t].building = FALSE
  BY <1>0, <1>2 DEF Idle
<1> QED
  BY <1>1, <1>2, <1>3 DEF InOrder

\* What a step does to the calls: one begins, goes on or is over, or those of a
\* process are.
LEMMA CallsMove ==
  ASSUME IInv, CallsInOrder, [Next]_vars, NEW t \in Tasks
  PROVE  /\ InOrder(op'[t])
         /\ op[t] # Idle /\ op'[t] # op[t] => Rank(op'[t]) < Rank(op[t])
<1>0. op[t] \in Op /\ InOrder(op[t]) /\ op'[t] \in Op
  <2>1. IInv'
    BY StepInv
  <2> QED
    BY <2>1 DEF IInv, TypeOK, CallsInOrder
<1>1. ASSUME op'[t] = Idle
      PROVE  InOrder(op'[t]) /\ (op[t] # Idle => Rank(op'[t]) < Rank(op[t]))
  <2>1. op[t] # Idle => Rank(op[t]) > 0
    BY <1>0, RankTyped DEF InOrder
  <2> QED
    BY <1>1, <2>1, IdleRank
<1>2. ASSUME NEW u \in Tasks, Moves(u) PROVE InOrder(op'[t]) /\ (op'[t] # op[t] /\ op[t] # Idle => Rank(op'[t]) < Rank(op[t]))
  <2>1. CASE u # t
    BY <1>0, <1>2, <2>1 DEF Moves
  <2>2. CASE u = t /\ GoesOn(op[t], op'[t])
    BY <1>0, <2>2, GoingOn
  <2> QED
    BY <1>1, <1>2, <2>1, <2>2 DEF Moves
<1>3. ASSUME NEW u \in Tasks,
             Use(u) \/ Login(u) \/ Logout(u)
               \/ \E kind \in {"switch", "observe", "list"} : RoleCall(u, kind)
      PROVE  InOrder(op'[t]) /\ (op'[t] # op[t] => op[t] = Idle)
  <2>1. /\ \A v \in Tasks \ {u} : op'[v] = op[v]
        /\ op[u] = Idle /\ InOrder(op'[u])
    BY <1>3, StartMoves
  <2> QED
    BY <1>0, <2>1
<1>4. ASSUME NEW p \in Processes, Crash(p) PROVE op'[t] = Idle \/ op'[t] = op[t]
  BY <1>4 DEF Crash
<1>5. CASE UNCHANGED op
  BY <1>0, <1>5
<1>6. ASSUME NEW u \in Tasks, Step(u) PROVE Moves(u)
  BY <1>6, UseMoves, LockedMoves, AnswerMoves, OtherMoves DEF Step
<1>7. ASSUME NEW u \in Tasks, Refused(u) \/ FlushFails(u) \/ EraseFails(u) \/ Fail(u) PROVE Moves(u)
  BY <1>7, AnswerMoves, OtherMoves
<1>8. CASE Next
  <2>1. CASE \E u \in Tasks :
               \/ Use(u) \/ Login(u) \/ Logout(u)
               \/ \E kind \in {"switch", "observe", "list"} : RoleCall(u, kind)
    BY <2>1, <1>3
  <2>2. CASE \E u \in Tasks : Step(u) \/ Refused(u) \/ FlushFails(u) \/ EraseFails(u) \/ Fail(u)
    BY <2>2, <1>2, <1>6, <1>7
  <2>3. CASE (\E r \in Roles : WebSwitch(r)) \/ Expire
    BY <2>3, <1>5 DEF WebSwitch, Expire
  <2>4. CASE \E p \in Processes : Crash(p)
    BY <2>4, <1>0, <1>1, <1>4
  <2> QED
    BY <1>8, <2>1, <2>2, <2>3, <2>4 DEF Next
<1> QED
  BY <1>5, <1>8 DEF vars

LEMMA CallsStart == Init => CallsInOrder
  BY IdleRank DEF Init, CallsInOrder

LEMMA CallsStay == IInv /\ CallsInOrder /\ [Next]_vars => CallsInOrder'
  BY CallsMove DEF CallsInOrder

\* Each call is at a stage of its kind, whatever came before.
LEMMA CallsKeepOrder == Spec => []CallsInOrder
<1> QED
  BY SessionInvariant, CallsStart, CallsStay, PTL DEF Spec

\* No call begun is given more steps by anything: its own steps, refusals,
\* failures and crashes each bring it nearer to its end.
THEOREM EveryCallRunsDown == Spec => CallsRunDown
<1> DEFINE Down == \A t \in Tasks :
              op[t] # Idle /\ op'[t] # op[t] => Rank(op'[t]) < Rank(op[t])
<1>1. IInv /\ CallsInOrder /\ [Next]_vars => [Down]_vars
  BY CallsMove
<1> QED
  BY <1>1, SessionInvariant, CallsKeepOrder, PTL DEF Spec, CallsRunDown

\* Nobody waits in a circle: the call that has the lock waits for nobody, and one
\* that constructs a client waits for the lock at most.
THEOREM NobodyWaitsInACircle == Spec => []SomeCallGoesOn
<1>1. IInv /\ CallsInOrder => SomeCallGoesOn
  <2> SUFFICES ASSUME IInv, CallsInOrder, NEW t \in Tasks, op[t] # Idle
               PROVE  \E u \in Tasks : op[u] # Idle /\ ~Blocked(u)
    BY DEF SomeCallGoesOn
  <2>1. \A u \in Tasks : op[u].stage \notin {"waiting", "opening"} => ~Blocked(u)
    BY DEF Blocked
  <2>2. ASSUME NEW u \in Tasks, op[u].stage = "waiting", Blocked(u)
        PROVE  \E v \in Tasks : op[v] # Idle /\ ~Blocked(v)
    <3>1. lock \in Tasks /\ op[lock].stage \in Locked
      BY <2>2 DEF Blocked, IInv, TypeOK, Ownership
    <3>2. op[lock].stage \notin {"waiting", "opening", "idle"}
      BY <3>1 DEF Locked
    <3> QED
      BY <2>1, <3>1, <3>2 DEF Idle
  <2>3. ASSUME op[t].stage = "opening", Blocked(t)
        PROVE  \E v \in Tasks : op[v] # Idle /\ ~Blocked(v)
    <3>1. PICK u \in Tasks : op[u].building
      BY <2>3 DEF Blocked
    <3>2. op[u].stage # "opening" /\ op[u] # Idle
      BY <3>1 DEF CallsInOrder, InOrder, Idle
    <3>3. CASE op[u].stage = "waiting" /\ Blocked(u)
      BY <2>2, <3>3
    <3> QED
      BY <2>1, <3>2, <3>3
  <2> QED
    BY <2>1, <2>2, <2>3
<1> QED
  BY <1>1, SessionInvariant, CallsKeepOrder, PTL

=============================================================================
