---------------------------- MODULE AuthSession ----------------------------
(***************************************************************************)
(* The login on one catalog host (auth.rs): its tokens and its vended      *)
(* credentials, on disk and shared by processes; the active role, which is *)
(* the server's; and in each process the role it last observed and an S3   *)
(* client that keeps credentials of its own (io/remote/s3.rs).  Refreshes, *)
(* role calls and logouts hold the host's lock; reads of valid credentials *)
(* and logins do not.                                                      *)
(*                                                                         *)
(* Role changes are counted in epochs, logins in sessions.  Every refresh  *)
(* of a session's tokens retires the refresh token it was made with.       *)
(***************************************************************************)
EXTENDS Naturals, Sequences

CONSTANTS
    Tasks,
    Processes,
    ProcessOf,
    Roles,
    None,
    Free,
    MaxEvents \* bound: calls, switches elsewhere, and faults (refusals, failed
              \* or cancelled calls, dead processes)

ASSUME AuthSessionAssumption ==
    /\ ProcessOf \in [Tasks -> Processes]
    /\ Roles # {}
    /\ Free \notin Tasks
    /\ MaxEvents \in Nat

VARIABLES
    roles,    \* server: the active role of each epoch
    rotation, \* server: each session's refreshes so far
    tokens,   \* disk: tokens.json
    creds,    \* disk: credentials.json
    lock,     \* the host's lock: the call that holds it
    baseline, \* each process's session_roles: the epoch observed, or 0
    client,   \* each process's cached S3 client
    gen,      \* each process's client_cache_generation
    op,       \* each task's call
    events,
    \* History: sessions whose current refresh token reached no disk; sessions
    \* logged out; the last epoch the disk was flushed for; and what each
    \* process had been told by the time it last cleared its clients.
    lost, ended, flushed, cleared

disk == <<tokens, creds>>
server == <<roles, rotation>>
local == <<baseline, client, gen, cleared>>
history == <<lost, ended, flushed>>
vars == <<server, disk, lock, local, op, events, history>>

Token == [session : Nat, n : Nat]

\* by: a vend of a refresh, under the lock; or of a login, without it.
Creds == [epoch : Nat, session : Nat, by : {"vend", "login"}]

Client == [gen : Nat, id : Creds \cup {None}]

ASSUME NoneAssumption == None \notin Token /\ None \notin Creds /\ None \notin Client

Kinds == {"none", "use", "switch", "observe", "list", "login", "logout"}

\* opening, signing, returning: a use of S3.  checking: reads the credentials
\* without the lock.  waiting: for the lock.  rechecking, token, refreshing,
\* storing, calling, saving, observing, flushing, erasing: under it.  clearing:
\* drops the clients, after it.  entering, entered, vending, vended: a login.
Locked == {"rechecking", "token", "refreshing", "storing", "calling", "saving",
           "observing", "flushing", "erasing"}

Stages == {"idle", "opening", "signing", "checking", "returning", "waiting",
           "clearing", "entering", "entered", "vending", "vended"} \cup Locked

\* tok: the tokens in hand.  got: credentials in hand.  answer: the epoch a
\* role call reported.  forced: after a refusal.  building, cgen: a use builds
\* its client; that client's generation.
Op == [kind : Kinds, stage : Stages, tok : Token \cup {None},
       got : Creds \cup {None}, answer : Nat, forced : BOOLEAN,
       building : BOOLEAN, cgen : Nat]

Idle == [kind |-> "none", stage |-> "idle", tok |-> None, got |-> None,
         answer |-> 0, forced |-> FALSE, building |-> FALSE, cgen |-> 0]

Init ==
    /\ roles = <<CHOOSE r \in Roles : TRUE>> \* whichever: they differ in name only
    /\ rotation = <<0>>
    /\ tokens \in {None, [session |-> 1, n |-> 0]}
    /\ creds \in {None} \cup
          (IF tokens = None THEN {} ELSE {[epoch |-> 1, session |-> 1, by |-> "vend"]})
    /\ lock = Free
    /\ baseline = [p \in Processes |-> 0]
    /\ client = [p \in Processes |-> None]
    /\ gen = [p \in Processes |-> 0]
    /\ op = [t \in Tasks |-> Idle]
    /\ events = 0
    /\ lost = {} /\ ended = {} /\ flushed = 0
    /\ cleared = [p \in Processes |-> [epoch |-> 0, out |-> {}]]

Epoch == Len(roles)

\* The server has issued no newer refresh token of this session.
Current(tok) == tok.session \in DOMAIN rotation /\ rotation[tok.session] = tok.n

\* The host's directory, without which nobody takes its lock.
SessionStored == tokens # None \/ creds # None

-----------------------------------------------------------------------------
Happens == events < MaxEvents /\ events' = events + 1

Put(t, o) == op' = [op EXCEPT ![t] = o]

Goto(t, stage) == op' = [op EXCEPT ![t].stage = stage]

Unlock(t) == lock' = IF lock = t THEN Free ELSE lock

\* The call returns, with its guard.
Leave(t) == Put(t, Idle) /\ Unlock(t)

Start(t, kind, stage) ==
    /\ op[t] = Idle
    /\ Happens
    /\ Put(t, [Idle EXCEPT !.kind = kind, !.stage = stage])
    /\ UNCHANGED <<server, disk, lock, local, history>>

Use(t) == Start(t, "use", "opening")

RoleCall(t, kind) == kind \in {"switch", "observe", "list"} /\ Start(t, kind, "waiting")

Login(t) == Start(t, "login", "entering")

\* Mutant: a logout erases without the lock.
Logout_Unlocked(t) ==
    Start(t, "logout", IF SessionStored THEN "erasing" ELSE "clearing")

\* A host with nothing stored is only cleared.
Logout(t) == Start(t, "logout", IF SessionStored THEN "waiting" ELSE "clearing")

\* The user switches in the web catalog, or on another machine.
WebSwitch(r) ==
    /\ Happens
    /\ r # roles[Epoch]
    /\ roles' = Append(roles, r)
    /\ UNCHANGED <<rotation, disk, lock, local, op, history>>

\* An expired file is read as none.
Expire ==
    /\ creds # None
    /\ creds' = None
    /\ UNCHANGED <<server, tokens, lock, local, op, events, history>>

-----------------------------------------------------------------------------
(* A use of S3: get_client_for_region, then a signed request.               *)

Cached(p) == client[p] # None

\* The cached client, or the process's one construction of a new one.
Open(t) ==
    LET p == ProcessOf[t] IN
    /\ op[t].stage = "opening"
    /\ IF Cached(p)
       THEN Put(t, [op[t] EXCEPT !.stage = "signing", !.cgen = client[p].gen])
       ELSE /\ \A u \in Tasks : ProcessOf[u] = p => ~op[u].building
            /\ Put(t, [op[t] EXCEPT !.stage = "checking", !.building = TRUE, !.cgen = gen[p]])
    /\ UNCHANGED <<server, disk, lock, local, events, history>>

\* The client in hand is the one the process has cached.
Holds(t) == Cached(ProcessOf[t]) /\ client[ProcessOf[t]].gen = op[t].cgen

\* The SDK signs with the identity its client keeps, or asks for one.
Sign(t) ==
    /\ op[t].stage = "signing"
    /\ \/ Goto(t, "checking")
       \/ Holds(t) /\ client[ProcessOf[t]].id # None /\ Put(t, Idle)
    /\ UNCHANGED <<server, disk, lock, local, events, history>>

\* get_credentials_or_refresh: the usual answer takes no lock.
CheckCredentials(t) ==
    /\ op[t].stage = "checking"
    /\ IF creds # None
       THEN Put(t, [op[t] EXCEPT !.stage = "returning", !.got = creds])
       ELSE IF SessionStored THEN Goto(t, "waiting") ELSE Put(t, Idle)
    /\ UNCHANGED <<server, disk, lock, local, events, history>>

\* Mutant: the identity goes into whatever client is cached now.
ReturnCredentials_ByKey(t) ==
    LET p == ProcessOf[t] IN
    /\ op[t].stage = "returning"
    /\ IF op[t].building
       THEN /\ client' = IF gen[p] = op[t].cgen
                         THEN [client EXCEPT ![p] = [gen |-> gen[p], id |-> None]]
                         ELSE client
            /\ Put(t, [op[t] EXCEPT !.stage = "signing", !.got = None, !.building = FALSE,
                                    !.forced = FALSE])
       ELSE /\ client' = IF Cached(p) THEN [client EXCEPT ![p].id = op[t].got] ELSE client
            /\ Put(t, Idle)
    /\ UNCHANGED <<server, disk, lock, baseline, gen, cleared, events, history>>

\* A new client is cached if nothing was cleared since its construction began
\* (cache_client_if_current); credentials become the identity of the client
\* that asked for them.
ReturnCredentials(t) ==
    LET p == ProcessOf[t] IN
    /\ op[t].stage = "returning"
    /\ IF op[t].building
       THEN /\ client' = IF gen[p] = op[t].cgen
                         THEN [client EXCEPT ![p] = [gen |-> gen[p], id |-> None]]
                         ELSE client
            /\ Put(t, [op[t] EXCEPT !.stage = "signing", !.got = None, !.building = FALSE,
                                    !.forced = FALSE])
       ELSE /\ client' = IF Holds(t) THEN [client EXCEPT ![p].id = op[t].got] ELSE client
            /\ Put(t, Idle)
    /\ UNCHANGED <<server, disk, lock, baseline, gen, cleared, events, history>>

-----------------------------------------------------------------------------
(* Under the host's lock *)

Enter(t) ==
    /\ lock' = t
    /\ Goto(t, CASE op[t].kind = "use"    -> "rechecking"
                 [] op[t].kind = "logout" -> "erasing"
                 [] OTHER                 -> "token")
    /\ UNCHANGED <<server, disk, local, events, history>>

\* Mutant: the lock is of one process.
TakeLock_PerProcess(t) ==
    /\ op[t].stage = "waiting"
    /\ lock # Free => ProcessOf[lock] # ProcessOf[t]
    /\ Enter(t)

\* Auth::lock, and lock_host for a logout.
TakeLock(t) ==
    /\ op[t].stage = "waiting"
    /\ lock = Free
    /\ Enter(t)

\* Another call may have vended meanwhile.
Recheck(t) ==
    /\ op[t].stage = "rechecking"
    /\ IF creds # None
       THEN /\ Put(t, [op[t] EXCEPT !.stage = "returning", !.got = creds])
            /\ Unlock(t)
       ELSE Goto(t, "token") /\ UNCHANGED lock
    /\ UNCHANGED <<server, disk, local, events, history>>

\* valid_access_token: refreshed when about to expire, or when refused.
ReadTokens(t) ==
    /\ op[t].stage = "token"
    /\ IF tokens = None THEN Leave(t)
       ELSE /\ \E stage \in {"refreshing"} \cup (IF op[t].forced THEN {} ELSE {"calling"}) :
                  Put(t, [op[t] EXCEPT !.stage = stage, !.tok = tokens])
            /\ UNCHANGED lock
    /\ UNCHANGED <<server, disk, local, events, history>>

\* The token endpoint: a retired refresh token ends the call with no session.
RefreshTokens(t) ==
    LET s == op[t].tok.session IN
    /\ op[t].stage = "refreshing"
    /\ IF Current(op[t].tok)
       THEN /\ rotation' = [rotation EXCEPT ![s] = @ + 1]
            /\ Put(t, [op[t] EXCEPT !.stage = "storing", !.tok.n = @ + 1])
            /\ UNCHANGED lock
       ELSE Leave(t) /\ UNCHANGED rotation
    /\ UNCHANGED <<roles, disk, local, events, history>>

StoreTokens(t) ==
    /\ op[t].stage = "storing"
    /\ tokens' = op[t].tok
    /\ Goto(t, "calling")
    /\ UNCHANGED <<server, creds, lock, local, events, history>>

Called(t, stage, epoch) ==
    Put(t, [op[t] EXCEPT !.stage = stage, !.answer = epoch,
            !.got = IF stage = "saving"
                    THEN [epoch |-> epoch, session |-> op[t].tok.session, by |-> "vend"]
                    ELSE None])

Vend(t) ==
    /\ op[t].stage = "calling" /\ op[t].kind = "use"
    /\ Called(t, "saving", Epoch)
    /\ UNCHANGED <<server, disk, lock, local, events, history>>

\* Mutant: the lock is let go before the credentials are written.
SaveCredentials_Unlocked(t) ==
    /\ op[t].stage = "saving"
    /\ IF lock = t
       THEN Unlock(t) /\ UNCHANGED <<creds, op>>
       ELSE /\ creds' = op[t].got
            /\ Goto(t, "returning")
            /\ UNCHANGED lock
    /\ UNCHANGED <<server, tokens, local, events, history>>

SaveCredentials(t) ==
    /\ op[t].stage = "saving"
    /\ creds' = op[t].got
    /\ Goto(t, "returning")
    /\ Unlock(t)
    /\ UNCHANGED <<server, tokens, local, events, history>>

SwitchRole(t, r) ==
    /\ op[t].stage = "calling" /\ op[t].kind = "switch"
    /\ roles' = Append(roles, r)
    /\ Called(t, "observing", Epoch + 1)
    /\ UNCHANGED <<rotation, disk, lock, local, events, history>>

RefreshRoles(t) ==
    /\ op[t].stage = "calling" /\ op[t].kind = "observe"
    /\ Called(t, "observing", Epoch)
    /\ UNCHANGED <<server, disk, lock, local, events, history>>

\* readable_buckets, package_revisions.
ListCall(t) ==
    /\ op[t].stage = "calling" /\ op[t].kind = "list"
    /\ Leave(t)
    /\ UNCHANGED <<server, disk, local, events, history>>

\* 401 or 403: one more try, with tokens refreshed whatever their expiry.
Refused(t) ==
    /\ op[t].stage = "calling" /\ ~op[t].forced
    /\ Happens
    /\ Put(t, [op[t] EXCEPT !.stage = "token", !.forced = TRUE])
    /\ UNCHANGED <<server, disk, lock, local, history>>

SameRole(t) ==
    /\ op[t].kind = "observe"
    /\ baseline[ProcessOf[t]] # 0
    /\ roles[baseline[ProcessOf[t]]] = roles[op[t].answer]

\* Mutant: the flush takes the lock this call already holds.
ObserveRole_Reentrant(t) ==
    /\ op[t].stage = "observing"
    /\ lock = Free
    /\ baseline' = [baseline EXCEPT ![ProcessOf[t]] = op[t].answer]
    /\ Goto(t, "flushing")
    /\ UNCHANGED <<server, disk, lock, client, gen, cleared, events, history>>

\* reconcile_role: the role seen last needs no flush, except after a switch.
ObserveRole(t) ==
    /\ op[t].stage = "observing"
    /\ IF SameRole(t)
       THEN /\ Goto(t, "clearing")
            /\ Unlock(t)
            /\ UNCHANGED baseline
       ELSE /\ baseline' = [baseline EXCEPT ![ProcessOf[t]] = op[t].answer]
            /\ Goto(t, "flushing")
            /\ UNCHANGED lock
    /\ UNCHANGED <<server, disk, client, gen, cleared, events, history>>

\* expire_credentials_locked.
Flush(t) ==
    /\ op[t].stage = "flushing"
    /\ creds' = None
    /\ flushed' = op[t].answer
    /\ Goto(t, "clearing")
    /\ Unlock(t)
    /\ UNCHANGED <<server, tokens, local, events, lost, ended>>

\* The role is unknown again, and the next observation flushes.
FlushFails(t) ==
    /\ op[t].stage = "flushing"
    /\ Happens
    /\ baseline' = [baseline EXCEPT ![ProcessOf[t]] = 0]
    /\ Leave(t)
    /\ UNCHANGED <<server, disk, client, gen, cleared, history>>

\* erase_auth_dir: the host's directory goes.
Erase(t) ==
    /\ op[t].stage = "erasing"
    /\ ended' = ended \cup {x.session : x \in {tokens, creds} \ {None}}
    /\ tokens' = None /\ creds' = None
    /\ Goto(t, "clearing")
    /\ Unlock(t)
    /\ UNCHANGED <<server, local, events, lost, flushed>>

\* clear_client_cache, the caller's half of a flush and of a logout.
ClearClients(t) ==
    LET p == ProcessOf[t] IN
    /\ op[t].stage = "clearing"
    /\ gen' = [gen EXCEPT ![p] = @ + 1]
    /\ client' = [client EXCEPT ![p] = None]
    /\ cleared' = [cleared EXCEPT ![p] = [epoch |-> flushed, out |-> ended]]
    /\ Put(t, Idle)
    /\ UNCHANGED <<server, disk, lock, baseline, events, history>>

-----------------------------------------------------------------------------
(* A login, which takes no lock. *)

\* The server opens a session.
ExchangeCode(t) ==
    /\ op[t].stage = "entering"
    /\ rotation' = Append(rotation, 0)
    /\ Put(t, [op[t] EXCEPT !.stage = "entered",
                            !.tok = [session |-> Len(rotation) + 1, n |-> 0]])
    /\ UNCHANGED <<roles, disk, lock, local, events, history>>

SaveLoginTokens(t) ==
    /\ op[t].stage = "entered"
    /\ tokens' = op[t].tok
    /\ Goto(t, "vending")
    /\ UNCHANGED <<server, creds, lock, local, events, history>>

VendLogin(t) ==
    /\ op[t].stage = "vending"
    /\ Put(t, [op[t] EXCEPT !.stage = "vended",
                 !.got = [epoch |-> Epoch, session |-> op[t].tok.session, by |-> "login"]])
    /\ UNCHANGED <<server, disk, lock, local, events, history>>

SaveLoginCredentials(t) ==
    /\ op[t].stage = "vended"
    /\ creds' = op[t].got
    /\ Put(t, Idle)
    /\ UNCHANGED <<server, tokens, lock, local, events, history>>

-----------------------------------------------------------------------------
(* Failures *)

\* The session of a refresh token that is nowhere but in this call.
Unsaved(t) == IF op[t].stage = "storing" THEN {op[t].tok.session} ELSE {}

\* A call of the network or the disk fails, or its answer is lost.
Fail(t) ==
    /\ op[t].stage \notin {"idle", "flushing", "erasing", "clearing"}
    /\ Happens
    /\ lost' = lost \cup Unsaved(t)
    /\ Leave(t)
    /\ UNCHANGED <<server, disk, local, ended, flushed>>

\* remove_dir_all stops halfway; the clients stay.
EraseFails(t) ==
    /\ op[t].stage = "erasing"
    /\ Happens
    /\ tokens' \in {None, tokens} /\ creds' \in {None, creds}
    /\ Leave(t)
    /\ UNCHANGED <<server, local, history>>

\* A process dies and starts again; the OS frees its lock.
Crash(p) ==
    LET dead == {t \in Tasks : ProcessOf[t] = p} IN
    /\ Happens
    /\ \E t \in dead : op[t] # Idle
    /\ op' = [t \in Tasks |-> IF t \in dead THEN Idle ELSE op[t]]
    /\ lock' = IF lock \in dead THEN Free ELSE lock
    /\ lost' = lost \cup UNION {Unsaved(t) : t \in dead}
    /\ baseline' = [baseline EXCEPT ![p] = 0]
    /\ client' = [client EXCEPT ![p] = None]
    /\ gen' = [gen EXCEPT ![p] = 0]
    /\ cleared' = [cleared EXCEPT ![p] = [epoch |-> 0, out |-> {}]]
    /\ UNCHANGED <<server, disk, ended, flushed>>

-----------------------------------------------------------------------------
Step(t) ==
    \/ Open(t)
    \/ Sign(t)
    \/ CheckCredentials(t)
    \/ ReturnCredentials(t)
    \/ TakeLock(t)
    \/ Recheck(t)
    \/ ReadTokens(t)
    \/ RefreshTokens(t)
    \/ StoreTokens(t)
    \/ Vend(t)
    \/ SaveCredentials(t)
    \/ \E r \in Roles : SwitchRole(t, r)
    \/ RefreshRoles(t)
    \/ ListCall(t)
    \/ ObserveRole(t)
    \/ Flush(t)
    \/ Erase(t)
    \/ ClearClients(t)
    \/ ExchangeCode(t)
    \/ SaveLoginTokens(t)
    \/ VendLogin(t)
    \/ SaveLoginCredentials(t)

Next ==
    \/ \E t \in Tasks :
          \/ Use(t) \/ Login(t) \/ Logout(t)
          \/ \E kind \in {"switch", "observe", "list"} : RoleCall(t, kind)
          \/ Step(t)
          \/ Refused(t) \/ FlushFails(t) \/ EraseFails(t) \/ Fail(t)
    \/ \E r \in Roles : WebSwitch(r)
    \/ Expire
    \/ \E p \in Processes : Crash(p)

Spec == Init /\ [][Next]_vars

-----------------------------------------------------------------------------
(* Properties *)

TypeOK ==
    /\ roles \in Seq(Roles) \ {<<>>}
    /\ rotation \in Seq(Nat)
    /\ tokens \in Token \cup {None}
    /\ creds \in Creds \cup {None}
    /\ lock \in Tasks \cup {Free}
    /\ baseline \in [Processes -> Nat]
    /\ client \in [Processes -> Client \cup {None}]
    /\ gen \in [Processes -> Nat]
    /\ op \in [Tasks -> Op]
    /\ events \in Nat
    /\ lost \subseteq Nat /\ ended \subseteq Nat
    /\ flushed \in Nat
    /\ cleared \in [Processes -> [epoch : Nat, out : SUBSET Nat]]

\* Credentials vended under the lock, of a role no older than an epoch.
Follows(c, epoch) == c # None /\ c.by = "vend" => c.epoch >= epoch

\* Credentials vended under the lock, of no session in a set.
Outside(c, sessions) == c # None /\ c.by = "vend" => c.session \notin sessions

\* Nobody presents a refresh token that another call's refresh has retired
\* (auth.rs, get_credentials_or_refresh), unless the refreshed one never
\* reached the disk: a rotating server would end the session.
RefreshesAreCurrent ==
    \A t \in Tasks : op[t].stage = "refreshing" =>
        Current(op[t].tok) \/ op[t].tok.session \in lost

\* What a flush removed stays away: no vend in flight writes an older role's
\* credentials back.
FlushHolds == Follows(creds, flushed)

Flushing(p) == \E t \in Tasks : ProcessOf[t] = p /\ op[t].stage = "flushing"

\* A process that knows a role, and is not about to flush for it, has no older
\* role's credentials under it, though a flush may have failed.
BaselineHolds ==
    \A p \in Processes : baseline[p] # 0 /\ ~Flushing(p) => Follows(creds, baseline[p])

\* A process that cleared its clients signs no more with what it cleared them
\* of: an older role, a session logged out.
ClientsFollow ==
    \A p \in Processes : Cached(p) =>
        /\ Follows(client[p].id, cleared[p].epoch)
        /\ Outside(client[p].id, cleared[p].out)

\* A logout is final: no refresh in flight writes the session back.
LogoutIsFinal ==
    /\ tokens # None => tokens.session \notin ended
    /\ Outside(creds, ended)

-----------------------------------------------------------------------------
(* The inductive invariant *)

\* The lock belongs to the call that is past taking it.
Ownership == \A t \in Tasks : op[t].stage \in Locked <=> lock = t

Sessions == DOMAIN rotation

\* Sessions and epochs are ones the server has issued.
Issued ==
    /\ tokens # None => tokens.session \in Sessions
    /\ creds # None => creds.session \in Sessions
    /\ ended \subseteq Sessions
    /\ flushed <= Epoch
    /\ \A p \in Processes :
          /\ baseline[p] <= Epoch
          /\ cleared[p].epoch <= flushed
          /\ cleared[p].out \subseteq ended

Fresh(tok) == Current(tok) \/ tok.session \in lost

Storing(s) == \E t \in Tasks : op[t].stage = "storing" /\ op[t].tok.session = s

\* A refresh token is stale on disk only while its successor is being stored.
StoredFresh == tokens # None => Fresh(tokens) \/ Storing(tokens.session)

\* A new session is known to its login alone until its tokens are saved.
NewLogins ==
    \A t \in Tasks : op[t].stage = "entered" =>
        LET s == op[t].tok.session IN
        /\ s \notin ended
        /\ tokens # None => tokens.session # s
        /\ creds # None => creds.session # s
        /\ \A u \in Tasks \ {t} : op[u].tok # None => op[u].tok.session # s

\* The tokens a call holds: issued, and under the lock of no ended session.
TokenInHand(o) ==
    /\ o.tok # None => o.tok.session \in Sessions
    /\ o.stage \in {"refreshing", "storing", "calling", "saving",
                    "entered", "vending", "vended"} => o.tok # None
    /\ o.stage = "refreshing" => Fresh(o.tok)
    /\ o.stage \in {"storing", "entered"} => Current(o.tok)
    /\ o.stage \in {"refreshing", "storing", "calling", "saving"} => o.tok.session \notin ended

\* What a call is about to save or to flush for is no older than a flush before
\* it or any baseline.
CredsInHand(o) ==
    /\ o.stage \in {"saving", "vended"} => o.got # None /\ o.got.session = o.tok.session
    /\ o.stage = "vended" => o.got.by = "login"
    /\ o.stage = "saving" =>
          /\ o.got.by = "vend"
          /\ o.got.epoch >= flushed
          /\ \A p \in Processes : o.got.epoch >= baseline[p]

AnswerInHand(o) ==
    o.stage \in {"observing", "flushing"} => o.answer \in 1..Epoch /\ o.answer >= flushed

\* What a call brings to a client that is still cached is as new as the last
\* time its process cleared its clients.
IdentityInHand(o, p) ==
    /\ o.cgen <= gen[p]
    /\ o.stage = "returning" =>
          /\ o.got # None
          /\ o.cgen = gen[p] => Follows(o.got, cleared[p].epoch) /\ Outside(o.got, cleared[p].out)

InHand ==
    \A t \in Tasks :
        /\ TokenInHand(op[t]) /\ CredsInHand(op[t]) /\ AnswerInHand(op[t])
        /\ IdentityInHand(op[t], ProcessOf[t])

CachedAreCurrent == \A p \in Processes : Cached(p) => client[p].gen = gen[p]

IInv ==
    /\ TypeOK /\ Ownership /\ Issued
    /\ StoredFresh /\ NewLogins /\ InHand /\ CachedAreCurrent
    /\ FlushHolds /\ BaselineHolds /\ ClientsFollow /\ LogoutIsFinal

-----------------------------------------------------------------------------
\* Each kind of call has its own stages, and a construction is under way only in
\* a use that has left its beginning and not come to its request.
StagesOf(kind) ==
    CASE kind = "none"    -> {"idle"}
      [] kind = "use"     -> {"opening", "signing", "checking", "returning", "waiting",
                              "rechecking", "token", "refreshing", "storing", "calling",
                              "saving"}
      [] kind = "list"    -> {"waiting", "token", "refreshing", "storing", "calling"}
      [] kind = "logout"  -> {"waiting", "erasing", "clearing"}
      [] kind = "login"   -> {"entering", "entered", "vending", "vended"}
      [] OTHER            -> {"waiting", "token", "refreshing", "storing", "calling",
                              "observing", "flushing", "clearing"}

InOrder(o) ==
    /\ o.stage \in StagesOf(o.kind)
    /\ o.stage = "idle" => o = Idle
    /\ o.building => o.kind = "use" /\ o.stage \notin {"opening", "signing"}

CallsInOrder == \A t \in Tasks : InOrder(op[t])

\* The call asks for what another call has: the host's lock, or its process's
\* construction of a client.
Blocked(t) ==
    \/ op[t].stage = "waiting" /\ lock # Free
    \/ /\ op[t].stage = "opening" /\ ~Cached(ProcessOf[t])
       /\ \E u \in Tasks : ProcessOf[u] = ProcessOf[t] /\ op[u].building

\* As long as a call is unfinished, one that is blocked by nobody is.
SomeCallGoesOn ==
    (\E t \in Tasks : op[t] # Idle) => \E t \in Tasks : op[t] # Idle /\ ~Blocked(t)

\* How far a call is from its end.
Rank(o) ==
    LET Ahead ==
          CASE o.stage = "opening"    -> 60
            [] o.stage = "signing"    -> 16
            [] o.stage = "checking"   -> 15
            [] o.stage = "waiting"    -> 14
            [] o.stage = "rechecking" -> 13
            [] o.stage = "token"      -> 9
            [] o.stage = "refreshing" -> 8
            [] o.stage = "storing"    -> 7
            [] o.stage = "calling"    -> 6
            [] o.stage \in {"saving", "observing", "erasing", "entering"} -> 5
            [] o.stage \in {"returning", "flushing", "entered"}           -> 4
            [] o.stage = "vending"    -> 3
            [] o.stage = "vended"     -> 2
            [] OTHER                  -> 1
    IN  IF o.stage = "idle" THEN 0
        ELSE Ahead + (IF o.building THEN 30 ELSE 0) + (IF o.forced THEN 0 ELSE 10)

\* Whatever becomes of a call that has begun, by itself, by a refusal, a failure
\* or a crash, brings it nearer to its end: no call asks for the lock, a token or
\* an answer over and over, and a refusal is answered by one retry.
CallsRunDown ==
    [][\A t \in Tasks :
          op[t] # Idle /\ op'[t] # op[t] => Rank(op'[t]) < Rank(op[t])]_vars

\* No call waits for a lock that it, or a call waiting in its turn, holds: some
\* call can go on as long as one is unfinished, and so every call ends.
NeverStuck == (\E t \in Tasks : op[t] # Idle) => \E t \in Tasks : ENABLED Step(t)

=============================================================================
