------------------------------ MODULE Sessions ------------------------------
(***************************************************************************)
(* Sign-in sessions: a key per session in Redis, an index of each          *)
(* administrator's sessions, and the durable history in MongoDB.           *)
(*                                                                         *)
(*   admin-identity/domain/session.service.ts     the store                *)
(*   admin-identity/domain/admin-auth.service.ts  sign-in, refresh,        *)
(*       sign-out, revocation, change of password                          *)
(*   api/middlewares/authenticate.middleware.ts   every request            *)
(*   administrators/domain/administrator.service.ts  ending the sessions   *)
(*       of somebody else                                                  *)
(*                                                                         *)
(* A process is one HTTP request.  Every Redis command (a MULTI is one)    *)
(* and every database call is an atomic step, so that the commands of      *)
(* several requests interleave; what a request has read is in `job`.       *)
(*                                                                         *)
(* Left out: passwords, lockout and the second factor before a sign-in,    *)
(* the signatures and lifetimes of the tokens (they refuse, and change     *)
(* nothing), and the level and pendingMfaEnrolment carried in a record.    *)
(* Accounts are never deleted, so an account is always found.              *)
(***************************************************************************)
EXTENDS Integers, FiniteSets

CONSTANTS
  Admins,     \* administrators
  Sids,       \* session ids (bound)
  Procs,      \* requests being handled at once (bound)
  Tokens,     \* refresh tokens that can be signed (bound)
  IdleTTL,    \* ADMIN_SESSION_IDLE_TTL
  AbsTTL,     \* ADMIN_SESSION_ABSOLUTE_TTL
  MaxClock,   \* bound: the last instant
  MaxCalls,   \* bound: requests that reach the store
  None        \* nobody, no session, no token

ASSUME LifetimesAssumption == IdleTTL \in Nat \ {0} /\ AbsTTL \in Nat \ {0}
ASSUME BoundAssumption == MaxClock \in Nat /\ MaxCalls \in Nat
ASSUME NoneAssumption == None \notin Admins \cup Sids \cup Tokens

VARIABLES
  now,       \* the clock of Redis and of the processes
  account,   \* "suspended", or "active" for every other status
  key,       \* session:<sid>
  index,     \* admin-sessions:<adminId>
  history,   \* ended_at of the row in admin_sessions
  known,     \* the refresh tokens handed out for a session
  job,       \* what each request is doing
  born,      \* history: when a session began
  dead,      \* history: sessions whose key was deleted
  raced,     \* history: sessions removed under a refresh that had read them
  overtaken, \* history: sessions begun under a running destroyAllSessions
  contended, \* history: tokens of refreshes that overlapped in one session
  calls      \* how many of MaxCalls have begun

vars == <<now, account, key, index, history, known, job, born, dead, raced, overtaken,
          contended, calls>>

Stages ==
  {"idle", "create", "record", "touch", "account", "in", "refresh", "match", "ttl", "set",
   "delete", "stamp", "members", "wipe", "close", "look", "drop"}

\* A key that Redis no longer holds keeps its last record, as history.
KeyRecord ==
  [there : BOOLEAN, owner : Admins \cup {None}, token : Tokens \cup {None},
   absolute : Nat, expires : Nat]

IndexRecord == [sids : SUBSET Sids, expires : Nat]

\* `sid` and `admin` come from the request's token or its path; `todo` is what
\* SMEMBERS returned or what is left to destroy; `readAt` is when the record
\* was read; `remaining` is what TTL returned; `reuse` says that a destroy is
\* followed by a second one, for reuse; `target` is the session to look for.
JobRecord ==
  [stage : Stages, sid : Sids \cup {None}, admin : Admins \cup {None},
   token : Tokens \cup {None}, next : Tokens \cup {None}, todo : SUBSET Sids,
   readAt : Nat, remaining : Nat, reuse : BOOLEAN, target : Sids \cup {None}]

TypeOK ==
  /\ now \in Nat
  /\ account \in [Admins -> {"active", "suspended"}]
  /\ key \in [Sids -> KeyRecord]
  /\ index \in [Admins -> IndexRecord]
  /\ history \in [Sids -> {"none", "open", "ended"}]
  /\ known \in [Sids -> SUBSET Tokens]
  /\ job \in [Procs -> JobRecord]
  /\ born \in [Sids -> Nat]
  /\ dead \in SUBSET Sids /\ raced \in SUBSET Sids /\ overtaken \in SUBSET Sids
  /\ contended \in SUBSET Tokens
  /\ calls \in Nat

IdleJob ==
  [stage |-> "idle", sid |-> None, admin |-> None, token |-> None, next |-> None,
   todo |-> {}, readAt |-> 0, remaining |-> 0, reuse |-> FALSE, target |-> None]

Init ==
  /\ now = 0
  /\ account = [a \in Admins |-> "active"]
  /\ key = [s \in Sids |-> [there |-> FALSE, owner |-> None, token |-> None,
                            absolute |-> 0, expires |-> 0]]
  /\ index = [a \in Admins |-> [sids |-> {}, expires |-> 0]]
  /\ history = [s \in Sids |-> "none"]
  /\ known = [s \in Sids |-> {}]
  /\ job = [p \in Procs |-> IdleJob]
  /\ born = [s \in Sids |-> 0]
  /\ dead = {} /\ raced = {} /\ overtaken = {} /\ contended = {}
  /\ calls = 0

-----------------------------------------------------------------------------
(* Redis, and the requests. *)

\* GET finds the key.
Present(s) == key[s].there /\ now < key[s].expires

Expired(s) == key[s].absolute <= now

\* getSession returns `live`.
Live(s) == Present(s) /\ ~Expired(s)

Members(a) == IF now < index[a].expires THEN index[a].sids ELSE {}

\* mutant: the index gets the idle lifetime
IndexedIdle(sids) == [sids |-> sids, expires |-> now + IdleTTL]

Indexed(sids) == [sids |-> sids, expires |-> now + AbsTTL]

\* A refresh of s has matched its token and not yet written the next one.
Rotating(p, s) == job[p].stage \in {"ttl", "set"} /\ job[p].sid = s

RacedBy(S) == raced \cup {s \in S : \E p \in Procs : Rotating(p, s)}

\* A destroyAllSessions of a has read the index.
Destroying(p, a) == job[p].stage \in {"wipe", "close"} /\ job[p].admin = a

Unsigned(t) ==
  /\ \A s \in Sids : t \notin known[s]
  /\ \A p \in Procs : job[p].next # t

Goto(p, changes) == job' = [job EXCEPT ![p] = changes]

To(p, stage) == Goto(p, [job[p] EXCEPT !.stage = stage])

At(p, stage) == job[p].stage = stage

Begin(p) == At(p, "idle") /\ calls < MaxCalls /\ calls' = calls + 1

Finish(p) == Goto(p, IdleJob)

DestroyAll(p, a) == Goto(p, [IdleJob EXCEPT !.stage = "members", !.admin = a])

Destroy(p, S) == Goto(p, [IdleJob EXCEPT !.stage = "delete", !.todo = S])

histories == <<born, dead, raced, overtaken, contended>>
stores == <<key, index, history, known>>

-----------------------------------------------------------------------------
(* Sign-in. *)

\* login or completeMfa: the account is read, once, and is not suspended.  The
\* session's id and its first token are made on the way to createSession.
Login(p, a, s, token) ==
  /\ Begin(p)
  /\ account[a] = "active"
  /\ key[s].owner = None /\ \A q \in Procs : job[q].sid # s
  /\ Unsigned(token)
  /\ Goto(p, [IdleJob EXCEPT !.stage = "create", !.admin = a, !.sid = s, !.next = token])
  /\ UNCHANGED <<now, account, stores, histories>>

\* The MULTI of createSession.
CreateSession(p) ==
  LET a == job[p].admin
      s == job[p].sid
  IN
  /\ At(p, "create")
  /\ key' = [key EXCEPT ![s] = [there |-> TRUE, owner |-> a, token |-> job[p].next,
                                absolute |-> now + AbsTTL, expires |-> now + IdleTTL]]
  /\ index' = [index EXCEPT ![a] = Indexed(Members(a) \cup {s})]
  /\ known' = [known EXCEPT ![s] = {job[p].next}]
  /\ born' = [born EXCEPT ![s] = now]
  /\ overtaken' = IF \E q \in Procs : Destroying(q, a) THEN overtaken \cup {s} ELSE overtaken
  /\ Goto(p, [IdleJob EXCEPT !.stage = "record", !.sid = s])
  /\ UNCHANGED <<now, account, history, dead, raced, contended, calls>>

\* Its row in the history, best-effort.
RecordSession(p) ==
  /\ At(p, "record")
  /\ \/ history' = [history EXCEPT ![job[p].sid] = "open"]
     \/ UNCHANGED history
  /\ Finish(p)
  /\ UNCHANGED <<now, account, key, index, known, histories, calls>>

-----------------------------------------------------------------------------
(* Every request. *)

\* getSession in authenticate: a live record is to be touched, one past its
\* absolute lifetime is destroyed.  A missing one is refused.
Authenticate(p, s) ==
  /\ Begin(p)
  /\ Present(s)
  /\ IF Expired(s)
     THEN Destroy(p, {s})
     ELSE Goto(p, [IdleJob EXCEPT !.stage = "touch", !.sid = s, !.admin = key[s].owner,
                                  !.readAt = now])
  /\ UNCHANGED <<now, account, stores, histories>>

\* EXPIRE, which does nothing to an absent key.
Touch(p) ==
  LET s == job[p].sid IN
  /\ At(p, "touch")
  /\ key' = IF Present(s) THEN [key EXCEPT ![s].expires = now + IdleTTL] ELSE key
  /\ To(p, "account")
  /\ UNCHANGED <<now, account, index, history, known, histories, calls>>

\* findById: a suspended account loses every session, another one is let in.
FindAccount(p) ==
  /\ At(p, "account")
  /\ IF account[job[p].admin] = "suspended" THEN DestroyAll(p, job[p].admin) ELSE To(p, "in")
  /\ UNCHANGED <<now, account, stores, histories, calls>>

\* The handler is none of the below.
Leave(p) ==
  /\ At(p, "in")
  /\ Finish(p)
  /\ UNCHANGED <<now, account, stores, histories, calls>>

Logout(p) ==
  /\ At(p, "in")
  /\ Destroy(p, {job[p].sid})
  /\ UNCHANGED <<now, account, stores, histories, calls>>

LogoutAll(p) ==
  /\ At(p, "in")
  /\ DestroyAll(p, job[p].admin)
  /\ UNCHANGED <<now, account, stores, histories, calls>>

\* getSession without a touch; a record that is not the caller's own is a 404.
RevokeSession(p, s) ==
  /\ At(p, "in")
  /\ Present(s)
  /\ key[s].owner = job[p].admin \/ Expired(s)
  /\ Destroy(p, {s})
  /\ UNCHANGED <<now, account, stores, histories, calls>>

\* The new password has been written: destroyOtherSessions reads the index.
ChangeOwnPassword(p) ==
  /\ At(p, "in")
  /\ LET doomed == Members(job[p].admin) \ {job[p].sid} IN
     IF doomed = {} THEN Finish(p) ELSE Destroy(p, doomed)
  /\ UNCHANGED <<now, account, stores, histories, calls>>

-----------------------------------------------------------------------------
(* Refresh. *)

\* The first getSession.  `next` is the token the request will sign.
Refresh(p, s, token, next) ==
  /\ Begin(p)
  /\ token \in known[s]
  /\ Present(s)
  /\ Unsigned(next)
  /\ IF Expired(s)
     THEN Destroy(p, {s})
     ELSE Goto(p, [IdleJob EXCEPT !.stage = "refresh", !.sid = s, !.admin = key[s].owner,
                                  !.token = token, !.next = next])
  /\ UNCHANGED <<now, account, stores, histories>>

RefreshAccount(p) ==
  /\ At(p, "refresh")
  /\ IF account[job[p].admin] = "suspended" THEN DestroyAll(p, job[p].admin) ELSE To(p, "match")
  /\ UNCHANGED <<now, account, stores, histories, calls>>

\* mutant: any token of the session will do
MatchesAny(p) == LET s == job[p].sid IN job[p].token \in known[s]

\* The presented token is the one whose fingerprint the record holds.
Matches(p) == key[job[p].sid].token = job[p].token

\* mutant: the record of the first getSession is trusted
RotateReadOnce(p) ==
  /\ At(p, "match")
  /\ Matches(p)
  /\ To(p, "ttl")
  /\ UNCHANGED <<now, account, stores, histories, calls>>

\* The second getSession and the comparison.  Whatever is wrong, rotation
\* returns false and refresh destroys the session for reuse; one past its
\* absolute lifetime has been destroyed for that already.
RotateRead(p) ==
  LET s == job[p].sid
      rivals == {q \in Procs \ {p} : Rotating(q, s)}
  IN
  /\ At(p, "match")
  /\ \/ Live(s) /\ Matches(p)
        /\ To(p, "ttl")
        /\ contended' = IF rivals = {} THEN contended
                        ELSE contended \cup {job[q].token : q \in rivals \cup {p}}
     \/ /\ ~(Live(s) /\ Matches(p))
        /\ Goto(p, [IdleJob EXCEPT !.stage = "delete", !.todo = {s},
                                   !.reuse = Present(s) /\ Expired(s)])
        /\ UNCHANGED contended
  /\ UNCHANGED <<now, account, stores, born, dead, raced, overtaken, calls>>

\* mutant: a negative answer of TTL is used as it is
LeftOver(s) == key[s].expires - now

\* What the new key gets: the TTL that is left, or a whole one.
Remaining(s) == IF Present(s) THEN key[s].expires - now ELSE IdleTTL

RotateTtl(p) ==
  /\ At(p, "ttl")
  /\ Goto(p, [job[p] EXCEPT !.stage = "set", !.remaining = Remaining(job[p].sid)])
  /\ UNCHANGED <<now, account, stores, histories, calls>>

\* mutant: a rotated session starts a new lifetime
RenewedRecord(p) ==
  [key[job[p].sid] EXCEPT !.there = TRUE, !.token = job[p].next, !.absolute = now + AbsTTL,
                          !.expires = now + job[p].remaining]

\* The record that was read, with the next token.
RotatedRecord(p) ==
  [key[job[p].sid] EXCEPT !.there = TRUE, !.token = job[p].next,
                          !.expires = now + job[p].remaining]

\* The SET, whether or not the key is still there.
RotateSet(p) ==
  LET s == job[p].sid IN
  /\ At(p, "set")
  /\ key' = [key EXCEPT ![s] = RotatedRecord(p)]
  /\ known' = [known EXCEPT ![s] = @ \cup {job[p].next}]
  /\ Finish(p)
  /\ UNCHANGED <<now, account, index, history, histories, calls>>

-----------------------------------------------------------------------------
(* The end of a session. *)

\* mutant: every row of the administrator is ended
EndRowsOfOwner(S) ==
  [s \in Sids |-> IF history[s] = "open" /\ \E t \in S : key[t].owner = key[s].owner
                  THEN "ended" ELSE history[s]]

\* The rows of S that exist and have no ended_at get one.
EndRows(S) == [s \in Sids |-> IF history[s] = "open" /\ s \in S THEN "ended" ELSE history[s]]

Deleted(S) == [s \in Sids |-> [key[s] EXCEPT !.there = @ /\ s \notin S]]

\* The MULTI of destroySession, for the next of the sessions to destroy.
DeleteSession(p, s) ==
  LET a == key[s].owner IN
  /\ At(p, "delete")
  /\ s \in job[p].todo
  /\ key' = Deleted({s})
  /\ index' = [index EXCEPT ![a].sids = @ \ {s}]
  /\ dead' = dead \cup {s}
  /\ raced' = RacedBy({s})
  /\ Goto(p, [job[p] EXCEPT !.stage = "stamp", !.sid = s,
                            !.todo = IF job[p].reuse THEN @ ELSE @ \ {s}, !.reuse = FALSE])
  /\ UNCHANGED <<now, account, history, known, born, overtaken, contended, calls>>

\* Its row, best-effort; then the next session, if there is one.
StampSession(p) ==
  /\ At(p, "stamp")
  /\ \/ history' = EndRows({job[p].sid})
     \/ UNCHANGED history
  /\ IF job[p].todo = {} THEN Finish(p) ELSE To(p, "delete")
  /\ UNCHANGED <<now, account, key, index, known, histories, calls>>

\* destroyAllSessions: SMEMBERS ...
ReadMembers(p) ==
  /\ At(p, "members")
  /\ Goto(p, [job[p] EXCEPT !.stage = "wipe", !.todo = Members(job[p].admin)])
  /\ UNCHANGED <<now, account, stores, histories, calls>>

\* ... the MULTI that deletes those keys and the whole index ...
Wipe(p) ==
  /\ At(p, "wipe")
  /\ key' = Deleted(job[p].todo)
  /\ index' = [index EXCEPT ![job[p].admin].sids = {}]
  /\ dead' = dead \cup job[p].todo
  /\ raced' = RacedBy(job[p].todo)
  /\ Goto(p, [job[p] EXCEPT !.stage = "close", !.todo = {}])
  /\ UNCHANGED <<now, account, history, known, born, overtaken, contended, calls>>

\* ... and the updateMany of all the administrator's open rows, best-effort.
CloseHistory(p) ==
  /\ At(p, "close")
  /\ \/ history' = EndRows({s \in Sids : key[s].owner = job[p].admin})
     \/ UNCHANGED history
  /\ Finish(p)
  /\ UNCHANGED <<now, account, key, index, known, histories, calls>>

-----------------------------------------------------------------------------
(* Somebody else: suspension, reinstatement, and the actions that end all of *)
(* an administrator's sessions or look through them.                        *)

\* The transaction of a suspension; the sessions are ended after it.
Suspend(p, a) ==
  /\ Begin(p)
  /\ account' = [account EXCEPT ![a] = "suspended"]
  /\ DestroyAll(p, a)
  /\ UNCHANGED <<now, stores, histories>>

Reinstate(a) ==
  /\ account[a] = "suspended"
  /\ account' = [account EXCEPT ![a] = "active"]
  /\ UNCHANGED <<now, stores, job, histories, calls>>

\* A change of level, a reset, a revocation of all sessions.
EndAll(p, a) ==
  /\ Begin(p)
  /\ DestroyAll(p, a)
  /\ UNCHANGED <<now, account, stores, histories>>

\* listSessions: to show them, or to find the one to revoke.
ListSessions(p, a, target) ==
  /\ Begin(p)
  /\ Members(a) # {}
  /\ target \in Members(a) \cup {None}
  /\ Goto(p, [IdleJob EXCEPT !.stage = "look", !.admin = a, !.todo = Members(a),
                             !.target = target])
  /\ UNCHANGED <<now, account, stores, histories>>

\* GET of one member ...
LookUp(p, s) ==
  /\ At(p, "look")
  /\ s \in job[p].todo
  /\ IF Present(s)
     THEN Goto(p, [job[p] EXCEPT !.todo = @ \ {s}]) /\ UNCHANGED raced
     ELSE /\ Goto(p, [job[p] EXCEPT !.stage = "drop", !.sid = s, !.todo = @ \ {s},
                                    !.target = IF @ = s THEN None ELSE @])
          /\ raced' = RacedBy({s})
  /\ UNCHANGED <<now, account, stores, born, dead, overtaken, contended, calls>>

\* ... and the SREM of one that is not there.
DropMember(p) ==
  /\ At(p, "drop")
  /\ index' = [index EXCEPT ![job[p].admin].sids = @ \ {job[p].sid}]
  /\ To(p, "look")
  /\ UNCHANGED <<now, account, key, history, known, histories, calls>>

\* The whole list has been read.  A target that was not in it is a 404.
Listed(p) ==
  /\ At(p, "look")
  /\ job[p].todo = {}
  /\ IF job[p].target = None THEN Finish(p) ELSE Destroy(p, {job[p].target})
  /\ UNCHANGED <<now, account, stores, histories, calls>>

-----------------------------------------------------------------------------

\* A process dies, or a command throws and the request is a 500.
Crash(p) ==
  /\ ~At(p, "idle")
  /\ Finish(p)
  /\ UNCHANGED <<now, account, stores, histories, calls>>

Tick ==
  /\ now < MaxClock
  /\ now' = now + 1
  /\ UNCHANGED <<account, stores, job, histories, calls>>

\* Requests past the bound are not followed.
Quiet ==
  /\ calls = MaxCalls /\ \A p \in Procs : At(p, "idle")
  /\ UNCHANGED vars

Next ==
  \/ \E p \in Procs, a \in Admins : Suspend(p, a) \/ EndAll(p, a)
  \/ \E p \in Procs, a \in Admins, s \in Sids, token \in Tokens : Login(p, a, s, token)
  \/ \E p \in Procs, s \in Sids, token, next \in Tokens : Refresh(p, s, token, next)
  \/ \E p \in Procs, s \in Sids :
       Authenticate(p, s) \/ RevokeSession(p, s) \/ DeleteSession(p, s) \/ LookUp(p, s)
  \/ \E p \in Procs : CreateSession(p) \/ RecordSession(p) \/ Touch(p) \/ FindAccount(p) \/ Leave(p)
  \/ \E p \in Procs : Logout(p) \/ LogoutAll(p) \/ ChangeOwnPassword(p)
  \/ \E p \in Procs : RefreshAccount(p) \/ RotateRead(p) \/ RotateTtl(p) \/ RotateSet(p)
  \/ \E p \in Procs : StampSession(p) \/ ReadMembers(p) \/ Wipe(p) \/ CloseHistory(p)
  \/ \E p \in Procs, a \in Admins, target \in Sids \cup {None} : ListSessions(p, a, target)
  \/ \E p \in Procs : DropMember(p) \/ Listed(p) \/ Crash(p)
  \/ \E a \in Admins : Reinstate(a)
  \/ Tick
  \/ Quiet

Spec == Init /\ [][Next]_vars

-----------------------------------------------------------------------------
(* Properties. *)

\* A session that was signed out, revoked, ended with all of its owner's or
\* destroyed for reuse never comes back, unless a refresh had matched its token
\* and not yet written the next one at that moment (session.service.ts:
\* "Deleting that key kills the token on its next use").
EndedStaysEnded == \A s \in dead : Present(s) => s \in raced

\* What the documents say without exception: "A revoked session is refused on
\* the next request".
RevokedIsRefused == \A s \in dead : ~Live(s)

\* Whatever order the commands of sign-ins, refreshes, listings and destroys
\* come in, a live session is in its owner's index, so that the next "sign out
\* everywhere" reaches it, unless it raced a refresh or was begun while a
\* destroyAllSessions was under way, which deletes the whole index.
LiveIsIndexed ==
  \A s \in Sids : Live(s) => s \in Members(key[s].owner) \/ s \in raced \/ s \in overtaken

\* The durable history never says of a session that can still be used that it
\* ended, with the same two exceptions; failed writes and crashes only leave
\* ended sessions open in it.
EndedRowIsOver ==
  \A s \in Sids : history[s] = "ended" /\ Live(s) => s \in raced \/ s \in overtaken

\* A request that is let in read its session within its absolute lifetime,
\* counted from the sign-in, however often it was touched, rotated or brought
\* back by a refresh.
AdmittedInTime == \A p \in Procs : At(p, "in") => job[p].readAt < born[job[p].sid] + AbsTTL

\* A refresh about to replace a newer token than the one it was given has
\* overlapped another refresh of its session, between its comparison and its
\* SET: a token superseded before a refresh begins is never exchanged (refresh:
\* presenting it "destroys the whole session").
SupersededNeverRotates ==
  \A p \in Procs : At(p, "ttl") \/ At(p, "set") =>
    key[job[p].sid].token = job[p].token \/ job[p].token \in contended
=============================================================================
