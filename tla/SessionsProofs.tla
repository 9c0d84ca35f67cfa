--------------------------- MODULE SessionsProofs ---------------------------
(***************************************************************************)
(* Theorems about Sessions, for any administrators, sessions, requests,    *)
(* tokens, lifetimes and bounds.                                           *)
(***************************************************************************)
EXTENDS Sessions, TLAPS

-----------------------------------------------------------------------------
(***************************************************************************)
(* The strengthening.  A request works on a session that was created,      *)
(* except the one that is about to create it; a refresh that will write a  *)
(* deleted session's key was there when it was deleted.                    *)
(***************************************************************************)

Created == {s \in Sids : key[s].owner # None}

SidStages ==
  {"create", "record", "touch", "account", "in", "refresh", "match", "ttl", "set", "stamp",
   "drop"}

AdminStages ==
  {"create", "touch", "account", "in", "refresh", "match", "ttl", "set", "members", "wipe",
   "close", "look", "drop"}

RefreshStages == {"refresh", "match", "ttl", "set"}

\* The fields of a request fit its stage.
JobFits(j) ==
  /\ j.stage \in SidStages => j.sid \in Sids
  /\ j.stage \in AdminStages => j.admin \in Admins
  /\ j.stage \in RefreshStages => j.token \in Tokens
  /\ j.stage \in RefreshStages \cup {"create"} => j.next \in Tokens

\* What a request works on exists, and what it has read is still good.
JobAgrees(j) ==
  /\ j.todo \subseteq Created
  /\ j.target \in Created \cup {None}
  /\ j.stage = "create" => j.sid \notin Created
  /\ j.stage # "create" => j.sid \in Created \cup {None}
  /\ j.stage \in SidStages \ {"create"} => j.sid \in Created
  /\ j.stage \in {"ttl", "set"} /\ j.sid \in dead => j.sid \in raced
  /\ j.stage \in {"touch", "account", "in"} => j.readAt < born[j.sid] + AbsTTL

JobsAgree == \A p \in Procs : JobFits(job[p]) /\ JobAgrees(job[p])

OneCreator ==
  \A p, q \in Procs : p # q /\ At(p, "create") => job[q].sid # job[p].sid

StoreAgrees ==
  /\ \A s \in Sids : key[s].there => s \in Created
  /\ \A a \in Admins : index[a].sids \subseteq Created
  /\ dead \subseteq Created
  /\ \A s \in Created : key[s].absolute = born[s] + AbsTTL

IInv == TypeOK /\ JobsAgree /\ OneCreator /\ StoreAgrees /\ EndedStaysEnded

-----------------------------------------------------------------------------
(* What a request can be made into. *)

\* A record of JobRecord that fits and agrees.
Good(j) == j \in JobRecord /\ JobFits(j) /\ JobAgrees(j)

\* If it is a sign-in, no other request has its session.
Alone(p, j) == j.stage = "create" => \A q \in Procs \ {p} : job[q].sid # j.sid

LEMMA IdleGood == Good(IdleJob)
<1>1. IdleJob \in JobRecord
  BY DEF IdleJob, JobRecord, Stages
<1>2. JobFits(IdleJob)
  BY DEF IdleJob, JobFits, SidStages, AdminStages, RefreshStages
<1>3. JobAgrees(IdleJob)
  BY DEF IdleJob, JobAgrees, SidStages
<1> QED BY <1>1, <1>2, <1>3 DEF Good

\* A request that goes on to destroy sessions which exist.
LEMMA DestroyGood ==
  ASSUME NEW S \in SUBSET Created, NEW again \in BOOLEAN
  PROVE  Good([IdleJob EXCEPT !.stage = "delete", !.todo = S, !.reuse = again])
<1> DEFINE j == [IdleJob EXCEPT !.stage = "delete", !.todo = S, !.reuse = again]
<1>1. j \in JobRecord
  BY DEF IdleJob, JobRecord, Stages, Created
<1>2. JobFits(j)
  BY DEF IdleJob, JobFits, SidStages, AdminStages, RefreshStages
<1>3. JobAgrees(j)
  BY DEF IdleJob, JobAgrees, SidStages
<1> QED BY <1>1, <1>2, <1>3 DEF Good

LEMMA DestroyStep ==
  ASSUME NEW p \in Procs, NEW S \in SUBSET Created, Destroy(p, S)
  PROVE  \E j : Good(j) /\ Alone(p, j) /\ Goto(p, j)
<1> DEFINE j == [IdleJob EXCEPT !.stage = "delete", !.todo = S]
<1>1. j \in JobRecord
  BY DEF IdleJob, JobRecord, Stages, Created
<1>2. JobFits(j)
  BY DEF IdleJob, JobFits, SidStages, AdminStages, RefreshStages
<1>3. JobAgrees(j)
  BY DEF IdleJob, JobAgrees, SidStages
<1> QED BY <1>1, <1>2, <1>3 DEF Good, Alone, IdleJob, Destroy

LEMMA DestroyAllStep ==
  ASSUME NEW p \in Procs, NEW a \in Admins, DestroyAll(p, a)
  PROVE  \E j : Good(j) /\ Alone(p, j) /\ Goto(p, j)
<1> DEFINE j == [IdleJob EXCEPT !.stage = "members", !.admin = a]
<1>1. j \in JobRecord
  BY DEF IdleJob, JobRecord, Stages
<1>2. JobFits(j)
  BY DEF IdleJob, JobFits, SidStages, AdminStages, RefreshStages
<1>3. JobAgrees(j)
  BY DEF IdleJob, JobAgrees, SidStages
<1> QED BY <1>1, <1>2, <1>3 DEF Good, Alone, IdleJob, DestroyAll

LEMMA FinishStep ==
  ASSUME NEW p \in Procs, Finish(p)
  PROVE  \E j : Good(j) /\ Alone(p, j) /\ Goto(p, j)
BY IdleGood DEF Finish, Alone, IdleJob

\* A stage that asks for no more than the one before.
LEMMA ToStep ==
  ASSUME TypeOK, JobsAgree, NEW p \in Procs, NEW stage \in Stages, To(p, stage),
         stage \in SidStages => job[p].stage \in SidStages \ {"create"},
         stage \in AdminStages => job[p].stage \in AdminStages,
         stage \in RefreshStages => job[p].stage \in RefreshStages,
         stage \in {"ttl", "set"} /\ job[p].sid \in dead => job[p].sid \in raced,
         stage \in {"touch", "account", "in"} => job[p].stage \in {"touch", "account", "in"},
         stage # "create", job[p].stage # "create"
  PROVE  \E j : Good(j) /\ Alone(p, j) /\ Goto(p, j)
<1> DEFINE j == [job[p] EXCEPT !.stage = stage]
<1>1. job[p] \in JobRecord
  BY DEF TypeOK
<1>2. j \in JobRecord
  BY <1>1 DEF JobRecord
<1>3. /\ j.stage = stage /\ j.sid = job[p].sid /\ j.admin = job[p].admin
      /\ j.token = job[p].token /\ j.next = job[p].next /\ j.todo = job[p].todo
      /\ j.target = job[p].target /\ j.readAt = job[p].readAt
  BY <1>1 DEF JobRecord
<1>4. JobFits(job[p]) /\ JobAgrees(job[p])
  BY DEF JobsAgree
<1>5. JobFits(j)
  BY <1>3, <1>4 DEF JobFits
<1>6. JobAgrees(j)
  BY <1>3, <1>4 DEF JobAgrees
<1> QED BY <1>2, <1>3, <1>5, <1>6 DEF Good, Alone, To

\* Members of an index exist.
LEMMA MembersExist ==
  ASSUME StoreAgrees, NEW a \in Admins
  PROVE  Members(a) \subseteq Created
BY DEF StoreAgrees, Members

LEMMA PresentExists ==
  ASSUME TypeOK, StoreAgrees, NEW s \in Sids, Present(s)
  PROVE  s \in Created /\ key[s].owner \in Admins
BY DEF TypeOK, StoreAgrees, Present, Created, KeyRecord

-----------------------------------------------------------------------------
(* The actions of a request, one by one: what it becomes is good. *)

ReadingStepOf(p) ==
  \/ \E a \in Admins, s \in Sids, token \in Tokens : Login(p, a, s, token)
  \/ RecordSession(p)
  \/ \E s \in Sids : Authenticate(p, s) \/ RevokeSession(p, s) \/ LookUp(p, s)
  \/ FindAccount(p) \/ Leave(p) \/ Logout(p) \/ LogoutAll(p) \/ ChangeOwnPassword(p)
  \/ \E s \in Sids, token, next \in Tokens : Refresh(p, s, token, next)
  \/ RefreshAccount(p) \/ RotateRead(p) \/ RotateTtl(p)
  \/ StampSession(p) \/ ReadMembers(p) \/ CloseHistory(p)
  \/ \E a \in Admins : Suspend(p, a) \/ EndAll(p, a)
  \/ \E a \in Admins, target \in Sids \cup {None} : ListSessions(p, a, target)
  \/ Listed(p) \/ Crash(p)

\* The steps that leave the keys and the index alone.
LEMMA ReadingStep ==
  ASSUME IInv, NEW p \in Procs, ReadingStepOf(p)
  PROVE  \E j : Good(j) /\ Alone(p, j) /\ Goto(p, j)
<1> USE DEF IInv
<1>a. job[p] \in JobRecord /\ JobFits(job[p]) /\ JobAgrees(job[p])
  BY DEF TypeOK, JobsAgree
<1>1. ASSUME NEW a \in Admins, NEW s \in Sids, NEW token \in Tokens, Login(p, a, s, token)
      PROVE  \E j : Good(j) /\ Alone(p, j) /\ Goto(p, j)
  <2> DEFINE j == [IdleJob EXCEPT !.stage = "create", !.admin = a, !.sid = s, !.next = token]
  <2>1. j \in JobRecord
    BY DEF IdleJob, JobRecord, Stages
  <2>2. JobFits(j)
    BY DEF IdleJob, JobFits, SidStages, AdminStages, RefreshStages
  <2>3. s \notin Created
    BY <1>1 DEF Login, Created
  <2>4. JobAgrees(j)
    BY <2>3 DEF IdleJob, JobAgrees, SidStages
  <2> QED BY <1>1, <2>1, <2>2, <2>4 DEF Good, Alone, Login, IdleJob
<1>2. CASE RecordSession(p)
  BY <1>2, FinishStep DEF RecordSession
<1>3. ASSUME NEW s \in Sids, Authenticate(p, s)
      PROVE  \E j : Good(j) /\ Alone(p, j) /\ Goto(p, j)
  <2>1. s \in Created /\ key[s].owner \in Admins
    BY <1>3, PresentExists DEF Authenticate
  <2>2. CASE Expired(s)
    BY <1>3, <2>1, <2>2, DestroyStep DEF Authenticate
  <2>3. CASE ~Expired(s)
    <3> DEFINE j == [IdleJob EXCEPT !.stage = "touch", !.sid = s, !.admin = key[s].owner,
                                    !.readAt = now]
    <3>1. j \in JobRecord
      BY <2>1 DEF TypeOK, IdleJob, JobRecord, Stages
    <3>2. JobFits(j)
      BY <2>1 DEF IdleJob, JobFits, SidStages, AdminStages, RefreshStages
    <3>3. now < born[s] + AbsTTL
      BY <2>1, <2>3, LifetimesAssumption DEF TypeOK, KeyRecord, StoreAgrees, Expired
    <3>4. JobAgrees(j)
      BY <2>1, <3>3 DEF IdleJob, JobAgrees, SidStages
    <3> QED BY <1>3, <2>3, <3>1, <3>2, <3>4 DEF Good, Alone, IdleJob, Authenticate
  <2> QED BY <2>2, <2>3
<1>4. ASSUME NEW s \in Sids, RevokeSession(p, s)
      PROVE  \E j : Good(j) /\ Alone(p, j) /\ Goto(p, j)
  BY <1>4, PresentExists, DestroyStep DEF RevokeSession
<1>5. ASSUME NEW s \in Sids, LookUp(p, s)
      PROVE  \E j : Good(j) /\ Alone(p, j) /\ Goto(p, j)
  <2>1. job[p].stage = "look" /\ s \in job[p].todo /\ s \in Created
    BY <1>5, <1>a DEF LookUp, At, JobAgrees
  <2>2. CASE Present(s)
    <3> DEFINE j == [job[p] EXCEPT !.todo = @ \ {s}]
    <3>1. j \in JobRecord
      BY <1>a DEF JobRecord
    <3>2. JobFits(j) /\ JobAgrees(j)
      BY <1>a, <2>1 DEF JobRecord, JobFits, JobAgrees, SidStages, AdminStages, RefreshStages
    <3> QED BY <1>a, <1>5, <2>1, <2>2, <3>1, <3>2 DEF Good, Alone, JobRecord, LookUp
  <2>3. CASE ~Present(s)
    <3> DEFINE j == [job[p] EXCEPT !.stage = "drop", !.sid = s, !.todo = @ \ {s},
                                   !.target = IF @ = s THEN None ELSE @]
    <3>1. j \in JobRecord
      BY <1>a DEF JobRecord, Stages
    <3>2. JobFits(j) /\ JobAgrees(j)
      BY <1>a, <2>1 DEF JobRecord, JobFits, JobAgrees, SidStages, AdminStages, RefreshStages
    <3> QED BY <1>5, <2>3, <3>1, <3>2 DEF Good, Alone, JobRecord, LookUp
  <2> QED BY <2>2, <2>3
<1>6. CASE FindAccount(p)
  <2>1. job[p].stage = "account" /\ job[p].admin \in Admins
    BY <1>6, <1>a DEF FindAccount, At, JobFits, AdminStages
  <2>2. CASE DestroyAll(p, job[p].admin)
    BY <2>1, <2>2, DestroyAllStep
  <2>3. CASE To(p, "in")
    BY <2>1, <2>3, ToStep DEF Stages, SidStages, AdminStages, RefreshStages
  <2> QED BY <1>6, <2>2, <2>3 DEF FindAccount
<1>7. CASE Leave(p)
  BY <1>7, FinishStep DEF Leave
<1>8. CASE Logout(p)
  <2>1. job[p].sid \in Created
    BY <1>8, <1>a DEF Logout, At, JobAgrees, SidStages
  <2> QED BY <1>8, <2>1, DestroyStep DEF Logout
<1>9. CASE LogoutAll(p)
  <2>1. job[p].admin \in Admins
    BY <1>9, <1>a DEF LogoutAll, At, JobFits, AdminStages
  <2> QED BY <1>9, <2>1, DestroyAllStep DEF LogoutAll
<1>10. CASE ChangeOwnPassword(p)
  <2>1. job[p].admin \in Admins
    BY <1>10, <1>a DEF ChangeOwnPassword, At, JobFits, AdminStages
  <2>2. Members(job[p].admin) \ {job[p].sid} \in SUBSET Created
    BY <2>1, MembersExist
  <2> QED BY <1>10, <2>2, DestroyStep, FinishStep DEF ChangeOwnPassword
<1>11. ASSUME NEW s \in Sids, NEW token \in Tokens, NEW next \in Tokens,
              Refresh(p, s, token, next)
       PROVE  \E j : Good(j) /\ Alone(p, j) /\ Goto(p, j)
  <2>1. s \in Created /\ key[s].owner \in Admins
    BY <1>11, PresentExists DEF Refresh
  <2>2. CASE Expired(s)
    BY <1>11, <2>1, <2>2, DestroyStep DEF Refresh
  <2>3. CASE ~Expired(s)
    <3> DEFINE j == [IdleJob EXCEPT !.stage = "refresh", !.sid = s, !.admin = key[s].owner,
                                    !.token = token, !.next = next]
    <3>1. j \in JobRecord
      BY <2>1 DEF IdleJob, JobRecord, Stages
    <3>2. JobFits(j) /\ JobAgrees(j)
      BY <2>1 DEF IdleJob, JobFits, JobAgrees, SidStages, AdminStages, RefreshStages
    <3> QED BY <1>11, <2>3, <3>1, <3>2 DEF Good, Alone, IdleJob, Refresh
  <2> QED BY <2>2, <2>3
<1>12. CASE RefreshAccount(p)
  <2>1. job[p].stage = "refresh" /\ job[p].admin \in Admins
    BY <1>12, <1>a DEF RefreshAccount, At, JobFits, AdminStages
  <2>2. CASE DestroyAll(p, job[p].admin)
    BY <2>1, <2>2, DestroyAllStep
  <2>3. CASE To(p, "match")
    BY <2>1, <2>3, ToStep DEF Stages, SidStages, AdminStages, RefreshStages
  <2> QED BY <1>12, <2>2, <2>3 DEF RefreshAccount
<1>13. CASE RotateRead(p)
  <2>1. job[p].stage = "match" /\ job[p].sid \in Created
    BY <1>13, <1>a DEF RotateRead, At, JobAgrees, SidStages
  <2>2. CASE Live(job[p].sid) /\ To(p, "ttl")
    <3>1. job[p].sid \in dead => job[p].sid \in raced
      BY <2>2 DEF Live, EndedStaysEnded
    <3> QED BY <2>1, <2>2, <3>1, ToStep DEF Stages, SidStages, AdminStages, RefreshStages
  <2>3. CASE Goto(p, [IdleJob EXCEPT !.stage = "delete", !.todo = {job[p].sid},
                             !.reuse = Present(job[p].sid) /\ Expired(job[p].sid)])
    <3>1. (Present(job[p].sid) /\ Expired(job[p].sid)) \in BOOLEAN
      BY DEF Present, Expired
    <3>2. {job[p].sid} \in SUBSET Created
      BY <2>1
    <3>3. Good([IdleJob EXCEPT !.stage = "delete", !.todo = {job[p].sid},
                               !.reuse = Present(job[p].sid) /\ Expired(job[p].sid)])
      BY <3>1, <3>2, DestroyGood
    <3> QED BY <2>3, <3>3 DEF Alone, IdleJob
  <2> QED BY <1>13, <2>2, <2>3 DEF RotateRead
<1>14. CASE RotateTtl(p)
  <2>1. job[p].stage = "ttl" /\ job[p].sid \in Sids
    BY <1>14, <1>a DEF RotateTtl, At, JobFits, SidStages
  <2>2. Remaining(job[p].sid) \in Nat
    BY <2>1, LifetimesAssumption DEF Remaining, Present, TypeOK, KeyRecord
  <2> DEFINE j == [job[p] EXCEPT !.stage = "set", !.remaining = Remaining(job[p].sid)]
  <2>3. j \in JobRecord
    BY <1>a, <2>2 DEF JobRecord, Stages
  <2>4. JobFits(j) /\ JobAgrees(j)
    BY <1>a, <2>1 DEF JobRecord, JobFits, JobAgrees, SidStages, AdminStages, RefreshStages
  <2> QED BY <1>14, <2>3, <2>4 DEF Good, Alone, JobRecord, RotateTtl
<1>15. CASE StampSession(p)
  <2>1. job[p].stage = "stamp"
    BY <1>15 DEF StampSession, At
  <2>2. CASE To(p, "delete")
    BY <2>1, <2>2, ToStep DEF Stages, SidStages, AdminStages, RefreshStages
  <2> QED BY <1>15, <2>2, FinishStep DEF StampSession
<1>16. CASE ReadMembers(p)
  <2>1. job[p].stage = "members" /\ job[p].admin \in Admins
    BY <1>16, <1>a DEF ReadMembers, At, JobFits, AdminStages
  <2>2. Members(job[p].admin) \subseteq Created
    BY <2>1, MembersExist
  <2> DEFINE j == [job[p] EXCEPT !.stage = "wipe", !.todo = Members(job[p].admin)]
  <2>3. j \in JobRecord
    BY <1>a, <2>2 DEF JobRecord, Stages, Created
  <2>4. JobFits(j) /\ JobAgrees(j)
    BY <1>a, <2>1, <2>2 DEF JobRecord, JobFits, JobAgrees, SidStages, AdminStages, RefreshStages
  <2> QED BY <1>16, <2>3, <2>4 DEF Good, Alone, JobRecord, ReadMembers
<1>17. CASE CloseHistory(p)
  BY <1>17, FinishStep DEF CloseHistory
<1>18. ASSUME NEW a \in Admins, Suspend(p, a) \/ EndAll(p, a)
       PROVE  \E j : Good(j) /\ Alone(p, j) /\ Goto(p, j)
  BY <1>18, DestroyAllStep DEF Suspend, EndAll
<1>19. ASSUME NEW a \in Admins, NEW target \in Sids \cup {None}, ListSessions(p, a, target)
       PROVE  \E j : Good(j) /\ Alone(p, j) /\ Goto(p, j)
  <2>1. Members(a) \subseteq Created
    BY MembersExist
  <2> DEFINE j == [IdleJob EXCEPT !.stage = "look", !.admin = a, !.todo = Members(a),
                                  !.target = target]
  <2>2. j \in JobRecord
    BY <2>1 DEF IdleJob, JobRecord, Stages, Created
  <2>3. JobFits(j)
    BY DEF IdleJob, JobFits, SidStages, AdminStages, RefreshStages
  <2>4. JobAgrees(j)
    BY <1>19, <2>1 DEF IdleJob, JobAgrees, SidStages, ListSessions
  <2> QED BY <1>19, <2>2, <2>3, <2>4 DEF Good, Alone, IdleJob, ListSessions
<1>20. CASE Listed(p)
  <2>1. CASE Destroy(p, {job[p].target}) /\ job[p].target # None
    <3>1. {job[p].target} \in SUBSET Created
      BY <1>a, <2>1 DEF JobAgrees
    <3> QED BY <2>1, <3>1, DestroyStep
  <2> QED BY <1>20, <2>1, FinishStep DEF Listed
<1>21. CASE Crash(p)
  BY <1>21, FinishStep DEF Crash
<1> QED BY <1>1, <1>2, <1>3, <1>4, <1>5, <1>6, <1>7, <1>8, <1>9, <1>10, <1>11, <1>12,
           <1>13, <1>14, <1>15, <1>16, <1>17, <1>18, <1>19, <1>20, <1>21 DEF ReadingStepOf

-----------------------------------------------------------------------------
(* What the steps leave alone. *)

\* No session disappears or changes its start; a deletion marks the refreshes
\* it overtakes.
Persists ==
  /\ Created \subseteq Created'
  /\ raced \subseteq raced'
  /\ \A s \in Created : born'[s] = born[s]

\* A request that takes no part keeps agreeing with the store.
Untouched(j) ==
  /\ j.stage = "create" => j.sid \notin Created'
  /\ j.stage \in {"ttl", "set"} /\ j.sid \in dead' \ dead => j.sid \in raced'

LEMMA AgreementPersists ==
  ASSUME Persists, NEW j, JobAgrees(j), Untouched(j)
  PROVE  JobAgrees(j)'
<1>1. j.stage \in {"touch", "account", "in"} => j.sid \in Created
  BY DEF JobAgrees, SidStages
<1>2. j.stage \in {"touch", "account", "in"} => j.readAt < born'[j.sid] + AbsTTL
  BY <1>1 DEF JobAgrees, Persists
<1> QED BY <1>2 DEF JobAgrees, Persists, Untouched

\* When one request becomes j and the others take no part, all of them agree.
LEMMA JobsStep ==
  ASSUME IInv, Persists, NEW p \in Procs, NEW j \in JobRecord,
         Goto(p, j), JobFits(j), JobAgrees(j)', Alone(p, j),
         j.stage # "create" => j.sid \in Created \cup {None} \/ j.sid = job[p].sid,
         \A q \in Procs \ {p} : Untouched(job[q])
  PROVE  job' \in [Procs -> JobRecord] /\ JobsAgree' /\ OneCreator'
<1> USE DEF IInv
<1>1. job' \in [Procs -> JobRecord] /\ job'[p] = j /\ \A q \in Procs \ {p} : job'[q] = job[q]
  BY DEF Goto, TypeOK
<1>2. ASSUME NEW q \in Procs
      PROVE  (JobFits(job[q]) /\ JobAgrees(job[q]))'
  <2>1. CASE q = p
    BY <1>1, <2>1 DEF JobFits, JobAgrees
  <2>2. CASE q # p
    <3>1. PICK k : k = job[q]
      OBVIOUS
    <3>2. JobFits(k) /\ JobAgrees(k) /\ Untouched(k) /\ job'[q] = k
      BY <1>1, <2>2, <3>1 DEF JobsAgree
    <3>3. JobAgrees(k)'
      BY <3>2, AgreementPersists
    <3> QED BY <3>2, <3>3 DEF JobFits, JobAgrees
  <2> QED BY <2>1, <2>2
<1>3. JobsAgree'
  BY <1>2 DEF JobsAgree
<1>4. ASSUME NEW q \in Procs, NEW r \in Procs, q # r, (At(q, "create"))'
      PROVE  job'[r].sid # job'[q].sid
  <2>1. CASE q = p
    BY <1>1, <1>4, <2>1 DEF At, Alone
  <2>2. CASE r = p
    <3>1. job'[q] = job[q] /\ job[q].stage = "create" /\ job[q].sid \in Sids
      BY <1>1, <1>4, <2>2 DEF At, JobsAgree, JobFits, SidStages
    <3>2. job[q].sid \notin Created /\ job[q].sid # job[p].sid
      BY <1>4, <2>2, <3>1 DEF JobsAgree, JobAgrees, OneCreator, At
    <3>3. CASE j.stage = "create"
      BY <1>1, <1>4, <2>2, <3>1, <3>3 DEF Alone
    <3>4. CASE j.stage # "create"
      BY <1>1, <1>4, <2>2, <3>1, <3>2, <3>4, NoneAssumption
    <3> QED BY <3>3, <3>4
  <2>3. CASE q # p /\ r # p
    BY <1>1, <1>4, <2>3 DEF OneCreator, At
  <2> QED BY <2>1, <2>2, <2>3
<1> QED BY <1>1, <1>3, <1>4 DEF OneCreator

\* The reading steps change nothing but the accounts and the history.
LEMMA ReadingFrame ==
  ASSUME IInv, NEW p \in Procs, ReadingStepOf(p)
  PROVE  /\ UNCHANGED <<now, key, index, known, born, dead, overtaken>>
         /\ raced \subseteq raced' /\ raced' \in SUBSET Sids
         /\ account' \in [Admins -> {"active", "suspended"}]
         /\ history' \in [Sids -> {"none", "open", "ended"}]
         /\ contended' \in SUBSET Tokens
         /\ calls' \in Nat
<1> USE DEF IInv, stores, histories
<1>1. calls' \in Nat
  <2>1. CASE Begin(p)
    BY <2>1 DEF TypeOK, Begin
  <2>2. CASE ~Begin(p)
    BY <2>2 DEF TypeOK, ReadingStepOf, Login, RecordSession, Authenticate, RevokeSession,
           LookUp, FindAccount, Leave, Logout, LogoutAll, ChangeOwnPassword, Refresh,
           RefreshAccount, RotateRead, RotateTtl, StampSession, ReadMembers, CloseHistory,
           Suspend, EndAll, ListSessions, Listed, Crash
  <2> QED BY <2>1, <2>2
<1>2. UNCHANGED <<now, key, index, known, born, dead, overtaken>>
  BY DEF ReadingStepOf, Login, RecordSession, Authenticate, RevokeSession,
         LookUp, FindAccount, Leave, Logout, LogoutAll, ChangeOwnPassword, Refresh,
         RefreshAccount, RotateRead, RotateTtl, StampSession, ReadMembers, CloseHistory,
         Suspend, EndAll, ListSessions, Listed, Crash
<1>3. raced \subseteq raced' /\ raced' \in SUBSET Sids
  BY DEF TypeOK, RacedBy, ReadingStepOf, Login, RecordSession, Authenticate, RevokeSession,
         LookUp, FindAccount, Leave, Logout, LogoutAll, ChangeOwnPassword, Refresh,
         RefreshAccount, RotateRead, RotateTtl, StampSession, ReadMembers, CloseHistory,
         Suspend, EndAll, ListSessions, Listed, Crash
<1>4. account' \in [Admins -> {"active", "suspended"}]
  BY DEF TypeOK, ReadingStepOf, Login, RecordSession, Authenticate, RevokeSession,
         LookUp, FindAccount, Leave, Logout, LogoutAll, ChangeOwnPassword, Refresh,
         RefreshAccount, RotateRead, RotateTtl, StampSession, ReadMembers, CloseHistory,
         Suspend, EndAll, ListSessions, Listed, Crash
<1>5. history' \in [Sids -> {"none", "open", "ended"}]
  BY DEF TypeOK, EndRows, ReadingStepOf, Login, RecordSession, Authenticate, RevokeSession,
         LookUp, FindAccount, Leave, Logout, LogoutAll, ChangeOwnPassword, Refresh,
         RefreshAccount, RotateRead, RotateTtl, StampSession, ReadMembers, CloseHistory,
         Suspend, EndAll, ListSessions, Listed, Crash
<1>6. contended' \in SUBSET Tokens
  <2>1. CASE RotateRead(p)
    <3>1. job[p].token \in Tokens
      BY <2>1 DEF RotateRead, At, JobsAgree, JobFits, RefreshStages
    <3>2. \A q \in Procs : Rotating(q, job[p].sid) => job[q].token \in Tokens
      BY DEF Rotating, JobsAgree, JobFits, RefreshStages
    <3> QED BY <2>1, <3>1, <3>2 DEF RotateRead, TypeOK
  <2>2. CASE ~RotateRead(p)
    BY <2>2 DEF TypeOK, ReadingStepOf, Login, RecordSession, Authenticate, RevokeSession,
           LookUp, FindAccount, Leave, Logout, LogoutAll, ChangeOwnPassword, Refresh,
           RefreshAccount, RotateTtl, StampSession, ReadMembers, CloseHistory,
           Suspend, EndAll, ListSessions, Listed, Crash
  <2> QED BY <2>1, <2>2
<1> QED BY <1>1, <1>2, <1>3, <1>4, <1>5, <1>6

LEMMA ReadingInv ==
  ASSUME IInv, NEW p \in Procs, ReadingStepOf(p)
  PROVE  IInv'
<1>1. PICK j : Good(j) /\ Alone(p, j) /\ Goto(p, j)
  BY ReadingStep
<1>2. Created' = Created /\ Persists
  BY ReadingFrame DEF Created, Persists
<1>3. \A q \in Procs : Untouched(job[q])
  BY <1>2, ReadingFrame DEF IInv, JobsAgree, JobAgrees, Untouched
<1>4. Untouched(j)
  BY <1>1, <1>2, ReadingFrame DEF Good, JobAgrees, Untouched
<1>5. j \in JobRecord /\ JobFits(j) /\ JobAgrees(j)'
  BY <1>1, <1>2, <1>4, AgreementPersists DEF Good
<1>6. j.stage # "create" => j.sid \in Created \cup {None}
  BY <1>1 DEF Good, JobAgrees
<1>7. job' \in [Procs -> JobRecord] /\ JobsAgree' /\ OneCreator'
  BY <1>1, <1>2, <1>3, <1>5, <1>6, JobsStep
<1>8. TypeOK'
  BY <1>7, ReadingFrame DEF IInv, TypeOK
<1>9. StoreAgrees'
  BY <1>2, ReadingFrame DEF IInv, StoreAgrees
<1>10. EndedStaysEnded'
  BY ReadingFrame DEF IInv, EndedStaysEnded, Present
<1> QED BY <1>7, <1>8, <1>9, <1>10 DEF IInv

-----------------------------------------------------------------------------
(* The steps that change keys or the index. *)

\* A new key: only the request that creates it had its session.
LEMMA CreateInv ==
  ASSUME IInv, NEW p \in Procs, CreateSession(p)
  PROVE  IInv'
<1> USE DEF IInv
<1> DEFINE s == job[p].sid
           a == job[p].admin
<1>1. /\ s \in Sids /\ a \in Admins /\ job[p].next \in Tokens /\ job[p].stage = "create"
      /\ s \notin Created
  BY DEF CreateSession, At, JobsAgree, JobFits, JobAgrees, SidStages, AdminStages
<1>2. key' = [key EXCEPT ![s] = [there |-> TRUE, owner |-> a, token |-> job[p].next,
                                 absolute |-> now + AbsTTL, expires |-> now + IdleTTL]]
  BY DEF CreateSession
<1>3. key' \in [Sids -> KeyRecord]
  BY <1>1, <1>2, LifetimesAssumption DEF TypeOK, KeyRecord
<1>4. Created' = Created \cup {s}
  BY <1>1, <1>2, NoneAssumption DEF TypeOK, Created
<1>5. born' = [born EXCEPT ![s] = now] /\ dead' = dead /\ raced' = raced /\ now' = now
  BY DEF CreateSession
<1>6. Persists
  BY <1>1, <1>4, <1>5 DEF Persists, TypeOK
<1>7. index' \in [Admins -> IndexRecord] /\ \A b \in Admins : index'[b].sids \subseteq Created'
  <2>1. Members(a) \subseteq Created
    BY <1>1, MembersExist
  <2>2. Indexed(Members(a) \cup {s}) \in IndexRecord
    BY <1>1, <2>1, LifetimesAssumption DEF Indexed, IndexRecord, Created, TypeOK
  <2>3. Indexed(Members(a) \cup {s}).sids \subseteq Created'
    BY <1>4, <2>1 DEF Indexed
  <2>4. index' = [index EXCEPT ![a] = Indexed(Members(a) \cup {s})]
    BY DEF CreateSession
  <2> QED BY <1>1, <1>4, <2>2, <2>3, <2>4 DEF TypeOK, StoreAgrees
<1>8. PICK j : j = [IdleJob EXCEPT !.stage = "record", !.sid = s]
  OBVIOUS
<1>9. j \in JobRecord /\ JobFits(j) /\ Goto(p, j) /\ Alone(p, j)
  BY <1>1, <1>8 DEF CreateSession, IdleJob, JobRecord, Stages, JobFits, Alone,
                    SidStages, AdminStages, RefreshStages
<1>10. j.stage = "record" /\ j.sid = s /\ j.todo = {} /\ j.target = None
  BY <1>8 DEF IdleJob
<1>11. JobAgrees(j)'
  BY <1>4, <1>10 DEF JobAgrees
<1>12. ASSUME NEW q \in Procs \ {p}
       PROVE  Untouched(job[q])
  <2>1. job[q].stage = "create" => job[q].sid \notin Created /\ job[q].sid # s
    BY <1>1 DEF JobsAgree, JobAgrees, OneCreator, At
  <2> QED BY <1>4, <1>5, <2>1 DEF Untouched
<1>13. job' \in [Procs -> JobRecord] /\ JobsAgree' /\ OneCreator'
  BY <1>6, <1>9, <1>10, <1>11, <1>12, JobsStep
<1>14. TypeOK'
  <2>1. known' \in [Sids -> SUBSET Tokens] /\ born' \in [Sids -> Nat]
    BY <1>1, <1>5 DEF CreateSession, TypeOK
  <2>2. overtaken' \in SUBSET Sids
    BY <1>1 DEF CreateSession, TypeOK
  <2> QED BY <1>3, <1>7, <1>13, <2>1, <2>2 DEF CreateSession, TypeOK
<1>15. StoreAgrees'
  <2>1. \A t \in Sids : key'[t].there => t \in Created'
    BY <1>1, <1>2, <1>4 DEF TypeOK, StoreAgrees
  <2>2. dead' \subseteq Created'
    BY <1>4, <1>5 DEF StoreAgrees
  <2>3. \A t \in Created' : key'[t].absolute = born'[t] + AbsTTL
    BY <1>1, <1>2, <1>4, <1>5 DEF TypeOK, StoreAgrees, Created
  <2> QED BY <1>7, <2>1, <2>2, <2>3 DEF StoreAgrees
<1>16. EndedStaysEnded'
  <2>1. \A t \in dead : key'[t] = key[t]
    BY <1>1, <1>2 DEF TypeOK, StoreAgrees
  <2> QED BY <1>5, <2>1 DEF EndedStaysEnded, Present
<1> QED BY <1>13, <1>14, <1>15, <1>16

\* Keys whose owner, start and existence are as before.
SameKeys ==
  \A s \in Sids : /\ key'[s].owner = key[s].owner
                  /\ key'[s].absolute = key[s].absolute
                  /\ key'[s].there => s \in Created

LEMMA SameKeysPersist ==
  ASSUME IInv, SameKeys, born' = born, raced \subseteq raced'
  PROVE  Created' = Created /\ Persists
BY DEF SameKeys, Created, Persists

LEMMA SameKeysStore ==
  ASSUME IInv, SameKeys, born' = born, dead' \subseteq Created,
         \A a \in Admins : index'[a].sids \subseteq Created
  PROVE  StoreAgrees'
<1>1. Created' = Created
  BY DEF SameKeys, Created
<1> QED BY <1>1 DEF IInv, SameKeys, StoreAgrees, Created

LEMMA TouchInv ==
  ASSUME IInv, NEW p \in Procs, Touch(p)
  PROVE  IInv'
<1> USE DEF IInv
<1> DEFINE s == job[p].sid
<1>1. s \in Created /\ s \in Sids /\ job[p].stage = "touch"
  BY DEF Touch, At, JobsAgree, JobFits, JobAgrees, SidStages
<1>2. key' = IF Present(s) THEN [key EXCEPT ![s].expires = now + IdleTTL] ELSE key
  BY DEF Touch
<1>3. key' \in [Sids -> KeyRecord] /\ SameKeys
  <2>1. now + IdleTTL \in Nat
    BY LifetimesAssumption DEF TypeOK
  <2>2. key' \in [Sids -> KeyRecord]
    BY <1>1, <1>2, <2>1 DEF TypeOK, KeyRecord
  <2>3. ASSUME NEW t \in Sids
        PROVE  /\ key'[t].owner = key[t].owner
               /\ key'[t].absolute = key[t].absolute
               /\ key'[t].there = key[t].there
    BY <1>1, <1>2 DEF TypeOK, KeyRecord
  <2> QED BY <2>2, <2>3 DEF SameKeys, StoreAgrees
<1>4. UNCHANGED <<now, account, index, history, known, born, dead, raced, overtaken, contended,
                  calls>>
  BY DEF Touch, histories
<1>5. Created' = Created /\ Persists
  BY <1>3, <1>4, SameKeysPersist
<1>6. PICK j : Good(j) /\ Alone(p, j) /\ Goto(p, j)
  BY <1>1, ToStep DEF Touch, Stages, SidStages, AdminStages, RefreshStages
<1>7. Untouched(j) /\ \A q \in Procs : Untouched(job[q])
  BY <1>4, <1>5, <1>6 DEF Good, JobsAgree, JobAgrees, Untouched
<1>8. job' \in [Procs -> JobRecord] /\ JobsAgree' /\ OneCreator'
  <2>1. JobAgrees(j)' /\ (j.stage # "create" => j.sid \in Created \cup {None})
    BY <1>5, <1>6, <1>7, AgreementPersists DEF Good, JobAgrees
  <2> QED BY <1>5, <1>6, <1>7, <2>1, JobsStep DEF Good
<1>9. TypeOK'
  BY <1>3, <1>4, <1>8 DEF TypeOK
<1>10. StoreAgrees'
  BY <1>3, <1>4, SameKeysStore DEF StoreAgrees
<1>11. EndedStaysEnded'
  <2>1. \A t \in Sids : Present(t)' => Present(t)
    BY <1>1, <1>2, <1>4 DEF Present, TypeOK
  <2> QED BY <1>4, <2>1 DEF EndedStaysEnded, TypeOK
<1> QED BY <1>8, <1>9, <1>10, <1>11

\* The SET brings back a deleted session only if its deletion overtook it.
LEMMA RotateInv ==
  ASSUME IInv, NEW p \in Procs, RotateSet(p)
  PROVE  IInv'
<1> USE DEF IInv
<1> DEFINE s == job[p].sid
<1>1. /\ s \in Created /\ s \in Sids /\ job[p].stage = "set"
      /\ job[p].next \in Tokens /\ job[p].remaining \in Nat
      /\ s \in dead => s \in raced
  BY DEF RotateSet, At, JobsAgree, JobFits, JobAgrees, SidStages, RefreshStages, TypeOK, JobRecord
<1>2. key' = [key EXCEPT ![s] = RotatedRecord(p)]
  BY DEF RotateSet
<1>3. UNCHANGED <<now, account, index, history, born, dead, raced, overtaken, contended, calls>>
  BY DEF RotateSet, histories
<1>4. key' \in [Sids -> KeyRecord] /\ SameKeys
  <2>1. now + job[p].remaining \in Nat
    BY <1>1 DEF TypeOK
  <2>a. key[s] \in KeyRecord
    BY <1>1 DEF TypeOK
  <2>2. RotatedRecord(p) \in KeyRecord
    BY <1>1, <2>1, <2>a DEF KeyRecord, RotatedRecord
  <2>3. key' \in [Sids -> KeyRecord]
    BY <1>1, <1>2, <2>2 DEF TypeOK
  <2>4. RotatedRecord(p).owner = key[s].owner /\ RotatedRecord(p).absolute = key[s].absolute
    BY <1>1 DEF TypeOK, KeyRecord, RotatedRecord
  <2>5. \A t \in Sids : key'[t] = IF t = s THEN RotatedRecord(p) ELSE key[t]
    BY <1>1, <1>2 DEF TypeOK
  <2> QED BY <1>1, <2>3, <2>4, <2>5 DEF SameKeys, StoreAgrees
<1>5. Created' = Created /\ Persists
  BY <1>3, <1>4, SameKeysPersist
<1>6. PICK j : Good(j) /\ Alone(p, j) /\ Goto(p, j)
  BY FinishStep DEF RotateSet
<1>7. Untouched(j) /\ \A q \in Procs : Untouched(job[q])
  BY <1>3, <1>5, <1>6 DEF Good, JobsAgree, JobAgrees, Untouched
<1>8. job' \in [Procs -> JobRecord] /\ JobsAgree' /\ OneCreator'
  <2>1. JobAgrees(j)' /\ (j.stage # "create" => j.sid \in Created \cup {None})
    BY <1>5, <1>6, <1>7, AgreementPersists DEF Good, JobAgrees
  <2> QED BY <1>5, <1>6, <1>7, <2>1, JobsStep DEF Good
<1>9. TypeOK'
  <2>1. known' \in [Sids -> SUBSET Tokens]
    BY <1>1 DEF RotateSet, TypeOK
  <2> QED BY <1>3, <1>4, <1>8, <2>1 DEF TypeOK
<1>10. StoreAgrees'
  BY <1>3, <1>4, SameKeysStore DEF StoreAgrees
<1>11. EndedStaysEnded'
  <2>1. \A t \in Sids : t # s => (Present(t)' => Present(t))
    BY <1>1, <1>2, <1>3 DEF Present, TypeOK
  <2> QED BY <1>1, <1>3, <2>1 DEF EndedStaysEnded, TypeOK
<1> QED BY <1>8, <1>9, <1>10, <1>11

\* Deleting keys: nothing that was gone appears, and the refreshes that were
\* rotating one of them are marked.
Deletes(S) ==
  /\ key' = Deleted(S)
  /\ dead' = dead \cup S
  /\ raced' = RacedBy(S)

LEMMA DeletedKeys ==
  ASSUME IInv, NEW S \in SUBSET Created, Deletes(S), UNCHANGED <<now, born>>
  PROVE  /\ key' \in [Sids -> KeyRecord] /\ SameKeys
         /\ dead' \in SUBSET Created /\ raced' \in SUBSET Sids
         /\ Created' = Created /\ Persists
         /\ EndedStaysEnded'
<1> USE DEF IInv
<1>1. \A t \in Sids : key'[t] = [key[t] EXCEPT !.there = @ /\ t \notin S]
  BY DEF Deletes, Deleted
<1>2. ASSUME NEW t \in Sids
      PROVE  /\ key'[t] \in KeyRecord
             /\ key'[t].owner = key[t].owner
             /\ key'[t].absolute = key[t].absolute
             /\ key'[t].expires = key[t].expires
             /\ key'[t].there => key[t].there /\ t \notin S
  <2>1. PICK b : b = (key[t].there /\ t \notin S)
    OBVIOUS
  <2>2. b \in BOOLEAN /\ key[t] \in KeyRecord
    BY <2>1 DEF TypeOK
  <2>3. key'[t] = [key[t] EXCEPT !.there = b]
    BY <1>1, <2>1
  <2>4. key'[t].there = b
    BY <2>2, <2>3 DEF KeyRecord
  <2>5. /\ key'[t] \in KeyRecord
        /\ key'[t].owner = key[t].owner
        /\ key'[t].absolute = key[t].absolute
        /\ key'[t].expires = key[t].expires
    BY <2>2, <2>3 DEF KeyRecord
  <2> QED BY <2>1, <2>4, <2>5
<1>3. key' \in [Sids -> KeyRecord]
  <2>1. key' = [t \in Sids |-> key'[t]]
    BY DEF Deletes, Deleted
  <2> QED BY <1>2, <2>1
<1>4. SameKeys
  BY <1>2 DEF SameKeys, StoreAgrees
<1>5. dead' \in SUBSET Created /\ raced' \in SUBSET Sids /\ raced \subseteq raced'
  BY DEF Deletes, RacedBy, StoreAgrees, TypeOK, Created
<1>6. Created' = Created /\ Persists
  BY <1>4, <1>5, SameKeysPersist
<1>7. EndedStaysEnded'
  <2>1. ASSUME NEW t \in dead', Present(t)'
        PROVE  t \in raced'
    <3>1. t \in Sids
      BY <1>5 DEF Created
    <3>2. t \notin S /\ t \in dead /\ Present(t)
      BY <1>2, <2>1, <3>1 DEF Present, Deletes
    <3> QED BY <1>5, <3>2 DEF EndedStaysEnded
  <2> QED BY <2>1 DEF EndedStaysEnded
<1> QED BY <1>3, <1>4, <1>5, <1>6, <1>7

LEMMA DeletedUntouched ==
  ASSUME IInv, NEW S \in SUBSET Created, Deletes(S), Created' = Created, NEW q \in Procs
  PROVE  Untouched(job[q])
<1>1. job[q].stage = "create" => job[q].sid \notin Created'
  BY DEF IInv, JobsAgree, JobAgrees
<1>2. ASSUME job[q].stage \in {"ttl", "set"}, job[q].sid \in dead' \ dead
      PROVE  job[q].sid \in raced'
  BY <1>2 DEF Deletes, RacedBy, Rotating
<1> QED BY <1>1, <1>2 DEF Untouched

LEMMA DeleteInv ==
  ASSUME IInv, NEW p \in Procs, NEW s \in Sids, DeleteSession(p, s)
  PROVE  IInv'
<1> USE DEF IInv
<1>1. s \in Created /\ key[s].owner \in Admins /\ job[p].stage = "delete" /\ s \in job[p].todo
  BY DEF DeleteSession, At, JobsAgree, JobAgrees, TypeOK, Created, KeyRecord
<1>2. Deletes({s}) /\ UNCHANGED <<now, account, history, known, born, overtaken, contended, calls>>
  BY DEF DeleteSession, Deletes
<1>3. /\ key' \in [Sids -> KeyRecord] /\ SameKeys
      /\ dead' \in SUBSET Created /\ raced' \in SUBSET Sids
      /\ Created' = Created /\ Persists /\ EndedStaysEnded'
  BY <1>1, <1>2, DeletedKeys
<1>4. \A q \in Procs : Untouched(job[q])
  BY <1>1, <1>2, <1>3, DeletedUntouched
<1>5. PICK j : j = [job[p] EXCEPT !.stage = "stamp", !.sid = s,
                                  !.todo = IF job[p].reuse THEN @ ELSE @ \ {s},
                                  !.reuse = FALSE]
  OBVIOUS
<1>6. job[p] \in JobRecord /\ JobFits(job[p]) /\ JobAgrees(job[p])
  BY DEF TypeOK, JobsAgree
<1>7. j \in JobRecord
  BY <1>1, <1>5, <1>6 DEF JobRecord, Stages
<1>8. /\ j.stage = "stamp" /\ j.sid = s /\ j.todo \subseteq job[p].todo
      /\ j.target = job[p].target
  BY <1>5, <1>6 DEF JobRecord
<1>9. JobFits(j) /\ JobAgrees(j)'
  BY <1>1, <1>3, <1>6, <1>8 DEF JobFits, JobAgrees, SidStages, AdminStages, RefreshStages
<1>10. job' \in [Procs -> JobRecord] /\ JobsAgree' /\ OneCreator'
  <2>1. Goto(p, j) /\ Alone(p, j)
    BY <1>5, <1>8 DEF DeleteSession, Alone
  <2>2. j.sid \in Created
    BY <1>1, <1>8
  <2> QED BY <1>3, <1>4, <1>7, <1>9, <2>1, <2>2, JobsStep
<1>11. index' \in [Admins -> IndexRecord] /\ \A a \in Admins : index'[a].sids \subseteq Created
  <2>1. index' = [index EXCEPT ![key[s].owner].sids = @ \ {s}]
    BY DEF DeleteSession
  <2> QED BY <1>1, <2>1 DEF TypeOK, IndexRecord, StoreAgrees
<1>12. TypeOK'
  BY <1>2, <1>3, <1>10, <1>11 DEF TypeOK, Created
<1>13. StoreAgrees'
  BY <1>2, <1>3, <1>11, SameKeysStore
<1> QED BY <1>3, <1>10, <1>12, <1>13

LEMMA WipeInv ==
  ASSUME IInv, NEW p \in Procs, Wipe(p)
  PROVE  IInv'
<1> USE DEF IInv
<1>1. job[p] \in JobRecord /\ JobFits(job[p]) /\ JobAgrees(job[p])
  BY DEF TypeOK, JobsAgree
<1>2. job[p].todo \in SUBSET Created /\ job[p].stage = "wipe" /\ job[p].admin \in Admins
  BY <1>1 DEF Wipe, At, JobFits, JobAgrees, AdminStages
<1>3. Deletes(job[p].todo)
  BY DEF Wipe, Deletes
<1>4. UNCHANGED <<now, account, history, known, born, overtaken, contended, calls>>
  BY DEF Wipe
<1>5. /\ key' \in [Sids -> KeyRecord] /\ SameKeys
      /\ dead' \in SUBSET Created /\ raced' \in SUBSET Sids
      /\ Created' = Created /\ Persists /\ EndedStaysEnded'
  BY <1>2, <1>3, <1>4, DeletedKeys
<1>6. \A q \in Procs : Untouched(job[q])
  BY <1>2, <1>3, <1>5, DeletedUntouched
<1>7. PICK j : j = [job[p] EXCEPT !.stage = "close", !.todo = {}]
  OBVIOUS
<1>8. j \in JobRecord
  BY <1>1, <1>7 DEF JobRecord, Stages
<1>9. /\ j.stage = "close" /\ j.sid = job[p].sid /\ j.todo = {}
      /\ j.target = job[p].target /\ j.admin = job[p].admin
  BY <1>1, <1>7 DEF JobRecord
<1>10. JobFits(j) /\ JobAgrees(j)'
  BY <1>1, <1>2, <1>5, <1>9 DEF JobFits, JobAgrees, SidStages, AdminStages, RefreshStages
<1>11. job' \in [Procs -> JobRecord] /\ JobsAgree' /\ OneCreator'
  <2>1. Goto(p, j) /\ Alone(p, j)
    BY <1>7, <1>9 DEF Wipe, Alone
  <2> QED BY <1>5, <1>6, <1>8, <1>9, <1>10, <2>1, JobsStep
<1>12. index' \in [Admins -> IndexRecord] /\ \A a \in Admins : index'[a].sids \subseteq Created
  <2>1. index' = [index EXCEPT ![job[p].admin].sids = {}]
    BY DEF Wipe
  <2> QED BY <1>2, <2>1 DEF TypeOK, IndexRecord, StoreAgrees
<1>13. TypeOK'
  BY <1>4, <1>5, <1>11, <1>12 DEF TypeOK, Created
<1>14. StoreAgrees'
  BY <1>4, <1>5, <1>12, SameKeysStore
<1> QED BY <1>5, <1>11, <1>13, <1>14

LEMMA DropInv ==
  ASSUME IInv, NEW p \in Procs, DropMember(p)
  PROVE  IInv'
<1> USE DEF IInv
<1>1. job[p].stage = "drop" /\ job[p].admin \in Admins
  BY DEF DropMember, At, JobsAgree, JobFits, AdminStages
<1>2. UNCHANGED <<now, account, key, history, known, born, dead, raced, overtaken, contended,
                  calls>>
  BY DEF DropMember, histories
<1>3. SameKeys
  BY <1>2 DEF SameKeys, StoreAgrees
<1>4. Created' = Created /\ Persists
  BY <1>2, <1>3, SameKeysPersist
<1>5. PICK j : Good(j) /\ Alone(p, j) /\ Goto(p, j)
  BY <1>1, ToStep DEF DropMember, Stages, SidStages, AdminStages, RefreshStages
<1>6. Untouched(j) /\ \A q \in Procs : Untouched(job[q])
  BY <1>2, <1>4, <1>5 DEF Good, JobsAgree, JobAgrees, Untouched
<1>7. job' \in [Procs -> JobRecord] /\ JobsAgree' /\ OneCreator'
  <2>1. JobAgrees(j)' /\ (j.stage # "create" => j.sid \in Created \cup {None})
    BY <1>4, <1>5, <1>6, AgreementPersists DEF Good, JobAgrees
  <2> QED BY <1>4, <1>5, <1>6, <2>1, JobsStep DEF Good
<1>8. index' \in [Admins -> IndexRecord] /\ \A a \in Admins : index'[a].sids \subseteq Created
  <2>1. index' = [index EXCEPT ![job[p].admin].sids = @ \ {job[p].sid}]
    BY DEF DropMember
  <2> QED BY <1>1, <2>1 DEF TypeOK, IndexRecord, StoreAgrees
<1>9. TypeOK'
  BY <1>2, <1>7, <1>8 DEF TypeOK
<1>10. StoreAgrees'
  BY <1>2, <1>3, <1>8, SameKeysStore DEF StoreAgrees
<1>11. EndedStaysEnded'
  BY <1>2 DEF EndedStaysEnded, Present
<1> QED BY <1>7, <1>9, <1>10, <1>11

-----------------------------------------------------------------------------
(* The induction. *)

LEMMA InitInv == Init => IInv
<1> SUFFICES ASSUME Init PROVE IInv
  OBVIOUS
<1>1. \A p \in Procs : job[p] = IdleJob
  BY DEF Init
<1>2. Created = {}
  BY DEF Init, Created
<1>3. TypeOK
  <2>1. job \in [Procs -> JobRecord]
    BY IdleGood DEF Init, Good
  <2>2. key \in [Sids -> KeyRecord] /\ index \in [Admins -> IndexRecord]
    BY DEF Init, KeyRecord, IndexRecord
  <2> QED BY <2>1, <2>2 DEF Init, TypeOK
<1>4. JobsAgree
  BY <1>1, IdleGood DEF JobsAgree, Good
<1>5. OneCreator
  BY <1>1 DEF OneCreator, At, IdleJob
<1>6. StoreAgrees
  BY <1>2 DEF Init, StoreAgrees
<1>7. EndedStaysEnded
  BY DEF Init, EndedStaysEnded
<1> QED BY <1>3, <1>4, <1>5, <1>6, <1>7 DEF IInv

\* Time passing, a reinstatement and a stutter leave the requests alone.
LEMMA AloneInv ==
  ASSUME IInv, (\E a \in Admins : Reinstate(a)) \/ Tick \/ Quiet \/ UNCHANGED vars
  PROVE  IInv'
<1> USE DEF IInv
<1>1. UNCHANGED <<key, index, history, known, job, born, dead, raced, overtaken, contended, calls>>
  BY DEF Reinstate, Tick, Quiet, vars, stores, histories
<1>2. now' \in Nat /\ now <= now' /\ account' \in [Admins -> {"active", "suspended"}]
  BY DEF Reinstate, Tick, Quiet, vars, TypeOK
<1>3. TypeOK'
  BY <1>1, <1>2 DEF TypeOK
<1>4. Created' = Created
  BY <1>1 DEF Created
<1>5. JobsAgree'
  BY <1>1, <1>4 DEF JobsAgree, JobFits, JobAgrees
<1>6. OneCreator' /\ StoreAgrees'
  BY <1>1, <1>4 DEF OneCreator, At, StoreAgrees
<1>7. EndedStaysEnded'
  BY <1>1, <1>2 DEF EndedStaysEnded, Present, TypeOK, KeyRecord
<1> QED BY <1>3, <1>5, <1>6, <1>7

LEMMA StepInv == IInv /\ [Next]_vars => IInv'
<1> SUFFICES ASSUME IInv, [Next]_vars PROVE IInv'
  OBVIOUS
<1>1. CASE \E p \in Procs : ReadingStepOf(p)
  BY <1>1, ReadingInv
<1>2. CASE \E p \in Procs : CreateSession(p)
  BY <1>2, CreateInv
<1>3. CASE \E p \in Procs : Touch(p)
  BY <1>3, TouchInv
<1>4. CASE \E p \in Procs : RotateSet(p)
  BY <1>4, RotateInv
<1>5. CASE \E p \in Procs, s \in Sids : DeleteSession(p, s)
  BY <1>5, DeleteInv
<1>6. CASE \E p \in Procs : Wipe(p)
  BY <1>6, WipeInv
<1>7. CASE \E p \in Procs : DropMember(p)
  BY <1>7, DropInv
<1>8. CASE (\E a \in Admins : Reinstate(a)) \/ Tick \/ Quiet \/ UNCHANGED vars
  BY <1>8, AloneInv
<1> QED BY <1>1, <1>2, <1>3, <1>4, <1>5, <1>6, <1>7, <1>8 DEF Next, ReadingStepOf

LEMMA Inductive == Spec => []IInv
BY InitInv, StepInv, PTL DEF Spec

-----------------------------------------------------------------------------

\* Keys, index, history and requests keep their types.
THEOREM TypeCorrect == Spec => []TypeOK
<1>1. IInv => TypeOK
  BY DEF IInv
<1> QED BY <1>1, Inductive, PTL

\* A deleted session only comes back through a refresh that had matched its
\* token when it was deleted.
THEOREM EndedUnlessRaced == Spec => []EndedStaysEnded
<1>1. IInv => EndedStaysEnded
  BY DEF IInv
<1> QED BY <1>1, Inductive, PTL

\* No request is let in on a session read after its absolute lifetime, counted
\* from its sign-in: not even on one that a refresh brought back.
THEOREM NothingOutlivesItsLifetime == Spec => []AdmittedInTime
<1>1. IInv => AdmittedInTime
  BY DEF IInv, JobsAgree, JobAgrees, AdmittedInTime, At
<1> QED BY <1>1, Inductive, PTL

\* When no refresh was overtaken by a deletion, what the documents promise
\* holds: an ended session is refused from then on.
THEOREM RevocationNeedsNoRace == Spec => [](raced = {} => RevokedIsRefused)
<1>1. EndedStaysEnded => (raced = {} => RevokedIsRefused)
  BY DEF EndedStaysEnded, RevokedIsRefused, Live
<1> QED BY <1>1, EndedUnlessRaced, PTL

-----------------------------------------------------------------------------
(* A superseded token.  Two refreshes that are between their comparison and  *)
(* their SET in one session have both noticed.                               *)

RivalsAgree ==
  /\ \A p, q \in Procs :
       p # q /\ (\E s \in Sids : Rotating(p, s) /\ Rotating(q, s)) => job[p].token \in contended
  /\ SupersededNeverRotates

\* A refresh gets to its comparison's good end in one step only.
LEMMA RotatingStep ==
  ASSUME IInv, [Next]_vars, NEW p \in Procs, NEW s \in Sids, Rotating(p, s)'
  PROVE  /\ job'[p].token = job[p].token /\ job'[p].sid = job[p].sid
         /\ Rotating(p, s) \/ (RotateRead(p) /\ Live(s) /\ Matches(p) /\ job[p].sid = s)
<1> USE DEF IInv
<1>1. \A q \in Procs : job[q] \in JobRecord
  BY DEF TypeOK
<1>2. CASE job'[p] = job[p]
  BY <1>2 DEF Rotating
<1>3. ASSUME NEW j, Goto(p, j), j.stage \notin {"ttl", "set"}
      PROVE  FALSE
  BY <1>3 DEF Goto, Rotating, TypeOK
<1>4. ASSUME NEW q \in Procs, NEW j, Goto(q, j), q # p
      PROVE  job'[p] = job[p]
  BY <1>4 DEF Goto, TypeOK
<1>5. ASSUME NEW q \in Procs, NEW S, Finish(q) \/ Destroy(q, S) \/ (\E a : DestroyAll(q, a))
      PROVE  job'[p] = job[p]
  BY <1>3, <1>4, <1>5 DEF Finish, Destroy, DestroyAll, IdleJob
<1>6. ASSUME NEW q \in Procs, NEW stage, To(q, stage), stage \notin {"ttl", "set"}
      PROVE  job'[p] = job[p]
  <2>1. [job[q] EXCEPT !.stage = stage].stage = stage
    BY <1>1 DEF JobRecord
  <2> QED BY <1>3, <1>4, <1>6, <2>1 DEF To
<1>7. CASE RotateRead(p)
  <2>1. Live(job[p].sid) /\ Matches(p) /\ To(p, "ttl")
    <3>1. CASE ~(Live(job[p].sid) /\ Matches(p))
      BY <1>3, <1>7, <3>1 DEF RotateRead, IdleJob
    <3> QED BY <1>7, <3>1 DEF RotateRead
  <2>2. job'[p].token = job[p].token /\ job'[p].sid = job[p].sid
    BY <1>1, <2>1 DEF To, Goto, TypeOK, JobRecord
  <2> QED BY <1>7, <2>1, <2>2 DEF Rotating
<1>8. CASE RotateTtl(p)
  <2>1. job'[p].token = job[p].token /\ job'[p].sid = job[p].sid /\ job[p].stage = "ttl"
    BY <1>1, <1>8 DEF RotateTtl, At, Goto, TypeOK, JobRecord
  <2> QED BY <2>1 DEF Rotating
<1>9. ASSUME NEW q \in Procs, RotateRead(q) \/ RotateTtl(q), q # p
      PROVE  job'[p] = job[p]
  BY <1>4, <1>9 DEF RotateRead, RotateTtl, To
<1>10. CASE UNCHANGED job
  BY <1>2, <1>10
<1>11. ASSUME NEW q \in Procs, NEW r \in Sids, LookUp(q, r) \/ DeleteSession(q, r)
       PROVE  job'[p] = job[p]
  <2>1. PICK j : Goto(q, j) /\ j \in {
               [job[q] EXCEPT !.todo = @ \ {r}],
               [job[q] EXCEPT !.stage = "drop", !.sid = r, !.todo = @ \ {r},
                              !.target = IF @ = r THEN None ELSE @],
               [job[q] EXCEPT !.stage = "stamp", !.sid = r,
                              !.todo = IF job[q].reuse THEN @ ELSE @ \ {r}, !.reuse = FALSE]}
    BY <1>11 DEF LookUp, DeleteSession
  <2>2. job[q].stage \in {"look", "delete"} /\ job[q] \in JobRecord
    BY <1>1, <1>11 DEF LookUp, DeleteSession, At
  <2>3. j.stage \in {"look", "delete", "drop", "stamp"}
    <3>1. [job[q] EXCEPT !.todo = @ \ {r}].stage = job[q].stage
      BY <2>2 DEF JobRecord
    <3>2. [job[q] EXCEPT !.stage = "drop", !.sid = r, !.todo = @ \ {r},
                         !.target = IF @ = r THEN None ELSE @].stage = "drop"
      BY <2>2 DEF JobRecord
    <3>3. [job[q] EXCEPT !.stage = "stamp", !.sid = r,
             !.todo = IF job[q].reuse THEN @ ELSE @ \ {r}, !.reuse = FALSE].stage = "stamp"
      BY <2>2 DEF JobRecord
    <3> QED BY <2>1, <2>2, <3>1, <3>2, <3>3
  <2> QED BY <1>3, <1>4, <2>1, <2>3
<1>12. ASSUME NEW q \in Procs, ReadMembers(q) \/ Wipe(q)
       PROVE  job'[p] = job[p]
  <2>1. CASE ReadMembers(q)
    <3>1. PICK j : j = [job[q] EXCEPT !.stage = "wipe", !.todo = Members(job[q].admin)]
      OBVIOUS
    <3>2. j.stage = "wipe"
      BY <1>1, <3>1 DEF JobRecord
    <3>3. Goto(q, j)
      BY <2>1, <3>1 DEF ReadMembers
    <3> QED BY <1>3, <1>4, <3>2, <3>3
  <2>2. CASE Wipe(q)
    <3>1. PICK j : j = [job[q] EXCEPT !.stage = "close", !.todo = {}]
      OBVIOUS
    <3>2. j.stage = "close"
      BY <1>1, <3>1 DEF JobRecord
    <3>3. Goto(q, j)
      BY <2>2, <3>1 DEF Wipe
    <3> QED BY <1>3, <1>4, <3>2, <3>3
  <2> QED BY <1>12, <2>1, <2>2
<1>13. ASSUME NEW q \in Procs, NEW a \in Admins, NEW r \in Sids, NEW token \in Tokens,
              Login(q, a, r, token)
       PROVE  job'[p] = job[p]
  BY <1>3, <1>4, <1>13 DEF Login, IdleJob
<1>14. ASSUME NEW q \in Procs, NEW r \in Sids, NEW token \in Tokens, NEW next \in Tokens,
              Refresh(q, r, token, next)
       PROVE  job'[p] = job[p]
  BY <1>3, <1>4, <1>5, <1>14 DEF Refresh, IdleJob
<1>15. ASSUME NEW q \in Procs, NEW r \in Sids, Authenticate(q, r)
       PROVE  job'[p] = job[p]
  BY <1>3, <1>4, <1>5, <1>15 DEF Authenticate, IdleJob
<1>16. ASSUME NEW q \in Procs, CreateSession(q)
       PROVE  job'[p] = job[p]
  BY <1>3, <1>4, <1>16 DEF CreateSession, IdleJob
<1>17. ASSUME NEW q \in Procs, NEW a \in Admins, NEW target \in Sids \cup {None},
              ListSessions(q, a, target)
       PROVE  job'[p] = job[p]
  BY <1>3, <1>4, <1>17 DEF ListSessions, IdleJob
<1>18. ASSUME NEW q \in Procs,
              \/ Touch(q) \/ FindAccount(q) \/ Leave(q) \/ RecordSession(q) \/ Logout(q)
              \/ LogoutAll(q) \/ ChangeOwnPassword(q) \/ RefreshAccount(q) \/ RotateSet(q)
       PROVE  job'[p] = job[p]
  BY <1>5, <1>6, <1>18
     DEF Touch, FindAccount, Leave, RecordSession, Logout, LogoutAll, ChangeOwnPassword,
         RefreshAccount, RotateSet
<1>19. ASSUME NEW q \in Procs,
              \/ StampSession(q) \/ CloseHistory(q) \/ DropMember(q) \/ Listed(q) \/ Crash(q)
              \/ \E r \in Sids : RevokeSession(q, r)
              \/ \E a \in Admins : Suspend(q, a) \/ EndAll(q, a)
       PROVE  job'[p] = job[p]
  BY <1>5, <1>6, <1>19
     DEF StampSession, CloseHistory, DropMember, Listed, Crash, RevokeSession, Suspend, EndAll
<1>20. CASE (\E a \in Admins : Reinstate(a)) \/ Tick \/ Quiet \/ UNCHANGED vars
  BY <1>10, <1>20 DEF Reinstate, Tick, Quiet, vars, stores, histories
<1> QED BY <1>2, <1>7, <1>8, <1>9, <1>11, <1>12, <1>13, <1>14, <1>15, <1>16, <1>17, <1>18,
           <1>19, <1>20 DEF Next

LEMMA StepRivals ==
  ASSUME IInv, IInv', RivalsAgree, [Next]_vars
  PROVE  RivalsAgree'
<1> USE DEF IInv
\* Two that rotate now did before, or the later one has noted the other.
<1>1. contended \subseteq contended'
  <2>1. CASE \E p \in Procs : RotateRead(p)
    BY <2>1 DEF RotateRead
  <2>2. CASE UNCHANGED contended
    BY <2>2
  <2> QED BY <2>1, <2>2
     DEF Next, vars, histories, stores, Suspend, EndAll, Login, Refresh, Authenticate,
         RevokeSession, DeleteSession, LookUp, CreateSession, RecordSession, Touch, FindAccount,
         Leave, Logout, LogoutAll, ChangeOwnPassword, RefreshAccount, RotateTtl, RotateSet,
         StampSession, ReadMembers, Wipe, CloseHistory, ListSessions, DropMember, Listed, Crash,
         Reinstate, Tick, Quiet
<1>2. ASSUME NEW p \in Procs, NEW q \in Procs, NEW s \in Sids, p # q,
             Rotating(p, s)', Rotating(q, s)'
      PROVE  job'[p].token \in contended'
  <2>1. job'[p].token = job[p].token /\ job'[q].token = job[q].token
    BY <1>2, RotatingStep
  <2>2. CASE Rotating(p, s) /\ Rotating(q, s)
    BY <1>1, <1>2, <2>1, <2>2 DEF RivalsAgree
  <2>3. CASE Rotating(p, s) /\ ~Rotating(q, s)
    <3>1. RotateRead(q) /\ Live(s) /\ Matches(q) /\ job[q].sid = s
      BY <1>2, <2>3, RotatingStep
    <3>2. p \in {r \in Procs \ {q} : Rotating(r, s)}
      BY <1>2, <2>3
    <3> QED BY <2>1, <3>1, <3>2 DEF RotateRead
  <2>4. CASE ~Rotating(p, s) /\ Rotating(q, s)
    <3>1. RotateRead(p) /\ Live(s) /\ Matches(p) /\ job[p].sid = s
      BY <1>2, <2>4, RotatingStep
    <3>2. q \in {r \in Procs \ {p} : Rotating(r, s)}
      BY <1>2, <2>4
    <3> QED BY <2>1, <3>1, <3>2 DEF RotateRead
  <2>5. CASE ~Rotating(p, s) /\ ~Rotating(q, s)
    <3>1. RotateRead(p) /\ RotateRead(q) /\ job[p].stage = "match"
      BY <1>2, <2>5, RotatingStep DEF RotateRead, At
    <3>2. job'[p] = job[p]
      BY <1>2, <3>1 DEF RotateRead, To, Goto, TypeOK
    <3> QED BY <1>2, <3>1, <3>2 DEF Rotating
  <2> QED BY <2>2, <2>3, <2>4, <2>5
\* The token of a key changes under a SET, and while its session is created.
<1>3. ASSUME NEW s \in Created
      PROVE  key'[s].token = key[s].token \/ \E q \in Procs : RotateSet(q) /\ job[q].sid = s
  <2>1. s \in Sids /\ key[s] \in KeyRecord
    BY DEF Created, TypeOK
  <2>2. ASSUME NEW q \in Procs, CreateSession(q)
        PROVE  key'[s] = key[s]
    <3>1. job[q].sid \notin Created
      BY <2>2 DEF CreateSession, At, JobsAgree, JobAgrees
    <3> QED BY <2>1, <2>2, <3>1 DEF CreateSession, TypeOK
  <2>3. ASSUME NEW q \in Procs, Touch(q)
        PROVE  key'[s].token = key[s].token
    BY <2>1, <2>3 DEF Touch, TypeOK, KeyRecord
  <2>4. ASSUME NEW S, key' = Deleted(S)
        PROVE  key'[s].token = key[s].token
    <3>1. key'[s] = [key[s] EXCEPT !.there = key[s].there /\ s \notin S]
      BY <2>1, <2>4 DEF Deleted
    <3> QED BY <2>1, <3>1 DEF KeyRecord
  <2>5. ASSUME NEW q \in Procs, RotateSet(q), job[q].sid # s
        PROVE  key'[s] = key[s]
    BY <2>1, <2>5 DEF RotateSet, TypeOK
  <2>6. CASE UNCHANGED key
    BY <2>6
  <2>7. CASE \E q \in Procs : ReadingStepOf(q)
    BY <2>6, <2>7, ReadingFrame
  <2>8. CASE \E q \in Procs : DropMember(q)
    BY <2>6, <2>8 DEF DropMember
  <2>9. CASE (\E a \in Admins : Reinstate(a)) \/ Tick \/ Quiet \/ UNCHANGED vars
    BY <2>6, <2>9 DEF Reinstate, Tick, Quiet, vars, stores
  <2>10. CASE \E q \in Procs : Wipe(q) \/ \E r \in Sids : DeleteSession(q, r)
    BY <2>4, <2>10 DEF Wipe, DeleteSession
  <2> QED BY <2>2, <2>3, <2>5, <2>7, <2>8, <2>9, <2>10 DEF Next, ReadingStepOf
<1>4. ASSUME NEW p \in Procs, NEW s \in Sids, Rotating(p, s)'
      PROVE  key'[s].token = job'[p].token \/ job'[p].token \in contended'
  <2>1. job'[p].token = job[p].token /\ s \in Created
    <3>1. job[p].stage \in {"match", "ttl", "set"} /\ job[p].sid = s
      BY <1>4, RotatingStep DEF Rotating, RotateRead, At
    <3> QED BY <1>4, <3>1, RotatingStep DEF JobsAgree, JobAgrees, SidStages
  <2>2. key[s].token = job[p].token \/ job[p].token \in contended
    BY <1>4, RotatingStep DEF RivalsAgree, SupersededNeverRotates, Rotating, At, Matches
  <2>3. CASE key'[s].token = key[s].token
    BY <1>1, <2>1, <2>2, <2>3
  <2>4. ASSUME NEW q \in Procs, RotateSet(q), job[q].sid = s
        PROVE  job'[p].token \in contended'
    <3>1. Rotating(q, s) /\ job[q].stage = "set"
      BY <2>4 DEF RotateSet, At, Rotating
    <3>2. q # p
      BY <1>4, <2>4, <3>1 DEF RotateSet, Finish, Goto, IdleJob, TypeOK, Rotating
    <3>3. job'[p] = job[p]
      BY <2>4, <3>2 DEF RotateSet, Finish, Goto, TypeOK
    <3> QED BY <1>1, <1>4, <3>1, <3>2, <3>3 DEF RivalsAgree, Rotating
  <2> QED BY <1>3, <2>1, <2>3, <2>4
<1>5. SupersededNeverRotates'
  <2> SUFFICES ASSUME NEW p \in Procs, job'[p].stage \in {"ttl", "set"}
               PROVE  key'[job'[p].sid].token = job'[p].token \/ job'[p].token \in contended'
    BY DEF SupersededNeverRotates, At
  <2>1. job'[p].sid \in Sids
    BY DEF JobsAgree, JobFits, SidStages
  <2>2. PICK s : s = job'[p].sid
    OBVIOUS
  <2> QED BY <1>4, <2>1, <2>2 DEF Rotating
<1> QED BY <1>2, <1>5 DEF RivalsAgree

\* A token that was superseded before its refresh began is never exchanged: a
\* refresh that replaces a newer one overlapped another refresh between its
\* comparison and its SET (rotateRefreshToken), however many requests there are.
THEOREM SupersededIsRefused == Spec => []SupersededNeverRotates
<1>1. Init => RivalsAgree
  BY DEF Init, IdleJob, RivalsAgree, SupersededNeverRotates, Rotating, At
<1>2. RivalsAgree /\ IInv /\ IInv' /\ [Next]_vars => RivalsAgree'
  BY StepRivals
<1>3. RivalsAgree => SupersededNeverRotates
  BY DEF RivalsAgree
<1> QED BY <1>1, <1>2, <1>3, Inductive, PTL DEF Spec

-----------------------------------------------------------------------------
(***************************************************************************)
(* Sessions that are over.  What the index no longer holds, and what the   *)
(* history says has ended, can neither be used nor be written again by a   *)
(* refresh, except a session that raced one or began during a destroy.     *)
(***************************************************************************)

Usable(s) == (Present(s) \/ \E p \in Procs : Rotating(p, s)) /\ ~Expired(s)

Over(s) == Usable(s) => s \in raced \cup overtaken

OwnedBy(a) == {s \in Created : key[s].owner = a}

\* An index outlives the sessions of its administrator.
IndexLasts ==
  \A s \in Created : born[s] <= now /\ key[s].absolute <= index[key[s].owner].expires

IndexHolds == \A s \in Created : Over(s) \/ s \in index[key[s].owner].sids

\* What a request is about to strike from the index or from the history.
DestroysReach ==
  \A p \in Procs :
    /\ job[p].stage \in {"drop", "stamp"} => Over(job[p].sid)
    /\ job[p].stage = "wipe" => \A s \in OwnedBy(job[p].admin) : Over(s) \/ s \in job[p].todo
    /\ job[p].stage = "close" => \A s \in OwnedBy(job[p].admin) : Over(s)

HistoryIsOver == \A s \in Sids : history[s] = "ended" => s \in Created /\ Over(s)

OverInv == IndexLasts /\ IndexHolds /\ DestroysReach /\ HistoryIsOver

\* What a step may do to the key of a session that exists.
LEMMA KeyStep ==
  ASSUME IInv, [Next]_vars, NEW s \in Created
  PROVE  /\ key'[s].owner = key[s].owner /\ key'[s].absolute = key[s].absolute
         /\ Present(s)' => Present(s) \/ \E p \in Procs : Rotating(p, s)
<1> USE DEF IInv
<1>1. s \in Sids /\ key[s] \in KeyRecord /\ now \in Nat
  BY DEF Created, TypeOK
<1>2. CASE UNCHANGED key /\ now <= now' /\ now' \in Nat
  BY <1>1, <1>2 DEF Present, KeyRecord
<1>3. ASSUME NEW q \in Procs, CreateSession(q)
      PROVE  key'[s] = key[s] /\ now' = now
  <2>1. job[q].sid \notin Created
    BY <1>3 DEF CreateSession, At, JobsAgree, JobAgrees
  <2> QED BY <1>1, <1>3, <2>1 DEF CreateSession, TypeOK
<1>4. CASE \E q \in Procs : CreateSession(q)
  BY <1>3, <1>4 DEF Present
<1>5. ASSUME NEW q \in Procs, Touch(q)
      PROVE  /\ key'[s].owner = key[s].owner /\ key'[s].absolute = key[s].absolute
             /\ Present(s)' => Present(s)
  <2>1. CASE s = job[q].sid /\ Present(s)
    BY <1>1, <1>5, <2>1 DEF Touch, TypeOK, KeyRecord
  <2>2. CASE ~(s = job[q].sid /\ Present(s))
    <3>1. key'[s] = key[s] /\ now' = now
      BY <1>1, <1>5, <2>2 DEF Touch, TypeOK
    <3> QED BY <3>1 DEF Present
  <2> QED BY <2>1, <2>2
<1>6. ASSUME NEW q \in Procs, RotateSet(q)
      PROVE  /\ key'[s].owner = key[s].owner /\ key'[s].absolute = key[s].absolute
             /\ Present(s)' => Present(s) \/ Rotating(q, s)
  <2>1. CASE s = job[q].sid
    <3>1. Rotating(q, s)
      BY <1>6, <2>1 DEF RotateSet, At, Rotating
    <3>2. key'[s] = RotatedRecord(q)
      BY <1>1, <1>6, <2>1 DEF RotateSet, TypeOK
    <3> QED BY <1>1, <2>1, <3>1, <3>2 DEF RotatedRecord, KeyRecord
  <2>2. CASE s # job[q].sid
    <3>1. key'[s] = key[s] /\ now' = now
      BY <1>1, <1>6, <2>2 DEF RotateSet, TypeOK
    <3> QED BY <3>1 DEF Present
  <2> QED BY <2>1, <2>2
<1>7. ASSUME NEW S, key' = Deleted(S), now' = now
      PROVE  /\ key'[s].owner = key[s].owner /\ key'[s].absolute = key[s].absolute
             /\ Present(s)' => Present(s)
  <2>1. key'[s] = [key[s] EXCEPT !.there = key[s].there /\ s \notin S]
    BY <1>1, <1>7 DEF Deleted
  <2>2. /\ key'[s].owner = key[s].owner /\ key'[s].absolute = key[s].absolute
        /\ key'[s].expires = key[s].expires /\ (key'[s].there => key[s].there)
    BY <1>1, <2>1 DEF KeyRecord
  <2> QED BY <1>7, <2>2 DEF Present
<1>8. CASE \E q \in Procs : ReadingStepOf(q)
  BY <1>1, <1>2, <1>8, ReadingFrame
<1>9. CASE \E q \in Procs : DropMember(q)
  BY <1>1, <1>2, <1>9 DEF DropMember
<1>10. CASE (\E a \in Admins : Reinstate(a)) \/ Tick \/ Quiet \/ UNCHANGED vars
  BY <1>1, <1>2, <1>10 DEF Reinstate, Tick, Quiet, vars, stores
<1>11. CASE \E q \in Procs : Wipe(q) \/ \E r \in Sids : DeleteSession(q, r)
  BY <1>7, <1>11 DEF Wipe, DeleteSession
<1> QED BY <1>4, <1>5, <1>6, <1>8, <1>9, <1>10, <1>11 DEF Next, ReadingStepOf

\* The clock, the starts and the two exceptions only grow.
LEMMA HistoriesGrow ==
  ASSUME IInv, [Next]_vars
  PROVE  /\ now \in Nat /\ now' \in Nat /\ now <= now'
         /\ Persists
         /\ overtaken \subseteq overtaken'
<1> USE DEF IInv
<1>1. CASE \E q \in Procs : ReadingStepOf(q)
  BY <1>1, ReadingFrame DEF TypeOK, Persists, Created
<1>2. ASSUME NEW q \in Procs, CreateSession(q)
      PROVE  /\ now' = now /\ raced' = raced /\ overtaken \subseteq overtaken'
             /\ \A s \in Created : born'[s] = born[s]
  <2>1. job[q].sid \notin Created
    BY <1>2 DEF CreateSession, At, JobsAgree, JobAgrees
  <2>2. overtaken \subseteq overtaken'
    BY <1>2 DEF CreateSession
  <2> QED BY <1>2, <2>1, <2>2 DEF CreateSession, TypeOK, Created
<1>3. ASSUME NEW q \in Procs,
             \/ Touch(q) \/ RotateSet(q) \/ DropMember(q) \/ Wipe(q)
             \/ \E r \in Sids : DeleteSession(q, r)
      PROVE  /\ now' = now /\ raced \subseteq raced' /\ overtaken' = overtaken /\ born' = born
  BY <1>3 DEF Touch, RotateSet, DropMember, Wipe, DeleteSession, RacedBy, histories
<1>4. CASE (\E a \in Admins : Reinstate(a)) \/ Tick \/ Quiet \/ UNCHANGED vars
  <2>1. now' \in Nat /\ now <= now' /\ UNCHANGED <<raced, overtaken, born>>
    BY <1>4 DEF Reinstate, Tick, Quiet, vars, histories, TypeOK
  <2>2. UNCHANGED key
    BY <1>4 DEF Reinstate, Tick, Quiet, vars, stores
  <2> QED BY <2>1, <2>2 DEF Persists, Created, TypeOK
<1>5. Created \subseteq Created'
  BY KeyStep DEF Created
<1> QED BY <1>1, <1>2, <1>3, <1>4, <1>5 DEF Next, ReadingStepOf, TypeOK, Persists

\* What is over stays over.
LEMMA OverStays ==
  ASSUME IInv, [Next]_vars, NEW s \in Created, Over(s)
  PROVE  Over(s)'
<1>1. SUFFICES ASSUME Usable(s)'
               PROVE  s \in raced' \cup overtaken'
  BY DEF Over
<1>2. s \in Sids /\ key[s].absolute \in Nat
  BY DEF IInv, Created, TypeOK, KeyRecord
<1>3. ~Expired(s)
  BY <1>1, <1>2, KeyStep, HistoriesGrow DEF Usable, Expired
<1>4. Present(s) \/ \E p \in Procs : Rotating(p, s)
  <2>1. CASE Present(s)'
    BY <2>1, KeyStep
  <2>2. ASSUME NEW p \in Procs, Rotating(p, s)'
        PROVE  Present(s) \/ Rotating(p, s)
    BY <1>2, <2>2, RotatingStep DEF Live
  <2> QED BY <1>1, <2>1, <2>2 DEF Usable
<1> QED BY <1>3, <1>4, HistoriesGrow DEF Over, Usable, Persists

\* A session whose key is gone is over, when every refresh that could still
\* write it has been noted.
LEMMA GoneIsOver ==
  ASSUME IInv, [Next]_vars, NEW s \in Created, ~Present(s)',
         (\E p \in Procs : Rotating(p, s)) => s \in raced'
  PROVE  Over(s)'
<1>1. SUFFICES ASSUME NEW p \in Procs, Rotating(p, s)'
               PROVE  s \in raced'
  BY DEF Over, Usable
<1>2. s \in Sids
  BY DEF Created
<1>3. CASE Rotating(p, s)
  BY <1>3
<1>4. CASE RotateRead(p) /\ Live(s)
  <2>1. UNCHANGED <<now, key>>
    BY <1>4 DEF RotateRead, stores
  <2> QED BY <1>4, <2>1 DEF Live, Present
<1> QED BY <1>1, <1>2, <1>3, <1>4, RotatingStep

-----------------------------------------------------------------------------
(* The steps that delete. *)

LEMMA DeletionIsOver ==
  ASSUME IInv, [Next]_vars, NEW S \in SUBSET Created,
         key' = Deleted(S), raced' = RacedBy(S)
  PROVE  \A s \in S : Over(s)'
<1> SUFFICES ASSUME NEW s \in S
             PROVE  Over(s)'
  OBVIOUS
<1>1. s \in Sids /\ s \in Created /\ key[s] \in KeyRecord
  BY DEF IInv, Created, TypeOK
<1>2. key'[s] = [key[s] EXCEPT !.there = key[s].there /\ s \notin S]
  BY <1>1 DEF Deleted
<1>3. ~key'[s].there
  BY <1>1, <1>2 DEF KeyRecord
<1>4. ~Present(s)'
  BY <1>3 DEF Present
<1>5. (\E p \in Procs : Rotating(p, s)) => s \in raced'
  BY DEF RacedBy
<1> QED BY <1>1, <1>4, <1>5, GoneIsOver

LEMMA DeleteIsOver ==
  ASSUME IInv, [Next]_vars, NEW p \in Procs, NEW s \in Sids, DeleteSession(p, s)
  PROVE  s \in Created /\ Over(s)'
<1>1. s \in Created
  BY DEF DeleteSession, IInv, JobsAgree, JobAgrees
<1> QED BY <1>1, DeletionIsOver DEF DeleteSession

LEMMA WipeIsOver ==
  ASSUME IInv, [Next]_vars, OverInv, NEW p \in Procs, Wipe(p)
  PROVE  \A s \in OwnedBy(job[p].admin) : Over(s)'
<1> SUFFICES ASSUME NEW s \in OwnedBy(job[p].admin)
             PROVE  Over(s)'
  OBVIOUS
<1>1. s \in Created /\ (Over(s) \/ s \in job[p].todo)
  BY DEF Wipe, At, OverInv, DestroysReach, OwnedBy
<1>2. job[p].todo \in SUBSET Created
  BY DEF IInv, JobsAgree, JobAgrees
<1>3. \A t \in job[p].todo : Over(t)'
  BY <1>2, DeletionIsOver DEF Wipe
<1> QED BY <1>1, <1>3, OverStays

LEMMA LookUpIsOver ==
  ASSUME IInv, [Next]_vars, NEW p \in Procs, NEW s \in Sids, LookUp(p, s), ~Present(s)
  PROVE  s \in Created /\ Over(s)'
<1>1. s \in Created
  BY DEF LookUp, IInv, JobsAgree, JobAgrees
<1>2. UNCHANGED <<now, key>> /\ raced' = RacedBy({s})
  BY DEF LookUp, stores
<1>3. ~Present(s)'
  BY <1>2 DEF Present
<1>4. (\E q \in Procs : Rotating(q, s)) => s \in raced'
  BY <1>2 DEF RacedBy
<1> QED BY <1>1, <1>3, <1>4, GoneIsOver

\* SMEMBERS returns every session of the administrator that is not over.
LEMMA MembersReach ==
  ASSUME IInv, OverInv, NEW a \in Admins, NEW s \in OwnedBy(a)
  PROVE  Over(s) \/ s \in Members(a)
<1>1. s \in Created /\ key[s].owner = a /\ key[s].absolute \in Nat
  BY DEF OwnedBy, Created, IInv, TypeOK, KeyRecord
<1>2. CASE now < index[a].expires
  BY <1>1, <1>2 DEF OverInv, IndexHolds, Members
<1>3. CASE ~(now < index[a].expires)
  <2>1. key[s].absolute <= index[a].expires /\ index[a].expires \in Nat /\ now \in Nat
    BY <1>1 DEF OverInv, IndexLasts, IInv, TypeOK, IndexRecord
  <2> QED BY <1>1, <1>3, <2>1 DEF Over, Usable, Expired
<1> QED BY <1>2, <1>3

-----------------------------------------------------------------------------
(* What the steps do to the index, to the history and to the destroys. *)

\* Only a sign-in creates a session.
LEMMA CreatedStep ==
  ASSUME IInv, [Next]_vars, NEW s \in Created' \ Created
  PROVE  \E p \in Procs : CreateSession(p) /\ s = job[p].sid
<1> USE DEF IInv
<1>1. s \in Sids /\ key[s] \in KeyRecord /\ key'[s].owner # None /\ key[s].owner = None
  BY DEF Created, TypeOK
<1>2. CASE UNCHANGED key
  BY <1>1, <1>2
<1>3. ASSUME NEW q \in Procs, CreateSession(q)
      PROVE  s = job[q].sid
  BY <1>1, <1>3 DEF CreateSession, TypeOK
<1>4. ASSUME NEW q \in Procs, Touch(q)
      PROVE  key'[s].owner = key[s].owner
  BY <1>1, <1>4 DEF Touch, TypeOK, KeyRecord
<1>5. ASSUME NEW q \in Procs, RotateSet(q)
      PROVE  key'[s].owner = key[s].owner
  <2>1. CASE s = job[q].sid
    <3>1. key'[s] = RotatedRecord(q)
      BY <1>1, <1>5, <2>1 DEF RotateSet, TypeOK
    <3> QED BY <1>1, <2>1, <3>1 DEF RotatedRecord, KeyRecord
  <2>2. CASE s # job[q].sid
    BY <1>1, <1>5, <2>2 DEF RotateSet, TypeOK
  <2> QED BY <2>1, <2>2
<1>6. ASSUME NEW S, key' = Deleted(S)
      PROVE  key'[s].owner = key[s].owner
  <2>1. key'[s] = [key[s] EXCEPT !.there = key[s].there /\ s \notin S]
    BY <1>1, <1>6 DEF Deleted
  <2> QED BY <1>1, <2>1 DEF KeyRecord
<1>7. CASE \E q \in Procs : ReadingStepOf(q)
  BY <1>2, <1>7, ReadingFrame
<1>8. CASE \E q \in Procs : DropMember(q)
  BY <1>2, <1>8 DEF DropMember
<1>9. CASE (\E a \in Admins : Reinstate(a)) \/ Tick \/ Quiet \/ UNCHANGED vars
  BY <1>2, <1>9 DEF Reinstate, Tick, Quiet, vars, stores
<1>10. CASE \E q \in Procs : Wipe(q) \/ \E r \in Sids : DeleteSession(q, r)
  BY <1>1, <1>6, <1>10 DEF Wipe, DeleteSession
<1> QED BY <1>1, <1>3, <1>4, <1>5, <1>7, <1>8, <1>9, <1>10 DEF Next, ReadingStepOf

LEMMA IndexStep ==
  ASSUME IInv, [Next]_vars, OverInv, NEW s \in Created
  PROVE  /\ key'[s].absolute <= index'[key[s].owner].expires
         /\ Over(s)' \/ s \in index'[key[s].owner].sids
<1> USE DEF IInv
<1>1. PICK a \in Admins : a = key[s].owner
  BY DEF Created, TypeOK, KeyRecord
<1>2. /\ s \in OwnedBy(a) /\ s \in Sids
      /\ key'[s].absolute = key[s].absolute /\ key[s].absolute <= index[a].expires
      /\ Over(s) \/ s \in index[a].sids
      /\ index[a] \in IndexRecord
  BY <1>1, KeyStep DEF OverInv, IndexLasts, IndexHolds, OwnedBy, Created, TypeOK
<1>3. CASE index'[a] = index[a]
  BY <1>1, <1>2, <1>3, OverStays
<1>4. ASSUME NEW q \in Procs, CreateSession(q), job[q].admin = a
      PROVE  /\ key'[s].absolute <= index'[a].expires
             /\ Over(s)' \/ s \in index'[a].sids
  <2>1. index'[a] = Indexed(Members(a) \cup {job[q].sid})
    BY <1>4 DEF CreateSession, TypeOK
  <2>2. key[s].absolute = born[s] + AbsTTL /\ born[s] <= now /\ born[s] \in Nat /\ now \in Nat
    BY <1>2 DEF StoreAgrees, OverInv, IndexLasts, TypeOK
  <2>3. key[s].absolute <= now + AbsTTL
    BY <2>2, LifetimesAssumption
  <2>4. Over(s) \/ s \in Members(a)
    BY <1>2, MembersReach
  <2> QED BY <1>2, <2>1, <2>3, <2>4, OverStays DEF Indexed
<1>5. ASSUME NEW T, index'[a] = [index[a] EXCEPT !.sids = T], Over(s)' \/ s \in T
      PROVE  /\ key'[s].absolute <= index'[a].expires
             /\ Over(s)' \/ s \in index'[a].sids
  BY <1>2, <1>5 DEF IndexRecord
<1>6. ASSUME NEW q \in Procs, NEW r \in Sids, DeleteSession(q, r), key[r].owner = a
      PROVE  /\ key'[s].absolute <= index'[a].expires
             /\ Over(s)' \/ s \in index'[a].sids
  <2>1. index'[a] = [index[a] EXCEPT !.sids = index[a].sids \ {r}]
    BY <1>6 DEF DeleteSession, TypeOK
  <2>2. Over(s)' \/ s \in index[a].sids \ {r}
    BY <1>2, <1>6, DeleteIsOver, OverStays
  <2> QED BY <1>5, <2>1, <2>2
<1>7. ASSUME NEW q \in Procs, Wipe(q), job[q].admin = a
      PROVE  /\ key'[s].absolute <= index'[a].expires
             /\ Over(s)' \/ s \in index'[a].sids
  <2>1. index'[a] = [index[a] EXCEPT !.sids = {}]
    BY <1>7 DEF Wipe, TypeOK
  <2>2. Over(s)'
    BY <1>2, <1>7, WipeIsOver
  <2> QED BY <1>5, <2>1, <2>2
<1>8. ASSUME NEW q \in Procs, DropMember(q), job[q].admin = a
      PROVE  /\ key'[s].absolute <= index'[a].expires
             /\ Over(s)' \/ s \in index'[a].sids
  <2>1. index'[a] = [index[a] EXCEPT !.sids = index[a].sids \ {job[q].sid}]
    BY <1>8 DEF DropMember, TypeOK
  <2>2. Over(job[q].sid)
    BY <1>8 DEF DropMember, At, OverInv, DestroysReach
  <2>3. Over(s)' \/ s \in index[a].sids \ {job[q].sid}
    BY <1>2, <2>2, OverStays
  <2> QED BY <1>5, <2>1, <2>3
<1>9. ASSUME NEW q \in Procs,
             \/ CreateSession(q) /\ job[q].admin # a
             \/ Wipe(q) /\ job[q].admin # a
             \/ DropMember(q) /\ job[q].admin # a
             \/ \E r \in Sids : DeleteSession(q, r) /\ key[r].owner # a
      PROVE  index'[a] = index[a]
  BY <1>9 DEF CreateSession, Wipe, DropMember, DeleteSession, TypeOK
<1>10. CASE \E q \in Procs : ReadingStepOf(q) \/ Touch(q) \/ RotateSet(q)
  <2>1. CASE \E q \in Procs : ReadingStepOf(q)
    BY <1>1, <1>3, <2>1, ReadingFrame
  <2>2. CASE \E q \in Procs : Touch(q) \/ RotateSet(q)
    BY <1>1, <1>3, <2>2 DEF Touch, RotateSet
  <2> QED BY <1>10, <2>1, <2>2
<1>11. CASE (\E b \in Admins : Reinstate(b)) \/ Tick \/ Quiet \/ UNCHANGED vars
  BY <1>1, <1>3, <1>11 DEF Reinstate, Tick, Quiet, vars, stores
<1> QED BY <1>1, <1>3, <1>4, <1>6, <1>7, <1>8, <1>9, <1>10, <1>11 DEF Next, ReadingStepOf

LEMMA HistoryStep ==
  ASSUME IInv, [Next]_vars, NEW s \in Sids, history'[s] = "ended", history[s] # "ended"
  PROVE  \E p \in Procs : \/ StampSession(p) /\ s = job[p].sid
                          \/ CloseHistory(p) /\ key[s].owner = job[p].admin
<1>1. CASE UNCHANGED history
  BY <1>1
<1>2. ASSUME NEW q \in Procs, RecordSession(q)
      PROVE  FALSE
  BY <1>2 DEF RecordSession, IInv, TypeOK
<1>3. ASSUME NEW q \in Procs, StampSession(q)
      PROVE  s = job[q].sid
  BY <1>3 DEF StampSession, EndRows
<1>4. ASSUME NEW q \in Procs, CloseHistory(q)
      PROVE  key[s].owner = job[q].admin
  BY <1>4 DEF CloseHistory, EndRows
<1> QED BY <1>1, <1>2, <1>3, <1>4
     DEF Next, vars, stores, Suspend, EndAll, Login, Refresh, Authenticate,
         RevokeSession, DeleteSession, LookUp, CreateSession, Touch, FindAccount,
         Leave, Logout, LogoutAll, ChangeOwnPassword, RefreshAccount, RotateRead, RotateTtl,
         RotateSet, ReadMembers, Wipe, ListSessions, DropMember, Listed, Crash,
         Reinstate, Tick, Quiet


EndingStages == {"drop", "stamp", "wipe", "close"}

\* A request gets to one of these stages in one of four ways.
LEMMA EndingStep ==
  ASSUME IInv, [Next]_vars, NEW p \in Procs, job'[p].stage \in EndingStages
  PROVE  \/ job'[p] = job[p]
         \/ \E s \in Sids : /\ DeleteSession(p, s) \/ (LookUp(p, s) /\ ~Present(s))
                           /\ job'[p].sid = s /\ job'[p].stage \in {"drop", "stamp"}
         \/ /\ ReadMembers(p)
            /\ job'[p].stage = "wipe" /\ job'[p].admin = job[p].admin
            /\ job'[p].todo = Members(job[p].admin)
         \/ /\ Wipe(p)
            /\ job'[p].stage = "close" /\ job'[p].admin = job[p].admin
<1> USE DEF IInv
<1>1. \A q \in Procs : job[q] \in JobRecord
  BY DEF TypeOK
<1>2. CASE job'[p] = job[p]
  BY <1>2 DEF EndingStages
<1>3. ASSUME NEW j, Goto(p, j), j.stage \notin EndingStages
      PROVE  FALSE
  BY <1>3 DEF Goto, TypeOK
<1>4. ASSUME NEW q \in Procs, NEW j, Goto(q, j), q # p
      PROVE  job'[p] = job[p]
  BY <1>4 DEF Goto, TypeOK
<1>5. ASSUME NEW q \in Procs, NEW S, Finish(q) \/ Destroy(q, S) \/ (\E a : DestroyAll(q, a))
      PROVE  job'[p] = job[p]
  BY <1>3, <1>4, <1>5 DEF Finish, Destroy, DestroyAll, IdleJob, EndingStages
<1>6. ASSUME NEW q \in Procs, NEW stage, To(q, stage), stage \notin EndingStages
      PROVE  job'[p] = job[p]
  <2>1. [job[q] EXCEPT !.stage = stage].stage = stage
    BY <1>1 DEF JobRecord
  <2> QED BY <1>3, <1>4, <1>6, <2>1 DEF To
<1>7. ASSUME NEW q \in Procs, RotateRead(q)
      PROVE  job'[p] = job[p]
  <2>1. CASE To(q, "ttl")
    BY <1>6, <2>1 DEF EndingStages
  <2>2. CASE ~To(q, "ttl")
    BY <1>3, <1>4, <1>7, <2>2 DEF RotateRead, IdleJob, EndingStages
  <2> QED BY <2>1, <2>2
<1>8. ASSUME NEW q \in Procs, RotateTtl(q)
      PROVE  job'[p] = job[p]
  <2>1. PICK r : Goto(q, [job[q] EXCEPT !.stage = "set", !.remaining = r])
    BY <1>8 DEF RotateTtl
  <2>2. [job[q] EXCEPT !.stage = "set", !.remaining = r].stage = "set"
    BY <1>1 DEF JobRecord
  <2> QED BY <1>3, <1>4, <2>1, <2>2 DEF EndingStages
<1>9. ASSUME NEW j, Goto(p, j)
      PROVE  job'[p] = j
  BY <1>9 DEF Goto, TypeOK
<1>10. CASE UNCHANGED job
  BY <1>2, <1>10
<1>11. ASSUME NEW q \in Procs, NEW r \in Sids, DeleteSession(q, r) \/ LookUp(q, r), q # p
       PROVE  job'[p] = job[p]
  BY <1>4, <1>11 DEF DeleteSession, LookUp
<1>12. ASSUME NEW r \in Sids, DeleteSession(p, r)
       PROVE  job'[p].sid = r /\ job'[p].stage = "stamp"
  <2>1. job'[p] = [job[p] EXCEPT !.stage = "stamp", !.sid = r,
                     !.todo = IF job[p].reuse THEN @ ELSE @ \ {r}, !.reuse = FALSE]
    BY <1>9, <1>12 DEF DeleteSession
  <2> QED BY <1>1, <2>1 DEF JobRecord
<1>13. ASSUME NEW r \in Sids, LookUp(p, r)
       PROVE  ~Present(r) /\ job'[p].sid = r /\ job'[p].stage = "drop"
  <2>1. CASE Present(r)
    <3>1. job'[p] = [job[p] EXCEPT !.todo = @ \ {r}] /\ job[p].stage = "look"
      BY <1>9, <1>13, <2>1 DEF LookUp, At
    <3>2. job'[p].stage = "look"
      BY <1>1, <3>1 DEF JobRecord
    <3> QED BY <3>2 DEF EndingStages
  <2>2. CASE ~Present(r)
    <3>1. job'[p] = [job[p] EXCEPT !.stage = "drop", !.sid = r, !.todo = @ \ {r},
                       !.target = IF @ = r THEN None ELSE @]
      BY <1>9, <1>13, <2>2 DEF LookUp
    <3> QED BY <1>1, <2>2, <3>1 DEF JobRecord
  <2> QED BY <2>1, <2>2
<1>14. ASSUME NEW q \in Procs, ReadMembers(q) \/ Wipe(q), q # p
       PROVE  job'[p] = job[p]
  BY <1>4, <1>14 DEF ReadMembers, Wipe
<1>15. CASE ReadMembers(p)
  <2>1. job'[p] = [job[p] EXCEPT !.stage = "wipe", !.todo = Members(job[p].admin)]
    BY <1>9, <1>15 DEF ReadMembers
  <2>2. /\ job'[p].stage = "wipe" /\ job'[p].admin = job[p].admin
        /\ job'[p].todo = Members(job[p].admin)
    BY <1>1, <2>1 DEF JobRecord
  <2> QED BY <1>15, <2>2
<1>16. CASE Wipe(p)
  <2>1. job'[p] = [job[p] EXCEPT !.stage = "close", !.todo = {}]
    BY <1>9, <1>16 DEF Wipe
  <2>2. job'[p].stage = "close" /\ job'[p].admin = job[p].admin
    BY <1>1, <2>1 DEF JobRecord
  <2> QED BY <1>16, <2>2
<1>17. ASSUME NEW q \in Procs, NEW a \in Admins, NEW r \in Sids, NEW token \in Tokens,
              Login(q, a, r, token)
       PROVE  job'[p] = job[p]
  BY <1>3, <1>4, <1>17 DEF Login, IdleJob, EndingStages
<1>18. ASSUME NEW q \in Procs, NEW r \in Sids, NEW token \in Tokens, NEW next \in Tokens,
              Refresh(q, r, token, next)
       PROVE  job'[p] = job[p]
  BY <1>3, <1>4, <1>5, <1>18 DEF Refresh, IdleJob, EndingStages
<1>19. ASSUME NEW q \in Procs, NEW r \in Sids, Authenticate(q, r)
       PROVE  job'[p] = job[p]
  BY <1>3, <1>4, <1>5, <1>19 DEF Authenticate, IdleJob, EndingStages
<1>20. ASSUME NEW q \in Procs, CreateSession(q)
       PROVE  job'[p] = job[p]
  BY <1>3, <1>4, <1>20 DEF CreateSession, IdleJob, EndingStages
<1>21. ASSUME NEW q \in Procs, NEW a \in Admins, NEW target \in Sids \cup {None},
              ListSessions(q, a, target)
       PROVE  job'[p] = job[p]
  BY <1>3, <1>4, <1>21 DEF ListSessions, IdleJob, EndingStages
<1>22. ASSUME NEW q \in Procs,
              \/ Touch(q) \/ FindAccount(q) \/ Leave(q) \/ RecordSession(q) \/ Logout(q)
              \/ LogoutAll(q) \/ ChangeOwnPassword(q) \/ RefreshAccount(q) \/ RotateSet(q)
       PROVE  job'[p] = job[p]
  BY <1>5, <1>6, <1>22
     DEF Touch, FindAccount, Leave, RecordSession, Logout, LogoutAll, ChangeOwnPassword,
         RefreshAccount, RotateSet, EndingStages
<1>23. ASSUME NEW q \in Procs,
              \/ StampSession(q) \/ CloseHistory(q) \/ DropMember(q) \/ Listed(q) \/ Crash(q)
              \/ \E r \in Sids : RevokeSession(q, r)
              \/ \E a \in Admins : Suspend(q, a) \/ EndAll(q, a)
       PROVE  job'[p] = job[p]
  BY <1>5, <1>6, <1>23
     DEF StampSession, CloseHistory, DropMember, Listed, Crash, RevokeSession, Suspend, EndAll,
         EndingStages
<1>24. CASE (\E a \in Admins : Reinstate(a)) \/ Tick \/ Quiet \/ UNCHANGED vars
  BY <1>10, <1>24 DEF Reinstate, Tick, Quiet, vars, stores, histories
<1> QED BY <1>2, <1>7, <1>8, <1>11, <1>12, <1>17, <1>18, <1>19, <1>20, <1>21, <1>22,
           <1>23, <1>24, <1>13, <1>14, <1>15, <1>16 DEF Next

LEMMA DestroysStep ==
  ASSUME IInv, IInv', [Next]_vars, OverInv
  PROVE  DestroysReach'
<1> USE DEF IInv
\* A session that begins under a destroyAllSessions is one of the exceptions.
<1>1. ASSUME NEW a \in Admins, NEW s \in OwnedBy(a)'
      PROVE  s \in OwnedBy(a) \/ \E q \in Procs : /\ CreateSession(q) /\ job[q].sid = s
                                                  /\ job[q].admin = a
  <2>1. CASE s \in Created
    BY <1>1, <2>1, KeyStep DEF OwnedBy
  <2>2. CASE s \notin Created
    <3>1. s \in Created' \ Created /\ key'[s].owner = a
      BY <1>1, <2>2 DEF OwnedBy
    <3>2. PICK q \in Procs : CreateSession(q) /\ s = job[q].sid
      BY <3>1, CreatedStep
    <3>3. s \in Sids
      BY <3>1 DEF Created
    <3>4. key'[s].owner = job[q].admin
      BY <3>2, <3>3 DEF CreateSession, TypeOK
    <3> QED BY <3>1, <3>2, <3>4
  <2> QED BY <2>1, <2>2
<1>2. ASSUME NEW p \in Procs, NEW a \in Admins, Destroying(p, a), NEW s \in OwnedBy(a)',
             s \notin OwnedBy(a)
      PROVE  Over(s)'
  <2>1. PICK q \in Procs : CreateSession(q) /\ job[q].sid = s /\ job[q].admin = a
    BY <1>1, <1>2
  <2>2. s \in overtaken'
    BY <1>2, <2>1 DEF CreateSession
  <2> QED BY <2>2 DEF Over
<1>3. ASSUME NEW p \in Procs, (job[p].stage \in {"drop", "stamp"})'
      PROVE  Over(job[p].sid)'
  <2>1. PICK s : s = job'[p].sid
    OBVIOUS
  <2>2. CASE job'[p] = job[p]
    <3>1. s \in Created /\ Over(s)
      BY <1>3, <2>1, <2>2 DEF OverInv, DestroysReach, JobsAgree, JobAgrees, SidStages
    <3>2. Over(s)'
      BY <3>1, OverStays
    <3> QED BY <2>1, <3>2 DEF Over, Usable, Rotating, Present, Expired
  <2>3. CASE \E r \in Sids : /\ DeleteSession(p, r) \/ (LookUp(p, r) /\ ~Present(r))
                             /\ job'[p].sid = r /\ job'[p].stage \in {"drop", "stamp"}
    <3>1. Over(s)'
      BY <2>1, <2>3, DeleteIsOver, LookUpIsOver
    <3> QED BY <2>1, <3>1 DEF Over, Usable, Rotating, Present, Expired
  <2> QED BY <1>3, <2>2, <2>3, EndingStep DEF EndingStages
<1>4. ASSUME NEW p \in Procs, job'[p].stage = "wipe",
             NEW a \in Admins, a = job'[p].admin, NEW s \in OwnedBy(a)'
      PROVE  Over(s)' \/ s \in job'[p].todo
  <2>1. CASE job'[p] = job[p]
    <3>1. a = job[p].admin /\ Destroying(p, a)
      BY <1>4, <2>1 DEF Destroying
    <3>4. CASE s \in OwnedBy(a)
      <4>1. s \in Created /\ (Over(s) \/ s \in job[p].todo)
        BY <1>4, <2>1, <3>1, <3>4 DEF OverInv, DestroysReach, OwnedBy
      <4> QED BY <2>1, <4>1, OverStays
    <3>5. CASE s \notin OwnedBy(a)
      BY <1>2, <1>4, <3>1, <3>5
    <3> QED BY <3>4, <3>5
  <2>2. CASE /\ ReadMembers(p) /\ job'[p].admin = job[p].admin
             /\ job'[p].todo = Members(job[p].admin)
    <3>1. a = job[p].admin /\ UNCHANGED key
      BY <1>4, <2>2 DEF ReadMembers, stores
    <3>2. s \in OwnedBy(a)
      BY <1>4, <3>1 DEF OwnedBy, Created
    <3>3. Over(s) \/ s \in Members(a)
      BY <3>2, MembersReach
    <3> QED BY <2>2, <3>1, <3>2, <3>3, OverStays DEF OwnedBy
  <2> QED BY <1>4, <2>1, <2>2, EndingStep DEF EndingStages
<1>5. ASSUME NEW p \in Procs, job'[p].stage = "close",
             NEW a \in Admins, a = job'[p].admin, NEW s \in OwnedBy(a)'
      PROVE  Over(s)'
  <2>1. CASE job'[p] = job[p]
    <3>1. a = job[p].admin /\ Destroying(p, a)
      BY <1>5, <2>1 DEF Destroying
    <3>4. CASE s \in OwnedBy(a)
      <4>1. s \in Created /\ Over(s)
        BY <1>5, <2>1, <3>1, <3>4 DEF OverInv, DestroysReach, OwnedBy
      <4> QED BY <4>1, OverStays
    <3>5. CASE s \notin OwnedBy(a)
      BY <1>2, <1>5, <3>1, <3>5
    <3> QED BY <3>4, <3>5
  <2>2. CASE Wipe(p) /\ job'[p].admin = job[p].admin
    <3>1. job[p].stage = "wipe" /\ a = job[p].admin
      BY <1>5, <2>2 DEF Wipe, At
    <3>2. ASSUME NEW q \in Procs, CreateSession(q)
          PROVE  FALSE
      <4>1. q # p
        BY <3>1, <3>2 DEF CreateSession, At
      <4>2. job'[p] = job[p]
        BY <3>2, <4>1 DEF CreateSession, Goto, TypeOK
      <4> QED BY <1>5, <3>1, <4>2
    <3>3. s \in OwnedBy(a)
      BY <1>1, <1>5, <3>2
    <3> QED BY <2>2, <3>1, <3>3, WipeIsOver
  <2> QED BY <1>5, <2>1, <2>2, EndingStep DEF EndingStages
<1>6. \A p \in Procs : job'[p].stage \in {"wipe", "close"} => job'[p].admin \in Admins
  BY DEF JobsAgree, JobFits, AdminStages
<1>7. ASSUME NEW p \in Procs, job'[p].stage = "wipe"
      PROVE  (\A s \in OwnedBy(job[p].admin) : Over(s) \/ s \in job[p].todo)'
  <2>1. PICK a \in Admins : a = job'[p].admin
    BY <1>6, <1>7
  <2>2. \A s \in OwnedBy(a)' : Over(s)' \/ s \in job'[p].todo
    BY <1>4, <1>7, <2>1
  <2> QED BY <2>1, <2>2 DEF OwnedBy
<1>8. ASSUME NEW p \in Procs, job'[p].stage = "close"
      PROVE  (\A s \in OwnedBy(job[p].admin) : Over(s))'
  <2>1. PICK a \in Admins : a = job'[p].admin
    BY <1>6, <1>8
  <2>2. \A s \in OwnedBy(a)' : Over(s)'
    BY <1>5, <1>8, <2>1
  <2> QED BY <2>1, <2>2 DEF OwnedBy
<1> QED BY <1>3, <1>7, <1>8 DEF DestroysReach

LEMMA StepOver ==
  ASSUME IInv, IInv', [Next]_vars, OverInv
  PROVE  OverInv'
<1> USE DEF IInv
\* A session that has just been created.
<1>1. ASSUME NEW s \in Created', s \notin Created
      PROVE  /\ born'[s] <= now' /\ key'[s].absolute <= index'[key'[s].owner].expires
             /\ s \in index'[key'[s].owner].sids
  <2>1. PICK p \in Procs : CreateSession(p) /\ s = job[p].sid
    BY <1>1, CreatedStep
  <2>2. s \in Sids /\ job[p].admin \in Admins
    BY <2>1 DEF CreateSession, At, JobsAgree, JobFits, SidStages, AdminStages
  <2>3. PICK a \in Admins : a = job[p].admin
    BY <2>2
  <2>4. key'[s] = [there |-> TRUE, owner |-> a, token |-> job[p].next,
                   absolute |-> now + AbsTTL, expires |-> now + IdleTTL]
    BY <2>1, <2>2, <2>3 DEF CreateSession, TypeOK
  <2>5. index'[a] = Indexed(Members(a) \cup {s})
    BY <2>1, <2>3 DEF CreateSession, TypeOK
  <2>6. born'[s] = now /\ now' = now
    BY <2>1, <2>2 DEF CreateSession, TypeOK
  <2> QED BY <2>4, <2>5, <2>6, LifetimesAssumption DEF Indexed, TypeOK
<1>2. ASSUME NEW s \in Created
      PROVE  /\ born'[s] <= now' /\ key'[s].absolute <= index'[key'[s].owner].expires
             /\ Over(s)' \/ s \in index'[key'[s].owner].sids
  <2>1. born[s] <= now /\ born[s] \in Nat
    BY DEF OverInv, IndexLasts, Created, TypeOK
  <2>2. born'[s] <= now'
    BY <2>1, HistoriesGrow DEF Persists
  <2> QED BY <2>2, KeyStep, IndexStep
<1>3. IndexLasts'
  BY <1>1, <1>2 DEF IndexLasts
<1>4. IndexHolds'
  BY <1>1, <1>2 DEF IndexHolds
<1>5. DestroysReach'
  BY DestroysStep
<1>6. ASSUME NEW s \in Sids, history'[s] = "ended"
      PROVE  s \in Created /\ Over(s)
  <2>1. CASE history[s] = "ended"
    BY <2>1 DEF OverInv, HistoryIsOver
  <2>2. ASSUME NEW p \in Procs, StampSession(p), s = job[p].sid
        PROVE  s \in Created /\ Over(s)
    BY <2>2 DEF StampSession, At, OverInv, DestroysReach, JobsAgree, JobAgrees, SidStages
  <2>3. ASSUME NEW p \in Procs, CloseHistory(p), key[s].owner = job[p].admin
        PROVE  s \in Created /\ Over(s)
    <3>1. job[p].stage = "close" /\ job[p].admin \in Admins
      BY <2>3 DEF CloseHistory, At, JobsAgree, JobFits, AdminStages
    <3>2. s \in Created
      BY <2>3, <3>1, NoneAssumption DEF Created
    <3> QED BY <2>3, <3>1, <3>2 DEF OverInv, DestroysReach, OwnedBy
  <2> QED BY <1>6, <2>1, <2>2, <2>3, HistoryStep
<1>7. HistoryIsOver'
  BY <1>6, OverStays, HistoriesGrow DEF HistoryIsOver, Persists
<1> QED BY <1>3, <1>4, <1>5, <1>7 DEF OverInv

LEMMA OverAlways == Spec => []OverInv
<1>1. Init => OverInv
  <2> SUFFICES ASSUME Init PROVE OverInv
    OBVIOUS
  <2>1. Created = {} /\ \A s \in Sids : history[s] # "ended"
    BY DEF Init, Created
  <2>2. \A p \in Procs : job[p].stage = "idle"
    BY DEF Init, IdleJob
  <2> QED BY <2>1, <2>2
       DEF OverInv, IndexLasts, IndexHolds, DestroysReach, HistoryIsOver
<1>2. IInv /\ IInv' /\ [Next]_vars /\ OverInv => OverInv'
  BY StepOver
<1> QED BY <1>1, <1>2, Inductive, PTL DEF Spec

\* "Sign out everywhere" reaches every session that can still be used: it is in
\* its owner's index (createSession, destroySession, listSessions), except one
\* that raced a refresh or began during a destroyAllSessions.
THEOREM LiveSessionsAreIndexed == Spec => []LiveIsIndexed
<1>1. ASSUME IInv, OverInv, NEW s \in Sids, Live(s)
      PROVE  s \in Members(key[s].owner) \/ s \in raced \/ s \in overtaken
  <2>1. s \in Created /\ key[s].owner \in Admins
    BY <1>1, PresentExists DEF Live, IInv
  <2>2. Over(s) \/ s \in Members(key[s].owner)
    BY <1>1, <2>1, MembersReach DEF OwnedBy
  <2> QED BY <1>1, <2>2 DEF Over, Usable, Live
<1>2. IInv /\ OverInv => LiveIsIndexed
  BY <1>1 DEF LiveIsIndexed
<1> QED BY <1>2, Inductive, OverAlways, PTL

\* A session whose row says that it ended cannot be used (markEnded,
\* endAllForAdmin), with the same two exceptions.
THEOREM EndedRowsAreOver == Spec => []EndedRowIsOver
<1>1. OverInv => EndedRowIsOver
  BY DEF OverInv, HistoryIsOver, EndedRowIsOver, Over, Usable, Live
<1> QED BY <1>1, OverAlways, PTL

=============================================================================
