----------------------------- MODULE Administrators -----------------------------
(***************************************************************************)
(* Administrator accounts (modules/administrators, admin-account of        *)
(* modules/admin-identity) composed with the approval queue.               *)
(*                                                                         *)
(* A process is one HTTP request.  It authenticates (the account is read,  *)
(* its level goes into the request's identity), loads its target, checks   *)
(* the escalation rules against what it loaded, and then either writes in  *)
(* a transaction of its own or queues the action for a second              *)
(* administrator; a decision on a queued action claims its row and runs    *)
(* the registered handler.  Each of these is a step, so identity, target   *)
(* and row may each have changed when they are used.                       *)
(*                                                                         *)
(* Not here: credentials and sessions, profile fields, the employee record *)
(* whose completeness activation also asks for (an activation may be       *)
(* refused at any time, which is no step).                                 *)
(***************************************************************************)
EXTENDS Escalation

CONSTANTS
    Admins, Procs, None, MaxRequests, TTL, MaxClock,   \* as in DualControl
    InitialTier,     \* level of the accounts that exist at the start
    InitialStatus,   \* "active", "pending", or "absent" for one not created yet
    Failures         \* TRUE: databases fail and instances die

VARIABLES
    rows, now, job, decided, performed, fate,   \* the approval queue
    tier,       \* tier[a]: the account's level
    status,     \* status[a]: "absent", "pending", "active" or "suspended"
    from,       \* from[a]: suspended_from_status, "null" when never written
    activated,  \* activated[a]: activated_at is set
    identity,   \* identity[p]: who is asking, and their level when authenticated
    direct,     \* direct[p]: the write p is about to make without a second approval
    seen        \* seen[p]: the target's level as p's approval handler loaded it

accounts == <<tier, status, from, activated>>
queue    == <<rows, now, job, decided, performed, fate>>
local    == <<identity, direct, seen>>
vars     == <<queue, accounts, local>>

-------------------------------------------------------------------------------
(* What can be queued: the action, its target, the level or nothing. *)

TierIntents    == [act : {"set_tier"}, target : Admins, level : Tiers]
StandIntents   == [act : {"suspend", "reinstate"}, target : Admins, level : {0}]
AdminIntents   == TierIntents \cup StandIntents

\* The levels that hold administrators.tier.set, and administrators.suspend.
HoldersOf(act) == IF act = "set_tier" THEN {1} ELSE {1, 2}

AdminApproverTiers == [x \in AdminIntents |-> HoldersOf(x.act)]

ASSUME AccountsAssumption ==
    /\ MaxRequests \in Nat /\ TTL \in Nat /\ MaxClock \in Nat
    /\ None \notin Admins \cup AdminIntents
    /\ InitialTier \in [Admins -> Tiers]
    /\ InitialStatus \in [Admins -> {"absent", "pending", "active"}]
    /\ Failures \in BOOLEAN

DC == INSTANCE DualControl WITH
        Intents <- AdminIntents, Levels <- Tiers, ApproverTiers <- AdminApproverTiers

Anonymous == [who |-> None, level |-> 0]
NoWrite   == [op |-> "none", target |-> None, level |-> 0, seen |-> 0]

Init ==
    /\ DC!Init
    /\ tier = InitialTier
    /\ status = InitialStatus
    /\ from = [a \in Admins |-> "null"]
    /\ activated = [a \in Admins |-> FALSE]
    /\ identity = [p \in Procs |-> Anonymous]
    /\ direct = [p \in Procs |-> NoWrite]
    /\ seen = [p \in Procs |-> 0]

\* Authenticated, and neither writing nor inside the queue yet.
Free(p) == /\ identity[p].who # None
           /\ job[p].stage = "idle"
           /\ direct[p] = NoWrite

Exists(a) == status[a] # "absent"

\* p's request is answered: nothing of it remains.
Answered(p) == /\ identity' = [identity EXCEPT ![p] = Anonymous]
               /\ direct' = [direct EXCEPT ![p] = NoWrite]
               /\ seen' = [seen EXCEPT ![p] = 0]

-------------------------------------------------------------------------------
(* The transactions on an account. *)

\* setSuspension with a reason: the status found in the transaction is kept in from,
\* whatever it is.
Suspend(a) == /\ status' = [status EXCEPT ![a] = "suspended"]
              /\ from' = [from EXCEPT ![a] = status[a]]
              /\ UNCHANGED <<tier, activated>>

\* Bug: the kept status is restored as it is.
RestoredAsKept(f) == f

\* setSuspension with null: from is read and not cleared.
Restored(f) == IF f \in {"null", "suspended"} THEN "active" ELSE f

Reinstate(a) == /\ status' = [status EXCEPT ![a] = Restored(from[a])]
                /\ UNCHANGED <<tier, from, activated>>

\* Bug: the level is set whatever it is by now.
TierUnchecked(a, expected) == TRUE

\* setTier, a compare-and-set on the level.
TierIs(a, expected) == tier[a] = expected

SetTier(a, level, expected) == /\ TierIs(a, expected)
                               /\ tier' = [tier EXCEPT ![a] = level]
                               /\ UNCHANGED <<status, from, activated>>

\* Bug: activation trusts the status that was loaded.
PendingWhenLoaded(a) == TRUE

\* activate, a compare-and-set on the status.
StillPending(a) == status[a] = "pending"

Activate(a) == /\ StillPending(a)
               /\ status' = [status EXCEPT ![a] = "active"]
               /\ activated' = [activated EXCEPT ![a] = TRUE]
               /\ UNCHANGED <<tier, from>>

-------------------------------------------------------------------------------
(* Requests. *)

\* requireAdmin: the account is read on every request and must be active.
Authenticate(p, a) ==
    /\ identity[p] = Anonymous
    /\ status[a] = "active"
    /\ identity' = [identity EXCEPT ![p] = [who |-> a, level |-> tier[a]]]
    /\ UNCHANGED <<queue, accounts, direct, seen>>

\* A read, or a request refused by a permission, a rule or a validator.
Refused(p) ==
    /\ Free(p)
    /\ Answered(p)
    /\ UNCHANGED <<queue, accounts>>

\* createAdministrator: checked and inserted as pending, at a level that may be assigned
\* without a second approval.
CreateAdministrator(p, a, level) ==
    /\ Free(p)
    /\ identity[p].level \in {1, 2}
    /\ MayCreate(identity[p].level, level)
    /\ ~Exists(a)
    /\ tier' = [tier EXCEPT ![a] = level]
    /\ status' = [status EXCEPT ![a] = "pending"]
    /\ Answered(p)
    /\ UNCHANGED <<queue, from, activated>>

\* suspendAdministrator, reinstateAdministrator, setAdministratorTier up to the write:
\* the route's permission, loadTarget and the escalation check on the level it loaded.
Cleared(p, x) ==
    /\ Free(p)
    /\ identity[p].level \in HoldersOf(x.act)
    /\ Exists(x.target)
    /\ MayActOn(identity[p].who, identity[p].level, x.target, tier[x.target], x.act, x.level)
    /\ x.act = "set_tier" => x.level # tier[x.target]

Second(p, x) == NeedsSecond(identity[p].who, identity[p].level, x.target,
                            tier[x.target], x.act, x.level)

Load(p, x) ==
    /\ Cleared(p, x)
    /\ ~Second(p, x)
    /\ direct' = [direct EXCEPT ![p] = [op |-> x.act, target |-> x.target,
                                        level |-> x.level, seen |-> tier[x.target]]]
    /\ UNCHANGED <<queue, accounts, identity, seen>>

Queue(p, x) ==
    /\ Cleared(p, x)
    /\ Second(p, x)
    /\ DC!AskLookup(p, identity[p].who, x)
    /\ UNCHANGED <<accounts, local>>

\* activateAdministrator up to its transaction.
LoadActivation(p, a) ==
    /\ Free(p)
    /\ identity[p].level = Developer
    /\ a # identity[p].who
    /\ status[a] = "pending"
    /\ direct' = [direct EXCEPT ![p] = [op |-> "activate", target |-> a, level |-> 0,
                                        seen |-> tier[a]]]
    /\ UNCHANGED <<queue, accounts, identity, seen>>

\* The transaction of a direct write commits.
Writes(w) ==
    \/ w.op = "suspend"   /\ Suspend(w.target)
    \/ w.op = "reinstate" /\ Reinstate(w.target)
    \/ w.op = "set_tier"  /\ SetTier(w.target, w.level, w.seen)
    \/ w.op = "activate"  /\ Activate(w.target)

Write(p) ==
    /\ Writes(direct[p])
    /\ Answered(p)
    /\ UNCHANGED queue

\* A compare-and-set missed (409), or the transaction failed.
WriteFails(p) ==
    /\ direct[p] # NoWrite
    /\ \/ direct[p].op = "set_tier" /\ ~TierIs(direct[p].target, direct[p].seen)
       \/ direct[p].op = "activate" /\ ~StillPending(direct[p].target)
       \/ Failures
    /\ Answered(p)
    /\ UNCHANGED <<queue, accounts>>

-------------------------------------------------------------------------------
(* The approval queue's steps, with the identity of the request that takes them. *)

\* The request ends when its job does.
EndsWithJob(p) == IF job'[p].stage = "idle" THEN Answered(p) ELSE UNCHANGED local

CreateRequest(p) ==
    /\ DC!Create(p) \/ DC!CreateRefused(p)
    /\ EndsWithJob(p)
    /\ UNCHANGED accounts

BeginDecision(p, i, v) ==
    /\ Free(p)
    /\ DC!Begin(p, identity[p].who, identity[p].level, i, v)
    /\ UNCHANGED <<accounts, local>>

Decide(p) ==
    /\ DC!Claim(p) \/ DC!ClaimLost(p)
    /\ EndsWithJob(p)
    /\ UNCHANGED accounts

\* The handlers registered for administrators.tier.set and administrators.suspend.
Approved(p) == rows[job[p].id].intent

\* Bug: the verdict at request time is trusted.
HandlerTrusts(p, x) == Exists(x.target)

\* The handler checks the escalation rules again, for the approver and the level it
\* loads now.  That the verdict asks for a second administrator is not looked at.
HandlerAllows(p, x) ==
    /\ Exists(x.target)
    /\ MayActOn(identity[p].who, identity[p].level, x.target, tier[x.target], x.act, x.level)

HandlerLoads(p) ==
    /\ job[p].stage = "perform" /\ seen[p] = 0
    /\ HandlerAllows(p, Approved(p))
    /\ Approved(p).act = "set_tier" => Approved(p).level # tier[Approved(p).target]
    /\ seen' = [seen EXCEPT ![p] = tier[Approved(p).target]]
    /\ UNCHANGED <<queue, accounts, identity, direct>>

HandlerRefuses(p) ==
    /\ job[p].stage = "perform" /\ seen[p] = 0
    /\ ~HandlerAllows(p, Approved(p))
    /\ DC!HandlerThrows(p)
    /\ UNCHANGED <<accounts, local>>

HandlerNoop(p) ==
    /\ job[p].stage = "perform" /\ seen[p] = 0
    /\ HandlerAllows(p, Approved(p))
    /\ Approved(p).act = "set_tier" /\ Approved(p).level = tier[Approved(p).target]
    /\ DC!HandlerMoot(p)
    /\ Answered(p)
    /\ UNCHANGED accounts

Performs(x, expected) ==
    \/ x.act = "suspend"   /\ Suspend(x.target)
    \/ x.act = "reinstate" /\ Reinstate(x.target)
    \/ x.act = "set_tier"  /\ SetTier(x.target, x.level, expected)

HandlerWrites(p) ==
    /\ seen[p] # 0
    /\ Performs(Approved(p), seen[p])
    /\ DC!HandlerCommits(p)
    /\ UNCHANGED local

\* Bug: the failure leaves approve without reaching the row.
HandlerFailsSilently(p) ==
    /\ job[p].stage = "perform"
    /\ Failures
    /\ job' = [job EXCEPT ![p] = DC!Idle]
    /\ Answered(p)
    /\ UNCHANGED <<rows, now, decided, performed, fate, accounts>>

HandlerFails(p) ==
    /\ job[p].stage = "perform"
    /\ \/ Failures
       \/ /\ seen[p] # 0 /\ Approved(p).act = "set_tier"
          /\ ~TierIs(Approved(p).target, seen[p])
    /\ DC!HandlerThrows(p)
    /\ UNCHANGED <<accounts, local>>

\* After the commit of a suspension or a change of level the target's sessions are ended,
\* in a store that may fail; a reinstatement has nothing left to do.
HandlerEnds(p) ==
    /\ \/ DC!HandlerReturns(p)
       \/ Failures /\ DC!HandlerThrowsLate(p) /\ Approved(p).act # "reinstate"
       \/ DC!RecordFailure(p)
    /\ EndsWithJob(p)
    /\ UNCHANGED accounts

\* The instance dies with p's request in any stage.
Die(p) ==
    /\ Failures
    /\ identity[p] # Anonymous
    /\ IF job[p].stage = "idle" THEN UNCHANGED queue ELSE DC!Crash(p)
    /\ Answered(p)
    /\ UNCHANGED accounts

Environment ==
    /\ (\E i \in DC!Ids : DC!Expire(i)) \/ DC!Tick
    /\ UNCHANGED <<accounts, local>>

Step(p) ==
    \/ \E a \in Admins :
         \/ Authenticate(p, a)
         \/ LoadActivation(p, a)
         \/ \E level \in Tiers : CreateAdministrator(p, a, level)
    \/ \E x \in AdminIntents : Load(p, x) \/ Queue(p, x)
    \/ \E i \in DC!Ids, v \in DC!Verdicts : BeginDecision(p, i, v)
    \/ Refused(p) \/ Write(p) \/ WriteFails(p) \/ CreateRequest(p) \/ Decide(p)
    \/ HandlerLoads(p) \/ HandlerRefuses(p) \/ HandlerNoop(p)
    \/ HandlerWrites(p) \/ HandlerFails(p) \/ HandlerEnds(p)
    \/ Die(p)

Next == (\E p \in Procs : Step(p)) \/ Environment

Spec == Init /\ [][Next]_vars

-------------------------------------------------------------------------------
(* Properties. *)

\* Type invariant of the accounts and of what a request carries.
TypeOK ==
    /\ DC!TypeOK
    /\ tier \in [Admins -> Tiers]
    /\ status \in [Admins -> {"absent", "pending", "active", "suspended"}]
    /\ from \in [Admins -> {"null", "pending", "active", "suspended"}]
    /\ activated \in [Admins -> BOOLEAN]
    /\ identity \in [Procs -> [who : Admins \cup {None}, level : Tiers \cup {0}]]
    /\ direct \in [Procs -> [op : {"none", "suspend", "reinstate", "set_tier", "activate"},
                            target : Admins \cup {None},
                            level : Tiers \cup {0}, seen : Tiers \cup {0}]]
    /\ seen \in [Procs -> Tiers \cup {0}]

\* p is about to make the approved write x on account a.
Performing(p, a, act) == /\ job[p].stage = "perform"
                         /\ Approved(p).target = a /\ Approved(p).act = act

\* p is about to make the write on account a on its own authority.
Directly(p, a, op) == direct[p].op = op /\ direct[p].target = a

ByTwo(p, a) == /\ rows[job[p].id].by # rows[job[p].id].approver
               /\ a \notin {rows[job[p].id].by, rows[job[p].id].approver}

\* A level changes either by the decision of somebody who ranks above both the level
\* the account has when the change commits and the one it gets, or by two others: no
\* promotion that slips in between a load and its write is overwritten, and nobody
\* joins or leaves the Developers on one person's word (setTier's expectedTier).
LevelsChangeByRankOrByTwo ==
    [][\A a \in Admins :
         Exists(a) /\ tier'[a] # tier[a] =>
           \E p \in Procs :
             \/ /\ Directly(p, a, "set_tier")
                /\ identity[p].level < tier[a] /\ identity[p].level < tier'[a]
             \/ Performing(p, a, "set_tier") /\ ByTwo(p, a)]_vars

\* Only a reinstatement lifts a suspension: an activation that was checked while the
\* account was pending does not let a since suspended account in.
OnlyReinstatementLifts ==
    [][\A a \in Admins :
         status[a] = "suspended" /\ status'[a] # "suspended" =>
           \E p \in Procs : Directly(p, a, "reinstate") \/ Performing(p, a, "reinstate")]_vars

\* Nobody requests or approves their own suspension or change of level, and what was
\* carried out was carried out by a third person (rule 1, checked at both ends).
NobodyIsPartyToTheirOwnCase ==
    \A i \in DC!Ids :
        performed[i] > 0 /\ rows[i].intent.act # "reinstate" =>
            rows[i].intent.target \notin {rows[i].by, rows[i].approver}

\* When requests are handled one after another, an approved action is carried out only
\* by an approver who, at that moment, is active and outranks the target or is a
\* Developer like it: a demotion carried out while the request waited counts.
ApproverStillRanks ==
    [][\A i \in DC!Ids :
         performed'[i] > performed[i] =>
           LET a == rows[i].approver  b == rows[i].intent.target IN
             /\ status[a] = "active"
             /\ a = b \/ tier[a] < tier[b] \/ PeerDevelopers(tier[a], tier[b])]_vars

\* The composition is a refinement: what the accounts add to the queue's handlers never
\* makes the queue take a step it would not take on its own.
ImplementsQueue == DC!Spec

-------------------------------------------------------------------------------
(* What the documentation says and the code does not do. *)

\* "Approved AND performed": a request nobody is working on that stands approved has
\* been performed (or found already done).
NoApprovedLimbo ==
    \A i \in DC!Ids :
        rows[i].status = "approved" /\ (\A p \in Procs : job[p].id # i) =>
            performed[i] = 1 \/ fate[i] = "moot"

\* An account that was not active at the start is active only after an activation:
\* suspending and reinstating it restores the status it had.
ActiveWasActivated ==
    \A a \in Admins : status[a] = "active" => InitialStatus[a] = "active" \/ activated[a]

\* A Developer is suspended by two others, never by one alone.
DeveloperSuspendedByTwo ==
    [][\A a \in Admins :
         tier[a] = Developer /\ status[a] # "suspended" /\ status'[a] = "suspended" =>
           \E p \in Procs : Performing(p, a, "suspend") /\ ByTwo(p, a)]_vars
===============================================================================
