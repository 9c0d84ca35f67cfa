------------------------------ MODULE DualControl ------------------------------
(***************************************************************************)
(* The approval queue of modules/dual-control: an action one administrator *)
(* asks for and a different one commits.                                   *)
(*                                                                         *)
(* A process is one HTTP request being handled, on any instance of the     *)
(* service.  Its handler is cut at its awaits: what it read before one is  *)
(* kept in its job and may be stale after it.  A refusal changes no state  *)
(* and is not an action.  Rows live in MongoDB and survive a crash, jobs   *)
(* do not.  What an approved action does is left open here: the handler    *)
(* may commit its write, find nothing to do, or fail before or after the   *)
(* write; Administrators fills it in.                                      *)
(***************************************************************************)
EXTENDS Naturals

CONSTANTS
    Admins,         \* administrators
    Intents,        \* request keys: action, target and canonical payload
    Procs,          \* HTTP requests being handled at the same time
    None,           \* "no administrator", "no intent"
    Levels,         \* the levels an administrator can hold
    ApproverTiers,  \* ApproverTiers[x]: the levels that hold x's approver permission
    MaxRequests,    \* bound on the rows ever created
    TTL,            \* ADMIN_APPROVAL_TTL_S, in ticks of the model's clock
    MaxClock        \* bound on the clock

ASSUME ConstantsAssumption ==
    /\ MaxRequests \in Nat /\ TTL \in Nat /\ MaxClock \in Nat
    /\ ApproverTiers \in [Intents -> SUBSET Levels]
    /\ None \notin Admins /\ None \notin Intents

VARIABLES
    rows,       \* rows[i]: document i of admin_approval_requests
    now,        \* the wall clock
    job,        \* job[p]: what process p is doing
    decided,    \* decided[i]: number of decision audit rows of request i
    performed,  \* performed[i]: number of writes committed by i's handler
    fate        \* fate[i]: how the handling of an approved i ended (history)

vars == <<rows, now, job, decided, performed, fate>>

Ids      == 1..MaxRequests
Verdicts == {"approved", "rejected", "withdrawn"}
Statuses == Verdicts \cup {"none", "pending", "expired"}
Fates    == {"open", "done", "moot", "failed", "lost"}

NoRow == [intent |-> None, by |-> None, status |-> "none", approver |-> None,
          expires |-> 0, failed |-> FALSE]
Idle  == [stage |-> "idle", who |-> None, id |-> 0, verdict |-> "none",
          intent |-> None, expires |-> 0]

Init ==
    /\ rows = [i \in Ids |-> NoRow]
    /\ now = 0
    /\ job = [p \in Procs |-> Idle]
    /\ decided = [i \in Ids |-> 0]
    /\ performed = [i \in Ids |-> 0]
    /\ fate = [i \in Ids |-> "open"]

Pending(i) == rows[i].status = "pending"
Overdue(i) == rows[i].expires <= now

-------------------------------------------------------------------------------
(* Asking: requestApproval inside auditedQueue. *)

NoneOpen(x) == \A i \in Ids : ~(Pending(i) /\ rows[i].intent = x)

\* findPendingByKey runs outside the transaction that follows it.  When it finds an
\* identical pending request the caller is given that one and the queue is unchanged
\* (the "queued" audit row every asking leaves is not kept in this module).
AskLookup(p, a, x) ==
    /\ job[p].stage = "idle"
    /\ NoneOpen(x)
    /\ job' = [job EXCEPT ![p] = [Idle EXCEPT !.stage = "create", !.who = a,
                                             !.intent = x, !.expires = now + TTL]]
    /\ UNCHANGED <<rows, now, decided, performed, fate>>

\* Bug: no unique index, the lookup alone is trusted.
IndexAbsent(x) == TRUE

\* The partial unique index on request_key admits one pending row for each intent.
IndexAdmits(x) == NoneOpen(x)

\* The row and its audit row commit together.
Create(p) ==
    /\ job[p].stage = "create"
    /\ IndexAdmits(job[p].intent)
    /\ \E i \in Ids :
         /\ rows[i].status = "none"
         /\ \A j \in Ids : j < i => rows[j].status # "none"
         /\ rows' = [rows EXCEPT ![i] =
                       [NoRow EXCEPT !.intent = job[p].intent, !.by = job[p].who,
                                     !.status = "pending", !.expires = job[p].expires]]
    /\ job' = [job EXCEPT ![p] = Idle]
    /\ UNCHANGED <<now, decided, performed, fate>>

\* The index refused it (409), or the bound on rows is reached.
CreateRefused(p) ==
    /\ job[p].stage = "create"
    /\ ~IndexAdmits(job[p].intent) \/ \A i \in Ids : rows[i].status # "none"
    /\ job' = [job EXCEPT ![p] = Idle]
    /\ UNCHANGED <<rows, now, decided, performed, fate>>

-------------------------------------------------------------------------------
(* Deciding: loadFresh, the gates, the claim. *)

\* assertDecidable: the status first, then the clock.
Decidable(i) == Pending(i) /\ ~Overdue(i)

\* Bug: a requester who holds the permission approves alone.
MayDecideOwn(a, t, i, v) ==
    CASE v \in {"approved", "rejected"} -> t \in ApproverTiers[rows[i].intent]
      [] v = "withdrawn" -> a = rows[i].by

\* The gates of each verdict, for an administrator whose identity says level t.
MayDecide(a, t, i, v) ==
    CASE v = "approved"  -> a # rows[i].by /\ t \in ApproverTiers[rows[i].intent]
      [] v = "rejected"  -> a = rows[i].by \/ t \in ApproverTiers[rows[i].intent]
      [] v = "withdrawn" -> a = rows[i].by

\* Everything approve, reject and withdraw check before they open a transaction.
Begin(p, a, t, i, v) ==
    /\ job[p].stage = "idle"
    /\ Decidable(i)
    /\ MayDecide(a, t, i, v)
    /\ job' = [job EXCEPT ![p] =
                 [Idle EXCEPT !.stage = "claim", !.who = a, !.id = i, !.verdict = v]]
    /\ UNCHANGED <<rows, now, decided, performed, fate>>

\* Bug: the row is updated by its id alone.
ClaimUnconditional(p) == TRUE

\* resolveIfPending and the decision's audit row, in one transaction.  The filter
\* names the status only: the deadline is not looked at again.
ClaimWins(p) == Pending(job[p].id)

Claim(p) ==
    /\ job[p].stage = "claim"
    /\ ClaimWins(p)
    /\ rows' = [rows EXCEPT ![job[p].id].status = job[p].verdict,
                            ![job[p].id].approver = job[p].who]
    /\ decided' = [decided EXCEPT ![job[p].id] = @ + 1]
    /\ job' = [job EXCEPT ![p] =
                 IF job[p].verdict = "approved" THEN [@ EXCEPT !.stage = "perform"]
                                                ELSE Idle]
    /\ UNCHANGED <<now, performed, fate>>

\* Another decision or the expiry got there first (409).
ClaimLost(p) ==
    /\ job[p].stage = "claim"
    /\ ~ClaimWins(p)
    /\ job' = [job EXCEPT ![p] = Idle]
    /\ UNCHANGED <<rows, now, decided, performed, fate>>

\* expireOneRow, reached from the sweep of every read path and from loadFresh.  The
\* sweep is throttled and bounded and swallows its failures, so it may also not happen.
Expire(i) ==
    /\ Pending(i) /\ Overdue(i)
    /\ rows' = [rows EXCEPT ![i].status = "expired"]
    /\ decided' = [decided EXCEPT ![i] = @ + 1]
    /\ UNCHANGED <<now, job, performed, fate>>

-------------------------------------------------------------------------------
(* Performing: the registered handler, after the claim and outside its transaction. *)

\* The handler's own transaction commits.
HandlerCommits(p) ==
    /\ job[p].stage = "perform"
    /\ performed' = [performed EXCEPT ![job[p].id] = @ + 1]
    /\ job' = [job EXCEPT ![p].stage = "after"]
    /\ UNCHANGED <<rows, now, decided, fate>>

\* The handler finds the requested state already there and returns.
HandlerMoot(p) ==
    /\ job[p].stage = "perform"
    /\ fate' = [fate EXCEPT ![job[p].id] = "moot"]
    /\ job' = [job EXCEPT ![p] = Idle]
    /\ UNCHANGED <<rows, now, decided, performed>>

\* The handler refuses (its own re-checks) or its transaction fails.
HandlerThrows(p) ==
    /\ job[p].stage = "perform"
    /\ job' = [job EXCEPT ![p].stage = "failed"]
    /\ UNCHANGED <<rows, now, decided, performed, fate>>

\* What the handler does after its commit (ending sessions) completes, or throws.
HandlerReturns(p) ==
    /\ job[p].stage = "after"
    /\ fate' = [fate EXCEPT ![job[p].id] = "done"]
    /\ job' = [job EXCEPT ![p] = Idle]
    /\ UNCHANGED <<rows, now, decided, performed>>

HandlerThrowsLate(p) ==
    /\ job[p].stage = "after"
    /\ job' = [job EXCEPT ![p].stage = "failed"]
    /\ UNCHANGED <<rows, now, decided, performed, fate>>

\* Bug: the failure is thrown to the approver and not recorded.
FailureUnrecorded(p) ==
    /\ job[p].stage = "failed"
    /\ job' = [job EXCEPT ![p] = Idle]
    /\ UNCHANGED <<rows, now, decided, performed, fate>>

\* Bug: the failure becomes a status the schema does not know.
FailureAsStatus(p) ==
    /\ job[p].stage = "failed"
    /\ rows' = [rows EXCEPT ![job[p].id].status = "failed"]
    /\ fate' = [fate EXCEPT ![job[p].id] = "failed"]
    /\ job' = [job EXCEPT ![p] = Idle]
    /\ UNCHANGED <<now, decided, performed>>

\* The row stays approved and explains itself.
RecordFailure(p) ==
    /\ job[p].stage = "failed"
    /\ rows' = [rows EXCEPT ![job[p].id].failed = TRUE]
    /\ fate' = [fate EXCEPT ![job[p].id] = "failed"]
    /\ job' = [job EXCEPT ![p] = Idle]
    /\ UNCHANGED <<now, decided, performed>>

-------------------------------------------------------------------------------
(* The environment. *)

\* The instance dies, or a store stays unreachable, with p's request half done.
Crash(p) ==
    /\ job[p].stage # "idle"
    /\ fate' = IF job[p].stage \in {"perform", "after", "failed"}
               THEN [fate EXCEPT ![job[p].id] = "lost"] ELSE fate
    /\ job' = [job EXCEPT ![p] = Idle]
    /\ UNCHANGED <<rows, now, decided, performed>>

Tick ==
    /\ now < MaxClock
    /\ now' = now + 1
    /\ UNCHANGED <<rows, job, decided, performed, fate>>

Asking(p) == Create(p) \/ CreateRefused(p)

Deciding(p) == Claim(p) \/ ClaimLost(p)

Performing(p) == \/ HandlerCommits(p) \/ HandlerMoot(p) \/ HandlerThrows(p)
                 \/ HandlerReturns(p) \/ HandlerThrowsLate(p) \/ RecordFailure(p)

Next ==
    \/ \E p \in Procs :
         \/ \E a \in Admins, x \in Intents : AskLookup(p, a, x)
         \/ \E a \in Admins, t \in Levels, i \in Ids, v \in Verdicts : Begin(p, a, t, i, v)
         \/ Asking(p) \/ Deciding(p) \/ Performing(p)
         \/ Crash(p)
    \/ \E i \in Ids : Expire(i)
    \/ Tick

Spec == Init /\ [][Next]_vars

\* The event loop of a live instance finishes what it started: every database call
\* returns or throws.  Nothing makes administrators ask, decide or read the queue.
FairSpec == Spec /\ \A p \in Procs : WF_vars(Asking(p) \/ Deciding(p) \/ Performing(p))

-------------------------------------------------------------------------------
(* Properties. *)

Rows == [intent : Intents \cup {None}, by : Admins \cup {None}, status : Statuses,
         approver : Admins \cup {None}, expires : Nat, failed : BOOLEAN]
Jobs == [stage : {"idle", "create", "claim", "perform", "after", "failed"},
         who : Admins \cup {None}, id : Ids \cup {0},
         verdict : Verdicts \cup {"none"}, intent : Intents \cup {None}, expires : Nat]

\* Type invariant of the approval queue's rows, jobs and audit counts.
TypeOK ==
    /\ rows \in [Ids -> Rows]
    /\ now \in Nat
    /\ job \in [Procs -> Jobs]
    /\ decided \in [Ids -> Nat]
    /\ performed \in [Ids -> Nat]
    /\ fate \in [Ids -> Fates]

\* Identical requests made at the same time leave one pending row: the lookup before
\* the transaction cannot guarantee it, the unique index does (approval-request.model).
OnePendingPerIntent ==
    \A i, j \in Ids : Pending(i) /\ Pending(j) /\ rows[i].intent = rows[j].intent => i = j

\* However many administrators approve a request at once, and whatever rejections,
\* withdrawals and expiries race with them, its handler commits at most one write, and
\* only for a request that stands approved (approve claims before it performs).
AtMostOnce ==
    \A i \in Ids : /\ performed[i] <= 1
                   /\ performed[i] > 0 => rows[i].status = "approved"

\* A request that stands approved was approved by somebody other than its requester,
\* and a withdrawn one was withdrawn by its requester.
TwoPeople ==
    \A i \in Ids : /\ rows[i].status = "approved" =>
                         rows[i].approver \in Admins /\ rows[i].approver # rows[i].by
                   /\ rows[i].status = "withdrawn" => rows[i].approver = rows[i].by

\* The audit trail holds exactly one decision for a request that is no longer pending
\* and none for one that is: a decision that loses the race leaves no row behind.
TrailAgrees ==
    \A i \in Ids :
        decided[i] = IF rows[i].status \in {"none", "pending"} THEN 0 ELSE 1

\* A decision, once made, is never overturned or reattributed: not by a slower decision
\* that read the row while it was pending, not by the expiry sweep, not by a failure.
DecisionIsFinal ==
    [][\A i \in Ids :
         rows[i].status \notin {"none", "pending"} =>
             /\ rows'[i].status = rows[i].status
             /\ rows'[i].approver = rows[i].approver]_vars

\* An approved request is carried out, or explains itself through failure_reason, unless
\* the instance handling it was lost.
ApprovedIsResolved ==
    \A i \in Ids : rows[i].status = "approved" ~> fate[i] # "open"

\* The queue implements the four-eyes promise.
Phase(i) ==
    CASE rows[i].status = "none" -> "none"
      [] rows[i].status = "pending" -> "open"
      [] rows[i].status = "approved" -> IF performed[i] = 0 THEN "granted" ELSE "done"
      [] OTHER -> "closed"

FE == INSTANCE FourEyes WITH
        phase   <- [i \in Ids |-> Phase(i)],
        intent  <- [i \in Ids |-> rows[i].intent],
        asker   <- [i \in Ids |-> rows[i].by],
        granter <- [i \in Ids |-> IF rows[i].status = "approved"
                                   THEN rows[i].approver ELSE None]

\* Every step of the queue is a step of FourEyes or changes nothing it can see.
ImplementsFourEyes == FE!Spec
===============================================================================
