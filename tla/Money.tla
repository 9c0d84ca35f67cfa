--------------------------------- MODULE Money ---------------------------------
(***************************************************************************)
(* Money that administrators move through jovi-mall: a payout request, a   *)
(* refund request or a refund debt (modules/money, modules/refunds),       *)
(* written over HTTP (infra/platform), recorded by an intent and its       *)
(* outcome (auditedAttempt of modules/audit), and queued for a second      *)
(* administrator when the amount is large.                                 *)
(*                                                                         *)
(* One item of one of the three kinds, and the HTTP requests about it.  A  *)
(* call that left this service is the platform's: it may arrive late,      *)
(* after the caller gave up or died, or never.  The platform is external;  *)
(* it applies each act as one compare-and-set on the item.                 *)
(***************************************************************************)
EXTENDS Naturals

CONSTANTS
    Admins, Procs, None, MaxRequests, TTL, MaxClock,   \* as in DualControl
    TierOf,      \* TierOf[a]: a's level
    Amounts,     \* amounts of money
    Threshold,   \* the four-eyes line, 2,000,000 in the code
    MaxCalls,    \* bound on the calls ever made to jovi-mall
    MaxFaults    \* bound on the failures of stores and network and the deaths

VARIABLES
    rows, now, job, decided, performed, fate,   \* the approval queue
    item,    \* the payout, refund or debt, in jovi-mall's database
    work,    \* work[p]: the write p is about to make, or waits for
    calls,   \* calls[k]: the k-th call to jovi-mall and its audit row
    faults   \* the failures still to come

queue == <<rows, now, job, decided, performed, fate>>
vars  == <<queue, item, work, calls, faults>>

-------------------------------------------------------------------------------
(* The acts, and what each may act on. *)

PayoutActs == {"pay", "send", "resolve_paid", "resolve_failed", "reject"}
RefundActs == {"approve", "refuse", "retry", "settle", "resolve"}
Acts       == PayoutActs \cup RefundActs \cup {"write_off"}

\* The acts that take two from the threshold up: LARGE_PAYOUT (in each of its modes),
\* LARGE_REFUND and LARGE_WRITE_OFF.
DualActs == {"pay", "send", "resolve_paid", "approve", "write_off"}

Kinds == {"payout", "refund", "debt"}
KindOf(act) == CASE act \in PayoutActs -> "payout"
                 [] act \in RefundActs -> "refund"
                 [] OTHER -> "debt"

\* SENDABLE_FROM, assertPending and assertProcessing for payouts (a rejection is not
\* checked before the platform does), ACTIONABLE_FROM for refunds.
From == [pay |-> {"pending"}, send |-> {"pending", "failed"},
         resolve_paid |-> {"processing"}, resolve_failed |-> {"processing"},
         reject |-> {"pending", "processing", "failed", "paid", "rejected"},
         approve |-> {"awaiting"}, refuse |-> {"awaiting", "failed"},
         retry |-> {"approved", "failed"},
         settle |-> {"awaiting", "approved", "cash", "failed"},
         resolve |-> {"sending"}, write_off |-> {"owed"}]

Standings == {"pending", "processing", "paid", "failed", "rejected", "awaiting",
              "approved", "cash", "sending", "completed", "owed"}

\* What can be asked for: an act and an amount, both hashed into the request key.
Asks       == [act : Acts, amount : Amounts]
DualIntents == [act : DualActs, amount : Amounts]

\* Levels 1 and 2 hold the permission of each act that can be queued; level 3 holds
\* money.payouts.triage, which may reject a payout and say that a transfer failed.
Tiers == 1..3
MoneyApproverTiers == [x \in DualIntents |-> {1, 2}]
MayAct(t, act) == t \in {1, 2} \/ act \in {"resolve_failed", "reject"}

ASSUME MoneyAssumption ==
    /\ MaxRequests \in Nat /\ TTL \in Nat /\ MaxClock \in Nat /\ MaxCalls \in Nat
    /\ Amounts \subseteq Nat /\ Threshold \in Nat
    /\ None \notin Admins /\ None \notin DualIntents
    /\ TierOf \in [Admins -> Tiers]
    /\ MaxFaults \in Nat

DC == INSTANCE DualControl WITH
        Intents <- DualIntents, Levels <- Tiers, ApproverTiers <- MoneyApproverTiers

CallIds == 1..MaxCalls
Free    == [stage |-> "none", who |-> None, act |-> "none", amount |-> 0,
            via |-> 0, call |-> 0]
NoCall  == [by |-> None, act |-> "none", amount |-> 0, via |-> 0,
            wire |-> "unsent", row |-> "none", code |-> "none"]

NewItems == [kind : {"payout"}, standing : {"pending"}, amount : Amounts, typist : {None}]
       \cup [kind : {"refund"}, standing : {"awaiting"}, amount : Amounts,
             typist : Admins \cup {None}]
       \cup [kind : {"debt"}, standing : {"owed"}, amount : Amounts, typist : {None}]

Init ==
    /\ DC!Init
    /\ item \in NewItems
    /\ work = [p \in Procs |-> Free]
    /\ calls = [k \in CallIds |-> NoCall]
    /\ faults \in 0..MaxFaults

-------------------------------------------------------------------------------
(* Before a write: the checks on the row as it was read. *)

\* Bug: the amount is compared as if the line itself were small.
LargeAbove(x) == x.act \in DualActs /\ x.amount > Threshold

\* dualControlRequired with the catalogue's LARGE_ specs.
NeedsSecond(x) == x.act \in DualActs /\ x.amount >= Threshold

\* A payout's and a refund's amount is read off its row, and is what was signed for.
PayoutPossible(x) == item.standing \in From[x.act] /\ x.amount = item.amount

\* Rule R-7: whoever typed a refund's destination does not approve it.
NotTypist(a, x) == x.act = "approve" => a # item.typist

RefundPossible(a, x) ==
    item.standing \in From[x.act] /\ x.amount = item.amount /\ NotTypist(a, x)

\* A write-off names its amount, which the debt must cover.
DebtCovers(x) == 0 < x.amount /\ x.amount <= item.amount

Possible(a, x) ==
    /\ KindOf(x.act) = item.kind
    /\ CASE item.kind = "payout" -> PayoutPossible(x)
         [] item.kind = "refund" -> RefundPossible(a, x)
         [] item.kind = "debt"   -> DebtCovers(x)

Fault == faults > 0 /\ faults' = faults - 1

Idle(p) == job[p].stage = "idle" /\ work[p] = Free

\* A small or unqueued act: markPaid, resolveUnknown, rejectPayout, writeOff and the verbs
\* of refund-actions, up to the gateway.
Take(p, a, x) ==
    /\ Idle(p)
    /\ MayAct(TierOf[a], x.act)
    /\ Possible(a, x)
    /\ ~NeedsSecond(x)
    /\ work' = [work EXCEPT ![p] = [Free EXCEPT !.stage = "intent", !.who = a,
                                       !.act = x.act, !.amount = x.amount]]
    /\ UNCHANGED <<queue, item, calls, faults>>

\* A large one: the same checks, then auditedQueue.
Ask(p, a, x) ==
    /\ Idle(p)
    /\ MayAct(TierOf[a], x.act)
    /\ Possible(a, x)
    /\ NeedsSecond(x)
    /\ DC!AskLookup(p, a, x)
    /\ UNCHANGED <<item, work, calls, faults>>

CreateRequest(p) ==
    /\ DC!Create(p) \/ DC!CreateRefused(p)
    /\ UNCHANGED <<item, work, calls, faults>>

BeginDecision(p, a, i, v) ==
    /\ Idle(p)
    /\ DC!Begin(p, a, TierOf[a], i, v)
    /\ UNCHANGED <<item, work, calls, faults>>

Decide(p) ==
    /\ DC!Claim(p) \/ DC!ClaimLost(p)
    /\ UNCHANGED <<item, work, calls, faults>>

-------------------------------------------------------------------------------
(* The registered handlers: every check again, for the approver. *)

Approved(p) == rows[job[p].id].intent

\* Bug: a payout that may be sent is sent, whichever mode was signed for.
ModeOfTheMoment(x) ==
    IF x.act = "pay" /\ item.standing \in From["send"] THEN "send" ELSE x.act

\* The mode is read off the approval.
ModeSignedFor(x) == x.act

HandlerLoads(p) ==
    /\ job[p].stage = "perform" /\ work[p] = Free
    /\ Possible(job[p].who, Approved(p))
    /\ work' = [work EXCEPT ![p] =
                  [Free EXCEPT !.stage = "intent", !.who = job[p].who,
                               !.act = ModeSignedFor(Approved(p)),
                               !.amount = Approved(p).amount, !.via = job[p].id]]
    /\ UNCHANGED <<queue, item, calls, faults>>

HandlerRefuses(p) ==
    /\ job[p].stage = "perform" /\ work[p] = Free
    /\ ~Possible(job[p].who, Approved(p))
    /\ DC!HandlerThrows(p)
    /\ UNCHANGED <<item, work, calls, faults>>

-------------------------------------------------------------------------------
(* auditedAttempt around platformRequest. *)

\* Bug: a handler that throws leaves its request as it found it.
ThrownSilently(p) ==
    IF work[p].via = 0 THEN UNCHANGED queue
    ELSE /\ job' = [job EXCEPT ![p] = DC!Idle]
         /\ UNCHANGED <<rows, now, decided, performed, fate>>

\* p's write is over, its handler (if it is one) having returned or thrown.
Thrown(p) == IF work[p].via = 0 THEN UNCHANGED queue ELSE DC!HandlerThrows(p)
Returned(p) == IF work[p].via = 0 THEN UNCHANGED queue ELSE DC!HandlerCommits(p)
Done(p) == work' = [work EXCEPT ![p] = Free]

Unused(k) == calls[k] = NoCall /\ \A j \in CallIds : j < k => calls[j] # NoCall

\* The call that p is about to make, with its audit row in the given state.
CallOf(p, state) == [NoCall EXCEPT !.by = work[p].who, !.act = work[p].act,
                     !.amount = work[p].amount, !.via = work[p].via,
                     !.wire = "travelling", !.row = state]

Send(p, state) ==
    \E k \in CallIds :
        /\ Unused(k)
        /\ calls' = [calls EXCEPT ![k] = CallOf(p, state)]
        /\ work' = [work EXCEPT ![p].stage = "wait", ![p].call = k]
        /\ UNCHANGED <<queue, item>>

\* The intent row is committed, then the one HTTP request is made: writes are not retried.
Attempt(p) == /\ work[p].stage = "intent"
              /\ Send(p, "attempted")
              /\ UNCHANGED faults

\* Bug: a call whose intent could not be recorded is made all the same.
AttemptFailsOpen(p) ==
    /\ work[p].stage = "intent"
    /\ Fault
    /\ Send(p, "none")

\* The audit store is down, or jovi-mall is not configured: the call is not made.
AttemptFails(p) ==
    /\ work[p].stage = "intent"
    /\ \/ Fault
       \/ (\A k \in CallIds : ~Unused(k)) /\ UNCHANGED faults
    /\ Thrown(p) /\ Done(p)
    /\ UNCHANGED <<item, calls>>

\* stampOutcome: a compare-and-set on attempted, whose own failure is swallowed.
Stamp(p, outcome, code) ==
    \/ /\ calls' = IF calls[work[p].call].row = "attempted"
                   THEN [calls EXCEPT ![work[p].call].row = outcome, ![work[p].call].code = code]
                   ELSE calls
       /\ UNCHANGED faults
    \/ Fault /\ UNCHANGED calls

Answered(p) ==
    /\ work[p].stage = "wait"
    /\ calls[work[p].call].wire = "done"
    /\ Stamp(p, "succeeded", "none")
    /\ Returned(p) /\ Done(p)
    /\ UNCHANGED item

Refused(p) ==
    /\ work[p].stage = "wait"
    /\ calls[work[p].call].wire = "refused"
    /\ Stamp(p, "failed", "rejected")
    /\ Thrown(p) /\ Done(p)
    /\ UNCHANGED item

\* Bug: a call that was not answered is reported as refused.
SilenceIsRefusal == "rejected"

\* The outcome code of the 503 that platformRequest throws when no answer came.
SilenceCode == "unavailable"

\* The connection broke or JOVI_MALL_TIMEOUT_MS elapsed, wherever the call is by then.
TimedOut(p) ==
    /\ work[p].stage = "wait"
    /\ Stamp(p, "failed", SilenceCode)
    /\ Thrown(p) /\ Done(p)
    /\ UNCHANGED item

HandlerEnds(p) ==
    /\ work[p] = Free
    /\ DC!HandlerReturns(p) \/ DC!RecordFailure(p)
    /\ UNCHANGED <<item, work, calls, faults>>

\* The instance dies; what it sent stays on its way.
Die(p) ==
    /\ ~Idle(p)
    /\ Fault
    /\ IF job[p].stage = "idle" THEN UNCHANGED queue ELSE DC!Crash(p)
    /\ Done(p)
    /\ UNCHANGED <<item, calls>>

-------------------------------------------------------------------------------
(* jovi-mall and the payment gateway: external. *)

Becomes == [pay |-> {"paid"}, send |-> {"processing", "paid", "failed"},
            resolve_paid |-> {"paid"}, resolve_failed |-> {"failed"},
            reject |-> {"rejected"}, approve |-> {"approved", "cash", "sending"},
            refuse |-> {"rejected"}, retry |-> {"sending"}, settle |-> {"completed"},
            resolve |-> {"completed", "failed"}, write_off |-> {"owed"}]

\* A rejection is refused where money is on its way or gone.
Accepts(c) == /\ item.standing \in From[c.act]
              /\ c.act = "reject" => item.standing \in {"pending", "failed"}
              /\ c.act = "write_off" => c.amount <= item.amount

Commit(k) ==
    /\ calls[k].wire = "travelling"
    /\ Accepts(calls[k])
    /\ \E s \in Becomes[calls[k].act] :
         item' = [item EXCEPT !.standing = s,
                    !.amount = IF calls[k].act = "write_off" THEN @ - calls[k].amount ELSE @]
    /\ calls' = [calls EXCEPT ![k].wire = "done"]
    /\ UNCHANGED <<queue, work, faults>>

Refuse(k) ==
    /\ calls[k].wire = "travelling"
    /\ ~Accepts(calls[k])
    /\ calls' = [calls EXCEPT ![k].wire = "refused"]
    /\ UNCHANGED <<queue, item, work, faults>>

Drop(k) ==
    /\ calls[k].wire = "travelling"
    /\ Fault
    /\ calls' = [calls EXCEPT ![k].wire = "dropped"]
    /\ UNCHANGED <<queue, item, work>>

\* A transfer is confirmed or refused, a refund is sent, an earning repays a debt.
Settle ==
    /\ \/ /\ item.standing \in {"processing", "sending"}
          /\ \E s \in {IF item.kind = "payout" THEN "paid" ELSE "completed", "failed"} :
               item' = [item EXCEPT !.standing = s]
       \/ item.standing = "approved" /\ item' = [item EXCEPT !.standing = "sending"]
       \/ item.standing = "cash" /\ item' = [item EXCEPT !.standing = "completed"]
       \/ item.standing = "owed" /\ item.amount > 0 /\ item' = [item EXCEPT !.amount = @ - 1]
    /\ UNCHANGED <<queue, work, calls, faults>>

-------------------------------------------------------------------------------

Opening(p) ==
    \/ \E a \in Admins, x \in Asks : Take(p, a, x)
    \/ \E a \in Admins, x \in DualIntents : Ask(p, a, x)
    \/ \E a \in Admins, i \in DC!Ids, v \in DC!Verdicts : BeginDecision(p, a, i, v)

Progress(p) ==
    \/ CreateRequest(p) \/ Decide(p)
    \/ HandlerLoads(p) \/ HandlerRefuses(p) \/ HandlerEnds(p)
    \/ Attempt(p) \/ AttemptFails(p) \/ Answered(p) \/ Refused(p)

Handling(p) == Progress(p) \/ TimedOut(p)

Step(p) == Opening(p) \/ Handling(p) \/ Die(p)

Platform == (\E k \in CallIds : Commit(k) \/ Refuse(k) \/ Drop(k)) \/ Settle

Clock == /\ (\E i \in DC!Ids : DC!Expire(i)) \/ DC!Tick
         /\ UNCHANGED <<item, work, calls, faults>>

Next == (\E p \in Procs : Step(p)) \/ Platform \/ Clock

Spec == Init /\ [][Next]_vars

\* The event loop finishes what it started, and axios gives up on a call in the end.
\* Nobody has to ask or decide, and jovi-mall has to do nothing.
FairSpec == Spec /\ \A p \in Procs : WF_vars(Handling(p))

-------------------------------------------------------------------------------
(* Properties. *)

Calls == [by : Admins \cup {None}, act : Acts \cup {"none"}, amount : Nat, via : DC!Ids \cup {0},
          wire : {"unsent", "travelling", "done", "refused", "dropped"},
          row : {"none", "attempted", "succeeded", "failed"},
          code : {"none", "rejected", "unavailable"}]

Works == [stage : {"none", "intent", "wait"}, who : Admins \cup {None},
          act : Acts \cup {"none"}, amount : Nat, via : DC!Ids \cup {0}, call : CallIds \cup {0}]

\* Type invariant of the item, the writes being made and the calls.
TypeOK ==
    /\ DC!TypeOK
    /\ item \in [kind : Kinds, standing : Standings, amount : Nat, typist : Admins \cup {None}]
    /\ work \in [Procs -> Works]
    /\ calls \in [CallIds -> Calls]
    /\ faults \in Nat

Reached(k) == calls[k].wire # "unsent"

\* A call that asserts that a large amount left the platform is made under the standing
\* approval of somebody who did not ask for it, by that person, and does what the two
\* agreed to: an approval to record a payment is not spent on a transfer (the mode in
\* markPaidPayload), nor one amount on another.
LargeMoneyTakesTwo ==
    \A k \in CallIds :
        Reached(k) /\ calls[k].act \in DualActs /\ calls[k].amount >= Threshold =>
            LET i == calls[k].via IN
              /\ i \in DC!Ids
              /\ rows[i].status = "approved"
              /\ rows[i].approver = calls[k].by /\ rows[i].by # calls[k].by
              /\ rows[i].intent = [act |-> calls[k].act, amount |-> calls[k].amount]

\* The trail and the platform agree as far as this service can know: no call is made that
\* has no row; a row that says succeeded stands for a write that happened; a row that says
\* the platform rejected it stands for one that did not.  A row left at attempted, or
\* failed for want of an answer, says nothing (auditedAttempt, stampOutcome).
TrailMatchesPlatform ==
    \A k \in CallIds :
        /\ Reached(k) => calls[k].row # "none"
        /\ calls[k].row = "succeeded" => calls[k].wire = "done"
        /\ calls[k].code = "rejected" => calls[k].wire = "refused"

\* An approval is spent on one call at most, however many administrators approve at once
\* and however the call ends: a failed one is asked for again, never replayed.
SignatureSpentOnce ==
    \A j, k \in CallIds : calls[j].via = calls[k].via /\ calls[j].via # 0 => j = k

\* However calls fail, time out or die, the handlers of money do to the approval queue only
\* what the queue allows: none ends without its commit, its failure or its loss on record.
ImplementsQueue == DC!Spec

\* An approved request is carried out or explains itself, unless its instance is lost.
ApprovedIsResolved == DC!ApprovedIsResolved
===============================================================================
