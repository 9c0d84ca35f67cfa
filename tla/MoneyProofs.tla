----------------------------- MODULE MoneyProofs -----------------------------
(***************************************************************************)
(* What is proved of Money, for any administrators, requests, amounts,     *)
(* threshold and number of calls and failures: its types, that the queue   *)
(* inside takes only the steps of DualControl, and that large money takes  *)
(* two people, that a signature is spent once and that the trail agrees    *)
(* with the platform.                                                      *)
(***************************************************************************)
EXTENDS Money, TLAPS

\* The queue's own theorems, for the acts on money.
DCP == INSTANCE DualControlProofs WITH
        Intents <- DualIntents, Levels <- Tiers, ApproverTiers <- MoneyApproverTiers

-------------------------------------------------------------------------------
(* The queue inside. *)

LEMMA QueueConstants == DCP!ConstantsAssumption
BY MoneyAssumption DEF DCP!ConstantsAssumption, MoneyApproverTiers, Tiers

\* DC and DCP are instances of one specification.
LEMMA OneQueue == (DC!Init => DCP!Init) /\ (DC!Next => DCP!Next)
BY DEF DC!Init, DCP!Init, DC!Next, DCP!Next, DC!Ids, DCP!Ids, DC!Verdicts, DCP!Verdicts,
       DC!Idle, DCP!Idle, DC!NoRow, DCP!NoRow, DC!Pending, DCP!Pending,
       DC!Overdue, DCP!Overdue, DC!AskLookup, DCP!AskLookup, DC!NoneOpen, DCP!NoneOpen,
       DC!IndexAdmits, DCP!IndexAdmits, DC!Create, DCP!Create,
       DC!CreateRefused, DCP!CreateRefused, DC!Decidable, DCP!Decidable,
       DC!MayDecide, DCP!MayDecide, DC!Begin, DCP!Begin, DC!ClaimWins, DCP!ClaimWins,
       DC!Claim, DCP!Claim, DC!ClaimLost, DCP!ClaimLost, DC!Expire, DCP!Expire,
       DC!HandlerCommits, DCP!HandlerCommits, DC!HandlerMoot, DCP!HandlerMoot,
       DC!HandlerThrows, DCP!HandlerThrows, DC!HandlerReturns, DCP!HandlerReturns,
       DC!HandlerThrowsLate, DCP!HandlerThrowsLate, DC!RecordFailure, DCP!RecordFailure,
       DC!Crash, DCP!Crash, DC!Tick, DCP!Tick, DC!Asking, DCP!Asking,
       DC!Deciding, DCP!Deciding, DC!Performing, DCP!Performing

LEMMA QueueStarts == Init => DCP!IInv
BY OneQueue, QueueConstants, DCP!InitInv DEF Init

LEMMA QueueStays == DCP!IInv /\ (DC!Next \/ UNCHANGED queue) => DCP!IInv'
BY OneQueue, QueueConstants, DCP!StepInv DEF queue, DCP!vars

LEMMA QueueTyped == DCP!IInv => DC!TypeOK
BY DEF DCP!IInv, DCP!TypeOK, DC!TypeOK, DCP!Rows, DC!Rows, DCP!Jobs, DC!Jobs, DCP!Ids, DC!Ids,
       DCP!Statuses, DC!Statuses, DCP!Verdicts, DC!Verdicts, DCP!Fates, DC!Fates

\* Every step of a request is a step of the queue or leaves it alone.
LEMMA QueueSteps ==
    ASSUME NEW p \in Procs, Step(p)
    PROVE  DC!Next \/ UNCHANGED queue
<1>1. CASE Opening(p)
  <2>1. \A a \in Admins : TierOf[a] \in Tiers
    BY MoneyAssumption
  <2>. QED
    BY <1>1, <2>1 DEF Opening, Take, Ask, BeginDecision, DC!Next
<1>2. CASE CreateRequest(p) \/ Decide(p)
  BY <1>2 DEF CreateRequest, Decide, DC!Next, DC!Asking, DC!Deciding
<1>3. CASE HandlerRefuses(p) \/ HandlerEnds(p)
  BY <1>3 DEF HandlerRefuses, HandlerEnds, DC!Next, DC!Performing
<1>4. CASE AttemptFails(p) \/ Answered(p) \/ Refused(p) \/ TimedOut(p)
  BY <1>4 DEF AttemptFails, Answered, Refused, TimedOut, Thrown, Returned,
              DC!Next, DC!Performing
<1>5. CASE HandlerLoads(p) \/ Attempt(p)
  BY <1>5 DEF HandlerLoads, Attempt, Send
<1>6. CASE Die(p)
  BY <1>6 DEF Die, DC!Next
<1>. QED
  BY <1>1, <1>2, <1>3, <1>4, <1>5, <1>6 DEF Step, Handling, Progress

-------------------------------------------------------------------------------
(* What a step of the queue leaves alone. *)

\* An approved row keeps what two people agreed to.
Kept(i) == /\ rows'[i].status = "approved" /\ rows'[i].approver = rows[i].approver
           /\ rows'[i].intent = rows[i].intent /\ rows'[i].by = rows[i].by

LEMMA ApprovedStays ==
    ASSUME DCP!IInv, DC!Next \/ UNCHANGED queue, NEW i \in DC!Ids, rows[i].status = "approved"
    PROVE  Kept(i)
<1>1. rows \in [DC!Ids -> DC!Rows]
  BY QueueTyped DEF DC!TypeOK
<1>2. ASSUME NEW p \in Procs, DC!Create(p) \/ DC!Claim(p) PROVE rows'[i] = rows[i]
  BY <1>1, <1>2 DEF DC!Create, DC!Claim, DC!ClaimWins, DC!Pending
<1>3. ASSUME NEW p \in Procs, DC!RecordFailure(p) PROVE Kept(i)
  BY <1>1, <1>3 DEF DC!RecordFailure, DC!Rows, Kept
<1>4. ASSUME NEW j \in DC!Ids, DC!Expire(j) PROVE rows'[i] = rows[i]
  BY <1>1, <1>4 DEF DC!Expire, DC!Pending
<1>5. rows' = rows => Kept(i)
  BY DEF Kept
<1>. QED
  BY <1>2, <1>3, <1>4, <1>5
  DEF Kept, DC!Next, DC!Asking, DC!Deciding, DC!Performing, DC!AskLookup, DC!CreateRefused,
      DC!Begin, DC!ClaimLost, DC!HandlerCommits, DC!HandlerMoot, DC!HandlerThrows,
      DC!HandlerReturns, DC!HandlerThrowsLate, DC!Crash, DC!Tick, queue

\* Held as in AdministratorsProofs: p is carrying out an approved request.
Held(p) == job[p].stage \in {"perform", "after", "failed"}

LEMMA HeldRow ==
    ASSUME DCP!IInv, NEW p \in Procs, Held(p)
    PROVE  /\ job[p].id \in DC!Ids /\ rows[job[p].id].status = "approved"
           /\ rows[job[p].id].intent \in DualIntents
           /\ rows[job[p].id].approver # rows[job[p].id].by
BY DEF Held, DCP!IInv, DCP!JobsComplete, DCP!RowsComplete, DCP!Holding, DCP!TwoPeople,
       DCP!Ids, DC!Ids

\* A process starts to perform by claiming a row that was pending until then, as the
\* approver of that row; otherwise it held the same row before.
LEMMA JobMoves ==
    ASSUME DCP!IInv, DC!Next \/ UNCHANGED queue, NEW p \in Procs, Held(p)'
    PROVE  \/ /\ Held(p) /\ job'[p].id = job[p].id /\ job'[p].who = job[p].who
              /\ job'[p].stage = "perform" => job[p].stage = "perform"
           \/ /\ job[p].stage = "claim" /\ job'[p].id = job[p].id
              /\ rows[job[p].id].status = "pending"
              /\ rows'[job'[p].id].approver = job'[p].who
<1>. USE DEF Held
<1>1. rows \in [DC!Ids -> DC!Rows] /\ job \in [Procs -> DC!Jobs]
  BY QueueTyped DEF DC!TypeOK
<1>. DEFINE Goal == \/ /\ Held(p) /\ job'[p].id = job[p].id /\ job'[p].who = job[p].who
                       /\ job'[p].stage = "perform" => job[p].stage = "perform"
                    \/ /\ job[p].stage = "claim" /\ job'[p].id = job[p].id
                       /\ rows[job[p].id].status = "pending"
                       /\ rows'[job'[p].id].approver = job'[p].who
<1>2. ASSUME NEW q \in Procs, NEW k, job' = [job EXCEPT ![q] = k],
             k.stage \notin {"perform", "after", "failed"}
      PROVE  Goal
  BY <1>1, <1>2
<1>3. ASSUME NEW q \in Procs, job[q].stage \in {"perform", "after"},
             \/ job' = [job EXCEPT ![q].stage = "after"]
             \/ job' = [job EXCEPT ![q].stage = "failed"]
      PROVE  Goal
  BY <1>1, <1>3 DEF DC!Jobs
<1>4. DC!Idle.stage = "idle"
  BY DEF DC!Idle
<1>5. ASSUME NEW q \in Procs,
             \/ \E a \in Admins, x \in DualIntents : DC!AskLookup(q, a, x)
             \/ \E a \in Admins, t \in Tiers, i \in DC!Ids, v \in DC!Verdicts :
                  DC!Begin(q, a, t, i, v)
      PROVE  Goal
  BY <1>2, <1>5 DEF DC!AskLookup, DC!Begin, DC!Idle
<1>6. ASSUME NEW q \in Procs, DC!Asking(q) \/ DC!Crash(q) \/ DC!ClaimLost(q) PROVE Goal
  BY <1>2, <1>4, <1>6 DEF DC!Asking, DC!Create, DC!CreateRefused, DC!Crash, DC!ClaimLost
<1>7. ASSUME NEW q \in Procs, DC!Claim(q) PROVE Goal
  <2>1. CASE q # p
    BY <1>1, <1>7, <2>1 DEF DC!Claim
  <2>2. CASE q = p
    <3>1. job[p].id \in DC!Ids
      BY <1>7, <2>2 DEF DC!Claim, DCP!IInv, DCP!JobsComplete, DCP!Ids, DC!Ids
    <3>2. job'[p] = [job[p] EXCEPT !.stage = "perform"]
      BY <1>1, <1>4, <1>7, <2>2 DEF DC!Claim
    <3>3. job'[p].id = job[p].id /\ job'[p].who = job[p].who
      BY <1>1, <3>2 DEF DC!Jobs
    <3>4. rows'[job[p].id].approver = job[p].who
      BY <1>1, <1>7, <2>2, <3>1 DEF DC!Claim, DC!Rows
    <3>. QED
      BY <1>7, <2>2, <3>3, <3>4 DEF DC!Claim, DC!ClaimWins, DC!Pending
  <2>. QED
    BY <2>1, <2>2
<1>8. ASSUME NEW q \in Procs, DC!Performing(q) PROVE Goal
  BY <1>2, <1>3, <1>4, <1>8
  DEF DC!Performing, DC!HandlerCommits, DC!HandlerMoot, DC!HandlerThrows,
      DC!HandlerReturns, DC!HandlerThrowsLate, DC!RecordFailure
<1>9. CASE UNCHANGED job
  BY <1>9
<1>. QED
  BY <1>5, <1>6, <1>7, <1>8, <1>9 DEF DC!Next, DC!Deciding, DC!Expire, DC!Tick, queue

\* The step of a request leaves the other requests alone.
LEMMA Others ==
    ASSUME DC!TypeOK, work \in [Procs -> Works], NEW p \in Procs, Step(p), NEW q \in Procs,
           q # p
    PROVE  job'[q] = job[q] /\ work'[q] = work[q]
<1>1. job \in [Procs -> DC!Jobs]
  BY DEF DC!TypeOK
<1>2. CASE Opening(p)
  BY <1>1, <1>2 DEF Opening, Take, Ask, BeginDecision, DC!AskLookup, DC!Begin, queue
<1>3. CASE CreateRequest(p) \/ Decide(p)
  BY <1>1, <1>3 DEF CreateRequest, Decide, DC!Create, DC!CreateRefused, DC!Claim, DC!ClaimLost
<1>4. CASE HandlerRefuses(p) \/ HandlerEnds(p)
  BY <1>1, <1>4 DEF HandlerRefuses, HandlerEnds, DC!HandlerThrows, DC!HandlerReturns,
                    DC!RecordFailure
<1>5. CASE AttemptFails(p) \/ Answered(p) \/ Refused(p) \/ TimedOut(p)
  BY <1>1, <1>5 DEF AttemptFails, Answered, Refused, TimedOut, Thrown, Returned, Done,
                    DC!HandlerThrows, DC!HandlerCommits, queue
<1>6. CASE HandlerLoads(p) \/ Attempt(p)
  BY <1>6 DEF HandlerLoads, Attempt, Send, queue
<1>7. CASE Die(p)
  BY <1>1, <1>7 DEF Die, Done, DC!Crash, queue
<1>. QED
  BY <1>2, <1>3, <1>4, <1>5, <1>6, <1>7 DEF Step, Handling, Progress

-------------------------------------------------------------------------------
(* The invariant. *)

What(w) == [act |-> w.act, amount |-> w.amount]

\* A write in progress is what its administrator, or the approval, asked for.
WorksAgree ==
    \A p \in Procs : work[p].stage # "none" =>
        /\ work[p].who \in Admins /\ work[p].act \in Acts
        /\ work[p].via = 0 => job[p].stage = "idle" /\ ~NeedsSecond(What(work[p]))
        /\ work[p].via # 0 => /\ job[p].stage = "perform" /\ job[p].id = work[p].via
                              /\ job[p].who = work[p].who
                              /\ rows[work[p].via].intent = What(work[p])
        /\ work[p].stage = "wait" => work[p].call \in CallIds

\* Whoever carries a request out is the one who approved it.
HoldersApproved == \A p \in Procs : Held(p) => rows[job[p].id].approver = job[p].who

\* A call that was made is small, or is what its approval says.
CallsAgree ==
    \A k \in CallIds :
        /\ calls[k].wire = "unsent" => calls[k] = NoCall
        /\ calls[k].wire # "unsent" => calls[k].act \in Acts
        /\ calls[k].wire # "unsent" /\ calls[k].via = 0 => ~NeedsSecond(What(calls[k]))
        /\ calls[k].via # 0 => /\ rows[calls[k].via].status = "approved"
                               /\ rows[calls[k].via].approver = calls[k].by
                               /\ rows[calls[k].via].intent = What(calls[k])

\* No call was made for an approval whose handler has not come to its call.
NotYetSpent ==
    \A p \in Procs : job[p].stage = "perform" /\ work[p].stage # "wait" =>
        \A k \in CallIds : calls[k].via # job[p].id

OwnTypes ==
    /\ item \in [kind : Kinds, standing : Standings, amount : Nat, typist : Admins \cup {None}]
    /\ work \in [Procs -> Works]
    /\ calls \in [CallIds -> Calls]
    /\ faults \in Nat

MoneyInv ==
    /\ DCP!IInv /\ OwnTypes
    /\ WorksAgree /\ HoldersApproved /\ CallsAgree /\ NotYetSpent
    /\ TrailMatchesPlatform /\ SignatureSpentOnce

LEMMA MoneyInvInit == Init => MoneyInv
<1>. SUFFICES ASSUME Init PROVE MoneyInv
  OBVIOUS
<1>1. NoCall \in Calls /\ Free \in Works
  BY DEF NoCall, Calls, Free, Works
<1>2. OwnTypes
  <2>1. item \in [kind : Kinds, standing : Standings, amount : Nat, typist : Admins \cup {None}]
    BY MoneyAssumption DEF Init, NewItems, Kinds, Standings
  <2>. QED
    BY <1>1, <2>1, MoneyAssumption DEF Init, OwnTypes
<1>3. WorksAgree /\ HoldersApproved /\ NotYetSpent
  BY DEF Init, DC!Init, DC!Idle, WorksAgree, HoldersApproved, NotYetSpent, Held, Free
<1>4. CallsAgree /\ TrailMatchesPlatform /\ SignatureSpentOnce
  BY DEF Init, CallsAgree, TrailMatchesPlatform, SignatureSpentOnce, Reached, NoCall
<1>. QED
  BY <1>2, <1>3, <1>4, QueueStarts DEF MoneyInv

-------------------------------------------------------------------------------
(* Steps that start no write and make no call. *)

\* What was called for, and whether it was, stays.
CallsKept ==
    \A k \in CallIds :
        /\ What(calls'[k]) = What(calls[k])
        /\ calls'[k].by = calls[k].by /\ calls'[k].via = calls[k].via
        /\ calls[k].wire = "unsent" \/ calls'[k].wire = "unsent" => calls'[k] = calls[k]

\* q goes on with its write, or has let go of it and is no longer performing.
GoesOn(q) ==
    \/ work'[q] = work[q] /\ (work[q].stage # "none" => job'[q] = job[q])
    \/ work'[q] = Free /\ (work[q].stage = "wait" => job'[q].stage # "perform")

LEMMA HoldersStay ==
    ASSUME MoneyInv, DC!Next \/ UNCHANGED queue
    PROVE  HoldersApproved'
<1>. SUFFICES ASSUME NEW q \in Procs, Held(q)'
              PROVE  (rows[job[q].id].approver = job[q].who)'
  BY DEF HoldersApproved
<1>. USE DEF MoneyInv
<1>1. CASE Held(q) /\ job'[q].id = job[q].id /\ job'[q].who = job[q].who
  BY <1>1, HeldRow, ApprovedStays DEF HoldersApproved, Kept
<1>. QED
  BY <1>1, JobMoves

LEMMA CallsStay ==
    ASSUME MoneyInv, DC!Next \/ UNCHANGED queue, NEW k \in CallIds, CallsKept
    PROVE  /\ calls'[k].wire = "unsent" => calls'[k] = NoCall
           /\ calls'[k].wire # "unsent" => calls'[k].act \in Acts
           /\ calls'[k].wire # "unsent" /\ calls'[k].via = 0 => ~NeedsSecond(What(calls'[k]))
           /\ calls'[k].via # 0 => /\ rows'[calls'[k].via].status = "approved"
                                   /\ rows'[calls'[k].via].approver = calls'[k].by
                                   /\ rows'[calls'[k].via].intent = What(calls'[k])
<1>. USE DEF MoneyInv, CallsAgree, CallsKept
<1>1. calls'[k].wire = "unsent" => calls'[k] = NoCall
  OBVIOUS
<1>2. /\ calls'[k].wire # "unsent" => calls'[k].act \in Acts
      /\ calls'[k].wire # "unsent" /\ calls'[k].via = 0 => ~NeedsSecond(What(calls'[k]))
  BY DEF What
<1>3. ASSUME calls'[k].via # 0
      PROVE  /\ rows'[calls'[k].via].status = "approved"
             /\ rows'[calls'[k].via].approver = calls'[k].by
             /\ rows'[calls'[k].via].intent = What(calls'[k])
  <2>1. calls[k].via \in DC!Ids /\ rows[calls[k].via].status = "approved"
    BY <1>3 DEF OwnTypes, Calls
  <2>. QED
    BY <1>3, <2>1, ApprovedStays DEF Kept
<1>. QED
  BY <1>1, <1>2, <1>3

\* The write of a request that goes on is still what the request, or its row, asks for.
LEMMA WorkStays ==
    ASSUME MoneyInv, DC!Next \/ UNCHANGED queue, NEW q \in Procs, work'[q] = work[q],
           work[q].stage # "none" => job'[q] = job[q], work'[q].stage # "none"
    PROVE  /\ work'[q].who \in Admins /\ work'[q].act \in Acts
           /\ work'[q].via = 0 => job'[q].stage = "idle" /\ ~NeedsSecond(What(work'[q]))
           /\ work'[q].via # 0 => /\ job'[q].stage = "perform" /\ job'[q].id = work'[q].via
                                  /\ job'[q].who = work'[q].who
                                  /\ rows'[work'[q].via].intent = What(work'[q])
           /\ work'[q].stage = "wait" => work'[q].call \in CallIds
<1>. USE DEF MoneyInv, WorksAgree
<1>1. ASSUME work[q].via # 0
      PROVE  rows'[work[q].via].intent = rows[work[q].via].intent
  <2>1. Held(q) /\ job[q].id = work[q].via
    BY <1>1 DEF Held
  <2>. QED
    BY <2>1, HeldRow, ApprovedStays DEF Kept
<1>. QED
  BY <1>1

\* A request that comes to perform has claimed a row for which no call was made.
LEMMA SpentStays ==
    ASSUME MoneyInv, DC!Next \/ UNCHANGED queue, NEW q \in Procs, job'[q].stage = "perform",
           job[q].stage = "perform" => work[q].stage # "wait"
    PROVE  \A k \in CallIds : calls[k].via # job'[q].id
<1>. USE DEF MoneyInv
<1>1. CASE Held(q) /\ job'[q].id = job[q].id /\ job[q].stage = "perform"
  BY <1>1 DEF NotYetSpent
<1>2. CASE /\ job[q].stage = "claim" /\ job'[q].id = job[q].id
           /\ rows[job[q].id].status = "pending"
  <2>1. job[q].id \in DC!Ids /\ job[q].id # 0
    BY <1>2 DEF DCP!IInv, DCP!JobsComplete, DCP!Ids, DC!Ids
  <2>. QED
    BY <1>2, <2>1 DEF CallsAgree
<1>. QED
  BY <1>1, <1>2, JobMoves DEF Held

LEMMA GoOn ==
    ASSUME MoneyInv, DC!Next \/ UNCHANGED queue, OwnTypes', TrailMatchesPlatform', CallsKept,
           \A q \in Procs : GoesOn(q)
    PROVE  MoneyInv'
<1>1. Free.stage = "none"
  BY DEF Free
<1>2. WorksAgree'
  BY <1>1, WorkStays DEF WorksAgree, GoesOn
<1>3. CallsAgree'
  BY CallsStay DEF CallsAgree
<1>4. NotYetSpent'
  <2>. SUFFICES ASSUME NEW q \in Procs, job'[q].stage = "perform", work'[q].stage # "wait",
                       NEW k \in CallIds
                PROVE  calls'[k].via # job'[q].id
    BY DEF NotYetSpent
  <2>1. work[q].stage # "wait"
    BY DEF GoesOn
  <2>. QED
    BY <2>1, SpentStays DEF CallsKept
<1>5. SignatureSpentOnce'
  BY DEF SignatureSpentOnce, CallsKept, MoneyInv
<1>. QED
  BY <1>2, <1>3, <1>4, <1>5, HoldersStay, QueueStays DEF MoneyInv

-------------------------------------------------------------------------------
(* The steps. *)

\* A write begins: small, or as approved.
LEMMA WriteBegins ==
    ASSUME MoneyInv, NEW p \in Procs, NEW w \in Works, work[p].stage # "wait",
           UNCHANGED <<queue, item, calls, faults>>, work' = [work EXCEPT ![p] = w],
           w.stage = "intent", w.who \in Admins, w.act \in Acts,
           w.via = 0 => job[p].stage = "idle" /\ ~NeedsSecond(What(w)),
           w.via # 0 => /\ job[p].stage = "perform" /\ job[p].id = w.via
                        /\ job[p].who = w.who /\ rows[w.via].intent = What(w)
    PROVE  MoneyInv'
<1>. USE DEF MoneyInv, OwnTypes
<1>1. OwnTypes'
  OBVIOUS
<1>2. WorksAgree'
  <2>. SUFFICES ASSUME NEW q \in Procs, work'[q].stage # "none"
                PROVE  /\ work'[q].who \in Admins /\ work'[q].act \in Acts
                       /\ work'[q].via = 0 => /\ job'[q].stage = "idle"
                                              /\ ~NeedsSecond(What(work'[q]))
                       /\ work'[q].via # 0 => /\ job'[q].stage = "perform"
                                              /\ job'[q].id = work'[q].via
                                              /\ job'[q].who = work'[q].who
                                              /\ rows'[work'[q].via].intent = What(work'[q])
                       /\ work'[q].stage = "wait" => work'[q].call \in CallIds
    BY DEF WorksAgree
  <2>1. CASE q = p
    BY <2>1 DEF queue
  <2>2. CASE q # p
    <3>1. work'[q] = work[q] /\ job'[q] = job[q]
      BY <2>2 DEF queue
    <3>. QED
      BY <3>1, WorkStays
  <2>. QED
    BY <2>1, <2>2
<1>3. NotYetSpent'
  <2>. SUFFICES ASSUME NEW q \in Procs, job[q].stage = "perform", work'[q].stage # "wait",
                       NEW k \in CallIds
                PROVE  calls[k].via # job[q].id
    BY DEF NotYetSpent, queue
  <2>1. work[q].stage # "wait"
    OBVIOUS
  <2>. QED
    BY <2>1 DEF NotYetSpent
<1>4. CallsAgree' /\ HoldersApproved' /\ TrailMatchesPlatform' /\ SignatureSpentOnce'
  BY DEF CallsAgree, HoldersApproved, TrailMatchesPlatform, SignatureSpentOnce, queue, Held,
         Reached
<1>. QED
  BY <1>1, <1>2, <1>3, <1>4, QueueStays

LEMMA TakeInv ==
    ASSUME MoneyInv, NEW p \in Procs, NEW a \in Admins, NEW x \in Asks, Take(p, a, x)
    PROVE  MoneyInv'
<1>. DEFINE w == [Free EXCEPT !.stage = "intent", !.who = a, !.act = x.act,
                              !.amount = x.amount]
<1>1. x.act \in Acts /\ x.amount \in Nat /\ x = [act |-> x.act, amount |-> x.amount]
  BY MoneyAssumption DEF Asks
<1>2. /\ w.stage = "intent" /\ w.who = a /\ w.act = x.act /\ w.amount = x.amount /\ w.via = 0
      /\ w \in Works
  BY <1>1 DEF Free, Works
<1>3. ~NeedsSecond(What(w))
  BY <1>1, <1>2 DEF Take, What
<1>4. job[p].stage = "idle" /\ work[p].stage # "wait"
  BY DEF Take, Idle, Free
<1>5. work' = [work EXCEPT ![p] = w] /\ UNCHANGED <<queue, item, calls, faults>>
  BY DEF Take
<1>. HIDE DEF w
<1>. QED
  BY <1>1, <1>2, <1>3, <1>4, <1>5, WriteBegins

LEMMA HandlerLoadsInv ==
    ASSUME MoneyInv, NEW p \in Procs, HandlerLoads(p)
    PROVE  MoneyInv'
<1>. DEFINE x == Approved(p)
            w == [Free EXCEPT !.stage = "intent", !.who = job[p].who,
                              !.act = ModeSignedFor(x), !.amount = x.amount, !.via = job[p].id]
<1>1. /\ job[p].stage = "perform" /\ job[p].id \in DC!Ids /\ x \in DualIntents
      /\ rows[job[p].id].approver = job[p].who
  BY HeldRow DEF HandlerLoads, MoneyInv, HoldersApproved, Held, Approved
<1>2. x.act \in Acts /\ x.amount \in Nat /\ x = [act |-> x.act, amount |-> x.amount]
  BY <1>1, MoneyAssumption DEF DualIntents, DualActs, Acts, PayoutActs, RefundActs
<1>3. job[p].who \in Admins
  <2>1. rows[job[p].id].status = "approved" => rows[job[p].id].approver \in Admins
    BY <1>1 DEF MoneyInv, DCP!IInv, DCP!TwoPeople, DCP!Ids, DC!Ids
  <2>. QED
    BY <1>1, <2>1, HeldRow DEF MoneyInv, Held
<1>4. /\ w.stage = "intent" /\ w.who = job[p].who /\ w.act = x.act /\ w.amount = x.amount
      /\ w.via = job[p].id /\ w \in Works
  BY <1>1, <1>2, <1>3 DEF Free, Works, ModeSignedFor
<1>5. rows[w.via].intent = What(w) /\ w.via # 0
  BY <1>1, <1>2, <1>4 DEF What, Approved, DC!Ids
<1>6. work' = [work EXCEPT ![p] = w] /\ UNCHANGED <<queue, item, calls, faults>>
  BY DEF HandlerLoads
<1>7. work[p].stage # "wait"
  BY DEF HandlerLoads, Free
<1>. HIDE DEF w
<1>. QED
  BY <1>1, <1>2, <1>3, <1>4, <1>5, <1>6, <1>7, WriteBegins

\* The one step that makes a call.
LEMMA AttemptInv ==
    ASSUME MoneyInv, NEW p \in Procs, Attempt(p)
    PROVE  MoneyInv'
<1>. USE DEF MoneyInv
<1>1. PICK k \in CallIds :
        /\ calls[k] = NoCall
        /\ calls' = [calls EXCEPT ![k] = CallOf(p, "attempted")]
        /\ work' = [work EXCEPT ![p].stage = "wait", ![p].call = k]
        /\ UNCHANGED <<queue, item, faults>>
  BY DEF Attempt, Send, Unused
<1>. DEFINE c == CallOf(p, "attempted")
            w == [work[p] EXCEPT !.stage = "wait", !.call = k]
<1>2. /\ work[p].stage = "intent" /\ work[p] \in Works
      /\ work[p].who \in Admins /\ work[p].act \in Acts
  BY DEF Attempt, OwnTypes, WorksAgree
<1>3. /\ c \in Calls /\ c.act \in Acts
      /\ c.by = work[p].who /\ c.via = work[p].via /\ What(c) = What(work[p])
      /\ c.wire = "travelling" /\ c.row = "attempted" /\ c.code = "none"
  BY <1>2 DEF CallOf, NoCall, Calls, Works, What
<1>4. /\ w \in Works /\ w.stage = "wait" /\ w.call = k /\ w.who = work[p].who
      /\ w.act = work[p].act /\ w.via = work[p].via /\ What(w) = What(work[p])
  BY <1>2 DEF Works, What
<1>5. calls' = [calls EXCEPT ![k] = c] /\ work' = [work EXCEPT ![p] = w]
  BY <1>1 DEF OwnTypes
<1>. HIDE DEF c, w
<1>6. OwnTypes'
  <2>1. calls' \in [CallIds -> Calls] /\ work' \in [Procs -> Works]
    BY <1>3, <1>4, <1>5 DEF OwnTypes
  <2>. QED
    BY <1>1, <2>1 DEF OwnTypes
<1>7. WorksAgree'
  <2>1. \A q \in Procs : q # p => work'[q] = work[q]
    BY <1>5
  <2>2. work'[p] = w
    BY <1>5 DEF OwnTypes
  <2>3. UNCHANGED <<rows, job>>
    BY <1>1 DEF queue
  <2>. QED
    BY <1>2, <1>4, <2>1, <2>2, <2>3 DEF WorksAgree
<1>8. HoldersApproved'
  BY <1>1 DEF HoldersApproved, Held, queue
<1>9. ASSUME c.via # 0
      PROVE  /\ rows[c.via].status = "approved" /\ rows[c.via].approver = c.by
             /\ rows[c.via].intent = What(c)
             /\ \A j \in CallIds : calls[j].via # c.via
             /\ job[p].stage = "perform" /\ job[p].id = c.via
  <2>1. /\ job[p].stage = "perform" /\ job[p].id = c.via /\ job[p].who = c.by
        /\ rows[c.via].intent = What(c)
    BY <1>2, <1>3, <1>9 DEF WorksAgree
  <2>2. rows[c.via].status = "approved" /\ rows[c.via].approver = c.by
    BY <2>1, HeldRow DEF HoldersApproved, Held
  <2>3. \A j \in CallIds : calls[j].via # c.via
    BY <1>2, <2>1 DEF NotYetSpent
  <2>. QED
    BY <2>1, <2>2, <2>3
<1>10. c.via = 0 => ~NeedsSecond(What(c))
  BY <1>2, <1>3 DEF WorksAgree
<1>11. CallsAgree'
  BY <1>1, <1>3, <1>5, <1>9, <1>10 DEF CallsAgree, OwnTypes, queue
<1>12. NotYetSpent'
  <2>. SUFFICES ASSUME NEW q \in Procs, job[q].stage = "perform", work'[q].stage # "wait",
                       NEW j \in CallIds
                PROVE  calls'[j].via # job[q].id
    BY <1>1 DEF NotYetSpent, queue
  <2>1. q # p
    BY <1>4, <1>5 DEF OwnTypes
  <2>2. calls[j].via # job[q].id
    BY <1>5, <2>1 DEF NotYetSpent, OwnTypes
  <2>3. CASE j = k
    <3>1. job[q].id \in DC!Ids /\ job[q].id # 0
      BY HeldRow DEF Held, DC!Ids
    <3>2. c.via # 0 => c.via # job[q].id
      BY <1>9, <2>1 DEF DCP!IInv, DCP!OneHolder, DCP!Holding
    <3>. QED
      BY <1>5, <2>3, <3>1, <3>2 DEF OwnTypes
  <2>. QED
    BY <1>5, <2>2, <2>3 DEF OwnTypes
<1>13. TrailMatchesPlatform'
  BY <1>3, <1>5 DEF TrailMatchesPlatform, Reached, OwnTypes
<1>14. SignatureSpentOnce'
  BY <1>5, <1>9 DEF SignatureSpentOnce, OwnTypes
<1>. QED
  BY <1>1, <1>6, <1>7, <1>8, <1>11, <1>12, <1>13, <1>14, QueueStays

\* The steps that end a write: its outcome is stamped, or that fails, or nothing was called.
LEMMA WriteEnds ==
    ASSUME MoneyInv, NEW p \in Procs, Step(p), Done(p), UNCHANGED item, faults' \in Nat,
           UNCHANGED calls \/ \E outcome \in {"succeeded", "failed"},
                                 code \in {"none", "rejected", "unavailable"} :
              LET k == work[p].call IN
                /\ Stamp(p, outcome, code) /\ work[p].stage = "wait"
                /\ outcome = "succeeded" => calls[k].wire = "done"
                /\ code = "rejected" => calls[k].wire = "refused",
           work[p].stage = "wait" => job'[p].stage # "perform"
    PROVE  MoneyInv'
<1>. USE DEF MoneyInv
<1>1. \A q \in Procs : GoesOn(q)
  <2>1. work' = [work EXCEPT ![p] = Free]
    BY DEF Done
  <2>. QED
    BY <2>1, Others, QueueTyped DEF GoesOn, OwnTypes
<1>2. /\ calls' \in [CallIds -> Calls]
      /\ CallsKept /\ TrailMatchesPlatform'
  <2>1. CASE UNCHANGED calls
    BY <2>1 DEF OwnTypes, CallsKept, TrailMatchesPlatform, Reached
  <2>2. CASE ~UNCHANGED calls
    <3>1. PICK outcome \in {"succeeded", "failed"}, code \in {"none", "rejected", "unavailable"} :
            /\ work[p].stage = "wait"
            /\ calls[work[p].call].row = "attempted"
            /\ calls' = [calls EXCEPT ![work[p].call].row = outcome,
                                      ![work[p].call].code = code]
            /\ outcome = "succeeded" => calls[work[p].call].wire = "done"
            /\ code = "rejected" => calls[work[p].call].wire = "refused"
      BY <2>2 DEF Stamp
    <3>2. PICK k \in CallIds : k = work[p].call
      BY <3>1 DEF WorksAgree
    <3>3. PICK c : c = [calls[k] EXCEPT !.row = outcome, !.code = code]
      OBVIOUS
    <3>4. calls' = [calls EXCEPT ![k] = c]
      BY <3>1, <3>2, <3>3 DEF OwnTypes
    <3>5. calls[k] \in Calls
      BY DEF OwnTypes
    <3>6. /\ c \in Calls /\ What(c) = What(calls[k]) /\ c.by = calls[k].by
          /\ c.via = calls[k].via /\ c.wire = calls[k].wire /\ c.row = outcome /\ c.code = code
      BY <3>3, <3>5 DEF Calls, What
    <3>7. calls[k].wire # "unsent"
      BY <3>1, <3>2 DEF CallsAgree, NoCall
    <3>8. calls' \in [CallIds -> Calls]
      BY <3>4, <3>6 DEF OwnTypes
    <3>9. CallsKept
      BY <3>4, <3>6, <3>7 DEF CallsKept, OwnTypes
    <3>10. TrailMatchesPlatform'
      BY <3>1, <3>2, <3>4, <3>6 DEF TrailMatchesPlatform, Reached, OwnTypes
    <3>. QED
      BY <3>8, <3>9, <3>10
  <2>. QED
    BY <2>1, <2>2
<1>3. OwnTypes'
  <2>1. work' \in [Procs -> Works]
    BY DEF Done, OwnTypes, Free, Works
  <2>. QED
    BY <1>2, <2>1 DEF OwnTypes
<1>. QED
  BY <1>1, <1>2, <1>3, GoOn, QueueSteps

LEMMA EndingInv ==
    ASSUME MoneyInv, NEW p \in Procs,
           AttemptFails(p) \/ Answered(p) \/ Refused(p) \/ TimedOut(p) \/ Die(p)
    PROVE  MoneyInv'
<1>1. Step(p) /\ Done(p) /\ UNCHANGED item
  BY DEF Step, Handling, Progress, AttemptFails, Answered, Refused, TimedOut, Die
<1>2. faults' \in Nat
  BY DEF AttemptFails, Answered, Refused, TimedOut, Die, Stamp, Fault, MoneyInv, OwnTypes
<1>3. UNCHANGED calls \/ \E outcome \in {"succeeded", "failed"},
                            code \in {"none", "rejected", "unavailable"} :
         LET k == work[p].call IN
           /\ Stamp(p, outcome, code) /\ work[p].stage = "wait"
           /\ outcome = "succeeded" => calls[k].wire = "done"
           /\ code = "rejected" => calls[k].wire = "refused"
  BY DEF AttemptFails, Answered, Refused, TimedOut, Die, SilenceCode
<1>4. work[p].stage = "wait" => job'[p].stage # "perform"
  <2>. SUFFICES ASSUME work[p].stage = "wait" PROVE job'[p].stage # "perform"
    OBVIOUS
  <2>1. job \in [Procs -> DC!Jobs]
    BY QueueTyped DEF MoneyInv, DC!TypeOK
  <2>2. CASE work[p].via = 0 /\ ~Die(p)
    <3>1. job[p].stage = "idle"
      BY <2>2 DEF MoneyInv, WorksAgree
    <3>. QED
      BY <2>2, <3>1 DEF AttemptFails, Answered, Refused, TimedOut, Thrown, Returned, queue
  <2>3. CASE work[p].via # 0 /\ ~Die(p)
    BY <2>1, <2>3 DEF AttemptFails, Answered, Refused, TimedOut, Thrown, Returned,
                      DC!HandlerThrows, DC!HandlerCommits, DC!Jobs
  <2>4. CASE Die(p)
    BY <2>1, <2>4 DEF Die, DC!Crash, DC!Idle, queue
  <2>. QED
    BY <2>2, <2>3, <2>4
<1>. QED
  BY <1>1, <1>2, <1>3, <1>4, WriteEnds

\* The steps of the queue alone: asking, deciding, and how a handler ends.
LEMMA QueueingInv ==
    ASSUME MoneyInv, NEW p \in Procs,
           \/ \E a \in Admins, x \in DualIntents : Ask(p, a, x)
           \/ \E a \in Admins, i \in DC!Ids, v \in DC!Verdicts : BeginDecision(p, a, i, v)
           \/ CreateRequest(p) \/ Decide(p) \/ HandlerRefuses(p) \/ HandlerEnds(p)
    PROVE  MoneyInv'
<1>. USE DEF MoneyInv
<1>1. Step(p) /\ UNCHANGED <<item, work, calls, faults>>
  BY DEF Step, Opening, Handling, Progress, Ask, BeginDecision, CreateRequest, Decide,
         HandlerRefuses, HandlerEnds
<1>2. work[p].stage = "none"
  <2>1. CASE \/ \E a \in Admins, x \in DualIntents : Ask(p, a, x)
             \/ \E a \in Admins, i \in DC!Ids, v \in DC!Verdicts : BeginDecision(p, a, i, v)
             \/ HandlerRefuses(p) \/ HandlerEnds(p)
    BY <2>1 DEF Ask, BeginDecision, HandlerRefuses, HandlerEnds, Idle, Free
  <2>2. CASE CreateRequest(p) \/ Decide(p)
    <3>1. job[p].stage \in {"create", "claim"}
      BY <2>2 DEF CreateRequest, Decide, DC!Create, DC!CreateRefused, DC!Claim, DC!ClaimLost
    <3>. QED
      BY <3>1 DEF WorksAgree
  <2>. QED
    BY <2>1, <2>2
<1>3. \A q \in Procs : GoesOn(q)
  BY <1>1, <1>2, Others, QueueTyped DEF GoesOn, OwnTypes
<1>4. OwnTypes' /\ CallsKept /\ TrailMatchesPlatform'
  BY <1>1 DEF OwnTypes, CallsKept, TrailMatchesPlatform, Reached
<1>. QED
  BY <1>1, <1>3, <1>4, GoOn, QueueSteps

\* What the platform, the network and the gateway do.
LEMMA PlatformInv ==
    ASSUME MoneyInv, Platform
    PROVE  MoneyInv'
<1>. USE DEF MoneyInv
<1>1. UNCHANGED <<queue, work>>
  BY DEF Platform, Commit, Refuse, Drop, Settle
<1>2. \A q \in Procs : GoesOn(q)
  BY <1>1 DEF GoesOn, queue
<1>3. CASE Settle
  <2>1. UNCHANGED <<calls, faults>>
    BY <1>3 DEF Settle
  <2>2. item' \in [kind : Kinds, standing : Standings, amount : Nat,
                   typist : Admins \cup {None}]
    <3>1. CASE item.standing \in {"processing", "sending", "approved", "cash"}
                 /\ \E s \in Standings : item' = [item EXCEPT !.standing = s]
      BY <3>1 DEF OwnTypes
    <3>2. CASE item.standing = "owed" /\ item.amount > 0
                 /\ item' = [item EXCEPT !.amount = @ - 1]
      BY <3>2 DEF OwnTypes
    <3>. QED
      BY <1>3, <3>1, <3>2 DEF Settle, Standings
  <2>. QED
    BY <1>1, <1>2, <2>1, <2>2, GoOn
    DEF OwnTypes, CallsKept, TrailMatchesPlatform, Reached
<1>4. ASSUME NEW k \in CallIds, Commit(k) \/ Refuse(k) \/ Drop(k)
      PROVE  MoneyInv'
  <2>1. PICK wire \in {"done", "refused", "dropped"} :
          calls[k].wire = "travelling" /\ calls' = [calls EXCEPT ![k].wire = wire]
    BY <1>4 DEF Commit, Refuse, Drop
  <2>2. calls[k] \in Calls
    BY DEF OwnTypes
  <2>3. PICK c : c = [calls[k] EXCEPT !.wire = wire]
    OBVIOUS
  <2>4. /\ calls' = [calls EXCEPT ![k] = c]
        /\ c \in Calls /\ What(c) = What(calls[k]) /\ c.by = calls[k].by
        /\ c.via = calls[k].via /\ c.wire = wire /\ c.row = calls[k].row
        /\ c.code = calls[k].code
    BY <2>1, <2>2, <2>3 DEF Calls, What, OwnTypes
  <2>5. CallsKept
    BY <2>1, <2>4 DEF CallsKept, OwnTypes
  <2>6. TrailMatchesPlatform'
    BY <2>1, <2>4 DEF TrailMatchesPlatform, Reached, OwnTypes
  <2>7. item' \in [kind : Kinds, standing : Standings, amount : Nat,
                   typist : Admins \cup {None}]
    <3>1. CASE Refuse(k) \/ Drop(k)
      BY <3>1 DEF Refuse, Drop, OwnTypes
    <3>2. CASE Commit(k)
      <4>1. calls[k].act \in Acts
        BY <2>1 DEF CallsAgree
      <4>2. Becomes[calls[k].act] \subseteq Standings
        BY <4>1 DEF Becomes, Acts, PayoutActs, RefundActs, Standings
      <4>3. PICK n : n = IF calls[k].act = "write_off"
                         THEN item.amount - calls[k].amount ELSE item.amount
        OBVIOUS
      <4>4. item.amount \in Nat
        BY DEF OwnTypes
      <4>5. calls[k].act = "write_off" =>
              calls[k].amount \in Nat /\ calls[k].amount <= item.amount
        BY <2>2, <3>2 DEF Commit, Accepts, Calls
      <4>6. n \in Nat
        BY <4>3, <4>4, <4>5
      <4>7. PICK s \in Standings : item' = [item EXCEPT !.standing = s, !.amount = n]
        BY <3>2, <4>2, <4>3 DEF Commit
      <4>. QED
        BY <4>6, <4>7 DEF OwnTypes
    <3>. QED
      BY <1>4, <3>1, <3>2
  <2>8. faults' \in Nat
    <3>1. faults \in Nat
      BY DEF OwnTypes
    <3>2. faults' = faults \/ (faults > 0 /\ faults' = faults - 1)
      BY <1>4 DEF Commit, Refuse, Drop, Fault
    <3>. QED
      BY <3>1, <3>2
  <2>. QED
    BY <1>1, <1>2, <2>4, <2>5, <2>6, <2>7, <2>8, GoOn DEF OwnTypes
<1>. QED
  BY <1>3, <1>4 DEF Platform

LEMMA ClockInv ==
    ASSUME MoneyInv, Clock
    PROVE  MoneyInv'
<1>1. DC!Next
  BY DEF Clock, DC!Next
<1>2. UNCHANGED <<job, item, work, calls, faults>>
  BY DEF Clock, DC!Expire, DC!Tick
<1>3. /\ \A q \in Procs : GoesOn(q)
      /\ OwnTypes' /\ CallsKept /\ TrailMatchesPlatform'
  BY <1>2 DEF GoesOn, MoneyInv, OwnTypes, CallsKept, TrailMatchesPlatform, Reached
<1>. QED
  BY <1>1, <1>3, GoOn

LEMMA MoneyInvStep == MoneyInv /\ [Next]_vars => MoneyInv'
<1>. SUFFICES ASSUME MoneyInv, [Next]_vars PROVE MoneyInv'
  OBVIOUS
<1>1. ASSUME NEW p \in Procs, Step(p) PROVE MoneyInv'
  BY <1>1, TakeInv, HandlerLoadsInv, AttemptInv, EndingInv, QueueingInv
  DEF Step, Opening, Handling, Progress
<1>2. CASE UNCHANGED vars
  <2>1. /\ \A q \in Procs : GoesOn(q)
        /\ OwnTypes' /\ CallsKept /\ TrailMatchesPlatform' /\ UNCHANGED queue
    BY <1>2 DEF vars, queue, GoesOn, MoneyInv, OwnTypes, CallsKept, TrailMatchesPlatform, Reached
  <2>. QED
    BY <2>1, GoOn
<1>. QED
  BY <1>1, <1>2, PlatformInv, ClockInv DEF Next

LEMMA MoneyInvHolds == Spec => []MoneyInv
BY MoneyInvInit, MoneyInvStep, PTL DEF Spec

-------------------------------------------------------------------------------
(* What follows. *)

\* The queue, the item, the writes and the calls keep their types.
THEOREM MoneyTyped == Spec => []TypeOK
<1>1. MoneyInv => TypeOK
  BY QueueTyped DEF MoneyInv, OwnTypes, TypeOK
<1>. QED
  BY <1>1, MoneyInvHolds, PTL

\* A large amount leaves the platform only as two different people agreed, in the mode and
\* of the amount they agreed to, whatever became of the item meanwhile.
THEOREM LargeMoneyIsShared == Spec => []LargeMoneyTakesTwo
<1>1. MoneyInv => LargeMoneyTakesTwo
  <2>. SUFFICES ASSUME MoneyInv, NEW k \in CallIds, Reached(k), calls[k].act \in DualActs,
                       calls[k].amount >= Threshold
                PROVE  LET i == calls[k].via IN
                         /\ i \in DC!Ids
                         /\ rows[i].status = "approved"
                         /\ rows[i].approver = calls[k].by /\ rows[i].by # calls[k].by
                         /\ rows[i].intent = [act |-> calls[k].act, amount |-> calls[k].amount]
    BY DEF LargeMoneyTakesTwo
  <2>1. calls[k].via # 0
    BY DEF MoneyInv, CallsAgree, NeedsSecond, What, Reached
  <2>2. calls[k].via \in DC!Ids
    BY <2>1 DEF MoneyInv, OwnTypes, Calls
  <2>3. rows[calls[k].via].approver # rows[calls[k].via].by
    BY <2>1, <2>2 DEF MoneyInv, CallsAgree, DCP!IInv, DCP!TwoPeople, DCP!Ids, DC!Ids
  <2>. QED
    BY <2>1, <2>2, <2>3 DEF MoneyInv, CallsAgree, What
<1>. QED
  BY <1>1, MoneyInvHolds, PTL

\* An approval is spent on one call at most, however the calls end.
THEOREM SignaturesAreSpentOnce == Spec => []SignatureSpentOnce
BY MoneyInvHolds, PTL DEF MoneyInv

\* What the trail says of a call is what happened to it, as far as an answer came.
THEOREM TrailIsTruthful == Spec => []TrailMatchesPlatform
BY MoneyInvHolds, PTL DEF MoneyInv

-------------------------------------------------------------------------------
(* The queue inside is the queue of DualControl, and keeps its promises. *)

\* Whatever becomes of the calls, the requests of money take only the steps of the queue.
THEOREM MoneyKeepsTheQueue == Spec => ImplementsQueue
<1>1. Init => DC!Init
  BY DEF Init
<1>2. [Next]_vars => [DC!Next]_(DC!vars)
  <2>. SUFFICES ASSUME [Next]_vars PROVE DC!Next \/ UNCHANGED DC!vars
    OBVIOUS
  <2>1. CASE Platform
    BY <2>1 DEF Platform, Commit, Refuse, Drop, Settle, queue, DC!vars
  <2>2. CASE Clock
    BY <2>2 DEF Clock, DC!Next
  <2>3. ASSUME NEW p \in Procs, Step(p) PROVE DC!Next \/ UNCHANGED DC!vars
    BY <2>3, QueueSteps DEF queue, DC!vars
  <2>4. CASE UNCHANGED vars
    BY <2>4 DEF vars, queue, DC!vars
  <2>. QED
    BY <2>1, <2>2, <2>3, <2>4 DEF Next
<1>. QED
  BY <1>1, <1>2, PTL DEF Spec, ImplementsQueue, DC!Spec

LEMMA QueueSpec == ImplementsQueue => DCP!Spec
<1>1. DC!Init => DCP!Init
  BY OneQueue
<1>2. [DC!Next]_(DC!vars) => [DCP!Next]_(DCP!vars)
  BY OneQueue DEF DC!vars, DCP!vars
<1>. QED
  BY <1>1, <1>2, PTL DEF ImplementsQueue, DC!Spec, DCP!Spec

\* Money moves under the four-eyes promise: its queue implements FourEyes.
THEOREM MoneyFourEyes == Spec => DCP!ImplementsFourEyes
BY MoneyKeepsTheQueue, QueueSpec, QueueConstants, DCP!Refinement, PTL

\* An approved request of money that nobody is working on was carried out, or says why it
\* was not; only the death of its instance leaves it silent.
THEOREM MoneyApprovalsAreExplained == Spec => []DCP!ApprovedIsExplained
BY MoneyKeepsTheQueue, QueueSpec, QueueConstants, DCP!ApprovalsAreExplained, PTL
===============================================================================
