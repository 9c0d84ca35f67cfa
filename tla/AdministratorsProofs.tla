------------------------- MODULE AdministratorsProofs -------------------------
(***************************************************************************)
(* What is proved of Administrators, for any accounts, levels and bounds:  *)
(* its types; that whatever the accounts and the registered handlers do,   *)
(* the approval queue inside takes only the steps of DualControl, so that  *)
(* everything proved of that module holds here too; and that nobody is     *)
(* party to their own case.                                                *)
(***************************************************************************)
EXTENDS Administrators, TLAPS

\* The queue's own theorems, for the intents and levels of administrators.
DCP == INSTANCE DualControlProofs WITH
        Intents <- AdminIntents, Levels <- Tiers, ApproverTiers <- AdminApproverTiers

-------------------------------------------------------------------------------
(* The queue inside. *)

LEMMA QueueConstants == DCP!ConstantsAssumption
BY AccountsAssumption DEF DCP!ConstantsAssumption, AdminApproverTiers, HoldersOf, Tiers

\* DC and DCP are instances of one specification.
LEMMA OneQueue == (DC!Init => DCP!Init) /\ (DC!Next => DCP!Next)
BY DEF DC!Init, DCP!Init, DC!Next, DCP!Next, DC!Ids, DCP!Ids, DC!Verdicts, DCP!Verdicts,
       DC!Idle, DCP!Idle, DC!NoRow, DCP!NoRow, DC!Pending, DCP!Pending,
       DC!Overdue, DCP!Overdue, DC!AskLookup, DCP!AskLookup, DC!NoneOpen, DCP!NoneOpen,
       DC!IndexAdmits, DCP!IndexAdmits, DC!Create, DCP!Create,
       DC!CreateRefused, DCP!CreateRefused, DC!Decidable, DCP!Decidable,
       DC!MayDecide, DCP!MayDecide, DC!Begin, DCP!Begin, DC!ClaimWins, DCP!ClaimWins,
       DC!Claim, DCP!Claim, DC!ClaimLost, DCP!ClaimLost, DC!Expire, DCP!Expire,
       DC!HandlerCommits, DCP!HandlerCommits, DC!HandlerMoot, DCP!HandlerMoot,
       DC!HandlerThrows, DCP!HandlerThrows, DC!HandlerReturns, DCP!HandlerReturns,
       DC!HandlerThrowsLate, DCP!HandlerThrowsLate, DC!RecordFailure, DCP!RecordFailure,
       DC!Crash, DCP!Crash, DC!Tick, DCP!Tick, DC!Asking, DCP!Asking,
       DC!Deciding, DCP!Deciding, DC!Performing, DCP!Performing

LEMMA QueueStarts == Init => DCP!IInv
BY OneQueue, QueueConstants, DCP!InitInv DEF Init

LEMMA QueueStays == DCP!IInv /\ (DC!Next \/ UNCHANGED queue) => DCP!IInv'
BY OneQueue, QueueConstants, DCP!StepInv DEF queue, DCP!vars

LEMMA QueueTyped == DCP!IInv => DC!TypeOK
BY DEF DCP!IInv, DCP!TypeOK, DC!TypeOK, DCP!Rows, DC!Rows, DCP!Jobs, DC!Jobs, DCP!Ids, DC!Ids,
       DCP!Statuses, DC!Statuses, DCP!Verdicts, DC!Verdicts, DCP!Fates, DC!Fates

\* p is carrying out an approved request, or has failed to.
Held(p) == job[p].stage \in {"perform", "after", "failed"}

\* An approved request that p is carrying out is a row with an intent.
LEMMA Carried ==
    ASSUME DCP!IInv, NEW p \in Procs, Held(p)
    PROVE  /\ job[p].id \in DC!Ids /\ rows[job[p].id].status = "approved"
           /\ Approved(p) \in AdminIntents
BY DEF Held, DCP!IInv, DCP!JobsComplete, DCP!RowsComplete, DCP!Holding, DCP!Ids, DC!Ids, Approved

\* While p holds it, nobody changes whose request it is, what it asks or who approved it.
LEMMA HeldStays ==
    ASSUME DCP!IInv, DC!Next \/ UNCHANGED queue, NEW p \in Procs, Held(p), Held(p)'
    PROVE  /\ job'[p].id = job[p].id /\ job'[p].who = job[p].who
           /\ rows'[job[p].id].intent = rows[job[p].id].intent
           /\ rows'[job[p].id].by = rows[job[p].id].by
           /\ rows'[job[p].id].approver = rows[job[p].id].approver
<1>. USE DEF Held
<1>1. /\ job[p].id \in DC!Ids /\ rows[job[p].id].status = "approved"
      /\ rows \in [DC!Ids -> DC!Rows] /\ job \in [Procs -> DC!Jobs]
  BY Carried, QueueTyped DEF DC!TypeOK
<1>. DEFINE SameJob == job'[p].id = job[p].id /\ job'[p].who = job[p].who
            SameRow == LET i == job[p].id IN
                         /\ rows'[i].intent = rows[i].intent
                         /\ rows'[i].by = rows[i].by
                         /\ rows'[i].approver = rows[i].approver
<1>2. CASE UNCHANGED rows /\ UNCHANGED job
  BY <1>2
<1>3. ASSUME NEW q \in Procs, NEW k, job' = [job EXCEPT ![q] = k],
             k.stage \notin {"perform", "after", "failed"}
      PROVE  SameJob
  BY <1>1, <1>3
<1>4. ASSUME NEW q \in Procs, \/ job' = [job EXCEPT ![q].stage = "after"]
                             \/ job' = [job EXCEPT ![q].stage = "failed"]
      PROVE  SameJob
  BY <1>1, <1>4 DEF DC!Jobs
<1>5. DC!Idle.stage = "idle"
  BY DEF DC!Idle
<1>6. ASSUME NEW q \in Procs,
             \/ \E a \in Admins, x \in AdminIntents : DC!AskLookup(q, a, x)
             \/ \E a \in Admins, t \in Tiers, i \in DC!Ids, v \in DC!Verdicts :
                  DC!Begin(q, a, t, i, v)
      PROVE  SameJob /\ SameRow
  BY <1>3, <1>6 DEF DC!AskLookup, DC!Begin, DC!Idle
<1>7. ASSUME NEW q \in Procs, DC!Asking(q) PROVE SameJob /\ SameRow
  BY <1>1, <1>3, <1>5, <1>7 DEF DC!Asking, DC!Create, DC!CreateRefused
<1>8. ASSUME NEW q \in Procs, DC!Deciding(q) PROVE SameJob /\ SameRow
  <2>1. q # p
    BY <1>8 DEF DC!Deciding, DC!Claim, DC!ClaimLost
  <2>. QED
    BY <1>1, <1>8, <2>1 DEF DC!Deciding, DC!Claim, DC!ClaimLost, DC!ClaimWins, DC!Pending
<1>9. ASSUME NEW q \in Procs, DC!Performing(q) PROVE SameJob /\ SameRow
  <2>1. SameJob
    BY <1>3, <1>4, <1>5, <1>9
    DEF DC!Performing, DC!HandlerCommits, DC!HandlerMoot, DC!HandlerThrows,
        DC!HandlerReturns, DC!HandlerThrowsLate, DC!RecordFailure
  <2>2. CASE DC!RecordFailure(q)
    BY <1>1, <2>1, <2>2 DEF DC!RecordFailure, DC!Rows
  <2>. QED
    BY <1>9, <2>1, <2>2
    DEF DC!Performing, DC!HandlerCommits, DC!HandlerMoot, DC!HandlerThrows,
        DC!HandlerReturns, DC!HandlerThrowsLate
<1>10. ASSUME NEW q \in Procs, DC!Crash(q) PROVE SameJob /\ SameRow
  BY <1>3, <1>5, <1>10 DEF DC!Crash
<1>11. ASSUME NEW i \in DC!Ids, DC!Expire(i) PROVE SameJob /\ SameRow
  BY <1>1, <1>11 DEF DC!Expire, DC!Pending
<1>. QED
  BY <1>2, <1>6, <1>7, <1>8, <1>9, <1>10, <1>11 DEF DC!Next, DC!Tick, queue

-------------------------------------------------------------------------------
(* The invariant: types, and what a request carries. *)

AccountTypes ==
    /\ tier \in [Admins -> Tiers]
    /\ status \in [Admins -> {"absent", "pending", "active", "suspended"}]
    /\ from \in [Admins -> {"null", "pending", "active", "suspended"}]
    /\ activated \in [Admins -> BOOLEAN]

DirectWrites ==
    {w \in [op : {"suspend", "reinstate", "set_tier", "activate"}, target : Admins,
            level : Tiers \cup {0}, seen : Tiers] : w.op = "set_tier" => w.level \in Tiers}

\* An authenticated request knows its administrator and level, a loaded write its target.
Requests ==
    /\ identity \in [Procs -> [who : Admins, level : Tiers] \cup {Anonymous}]
    /\ direct \in [Procs -> DirectWrites \cup {NoWrite}]
    /\ seen \in [Procs -> Tiers \cup {0}]

\* What is about to be written is an account that exists.
TargetsExist ==
    \A p \in Procs :
        /\ direct[p] # NoWrite => Exists(direct[p].target)
        /\ seen[p] # 0 => Held(p) /\ Exists(Approved(p).target)

TypeInv == DCP!IInv /\ AccountTypes /\ Requests /\ TargetsExist

LEMMA TypeInvTyped == TypeInv => TypeOK
BY QueueTyped DEF TypeInv, AccountTypes, Requests, DirectWrites, Anonymous, NoWrite, TypeOK

LEMMA TypeInvInit == Init => TypeInv
<1>. SUFFICES ASSUME Init PROVE AccountTypes /\ Requests /\ TargetsExist
  BY QueueStarts DEF TypeInv
<1>. QED
  BY AccountsAssumption DEF Init, AccountTypes, Requests, TargetsExist, Tiers

\* The steps of a request that write an account.
LEMMA AccountSteps ==
    ASSUME NEW p \in Procs, Step(p)
    PROVE  \/ UNCHANGED accounts
           \/ \E a \in Admins, level \in Tiers : CreateAdministrator(p, a, level)
           \/ Write(p)
           \/ HandlerWrites(p)
BY DEF Step, Authenticate, LoadActivation, Load, Queue, BeginDecision, Refused, WriteFails,
       CreateRequest, Decide, HandlerLoads, HandlerRefuses, HandlerNoop, HandlerFails,
       HandlerEnds, Die

\* The steps that change what a request carries.
LEMMA RequestSteps ==
    ASSUME NEW p \in Procs, Step(p)
    PROVE  \/ UNCHANGED local
           \/ Answered(p)
           \/ \E a \in Admins : Authenticate(p, a) \/ LoadActivation(p, a)
           \/ \E x \in AdminIntents : Load(p, x)
           \/ HandlerLoads(p)
BY DEF Step, CreateAdministrator, Queue, BeginDecision, Refused, Write, WriteFails,
       CreateRequest, Decide, HandlerRefuses, HandlerNoop, HandlerWrites, HandlerFails,
       HandlerEnds, EndsWithJob, Die

\* A request that may act has an administrator and a level.
LEMMA FreeKnown ==
    ASSUME Requests, NEW p \in Procs, Free(p)
    PROVE  identity[p].who \in Admins /\ identity[p].level \in Tiers
BY DEF Requests, Free, Anonymous

\* Every step of a request is a step of the queue or leaves it alone.
LEMMA QueueSteps ==
    ASSUME Requests, NEW p \in Procs, Step(p)
    PROVE  DC!Next \/ UNCHANGED queue
<1>1. CASE \/ \E a \in Admins : \/ Authenticate(p, a) \/ LoadActivation(p, a)
                                \/ \E level \in Tiers : CreateAdministrator(p, a, level)
           \/ \E x \in AdminIntents : Load(p, x)
           \/ Refused(p) \/ Write(p) \/ WriteFails(p) \/ HandlerLoads(p)
  BY <1>1 DEF Authenticate, LoadActivation, CreateAdministrator, Load, Refused, Write,
              WriteFails, HandlerLoads
<1>2. CASE \/ \E x \in AdminIntents : Queue(p, x)
           \/ \E i \in DC!Ids, v \in DC!Verdicts : BeginDecision(p, i, v)
  <2>1. Free(p)
    BY <1>2 DEF Queue, Cleared, BeginDecision
  <2>2. PICK a \in Admins, t \in Tiers : a = identity[p].who /\ t = identity[p].level
    BY <2>1, FreeKnown
  <2>. QED
    BY <1>2, <2>2 DEF Queue, BeginDecision, DC!Next
<1>3. CASE CreateRequest(p) \/ Decide(p)
  BY <1>3 DEF CreateRequest, Decide, DC!Next, DC!Asking, DC!Deciding
<1>4. CASE HandlerRefuses(p) \/ HandlerNoop(p) \/ HandlerWrites(p) \/ HandlerFails(p)
             \/ HandlerEnds(p)
  BY <1>4 DEF HandlerRefuses, HandlerNoop, HandlerWrites, HandlerFails, HandlerEnds,
              DC!Next, DC!Performing
<1>5. CASE Die(p)
  BY <1>5 DEF Die, DC!Next
<1>. QED
  BY <1>1, <1>2, <1>3, <1>4, <1>5 DEF Step

LEMMA AccountTypesStep ==
    ASSUME TypeInv, NEW p \in Procs, Step(p)
    PROVE  AccountTypes'
<1>. USE DEF TypeInv
<1>1. CASE UNCHANGED accounts
  BY <1>1 DEF accounts, AccountTypes
<1>2. CASE \E a \in Admins, level \in Tiers : CreateAdministrator(p, a, level)
  BY <1>2 DEF CreateAdministrator, AccountTypes
<1>3. ASSUME NEW a \in Admins,
             (Exists(a) /\ Suspend(a)) \/ Reinstate(a) \/ Activate(a)
      PROVE  AccountTypes'
  <2>1. CASE Exists(a) /\ Suspend(a)
    BY <2>1 DEF Suspend, Exists, AccountTypes
  <2>2. CASE Reinstate(a)
    BY <2>2 DEF Reinstate, Restored, AccountTypes
  <2>3. CASE Activate(a)
    BY <2>3 DEF Activate, AccountTypes
  <2>. QED
    BY <1>3, <2>1, <2>2, <2>3
<1>4. ASSUME NEW a \in Admins, NEW level \in Tiers, NEW expected, SetTier(a, level, expected)
      PROVE  AccountTypes'
  BY <1>4 DEF SetTier, AccountTypes
<1>5. CASE Write(p)
  <2>1. direct[p].op \in {"suspend", "reinstate", "set_tier", "activate"}
    BY <1>5 DEF Write, Writes
  <2>2. direct[p] \in DirectWrites
    BY <2>1 DEF Requests, NoWrite
  <2>3. Exists(direct[p].target)
    BY <2>1 DEF TargetsExist, NoWrite
  <2>. QED
    BY <1>3, <1>4, <1>5, <2>2, <2>3 DEF Write, Writes, DirectWrites
<1>6. CASE HandlerWrites(p)
  <2>1. Approved(p) \in AdminIntents
    BY <1>6, Carried DEF HandlerWrites, DC!HandlerCommits, Held
  <2>2. /\ Approved(p).target \in Admins
        /\ Approved(p).act = "set_tier" => Approved(p).level \in Tiers
    BY <2>1 DEF AdminIntents, TierIntents, StandIntents
  <2>3. Exists(Approved(p).target)
    BY <1>6 DEF HandlerWrites, TargetsExist
  <2>. QED
    BY <1>3, <1>4, <1>6, <2>2, <2>3 DEF HandlerWrites, Performs
<1>. QED
  BY <1>1, <1>2, <1>5, <1>6, AccountSteps

LEMMA RequestsStep ==
    ASSUME TypeInv, NEW p \in Procs, Step(p)
    PROVE  Requests'
<1>. USE DEF TypeInv
<1>1. CASE UNCHANGED local
  BY <1>1 DEF local, Requests
<1>2. CASE Answered(p)
  BY <1>2 DEF Answered, Requests
<1>3. CASE \E a \in Admins : Authenticate(p, a)
  BY <1>3 DEF Authenticate, Requests, AccountTypes
<1>4. CASE \E a \in Admins : LoadActivation(p, a)
  BY <1>4 DEF LoadActivation, Requests, AccountTypes, DirectWrites
<1>5. CASE \E x \in AdminIntents : Load(p, x)
  <2>1. PICK x \in AdminIntents : Load(p, x)
    BY <1>5
  <2>2. /\ x.act \in {"suspend", "reinstate", "set_tier"} /\ x.target \in Admins
        /\ x.level \in Tiers \cup {0}
        /\ x.act = "set_tier" => x.level \in Tiers
    BY DEF AdminIntents, TierIntents, StandIntents
  <2>3. [op |-> x.act, target |-> x.target, level |-> x.level, seen |-> tier[x.target]]
          \in DirectWrites
    <3>1. tier[x.target] \in Tiers
      BY <2>2 DEF AccountTypes
    <3>. DEFINE w == [op |-> x.act, target |-> x.target, level |-> x.level,
                      seen |-> tier[x.target]]
    <3>2. w \in [op : {"suspend", "reinstate", "set_tier", "activate"}, target : Admins,
                 level : Tiers \cup {0}, seen : Tiers]
      BY <2>2, <3>1
    <3>3. w.op = "set_tier" => w.level \in Tiers
      BY <2>2
    <3>. QED
      BY <3>2, <3>3 DEF DirectWrites
  <2>. QED
    BY <2>1, <2>3 DEF Load, Requests
<1>6. CASE HandlerLoads(p)
  <2>1. Approved(p).target \in Admins
    BY <1>6, Carried DEF HandlerLoads, Held, AdminIntents, TierIntents, StandIntents
  <2>. QED
    BY <1>6, <2>1 DEF HandlerLoads, Requests, AccountTypes
<1>. QED
  BY <1>1, <1>2, <1>3, <1>4, <1>5, <1>6, RequestSteps

\* Requests do not touch one another, and an account that exists goes on existing.
LEMMA Others ==
    ASSUME TypeInv, NEW p \in Procs, Step(p), NEW q \in Procs, q # p
    PROVE  direct'[q] = direct[q] /\ seen'[q] = seen[q] /\ identity'[q] = identity[q]
BY RequestSteps
DEF TypeInv, Requests, local, Answered, Authenticate, LoadActivation, Load, HandlerLoads

LEMMA AccountsRemain ==
    ASSUME TypeInv, NEW p \in Procs, Step(p), NEW a \in Admins, Exists(a)
    PROVE  Exists(a)'
<1>. USE DEF TypeInv, AccountTypes, Exists
<1>1. CASE UNCHANGED accounts
  BY <1>1 DEF accounts
<1>2. CASE \E b \in Admins, level \in Tiers : CreateAdministrator(p, b, level)
  BY <1>2 DEF CreateAdministrator
<1>3. ASSUME NEW b, (Suspend(b) \/ Reinstate(b) \/ Activate(b)) \/ UNCHANGED status
      PROVE  Exists(a)'
  <2>1. CASE Suspend(b)
    BY <2>1 DEF Suspend
  <2>2. CASE Reinstate(b)
    <3>1. CASE b = a
      BY <2>2, <3>1 DEF Reinstate, Restored
    <3>. QED
      BY <2>2, <3>1 DEF Reinstate
  <2>3. CASE Activate(b)
    BY <2>3 DEF Activate
  <2>. QED
    BY <1>3, <2>1, <2>2, <2>3
<1>4. CASE Write(p) \/ HandlerWrites(p)
  BY <1>3, <1>4 DEF Write, Writes, HandlerWrites, Performs, SetTier
<1>. QED
  BY <1>1, <1>2, <1>4, AccountSteps

\* A process that has loaded its target holds its request until it is answered.
LEMMA HeldUntilAnswered ==
    ASSUME TypeInv, NEW p \in Procs, Step(p), NEW q \in Procs, seen[q] # 0, seen'[q] # 0
    PROVE  Held(q)'
<1>. USE DEF TypeInv, TargetsExist, Held
<1>1. Held(q) /\ job \in [Procs -> DC!Jobs]
  BY QueueTyped DEF DC!TypeOK
<1>2. CASE UNCHANGED queue
  BY <1>1, <1>2 DEF queue
<1>3. CASE \/ \E x \in AdminIntents : Queue(p, x)
           \/ \E i \in DC!Ids, v \in DC!Verdicts : BeginDecision(p, i, v)
  BY <1>1, <1>3 DEF Queue, BeginDecision, DC!AskLookup, DC!Begin
<1>4. CASE CreateRequest(p) \/ Decide(p)
  BY <1>1, <1>4 DEF CreateRequest, DC!Create, DC!CreateRefused, Decide, DC!Claim, DC!ClaimLost
<1>5. CASE HandlerRefuses(p) \/ HandlerNoop(p)
  BY <1>1, <1>5 DEF HandlerRefuses, HandlerNoop, DC!HandlerThrows, DC!HandlerMoot
<1>6. CASE HandlerWrites(p) \/ HandlerFails(p)
  BY <1>1, <1>6 DEF HandlerWrites, DC!HandlerCommits, HandlerFails, DC!HandlerThrows, DC!Jobs
<1>7. CASE HandlerEnds(p)
  <2>1. CASE q # p
    BY <1>1, <1>7, <2>1
    DEF HandlerEnds, DC!HandlerReturns, DC!HandlerThrowsLate, DC!RecordFailure
  <2>2. CASE q = p /\ DC!HandlerThrowsLate(p)
    BY <1>1, <2>2 DEF DC!HandlerThrowsLate, DC!Jobs
  <2>3. CASE q = p /\ (DC!HandlerReturns(p) \/ DC!RecordFailure(p))
    <3>1. job'[p].stage = "idle"
      BY <1>1, <2>3 DEF DC!HandlerReturns, DC!RecordFailure, DC!Idle
    <3>. QED
      BY <1>7, <2>3, <3>1 DEF HandlerEnds, EndsWithJob, Answered, Requests
  <2>. QED
    BY <1>7, <2>1, <2>2, <2>3 DEF HandlerEnds
<1>8. CASE Die(p)
  <2>1. q # p
    BY <1>8 DEF Die, Answered, Requests
  <2>. QED
    BY <1>1, <1>2, <1>8, <2>1 DEF Die, DC!Crash
<1>. QED
  BY <1>2, <1>3, <1>4, <1>5, <1>6, <1>7, <1>8
  DEF Step, Authenticate, LoadActivation, CreateAdministrator, Load, Refused, Write,
      WriteFails, HandlerLoads

LEMMA TargetsExistStep ==
    ASSUME TypeInv, NEW p \in Procs, Step(p)
    PROVE  TargetsExist'
<1>1. ASSUME NEW q \in Procs, direct'[q] # NoWrite PROVE Exists(direct[q].target)'
  <2>1. CASE direct'[q] = direct[q]
    <3>1. direct[q].target \in Admins /\ Exists(direct[q].target)
      BY <1>1, <2>1 DEF TypeInv, Requests, DirectWrites, TargetsExist
    <3>. QED
      BY <2>1, <3>1, AccountsRemain
  <2>2. CASE \E a \in Admins : LoadActivation(p, a)
    BY <2>1, <2>2, Others DEF LoadActivation, TypeInv, Requests, Exists, accounts
  <2>3. CASE \E x \in AdminIntents : Load(p, x)
    BY <2>1, <2>3, Others DEF Load, Cleared, TypeInv, Requests, Exists, accounts
  <2>4. CASE Answered(p)
    BY <1>1, <2>1, <2>4, Others DEF Answered, TypeInv, Requests
  <2>. QED
    BY <2>1, <2>2, <2>3, <2>4, RequestSteps DEF local, Authenticate, HandlerLoads
<1>2. ASSUME NEW q \in Procs, seen'[q] # 0 PROVE (Held(q) /\ Exists(Approved(q).target))'
  <2>1. CASE HandlerLoads(p) /\ q = p
    BY <2>1 DEF HandlerLoads, HandlerAllows, Held, Approved, Exists, queue, accounts
  <2>2. CASE ~(HandlerLoads(p) /\ q = p)
    <3>1. seen[q] # 0
      BY <1>2, <2>2, RequestSteps, Others
      DEF local, Answered, Authenticate, LoadActivation, Load, TypeInv, Requests
    <3>2. Held(q) /\ Held(q)' /\ Exists(Approved(q).target)
      BY <1>2, <3>1, HeldUntilAnswered DEF TypeInv, TargetsExist
    <3>3. Approved(q) \in AdminIntents /\ Approved(q)' = Approved(q)
      BY <3>2, Carried, HeldStays, QueueSteps DEF TypeInv, Approved
    <3>4. Approved(q).target \in Admins
      BY <3>3 DEF AdminIntents, TierIntents, StandIntents
    <3>. QED
      BY <3>2, <3>3, <3>4, AccountsRemain
  <2>. QED
    BY <2>1, <2>2
<1>. QED
  BY <1>1, <1>2 DEF TargetsExist

\* The clock and the expiry sweep touch nothing that a request is about to write.
LEMMA TargetsExistElsewhere ==
    ASSUME TypeInv, DC!Next \/ UNCHANGED queue, UNCHANGED <<accounts, local, job>>
    PROVE  TargetsExist'
<1>1. ASSUME NEW q \in Procs, seen[q] # 0 PROVE (Held(q) /\ Exists(Approved(q).target))'
  <2>1. Held(q) /\ Held(q)' /\ Exists(Approved(q).target)
    BY <1>1 DEF TypeInv, TargetsExist, Held
  <2>2. Approved(q)' = Approved(q)
    BY <2>1, HeldStays DEF TypeInv, Approved
  <2>. QED
    BY <2>1, <2>2 DEF Exists, accounts
<1>. QED
  BY <1>1 DEF TypeInv, TargetsExist, local, accounts, Exists

LEMMA TypeInvStep == TypeInv /\ [Next]_vars => TypeInv'
<1>. SUFFICES ASSUME TypeInv, [Next]_vars PROVE TypeInv'
  OBVIOUS
<1>1. ASSUME NEW p \in Procs, Step(p) PROVE TypeInv'
  BY <1>1, QueueSteps, QueueStays, AccountTypesStep, RequestsStep, TargetsExistStep DEF TypeInv
<1>2. CASE Environment \/ UNCHANGED vars
  <2>1. DC!Next \/ UNCHANGED queue
    BY <1>2 DEF Environment, DC!Next, vars
  <2>2. UNCHANGED <<accounts, local, job>>
    BY <1>2 DEF Environment, DC!Expire, DC!Tick, vars, queue
  <2>. QED
    BY <2>1, <2>2, QueueStays, TargetsExistElsewhere
    DEF TypeInv, accounts, local, AccountTypes, Requests
<1>. QED
  BY <1>1, <1>2 DEF Next

LEMMA TypesHold == Spec => []TypeInv
BY TypeInvInit, TypeInvStep, PTL DEF Spec

\* Accounts, requests and the queue keep their types in every behaviour.
THEOREM AdministratorsTyped == Spec => []TypeOK
BY TypesHold, TypeInvTyped, PTL

\* Administrators implements DualControl: each of its steps is one of the queue or does
\* not touch it.
THEOREM QueueIsDualControl == Spec => ImplementsQueue
<1>1. TypeInv /\ [Next]_vars => [DC!Next]_(DC!vars)
  <2>. SUFFICES ASSUME TypeInv, [Next]_vars PROVE DC!Next \/ UNCHANGED queue
    BY DEF queue, DC!vars
  <2>1. CASE Environment
    BY <2>1 DEF Environment, DC!Next
  <2>. QED
    BY <2>1, QueueSteps DEF Next, TypeInv, vars
<1>2. Init => DC!Init
  BY DEF Init
<1>. QED
  BY <1>1, <1>2, TypesHold, PTL DEF Spec, ImplementsQueue, DC!Spec

-------------------------------------------------------------------------------
(* Who is party to what. *)

\* A request asks, decides and performs in the name of whoever it authenticated, and only
\* one of its two ways to write is open.
NamesAgree ==
    \A p \in Procs :
        /\ job[p].stage # "idle" => /\ identity[p].who # None
                                   /\ identity[p].who = job[p].who
                                   /\ direct[p] = NoWrite
        /\ direct[p] # NoWrite => identity[p].who # None
        /\ Held(p) => rows[job[p].id].approver = job[p].who

\* Nobody asks for something against themselves, and a handler that has checked the rules
\* is not run against the one who approved it.
ThirdParties ==
    /\ \A i \in DC!Ids : rows[i].status # "none" => rows[i].by # rows[i].intent.target
    /\ \A p \in Procs :
         /\ job[p].stage = "create" => job[p].who # job[p].intent.target
         /\ seen[p] # 0 /\ Approved(p).act # "reinstate" => job[p].who # Approved(p).target

\* A change of level somebody makes alone is below them at both ends.
DirectRank ==
    \A p \in Procs :
        direct[p].op = "set_tier" => /\ identity[p].level < direct[p].seen
                                     /\ identity[p].level < direct[p].level

PartyInv == TypeInv /\ NamesAgree /\ ThirdParties /\ DirectRank
              /\ NobodyIsPartyToTheirOwnCase

LEMMA PartyInvInit == Init => PartyInv
<1>. SUFFICES ASSUME Init
              PROVE  NamesAgree /\ ThirdParties /\ DirectRank /\ NobodyIsPartyToTheirOwnCase
  BY TypeInvInit DEF PartyInv
<1>. QED
  BY DEF Init, DC!Init, DC!Idle, DC!NoRow, NamesAgree, Held, ThirdParties, DirectRank, NoWrite,
         NobodyIsPartyToTheirOwnCase

\* A row keeps its requester and its intent, an approved one its approver.
LEMMA RowStays ==
    ASSUME DCP!IInv, DC!Next \/ UNCHANGED queue, NEW i \in DC!Ids, rows[i].status # "none"
    PROVE  /\ rows'[i].status # "none"
           /\ rows'[i].intent = rows[i].intent /\ rows'[i].by = rows[i].by
           /\ rows[i].status = "approved" => rows'[i].approver = rows[i].approver
<1>. DEFINE Stays == /\ rows'[i].status # "none"
                     /\ rows'[i].intent = rows[i].intent /\ rows'[i].by = rows[i].by
                     /\ rows[i].status = "approved" => rows'[i].approver = rows[i].approver
<1>1. rows \in [DC!Ids -> DC!Rows] /\ job \in [Procs -> DC!Jobs]
  BY QueueTyped DEF DC!TypeOK
<1>2. CASE UNCHANGED rows
  BY <1>2
<1>3. ASSUME NEW p \in Procs, DC!Create(p) PROVE Stays
  BY <1>1, <1>3 DEF DC!Create
<1>4. ASSUME NEW p \in Procs, DC!Claim(p) PROVE Stays
  <2>1. job[p].id \in DC!Ids /\ job[p].verdict \in DC!Verdicts /\ rows[job[p].id].status = "pending"
    BY <1>4 DEF DC!Claim, DC!ClaimWins, DC!Pending, DCP!IInv, DCP!JobsComplete, DCP!Ids, DC!Ids,
                DCP!Verdicts, DC!Verdicts
  <2>. QED
    BY <1>1, <1>4, <2>1 DEF DC!Claim, DC!Rows, DC!Verdicts
<1>5. ASSUME NEW p \in Procs, DC!RecordFailure(p) PROVE Stays
  BY <1>1, <1>5 DEF DC!RecordFailure, DC!Rows
<1>6. ASSUME NEW j \in DC!Ids, DC!Expire(j) PROVE Stays
  BY <1>1, <1>6 DEF DC!Expire, DC!Pending, DC!Rows
<1>. QED
  BY <1>2, <1>3, <1>4, <1>5, <1>6
  DEF DC!Next, DC!AskLookup, DC!Begin, DC!Asking, DC!CreateRefused, DC!Deciding, DC!ClaimLost,
      DC!Performing, DC!HandlerCommits, DC!HandlerMoot, DC!HandlerThrows, DC!HandlerReturns,
      DC!HandlerThrowsLate, DC!Crash, DC!Tick, queue

\* The ways in which a request moves its job.
JobStep(p) ==
    \/ UNCHANGED job
    \/ \E x \in AdminIntents : Queue(p, x)
    \/ \E i \in DC!Ids, v \in DC!Verdicts : BeginDecision(p, i, v)
    \/ /\ Decide(p) /\ job'[p].stage = "perform" /\ UNCHANGED local
       /\ rows'[job[p].id].approver = job[p].who
       /\ job' = [job EXCEPT ![p].stage = "perform"]
    \/ \E s \in {"after", "failed"} : /\ Held(p) /\ UNCHANGED local
                                       /\ job' = [job EXCEPT ![p].stage = s]
    \/ Answered(p) /\ job' = [job EXCEPT ![p] = DC!Idle]

LEMMA JobSteps ==
    ASSUME TypeInv, NEW p \in Procs, Step(p)
    PROVE  JobStep(p)
<1>. USE DEF JobStep
<1>1. rows \in [DC!Ids -> DC!Rows] /\ job \in [Procs -> DC!Jobs]
  BY QueueTyped DEF DC!TypeOK, TypeInv
<1>2. ASSUME job' = [job EXCEPT ![p] = DC!Idle], EndsWithJob(p) PROVE JobStep(p)
  BY <1>1, <1>2 DEF EndsWithJob, DC!Idle
<1>3. ASSUME job' = [job EXCEPT ![p].stage = "failed"], EndsWithJob(p), Held(p)
      PROVE  JobStep(p)
  <2>1. job'[p].stage = "failed"
    BY <1>1, <1>3 DEF DC!Jobs
  <2>. QED
    BY <1>3, <2>1 DEF EndsWithJob
<1>4. CASE CreateRequest(p)
  BY <1>2, <1>4 DEF CreateRequest, DC!Create, DC!CreateRefused
<1>5. CASE Decide(p)
  <2>1. CASE DC!ClaimLost(p)
    BY <1>2, <1>5, <2>1 DEF Decide, DC!ClaimLost
  <2>2. CASE DC!Claim(p) /\ job[p].verdict # "approved"
    BY <1>2, <1>5, <2>2 DEF Decide, DC!Claim
  <2>3. CASE DC!Claim(p) /\ job[p].verdict = "approved"
    <3>1. job[p].id \in DC!Ids
      BY <2>3 DEF DC!Claim, TypeInv, DCP!IInv, DCP!JobsComplete, DCP!Ids, DC!Ids
    <3>2. job' = [job EXCEPT ![p].stage = "perform"]
      BY <1>1, <2>3 DEF DC!Claim
    <3>3. job'[p].stage = "perform" /\ rows'[job[p].id].approver = job[p].who
      BY <1>1, <2>3, <3>1, <3>2 DEF DC!Claim, DC!Jobs, DC!Rows
    <3>. QED
      BY <1>5, <3>2, <3>3 DEF Decide, EndsWithJob
  <2>. QED
    BY <1>5, <2>1, <2>2, <2>3 DEF Decide
<1>6. CASE HandlerRefuses(p) \/ HandlerFails(p)
  BY <1>6 DEF HandlerRefuses, HandlerFails, DC!HandlerThrows, Held
<1>7. CASE HandlerNoop(p)
  BY <1>7 DEF HandlerNoop, DC!HandlerMoot
<1>8. CASE HandlerWrites(p)
  BY <1>8 DEF HandlerWrites, DC!HandlerCommits, Held
<1>9. CASE HandlerEnds(p)
  BY <1>2, <1>3, <1>9
  DEF HandlerEnds, DC!HandlerReturns, DC!HandlerThrowsLate, DC!RecordFailure, Held
<1>10. CASE Die(p)
  BY <1>10 DEF Die, DC!Crash, queue
<1>. QED
  BY <1>4, <1>5, <1>6, <1>7, <1>8, <1>9, <1>10
  DEF Step, Authenticate, LoadActivation, CreateAdministrator, Load, Refused, Write,
      WriteFails, HandlerLoads, queue

\* The same, by the stage the job was in and the stage it moves to.
LEMMA JobMoves ==
    ASSUME TypeInv, NEW p \in Procs, Step(p)
    PROVE  \/ UNCHANGED job
           \/ /\ job[p].stage = "idle"
              /\ \/ \E x \in AdminIntents : Queue(p, x)
                 \/ \E i \in DC!Ids, v \in DC!Verdicts : BeginDecision(p, i, v)
           \/ /\ job[p].stage = "claim"
              /\ job'[p].stage = "perform" /\ job'[p].who = job[p].who /\ job'[p].id = job[p].id
              /\ rows'[job[p].id].approver = job[p].who
           \/ Held(p) /\ job'[p].stage \in {"after", "failed"} /\ job'[p].who = job[p].who
           \/ job'[p].stage = "idle"
<1>1. job \in [Procs -> DC!Jobs] /\ DC!Idle.stage = "idle"
  BY QueueTyped DEF TypeInv, DC!TypeOK, DC!Idle
<1>2. CASE \/ \E x \in AdminIntents : Queue(p, x)
           \/ \E i \in DC!Ids, v \in DC!Verdicts : BeginDecision(p, i, v)
  BY <1>2 DEF Queue, Cleared, BeginDecision, Free
<1>3. CASE /\ Decide(p) /\ rows'[job[p].id].approver = job[p].who
           /\ job' = [job EXCEPT ![p].stage = "perform"]
  BY <1>1, <1>3 DEF Decide, DC!Claim, DC!ClaimLost, DC!Jobs
<1>4. ASSUME NEW s \in {"after", "failed"}, Held(p), job' = [job EXCEPT ![p].stage = s]
      PROVE  job'[p].stage \in {"after", "failed"} /\ job'[p].who = job[p].who
  BY <1>1, <1>4 DEF DC!Jobs
<1>5. CASE job' = [job EXCEPT ![p] = DC!Idle]
  BY <1>1, <1>5
<1>. QED
  BY <1>2, <1>3, <1>4, <1>5, JobSteps DEF JobStep

\* A request keeps its identity while it is in the queue.
LEMMA BusyKeeps ==
    ASSUME TypeInv, NamesAgree, NEW p \in Procs, Step(p),
           job[p].stage # "idle", job'[p].stage # "idle"
    PROVE  identity'[p] = identity[p] /\ direct'[p] = direct[p]
<1>1. identity[p].who # None /\ direct[p] = NoWrite /\ ~Free(p)
  BY DEF NamesAgree, Free
<1>2. CASE UNCHANGED local
  BY <1>2 DEF local
<1>3. CASE CreateRequest(p) \/ Decide(p) \/ HandlerEnds(p)
  BY <1>3 DEF CreateRequest, Decide, HandlerEnds, EndsWithJob, local
<1>4. CASE Write(p) \/ WriteFails(p)
  BY <1>1, <1>4 DEF Write, Writes, WriteFails, NoWrite
<1>5. CASE HandlerNoop(p) \/ Die(p)
  BY <1>5, QueueTyped
  DEF HandlerNoop, DC!HandlerMoot, Die, DC!Crash, DC!Idle, TypeInv, DC!TypeOK
<1>. QED
  BY <1>1, <1>2, <1>3, <1>4, <1>5
  DEF Step, Authenticate, Anonymous, LoadActivation, CreateAdministrator, Load, Cleared, Queue,
      BeginDecision, Refused, HandlerLoads, HandlerRefuses, HandlerWrites, HandlerFails

LEMMA NamesAgreeStep ==
    ASSUME TypeInv, NamesAgree, NEW p \in Procs, Step(p)
    PROVE  NamesAgree'
<1>. USE DEF TypeInv
<1>1. job \in [Procs -> DC!Jobs]
  BY QueueTyped DEF DC!TypeOK
<1>2. ASSUME NEW q \in Procs, q # p
      PROVE  /\ job'[q] = job[q] /\ direct'[q] = direct[q] /\ identity'[q] = identity[q]
  BY <1>1, <1>2, JobSteps, Others
  DEF JobStep, Queue, BeginDecision, DC!AskLookup, DC!Begin
<1>3. ASSUME NEW q \in Procs, job'[q].stage # "idle"
      PROVE  identity'[q].who # None /\ identity'[q].who = job'[q].who /\ direct'[q] = NoWrite
  <2>1. CASE q # p
    BY <1>2, <1>3, <2>1 DEF NamesAgree
  <2>2. CASE q = p /\ job[p].stage # "idle"
    <3>1. job'[p].who = job[p].who
      BY <1>3, <2>2, JobMoves
    <3>. QED
      BY <1>3, <2>2, <3>1, BusyKeeps DEF NamesAgree
  <2>3. CASE q = p /\ job[p].stage = "idle"
    <3>1. \/ \E x \in AdminIntents : Queue(p, x)
          \/ \E i \in DC!Ids, v \in DC!Verdicts : BeginDecision(p, i, v)
      BY <1>3, <2>3, JobMoves DEF Held
    <3>2. Free(p) /\ UNCHANGED local /\ job'[p].who = identity[p].who
      BY <1>1, <3>1 DEF Queue, Cleared, BeginDecision, DC!AskLookup, DC!Begin, DC!Idle
    <3>. QED
      BY <2>3, <3>2 DEF Free, local
  <2>. QED
    BY <2>1, <2>2, <2>3
<1>4. ASSUME NEW q \in Procs, direct'[q] # NoWrite PROVE identity'[q].who # None
  <2>1. CASE q # p
    BY <1>2, <1>4, <2>1 DEF NamesAgree
  <2>2. CASE q = p
    BY <1>4, <2>2, RequestSteps
    DEF local, Answered, Authenticate, LoadActivation, Load, Cleared, Free, HandlerLoads,
        Requests, NamesAgree, Anonymous
  <2>. QED
    BY <2>1, <2>2
<1>5. ASSUME NEW q \in Procs, Held(q)' PROVE (rows[job[q].id].approver = job[q].who)'
  <2>1. CASE Held(q)
    <3>1. job[q].id \in DC!Ids /\ rows[job[q].id].approver = job[q].who
      BY <2>1, Carried DEF NamesAgree
    <3>. QED
      BY <1>5, <2>1, <3>1, HeldStays, QueueSteps
  <2>2. CASE ~Held(q)
    <3>1. q = p
      BY <1>2, <1>5, <2>2 DEF Held
    <3>2. ASSUME \/ \E x \in AdminIntents : Queue(p, x)
                 \/ \E i \in DC!Ids, v \in DC!Verdicts : BeginDecision(p, i, v)
          PROVE  ~Held(p)'
      BY <1>1, <3>2 DEF Queue, BeginDecision, DC!AskLookup, DC!Begin, DC!Idle, Held
    <3>. QED
      BY <1>5, <2>2, <3>1, <3>2, JobMoves DEF Held
  <2>. QED
    BY <2>1, <2>2
<1>. QED
  BY <1>3, <1>4, <1>5 DEF NamesAgree

\* A new row is what a request was about to ask.
LEMMA NewRow ==
    ASSUME DCP!IInv, DC!Next \/ UNCHANGED queue, NEW i \in DC!Ids,
           rows[i].status = "none", rows'[i].status # "none"
    PROVE  \E p \in Procs : /\ job[p].stage = "create"
                            /\ rows'[i].by = job[p].who /\ rows'[i].intent = job[p].intent
<1>1. rows \in [DC!Ids -> DC!Rows] /\ job \in [Procs -> DC!Jobs]
  BY QueueTyped DEF DC!TypeOK
<1>2. ASSUME NEW p \in Procs, DC!Create(p)
      PROVE  /\ job[p].stage = "create"
             /\ rows'[i].by = job[p].who /\ rows'[i].intent = job[p].intent
  BY <1>1, <1>2 DEF DC!Create, DC!NoRow
<1>3. ASSUME NEW p \in Procs, DC!Claim(p) PROVE FALSE
  BY <1>1, <1>3 DEF DC!Claim, DC!ClaimWins, DC!Pending
<1>4. ASSUME NEW p \in Procs, DC!RecordFailure(p) PROVE FALSE
  BY <1>1, <1>4 DEF DC!RecordFailure, DC!Rows
<1>5. ASSUME NEW j \in DC!Ids, DC!Expire(j) PROVE FALSE
  BY <1>1, <1>5 DEF DC!Expire, DC!Pending
<1>. QED
  BY <1>2, <1>3, <1>4, <1>5
  DEF DC!Next, DC!AskLookup, DC!Begin, DC!Asking, DC!CreateRefused, DC!Deciding, DC!ClaimLost,
      DC!Performing, DC!HandlerCommits, DC!HandlerMoot, DC!HandlerThrows, DC!HandlerReturns,
      DC!HandlerThrowsLate, DC!Crash, DC!Tick, queue

LEMMA ThirdPartiesStep ==
    ASSUME PartyInv, NEW p \in Procs, Step(p)
    PROVE  ThirdParties'
<1>. USE DEF PartyInv, TypeInv
<1>1. job \in [Procs -> DC!Jobs] /\ (DC!Next \/ UNCHANGED queue)
  BY QueueTyped, QueueSteps DEF DC!TypeOK
<1>2. ASSUME NEW i \in DC!Ids, rows'[i].status # "none"
      PROVE  rows'[i].by # rows'[i].intent.target
  BY <1>1, <1>2, RowStays, NewRow DEF ThirdParties
<1>3. ASSUME NEW q \in Procs, job'[q].stage = "create"
      PROVE  job'[q].who # job'[q].intent.target
  <2>1. CASE job'[q] = job[q]
    BY <1>3, <2>1 DEF ThirdParties
  <2>2. ASSUME NEW x \in AdminIntents, Queue(p, x), q = p
        PROVE  job'[q].who # job'[q].intent.target
    BY <1>1, <2>2 DEF Queue, Second, NeedsSecond, DC!AskLookup, DC!Idle
  <2>3. ASSUME NEW x \in AdminIntents, Queue(p, x), q # p PROVE job'[q] = job[q]
    BY <1>1, <2>3 DEF Queue, DC!AskLookup
  <2>4. CASE \E i \in DC!Ids, v \in DC!Verdicts : BeginDecision(p, i, v)
    BY <1>1, <1>3, <2>1, <2>4 DEF BeginDecision, DC!Begin, DC!Idle
  <2>5. CASE q # p /\ UNCHANGED job
    BY <2>1, <2>5
  <2>. QED
    BY <1>1, <1>3, <2>1, <2>2, <2>3, <2>4, JobSteps DEF JobStep, DC!Jobs, DC!Idle
<1>4. ASSUME NEW q \in Procs, seen'[q] # 0, Approved(q)'.act # "reinstate"
      PROVE  job'[q].who # Approved(q)'.target
  <2>1. CASE HandlerLoads(p) /\ q = p
    <3>1. /\ Approved(p) \in AdminIntents /\ Approved(p)' = Approved(p)
          /\ job'[p] = job[p] /\ identity[p].who = job[p].who
      BY <2>1, Carried DEF HandlerLoads, Held, Approved, queue, NamesAgree
    <3>2. Approved(p).act \in {"suspend", "set_tier"}
      BY <1>4, <2>1, <3>1 DEF AdminIntents, TierIntents, StandIntents
    <3>. QED
      BY <2>1, <3>1, <3>2 DEF HandlerLoads, HandlerAllows, MayActOn, SelfForbidden
  <2>2. CASE ~(HandlerLoads(p) /\ q = p)
    <3>1. seen[q] # 0
      BY <1>4, <2>2, RequestSteps, Others
      DEF local, Answered, Authenticate, LoadActivation, Load, Requests
    <3>2. Held(q) /\ Held(q)'
      BY <1>4, <3>1, HeldUntilAnswered DEF TargetsExist
    <3>3. Approved(q)' = Approved(q) /\ job'[q].who = job[q].who
      BY <1>1, <3>2, HeldStays DEF Approved
    <3>. QED
      BY <1>4, <3>1, <3>3 DEF ThirdParties
  <2>. QED
    BY <2>1, <2>2
<1>. QED
  BY <1>2, <1>3, <1>4 DEF ThirdParties

LEMMA DirectRankStep ==
    ASSUME PartyInv, NEW p \in Procs, Step(p)
    PROVE  DirectRank'
<1>. SUFFICES ASSUME NEW q \in Procs, direct'[q].op = "set_tier"
              PROVE  /\ identity'[q].level < direct'[q].seen
                     /\ identity'[q].level < direct'[q].level
  BY DEF DirectRank
<1>. USE DEF PartyInv, TypeInv
<1>1. CASE direct'[q] = direct[q] /\ identity'[q] = identity[q]
  BY <1>1 DEF DirectRank
<1>2. CASE q # p
  BY <1>1, <1>2, Others
<1>3. ASSUME q = p, NEW x \in AdminIntents, Load(p, x)
      PROVE  /\ identity'[q].level < direct'[q].seen
             /\ identity'[q].level < direct'[q].level
  <2>1. /\ direct'[p] = [op |-> x.act, target |-> x.target, level |-> x.level,
                         seen |-> tier[x.target]]
        /\ identity' = identity /\ x.act = "set_tier"
    BY <1>3 DEF Load, Requests
  <2>2. /\ identity[p].level \in Tiers /\ tier[x.target] \in Tiers /\ x.level \in Tiers
    BY <1>3, <2>1, FreeKnown
    DEF Load, Cleared, AdminIntents, TierIntents, StandIntents, AccountTypes
  <2>3. identity[p].level < tier[x.target] /\ identity[p].level < x.level
    BY <1>3, <2>1, <2>2
    DEF Load, Cleared, Second, MayActOn, NeedsSecond, MayAssign, MintsPeer, PeerDevelopers,
        SelfForbidden, Tiers, Developer
  <2>. QED
    BY <1>3, <2>1, <2>3
<1>4. CASE q = p /\ (Answered(p) \/ \E a \in Admins : LoadActivation(p, a))
  BY <1>4 DEF Answered, LoadActivation, NoWrite, Requests
<1>5. CASE q = p /\ \E a \in Admins : Authenticate(p, a)
  BY <1>5 DEF Authenticate, NamesAgree, Anonymous, NoWrite
<1>. QED
  BY <1>1, <1>2, <1>3, <1>4, <1>5, RequestSteps DEF local, HandlerLoads

\* Only HandlerWrites counts a performed write.
LEMMA WhoPerforms ==
    ASSUME TypeInv, NEW p \in Procs, Step(p), NEW i \in DC!Ids, performed'[i] # performed[i]
    PROVE  HandlerWrites(p) /\ i = job[p].id
<1>1. performed \in [DC!Ids -> Nat]
  BY QueueTyped DEF TypeInv, DC!TypeOK
<1>. QED
  BY <1>1
  DEF Step, Authenticate, LoadActivation, CreateAdministrator, Load, Queue, DC!AskLookup,
      BeginDecision, DC!Begin, Refused, Write, WriteFails, CreateRequest, DC!Create,
      DC!CreateRefused, Decide, DC!Claim, DC!ClaimLost, HandlerLoads, HandlerRefuses,
      HandlerNoop, DC!HandlerMoot, HandlerWrites, DC!HandlerCommits, HandlerFails,
      DC!HandlerThrows, HandlerEnds, DC!HandlerReturns, DC!HandlerThrowsLate,
      DC!RecordFailure, Die, DC!Crash, queue

\* What is carried out is carried out on somebody who neither asked nor approved.
LEMMA CarriedByOthers ==
    ASSUME PartyInv, NEW p \in Procs, HandlerWrites(p), Approved(p).act # "reinstate"
    PROVE  LET i == job[p].id IN
             /\ i \in DC!Ids /\ rows' = rows
             /\ rows[i].intent.target \notin {rows[i].by, rows[i].approver}
             /\ rows[i].by # rows[i].approver
<1>. USE DEF PartyInv, TypeInv
<1>1. Held(p) /\ rows' = rows
  BY DEF HandlerWrites, DC!HandlerCommits, Held
<1>2. job[p].id \in DC!Ids /\ rows[job[p].id].status = "approved"
  BY <1>1, Carried
<1>3. rows[job[p].id].by # rows[job[p].id].approver
  BY <1>2 DEF DCP!IInv, DCP!TwoPeople, DCP!Ids, DC!Ids
<1>. QED
  BY <1>1, <1>2, <1>3 DEF HandlerWrites, ThirdParties, NamesAgree, Approved

LEMMA NobodyStep ==
    ASSUME PartyInv, NEW p \in Procs, Step(p)
    PROVE  NobodyIsPartyToTheirOwnCase'
<1>. USE DEF PartyInv, TypeInv
<1>1. SUFFICES ASSUME NEW i \in DC!Ids, performed'[i] > 0, rows'[i].intent.act # "reinstate"
               PROVE  rows'[i].intent.target \notin {rows'[i].by, rows'[i].approver}
  BY DEF NobodyIsPartyToTheirOwnCase, DC!Ids
<1>2. CASE performed'[i] = performed[i]
  <2>1. rows[i].status = "approved"
    BY <1>1, <1>2 DEF DCP!IInv, DCP!AtMostOnce, DCP!Ids, DC!Ids
  <2>. QED
    BY <1>1, <1>2, <2>1, RowStays, QueueSteps DEF NobodyIsPartyToTheirOwnCase
<1>3. CASE performed'[i] # performed[i]
  <2>1. HandlerWrites(p) /\ i = job[p].id
    BY <1>3, WhoPerforms
  <2>2. rows' = rows
    BY <2>1 DEF HandlerWrites, DC!HandlerCommits
  <2>. QED
    BY <1>1, <2>1, <2>2, CarriedByOthers DEF Approved
<1>. QED
  BY <1>2, <1>3

\* Neither the clock nor the expiry sweep changes who is party to what.
LEMMA PartyInvElsewhere ==
    ASSUME PartyInv, TypeInv', DC!Next \/ UNCHANGED queue,
           UNCHANGED <<accounts, local, job, performed>>
    PROVE  PartyInv'
<1>. USE DEF PartyInv, TypeInv
<1>1. ASSUME NEW q \in Procs, Held(q)
      PROVE  /\ Approved(q)' = Approved(q) /\ job[q].id \in DC!Ids
             /\ rows'[job[q].id].approver = rows[job[q].id].approver
  <2>1. Held(q)'
    BY <1>1 DEF Held
  <2>. QED
    BY <1>1, <2>1, HeldStays, Carried DEF Approved
<1>2. NamesAgree'
  BY <1>1 DEF NamesAgree, Held, local
<1>3. \A i \in DC!Ids : rows'[i].status # "none" => rows'[i].by # rows'[i].intent.target
  BY RowStays, NewRow DEF ThirdParties
<1>4. ThirdParties'
  BY <1>1, <1>3 DEF ThirdParties, TargetsExist, local
<1>5. DirectRank'
  BY DEF DirectRank, local
<1>6. NobodyIsPartyToTheirOwnCase'
  <2>1. SUFFICES ASSUME NEW i \in DC!Ids, performed[i] > 0, rows'[i].intent.act # "reinstate"
                 PROVE  rows'[i].intent.target \notin {rows'[i].by, rows'[i].approver}
    BY DEF NobodyIsPartyToTheirOwnCase, DC!Ids
  <2>2. rows[i].status = "approved"
    BY <2>1 DEF DCP!IInv, DCP!AtMostOnce, DCP!Ids, DC!Ids
  <2>. QED
    BY <2>1, <2>2, RowStays DEF NobodyIsPartyToTheirOwnCase
<1>. QED
  BY <1>2, <1>4, <1>5, <1>6

LEMMA PartyInvStep == PartyInv /\ [Next]_vars => PartyInv'
<1>. SUFFICES ASSUME PartyInv, [Next]_vars PROVE PartyInv'
  OBVIOUS
<1>1. TypeInv'
  BY TypeInvStep DEF PartyInv
<1>2. ASSUME NEW p \in Procs, Step(p) PROVE PartyInv'
  BY <1>1, <1>2, NamesAgreeStep, ThirdPartiesStep, DirectRankStep, NobodyStep DEF PartyInv
<1>3. CASE Environment \/ UNCHANGED vars
  <2>1. DC!Next \/ UNCHANGED queue
    BY <1>3 DEF Environment, DC!Next, vars
  <2>2. UNCHANGED <<accounts, local, job, performed>>
    BY <1>3 DEF Environment, DC!Expire, DC!Tick, vars, queue
  <2>. QED
    BY <1>1, <2>1, <2>2, PartyInvElsewhere
<1>. QED
  BY <1>2, <1>3 DEF Next

LEMMA PartiesHold == Spec => []PartyInv
BY PartyInvInit, PartyInvStep, PTL DEF Spec

\* No suspension and no change of level that went through the queue was asked for or
\* approved by the administrator it fell on, however the requests interleaved.
THEOREM ThirdPersonDecides == Spec => []NobodyIsPartyToTheirOwnCase
BY PartiesHold, PTL DEF PartyInv

\* Every change of level is the work of somebody who outranks both levels at the moment
\* it commits, or of two administrators neither of whom is the one it falls on.
THEOREM LevelsAreGuarded == Spec => LevelsChangeByRankOrByTwo
<1>. DEFINE Guarded == \A a \in Admins :
       Exists(a) /\ tier'[a] # tier[a] =>
         \E p \in Procs :
           \/ /\ Directly(p, a, "set_tier")
              /\ identity[p].level < tier[a] /\ identity[p].level < tier'[a]
           \/ Performing(p, a, "set_tier") /\ ByTwo(p, a)
<1>1. PartyInv /\ [Next]_vars => Guarded
  <2>. SUFFICES ASSUME PartyInv, [Next]_vars, NEW a \in Admins, Exists(a), tier'[a] # tier[a]
                PROVE  \E p \in Procs :
                         \/ /\ Directly(p, a, "set_tier")
                            /\ identity[p].level < tier[a] /\ identity[p].level < tier'[a]
                         \/ Performing(p, a, "set_tier") /\ ByTwo(p, a)
    OBVIOUS
  <2>. USE DEF PartyInv, TypeInv, AccountTypes
  <2>1. PICK p \in Procs : Step(p)
    BY DEF Next, Environment, accounts, vars
  <2>2. Write(p) \/ HandlerWrites(p)
    BY <2>1, AccountSteps DEF accounts, CreateAdministrator
  <2>3. CASE Write(p)
    <3>1. /\ direct[p].op = "set_tier"
          /\ SetTier(direct[p].target, direct[p].level, direct[p].seen)
      BY <2>3 DEF Write, Writes, Suspend, Reinstate, Activate
    <3>2. /\ direct[p].target = a /\ tier[a] = direct[p].seen
          /\ tier'[a] = direct[p].level
      BY <3>1 DEF SetTier, TierIs
    <3>. QED
      BY <3>1, <3>2 DEF DirectRank, Directly
  <2>4. CASE HandlerWrites(p)
    <3>1. /\ Approved(p).act = "set_tier"
          /\ SetTier(Approved(p).target, Approved(p).level, seen[p])
      BY <2>4 DEF HandlerWrites, Performs, Suspend, Reinstate
    <3>2. Approved(p).target = a
      BY <3>1 DEF SetTier
    <3>3. ByTwo(p, a)
      BY <2>4, <3>1, <3>2, CarriedByOthers DEF ByTwo, Approved
    <3>. QED
      BY <2>4, <3>1, <3>2, <3>3 DEF Performing, HandlerWrites, DC!HandlerCommits
  <2>. QED
    BY <2>2, <2>3, <2>4
<1>. QED
  BY <1>1, PartiesHold, PTL DEF Spec, LevelsChangeByRankOrByTwo

\* A suspension ends by a reinstatement and by nothing else: an activation that was
\* checked before the suspension is refused by its compare-and-set.
THEOREM SuspensionsStand == Spec => OnlyReinstatementLifts
<1>. DEFINE Stands == \A a \in Admins :
       status[a] = "suspended" /\ status'[a] # "suspended" =>
         \E p \in Procs : Directly(p, a, "reinstate") \/ Performing(p, a, "reinstate")
<1>1. TypeInv /\ [Next]_vars => Stands
  <2>. SUFFICES ASSUME TypeInv, [Next]_vars, NEW a \in Admins,
                       status[a] = "suspended", status'[a] # "suspended"
                PROVE  \E p \in Procs : \/ Directly(p, a, "reinstate")
                                       \/ Performing(p, a, "reinstate")
    OBVIOUS
  <2>. USE DEF TypeInv, AccountTypes
  <2>1. PICK p \in Procs : Step(p)
    BY DEF Next, Environment, accounts, vars
  <2>2. Write(p) \/ HandlerWrites(p)
    BY <2>1, AccountSteps DEF accounts, CreateAdministrator, Exists
  <2>3. CASE Write(p)
    <3>1. direct[p].op = "reinstate" /\ direct[p].target = a
      BY <2>3 DEF Write, Writes, Suspend, Reinstate, Activate, StillPending, SetTier
    <3>. QED
      BY <3>1 DEF Directly
  <2>4. CASE HandlerWrites(p)
    <3>1. Approved(p).act = "reinstate" /\ Approved(p).target = a
      BY <2>4 DEF HandlerWrites, Performs, Suspend, Reinstate, SetTier
    <3>. QED
      BY <2>4, <3>1 DEF Performing, HandlerWrites, DC!HandlerCommits
  <2>. QED
    BY <2>2, <2>3, <2>4
<1>. QED
  BY <1>1, TypesHold, PTL DEF Spec, OnlyReinstatementLifts

-------------------------------------------------------------------------------
(* One request at a time. *)

\* Until it has written, a request's administrator is what they were when it
\* authenticated, and what the handler loaded still admits the approved action.
StillRanks(p) ==
    /\ identity[p].who # None /\ job[p].stage \notin {"after", "failed"} =>
         /\ status[identity[p].who] = "active"
         /\ tier[identity[p].who] = identity[p].level
    /\ seen[p] # 0 /\ job[p].stage = "perform" => HandlerAllows(p, Approved(p))

\* A request that leaves the queue is answered.
LEMMA LeavesAnswered ==
    ASSUME TypeInv, NEW p \in Procs, Step(p), job[p].stage # "idle", job'[p].stage = "idle"
    PROVE  identity'[p] = Anonymous /\ seen'[p] = 0
<1>1. Answered(p)
  BY JobSteps, JobMoves, QueueTyped
  DEF JobStep, Queue, BeginDecision, Cleared, Free, TypeInv, DC!TypeOK, DC!Jobs
<1>. QED
  BY <1>1 DEF Answered, TypeInv, Requests

\* A step that writes an account is the last of its request, or only its report is left.
LEMMA WritesLast ==
    ASSUME TypeInv, NEW p \in Procs, Step(p), ~(UNCHANGED accounts)
    PROVE  \/ identity'[p] = Anonymous /\ seen'[p] = 0
           \/ job'[p].stage = "after"
<1>1. job \in [Procs -> DC!Jobs]
  BY QueueTyped DEF TypeInv, DC!TypeOK
<1>2. CASE HandlerWrites(p)
  BY <1>1, <1>2 DEF HandlerWrites, DC!HandlerCommits, DC!Jobs
<1>3. CASE Answered(p)
  BY <1>3 DEF Answered, TypeInv, Requests
<1>. QED
  BY <1>2, <1>3, AccountSteps DEF CreateAdministrator, Write

LEMMA StillRanksStep ==
    ASSUME PartyInv, NEW p \in Procs, Step(p), StillRanks(p)
    PROVE  StillRanks(p)'
<1>. USE DEF PartyInv, TypeInv
<1>1. job \in [Procs -> DC!Jobs] /\ (DC!Next \/ UNCHANGED queue)
  BY QueueTyped, QueueSteps DEF DC!TypeOK
<1>2. ASSUME Answered(p) PROVE identity'[p] = Anonymous /\ seen'[p] = 0
  BY <1>2 DEF Answered, Requests
<1>3. ASSUME identity'[p].who # None, job'[p].stage \notin {"after", "failed"}
      PROVE  /\ status'[identity'[p].who] = "active"
             /\ tier'[identity'[p].who] = identity'[p].level
  <2>1. identity'[p] # Anonymous /\ ~Answered(p)
    BY <1>2, <1>3 DEF Anonymous
  <2>2. UNCHANGED accounts
    BY <1>3, <2>1, WritesLast
  <2>3. CASE \E a \in Admins : Authenticate(p, a)
    BY <2>2, <2>3 DEF Authenticate, accounts, Requests
  <2>4. CASE identity'[p] = identity[p]
    <3>1. job[p].stage \notin {"after", "failed"}
      BY <1>1, <1>3, <2>1, LeavesAnswered, JobMoves DEF Held
    <3>. QED
      BY <1>3, <2>2, <2>4, <3>1 DEF StillRanks, accounts
  <2>. QED
    BY <2>1, <2>3, <2>4, RequestSteps DEF local, LoadActivation, Load, HandlerLoads
<1>4. ASSUME seen'[p] # 0, job'[p].stage = "perform"
      PROVE  HandlerAllows(p, Approved(p))'
  <2>1. ~Answered(p) /\ UNCHANGED accounts
    BY <1>2, <1>4, WritesLast
  <2>2. CASE HandlerLoads(p)
    BY <2>1, <2>2
    DEF HandlerLoads, HandlerAllows, Approved, Exists, accounts, queue
  <2>3. CASE ~HandlerLoads(p)
    <3>1. seen'[p] = seen[p]
      BY <2>1, <2>3, RequestSteps DEF local, Authenticate, LoadActivation, Load
    <3>2. Held(p) /\ identity[p].who # None
      BY <1>4, <3>1 DEF TargetsExist, NamesAgree, Held
    <3>3. UNCHANGED job
      BY <1>4, <3>2, JobMoves DEF Held, Queue, BeginDecision, Cleared, Free
    <3>4. Held(p)' /\ job[p].stage = "perform"
      BY <1>4, <3>3 DEF Held
    <3>5. Approved(p)' = Approved(p)
      BY <1>1, <3>2, <3>4, HeldStays DEF Approved
    <3>6. identity'[p] = identity[p]
      BY <3>2, <3>4, BusyKeeps DEF Held
    <3>7. HandlerAllows(p, Approved(p))
      BY <1>4, <3>1, <3>4 DEF StillRanks
    <3>. QED
      BY <2>1, <3>5, <3>6, <3>7 DEF HandlerAllows, Exists, accounts
  <2>. QED
    BY <2>2, <2>3
<1>. QED
  BY <1>3, <1>4 DEF StillRanks

\* Handled one after another, every approved action that is carried out is carried out by
\* an approver who is active and still ranks above its target, or is a Developer like it.
THEOREM ApproverRanks ==
    ASSUME \A p, q \in Procs : p = q
    PROVE  Spec => ApproverStillRanks
<1>. DEFINE AllRank == \A p \in Procs : StillRanks(p)
            Ranked  == \A i \in DC!Ids :
                         performed'[i] > performed[i] =>
                           LET a == rows[i].approver  b == rows[i].intent.target IN
                             /\ status[a] = "active"
                             /\ a = b \/ tier[a] < tier[b] \/ PeerDevelopers(tier[a], tier[b])
<1>1. Init => AllRank
  BY DEF Init, StillRanks, Anonymous
<1>2. PartyInv /\ AllRank /\ [Next]_vars => AllRank'
  <2>. SUFFICES ASSUME PartyInv, AllRank, [Next]_vars, NEW p \in Procs PROVE StillRanks(p)'
    OBVIOUS
  <2>1. ASSUME NEW q \in Procs, Step(q) PROVE StillRanks(p)'
    BY <2>1, StillRanksStep
  <2>2. CASE Environment \/ UNCHANGED vars
    <3>1. (DC!Next \/ UNCHANGED queue) /\ UNCHANGED <<accounts, local, job>>
      BY <2>2 DEF Environment, DC!Expire, DC!Tick, DC!Next, vars, queue
    <3>2. ASSUME Held(p) PROVE Approved(p)' = Approved(p)
      BY <3>1, <3>2, HeldStays DEF PartyInv, TypeInv, Held, Approved
    <3>3. job[p].stage = "perform" => Held(p)
      BY DEF Held
    <3>. QED
      BY <3>1, <3>2, <3>3 DEF StillRanks, HandlerAllows, Exists, accounts, local
  <2>. QED
    BY <2>1, <2>2 DEF Next
<1>3. PartyInv /\ AllRank /\ [Next]_vars => Ranked
  <2>. SUFFICES ASSUME PartyInv, AllRank, [Next]_vars, NEW i \in DC!Ids,
                       performed'[i] > performed[i]
                PROVE  LET a == rows[i].approver  b == rows[i].intent.target IN
                         /\ status[a] = "active"
                         /\ a = b \/ tier[a] < tier[b] \/ PeerDevelopers(tier[a], tier[b])
    OBVIOUS
  <2>. USE DEF PartyInv, TypeInv, AccountTypes
  <2>0. performed[i] \in Nat
    BY QueueTyped DEF DC!TypeOK
  <2>1. PICK p \in Procs : Step(p)
    BY <2>0 DEF Next, Environment, DC!Expire, DC!Tick, vars, queue
  <2>2. HandlerWrites(p) /\ i = job[p].id
    BY <2>0, <2>1, WhoPerforms
  <2>3. job[p].stage = "perform" /\ seen[p] # 0 /\ Held(p)
    BY <2>2 DEF HandlerWrites, DC!HandlerCommits, Held
  <2>4. /\ rows[i].approver = identity[p].who /\ identity[p].who # None
        /\ Approved(p) = rows[i].intent /\ Approved(p) \in AdminIntents
    BY <2>2, <2>3, Carried DEF NamesAgree, Approved
  <2>5. /\ status[identity[p].who] = "active"
        /\ tier[identity[p].who] = identity[p].level
        /\ HandlerAllows(p, Approved(p))
    BY <2>3, <2>4 DEF StillRanks
  <2>6. identity[p].who \in Admins /\ rows[i].intent.target \in Admins
    BY <2>4 DEF Requests, Anonymous, AdminIntents, TierIntents, StandIntents
  <2>7. tier[rows[i].intent.target] \in Nat /\ tier[identity[p].who] \in Nat
    BY <2>6 DEF Tiers
  <2>. QED
    BY <2>4, <2>5, <2>7 DEF HandlerAllows, MayActOn
<1>. QED
  <2>. HIDE DEF AllRank
  <2>. QED
    BY <1>1, <1>2, <1>3, PartiesHold, PTL DEF Spec, ApproverStillRanks

-------------------------------------------------------------------------------
(* What remains of the promises the code does not keep. *)

\* What is true of every behaviour of the queue is true here.
LEMMA QueueSpec == Spec => DCP!Spec
<1>1. Init => DCP!Init
  BY OneQueue DEF Init
<1>2. TypeInv /\ [Next]_vars => [DCP!Next]_(DCP!vars)
  <2>. SUFFICES ASSUME TypeInv, [Next]_vars PROVE DCP!Next \/ UNCHANGED DCP!vars
    OBVIOUS
  <2>1. CASE Environment
    BY <2>1, OneQueue DEF Environment, DC!Next
  <2>2. ASSUME NEW p \in Procs, Step(p) PROVE DCP!Next \/ UNCHANGED DCP!vars
    BY <2>2, QueueSteps, OneQueue DEF TypeInv, queue, DCP!vars
  <2>. QED
    BY <2>1, <2>2 DEF Next, vars, queue, DCP!vars
<1>. QED
  BY <1>1, <1>2, TypesHold, PTL DEF Spec, DCP!Spec

\* Through the queue, the composition implements the four-eyes promise.
THEOREM AdministratorsFourEyes == Spec => DCP!ImplementsFourEyes
BY QueueSpec, QueueConstants, DCP!Refinement, PTL

\* A request that nobody is working on stands approved because it was carried out or found
\* moot, or says why it was not; it is silent only when the instance handling it was lost.
LimboIsExplained ==
    \A i \in DC!Ids :
        rows[i].status = "approved" /\ (\A p \in Procs : job[p].id # i) =>
            \/ performed[i] = 1 \/ fate[i] = "moot"
            \/ rows[i].failed
            \/ Failures /\ fate[i] = "lost"

\* The promise "approved and performed" fails for a reason on record, or for a death.
THEOREM LimboHasAReason == Spec => []LimboIsExplained
<1>. DEFINE NoneLost == ~Failures => \A i \in DC!Ids : fate[i] # "lost"
<1>1. Init => NoneLost
  BY DEF Init, DC!Init
<1>2. TypeInv /\ NoneLost /\ [Next]_vars => NoneLost'
  <2>. SUFFICES ASSUME TypeInv, NoneLost, [Next]_vars, ~Failures,
                       NEW i \in DC!Ids
                PROVE  fate'[i] # "lost"
    BY DEF DC!Ids
  <2>1. fate \in [DC!Ids -> DC!Fates] /\ fate[i] # "lost"
    BY QueueTyped DEF TypeInv, DC!TypeOK
  <2>2. ASSUME NEW p \in Procs, Step(p) PROVE fate'[i] # "lost"
    BY <2>1, <2>2
    DEF Step, Authenticate, LoadActivation, CreateAdministrator, Load, Queue, DC!AskLookup,
        BeginDecision, DC!Begin, Refused, Write, WriteFails, CreateRequest, DC!Create,
        DC!CreateRefused, Decide, DC!Claim, DC!ClaimLost, HandlerLoads, HandlerRefuses,
        HandlerNoop, DC!HandlerMoot, HandlerWrites, DC!HandlerCommits, HandlerFails,
        DC!HandlerThrows, HandlerEnds, DC!HandlerReturns, DC!HandlerThrowsLate,
        DC!RecordFailure, Die, queue
  <2>. QED
    BY <2>1, <2>2 DEF Next, Environment, DC!Expire, DC!Tick, vars, queue
<1>3. DCP!ApprovedIsExplained /\ NoneLost => LimboIsExplained
  BY DEF DCP!ApprovedIsExplained, LimboIsExplained, DCP!Ids, DC!Ids
<1>4. Spec => []DCP!ApprovedIsExplained
  BY QueueSpec, QueueConstants, DCP!ApprovalsAreExplained, PTL
<1>. QED
  BY <1>1, <1>2, <1>3, <1>4, TypesHold, PTL DEF Spec

\* A Developer is suspended by two others, or by one who had loaded the account when it was
\* still below them: it was made a Developer between that load and the write.
DeveloperSuspendedByTwoUnlessPromoted ==
    [][\A a \in Admins :
         tier[a] = Developer /\ status[a] # "suspended" /\ status'[a] = "suspended" =>
           \E p \in Procs :
             \/ Performing(p, a, "suspend") /\ ByTwo(p, a)
             \/ /\ Directly(p, a, "suspend")
                /\ identity[p].level < direct[p].seen /\ direct[p].seen # tier[a]]_vars

\* A suspension somebody makes alone was below them when they loaded its target.
LoadedBelow ==
    \A p \in Procs : direct[p].op = "suspend" => identity[p].level < direct[p].seen

LEMMA LoadedBelowStep ==
    ASSUME TypeInv, NamesAgree, LoadedBelow, NEW p \in Procs, Step(p)
    PROVE  LoadedBelow'
<1>. USE DEF TypeInv, Requests
<1>. SUFFICES ASSUME NEW q \in Procs, direct'[q].op = "suspend"
              PROVE  identity'[q].level < direct'[q].seen
  BY DEF LoadedBelow
<1>1. CASE q # p \/ UNCHANGED local
  BY <1>1, Others DEF LoadedBelow, local
<1>2. CASE q = p /\ Answered(p)
  BY <1>2 DEF Answered, NoWrite
<1>3. CASE q = p /\ HandlerLoads(p)
  BY <1>3 DEF HandlerLoads, LoadedBelow
<1>4. ASSUME q = p, NEW a \in Admins, Authenticate(p, a) \/ LoadActivation(p, a) PROVE FALSE
  <2>1. identity[p].who = None \/ direct'[p].op = "activate"
    BY <1>4 DEF Authenticate, LoadActivation, Anonymous
  <2>2. Authenticate(p, a) => direct'[p] = direct[p]
    BY DEF Authenticate
  <2>. QED
    BY <1>4, <2>1, <2>2 DEF NamesAgree, NoWrite, Authenticate, Anonymous, LoadActivation
<1>5. ASSUME q = p, NEW x \in AdminIntents, Load(p, x)
      PROVE  identity'[q].level < direct'[q].seen
  <2>1. /\ direct'[p].seen = tier[x.target] /\ direct'[p].op = x.act /\ x.act = "suspend"
        /\ identity'[p] = identity[p]
    BY <1>5 DEF Load
  <2>2. /\ MayActOn(identity[p].who, identity[p].level, x.target, tier[x.target], x.act, x.level)
        /\ ~NeedsSecond(identity[p].who, identity[p].level, x.target,
                        tier[x.target], x.act, x.level)
    BY <1>5 DEF Load, Cleared, Second
  <2>3. identity[p].who # x.target
    BY <2>1, <2>2 DEF MayActOn, SelfForbidden
  <2>4. tier[x.target] > identity[p].level
    BY <2>2, <2>3 DEF MayActOn, NeedsSecond
  <2>5. x.target \in Admins
    BY DEF AdminIntents, TierIntents, StandIntents
  <2>. QED
    BY <1>5, <2>1, <2>4, <2>5 DEF AccountTypes, Tiers
<1>. QED
  BY <1>1, <1>2, <1>3, <1>4, <1>5, RequestSteps

\* The exact cause of a Developer suspended by one alone.
THEOREM PromotedMeanwhile == Spec => DeveloperSuspendedByTwoUnlessPromoted
<1>. DEFINE Shared == \A a \in Admins :
         tier[a] = Developer /\ status[a] # "suspended" /\ status'[a] = "suspended" =>
           \E p \in Procs :
             \/ Performing(p, a, "suspend") /\ ByTwo(p, a)
             \/ /\ Directly(p, a, "suspend")
                /\ identity[p].level < direct[p].seen /\ direct[p].seen # tier[a]
<1>1. Init => LoadedBelow
  BY DEF Init, LoadedBelow, NoWrite
<1>2. PartyInv /\ LoadedBelow /\ [Next]_vars => LoadedBelow'
  BY LoadedBelowStep DEF PartyInv, Next, Environment, LoadedBelow, vars, local
<1>3. PartyInv /\ LoadedBelow /\ [Next]_vars => Shared
  <2>. SUFFICES ASSUME PartyInv, LoadedBelow, [Next]_vars, NEW a \in Admins,
                       tier[a] = Developer, status[a] # "suspended", status'[a] = "suspended"
                PROVE  \E p \in Procs :
                         \/ Performing(p, a, "suspend") /\ ByTwo(p, a)
                         \/ /\ Directly(p, a, "suspend")
                            /\ identity[p].level < direct[p].seen /\ direct[p].seen # tier[a]
    OBVIOUS
  <2>. USE DEF PartyInv, TypeInv, AccountTypes
  <2>1. PICK p \in Procs : Step(p)
    BY DEF Next, Environment, accounts, vars
  <2>2. Write(p) \/ HandlerWrites(p)
    BY <2>1, AccountSteps DEF accounts, CreateAdministrator
  <2>3. CASE Write(p)
    <3>1. direct[p].op = "suspend" /\ direct[p].target = a
      BY <2>3 DEF Write, Writes, Suspend, Reinstate, Restored, SetTier, Activate
    <3>2. identity[p].level < direct[p].seen
      BY <3>1 DEF LoadedBelow
    <3>3. direct[p] \in DirectWrites
      BY <3>1 DEF Requests, NoWrite
    <3>4. direct[p].seen # tier[a]
      <4>1. identity[p].who # None
        BY <3>1 DEF NamesAgree, NoWrite
      <4>2. identity[p].level \in Tiers /\ direct[p].seen \in Tiers
        BY <3>3, <4>1 DEF Requests, Anonymous, DirectWrites
      <4>. QED
        BY <3>2, <4>2 DEF Tiers, Developer
    <3>. QED
      BY <3>1, <3>2, <3>4 DEF Directly
  <2>4. CASE HandlerWrites(p)
    <3>1. Approved(p).act = "suspend" /\ Approved(p).target = a
      BY <2>4 DEF HandlerWrites, Performs, Suspend, Reinstate, Restored, SetTier
    <3>2. ByTwo(p, a)
      BY <2>4, <3>1, CarriedByOthers DEF ByTwo, Approved
    <3>. QED
      BY <2>4, <3>1, <3>2 DEF Performing, HandlerWrites, DC!HandlerCommits
  <2>. QED
    BY <2>2, <2>3, <2>4
<1>. QED
  BY <1>1, <1>2, <1>3, PartiesHold, PTL DEF Spec, DeveloperSuspendedByTwoUnlessPromoted

\* An account becomes active by an activation, or by a reinstatement that does not find the
\* status it had: none was kept, because it was never suspended, or the kept one is that of
\* a suspension or of an account already active.
BecomesActiveByActivation ==
    [][\A a \in Admins :
         status[a] # "active" /\ status'[a] = "active" =>
           \/ status[a] = "pending" /\ activated'[a]
           \/ /\ \E p \in Procs : Directly(p, a, "reinstate") \/ Performing(p, a, "reinstate")
              /\ from[a] \in {"null", "suspended", "active"}]_vars

\* The exact cause of an account that is active and was never activated.
THEOREM ReinstatedUnearned == Spec => BecomesActiveByActivation
<1>. DEFINE Earned == \A a \in Admins :
         status[a] # "active" /\ status'[a] = "active" =>
           \/ status[a] = "pending" /\ activated'[a]
           \/ /\ \E p \in Procs : Directly(p, a, "reinstate") \/ Performing(p, a, "reinstate")
              /\ from[a] \in {"null", "suspended", "active"}
<1>1. TypeInv /\ [Next]_vars => Earned
  <2>. SUFFICES ASSUME TypeInv, [Next]_vars, NEW a \in Admins,
                       status[a] # "active", status'[a] = "active"
                PROVE  \/ status[a] = "pending" /\ activated'[a]
                       \/ /\ \E p \in Procs : \/ Directly(p, a, "reinstate")
                                              \/ Performing(p, a, "reinstate")
                          /\ from[a] \in {"null", "suspended", "active"}
    OBVIOUS
  <2>. USE DEF TypeInv, AccountTypes
  <2>1. PICK p \in Procs : Step(p)
    BY DEF Next, Environment, accounts, vars
  <2>2. Write(p) \/ HandlerWrites(p)
    BY <2>1, AccountSteps DEF accounts, CreateAdministrator
  <2>3. ASSUME Reinstate(a) PROVE from[a] \in {"null", "suspended", "active"}
    <3>1. Restored(from[a]) = "active"
      BY <2>3 DEF Reinstate
    <3>. QED
      BY <3>1 DEF Restored
  <2>4. CASE Write(p)
    <3>1. \/ direct[p].op = "reinstate" /\ direct[p].target = a /\ Reinstate(a)
          \/ direct[p].op = "activate" /\ direct[p].target = a /\ Activate(a)
      BY <2>4 DEF Write, Writes, Suspend, Reinstate, SetTier, Activate
    <3>. QED
      BY <2>3, <3>1 DEF Directly, Activate, StillPending
  <2>5. CASE HandlerWrites(p)
    <3>1. Approved(p).act = "reinstate" /\ Approved(p).target = a /\ Reinstate(a)
      BY <2>5 DEF HandlerWrites, Performs, Suspend, Reinstate, SetTier
    <3>. QED
      BY <2>3, <2>5, <3>1 DEF Performing, HandlerWrites, DC!HandlerCommits
  <2>. QED
    BY <2>2, <2>4, <2>5
<1>. QED
  BY <1>1, TypesHold, PTL DEF Spec, BecomesActiveByActivation
===============================================================================
