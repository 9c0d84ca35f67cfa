------------------------------ MODULE SignInProofs ------------------------------
(***************************************************************************)
(* The lockout of one account, for any number of requests at a time, any   *)
(* threshold and any duration: the counter decays, and the guesses that    *)
(* slip past the threshold are bounded by the requests under way.          *)
(***************************************************************************)
EXTENDS SignIn, FiniteSetTheorems, TLAPS

Stages == {"none", "password", "code", "clear", "expire", "lock"}

Records == [stage : Stages, count : Nat, challenge : SUBSET Requests]

SignInTypes ==
    /\ time \in 0..LastMoment
    /\ failures \in [count : Nat, expires : Nat]
    /\ lock \in Nat
    /\ req \in [Requests -> Records]
    /\ challenges \subseteq Requests
    /\ guesses \in Nat /\ cut \in BOOLEAN

\* A key with an expiry goes within one duration, and so does a lock.
Timely ==
    /\ failures.expires = Never \/ failures.expires <= time + Duration
    /\ lock <= time + Duration

\* Requests that have seen the account unlocked and not answered, and requests that are
\* about to lock it.
Guessing == {r \in Requests : req[r].stage = "password"}
Locking  == {r \in Requests : req[r].stage \in {"expire", "lock"}
                              /\ req[r].count >= MaxAttempts}

\* Every guess past the threshold has a request that is about to lock the account.
LockIsDue == guesses <= MaxAttempts - 1 + Cardinality(Locking)

\* The account is locked until the counter has lapsed: nobody joins those still guessing.
LockHolds ==
    /\ Locked
    /\ guesses + Cardinality(Guessing) <= MaxAttempts - 1 + Cardinality(Requests)
    /\ \/ lock = time + Duration
       \/ failures.expires <= lock /\ \A r \in Requests : req[r].stage # "expire"

SignInInv ==
    /\ SignInTypes /\ Timely
    /\ guesses <= failures.count
    /\ CounterDecays
    /\ cut \/ LockIsDue \/ LockHolds

-------------------------------------------------------------------------------
(* Counting requests. *)

LEMMA Counted ==
    /\ IsFiniteSet(Guessing) /\ Cardinality(Guessing) \in Nat
           /\ IsFiniteSet(Locking) /\ Cardinality(Locking) \in Nat
           /\ Cardinality(Requests) \in Nat
           /\ Cardinality(Guessing) + Cardinality(Locking) <= Cardinality(Requests)
<1>. Guessing \subseteq Requests /\ Locking \subseteq Requests /\ IsFiniteSet(Requests)
  BY LockoutAssumption DEF Guessing, Locking
<1>1. IsFiniteSet(Guessing) /\ IsFiniteSet(Locking)
  BY FS_Subset
<1>2. Guessing \cap Locking = {}
  BY DEF Guessing, Locking
<1>3. Cardinality(Guessing \cup Locking)
        = Cardinality(Guessing) + Cardinality(Locking) - Cardinality(Guessing \cap Locking)
  BY <1>1, FS_Union
<1>4. Cardinality(Guessing \cap Locking) = 0
  BY <1>2, FS_EmptySet
<1>5. Cardinality(Guessing \cup Locking) <= Cardinality(Requests)
  BY FS_Subset
<1>6. Cardinality(Guessing) \in Nat /\ Cardinality(Locking) \in Nat
      /\ Cardinality(Requests) \in Nat
  BY <1>1, FS_CardinalityType
<1>. QED
  BY <1>1, <1>3, <1>4, <1>5, <1>6

\* A set of requests loses an element, gains one, or only loses some.
LEMMA OneLess ==
    ASSUME NEW S, NEW x \in S, IsFiniteSet(S)
    PROVE  Cardinality(S \ {x}) = Cardinality(S) - 1
BY FS_RemoveElement

LEMMA OneMore ==
    ASSUME NEW S, NEW x, x \notin S, IsFiniteSet(S)
    PROVE  Cardinality(S \cup {x}) = Cardinality(S) + 1
BY FS_AddElement

LEMMA NotMore ==
    ASSUME NEW S, NEW T, T \subseteq S, IsFiniteSet(S)
    PROVE  Cardinality(T) <= Cardinality(S)
BY FS_Subset

-------------------------------------------------------------------------------
LEMMA IdleIsRecord == Waiting \in Records
BY DEF Waiting, Records, Stages

LEMMA SignInInvInit == SignInInit => SignInInv
<1>. SUFFICES ASSUME SignInInit PROVE SignInInv
  OBVIOUS
<1>1. SignInTypes
  <2>1. req \in [Requests -> Records]
    BY IdleIsRecord DEF SignInInit
  <2>2. failures \in [count : Nat, expires : Nat]
    BY LockoutAssumption DEF SignInInit, NoKey, Never
  <2>3. time = 0 /\ 0 \in 0..LastMoment /\ lock = 0 /\ guesses = 0 /\ cut = FALSE
    BY LockoutAssumption DEF SignInInit
  <2>4. challenges = {}
    BY DEF SignInInit
  <2>. QED
    BY <2>1, <2>2, <2>3, <2>4 DEF SignInTypes
<1>2. Timely /\ guesses <= failures.count /\ CounterDecays
  BY LockoutAssumption DEF SignInInit, Timely, CounterDecays, NoKey, Never
<1>3. LockIsDue
  BY Counted, LockoutAssumption DEF SignInInit, LockIsDue
<1>. QED
  BY <1>1, <1>2, <1>3 DEF SignInInv

\* The types, the expiries and the counter: one command at a time.
LEMMA Counting ==
    ASSUME SignInInv, [SignInNext]_signInVars
    PROVE  /\ SignInTypes' /\ Timely'
           /\ guesses' <= failures'.count
<1>. USE LockoutAssumption DEF SignInInv
<1>1. ASSUME NEW r \in Requests,
             \/ Begin(r) \/ Challenge(r) \/ Accept(r) \/ AcceptMfa(r) \/ Suspended(r)
             \/ ChallengeLapses(r) \/ GiveUp(r) \/ \E d \in Requests : BeginMfa(r, d)
      PROVE  SignInTypes' /\ Timely' /\ guesses' <= failures'.count
  <2>1. /\ UNCHANGED <<time, failures, lock, guesses>>
        /\ cut' \in BOOLEAN /\ challenges' \subseteq Requests
    BY <1>1 DEF Begin, Challenge, Accept, AcceptMfa, Suspended, ChallengeLapses, GiveUp, BeginMfa,
                SignInTypes
  <2>2. req' \in [Requests -> Records]
    <3>1. CASE \E d \in Requests : BeginMfa(r, d)
      <4>1. PICK d \in Requests : BeginMfa(r, d)
        BY <3>1
      <4>2. [Waiting EXCEPT !.stage = "code", !.challenge = {d}] \in Records
        BY IdleIsRecord DEF Records, Stages
      <4>. QED
        BY <4>1, <4>2 DEF BeginMfa, SignInTypes
    <3>2. CASE Begin(r) \/ Accept(r) \/ AcceptMfa(r)
      <4>1. PICK s \in Stages : req' = [req EXCEPT ![r].stage = s]
        BY <3>2 DEF Begin, Accept, AcceptMfa, Turns, Stages
      <4>. QED
        BY <4>1 DEF SignInTypes, Records
    <3>3. CASE Challenge(r) \/ Suspended(r) \/ ChallengeLapses(r) \/ GiveUp(r)
      BY <3>3 DEF Challenge, Suspended, ChallengeLapses, GiveUp, SignInTypes, Records, Ends,
                  Waiting, Stages
    <3>. QED
      BY <1>1, <3>1, <3>2, <3>3
  <2>. QED
    BY <2>1, <2>2 DEF SignInTypes, Timely
<1>2. ASSUME NEW r \in Requests, Increment(r)
      PROVE  SignInTypes' /\ Timely' /\ guesses' <= failures'.count
  <2>1. req' \in [Requests -> Records]
    <3>1. PICK s \in Stages :
            req' = [req EXCEPT ![r] = [Waiting EXCEPT !.stage = s, !.count = failures.count + 1]]
      BY <1>2 DEF Increment, Stages
    <3>2. [Waiting EXCEPT !.stage = s, !.count = failures.count + 1] \in Records
      <4>1. failures.count + 1 \in Nat
        BY DEF SignInTypes
      <4>. QED
        BY <4>1, IdleIsRecord DEF Records
    <3>. QED
      BY <3>1, <3>2 DEF SignInTypes
  <2>2. failures' = [count |-> failures.count + 1, expires |-> failures.expires]
    BY <1>2 DEF Increment, SignInTypes
  <2>. QED
    BY <1>2, <2>1, <2>2 DEF Increment, SignInTypes, Timely
<1>3. ASSUME NEW r \in Requests, Expire(r)
      PROVE  SignInTypes' /\ Timely' /\ guesses' <= failures'.count
  BY <1>3 DEF Expire, ExpireTakes, SignInTypes, Records, Timely, Turns, Stages, Never
<1>4. ASSUME NEW r \in Requests, Engage(r)
      PROVE  SignInTypes' /\ Timely' /\ guesses' <= failures'.count
  BY <1>4 DEF Engage, SignInTypes, Records, Timely, Ends, Waiting, Stages, Never
<1>5. ASSUME NEW r \in Requests, Clear(r)
      PROVE  SignInTypes' /\ Timely' /\ guesses' <= failures'.count
  BY <1>5 DEF Clear, SignInTypes, Records, Timely, Ends, Waiting, Stages, NoKey, Never
<1>6. CASE LockoutTick
  BY <1>6 DEF LockoutTick, SignInTypes, Timely, NoKey, Never
<1>7. CASE UNCHANGED signInVars
  BY <1>7 DEF signInVars, SignInTypes, Timely
<1>. QED
  BY <1>1, <1>2, <1>3, <1>4, <1>5, <1>6, <1>7 DEF SignInNext

\* A counter without an expiry has a request that will give it one, or its instance died.
LEMMA Decaying ==
    ASSUME SignInInv, [SignInNext]_signInVars
    PROVE  CounterDecays'
<1>. SUFFICES ASSUME failures'.count > 0, failures'.expires = Never, ~cut'
              PROVE  \E r \in Requests : req'[r].stage = "expire"
  BY DEF CounterDecays, Never
<1>. USE LockoutAssumption DEF SignInInv
<1>1. ASSUME NEW s \in Requests, UNCHANGED failures, cut' = cut,
             \A r \in Requests : r # s => req'[r] = req[r], req[s].stage # "expire"
      PROVE  \E r \in Requests : req'[r].stage = "expire"
  BY <1>1 DEF CounterDecays, SignInTypes
<1>2. ASSUME NEW r \in Requests,
             \/ Begin(r) \/ Challenge(r) \/ Accept(r) \/ AcceptMfa(r) \/ Suspended(r)
             \/ Engage(r) \/ \E d \in Requests : BeginMfa(r, d)
      PROVE  \E q \in Requests : req'[q].stage = "expire"
  <2>1. UNCHANGED failures /\ cut' = cut
    BY <1>2 DEF Begin, Challenge, Accept, AcceptMfa, Suspended, Engage, BeginMfa
  <2>0. req[r].stage # "expire"
    <3>1. CASE req[r] = Waiting
      BY <3>1 DEF Waiting
    <3>2. CASE req[r].stage \in {"password", "code", "lock"}
      BY <3>2
    <3>. QED
      BY <1>2, <3>1, <3>2 DEF Begin, Challenge, Accept, AcceptMfa, Suspended, Engage, BeginMfa
  <2>2. \A q \in Requests : q # r => req'[q] = req[q]
    BY <1>2 DEF Begin, Challenge, Accept, AcceptMfa, Suspended, Engage, BeginMfa,
                SignInTypes, Turns, Ends
  <2>. QED
    BY <1>1, <2>0, <2>1, <2>2
<1>3. ASSUME NEW r \in Requests, ChallengeLapses(r)
      PROVE  \E q \in Requests : req'[q].stage = "expire"
  BY <1>3 DEF ChallengeLapses, CounterDecays
<1>4. ASSUME NEW r \in Requests, GiveUp(r)
      PROVE  \E q \in Requests : req'[q].stage = "expire"
  <2>1. UNCHANGED failures /\ cut' = cut /\ req[r].stage # "expire"
    BY <1>4 DEF GiveUp, SignInTypes
  <2>2. \A q \in Requests : q # r => req'[q] = req[q]
    BY <1>4 DEF GiveUp, Ends, SignInTypes
  <2>. QED
    BY <1>1, <2>1, <2>2
<1>5. ASSUME NEW r \in Requests, Increment(r)
      PROVE  \E q \in Requests : req'[q].stage = "expire"
  <2>1. CASE failures.count = 0
    BY <1>5, <2>1 DEF Increment, SignInTypes
  <2>2. CASE failures.count # 0
    <3>1. PICK q \in Requests : req[q].stage = "expire"
      BY <1>5, <2>2 DEF Increment, CounterDecays, SignInTypes
    <3>. QED
      BY <1>5, <3>1 DEF Increment, SignInTypes
  <2>. QED
    BY <2>1, <2>2
<1>6. ASSUME NEW r \in Requests, Expire(r)
      PROVE  FALSE
  BY <1>6 DEF Expire, ExpireTakes, SignInTypes, Never
<1>7. ASSUME NEW r \in Requests, Clear(r)
      PROVE  FALSE
  BY <1>7 DEF Clear, NoKey
<1>8. CASE LockoutTick
  BY <1>8 DEF LockoutTick, NoKey, CounterDecays, SignInTypes
<1>9. CASE UNCHANGED signInVars
  BY <1>9 DEF signInVars, CounterDecays
<1>. QED
  BY <1>2, <1>3, <1>4, <1>5, <1>6, <1>7, <1>8, <1>9 DEF SignInNext

-------------------------------------------------------------------------------
(* The bound on guesses. *)

Bounded == cut \/ LockIsDue \/ LockHolds

\* A step that leaves the keys, and takes nobody into guessing or out of locking.
LEMMA Aside ==
    ASSUME SignInInv, ~cut',
           UNCHANGED <<time, failures, lock, guesses, cut>>,
           Guessing' \subseteq Guessing, Locking' = Locking,
           \A r \in Requests : req'[r].stage = "expire" => req[r].stage = "expire"
    PROVE  Bounded'
<1>1. Cardinality(Guessing') <= Cardinality(Guessing) /\ Cardinality(Guessing') \in Nat
  BY Counted, NotMore, FS_Subset, FS_CardinalityType
<1>2. CASE LockIsDue
  BY <1>2 DEF Bounded, LockIsDue
<1>3. CASE LockHolds
  BY <1>1, <1>3, Counted, LockoutAssumption DEF Bounded, LockHolds, Locked, SignInInv,
      SignInTypes
<1>. QED
  BY <1>2, <1>3 DEF SignInInv

LEMMA BoundedStep ==
    ASSUME SignInInv, [SignInNext]_signInVars, SignInTypes'
    PROVE  Bounded'
<1>. SUFFICES ASSUME ~cut' PROVE LockIsDue' \/ LockHolds'
  BY DEF Bounded
<1>. USE LockoutAssumption
<1>t. /\ SignInTypes /\ Timely /\ guesses <= failures.count /\ CounterDecays
      /\ cut \/ LockIsDue \/ LockHolds
  BY DEF SignInInv
<1>c. /\ IsFiniteSet(Guessing) /\ IsFiniteSet(Locking) /\ IsFiniteSet(Requests)
      /\ Cardinality(Guessing) \in Nat /\ Cardinality(Locking) \in Nat
      /\ Cardinality(Requests) \in Nat
      /\ Cardinality(Guessing) + Cardinality(Locking) <= Cardinality(Requests)
  BY Counted
<1>d. Cardinality(Guessing') \in Nat /\ Cardinality(Locking') \in Nat
  <2>. Guessing' \subseteq Requests /\ Locking' \subseteq Requests
    BY DEF Guessing, Locking
  <2>. QED
    BY <1>c, FS_Subset, FS_CardinalityType
\* A counter that was reset leaves no guesses.
<1>r. ASSUME guesses' = 0 PROVE LockIsDue'
  BY <1>r, <1>d DEF LockIsDue
\* A step of a request that neither counts a failure nor locks nor sees the account unlocked.
<1>1. ASSUME NEW r \in Requests,
             \/ Challenge(r) \/ Accept(r) \/ AcceptMfa(r) \/ Suspended(r)
             \/ ChallengeLapses(r) \/ GiveUp(r) \/ \E d \in Requests : BeginMfa(r, d)
      PROVE  LockIsDue' \/ LockHolds'
  <2>1. UNCHANGED <<time, failures, lock, guesses, cut>>
    BY <1>1 DEF Challenge, Accept, AcceptMfa, Suspended, ChallengeLapses, GiveUp, BeginMfa,
                SignInTypes, SignInInv
  <2>2. \A q \in Requests : q # r => req'[q] = req[q]
    BY <1>1, <1>t DEF Challenge, Accept, AcceptMfa, Suspended, ChallengeLapses, GiveUp, BeginMfa,
                      SignInTypes, Turns, Ends
  <2>3. req'[r] = req[r] \/ /\ req'[r].stage \notin {"password", "expire", "lock"}
                            /\ req[r].stage \notin {"expire", "lock"}
    <3>1. CASE ChallengeLapses(r)
      BY <3>1 DEF ChallengeLapses
    <3>2. CASE GiveUp(r)
      <4>1. req[r].stage \notin {"expire", "lock"} /\ req'[r] = Waiting
        BY <1>t, <3>2 DEF GiveUp, Ends, SignInTypes
      <4>. QED
        BY <4>1 DEF Waiting
    <3>3. CASE Accept(r) \/ AcceptMfa(r)
      BY <1>t, <3>3 DEF Accept, AcceptMfa, SignInTypes, Records, Turns
    <3>4. CASE Challenge(r) \/ Suspended(r)
      <4>1. req[r].stage \in {"password", "code"} /\ req'[r] = Waiting
        BY <1>t, <3>4 DEF Challenge, Suspended, Ends, SignInTypes
      <4>. QED
        BY <4>1 DEF Waiting
    <3>5. CASE \E d \in Requests : BeginMfa(r, d)
      <4>1. req[r] = Waiting /\ req'[r].stage = "code"
        BY <1>t, <3>5 DEF BeginMfa, SignInTypes, Waiting
      <4>. QED
        BY <4>1 DEF Waiting
    <3>. QED
      BY <1>1, <3>1, <3>2, <3>3, <3>4, <3>5
  <2>4. Guessing' \subseteq Guessing /\ Locking' = Locking
        /\ \A q \in Requests : req'[q].stage = "expire" => req[q].stage = "expire"
    BY <2>2, <2>3 DEF Guessing, Locking
  <2>. QED
    BY <2>1, <2>4, Aside DEF Bounded
\* Whoever begins has found the account unlocked, so its lock is due.
<1>2. ASSUME NEW r \in Requests, Begin(r)
      PROVE  LockIsDue'
  <2>1. LockIsDue /\ UNCHANGED guesses
    BY <1>2, <1>t DEF Begin, LockHolds
  <2>2. Locking' = Locking
    BY <1>2, <1>t DEF Begin, Locking, SignInTypes, Turns, Waiting
  <2>. QED
    BY <2>1, <2>2 DEF LockIsDue
\* A counted failure past the threshold is a request that will lock the account.
<1>3. ASSUME NEW r \in Requests, Increment(r)
      PROVE  LockIsDue' \/ LockHolds'
  <2>1. /\ UNCHANGED <<time, lock, cut>>
        /\ failures' = [count |-> failures.count + 1, expires |-> failures.expires]
        /\ guesses' = IF req[r].stage = "password" THEN guesses + 1 ELSE guesses
        /\ req'[r].stage \in {"expire", "lock"} /\ req'[r].count = failures.count + 1
        /\ req'[r].stage = "expire" => failures.count = 0
        /\ \A q \in Requests : q # r => req'[q] = req[q]
        /\ req[r].stage \in {"password", "code"}
    BY <1>3, <1>t DEF Increment, SignInTypes, Waiting
  <2>2. Guessing' = Guessing \ {r}
    BY <2>1 DEF Guessing
  <2>3. CASE LockIsDue
    <3>1. CASE failures.count + 1 >= MaxAttempts
      <4>1. Locking' = Locking \cup {r} /\ r \notin Locking
        BY <2>1, <3>1 DEF Locking
      <4>2. Cardinality(Locking') = Cardinality(Locking) + 1
        BY <1>c, <4>1, OneMore
      <4>. QED
        BY <1>c, <1>t, <2>1, <2>3, <4>2 DEF LockIsDue, SignInTypes
    <3>2. CASE failures.count + 1 < MaxAttempts
      <4>1. guesses' <= failures.count + 1 /\ guesses' \in Nat
        BY <1>t, <2>1 DEF SignInTypes
      <4>. QED
        BY <1>d, <1>t, <3>2, <4>1 DEF LockIsDue, SignInTypes
    <3>. QED
      BY <3>1, <3>2, <1>t DEF SignInTypes
  <2>4. CASE LockHolds
    <3>1. CASE failures.count = 0
      <4>1. guesses = 0
        BY <1>t, <3>1 DEF SignInTypes
      <4>2. LockIsDue
        BY <1>c, <4>1 DEF LockIsDue
      <4>. QED
        BY <2>3, <4>2
    <3>2. CASE failures.count # 0
      <4>1. guesses' + Cardinality(Guessing') <= guesses + Cardinality(Guessing)
        <5>1. CASE req[r].stage = "password"
          <6>1. Cardinality(Guessing') = Cardinality(Guessing) - 1
            BY <1>c, <2>2, <5>1, OneLess DEF Guessing
          <6>. QED
            BY <1>c, <1>t, <2>1, <5>1, <6>1 DEF SignInTypes
        <5>2. CASE req[r].stage # "password"
          <6>1. Guessing' = Guessing
            BY <2>2, <5>2 DEF Guessing
          <6>. QED
            BY <1>c, <1>t, <2>1, <5>2, <6>1 DEF SignInTypes
        <5>. QED
          BY <5>1, <5>2
      <4>2. guesses' + Cardinality(Guessing') <= MaxAttempts - 1 + Cardinality(Requests)
        BY <1>c, <1>d, <1>t, <2>4, <4>1 DEF LockHolds, SignInTypes
      <4>3. \A q \in Requests : req'[q].stage = "expire" => req[q].stage = "expire"
        BY <2>1, <3>2
      <4>. QED
        BY <2>1, <2>4, <4>2, <4>3 DEF LockHolds, Locked
    <3>. QED
      BY <3>1, <3>2
  <2>. QED
    BY <1>t, <2>1, <2>3, <2>4
\* EXPIRE: no lock is older than the key it gives an expiry to.
<1>4. ASSUME NEW r \in Requests, Expire(r)
      PROVE  LockIsDue' \/ LockHolds'
  <2>1. /\ UNCHANGED <<time, lock, guesses, cut>> /\ req[r].stage = "expire"
        /\ req' = [req EXCEPT ![r].stage = "lock"]
    BY <1>4 DEF Expire, Turns
  <2>2. Guessing' = Guessing /\ Locking' = Locking
    BY <1>t, <2>1 DEF Guessing, Locking, SignInTypes
  <2>3. LockIsDue => LockIsDue'
    BY <2>1, <2>2 DEF LockIsDue
  <2>4. LockHolds => LockHolds'
    BY <2>1, <2>2 DEF LockHolds, Locked
  <2>. QED
    BY <1>t, <2>1, <2>3, <2>4
\* SET lock: the account is locked, by a request that was not guessing.
<1>5. ASSUME NEW r \in Requests, Engage(r)
      PROVE  LockIsDue' \/ LockHolds'
  <2>1. /\ UNCHANGED <<time, failures, guesses, cut>> /\ req[r].stage = "lock"
        /\ req' = [req EXCEPT ![r] = Waiting]
        /\ lock' = IF req[r].count >= MaxAttempts THEN time + Duration ELSE lock
    BY <1>5 DEF Engage, Ends, AtThreshold
  <2>2. Guessing' = Guessing
    BY <1>t, <2>1 DEF Guessing, SignInTypes, Waiting
  <2>3. CASE req[r].count >= MaxAttempts
    <3>1. lock' = time' + Duration /\ Locked'
      BY <1>t, <2>1, <2>3 DEF Locked, SignInTypes
    <3>2. guesses + Cardinality(Guessing) <= MaxAttempts - 1 + Cardinality(Requests)
      BY <1>c, <1>t, <2>1 DEF LockIsDue, LockHolds, SignInTypes
    <3>. QED
      BY <2>1, <2>2, <3>1, <3>2 DEF LockHolds
  <2>4. CASE ~(req[r].count >= MaxAttempts)
    <3>1. Locking' = Locking /\ UNCHANGED lock
          /\ \A q \in Requests : req'[q].stage = "expire" => req[q].stage = "expire"
      BY <1>t, <2>1, <2>4 DEF Locking, SignInTypes, Waiting
    <3>. QED
      BY <2>1, <2>2, <3>1, Aside DEF Bounded
  <2>. QED
    BY <2>3, <2>4
<1>6. ASSUME NEW r \in Requests, Clear(r)
      PROVE  LockIsDue'
  BY <1>6, <1>r DEF Clear
\* Time: the counter lapses no later than the lock, unless it has no expiry.
<1>7. CASE LockoutTick
  <2>1. /\ UNCHANGED <<req, cut>> /\ time' = time + 1
        /\ \A q \in Requests : req[q].stage # "expire"
        /\ lock' = IF lock <= time + 1 THEN 0 ELSE lock
    BY <1>7 DEF LockoutTick
  <2>2. Guessing' = Guessing /\ Locking' = Locking
    BY <2>1 DEF Guessing, Locking
  <2>3. CASE failures.expires <= time + 1
    BY <1>7, <1>r, <2>3 DEF LockoutTick
  <2>4. CASE ~(failures.expires <= time + 1)
    <3>1. UNCHANGED <<failures, guesses>>
      BY <1>7, <2>4 DEF LockoutTick
    <3>2. CASE LockIsDue
      BY <2>2, <3>1, <3>2 DEF LockIsDue
    <3>3. CASE LockHolds /\ failures.count = 0
      <4>1. guesses' = 0
        BY <1>t, <3>1, <3>3 DEF SignInTypes
      <4>. QED
        BY <1>r, <4>1
    <3>4. CASE LockHolds /\ failures.count # 0
      <4>1. failures.expires <= time + Duration
        BY <1>t, <2>1, <3>4 DEF CounterDecays, Timely, SignInTypes
      <4>2. failures.expires <= lock
        BY <1>t, <3>4, <4>1 DEF LockHolds, SignInTypes
      <4>3. UNCHANGED lock /\ Locked'
        BY <1>t, <2>1, <2>4, <4>2 DEF Locked, SignInTypes
      <4>. QED
        BY <2>1, <2>2, <3>1, <3>4, <4>2, <4>3 DEF LockHolds
    <3>. QED
      BY <1>t, <2>1, <3>2, <3>3, <3>4
  <2>. QED
    BY <2>3, <2>4
<1>8. CASE UNCHANGED signInVars
  BY <1>8, <1>t DEF signInVars, LockIsDue, LockHolds, Locking, Guessing, Locked
<1>. QED
  BY <1>1, <1>2, <1>3, <1>4, <1>5, <1>6, <1>7, <1>8 DEF SignInNext

LEMMA SignInInvHolds == SignInSpec => []SignInInv
<1>1. SignInInv /\ [SignInNext]_signInVars => SignInInv'
  BY Counting, Decaying, BoundedStep DEF SignInInv, Bounded
<1>. QED
  BY <1>1, SignInInvInit, PTL DEF SignInSpec

-------------------------------------------------------------------------------
(* What follows. *)

\* A burst of failures is forgotten: no counter stays without an expiry unless its instance
\* died between INCR and EXPIRE (recordFailure).
THEOREM FailuresLapse == SignInSpec => []CounterDecays
BY SignInInvHolds, PTL DEF SignInInv

\* Requests that had passed the lock before it fell are all that guesses past the
\* threshold, in any order of their commands and at any speed of the clock.
THEOREM LockIsInTime == SignInSpec => []GuessesAreBounded
<1>1. SignInInv => GuessesAreBounded
  BY Counted, LockoutAssumption DEF SignInInv, SignInTypes, GuessesAreBounded, LockIsDue,
      LockHolds
<1>. QED
  BY <1>1, SignInInvHolds, PTL
===============================================================================
