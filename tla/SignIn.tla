--------------------------------- MODULE SignIn ---------------------------------
(***************************************************************************)
(* Signing in to one account (admin-auth, lockout and mfa of               *)
(* modules/admin-identity): the lockout's two Redis keys, the MFA          *)
(* challenge, and requests cut at their Redis commands.  A session, once   *)
(* issued, is the matter of Sessions.                                      *)
(***************************************************************************)
EXTENDS Naturals, FiniteSets

CONSTANTS
    Requests,      \* sign-in requests handled at the same time
    MaxAttempts,   \* ADMIN_LOCKOUT_MAX_ATTEMPTS
    Duration,      \* ADMIN_LOCKOUT_DURATION_S, in ticks
    MaxFailures,   \* bound on the counter
    LastMoment     \* bound on the clock

\* env.ts: neither the threshold nor the duration is zero.
ASSUME LockoutAssumption ==
    /\ IsFiniteSet(Requests)
    /\ MaxAttempts \in Nat \ {0} /\ Duration \in Nat \ {0}
    /\ MaxFailures \in Nat /\ LastMoment \in Nat

VARIABLES
    time,
    failures,    \* the counter: its count, 0 when there is no key, and its expiry
    lock,        \* when the lock lifts, 0 when there is no key
    challenges,  \* the open challenges, each named for the request that opened it
    req,         \* req[r]: what r does next, the count and the challenge it was given
    guesses,     \* wrong passwords in the counter (history)
    cut          \* an instance died between two commands of one failure (history)

signInVars == <<time, failures, lock, challenges, req, guesses, cut>>

Never    == LastMoment + Duration + 1     \* no expiry
NoKey    == [count |-> 0, expires |-> Never]
Waiting  == [stage |-> "none", count |-> 0, challenge |-> {}]

SignInInit ==
    /\ time = 0
    /\ failures = NoKey
    /\ lock = 0
    /\ challenges = {}
    /\ req = [r \in Requests |-> Waiting]
    /\ guesses = 0
    /\ cut = FALSE

Turns(r, stage) == req' = [req EXCEPT ![r].stage = stage]
Ends(r)           == req' = [req EXCEPT ![r] = Waiting]
Locked == lock > time

\* login: the account and its lock state are read; a locked account ends here (423).
Begin(r) ==
    /\ req[r] = Waiting
    /\ ~Locked
    /\ Turns(r, "password")
    /\ UNCHANGED <<time, failures, lock, challenges, guesses, cut>>

\* The right password of an account with a second factor opens a challenge.
Challenge(r) ==
    /\ req[r].stage = "password"
    /\ challenges' = challenges \cup {r}
    /\ Ends(r)
    /\ UNCHANGED <<time, failures, lock, guesses, cut>>

\* The right password of one without: issueSession, then clearFailures.
Accept(r) ==
    /\ req[r].stage = "password"
    /\ Turns(r, "clear")
    /\ UNCHANGED <<time, failures, lock, challenges, guesses, cut>>

\* completeMfa reads the challenge; the lock is not looked at.
BeginMfa(r, c) ==
    /\ req[r] = Waiting
    /\ c \in challenges
    /\ req' = [req EXCEPT ![r] = [Waiting EXCEPT !.stage = "code", !.challenge = {c}]]
    /\ UNCHANGED <<time, failures, lock, challenges, guesses, cut>>

\* The right code: consumeChallenge, issueSession.
AcceptMfa(r) ==
    /\ req[r].stage = "code"
    /\ challenges' = challenges \ req[r].challenge
    /\ Turns(r, "clear")
    /\ UNCHANGED <<time, failures, lock, guesses, cut>>

\* The right password or code of a suspended account; a code is spent on it.
Suspended(r) ==
    /\ req[r].stage \in {"password", "code"}
    /\ challenges' = challenges \ req[r].challenge
    /\ Ends(r)
    /\ UNCHANGED <<time, failures, lock, guesses, cut>>

\* Five minutes pass over an open challenge.
ChallengeLapses(c) ==
    /\ c \in challenges
    /\ challenges' = challenges \ {c}
    /\ UNCHANGED <<time, failures, lock, req, guesses, cut>>

\* A wrong password or code: INCR.  The challenge survives it.
Increment(r) ==
    /\ req[r].stage \in {"password", "code"}
    /\ failures.count < MaxFailures
    /\ failures' = [failures EXCEPT !.count = @ + 1]
    /\ guesses' = IF req[r].stage = "password" THEN guesses + 1 ELSE guesses
    /\ req' = [req EXCEPT ![r] = [Waiting EXCEPT
                  !.stage = IF failures.count = 0 THEN "expire" ELSE "lock",
                  !.count = failures.count + 1]]
    /\ UNCHANGED <<time, lock, challenges, cut>>

\* Bug: the expiry is set for a counter that reaches the threshold.
ExpireAtThreshold(r) == failures.count >= MaxAttempts

\* EXPIRE, by the request that created the key; the key may be gone by now.
ExpireTakes(r) == failures.count > 0

Expire(r) ==
    /\ req[r].stage = "expire"
    /\ failures' = IF ExpireTakes(r) THEN [failures EXCEPT !.expires = time + Duration]
                                     ELSE failures
    /\ Turns(r, "lock")
    /\ UNCHANGED <<time, lock, challenges, guesses, cut>>

\* Bug: the lock falls one failure late.
PastThreshold(n) == n > MaxAttempts

AtThreshold(n) == n >= MaxAttempts

\* SET lock EX, on the count this request was given.
Engage(r) ==
    /\ req[r].stage = "lock"
    /\ lock' = IF AtThreshold(req[r].count) THEN time + Duration ELSE lock
    /\ Ends(r)
    /\ UNCHANGED <<time, failures, challenges, guesses, cut>>

\* clearFailures: both keys in one MULTI.
Clear(r) ==
    /\ req[r].stage = "clear"
    /\ failures' = NoKey
    /\ guesses' = 0
    /\ lock' = 0
    /\ Ends(r)
    /\ UNCHANGED <<time, challenges, cut>>

\* The instance dies, or Redis is unreachable, under a request.
GiveUp(r) ==
    /\ req[r] # Waiting
    /\ cut' = (cut \/ req[r].stage \in {"expire", "lock"})
    /\ Ends(r)
    /\ UNCHANGED <<time, failures, lock, challenges, guesses>>

\* A tick is long against one Redis command: none passes between INCR and EXPIRE.
LockoutTick ==
    /\ time < LastMoment
    /\ \A r \in Requests : req[r].stage # "expire"
    /\ time' = time + 1
    /\ failures' = IF failures.expires <= time + 1 THEN NoKey ELSE failures
    /\ guesses' = IF failures.expires <= time + 1 THEN 0 ELSE guesses
    /\ lock' = IF lock <= time + 1 THEN 0 ELSE lock
    /\ UNCHANGED <<challenges, req, cut>>

SignInNext ==
    \/ \E r \in Requests :
         \/ Begin(r) \/ Challenge(r) \/ Accept(r) \/ AcceptMfa(r) \/ Suspended(r)
         \/ (\E c \in Requests : BeginMfa(r, c)) \/ ChallengeLapses(r)
         \/ Increment(r) \/ Expire(r) \/ Engage(r) \/ Clear(r) \/ GiveUp(r)
    \/ LockoutTick

SignInSpec == SignInInit /\ [][SignInNext]_signInVars

\* A lock is engaged in time: the wrong passwords tried before the counter is cleared or
\* lapses are at most one less than the threshold and one for every request that had
\* passed the lock when it was engaged (the lock is read, the password checked and the
\* failure counted in separate steps), unless the counter outlived its window.
GuessesAreBounded == cut \/ guesses <= MaxAttempts - 1 + Cardinality(Requests)

\* A burst of failures decays on its own: the counter always has an expiry, or the request
\* that created it is about to give it one, or its instance died in between.
CounterDecays ==
    failures.count > 0 /\ failures.expires = Never =>
        cut \/ \E r \in Requests : req[r].stage = "expire"
===============================================================================
