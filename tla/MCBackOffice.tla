------------------------------ MODULE MCBackOffice ------------------------------
(* Small instances of five desks of the back office.  They share no state, so a behaviour *)
(* is about one of them, chosen at the start, and the others stay as they began.  Money   *)
(* has three scenes: a rush of two administrators on one large amount, where nothing      *)
(* fails; one request handled alone, with one failure, up to its first call; and the same *)
(* payout attempted again, with one failure.                                              *)
EXTENDS Money, FeatureFlags, SignIn, TransactionFeed, Statements

CONSTANTS a, b, c

VARIABLE desk

allVars == <<vars, flagVars, signInVars, feedVars, statementVars, desk>>

MCTierOf == [x \in Admins |-> IF x = c THEN 3 ELSE 2]

-------------------------------------------------------------------------------

MoneyDesks == {"rush", "alone", "again"}
One        == CHOOSE p \in Procs : TRUE

\* What the money desks begin with; any other desk has a quiet payout on the side.
MoneyInit ==
    /\ Init
    /\ desk = "rush"  => faults = 0 /\ item.amount = Threshold /\ item.typist \in {None, a}
    /\ desk = "alone" => faults = MaxFaults /\ item.typist \in {None, a}
    /\ desk = "again" => faults = MaxFaults /\ item.kind = "payout" /\ item.amount < Threshold
    /\ desk \notin MoneyDesks => faults = 0 /\ item.kind = "payout" /\ item.amount < Threshold

QuietFeed == /\ table = [s \in Sources |-> IF s = CHOOSE z \in Sources : TRUE
                                           THEN {[value |-> 1, id |-> 1]} ELSE {}]
             /\ direction = 1

QuietEntry == entry = [kind |-> "run", cod |-> FALSE, net |-> 0, cut |-> 0, fee |-> 0]

MCInit ==
    /\ desk \in MoneyDesks \cup {"flags", "signin", "feed", "statements"}
    /\ MoneyInit
    /\ FlagInit
    /\ SignInInit
    /\ FeedInit /\ (desk = "feed" \/ QuietFeed)
    /\ StatementInit /\ (desk = "statements" \/ QuietEntry)

-------------------------------------------------------------------------------

otherDesks == <<flagVars, signInVars, feedVars, statementVars, desk>>

Staffed(p) == desk = "rush" \/ (desk \in {"alone", "again"} /\ p = One)
Opens(p)   == Staffed(p) /\ (desk = "alone" => ~Reached(1))

\* Nobody waits in vain in the rush, where nothing is lost: the platform answers.
Goes(p) == /\ Staffed(p)
           /\ Progress(p) \/ (desk # "rush" /\ TimedOut(p))
           /\ UNCHANGED otherDesks
Replies(k) == desk = "rush" /\ (Commit(k) \/ Refuse(k)) /\ UNCHANGED otherDesks

MoneyNext ==
    \/ \E p \in Procs : Opens(p) /\ Opening(p) /\ UNCHANGED otherDesks
    \/ \E p \in Procs : Goes(p)
    \/ \E p \in Procs : Staffed(p) /\ Die(p) /\ UNCHANGED otherDesks
    \/ desk \in MoneyDesks /\ Platform /\ UNCHANGED otherDesks
    \/ desk = "alone" /\ Clock /\ UNCHANGED otherDesks

MCNext ==
    \/ MoneyNext
    \/ /\ desk = "flags" /\ FlagNext
       /\ UNCHANGED <<vars, signInVars, feedVars, statementVars, desk>>
    \/ /\ desk = "signin" /\ SignInNext /\ Cardinality(challenges') <= 1
       /\ UNCHANGED <<vars, flagVars, feedVars, statementVars, desk>>
    \/ /\ desk = "feed" /\ FeedNext
       /\ UNCHANGED <<vars, flagVars, signInVars, statementVars, desk>>
    \/ /\ desk = "statements" /\ Issue
       /\ UNCHANGED <<vars, flagVars, signInVars, feedVars, desk>>

MCSpec == /\ MCInit /\ [][MCNext]_allVars
          /\ \A p \in Procs : WF_allVars(Goes(p))
          /\ \A k \in CallIds : WF_allVars(Replies(k))

================================================================================
