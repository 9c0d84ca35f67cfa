------------------------------ MODULE Escalation ------------------------------
(***************************************************************************)
(* The rules for one administrator acting on another, as pure predicates.  *)
(*                                                                         *)
(* A level is a number and the LOWER number holds MORE privilege:          *)
(* 1 Developer, 2 Admin, 3 Support.  The source throws on a refusal and    *)
(* returns a verdict otherwise; here MayActOn is "does not throw" and      *)
(* NeedsSecond is the verdict's dualControlRequired.                       *)
(***************************************************************************)
EXTENDS Naturals

Developer == 1
Tiers     == 1..3

\* The actions of escalation.rules.ts on an administrator who already exists.
AdminActions == {"update", "suspend", "reinstate", "set_tier", "read_sessions",
                 "revoke_sessions", "reset_password", "reset_mfa"}

\* Refused on one's own account, whatever one holds.
SelfForbidden == {"suspend", "set_tier", "revoke_sessions", "reset_password"}

MintsPeer(actorTier, newTier) == actorTier = Developer /\ newTier = Developer

\* assertMayAssignTier: never assign a level at or above one's own, except that a
\* Developer may propose another Developer.
MayAssign(actorTier, newTier) == newTier > actorTier \/ MintsPeer(actorTier, newTier)

PeerDevelopers(actorTier, targetTier) == actorTier = Developer /\ targetTier = Developer

\* assertMayActOn does not throw.  newTier matters for "set_tier" only.
MayActOn(actor, actorTier, target, targetTier, action, newTier) ==
    IF actor = target
    THEN action \notin SelfForbidden
    ELSE /\ targetTier > actorTier \/ PeerDevelopers(actorTier, targetTier)
         /\ action = "set_tier" => MayAssign(actorTier, newTier)

\* The dualControlRequired of the verdict assertMayActOn returns.
NeedsSecond(actor, actorTier, target, targetTier, action, newTier) ==
    /\ actor # target
    /\ \/ PeerDevelopers(actorTier, targetTier)
       \/ action = "set_tier" /\ MintsPeer(actorTier, newTier)

\* assertMayCreate followed by createAdministrator's refusal of a verdict that asks
\* for a second approval: what may be created without anybody else.
MayCreate(actorTier, newTier) ==
    MayAssign(actorTier, newTier) /\ ~MintsPeer(actorTier, newTier)
===============================================================================
