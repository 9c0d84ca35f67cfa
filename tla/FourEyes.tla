------------------------------- MODULE FourEyes -------------------------------
(***************************************************************************)
(* What the approval queue promises, with no requests in flight, no clock  *)
(* and no crashes: an intent is asked for by one administrator, granted by *)
(* another, and carried out at most once; or it is closed and never        *)
(* carried out.  Two identical intents are never open at the same time.    *)
(* DualControl implements this specification.                              *)
(***************************************************************************)
CONSTANTS Admins,   \* the administrators
          Intents,  \* what can be asked for: action, target and payload together
          Ids,      \* identifiers of requests
          None      \* "nobody", "nothing"

VARIABLES
    phase,    \* phase[i]: "none", "open", "granted", "done" or "closed"
    intent,   \* intent[i]: what request i asks for
    asker,    \* asker[i]: who asked for it
    granter   \* granter[i]: who granted it

vars == <<phase, intent, asker, granter>>

Init ==
    /\ phase   = [i \in Ids |-> "none"]
    /\ intent  = [i \in Ids |-> None]
    /\ asker   = [i \in Ids |-> None]
    /\ granter = [i \in Ids |-> None]

Ask(i, a, x) ==
    /\ phase[i] = "none"
    /\ \A j \in Ids : ~(phase[j] = "open" /\ intent[j] = x)
    /\ phase'  = [phase EXCEPT ![i] = "open"]
    /\ intent' = [intent EXCEPT ![i] = x]
    /\ asker'  = [asker EXCEPT ![i] = a]
    /\ UNCHANGED granter

Grant(i, a) ==
    /\ phase[i] = "open"
    /\ a # asker[i]
    /\ phase'   = [phase EXCEPT ![i] = "granted"]
    /\ granter' = [granter EXCEPT ![i] = a]
    /\ UNCHANGED <<intent, asker>>

CarryOut(i) ==
    /\ phase[i] = "granted"
    /\ phase' = [phase EXCEPT ![i] = "done"]
    /\ UNCHANGED <<intent, asker, granter>>

Close(i) ==
    /\ phase[i] = "open"
    /\ phase' = [phase EXCEPT ![i] = "closed"]
    /\ UNCHANGED <<intent, asker, granter>>

Next ==
    \E i \in Ids :
        \/ \E a \in Admins, x \in Intents : Ask(i, a, x)
        \/ \E a \in Admins : Grant(i, a)
        \/ CarryOut(i)
        \/ Close(i)

Spec == Init /\ [][Next]_vars
===============================================================================
