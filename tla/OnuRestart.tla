----------------------------- MODULE OnuRestart -----------------------------
(***************************************************************************)
(* OnuDiscovery without its assumption that an agent runs until reboot     *)
(* (get_onu_indexes() of pon_ctrl.c states it): agents end, and start      *)
(* again on any bus context.  The bus may then hold the subscription of    *)
(* the module or not; the module takes note of neither.  What remains true *)
(* shows what the assumption is needed for.                                *)
(***************************************************************************)
EXTENDS OnuDiscovery

VARIABLES
    deaf,   \* flagged as subscribed, but the agent went and the bus forgot
    seen    \* history: agents up at some time of the current or last listing

restartVars == <<vars, deaf, seen>>

RestartInit == Init /\ deaf = {} /\ seen = {}

\* The process of an agent ends, with or without a restart to follow (AgentUp).
AgentDown == \E i \in Up :
    /\ agents' = [agents EXCEPT ![i] = NULL]
    /\ upAtBegin' = upAtBegin \ {i}
    /\ \/ UNCHANGED <<subs, deaf>>
       \/ /\ subs' = [subs EXCEPT ![i] = 0]
          /\ deaf' = IF subscribed[i] THEN deaf \cup {i} ELSE deaf
    /\ UNCHANGED <<pending, moduleVars, indexes, refused, phase, next, stuck, seen>>

\* Nothing but the end of a subscription ends its deafness: the module does not
\* subscribe where its flag is set.
Otherwise ==
    /\ Next
    /\ deaf' = {i \in deaf : subscribed'[i]}
    /\ seen' = IF phase = "ready" /\ phase' = "listing" THEN Up ELSE seen \cup Up'

RestartNext == AgentDown \/ Otherwise

RestartSpec == RestartInit /\ [][RestartNext]_restartVars

(***************************************************************************)
(* Properties.                                                             *)
(***************************************************************************)
\* The flags are wrong only about agents that restarted: nobody is subscribed
\* on twice, and a new agent is heard unless it follows one that was (the flag
\* of notif_subscribe() against what the bus holds).
HeardUnlessDeaf == \A i \in Index : subs[i] = IF subscribed[i] /\ i \notin deaf THEN 1 ELSE 0

\* Each ONU of the last list is heard, unless its subscription failed in that
\* call or its agent went since it was made (get_onu_indexes()).
ListedIsHeardUnlessDeaf ==
    phase \in {"listing", "ready"} =>
        \A k \in DOMAIN indexes : subs[indexes[k]] = 1 \/ indexes[k] \in refused \cup deaf

\* A list made while agents come and go has each one that was up all the time
\* when its turn came, and only such as were up at some time of the call.
ListSeen ==
    phase = "listing" =>
        /\ \A i \in upAtBegin : i < next => \E k \in DOMAIN indexes : indexes[k] = i
        /\ \A k \in DOMAIN indexes : indexes[k] \in seen
        /\ \A k, l \in DOMAIN indexes : k < l => indexes[k] < indexes[l]
=============================================================================
