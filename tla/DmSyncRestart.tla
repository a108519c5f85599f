--------------------------- MODULE DmSyncRestart ---------------------------
(***************************************************************************)
(* DmSync with processes of the plugin that end, at any point of a call or *)
(* of a handler, and are followed by another.  Nothing of the module is    *)
(* stored: the next process has neither a bus context nor a subscription,  *)
(* and the plugin starts without data.  What stays is on the other side:   *)
(* the requests of the old process are still in the agent, and are still   *)
(* executed, when the new one makes its first calls.                       *)
(***************************************************************************)
EXTENDS DmSync

\* Mutant: an answer finds whoever calls next.
ProcessEndsKeepsRequests ==
    /\ notifs' = <<>>
    /\ onu' = "unknown"
    /\ call' = NoCall
    /\ told' = [o \in Object |-> Absent]
    /\ toldEnable' = [o \in Enableable |-> Absent]
    /\ missed' = registered
    /\ unsure' = Enableable
    /\ UNCHANGED <<halVars, sent>>

\* The static variables are set up again.  ubusd forgets the subscription, and
\* what is queued for the connection of the old process.
ProcessEnds ==
    /\ notifs' = <<>>
    /\ onu' = "unknown"
    /\ call' = NoCall
    /\ requests' = [i \in DOMAIN requests |-> [requests[i] EXCEPT !.live = FALSE]]
    /\ told' = [o \in Object |-> Absent]
    /\ toldEnable' = [o \in Enableable |-> Absent]
    /\ missed' = registered
    /\ unsure' = Enableable
    /\ UNCHANGED <<registered, version, enabled, unsent, edits, sent>>

RestartNext == Next \/ ProcessEnds

RestartSpec == Init /\ [][RestartNext]_vars

(***************************************************************************)
(* Properties, besides those of DmSync.                                    *)
(***************************************************************************)
\* With processes that end, the module implements DmMirror with a plugin that
\* starts anew: nothing of the old process, its queue, its call and the replies it
\* gave up included, is taken for news of the new one.  The switches the old process
\* left in the agent are executed before the new one's first fetch is answered
\* (notif.c, southbound_if.c, and method_cb() of the agent).
ImplementsMirrorWithEnds == Mirror!SpecWithEnds /\ EnableMirror!SpecWithEnds

=============================================================================
