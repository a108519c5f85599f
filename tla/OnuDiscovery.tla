---------------------------- MODULE OnuDiscovery ----------------------------
(***************************************************************************)
(* How mod-xpon-prpl finds the ONUs of a board and subscribes on their     *)
(* notifications: get_onu_indexes() of pon_ctrl.c, notif_subscribe() and   *)
(* notif_cleanup() of notif.c, and the start and stop of the module.       *)
(*                                                                         *)
(* The module is one thread, so its calls do not overlap, but the bus      *)
(* calls inside its two loops (amxb_be_who_has, amxb_subscribe,            *)
(* amxb_unsubscribe) each take time and each may fail, and ONU HAL agents  *)
(* come up while a loop runs.  Each turn of a loop is a step.  As the      *)
(* module assumes, an agent that is up stays up until reboot.  The plugin  *)
(* process that carries the module may end at any time and start again:    *)
(* its static variables and its bus connections do not survive.            *)
(***************************************************************************)
EXTENDS Integers, Sequences, FiniteSets

CONSTANTS
    MAX_NR_OF_ONUS,   \* size of the subscription table
    Ctx,              \* bus contexts (connections) of the plugin
    NULL,
    MaxPending        \* bound: undispatched notifications of one ONU

ASSUME DiscoveryAssumption ==
    /\ MAX_NR_OF_ONUS \in Nat \ {0}
    /\ NULL \notin Ctx
    /\ MaxPending \in Nat \ {0}

Index == 1..MAX_NR_OF_ONUS

VARIABLES
    agents,      \* the bus context on which xpon_onu.<i> is found, or NULL
    subs,        \* number of subscriptions on xpon_onu.<i> the bus holds
    pending,     \* notifications of xpon_onu.<i> waiting to be dispatched
    phase,       \* what the thread is doing, see TypeOK
    maxOnus,     \* pon_ctrl.c s_max_nr_of_onus
    ctrlCtx,     \* pon_ctrl.c s_bus_ctx
    notifCtx,    \* notif.c s_bus_ctx
    subscribed,  \* notif.c s_subscription_info[i].subscribed
    next,        \* the index whose turn it is in the loop that runs
    indexes,     \* the list the current or last get_onu_indexes() made
    upAtBegin,   \* history: the agents up when that call began
    refused,     \* history: indexes that call could not subscribe on
    stuck        \* history: indexes notif_cleanup() could not unsubscribe from

busVars == <<agents, subs, pending>>
moduleVars == <<maxOnus, ctrlCtx, notifCtx, subscribed>>
listVars == <<indexes, upAtBegin, refused>>
vars == <<busVars, moduleVars, listVars, phase, next, stuck>>

Up == {i \in Index : agents[i] # NULL}

TypeOK ==
    /\ agents \in [Index -> Ctx \cup {NULL}]
    /\ subs \in [Index -> Nat]
    /\ pending \in [Index -> Nat]
    \* "none": no module; "mute": the module is loaded, but its namespace is not
    \* registered; "ready": in the event loop; "unloaded": the destructor is done
    /\ phase \in {"none", "mute", "ready", "listing", "stopping", "unloaded"}
    /\ maxOnus \in Index
    /\ ctrlCtx \in Ctx \cup {NULL}
    /\ notifCtx \in Ctx \cup {NULL}
    /\ subscribed \in [Index -> BOOLEAN]
    /\ next \in 1..(MAX_NR_OF_ONUS + 1)
    /\ indexes \in Seq(Index)
    /\ upAtBegin \subseteq Index
    /\ refused \subseteq Index
    /\ stuck \subseteq Index

Init ==
    /\ agents = [i \in Index |-> NULL]
    /\ subs = [i \in Index |-> 0]
    /\ pending = [i \in Index |-> 0]
    /\ phase = "none"
    /\ maxOnus = MAX_NR_OF_ONUS
    /\ ctrlCtx = NULL
    /\ notifCtx = NULL
    /\ subscribed = [i \in Index |-> FALSE]
    /\ next = 1
    /\ indexes = <<>>
    /\ upAtBegin = {}
    /\ refused = {}
    /\ stuck = {}

(***************************************************************************)
(* The environment: agents and the bus.                                    *)
(***************************************************************************)
AgentUp == \E i \in Index, c \in Ctx :
    /\ agents[i] = NULL
    /\ agents' = [agents EXCEPT ![i] = c]
    /\ UNCHANGED <<subs, pending, moduleVars, listVars, phase, next, stuck>>

\* One copy of the notification for each subscription.
AgentNotifies == \E i \in Index :
    /\ subs[i] > 0
    /\ pending[i] < MaxPending
    /\ pending' = [pending EXCEPT ![i] = @ + subs[i]]
    /\ UNCHANGED <<agents, subs, moduleVars, listVars, phase, next, stuck>>

(***************************************************************************)
(* Life of the module in the plugin process.                               *)
(***************************************************************************)
\* mod_xpon_prpl_start().  Loading a shared object does not look at what its
\* constructor returns: when it fails before the namespace is registered the
\* module is mute, and when ubus_prpl_init() fails after it the module serves.
Start ==
    /\ phase = "none"
    /\ phase' \in {"ready", "mute"}
    /\ UNCHANGED <<busVars, moduleVars, listVars, next, stuck>>

\* The process exits or crashes; the bus drops what its connections held, and
\* the C start-up code and notif_init() set the static variables up again.
ProcessEnds ==
    /\ phase # "none"
    /\ phase' = "none"
    /\ subs' = [i \in Index |-> 0]
    /\ pending' = [i \in Index |-> 0]
    /\ maxOnus' = MAX_NR_OF_ONUS
    /\ ctrlCtx' = NULL
    /\ notifCtx' = NULL
    /\ subscribed' = [i \in Index |-> FALSE]
    /\ indexes' = <<>>
    /\ upAtBegin' = {}
    /\ refused' = {}
    /\ stuck' = {}
    /\ next' = 1
    /\ UNCHANGED agents

(***************************************************************************)
(* Namespace pon_ctrl.                                                     *)
(***************************************************************************)
\* Mutant: accepts a board without ONUs.
SetMaxNrOfOnusFromZero == \E n \in 0..(MAX_NR_OF_ONUS + 1) :
    /\ phase = "ready"
    /\ maxOnus' = IF n > MAX_NR_OF_ONUS THEN maxOnus ELSE n
    /\ UNCHANGED <<busVars, ctrlCtx, notifCtx, subscribed, listVars, phase, next, stuck>>

\* set_max_nr_of_onus(): anything outside [1, MAX_NR_OF_ONUS] is refused.
SetMaxNrOfOnus == \E n \in 0..(MAX_NR_OF_ONUS + 1) :
    /\ phase = "ready"
    /\ maxOnus' = IF n = 0 \/ n > MAX_NR_OF_ONUS THEN maxOnus ELSE n
    /\ UNCHANGED <<busVars, ctrlCtx, notifCtx, subscribed, listVars, phase, next, stuck>>

\* get_onu_indexes() is entered.
ListBegin ==
    /\ phase = "ready"
    /\ phase' = "listing"
    /\ next' = 1
    /\ indexes' = <<>>
    /\ upAtBegin' = Up
    /\ refused' = {}
    /\ UNCHANGED <<busVars, moduleVars, stuck>>

\* Mutant: the context is kept only once a subscription has succeeded.
NotifSubscribeKeepsContextLate(c, i) ==
    IF subscribed[i] THEN UNCHANGED <<notifCtx, subscribed, subs, refused>>
    ELSE \/ /\ notifCtx \in {NULL, c}
            /\ notifCtx' = c
            /\ subscribed' = [subscribed EXCEPT ![i] = TRUE]
            /\ subs' = [subs EXCEPT ![i] = @ + 1]
            /\ UNCHANGED refused
         \/ /\ refused' = refused \cup {i}
            /\ UNCHANGED <<notifCtx, subscribed, subs>>

\* Mutant: takes any context, not only the one kept.
NotifSubscribeAnyContext(c, i) ==
    IF subscribed[i] THEN UNCHANGED <<notifCtx, subscribed, subs, refused>>
    ELSE /\ notifCtx' = IF notifCtx = NULL THEN c ELSE notifCtx
         /\ subscribed' = [subscribed EXCEPT ![i] = TRUE]
         /\ subs' = [subs EXCEPT ![i] = @ + 1]
         /\ UNCHANGED refused

\* Mutant: the subscription is made, but the flag stays as it was.
NotifSubscribeForgetsFlag(c, i) ==
    IF subscribed[i] THEN UNCHANGED <<notifCtx, subscribed, subs, refused>>
    ELSE /\ notifCtx' = IF notifCtx = NULL THEN c ELSE notifCtx
         /\ subs' = [subs EXCEPT ![i] = @ + 1]
         /\ UNCHANGED <<subscribed, refused>>

\* notif_subscribe(c, i).  The context is kept before amxb_subscribe() is
\* called, the flag set after it, and only if it succeeded.
NotifSubscribe(c, i) ==
    IF subscribed[i] THEN UNCHANGED <<notifCtx, subscribed, subs, refused>>
    ELSE IF notifCtx \notin {NULL, c}
    THEN /\ refused' = refused \cup {i}
         /\ UNCHANGED <<notifCtx, subscribed, subs>>
    ELSE /\ notifCtx' = c
         /\ \/ /\ subscribed' = [subscribed EXCEPT ![i] = TRUE]
               /\ subs' = [subs EXCEPT ![i] = @ + 1]
               /\ UNCHANGED refused
            \/ /\ refused' = refused \cup {i}
               /\ UNCHANGED <<subscribed, subs>>

\* Mutant: an index that is subscribed already is left out of the list.
ListFoundOnlyNew(c) ==
    /\ indexes' = IF subscribed[next] THEN indexes ELSE Append(indexes, next)
    /\ ctrlCtx' = IF ctrlCtx = NULL THEN c ELSE ctrlCtx
    /\ NotifSubscribe(c, next)

\* Mutant: subscribes on a new ONU only when the context is set the first time.
ListFoundSubscribesFirst(c) ==
    /\ indexes' = Append(indexes, next)
    /\ ctrlCtx' = IF ctrlCtx = NULL THEN c ELSE ctrlCtx
    /\ IF ctrlCtx = NULL THEN NotifSubscribe(c, next)
       ELSE UNCHANGED <<notifCtx, subscribed, subs, refused>>

\* amxb_be_who_has() found xpon_onu.<next> on c.  It is listed whatever comes
\* of the subscription; another context than the first is only logged.
ListFound(c) ==
    /\ indexes' = Append(indexes, next)
    /\ ctrlCtx' = IF ctrlCtx = NULL THEN c ELSE ctrlCtx
    /\ NotifSubscribe(c, next)

\* One turn of the loop in get_onu_indexes().
ListStep ==
    /\ phase = "listing"
    /\ next <= maxOnus
    /\ next' = next + 1
    /\ IF agents[next] # NULL
       THEN ListFound(agents[next])
       ELSE UNCHANGED <<indexes, ctrlCtx, notifCtx, subscribed, subs, refused>>
    /\ UNCHANGED <<agents, pending, maxOnus, upAtBegin, phase, stuck>>

ListEnd ==
    /\ phase = "listing"
    /\ next > maxOnus
    /\ phase' = "ready"
    /\ UNCHANGED <<busVars, moduleVars, listVars, next, stuck>>

(***************************************************************************)
(* notif_handler(): the event loop dispatches a notification.  Its check of *)
(* the flag never stops one: that is SubscribedOnce.                       *)
(***************************************************************************)
Dispatch == \E i \in Index :
    /\ phase = "ready"
    /\ pending[i] > 0
    /\ pending' = [pending EXCEPT ![i] = @ - 1]
    /\ UNCHANGED <<agents, subs, moduleVars, listVars, phase, next, stuck>>

(***************************************************************************)
(* mod_xpon_prpl_stop(): namespace gone first, then notif_cleanup().       *)
(***************************************************************************)
\* Without a context there is nothing to unsubscribe from.
StopBegin ==
    /\ phase \in {"ready", "mute"}
    /\ phase' = IF notifCtx # NULL THEN "stopping" ELSE "unloaded"
    /\ next' = 1
    /\ UNCHANGED <<busVars, moduleVars, listVars, stuck>>

\* One turn of the loop in notif_cleanup().  The bus forgets the callback and
\* what it would still have been called for; if it does not, the flag stays.
StopStep ==
    /\ phase = "stopping"
    /\ next <= MAX_NR_OF_ONUS
    /\ next' = next + 1
    /\ \/ /\ subscribed[next]
          /\ subscribed' = [subscribed EXCEPT ![next] = FALSE]
          /\ subs' = [subs EXCEPT ![next] = 0]
          /\ pending' = [pending EXCEPT ![next] = 0]
          /\ UNCHANGED stuck
       \/ /\ subscribed[next]
          /\ stuck' = stuck \cup {next}
          /\ UNCHANGED <<subscribed, subs, pending>>
       \/ /\ ~subscribed[next]
          /\ UNCHANGED <<subscribed, subs, pending, stuck>>
    /\ UNCHANGED <<agents, maxOnus, ctrlCtx, notifCtx, listVars, phase>>

\* Mutant: the loop stops at the configured number of ONUs, as the listing does.
StopEndAtConfiguredMax ==
    /\ phase = "stopping"
    /\ next > maxOnus
    /\ phase' = "unloaded"
    /\ UNCHANGED <<busVars, moduleVars, listVars, next, stuck>>

StopEnd ==
    /\ phase = "stopping"
    /\ next > MAX_NR_OF_ONUS
    /\ phase' = "unloaded"
    /\ UNCHANGED <<busVars, moduleVars, listVars, next, stuck>>

Next ==
    \/ AgentUp \/ AgentNotifies
    \/ Start \/ ProcessEnds
    \/ SetMaxNrOfOnus \/ ListBegin \/ ListStep \/ ListEnd
    \/ Dispatch
    \/ StopBegin \/ StopStep \/ StopEnd

Spec == Init /\ [][Next]_vars

(***************************************************************************)
(* Properties.                                                             *)
(***************************************************************************)
\* The two files each keep a bus context of their own; they are the same one
\* whatever was found, in whatever order, and whichever subscription failed.
\* pon_ctrl.c calls methods on the first, notif.c answers notifications on the
\* second: with two contexts the answers would come from another bus.
ContextsAgree == ctrlCtx = notifCtx

\* The flag says what the bus holds: one subscription or none, never two, so no
\* notification is dispatched twice or dropped as "not subscribed".
SubscribedOnce == \A i \in Index : subs[i] = IF subscribed[i] THEN 1 ELSE 0

\* A subscription is always on the context that notif_cleanup() will use.
HeardOnKeptContext == \A i \in Index : subscribed[i] => agents[i] = notifCtx /\ notifCtx # NULL

\* The list has every agent that was up when the call began, none that is not
\* up, and each once and in order, also when agents come up in the meantime.
ListExact ==
    phase = "listing" =>
        /\ \A i \in upAtBegin : i < next => \E k \in DOMAIN indexes : indexes[k] = i
        /\ \A k \in DOMAIN indexes : indexes[k] \in Up /\ indexes[k] < next
        /\ \A k, l \in DOMAIN indexes : k < l => indexes[k] < indexes[l]

\* The module hears every ONU it has reported, unless it could not subscribe;
\* the caller of get_list_of_instances() is not told of that.
ListedIsHeard ==
    phase \in {"listing", "ready"} =>
        \A k \in DOMAIN indexes : subscribed[indexes[k]] \/ indexes[k] \in refused

\* When the module's code is unmapped, the bus holds a callback into it only if
\* unsubscribing failed, also if the number of ONUs was lowered after listing.
NoCallbackLeft ==
    phase = "unloaded" => \A i \in Index : subs[i] > 0 => i \in stuck

\* What notif_cleanup() has left behind so far (for the proof of NoCallbackLeft).
CleanedSoFar ==
    /\ phase = "stopping" => \A i \in Index : (i < next /\ subscribed[i]) => i \in stuck
    /\ phase = "unloaded" => \A i \in Index : subscribed[i] => i \in stuck

=============================================================================
