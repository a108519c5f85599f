------------------------------- MODULE OnuHal -------------------------------
(***************************************************************************)
(* One ONU HAL agent: the process on the other side of the ubus bus that   *)
(* keeps the xpon_onu objects of one ONU.  The repository's own agent is   *)
(* the mock under test/onu_hal_mock; its debug interface (dbg_if.c) edits  *)
(* the data model, its notif.c announces the edits, and its data_model.c   *)
(* answers the methods get(), enable() and disable() of the objects.       *)
(*                                                                         *)
(* The agent is one uloop thread.  Every edit is a handler that first      *)
(* changes the data model and then calls ubus_notify(); what ubusd has     *)
(* already seen of the edit (an object added or removed) is visible to     *)
(* callers in between, so the two halves are two steps and "unsent" holds  *)
(* the notification of the handler that is under way.  No other handler    *)
(* of the agent runs in between.                                           *)
(*                                                                         *)
(* The module has no behaviour of its own: DmSync composes its actions     *)
(* with those of mod-xpon-prpl.                                            *)
(***************************************************************************)
EXTENDS Integers, Sequences, FiniteSets

CONSTANTS
    Onu,          \* the object xpon_onu.<n>, which sends the notifications
    Static,       \* objects registered when the agent starts and never removed
    Dynamic,      \* objects the debug interface adds and removes
    Changing,     \* objects whose parameters change under the agent's feet
    Enableable,   \* objects with methods enable() and disable()
    MaxEdits,     \* bound: edits of the data model in one behaviour
    MaxRequests   \* bound: deferred requests waiting in the agent

ASSUME HalAssumption ==
    /\ Onu \in Static
    /\ Static \cap Dynamic = {}
    /\ Changing \subseteq Static
    /\ Enableable \subseteq Static
    /\ MaxEdits \in Nat
    /\ MaxRequests \in Nat \ {0}

VARIABLES
    registered,   \* objects known to ubusd (s_objects[id] # NULL)
    version,      \* how often the announced parameters of each object have changed
    enabled,      \* s_onu_enabled, s_ani_one_enabled: Enable, which get() returns
                  \* with the other parameters and no notification announces
    unsent,       \* the notification the running handler has still to send
    requests,     \* deferred method calls, in the order their timers fire
    edits         \* edits made so far

halVars == <<registered, version, enabled, unsent, requests, edits>>

Object == Static \cup Dynamic

\* What an announcement may say.  A MIB reset is about no object: obj = Onu.
Notification == [kind : {"added", "removed", "changed", "reset"}, obj : Object]

Method == {"get", "enable", "disable"}

\* live: the caller still waits for the reply.  A caller that gives up
\* (AMXB_CALL_TIMEOUT_S) aborts its request, and the late reply finds nobody.
Request == [obj : Object, method : Method, live : BOOLEAN]

HalTypeOK ==
    /\ registered \subseteq Object
    /\ Static \subseteq registered
    /\ version \in [Object -> Nat]
    /\ enabled \in [Enableable -> BOOLEAN]
    /\ unsent \subseteq Notification
    /\ requests \in Seq(Request)
    /\ edits \in 0..MaxEdits

\* dm_advertise_onu() registers every object but transceiver.2.
HalInit ==
    /\ registered = Static
    /\ version = [o \in Object |-> 0]
    /\ enabled = [o \in Enableable |-> FALSE]
    /\ unsent = {}
    /\ requests = <<>>
    /\ edits = 0

\* The loop is free to start a handler, and the behaviour may still be edited.
CanEdit ==
    /\ unsent = {}
    /\ edits < MaxEdits
    /\ edits' = edits + 1

\* handle_add_instance(): nothing happens, and nothing is announced, when the
\* object exists already.
AddInstance(o) ==
    /\ CanEdit
    /\ o \notin registered
    /\ registered' = registered \cup {o}
    /\ unsent' = {[kind |-> "added", obj |-> o]}
    /\ UNCHANGED <<version, enabled, requests>>

\* Mutant: tears the whole data model down, as dm_cleanup() does.
RemoveEverything(o) ==
    /\ CanEdit
    /\ registered' = {}
    /\ unsent' = {[kind |-> "removed", obj |-> o]}
    /\ UNCHANGED <<version, enabled, requests>>

\* handle_remove_instance(): announces the removal even when there was no
\* such object.
RemoveInstance(o) ==
    /\ CanEdit
    /\ registered' = registered \ {o}
    /\ unsent' = {[kind |-> "removed", obj |-> o]}
    /\ UNCHANGED <<version, enabled, requests>>

\* handle_change_transceiver(), handle_change_onu_activation()
ChangeObject(o) ==
    /\ CanEdit
    /\ version' = [version EXCEPT ![o] = @ + 1]
    /\ unsent' = {[kind |-> "changed", obj |-> o]}
    /\ UNCHANGED <<registered, enabled, requests>>

\* handle_omci_mib_reset()
ResetMib ==
    /\ CanEdit
    /\ unsent' = {[kind |-> "reset", obj |-> Onu]}
    /\ UNCHANGED <<registered, version, enabled, requests>>

\* The end of the handler: ubus_notify() returns, with or without success.
NotifyReturns ==
    /\ unsent' = {}
    /\ UNCHANGED <<registered, version, enabled, requests, edits>>

\* common_method_handler(): defers the request and arms a 100 ms timer for
\* it.  All timers run equally long, so they fire in the order of arrival.
DeferRequest(o, method) ==
    /\ Len(requests) < MaxRequests
    /\ requests' = Append(requests, [obj |-> o, method |-> method, live |-> TRUE])
    /\ UNCHANGED <<registered, version, enabled, unsent, edits>>

\* Mutant: the newest timer fires first.
MethodCbNewestFirst(req) ==
    /\ unsent = {}
    /\ requests # <<>>
    /\ req = requests[Len(requests)]
    /\ requests' = SubSeq(requests, 1, Len(requests) - 1)
    /\ enabled' = IF req.method = "get"
                  THEN enabled
                  ELSE [enabled EXCEPT ![req.obj] = (req.method = "enable")]
    /\ UNCHANGED <<registered, version, unsent, edits>>

\* method_cb(): the timer of the oldest request fires.  Only now is the data
\* model read (get) or written (enable, disable); the object is not looked up
\* again, so the callback also runs for an object removed in the meantime.  A
\* switch changes what the next get() returns, and announces nothing: unsent stays.
MethodCb(req) ==
    /\ unsent = {}
    /\ requests # <<>>
    /\ req = Head(requests)
    /\ requests' = Tail(requests)
    /\ enabled' = IF req.method = "get"
                  THEN enabled
                  ELSE [enabled EXCEPT ![req.obj] = (req.method = "enable")]
    /\ UNCHANGED <<registered, version, unsent, edits>>

=============================================================================
