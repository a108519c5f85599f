------------------------------- MODULE DmSync -------------------------------
(***************************************************************************)
(* mod-xpon-prpl between one ONU HAL agent and the tr181-xpon plugin.      *)
(*                                                                         *)
(* The agent announces what changes in its data model, but not the data:   *)
(* notif.c answers an "added" or "changed" notification with a blocking    *)
(* get() on the object and forwards what it returns (pon_stat functions);  *)
(* pon_ctrl.c makes the same call when the plugin asks for the content of  *)
(* an object.  The plugin's copy, "told", therefore follows the agent      *)
(* through two channels, the notifications and the replies, and each can   *)
(* fail.  The module keeps no queue and retries nothing.                   *)
(*                                                                         *)
(* Nobody announces what enable() and disable() do: the plugin's copy of   *)
(* Enable, "toldEnable", follows the agent by fetches and by the switches  *)
(* of the plugin itself, as far as they are acknowledged.                  *)
(*                                                                         *)
(* The plugin, the module and the bus library are one thread: while a call *)
(* blocks, incoming notifications stay in the bus connection's queue.      *)
(* ubusd keeps the order of the messages of one connection.                *)
(***************************************************************************)
EXTENDS OnuHal

CONSTANT Absent   \* what the plugin has of an object it does not know

ASSUME SyncAssumption == Absent \notin Nat

VARIABLES
    notifs,   \* notifications received and not yet dispatched
    onu,      \* "unknown": no bus context yet; "known": context, but the
              \* subscription failed; "subscribed"
    call,     \* the blocking call of the module's thread
    told,     \* per object, the version the plugin was told last, or Absent
    toldEnable, \* per object, the value of Enable the plugin was told last
    missed,   \* history: objects the plugin cannot be in step with: it was never
              \* told of them, or a notification or a query about them was lost
    unsure,   \* history: objects of whose Enable the plugin cannot be sure: it was
              \* never told it, or a switch of its own was given up
    sent      \* history: the last enable/disable the agent accepted

vars == <<halVars, notifs, onu, call, told, toldEnable, missed, unsure, sent>>

Value == Nat \cup {Absent}

\* The state of the thread.  pc: "issued" when amxb_call() is entered,
\* "waiting" when the agent has the request, "answered" when the reply is in.
\* why: what the call is for.  val: the announced parameters a get() returned;
\* on: Enable, as an enable() or disable() asks for it, or as a get() returned it.
CallState ==
    [pc   : {"idle", "issued", "waiting", "answered"},
     why  : {"added", "changed", "content", "enable"},
     obj  : Object,
     on   : BOOLEAN,
     val  : Value]

NoCall == [pc |-> "idle", why |-> "content", obj |-> Onu, on |-> FALSE, val |-> Absent]

Call(why, o, on) == [pc |-> "issued", why |-> why, obj |-> o, on |-> on, val |-> Absent]

MethodOf(c) == IF c.why # "enable" THEN "get" ELSE IF c.on THEN "enable" ELSE "disable"

TypeOK ==
    /\ HalTypeOK
    /\ notifs \in Seq(Notification)
    /\ onu \in {"unknown", "known", "subscribed"}
    /\ call \in CallState
    /\ told \in [Object -> Value]
    /\ toldEnable \in [Enableable -> {0, 1, Absent}]
    /\ missed \subseteq Object
    /\ unsure \subseteq Object
    /\ sent \in [Enableable -> BOOLEAN]

(***************************************************************************)
(* What the properties speak about.                                        *)
(***************************************************************************)
\* What a reader of the agent's data model finds at this moment of all that is
\* announced, and of Enable.
Actual(o) == IF o \in registered THEN version[o] ELSE Absent

Flag(on) == IF on THEN 1 ELSE 0

About(n, o) == n.obj = o /\ n.kind # "reset"

\* News about o is on its way to the module.
Announced(o) ==
    \/ \E n \in unsent : About(n, o)
    \/ \E i \in DOMAIN notifs : About(notifs[i], o)

\* The module is fetching o because of a notification.
Querying(o) ==
    /\ call.obj = o
    /\ call.pc # "idle"
    /\ call.why \in {"added", "changed"}
    /\ call.pc = "issued" => o \in registered

\* A switch of o is in the agent, or was just executed, and the plugin waits for it.
Switching(o) == call.obj = o /\ call.pc \in {"waiting", "answered"} /\ call.why = "enable"

Init ==
    /\ HalInit
    /\ notifs = <<>>
    /\ onu = "unknown"
    /\ call = NoCall
    /\ told = [o \in Object |-> Absent]
    /\ toldEnable = [o \in Enableable |-> Absent]
    /\ missed = registered
    /\ unsure = Enableable
    /\ sent = enabled

(***************************************************************************)
(* The agent's side of the bus.                                            *)
(***************************************************************************)
AgentEdits ==
    /\ \/ \E o \in Dynamic : AddInstance(o) \/ RemoveInstance(o)
       \/ \E o \in Changing : ChangeObject(o)
       \/ ResetMib
    /\ UNCHANGED <<notifs, onu, call, told, toldEnable, missed, unsure, sent>>

\* send_notif_common(): ubusd passes the notification on to the subscriber.
SendNotif == \E n \in unsent :
    /\ onu = "subscribed"
    /\ NotifyReturns
    /\ notifs' = Append(notifs, n)
    /\ UNCHANGED <<onu, call, told, toldEnable, missed, unsure, sent>>

\* Nobody subscribed, or ubus_notify() failed, which the agent only logs.
LoseNotif == \E n \in unsent :
    /\ NotifyReturns
    /\ missed' = missed \cup (IF n.kind = "reset" THEN {} ELSE {n.obj})
    /\ UNCHANGED <<notifs, onu, call, told, toldEnable, unsure, sent>>

\* The reply on its way back.  A reply nobody waits for is dropped by the
\* caller; a reply for an object removed meanwhile may also be dropped by
\* ubusd, and then the caller waits for its timeout.
ReplyArrives(req) ==
    \/ /\ req.live
       /\ call' = [call EXCEPT !.pc = "answered",
                               !.val = IF req.method = "get" THEN version[req.obj] ELSE Absent,
                               !.on = IF req.method = "get" /\ req.obj \in Enableable
                                      THEN enabled[req.obj]
                                      ELSE @]
    \/ /\ ~req.live \/ req.obj \notin registered
       /\ UNCHANGED call

\* method_cb() of the oldest request.
Reply == \E req \in Request :
    /\ MethodCb(req)
    /\ ReplyArrives(req)
    /\ UNCHANGED <<notifs, onu, told, toldEnable, missed, unsure, sent>>

(***************************************************************************)
(* Calls the plugin makes: namespace pon_ctrl.                             *)
(***************************************************************************)
\* get_list_of_instances("XPON.ONU") finds the instance, keeps the bus
\* context, and subscribes unless it has done so before.
DiscoverOnu ==
    /\ call.pc = "idle"
    /\ onu # "subscribed"
    /\ onu' \in {"known", "subscribed"}
    /\ UNCHANGED <<halVars, notifs, call, told, toldEnable, missed, unsure, sent>>

\* get_object_content(): needs the bus context; may ask for any object.
GetObjectContent == \E o \in Object :
    /\ call.pc = "idle"
    /\ onu # "unknown"
    /\ call' = Call("content", o, FALSE)
    /\ UNCHANGED <<halVars, notifs, onu, told, toldEnable, missed, unsure, sent>>

\* set_enable()
SetEnable == \E o \in Enableable, on \in BOOLEAN :
    /\ call.pc = "idle"
    /\ onu # "unknown"
    /\ call' = Call("enable", o, on)
    /\ UNCHANGED <<halVars, notifs, onu, told, toldEnable, missed, unsure, sent>>

(***************************************************************************)
(* Dispatch of the next notification: notif_handler().                     *)
(***************************************************************************)
\* The thread is in its event loop and takes the next notification of a kind.
Dispatch(kind) ==
    /\ call.pc = "idle"
    /\ onu = "subscribed"
    /\ notifs # <<>>
    /\ Head(notifs).kind = kind
    /\ notifs' = Tail(notifs)

\* handle_dm_notification() for an added instance: the data has to be fetched.
HandleAdded ==
    /\ Dispatch("added")
    /\ call' = Call("added", Head(notifs).obj, FALSE)
    /\ UNCHANGED <<halVars, onu, told, toldEnable, missed, unsure, sent>>

\* Mutant: a change is taken note of, but the object is not read again.
HandleChangedWithoutGet ==
    /\ Dispatch("changed")
    /\ UNCHANGED <<halVars, onu, call, told, toldEnable, missed, unsure, sent>>

\* handle_dm_notification() for a changed object, likewise.
HandleChanged ==
    /\ Dispatch("changed")
    /\ call' = Call("changed", Head(notifs).obj, FALSE)
    /\ UNCHANGED <<halVars, onu, told, toldEnable, missed, unsure, sent>>

\* Mutant: a removed instance is fetched like the others, which fails.
HandleRemovedFetches ==
    /\ Dispatch("removed")
    /\ call' = Call("changed", Head(notifs).obj, FALSE)
    /\ UNCHANGED <<halVars, onu, told, toldEnable, missed, unsure, sent>>

\* handle_dm_notification() for a removed instance: forwarded without asking
\* the agent, even when the plugin never heard of the instance.
HandleRemoved ==
    /\ Dispatch("removed")
    /\ told' = [told EXCEPT ![Head(notifs).obj] = Absent]
    /\ UNCHANGED <<halVars, onu, call, toldEnable, missed, unsure, sent>>

\* handle_omci_reset_mib(): forwarded; concerns no particular object.
HandleReset ==
    /\ Dispatch("reset")
    /\ UNCHANGED <<halVars, onu, call, told, toldEnable, missed, unsure, sent>>

(***************************************************************************)
(* The blocking call: call_function_common() around amxb_call().           *)
(***************************************************************************)
\* ubusd knows the object: the agent gets the request.
Invoke ==
    /\ call.pc = "issued"
    /\ call.obj \in registered
    /\ DeferRequest(call.obj, MethodOf(call))
    /\ call' = [call EXCEPT !.pc = "waiting"]
    /\ sent' = IF call.why = "enable" THEN [sent EXCEPT ![call.obj] = call.on] ELSE sent
    /\ UNCHANGED <<notifs, onu, told, toldEnable, missed, unsure>>

\* ubusd does not know the object: the call fails at once.
InvokeFails ==
    /\ call.pc = "issued"
    /\ call.obj \notin registered
    /\ call' = NoCall
    /\ UNCHANGED <<halVars, notifs, onu, told, toldEnable, missed, unsure, sent>>

\* The call returns 0.  What a get() returned goes to the plugin, as argument
\* of the pon_stat function or as result of get_object_content().  A switch that
\* is acknowledged tells it that Enable is as it wants it.
Return ==
    /\ call.pc = "answered"
    /\ call' = NoCall
    /\ IF call.why = "enable"
       THEN UNCHANGED <<told, missed>>
       ELSE /\ told' = [told EXCEPT ![call.obj] = call.val]
            /\ missed' = {o \in missed : \/ o # call.obj
                                         \/ call.val # Actual(o)
                                         \/ Announced(o)}
    /\ toldEnable' = [o \in Enableable |-> IF o = call.obj THEN Flag(call.on) ELSE toldEnable[o]]
    /\ unsure' = unsure \ {call.obj}
    /\ UNCHANGED <<halVars, notifs, onu, sent>>

\* Mutant: the caller gives up, but its request can still be answered.
TimeoutKeepsRequest ==
    /\ call.pc \in {"waiting", "answered"}
    /\ call' = NoCall
    /\ missed' = missed \cup (IF call.why \in {"added", "changed"} THEN {call.obj} ELSE {})
    /\ unsure' = unsure \cup (IF call.why = "enable" THEN {call.obj} ELSE {})
    /\ UNCHANGED <<halVars, notifs, onu, told, toldEnable, sent>>

\* AMXB_CALL_TIMEOUT_S is over (the reply may be a moment too late): the call
\* fails, which is logged; the event or the plugin's request is dropped.
Timeout ==
    /\ call.pc \in {"waiting", "answered"}
    /\ call' = NoCall
    /\ requests' = [i \in DOMAIN requests |-> [requests[i] EXCEPT !.live = FALSE]]
    /\ missed' = missed \cup (IF call.why \in {"added", "changed"} THEN {call.obj} ELSE {})
    /\ unsure' = unsure \cup (IF call.why = "enable" THEN {call.obj} ELSE {})
    /\ UNCHANGED <<registered, version, enabled, unsent, edits, notifs, onu, told, toldEnable, sent>>

(***************************************************************************)
Handle == HandleAdded \/ HandleChanged \/ HandleRemoved \/ HandleReset

Next ==
    \/ AgentEdits \/ SendNotif \/ LoseNotif \/ Reply
    \/ DiscoverOnu \/ GetObjectContent \/ SetEnable
    \/ HandleAdded \/ HandleChanged \/ HandleRemoved \/ HandleReset
    \/ Invoke \/ InvokeFails \/ Return \/ Timeout

\* A handler of the agent runs to its end, and so does its timer; a blocking
\* call ends in time.  The plugin's event loop polls every connection in each
\* round, so calls of the plugin cannot keep it from the notifications.
Fairness ==
    /\ WF_vars(SendNotif \/ LoseNotif)
    /\ WF_vars(Reply)
    /\ WF_vars(Invoke \/ InvokeFails)
    /\ WF_vars(Return \/ Timeout)
    /\ SF_vars(Handle)

Spec == Init /\ [][Next]_vars

FairSpec == Spec /\ Fairness

(***************************************************************************)
(* Properties.                                                             *)
(***************************************************************************)
\* The copy of what is announced, and that of Enable, are right or need not be.
Explained(o) == told[o] = Actual(o) \/ Announced(o) \/ Querying(o) \/ o \in missed

EnableInStep(o) == toldEnable[o] = Flag(enabled[o])

EnableExplained(o) == EnableInStep(o) \/ Switching(o) \/ o \in unsure

AnnouncedExplained == \A o \in Object : Explained(o)

SwitchedExplained == \A o \in Enableable : EnableExplained(o)

\* Where the plugin's copy of an object differs from the agent's, there is a
\* reason: news about it is in flight, the module is fetching it, or one of
\* the two was lost.  In particular an event for an object that has changed
\* again or is gone by the time of the get() does no lasting harm (notif.c
\* handle_dm_notification()).  The copy of Enable,
\* which nobody announces, differs only while the plugin switches the object or
\* after it gave up a switch: a fetch or an acknowledged switch makes it right for
\* good, whatever was given up before and still waits in the agent (set_enable(),
\* and method_cb() of the agent).
OutOfSyncExplained == AnnouncedExplained /\ SwitchedExplained

\* Only the youngest request in the agent can still be waited for, and then it is
\* the one of the call that blocks.
OnlyLastLive ==
    \A i \in 1..Len(requests) : requests[i].live =>
        /\ i = Len(requests)
        /\ call.pc = "waiting"
        /\ requests[i].obj = call.obj
        /\ requests[i].method = MethodOf(call)

\* When a call has its reply, the agent has served every older request.
AnsweredLast == call.pc = "answered" => requests = <<>>

\* A call takes no reply but that to its own request, behind any backlog of
\* requests that were given up, and leaves none behind that could be taken for
\* the reply to a later one (southbound_if.c call_function_common()).
CallInv == OnlyLastLive /\ AnsweredLast

\* The plugin never sees an object go back to older content: a late reply is
\* never taken for the reply of a newer call (southbound_if.c, the timeout).
ReportsNeverGoBack ==
    [][\A o \in Object : (told[o] # Absent /\ told'[o] # Absent) => told[o] <= told'[o]]_vars

\* When set_enable() has its reply, the agent is in the state asked for, however
\* many earlier calls timed out and ran late (pon_ctrl.c set_enable()).
EnableAckedHolds ==
    (call.pc = "answered" /\ call.why = "enable") => enabled[call.obj] = call.on

\* Once the agent has worked off its backlog, each object is as the last
\* enable() or disable() it accepted says, also if that call was given up.
LastEnableWins ==
    requests = <<>> => enabled = sent

\* If the data model stops changing, the plugin ends up with the agent's data
\* for every object of which nothing was lost; and however often it
\* switches an object, its Enable is in step again, unless a switch is given up.
EventuallyMirrored ==
    /\ <>[](\A o \in Object : told[o] = Actual(o) \/ o \in missed)
    /\ \A o \in Enableable : []<>(EnableInStep(o) \/ o \in unsure)

(***************************************************************************)
(* The promise (DmMirror), and how this module keeps it.                   *)
(***************************************************************************)
Standing == [o \in Object |->
    IF o \in missed THEN "missed"
    ELSE IF Announced(o) \/ Querying(o) THEN "pending"
    ELSE "current"]

EnableStanding == [o \in Enableable |->
    IF o \in unsure THEN "missed" ELSE IF Switching(o) THEN "pending" ELSE "current"]

Mirror == INSTANCE DmMirror
    WITH actual <- [o \in Object |-> Actual(o)], standing <- Standing, Versioned <- Object

\* Enable goes back and forth, so it has no versions.
EnableMirror == INSTANCE DmMirror
    WITH Object <- Enableable, Versioned <- {}, told <- toldEnable, standing <- EnableStanding,
         actual <- [o \in Enableable |-> Flag(enabled[o])]

\* The module with its channels, calls, failures and timeouts implements
\* DmMirror, for what is announced and for Enable: each of its steps tells, loses
\* or announces something about one object, or is not seen at all.  A switch
\* that the plugin waits for is news of Enable; that the agent executes one the
\* plugin gave up is seen of an unsure object only (notif.c, southbound_if.c,
\* pon_ctrl.c).
ImplementsMirror == Mirror!Spec /\ EnableMirror!Spec

(***************************************************************************)
(* The inductive invariant behind them (DmSyncProofs), by topic.           *)
(***************************************************************************)
\* An edit has one announcement to make.
OneUnsent == \A m, n \in unsent : m = n

\* The announcement agrees with whether o exists: "removed", or else not.
Fits(n, o) == n.kind = "removed" <=> o \notin registered

\* The youngest announcement about an object tells its present existence, so
\* that dispatching it, the last one to be dispatched, leaves the plugin right.
YoungestFits(o) ==
    /\ \A n \in unsent : About(n, o) => Fits(n, o)
    /\ (\A n \in unsent : ~About(n, o)) =>
           \A i \in 1..Len(notifs) :
               /\ About(notifs[i], o)
               /\ \A j \in 1..Len(notifs) : i < j => ~About(notifs[j], o)
               => Fits(notifs[i], o)

LastAnnouncementFits == \A o \in Object \ missed : YoungestFits(o)

\* A get() in the agent's queue is about an object that exists, a reply says
\* what is so, unless the contrary is announced and will be handled next.
FetchFits ==
    call.why # "enable" =>
        LET o == call.obj IN
        /\ call.pc = "waiting" => (o \in registered \/ Announced(o) \/ o \in missed)
        /\ call.pc = "answered" => (call.val = Actual(o) \/ Announced(o) \/ o \in missed)

MirrorInv == OneUnsent /\ LastAnnouncementFits /\ FetchFits /\ AnnouncedExplained

\* Content in the plugin, or on the way to it, is at most as new as the agent's
\* and never older than what the plugin has.
ContentOrdered ==
    /\ \A o \in Object : told[o] # Absent => told[o] <= version[o]
    /\ (call.pc = "answered" /\ call.why # "enable") =>
           /\ call.val \in Nat
           /\ call.val <= version[call.obj]
           /\ told[call.obj] # Absent => told[call.obj] <= call.val

\* Request i switches o on or off.
Switches(i, o) == requests[i].obj = o /\ requests[i].method # "get"

\* The youngest pending switch of an object, or else its state, is as sent.
LastSwitchIsSent ==
    \A o \in Enableable :
        /\ (\A i \in 1..Len(requests) : ~Switches(i, o)) => enabled[o] = sent[o]
        /\ \A i \in 1..Len(requests) :
               /\ Switches(i, o)
               /\ \A j \in 1..Len(requests) : i < j => ~Switches(j, o)
               => (requests[i].method = "enable" <=> sent[o])

\* enable() and disable() go to objects that have them.
SwitchesEnableable ==
    /\ call.why = "enable" => call.obj \in Enableable
    /\ \A i \in 1..Len(requests) : requests[i].method # "get" => requests[i].obj \in Enableable

SwitchInv == SwitchesEnableable /\ LastSwitchIsSent /\ EnableAckedHolds

\* A switch that can still change an object whose Enable the plugin is sure of is
\* one it waits for: of the others the agent has executed all.
SwitchesAwaited ==
    \A o \in Enableable \ unsure :
        \A i \in 1..Len(requests) : Switches(i, o) => requests[i].live

\* A reply says how the object is switched, if it can be: what a get() found and
\* what an enable() or disable() did.
AnsweredOn ==
    (call.pc = "answered" /\ call.obj \in Enableable) => call.on = enabled[call.obj]

EnableInv == SwitchesEnableable /\ SwitchesAwaited /\ AnsweredOn /\ SwitchedExplained

=============================================================================
