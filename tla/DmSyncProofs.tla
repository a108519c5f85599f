---------------------------- MODULE DmSyncProofs ----------------------------
(***************************************************************************)
(* Proofs about DmSync, for any objects, bounds and number of edits:       *)
(* type correctness, then the invariant of the call channel, the order of  *)
(* contents, the switches, the copy of Enable, and last the mirror itself. *)
(***************************************************************************)
EXTENDS DmSync, SequenceTheorems, TLAPS

\* What appending and taking the tail do to a sequence, element by element.
LEMMA AppendFacts ==
    ASSUME NEW S, NEW s \in Seq(S), NEW e \in S
    PROVE  /\ Append(s, e) \in Seq(S)
           /\ Len(Append(s, e)) = Len(s) + 1
           /\ \A i \in 1..Len(s) : Append(s, e)[i] = s[i]
           /\ Append(s, e)[Len(s) + 1] = e
BY AppendProperties

LEMMA TailFacts ==
    ASSUME NEW S, NEW s \in Seq(S), s # <<>>
    PROVE  /\ Len(s) \in Nat \ {0}
           /\ Head(s) \in S
           /\ Head(s) = s[1]
           /\ Tail(s) \in Seq(S)
           /\ Len(Tail(s)) = Len(s) - 1
           /\ \A i \in 1..Len(Tail(s)) : Tail(s)[i] = s[i + 1]
BY HeadTailProperties

\* A caller that gives up changes nothing in the queue but who waits for it.
LEMMA GiveUpFacts ==
    ASSUME NEW s \in Seq(Request),
           NEW t, t = [i \in DOMAIN s |-> [s[i] EXCEPT !.live = FALSE]]
    PROVE  /\ t \in Seq(Request)
           /\ Len(t) = Len(s)
           /\ \A i \in 1..Len(s) : /\ t[i].obj = s[i].obj
                                   /\ t[i].method = s[i].method
                                   /\ t[i].live = FALSE
<1>1. DOMAIN s = 1..Len(s) /\ Len(s) \in Nat
  BY LenProperties
<1>2. \A i \in 1..Len(s) : s[i] \in Request
  BY ElementOfSeq
<1>3. \A i \in 1..Len(s) : t[i] = [s[i] EXCEPT !.live = FALSE] /\ t[i] \in Request
  BY <1>1, <1>2 DEF Request
<1>4. t \in [1..Len(s) -> Request]
  BY <1>1, <1>3
<1>5. t \in Seq(Request) /\ Len(t) = Len(s)
  BY <1>1, <1>4
<1>6. QED
  BY <1>2, <1>3, <1>5 DEF Request

-----------------------------------------------------------------------------
(* Type correctness *)

LEMMA InitTypeOK == Init => TypeOK
<1> SUFFICES ASSUME Init PROVE TypeOK
  OBVIOUS
<1>1. HalTypeOK
  BY HalAssumption DEF Init, HalInit, HalTypeOK, Object
<1>2. NoCall \in CallState
  BY HalAssumption DEF NoCall, CallState, Object, Value
<1>3. sent \in [Enableable -> BOOLEAN] /\ missed \subseteq Object /\ unsure \subseteq Object
  BY <1>1, HalAssumption DEF Init, HalTypeOK, Object
<1>4. QED
  BY <1>1, <1>2, <1>3 DEF Init, TypeOK, Value

LEMMA NextTypeOK == TypeOK /\ [Next]_vars => TypeOK'
<1> SUFFICES ASSUME TypeOK, [Next]_vars PROVE TypeOK'
  OBVIOUS
<1> USE HalAssumption
<1>1. CASE AgentEdits
  <2>1. HalTypeOK'
    <3> CanEdit => edits' \in 0..MaxEdits
      BY DEF TypeOK, HalTypeOK, CanEdit
    <3>1. CASE \E o \in Dynamic : AddInstance(o) \/ RemoveInstance(o)
      BY <3>1 DEF TypeOK, HalTypeOK, AddInstance, RemoveInstance, Object, Notification, CanEdit
    <3>2. CASE \E o \in Changing : ChangeObject(o)
      BY <3>2 DEF TypeOK, HalTypeOK, ChangeObject, Object, Notification, CanEdit
    <3>3. CASE ResetMib
      BY <3>3 DEF TypeOK, HalTypeOK, ResetMib, Object, Notification, CanEdit
    <3>4. QED
      BY <1>1, <3>1, <3>2, <3>3 DEF AgentEdits
  <2>2. QED
    BY <1>1, <2>1 DEF AgentEdits, TypeOK
<1>2. CASE SendNotif
  <2>1. PICK n \in unsent : notifs' = Append(notifs, n) /\ NotifyReturns
    BY <1>2 DEF SendNotif
  <2>2. notifs' \in Seq(Notification)
    BY <2>1, AppendFacts DEF TypeOK, HalTypeOK
  <2>3. QED
    BY <1>2, <2>2 DEF SendNotif, NotifyReturns, TypeOK, HalTypeOK
<1>3. CASE LoseNotif
  BY <1>3 DEF LoseNotif, NotifyReturns, TypeOK, HalTypeOK, Notification
<1>4. CASE Reply
  <2>1. PICK req \in Request : /\ MethodCb(req)
                               /\ ReplyArrives(req)
                               /\ UNCHANGED <<notifs, onu, told, toldEnable, missed, unsure, sent>>
    BY <1>4 DEF Reply
  <2>2. requests' \in Seq(Request)
    BY <2>1, TailFacts DEF MethodCb, TypeOK, HalTypeOK
  <2>3. enabled' \in [Enableable -> BOOLEAN]
    BY <2>1 DEF MethodCb, TypeOK, HalTypeOK
  <2>4. HalTypeOK'
    BY <2>1, <2>2, <2>3 DEF MethodCb, TypeOK, HalTypeOK
  <2>5. call' \in CallState
    <3>1. version[req.obj] \in Nat
      BY DEF TypeOK, HalTypeOK, Request
    <3>2. (IF req.method = "get" THEN version[req.obj] ELSE Absent) \in Value
      BY <3>1 DEF Value
    <3>3. (IF req.method = "get" /\ req.obj \in Enableable THEN enabled[req.obj] ELSE call.on)
              \in BOOLEAN
      BY DEF TypeOK, HalTypeOK, CallState
    <3>4. CASE call' = call
      BY <3>4 DEF TypeOK
    <3>5. CASE call' # call
      BY <2>1, <3>2, <3>3, <3>5 DEF ReplyArrives, TypeOK, CallState
    <3>6. QED
      BY <3>4, <3>5
  <2>6. QED
    BY <2>1, <2>4, <2>5 DEF TypeOK, HalTypeOK
<1>5. CASE DiscoverOnu
  BY <1>5 DEF DiscoverOnu, TypeOK, HalTypeOK, halVars
<1>6. CASE GetObjectContent
  BY <1>6 DEF GetObjectContent, TypeOK, HalTypeOK, halVars, Call, CallState, Value
<1>7. CASE SetEnable
  BY <1>7 DEF SetEnable, TypeOK, HalTypeOK, halVars, Call, CallState, Value, Object
<1>8. CASE Handle
  <2>1. notifs # <<>> /\ notifs' = Tail(notifs)
    BY <1>8 DEF Handle, HandleAdded, HandleChanged, HandleRemoved, HandleReset, Dispatch
  <2>2. /\ notifs' \in Seq(Notification)
        /\ Head(notifs) \in Notification
    BY <2>1, TailFacts DEF TypeOK
  <2>3. Head(notifs).obj \in Object
    BY <2>2 DEF Notification
  <2>4. call' \in CallState
    <3>1. \A why \in {"added", "changed"} : Call(why, Head(notifs).obj, FALSE) \in CallState
      BY <2>3 DEF Call, CallState, Value
    <3>2. \/ call' = call
          \/ \E why \in {"added", "changed"} : call' = Call(why, Head(notifs).obj, FALSE)
      BY <1>8 DEF Handle, HandleAdded, HandleChanged, HandleRemoved, HandleReset
    <3>3. QED
      BY <3>1, <3>2 DEF TypeOK
  <2>5. told' \in [Object -> Value]
    BY <1>8, <2>3 DEF Handle, HandleAdded, HandleChanged, HandleRemoved, HandleReset,
                      TypeOK, Value
  <2>6. QED
    BY <1>8, <2>2, <2>4, <2>5 DEF Handle, HandleAdded, HandleChanged, HandleRemoved,
                                  HandleReset, halVars, TypeOK, HalTypeOK
<1>9. CASE Invoke
  <2>1. MethodOf(call) \in Method
    BY DEF MethodOf, Method
  <2>2. requests' \in Seq(Request)
    BY <1>9, <2>1, AppendFacts DEF Invoke, DeferRequest, TypeOK, HalTypeOK, Request, CallState
  <2>3. call' \in CallState
    BY <1>9 DEF Invoke, TypeOK, CallState
  <2>4. sent' \in [Enableable -> BOOLEAN]
    BY <1>9 DEF Invoke, TypeOK, CallState
  <2>5. QED
    BY <1>9, <2>2, <2>3, <2>4 DEF Invoke, DeferRequest, TypeOK, HalTypeOK
<1>10. CASE InvokeFails
  BY <1>10 DEF InvokeFails, halVars, NoCall, CallState, Value, TypeOK, HalTypeOK, Object
<1>11. CASE Return
  <2>1. call' \in CallState
    BY <1>11 DEF Return, NoCall, CallState, Value, Object
  <2>2. told' \in [Object -> Value] /\ missed' \subseteq Object
    BY <1>11 DEF Return, TypeOK, CallState
  <2>3. toldEnable' \in [Enableable -> {0, 1, Absent}] /\ unsure' \subseteq Object
    BY <1>11 DEF Return, TypeOK, Flag
  <2>4. QED
    BY <1>11, <2>1, <2>2, <2>3 DEF Return, halVars, TypeOK, HalTypeOK
<1>12. CASE Timeout
  <2>1. requests' \in Seq(Request)
    BY <1>12, GiveUpFacts DEF Timeout, TypeOK, HalTypeOK
  <2>2. call' \in CallState
    BY <1>12 DEF Timeout, NoCall, CallState, Value, Object
  <2>3. missed' \subseteq Object /\ unsure' \subseteq Object
    BY <1>12 DEF Timeout, TypeOK, CallState
  <2>4. QED
    BY <1>12, <2>1, <2>2, <2>3 DEF Timeout, TypeOK, HalTypeOK
<1>13. CASE UNCHANGED vars
  BY <1>13 DEF vars, halVars, TypeOK, HalTypeOK
<1>14. QED
  BY <1>1, <1>2, <1>3, <1>4, <1>5, <1>6, <1>7, <1>8, <1>9, <1>10, <1>11, <1>12, <1>13
     DEF Next, Handle

\* Every variable keeps its type: in particular no queue ever holds anything
\* but announcements and requests, and static objects stay registered.
THEOREM TypeCorrect == Spec => []TypeOK
BY InitTypeOK, NextTypeOK, PTL DEF Spec
-----------------------------------------------------------------------------
(* What the steps have in common, for the proofs that follow. *)

\* Dispatching takes the oldest notification and leaves the agent alone.
LEMMA HandleFacts ==
    ASSUME TypeOK, Handle
    PROVE  /\ call.pc = "idle"
           /\ notifs # <<>>
           /\ notifs' = Tail(notifs)
           /\ Head(notifs) \in Notification
           /\ UNCHANGED <<registered, version, enabled, unsent, requests, toldEnable, missed,
                         unsure, sent>>
           /\ \/ /\ Head(notifs).kind \in {"added", "changed"}
                 /\ call' = Call(Head(notifs).kind, Head(notifs).obj, FALSE)
                 /\ told' = told
              \/ /\ Head(notifs).kind = "removed"
                 /\ call' = call
                 /\ told' = [told EXCEPT ![Head(notifs).obj] = Absent]
              \/ /\ Head(notifs).kind = "reset"
                 /\ call' = call
                 /\ told' = told
<1>1. Head(notifs) \in Notification
  BY TailFacts DEF Handle, HandleAdded, HandleChanged, HandleRemoved, HandleReset, Dispatch,
                   TypeOK
<1>2. QED
  BY <1>1 DEF Handle, HandleAdded, HandleChanged, HandleRemoved, HandleReset, Dispatch, halVars

\* A timer that fires takes the oldest request.
LEMMA ReplyFacts ==
    ASSUME TypeOK, Reply
    PROVE  /\ requests # <<>>
           /\ requests[1] \in Request
           /\ requests' = Tail(requests)
           /\ Len(requests) \in Nat \ {0}
           /\ Len(requests') = Len(requests) - 1
           /\ \A i \in 1..Len(requests') : requests'[i] = requests[i + 1]
           /\ enabled' = IF requests[1].method = "get" THEN enabled
                         ELSE [enabled EXCEPT ![requests[1].obj] = (requests[1].method = "enable")]
           /\ ReplyArrives(requests[1])
           /\ UNCHANGED <<registered, version, unsent, edits, notifs, onu, told, toldEnable,
                         missed, unsure, sent>>
<1>1. PICK req \in Request : /\ MethodCb(req)
                             /\ ReplyArrives(req)
                             /\ UNCHANGED <<notifs, onu, told, toldEnable, missed, unsure, sent>>
  BY DEF Reply
<1>2. requests # <<>> /\ req = Head(requests) /\ requests' = Tail(requests)
  BY <1>1 DEF MethodCb
<1>3. /\ Len(requests) \in Nat \ {0}
      /\ req = requests[1]
      /\ Len(requests') = Len(requests) - 1
      /\ \A i \in 1..Len(requests') : requests'[i] = requests[i + 1]
  BY <1>2, TailFacts DEF TypeOK, HalTypeOK
<1>4. QED
  BY <1>1, <1>2, <1>3 DEF MethodCb

\* A request that ubusd forwards joins the end of the agent's queue.
LEMMA InvokeFacts ==
    ASSUME TypeOK, Invoke
    PROVE  LET req == [obj |-> call.obj, method |-> MethodOf(call), live |-> TRUE] IN
           /\ call.pc = "issued"
           /\ call.obj \in registered
           /\ call' = [call EXCEPT !.pc = "waiting"]
           /\ MethodOf(call') = MethodOf(call)
           /\ Len(requests) \in Nat
           /\ Len(requests') = Len(requests) + 1
           /\ \A i \in 1..Len(requests) : requests'[i] = requests[i]
           /\ requests'[Len(requests) + 1] = req
           /\ UNCHANGED <<registered, version, enabled, unsent, edits, notifs, onu, told,
                         toldEnable, missed, unsure>>
<1> DEFINE req == [obj |-> call.obj, method |-> MethodOf(call), live |-> TRUE]
<1>1. req \in Request
  BY DEF TypeOK, CallState, MethodOf, Method, Request
<1>2. requests' = Append(requests, req)
  BY DEF Invoke, DeferRequest
<1>3. requests \in Seq(Request) /\ Len(requests) \in Nat
  BY LenProperties DEF TypeOK, HalTypeOK
<1>4. /\ Len(requests') = Len(requests) + 1
      /\ \A i \in 1..Len(requests) : requests'[i] = requests[i]
      /\ requests'[Len(requests) + 1] = req
  BY <1>1, <1>2, <1>3, AppendFacts
<1>5. call' = [call EXCEPT !.pc = "waiting"]
  BY DEF Invoke
<1>6. MethodOf(call') = MethodOf(call)
  BY <1>5 DEF MethodOf, TypeOK, CallState
<1>7. QED
  BY <1>3, <1>4, <1>5, <1>6 DEF Invoke, DeferRequest

\* After a timeout the queue is as before, and nobody waits.
LEMMA TimeoutFacts ==
    ASSUME TypeOK, Timeout
    PROVE  /\ call.pc \in {"waiting", "answered"}
           /\ call' = NoCall
           /\ Len(requests') = Len(requests)
           /\ \A i \in 1..Len(requests) : /\ requests'[i].obj = requests[i].obj
                                          /\ requests'[i].method = requests[i].method
                                          /\ requests'[i].live = FALSE
           /\ missed' = missed \cup (IF call.why \in {"added", "changed"} THEN {call.obj} ELSE {})
           /\ unsure' = unsure \cup (IF call.why = "enable" THEN {call.obj} ELSE {})
           /\ UNCHANGED <<registered, version, enabled, unsent, edits, notifs, onu, told,
                         toldEnable, sent>>
BY GiveUpFacts DEF Timeout, TypeOK, HalTypeOK

\* No edit touches the queues, the call or what the plugin was told.
LEMMA EditFacts ==
    ASSUME TypeOK, AgentEdits
    PROVE  /\ unsent = {}
           /\ UNCHANGED <<enabled, requests, notifs, onu, call, told, toldEnable, missed,
                         unsure, sent>>
           /\ \/ \E o \in Dynamic : /\ registered' = registered \cup {o}
                                    /\ unsent' = {[kind |-> "added", obj |-> o]}
                                    /\ version' = version
              \/ \E o \in Dynamic : /\ registered' = registered \ {o}
                                    /\ unsent' = {[kind |-> "removed", obj |-> o]}
                                    /\ version' = version
              \/ \E o \in Changing : /\ version' = [version EXCEPT ![o] = @ + 1]
                                     /\ unsent' = {[kind |-> "changed", obj |-> o]}
                                     /\ registered' = registered
              \/ /\ unsent' = {[kind |-> "reset", obj |-> Onu]}
                 /\ registered' = registered
                 /\ version' = version
BY DEF AgentEdits, AddInstance, RemoveInstance, ChangeObject, ResetMib, CanEdit

-----------------------------------------------------------------------------
(* The call channel *)

LEMMA InitCallInv == Init => CallInv
BY DEF Init, HalInit, NoCall, CallInv, OnlyLastLive, AnsweredLast

LEMMA NextCallInv == TypeOK /\ CallInv /\ [Next]_vars => CallInv'
<1> SUFFICES ASSUME TypeOK, CallInv, [Next]_vars PROVE CallInv'
  OBVIOUS
<1> USE DEF CallInv, OnlyLastLive, AnsweredLast
<1>1. CASE UNCHANGED <<requests, call>>
  BY <1>1
<1>2. CASE Reply
  <2>1. CASE requests[1].live
    <3>1. Len(requests) = 1
      BY <1>2, <2>1, ReplyFacts
    <3>2. requests' = <<>>
      BY <1>2, <3>1, ReplyFacts, EmptySeq
    <3>3. QED
      BY <3>2
  <2>2. CASE ~requests[1].live
    <3>1. UNCHANGED call
      BY <1>2, <2>2, ReplyFacts DEF ReplyArrives
    <3>2. call.pc # "answered"
      BY <1>2, ReplyFacts
    <3>3. QED
      BY <1>2, <3>1, <3>2, ReplyFacts
  <2>3. QED
    BY <2>1, <2>2
<1>3. CASE Invoke
  <2>1. \A i \in 1..Len(requests) : ~requests[i].live
    BY <1>3, InvokeFacts
  <2>2. call'.pc = "waiting" /\ call'.obj = call.obj
    BY <1>3, InvokeFacts DEF TypeOK, CallState
  <2>3. QED
    BY <1>3, <2>1, <2>2, InvokeFacts
<1>4. CASE GetObjectContent \/ SetEnable
  BY <1>4 DEF GetObjectContent, SetEnable, halVars, Call
<1>5. CASE InvokeFails \/ Return
  BY <1>5 DEF InvokeFails, Return, halVars, NoCall
<1>6. CASE Handle
  <2>1. requests' = requests /\ call.pc = "idle"
    BY <1>6, HandleFacts
  <2>2. call'.pc \in {"idle", "issued"}
    BY <1>6, HandleFacts DEF Call
  <2>3. \A i \in 1..Len(requests) : ~requests[i].live
    BY <2>1
  <2>4. OnlyLastLive'
    BY <2>1, <2>3
  <2>5. AnsweredLast'
    BY <2>2
  <2>6. QED
    BY <2>4, <2>5
<1>7. CASE Timeout
  <2>1. call'.pc = "idle"
    BY <1>7, TimeoutFacts DEF NoCall
  <2>2. \A i \in 1..Len(requests') : ~requests'[i].live
    BY <1>7, TimeoutFacts
  <2>3. QED
    BY <2>1, <2>2
<1>8. AgentEdits \/ SendNotif \/ LoseNotif \/ DiscoverOnu => UNCHANGED <<requests, call>>
  BY EditFacts DEF SendNotif, LoseNotif, NotifyReturns, DiscoverOnu, halVars
<1>9. QED
  BY <1>1, <1>2, <1>3, <1>4, <1>5, <1>6, <1>7, <1>8 DEF Next, Handle, vars, halVars

\* A reply is only ever taken by the call it answers, and when it is, the
\* agent has nothing older left to do (southbound_if.c call_function_common()).
THEOREM RepliesMatchCalls == Spec => []CallInv
<1>1. Init => TypeOK /\ CallInv
  BY InitTypeOK, InitCallInv
<1>2. TypeOK /\ CallInv /\ [Next]_vars => (TypeOK /\ CallInv)'
  BY NextTypeOK, NextCallInv
<1>3. QED
  BY <1>1, <1>2, PTL DEF Spec
-----------------------------------------------------------------------------
(* The order of contents *)

LEMMA InitContentOrdered == Init => ContentOrdered
BY SyncAssumption DEF Init, HalInit, NoCall, ContentOrdered

LEMMA NextContentOrdered ==
    TypeOK /\ CallInv /\ ContentOrdered /\ [Next]_vars => ContentOrdered'
<1> SUFFICES ASSUME TypeOK, CallInv, ContentOrdered, [Next]_vars PROVE ContentOrdered'
  OBVIOUS
<1> USE SyncAssumption
<1>1. CASE UNCHANGED <<version, call, told>>
  BY <1>1 DEF ContentOrdered
<1>2. CASE AgentEdits
  <2>1. version' = version \/ \E o \in Changing : version' = [version EXCEPT ![o] = @ + 1]
    BY <1>2, EditFacts
  <2>2. \A p \in Object : version[p] \in Nat /\ version'[p] \in Nat /\ version[p] <= version'[p]
    <3>1. \A p \in Object : version[p] \in Nat
      BY DEF TypeOK, HalTypeOK
    <3>2. ASSUME NEW o \in Changing, version' = [version EXCEPT ![o] = @ + 1]
          PROVE  \A p \in Object : version'[p] = IF p = o THEN version[p] + 1 ELSE version[p]
      BY <3>2 DEF TypeOK, HalTypeOK
    <3>3. CASE version' = version
      BY <3>1, <3>3
    <3>4. CASE \E o \in Changing : version' = [version EXCEPT ![o] = @ + 1]
      BY <3>1, <3>2, <3>4
    <3>5. QED
      BY <2>1, <3>3, <3>4
  <2>3. UNCHANGED <<call, told>> /\ call.obj \in Object
    BY <1>2, EditFacts DEF TypeOK, CallState
  <2>4. \A p \in Object : told[p] # Absent => told[p] \in Nat
    BY DEF TypeOK, Value
  <2>5. QED
    BY <2>2, <2>3, <2>4 DEF ContentOrdered
<1>3. CASE Reply
  <2>1. UNCHANGED <<version, told>>
    BY <1>3, ReplyFacts
  <2>2. CASE call' = call
    BY <2>1, <2>2, <1>1
  <2>3. CASE call' # call
    <3>1. /\ requests[1].live
          /\ call' = [call EXCEPT !.pc = "answered",
                                  !.val = IF requests[1].method = "get"
                                          THEN version[requests[1].obj] ELSE Absent,
                                  !.on = call'.on]
      BY <1>3, <2>3, ReplyFacts DEF ReplyArrives, TypeOK, CallState
    <3>2. requests[1].obj = call.obj /\ requests[1].method = MethodOf(call)
      BY <1>3, <3>1, ReplyFacts DEF CallInv, OnlyLastLive
    <3>3. call.obj \in Object /\ version[call.obj] \in Nat
      BY DEF TypeOK, HalTypeOK, CallState
    <3>4. call.why # "enable" => call'.val = version[call.obj]
      BY <3>1, <3>2 DEF MethodOf, TypeOK, CallState
    <3>5. call'.obj = call.obj /\ call'.why = call.why
      BY <3>1 DEF TypeOK, CallState
    <3>6. told[call.obj] # Absent => told[call.obj] <= version[call.obj]
      BY <3>3 DEF ContentOrdered
    <3>7. QED
      BY <2>1, <3>3, <3>4, <3>5, <3>6 DEF ContentOrdered
  <2>4. QED
    BY <2>2, <2>3
<1>4. CASE Invoke
  <2>1. UNCHANGED <<version, told>> /\ call'.pc # "answered"
    BY <1>4, InvokeFacts DEF TypeOK, CallState
  <2>2. QED
    BY <2>1 DEF ContentOrdered
<1>5. CASE GetObjectContent \/ SetEnable
  BY <1>5 DEF GetObjectContent, SetEnable, halVars, Call, ContentOrdered
<1>6. CASE InvokeFails
  BY <1>6 DEF InvokeFails, halVars, NoCall, ContentOrdered
<1>7. CASE Return
  <2>1. version' = version /\ call'.pc = "idle" /\ call.pc = "answered"
    BY <1>7 DEF Return, halVars, NoCall
  <2>2. CASE call.why = "enable"
    BY <1>7, <2>1, <2>2 DEF Return, ContentOrdered
  <2>3. CASE call.why # "enable"
    <3>1. told' = [told EXCEPT ![call.obj] = call.val]
      BY <1>7, <2>3 DEF Return
    <3>2. call.val <= version[call.obj]
      BY <2>1, <2>3 DEF ContentOrdered
    <3>3. QED
      BY <2>1, <3>1, <3>2 DEF ContentOrdered, TypeOK
  <2>4. QED
    BY <2>2, <2>3
<1>8. CASE Handle
  <2>1. version' = version /\ call'.pc # "answered"
    BY <1>8, HandleFacts DEF Call
  <2>2. \A o \in Object : told'[o] = told[o] \/ told'[o] = Absent
    BY <1>8, HandleFacts DEF TypeOK
  <2>3. QED
    BY <2>1, <2>2 DEF ContentOrdered
<1>9. CASE Timeout
  BY <1>9, TimeoutFacts DEF NoCall, ContentOrdered
<1>10. SendNotif \/ LoseNotif \/ DiscoverOnu => UNCHANGED <<version, call, told>>
  BY DEF SendNotif, LoseNotif, NotifyReturns, DiscoverOnu, halVars
<1>11. QED
  BY <1>1, <1>2, <1>3, <1>4, <1>5, <1>6, <1>7, <1>8, <1>9, <1>10 DEF Next, Handle, vars, halVars

LEMMA NextNeverGoesBack ==
    TypeOK /\ ContentOrdered /\ [Next]_vars =>
        [\A o \in Object : (told[o] # Absent /\ told'[o] # Absent) => told[o] <= told'[o]]_vars
<1> SUFFICES ASSUME TypeOK, ContentOrdered, Next,
                    NEW o \in Object, told[o] # Absent, told'[o] # Absent
             PROVE  told[o] <= told'[o]
  OBVIOUS
<1>1. told[o] \in Nat
  BY DEF TypeOK, Value
<1>2. CASE told' = told
  BY <1>1, <1>2
<1>3. CASE Return
  <2>1. CASE call.why = "enable"
    BY <1>2, <1>3, <2>1 DEF Return
  <2>2. CASE call.why # "enable"
    BY <1>1, <1>3, <2>2 DEF Return, ContentOrdered, TypeOK
  <2>3. QED
    BY <2>1, <2>2
<1>4. CASE Handle
  <2>1. told'[o] = told[o] \/ told'[o] = Absent
    BY <1>4, HandleFacts DEF TypeOK
  <2>2. QED
    BY <1>1, <2>1
<1>5. AgentEdits \/ SendNotif \/ LoseNotif \/ Reply \/ DiscoverOnu \/ GetObjectContent
        \/ SetEnable \/ Invoke \/ InvokeFails \/ Timeout => told' = told
  BY EditFacts DEF SendNotif, LoseNotif, Reply, DiscoverOnu, GetObjectContent, SetEnable,
                   Invoke, InvokeFails, Timeout
<1>6. QED
  BY <1>2, <1>3, <1>4, <1>5 DEF Next, Handle

\* No interleaving of timeouts, late replies and notifications makes the
\* plugin's copy of an object older than it was.
THEOREM ReportsGoForward == Spec => ReportsNeverGoBack
<1>1. Init => TypeOK /\ CallInv /\ ContentOrdered
  BY InitTypeOK, InitCallInv, InitContentOrdered
<1>2. TypeOK /\ CallInv /\ ContentOrdered /\ [Next]_vars => (TypeOK /\ CallInv /\ ContentOrdered)'
  BY NextTypeOK, NextCallInv, NextContentOrdered
<1>3. TypeOK /\ ContentOrdered /\ [Next]_vars =>
        [\A o \in Object : (told[o] # Absent /\ told'[o] # Absent) => told[o] <= told'[o]]_vars
  BY NextNeverGoesBack
<1>4. QED
  BY <1>1, <1>2, <1>3, PTL DEF Spec, ReportsNeverGoBack
-----------------------------------------------------------------------------
(* The switches *)

LEMMA InitSwitchInv == Init => SwitchInv
BY DEF Init, HalInit, NoCall, SwitchInv, SwitchesEnableable, LastSwitchIsSent,
       EnableAckedHolds, Switches

LEMMA NextSwitchesEnableable ==
    TypeOK /\ SwitchesEnableable /\ [Next]_vars => SwitchesEnableable'
<1> SUFFICES ASSUME TypeOK, SwitchesEnableable, [Next]_vars PROVE SwitchesEnableable'
  OBVIOUS
<1> USE DEF SwitchesEnableable
<1>1. CASE UNCHANGED <<requests, call>>
  BY <1>1
<1>2. CASE Reply
  <2>1. call'.why = call.why /\ call'.obj = call.obj
    BY <1>2, ReplyFacts DEF ReplyArrives, TypeOK, CallState
  <2>2. QED
    BY <1>2, <2>1, ReplyFacts
<1>3. CASE Invoke
  <2>1. call'.why = call.why /\ call'.obj = call.obj
    BY <1>3, InvokeFacts DEF TypeOK, CallState
  <2>2. MethodOf(call) # "get" => call.obj \in Enableable
    BY DEF MethodOf
  <2>3. \A i \in 1..Len(requests') :
            requests'[i].method # "get" => requests'[i].obj \in Enableable
    BY <1>3, <2>2, InvokeFacts
  <2>4. QED
    BY <2>1, <2>3
<1>4. CASE GetObjectContent \/ SetEnable
  BY <1>4 DEF GetObjectContent, SetEnable, halVars, Call
<1>5. CASE InvokeFails \/ Return
  BY <1>5 DEF InvokeFails, Return, halVars, NoCall
<1>6. CASE Handle
  <2>1. requests' = requests
    BY <1>6, HandleFacts
  <2>2. call' = call \/ call'.why \in {"added", "changed"}
    BY <1>6, HandleFacts DEF Call
  <2>3. QED
    BY <2>1, <2>2
<1>7. CASE Timeout
  <2>1. \A i \in 1..Len(requests') :
            requests'[i].method # "get" => requests'[i].obj \in Enableable
    BY <1>7, TimeoutFacts
  <2>2. call'.why # "enable"
    BY <1>7, TimeoutFacts DEF NoCall
  <2>3. QED
    BY <2>1, <2>2
<1>8. AgentEdits \/ SendNotif \/ LoseNotif \/ DiscoverOnu => UNCHANGED <<requests, call>>
  BY EditFacts DEF SendNotif, LoseNotif, NotifyReturns, DiscoverOnu, halVars
<1>9. QED
  BY <1>1, <1>2, <1>3, <1>4, <1>5, <1>6, <1>7, <1>8 DEF Next, Handle, vars, halVars

LEMMA NextLastSwitchIsSent ==
    TypeOK /\ SwitchesEnableable /\ LastSwitchIsSent /\ [Next]_vars => LastSwitchIsSent'
<1> SUFFICES ASSUME TypeOK, SwitchesEnableable, LastSwitchIsSent, [Next]_vars,
                    NEW o \in Enableable
             PROVE  /\ (\A i \in 1..Len(requests) : ~Switches(i, o))' => enabled'[o] = sent'[o]
                    /\ \A i \in 1..Len(requests') :
                           /\ Switches(i, o)'
                           /\ \A j \in 1..Len(requests') : i < j => ~Switches(j, o)'
                           => (requests'[i].method = "enable" <=> sent'[o])
  BY DEF LastSwitchIsSent
<1> USE DEF LastSwitchIsSent, Switches
<1>1. CASE UNCHANGED <<requests, enabled, sent>>
  BY <1>1
<1>2. CASE Timeout
  <2>1. Len(requests') = Len(requests) /\ UNCHANGED <<enabled, sent>>
    BY <1>2, TimeoutFacts
  <2>2. \A i \in 1..Len(requests) : /\ requests'[i].obj = requests[i].obj
                                    /\ requests'[i].method = requests[i].method
    BY <1>2, TimeoutFacts
  <2>3. \A i \in 1..Len(requests) : Switches(i, o)' <=> Switches(i, o)
    BY <2>2
  <2>4. QED
    BY <2>1, <2>2, <2>3
<1>3. CASE Reply
  <2> DEFINE first == requests[1]
  <2>1. /\ Len(requests) \in Nat \ {0} /\ Len(requests') = Len(requests) - 1
        /\ \A i \in 1..Len(requests') : requests'[i] = requests[i + 1]
        /\ sent' = sent
    BY <1>3, ReplyFacts
  <2>2. \A i \in 1..Len(requests') : Switches(i, o)' <=> Switches(i + 1, o)
    BY <2>1
  <2>3. CASE \A i \in 1..Len(requests') : ~Switches(i, o)'
    <3>1. \A j \in 1..Len(requests) : 1 < j => ~Switches(j, o)
      <4>1. SUFFICES ASSUME NEW j \in 1..Len(requests), 1 < j PROVE ~Switches(j, o)
        OBVIOUS
      <4>2. j - 1 \in 1..Len(requests') /\ requests'[j - 1] = requests[j]
        BY <2>1, <4>1
      <4>3. ~Switches(j - 1, o)'
        BY <2>3, <4>2
      <4>4. QED
        BY <4>2, <4>3
    <3>2. CASE Switches(1, o)
      <4>1. (first.method = "enable") = sent[o]
        BY <2>1, <3>1, <3>2 DEF TypeOK
      <4>2. enabled'[o] = (first.method = "enable")
        BY <1>3, <3>2, ReplyFacts DEF TypeOK, HalTypeOK
      <4>3. QED
        BY <2>1, <2>3, <4>1, <4>2
    <3>3. CASE ~Switches(1, o)
      <4>1. enabled'[o] = enabled[o]
        BY <1>3, <3>3, ReplyFacts DEF TypeOK, HalTypeOK
      <4>2. enabled[o] = sent[o]
        BY <2>1, <3>1, <3>3
      <4>3. QED
        BY <2>1, <2>3, <4>1, <4>2
    <3>4. QED
      BY <3>2, <3>3
  <2>4. CASE \E i \in 1..Len(requests') : Switches(i, o)'
    <3>1. SUFFICES ASSUME NEW i \in 1..Len(requests'), Switches(i, o)',
                          \A j \in 1..Len(requests') : i < j => ~Switches(j, o)'
                   PROVE  requests'[i].method = "enable" <=> sent'[o]
      BY <2>4
    <3>2. i + 1 \in 1..Len(requests) /\ Switches(i + 1, o)
      BY <2>1, <2>2, <3>1
    <3>3. \A j \in 1..Len(requests) : i + 1 < j => ~Switches(j, o)
      <4>1. SUFFICES ASSUME NEW j \in 1..Len(requests), i + 1 < j PROVE ~Switches(j, o)
        OBVIOUS
      <4>2. j - 1 \in 1..Len(requests') /\ i < j - 1 /\ (j - 1) + 1 = j
        BY <2>1, <4>1
      <4>3. ~Switches(j - 1, o)' /\ (Switches(j - 1, o)' <=> Switches((j - 1) + 1, o))
        BY <2>2, <3>1, <4>2
      <4>4. QED
        BY <4>2, <4>3
    <3>4. requests[i + 1].method = "enable" <=> sent[o]
      BY <3>2, <3>3
    <3>5. QED
      BY <2>1, <3>4
  <2>5. QED
    BY <2>3, <2>4
<1>4. CASE Invoke
  <2>0. PICK n \in Nat : n = Len(requests)
    BY <1>4, InvokeFacts
  <2>1. /\ Len(requests') = n + 1
        /\ \A i \in 1..n : requests'[i] = requests[i]
        /\ requests'[n + 1].obj = call.obj
        /\ requests'[n + 1].method = MethodOf(call)
        /\ enabled' = enabled
    BY <1>4, <2>0, InvokeFacts
  <2>2. sent' = IF call.why = "enable" THEN [sent EXCEPT ![call.obj] = call.on] ELSE sent
    BY <1>4 DEF Invoke
  <2>3. CASE call.why = "enable" /\ call.obj = o
    <3>1. /\ MethodOf(call) # "get"
          /\ MethodOf(call) = "enable" <=> call.on
          /\ sent'[o] = call.on
      BY <2>2, <2>3 DEF MethodOf, TypeOK, CallState
    <3>2. Switches(n + 1, o)'
      BY <2>1, <2>3, <3>1
    <3>3. n + 1 \in 1..Len(requests')
      BY <2>1
    <3>4. ASSUME NEW i \in 1..Len(requests'),
                 \A j \in 1..Len(requests') : i < j => ~Switches(j, o)'
          PROVE  i = n + 1
      BY <2>1, <3>2, <3>3, <3>4
    <3>5. requests'[n + 1].method = "enable" <=> sent'[o]
      BY <2>1, <3>1
    <3>6. QED
      BY <3>2, <3>3, <3>4, <3>5
  <2>4. CASE ~(call.why = "enable" /\ call.obj = o)
    <3>0. ~Switches(n + 1, o)'
      BY <2>1, <2>4 DEF MethodOf
    <3>1. sent'[o] = sent[o] /\ ~Switches(n + 1, o)'
      BY <2>2, <2>4, <3>0 DEF TypeOK
    <3>2. \A i \in 1..n : i \in 1..Len(requests') /\ (Switches(i, o)' <=> Switches(i, o))
      BY <2>1
    <3>3. \A i \in 1..Len(requests') : Switches(i, o)' => i \in 1..n
      BY <2>1, <3>1
    <3>4. QED
      BY <2>0, <2>1, <3>1, <3>2, <3>3
  <2>5. QED
    BY <2>3, <2>4
<1>5. AgentEdits \/ SendNotif \/ LoseNotif \/ DiscoverOnu \/ GetObjectContent \/ SetEnable
        \/ Handle \/ InvokeFails \/ Return => UNCHANGED <<requests, enabled, sent>>
  BY EditFacts, HandleFacts DEF SendNotif, LoseNotif, NotifyReturns, DiscoverOnu,
     GetObjectContent, SetEnable, InvokeFails, Return, halVars
<1>6. QED
  BY <1>1, <1>2, <1>3, <1>4, <1>5 DEF Next, Handle, vars, halVars

LEMMA NextEnableAckedHolds ==
    TypeOK /\ CallInv /\ SwitchesEnableable /\ EnableAckedHolds /\ [Next]_vars
        => EnableAckedHolds'
<1> SUFFICES ASSUME TypeOK, CallInv, SwitchesEnableable, EnableAckedHolds, [Next]_vars
             PROVE  EnableAckedHolds'
  OBVIOUS
<1> USE DEF EnableAckedHolds
<1>1. CASE UNCHANGED <<enabled, call>>
  BY <1>1
<1>2. CASE Reply
  <2>1. CASE call' = call
    \* the queue is empty once the call is answered
    BY <1>2, <2>1, ReplyFacts DEF CallInv, AnsweredLast
  <2>2. CASE call' # call
    <3>1. /\ requests[1].live
          /\ call'.why = call.why /\ call'.obj = call.obj
      BY <1>2, <2>2, ReplyFacts DEF ReplyArrives, TypeOK, CallState
    <3>2. requests[1].obj = call.obj /\ requests[1].method = MethodOf(call)
      BY <1>2, <3>1, ReplyFacts DEF CallInv, OnlyLastLive
    <3>3. CASE call.why = "enable"
      <4>1. /\ call.obj \in Enableable /\ MethodOf(call) # "get"
            /\ call'.on = call.on
        BY <1>2, <2>2, <3>2, <3>3, ReplyFacts
        DEF SwitchesEnableable, MethodOf, ReplyArrives, TypeOK, CallState
      <4>2. enabled'[call.obj] = (MethodOf(call) = "enable")
        BY <1>2, <3>2, <4>1, ReplyFacts DEF TypeOK, HalTypeOK
      <4>3. (MethodOf(call) = "enable") = call.on
        BY <3>3 DEF MethodOf, TypeOK, CallState
      <4>4. QED
        BY <3>1, <4>1, <4>2, <4>3
    <3>4. QED
      BY <3>1, <3>3
  <2>3. QED
    BY <2>1, <2>2
<1>3. CASE Invoke
  BY <1>3, InvokeFacts DEF TypeOK, CallState
<1>4. CASE GetObjectContent \/ SetEnable \/ InvokeFails \/ Return
  BY <1>4 DEF GetObjectContent, SetEnable, InvokeFails, Return, NoCall, Call
<1>5. CASE Handle
  <2>1. call'.pc # "answered"
    BY <1>5, HandleFacts DEF Call
  <2>2. QED
    BY <2>1
<1>6. CASE Timeout
  BY <1>6, TimeoutFacts DEF NoCall
<1>7. AgentEdits \/ SendNotif \/ LoseNotif \/ DiscoverOnu => UNCHANGED <<enabled, call>>
  BY EditFacts DEF SendNotif, LoseNotif, NotifyReturns, DiscoverOnu, halVars
<1>8. QED
  BY <1>1, <1>2, <1>3, <1>4, <1>5, <1>6, <1>7 DEF Next, Handle, vars, halVars

LEMMA SwitchInvariant == Spec => [](TypeOK /\ CallInv /\ SwitchInv)
<1>1. Init => TypeOK /\ CallInv /\ SwitchInv
  BY InitTypeOK, InitCallInv, InitSwitchInv
<1>2. TypeOK /\ CallInv /\ SwitchInv /\ [Next]_vars => (TypeOK /\ CallInv /\ SwitchInv)'
  BY NextTypeOK, NextCallInv, NextSwitchesEnableable, NextLastSwitchIsSent,
     NextEnableAckedHolds DEF SwitchInv
<1>3. QED
  BY <1>1, <1>2, PTL DEF Spec

\* set_enable() reports success only when the agent is in the state asked for,
\* whatever earlier, timed-out calls are served late.
THEOREM EnableAcknowledged == Spec => []EnableAckedHolds
<1>1. TypeOK /\ CallInv /\ SwitchInv => EnableAckedHolds
  BY DEF SwitchInv
<1>2. QED
  BY <1>1, SwitchInvariant, PTL

\* With no request left in the agent, each object is switched as the last
\* accepted call said.
THEOREM LastSwitchWins == Spec => []LastEnableWins
<1>1. TypeOK /\ CallInv /\ SwitchInv => LastEnableWins
  <2>1. SUFFICES ASSUME TypeOK, SwitchInv, requests = <<>> PROVE enabled = sent
    BY DEF LastEnableWins
  <2>2. \A o \in Enableable : enabled[o] = sent[o]
    BY <2>1, EmptySeq DEF SwitchInv, LastSwitchIsSent
  <2>3. QED
    BY <2>1, <2>2 DEF TypeOK, HalTypeOK
<1>2. QED
  BY <1>1, SwitchInvariant, PTL
-----------------------------------------------------------------------------
(* The copy of Enable *)

LEMMA InitEnableInv == Init => EnableInv
BY DEF Init, HalInit, NoCall, EnableInv, SwitchesEnableable, SwitchesAwaited, AnsweredOn,
       SwitchedExplained, EnableExplained, Switches

\* What the agent does when a timer fires: a switch changes its object, and if the
\* plugin is sure of that one, it waits for the switch.
LEMMA ReplySwitches ==
    ASSUME TypeOK, CallInv, EnableInv, Reply
    PROVE  /\ \A o \in Enableable : ~Switches(1, o) => enabled'[o] = enabled[o]
           /\ \A o \in Enableable \ unsure : Switches(1, o) => Switching(o)
           /\ \A o : Switching(o) => Switching(o)'
<1>1. /\ 1 \in 1..Len(requests)
      /\ enabled' = IF requests[1].method = "get" THEN enabled
                    ELSE [enabled EXCEPT ![requests[1].obj] = (requests[1].method = "enable")]
      /\ ReplyArrives(requests[1])
  BY ReplyFacts
<1>2. \A o \in Enableable : ~Switches(1, o) => enabled'[o] = enabled[o]
  BY <1>1 DEF Switches, TypeOK, HalTypeOK
<1>3. ASSUME NEW o \in Enableable \ unsure, Switches(1, o)
      PROVE  Switching(o)
  <2>1. requests[1].live
    BY <1>1, <1>3 DEF EnableInv, SwitchesAwaited
  <2>2. call.pc = "waiting" /\ call.obj = o /\ MethodOf(call) # "get"
    BY <1>1, <1>3, <2>1 DEF CallInv, OnlyLastLive, Switches
  <2>3. QED
    BY <2>2 DEF MethodOf, Switching
<1>4. ASSUME NEW o, Switching(o) PROVE Switching(o)'
  <2>1. call'.why = call.why /\ call'.obj = call.obj /\ call'.pc \in {call.pc, "answered"}
    BY <1>1 DEF ReplyArrives, TypeOK, CallState
  <2>2. QED
    BY <1>4, <2>1 DEF Switching
<1>5. QED
  BY <1>2, <1>3, <1>4

\* A reply tells the caller how the object is switched.
LEMMA ReplyAnsweredOn ==
    TypeOK /\ CallInv /\ EnableInv /\ Reply => AnsweredOn'
<1> SUFFICES ASSUME TypeOK, CallInv, EnableInv, Reply,
                    call'.pc = "answered", call'.obj \in Enableable
             PROVE  call'.on = enabled'[call'.obj]
  BY DEF AnsweredOn
<1>1. requests[1].live /\ call' # call
  <2>1. call.pc # "answered"
    BY ReplyFacts DEF CallInv, AnsweredLast
  <2>2. QED
    BY <2>1, ReplyFacts DEF ReplyArrives
<1>a. requests[1].obj = call.obj /\ requests[1].method = MethodOf(call)
  BY <1>1, ReplyFacts DEF CallInv, OnlyLastLive
<1>b. /\ call'.obj = call.obj
      /\ call'.on = IF requests[1].method = "get" /\ requests[1].obj \in Enableable
                    THEN enabled[requests[1].obj] ELSE call.on
  <2>1. ReplyArrives(requests[1])
    BY ReplyFacts
  <2>2. QED
    BY <1>1, <2>1 DEF ReplyArrives, TypeOK, CallState
<1>2. /\ requests[1].obj = call.obj
      /\ requests[1].method = MethodOf(call)
      /\ call'.obj = call.obj
  BY <1>a, <1>b
<1>3. call'.on = IF MethodOf(call) = "get" THEN enabled[call.obj] ELSE call.on
  BY <1>a, <1>b
<1>4. CASE call.why # "enable"
  <2>1. MethodOf(call) = "get"
    BY <1>4 DEF MethodOf
  <2>2. enabled' = enabled
    BY <1>2, <2>1, ReplyFacts
  <2>3. QED
    BY <1>2, <1>3, <2>1, <2>2
<1>5. CASE call.why = "enable"
  <2>1. MethodOf(call) # "get" /\ (MethodOf(call) = "enable") = call.on
    BY <1>5 DEF MethodOf, TypeOK, CallState
  <2>2. enabled'[call.obj] = (MethodOf(call) = "enable")
    BY <1>2, <2>1, ReplyFacts DEF TypeOK, HalTypeOK
  <2>3. QED
    BY <1>2, <1>3, <2>1, <2>2
<1>6. QED
  BY <1>4, <1>5

\* Steps that leave the switches, and what the plugin has of them, alone.
LEMMA EnableKept ==
    ASSUME EnableInv, SwitchesEnableable',
           UNCHANGED <<requests, enabled, toldEnable, unsure>>,
           call' = call \/ (call.pc \in {"idle", "issued"} /\ call'.pc \in {"idle", "issued"})
    PROVE  EnableInv'
<1>1. SwitchesAwaited'
  BY DEF EnableInv, SwitchesAwaited, Switches
<1>2. AnsweredOn'
  BY DEF EnableInv, AnsweredOn
<1>3. SwitchedExplained'
  BY DEF EnableInv, SwitchedExplained, EnableExplained, EnableInStep, Switching
<1>4. QED
  BY <1>1, <1>2, <1>3 DEF EnableInv

\* The steps that change one of the two.
EnableSteps == Reply \/ Invoke \/ Return \/ Timeout

LEMMA OtherSteps ==
    ASSUME TypeOK, [Next]_vars, ~EnableSteps
    PROVE  /\ UNCHANGED <<requests, enabled, toldEnable, unsure>>
           /\ \/ call' = call
              \/ call.pc \in {"idle", "issued"} /\ call'.pc \in {"idle", "issued"}
<1>1. CASE AgentEdits
  BY <1>1, EditFacts
<1>2. CASE SendNotif \/ LoseNotif \/ DiscoverOnu
  BY <1>2 DEF SendNotif, LoseNotif, DiscoverOnu, NotifyReturns, halVars
<1>3. CASE GetObjectContent \/ SetEnable \/ InvokeFails
  BY <1>3 DEF GetObjectContent, SetEnable, InvokeFails, halVars, Call, NoCall
<1>4. CASE Handle
  BY <1>4, HandleFacts DEF Call
<1>5. CASE UNCHANGED vars
  BY <1>5 DEF vars, halVars
<1>6. QED
  BY <1>1, <1>2, <1>3, <1>4, <1>5 DEF Next, Handle, EnableSteps

LEMMA NextEnableInv == TypeOK /\ CallInv /\ EnableInv /\ [Next]_vars => EnableInv'
<1> SUFFICES ASSUME TypeOK, CallInv, EnableInv, [Next]_vars PROVE EnableInv'
  OBVIOUS
<1>1. SwitchesEnableable'
  BY NextSwitchesEnableable DEF EnableInv
<1>2. CASE ~EnableSteps
  BY <1>1, <1>2, OtherSteps, EnableKept
<1>3. CASE Reply
  <2>1. SwitchesAwaited'
    <3>1. SUFFICES ASSUME NEW o \in Enableable \ unsure, NEW i \in 1..Len(requests'),
                          Switches(i, o)'
                   PROVE  requests'[i].live
      BY <1>3, ReplyFacts DEF SwitchesAwaited
    <3>2. i + 1 \in 1..Len(requests) /\ requests'[i] = requests[i + 1]
      BY <1>3, <3>1, ReplyFacts
    <3>3. Switches(i + 1, o)
      BY <3>1, <3>2 DEF Switches
    <3>4. QED
      BY <3>2, <3>3 DEF EnableInv, SwitchesAwaited
  <2>2. AnsweredOn'
    BY <1>3, ReplyAnsweredOn
  <2>3. SwitchedExplained'
    <3>1. SUFFICES ASSUME NEW o \in Enableable, o \notin unsure, ~Switching(o)
                   PROVE  EnableInStep(o)'
      BY <1>3, ReplyFacts, ReplySwitches DEF SwitchedExplained, EnableExplained
    <3>2. enabled'[o] = enabled[o] /\ toldEnable' = toldEnable
      BY <1>3, <3>1, ReplySwitches, ReplyFacts
    <3>3. EnableInStep(o)
      BY <3>1 DEF EnableInv, SwitchedExplained, EnableExplained
    <3>4. QED
      BY <3>2, <3>3 DEF EnableInStep
  <2>4. QED
    BY <1>1, <2>1, <2>2, <2>3 DEF EnableInv
<1>4. CASE Invoke
  <2>1. SwitchesAwaited'
    <3>1. SUFFICES ASSUME NEW o \in Enableable \ unsure, NEW i \in 1..Len(requests'),
                          Switches(i, o)'
                   PROVE  requests'[i].live
      BY <1>4, InvokeFacts DEF SwitchesAwaited
    <3>2. CASE i \in 1..Len(requests)
      <4>1. requests'[i] = requests[i]
        BY <1>4, <3>2, InvokeFacts
      <4>2. QED
        BY <3>1, <3>2, <4>1 DEF EnableInv, SwitchesAwaited, Switches
    <3>3. CASE i \notin 1..Len(requests)
      <4>1. i = Len(requests) + 1
        BY <1>4, <3>1, <3>3, InvokeFacts
      <4>2. QED
        BY <1>4, <4>1, InvokeFacts
    <3>4. QED
      BY <3>2, <3>3
  <2>2. call.pc = "issued" /\ call'.pc = "waiting"
    BY <1>4, InvokeFacts DEF TypeOK, CallState
  <2>3. AnsweredOn'
    BY <2>2 DEF AnsweredOn
  <2>4. SwitchedExplained'
    BY <1>4, <2>2, InvokeFacts
    DEF EnableInv, SwitchedExplained, EnableExplained, EnableInStep, Switching
  <2>5. QED
    BY <1>1, <2>1, <2>3, <2>4 DEF EnableInv
<1>5. CASE Return
  <2>1. /\ call.pc = "answered" /\ call'.pc = "idle"
        /\ toldEnable' = [o \in Enableable |->
                             IF o = call.obj THEN Flag(call.on) ELSE toldEnable[o]]
        /\ unsure' = unsure \ {call.obj}
        /\ UNCHANGED <<requests, enabled>>
    BY <1>5 DEF Return, NoCall, halVars
  <2>2. SwitchesAwaited'
    <3>1. Len(requests') = 0
      BY <2>1, EmptySeq DEF CallInv, AnsweredLast
    <3>2. QED
      BY <3>1 DEF SwitchesAwaited
  <2>3. AnsweredOn'
    BY <2>1 DEF AnsweredOn
  <2>4. ASSUME NEW o \in Enableable PROVE EnableExplained(o)'
    <3>1. CASE o = call.obj
      BY <2>1, <3>1 DEF EnableInv, AnsweredOn, EnableExplained, EnableInStep
    <3>2. CASE o # call.obj
      BY <2>1, <3>2
      DEF EnableInv, SwitchedExplained, EnableExplained, EnableInStep, Switching
    <3>3. QED
      BY <3>1, <3>2
  <2>5. QED
    BY <1>1, <2>2, <2>3, <2>4 DEF EnableInv, SwitchedExplained
<1>6. CASE Timeout
  <2>1. /\ call'.pc = "idle"
        /\ unsure' = unsure \cup (IF call.why = "enable" THEN {call.obj} ELSE {})
        /\ UNCHANGED <<enabled, toldEnable>>
    BY <1>6, TimeoutFacts DEF NoCall
  <2>2. SwitchesAwaited'
    <3>1. SUFFICES ASSUME NEW o \in Enableable, o \notin unsure', NEW i \in 1..Len(requests'),
                          Switches(i, o)'
                   PROVE  FALSE
      BY DEF SwitchesAwaited
    <3>2. i \in 1..Len(requests) /\ Switches(i, o)
      BY <1>6, <3>1, TimeoutFacts DEF Switches
    <3>3. requests[i].live
      BY <2>1, <3>1, <3>2 DEF EnableInv, SwitchesAwaited
    <3>4. call.obj = o /\ MethodOf(call) # "get"
      BY <3>2, <3>3 DEF CallInv, OnlyLastLive, Switches
    <3>5. QED
      BY <2>1, <3>1, <3>4 DEF MethodOf
  <2>3. AnsweredOn'
    BY <2>1 DEF AnsweredOn
  <2>4. SwitchedExplained'
    BY <2>1 DEF EnableInv, SwitchedExplained, EnableExplained, EnableInStep, Switching
  <2>5. QED
    BY <1>1, <2>2, <2>3, <2>4 DEF EnableInv
<1>7. QED
  BY <1>2, <1>3, <1>4, <1>5, <1>6 DEF EnableSteps

-----------------------------------------------------------------------------
(* The mirror *)

\* Len and the elements of the queue of notifications.
LEMMA NotifsFacts ==
    ASSUME TypeOK
    PROVE  /\ Len(notifs) \in Nat
           /\ DOMAIN notifs = 1..Len(notifs)
           /\ \A i \in 1..Len(notifs) : notifs[i] \in Notification
BY LenProperties, ElementOfSeq DEF TypeOK

\* A step that leaves the notifications and the existence of o alone.
LEMMA AnnouncementsKept ==
    ASSUME NEW o, UNCHANGED <<unsent, notifs>>, (o \in registered)' <=> o \in registered
    PROVE  /\ YoungestFits(o) => YoungestFits(o)'
           /\ Announced(o)' <=> Announced(o)
BY DEF YoungestFits, Announced, Fits, About

\* A notification in hand is the only one and moves to the end of the queue.
LEMMA SendFacts ==
    ASSUME TypeOK, OneUnsent, SendNotif, NEW o
    PROVE  /\ YoungestFits(o) => YoungestFits(o)'
           /\ Announced(o)' <=> Announced(o)
<1>1. PICK n \in unsent : notifs' = Append(notifs, n) /\ NotifyReturns
  BY DEF SendNotif
<1>2. unsent = {n} /\ unsent' = {} /\ registered' = registered
  BY <1>1 DEF OneUnsent, NotifyReturns
<1>3. PICK k \in Nat : k = Len(notifs)
  BY NotifsFacts
<1>4. /\ Len(notifs') = k + 1
      /\ \A i \in 1..k : notifs'[i] = notifs[i]
      /\ notifs'[k + 1] = n
      /\ DOMAIN notifs = 1..k
      /\ DOMAIN notifs' = 1..(k + 1)
  <2>1. notifs' \in Seq(Notification)
    BY <1>1, AppendFacts DEF TypeOK, HalTypeOK
  <2>2. QED
    BY <1>1, <1>3, <2>1, AppendFacts, NotifsFacts, LenProperties DEF TypeOK, HalTypeOK
<1>5. Announced(o)' <=> Announced(o)
  BY <1>2, <1>4 DEF Announced, About
<1>6. ASSUME YoungestFits(o) PROVE YoungestFits(o)'
  <2>1. SUFFICES ASSUME NEW i \in 1..(k + 1), About(notifs'[i], o),
                        \A j \in 1..(k + 1) : i < j => ~About(notifs'[j], o)
                 PROVE  notifs'[i].kind = "removed" <=> o \notin registered'
    BY <1>2, <1>4 DEF YoungestFits, About, Fits
  <2>2. CASE About(n, o)
    <3>1. i = k + 1
      BY <1>4, <2>1, <2>2
    <3>2. QED
      BY <1>2, <1>4, <1>6, <2>2, <3>1 DEF YoungestFits, Fits
  <2>3. CASE ~About(n, o)
    <3>1. i \in 1..k
      BY <1>4, <2>1, <2>3
    <3>2. \A j \in 1..k : i < j => ~About(notifs[j], o)
      BY <1>4, <2>1
    <3>3. Fits(notifs[i], o)
      BY <1>2, <1>3, <1>4, <1>6, <2>1, <2>3, <3>1, <3>2 DEF YoungestFits
    <3>4. QED
      BY <1>2, <1>4, <3>1, <3>3 DEF Fits
  <2>4. QED
    BY <2>2, <2>3
<1>7. QED
  BY <1>5, <1>6

\* The oldest notification leaves the queue: what is announced of an object
\* stays announced, unless this was the last of it, and then it fitted.
LEMMA DispatchFacts ==
    ASSUME TypeOK, Handle, NEW o
    PROVE  /\ YoungestFits(o) => YoungestFits(o)'
           /\ ~About(Head(notifs), o) => (Announced(o)' <=> Announced(o))
           /\ (YoungestFits(o) /\ About(Head(notifs), o) /\ ~Announced(o)')
                  => Fits(Head(notifs), o)
<1>1. /\ notifs # <<>> /\ notifs' = Tail(notifs)
      /\ UNCHANGED <<unsent, registered>>
  BY HandleFacts
<1>2. PICK k \in Nat : k = Len(notifs')
  BY <1>1, TailFacts, LenProperties DEF TypeOK
<1>3. /\ Len(notifs) = k + 1
      /\ \A i \in 1..k : notifs'[i] = notifs[i + 1]
      /\ Head(notifs) = notifs[1]
      /\ DOMAIN notifs = 1..(k + 1)
      /\ DOMAIN notifs' = 1..k
  BY <1>1, <1>2, TailFacts, LenProperties DEF TypeOK
<1>4. \A j \in 1..(k + 1) : j = 1 \/ (j - 1 \in 1..k /\ notifs'[j - 1] = notifs[j])
  BY <1>3
<1>5. ASSUME YoungestFits(o) PROVE YoungestFits(o)'
  <2>1. SUFFICES ASSUME \A n \in unsent : ~About(n, o),
                        NEW i \in 1..k, About(notifs'[i], o),
                        \A j \in 1..k : i < j => ~About(notifs'[j], o)
                 PROVE  notifs'[i].kind = "removed" <=> o \notin registered'
    BY <1>1, <1>2, <1>5 DEF YoungestFits, About, Fits
  <2>2. i + 1 \in 1..(k + 1) /\ About(notifs[i + 1], o)
    BY <1>3, <2>1
  <2>3. \A j \in 1..(k + 1) : i + 1 < j => ~About(notifs[j], o)
    BY <1>4, <2>1
  <2>4. Fits(notifs[i + 1], o)
    BY <1>3, <1>5, <2>1, <2>2, <2>3 DEF YoungestFits
  <2>5. QED
    BY <1>1, <1>3, <2>4 DEF Fits
<1>6. ASSUME ~About(Head(notifs), o) PROVE Announced(o)' <=> Announced(o)
  <2>1. ASSUME Announced(o)' PROVE Announced(o)
    BY <1>1, <1>3, <2>1 DEF Announced, About
  <2>2. ASSUME Announced(o) PROVE Announced(o)'
    BY <1>1, <1>3, <1>4, <1>6, <2>2 DEF Announced, About
  <2>3. QED
    BY <2>1, <2>2
<1>7. ASSUME YoungestFits(o), About(Head(notifs), o), ~Announced(o)'
      PROVE  Fits(Head(notifs), o)
  <2>1. \A n \in unsent : ~About(n, o)
    BY <1>1, <1>7 DEF Announced, About
  <2>2. \A j \in 1..k : ~About(notifs'[j], o)
    BY <1>3, <1>7 DEF Announced, About
  <2>3. \A j \in 1..(k + 1) : 1 < j => ~About(notifs[j], o)
    BY <1>4, <2>2
  <2>4. QED
    BY <1>3, <1>7, <2>1, <2>3 DEF YoungestFits
<1>8. QED
  BY <1>5, <1>6, <1>7
\* An edit about p announces itself; for the others nothing changes.
LEMMA EditMirror ==
    ASSUME TypeOK, AgentEdits, NEW o \in Object
    PROVE  \/ /\ UNCHANGED <<notifs, call, told, missed>>
              /\ Announced(o)'
              /\ YoungestFits(o)'
           \/ /\ UNCHANGED <<notifs, call, told, missed>>
              /\ YoungestFits(o) => YoungestFits(o)'
              /\ Announced(o)' <=> Announced(o)
              /\ (o \in registered)' <=> o \in registered
              /\ version'[o] = version[o]
<1>1. unsent = {} /\ UNCHANGED <<notifs, call, told, missed>>
  BY EditFacts
<1>2. ASSUME NEW n, unsent' = {n}, ~About(n, o), (o \in registered)' <=> o \in registered
      PROVE  /\ YoungestFits(o) => YoungestFits(o)'
             /\ Announced(o)' <=> Announced(o)
  BY <1>1, <1>2 DEF YoungestFits, Announced, About, Fits
<1>3. ASSUME NEW n, unsent' = {n}, About(n, o), n.kind = "removed" <=> o \notin registered'
      PROVE  Announced(o)' /\ YoungestFits(o)'
  BY <1>3 DEF YoungestFits, Announced, About, Fits
<1>4. CASE \E p \in Dynamic : /\ registered' = registered \cup {p}
                              /\ unsent' = {[kind |-> "added", obj |-> p]}
                              /\ version' = version
  BY <1>1, <1>2, <1>3, <1>4 DEF About
<1>5. CASE \E p \in Dynamic : /\ registered' = registered \ {p}
                              /\ unsent' = {[kind |-> "removed", obj |-> p]}
                              /\ version' = version
  BY <1>1, <1>2, <1>3, <1>5 DEF About
<1>6. CASE \E p \in Changing : /\ version' = [version EXCEPT ![p] = @ + 1]
                               /\ unsent' = {[kind |-> "changed", obj |-> p]}
                               /\ registered' = registered
  <2>1. PICK p \in Changing : /\ version' = [version EXCEPT ![p] = @ + 1]
                              /\ unsent' = {[kind |-> "changed", obj |-> p]}
                              /\ registered' = registered
    BY <1>6
  <2>2. p \in registered
    BY HalAssumption DEF TypeOK, HalTypeOK
  <2>3. CASE o = p
    BY <1>1, <1>3, <2>1, <2>2, <2>3 DEF About
  <2>4. CASE o # p
    <3>1. version'[o] = version[o]
      BY <2>1, <2>4 DEF TypeOK, HalTypeOK
    <3>2. ~About([kind |-> "changed", obj |-> p], o)
      BY <2>4 DEF About
    <3>3. QED
      BY <1>1, <1>2, <2>1, <3>1, <3>2
  <2>5. QED
    BY <2>3, <2>4
<1>7. CASE /\ unsent' = {[kind |-> "reset", obj |-> Onu]}
           /\ registered' = registered
           /\ version' = version
  <2>1. ~About([kind |-> "reset", obj |-> Onu], o)
    BY DEF About
  <2>2. QED
    BY <1>1, <1>2, <1>7, <2>1
<1>8. QED
  BY <1>4, <1>5, <1>6, <1>7, EditFacts

LEMMA InitMirrorInv == Init => MirrorInv
BY DEF Init, HalInit, NoCall, MirrorInv, OneUnsent, LastAnnouncementFits, YoungestFits,
       FetchFits, AnnouncedExplained, Explained, Actual

\* What the proof asks of a step for one object.
Kept(o) == o \in missed' \/ (YoungestFits(o)' /\ Explained(o)')

LEMMA NextMirrorInv == TypeOK /\ CallInv /\ MirrorInv /\ [Next]_vars => MirrorInv'
<1> SUFFICES ASSUME TypeOK, CallInv, MirrorInv, [Next]_vars PROVE MirrorInv'
  OBVIOUS
<1>0. /\ OneUnsent
      /\ call.obj \in Object
      /\ \A o \in Object : o \in missed \/ YoungestFits(o)
      /\ \A o \in Object : Explained(o)
      /\ FetchFits
  BY DEF MirrorInv, LastAnnouncementFits, AnnouncedExplained, TypeOK, CallState
<1>a. ASSUME OneUnsent', FetchFits', \A o \in Object : Kept(o) PROVE MirrorInv'
  BY <1>a DEF MirrorInv, LastAnnouncementFits, AnnouncedExplained, Kept, Explained
<1>b. \A o : UNCHANGED <<unsent, notifs, registered>> =>
          /\ YoungestFits(o) => YoungestFits(o)'
          /\ Announced(o)' <=> Announced(o)
  BY AnnouncementsKept
<1>1. CASE UNCHANGED <<registered, version, unsent, notifs, call, told, missed>>
  <2>1. UNCHANGED <<OneUnsent, FetchFits>>
    BY <1>1, <1>b DEF OneUnsent, FetchFits, Actual
  <2>2. ASSUME NEW o \in Object PROVE Kept(o)
    BY <1>0, <1>1, <1>b DEF Kept, Explained, Actual, Querying
  <2>3. QED
    BY <1>0, <1>a, <2>1, <2>2
<1>2. CASE AgentEdits
  <2>1. OneUnsent'
    BY <1>2, EditFacts DEF OneUnsent
  <2>2. ASSUME NEW o \in Object PROVE Kept(o)
    BY <1>0, <1>2, EditMirror DEF Kept, Explained, Actual, Querying
  <2>3. FetchFits'
    BY <1>0, <1>2, EditMirror DEF FetchFits, Actual
  <2>4. QED
    BY <1>a, <2>1, <2>2, <2>3
<1>3. CASE SendNotif
  <2>1. OneUnsent' /\ UNCHANGED <<registered, version, call, told, missed>>
    BY <1>3 DEF SendNotif, NotifyReturns, OneUnsent
  <2>2. ASSUME NEW o \in Object PROVE Kept(o)
    BY <1>0, <1>3, <2>1, SendFacts DEF Kept, Explained, Actual, Querying
  <2>3. FetchFits'
    BY <1>0, <1>3, <2>1, SendFacts DEF FetchFits, Actual
  <2>4. QED
    BY <1>a, <2>1, <2>2, <2>3
<1>4. CASE LoseNotif
  <2>1. PICK n \in unsent :
            /\ NotifyReturns
            /\ missed' = missed \cup (IF n.kind = "reset" THEN {} ELSE {n.obj})
            /\ UNCHANGED <<notifs, onu, call, told, toldEnable, unsure, sent>>
    BY <1>4 DEF LoseNotif
  <2>2. unsent = {n} /\ unsent' = {} /\ UNCHANGED <<registered, version>>
    BY <1>0, <2>1 DEF OneUnsent, NotifyReturns
  <2>3. ASSUME NEW o \in Object, o \notin missed'
        PROVE  /\ ~About(n, o)
               /\ o \notin missed
               /\ YoungestFits(o) => YoungestFits(o)'
               /\ Announced(o)' <=> Announced(o)
    <3>1. ~About(n, o) /\ o \notin missed
      BY <2>1, <2>3 DEF About
    <3>2. QED
      BY <2>1, <2>2, <3>1 DEF YoungestFits, Announced, About, Fits
  <2>4. ASSUME NEW o \in Object PROVE Kept(o)
    BY <1>0, <2>1, <2>2, <2>3 DEF Kept, Explained, Actual, Querying
  <2>5. FetchFits'
    BY <1>0, <2>1, <2>2, <2>3 DEF FetchFits, Actual
  <2>6. QED
    BY <1>a, <2>2, <2>4, <2>5 DEF OneUnsent
<1>5. CASE Reply
  <2>1. UNCHANGED <<registered, version, unsent, notifs, told, missed>>
    BY <1>5, ReplyFacts
  <2>2. CASE call' = call
    BY <1>1, <2>1, <2>2
  <2>3. CASE call' # call
    <3>1. /\ requests[1].live
          /\ call' = [call EXCEPT !.pc = "answered",
                                  !.val = IF requests[1].method = "get"
                                          THEN version[requests[1].obj] ELSE Absent,
                                  !.on = call'.on]
      BY <1>5, <2>3, ReplyFacts DEF ReplyArrives, TypeOK, CallState
    <3>2. /\ requests[1].obj = call.obj /\ requests[1].method = MethodOf(call)
          /\ call.pc = "waiting"
      BY <1>5, <3>1, ReplyFacts DEF CallInv, OnlyLastLive
    <3>3. /\ call'.obj = call.obj /\ call'.why = call.why /\ call'.pc = "answered"
          /\ call.why # "enable" => call'.val = version[call.obj]
      BY <3>1, <3>2 DEF MethodOf, TypeOK, CallState
    <3>4. ASSUME NEW o \in Object PROVE Kept(o)
      BY <1>0, <1>b, <2>1, <3>2, <3>3 DEF Kept, Explained, Actual, Querying
    <3>5. FetchFits'
      BY <1>0, <1>b, <2>1, <3>2, <3>3 DEF FetchFits, Actual
    <3>6. QED
      BY <1>0, <1>a, <2>1, <3>4, <3>5 DEF OneUnsent
  <2>4. QED
    BY <2>2, <2>3
<1>6. CASE GetObjectContent \/ SetEnable
  <2>1. /\ UNCHANGED <<registered, version, unsent, notifs, told, missed>>
        /\ call.pc = "idle" /\ call'.pc = "issued"
    BY <1>6 DEF GetObjectContent, SetEnable, halVars, Call
  <2>2. ASSUME NEW o \in Object PROVE Kept(o)
    BY <1>0, <1>b, <2>1 DEF Kept, Explained, Actual, Querying
  <2>3. QED
    BY <1>0, <1>a, <2>1, <2>2 DEF OneUnsent, FetchFits
<1>7. CASE Handle
  <2> DEFINE n == Head(notifs)
  <2>1. /\ UNCHANGED <<registered, version, unsent, missed>>
        /\ call.pc = "idle"
        /\ n \in Notification
    BY <1>7, HandleFacts
  <2>2. /\ OneUnsent'
        /\ call'.pc \in {"idle", "issued"}
    BY <1>0, <1>7, HandleFacts DEF OneUnsent, Call
  <2>3. ASSUME NEW o \in Object PROVE Kept(o)
    <3>1. YoungestFits(o) => YoungestFits(o)'
      BY <1>7, DispatchFacts
    <3>2. CASE ~About(n, o)
      <4>1. told'[o] = told[o]
        BY <1>7, <3>2, HandleFacts DEF About, TypeOK
      <4>2. Announced(o)' <=> Announced(o)
        BY <1>7, <3>2, DispatchFacts
      <4>3. QED
        BY <1>0, <2>1, <3>1, <4>1, <4>2 DEF Kept, Explained, Actual, Querying
    <3>3. CASE About(n, o) /\ o \notin missed /\ ~Announced(o)'
      <4>1. Fits(n, o)
        BY <1>0, <1>7, <3>3, DispatchFacts
      <4>2. CASE n.kind = "removed"
        <5>1. told'[o] = Absent
          BY <1>7, <3>3, <4>2, HandleFacts DEF About, TypeOK
        <5>2. QED
          BY <1>0, <2>1, <3>1, <3>3, <4>1, <4>2, <5>1 DEF Kept, Explained, Actual, Fits
      <4>3. CASE n.kind \in {"added", "changed"}
        <5>1. call' = Call(n.kind, o, FALSE)
          BY <1>7, <3>3, <4>3, HandleFacts DEF About
        <5>2. Querying(o)'
          BY <2>1, <4>1, <4>3, <5>1 DEF Querying, Call, Fits
        <5>3. QED
          BY <1>0, <3>1, <3>3, <5>2 DEF Kept, Explained
      <4>4. QED
        BY <2>1, <3>3, <4>2, <4>3 DEF About, Notification
    <3>4. CASE o \in missed \/ Announced(o)'
      BY <1>0, <2>1, <3>1, <3>4 DEF Kept, Explained
    <3>5. QED
      BY <3>2, <3>3, <3>4
  <2>4. FetchFits'
    BY <2>2 DEF FetchFits
  <2>5. QED
    BY <1>a, <2>2, <2>3, <2>4
<1>8. CASE Invoke
  <2>1. UNCHANGED <<registered, version, unsent, notifs, told, missed>>
    BY <1>8, InvokeFacts
  <2>2. /\ call.pc = "issued" /\ call'.pc = "waiting"
        /\ call'.obj = call.obj /\ call'.why = call.why /\ call.obj \in registered
    BY <1>8, InvokeFacts DEF TypeOK, CallState
  <2>3. ASSUME NEW o \in Object PROVE Kept(o)
    BY <1>0, <1>b, <2>1, <2>2 DEF Kept, Explained, Actual, Querying
  <2>4. QED
    BY <1>0, <1>a, <2>1, <2>2, <2>3 DEF OneUnsent, FetchFits
<1>9. CASE InvokeFails
  <2>1. /\ UNCHANGED <<registered, version, unsent, notifs, told, missed>>
        /\ call.pc = "issued" /\ call'.pc = "idle" /\ call.obj \notin registered
    BY <1>9 DEF InvokeFails, halVars, NoCall
  <2>2. ASSUME NEW o \in Object PROVE Kept(o)
    BY <1>0, <1>b, <2>1 DEF Kept, Explained, Actual, Querying
  <2>3. QED
    BY <1>0, <1>a, <2>1, <2>2 DEF OneUnsent, FetchFits
<1>10. CASE Return
  <2>1. /\ UNCHANGED <<registered, version, unsent, notifs>>
        /\ call.pc = "answered" /\ call'.pc = "idle"
    BY <1>10 DEF Return, halVars, NoCall
  <2>2. ASSUME NEW o \in Object PROVE Kept(o)
    <3>1. CASE call.why = "enable"
      <4>1. UNCHANGED <<told, missed>>
        BY <1>10, <3>1 DEF Return
      <4>2. QED
        BY <1>0, <1>b, <2>1, <3>1, <4>1 DEF Kept, Explained, Actual, Querying
    <3>2. CASE call.why # "enable"
      <4>1. /\ told' = [told EXCEPT ![call.obj] = call.val]
            /\ missed' = {p \in missed : \/ p # call.obj
                                         \/ call.val # Actual(p)
                                         \/ Announced(p)}
        BY <1>10, <3>2 DEF Return
      <4>2. CASE o # call.obj
        <5>1. told'[o] = told[o] /\ (o \in missed => o \in missed')
          BY <4>1, <4>2 DEF TypeOK
        <5>2. QED
          BY <1>0, <1>b, <2>1, <4>2, <5>1 DEF Kept, Explained, Actual, Querying
      <4>3. CASE o = call.obj
        <5>1. told'[o] = call.val
          BY <4>1, <4>3 DEF TypeOK
        <5>2. CASE o \notin missed
          BY <1>0, <1>b, <2>1, <3>2, <4>3, <5>1, <5>2 DEF Kept, Explained, Actual, FetchFits
        <5>3. CASE o \in missed /\ o \notin missed'
          <6>1. call.val = Actual(o) /\ ~Announced(o)
            BY <4>1, <5>3
          <6>2. YoungestFits(o)'
            BY <2>1, <6>1 DEF YoungestFits, Announced, About, Fits, TypeOK
          <6>3. QED
            BY <2>1, <5>1, <6>1, <6>2 DEF Kept, Explained, Actual
        <5>4. QED
          BY <5>2, <5>3 DEF Kept
      <4>4. QED
        BY <4>2, <4>3
    <3>3. QED
      BY <3>1, <3>2
  <2>3. QED
    BY <1>0, <1>a, <2>1, <2>2 DEF OneUnsent, FetchFits
<1>11. CASE Timeout
  <2>1. /\ UNCHANGED <<registered, version, unsent, notifs, told>>
        /\ call'.pc = "idle"
        /\ missed' = missed \cup (IF call.why \in {"added", "changed"} THEN {call.obj} ELSE {})
    BY <1>11, TimeoutFacts DEF NoCall
  <2>2. ASSUME NEW o \in Object PROVE Kept(o)
    BY <1>0, <1>b, <2>1 DEF Kept, Explained, Actual, Querying
  <2>3. QED
    BY <1>0, <1>a, <2>1, <2>2 DEF OneUnsent, FetchFits
<1>12. DiscoverOnu => UNCHANGED <<registered, version, unsent, notifs, call, told, missed>>
  BY DEF DiscoverOnu, halVars
<1>13. QED
  BY <1>1, <1>2, <1>3, <1>4, <1>5, <1>6, <1>7, <1>8, <1>9, <1>10, <1>11, <1>12
     DEF Next, Handle, vars, halVars

\* Whatever is edited, announced, dispatched, queried, switched, answered late or
\* lost, and in whatever order: where the plugin's copy of an object differs from
\* the agent's, Enable included, the repair is under way or something was lost or
\* given up.
THEOREM MirrorExplained == Spec => []OutOfSyncExplained
<1>1. Init => TypeOK /\ CallInv /\ MirrorInv /\ EnableInv
  BY InitTypeOK, InitCallInv, InitMirrorInv, InitEnableInv
<1>2. TypeOK /\ CallInv /\ MirrorInv /\ EnableInv /\ [Next]_vars
        => (TypeOK /\ CallInv /\ MirrorInv /\ EnableInv)'
  BY NextTypeOK, NextCallInv, NextMirrorInv, NextEnableInv
<1>3. MirrorInv /\ EnableInv => OutOfSyncExplained
  BY DEF MirrorInv, EnableInv, OutOfSyncExplained
<1>4. QED
  BY <1>1, <1>2, <1>3, PTL DEF Spec

=============================================================================
