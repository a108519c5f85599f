---------------------------- MODULE DmSyncRefines ----------------------------
(***************************************************************************)
(* DmSync implements DmMirror.  A step of DmSync concerns one object at    *)
(* most: for all others the abstract state stays (Quiet), and for that one *)
(* it stays as well, or makes a step of DmMirror (Moves).  Enable has a    *)
(* mapping of its own, in the second part.                                 *)
(***************************************************************************)
EXTENDS DmSyncProofs

Quiet(o) ==
    /\ Actual(o)' = Actual(o)
    /\ told'[o] = told[o]
    /\ Standing'[o] = Standing[o]

Moves(o) == Mirror!News(o) \/ Mirror!Tell(o) \/ Mirror!Lose(o)

\* What a step does to the abstract state.
Concerns(o) == (Moves(o) \/ Quiet(o)) /\ \A p \in Object \ {o} : Quiet(p)

\* The invariants the steps start from and lead to.
Inv == TypeOK /\ CallInv /\ ContentOrdered /\ MirrorInv

LEMMA StandingOf ==
    ASSUME NEW o \in Object
    PROVE  /\ Standing[o] = IF o \in missed THEN "missed"
                            ELSE IF Announced(o) \/ Querying(o) THEN "pending" ELSE "current"
           /\ Standing'[o] = IF o \in missed' THEN "missed"
                             ELSE IF Announced(o)' \/ Querying(o)' THEN "pending" ELSE "current"
BY DEF Standing

\* Nothing seen of o changes if nothing that Standing looks at does.
LEMMA QuietIf ==
    ASSUME NEW o \in Object,
           (o \in registered)' <=> o \in registered, version'[o] = version[o],
           told'[o] = told[o], (o \in missed)' <=> o \in missed,
           Announced(o)' <=> Announced(o), Querying(o)' <=> Querying(o)
    PROVE  Quiet(o)
BY StandingOf DEF Quiet, Actual

\* A copy that is current is exact: what Explained says, read from Standing.
LEMMA CurrentExact ==
    ASSUME MirrorInv, NEW o \in Object, Standing[o] = "current"
    PROVE  told[o] = Actual(o)
BY StandingOf DEF MirrorInv, AnnouncedExplained, Explained

\* The plugin is told something about an object that is not current.
LEMMA TellIf ==
    ASSUME Inv, Inv', NEW o \in Object, Standing[o] # "current",
           UNCHANGED <<registered, version>>,
           told[o] # Absent /\ told'[o] # Absent => told[o] <= told'[o],
           Standing'[o] \in {Standing[o], "current"}
    PROVE  Mirror!Tell(o)
<1>1. Actual(o)' = Actual(o)
  BY DEF Actual
<1>2. told'[o] # Absent /\ Actual(o) # Absent => told'[o] <= Actual(o)
  BY DEF Inv, ContentOrdered, Actual
<1>3. Standing'[o] = "current" => told'[o] = Actual(o)
  <2>1. Inv' => (AnnouncedExplained)'
    BY DEF Inv, MirrorInv
  <2>2. Standing'[o] = "current" => Explained(o)' /\ ~(o \in missed)' /\ ~Announced(o)' /\ ~Querying(o)'
    BY <2>1, StandingOf DEF AnnouncedExplained
  <2>3. QED
    BY <1>1, <2>2 DEF Explained
<1>4. QED
  BY <1>1, <1>2, <1>3 DEF Mirror!Tell, Mirror!Forward

\* A step that concerns one object is a step of DmMirror, or none.
LEMMA ConcernsOne ==
    ASSUME TypeOK, TypeOK', NEW f \in Object, Concerns(f)
    PROVE  [Mirror!Next]_(Mirror!vars)
<1>1. CASE Quiet(f)
  <2>1. \A o \in Object : Quiet(o)
    BY <1>1 DEF Concerns
  <2>2. [o \in Object |-> Actual(o)]' = [o \in Object |-> Actual(o)]
    BY <2>1 DEF Quiet
  <2>3. told' = told
    BY <2>1 DEF Quiet, TypeOK
  <2>4. Standing' = Standing
    <3>1. \A o \in Object : Standing'[o] = Standing[o]
      BY <2>1 DEF Quiet
    <3>2. QED
      BY <3>1 DEF Standing
  <2>5. QED
    BY <2>2, <2>3, <2>4 DEF Mirror!vars
<1>2. CASE Moves(f)
  <2>1. \A p \in Object \ {f} : Mirror!Stays(p)
    BY DEF Concerns, Quiet, Mirror!Stays
  <2>2. (Mirror!TypeOK)'
    <3>1. ([o \in Object |-> Actual(o)])' \in [Object -> Mirror!Value]
      BY DEF TypeOK, HalTypeOK, Actual, Mirror!Value
    <3>2. told' \in [Object -> Mirror!Value]
      BY DEF TypeOK, Value, Mirror!Value
    <3>3. Standing' \in [Object -> {"current", "pending", "missed"}]
      BY DEF Standing
    <3>4. QED
      BY <3>1, <3>2, <3>3 DEF Mirror!TypeOK
  <2>3. QED
    BY <1>2, <2>1, <2>2 DEF Moves, Mirror!Next
<1>3. QED
  BY <1>1, <1>2 DEF Concerns
-----------------------------------------------------------------------------
(* What each action does, seen from DmMirror. *)

\* Fetching something else, or nothing, is not fetching o.
LEMMA NotQuerying ==
    ASSUME NEW o, call.pc = "idle" \/ call.obj # o \/ call.why \in {"content", "enable"}
    PROVE  ~Querying(o)
BY DEF Querying

LEMMA EditConcerns ==
    ASSUME Inv, Inv', AgentEdits
    PROVE  \E f \in Object : Concerns(f)
<1>1. /\ unsent = {}
      /\ UNCHANGED <<notifs, call, told, missed>>
      /\ \A o \in Object : version[o] \in Nat
  BY EditFacts DEF Inv, TypeOK, HalTypeOK
<1>2. ASSUME NEW f \in Object, NEW n,
             unsent' = {n}, n.obj = f,
             \A o \in Object \ {f} : /\ (o \in registered)' <=> o \in registered
                                     /\ version'[o] = version[o]
      PROVE  \A o \in Object \ {f} : Quiet(o)
  <2>1. TAKE o \in Object \ {f}
  <2>2. Announced(o)' <=> Announced(o)
    BY <1>1, <1>2 DEF Announced, About
  <2>3. Querying(o)' <=> Querying(o)
    BY <1>1, <1>2 DEF Querying
  <2>4. QED
    BY <1>1, <1>2, <2>2, <2>3, QuietIf
<1>3. ASSUME NEW f \in Object, Announced(f)', version[f] <= version'[f]
      PROVE  Mirror!News(f)
  <2>1. Actual(f) # Absent /\ Actual(f)' # Absent => Actual(f) <= Actual(f)'
    BY <1>3 DEF Actual
  <2>2. Standing'[f] = IF Standing[f] = "missed" THEN "missed" ELSE "pending"
    BY <1>1, <1>3, StandingOf
  <2>3. QED
    BY <1>1, <2>1, <2>2 DEF Mirror!News, Mirror!Forward
<1>4. ASSUME NEW f \in Object, NEW kind \in {"added", "removed", "changed"},
             unsent' = {[kind |-> kind, obj |-> f]}
      PROVE  Announced(f)'
  BY <1>4 DEF Announced, About
<1>5. CASE \E p \in Dynamic : /\ registered' = registered \cup {p}
                              /\ unsent' = {[kind |-> "added", obj |-> p]}
                              /\ version' = version
  <2>1. PICK p \in Dynamic : /\ registered' = registered \cup {p}
                             /\ unsent' = {[kind |-> "added", obj |-> p]}
                             /\ version' = version
    BY <1>5
  <2>2. p \in Object
    BY DEF Object
  <2>3. \A o \in Object \ {p} : Quiet(o)
    BY <1>2, <2>1, <2>2
  <2>4. Mirror!News(p)
    <3>1. version[p] <= version'[p]
      BY <1>1, <2>1, <2>2
    <3>2. QED
      BY <1>3, <1>4, <2>1, <2>2, <3>1
  <2>5. QED
    BY <2>2, <2>3, <2>4 DEF Concerns, Moves
<1>6. CASE \E p \in Dynamic : /\ registered' = registered \ {p}
                              /\ unsent' = {[kind |-> "removed", obj |-> p]}
                              /\ version' = version
  <2>1. PICK p \in Dynamic : /\ registered' = registered \ {p}
                             /\ unsent' = {[kind |-> "removed", obj |-> p]}
                             /\ version' = version
    BY <1>6
  <2>2. p \in Object
    BY DEF Object
  <2>3. \A o \in Object \ {p} : Quiet(o)
    BY <1>2, <2>1, <2>2
  <2>4. Mirror!News(p)
    <3>1. version[p] <= version'[p]
      BY <1>1, <2>1, <2>2
    <3>2. QED
      BY <1>3, <1>4, <2>1, <2>2, <3>1
  <2>5. QED
    BY <2>2, <2>3, <2>4 DEF Concerns, Moves
<1>7. CASE \E p \in Changing : /\ version' = [version EXCEPT ![p] = @ + 1]
                               /\ unsent' = {[kind |-> "changed", obj |-> p]}
                               /\ registered' = registered
  <2>1. PICK p \in Changing : /\ version' = [version EXCEPT ![p] = @ + 1]
                              /\ unsent' = {[kind |-> "changed", obj |-> p]}
                              /\ registered' = registered
    BY <1>7
  <2>2. p \in Object
    BY HalAssumption DEF Object
  <2>3. \A o \in Object : version'[o] = IF o = p THEN version[p] + 1 ELSE version[o]
    BY <2>1 DEF Inv, TypeOK, HalTypeOK
  <2>4. \A o \in Object \ {p} : Quiet(o)
    BY <1>2, <2>1, <2>2, <2>3
  <2>5. Mirror!News(p)
    BY <1>1, <1>3, <1>4, <2>1, <2>2, <2>3
  <2>6. QED
    BY <2>2, <2>4, <2>5 DEF Concerns, Moves
<1>8. CASE /\ unsent' = {[kind |-> "reset", obj |-> Onu]}
           /\ registered' = registered
           /\ version' = version
  <2>1. ASSUME NEW o \in Object PROVE Quiet(o)
    <3>1. Announced(o)' <=> Announced(o)
      BY <1>1, <1>8 DEF Announced, About
    <3>2. Querying(o)' <=> Querying(o)
      BY <1>1, <1>8 DEF Querying
    <3>3. QED
      BY <1>1, <1>8, <3>1, <3>2, QuietIf
  <2>2. Onu \in Object
    BY HalAssumption DEF Object
  <2>3. QED
    BY <2>1, <2>2 DEF Concerns
<1>9. QED
  BY <1>5, <1>6, <1>7, <1>8, EditFacts DEF Inv

LEMMA SendConcerns ==
    ASSUME Inv, SendNotif
    PROVE  \A o \in Object : Quiet(o)
<1>1. UNCHANGED <<registered, version, call, told, missed>>
  BY DEF SendNotif, NotifyReturns
<1>2. TAKE o \in Object
<1>3. Announced(o)' <=> Announced(o)
  BY SendFacts DEF Inv, MirrorInv
<1>4. Querying(o)' <=> Querying(o)
  BY <1>1 DEF Querying
<1>5. QED
  BY <1>1, <1>3, <1>4, QuietIf

LEMMA LoseConcerns ==
    ASSUME Inv, LoseNotif
    PROVE  \E f \in Object : Concerns(f)
<1>1. PICK n \in unsent :
          /\ NotifyReturns
          /\ missed' = missed \cup (IF n.kind = "reset" THEN {} ELSE {n.obj})
          /\ UNCHANGED <<notifs, onu, call, told, toldEnable, unsure, sent>>
  BY DEF LoseNotif
<1>2. unsent = {n} /\ unsent' = {} /\ UNCHANGED <<registered, version>>
  BY <1>1 DEF Inv, MirrorInv, OneUnsent, NotifyReturns
<1>3. n.obj \in Object
  BY DEF Inv, TypeOK, HalTypeOK, Notification
<1>4. \A o \in Object : Querying(o)' <=> Querying(o)
  BY <1>1, <1>2 DEF Querying
<1>5. ASSUME NEW o \in Object, ~About(n, o)
      PROVE  Quiet(o)
  <2>1. Announced(o)' <=> Announced(o)
    BY <1>1, <1>2, <1>5 DEF Announced, About
  <2>2. o \in missed' <=> o \in missed
    BY <1>1, <1>5 DEF About
  <2>3. QED
    BY <1>1, <1>2, <1>4, <2>1, <2>2, QuietIf
<1>6. CASE n.kind = "reset"
  BY <1>3, <1>5, <1>6 DEF Concerns, About
<1>7. CASE n.kind # "reset"
  <2>1. \A p \in Object \ {n.obj} : Quiet(p)
    BY <1>5 DEF About
  <2>2. Announced(n.obj)
    BY <1>7 DEF Announced, About
  <2>3. Standing'[n.obj] = "missed"
    BY <1>1, <1>3, <1>7, StandingOf
  <2>4. Actual(n.obj)' = Actual(n.obj) /\ told' = told
    BY <1>1, <1>2 DEF Actual
  <2>5. CASE n.obj \in missed
    <3>1. Standing[n.obj] = "missed"
      BY <1>3, <2>5, StandingOf
    <3>2. QED
      BY <1>3, <2>1, <2>3, <2>4, <3>1 DEF Concerns, Quiet
  <2>6. CASE n.obj \notin missed
    <3>1. Standing[n.obj] = "pending"
      BY <1>3, <2>2, <2>6, StandingOf
    <3>2. Mirror!Lose(n.obj)
      BY <1>3, <2>3, <2>4, <3>1 DEF Mirror!Lose
    <3>3. QED
      BY <1>3, <2>1, <3>2 DEF Concerns, Moves
  <2>7. QED
    BY <2>5, <2>6
<1>8. QED
  BY <1>6, <1>7

\* Steps between the request and its reply, and calls of the plugin.
LEMMA CallConcerns ==
    ASSUME Inv, Reply \/ DiscoverOnu \/ GetObjectContent \/ SetEnable \/ Invoke \/ InvokeFails
    PROVE  \A o \in Object : Quiet(o)
<1>1. UNCHANGED <<registered, version, unsent, notifs, told, missed>>
  BY ReplyFacts, InvokeFacts
     DEF Inv, DiscoverOnu, GetObjectContent, SetEnable, InvokeFails, halVars
<1>2. TAKE o \in Object
<1>3. Announced(o)' <=> Announced(o)
  BY <1>1 DEF Announced, About
<1>4. Querying(o)' <=> Querying(o)
  <2>1. CASE Reply
    <3>1. ReplyArrives(requests[1]) /\ Len(requests) \in Nat \ {0}
      BY <2>1, ReplyFacts DEF Inv
    <3>2. CASE call' = call
      BY <1>1, <3>2 DEF Querying
    <3>3. CASE call' # call
      <4>1. requests[1].live
        BY <3>1, <3>3 DEF ReplyArrives
      <4>2. call.pc = "waiting"
        BY <3>1, <4>1 DEF Inv, CallInv, OnlyLastLive
      <4>3. call'.pc = "answered" /\ call'.obj = call.obj /\ call'.why = call.why
        BY <3>1, <3>3 DEF ReplyArrives, Inv, TypeOK, CallState
      <4>4. QED
        BY <1>1, <4>2, <4>3 DEF Querying
    <3>4. QED
      BY <3>2, <3>3
  <2>2. CASE DiscoverOnu
    BY <1>1, <2>2 DEF DiscoverOnu, Querying
  <2>3. CASE GetObjectContent \/ SetEnable
    BY <2>3 DEF GetObjectContent, SetEnable, Call, Querying
  <2>4. CASE Invoke
    <3>1. /\ call.pc = "issued" /\ call.obj \in registered
          /\ call'.pc = "waiting" /\ call'.obj = call.obj /\ call'.why = call.why
      BY <2>4, InvokeFacts DEF Inv, TypeOK, CallState
    <3>2. QED
      BY <1>1, <3>1 DEF Querying
  <2>5. CASE InvokeFails
    BY <1>1, <2>5 DEF InvokeFails, NoCall, Querying
  <2>6. QED
    BY <2>1, <2>2, <2>3, <2>4, <2>5
<1>5. QED
  BY <1>1, <1>3, <1>4, QuietIf
LEMMA HandleConcerns ==
    ASSUME Inv, Inv', Handle
    PROVE  \E f \in Object : Concerns(f)
<1>1. /\ call.pc = "idle" /\ notifs # <<>> /\ Head(notifs) \in Notification
      /\ UNCHANGED <<registered, version, unsent, missed>>
  BY HandleFacts DEF Inv
<1>2. PICK f \in Object : f = Head(notifs).obj
  BY <1>1 DEF Notification
<1>3. \A o \in Object : ~Querying(o)
  BY <1>1 DEF Querying
<1>4. call' = call \/ call'.obj = f
  BY <1>2, HandleFacts DEF Inv, Call
<1>5. told' = told \/ (Head(notifs).kind = "removed" /\ told' = [told EXCEPT ![f] = Absent])
  BY <1>2, HandleFacts DEF Inv
<1>6. ASSUME NEW o \in Object, ~About(Head(notifs), o), told'[o] = told[o], ~Querying(o)'
      PROVE  Quiet(o)
  <2>1. Announced(o)' <=> Announced(o)
    BY <1>6, DispatchFacts DEF Inv
  <2>2. QED
    BY <1>1, <1>3, <1>6, <2>1, QuietIf
<1>7. \A p \in Object \ {f} : Quiet(p)
  <2>1. TAKE p \in Object \ {f}
  <2>2. ~About(Head(notifs), p)
    BY <1>2 DEF About
  <2>3. told'[p] = told[p]
    BY <1>2, <1>5 DEF Inv, TypeOK
  <2>4. ~Querying(p)'
    BY <1>1, <1>4 DEF Querying
  <2>5. QED
    BY <1>6, <2>2, <2>3, <2>4
<1>8. CASE Head(notifs).kind = "reset"
  <2>1. ~About(Head(notifs), f) /\ call' = call /\ told' = told
    BY <1>8, HandleFacts DEF About, Inv
  <2>2. ~Querying(f)'
    BY <1>1, <2>1 DEF Querying
  <2>3. Quiet(f)
    BY <1>2, <1>6, <2>1, <2>2
  <2>4. QED
    BY <1>2, <1>7, <2>3 DEF Concerns
<1>9. CASE Head(notifs).kind # "reset"
  <2>1. Announced(f)
    <3>1. 1 \in DOMAIN notifs /\ Head(notifs) = notifs[1]
      BY <1>1, TailFacts, NotifsFacts DEF Inv, TypeOK
    <3>2. QED
      BY <1>2, <1>9, <3>1 DEF Announced, About
  <2>2. /\ Standing[f] = IF f \in missed THEN "missed" ELSE "pending"
        /\ f \in missed => Standing'[f] = "missed"
        /\ f \notin missed => Standing'[f] \in {"pending", "current"}
    BY <1>1, <1>2, <2>1, StandingOf
  <2>3. told[f] # Absent /\ told'[f] # Absent => told[f] <= told'[f]
    BY <1>2, <1>5, SyncAssumption DEF Inv, TypeOK, Value
  <2>4. Mirror!Tell(f)
    BY <1>1, <1>2, <2>2, <2>3, TellIf
  <2>5. QED
    BY <1>2, <1>7, <2>4 DEF Concerns, Moves
<1>10. QED
  BY <1>8, <1>9

LEMMA ReturnConcerns ==
    ASSUME Inv, Inv', Return
    PROVE  \E f \in Object : Concerns(f)
<1>1. /\ call.pc = "answered" /\ call' = NoCall
      /\ UNCHANGED <<registered, version, unsent, notifs>>
  BY DEF Return, halVars
<1>2. PICK f \in Object : f = call.obj
  BY DEF Inv, TypeOK, CallState
<1>3. \A o \in Object : /\ Announced(o)' <=> Announced(o)
                        /\ ~Querying(o)'
                        /\ o # f => ~Querying(o)
  BY <1>1, <1>2 DEF Announced, About, Querying, NoCall
<1>4. CASE call.why = "enable"
  <2>1. UNCHANGED <<told, missed>>
    BY <1>4 DEF Return
  <2>2. \A o \in Object : ~Querying(o)
    BY <1>4 DEF Querying
  <2>3. \A o \in Object : Quiet(o)
    BY <1>1, <1>3, <2>1, <2>2, QuietIf
  <2>4. QED
    BY <2>3 DEF Concerns
<1>5. CASE call.why # "enable"
  <2>1. /\ told' = [told EXCEPT ![f] = call.val]
        /\ missed' = {o \in missed : o # f \/ call.val # Actual(o) \/ Announced(o)}
    BY <1>2, <1>5 DEF Return
  <2>2. \A o \in Object \ {f} : Quiet(o)
    <3>1. TAKE o \in Object \ {f}
    <3>2. told'[o] = told[o] /\ (o \in missed' <=> o \in missed)
      BY <2>1 DEF Inv, TypeOK
    <3>3. QED
      BY <1>1, <1>3, <3>2, QuietIf
  <2>3. /\ told'[f] = call.val
        /\ told[f] # Absent => told[f] <= call.val
    BY <1>1, <1>2, <1>5, <2>1 DEF Inv, TypeOK, ContentOrdered
  <2>4. CASE Standing[f] = "current"
    <3>1. f \notin missed /\ ~Announced(f) /\ ~Querying(f)
      BY <2>4, StandingOf
    <3>2. call.val = Actual(f)
      BY <1>1, <1>2, <1>5, <3>1 DEF Inv, MirrorInv, FetchFits
    <3>3. told'[f] = told[f]
      BY <2>3, <2>4, <3>2, CurrentExact DEF Inv
    <3>4. f \notin missed'
      BY <2>1, <3>1
    <3>5. Quiet(f)
      BY <1>1, <1>3, <3>1, <3>3, <3>4, QuietIf
    <3>6. QED
      BY <2>2, <3>5 DEF Concerns
  <2>5. CASE Standing[f] # "current"
    <3>1. Standing'[f] \in {Standing[f], "current"}
      <4>1. CASE f \in missed
        BY <1>3, <2>1, <4>1, StandingOf
      <4>2. CASE f \notin missed
        BY <1>3, <2>1, <2>5, <4>2, StandingOf
      <4>3. QED
        BY <4>1, <4>2
    <3>2. Mirror!Tell(f)
      BY <1>1, <2>3, <2>5, <3>1, TellIf
    <3>3. QED
      BY <2>2, <3>2 DEF Concerns, Moves
  <2>6. QED
    BY <2>4, <2>5
<1>6. QED
  BY <1>4, <1>5

LEMMA TimeoutConcerns ==
    ASSUME Inv, Timeout
    PROVE  \E f \in Object : Concerns(f)
<1>1. /\ call.pc \in {"waiting", "answered"} /\ call' = NoCall
      /\ UNCHANGED <<registered, version, unsent, notifs, told>>
      /\ missed' = missed \cup (IF call.why \in {"added", "changed"} THEN {call.obj} ELSE {})
  BY TimeoutFacts DEF Inv
<1>2. PICK f \in Object : f = call.obj
  BY DEF Inv, TypeOK, CallState
<1>3. \A o \in Object : /\ Announced(o)' <=> Announced(o)
                        /\ ~Querying(o)'
                        /\ Querying(o) <=> o = f /\ call.why \in {"added", "changed"}
  BY <1>1, <1>2 DEF Announced, About, Querying, NoCall
<1>4. ASSUME NEW o \in Object, o # f \/ call.why \notin {"added", "changed"}
      PROVE  Quiet(o)
  <2>1. o \in missed' <=> o \in missed
    BY <1>1, <1>2, <1>4
  <2>2. QED
    BY <1>1, <1>3, <1>4, <2>1, QuietIf
<1>5. CASE call.why \notin {"added", "changed"}
  BY <1>4, <1>5 DEF Concerns
<1>6. CASE call.why \in {"added", "changed"}
  <2>1. /\ Standing'[f] = "missed"
        /\ Standing[f] = IF f \in missed THEN "missed" ELSE "pending"
    BY <1>1, <1>2, <1>3, <1>6, StandingOf
  <2>2. Actual(f)' = Actual(f) /\ told'[f] = told[f]
    BY <1>1 DEF Actual
  <2>3. Mirror!Lose(f) \/ Quiet(f)
    BY <2>1, <2>2 DEF Mirror!Lose, Quiet
  <2>4. QED
    BY <1>4, <2>3 DEF Concerns, Moves
<1>7. QED
  BY <1>5, <1>6

-----------------------------------------------------------------------------
LEMMA InitMirrors == Init => Mirror!Init
<1>1. SUFFICES ASSUME Init PROVE Mirror!Init
  OBVIOUS
<1>2. TypeOK
  BY <1>1, InitTypeOK
<1>3. [o \in Object |-> Actual(o)] \in [Object -> Mirror!Value]
  BY <1>2 DEF TypeOK, HalTypeOK, Actual, Mirror!Value
<1>4. \A o \in Object : /\ Actual(o) = IF o \in Static THEN 0 ELSE Absent
                        /\ o \in missed <=> o \in Static
                        /\ ~Announced(o)
                        /\ ~Querying(o)
  BY <1>1 DEF Init, HalInit, Actual, Announced, Querying, NoCall
<1>5. \A o \in Object : Standing[o] = IF Actual(o) = Absent THEN "current" ELSE "missed"
  BY <1>4, StandingOf, SyncAssumption
<1>6. /\ told \in [Object -> Mirror!Value]
      /\ Standing \in [Object -> {"current", "pending", "missed"}]
  BY <1>2 DEF TypeOK, Value, Mirror!Value, Standing
<1>7. QED
  BY <1>1, <1>3, <1>5, <1>6 DEF Mirror!Init, Mirror!KnowsNothing, Mirror!TypeOK, Init

LEMMA NextMirrors == Inv /\ Inv' /\ [Next]_vars => [Mirror!Next]_(Mirror!vars)
<1>1. SUFFICES ASSUME Inv, Inv', [Next]_vars PROVE \E f \in Object : Concerns(f)
  BY ConcernsOne DEF Inv
<1>2. ASSUME \A o \in Object : Quiet(o) PROVE Concerns(Onu)
  BY <1>2, HalAssumption DEF Concerns, Object
<1>3. Onu \in Object
  BY HalAssumption DEF Object
<1>4. CASE AgentEdits
  BY <1>1, <1>4, EditConcerns
<1>5. CASE SendNotif
  BY <1>1, <1>2, <1>3, <1>5, SendConcerns
<1>6. CASE LoseNotif
  BY <1>1, <1>6, LoseConcerns
<1>7. CASE Reply \/ DiscoverOnu \/ GetObjectContent \/ SetEnable \/ Invoke \/ InvokeFails
  BY <1>1, <1>2, <1>3, <1>7, CallConcerns
<1>8. CASE Handle
  BY <1>1, <1>8, HandleConcerns
<1>9. CASE Return
  BY <1>1, <1>9, ReturnConcerns
<1>10. CASE Timeout
  BY <1>1, <1>10, TimeoutConcerns
<1>11. CASE UNCHANGED vars
  <2>1. \A o \in Object : Quiet(o)
    BY <1>11, StandingOf DEF vars, halVars, Quiet, Actual, Announced, Querying
  <2>2. QED
    BY <1>2, <1>3, <2>1
<1>12. QED
  BY <1>1, <1>4, <1>5, <1>6, <1>7, <1>8, <1>9, <1>10, <1>11 DEF Next, Handle

-----------------------------------------------------------------------------
(* The second mapping: Enable. *)

SwitchedInv == TypeOK /\ CallInv /\ EnableInv

QuietEnable(o) == EnableMirror!Stays(o)

LEMMA EnableStandingOf ==
    ASSUME NEW o \in Enableable
    PROVE  /\ EnableStanding[o] = IF o \in unsure THEN "missed"
                                  ELSE IF Switching(o) THEN "pending" ELSE "current"
           /\ EnableStanding'[o] = IF o \in unsure' THEN "missed"
                                   ELSE IF Switching(o)' THEN "pending" ELSE "current"
BY DEF EnableStanding

\* Nothing is seen of a step that leaves Enable of o, and who waits for it, alone.
LEMMA EnableQuietIf ==
    ASSUME NEW o \in Enableable, enabled'[o] = enabled[o], toldEnable'[o] = toldEnable[o],
           o \in unsure' <=> o \in unsure, Switching(o)' <=> Switching(o)
    PROVE  QuietEnable(o)
BY EnableStandingOf DEF QuietEnable, EnableMirror!Stays

\* The agent is asked to switch o, or does it.
LEMMA EnableNewsIf ==
    ASSUME NEW o \in Enableable, toldEnable'[o] = toldEnable[o], unsure' = unsure,
           o \in unsure \/ Switching(o)'
    PROVE  EnableMirror!News(o)
<1>1. EnableStanding'[o] = IF EnableStanding[o] = "missed" THEN "missed" ELSE "pending"
  BY EnableStandingOf
<1>2. QED
  BY <1>1 DEF EnableMirror!News, EnableMirror!Forward

LEMMA EnableTypeOK == TypeOK => EnableMirror!TypeOK
<1>1. \A o \in Enableable : Flag(enabled[o]) \in {0, 1}
  BY DEF Flag
<1>2. QED
  BY <1>1 DEF TypeOK, EnableMirror!TypeOK, EnableMirror!Value, EnableStanding

LEMMA EnableTypeOKNext == TypeOK' => (EnableMirror!TypeOK)'
<1>1. \A o \in Enableable : Flag(enabled'[o]) \in {0, 1}
  BY DEF Flag
<1>2. QED
  BY <1>1 DEF TypeOK, EnableMirror!TypeOK, EnableMirror!Value, EnableStanding

\* The plugin is told of one object, or nothing is seen.
LEMMA EnableTold ==
    ASSUME TypeOK', \A o \in Enableable : EnableMirror!Tell(o) \/ QuietEnable(o)
    PROVE  EnableMirror!Next
BY EnableTypeOKNext DEF QuietEnable, EnableMirror!Next

\* One object is switched, or a switch of it lost.
LEMMA EnableMoved ==
    ASSUME TypeOK', NEW f \in Enableable, EnableMirror!News(f) \/ EnableMirror!Lose(f),
           \A o \in Enableable \ {f} : QuietEnable(o)
    PROVE  EnableMirror!Next
BY EnableTypeOKNext DEF QuietEnable, EnableMirror!Next

LEMMA EnableReply == SwitchedInv /\ TypeOK' /\ Reply => EnableMirror!Next
<1> SUFFICES ASSUME SwitchedInv, TypeOK', Reply PROVE EnableMirror!Next
  OBVIOUS
<1>1. /\ UNCHANGED <<toldEnable, unsure>>
      /\ \A o \in Enableable : ~Switches(1, o) => enabled'[o] = enabled[o]
      /\ \A o \in Enableable \ unsure : Switches(1, o) => Switching(o)'
  BY ReplyFacts, ReplySwitches DEF SwitchedInv
<1>2. \A o : Switching(o)' <=> Switching(o)
  <2>1. ReplyArrives(requests[1]) /\ 1 \in 1..Len(requests)
    BY ReplyFacts DEF SwitchedInv
  <2>2. CASE call' = call
    BY <2>2 DEF Switching
  <2>3. CASE call' # call
    <3>1. requests[1].live
      BY <2>1, <2>3 DEF ReplyArrives
    <3>2. call.pc = "waiting"
      BY <2>1, <3>1 DEF SwitchedInv, CallInv, OnlyLastLive
    <3>3. call'.why = call.why /\ call'.obj = call.obj /\ call'.pc = "answered"
      BY <2>1, <2>3 DEF ReplyArrives, SwitchedInv, TypeOK, CallState
    <3>4. QED
      BY <3>2, <3>3 DEF Switching
  <2>4. QED
    BY <2>2, <2>3
<1>3. \A o \in Enableable : ~Switches(1, o) => QuietEnable(o)
  BY <1>1, <1>2, EnableQuietIf
<1>4. CASE \A o \in Enableable : ~Switches(1, o)
  BY <1>3, <1>4, EnableTold
<1>5. ASSUME NEW f \in Enableable, Switches(1, f) PROVE EnableMirror!Next
  <2>1. \A o \in Enableable \ {f} : ~Switches(1, o)
    BY <1>5 DEF Switches
  <2>2. EnableMirror!News(f)
    BY <1>1, <1>5, EnableNewsIf
  <2>3. QED
    BY <1>3, <2>1, <2>2, EnableMoved
<1>6. QED
  BY <1>4, <1>5

LEMMA EnableInvoke == SwitchedInv /\ TypeOK' /\ Invoke => EnableMirror!Next
<1> SUFFICES ASSUME SwitchedInv, TypeOK', Invoke PROVE EnableMirror!Next
  OBVIOUS
<1>1. /\ UNCHANGED <<enabled, toldEnable, unsure>>
      /\ call.pc = "issued" /\ call'.pc = "waiting"
      /\ call'.obj = call.obj /\ call'.why = call.why
  BY InvokeFacts DEF SwitchedInv, TypeOK, CallState
<1>2. \A o : (call.why # "enable" \/ call.obj # o) => (Switching(o)' <=> Switching(o))
  BY <1>1 DEF Switching
<1>3. CASE call.why # "enable"
  BY <1>1, <1>2, <1>3, EnableQuietIf, EnableTold
<1>4. CASE call.why = "enable"
  <2>1. call.obj \in Enableable /\ Switching(call.obj)'
    BY <1>1, <1>4 DEF SwitchedInv, EnableInv, SwitchesEnableable, Switching
  <2>2. EnableMirror!News(call.obj)
    BY <1>1, <2>1, EnableNewsIf
  <2>3. \A o \in Enableable \ {call.obj} : QuietEnable(o)
    BY <1>1, <1>2, EnableQuietIf
  <2>4. QED
    BY <2>1, <2>2, <2>3, EnableMoved
<1>5. QED
  BY <1>3, <1>4

LEMMA EnableReturn == SwitchedInv /\ TypeOK' /\ Return => EnableMirror!Next
<1> SUFFICES ASSUME SwitchedInv, TypeOK', Return, NEW o \in Enableable
             PROVE  EnableMirror!Tell(o) \/ QuietEnable(o)
  BY EnableTold
<1>1. /\ call.pc = "answered" /\ call'.pc = "idle"
      /\ toldEnable'[o] = IF o = call.obj THEN Flag(call.on) ELSE toldEnable[o]
      /\ unsure' = unsure \ {call.obj}
      /\ enabled' = enabled
  BY DEF Return, NoCall, halVars
<1>2. CASE o # call.obj
  BY <1>1, <1>2, EnableQuietIf DEF Switching
<1>3. CASE o = call.obj
  <2>1. toldEnable'[o] = Flag(enabled[o])
    BY <1>1, <1>3 DEF SwitchedInv, EnableInv, AnsweredOn
  <2>2. EnableStanding'[o] = "current"
    BY <1>1, <1>3, EnableStandingOf DEF Switching
  <2>3. CASE EnableStanding[o] = "current"
    <3>1. toldEnable[o] = Flag(enabled[o])
      BY <2>3, EnableStandingOf
      DEF SwitchedInv, EnableInv, SwitchedExplained, EnableExplained, EnableInStep
    <3>2. QED
      BY <1>1, <2>1, <2>2, <2>3, <3>1 DEF QuietEnable, EnableMirror!Stays
  <2>4. CASE EnableStanding[o] # "current"
    BY <1>1, <2>1, <2>2, <2>4 DEF EnableMirror!Tell, EnableMirror!Forward
  <2>5. QED
    BY <2>3, <2>4
<1>4. QED
  BY <1>2, <1>3

LEMMA EnableTimeout == SwitchedInv /\ TypeOK' /\ Timeout => EnableMirror!Next
<1> SUFFICES ASSUME SwitchedInv, TypeOK', Timeout PROVE EnableMirror!Next
  OBVIOUS
<1>1. /\ call.pc \in {"waiting", "answered"} /\ call'.pc = "idle"
      /\ unsure' = unsure \cup (IF call.why = "enable" THEN {call.obj} ELSE {})
      /\ UNCHANGED <<enabled, toldEnable>>
  BY TimeoutFacts DEF NoCall, SwitchedInv
<1>2. ASSUME NEW o \in Enableable, call.why # "enable" \/ call.obj # o
      PROVE  QuietEnable(o)
  BY <1>1, <1>2, EnableQuietIf DEF Switching
<1>3. CASE call.why # "enable"
  BY <1>2, <1>3, EnableTold
<1>4. CASE call.why = "enable"
  <2>1. PICK f \in Enableable : f = call.obj
    BY <1>4 DEF SwitchedInv, EnableInv, SwitchesEnableable
  <2>2. EnableStanding'[f] = "missed"
    BY <1>1, <1>4, <2>1, EnableStandingOf
  <2>3. EnableStanding[f] = IF f \in unsure THEN "missed" ELSE "pending"
    BY <1>1, <1>4, <2>1, EnableStandingOf DEF Switching
  <2>4. CASE f \in unsure
    <3>1. QuietEnable(f)
      BY <1>1, <2>2, <2>3, <2>4 DEF QuietEnable, EnableMirror!Stays
    <3>2. QED
      BY <1>2, <2>1, <3>1, EnableTold
  <2>5. CASE f \notin unsure
    <3>1. EnableMirror!Lose(f)
      BY <1>1, <2>2, <2>3, <2>5 DEF EnableMirror!Lose
    <3>2. QED
      BY <1>2, <2>1, <3>1, EnableMoved
  <2>6. QED
    BY <2>4, <2>5
<1>5. QED
  BY <1>3, <1>4

LEMMA EnableOther == SwitchedInv /\ TypeOK' /\ [Next]_vars /\ ~EnableSteps => EnableMirror!Next
<1> SUFFICES ASSUME SwitchedInv, TypeOK', [Next]_vars, ~EnableSteps, NEW o \in Enableable
             PROVE  QuietEnable(o)
  BY EnableTold
<1>1. /\ UNCHANGED <<enabled, toldEnable, unsure>>
      /\ call' = call \/ (call.pc \in {"idle", "issued"} /\ call'.pc \in {"idle", "issued"})
  BY OtherSteps DEF SwitchedInv
<1>2. Switching(o)' <=> Switching(o)
  BY <1>1 DEF Switching
<1>3. QED
  BY <1>1, <1>2, EnableQuietIf

LEMMA InitEnableMirrors == Init => EnableMirror!Init
<1> SUFFICES ASSUME Init PROVE EnableMirror!Init
  OBVIOUS
<1>1. EnableMirror!TypeOK
  BY InitTypeOK, EnableTypeOK
<1>2. \A o \in Enableable : EnableStanding[o] = "missed"
  BY EnableStandingOf DEF Init
<1>3. QED
  BY <1>1, <1>2 DEF Init, EnableMirror!Init, EnableMirror!KnowsNothing

LEMMA NextEnableMirrors == SwitchedInv /\ TypeOK' /\ [Next]_vars => EnableMirror!Next
BY EnableReply, EnableInvoke, EnableReturn, EnableTimeout, EnableOther DEF EnableSteps

-----------------------------------------------------------------------------
\* DmSync implements DmMirror, for any objects and bounds, in the data that is
\* announced and in Enable: whatever the channels, the failures and the timeouts do,
\* the plugin sees what DmMirror allows (notif_handler(), call_function_common(),
\* namespace pon_ctrl).
THEOREM SyncImplementsMirror == Spec => ImplementsMirror
<1>1. Init => Inv /\ EnableInv
  BY InitTypeOK, InitCallInv, InitContentOrdered, InitMirrorInv, InitEnableInv DEF Inv
<1>2. Inv /\ EnableInv /\ [Next]_vars => (Inv /\ EnableInv)'
  BY NextTypeOK, NextCallInv, NextContentOrdered, NextMirrorInv, NextEnableInv DEF Inv
<1>3. Inv /\ EnableInv /\ Inv' /\ [Next]_vars
        => [Mirror!Next]_(Mirror!vars) /\ [EnableMirror!Next]_(EnableMirror!vars)
  BY NextMirrors, NextEnableMirrors DEF Inv, SwitchedInv
<1>4. QED
  BY <1>1, <1>2, <1>3, InitMirrors, InitEnableMirrors, PTL
  DEF Spec, ImplementsMirror, Mirror!Spec, EnableMirror!Spec

=============================================================================
