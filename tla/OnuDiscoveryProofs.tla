------------------------- MODULE OnuDiscoveryProofs -------------------------
(***************************************************************************)
(* Proofs about OnuDiscovery, for any size of the table, any number of     *)
(* bus contexts and any bound on the notifications.                        *)
(***************************************************************************)
EXTENDS OnuDiscovery, SequenceTheorems, TLAPS

\* One turn of the loop that finds an agent, told apart by what comes of it.
LEMMA FoundFacts ==
    ASSUME TypeOK, ListStep, agents[next] # NULL
    PROVE  LET c == agents[next] IN
           /\ next \in Index
           /\ c \in Ctx
           /\ indexes' = Append(indexes, next)
           /\ ctrlCtx' = IF ctrlCtx = NULL THEN c ELSE ctrlCtx
           /\ \/ /\ subscribed[next]
                 /\ UNCHANGED <<notifCtx, subscribed, subs, refused>>
              \/ /\ ~subscribed[next]
                 /\ notifCtx # NULL /\ notifCtx # c
                 /\ refused' = refused \cup {next}
                 /\ UNCHANGED <<notifCtx, subscribed, subs>>
              \/ /\ ~subscribed[next]
                 /\ notifCtx \in {NULL, c}
                 /\ notifCtx' = c
                 /\ subscribed' = [subscribed EXCEPT ![next] = TRUE]
                 /\ subs' = [subs EXCEPT ![next] = @ + 1]
                 /\ UNCHANGED refused
              \/ /\ ~subscribed[next]
                 /\ notifCtx \in {NULL, c}
                 /\ notifCtx' = c
                 /\ refused' = refused \cup {next}
                 /\ UNCHANGED <<subscribed, subs>>
<1>1. next \in Index
  BY DiscoveryAssumption DEF TypeOK, ListStep, Index
<1>2. agents[next] \in Ctx
  BY <1>1 DEF TypeOK
<1>3. QED
  BY <1>1, <1>2 DEF ListStep, ListFound, NotifSubscribe

LEMMA ExceptType ==
    ASSUME NEW S, NEW T, NEW f \in [S -> T], NEW x, NEW y \in T
    PROVE  [f EXCEPT ![x] = y] \in [S -> T]
OBVIOUS

LEMMA AppendFacts ==
    ASSUME NEW S, NEW s \in Seq(S), NEW e \in S
    PROVE  /\ Append(s, e) \in Seq(S)
           /\ Len(s) \in Nat
           /\ DOMAIN s = 1..Len(s)
           /\ DOMAIN Append(s, e) = 1..(Len(s) + 1)
           /\ \A k \in 1..Len(s) : s[k] \in S
           /\ \A k \in 1..Len(s) : Append(s, e)[k] = s[k]
           /\ Append(s, e)[Len(s) + 1] = e
BY AppendProperties, LenProperties, ElementOfSeq

-----------------------------------------------------------------------------
(* Type correctness *)

LEMMA InitTypeOK == Init => TypeOK
BY DiscoveryAssumption DEF Init, TypeOK, Index

LEMMA NextTypeOK == TypeOK /\ [Next]_vars => TypeOK'
<1> SUFFICES ASSUME TypeOK, [Next]_vars PROVE TypeOK'
  OBVIOUS
<1> USE DiscoveryAssumption
<1>1. CASE AgentUp
  BY <1>1 DEF AgentUp, TypeOK, moduleVars, listVars
<1>2. CASE AgentNotifies
  <2>1. pending' \in [Index -> Nat]
    BY <1>2 DEF AgentNotifies, TypeOK
  <2>2. QED
    BY <1>2, <2>1 DEF AgentNotifies, TypeOK, moduleVars, listVars
<1>3. CASE Start
  BY <1>3 DEF Start, TypeOK, busVars, moduleVars, listVars
<1>4. CASE ProcessEnds
  BY <1>4 DEF ProcessEnds, TypeOK, Index
<1>5. CASE SetMaxNrOfOnus
  <2>1. maxOnus' \in Index
    BY <1>5 DEF SetMaxNrOfOnus, TypeOK, Index
  <2>2. QED
    BY <1>5, <2>1 DEF SetMaxNrOfOnus, TypeOK, busVars, listVars
<1>6. CASE ListBegin
  BY <1>6 DEF ListBegin, TypeOK, busVars, moduleVars, Up
<1>7. CASE ListStep
  <2>1. next' \in 1..(MAX_NR_OF_ONUS + 1)
    BY <1>7 DEF ListStep, TypeOK, Index
  <2>2. /\ UNCHANGED <<agents, pending, maxOnus, upAtBegin, phase, stuck>>
    BY <1>7 DEF ListStep
  <2>3. CASE agents[next] # NULL
    <3>1. next \in Index /\ indexes' = Append(indexes, next)
      BY <1>7, <2>3, FoundFacts
    <3>2. indexes' \in Seq(Index)
      BY <3>1, AppendFacts DEF TypeOK
    <3>3. subscribed' \in [Index -> BOOLEAN]
      <4>1. subscribed' = subscribed \/ subscribed' = [subscribed EXCEPT ![next] = TRUE]
        BY <1>7, <2>3, FoundFacts
      <4>2. subscribed \in [Index -> BOOLEAN]
        BY DEF TypeOK
      <4>3. [subscribed EXCEPT ![next] = TRUE] \in [Index -> BOOLEAN]
        BY <4>2, ExceptType
      <4>4. QED
        BY <4>1, <4>2, <4>3
    <3>4. subs' \in [Index -> Nat]
      <4>1. subs' = subs \/ subs' = [subs EXCEPT ![next] = subs[next] + 1]
        BY <1>7, <2>3, FoundFacts
      <4>2. subs \in [Index -> Nat] /\ subs[next] + 1 \in Nat
        BY <3>1 DEF TypeOK
      <4>3. [subs EXCEPT ![next] = subs[next] + 1] \in [Index -> Nat]
        BY <4>2, ExceptType
      <4>4. QED
        BY <4>1, <4>2, <4>3
    <3>5. refused' \subseteq Index
      BY <1>7, <2>3, FoundFacts DEF TypeOK
    <3>6. notifCtx' \in Ctx \cup {NULL} /\ ctrlCtx' \in Ctx \cup {NULL}
      BY <1>7, <2>3, FoundFacts DEF TypeOK
    <3>7. QED
      BY <2>1, <2>2, <3>2, <3>3, <3>4, <3>5, <3>6 DEF TypeOK
  <2>4. CASE agents[next] = NULL
    BY <1>7, <2>1, <2>4 DEF ListStep, TypeOK
  <2>5. QED
    BY <2>3, <2>4
<1>8. CASE ListEnd
  BY <1>8 DEF ListEnd, TypeOK, busVars, moduleVars, listVars
<1>9. CASE Dispatch
  <2>1. pending' \in [Index -> Nat]
    BY <1>9 DEF Dispatch, TypeOK
  <2>2. QED
    BY <1>9, <2>1 DEF Dispatch, TypeOK, moduleVars, listVars
<1>10. CASE StopBegin
  BY <1>10 DEF StopBegin, TypeOK, busVars, moduleVars, listVars
<1>11. CASE StopStep
  <2>1. next \in Index /\ next' \in 1..(MAX_NR_OF_ONUS + 1)
    BY <1>11 DEF StopStep, TypeOK, Index
  <2>3. subs' \in [Index -> Nat]
    <3>1. subs' = subs \/ subs' = [subs EXCEPT ![next] = 0]
      BY <1>11 DEF StopStep
    <3>2. [subs EXCEPT ![next] = 0] \in [Index -> Nat]
      BY ExceptType DEF TypeOK
    <3>3. QED
      BY <3>1, <3>2 DEF TypeOK
  <2>4. subscribed' \in [Index -> BOOLEAN]
    <3>1. subscribed' = subscribed \/ subscribed' = [subscribed EXCEPT ![next] = FALSE]
      BY <1>11 DEF StopStep
    <3>2. subscribed \in [Index -> BOOLEAN]
      BY DEF TypeOK
    <3>3. [subscribed EXCEPT ![next] = FALSE] \in [Index -> BOOLEAN]
      BY <3>2, ExceptType
    <3>4. QED
      BY <3>1, <3>2, <3>3
  <2>5. pending' \in [Index -> Nat] /\ stuck' \subseteq Index
    <3>1. pending' = pending \/ pending' = [pending EXCEPT ![next] = 0]
      BY <1>11 DEF StopStep
    <3>2. stuck' = stuck \/ stuck' = stuck \cup {next}
      BY <1>11 DEF StopStep
    <3>3. [pending EXCEPT ![next] = 0] \in [Index -> Nat]
      BY ExceptType DEF TypeOK
    <3>4. QED
      BY <2>1, <3>1, <3>2, <3>3 DEF TypeOK
  <2>6. UNCHANGED <<agents, maxOnus, ctrlCtx, notifCtx, indexes, upAtBegin, refused, phase>>
    BY <1>11 DEF StopStep, listVars
  <2>7. QED
    BY <2>1, <2>3, <2>4, <2>5, <2>6 DEF TypeOK
<1>12. CASE StopEnd
  BY <1>12 DEF StopEnd, TypeOK, busVars, moduleVars, listVars
<1>13. CASE UNCHANGED vars
  BY <1>13 DEF vars, busVars, moduleVars, listVars, TypeOK
<1>14. QED
  BY <1>1, <1>2, <1>3, <1>4, <1>5, <1>6, <1>7, <1>8, <1>9, <1>10, <1>11, <1>12, <1>13 DEF Next

\* Every variable keeps its type, whatever the module and the bus do.
THEOREM TypeCorrect == Spec => []TypeOK
BY InitTypeOK, NextTypeOK, PTL DEF Spec

-----------------------------------------------------------------------------
(* Contexts, flags and the bus *)

\* The part of ContextInv that also holds when agents restart.
KeptContext == ContextsAgree /\ \A i \in Index : subscribed[i] => notifCtx # NULL

LEMMA NextKeptContext == TypeOK /\ KeptContext /\ [Next]_vars => KeptContext'
<1> SUFFICES ASSUME TypeOK, KeptContext, [Next]_vars PROVE KeptContext'
  OBVIOUS
<1> USE DEF KeptContext, ContextsAgree
<1>1. CASE UNCHANGED <<subscribed, ctrlCtx, notifCtx>>
  BY <1>1
<1>2. CASE ProcessEnds
  BY <1>2 DEF ProcessEnds
<1>3. CASE ListStep
  <2>1. CASE agents[next] = NULL
    BY <1>1, <1>3, <2>1 DEF ListStep
  <2>2. CASE agents[next] # NULL
    BY <1>3, <2>2, FoundFacts, DiscoveryAssumption DEF TypeOK
  <2>3. QED
    BY <2>1, <2>2
<1>4. CASE StopStep
  BY <1>4 DEF StopStep, TypeOK
<1>5. AgentUp \/ AgentNotifies \/ Start \/ SetMaxNrOfOnus \/ ListBegin \/ ListEnd \/ Dispatch
        \/ StopBegin \/ StopEnd => UNCHANGED <<subscribed, ctrlCtx, notifCtx>>
  BY DEF AgentUp, AgentNotifies, Start, SetMaxNrOfOnus, ListBegin, ListEnd, Dispatch, StopBegin,
         StopEnd, moduleVars
<1>6. QED
  BY <1>1, <1>2, <1>3, <1>4, <1>5 DEF Next, vars, moduleVars

ContextInv == ContextsAgree /\ SubscribedOnce /\ HeardOnKeptContext

LEMMA InitContextInv == Init => ContextInv
BY DEF Init, ContextInv, ContextsAgree, SubscribedOnce, HeardOnKeptContext

LEMMA NextContextInv == TypeOK /\ ContextInv /\ [Next]_vars => ContextInv'
<1> SUFFICES ASSUME TypeOK, ContextInv, [Next]_vars PROVE ContextInv'
  OBVIOUS
<1> USE DiscoveryAssumption
<1> USE DEF ContextInv, ContextsAgree, SubscribedOnce, HeardOnKeptContext
<1>1. CASE UNCHANGED <<agents, subs, subscribed, ctrlCtx, notifCtx>>
  BY <1>1
<1>2. CASE AgentUp
  BY <1>2 DEF AgentUp, moduleVars, TypeOK
<1>3. CASE ProcessEnds
  BY <1>3 DEF ProcessEnds
<1>4. CASE ListStep
  <2>1. CASE agents[next] = NULL
    BY <1>1, <1>4, <2>1 DEF ListStep
  <2>2. CASE agents[next] # NULL
    <3>1. agents' = agents
      BY <1>4 DEF ListStep
    <3>2. ContextsAgree'
      BY <1>4, <2>2, FoundFacts
    <3>3. SubscribedOnce'
      BY <1>4, <2>2, FoundFacts DEF TypeOK
    <3>4. HeardOnKeptContext'
      BY <1>4, <2>2, <3>1, FoundFacts DEF TypeOK
    <3>5. QED
      BY <3>2, <3>3, <3>4
  <2>3. QED
    BY <2>1, <2>2
<1>5. CASE StopStep
  <2>1. next \in Index
    BY <1>5 DEF StopStep, TypeOK, Index
  <2>2. UNCHANGED <<agents, ctrlCtx, notifCtx>>
    BY <1>5 DEF StopStep
  <2>3. CASE UNCHANGED <<subscribed, subs>>
    BY <1>1, <2>2, <2>3
  <2>4. CASE /\ subscribed[next]
             /\ subscribed' = [subscribed EXCEPT ![next] = FALSE]
             /\ subs' = [subs EXCEPT ![next] = 0]
    <3>1. SubscribedOnce'
      BY <2>1, <2>4 DEF TypeOK
    <3>2. HeardOnKeptContext'
      BY <2>1, <2>2, <2>4 DEF TypeOK
    <3>3. QED
      BY <2>2, <3>1, <3>2
  <2>5. QED
    BY <1>5, <2>3, <2>4 DEF StopStep
<1>6. AgentNotifies \/ Start \/ SetMaxNrOfOnus \/ ListBegin \/ ListEnd \/ Dispatch
        \/ StopBegin \/ StopEnd => UNCHANGED <<agents, subs, subscribed, ctrlCtx, notifCtx>>
  BY DEF AgentNotifies, Start, SetMaxNrOfOnus, ListBegin, ListEnd, Dispatch, StopBegin, StopEnd,
         busVars, moduleVars
<1>7. QED
  BY <1>1, <1>2, <1>3, <1>4, <1>5, <1>6 DEF Next, vars, busVars, moduleVars

LEMMA ContextInvariant == Spec => [](TypeOK /\ ContextInv)
<1>1. TypeOK /\ ContextInv /\ [Next]_vars => (TypeOK /\ ContextInv)'
  BY NextTypeOK, NextContextInv DEF ContextInv
<1>2. QED
  BY <1>1, InitTypeOK, InitContextInv, PTL DEF Spec

\* The bus contexts of pon_ctrl.c and notif.c never differ, on any number of
\* connections, with subscriptions failing anywhere.
THEOREM OneBusContext == Spec => []ContextsAgree
BY ContextInvariant, PTL DEF ContextInv

\* The table of flags and the bus agree: no ONU is subscribed on twice.
THEOREM FlagsMirrorBus == Spec => []SubscribedOnce
BY ContextInvariant, PTL DEF ContextInv

\* Every subscription can be undone on the context that is kept.
THEOREM SubscriptionsOnKeptContext == Spec => []HeardOnKeptContext
BY ContextInvariant, PTL DEF ContextInv

-----------------------------------------------------------------------------
(* Stopping *)

LEMMA NextCleanedSoFar ==
    TypeOK /\ KeptContext /\ CleanedSoFar /\ [Next]_vars => CleanedSoFar'
<1> SUFFICES ASSUME TypeOK, KeptContext, CleanedSoFar, [Next]_vars PROVE CleanedSoFar'
  OBVIOUS
<1> USE DEF CleanedSoFar
<1>1. CASE UNCHANGED <<phase, next, subscribed, stuck>>
  BY <1>1
<1>2. CASE Start \/ ProcessEnds \/ ListBegin \/ ListEnd \/ SetMaxNrOfOnus
  BY <1>2 DEF Start, ProcessEnds, ListBegin, ListEnd, SetMaxNrOfOnus
<1>3. CASE ListStep
  BY <1>3 DEF ListStep
<1>4. CASE StopBegin
  <2>1. notifCtx = NULL => \A i \in Index : ~subscribed[i]
    BY DEF KeptContext
  <2>2. /\ UNCHANGED <<subscribed, stuck>>
        /\ next' = 1
        /\ phase' = IF notifCtx # NULL THEN "stopping" ELSE "unloaded"
    BY <1>4 DEF StopBegin, moduleVars
  <2>3. \A i \in Index : ~(i < next')
    BY <2>2 DEF Index
  <2>4. QED
    BY <2>1, <2>2, <2>3
<1>5. CASE StopStep
  <2>1. next \in Index /\ next' = next + 1 /\ phase' = "stopping" /\ phase = "stopping"
    BY <1>5, DiscoveryAssumption DEF StopStep, TypeOK, Index
  <2>2. SUFFICES ASSUME NEW i \in Index, i < next + 1, subscribed'[i] PROVE i \in stuck'
    BY <2>1
  <2>3. CASE i = next
    BY <1>5, <2>1, <2>2, <2>3 DEF StopStep, TypeOK
  <2>4. CASE i < next
    BY <1>5, <2>1, <2>2, <2>4 DEF StopStep, TypeOK
  <2>5. QED
    BY <2>1, <2>2, <2>3, <2>4 DEF Index
<1>6. CASE StopEnd
  <2>1. \A i \in Index : i < next
    BY <1>6, DiscoveryAssumption DEF StopEnd, Index, TypeOK
  <2>2. QED
    BY <1>6, <2>1 DEF StopEnd, moduleVars
<1>7. AgentUp \/ AgentNotifies \/ Dispatch => UNCHANGED <<phase, next, subscribed, stuck>>
  BY DEF AgentUp, AgentNotifies, Dispatch, moduleVars
<1>8. QED
  BY <1>1, <1>2, <1>3, <1>4, <1>5, <1>6, <1>7 DEF Next, vars, moduleVars

\* After the destructor, only a failed amxb_unsubscribe() leaves a callback.
THEOREM CleanupComplete == Spec => []NoCallbackLeft
<1>1. Init => CleanedSoFar
  BY DEF Init, CleanedSoFar
<1>2. TypeOK /\ ContextInv /\ CleanedSoFar => NoCallbackLeft
  BY DEF CleanedSoFar, NoCallbackLeft, ContextInv, SubscribedOnce, TypeOK
<1>3. ContextInv => KeptContext
  BY DEF ContextInv, KeptContext, HeardOnKeptContext
<1>4. QED
  BY <1>1, <1>2, <1>3, ContextInvariant, NextCleanedSoFar, PTL DEF Spec

-----------------------------------------------------------------------------
(* The list *)

\* Before its first event loop the module has made no list.
NoListYet == phase \in {"none", "mute"} => indexes = <<>>

LEMMA NextListedIsHeard ==
    TypeOK /\ NoListYet /\ ListedIsHeard /\ [Next]_vars => (NoListYet /\ ListedIsHeard)'
<1> SUFFICES ASSUME TypeOK, NoListYet, ListedIsHeard, [Next]_vars
             PROVE  (NoListYet /\ ListedIsHeard)'
  OBVIOUS
<1> USE DEF ListedIsHeard, NoListYet
<1>1. CASE UNCHANGED <<phase, indexes, subscribed, refused>>
  BY <1>1
<1>2. CASE ProcessEnds \/ ListBegin
  <2>1. indexes' = <<>>
    BY <1>2 DEF ProcessEnds, ListBegin
  <2>2. QED
    BY <2>1
<1>3. CASE ListStep
  <2>1. CASE agents[next] = NULL
    BY <1>1, <1>3, <2>1 DEF ListStep
  <2>2. CASE agents[next] # NULL
    <3>1. /\ next \in Index
          /\ indexes' = Append(indexes, next)
          /\ indexes \in Seq(Index)
      BY <1>3, <2>2, FoundFacts DEF TypeOK
    <3>2. /\ DOMAIN indexes' = 1..(Len(indexes) + 1)
          /\ DOMAIN indexes = 1..Len(indexes)
          /\ Len(indexes) \in Nat
          /\ \A k \in 1..Len(indexes) : indexes[k] \in Index
          /\ \A k \in 1..Len(indexes) : indexes'[k] = indexes[k]
          /\ indexes'[Len(indexes) + 1] = next
      BY <3>1, AppendFacts
    <3>3. \A i \in Index : (subscribed[i] \/ i \in refused) => (subscribed'[i] \/ i \in refused')
      BY <1>3, <2>2, FoundFacts DEF TypeOK
    <3>4. subscribed'[next] \/ next \in refused'
      BY <1>3, <2>2, FoundFacts DEF TypeOK
    <3>5. phase = "listing" /\ phase' = "listing"
      BY <1>3 DEF ListStep
    <3>6. \A k \in 1..(Len(indexes) + 1) : k \in 1..Len(indexes) \/ k = Len(indexes) + 1
      BY <3>2
    <3>7. QED
      BY <3>2, <3>3, <3>4, <3>5, <3>6
  <2>3. QED
    BY <2>1, <2>2
<1>4. CASE ListEnd
  BY <1>4 DEF ListEnd, moduleVars, listVars
<1>5. CASE Start
  BY <1>5 DEF Start, moduleVars, listVars
<1>6. CASE StopBegin \/ StopStep \/ StopEnd
  BY <1>6 DEF StopBegin, StopStep, StopEnd
<1>7. AgentUp \/ AgentNotifies \/ SetMaxNrOfOnus \/ Dispatch
        => UNCHANGED <<phase, indexes, subscribed, refused>>
  BY DEF AgentUp, AgentNotifies, SetMaxNrOfOnus, Dispatch, moduleVars, listVars
<1>8. QED
  BY <1>1, <1>2, <1>3, <1>4, <1>5, <1>6, <1>7 DEF Next, vars, moduleVars, listVars

\* Whatever order agents come up in and subscriptions fail in, an ONU that was
\* listed is heard, or else its subscription failed.
THEOREM ListedOnusAreHeard == Spec => []ListedIsHeard
<1>1. Init => NoListYet /\ ListedIsHeard
  BY DEF Init, NoListYet, ListedIsHeard
<1>2. QED
  BY <1>1, TypeCorrect, NextListedIsHeard, PTL DEF Spec

\* Agents do not go down, so those of the beginning are still up.
BegunUp == phase = "listing" => upAtBegin \subseteq Up

\* ListExact without that what is listed is up, which ends when agents do.
ListInOrder ==
    phase = "listing" =>
        /\ \A i \in upAtBegin : i < next => \E k \in DOMAIN indexes : indexes[k] = i
        /\ \A k \in DOMAIN indexes : indexes[k] < next
        /\ \A k, l \in DOMAIN indexes : k < l => indexes[k] < indexes[l]

ListedUp == phase = "listing" => \A k \in DOMAIN indexes : indexes[k] \in Up

LEMMA NextListInOrder ==
    TypeOK /\ BegunUp /\ ListInOrder /\ [Next]_vars => (BegunUp /\ ListInOrder)'
<1> SUFFICES ASSUME TypeOK, BegunUp, ListInOrder, [Next]_vars PROVE (BegunUp /\ ListInOrder)'
  OBVIOUS
<1> USE DEF BegunUp
<1>1. CASE UNCHANGED <<phase, agents, next, indexes, upAtBegin>>
  BY <1>1 DEF ListInOrder, Up
<1>2. CASE AgentUp
  <2>1. Up \subseteq Up'
    BY <1>2 DEF AgentUp, Up, TypeOK
  <2>2. UNCHANGED <<phase, next, indexes, upAtBegin>>
    BY <1>2 DEF AgentUp, listVars
  <2>3. QED
    BY <2>1, <2>2 DEF ListInOrder
<1>3. CASE ListBegin
  <2>1. indexes' = <<>> /\ upAtBegin' = Up /\ next' = 1 /\ agents' = agents
    BY <1>3 DEF ListBegin, busVars
  <2>2. Up' = Up /\ \A i \in Up : ~(i < 1)
    BY <2>1 DEF Up, Index
  <2>3. QED
    BY <2>1, <2>2 DEF ListInOrder
<1>4. CASE ListStep
  <2>1. /\ phase = "listing" /\ next \in Index /\ next' = next + 1
        /\ UNCHANGED <<agents, upAtBegin>>
    BY <1>4, DiscoveryAssumption DEF ListStep, TypeOK, Index
  <2>2. Up' = Up
    BY <2>1 DEF Up
  <2>3. \A i \in Index : i < next + 1 <=> i < next \/ i = next
    BY <2>1 DEF Index
  <2>4. upAtBegin \subseteq Index /\ upAtBegin \subseteq Up
    BY <2>1 DEF TypeOK
  <2>5. CASE agents[next] = NULL
    <3>1. indexes' = indexes
      BY <1>4, <2>5 DEF ListStep
    <3>2. next \notin Up
      BY <2>5 DEF Up
    <3>3. \A i \in upAtBegin : i < next' => i < next
      BY <2>1, <2>3, <2>4, <3>2
    <3>4. \A k \in DOMAIN indexes : indexes[k] < next => indexes[k] < next'
      <4>1. \A k \in DOMAIN indexes : indexes[k] \in Index
        BY ElementOfSeq, LenProperties DEF TypeOK
      <4>2. QED
        BY <2>1, <2>3, <4>1
    <3>5. QED
      BY <2>1, <2>2, <2>4, <3>1, <3>3, <3>4 DEF ListInOrder
  <2>6. CASE agents[next] # NULL
    <3>1. indexes' = Append(indexes, next) /\ indexes \in Seq(Index)
      BY <1>4, <2>6, FoundFacts DEF TypeOK
    <3>2. /\ DOMAIN indexes' = 1..(Len(indexes) + 1)
          /\ DOMAIN indexes = 1..Len(indexes)
          /\ Len(indexes) \in Nat
          /\ \A k \in 1..Len(indexes) : indexes[k] \in Index
          /\ \A k \in 1..Len(indexes) : indexes'[k] = indexes[k]
          /\ indexes'[Len(indexes) + 1] = next
      BY <2>1, <3>1, AppendFacts
    <3>3. next \in Up
      BY <2>1, <2>6 DEF Up
    <3>4. \A k \in 1..(Len(indexes) + 1) : k \in 1..Len(indexes) \/ k = Len(indexes) + 1
      BY <3>2
    <3>5. \A i \in upAtBegin : i < next' => \E k \in DOMAIN indexes' : indexes'[k] = i
      <4>1. SUFFICES ASSUME NEW i \in upAtBegin, i < next + 1
                     PROVE  \E k \in DOMAIN indexes' : indexes'[k] = i
        BY <2>1
      <4>2. CASE i = next
        BY <3>2, <4>2
      <4>3. CASE i < next
        BY <2>1, <3>2, <4>3 DEF ListInOrder
      <4>4. QED
        BY <2>3, <2>4, <4>1, <4>2, <4>3
    <3>6. \A k \in DOMAIN indexes' : indexes'[k] < next'
      BY <2>1, <2>2, <2>3, <3>2, <3>3, <3>4 DEF ListInOrder
    <3>7. \A k, l \in DOMAIN indexes' : k < l => indexes'[k] < indexes'[l]
      BY <2>1, <3>2, <3>4 DEF ListInOrder
    <3>8. QED
      BY <2>1, <2>2, <2>4, <3>5, <3>6, <3>7 DEF ListInOrder
  <2>7. QED
    BY <2>5, <2>6
<1>5. CASE Start \/ ProcessEnds \/ ListEnd \/ StopBegin \/ StopStep \/ StopEnd
  BY <1>5 DEF Start, ProcessEnds, ListEnd, StopBegin, StopStep, StopEnd, ListInOrder
<1>6. AgentNotifies \/ SetMaxNrOfOnus \/ Dispatch
        => UNCHANGED <<phase, agents, next, indexes, upAtBegin>>
  BY DEF AgentNotifies, SetMaxNrOfOnus, Dispatch, busVars, listVars
<1>7. QED
  BY <1>1, <1>2, <1>3, <1>4, <1>5, <1>6 DEF Next, vars, busVars, listVars

LEMMA NextListedUp == TypeOK /\ ListedUp /\ [Next]_vars => ListedUp'
<1> SUFFICES ASSUME TypeOK, ListedUp, [Next]_vars PROVE ListedUp'
  OBVIOUS
<1> USE DEF ListedUp
<1>1. CASE UNCHANGED <<phase, agents, indexes>>
  BY <1>1 DEF Up
<1>2. CASE AgentUp
  <2>1. Up \subseteq Up'
    BY <1>2 DEF AgentUp, Up, TypeOK
  <2>2. QED
    BY <1>2, <2>1 DEF AgentUp, listVars
<1>3. CASE ListBegin
  BY <1>3 DEF ListBegin
<1>4. CASE ListStep
  <2>1. phase = "listing" /\ agents' = agents /\ Up' = Up
    BY <1>4 DEF ListStep, Up
  <2>2. CASE agents[next] = NULL
    BY <1>1, <1>4, <2>1, <2>2 DEF ListStep
  <2>3. CASE agents[next] # NULL
    <3>1. next \in Up /\ indexes' = Append(indexes, next) /\ indexes \in Seq(Index)
      BY <1>4, <2>3, FoundFacts DEF TypeOK, Up
    <3>2. \A k \in DOMAIN indexes' : indexes'[k] = next \/ (k \in DOMAIN indexes /\ indexes'[k] = indexes[k])
      <4>1. next \in Index
        BY <3>1 DEF Up
      <4>2. \A k \in 1..(Len(indexes) + 1) : k \in 1..Len(indexes) \/ k = Len(indexes) + 1
        BY <3>1, LenProperties
      <4>3. QED
        BY <3>1, <4>1, <4>2, AppendFacts
    <3>3. QED
      BY <2>1, <3>1, <3>2
  <2>4. QED
    BY <2>2, <2>3
<1>5. CASE Start \/ ProcessEnds \/ ListEnd \/ StopBegin \/ StopStep \/ StopEnd
  BY <1>5 DEF Start, ProcessEnds, ListEnd, StopBegin, StopStep, StopEnd
<1>6. AgentNotifies \/ SetMaxNrOfOnus \/ Dispatch => UNCHANGED <<phase, agents, indexes>>
  BY DEF AgentNotifies, SetMaxNrOfOnus, Dispatch, busVars, listVars
<1>7. QED
  BY <1>1, <1>2, <1>3, <1>4, <1>5, <1>6 DEF Next, vars, busVars, listVars

\* get_onu_indexes() lists exactly the agents it passed, each once, in order.
THEOREM ListsAreExact == Spec => []ListExact
<1>1. Init => BegunUp /\ ListInOrder /\ ListedUp
  BY DEF Init, BegunUp, ListInOrder, ListedUp
<1>2. ListInOrder /\ ListedUp => ListExact
  BY DEF ListInOrder, ListedUp, ListExact
<1>3. QED
  BY <1>1, <1>2, TypeCorrect, NextListInOrder, NextListedUp, PTL DEF Spec

=============================================================================
