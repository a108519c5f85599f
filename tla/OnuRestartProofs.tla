-------------------------- MODULE OnuRestartProofs --------------------------
(***************************************************************************)
(* What is left of the guarantees of OnuDiscovery when agents restart, for *)
(* any size of the table.  A step is AgentDown or a step of OnuDiscovery;  *)
(* for the latter the lemmas of OnuDiscoveryProofs hold as they are.       *)
(***************************************************************************)
EXTENDS OnuRestart, OnuDiscoveryProofs

\* What of OnuDiscovery's invariants an agent that ends leaves intact.
Kept == /\ TypeOK /\ KeptContext /\ CleanedSoFar /\ NoListYet /\ ListedIsHeard
        /\ BegunUp /\ ListInOrder

\* AgentDown touches no variable of the module.
LEMMA DownFacts ==
    ASSUME TypeOK, AgentDown
    PROVE  \E i \in Index :
           /\ agents' = [agents EXCEPT ![i] = NULL]
           /\ upAtBegin' = upAtBegin \ {i}
           /\ \/ subs' = subs /\ deaf' = deaf
              \/ /\ subs' = [subs EXCEPT ![i] = 0]
                 /\ deaf' = IF subscribed[i] THEN deaf \cup {i} ELSE deaf
           /\ UNCHANGED <<pending, maxOnus, ctrlCtx, notifCtx, subscribed, indexes, refused, phase,
                          next, stuck, seen>>
BY DEF AgentDown, Up, moduleVars

LEMMA DownKept == Kept /\ AgentDown => Kept'
<1> SUFFICES ASSUME Kept, AgentDown PROVE Kept'
  OBVIOUS
<1>1. PICK i \in Index :
          /\ agents' = [agents EXCEPT ![i] = NULL]
          /\ upAtBegin' = upAtBegin \ {i}
          /\ subs' = subs \/ subs' = [subs EXCEPT ![i] = 0]
          /\ UNCHANGED <<pending, maxOnus, ctrlCtx, notifCtx, subscribed, indexes, refused, phase,
                         next, stuck>>
  BY DownFacts DEF Kept
<1>2. TypeOK'
  <2>1. agents' \in [Index -> Ctx \cup {NULL}]
    BY <1>1, ExceptType DEF Kept, TypeOK
  <2>2. subs' \in [Index -> Nat]
    <3>1. [subs EXCEPT ![i] = 0] \in [Index -> Nat]
      BY ExceptType DEF Kept, TypeOK
    <3>2. QED
      BY <1>1, <3>1 DEF Kept, TypeOK
  <2>3. QED
    BY <1>1, <2>1, <2>2 DEF Kept, TypeOK
<1>3. KeptContext' /\ CleanedSoFar' /\ NoListYet' /\ ListedIsHeard'
  BY <1>1 DEF Kept, KeptContext, ContextsAgree, CleanedSoFar, NoListYet, ListedIsHeard
<1>4. BegunUp'
  BY <1>1 DEF Kept, TypeOK, BegunUp, Up
<1>5. ListInOrder'
  BY <1>1 DEF Kept, ListInOrder
<1>6. QED
  BY <1>2, <1>3, <1>4, <1>5 DEF Kept

LEMMA NextKept == Kept /\ [RestartNext]_restartVars => Kept'
BY DownKept, NextTypeOK, NextKeptContext, NextCleanedSoFar, NextListedIsHeard, NextListInOrder
   DEF Kept, RestartNext, Otherwise, restartVars

LEMMA InitKept == Init => Kept
BY InitTypeOK DEF Init, Kept, KeptContext, ContextsAgree, CleanedSoFar, NoListYet, ListedIsHeard,
                  BegunUp, ListInOrder

LEMMA KeptInvariant == RestartSpec => []Kept
BY InitKept, NextKept, PTL DEF RestartSpec, RestartInit

-----------------------------------------------------------------------------
(* The flags *)

DeafFlagged == \A i \in deaf : i \in Index /\ subscribed[i]

LEMMA NextHeardUnlessDeaf ==
    Kept /\ HeardUnlessDeaf /\ DeafFlagged /\ [RestartNext]_restartVars
        => (HeardUnlessDeaf /\ DeafFlagged)'
<1> SUFFICES ASSUME Kept, HeardUnlessDeaf, DeafFlagged, [RestartNext]_restartVars
             PROVE  (HeardUnlessDeaf /\ DeafFlagged)'
  OBVIOUS
<1> USE DEF HeardUnlessDeaf, DeafFlagged
<1>1. TypeOK
  BY DEF Kept
<1>2. CASE AgentDown
  BY <1>1, <1>2, DownFacts DEF TypeOK
<1>3. CASE Otherwise
  <2>1. deaf' = {i \in deaf : subscribed'[i]}
    BY <1>3 DEF Otherwise
  <2>2. CASE UNCHANGED <<subs, subscribed>>
    BY <2>1, <2>2
  <2>3. CASE ProcessEnds
    BY <2>1, <2>3 DEF ProcessEnds
  <2>4. CASE ListStep
    <3>1. CASE agents[next] = NULL
      BY <2>2, <2>4, <3>1 DEF ListStep
    <3>2. CASE agents[next] # NULL
      <4>1. \/ UNCHANGED <<subs, subscribed>>
            \/ /\ next \in Index /\ ~subscribed[next]
               /\ subscribed' = [subscribed EXCEPT ![next] = TRUE]
               /\ subs' = [subs EXCEPT ![next] = @ + 1]
        BY <1>1, <2>4, <3>2, FoundFacts
      <4>2. CASE /\ next \in Index /\ ~subscribed[next]
                 /\ subscribed' = [subscribed EXCEPT ![next] = TRUE]
                 /\ subs' = [subs EXCEPT ![next] = @ + 1]
        BY <1>1, <2>1, <4>2 DEF TypeOK
      <4>3. QED
        BY <2>2, <4>1, <4>2
    <3>3. QED
      BY <3>1, <3>2
  <2>5. CASE StopStep
    <3>1. \/ UNCHANGED <<subs, subscribed>>
          \/ /\ next \in Index
             /\ subscribed' = [subscribed EXCEPT ![next] = FALSE]
             /\ subs' = [subs EXCEPT ![next] = 0]
      BY <1>1, <2>5 DEF StopStep, TypeOK, Index
    <3>2. CASE /\ next \in Index
               /\ subscribed' = [subscribed EXCEPT ![next] = FALSE]
               /\ subs' = [subs EXCEPT ![next] = 0]
      BY <1>1, <2>1, <3>2 DEF TypeOK
    <3>3. QED
      BY <2>2, <3>1, <3>2
  <2>6. AgentUp \/ AgentNotifies \/ Start \/ SetMaxNrOfOnus \/ ListBegin \/ ListEnd \/ Dispatch
          \/ StopBegin \/ StopEnd => UNCHANGED <<subs, subscribed>>
    BY DEF AgentUp, AgentNotifies, Start, SetMaxNrOfOnus, ListBegin, ListEnd, Dispatch, StopBegin,
           StopEnd, busVars, moduleVars
  <2>7. QED
    BY <1>3, <2>2, <2>3, <2>4, <2>5, <2>6 DEF Otherwise, Next
<1>4. CASE UNCHANGED restartVars
  BY <1>4 DEF restartVars, vars, busVars, moduleVars
<1>5. QED
  BY <1>2, <1>3, <1>4 DEF RestartNext

\* Restarts make the flags wrong about the agents that restarted, and about no
\* other: the table of notif.c against the bus.
THEOREM FlagsUnlessDeaf == RestartSpec => []HeardUnlessDeaf
<1>1. RestartInit => HeardUnlessDeaf /\ DeafFlagged
  BY DEF RestartInit, Init, HeardUnlessDeaf, DeafFlagged
<1>2. QED
  BY <1>1, KeptInvariant, NextHeardUnlessDeaf, PTL DEF RestartSpec

\* An ONU that was listed is heard, or its subscription failed in that call, or
\* its agent restarted: get_onu_indexes() cannot tell the last two from the first.
THEOREM ListedUnlessDeaf == RestartSpec => []ListedIsHeardUnlessDeaf
<1>1. Kept /\ HeardUnlessDeaf => ListedIsHeardUnlessDeaf
  <2>1. SUFFICES ASSUME Kept, HeardUnlessDeaf, phase \in {"listing", "ready"},
                        NEW k \in DOMAIN indexes
                 PROVE  subs[indexes[k]] = 1 \/ indexes[k] \in refused \cup deaf
    BY DEF ListedIsHeardUnlessDeaf
  <2>2. indexes[k] \in Index
    BY <2>1, ElementOfSeq, LenProperties DEF Kept, TypeOK
  <2>3. QED
    BY <2>1, <2>2 DEF Kept, ListedIsHeard, HeardUnlessDeaf
<1>2. QED
  BY <1>1, KeptInvariant, FlagsUnlessDeaf, PTL

\* The contexts of pon_ctrl.c and notif.c agree, also when agents come back on
\* another one.
THEOREM OneContextAfterRestarts == RestartSpec => []ContextsAgree
<1>1. Kept => ContextsAgree
  BY DEF Kept, KeptContext
<1>2. QED
  BY <1>1, KeptInvariant, PTL

\* The cleanup is complete, with agents that restart at any time.
THEOREM CleanupAfterRestarts == RestartSpec => []NoCallbackLeft
<1>1. Kept /\ HeardUnlessDeaf => NoCallbackLeft
  BY DEF Kept, CleanedSoFar, NoCallbackLeft, HeardUnlessDeaf, TypeOK
<1>2. QED
  BY <1>1, KeptInvariant, FlagsUnlessDeaf, PTL

-----------------------------------------------------------------------------
(* The list *)

ListedSeen == phase = "listing" => \A k \in DOMAIN indexes : indexes[k] \in seen

LEMMA NextListedSeen == TypeOK /\ ListedSeen /\ [RestartNext]_restartVars => ListedSeen'
<1> SUFFICES ASSUME TypeOK, ListedSeen, [RestartNext]_restartVars PROVE ListedSeen'
  OBVIOUS
<1> USE DEF ListedSeen
<1>1. CASE UNCHANGED <<phase, indexes>> /\ seen \subseteq seen'
  BY <1>1
<1>2. CASE AgentDown
  BY <1>1, <1>2, DownFacts
<1>3. CASE Otherwise
  <2>1. CASE ListBegin \/ ProcessEnds
    BY <2>1 DEF ListBegin, ProcessEnds
  <2>2. CASE phase # "ready" \/ phase' # "listing"
    <3>1. seen' = seen \cup Up'
      BY <1>3, <2>2 DEF Otherwise
    <3>2. CASE ListStep
      <4>1. CASE agents[next] = NULL
        BY <1>1, <3>1, <3>2, <4>1 DEF ListStep
      <4>2. CASE agents[next] # NULL
        <5>1. next \in Index /\ indexes' = Append(indexes, next) /\ indexes \in Seq(Index)
          BY <3>2, <4>2, FoundFacts DEF TypeOK
        <5>2. next \in Up' /\ phase = "listing"
          BY <3>2, <4>2, <5>1 DEF ListStep, Up
        <5>3. \A k \in DOMAIN indexes' :
                  indexes'[k] = next \/ (k \in DOMAIN indexes /\ indexes'[k] = indexes[k])
          <6>1. \A k \in 1..(Len(indexes) + 1) : k \in 1..Len(indexes) \/ k = Len(indexes) + 1
            BY <5>1, LenProperties
          <6>2. QED
            BY <5>1, <6>1, AppendFacts
        <5>4. QED
          BY <3>1, <5>1, <5>2, <5>3
      <4>3. QED
        BY <4>1, <4>2
    <3>3. CASE ListEnd \/ Start \/ StopBegin \/ StopStep \/ StopEnd
      BY <3>3 DEF ListEnd, Start, StopBegin, StopStep, StopEnd
    <3>4. AgentUp \/ AgentNotifies \/ SetMaxNrOfOnus \/ Dispatch => UNCHANGED <<phase, indexes>>
      BY DEF AgentUp, AgentNotifies, SetMaxNrOfOnus, Dispatch, listVars
    <3>5. QED
      BY <1>1, <1>3, <2>1, <3>1, <3>2, <3>3, <3>4 DEF Otherwise, Next
  <2>3. phase = "ready" /\ phase' = "listing" => ListBegin \/ ProcessEnds
    BY <1>3 DEF Otherwise, Next, AgentUp, AgentNotifies, Start, SetMaxNrOfOnus, ListStep, ListEnd,
                Dispatch, StopBegin, StopStep, StopEnd
  <2>4. QED
    BY <2>1, <2>2, <2>3
<1>4. CASE UNCHANGED restartVars
  BY <1>1, <1>4 DEF restartVars, vars, listVars
<1>5. QED
  BY <1>2, <1>3, <1>4 DEF RestartNext

\* The list of a board whose agents come and go: all that stayed up, in order,
\* and none that was never up.
THEOREM ListsAreSeen == RestartSpec => []ListSeen
<1>1. RestartInit => ListedSeen
  BY DEF RestartInit, Init, ListedSeen
<1>2. Kept => TypeOK /\ ListInOrder
  BY DEF Kept
<1>3. ListInOrder /\ ListedSeen => ListSeen
  BY DEF ListInOrder, ListedSeen, ListSeen
<1>4. QED
  BY <1>1, <1>2, <1>3, KeptInvariant, NextListedSeen, PTL DEF RestartSpec
=============================================================================
