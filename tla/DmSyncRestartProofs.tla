------------------------ MODULE DmSyncRestartProofs ------------------------
(***************************************************************************)
(* The properties of DmSync hold through ends of the plugin's process: the *)
(* invariants of DmSyncProofs are kept by ProcessEnds as well.             *)
(***************************************************************************)
EXTENDS DmSyncRestart, DmSyncRefines

\* What an agent has still to announce is so, also about an object of which the
\* old process missed something.
UnsentFits == \A n \in unsent : About(n, n.obj) => Fits(n, n.obj)

ProcessInv == TypeOK /\ CallInv /\ ContentOrdered /\ SwitchInv /\ MirrorInv /\ EnableInv
             /\ UnsentFits

LEMMA InitProcessInv == Init => ProcessInv
<1>1. Init => UnsentFits
  BY DEF Init, HalInit, UnsentFits
<1>2. QED
  BY <1>1, InitTypeOK, InitCallInv, InitContentOrdered, InitSwitchInv, InitMirrorInv,
     InitEnableInv DEF ProcessInv

LEMMA NextUnsentFits == TypeOK /\ UnsentFits /\ [Next]_vars => UnsentFits'
<1> SUFFICES ASSUME TypeOK, UnsentFits, [Next]_vars PROVE UnsentFits'
  OBVIOUS
<1> USE DEF UnsentFits, About, Fits
<1>1. CASE unsent' = {}
  BY <1>1
<1>2. CASE UNCHANGED <<unsent, registered>>
  BY <1>2
<1>3. CASE AgentEdits
  <2>1. Changing \subseteq registered
    BY HalAssumption DEF TypeOK, HalTypeOK
  <2>2. QED
    BY <1>3, <2>1, EditFacts
<1>4. SendNotif \/ LoseNotif => unsent' = {}
  BY DEF SendNotif, LoseNotif, NotifyReturns
<1>5. Reply \/ DiscoverOnu \/ GetObjectContent \/ SetEnable \/ HandleAdded \/ HandleChanged
        \/ HandleRemoved \/ HandleReset \/ Invoke \/ InvokeFails \/ Return \/ Timeout
          => UNCHANGED <<unsent, registered>>
  BY DEF Reply, MethodCb, DiscoverOnu, GetObjectContent, SetEnable, HandleAdded, HandleChanged,
         HandleRemoved, HandleReset, Invoke, DeferRequest, InvokeFails, Return, Timeout, halVars
<1>6. QED
  BY <1>1, <1>2, <1>3, <1>4, <1>5 DEF Next, vars, halVars

\* What the end of a process leaves in the agent.
LEMMA EndFacts ==
    ASSUME TypeOK, ProcessEnds
    PROVE  /\ requests' \in Seq(Request)
           /\ Len(requests') = Len(requests)
           /\ Len(requests) \in Nat
           /\ \A i \in 1..Len(requests) : /\ requests'[i].obj = requests[i].obj
                                          /\ requests'[i].method = requests[i].method
                                          /\ requests'[i].live = FALSE
<1> DEFINE silenced == [i \in DOMAIN requests |-> [requests[i] EXCEPT !.live = FALSE]]
<1>1. requests \in Seq(Request) /\ Len(requests) \in Nat
  BY LenProperties DEF TypeOK, HalTypeOK
<1>2. requests' = silenced
  BY DEF ProcessEnds
<1> HIDE DEF silenced
<1>3. /\ silenced \in Seq(Request)
      /\ Len(silenced) = Len(requests)
      /\ \A i \in 1..Len(requests) : /\ silenced[i].obj = requests[i].obj
                                     /\ silenced[i].method = requests[i].method
                                     /\ silenced[i].live = FALSE
  BY <1>1, GiveUpFacts DEF silenced
<1>4. QED
  BY <1>1, <1>2, <1>3

LEMMA EndTypeOK == TypeOK /\ ProcessEnds => TypeOK'
<1> SUFFICES ASSUME TypeOK, ProcessEnds PROVE TypeOK'
  OBVIOUS
<1>1. HalTypeOK'
  BY EndFacts DEF ProcessEnds, TypeOK, HalTypeOK
<1>2. NoCall \in CallState
  BY HalAssumption DEF NoCall, CallState, Object, Value
<1>3. Enableable \subseteq Object
  BY HalAssumption DEF Object
<1>4. QED
  BY <1>1, <1>2, <1>3 DEF ProcessEnds, TypeOK, HalTypeOK, Value

\* The requests of the old process are answered to nobody.
LEMMA EndCallInv == TypeOK /\ ProcessEnds => CallInv'
BY EndFacts DEF ProcessEnds, NoCall, CallInv, OnlyLastLive, AnsweredLast

LEMMA EndContentOrdered == ProcessEnds => ContentOrdered'
BY DEF ProcessEnds, NoCall, ContentOrdered

\* But they are still executed, and "sent" goes on to include them.
LEMMA EndSwitchInv == TypeOK /\ SwitchInv /\ ProcessEnds => SwitchInv'
<1> SUFFICES ASSUME TypeOK, SwitchInv, ProcessEnds PROVE SwitchInv'
  OBVIOUS
<1>1. SwitchesEnableable'
  BY EndFacts DEF ProcessEnds, NoCall, SwitchInv, SwitchesEnableable
<1>2. \A o \in Enableable : enabled'[o] = enabled[o] /\ sent'[o] = sent[o]
  BY DEF ProcessEnds
<1>3. \A i \in 1..Len(requests), o \in Enableable : Switches(i, o)' <=> Switches(i, o)
  BY EndFacts DEF Switches
<1>4. ASSUME NEW o \in Enableable
      PROVE  /\ (\A i \in 1..Len(requests') : ~Switches(i, o)') => enabled'[o] = sent'[o]
             /\ \A i \in 1..Len(requests') :
                    /\ Switches(i, o)'
                    /\ \A j \in 1..Len(requests') : i < j => ~Switches(j, o)'
                    => (requests'[i].method = "enable" <=> sent'[o])
  <2>1. (\A i \in 1..Len(requests') : ~Switches(i, o)') => enabled'[o] = sent'[o]
    BY <1>2, <1>3, EndFacts DEF SwitchInv, LastSwitchIsSent
  <2>2. ASSUME NEW i \in 1..Len(requests'), Switches(i, o)',
               \A j \in 1..Len(requests') : i < j => ~Switches(j, o)'
        PROVE  requests'[i].method = "enable" <=> sent'[o]
    <3>1. i \in 1..Len(requests) /\ Switches(i, o)
      BY <1>3, <2>2, EndFacts
    <3>2. \A j \in 1..Len(requests) : i < j => ~Switches(j, o)
      BY <1>3, <2>2, EndFacts
    <3>3. requests[i].method = "enable" <=> sent[o]
      BY <3>1, <3>2 DEF SwitchInv, LastSwitchIsSent
    <3>4. QED
      BY <1>2, <3>1, <3>3, EndFacts
  <2>3. QED
    BY <2>1, <2>2
<1>5. LastSwitchIsSent'
  BY <1>4 DEF LastSwitchIsSent
<1>6. EnableAckedHolds'
  BY DEF ProcessEnds, NoCall, EnableAckedHolds
<1>7. QED
  BY <1>1, <1>5, <1>6 DEF SwitchInv

\* An object that exists is missed by the new process until it is fetched; one
\* that does not is rightly absent.
LEMMA EndMirrorInv == MirrorInv /\ UnsentFits /\ ProcessEnds => MirrorInv'
<1> SUFFICES ASSUME MirrorInv, UnsentFits, ProcessEnds PROVE MirrorInv'
  OBVIOUS
<1>1. notifs' = <<>> /\ Len(notifs') = 0 /\ call' = NoCall /\ missed' = registered
      /\ told' = [o \in Object |-> Absent]
      /\ UNCHANGED <<registered, version, unsent>>
  BY EmptySeq DEF ProcessEnds
<1>2. OneUnsent'
  BY <1>1 DEF MirrorInv, OneUnsent
<1>3. ASSUME NEW o \in Object, o \notin missed'
      PROVE  YoungestFits(o)' /\ Explained(o)'
  <2>1. o \notin registered'
    BY <1>1, <1>3
  <2>2. Explained(o)'
    BY <1>1, <2>1 DEF Explained, Actual
  <2>3. \A n \in unsent' : About(n, o) => Fits(n, o)'
    BY <1>1 DEF UnsentFits, About, Fits
  <2>4. YoungestFits(o)'
    BY <1>1, <2>3 DEF YoungestFits
  <2>5. QED
    BY <2>2, <2>4
<1>4. FetchFits'
  BY <1>1 DEF NoCall, FetchFits
<1>5. LastAnnouncementFits' /\ AnnouncedExplained'
  BY <1>3 DEF LastAnnouncementFits, AnnouncedExplained, Explained
<1>6. QED
  BY <1>2, <1>4, <1>5 DEF MirrorInv

\* The new process is sure of no switch until it fetched the object or switched it
\* itself; and by then the agent has executed those of the old one.
LEMMA EndEnableInv == TypeOK /\ SwitchInv /\ ProcessEnds => EnableInv'
<1> SUFFICES ASSUME TypeOK, SwitchInv, ProcessEnds PROVE EnableInv'
  OBVIOUS
<1>1. SwitchesEnableable'
  BY EndSwitchInv DEF SwitchInv
<1>2. unsure' = Enableable /\ call'.pc = "idle"
  BY DEF ProcessEnds, NoCall
<1>3. QED
  BY <1>1, <1>2
  DEF EnableInv, SwitchesAwaited, AnsweredOn, SwitchedExplained, EnableExplained

LEMMA StepProcessInv == ProcessInv /\ [RestartNext]_vars => ProcessInv'
<1>1. ProcessInv /\ [Next]_vars => ProcessInv'
  BY NextTypeOK, NextCallInv, NextContentOrdered, NextSwitchesEnableable, NextLastSwitchIsSent,
     NextEnableAckedHolds, NextMirrorInv, NextEnableInv, NextUnsentFits
     DEF ProcessInv, SwitchInv
<1>2. UnsentFits /\ ProcessEnds => UnsentFits'
  BY DEF ProcessEnds, UnsentFits, About, Fits
<1>3. ProcessInv /\ ProcessEnds => ProcessInv'
  BY <1>2, EndTypeOK, EndCallInv, EndContentOrdered, EndSwitchInv, EndMirrorInv,
     EndEnableInv DEF ProcessInv
<1>4. QED
  BY <1>1, <1>3 DEF RestartNext

LEMMA ProcessInvariant == RestartSpec => []ProcessInv
BY InitProcessInv, StepProcessInv, PTL DEF RestartSpec

\* A call of a new process takes no reply to a request of an old one, of which the
\* agent may have any number left.
THEOREM RepliesMatchCallsAfterEnds == RestartSpec => []CallInv
<1>1. ProcessInv => CallInv
  BY DEF ProcessInv
<1>2. QED
  BY <1>1, ProcessInvariant, PTL

\* A new process's copy differs from the agent's data for a reason only, whatever
\* the old one left undone or left in the agent to be executed.
THEOREM MirrorExplainedAfterEnds == RestartSpec => []OutOfSyncExplained
<1>1. ProcessInv => OutOfSyncExplained
  BY DEF ProcessInv, MirrorInv, EnableInv, OutOfSyncExplained
<1>2. QED
  BY <1>1, ProcessInvariant, PTL

\* What a new process has acknowledged is not undone by a request of the old one.
THEOREM EnableAcknowledgedAfterEnds == RestartSpec => []EnableAckedHolds
<1>1. ProcessInv => EnableAckedHolds
  BY DEF ProcessInv, SwitchInv
<1>2. QED
  BY <1>1, ProcessInvariant, PTL

\* The last switch the agent accepted wins, whichever process sent it.
THEOREM LastSwitchWinsAfterEnds == RestartSpec => []LastEnableWins
<1>1. ProcessInv => LastEnableWins
  <2>1. SUFFICES ASSUME TypeOK, SwitchInv, requests = <<>> PROVE enabled = sent
    BY DEF ProcessInv, LastEnableWins
  <2>2. \A o \in Enableable : enabled[o] = sent[o]
    BY <2>1, EmptySeq DEF SwitchInv, LastSwitchIsSent
  <2>3. QED
    BY <2>1, <2>2 DEF TypeOK, HalTypeOK
<1>2. QED
  BY <1>1, ProcessInvariant, PTL

\* No process is told older data than it has, also not by a reply to the old one.
THEOREM ReportsGoForwardAfterEnds == RestartSpec => ReportsNeverGoBack
<1>1. TypeOK /\ ContentOrdered /\ [Next]_vars =>
        [\A o \in Object : (told[o] # Absent /\ told'[o] # Absent) => told[o] <= told'[o]]_vars
  BY NextNeverGoesBack
<1>2. ProcessEnds =>
        [\A o \in Object : (told[o] # Absent /\ told'[o] # Absent) => told[o] <= told'[o]]_vars
  BY DEF ProcessEnds
<1>3. ProcessInv /\ [RestartNext]_vars =>
        [\A o \in Object : (told[o] # Absent /\ told'[o] # Absent) => told[o] <= told'[o]]_vars
  BY <1>1, <1>2 DEF ProcessInv, RestartNext
<1>4. QED
  BY <1>3, ProcessInvariant, PTL DEF RestartSpec, ReportsNeverGoBack

-----------------------------------------------------------------------------
(* The end of a process, seen from DmMirror. *)

LEMMA EndForgets ==
    ASSUME TypeOK', ProcessEnds
    PROVE  Mirror!Forget
<1>1. /\ UNCHANGED <<registered, version>>
      /\ told' = [o \in Object |-> Absent]
      /\ missed' = registered
  BY DEF ProcessEnds
<1>2. \A o \in Object : Actual(o)' = Actual(o)
  BY <1>1 DEF Actual
<1>3. [o \in Object |-> Actual(o)]' = [o \in Object |-> Actual(o)]
  BY <1>2
<1>4. ASSUME NEW o \in Object, Standing'[o] = "current"
      PROVE  [p \in Object |-> Actual(p)]'[o] = Absent
  BY <1>1, <1>4, StandingOf DEF Actual
<1>5. /\ [o \in Object |-> Actual(o)]' \in [Object -> Mirror!Value]
      /\ told' \in [Object -> Mirror!Value]
      /\ Standing' \in [Object -> {"current", "pending", "missed"}]
  BY DEF TypeOK, HalTypeOK, Actual, Value, Mirror!Value, Standing
<1>6. QED
  BY <1>1, <1>3, <1>4, <1>5 DEF Mirror!Forget, Mirror!KnowsNothing, Mirror!TypeOK

LEMMA EndForgetsEnable ==
    ASSUME TypeOK', ProcessEnds
    PROVE  EnableMirror!Forget
<1>1. /\ enabled' = enabled
      /\ toldEnable' = [o \in Enableable |-> Absent]
      /\ unsure' = Enableable
  BY DEF ProcessEnds
<1>2. \A o \in Enableable : EnableStanding'[o] = "missed"
  BY <1>1, EnableStandingOf
<1>3. QED
  BY <1>1, <1>2, EnableTypeOKNext DEF EnableMirror!Forget, EnableMirror!KnowsNothing

\* The module implements DmMirror through any number of ends of its process: to the
\* plugin a new process is a plugin that starts anew, and nothing else; in Enable
\* too, although the agent still executes what the old process asked for.
THEOREM RestartImplementsMirror == RestartSpec => ImplementsMirrorWithEnds
<1>1. ProcessInv /\ ProcessInv' /\ [Next]_vars
        => [Mirror!Next]_(Mirror!vars) /\ EnableMirror!Next
  BY NextMirrors, NextEnableMirrors DEF ProcessInv, Inv, SwitchedInv
<1>2. ProcessInv /\ ProcessInv' /\ [RestartNext]_vars
        => /\ [Mirror!Next \/ Mirror!Forget]_(Mirror!vars)
           /\ [EnableMirror!Next \/ EnableMirror!Forget]_(EnableMirror!vars)
  BY <1>1, EndForgets, EndForgetsEnable DEF ProcessInv, RestartNext
<1>3. QED
  BY <1>2, InitMirrors, InitEnableMirrors, ProcessInvariant, PTL
  DEF RestartSpec, ImplementsMirrorWithEnds, Mirror!SpecWithEnds, EnableMirror!SpecWithEnds

=============================================================================
