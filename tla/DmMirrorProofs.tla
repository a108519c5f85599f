--------------------------- MODULE DmMirrorProofs ---------------------------
(* What DmMirror, and so everything that implements it, guarantees, however  *)
(* often the plugin starts anew.                                             *)
EXTENDS DmMirror, TLAPS

\* For a single object, a step of Next is one of the four.
LEMMA NextOf ==
    ASSUME Next, NEW o \in Object
    PROVE  News(o) \/ Tell(o) \/ Lose(o) \/ Stays(o)
BY DEF Next

LEMMA StepExact == CurrentIsExact /\ [Next \/ Forget]_vars => CurrentIsExact'
<1>1. SUFFICES ASSUME CurrentIsExact, Next \/ Forget, NEW o \in Object, standing'[o] = "current"
               PROVE  told'[o] = actual'[o]
  BY DEF CurrentIsExact, vars
<1>2. CASE Next
  BY <1>1, <1>2, NextOf DEF News, Tell, Lose, Stays, CurrentIsExact
<1>3. CASE Forget
  BY <1>1, <1>3 DEF Forget, KnowsNothing
<1>4. QED
  BY <1>1, <1>2, <1>3

\* Also a plugin that starts anew has what is so, or nothing and a reason for it:
\* a copy of which nothing is on the way and nothing was lost is exact.
THEOREM CurrentStaysExact == SpecWithEnds => []CurrentIsExact
<1>1. Init => CurrentIsExact
  BY DEF Init, KnowsNothing, CurrentIsExact
<1>2. QED
  BY <1>1, StepExact, PTL DEF SpecWithEnds

\* The plugin's copy of an object only moves to newer data, or is given up.
THEOREM ToldGoesForward == SpecWithEnds => NeverTakenBack
<1>1. TypeOK /\ [Next \/ Forget]_vars => [\A o \in Object : Forward(o, told[o], told'[o])]_vars
  <2>1. SUFFICES ASSUME TypeOK, Next \/ Forget, NEW o \in Object
                 PROVE  Forward(o, told[o], told'[o])
    OBVIOUS
  <2>2. CASE Next
    <3>1. told'[o] = told[o] \/ Forward(o, told[o], told'[o])
      BY <2>2, NextOf DEF News, Tell, Lose, Stays
    <3>2. Forward(o, told[o], told[o])
      BY <2>1 DEF TypeOK, Value, Forward
    <3>3. QED
      BY <3>1, <3>2
  <2>3. CASE Forget
    BY <2>3 DEF Forget, KnowsNothing, Forward
  <2>4. QED
    BY <2>1, <2>2, <2>3
<1>2. Init => TypeOK
  BY DEF Init
<1>3. TypeOK /\ [Next \/ Forget]_vars => TypeOK'
  BY DEF Next, Forget, TypeOK, vars
<1>4. QED
  BY <1>1, <1>2, <1>3, PTL DEF SpecWithEnds, NeverTakenBack

=============================================================================
