------------------------------ MODULE DmMirror ------------------------------
(***************************************************************************)
(* What mod-xpon-prpl promises the plugin about the data of an agent, with *)
(* no bus, queue, call or thread: the plugin's copy of an object is exact, *)
(* or news about it is on the way, or something about it was lost; and     *)
(* whatever the plugin is told of versioned data was once so, and is never *)
(* taken back.                                                             *)
(* DmSync, DmSyncRestart and UbusList implement this module.               *)
(***************************************************************************)
EXTENDS Integers

CONSTANTS
    Object,
    Versioned,   \* those whose data only gets newer, and is not taken back
    Absent       \* the data of an object that does not exist

VARIABLES
    actual,     \* per object, the version or value of its data, or Absent
    told,       \* per object, what the plugin has of it
    standing    \* per object: "current", "pending" or "missed"

vars == <<actual, told, standing>>

Value == Nat \cup {Absent}

TypeOK ==
    /\ actual \in [Object -> Value]
    /\ told \in [Object -> Value]
    /\ standing \in [Object -> {"current", "pending", "missed"}]

\* The plugin knows nothing, which is right of what does not exist.
KnowsNothing ==
    /\ told = [o \in Object |-> Absent]
    /\ \A o \in Object : standing[o] = "current" => actual[o] = Absent

Init == TypeOK /\ KnowsNothing

\* Versioned data is the same or newer, as far as both exist.
Forward(o, old, new) == (o \in Versioned /\ old # Absent /\ new # Absent) => old <= new

Stays(o) == actual'[o] = actual[o] /\ told'[o] = told[o] /\ standing'[o] = standing[o]

\* The agent changes the object and says so; or says so without a change.
News(o) ==
    /\ Forward(o, actual[o], actual'[o])
    /\ told'[o] = told[o]
    /\ standing'[o] = IF standing[o] = "missed" THEN "missed" ELSE "pending"

\* The plugin is told something, of versioned data what was so at some time and
\* nothing older than it has, which may make good for a loss.  It is up to date again only if that is so now.
Tell(o) ==
    /\ standing[o] # "current"
    /\ actual'[o] = actual[o]
    /\ Forward(o, told[o], told'[o])
    /\ Forward(o, told'[o], actual[o])
    /\ standing'[o] \in {standing[o], "pending", "current"}
    /\ standing'[o] = "current" => told'[o] = actual[o]

\* News, or what was fetched because of it, gets lost.
Lose(o) ==
    /\ standing[o] = "pending"
    /\ standing'[o] = "missed"
    /\ actual'[o] = actual[o]
    /\ told'[o] = told[o]

\* Changes and losses are of one object; a list tells of several.
Next ==
    /\ \/ \E o \in Object : /\ News(o) \/ Lose(o)
                          /\ \A p \in Object \ {o} : Stays(p)
       \/ \A o \in Object : Tell(o) \/ Stays(o)
    /\ TypeOK'

Spec == Init /\ [][Next]_vars

\* The plugin starts anew.
Forget ==
    /\ actual' = actual
    /\ KnowsNothing'
    /\ TypeOK'

SpecWithEnds == Init /\ [][Next \/ Forget]_vars

\* A copy that nothing is on the way for, and of which nothing was lost, is
\* exact: what a client of notif.c may rely on.
CurrentIsExact == \A o \in Object : standing[o] = "current" => told[o] = actual[o]

\* Nothing the plugin was told of versioned data is replaced by older data.
NeverTakenBack == [][\A o \in Object : Forward(o, told[o], told'[o])]_vars

=============================================================================
