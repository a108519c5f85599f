--------------------------- MODULE UbusListProofs ---------------------------
(***************************************************************************)
(* Proofs about UbusList, for any objects, templates, indexes and number   *)
(* of changes: that a list is exact, from what the file and the set hold   *)
(* at each step of the call (ListInv), and that list and announcements     *)
(* together leave nothing out, from what may be said of each object        *)
(* (NewsInv).                                                              *)
(***************************************************************************)
EXTENDS UbusList, SequenceTheorems, TLAPS

Elements(s) == {s[k] : k \in DOMAIN s}

Distinct(s) == \A k, l \in DOMAIN s : s[k] = s[l] => k = l

\* While the command runs: what exists all the time is in the file, or still to come.
ListingInv ==
    call.pc \in {"listing", "listed"} =>
        /\ file # NoFile
        /\ call.set = <<>>
        /\ call.line = 0
        /\ call.todo \cup Elements(file) \subseteq call.ever
        /\ \A o \in call.always : Matches(o, call.path) => o \in call.todo \cup Elements(file)
        /\ call.pc = "listed" => call.todo = {}

\* While the file is read: the set is made of the lines that were read.
ReadingInv ==
    call.pc = "reading" =>
        /\ Elements(file) \subseteq call.ever
        /\ \A o \in call.always : IsInstance(o, call.path) => o \in Elements(file)
        /\ Distinct(call.set)
        /\ Listed \subseteq call.ever
        /\ \A k \in 1..call.line : IsInstance(file[k], call.path) => file[k] \in Listed

ListInv == TypeOK /\ ListingInv /\ ReadingInv /\ ListExact

\* The announcement of o that the module will see last, unless an agent has one
\* about o still to send, says whether o exists.
YoungestFits(o) ==
    (o \notin missed /\ \A n \in unsent : n.obj # o) =>
        \A k \in 1..Len(notifs) :
            (notifs[k].obj = o /\ \A j \in k + 1..Len(notifs) : notifs[j].obj # o)
                => (notifs[k].kind = "added" <=> o \in bus)

\* A change of o that the plugin does not know of is still to be told, or lost.
Heralded(o) == Announced(o) \/ o \in missed

Followed(o) ==
    /\ YoungestFits(o)
    /\ o \in known => o \in bus \/ Heralded(o)
    /\ \A path \in covered : (o \in bus /\ IsInstance(o, path)) => o \in known \/ Heralded(o)
    /\ call.pc \notin {"idle", "failed"} =>
           /\ o \in call.always => o \in bus
           /\ o \in call.ever => o \in bus \/ Heralded(o)
           /\ o \in bus => o \in call.always \/ Heralded(o)

UnsentFits ==
    /\ \A m, n \in unsent : m = n
    /\ \A n \in unsent : n.kind = "added" <=> n.obj \in bus

NewsInv == UnsentFits /\ \A o \in Object : Followed(o)

-----------------------------------------------------------------------------
(* Paths and sequences. *)

LEMMA AppendFacts ==
    ASSUME NEW S, NEW s \in Seq(S), NEW e \in S
    PROVE  /\ Append(s, e) \in Seq(S)
           /\ Len(s) \in Nat
           /\ Len(Append(s, e)) = Len(s) + 1
           /\ DOMAIN s = 1..Len(s)
           /\ DOMAIN Append(s, e) = 1..Len(s) + 1
           /\ \A k \in 1..Len(s) : Append(s, e)[k] = s[k]
           /\ Append(s, e)[Len(s) + 1] = e
           /\ Elements(Append(s, e)) = Elements(s) \cup {e}
<1>1. /\ Append(s, e) \in Seq(S)
      /\ Len(s) \in Nat
      /\ Len(Append(s, e)) = Len(s) + 1
      /\ \A k \in 1..Len(s) : Append(s, e)[k] = s[k]
      /\ Append(s, e)[Len(s) + 1] = e
  BY AppendProperties, LenProperties
<1>2. DOMAIN s = 1..Len(s) /\ DOMAIN Append(s, e) = 1..Len(s) + 1
  BY <1>1, LenProperties
<1> DEFINE t == Append(s, e)
<1>3. DOMAIN t = DOMAIN s \cup {Len(s) + 1}
  BY <1>1, <1>2
<1> HIDE DEF t
<1>4. Elements(t) = Elements(s) \cup {e}
  BY <1>1, <1>2, <1>3 DEF t, Elements
<1>5. QED
  BY <1>1, <1>2, <1>4 DEF t

LEMMA TailFacts ==
    ASSUME NEW S, NEW s \in Seq(S), s # <<>>
    PROVE  /\ Len(s) \in Nat \ {0}
           /\ Head(s) \in S
           /\ Head(s) = s[1]
           /\ Tail(s) \in Seq(S)
           /\ Len(Tail(s)) = Len(s) - 1
           /\ DOMAIN s = 1..Len(s)
           /\ DOMAIN Tail(s) = 1..Len(s) - 1
           /\ \A k \in 1..Len(s) - 1 : Tail(s)[k] = s[k + 1]
<1>1. /\ Len(s) \in Nat \ {0}
      /\ Head(s) \in S
      /\ Head(s) = s[1]
      /\ Tail(s) \in Seq(S)
      /\ Len(Tail(s)) = Len(s) - 1
      /\ \A k \in 1..Len(Tail(s)) : Tail(s)[k] = s[k + 1]
  BY HeadTailProperties
<1>2. QED
  BY <1>1, LenProperties

\* Translating a path gives a path.
LEMMA PrplPathType ==
    ASSUME NEW path \in Seq(Element)
    PROVE  PrplPath(path) \in Seq(Element)
<1>1. /\ DOMAIN path = 1..Len(path)
      /\ Len(path) \in Nat
      /\ \A k \in 1..Len(path) : path[k] \in Element
  BY LenProperties, ElementOfSeq
<1>2. \A elem \in Element : ToPrplName(elem) \in Element
  BY DEF ToPrplName, PrplName, Element
<1> DEFINE name(k) == IF k = 1 THEN "xpon_onu" ELSE ToPrplName(path[k])
<1>3. PrplPath(path) = [k \in 1..Len(path) |-> name(k)]
  <2>1. DOMAIN path = 1..Len(path)
    BY <1>1
  <2>2. QED
    BY <2>1, Zenon DEF PrplPath
<1>4. \A k \in 1..Len(path) : name(k) \in Element
  BY <1>1, <1>2 DEF Element, Roots
<1> HIDE DEF name
<1>5. QED
  BY <1>1, <1>3, <1>4, IsASeq

\* An instance is printed by the command, and its index is the last element.
LEMMA InstanceFacts ==
    ASSUME NEW o, NEW path \in Seq(Element), IsInstance(o, path)
    PROVE  /\ Matches(o, path)
           /\ o[Len(o)] \in Number
           /\ o = Append(path, o[Len(o)])
<1>1. PICK i \in Number : o = Append(path, i)
  BY DEF IsInstance
<1>2. i \in Element
  BY DEF Element
<1>3. /\ o \in Seq(Element)
      /\ Len(path) \in Nat
      /\ Len(o) = Len(path) + 1
      /\ \A k \in 1..Len(path) : o[k] = path[k]
      /\ o[Len(o)] = i
  BY <1>1, <1>2, AppendFacts
<1>4. \A k \in 1..Len(path) : o[k] \in Element /\ path[k] \in Element
  BY <1>3, ElementOfSeq
<1>5. /\ SubSeq(o, 1, Len(path)) \in Seq(Element)
      /\ Len(SubSeq(o, 1, Len(path))) = Len(path)
      /\ \A k \in 1..Len(path) : SubSeq(o, 1, Len(path))[k] = o[k]
  BY <1>3, <1>4, SubSeqProperties
<1>6. SubSeq(o, 1, Len(path)) = path
  BY <1>3, <1>5, SeqEqual
<1>7. QED
  BY <1>1, <1>3, <1>6 DEF Matches

\* set_of_indexes_add_index() adds an index once.
LEMMA AddIndexFacts ==
    ASSUME NEW set \in Seq(Number), Distinct(set), NEW i \in Number
    PROVE  /\ AddIndex(set, i) \in Seq(Number)
           /\ Distinct(AddIndex(set, i))
           /\ Elements(AddIndex(set, i)) = Elements(set) \cup {i}
<1>1. CASE \E k \in DOMAIN set : set[k] = i
  BY <1>1 DEF AddIndex, Elements
<1>2. CASE \A k \in DOMAIN set : set[k] # i
  <2> DEFINE t == Append(set, i)
  <2>1. /\ t \in Seq(Number)
        /\ Len(set) \in Nat
        /\ DOMAIN set = 1..Len(set)
        /\ DOMAIN t = 1..Len(set) + 1
        /\ \A k \in 1..Len(set) : t[k] = set[k]
        /\ t[Len(set) + 1] = i
        /\ Elements(t) = Elements(set) \cup {i}
    BY AppendFacts
  <2> HIDE DEF t
  <2>2. Distinct(t)
    BY <1>2, <2>1 DEF Distinct
  <2>3. AddIndex(set, i) = t
    BY <1>2 DEF AddIndex, t
  <2>4. QED
    BY <2>1, <2>2, <2>3
<1>3. QED
  BY <1>1, <1>2

-----------------------------------------------------------------------------
(* Type correctness, and the list. *)

LEMMA InitListInv == Init => ListInv
<1> SUFFICES ASSUME Init PROVE ListInv
  OBVIOUS
<1>1. <<>> \in Seq(Announcement) /\ <<>> \in Seq(Element) /\ <<>> \in Seq(Number)
  OBVIOUS
<1>2. NoCall \in CallState
  <2>1. {} \in SUBSET Object /\ 0 \in Nat /\ FALSE \in BOOLEAN /\ NoArgs \in Args \cup {NoArgs}
    OBVIOUS
  <2>2. QED
    BY <1>1, <2>1 DEF NoCall, CallState
<1>3. file \in Seq(Object) \cup {NoFile}
  <2>1. \A o \in Coming : <<o>> \in Seq(Object)
    BY DEF Object
  <2>2. QED
    BY <2>1 DEF Init
<1>4. TypeOK
  <2>1. NoCall.pc = "idle"
    BY DEF NoCall
  <2>2. Fixed \subseteq bus /\ bus \subseteq Object
    BY DEF Init, Object
  <2>3. call \in CallState /\ call.pc # "reading"
    BY <1>2, <2>1 DEF Init
  <2>4. changes \in 0..MaxChanges
    BY ListAssumption DEF Init
  <2>5. QED
    BY <1>1, <1>3, <2>2, <2>3, <2>4 DEF Init, TypeOK
<1>5. QED
  BY <1>4 DEF Init, NoCall, ListInv, ListingInv, ReadingInv, ListExact

\* Outside the call nothing the thread has done is touched.
LEMMA CallStays ==
    ASSUME ListInv, TypeOK', UNCHANGED <<call, file>>
    PROVE  ListInv'
BY DEF ListInv, ListingInv, ReadingInv, ListExact, Listed

\* Agents add to what existed at some time, and take from what existed all the time.
LEMMA AgentStep ==
    ASSUME ListInv, TypeOK', file' = file,
           call'.pc = call.pc, call'.path = call.path, call'.set = call.set, call'.line = call.line,
           call.ever \subseteq call'.ever, call'.always \subseteq call.always,
           call.pc \in {"listing", "listed"} => call'.todo \subseteq call'.ever,
           call.pc # "listing" => call'.todo \subseteq call.todo,
           call.todo \cap call'.always \subseteq call'.todo
    PROVE  ListInv'
<1>1. Listed' = Listed
  BY DEF Listed
<1>2. ListingInv'
  BY DEF ListInv, ListingInv
<1>3. ReadingInv'
  BY <1>1 DEF ListInv, ReadingInv
<1>4. ListExact'
  BY <1>1 DEF ListInv, ListExact
<1>5. QED
  BY <1>2, <1>3, <1>4 DEF ListInv

\* What a change of the call does to its fields.
LEMMA GoesFacts ==
    ASSUME TypeOK, NEW from, NEW to \in {"listed", "reading", "closed", "failed"}, Goes(from, to)
    PROVE  /\ call.pc = from
           /\ call' \in CallState
           /\ call'.pc = to
           /\ call'.args = call.args
           /\ call'.path = call.path
           /\ call'.todo = call.todo
           /\ call'.line = call.line
           /\ call'.set = call.set
           /\ call'.always = call.always
           /\ call'.ever = call.ever
           /\ call'.heard = call.heard
           /\ UNCHANGED <<bus, unsent, changes, subscribed, notifs, cmdFound, known, covered, missed>>
           /\ Listed' = Listed
BY DEF Goes, TypeOK, CallState, agentVars, hearVars, pluginVars, Listed

LEMMA AppearsListInv == ListInv /\ Appears => ListInv'
<1> SUFFICES ASSUME ListInv, Appears PROVE ListInv'
  OBVIOUS
<1>1. PICK o \in Coming \ bus :
          /\ Edit("added", o)
          /\ bus' = bus \cup {o}
          /\ \E new \in SUBSET {o} :
                /\ new # {} => call.pc = "listing" /\ Matches(o, call.path)
                /\ call' = [call EXCEPT !.todo = @ \cup new, !.ever = @ \cup {o}]
  BY DEF Appears
<1>2. PICK new \in SUBSET {o} :
          /\ new # {} => call.pc = "listing" /\ Matches(o, call.path)
          /\ call' = [call EXCEPT !.todo = @ \cup new, !.ever = @ \cup {o}]
  BY <1>1
<1>3. o \in Object
  BY DEF Object
<1>4. /\ call' \in CallState
      /\ call'.pc = call.pc
      /\ call'.path = call.path
      /\ call'.set = call.set
      /\ call'.line = call.line
      /\ call'.todo = call.todo \cup new
      /\ call'.ever = call.ever \cup {o}
      /\ call'.always = call.always
  BY <1>2, <1>3 DEF ListInv, TypeOK, CallState
<1>5. TypeOK' /\ file' = file
  BY <1>1, <1>3, <1>4, ListAssumption
  DEF ListInv, TypeOK, Edit, Announcement, hearVars, listVars, pluginVars
<1>6. call.pc \in {"listing", "listed"} => call'.todo \subseteq call'.ever
  BY <1>4 DEF ListInv, ListingInv
<1>7. QED
  BY <1>2, <1>4, <1>5, <1>6, AgentStep

LEMMA DisappearsListInv == ListInv /\ Disappears => ListInv'
<1> SUFFICES ASSUME ListInv, Disappears PROVE ListInv'
  OBVIOUS
<1>1. PICK o \in Coming \cap bus :
          /\ Edit("removed", o)
          /\ bus' = bus \ {o}
          /\ \E gone \in SUBSET {o} :
                call' = [call EXCEPT !.todo = @ \ gone, !.always = @ \ {o}]
  BY DEF Disappears
<1>2. PICK gone \in SUBSET {o} : call' = [call EXCEPT !.todo = @ \ gone, !.always = @ \ {o}]
  BY <1>1
<1>3. o \in Object /\ o \notin Fixed
  BY ListAssumption DEF Object
<1>4. /\ call' \in CallState
      /\ call'.pc = call.pc
      /\ call'.path = call.path
      /\ call'.set = call.set
      /\ call'.line = call.line
      /\ call'.todo = call.todo \ gone
      /\ call'.ever = call.ever
      /\ call'.always = call.always \ {o}
  BY <1>2, <1>3 DEF ListInv, TypeOK, CallState
<1>5. TypeOK' /\ file' = file
  BY <1>1, <1>3, <1>4, ListAssumption
  DEF ListInv, TypeOK, Edit, Announcement, hearVars, listVars, pluginVars
<1>6. call.pc \in {"listing", "listed"} => call'.todo \subseteq call'.ever
  BY <1>4 DEF ListInv, ListingInv
<1>7. QED
  BY <1>2, <1>4, <1>5, <1>6, AgentStep

\* Announcements, and the handlers of them, are no part of a call.
LEMMA OtherListInv ==
    ASSUME ListInv, \/ Announce \/ LoseAnnouncement \/ Subscribe \/ HandleAdded \/ HandleRemoved
                    \/ UNCHANGED vars
    PROVE  ListInv'
<1>1. CASE Announce
  <2>1. PICK n \in unsent :
            notifs' = Append(notifs, n) /\ unsent' = {}
            /\ UNCHANGED <<bus, changes, subscribed, listVars, call, pluginVars>>
    BY <1>1 DEF Announce
  <2>2. n \in Announcement
    BY DEF ListInv, TypeOK
  <2>3. notifs' \in Seq(Announcement)
    BY <2>1, <2>2 DEF ListInv, TypeOK
  <2>4. QED
    BY <2>1, <2>3, CallStays DEF ListInv, TypeOK, listVars, pluginVars
<1>2. CASE LoseAnnouncement
  BY <1>2, CallStays DEF LoseAnnouncement, ListInv, TypeOK, Announcement, hearVars, listVars
<1>3. CASE Subscribe
  BY <1>3, CallStays DEF Subscribe, ListInv, TypeOK, agentVars, listVars, pluginVars
<1>4. ASSUME NEW kind, Dispatch(kind), known' \subseteq Object, missed' \subseteq Object
      PROVE  ListInv'
  <2>1. notifs' \in Seq(Announcement)
    BY <1>4, TailFacts DEF Dispatch, ListInv, TypeOK
  <2>2. QED
    BY <1>4, <2>1, CallStays DEF Dispatch, ListInv, TypeOK, agentVars, listVars
<1>5. CASE HandleAdded
  <2>1. known' \subseteq Object /\ missed' \subseteq Object
    BY <1>5 DEF HandleAdded, ListInv, TypeOK
  <2>2. QED
    BY <1>4, <1>5, <2>1 DEF HandleAdded
<1>6. CASE HandleRemoved
  BY <1>4, <1>6 DEF HandleRemoved, ListInv, TypeOK
<1>7. CASE UNCHANGED vars
  BY <1>7, CallStays
  DEF vars, agentVars, hearVars, listVars, pluginVars, ListInv, TypeOK
<1>8. QED
  BY <1>1, <1>2, <1>3, <1>5, <1>6, <1>7

\* Without a call there is nothing to keep.
LEMMA NoCallListInv ==
    ASSUME TypeOK', call'.pc \in {"idle", "failed"}
    PROVE  ListInv'
BY DEF ListInv, ListingInv, ReadingInv, ListExact

LEMMA CallBeginsListInv ==
    ASSUME ListInv, List \/ Refuse \/ ProcessEnds
    PROVE  ListInv'
<1>1. ASSUME NEW a \in Args
      PROVE  a.path \in Seq(Element) /\ PrplPath(a.path) \in Seq(Element)
  BY ListAssumption, PrplPathType DEF Args
<1>2. <<>> \in Seq(Element) /\ <<>> \in Seq(Number) /\ <<>> \in Seq(Announcement) /\ <<>> \in Seq(Object)
  OBVIOUS
<1>3. NoCall \in CallState /\ NoCall.pc = "idle"
  <2>1. {} \in SUBSET Object /\ 0 \in Nat /\ FALSE \in BOOLEAN /\ NoArgs \in Args \cup {NoArgs}
    OBVIOUS
  <2>2. QED
    BY <1>2, <2>1 DEF NoCall, CallState
<1>4. CASE ProcessEnds
  BY <1>2, <1>3, <1>4, NoCallListInv DEF ProcessEnds, ListInv, TypeOK, agentVars
<1>5. CASE Refuse
  <2>1. PICK a \in Args : call' = [NoCall EXCEPT !.pc = "failed", !.args = a]
    BY <1>5 DEF Refuse
  <2>2. call' \in CallState /\ call'.pc = "failed"
    BY <1>3, <2>1 DEF CallState
  <2>3. QED
    BY <1>5, <2>2, NoCallListInv
    DEF Refuse, ListInv, TypeOK, agentVars, hearVars, listVars, pluginVars
<1>6. CASE List
  <2>1. PICK a \in Args : call' = Begin(a)
    BY <1>6 DEF List
  <2>2. /\ file' = IF cmdFound THEN <<>> ELSE NoFile
        /\ UNCHANGED <<bus, unsent, changes, subscribed, notifs, cmdFound, known, covered, missed>>
    BY <1>6 DEF List, agentVars, hearVars, pluginVars
  <2>3. Begin(a) \in CallState
    BY <1>1, <1>2 DEF Begin, CallState, ListInv, TypeOK
  <2>4. /\ call'.pc = IF cmdFound THEN "listing" ELSE "failed"
        /\ call'.path = PrplPath(a.path)
        /\ call'.todo = {o \in bus : Matches(o, PrplPath(a.path))}
        /\ call'.line = 0
        /\ call'.set = <<>>
        /\ call'.always = bus
        /\ call'.ever = bus
    BY <2>1 DEF Begin
  <2>5. TypeOK'
    BY <1>2, <2>1, <2>2, <2>3, <2>4 DEF ListInv, TypeOK
  <2>6. CASE ~cmdFound
    BY <2>4, <2>5, <2>6, NoCallListInv
  <2>7. CASE cmdFound
    <3>1. file' # NoFile /\ Elements(file') = {}
      <4>1. file' = <<>>
        BY <2>2, <2>7
      <4>2. Elements(<<>>) = {}
        BY DEF Elements
      <4>3. QED
        BY <1>2, <4>1, <4>2, ListAssumption
    <3>2. ListingInv'
      BY <2>4, <3>1 DEF ListingInv
    <3>3. QED
      BY <2>4, <2>5, <2>7, <3>2 DEF ListInv, ReadingInv, ListExact
  <2>8. QED
    BY <2>6, <2>7
<1>7. QED
  BY <1>4, <1>5, <1>6

LEMMA CommandListInv ==
    ASSUME ListInv, CommandPrints \/ CommandEnds \/ CommandFails
    PROVE  ListInv'
<1>1. CASE CommandFails
  <2>1. Goes("listing", "failed") /\ file' = file
    BY <1>1 DEF CommandFails
  <2>2. TypeOK'
    BY <2>1, GoesFacts DEF ListInv, TypeOK
  <2>3. QED
    BY <2>1, <2>2, GoesFacts, NoCallListInv DEF ListInv
<1>2. CASE CommandEnds
  <2>1. Goes("listing", "listed") /\ file' = file /\ call.todo = {}
    BY <1>2 DEF CommandEnds
  <2>2. TypeOK'
    BY <2>1, GoesFacts DEF ListInv, TypeOK
  <2>3. ListingInv'
    BY <2>1, GoesFacts DEF ListInv, ListingInv
  <2>4. QED
    BY <2>1, <2>2, <2>3, GoesFacts DEF ListInv, ReadingInv, ListExact
<1>3. CASE CommandPrints
  <2>1. PICK o \in call.todo :
            /\ call.pc = "listing"
            /\ call' = [call EXCEPT !.todo = @ \ {o}]
            /\ file' = Append(file, o)
    BY <1>3 DEF CommandPrints
  <2>2. UNCHANGED <<bus, unsent, changes, subscribed, notifs, cmdFound, known, covered, missed>>
    BY <1>3 DEF CommandPrints, agentVars, hearVars, pluginVars
  <2>3. o \in Object
    BY DEF ListInv, TypeOK, CallState
  <2>4. file \in Seq(Object)
    BY <2>1 DEF ListInv, TypeOK, ListingInv
  <2>5. file' \in Seq(Object) /\ Elements(file') = Elements(file) \cup {o}
    BY <2>1, <2>3, <2>4, AppendFacts
  <2>6. /\ call' \in CallState
        /\ call'.pc = "listing"
        /\ call'.path = call.path
        /\ call'.set = call.set
        /\ call'.line = call.line
        /\ call'.todo = call.todo \ {o}
        /\ call'.ever = call.ever
        /\ call'.always = call.always
    BY <2>1 DEF ListInv, TypeOK, CallState
  <2>7. TypeOK'
    BY <2>2, <2>5, <2>6 DEF ListInv, TypeOK
  <2>8. ListingInv'
    BY <2>1, <2>5, <2>6, ListAssumption DEF ListInv, ListingInv
  <2>9. QED
    BY <2>6, <2>7, <2>8 DEF ListInv, ReadingInv, ListExact
<1>4. QED
  BY <1>1, <1>2, <1>3

LEMMA OpenFileListInv == ListInv /\ OpenFile => ListInv'
<1> SUFFICES ASSUME ListInv, OpenFile PROVE ListInv'
  OBVIOUS
<1>1. CASE Goes("listed", "failed") /\ file' \in {file, NoFile}
  <2>1. TypeOK'
    BY <1>1, GoesFacts DEF ListInv, TypeOK
  <2>2. QED
    BY <1>1, <2>1, GoesFacts, NoCallListInv DEF ListInv
<1>2. CASE Goes("listed", "reading") /\ UNCHANGED file
  <2>1. /\ call'.pc = "reading"
        /\ call.pc = "listed"
        /\ call'.line = call.line
        /\ file' = file
    BY <1>2, GoesFacts DEF ListInv
  <2>2. /\ file # NoFile
        /\ file \in Seq(Object)
        /\ call.line = 0
        /\ call.set = <<>>
        /\ Len(file) \in Nat
    BY <2>1, LenProperties DEF ListInv, TypeOK, ListingInv
  <2>3. TypeOK'
    BY <1>2, <2>1, <2>2, GoesFacts DEF ListInv, TypeOK
  <2>4. call.path \in Seq(Element)
    BY DEF ListInv, TypeOK, CallState
  <2>5. \A o \in call.always : IsInstance(o, call.path) => o \in Elements(file)
    BY <2>1, <2>4, InstanceFacts DEF ListInv, ListingInv
  <2>6. Distinct(call.set) /\ Listed = {}
    BY <2>2 DEF Distinct, Listed
  <2>7. ReadingInv'
    BY <1>2, <2>1, <2>2, <2>5, <2>6, GoesFacts DEF ListInv, ListingInv, ReadingInv
  <2>8. QED
    BY <2>1, <2>3, <2>7 DEF ListInv, ListingInv, ListExact
<1>3. QED
  BY <1>1, <1>2 DEF OpenFile

\* The line that is read gets into the set if it is an instance, and stays there.
LEMMA ReadLineListInv == ListInv /\ ReadLine => ListInv'
<1> SUFFICES ASSUME ListInv, ReadLine PROVE ListInv'
  OBVIOUS
<1> DEFINE o == file[call.line + 1]
           set == IF IsInstance(o, call.path) THEN AddIndex(call.set, o[Len(o)]) ELSE call.set
           n == call.line + 1
<1>1. /\ call.pc = "reading"
      /\ call.line < Len(file)
      /\ call' = [call EXCEPT !.line = @ + 1, !.set = set]
      /\ file' = file
      /\ UNCHANGED <<bus, unsent, changes, subscribed, notifs, cmdFound, known, covered, missed>>
  BY DEF ReadLine, agentVars, hearVars, listVars, pluginVars
<1>2. /\ file \in Seq(Object)
      /\ call.path \in Seq(Element)
      /\ call.set \in Seq(Number)
      /\ call.line \in Nat
      /\ Distinct(call.set)
  BY <1>1 DEF ListInv, TypeOK, CallState, ReadingInv
<1>3. n \in 1..Len(file) /\ DOMAIN file = 1..Len(file) /\ Len(file) \in Nat
  BY <1>1, <1>2, LenProperties
<1>4. o \in Elements(file)
  BY <1>3 DEF Elements
<1>5. /\ set \in Seq(Number)
      /\ Distinct(set)
      /\ Elements(set) = IF IsInstance(o, call.path) THEN Elements(call.set) \cup {o[Len(o)]}
                         ELSE Elements(call.set)
      /\ IsInstance(o, call.path) => o = Append(call.path, o[Len(o)])
  <2>1. CASE IsInstance(o, call.path)
    <3>1. o[Len(o)] \in Number /\ o = Append(call.path, o[Len(o)])
      BY <1>2, <2>1, InstanceFacts
    <3> HIDE DEF o
    <3>2. QED
      BY <1>2, <2>1, <3>1, AddIndexFacts
  <2>2. CASE ~IsInstance(o, call.path)
    <3> HIDE DEF o
    <3>1. QED
      BY <1>2, <2>2
  <2>3. QED
    BY <2>1, <2>2
<1> HIDE DEF set, o
<1>6. /\ call' \in CallState
      /\ call'.pc = "reading"
      /\ call'.path = call.path
      /\ call'.line = n
      /\ call'.set = set
      /\ call'.ever = call.ever
      /\ call'.always = call.always
  <2>1. call' = [call EXCEPT !.line = @ + 1, !.set = set]
    BY <1>1
  <2>2. call \in CallState /\ set \in Seq(Number) /\ call.pc = "reading"
    BY <1>1, <1>5 DEF ListInv, TypeOK
  <2>3. call.line \in Nat /\ call.line + 1 \in Nat
    BY <1>2
  <2>4. QED
    BY <2>1, <2>2, <2>3 DEF CallState
<1>7. Listed = {Append(call.path, i) : i \in Elements(call.set)}
  BY DEF Listed, Elements
<1>8. Listed' = {Append(call.path, i) : i \in Elements(set)}
  BY <1>6 DEF Listed, Elements
<1>9. Listed' = Listed \cup {x \in {o} : IsInstance(o, call.path)}
  BY <1>5, <1>7, <1>8
<1>10. TypeOK'
  <2>1. call'.line <= Len(file) /\ file # NoFile
    BY <1>1, <1>3, <1>6 DEF ListInv, TypeOK
  <2>2. QED
    BY <1>1, <1>6, <2>1 DEF ListInv, TypeOK
<1>11. ReadingInv'
  <2>1. Listed' \subseteq call'.ever
    BY <1>1, <1>4, <1>6, <1>9 DEF ListInv, ReadingInv
  <2>2. ASSUME NEW k \in 1..n, IsInstance(file[k], call.path)
        PROVE  file[k] \in Listed'
    <3>1. CASE k = n
      BY <1>9, <2>2, <3>1 DEF o
    <3>2. CASE k # n
      BY <1>1, <1>2, <1>9, <2>2, <3>2 DEF ListInv, ReadingInv
    <3>3. QED
      BY <3>1, <3>2
  <2>3. QED
    BY <1>1, <1>5, <1>6, <2>1, <2>2 DEF ListInv, ReadingInv
<1>12. QED
  BY <1>6, <1>10, <1>11 DEF ListInv, ListingInv, ListExact

LEMMA CloseFileListInv == ListInv /\ CloseFile => ListInv'
<1> SUFFICES ASSUME ListInv, CloseFile PROVE ListInv'
  OBVIOUS
<1>1. Goes("reading", "closed") /\ call.line = Len(file) /\ file' = NoFile
  BY DEF CloseFile
<1>2. call.pc = "reading" /\ file \in Seq(Object)
  BY <1>1 DEF Goes, ListInv, TypeOK
<1>3. TypeOK'
  BY <1>1, GoesFacts DEF ListInv, TypeOK
<1>4. \A o \in Elements(file) : IsInstance(o, call.path) => o \in Listed
  <2>1. DOMAIN file = 1..call.line
    BY <1>1, <1>2, LenProperties
  <2>2. QED
    BY <1>2, <2>1 DEF ListInv, ReadingInv, Elements
<1>5. ListExact'
  <2>1. /\ Distinct(call.set)
        /\ Listed \subseteq call.ever
        /\ \A o \in call.always : IsInstance(o, call.path) => o \in Listed
    BY <1>2, <1>4 DEF ListInv, ReadingInv
  <2>2. QED
    BY <1>1, <2>1, GoesFacts DEF ListInv, ListExact, Distinct
<1>6. QED
  BY <1>1, <1>3, <1>5, GoesFacts DEF ListInv, ListingInv, ReadingInv

LEMMA ReturnListInv == ListInv /\ Return => ListInv'
<1> SUFFICES ASSUME ListInv, Return PROVE ListInv'
  OBVIOUS
<1>1. /\ call.pc \in {"closed", "failed"}
      /\ call' = NoCall
      /\ UNCHANGED <<bus, unsent, changes, subscribed, notifs, cmdFound, file>>
  BY DEF Return, agentVars, hearVars, listVars
<1>2. NoCall \in CallState /\ NoCall.pc = "idle"
  <2>1. {} \in SUBSET Object /\ 0 \in Nat /\ FALSE \in BOOLEAN /\ NoArgs \in Args \cup {NoArgs}
        /\ <<>> \in Seq(Element) /\ <<>> \in Seq(Number)
    OBVIOUS
  <2>2. QED
    BY <2>1 DEF NoCall, CallState
<1>3. /\ known' \subseteq Object
      /\ covered' \subseteq Seq(Element)
      /\ missed' \subseteq Object
  <2>1. CASE call.pc = "failed"
    BY <2>1 DEF Return, pluginVars, ListInv, TypeOK
  <2>2. CASE call.pc = "closed"
    <3>1. Listed \subseteq Object
      BY <2>2 DEF ListInv, TypeOK, CallState, ListExact
    <3>2. /\ known' = known \cup Listed
          /\ covered' \subseteq covered \cup {call.path}
          /\ missed' \subseteq missed
      BY <2>2 DEF Return
    <3>3. QED
      BY <3>1, <3>2 DEF ListInv, TypeOK, CallState
  <2>3. QED
    BY <1>1, <2>1, <2>2
<1>4. TypeOK'
  BY <1>1, <1>2, <1>3 DEF ListInv, TypeOK
<1>5. QED
  BY <1>1, <1>2, <1>4, NoCallListInv

LEMMA NextListInv == ListInv /\ [Next]_vars => ListInv'
BY AppearsListInv, DisappearsListInv, OtherListInv, CallBeginsListInv, CommandListInv,
   OpenFileListInv, ReadLineListInv, CloseFileListInv, ReturnListInv
DEF Next

LEMMA ListInvariant == Spec => []ListInv
BY InitListInv, NextListInv, PTL DEF Spec

\* Every variable of UbusList keeps its type; the file that is read is there.
THEOREM TypeCorrect == Spec => []TypeOK
<1>1. ListInv => TypeOK
  BY DEF ListInv
<1>2. QED
  BY <1>1, ListInvariant, PTL

\* Whatever comes and goes while the command runs, whatever an earlier process
\* left in the file: the list has each index once, none of an instance that did
\* not exist, and all that existed all the time.
THEOREM ListsAreExact == Spec => []ListExact
<1>1. ListInv => ListExact
  BY DEF ListInv
<1>2. QED
  BY <1>1, ListInvariant, PTL

-----------------------------------------------------------------------------
(* Lists and announcements. *)

LEMMA InitNewsInv == Init => NewsInv
BY EmptySeq DEF Init, NewsInv, UnsentFits, Followed, YoungestFits, NoCall

\* Steps of the call.
LEMMA CallNews ==
    ASSUME NewsInv, UNCHANGED <<bus, unsent, notifs, known, covered, missed>>,
           \/ call'.pc \in {"idle", "failed"}
           \/ /\ call.pc \notin {"idle", "failed"}
              /\ call'.always = call.always
              /\ call'.ever = call.ever
           \/ call'.always = bus /\ call'.ever = bus
    PROVE  NewsInv'
<1>1. UnsentFits'
  BY DEF NewsInv, UnsentFits
<1>2. ASSUME NEW o \in Object
      PROVE  Followed(o)'
  <2>1. Followed(o)
    BY DEF NewsInv
  <2>2. (Heralded(o)' <=> Heralded(o)) /\ (YoungestFits(o)' <=> YoungestFits(o))
    BY DEF Heralded, Announced, YoungestFits
  <2>3. QED
    BY <2>1, <2>2 DEF Followed
<1>3. QED
  BY <1>1, <1>2 DEF NewsInv

\* The agent has changed o, and an announcement of it to send.
LEMMA EditNews ==
    ASSUME TypeOK, NewsInv, NEW o \in Object, NEW kind \in {"added", "removed"}, Edit(kind, o),
           bus' = IF kind = "added" THEN bus \cup {o} ELSE bus \ {o},
           call'.pc = call.pc,
           call'.always \ {o} = call.always \ {o}, o \in call'.always => o \in bus',
           call'.ever \ {o} = call.ever \ {o}
    PROVE  NewsInv'
<1>1. /\ unsent = {}
      /\ unsent' = {[kind |-> kind, obj |-> o]}
      /\ UNCHANGED <<notifs, known, covered, missed>>
  BY DEF Edit, hearVars, pluginVars
<1>2. UnsentFits'
  BY <1>1 DEF UnsentFits
<1>3. Followed(o)'
  <2>1. Announced(o)' /\ YoungestFits(o)'
    BY <1>1 DEF Announced, YoungestFits
  <2>2. QED
    BY <2>1 DEF Followed, Heralded
<1>4. ASSUME NEW p \in Object, p # o
      PROVE  Followed(p)'
  <2>1. Followed(p)
    BY DEF NewsInv
  <2>2. Announced(p)' <=> Announced(p)
    BY <1>1, <1>4 DEF Announced
  <2>3. /\ p \in bus' <=> p \in bus
        /\ p \in call'.always <=> p \in call.always
        /\ p \in call'.ever <=> p \in call.ever
    BY <1>4
  <2>4. YoungestFits(p)'
    BY <1>1, <2>1, <2>3 DEF Followed, YoungestFits
  <2>5. QED
    BY <1>1, <2>1, <2>2, <2>3, <2>4 DEF Followed, Heralded
<1>5. QED
  BY <1>2, <1>3, <1>4 DEF NewsInv

\* What an agent sends comes in behind the rest, and stays announced.
LEMMA AnnounceFacts ==
    ASSUME TypeOK, NewsInv, Announce
    PROVE  \E n \in unsent :
               /\ \A m \in unsent : m = n
               /\ unsent' = {}
               /\ UNCHANGED <<bus, call, known, covered, missed>>
               /\ Len(notifs) \in Nat
               /\ Len(notifs') = Len(notifs) + 1
               /\ \A k \in 1..Len(notifs) : notifs'[k] = notifs[k]
               /\ notifs'[Len(notifs) + 1] = n
               /\ \A o \in Object : Announced(o)' <=> Announced(o)
<1>1. PICK n \in unsent : notifs' = Append(notifs, n)
  BY DEF Announce
<1>2. unsent' = {} /\ UNCHANGED <<bus, call, known, covered, missed>>
  BY DEF Announce, pluginVars
<1>3. \A m \in unsent : m = n
  BY DEF NewsInv, UnsentFits
<1> DEFINE new == notifs'
           last == Len(notifs) + 1
<1>4. /\ Len(notifs) \in Nat
      /\ Len(new) = last
      /\ DOMAIN notifs = 1..Len(notifs)
      /\ DOMAIN new = 1..last
      /\ \A k \in 1..Len(notifs) : new[k] = notifs[k]
      /\ new[last] = n
  <2>1. notifs \in Seq(Announcement) /\ n \in Announcement
    BY DEF TypeOK
  <2>2. QED
    BY <1>1, <2>1, AppendFacts
<1> HIDE DEF new
<1>5. ASSUME NEW o \in Object
      PROVE  Announced(o)' <=> Announced(o)
  <2>1. (\E k \in 1..last : new[k].obj = o)
            <=> n.obj = o \/ \E k \in 1..Len(notifs) : notifs[k].obj = o
    BY <1>4
  <2>2. QED
    BY <1>2, <1>3, <1>4, <2>1 DEF Announced, new
<1>6. QED
  BY <1>2, <1>3, <1>4, <1>5 DEF new

LEMMA AnnounceNews == TypeOK /\ NewsInv /\ Announce => NewsInv'
<1> SUFFICES ASSUME TypeOK, NewsInv, Announce PROVE NewsInv'
  OBVIOUS
<1> DEFINE new == notifs'
           last == Len(notifs) + 1
<1>1. PICK n \in unsent :
          /\ \A m \in unsent : m = n
          /\ unsent' = {}
          /\ UNCHANGED <<bus, call, known, covered, missed>>
          /\ Len(notifs) \in Nat
          /\ Len(new) = last
          /\ \A k \in 1..Len(notifs) : new[k] = notifs[k]
          /\ new[last] = n
          /\ \A o \in Object : Announced(o)' <=> Announced(o)
  BY AnnounceFacts
<1> HIDE DEF new
<1>2. n.kind = "added" <=> n.obj \in bus
  BY DEF NewsInv, UnsentFits
<1>3. ASSUME NEW o \in Object
      PROVE  Followed(o)'
  <2>1. Followed(o)
    BY DEF NewsInv
  <2>2. YoungestFits(o)'
    <3>1. SUFFICES ASSUME o \notin missed, NEW k \in 1..last, new[k].obj = o,
                          \A j \in k + 1..last : new[j].obj # o
                   PROVE  new[k].kind = "added" <=> o \in bus
      BY <1>1 DEF YoungestFits, new
    <3>2. CASE k = last
      BY <1>1, <1>2, <3>1, <3>2
    <3>3. CASE k # last
      <4>1. k \in 1..Len(notifs) /\ last \in k + 1..last
        BY <1>1, <3>3
      <4>2. n.obj # o
        BY <1>1, <3>1, <4>1
      <4>3. /\ notifs[k] = new[k]
            /\ \A j \in k + 1..Len(notifs) : notifs[j].obj # o
        BY <1>1, <3>1, <4>1
      <4>4. QED
        BY <1>1, <2>1, <3>1, <4>1, <4>2, <4>3 DEF Followed, YoungestFits
    <3>4. QED
      BY <3>2, <3>3
  <2>3. QED
    BY <1>1, <2>1, <2>2 DEF Followed, Heralded
<1>4. UnsentFits'
  BY <1>1 DEF UnsentFits
<1>5. QED
  BY <1>3, <1>4 DEF NewsInv

LEMMA LoseNews == TypeOK /\ NewsInv /\ LoseAnnouncement => NewsInv'
<1> SUFFICES ASSUME TypeOK, NewsInv, LoseAnnouncement PROVE NewsInv'
  OBVIOUS
<1>1. PICK n \in unsent : missed' = missed \cup {n.obj}
  BY DEF LoseAnnouncement
<1>2. unsent' = {} /\ UNCHANGED <<bus, notifs, call, known, covered>>
  BY DEF LoseAnnouncement, hearVars
<1>3. \A m \in unsent : m = n
  BY DEF NewsInv, UnsentFits
<1>4. ASSUME NEW o \in Object
      PROVE  Followed(o)'
  <2>1. Followed(o)
    BY DEF NewsInv
  <2>2. YoungestFits(o)'
    BY <1>1, <1>2, <1>3, <2>1 DEF Followed, YoungestFits
  <2>3. Heralded(o) => Heralded(o)'
    BY <1>1, <1>2, <1>3 DEF Heralded, Announced
  <2>4. QED
    BY <1>2, <2>1, <2>2, <2>3 DEF Followed
<1>5. UnsentFits'
  BY <1>2 DEF UnsentFits
<1>6. QED
  BY <1>4, <1>5 DEF NewsInv

\* The oldest announcement leaves the queue; if nothing else tells of its object, it
\* tells the truth.
LEMMA DispatchFacts ==
    ASSUME TypeOK, NewsInv, NEW kind, Dispatch(kind), missed \subseteq missed', NEW o \in Object
    PROVE  /\ YoungestFits(o)'
           /\ o # Head(notifs).obj => (Announced(o)' <=> Announced(o))
           /\ (o = Head(notifs).obj /\ ~Heralded(o)') => (kind = "added" <=> o \in bus)
<1> DEFINE new == notifs'
           len == Len(notifs)
<1>1. /\ notifs' = Tail(notifs)
      /\ notifs # <<>>
      /\ Head(notifs).kind = kind
      /\ UNCHANGED <<bus, unsent>>
  BY DEF Dispatch, agentVars
<1>2. /\ len \in Nat \ {0}
      /\ Head(notifs) = notifs[1]
      /\ Len(new) = len - 1
      /\ DOMAIN notifs = 1..len
      /\ DOMAIN new = 1..len - 1
      /\ \A k \in 1..len - 1 : new[k] = notifs[k + 1]
  <2>1. notifs \in Seq(Announcement)
    BY DEF TypeOK
  <2>2. QED
    BY <1>1, <2>1, TailFacts
<1> HIDE DEF new, len
<1>3. \A k \in 2..len : k - 1 \in 1..len - 1 /\ new[k - 1] = notifs[k]
  BY <1>2
<1>4. YoungestFits(o)
  BY DEF NewsInv, Followed
<1>5. YoungestFits(o)'
  <2>1. SUFFICES ASSUME o \notin missed, \A n \in unsent : n.obj # o,
                        NEW k \in 1..len - 1, new[k].obj = o,
                        \A j \in k + 1..len - 1 : new[j].obj # o
                 PROVE  new[k].kind = "added" <=> o \in bus
    BY <1>1, <1>2 DEF YoungestFits, new
  <2>2. k + 1 \in 1..len /\ notifs[k + 1] = new[k]
    BY <1>2
  <2>3. ASSUME NEW j \in k + 2..len
        PROVE  notifs[j].obj # o
    <3>1. j \in 2..len /\ j - 1 \in k + 1..len - 1
      BY <1>2
    <3>2. QED
      BY <1>3, <2>1, <3>1
  <2>4. \A j \in (k + 1) + 1..len : notifs[j].obj # o
    BY <1>2, <2>3
  <2>5. QED
    BY <1>4, <2>1, <2>2, <2>4 DEF YoungestFits, len
<1>6. ASSUME o # Head(notifs).obj
      PROVE  Announced(o)' <=> Announced(o)
  <2>1. (\E k \in 1..len - 1 : new[k].obj = o) => \E k \in 1..len : notifs[k].obj = o
    BY <1>2
  <2>2. ASSUME NEW k \in 1..len, notifs[k].obj = o
        PROVE  \E j \in 1..len - 1 : new[j].obj = o
    <3>1. k # 1
      BY <1>2, <1>6, <2>2
    <3>2. k \in 2..len
      BY <1>2, <3>1
    <3>3. QED
      BY <1>3, <2>2, <3>2
  <2>3. QED
    BY <1>1, <1>2, <2>1, <2>2 DEF Announced, new
<1>7. ASSUME o = Head(notifs).obj, ~Heralded(o)'
      PROVE  kind = "added" <=> o \in bus
  <2>1. /\ o \notin missed
        /\ \A n \in unsent : n.obj # o
        /\ \A k \in 1..len - 1 : new[k].obj # o
    BY <1>1, <1>2, <1>7 DEF Heralded, Announced, new
  <2>2. 1 \in 1..len /\ notifs[1].obj = o
    BY <1>2, <1>7
  <2>3. \A j \in 1 + 1..len : notifs[j].obj # o
    <3>1. \A j \in 2..len : notifs[j].obj # o
      BY <1>3, <2>1
    <3>2. QED
      BY <3>1
  <2>4. QED
    BY <1>1, <1>2, <1>4, <2>1, <2>2, <2>3 DEF YoungestFits, len
<1>8. QED
  BY <1>5, <1>6, <1>7

LEMMA HandleAddedNews == TypeOK /\ NewsInv /\ HandleAdded => NewsInv'
<1> SUFFICES ASSUME TypeOK, NewsInv, HandleAdded PROVE NewsInv'
  OBVIOUS
<1> DEFINE x == Head(notifs).obj
<1>1. /\ Dispatch("added")
      /\ known' \subseteq known \cup {x}
      /\ known \subseteq known'
      /\ missed \subseteq missed'
      /\ x \in bus => x \in known' \cup missed'
  BY DEF HandleAdded
<1>2. call.pc = "idle" /\ UNCHANGED <<bus, unsent, call, covered>>
  BY <1>1 DEF Dispatch, agentVars
<1>3. ASSUME NEW o \in Object
      PROVE  Followed(o)'
  <2>1. Followed(o)
    BY DEF NewsInv
  <2>2. /\ YoungestFits(o)'
        /\ o # x => (Announced(o)' <=> Announced(o))
        /\ (o = x /\ ~Heralded(o)') => o \in bus
    BY <1>1, DispatchFacts
  <2> HIDE DEF x
  <2>3. CASE o = x
    BY <1>1, <1>2, <2>2, <2>3 DEF Followed, Heralded
  <2>4. CASE o # x
    BY <1>1, <1>2, <2>1, <2>2, <2>4 DEF Followed, Heralded
  <2>5. QED
    BY <2>3, <2>4
<1>4. QED
  BY <1>2, <1>3 DEF NewsInv, UnsentFits

LEMMA HandleRemovedNews == TypeOK /\ NewsInv /\ HandleRemoved => NewsInv'
<1> SUFFICES ASSUME TypeOK, NewsInv, HandleRemoved PROVE NewsInv'
  OBVIOUS
<1> DEFINE x == Head(notifs).obj
<1>1. Dispatch("removed") /\ known' = known \ {x} /\ missed' = missed
  BY DEF HandleRemoved
<1>2. call.pc = "idle" /\ UNCHANGED <<bus, unsent, call, covered>>
  BY <1>1 DEF Dispatch, agentVars
<1>3. ASSUME NEW o \in Object
      PROVE  Followed(o)'
  <2>1. Followed(o)
    BY DEF NewsInv
  <2>2. /\ YoungestFits(o)'
        /\ o # x => (Announced(o)' <=> Announced(o))
        /\ (o = x /\ ~Heralded(o)') => o \notin bus
    BY <1>1, DispatchFacts
  <2> HIDE DEF x
  <2>3. CASE o = x
    BY <1>1, <1>2, <2>2, <2>3 DEF Followed
  <2>4. CASE o # x
    BY <1>1, <1>2, <2>1, <2>2, <2>4 DEF Followed, Heralded
  <2>5. QED
    BY <2>3, <2>4
<1>4. QED
  BY <1>2, <1>3 DEF NewsInv, UnsentFits

\* The plugin gets what was there all the time, so that a loss no longer matters;
\* what came and went in the meantime is announced.
LEMMA ReturnNews == ListInv /\ NewsInv /\ Return => NewsInv'
<1> SUFFICES ASSUME ListInv, NewsInv, Return PROVE NewsInv'
  OBVIOUS
<1>1. /\ call.pc \in {"closed", "failed"}
      /\ call'.pc = "idle"
      /\ UNCHANGED <<bus, unsent, notifs>>
  BY DEF Return, agentVars, hearVars, NoCall
<1>2. CASE call.pc = "failed"
  BY <1>1, <1>2, CallNews DEF Return, pluginVars
<1>3. CASE call.pc = "closed"
  <2>1. /\ known' = known \cup Listed
        /\ covered' \subseteq covered \cup {call.path}
        /\ missed' = {o \in missed : o \in call.always /\ IsInstance(o, call.path)
                                         => Announced(o)}
    BY <1>3 DEF Return
  <2>2. /\ Listed \subseteq call.ever
        /\ \A o \in call.always : IsInstance(o, call.path) => o \in Listed
    BY <1>3 DEF ListInv, ListExact
  <2> HIDE DEF Listed
  <2>3. ASSUME NEW o \in Object
        PROVE  Followed(o)'
    <3>1. Followed(o)
      BY DEF NewsInv
    <3>2. /\ o \in call.always => o \in bus
          /\ o \in call.ever => o \in bus \/ Heralded(o)
          /\ o \in bus => o \in call.always \/ Heralded(o)
      BY <1>3, <3>1 DEF Followed
    <3>3. Announced(o)' <=> Announced(o)
      BY <1>1 DEF Announced
    <3>4. Heralded(o) => Heralded(o)' \/ (o \in bus /\ o \in Listed)
      BY <2>1, <2>2, <3>2, <3>3 DEF Heralded
    <3>5. YoungestFits(o)'
      <4>1. CASE o \in missed' \/ o \notin missed
        BY <1>1, <2>1, <3>1, <4>1 DEF Followed, YoungestFits
      <4>2. CASE o \in missed /\ o \notin missed'
        <5>1. ~Announced(o)
          BY <2>1, <4>2
        <5>2. \A k \in 1..Len(notifs) : notifs[k].obj # o
          <6>1. DOMAIN notifs = 1..Len(notifs)
            BY LenProperties DEF ListInv, TypeOK
          <6>2. QED
            BY <5>1, <6>1 DEF Announced
        <5>3. QED
          BY <1>1, <5>2 DEF YoungestFits
      <4>3. QED
        BY <4>1, <4>2
    <3>6. o \in known' => o \in bus \/ Heralded(o)'
      BY <2>1, <2>2, <3>1, <3>2, <3>4 DEF Followed
    <3>7. ASSUME NEW path \in covered', o \in bus, IsInstance(o, path)
          PROVE  o \in known' \/ Heralded(o)'
      <4>1. CASE path = call.path
        BY <2>1, <2>2, <3>2, <3>4, <3>7, <4>1
      <4>2. CASE path # call.path
        BY <2>1, <3>1, <3>4, <3>7, <4>2 DEF Followed
      <4>3. QED
        BY <4>1, <4>2
    <3>8. QED
      BY <1>1, <3>5, <3>6, <3>7 DEF Followed
  <2>4. QED
    BY <1>1, <2>3 DEF NewsInv, UnsentFits
<1>4. QED
  BY <1>1, <1>2, <1>3

\* The announcement an agent has still to send outlives the process of the plugin.
LEMMA EndsNews == NewsInv /\ ProcessEnds => NewsInv'
<1> SUFFICES ASSUME NewsInv, ProcessEnds PROVE NewsInv'
  OBVIOUS
<1>1. /\ UNCHANGED <<bus, unsent>>
      /\ notifs' = <<>>
      /\ call'.pc = "idle"
      /\ known' = {}
      /\ covered' = {}
  BY DEF ProcessEnds, agentVars, NoCall
<1>2. \A o \in Object : Followed(o)'
  BY <1>1 DEF Followed, YoungestFits
<1>3. QED
  BY <1>1, <1>2 DEF NewsInv, UnsentFits

LEMMA ChangeNews == TypeOK /\ NewsInv /\ (Appears \/ Disappears) => NewsInv'
<1> SUFFICES ASSUME TypeOK, NewsInv, Appears \/ Disappears PROVE NewsInv'
  OBVIOUS
<1>1. CASE Appears
  <2>1. PICK o \in Coming \ bus :
            /\ Edit("added", o)
            /\ bus' = bus \cup {o}
            /\ \E new \in SUBSET {o} :
                  call' = [call EXCEPT !.todo = @ \cup new, !.ever = @ \cup {o}]
    BY <1>1 DEF Appears
  <2>2. /\ call'.pc = call.pc
        /\ call'.always = call.always
        /\ call'.ever = call.ever \cup {o}
    BY <2>1 DEF TypeOK, CallState
  <2>3. o \in Object
    BY DEF Object
  <2>4. QED
    BY <2>1, <2>2, <2>3, EditNews
<1>2. CASE Disappears
  <2>1. PICK o \in Coming \cap bus :
            /\ Edit("removed", o)
            /\ bus' = bus \ {o}
            /\ \E gone \in SUBSET {o} :
                  call' = [call EXCEPT !.todo = @ \ gone, !.always = @ \ {o}]
    BY <1>2 DEF Disappears
  <2>2. /\ call'.pc = call.pc
        /\ call'.always = call.always \ {o}
        /\ call'.ever = call.ever
    BY <2>1 DEF TypeOK, CallState
  <2>3. o \in Object
    BY DEF Object
  <2>4. QED
    BY <2>1, <2>2, <2>3, EditNews
<1>3. QED
  BY <1>1, <1>2

\* Until a list is returned the plugin learns nothing from the call.
Proceeds ==
    \/ Subscribe \/ List \/ Refuse \/ CommandPrints \/ CommandEnds \/ CommandFails
    \/ OpenFile \/ ReadLine \/ CloseFile

LEMMA ThreadFacts ==
    ASSUME Proceeds
    PROVE  UNCHANGED <<bus, unsent, notifs, known, covered, missed>>
<1>1. ASSUME NEW from, NEW to, Goes(from, to)
      PROVE  UNCHANGED <<bus, unsent, notifs, known, covered, missed>>
  BY <1>1 DEF Goes, agentVars, hearVars, pluginVars
<1>2. QED
  BY <1>1
  DEF Proceeds, Subscribe, List, Refuse, CommandPrints, CommandEnds, CommandFails, OpenFile,
      ReadLine, CloseFile, agentVars, hearVars, pluginVars

LEMMA ThreadNews ==
    ASSUME TypeOK, NewsInv, Proceeds
    PROVE  NewsInv'
<1>1. UNCHANGED <<bus, unsent, notifs, known, covered, missed>>
  BY ThreadFacts
<1>2. ASSUME call.pc \notin {"idle", "failed"}, call'.always = call.always,
             call'.ever = call.ever
      PROVE  NewsInv'
  BY <1>1, <1>2, CallNews
<1>3. CASE Subscribe
  <2>1. call.pc = "idle" /\ call' = call
    BY <1>3 DEF Subscribe
  <2>2. QED
    BY <1>1, <2>1, CallNews
<1>4. CASE List
  <2>1. PICK a \in Args : call' = Begin(a)
    BY <1>4 DEF List
  <2>2. call'.always = bus /\ call'.ever = bus
    BY <2>1 DEF Begin
  <2>3. QED
    BY <1>1, <2>2, CallNews
<1>5. CASE Refuse
  <2>1. call'.pc = "failed"
    BY <1>5 DEF Refuse, NoCall
  <2>2. QED
    BY <1>1, <2>1, CallNews
<1>6. CASE CommandPrints
  <2>1. PICK o \in call.todo :
            call.pc = "listing" /\ call' = [call EXCEPT !.todo = @ \ {o}]
    BY <1>6 DEF CommandPrints
  <2>2. call'.always = call.always /\ call'.ever = call.ever
    BY <2>1 DEF TypeOK, CallState
  <2>3. QED
    BY <1>2, <2>1, <2>2
<1>7. CASE CommandEnds \/ CommandFails \/ OpenFile \/ CloseFile
  <2>1. PICK from \in {"listing", "listed", "reading"},
             to \in {"listed", "reading", "closed", "failed"} : Goes(from, to)
    BY <1>7 DEF CommandEnds, CommandFails, OpenFile, CloseFile
  <2>2. QED
    BY <1>2, <2>1, GoesFacts
<1>8. CASE ReadLine
  <2>1. /\ call.pc = "reading"
        /\ \E set : call' = [call EXCEPT !.line = @ + 1, !.set = set]
    BY <1>8 DEF ReadLine
  <2>2. call'.always = call.always /\ call'.ever = call.ever
    BY <2>1 DEF TypeOK, CallState
  <2>3. QED
    BY <1>2, <2>1, <2>2
<1>9. QED
  BY <1>3, <1>4, <1>5, <1>6, <1>7, <1>8 DEF Proceeds

LEMMA NextNewsInv == ListInv /\ NewsInv /\ [Next]_vars => NewsInv'
<1> SUFFICES ASSUME ListInv, NewsInv, [Next]_vars PROVE NewsInv'
  OBVIOUS
<1>1. TypeOK
  BY DEF ListInv
<1>2. CASE UNCHANGED vars
  BY <1>2
  DEF vars, agentVars, hearVars, pluginVars, NewsInv, UnsentFits, Followed, YoungestFits, Heralded,
      Announced
<1>3. CASE Next
  BY <1>1, <1>3, ChangeNews, AnnounceNews, LoseNews, EndsNews, HandleAddedNews,
     HandleRemovedNews, ReturnNews, ThreadNews DEF Next, Proceeds
<1>4. QED
  BY <1>2, <1>3

LEMMA NewsInvariant == Spec => [](ListInv /\ NewsInv)
BY InitListInv, InitNewsInv, NextListInv, NextNewsInv, PTL DEF Spec

\* An instance of a template that was listed under a subscription is known to the
\* plugin, or an announcement of it is under way, or one was lost: none falls
\* between the answer of get_list_of_instances() and notif_handler().
THEOREM InstancesAreCovered == Spec => []InstancesCovered
<1>1. ListInv /\ NewsInv => InstancesCovered
  <2>1. ListInv => bus \subseteq Object
    BY DEF ListInv, TypeOK
  <2>2. QED
    BY <2>1 DEF NewsInv, Followed, Heralded, InstancesCovered
<1>2. QED
  BY <1>1, NewsInvariant, PTL

\* What the plugin knows and the bus no longer has is announced to be gone, or the
\* announcement was lost: a list that was out of date when it was returned is put
\* right.
THEOREM GhostsAreAnnounced == Spec => []GhostsAnnounced
<1>1. ListInv /\ NewsInv => GhostsAnnounced
  <2>1. ListInv => known \subseteq Object
    BY DEF ListInv, TypeOK
  <2>2. QED
    BY <2>1 DEF NewsInv, Followed, Heralded, GhostsAnnounced
<1>2. QED
  BY <1>1, NewsInvariant, PTL

-----------------------------------------------------------------------------
(* Lists and announcements implement DmMirror. *)

Covered(o) == \E path \in covered : IsInstance(o, path)

LEMMA StandingOf ==
    ASSUME NEW o \in Object
    PROVE  /\ Standing[o] = IF o \in missed \/ ~Covered(o) THEN "missed"
                            ELSE IF Announced(o) THEN "pending" ELSE "current"
           /\ Standing'[o] = IF o \in missed' \/ ~Covered(o)' THEN "missed"
                             ELSE IF Announced(o)' THEN "pending" ELSE "current"
BY DEF Standing, Covered

LEMMA DataOf ==
    ASSUME NEW S, NEW o \in Object
    PROVE  Data(S)[o] = IF o \in S THEN 0 ELSE -1
BY DEF Data

LEMMA MirrorTypes ==
    ASSUME NEW S
    PROVE  /\ Data(S) \in [Object -> Mirror!Value]
           /\ Standing \in [Object -> {"current", "pending", "missed"}]
           /\ Standing' \in [Object -> {"current", "pending", "missed"}]
BY DEF Data, Standing, Mirror!Value

LEMMA MirrorTypeOK == Mirror!TypeOK /\ (Mirror!TypeOK)'
<1>1. Data(bus) \in [Object -> Mirror!Value] /\ Data(known) \in [Object -> Mirror!Value]
  BY MirrorTypes
<1>2. Data(bus)' \in [Object -> Mirror!Value] /\ Data(known)' \in [Object -> Mirror!Value]
  BY DEF Data, Mirror!Value
<1>3. QED
  BY <1>1, <1>2, MirrorTypes DEF Mirror!TypeOK

\* An instance that is current is known if it exists, and not otherwise.
LEMMA CurrentExact ==
    ASSUME NewsInv, NEW o \in Object, Standing[o] = "current"
    PROVE  o \in known <=> o \in bus
<1>1. o \notin missed /\ Covered(o) /\ ~Announced(o)
  BY StandingOf
<1>2. QED
  BY <1>1 DEF Covered, NewsInv, Followed, Heralded

LEMMA CurrentExactNext ==
    ASSUME NewsInv', NEW o \in Object, Standing'[o] = "current"
    PROVE  o \in known' <=> o \in bus'
<1>1. o \notin missed' /\ Covered(o)' /\ ~Announced(o)'
  BY StandingOf
<1>2. QED
  BY <1>1 DEF Covered, NewsInv, Followed, Heralded

\* Nothing DmMirror sees of o changes.
LEMMA StaysIf ==
    ASSUME NEW o \in Object, o \in bus' <=> o \in bus, o \in known' <=> o \in known,
           Standing'[o] = Standing[o]
    PROVE  Mirror!Stays(o)
<1>1. Data(bus)'[o] = Data(bus)[o] /\ Data(known)'[o] = Data(known)[o]
  BY DEF Data
<1>2. QED
  BY <1>1 DEF Mirror!Stays

\* The plugin is told something about an instance it was not sure of.
LEMMA TellIf ==
    ASSUME NewsInv', NEW o \in Object, bus' = bus, Standing[o] # "current",
           Standing'[o] \in {Standing[o], "pending", "current"}
    PROVE  Mirror!Tell(o)
<1>1. /\ Data(bus)'[o] = Data(bus)[o]
      /\ Data(bus)[o] \in {0, -1}
      /\ Data(known)[o] \in {0, -1}
      /\ Data(known)'[o] \in {0, -1}
  BY DEF Data
<1>2. Standing'[o] = "current" => Data(known)'[o] = Data(bus)[o]
  BY CurrentExactNext DEF Data
<1>3. QED
  BY <1>1, <1>2 DEF Mirror!Tell, Mirror!Forward

\* A step that only announces or loses something about o, or does nothing.
LEMMA OneMoves ==
    ASSUME NEW o \in Object, Mirror!News(o) \/ Mirror!Lose(o) \/ Mirror!Stays(o),
           \A p \in Object \ {o} : Mirror!Stays(p)
    PROVE  Mirror!Next
<1>1. CASE Mirror!Stays(o)
  BY <1>1, MirrorTypeOK DEF Mirror!Next
<1>2. CASE Mirror!News(o) \/ Mirror!Lose(o)
  BY <1>2, MirrorTypeOK DEF Mirror!Next
<1>3. QED
  BY <1>1, <1>2

LEMMA ChangeMirrors == TypeOK /\ (Appears \/ Disappears) => Mirror!Next
<1> SUFFICES ASSUME TypeOK, Appears \/ Disappears PROVE Mirror!Next
  OBVIOUS
<1>1. PICK o \in Coming, kind \in {"added", "removed"} :
          /\ Edit(kind, o)
          /\ bus' \ {o} = bus \ {o}
          /\ o \in bus <=> o \notin bus'
  BY DEF Appears, Disappears
<1>2. o \in Object
  BY DEF Object
<1>3. /\ unsent = {}
      /\ unsent' = {[kind |-> kind, obj |-> o]}
      /\ UNCHANGED <<notifs, known, covered, missed>>
  BY <1>1 DEF Edit, hearVars, pluginVars
<1>4. ASSUME NEW p \in Object \ {o}
      PROVE  Mirror!Stays(p)
  <2>1. (Announced(p)' <=> Announced(p)) /\ (Covered(p)' <=> Covered(p))
    BY <1>3 DEF Announced, Covered
  <2>2. Standing'[p] = Standing[p]
    BY <1>3, <2>1, StandingOf
  <2>3. QED
    BY <1>1, <1>3, <2>2, StaysIf
<1>5. Mirror!News(o)
  <2>1. Announced(o)' /\ (Covered(o)' <=> Covered(o))
    BY <1>3 DEF Announced, Covered
  <2>2. Standing'[o] = IF Standing[o] = "missed" THEN "missed" ELSE "pending"
    BY <1>2, <1>3, <2>1, StandingOf
  <2>3. /\ Data(known)'[o] = Data(known)[o]
        /\ Data(bus)[o] = -1 \/ Data(bus)'[o] = -1
    BY <1>1, <1>2, <1>3 DEF Data
  <2>4. QED
    BY <2>2, <2>3 DEF Mirror!News, Mirror!Forward
<1>6. QED
  BY <1>2, <1>4, <1>5, OneMoves

LEMMA AnnounceMirrors == TypeOK /\ NewsInv /\ Announce => Mirror!Next
<1> SUFFICES ASSUME TypeOK, NewsInv, Announce PROVE Mirror!Next
  OBVIOUS
<1>1. /\ UNCHANGED <<bus, known, covered, missed>>
      /\ \A o \in Object : Announced(o)' <=> Announced(o)
  BY AnnounceFacts
<1>2. \A o \in Object : Mirror!Stays(o)
  BY <1>1, StandingOf, StaysIf DEF Covered
<1>3. QED
  BY <1>2, MirrorTypeOK DEF Mirror!Next

LEMMA LoseMirrors == TypeOK /\ NewsInv /\ LoseAnnouncement => Mirror!Next
<1> SUFFICES ASSUME TypeOK, NewsInv, LoseAnnouncement PROVE Mirror!Next
  OBVIOUS
<1>1. PICK n \in unsent : missed' = missed \cup {n.obj}
  BY DEF LoseAnnouncement
<1>2. unsent' = {} /\ UNCHANGED <<bus, notifs, known, covered>>
  BY DEF LoseAnnouncement, hearVars
<1>3. \A m \in unsent : m = n
  BY DEF NewsInv, UnsentFits
<1>4. PICK o \in Object : o = n.obj
  BY DEF TypeOK, Announcement
<1>5. \A p \in Object : Covered(p)' <=> Covered(p)
  BY <1>2 DEF Covered
<1>6. ASSUME NEW p \in Object \ {o}
      PROVE  Mirror!Stays(p)
  <2>1. Announced(p)' <=> Announced(p)
    BY <1>2, <1>3, <1>4 DEF Announced
  <2>2. QED
    BY <1>1, <1>2, <1>4, <1>5, <2>1, StandingOf, StaysIf
<1>7. Mirror!Lose(o) \/ Mirror!Stays(o)
  <2>1. Announced(o) /\ Standing'[o] = "missed"
    BY <1>1, <1>4, StandingOf DEF Announced
  <2>2. CASE Standing[o] = "missed"
    BY <1>2, <2>1, <2>2, StaysIf
  <2>3. CASE Standing[o] # "missed"
    <3>1. Standing[o] = "pending"
      BY <2>1, <2>3, StandingOf
    <3>2. Data(bus)'[o] = Data(bus)[o] /\ Data(known)'[o] = Data(known)[o]
      BY <1>2 DEF Data
    <3>3. QED
      BY <2>1, <3>1, <3>2 DEF Mirror!Lose
  <2>4. QED
    BY <2>2, <2>3
<1>8. QED
  BY <1>6, <1>7, OneMoves

LEMMA HandleMirrors ==
    ASSUME TypeOK, NewsInv, NewsInv', HandleAdded \/ HandleRemoved
    PROVE  Mirror!Next
<1>1. PICK kind \in {"added", "removed"} : Dispatch(kind)
  BY DEF HandleAdded, HandleRemoved
<1>2. PICK x \in Object : x = Head(notifs).obj
  <2>1. Head(notifs) \in Announcement
    BY <1>1, TailFacts DEF Dispatch, TypeOK
  <2>2. QED
    BY <2>1 DEF Announcement
<1>3. /\ UNCHANGED <<bus, covered>>
      /\ known' \ {x} = known \ {x}
      /\ missed' \ {x} = missed \ {x}
      /\ missed \subseteq missed'
      /\ missed' = missed \/ known' = known
  BY <1>2 DEF HandleAdded, HandleRemoved, Dispatch, agentVars
<1>4. \A p \in Object : Covered(p)' <=> Covered(p)
  BY <1>3 DEF Covered
<1>5. ASSUME NEW p \in Object \ {x}
      PROVE  Mirror!Stays(p)
  <2>1. Announced(p)' <=> Announced(p)
    BY <1>1, <1>2, <1>3, DispatchFacts
  <2>2. Standing'[p] = Standing[p]
    BY <1>3, <1>4, <2>1, StandingOf
  <2>3. QED
    BY <1>3, <2>2, StaysIf
<1>6. Announced(x)
  <2>1. notifs[1] = Head(notifs) /\ 1 \in DOMAIN notifs
    BY <1>1, TailFacts DEF Dispatch, TypeOK
  <2>2. QED
    BY <1>2, <2>1 DEF Announced
<1>7. CASE Standing'[x] \in {Standing[x], "pending", "current"}
  <2>1. Standing[x] # "current"
    BY <1>6, StandingOf
  <2>2. Mirror!Tell(x)
    BY <1>3, <1>7, <2>1, TellIf
  <2>3. QED
    BY <1>5, <2>2, MirrorTypeOK DEF Mirror!Next
<1>8. CASE Standing'[x] \notin {Standing[x], "pending", "current"}
  <2>1. Standing[x] = "pending" /\ Standing'[x] = "missed"
    BY <1>6, <1>8, StandingOf
  <2>2. known' = known
    BY <1>3, <1>4, <2>1, StandingOf
  <2>3. Data(bus)'[x] = Data(bus)[x] /\ Data(known)'[x] = Data(known)[x]
    BY <1>3, <2>2 DEF Data
  <2>4. Mirror!Lose(x)
    BY <2>1, <2>3 DEF Mirror!Lose
  <2>5. QED
    BY <1>5, <2>4, OneMoves
<1>9. QED
  BY <1>7, <1>8

\* The only step that tells of several instances.
LEMMA ReturnMirrors ==
    ASSUME ListInv, NewsInv, NewsInv', Return
    PROVE  Mirror!Next
<1>1. /\ call.pc \in {"closed", "failed"}
      /\ UNCHANGED <<bus, unsent, notifs>>
      /\ missed' \subseteq missed
      /\ covered \subseteq covered'
      /\ known \subseteq known'
  BY DEF Return, agentVars, hearVars, pluginVars
<1>2. \A o \in Object : (Announced(o)' <=> Announced(o)) /\ (Covered(o) => Covered(o)')
  BY <1>1 DEF Announced, Covered
<1>3. ASSUME NEW o \in Object
      PROVE  Mirror!Tell(o) \/ Mirror!Stays(o)
  <2>1. CASE Standing[o] = "current"
    <3>1. Standing'[o] = "current"
      BY <1>1, <1>2, <2>1, StandingOf
    <3>2. o \in known' <=> o \in known
      BY <1>1, <2>1, <3>1, CurrentExact, CurrentExactNext
    <3>3. QED
      BY <1>1, <2>1, <3>1, <3>2, StaysIf
  <2>2. CASE Standing[o] # "current"
    <3>1. Standing'[o] \in {Standing[o], "pending", "current"}
      BY <1>1, <1>2, <2>2, StandingOf
    <3>2. QED
      BY <1>1, <2>2, <3>1, TellIf
  <2>3. QED
    BY <2>1, <2>2
<1>4. QED
  BY <1>3, MirrorTypeOK DEF Mirror!Next

LEMMA EndMirrors == ProcessEnds => Mirror!Forget
<1> SUFFICES ASSUME ProcessEnds PROVE Mirror!Forget
  OBVIOUS
<1>1. bus' = bus /\ known' = {} /\ covered' = {}
  BY DEF ProcessEnds, agentVars
<1>2. \A o \in Object : Standing'[o] = "missed"
  BY <1>1, StandingOf DEF Covered
<1>3. Data(known)' = [o \in Object |-> -1] /\ Data(bus)' = Data(bus)
  BY <1>1 DEF Data
<1>4. QED
  BY <1>2, <1>3, MirrorTypeOK DEF Mirror!Forget, Mirror!KnowsNothing

LEMMA InitMirrors == Init => Mirror!Init
<1> SUFFICES ASSUME Init PROVE Mirror!Init
  OBVIOUS
<1>1. known = {} /\ covered = {}
  BY DEF Init
<1>2. \A o \in Object : Standing[o] = "missed"
  BY <1>1, StandingOf DEF Covered
<1>3. Data(known) = [o \in Object |-> -1]
  BY <1>1 DEF Data
<1>4. QED
  BY <1>2, <1>3, MirrorTypeOK DEF Mirror!Init, Mirror!KnowsNothing

\* Nothing that is seen changes.
LEMMA Unseen ==
    ASSUME UNCHANGED <<bus, unsent, notifs, known, covered, missed>>
    PROVE  UNCHANGED Mirror!vars
<1>1. Data(bus)' = Data(bus) /\ Data(known)' = Data(known)
  BY DEF Data
<1>2. Standing' = Standing
  BY DEF Standing, Announced
<1>3. QED
  BY <1>1, <1>2 DEF Mirror!vars

LEMMA NextMirrors ==
    ListInv /\ NewsInv /\ NewsInv' /\ [Next]_vars => [Mirror!Next \/ Mirror!Forget]_(Mirror!vars)
<1> SUFFICES ASSUME ListInv, NewsInv, NewsInv', [Next]_vars
             PROVE  Mirror!Next \/ Mirror!Forget \/ UNCHANGED Mirror!vars
  OBVIOUS
<1>1. TypeOK
  BY DEF ListInv
<1>2. CASE UNCHANGED vars
  BY <1>2, Unseen DEF vars, agentVars, hearVars, pluginVars
<1>3. CASE Proceeds
  BY <1>3, ThreadFacts, Unseen
<1>4. CASE Next /\ ~Proceeds
  BY <1>1, <1>4, ChangeMirrors, AnnounceMirrors, LoseMirrors, HandleMirrors, ReturnMirrors,
     EndMirrors DEF Next, Proceeds
<1>5. QED
  BY <1>2, <1>3, <1>4

\* What get_list_of_instances() and notif_handler() do together for the instances of
\* a template is what the fetches of objects do for their data: for any objects,
\* templates and changes, and through any number of processes, they keep the
\* promise of DmMirror.
THEOREM ListsImplementMirror == Spec => ImplementsMirror
BY InitMirrors, NextMirrors, NewsInvariant, PTL DEF Spec, ImplementsMirror, Mirror!SpecWithEnds

=============================================================================
