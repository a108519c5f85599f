------------------------------ MODULE UbusList ------------------------------
(***************************************************************************)
(* How the plugin learns which instances a template has: from the answer   *)
(* of get_list_of_instances(), and from the announcements of instances     *)
(* that come and go in the meantime.                                       *)
(*                                                                         *)
(* For every template but XPON.ONU (module OnuDiscovery) the module runs   *)
(* the command 'ubus list' with its output in a file, and reads the file   *)
(* back (ubus_prpl.c) into a set of indexes (set_of_indexes.c).  The       *)
(* thread of the plugin waits for the command; agents do not wait, so      *)
(* instances appear and disappear between any two steps.  The process may  *)
(* end at each step and start again; the file stays, and a command that    *)
(* was running is over before the new process lists.                       *)
(***************************************************************************)
EXTENDS DmInfo, Integers

CONSTANTS
    Fixed,        \* objects that are always on the bus, as prpl paths
    Coming,       \* instances that come and go
    Asked,        \* BBF paths the plugin asks about
    NoFile,
    MaxChanges    \* bound: appearances and disappearances in one behaviour

Object == Fixed \cup Coming

\* What paths are made of; some of it is in no table of DmInfo.
Element == Roots \cup PrplName \cup Number
               \cup UNION {{p[k] : k \in DOMAIN p} : p \in Object \cup Asked}

ASSUME ListAssumption ==
    /\ Fixed \cap Coming = {}
    /\ Object \cup Asked \subseteq Seq(Element)
    /\ <<>> \notin Asked
    /\ \A p \in Asked : GetObjectId(p) # "onu"   \* the list OnuDiscovery is about
    /\ NoFile \notin Seq(Object)
    /\ MaxChanges \in Nat

VARIABLES
    bus,         \* objects on the bus
    unsent,      \* the announcement an agent has still to send
    changes,     \* appearances and disappearances so far
    subscribed,  \* the module hears announcements
    notifs,      \* announcements received and not yet dispatched
    cmdFound,    \* s_ubus_cli_cmd is not NULL
    file,        \* the lines of UBUS_LIST_OUTPUT_FILE, or NoFile
    call,        \* the call of get_list_of_instances(), see TypeOK
    known,       \* instances the plugin knows of
    covered,     \* history: prpl paths listed while the module was subscribed
    missed       \* history: objects of which an announcement was lost

agentVars == <<bus, unsent, changes>>
hearVars == <<subscribed, notifs>>
listVars == <<cmdFound, file>>
pluginVars == <<known, covered, missed>>
vars == <<agentVars, hearVars, listVars, call, pluginVars>>

Announcement == [kind : {"added", "removed"}, obj : Object]

\* The variant passed as argument: a string, or a table with the key 'path'.
Args == [form : {"cstring", "htable"}, path : Asked]

NoArgs == [form |-> "none", path |-> <<>>]

\* pc: "listing" while system() runs, "listed" when it has returned 0, "reading"
\* with the file open, "closed" when the list is made.  path: what is listed.
\* todo: objects the command has still to print.  line: lines read.  set: the
\* set_of_indexes_t, a list.  The rest is history: objects on the bus at all
\* times, and at some time, of the call, and whether it began subscribed.
CallState ==
    [pc     : {"idle", "listing", "listed", "reading", "closed", "failed"},
     args   : Args \cup {NoArgs},
     path   : Seq(Element),
     todo   : SUBSET Object,
     line   : Nat,
     set    : Seq(Number),
     always : SUBSET Object,
     ever   : SUBSET Object,
     heard  : BOOLEAN]

TypeOK ==
    /\ Fixed \subseteq bus
    /\ bus \subseteq Object
    /\ unsent \subseteq Announcement
    /\ changes \in 0..MaxChanges
    /\ subscribed \in BOOLEAN
    /\ notifs \in Seq(Announcement)
    /\ cmdFound \in BOOLEAN
    /\ file \in Seq(Object) \cup {NoFile}
    /\ call \in CallState
    /\ call.pc = "reading" => file # NoFile /\ call.line <= Len(file)
    /\ known \subseteq Object
    /\ covered \subseteq Seq(Element)
    /\ missed \subseteq Object

NoCall == [pc |-> "idle", args |-> NoArgs, path |-> <<>>, todo |-> {}, line |-> 0, set |-> <<>>,
           always |-> {}, ever |-> {}, heard |-> FALSE]

\* A file may be left from an earlier process.
Init ==
    /\ bus = Fixed
    /\ unsent = {}
    /\ changes = 0
    /\ subscribed = FALSE
    /\ notifs = <<>>
    /\ cmdFound \in BOOLEAN
    /\ file \in {NoFile} \cup {<<o>> : o \in Coming}
    /\ call = NoCall
    /\ known = {}
    /\ covered = {}
    /\ missed = {}

\* The objects 'ubus list <path>*' prints; extract_indexes() drops whatever else
\* begins with the same characters.
Matches(o, path) == Len(o) >= Len(path) /\ SubSeq(o, 1, Len(path)) = path

IsInstance(o, path) == \E i \in Number : o = Append(path, i)

Announced(o) ==
    \/ \E n \in unsent : n.obj = o
    \/ \E k \in DOMAIN notifs : notifs[k].obj = o

(***************************************************************************)
(* The agents: an edit, then its announcement, as in OnuHal.               *)
(***************************************************************************)
Edit(kind, o) ==
    /\ unsent = {}
    /\ changes < MaxChanges
    /\ changes' = changes + 1
    /\ unsent' = {[kind |-> kind, obj |-> o]}
    /\ UNCHANGED <<hearVars, listVars, pluginVars>>

\* A command that runs prints an object that comes, or not.
Appears == \E o \in Coming \ bus :
    /\ Edit("added", o)
    /\ bus' = bus \cup {o}
    /\ \E new \in SUBSET {o} :
           /\ new # {} => call.pc = "listing" /\ Matches(o, call.path)
           /\ call' = [call EXCEPT !.todo = @ \cup new, !.ever = @ \cup {o}]

\* It may have heard of an object that goes, and print it.
Disappears == \E o \in Coming \cap bus :
    /\ Edit("removed", o)
    /\ bus' = bus \ {o}
    /\ \E gone \in SUBSET {o} :
           call' = [call EXCEPT !.todo = @ \ gone, !.always = @ \ {o}]

Announce == \E n \in unsent :
    /\ subscribed
    /\ unsent' = {}
    /\ notifs' = Append(notifs, n)
    /\ UNCHANGED <<bus, changes, subscribed, listVars, call, pluginVars>>

\* Nobody listens, or the agent fails to send.
LoseAnnouncement == \E n \in unsent :
    /\ unsent' = {}
    /\ missed' = missed \cup {n.obj}
    /\ UNCHANGED <<bus, changes, hearVars, listVars, call, known, covered>>

(***************************************************************************)
(* The process of the plugin.                                              *)
(***************************************************************************)
\* It ends, and with it all it knew and had received.  In the next process
\* ubus_prpl_init() looks for the command again.
ProcessEnds ==
    /\ cmdFound' \in BOOLEAN
    /\ subscribed' = FALSE
    /\ notifs' = <<>>
    /\ call' = NoCall
    /\ known' = {}
    /\ covered' = {}
    /\ missed' = {}
    /\ UNCHANGED <<agentVars, file>>

\* The plugin lists XPON.ONU: the module subscribes.
Subscribe ==
    /\ call.pc = "idle"
    /\ subscribed' = TRUE
    /\ UNCHANGED <<agentVars, notifs, listVars, call, pluginVars>>

Dispatch(kind) ==
    /\ call.pc = "idle"
    /\ notifs # <<>>
    /\ Head(notifs).kind = kind
    /\ notifs' = Tail(notifs)
    /\ UNCHANGED <<agentVars, subscribed, listVars, call, covered>>

\* Mutant: the notification is dropped.
HandleAddedDropped == Dispatch("added") /\ UNCHANGED <<known, missed>>

\* handle_dm_notification(): the plugin hears of a new instance if its get()
\* works, which it may also not do.
HandleAdded ==
    /\ Dispatch("added")
    /\ LET fetched == {Head(notifs).obj} \cap bus IN
       \/ known' = known \cup fetched /\ UNCHANGED missed
       \/ missed' = missed \cup fetched /\ UNCHANGED known

\* Mutant: an instance that is gone is looked up before it is forgotten.
HandleRemovedFetches ==
    /\ Dispatch("removed")
    /\ known' = known \ ({Head(notifs).obj} \cap bus)
    /\ UNCHANGED missed

HandleRemoved ==
    /\ Dispatch("removed")
    /\ known' = known \ {Head(notifs).obj}
    /\ UNCHANGED missed

(***************************************************************************)
(* get_list_of_instances() and get_indexes().                              *)
(***************************************************************************)
\* The thread goes on in the call.
Goes(from, to) ==
    /\ call.pc = from
    /\ call' = [call EXCEPT !.pc = to]
    /\ UNCHANGED <<agentVars, hearVars, cmdFound, pluginVars>>

\* amxc_var_constcast(cstring_t, args), dm_get_object_id(), the conversion of the
\* path.  Templates are not told from other objects the module knows.
Accepted(a) ==
    /\ a.form = "cstring"
    /\ GetObjectId(a.path) # "unknown"
    /\ CanConvertBbf(a.path)

Refuse == \E a \in Args :
    /\ call.pc = "idle"
    /\ ~Accepted(a)
    /\ call' = [NoCall EXCEPT !.pc = "failed", !.args = a]
    /\ UNCHANGED <<agentVars, hearVars, listVars, pluginVars>>

Begin(a) ==
    [pc |-> IF cmdFound THEN "listing" ELSE "failed", args |-> a, path |-> PrplPath(a.path),
     todo |-> {o \in bus : Matches(o, PrplPath(a.path))}, line |-> 0, set |-> <<>>,
     always |-> bus, ever |-> bus, heard |-> subscribed]

\* Mutant: the output is appended to what the file holds.
ListKeepsFile == \E a \in Args :
    /\ call.pc = "idle"
    /\ Accepted(a)
    /\ call' = Begin(a)
    /\ file' = IF file = NoFile THEN <<>> ELSE file
    /\ UNCHANGED <<agentVars, hearVars, cmdFound, pluginVars>>

\* ubus_list_objects() removes the file of the last call; the shell makes a new
\* one, unless there is no command to run.
List == \E a \in Args :
    /\ call.pc = "idle"
    /\ Accepted(a)
    /\ call' = Begin(a)
    /\ file' = IF cmdFound THEN <<>> ELSE NoFile
    /\ UNCHANGED <<agentVars, hearVars, cmdFound, pluginVars>>

CommandPrints == \E o \in call.todo :
    /\ call.pc = "listing"
    /\ call' = [call EXCEPT !.todo = @ \ {o}]
    /\ file' = Append(file, o)
    /\ UNCHANGED <<agentVars, hearVars, cmdFound, pluginVars>>

CommandEnds ==
    /\ call.todo = {}
    /\ Goes("listing", "listed")
    /\ UNCHANGED file

\* Mutant: the exit status of the command is not looked at.
CommandFailsUnnoticed ==
    /\ Goes("listing", "listed")
    /\ UNCHANGED file

\* It may also fail because it finds nothing.
CommandFails ==
    /\ Goes("listing", "failed")
    /\ UNCHANGED file

\* Mutant: fopen() is taken to succeed.
OpenFileUnchecked == Goes("listed", "reading") /\ file' \in {file, NoFile}

\* extract_indexes(): the file may be gone.
OpenFile ==
    /\ \/ Goes("listed", "reading") /\ UNCHANGED file
       \/ Goes("listed", "failed") /\ file' \in {file, NoFile}

\* set_of_indexes_add_index()
AddIndex(set, i) == IF \E k \in DOMAIN set : set[k] = i THEN set ELSE Append(set, i)

\* A line counts if what follows the path and a dot is numeric.
ReadLine ==
    /\ call.pc = "reading"
    /\ call.line < Len(file)
    /\ LET o == file[call.line + 1] IN
       call' = [call EXCEPT !.line = @ + 1,
                            !.set = IF IsInstance(o, call.path) THEN AddIndex(@, o[Len(o)]) ELSE @]
    /\ UNCHANGED <<agentVars, hearVars, listVars, pluginVars>>

\* The file is closed and removed, the set converted to a string.
CloseFile ==
    /\ Goes("reading", "closed")
    /\ call.line = Len(file)
    /\ file' = NoFile

Listed == {Append(call.path, call.set[k]) : k \in DOMAIN call.set}

\* The plugin gets the list, or -1 and nothing.
Return ==
    /\ call.pc \in {"closed", "failed"}
    /\ call' = NoCall
    /\ IF call.pc = "failed"
       THEN UNCHANGED pluginVars
       ELSE /\ known' = known \cup Listed
            /\ covered' = IF call.heard THEN covered \cup {call.path} ELSE covered
            /\ missed' = {o \in missed : o \in call.always /\ IsInstance(o, call.path)
                                            => Announced(o)}
    /\ UNCHANGED <<agentVars, hearVars, listVars>>

(***************************************************************************)
\* What the thread does in a call.
Proceed == CommandPrints \/ CommandEnds \/ CommandFails \/ OpenFile \/ ReadLine \/ CloseFile
               \/ Return

Next ==
    \/ Appears \/ Disappears \/ Announce \/ LoseAnnouncement
    \/ ProcessEnds \/ Subscribe \/ HandleAdded \/ HandleRemoved
    \/ List \/ Refuse \/ CommandPrints \/ CommandEnds \/ CommandFails
    \/ OpenFile \/ ReadLine \/ CloseFile \/ Return

\* A handler of an agent runs to its end; the command and the thread go on; the
\* event loop polls the bus, so that calls cannot keep it from announcements.
Fairness ==
    /\ WF_vars(Announce \/ LoseAnnouncement)
    /\ WF_vars(Proceed)
    /\ SF_vars(HandleAdded \/ HandleRemoved)

Spec == Init /\ [][Next]_vars

FairSpec == Spec /\ Fairness

(***************************************************************************)
(* Properties.                                                             *)
(***************************************************************************)
\* The list is made of instances of the template that existed during this call,
\* each once, and lacks none that existed all the time: no line of an earlier
\* call, of a command that broke off, or of an object further down gets in the
\* way (ubus_prpl.c extract_indexes(), set_of_indexes.c).
ListExact ==
    call.pc = "closed" =>
        /\ \A k, l \in DOMAIN call.set : call.set[k] = call.set[l] => k = l
        /\ Listed \subseteq call.ever
        /\ \A o \in call.always : IsInstance(o, call.path) => o \in Listed

\* Once a template is listed with the module subscribed, the plugin knows its
\* instances: what comes while the command runs is announced, and what was there
\* before is listed (get_list_of_instances() against notif_handler()).
InstancesCovered ==
    \A path \in covered, o \in bus :
        IsInstance(o, path) => o \in known \/ Announced(o) \/ o \in missed

\* An instance that goes while or after it is listed does not stay with the
\* plugin, which learns of it later, unless the announcement is lost.
GhostsAnnounced == \A o \in known : o \in bus \/ Announced(o) \/ o \in missed

\* Seen from DmMirror, only whether an instance exists is data.  Nothing is promised
\* of a template that was not listed while the module was subscribed.
Data(S) == [o \in Object |-> IF o \in S THEN 0 ELSE -1]

Standing == [o \in Object |->
    IF o \in missed \/ ~\E path \in covered : IsInstance(o, path) THEN "missed"
    ELSE IF Announced(o) THEN "pending"
    ELSE "current"]

Mirror == INSTANCE DmMirror
    WITH actual <- Data(bus), told <- Data(known), standing <- Standing,
         Versioned <- Object, Absent <- -1

\* Lists and announcements together implement DmMirror, as the fetches of DmSync do:
\* a list makes good for what was missed, and neither an old list nor a late
\* announcement makes the plugin wrong about an instance without news on the way
\* (pon_ctrl.c get_list_of_instances(), notif.c notif_handler()).
ImplementsMirror == Mirror!SpecWithEnds

\* If instances stop coming and going, the plugin's are in the end those on the
\* bus, for every template listed, but for what was missed.
InstancesSettle ==
    <>[](\A path \in covered, o \in Coming :
             IsInstance(o, path) => (o \in known <=> o \in bus) \/ o \in missed)

\* get_list_of_instances() as its comment describes it: "args must be htable with
\* the key 'path'".  Such a call is not turned down before the agents are asked.
DocumentedArgsServed ==
    (call.pc = "failed" /\ call.args.form = "htable") => call.path # <<>>

=============================================================================
