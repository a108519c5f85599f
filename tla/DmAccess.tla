------------------------------ MODULE DmAccess ------------------------------
(***************************************************************************)
(* What travels between the data model of the ONU HAL agents and that of   *)
(* the plugin: the operations of pon_ctrl.c and notif.c that translate     *)
(* names in one direction, call the agent, and translate what it returns   *)
(* (object_utils.c) in the other.                                          *)
(*                                                                         *)
(* An object is identified by its place in the data model: what it is and  *)
(* which instance indexes lead to it.  Both sides name a place as the      *)
(* TR-181 and prpl documents do (OBJECT_INFO with the indexes filled in);  *)
(* the module only ever sees the names.  Timing is DmSync's subject: here  *)
(* an operation is one step, and its call may fail.                        *)
(***************************************************************************)
EXTENDS DmInfo, FiniteSets

CONSTANTS
    NoIndex,      \* index 0: the call or notification gives no index
    Fixed,        \* places that always exist
    Coming,       \* places that come and go
    Foreign       \* instances of the agents that OBJECT_INFO does not have

VARIABLES
    objects,      \* places that exist
    last          \* history: the last operation of the module

vars == <<objects, last>>

(***************************************************************************)
(* Places and their names.                                                 *)
(***************************************************************************)
Index == Number \cup {NoIndex}

\* Where an object is: below which ONU and which ANI, if it is below one; it is a
\* template or a singleton when inst = NoIndex, or else an instance.
Place == {p \in [id : ObjectId, onu : Index, ani : Index, inst : Index] :
              LET depth == Len(ObjectInfo[p.id].bbf) IN
              /\ p.onu = NoIndex <=> depth = 1
              /\ p.ani = NoIndex <=> depth <= 3
              /\ p.inst = NoIndex \/ IsTemplate(p.id)}

\* Instances and singletons are objects on the bus; templates are not.
IsObject(p) == p.inst = NoIndex <=> ~IsTemplate(p.id)

\* Stands for whatever has no place in the data model.
Elsewhere == [id |-> "unknown", onu |-> NoIndex, ani |-> NoIndex, inst |-> NoIndex]

\* Fills the indexes of the ONU and the ANI in.
At(template, p) ==
    [k \in DOMAIN template |-> IF template[k] # "x" THEN template[k]
                               ELSE IF k = 2 THEN p.onu ELSE p.ani]

WithIndex(path, index) == IF index = NoIndex THEN path ELSE Append(path, index)

BbfTemplate(p) == At(ObjectInfo[p.id].bbf, p)
PrplTemplate(p) == At(ObjectInfo[p.id].prpl, p)
BbfNameOf(p) == WithIndex(BbfTemplate(p), p.inst)
PrplNameOf(p) == WithIndex(PrplTemplate(p), p.inst)

ASSUME AccessAssumption ==
    /\ NoIndex \notin Number
    /\ Fixed \subseteq {p \in Place : IsObject(p)}
    /\ Coming \subseteq {p \in Place : IsObject(p)} \ Fixed
    /\ Foreign \subseteq Seq(STRING)
    /\ \A f \in Foreign : Len(f) > 1 /\ f[1] = "xpon_onu" /\ f[Len(f)] \in Number

(***************************************************************************)
(* Replies.                                                                *)
(***************************************************************************)
Image(f) == {f[x] : x \in DOMAIN f}

\* Parameters that agents may report and the module does not know.
Extra == {"vendor_info"}

\* The names in a table an agent answers a get() on p with: agents may leave
\* parameters out (the mock never sends last_change) and add their own.
Tables(p) ==
    LET all == Image(ObjectInfo[p.id].params)
        key == {ObjectInfo[p.id].key.prpl} \ {""}
    IN  {all \cup key, all \cup key \cup Extra, all, key}

\* amxb_call() returns the list of what was sent back: one table, but agents may
\* send none or several.  What is no table is refused, as a call that fails is.
Replies(p) == UNION {[1..n -> Tables(p)] : n \in 0..2}

\* get_params() answers the parameter asked for, if the agent knows it.
ParamReplies(names) == {<<names>>, <<{}>>}

\* process_key()
HasKey(id, table) == IsTemplate(id) /\ ObjectInfo[id].key.prpl \in table

\* Mutant: the result of process_key() is not looked at.
CanProcessAnyway(id, reply, extractKey) == Len(reply) = 1

\* obj_process_object_params() succeeds.
CanProcess(id, reply, extractKey) ==
    /\ Len(reply) = 1
    /\ extractKey => HasKey(id, reply[1])

KeysIn(id, table) == IF HasKey(id, table) THEN {ObjectInfo[id].key.bbf} ELSE {}

\* The types process_other_params() has a case for.
Converted == {"bool", "cstring", "uint32", "int32", "csv_string"}

\* Mutant: the case of AMXC_VAR_ID_INT32 is missing.
ParamsWithoutInt32(id, table) ==
    {b \in DOMAIN ObjectInfo[id].params :
        ObjectInfo[id].params[b] \in table /\ ParamType(b) \in Converted \ {"int32"}}

\* process_other_params(): a parameter of another type is logged and left out.
ParamsIn(id, table) ==
    {b \in DOMAIN ObjectInfo[id].params :
        ObjectInfo[id].params[b] \in table /\ ParamType(b) \in Converted}

(***************************************************************************)
(* What an operation has done.  asked: the place the caller named, or the  *)
(* notification was about; called: the object called on the bus, or <<>>;  *)
(* reply: what its agent answered; the rest: what the plugin got.          *)
(***************************************************************************)
Operation == {"none", "get_object_content", "get_param_values", "set_enable",
              "dm_instance_added", "dm_object_changed", "dm_instance_removed"}

Nothing == [op |-> "none", asked |-> Elsewhere, ok |-> FALSE, called |-> <<>>, reply |-> <<>>,
            path |-> <<>>, index |-> NoIndex, keys |-> {}, params |-> {}]

TypeOK ==
    /\ objects \subseteq Fixed \cup Coming
    /\ Fixed \subseteq objects
    /\ DOMAIN last = DOMAIN Nothing
    /\ last.op \in Operation
    /\ last.asked \in Place \cup {Elsewhere}
    /\ last.ok \in BOOLEAN
    /\ last.index \in Index
    \* the arguments the pon_stat functions are documented to have
    /\ last.ok => last.path # <<>>
    /\ (last.ok /\ last.op \in {"dm_instance_added", "dm_instance_removed"}) =>
           last.index # NoIndex

Init ==
    /\ objects = Fixed
    /\ last = Nothing

\* The module is ready for an operation.
Idle == last = Nothing

\* It does the operation.
Does(outcome) ==
    /\ Idle
    /\ last' = outcome
    /\ UNCHANGED objects

\* The operation fails, before its call or by it.
Fails(op, p, called) == Does([Nothing EXCEPT !.op = op, !.asked = p, !.called = called])

\* The objects on the bus; only they can be called.
OnBus(path) == \E p \in objects : PrplNameOf(p) = path

\* sbi_query_object() or sbi_query_params() on an object, then
\* obj_process_object_params() on the reply.  What it is called on may not be
\* there, the call may fail, and so may the conversion.
Query(op, p, id, called, replies, path, index, extractKey) ==
    \/ Fails(op, p, called)
    \/ /\ OnBus(called)
       /\ \E reply \in replies :
              /\ CanProcess(id, reply, extractKey)
              /\ Does([op |-> op, asked |-> p, ok |-> TRUE, called |-> called, reply |-> reply,
                       path |-> path, index |-> index,
                       keys |-> IF extractKey THEN KeysIn(id, reply[1]) ELSE {},
                       params |-> ParamsIn(id, reply[1])])

(***************************************************************************)
(* The agents.                                                             *)
(***************************************************************************)
Appears == \E p \in Coming \ objects :
    /\ objects' = objects \cup {p}
    /\ UNCHANGED last

Disappears == \E p \in Coming \cap objects :
    /\ objects' = objects \ {p}
    /\ UNCHANGED last

(***************************************************************************)
(* Calls of the plugin.  It names an instance by the path of its template  *)
(* and the index, or by the whole path.                                    *)
(***************************************************************************)
\* get_object_content()
GetObjectContent(p, path, index) ==
    LET id == GetObjectId(path)
        bbf == WithIndex(path, index)
    IN  IF id = "unknown" \/ ~CanConvertBbf(bbf)
        THEN Fails("get_object_content", p, <<>>)
        ELSE Query("get_object_content", p, id, PrplPath(bbf), Replies(p), path, index,
                   index # NoIndex)

GetContent == Idle /\ \E p \in Place :
    \/ GetObjectContent(p, BbfTemplate(p), p.inst)
    \/ p.inst # NoIndex /\ GetObjectContent(p, BbfNameOf(p), NoIndex)

\* dm_convert_param_names(): one parameter, of a transceiver.  Names are compared
\* by prefix; no parameter of a transceiver is a prefix of another.
CanConvertParamNames(id, names) ==
    /\ id = "transceiver"
    /\ Cardinality(names) = 1
    /\ names \subseteq DOMAIN ObjectInfo[id].params

\* get_param_values(); the agent answers the parameter asked for, if it has it.
GetParamValues(p, path, names) ==
    LET id == GetObjectId(path)
        prplNames == {ObjectInfo[id].params[b] : b \in names}
    IN  IF id = "unknown" \/ ~CanConvertBbf(path) \/ ~CanConvertParamNames(id, names)
        THEN Fails("get_param_values", p, <<>>)
        ELSE Query("get_param_values", p, id, PrplPath(path), ParamReplies(prplNames), path,
                   NoIndex, FALSE)

\* One parameter of the object, or all.
GetParams == Idle /\ \E p \in {q \in Place : IsObject(q)} :
    LET params == DOMAIN ObjectInfo[p.id].params
    IN  \E names \in {{b} : b \in params} \cup {params} : GetParamValues(p, BbfNameOf(p), names)

\* set_enable(); the module need not know the object.
SetEnable == Idle /\ \E p \in {q \in Place : IsObject(q)} :
    LET path == BbfNameOf(p)
        called == PrplPath(path)
    IN  /\ "Enable" \in DOMAIN ObjectInfo[p.id].params
        /\ \/ Fails("set_enable", p, IF CanConvertBbf(path) THEN called ELSE <<>>)
           \/ /\ CanConvertBbf(path) /\ OnBus(called)
              /\ Does([Nothing EXCEPT !.op = "set_enable", !.asked = p, !.ok = TRUE,
                                      !.called = called, !.path = path])

(***************************************************************************)
(* Notifications: handle_dm_notification().  One may be late, so that what *)
(* it is about need not exist (any more), or be about something that only  *)
(* the agent knows.                                                        *)
(***************************************************************************)
\* Mutant: the plugin is told the whole path of a new instance.
HandleFetchTellsInstance(op, p, path, index, extractKey) ==
    LET id == GetObjectId(path)
    IN  IF ~CanConvertPrpl(path) \/ id = "unknown" \/ (extractKey /\ index = NoIndex)
        THEN Fails(op, p, <<>>)
        ELSE Query(op, p, id, WithIndex(path, index), Replies(p),
                   BbfPath(WithIndex(path, index)), index, extractKey)

\* An added instance or a changed object: the object is fetched.
HandleFetch(op, p, path, index, extractKey) ==
    LET id == GetObjectId(path)
    IN  IF ~CanConvertPrpl(path) \/ id = "unknown" \/ (extractKey /\ index = NoIndex)
        THEN Fails(op, p, <<>>)
        ELSE Query(op, p, id, WithIndex(path, index), Replies(p), BbfPath(path), index, extractKey)

\* Mutant: a removal need not say which instance.
HandleRemovedAny(p, path, index) ==
    IF ~CanConvertPrpl(path)
    THEN Fails("dm_instance_removed", p, <<>>)
    ELSE Does([Nothing EXCEPT !.op = "dm_instance_removed", !.asked = p, !.ok = TRUE,
                              !.path = BbfPath(path), !.index = index])

\* A removed instance: the path is translated, but the object is not identified.
HandleRemoved(p, path, index) ==
    IF ~CanConvertPrpl(path) \/ index = NoIndex
    THEN Fails("dm_instance_removed", p, <<>>)
    ELSE Does([Nothing EXCEPT !.op = "dm_instance_removed", !.asked = p, !.ok = TRUE,
                              !.path = BbfPath(path), !.index = index])

\* An instance is announced with the path of its template and its index (if the
\* agent forgets it, the notification looks as if about the template); a change
\* with the whole path.
HandleAdded == Idle /\ \E p \in Place :
    HandleFetch("dm_instance_added", p, PrplTemplate(p), p.inst, TRUE)

HandleChanged == Idle /\ \E p \in Place :
    HandleFetch("dm_object_changed", p, PrplNameOf(p), NoIndex, FALSE)

HandleRemovedInstance == Idle /\ \E p \in Place :
    HandleRemoved(p, PrplTemplate(p), p.inst)

HandleForeign == Idle /\ \E f \in Foreign :
    LET path == SubSeq(f, 1, Len(f) - 1)
        index == f[Len(f)]
    IN  \/ HandleFetch("dm_instance_added", Elsewhere, path, index, TRUE)
        \/ HandleFetch("dm_object_changed", Elsewhere, f, NoIndex, FALSE)
        \/ HandleRemoved(Elsewhere, path, index)

\* The operation returns.
Return ==
    /\ ~Idle
    /\ last' = Nothing
    /\ UNCHANGED objects

Next ==
    \/ Appears \/ Disappears
    \/ GetContent \/ GetParams \/ SetEnable
    \/ HandleAdded \/ HandleChanged \/ HandleRemovedInstance \/ HandleForeign
    \/ Return

Spec == Init /\ [][Next]_vars

(***************************************************************************)
(* Properties.                                                             *)
(***************************************************************************)
AboutPlace == last.asked # Elsewhere

\* The object that is called is the one the plugin named, or the notification is
\* about: the table that translates the elements of paths (BBF_vs_PRPL_ENTRIES)
\* agrees with the one of the objects, the module's own (OBJECT_INFO).
RightObjectCalled ==
    (AboutPlace /\ last.called # <<>>) => last.called = PrplNameOf(last.asked)

\* The plugin can file what it is told under the place it is about.
RightObjectTold ==
    (AboutPlace /\ last.ok) => WithIndex(last.path, last.index) = BbfNameOf(last.asked)

\* A new instance always comes with the key of its template, which the plugin
\* needs to create it; and no key is given for what is not an instance.
KeyOfInstance ==
    (AboutPlace /\ last.ok) =>
        /\ last.keys \subseteq {ObjectInfo[last.asked.id].key.bbf}
        /\ last.keys # {} => last.asked.inst # NoIndex
        /\ last.op = "dm_instance_added" => last.keys # {}

\* Everything an agent reports of an object's parameters reaches the plugin, but
\* for what is no parameter of that object: object_utils.c looks them up by name,
\* has a case for the type of each, and turns a reply of several tables down.
NothingReportedIsLost ==
    (AboutPlace /\ last.ok) =>
        LET info == ObjectInfo[last.asked.id] IN
        {info.params[b] : b \in last.params} =
            (UNION Image(last.reply)) \ ({info.key.prpl} \cup Extra)

\* The module turns down nothing about the objects of the data model before it
\* has asked their agent, except in get_param_values().
KnownObjectsServed ==
    (AboutPlace /\ last.op \in {"get_object_content", "set_enable", "dm_object_changed"})
        => last.called # <<>>

\* get_param_values() as its comment describes it: "the values of one or more
\* parameters of an object" are asked for at the agent.
DocumentedNamesServed == last.op = "get_param_values" => last.called # <<>>

\* Paths the plugin is told are in its own data model: a path that cannot be
\* translated is refused, as the comment of dm_convert_prpl_path_to_bbf_path() has
\* it: "true on success, else false".
ToldInBbf ==
    last.ok => \A k \in DOMAIN last.path :
                   last.path[k] \in {"XPON.ONU"} \cup BbfName \cup Number

\* Only removals are told with such a path: what is added or changed is identified
\* and fetched before, and what is identified can be translated, although the two
\* look into different tables (notif.c handle_dm_notification()).
ToldInBbfUnlessRemoved == last.op # "dm_instance_removed" => ToldInBbf

=============================================================================
