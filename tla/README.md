# Verification of mod-xpon-prpl

`mod-xpon-prpl` is a module of the tr181-xpon plugin. On one side it serves the
plugin, which keeps the BBF TR-181 data model `XPON.ONU`; on the other it talks
over ubus to ONU HAL agents, which keep the prpl data model `xpon_onu`. The
repository also has a mock agent, `test/onu_hal_mock`, which is the reference
here for how agents behave.

This directory has TLA+ modules translated from the C source, configurations
that TLC checks, and proofs that TLAPS checks. `PROJECT.json` lists the runs,
the definition-to-source map, the hazards and the theorems.

## The system

| component | state | operations | talks to |
|---|---|---|---|
| ONU HAL agent (mock: `dbg_if.c`, `notif.c`, `data_model.c`) | registered objects, parameters, enable flags, deferred requests | debug edits; `get`, `get_params`, `enable`, `disable`; notifications | ubusd |
| notification handling (`notif.c`) | bus context, one `subscribed` flag per ONU | `notif_subscribe`, `notif_cleanup`, `notif_handler` | agent (get), plugin (`pon_stat`) |
| namespace `pon_ctrl` (`pon_ctrl.c`) | bus context, maximum number of ONUs | `set_max_nr_of_onus`, `set_enable`, `get_list_of_instances`, `get_object_content`, `get_param_values` | plugin, agent, `notif.c` |
| southbound interface (`southbound_if.c`) | none | blocking call with a timeout of 3 s | agent |
| data model information (`dm_info.c`) | two constant tables | identify a path, translate paths and parameter names | all of the above |
| parameters (`object_utils.c`) | none | convert an agent's reply into keys and parameters | callers of get |
| ubus command (`ubus_prpl.c`, `set_of_indexes.c`) | path of the command, `/tmp/ubus_list.txt` | list the instances of a template | shell |
| `pon_stat` calls (`xpon_mgr_pon_stat.c`) | none | call the plugin | plugin |
| life cycle (`mod_xpon_prpl.c`) | none | constructor, destructor | all |

The plugin, the module and the bus library are one thread with an event loop:
functions of the module never overlap. What makes the system hard is the rest
of the world:

* a notification carries no data, so the module answers it with a blocking
  `get()`, and by then the object may have changed again or be gone;
* that call may fail or time out; nothing retries it, and its request stays in
  the agent and is executed late;
* `enable()` and `disable()` change what `get()` returns, and nothing announces it:
  a switch that was given up leaves the plugin's `Enable` stale;
* notifications queue up while a call blocks; they can be lost before the
  subscription or when the agent fails to send them;
* agents come up while the loop over the ONUs runs, subscriptions fail one by
  one, the bus context is kept in two places, the limit on the ONUs changes;
* instances are listed by a command in another process, through a file with a
  fixed name, while agents add and remove them and the announcements queue up;
* the process ends anywhere, and the constructor may fail half-way; the agent
  still executes what the old process asked for;
* an agent restarts, although the module assumes that none does;
* the two tables of names are maintained apart, and agents may report more or
  less than the module knows.

What has to be right, by component: the plugin's copy of the data differs from
the agent's only for a reason and catches up (notifications); a reply belongs
to the call that takes it, and acknowledged switches hold (southbound);
contexts, flags and subscriptions agree (subscribing); lists are exact, what is
listed is heard, and lists and announcements leave nothing out (`pon_ctrl`); no callback survives the code (life cycle);
the right object is called and nothing of its data is lost on the way
(`dm_info`, `object_utils`).

## Modules

### OnuHal

The agent, as the mock does it. `registered`, `version`, `enabled` are its data
model (`s_objects`, the parameters that change, `s_onu_enabled`,
`s_ani_one_enabled`). `get()` returns both kinds of data: what edits change and
notifications announce, abstracted to a version number per object, and `Enable`,
which `enable()` and `disable()` change without any announcement. An edit of the debug interface (`AddInstance`,
`RemoveInstance`, `ChangeObject`, `ResetMib`) changes the data model and then
announces it; since ubusd already knows of an added or removed object in
between, `unsent` holds the announcement until `NotifyReturns`. A method call is
deferred with a timer of 100 ms (`DeferRequest`) and executed when it fires
(`MethodCb`), in the order of arrival.

### DmSync (extends OnuHal)

One agent, the module, and what the plugin was told. `notifs` is the queue of
the bus connection, `call` the blocking call of the only thread, in three
stages (`issued`, `waiting`, `answered`); `onu` is what discovery has achieved.
`told` and `toldEnable`, the plugin's copy, are what the calls of `pon_stat` and the
results of `get_object_content()` convey, and of `Enable` also what an acknowledged
`set_enable()` does. `missed`, `unsure` and `sent` are history variables: `missed`
has the objects about which a notification or a fetch was lost (and nothing fetched
since), `unsure` those of which the plugin gave up a switch (and nothing fetched, and
no switch acknowledged, since), `sent` the last switch the agent accepted.

A given-up switch may be executed at any later time, but a fetch makes its object
sure again for good: the agent executes deferred requests in the order of arrival,
so that when the fetch is answered the old switch is done. The properties about
`Enable` (`EnableExplained`, `EnableMirror`) fail as soon as the agent serves its
requests in another order.

| action | code |
|---|---|
| `AgentEdits`, `SendNotif`, `LoseNotif`, `Reply` | the agent |
| `DiscoverOnu`, `GetObjectContent`, `SetEnable` | functions of `pon_ctrl` |
| `HandleAdded`, `HandleChanged`, `HandleRemoved`, `HandleReset` | `notif_handler()` and the handler it picks |
| `Invoke`, `InvokeFails`, `Return`, `Timeout` | `call_function_common()` and what its callers do with the result |

`get_object_content()` of a removed object fails and tells the plugin nothing;
`handle_dm_notification()` forwards removals without asking. `Timeout` may also
come when the reply is in already, and makes the request dead: libubus aborts
it, so that its reply is not taken for another one's.

`DmSyncRestart` adds `ProcessEnds`: the process ends at any point, nothing it had
is stored, its requests stay in the agent, and the next process starts from
nothing. What it has not fetched again counts as missed, and its `Enable` as unsure:
switches of the old process may still be waiting in the agent.

`DmMirror` is the promise without bus, queue or call: per object, the agent's
data, the plugin's copy, and whether news is on the way (`pending`) or something
was lost (`missed`). Its steps are news and losses, of one object at a time, and
telling, of any number of objects, since a list tells of several; `Forget` lets the
plugin start anew, knowing nothing. A copy that is `current` is exact, and telling
of `Versioned` data never goes back in time. Three modules implement it, each with
mappings of its own:

* `DmSync` (`ImplementsMirror`), with two. `Mirror`: the data is the object's version,
  and an object is pending while a notification or a fetch of it is under way.
  `EnableMirror`: the data is `Enable`, which goes back and forth and so is not
  versioned; it is pending while the plugin waits for a switch, and missed while it
  is unsure, so that a late switch can change only objects whose copy counts as missed;
* `DmSyncRestart` (`ImplementsMirrorWithEnds`): the same mappings, and the end of the
  process is `Forget`;
* `UbusList` (`ImplementsMirror`): the data is whether the instance exists; it is
  pending while an announcement is under way, and counts as missed until its
  template is listed while the module is subscribed.

### OnuDiscovery

All ONUs, and the life of the module. One turn of the loop in
`get_onu_indexes()` is `ListStep`, with `notif_subscribe()` inside; one turn of
the loop in `notif_cleanup()` is `StopStep`. `ctrlCtx` and `notifCtx` are the
two static variables `s_bus_ctx`, `subscribed` the flags of
`s_subscription_info`, `maxOnus` is `s_max_nr_of_onus`; `agents` and `subs` are
what the bus knows, `pending` the notifications on their way. `phase` is what
the thread does; `mute` is a module whose constructor failed before the
namespace was registered. `upAtBegin`, `refused` and `stuck` are history.
`ProcessEnds` can happen at any time.

`OnuRestart` drops the assumption of `get_onu_indexes()` that agents run until
reboot (`pon_ctrl.c` 222-225): `AgentDown` ends one, which may start again on any
context. `deaf` has the ONUs whose flag is set although the bus holds no
subscription: the module never subscribes on them again. The properties say
that this is all that goes wrong.

### UbusList

`get_list_of_instances()` for the templates below an ONU. `call` is the call,
with the set of indexes it fills; `file` is what `/tmp/ubus_list.txt` holds, also
from an earlier process; `bus` has the objects that exist, `unsent` and `notifs`
the announcements of those that come and go, `known` what the plugin knows of.
`covered` (templates listed while subscribed) and `missed` are history.

| action | code |
|---|---|
| `Appears`, `Disappears`, `Announce`, `LoseAnnouncement` | agents, at any time |
| `Subscribe`, `HandleAdded`, `HandleRemoved` | `notif.c`, when no call blocks |
| `Refuse`, `List`, `Return` | `get_list_of_instances()`, `get_indexes()` |
| `CommandPrints`, `CommandEnds`, `CommandFails` | the shell command, while `system()` waits |
| `OpenFile`, `ReadLine`, `CloseFile` | `extract_indexes()`, with `set_of_indexes_add_index()` |
| `ProcessEnds` | the file stays, all else is gone |

An object that comes or goes while the command runs is printed or not, and if it
comes again, maybe twice. A command of an ended process is over before the next
process lists, and only one process lists at a time: the code does not guard its
file against another.

### DmInfo and DmAccess

`DmInfo` has the two tables of `dm_info.c` and the conversions as operators: a
path is the sequence of its elements, and every operator looks only at whole
elements. Comparing the first eight characters with `XPON.ONU` is comparing the
first element, so paths that begin with a longer word are outside the model.

`DmAccess` has the operations that name an object: `get_object_content`,
`get_param_values`, `set_enable` and the three handlers of data model
notifications. An object is identified by its *place* (what it is, and the
instances that lead to it), and both sides name places as the two data models
do; `last` records what the operation called, what the agent answered and what
the plugin got. Timing is `DmSync`'s subject, so an operation is one step here,
and its call may fail. A reply is what `amxb_call()` returns, a list of tables:
none, one or two. A table is the set of the names in it, since names and types
(`ParamType`, the type column of `OBJECT_INFO`) decide what is forwarded, and
values do not. Agents leave parameters and keys out, and add some of their own.

## Runs

| run | bounds | checks |
|---|---|---|
| `dm_sync` | objects `xpon_onu`, `transceiver_1` (changes), `transceiver_2` (comes and goes); 3 edits; 2 deferred requests | `TypeOK`, `OutOfSyncExplained`, `EnableAckedHolds`, `LastEnableWins`, `CallInv`, `ReportsNeverGoBack` |
| `dm_sync_mirror` | as `dm_sync`, 1 deferred request | `ImplementsMirror`: `DmSync` implements `DmMirror`, for announced data and for `Enable` |
| `dm_sync_restart` | as `dm_sync`, 2 edits; any number of ends of the process | `OutOfSyncExplained`, `EnableAckedHolds`, `LastEnableWins`, `CallInv`, `ReportsNeverGoBack`, `ImplementsMirrorWithEnds` of `DmSyncRestart` |
| `dm_sync_live` | as `dm_sync`, 2 edits, 1 deferred request | `EventuallyMirrored` |
| `onu_discovery` | 4 ONUs (the value of `MAX_NR_OF_ONUS`), 2 bus contexts (symmetric), one notification per ONU waiting | `TypeOK`, `ContextsAgree`, `SubscribedOnce`, `HeardOnKeptContext`, `ListExact`, `ListedIsHeard`, `NoCallbackLeft` |
| `onu_restart` | 3 ONUs, else as `onu_discovery`; any number of restarts | `HeardUnlessDeaf`, `ListedIsHeardUnlessDeaf`, `ListSeen`, `ContextsAgree`, `NoCallbackLeft` |
| `ubus_list` | two transceivers that come and go, an ANI and its alarms that stay; lists of both templates and of an unknown one; 2 appearances or disappearances | `TypeOK`, `ListExact`, `InstancesCovered`, `GhostsAnnounced`, `ImplementsMirror` |
| `ubus_list_live` | as `ubus_list`, lists of the transceivers | `InstancesSettle` |
| `dm_access` | all nine kinds of object, 2 ONUs, 2 ANIs each, 2 instances; three objects come and go; two objects the module does not know, one with a name of its own and one at a place where there is none; replies of 0 to 2 tables | `TypeOK`, `RightObjectCalled`, `RightObjectTold`, `KeyOfInstance`, `NothingReportedIsLost`, `KnownObjectsServed`, `ToldInBbfUnlessRemoved` |
| `ubus_list_args` | as `ubus_list` | `DocumentedArgsServed`, violated |
| `dm_access_names` | as `dm_access` | `DocumentedNamesServed`, violated |
| `dm_access_told` | as `dm_access` | `ToldInBbf`, violated |

Why the bounds are enough: three edits make every pattern about one object that
the code tells apart (added, removed and added again while a fetch is under
way), and two requests make a live request behind a timed-out one; nothing in
the code counts edits or requests. The refinement is checked with three edits in
`dm_sync_mirror` and with two requests in `dm_sync_restart`, since both at once take
too long. One notification waiting shows whether each
subscription delivers one copy. After a restart two edits suffice, one before
and one after the end of the process. An instance that comes and goes, or goes
and comes, while the command runs takes two changes, which also make the
announcement of an earlier change wait behind the list of a later one; two
instances let one be printed while the other changes. Three ONUs have one
before, at and behind the place where the loop is when an agent restarts. The
tables of `dm_info.c` are complete in the
model, and two values per index tell indexes at different depths apart. The
proofs below do not depend on the bounds.

Edits and changes are bounded, but no module deadlocks, as the plugin can always
call; no configuration turns the deadlock check off.

The three violations:

* `DocumentedArgsServed`: `get_list_of_instances()` is documented to take a table
  with the key `path` (`pon_ctrl.c` 271-272), but reads its argument as a string
  (line 291), so that a table yields no path and the call is refused.
* `DocumentedNamesServed`: `get_param_values()` is documented to return one or
  more parameters of an object (`pon_ctrl.c` 461-466), but
  `dm_convert_param_names()` refuses all objects but transceivers and all lists
  (`dm_info.c` 605-613). The comment of the latter function names the limit.
* `ToldInBbf`: a path with an element that has no translation is converted as
  far as possible, reported as success (`dm_info.c` 521-532 against 563-573),
  and, when an instance below it is removed, passed to the plugin. For added
  instances and changed objects the path is refused, because they are
  identified as well (`ToldInBbfUnlessRemoved`, which holds).

## Fairness

`EventuallyMirrored` assumes `Fairness` of `DmSync`: a handler of the agent runs
to its end and its timers fire (its loop is never blocked); a call is passed to
ubusd; a call ends, because of its timeout; and a notification that can be
dispatched again and again is dispatched. The last one is strong fairness: a
call of the plugin makes the thread busy again, but the event loop polls the
bus connection in each round, so calls cannot keep it from the notifications
for ever. Nothing is assumed about deliveries: notifications may be lost at any
time, and then the object is in `missed`, which the property excepts. For `Enable`
the property is that it is in step again and again, unless a switch was given up:
nothing keeps the plugin from switching for ever, so it need not stay in step.

`InstancesSettle` assumes `Fairness` of `UbusList`, for the same reasons: an agent
that changed something announces it or fails to; the command and the thread in
`get_list_of_instances()` go on (`Proceed`); and the handlers are strongly fair,
since the plugin may always start another call. No fairness is assumed of
appearances, of calls or of the end of the process.

## Proofs

`DmSyncProofs` proves, for any sets of objects and any bounds, every property of
`dm_sync` and the invariants behind them. The assumptions are `HalAssumption`
(the ONU object always exists, only existing kinds of object change) and
`SyncAssumption` (`Absent` is no version).

* `TypeCorrect` is inductive as it stands.
* `RepliesMatchCalls` (`CallInv`): only the youngest deferred request can still
  be waited for, by the call that blocks; and when the reply is in, the queue is
  empty. It holds since there is one call at a time, the queue is served in
  order, and a timeout makes the request dead. The next two rest on it.
* `ReportsGoForward`: `ContentOrdered` adds that content known to the plugin or
  on its way is not newer than the agent's, and a reply not older than what
  the plugin has.
* `EnableAcknowledged` and `LastSwitchWins`: `LastSwitchIsSent` says that the
  youngest switch in the queue, or the object itself, is as `sent` says.
* `MirrorExplained`: `OutOfSyncExplained` is not inductive. `MirrorInv` adds that
  the last announcement about an object fits whether it exists (so that
  handling it leaves the plugin right) and that a fetch under way returns what
  is so, unless the contrary is announced. Of `Enable`, `EnableInv` adds that of an
  object the plugin is sure of no switch waits in the agent but the one the plugin
  waits for (`SwitchesAwaited`), and that a reply says how its object is switched
  (`AnsweredOn`); a reply comes only when the queue is empty (`CallInv`), and so makes
  the object sure.

`DmSyncRestartProofs` shows that `ProcessEnds` keeps all of these invariants, and
so the properties with any number of processes, one after the other. One more is
needed, `UnsentFits`: an announcement that an agent has still to send is true,
also if it is about an object of which the old process missed something.
`RestartImplementsMirror` takes the steps of `DmSync` from `DmSyncRefines`, and shows
that `ProcessEnds` is `Forget` (`EndForgets`, `EndForgetsEnable`): for the new process every
object that exists counts as missed and every `Enable` as unsure, which is what
`EnableInv` needs, as the switches left in the agent are awaited by nobody (`EndEnableInv`).

`DmMirrorProofs` proves for `DmMirror` what it promises (`CurrentIsExact`,
`NeverTakenBack`), for any set of objects and also when the plugin starts anew
(`SpecWithEnds`). `DmSyncRefines` proves that `DmSync`
implements it, for any constants: each step is about one object at most
(`Concerns`), for which it is a step of `DmMirror` or not seen, by the invariants of
`DmSyncProofs`; for the others nothing seen changes (`Quiet`). For `Enable`, only four
steps are seen (`EnableSteps`): an invoked switch is news, and so is its execution; its
timeout is a loss, and a return tells.

`OnuDiscoveryProofs` proves every property of `onu_discovery` for any table
size, number of contexts and bound (`DiscoveryAssumption`). `TypeCorrect` is
inductive; `SubscribedOnce` is proved together with `ContextsAgree` and
`HeardOnKeptContext` (`ContextInv`); `CleanupComplete` adds what the loop has
cleaned so far (`CleanedSoFar`), `ListedOnusAreHeard` that no list exists before
the first event loop, `ListsAreExact` that agents that were up are up.

`OnuRestartProofs` proves the properties of `onu_restart`. The flags are wrong
about deaf ONUs only, so what rested on `SubscribedOnce` now rests on
`HeardUnlessDeaf`; what did not (the contexts, the cleanup) stays as it was.

`DmAccessProofs` proves every property of `dm_access` for any set of instance
indexes and any objects that exist. The assumptions are that no index is a name
of the tables or `x` (`NumberAssumption`), and that what the agents have beyond
`OBJECT_INFO` is below `xpon_onu` and ends in an index (`AccessAssumption`). What is
particular to the data model is in a few lemmas that evaluate the tables: the
two paths of an object agree with `BBF_vs_PRPL_ENTRIES` element by element
(`Rows`), no two objects have the same path (`Distinct`), no two entries the same
translation (`EntriesInjective`), and no parameter is called like its object's
key (`KeyApart`), and no name is one in both data models (`Elements`). From them
follow `Identify` (making a path with indexes generic
gives the template again), `Translate` (either name of an object translates into
the other) and `RepliesFaithful`. The invariant `Right` then takes one lemma per
operation.

The conversions are proved right beyond the objects of the tables, for paths of any
elements and any length. A path that starts right and has no name of the other data
model is translated into one of the other, and back into itself (`ThereAndBack`,
`BackAndThere`; so no two paths are told alike). A path and its translation are
identified as the same object or neither as one (`TranslationKeepsObject`,
`TranslationKeepsObjectToo`), which `notif.c` and `pon_ctrl.c` rely on when they
identify by one and call or tell with the other.

Two theorems say how far the violation of `ToldInBbf` goes: only removals are told
with a path that is not the plugin's (`OnlyRemovalsUntranslated`), and none as long as
the agents name what they add as `BBF_vs_PRPL_ENTRIES` has it
(`ToldInBbfIfTranslatable`, by the invariant `OwnTold`).

`UbusListProofs` proves the invariants of `ubus_list` for any objects, templates
and number of changes. The assumption is `ListAssumption`: objects and templates
are paths, and what comes and goes is not also always there.

* `ListsAreExact` (`ListInv`): while the command runs, what existed throughout is in
  the file or still to be printed, and both hold only what existed at some time of
  the call; while the file is read, the same may be said of the lines read and the
  set. It needs that `List` starts with an empty file, whatever was left in it.
* `InstancesAreCovered` and `GhostsAreAnnounced` (`NewsInv`), on top of that: the
  youngest announcement about an object, if an agent has none still to send and none
  was lost, says whether the object exists (`YoungestFits`); and what exists now
  and what existed during the call differ only by what is announced or lost.
* `ListsImplementMirror` (`ImplementsMirror`), by the same invariants: a current
  instance is exact (`CurrentExact`), so a step that leaves the standing alone may only
  tell what is so. An appearance is news, an announcement handled is telling, one that
  is lost a loss (`OneMoves`); the `Return` of a list tells of all its instances at
  once and makes their template covered; the end of the process is `Forget`.

Only model-checked: `EventuallyMirrored` and `InstancesSettle`, since liveness under
fairness (and `ENABLED`) is beyond the prover. All other properties of the passing runs
are proved. Of liveness, the part that is safety is proved: when nothing is on the way
or being fetched, each object is exact or something about it was lost
(`MirrorExplained`, `CurrentStaysExact`).

## Not modelled

* Values of parameters, and the counters that the mock returns for
  `get_params()`. Its timing is that of `get()`, and it tells the copy of the plugin
  nothing, so `DmSync` does not repeat it; its names are in `DmAccess`.
* `dm_info_init()`: a check that the rows of a constant table are in order.
* The calls of `pon_stat` are steps of the same thread, whose failure is logged;
  what the plugin does with them is not in this repository.
* What the plugin knows after an agent restarted: the module is deaf then, and
  nothing more can be said of the data.
* Two processes that list at the same time, through the same file.
* Whether `ubus list` fails when no instance exists; the comment of
  `get_list_of_instances()` promises an empty string then (`pon_ctrl.c` 278). The command
  is not in this repository; `UbusList` allows both, and no property tells which.
* Paths with a first element that only begins with `XPON.ONU`. Traces, and memory
  that cannot be allocated; the command-line client, the socket handling and the
  main program of the mock; build files.

## Plan

1. (done) `OnuHal`, `DmSync`: the synchronisation of the data, with its proofs.
2. (done) `OnuDiscovery`: discovery, subscription and cleanup, with its proofs.
3. (done) `DmInfo`, `DmAccess`: names, types, forms of replies; with proofs.
4. (done) `UbusList`: lists through the command, and the announcements around.
5. (done) `DmMirror` and the refinement, with its proof.
6. (done) `DmSyncRestart`, `OnuRestart`: ends of the process and of agents, with
   proofs.
7. (done) Proofs of the invariants of `UbusList`.
8. (done) `DmSyncRestart` and `UbusList` implement `DmMirror` too; the conversions of
   paths proved for any path.

What could follow: several templates and the ONU table in one instance, so that the
subscription that `UbusList` takes as one flag is the one `OnuRestart` loses; and
the deferred requests of `DmSync` with agents that restart.
