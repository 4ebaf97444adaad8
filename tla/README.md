# prplMesh in TLA+

A verification project for the Wi-Fi EasyMesh agent and controller in this
repository: TLA+ models of the parts in which several actors, timers and
messages meet, TLC runs that check them on small instances, and TLAPS proofs of
the main results for every value of the constants.

Four areas are modelled.

* **Channel switching in the agent**: the task pool, the switch-channel task and
  the coordinated-CAC task that uses it (CAC: channel availability check).
* **Channel scan in the agent**: the channel-scan task, the slave thread that relays
  its messages, and the monitor of a radio with its pWHM wireless layer.
* **The IEEE 1905.1 transport**: neighbour table, de-duplication, forwarding and
  reliable multicast in a network of several devices, and the fragmentation and
  reassembly of CMDUs between two.
* **The tasks of a station in the controller**: the controller's task pool, the
  client-steering, BTM-request, association-handling and roaming (optimal-path)
  tasks, and the message handlers that create, notify and kill them.

## The system and its parts

The agent is a set of processes around single-threaded event loops. The backhaul
manager owns a pool of tasks, which a timer runs every 90 ms. The tasks handle
CMDUs (control messages) of the controller and of the radios, and post events to
each other. The controller has a task pool of its own, whose tasks act for one
station each and share the station's database entry. All processes exchange
CMDUs through the broker of the transport process, which also sends them to and
receives them from the other devices.

| Part | State | What makes it hard |
| --- | --- | --- |
| Agent task pool | event queue, position in a pass | events posted while the queue is emptied; the deadline of a pass |
| Switch-channel task | a state machine per radio: the request and the notifications it has | driver answers, timeouts and new requests in any order |
| Coordinated-CAC task | one state machine: radio, channel, original channel, timers | reports of other switches, termination, late answers |
| Agent channel selection | preferences, pending requests, zero-wait DFS machine | CAC on a second antenna, aborts |
| Agent channel scan | the request that waits and the current scan, per radio | messages that do not name their scan; aborts, timeouts and late results of earlier scans |
| AP autoconfiguration | per-band discovery, M1/M2 exchange | lost messages, repeated discovery |
| Controller connectivity | heartbeat and silence timers | loss of the controller or of the backhaul |
| Backhaul manager | connection state machine | reconnection, slave restarts |
| Slave thread, AP manager, monitor | per-radio state machines | restarts of the fronthaul |
| Transport: packets | neighbours, de-duplication map, de-fragmentation map | loops, reordering, duplicates, full maps, partial failure |
| Transport: interfaces, broker | sockets, subscriptions | link changes, disconnects |
| Event loop, timers, CMDU server | handlers per descriptor | handlers that remove handlers |
| Controller task pool | running and pending tasks, response timeouts | kill requests, late responses |
| Steering, BTM request, association, roaming | tasks of one station, with their waits | two tasks for one station, a client that moves during the steering, late or missing answers |
| Dynamic channel selection | pools of scan requests | report timeouts, agents that leave |
| Controller database | the network map | shared by all tasks, single-threaded |
| TLV library, HALs, platform layers, BML, CLI | none of interest | generated code and I/O |

`PROJECT.json` lists every part with its sources, and says of each one that is
not modelled why it is not. It also lists the hazards of the modelled code, at
the line where they bite, with the properties that guard against them.

## Modules

### Channel switching

* `TaskMessages`: the messages between the tasks. A pointer member is modelled by
  whether it is set. Interface names stand for radios, since each radio has one.
* `TaskPool`: `run_tasks()`. `phase` and `next` are the position in a pass. CMDU
  handlers run between passes only (one thread), so `SendFromCmdu` needs the idle
  phase; events are delivered one per step, and `work()` is called one visit per
  step in the order of `WorkOrder`.
* `SwitchChannel`: `SwitchChannelFsm`, one machine per radio. One action per
  state and event. `Goto` together with `ResetIn` includes the entry code of the
  destination.
* `CoordinatedCac`: `CacFsm`. CMDUs reach the machine directly, reports and
  durations through the pool. `crashed` marks the dereference of a null pointer.
* `ChannelSwitching`: both tasks, the pool, the controller and the drivers. A
  driver that was asked to switch answers with a CSA (or CSA error), or with a
  CAC that completes or ends in a CSA, or never; it may also switch unasked.

Correspondence: the variables keep the names of the members (`m_event_queue`,
`m_fsms`, `m_fsm`); `age` in a machine is the time since its time point, counted
up to `MaxAge`. An event that the state does not register, and a destination that
a transition does not list, leave the machine where it is (the rule of
`beerocks_state_machine.h`); the failed cancel request of a termination is such a
case.

### Channel scan

* `ScanMessages`: the commands of the task and the answers of the monitor, two
  streams without loss. The field `scan` of a message is what the model knows of it:
  the code's messages have no such field, and no guard reads it.
* `ScanMonitor`: the scan requests of the monitor and the wireless layer below it. A
  command is answered at once; events of the layer go through `events`, its event
  queue, which the event loop empties one round later (`slack` bounds the commands
  that come first). The slave thread only renames the messages, so its relaying is
  part of the handling of a command; `RefuseTrigger` is its refusal during zero-wait
  DFS. The driver ends a scan with results, without neighbours, with results that
  cannot be read, with an error, or never.
* `ChannelScanTask`: the task for one radio; the task keeps its state per interface
  and nothing links the radios. One action per message (`HandleTriggerResponse` to
  `HandleAbortResponse`), per kind of request, and per branch of `work()`. `fate` and
  `issued` are history: what became of each request.
* `ChannelScan`: task, monitor, controller, driver and clock. `crashed` marks the
  dereference of a null request; `hasty` is history, the scans begun while the
  messages at the beginning of another one were unread.

Correspondence: `running` and `scan` are `m_current_scan_info`, `pending` is
`m_pending_requests`, `last_scan` is `m_prev_scan_timestamps`. Time is reduced to the
comparisons of the code: `late` (the state's timeout), `expired` (the request's) and
`"recent"` or `"old"` (the minimum interval). The intervals are seconds to minutes
long, so that they end only when no message is on its way (`Quiet`). Where the code
compares the time stamps of a request and of stored results, the model compares the
numbers of the requests.

### Transport

* `Ieee1905Transport`: the decisions of one device. `UpdateNeighbours` is
  `update_neighbours()`, `IsNew`, `IsDuplicate` and `IsUntrackable` are the three
  outcomes of `de_duplicate_packet()`, `ToBroker`, `ToBridge`,
  `ToNetworkInterfaces` and `ReliableCopies` the forwarding rules.
* `RelayNetwork`: devices joined by links. `CmduTx` is a CMDU from the local bus,
  `Receive` a frame from an interface; both go through `HandlePacket`.
  `ForwardFails` is a failure after any part of the writes. Frames are in flight
  for at most `MaxDelay`; they are reordered freely, lost and duplicated.

* `Fragmentation`: one device sends CMDUs in fragments, another collects them.
  `CmduTx` gives the CMDU its messageId and sends it whole or starts the loop;
  `SendFragment` is one iteration of it; `RefuseTlv` and `WriteFails` leave it
  early. `Receive` is `handle_packet()` at the other device, with the early
  returns of `de_fragment_packet()` as `NoThread`, `OutOfOrder` and `Overflow`.
  A CMDU is the sequence of the offsets at which its TLVs end, and a buffer holds which
  TLVs of which call it was filled with. Of each call the model remembers where its
  fragments ended (`cuts`) and when its frames are due, which only properties and time use. `Restart` lets the sender begin again with the
  first messageId.

In `RelayNetwork` a message identity `mid` stands for the message type, identity and fragment of the
code's key. The variables after `inflight` are history for the properties: nothing
in the transport reads them.

### Tasks of a station

* `ControllerTask`: the base class `task` and `task_pool`. A task's `wait` record
  holds what `execute()` tests before `work()`: the delay, the pending events, the
  pending answers, the task whose end it waits for, and whether their timers are
  armed. A handler or a `work()` is described by its effect (new state and data,
  tasks finished, killed and added); `Apply` turns the effect into the next state,
  `handle_task_end` of the finished tasks included.
* `ClientSteering`, `OptimalPath`, `AssociationHandling`: the states, events,
  responses and timeouts of the tasks. `work()` is the set of its possible
  effects: which AP is best, or whether the database knows a BSS, is arbitrary.
* `StationTasks`: the pool with all four kinds, the handlers of what comes from
  outside (`SteerSta`, `StartBtmRequestTask`, `StaJoined`, `StaLeft`, `BtmReport`,
  `RssiNotification`, `NoActivityNotification`, `RadioDead`, `Respond`) and
  `RunTask`, which executes the next task of the iteration.
* `TaskSuccession`: what the tasks promise, with a slot for each station and
  kind: requests are taken up in order, one at a time, the younger one
  superseding the older. `StationTasks` implements it (`RequestsInOrder`): the
  waiting requests are the tasks that have not entered their id in the station,
  the latest one is the id entered.

Correspondence: `pool` is `m_scheduled_tasks`, `owner` the task ids in `Station`,
`handoff` is `m_handoff`, `cursor` stands for the comparison of the tasks' last
execution times. The controller has one thread, so a step is one handler or one
`execute()`; since a slot of `run_tasks()` may end after any task, handlers come
between any two executions. Time is the choice between `RunTask` and
`RunLateTask`, in which the armed timers of the task have expired.

## Runs

| Run | Configuration | Shows |
| --- | --- | --- |
| `channel_switching` | `ChannelSwitching.cfg` | safety with two radios: a machine never holds data of an earlier switch, reports are consistent, the CAC acts on its own radio, no timeout while an announced duration is queued |
| `channel_switching_live` | `ChannelSwitchingLive.cfg` | liveness with one radio: the CAC machine returns to idle, the wait for a CAC ends, and an answered switch moves on |
| `report_without_notification` | `ChannelSwitchingCrash.cfg` | violated: a report without notification is dereferenced in IDLE |
| `channel_scan` | `ChannelScan.cfg` | reports on a scan hold no results of another one, but for the two exceptions below; a request is answered once; scans end and waiting requests are taken up |
| `relay_loop` | `RelayNetwork.cfg` | three devices in a loop: bounded and fresh tables, one forwarding per age, no packet relayed in circles |
| `relay_line` | `RelayNetworkLine.cfg` | three devices in a row: undisturbed messages reach those they are for, once |
| `reliable_published_twice` | `RelayNetworkTwice.cfg` | violated: a device that is its own neighbour publishes its reliable multicast twice |
| `reliable_not_relayed` | `RelayNetworkShadowed.cfg` | violated: the unicast copy hides the multicast copy that is to be relayed |
| `fragmentation` | `Fragmentation.cfg` | what is published is a CMDU that was sent, once; what arrives in order is published; the map and the buffers keep their limits |
| `tlv_of_threshold_size` | `FragmentationTooLarge.cfg` | violated: success is returned for a CMDU whose end was never sent |
| `station_tasks` | `MCStationTasks.cfg` | one task of a kind at a time, in the order of the requests (refinement); a handoff flag always has a task that will clear it; outcomes never exceed attempts; a client that reached its target is no failure; steering, BTM and association tasks end |
| `silent_hostap` | `SilentHostap.cfg` | violated: a roaming task waits without a timeout for an AP that does not answer |

The five violated properties state what a comment in the code says; `findings` in
`PROJECT.json` quotes the lines and says what the code does. Four passing properties leave out a case that the code gets
wrong, and say so: `ReportsAreOwn` the spectrum of the scan before, when the results
could not be read, and the `hasty` scans, which began before the task had read the
messages at the beginning of an earlier one and take them for their own; `ScanEnds` and
`RequestsAreServed` a scan the slave refused without telling the task (and the null
dereference), `ArrivalIsNoFailure` the client that is on the target before the first
execution of its steering task, which the code counts as failed. The hazards of
`PROJECT.json` name the lines.

Deadlock is not checked: in the channel-switching and channel-scan models the process
is gone after a crash, in the transport models time ends at `MaxTime`, and a controller without
tasks and inputs has nothing to do.

### Bounds

* Channel switching: two radios are what it takes to confuse one with the other;
  one channel is enough, since no guard compares the channels of two switches
  except a termination's. `MaxCmdus` = 2 allows a second request, or a termination, during or
  after a first CAC. `MaxUnsolicited` = 1 is a switch nobody asked for.
  `DefaultWait` and `TerminationWait` are 0 and a CAC takes 1, so that the default
  wait is shorter than the announced one, as in the code (5 s against 60 s or
  more); ages up to `MaxAge` = 2 pass both.
* Channel scan: `MaxRequests` = 2, a scan and the one that follows, replaces or aborts
  it, is what it takes to confuse two. Two channels, one of which the radio does not
  have, give requests that are scanned in full, in part and not at all. `MaxInFlight`
  = 2 is the number of unread messages beyond which the model lets no further request
  or pass of `work()` come in; the handlers themselves may exceed it. `ZwdfsRadio` and
  `OtherScans` are TRUE: scans are refused, and the driver reports errors of scans that
  are not the task's.
* Relay: three devices are the smallest loop and the smallest line in which one
  must relay. `MaxDeDupAge` = 3 is the time of the longest way round the loop with
  `MaxDelay` = 1 per hop, the boundary at which `NoRelayLoop` is tight.
  `MaxThreads` = 2 makes the map run full. `MaxInputs` bounds the sends and faults
  together, `MaxTime` the time.
* Fragmentation: `Threshold` = 5 and `MaxBuffer` = 8 give CMDUs that fit, that take
  two fragments, that overflow the buffer and that have a TLV of, or above, the
  threshold. `MinBody` = 3 pads the short fragments. `FragmentIds` = 3 stands for
  the 256 values of the 8-bit identity. `MaxDeFragThreads` = 1 makes a second CMDU
  meet a full map. `MessageIds` is 65536 as in the code. Two calls are what it takes to mix up two CMDUs, and `MaxFaults`
  = 1 is one loss, duplicate, failed write, broker failure or restart; reordering
  is free. `DeFragAgeAssumption` has the two conditions that the comment on
  `kMaximumDeFragmentationAge` names: no frame is in flight longer than the ages of
  the receiver, and a restart takes longer than that delay and an age together.

* Station tasks: one station, since tasks of different stations share nothing but
  the order of the pool, and two BSSs. `Scenarios` are thirteen starting points, each
  with its settings, kind of station and numbers of inputs of each kind
  (`budget`): two commands, or a steering and a BTM request, with moves and
  reports in any order; connections with and without monitoring; roaming with 11k
  and with cross measurements. The limits of attempts and cycles are 2, so that the
  first and the last attempt differ, and two unanswered steerings
  (`FailuresFor11v`) make a station count as not supporting 11v.

### Fairness

`Fairness` of `ChannelSwitching`: the event loop keeps calling `run_tasks()`, which
makes progress (weak fairness of the agent's steps); time passes; and a task is not
skipped in every pass. The last is an assumption about the load: `run_tasks()`
starts each pass with the first task again, so a device on which the tasks before
it always use up the 72 ms would starve it. `AnsweredSwitchMovesOn` also assumes
that drivers finish what they were asked to do; the other two do not.

`Spec` of `ChannelScan`: the event loops of the agent and of the monitor go on (weak
fairness of `WorkStep`, `AnswerStep`, `CommandStep` and `EventStep`), and time passes
(strong fairness of `Clock`, as messages come between). Nothing is assumed of the
controller and the driver: scans end when the driver is silent.

`Fairness` of `StationTasks`: the tasks timer keeps calling `run_tasks()` (weak
fairness of `RunTask`), and a task whose timer is armed is executed again after it
has expired (strong fairness of `RunLateTask`, as other executions come between).
Nothing is assumed of clients and agents: `SteeringsEnd` holds when none answers.
The pool continues an interrupted iteration where it stopped, so no task is starved.

## Proofs

`ChannelSwitching_proof` proves, for any sets of radios, channels and durations,
any order of work and any bounds, that `TypeOK`, `NoDataOfAnEarlierSwitch`,
`ReportsAreConsistent`, `CacActsOnItsRadio` are invariants, and
`TimeoutKnowsDuration`. The inductive invariant `IInv` says that each queued event
has its type and, if a report, is consistent; that each machine is well-typed and
holds only its own data; that the CAC machine is well-typed and acts on its radio;
and that in the work phase only reports are queued. The reports
are built from the machines' data, so the consistency of reports needs that of the
machines: neither is inductive alone. There are lemmas for what each pool operation
does to the queue, and one per group of actions of each task.

`ChannelScan_proof` proves `TypeOK`, `ReportsAreOwn` and `AnsweredOnce` for any channels,
traffic and bounds. `ReportsAreOwn` rests on `ReportInv`: no message names its scan, so
the invariant says, for each state in which the task waits, what may still be on its way.
Until the monitor has handled the trigger of a scan that is not `hasty`, nothing is on its
way that the task could take for an answer to it (`Unserved`); from then on no other scan
is active, and what follows the notification that a scan was triggered is of this one, in
the wireless layer's events as in the answers (`Served`); once the task has read the
notification, all that is left is of this scan. What the task has stored is therefore its
own, and a scan that did not finish has no channel with SUCCESS. For `AnsweredOnce` the
inductive invariant `FateInv` says that the request that waits and the one that runs
are open and are two different ones, and that requests not yet issued have no fate.
It needs nothing of the monitor and the messages, since no answer changes which
request runs; one lemma shows that every change of a request keeps its number
(`NumberKept`), the others go through the steps of the controller, the task and the
rest.

`RelayNetwork_proof` proves, for any network, traffic, ages and limits, that
`TypeOK` (with the bound on the map) and `NoStaleNeighbour` are invariants, and
`ForwardedOncePerAge`. The inductive invariant adds that the device remembers every
packet it took for new, under its own key or the key of its other form, with a time
no earlier than when it took it, until the age passes (`Remembers`; refreshing the
entry on each duplicate only extends this); and that the timeout of the next
neighbour scan is never later than one second, or the remaining time of the longest
silent neighbour, allows (`NeighboursInv`).

`RelayFlood_proof` proves, for any network, `NoRelayLoop`, and for any connected network
`EveryDestinationHears` and `NeighboursHearReliableOnce`. `RouteInv` bounds the time a
message can be on its way: each frame of it is due within one hop for each device the
message has reached, so that the whole network is flooded before the first entry ages.
`FloodInv` follows a message that no fault hit: when a device has it, every device on its
links has it or a frame that is to reach it; and a device has published it as often as
its kind says, once it has it. When the last frame is gone, the devices that have the
message are closed under the links, which in a connected network means all.

`Fragmentation_proof` proves `TypeOK` (with the limits of the map and of the buffers),
`PublishedAsSent` and `InOrderIsPublished`, for any CMDUs, thresholds, ages, limits and
number of faults. `PublishedAsSent` alone is not inductive: what is published is the
content of an entry, which is built from frames, which were cut from a call. `IInv`
therefore says of a call that its fragments follow each other and only the last one ends
with the last TLV (`CutsInv`); of a frame that it is one of these fragments and not overdue
(`FrameInv`); of an entry that it holds the first fragments of one call with its messageId
(`EntryInv`); of the keys of the de-duplication map which fragments they stand for
(`KeysInv`); and that the last fragment of a published CMDU is known as long as a copy of
it is in flight, so that it is not published again (`PublishedInv`). What keeps two CMDUs apart
is `EpochInv`: two calls with one messageId are separated by a restart, which takes longer
than an entry lives after the last frame of the first call. `OrderInv` adds, for a call
that no fault or limit hit, the point up to which its fragments have arrived and are
collected; the others are on their way, unknown to the receiver, and the entry will not
age before they arrive. Of a call sent to its end and not published there is at least one
such fragment, so once its frames are gone it has been published.

`StationTasks_proof`, with `TaskEffects_proof` and `TaskSteps_proof`, proves for any
number of stations, BSSs, commands, settings and inputs that `TypeOK`,
`OneTaskPerStation`, `HandoffHasOwner` and `OutcomesWithinAttempts` are invariants,
the action property `ArrivalIsNoFailure`, and that the tasks implement
`TaskSuccession` (`RequestsInOrder`). The inductive invariant `IInv` says that a task at work is the one its station has entered, and that
what a slot has entered has begun and belongs there, so that a task that enters its
id kills the only other one (`OwnerInv`); that a task that has not begun is as it was
created and the iteration has not come to it, which the order of the requests needs
(`FreshInv`); that a roaming task waits for steering tasks only, so that the end of
one does not finish a task that owns the flag (`HeirInv`); and `HandoffHasOwner`.
`CountInv` adds that the counters have room for every steering at work. `ArrivalInv`
adds that a steering task at work whose client is on the target has recorded the
success: it begins only when the client is elsewhere, a join reaches it because it is
the task its station has entered (`OwnerInv`), and nothing else moves a client or
takes a success back. `TaskEffects_proof` shows of each `work()`, response
and timeout which effects it may have (`GoodEffect`): it never goes back to its first
state, enters its id only from there, counts an attempt when it takes up a steering,
and an outcome only when it ends; and that the handlers keep `IInv`. `TaskSteps_proof`
shows that the execution of a task with any such effect keeps `IInv`, and that handlers
and executions keep `ArrivalInv`; `StationTasks_proof` has the theorems, the counters
and the refinement.

The assumptions are the named `ASSUME`s of the modules: types of the constants, a
multicast address that is no device, CAC durations whose wait fits in 16 bits, stations
that are on a BSS when the run starts (`StationAssumption`), and for the relay (`FlushAssumption`, `ConnectedAssumption`) a finite network that is flooded
within the de-duplication age and whose links connect it. For fragmentation they are the
conditions on ages, delay and restart of the code's comment (`DeFragAgeAssumption`), TLVs
of at least one byte (`CmduAssumption`) and fewer calls than messageIds (`MidsAssumption`):
a run in which the 16-bit messageId comes round while an old fragment is still known is
outside the model.

Only model-checked: the six liveness properties, as fairness is out of the prover's reach.

## Not modelled, and why

* Message contents: TLVs, operating classes, bandwidths. A malformed or
  unsupported request is one choice of the environment.
* `verify_packet()` and the byte-level errors of received frames.
* CMDUs whose messageId the sender has set, and relayed fragments: a relaying device
  forwards each fragment as a packet of its own, which is what `RelayNetwork` does.
* The status computation of a report, which nothing calls.
* In the channel scan: requests for stored results, which change no state, the layout
  of reports, the choice of operating classes, the other wireless layers, and
  restarts of the monitor.
* In the controller's tasks: measurements and the estimation of rates, the split of
  the steering counters by method and band, the load balancer, which can only be
  enabled at run time, settings that change during a run, and stations or BSSs that disappear
  from the database while a task refers to them.
* The parts marked `not_modelled` in `PROJECT.json`.

## Plan

In this order, each with its own modules, runs and, where it pays, proofs:

1. The controller's dynamic channel selection, composed with the agent's channel scan:
   an abstract request/report service that both sides implement (refinement).
2. The agent's zero-wait DFS machine, composed with channel switching.
3. AP autoconfiguration, controller connectivity and the backhaul manager: what
   they do when the controller or the backhaul disappears.
4. The event loop, timers, CMDU server and broker: handlers that remove
   themselves, clients that disconnect during a publication.
