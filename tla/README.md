# labgrid: a TLA+ development

labgrid lets many people share boards and lab equipment. *Exporters* run on the
hosts the hardware is attached to and offer *resources* (a serial port, a power
switch). One *coordinator* knows all resources and the *places* that group them;
*clients* lock ("acquire") places, or queue for them with *reservations*. A
client that has acquired a place drives its hardware through a *target*, whose
drivers are bound to the place's resources, usually under the control of a
*strategy*.

The modules follow a resource all the way: from the USB device that comes and
goes, through the exporter and the coordinator, to the client's commands, its
target, the drivers that talk to the board, and the strategy above them. Paths
below are relative to the repository; `coordinator.py`, `exporter.py`,
`scheduler.py` and `client.py` are in `labgrid/remote/`.

## Inventory

| Component | State | Operations | What makes it correct | Modules |
|---|---|---|---|---|
| Scheduler (`scheduler.py`) | none: lists in, a dict out | `schedule_step`, `schedule_overlaps`, `schedule` | no place twice; priority decides between rivals; nobody waits beside a free place; the loop ends | Scheduling, SchedulingLemmas, Scheduler, SchedulerProofs |
| Coordinator, acquisition (`coordinator.py`) | `places`, `exporters` (sessions, ResourceImport), one `asyncio.Lock`, per stream a command queue and `pending_commands` | AcquirePlace, ReleasePlace, AddPlace, DeletePlace, ExporterStream, `_synchronize_resources` every 15 s | a resource belongs to one place; what the coordinator believes is what the exporter did; leaks and orphans are repaired; the lock comes back | ResourceLock, Coordinator, CoordinatorProofs |
| Coordinator, reservations | `reservations`, `place.reservation` | Create-, Cancel-, PollReservation, `schedule_reservations` | allocations are disjoint; the copy in the places is exact; only owners lock; priorities; progress | Reservations, ReservationsProofs |
| Coordinator and clients (`coordinator.py`, `client.py`) | `clients` with a queue each; the client's copy of places and resources, pending syncs | ClientStream, subscriptions, `_publish_*`, sync, stop, setters, Acquire- and ReleasePlace as a client sees them | a client that has read its queue sees the coordinator's state; a command sees its own change; nobody waits for ever | Publishing, PublishingProofs |
| Coordinator, persistence (also `util/atomic.py`) | `save_scheduled`, `places.yaml`, `resources.yaml` | `save_later`, `save`, `load` | files are whole and up to date, whatever crash comes between | Persistence, ProgramProofs |
| Exporter (`exporter.py`) | groups of ResourceExport (acquired, broken, start_params, avail), the table `exports` | message_pump, acquire, release, poll, start, stop | started exactly while acquired; what is published is there; the parameters fit the class on the client | Coordinator, ResourceExport, ExportTables, ProgramProofs |
| Resources on USB (`resource/udev.py`) | a queue of events; per resource its device, and paths below it | `_insert_into_queue`, `poll`, `try_match`, `update` | a resource has the device that is there, and no other | UdevClasses, Udev |
| Client command line (`client.py`) | the target of the place | each command's search for a resource and a driver; `console` | the device that was meant, with its driver; microcom ends with the right to use the place | Commands, ConsoleSession, ProgramProofs |
| Target and binding (`target.py`, `binding.py`) | state of each driver and resource | bind, activate, deactivate, `update_resources`, `resolve_conflicts`, cleanup | no active client of an inactive supplier; no two active clients in conflict; tear-down from the top | Target, TargetProofs |
| Strategies (`strategy/`) | status, or the path in the graph | transition, invalidate, force | the recorded state is the one the target is in | Strategies, GraphStrategy, ProgramProofs |
| Agents (`util/agent.py`, `agentwrapper.py`) | a subprocess, a pipe and a socket | call, load, serve, close | the answer to a call is its own, also after exceptions | Agent, BoardProofs |
| SSH connections (`util/ssh.py`) | connections, forwards, keepalive | get, add and remove forward, connect, disconnect | forwards work, are shared, and are removed | SSHConnections, BoardProofs |
| SSHDriver (`driver/sshdriver.py`) | master, temporary directory, keepalive, forwards | activate with retries, run, forward, deactivate | commands reach the own master; nothing is left | SSHDriver, ProgramProofs |
| Console drivers (`driver/shelldriver.py`, `ubootdriver.py`, `smallubootdriver.py`, `bareboxdriver.py`) | active, status, the expect buffer | activate, run, wait_for, reset, boot | the output of a command is its own; the prompt is found again | Console |
| Power and outputs (`driver/power/`, `driver/*output.py` and others) | none; sessions at the device | on, off, cycle, get, set | the outlet that was meant, no neighbour, and the truth about it | Outlets, BoardProofs |
| Outputs that share a device (`ftdigpiodriver.py`, `usbhidrelay.py`, their agents) | shared agents with reference counts, the byte of the chip | activate, set, get, deactivate | no lost update; agents live as long as their users | SharedOutputs, BoardProofs |
| Other drivers, steps, environment, pytest plugin, autoinstall | | | see "Not modelled" | |

How they interact. A client's RPC reaches a handler of the coordinator, which
takes the lock and, for AcquirePlace and ReleasePlace, sends one command after
the other to exporters and waits up to 10 s for each response, with the lock
taken. Commands and responses, and the updates of resources, travel on one
bidirectional stream per exporter; the coordinator's end is a task that sends
and a task that receives (`request_task`). The receiving task needs the lock
when a resource is seen for the first time. Three poll tasks save, synchronise
and schedule every 15 s. Everything in one process is one asyncio event loop:
another task runs only where the code awaits.

On the client, `message_pump` fills the copy while commands send RPCs beside
the stream, which is why each command ends with a `sync` through the stream. A
target is sequential, but its calls nest: `activate` waits for resources, which
polls them, which may deactivate other drivers. Drivers reach hardware through
agents and SSH masters that other drivers share.

What is hard to test here: steps of streams between two awaits of a handler;
answers that come after the timeout; an exporter that is lost and comes back
while its objects are still referred to; a client that goes away in the middle
of its own request; the lock and a stream waiting for each other; deleting what
others refer to; snapshots and updates in one queue; a crash between two files;
handlers that fail in the middle of a nested activation; output of a command
that was given up; devices replugged while their events are still queued; tables
of indices and bits. `PROJECT.json` lists these hazards with the line where each
bites and the properties that catch it.

## Modules

### Scheduling, Scheduler

`Scheduling` has the pure part of `scheduler.py` as operators. A filter is its
position in the list (smaller is more important), tags are reduced to the
relation `match`. Places come from a Python set, so which of several places a
dict assignment keeps is arbitrary: `StepAllocations` is the set of outcomes.
`ScheduleOverlaps` is the whole loop as one value, for use in `Reservations`.
`Scheduler` is the same loop as a state machine, `Iterate` and `Leave`.

### Coordinator

The coordinator and its exporters for the acquisition of resources.

* *Exporter*: `link` (running and connected), `xacq` (its own `acquired` field),
  `dirty` (a breakage that `poll()` has not reported). `Handle` is
  `message_pump` with `acquire` and `release`; a start or stop that fails is
  possible for the resources in `Faulty`. A failing stop ends the exporter,
  because the exception passes `message_pump` (`HandleStopFails`).
* *Stream*: `wire` (commands on the way), `inbox` (updates and responses on the
  way), `pending` (`pending_commands`), `session`, `imported` (`acquired` of the
  ResourceImport objects), `blocked` (the receiving task waits for the lock).
  `Receive`, `Unblock`, `Teardown`, `Connect`. Streams are reliable and first in
  first out until they end (gRPC, external).
* *Places*: `place` and `held` (`acquired_resources`). Who acquired a place is
  left to `Reservations`. Matches are edited freely and are only read when a
  place is acquired, so AcquirePlace takes any set of known resources.
* *The lock*: `lock` says what its holder does, `todo`, `got`, `cur`, `wait` and
  the `sync` variables are its local variables. One action per stretch between
  awaits or turn of a loop; `LoopFree` keeps other tasks of the event loop out
  unless the holder is suspended, so finer actions add no interleavings the code
  does not have. `Timeout` is `wait_for(..., 10)`, `Cancel` a handler that gRPC
  cancels because its client has gone.
* *References*: an object outlives its session, so `held`, `todo`, `got`, `cur`,
  `acqd` and `orph` hold records: "live" is the object that is in the session
  now, "orphan" and "dead" are objects of a session that ended. `Teardown`
  turns them over everywhere at once, as one assignment to a shared object does.

Assumption about Python: `TimeoutError` in `_release_resources` is what
`asyncio.wait_for` raises. This is so from Python 3.11 on; before,
`asyncio.TimeoutError` is another class, is not caught there, and the release
would end early.

`ResourceLock` is what a user may rely on, without any of this: a place is
missing, free or acquired, gets all its resources in one step and loses them in
one step, and no resource is given twice. `ImplementsResourceLock` is the
refinement under `status <- place, has <- Lists`, where `Lists` forgets which
object stands for a resource. The run `coord_one_exporter` checks it, and
`CoordinatorProofs` proves it.

### Reservations

`schedule_reservations` and the RPCs around it. All of them hold the lock
throughout, so each RPC is one action. AcquirePlace and ReleasePlace appear as
their outcome: that their awaits do not matter to reservations follows from the
lock, which everything that reads reservations takes. A cancelled AcquirePlace
leaves the place acquired and schedules nothing (`AcquireCancelled`); a cancelled
ReleasePlace leaves things as they were. A reservation's timeout is the flag
`lapsed`; it can be set at any time and is cleared by a refresh. `older` is the
order of `reservations`, a dict: it decides between reservations of one priority.

Places are deleted and added again under the same name. When a reservation
still has the deleted place, the new `Place` has no copy of it, anybody can lock
it, and `schedule_reservations` fails at an assert (`coordinator.py:1010`) until
the reservation has expired or is cancelled. The history variable `renewed` has
the names of which this is so, since `schedule_reservations` last came to its
end; the properties make an exception for these names and for nothing else, and
each has a variant without it that fails (see the disagreements).

### Publishing

`ClientStream` of the coordinator and `ClientSession` of the client, with the
two directions of the stream between them, as the client's users notice them:
`Start`, `Command` (an RPC beside the stream), `Sync`, `Stop`, `Receive`
(`message_pump`), and on the other side `ClientStream` (the startup,
subscriptions with their snapshots, answers to syncs), `Serve` (the RPCs),
`SetResource`, `ExporterLeaves`, `Crash` and `Restart`. `Put` is `put_nowait` to
the queues of all sessions.

RPCs hold the coordinator's lock (`lock`), but the streams of clients take no
lock (`coordinator.py:314-347`). AcquirePlace and ReleasePlace wait for exporters,
and a snapshot may be sent meanwhile. So each is two steps: AcquirePlace sets
`place.acquired` and waits (`Await`, `coordinator.py:873`), and then publishes the
place (`Acquired`), or resets it without publishing (`AcquireFails`, `:881`), or its
handler is cancelled with its client (`Stop`), which leaves the place acquired and
tells nobody; ReleasePlace waits and then resets and publishes. What exporters
answer is a choice here. The handler of a new exporter's resource, which may add
a default place, waits for the lock too (`adding`). `recent` has, for each place,
what it was since it was last published. A stream that broke is `~Connected`: what its client still sends, a sync for instance, reaches no
coordinator, also none that has been started again since.

`CopyExact` says what the messages under way will make of a copy: the last of
them that tells of a place tells a value that the coordinator has, or has had
since it last published the place, or none does and the copy has it already
(`Becomes`, `PlaceExact`); for the resource it is the value that the coordinator has.
A place that was published and not touched since is therefore exact. That every
place is exact at all times (`CopyAlwaysExact`) does not hold. `since[c]` is what
the place of a command has been since its RPC took effect: ReadYourWrites asks
that the copy shows one of these values when the command returns. For a
release-from that finds the place in other hands, and so changes and publishes
nothing, these are the values in `recent` then.

### Persistence

`save()` step by step: the copy, each temporary file, each `os.replace`; a
write that fails, a kill between any two steps, `load()` after it. The state
that is saved is a number that grows with every change.

### ResourceExport, ExportTables

`ExportTables` has, for each entry of `exports` in `exporter.py`, the class it
is published as and the names of its parameters, and what the class on the
client accepts. `ResourceExport` is one export of any class: the local resource
changes, `poll()` starts, restarts and stops it, starting or stopping fails,
ser2net exits, and the client's `RemotePlaceManager` makes a resource of what is
published.

### UdevClasses, Udev

`UdevClasses` says which devices each of the 27 classes of USB resources takes,
as sets of kinds: subsystem, type, parents and the ids that the classes tell
apart. `Udev` has two such devices, the events the kernel tells of them, the
queue between the listening thread and `poll()`, and resources that are created
at any time: they look at what is there first, and find the events queued
before in `poll()` afterwards.

### Target

All calls of a target as a stack of frames, one action per step between two
calls, because calls nest: `activate` calls itself for suppliers,
`await_resources`, `resolve_conflicts` and thereby `deactivate`. A hook of a
driver may raise at any point, which unwinds the stack; a managed resource comes
or goes whenever it is polled. `BindingOrder` says that the binding has an
order, as `bind_driver` takes only what is bound already. `NoRivals` says of a binding that nothing stands on two clients
of one console.

### Strategies, GraphStrategy

`Strategies` unfolds a `transition` or `force` of the four strategies into the
calls on drivers in `todo`; each may fail (`never_retry` then breaks the
strategy). `GraphStrategy` runs over every graph of four states with ordered
dependencies, `via`, and state methods that call `transition` themselves. Its
`find_abs_path` climbs from the state to the root and keeps which positions of
`via` are left (`Climb`); the loop over `via` removes elements of the list that
it goes through, and so skips the one behind each (`Hit`, `Removed`).

### Commands, ConsoleSession

`Commands` has one record per command of `labgrid-client` that uses a device:
the drivers it looks for by name and the resources it scans, in their order.
`ConsoleSession` is `console` with its loop of one second, microcom, and the
place that is taken away meanwhile.

### Agent, SSHConnections, SSHDriver, Console, Outlets, SharedOutputs

`Agent` has both ends of the pipe and the socket for file descriptors, and
exceptions that interrupt a call anywhere. `SSHConnections` has one connection
with its forwards and either an own or an external master. `SSHDriver` has the
attempts to start a master, of which each leaves a process, a directory and a
password file. `Console` has a board at the other end of a line: it prints
prompts, echoes and markers as tokens, asks for a password, and restarts once
while a driver waits for it or is active; the driver has the expect buffer.
BareboxDriver's own commands are among those it waits for: the log level when it
is activated and before it boots (`bareboxdriver.py:224`), and its password asked
a second time (`:175`). `Outlets` has a record per power backend and output
driver: which outlets `power_set` and `power_get` address for an index, index 0
included, which indices raise, how the reply is read, and what is asserted.
`SharedOutputs` has the reading, changing and writing of a byte by drivers in two
client processes, and the agents they share. An agent is counted under the
number of the device when it was loaded; each call names the number that the
device has now, so an agent goes on working after a replug.

### Components, MCComponents

Components that do not interact are examined together: a behaviour of
`Components` is one of one component, named by `bench`, and the slots are its
variables. `Examined` says which components an instance has: the boards and what
is attached to them (`MCBench.cfg`), or the programs around a place
(`MCDesk.cfg`). Nothing is checked about combinations, and nothing needs to be.

### Abstractions common to all

Names, tags, tokens and users are model values; formatting, logging and the
contents of what is transferred are left out. Time is a choice: a timeout may
expire whenever its wait is under way.

## Runs

| Run | Instance | Shows |
|---|---|---|
| `scheduler` | 4 filters, 3 places, all 4096 relations | TypeOK, NoDoubleAllocation, NoPriorityInversion, JustifiedWaiting, Terminates |
| `coord_one_exporter` | 1 exporter, 2 resources (1 can fail), 2 places, 2 crashes, 1 unanswered command when a request is let in | TypeOK, ResourceExclusive, Agreement, ResponseMatchesCommand, ImplementsResourceLock |
| `coord_two_exporters` | 2 exporters with 1 resource each, a default place, 2 crashes | Consistent: all invariants, when exporters fail separately |
| `coord_recover` | 1 exporter, 2 resources, one of which can break, 2 places, 1 crash, fair | LockReleased, LeakReleased, OrphanRecovered |
| `reservations` | 2 places, 2 reservations, 2 users, 2 priorities, a filter by tag and one by name | ReservationsConsistent, OnlyOwnerLocks, ReservedWhileUsed, PriorityRespected |
| `reservations_progress` | the same with 1 user and 1 priority, fair | FreePlaceIsUsed |
| `target` | 2 managed resources, 5 drivers: a console with two clients, a power driver, and one driver on both | BindingsConsistent, TeardownInOrder, CallsEnd |
| `publishing` | 2 clients, 1 place that is a group's default place, 1 more start of a client, 2 events (commands, changes, crashes) | ClientsServed, ReadYourWrites, NoTakeover |
| `bench` | `Components` with outlets, shared outputs, agents, SSH connections, consoles, graphs, udev | one invariant each, OutletsApart |
| `desk` | `Components` with commands, console sessions, SSHDriver, strategies, files, exports | one invariant each, Settles |
| `target_lost_supplier`, `publishing_hang` | as above | violations, see below |

**Agreement** is HeldIsOwn (a listed object is live or an orphan, and says it is
acquired by this place or broken) and ExporterAgrees (a connected exporter has
recorded the same place). **Consistent** adds HeldOnlyWhenAcquired,
ReleaseCompletes (a release never meets an object that is not orphaned and has
no session: the AttributeError would leave the place stripped but acquired) and
the rest. **ResponseMatchesCommand**: the n-th pending command is the n-th that
is being answered; `pop(0)` is right even after timeouts.
**ReservationsConsistent** is TypeOK, AllocationsDisjoint and CopyIsExact.
**ReservedWhileUsed**: a reservation whose place is locked does not expire, and the
call that locks its place leaves it to the reservation unless that had timed out.
**FreePlaceIsUsed**: a reservation waits for ever beside a place that suits it only
if `schedule_reservations` fails for ever, for a name that was added again.
**ClientsServed** is CopyExact (a client that has read what is under way has each
place as the coordinator has it or had it since it was last published, and the
resource as it is), SyncUnderWay and StartReturns. The
invariants of the benches are the conjunctions `...Honest` at the end of each
module, with the conditions under which the code keeps them stated in the
formula, and the reason in the comment.

Bounds. `MaxCrashes` = 2 lets an exporter be lost, come back and be lost again
while references to its first objects are still about, and lets one be lost in
each of two operations. `MaxBacklog` = 1 lets a late answer to an expired
command meet a new command; one is enough because answers come in order. Two
places and two resources give a rival for a resource, and an operation that
fails half-way. Four filters and three places give the scheduler several
rounds, ties and unserved filters. Two reservations and two places give
rivalry, priorities and reuse of a place; tokens and users are symmetric. In
`reservations` only one of the places is deleted and added again (`OneDeleted`, a
constraint), in `reservations_progress` both are.
The target has a supplier with two conflicting clients, a client with two
suppliers, and two resources to lose. Two clients and two events let a command
meet another's, a change or a crash, before, during and after a subscription; of
the edits of a place that behave alike, only those of matches are combined in every
way (`FewEdits`, a constraint).
`Udev`: three events beyond the start are a device unplugged, plugged in again
and changed, all possibly still queued; two devices are a rival for a match.
`Console`: the board starts twice at most, so a board that is at its prompt, or
whose driver is active, restarts once; the lines let a late answer meet the next
command twice. `Outlets` has the indices at the edges of every backend (0, 1, 2, 8, 9,
16, 48, 49). Graphs of four states have diamonds. `SSHDriver` has three
attempts, the least with one that is neither first nor last; `Commands` runs three
commands in a row, so that two that found nothing to use again are followed by
one that has to choose between their drivers; `Persistence` three
changes and two kills, so that a change falls into a save that is cut off.
Places and clients are few because all of these behave alike.

Fairness. `TimedSpec` only has what the event loop guarantees: a task that can
go on does (weak fairness of `Proceed`), and timers fire (`Timeout`). `FairSpec`
adds that a connected exporter handles its commands and announces its
resources (weak), that the streams are served and the poll task comes round
(strong: `asyncio.Lock` is first come first served, and the streams compete with
a lock that is taken again and again), and that a given resource is the first
of the shuffled list from time to time (`random.shuffle`, strong). Nothing is
assumed about clients, crashes and failures. `OrphanRecovered` has three
premises: the exporter stays; from some time on no run of `_synchronize_resources`
uses up its five seconds; and from some time on no orphan has broken, nor has the
resource that would replace one (`NoneBroken`). With a broken one the assert at
`coordinator.py:841` may end every run before it comes to the other orphans, so
these are not recovered while it lasts. In `coord_recover` a resource does break;
LockReleased and LeakReleased have no such premise.
`Reservations` and `Scheduler` assume the poll task and the loop to go on.

In `target` a call that was begun goes on: one thread, and timeouts expire
(weak fairness of `Step`). `desk` assumes that the exporter's poll task comes
round and that the client's event loop runs on (weak). The benches and
`Publishing` are checked without looking for deadlocks, because what has used up
its bound stops.

Mutants. Each property of a passing run has a variant of one definition
(`<definition>_<what went wrong>`, just before the definition) under which it
fails.

### Disagreements found

Two runs check what a comment or the documentation says and end in a violation;
`PROJECT.json` quotes the lines.

* `target_lost_supplier`: a driver becomes active although its first supplier
  was deactivated while the second one waited for its resources.
* `publishing_hang`: a command whose sync begins after `message_pump` has ended
  waits for ever; `cancel_pending_syncs` has been called already.

More statements are written down as definitions and fail in the same way when
they are added to a configuration. They are not part of the runs:

* `Coordinator!ReplaceAssertsHold` (`coordinator.py:841`): an assert in
  `_synchronize_resources` fails if a resource breaks between its
  re-acquisition and its replacement; with a resource that stays broken it fails
  in every run, and other orphans stay orphans.
* `Coordinator!UnknownPlaceReleased` (`:781`): a resource acquired for a deleted
  place is never released: `_release_resources(None, ...)` fails.
* `Coordinator!ExporterKicked` (`:487`): an exporter lost while its stream waits
  for the lock stays registered, and cannot connect again.
* `Reservations!OnlyOwnerEverLocks` (`coordinator.py:866`, doc/usage.rst:81):
  after deleting and re-adding an allocated place, somebody else than the owner
  of the reservation can lock it. `CopyIsAlwaysExact` (`:524`) fails with it, and so
  does `FreePlaceIsAlwaysUsed`: until that reservation is over, the assert
  "inconsistent allocation" fails whenever the scheduler runs, and its owner may
  refresh it for ever while others wait.
* `Reservations!LockingAlwaysKeepsReservation` (`:965`, doc/usage.rst:166): a
  reservation that has timed out since the last scheduler run is expired by the
  very AcquirePlace that uses it.
* `Publishing!CopyAlwaysExact` (`coordinator.py:873`, `:881`): a client that
  subscribes while AcquirePlace waits for an exporter is shown the place as
  acquired, and nobody tells it that this was reverted; the other way round, a
  cancelled AcquirePlace leaves the place acquired and no client knows. A default
  place is published to nobody.
* `Outlets!GetAlwaysTellsTruth` (`rpm1521.py:58`): index 0, which nothing refuses,
  reads `socket_states[-1]`, the last outlet.
* `SharedOutputs!AgentsAreAlwaysCounted` (`ftdigpiodriver.py:70`): a driver that is
  deactivated after its chip was plugged in again looks for its agent under the
  new number. The old agent keeps a reference for ever; and if there is an agent
  under the new number, it loses one, and may be closed under its user.
* `Console!RunAlwaysDefined` (`shelldriver.py:218`): a board that restarts between two
  activations leaves a prompt in the buffer, which is taken for that of its login
  and for the answer to `_inject_run`; the driver becomes active while the board
  asks for a user.
* `Commands!NamedDeviceAlways` (`client.py:1224`): `bootstrap --name` does not
  pass the name on to OpenOCD.
* `Console!InitCommandsRun` (`ubootdriver.py:24`): after an
  activation that timed out while waiting for the prompt, the next one finds
  `_status` set, goes active at once and never runs the init commands.
* `GraphStrategy!ViaAlwaysHonoured` (`graphstrategy.py:109`, `:194`): a
  transition succeeds although its path leaves out a state of `via`. A state that
  depends on two states of `via` removes both from the list, with a third
  between them, and goes through one (five states and a `via` of three,
  `N = 5` and `MaxVia = 3`).

What the invariants exempt, each where its module says so: a device that is
bound again after "unbind", or renamed, is not found again, and an exception in
one USB resource keeps an event from those behind it (`Udev`); the hub has no
class on the client, and a ser2net that exits is not noticed (`ResourceExport`);
the U-Boot drivers take any prompt for that of their command (`Console`);
`UBootStrategy.force("off")` leaves the loader active (`Strategies`); a refused
nested transition clears the flag of the running one, and a path may leave out
one of three or more states of `via` (`GraphStrategy`); an
interrupted call leaves its answer to the next (`Agent`); a lost SSH connection
stays in the manager (`SSHConnections`); a master that was too slow, and the
directories of failed attempts, stay behind (`SSHDriver`); a resource called
"default" takes the place of the one a command has found, and where two drivers
fit a command without a name, `get_driver` raises NoDriverFoundError and one more
is made (`client.py:905`), so that NoDoubles is about names (`Commands`); what a place was
since it was last published (`Publishing`); a name that is added again while a
reservation has the deleted place, and a reservation that timed out before its
owner came (`Reservations`); orphans beside a broken resource (`Coordinator`);
index 0 of rpm1521 (`Outlets`); agents counted at the wrong number
(`SharedOutputs`); a prompt from before a restart (`Console`); a failed save is
not repeated until the next change (`Persistence`).

## Proofs

TLAPS proves, for all values of the constants (no bound on exporters, resources,
places, crashes, backlog, filters, drivers, changes):

* `CoordinatorProofs!Exclusive`: `Spec => []ResourceExclusive`. The property is
  not inductive: AcquirePlace checks that its resources are free and lists them
  many steps later. `ExclusiveInv` adds `ClaimsStand`: what an AcquirePlace in
  progress has laid claim to (`todo`, `cur`, `got`) is distinct and in no
  place's list. It survives the awaits because only the lock's holder adds to a
  list, and because `Teardown` changes objects but never which resource a
  reference names (`DetachKeepsResource`). Replacing an orphan keeps the
  resource, too.
* `CoordinatorProofs!TypeCorrect`: `Spec => [](TypeOK /\ LivePresent)`.
  Well-typedness needs `LivePresent`: the object behind a "live" reference is in
  its session; or a detached object would keep no `acquired` field. Also
  `DirtyIsBroken`, for what `poll()` reports. One lemma per group of actions.
* `CoordinatorProofs!Refines`: `Spec => ImplementsResourceLock`, the whole
  refinement. Besides `ExclusiveInv` it needs `LockInv` (a place whose
  RPC is under way is acquired and has an empty list until all its resources
  are listed in one assignment), and shows for each action that places change
  by one step of the lock or not at all. `OnlyAcquiredHold` is a by-product.
* `CoordinatorProofs`, second part: `Agrees` (Agreement), `ResponsesMatch`
  (ResponseMatchesCommand), `ReleaseNeverStuck` (ReleaseCompletes) and
  `CoordinatorConsistent` (Consistent, the conjunction). Agreement says nothing
  of messages, but is false after the next one unless the invariant does.
  `MsgInv` adds, in this order:
  - `StreamInv`: what is under way on a stream is about its exporter, and the
    responses in the inbox and the commands on the wire are, in order, the
    pending commands (`InOrder`: there is an increasing enumeration of the
    positions of the responses, so that updates between them do not matter);
  - `FreshInv`: a command that has not expired is the last one sent, to the one
    resource its holder of the lock waits for. So an answer that is read after
    its command has expired is never taken for the answer to the next one;
  - `GrantInv`: a response that grants a resource comes directly after the update
    that says so, and the exporter has not gone back on it;
  - `Claim`: when a place has, or is about to get, a resource, nothing under way
    releases it or gives it to another (`Told`), and once one update says
    so, all later ones and the exporter do, or say that it broke (`Chain`);
  - what the holder of the lock remembers over its awaits: what it has gathered
    is `Owned`, a list it strips shares nothing with other places (`ReleaseInv`),
    `sync` keeps off what is held (`SyncInv`). An exporter that has come back
    meanwhile is `Reborn`: its first update waits for the lock, so none of its
    answers is read before the holder is done. Without it, the objects that
    AcquirePlace collected before its first await could be listed although the
    exporter has forgotten them.

  The lemmas before `Types` speak of any sequences: what `InOrder`, `Granted` and
  `Chain` become when a message is appended or read. They are stated without the
  module's variables, and each action uses a few of them.
* `SchedulerProofs`: `TypeCorrect`, `NeverDoubleAllocates`,
  `NeverInvertsPriority`, `WaitingIsJustified`, from one invariant `IInv`. Its
  core is that whoever gets a place in a round is the first of *all* remaining
  filters that want it, so a place never goes past an unserved rival; and that
  places are removed exactly when given.
* `SchedulingLemmas!ScheduleOverlapsFair`: the same for `ScheduleOverlaps`, the
  loop as one recursive function, which `Reservations` calls. Its values are
  sets of outcomes. The library's induction takes an operator, so the induction
  is done with the *set* of numbers for which the claim holds
  (`NatSetInduction`), over the number of remaining filters: first that the
  recursive function is defined by its equation (`LoopExists`), then what it
  returns.
* `ReservationsProofs`: `AlwaysConsistent` (ReservationsConsistent), `OwnersLock`
  (OnlyOwnerLocks), `UsedStayReserved` (ReservedWhileUsed) and
  `PriorityHolds` (PriorityRespected). All handlers that schedule satisfy
  `HandsOver`: expire, then give what is free to what `ScheduleOverlapsFair`
  promises, by a list in which priority and age are the rank (`SortedFacts`).
  `Placed` adds to ReservationsConsistent that what is not there has no copy. There
  is no hypothesis about names: a reservation may have a place that was deleted
  and added again, and the invariant says of these (`renewed`) only what holds.
  That nevertheless no place gets a second reservation is due to the order in
  `schedule_reservations`: its asserts come before it hands anything out.
* `TargetProofs!DeactivatedInOrder`: `Spec => TeardownInOrder`. The invariant is
  about the stack: every client of a `deactivate` frame is bound, or still in its
  loop's list, or what the call above it is about (`ClientsPassed`); and nothing
  above it activates anything, because only deactivations are called from a
  deactivation (`Nested`).
* `TargetProofs!AlwaysConsistent`: `NoRivals => (Spec => []BindingsConsistent)`.
  BindingsConsistent speaks of times without a call; `IInv` says what each frame
  of an activation has achieved: the suppliers it has passed are active unless
  one of them was lost (`lost` records the exemption of
  `target_lost_supplier`), the consoles among them have no other client
  active, and what is above it on the stack is about something it stands on
  and does not undo that. Nested calls end because the binding is acyclic
  (`NoCycle`). Without `NoRivals` it is false: a driver that stands on two
  clients of one console activates the second, which deactivates the first.
  `activate` warns of such bindings ("don't activate strategies").
* `PublishingProofs`: `ClientsAreServed` (ClientsServed: TypeOK, CopyExact,
  SyncUnderWay, StartReturns), `ReadsOwnWrites` (ReadYourWrites) and
  `NeverTakenOver` (NoTakeover). `IInv` says of each client:
  - `Life`: until the coordinator reads the startup of a client, that client's
    queues are as `start()` left them and its copy is empty;
  - `Syncs`: what a served client has still to say is the rest of its startup or
    one sync, and of the syncs in its queue there is exactly one when it waits
    and none when it does not; so a command never ends by a sync that an earlier
    one has asked for;
  - `Recorded` and `LockHeld`, of the coordinator: what a place is, is among what it
    was since it was published; and the RPC that waits for exporters with the lock
    is one whose client waits, for a place that is there;
  - `Exact`: CopyExact also *before* the snapshots, for the places and the
    resource that are not there. This is needed because a snapshot only adds: a
    place deleted before it was sent must not be in the copy already;
  - `OwnChange`: counted from some message on, all that the queue tells of the
    place of a command is among the values in `since`, and the sync, if it is in
    the queue, comes after that message (`Seen`).

  What a queue tells of a place is a sequence of values (`Told`); the lemmas
  before `PlacesMade` say what `Becomes` and `Seen` are when it grows or is read,
  `Notified` and `Untouched` what this means for a client to which a message is
  sent, or nothing happens. Each action is then one lemma. A resource has one
  state per message (`OneState`).
* `BoardProofs` and `ProgramProofs`: eleven components, each with an inductive
  invariant `...Inv` at the end of its module. A component is proved by two
  lemmas, `Init => Inv` and `Inv /\ [Next]_vars => Inv'`; `OneStart` and
  `OneComponent` say that a behaviour of `Components` starts as, and takes the
  steps of, the component that `bench` names and of no other. Besides what
  the run checks, the invariants of `BoardProofs` say
  - `AgentInv` (`AgentsAnswer`): as long as no call was interrupted, there is at
    most one line in the two directions of the pipe together, the request of
    the call that waits or the answer to it (`OneLine`); a descriptor is under way
    exactly with the answer it belongs to (`FdPaired`); an answer to `load` says
    that its methods are registered (`LoadAnswered`);
  - `SSHInv` (`ForwardingsWork`): a destination is forwarded once and a port is
    handed out once (`ForwardsApart`); what a user has is in the table, and what
    is in the table of a connection's first life is forwarded (`HasForwards`);
    own masters run for connections that are up, unless the user's own replaces
    them (`MastersKnown`);
  - `SharedInv` (`LinesAreShared`): only one driver of a client is in a call
    (`CallsApart`); who is in the middle of a transfer has the interface, and what
    it has read is still so when it writes (`TransfersApart`, `ClaimKnown`), which
    is why no update is lost; under the number of today an agent has at most as
    many references as active drivers, one that has none has no drivers, and only
    those that `on_deactivate` has counted wrongly differ (`CountsKnown`);
  - `OutletsInv` (`OutletsAreHonest`, `OutletsStayApart`): for each backend and
    every index below 100 that it accepts, `power_get` reads the outlet that
    `power_set` addresses (but for index 0 of rpm1521), no two indices share one, and the words of a reply are
    those of the state (`BackendsSound`, proved from the tables); `on_activate`
    has prepared the address that is asserted (`Addressed`), and what has
    succeeded has passed its assertions (`Passed`).

  and those of `ProgramProofs`
  - `CommandsInv` (`CommandsUseTheirDevice`): every driver of the session, not only
    the one used last, is bound to a resource of its name and of a class it is
    meant for, or to the output of that name (`Supplied`). That a clause of a
    command never makes a driver for a more general class follows from the tables
    themselves (`TablesSound`, `BindingsFit`); that one usable device is found
    needs that a session's first command has no drivers to choose from;
  - `GraphInv` (`PathsAreHistory`): every transition under way has a path from
    the root along dependencies, with rising states (`Rooted`), that goes through
    a `via` of two (`Sound`); unless a refusal was caught, there is one transition
    at most, and what was run and what is left of its path together are the whole
    path (`OnTheWay`). What `find_abs_path` returns is proved as that of
    `ScheduleOverlaps` is, with the set of states for which the claim holds:
    `RemovedExists` (the loop over `via` removes something definite),
    `ClimbExists` (the recursive function is defined) and `FindAbsPath`;
  - `ConsoleSessionInv` (`MicrocomNotOrphaned`): where the client is in
    its loop says whether there is a microcom and how it ended (`MicrocomKnown`);
  - `SSHDriverInv` (`CommandsReachTheMaster`): the control path is that of the last
    attempt that became a master, the only one that can still be one
    (`ControlKnown`), and no `with` statement has a forward of an attempt still to
    come (`ScopesKnown`);
  - `SaveInv` (`FilesAreHonest`): a temporary file is whole and has the copy
    when it is renamed, the copy is current or another save is scheduled, and
    `resources.yaml` is there before `places.yaml` is written;
  - `StrategiesInv` (`StatusIsTrue`): what remains to be done of a transition
    says which drivers are active now (`Underway`: the position in the body of
    each transition), and between calls the status does (`Resting`);
  - `ExportsInv` (`ExportsAreHonest`): an export that is in order runs at most
    the server that its start parameters stand for (`Tidy`), its data was written
    by a `poll()` that did not raise (`Current`), and the names of the parameters
    of each exported class are those that the class on the client takes, except
    for the hub (`TablesFit`).

Assumptions on constants: `ConstantsAssumption` of `Coordinator` (the special
values differ from each other and from the names they are mixed with),
`NumFilters \in Nat`, `PublishingAssumption` (the bounds are numbers, groups may
give places their names, "nobody" is no client), `NamesAssumption` of `Publishing`
(no place is called as the words that stand for none), `ReservationAssumption` and
`NoneAssumption` (priorities are integers, None is no token, name or record),
`BindingOrder` of `Target` (a driver is bound to what was bound before it), and in
`Components` `AgentAssumption` (no module is called as a special request is),
`OutputsAssumption` (finitely many drivers, each in one client, and at least one
number of the device), `IndexAssumption` (indices of outlets are 0 to 99; more than
any backend has), `ExportsAssumption` (exported classes are in the table; a port
is not 0, a path and a place are not the words that stand for their absence),
`BoundAssumption` (bounds are numbers) and `GraphAssumption` (so are those of the
graphs, which have at least one state). TLC evaluates them on the runs.

Only model-checked:

* everything about liveness: TLAPS does not reason about fairness, nor about
  ENABLED. That the loop of the scheduler ends is proved only in the sense that
  its recursive function is defined;
* `ConsoleOK`: which tokens of which command are still to be printed is a
  statement about positions in three sequences that the board's echo, its
  reboots and the driver's expect cut differently for each of the four drivers;
* `UdevOK`: the resource that `poll()` leaves is that of the replay of all
  events queued. It needs what a library fold over these events returns, that is
  an induction with a set as for `ScheduleOverlaps`; it has not been done.

## Not modelled, and why

The drivers that only call one external tool (qemu, sigrok, docker, fastboot,
dd and others): what is hard lies in the tool, and their binding is `Target`'s.
Steps and logging: one stack in one thread. Environment, configuration and the
factory: YAML is turned into objects once and sequentially. The pytest plugin
and autoinstall: glue to the user's configuration. In the modelled parts:
`suggest_match` and resources other than USB and exported ones, file transfer
over the console, aliases, comments and tags beyond one value, agents for
services outside the repository. The generated gRPC code is external; streams
are taken to be reliable and in order until they end. The order in which
AcquirePlace goes through its resources (sorted by name) is arbitrary here.
`Coordinator` is not composed with `Publishing`: there an RPC that waits for
exporters ends in any way it can, and between its beginning and its end the
place is what the code has made of it so far.

Three things within modelled parts are left out. `never_retry` catches only
`Exception` (`strategy/common.py:24`), so after a KeyboardInterrupt a strategy is
not broken and keeps its old status, which may be wrong; in `Strategies` every
failure is an Exception. A console session learns of its place through the
client's copy, which nobody changes any more when the connection to the
coordinator has ended or the place was deleted: it goes on, and `ConsoleSession`
has neither. Which places were acquired is not part of the state in
`Persistence`: `load` drops it on purpose, as `Publishing!Restart` does.

## Plan

1. Done: everything above, with the agreement of coordinator and exporters,
   the matching of responses, what clients see, the reservations, the bindings
   and eleven of the components as theorems.
2. Theorems about what is left of `Components`: `Udev` for any devices,
   `Console` for any number of lines.
3. An allocation table as abstract specification that `Reservations` implements.
4. The remaining resource managers, file transfer over the console, and a
   composition of `Coordinator` and `Publishing`.
