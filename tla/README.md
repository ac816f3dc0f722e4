# Sait USB network driver: TLA+ models, checks and proofs

The repository holds an NDIS 5 miniport for a USB network device (`src/driver`) and a small test
program for it (`src/exe`).  NDIS calls the driver from its own threads, the USB bus driver calls
its completion routines at DISPATCH_LEVEL, one system thread of the driver keeps reads on the bus,
and programs send ioctls to a control device; all of them share one adapter structure per device
and a few globals.  Most of the code is protected by interlocked counters, flags and events rather
than by locks, and the device may fail or vanish at any moment.  That is what these modules are
about.  Line numbers below are those of the source files (comments there are Korean, code page 949).

## The system and its parts

| Part | State | Operations | Hard part |
|---|---|---|---|
| Remove lock (`sait.c`) | `RemoveCount`, `HaltPending`, `RemoveEvent` | acquire, release, wait for safe halt | lock-free: increment, test, back out; who sets the event |
| Receive path (`receive.c`) | `ReceiveUsbPacket`, `ReceiveEvent`, `ReceiveCount`, descriptor list, thread handle, two more events | thread, read, completion, `SaitReturnPacket`, `SaitFreeReceive` | wake-ups, drops, halts that race with reads |
| Send queue (`send.c`) | `SendQueue`, `SendPendingQueue`, two counts, `SendIdleEvent`, contexts | `SaitSendPackets`, cancel, `SaitFreeSend` | packets moved and completed under and outside a lock |
| USB write path (`send.c`) | write contexts, the remove lock | `SaitSend`, `SaitUsbPacketWrite`, the write's completion | who still uses a context when the halt frees them; `SaitSend` is not registered in this build (`sait.c:79`) |
| Control device (`ioctl.c`) | `MiniportCount`, a mutex made of a counter, `NdisDeviceHandle`, `gdeviceExtension` | register, deregister, dispatch, two vendor commands | several adapters, one global pointer |
| Hardware set-up (`sait.c`, `usb.c`) | descriptors, pipes, memory | `SaitInitialize`, `SaitFindHardware`, `SaitFreeResources` | every step may fail, one clean-up for all exits |
| OID requests (`info.c`) | packet filter, power state, packet counters, station address | query, set | two lengths told to the caller; answers read where completion routines write |
| Test program (`testapp.c`, `testapp.h`) | list of `DEVICE_INFO` with a device handle, a control handle and a registration each | window procedure, menu commands, plug-and-play messages | messages find their entry by the value of a handle that may be closed already |
| Driver entry, debug output, build files | none that changes | `DriverEntry`, `SaitReset`, `SaitCheckForHang`, `SaitPnPEventNotify`, printing | not modelled |

Interaction.  `SaitInitialize` finds the hardware, initialises send (which registers the control
device) and receive (which creates the thread), and enables the thread.  The thread takes the remove
lock for each read and the read's completion routine gives it back; a completed read is copied into
a descriptor, lent to NDIS, and comes back through `SaitReturnPacket`.  `SaitHalt` disables the
thread, sets `HaltPending`, gives up the base count, aborts the pipes, waits for `RemoveEvent` and
`ReceiveCloseEvent`, deregisters the control device, waits in `SaitFreeSend` and `SaitFreeReceive`
until the packets are back, and frees everything.  Ioctls reach an adapter through
`gdeviceExtension` and the bus driver through its `LowerDeviceObject`.  Between initialisation and
halt NDIS sends OID requests, one at a time, while the completion routines go on counting packets.
The test program is a process of its own: it opens network devices and the control device, and
closes its handles when plug and play asks it to.

What makes each part correct: the count of the remove lock is exact and its event means "nobody
inside, nobody will enter"; the receive counters account for each read, slot and descriptor and the
halt gets all of them back; each packet given to the driver is in one place and completed once; the
mutex excludes and the control device exists with the first adapter until the last; whatever fails
in the set-up, everything allocated has one owner and is freed once; a write gives its context and
its lock back, and the halt frees contexts that no transfer uses; a request is answered within the
buffer it came with and with a value of its time; the test program owns the handles it closes and
loses none of those that keep a device from going.

## Modules

| Module | Content |
|---|---|
| `Rundown` | abstract specification of a rundown: enter while open, close once, announce the drain when empty |
| `RemoveLock`, `RemoveLockProofs` | the remove lock, one action per shared access; implements `Rundown` |
| `WritePath`, `MCWritePath`, `WritePathProofs` | writes as users of `RemoveLock`, their contexts, the halt that frees them; extends `RemoveLock` |
| `ReceivePath`, `ReceivePathProofs` | thread, reads, completions, returns, halt and shutdown; implements `Rundown` |
| `SendPath`, `MCSendPath`, `SendPathProofs` | send queue, cancel, halt; implements `Rundown` |
| `SharedDevice` | abstract specification of the control device: made by the adapter that joins first, gone with the one that leaves last |
| `ControlDevice`, `MCControlDevice`, `ControlDeviceProofs` | adapters, their mutex, control device and ioctls; implements `SharedDevice` |
| `HardwareSetup`, `HardwareSetupProofs` | initialisation and clean-up with every failure |
| `OidRequests`, `MCOidRequests`, `OidRequestsProofs` | queries and settings of an initialised adapter; extends `HardwareSetup` |
| `DeviceWatch`, `MCDeviceWatch`, `DeviceWatchProofs` | the test program and the plug-and-play events it follows |

An MC module fixes the instance that TLC checks; a Proofs module holds the theorems, which are for
all values of the constants.

The users of `Rundown` promise the same thing with different means: a counter and an event, a
counter shared with the thread's reads, or a list whose emptiness is tested under a spin lock.

### How state and actions correspond to the code

Variables have the names of the fields.  A program counter stands for the point a thread or call is
at; everything between two accesses to shared data is one step, a section under a spin lock is one
step unless it calls out.  `PROJECT.json` gives the lines of every definition.

* **RemoveLock.**  `Increment`, `TestHaltPending`, `Release`, `Signal` are the interlocked
  increment, the read of the flag, the interlocked decrement with its local result, and
  `NdisSetEvent`.  The halt has the same steps.  `HaltWait` is the wait that succeeds, `HaltGiveUp`
  the exit of the loop without it.
* **ReceivePath.**  The receive thread and the NDIS worker have a program counter.  Reads and packets
  are not distinguished by the code, so `at[s]` counts those at stage `s`: on the bus, cancelled,
  in one of the sections of the completion routine, with NDIS, in one of the sections of
  `SaitReturnPacket`.  `haltedSafely`, `lostLocks`, `lostSlots` and `lateClear` are history
  variables.  Buffers, URBs and IRPs are abstracted to whether a read could be set up; the
  calls of the halt that do not touch the receive state (`NICDeregisterDevice`,
  `SaitFreeSend`, the sleep) are part of the step to `SaitFreeReceive`.  The bus driver's behaviour
  (`CompleteOk`, `CompleteFailed`, what an abort cancels) and NDIS's are taken from how the code
  uses them.
* **SendPath.**  `SendLock` is a variable, since `SaitSendPackets` holds it over a whole array with a
  read of `HaltPending` for each packet.  The sections of the halt and of cancel are one step that
  needs the lock free.  As in the code nothing ever completes a packet of `SendQueue`, and the
  pending queue is never filled, because the test for hardware resources is `if (TRUE)`.
* **ControlDevice.**  An adapter goes through registration, halt and deregistration with one step per
  access to a global; hardware set-up, waiting and freeing are one step each.  A caller opens the
  device, reads `gdeviceExtension`, builds and sends a request, and is done.  For `SharedDevice` an adapter
  is registered from its last change of count or handle in `NICRegisterDevice` to the last one in
  `NICDeregisterDevice` (`Registered`).
* **HardwareSetup.**  `live` is the set of allocated blocks, `ptr` what each pointer variable holds.
  Kinds of steps (`Allocate`, `Replace`, `Submit`, `Release`) are shared by the actions.  A device is
  the sequence of the endpoints of its one interface.  Bus driver answers are a success, an informational
  status (which `NT_SUCCESS` accepts and `SaitInitialize` does not) and an error.
* **WritePath.**  The users of `RemoveLock` are the writes: a call of `SaitSend` together with the
  completion routine it leads to.  Each action is an action of `RemoveLock` joined with the write's own
  step, or one that leaves the lock alone; `wpc` is where the write is.  `SaitSend` is declared as
  the send handler, but the line that registers it is a comment (`sait.c:79`), so this is the driver
  with that line in force.  A packet is a length and whether its buffers add up to it; a context
  is one of a number.  A write that fails between the acquire and `IoCallDriver` ends "abandoned": it has
  given the context back and keeps the lock (`send.c:523`-`531`).
* **OidRequests.**  A query is two steps, the switch (`Query`) and the tail that compares lengths and
  copies (`CopyAnswer`), since packets are counted in between; a setting is one step.  The OIDs
  keep their names without the prefix; those whose answer is a fixed number are told apart by nothing but
  their length.  `SetupStep` is a step of `HardwareSetup`, and `ReadAddress` its `ReadRegistry` with what
  the registry says.  `since` is a history variable: the values `RcvOk` has had since the
  call.  `RcvOk` counts each completed read, also one whose data are dropped afterwards.  What the code
  does and a reader may not expect is kept: a query for the vendor ID copies three bytes of the permanent
  address; `PNP_QUERY_POWER` and `PNP_ENABLE_WAKE_UP` succeed with no bytes; nine OIDs of the list are
  not answered.
* **DeviceWatch.**  One thread runs all handlers, so a handler is one step, except that
  `EnumExistingDevices` and the ioctl command go from device to device while plug and play goes on.
  `ListHead` and `info` are the list and the blocks, `opens` says what each handle value refers to,
  `registered` which notifications the system has to send.  `Match` is the loop that looks for the first
  entry with the handle of a message.  Interface messages other than arrivals only display something.
  What plug and play does is external: one removal at a time, a query to everyone registered,
  the outcome to those who were queried, and handle values that are free are given out again.
  Kept as in the code: `IDM_CLOSE` between query and outcome closes the old value again;
  `DBT_DEVICEREMOVEPENDING` frees the entry without closing a control handle opened meanwhile; a
  control handle is opened when one is open already, and never again after an open that failed
  (`testapp.c:788`).

## Runs

Passing runs (all with deadlock checking off: the driver may stay idle, and an adapter that was
freed does nothing more).

| Run | Bounds | Shows |
|---|---|---|
| `WritePath` | 3 writes, 2 contexts, packets of up to 6 bytes, pipe packets of 2, 1 spare byte | exact lock count and contexts; the last to give the lock back sets `RemoveEvent`; contexts freed after the transfers; transfers end with a short packet; refinement of `Rundown`; the halt gets its event unless a write was abandoned |
| `ReceiveSafe` | 4 slots, wake below 3, pools of 0, 1 and 4, 2 routines at once, 1 failed set-up, failing aborts | counters, bounded overshoot, wake-ups lost by a late clear only, complete drain, refinement |
| `ReceiveLive` | 3 slots, wake below 2, pool of 3, 2 routines, no failed set-up or abort | halts and shutdowns end; reception goes on while the device answers |
| `SendPath` | 3 packets, each given up to twice, arrays of 1 or 2, 2 calls, 2 cancel ids | one place per packet, exact count, refinement; an accepted packet holds the halt up; calls return; an unused queue lets the halt end |
| `Control` | 3 adapters at once, 1 program, all faults | mutex, count, refinement of `SharedDevice`; the only ways in which an ioctl meets an adapter that was freed; the mutex is acquired |
| `Hardware` | 7 devices, every failure; 15 OIDs, 11 buffer lengths and each length asked for, a counter modulo 4, 2 packets during a query | ownership, no leak, complete on success, deselected at the end; replies within their buffers, second tries answered, the right address, fresh counters |
| `DeviceWatch` | 2 devices, one of them a Sait device, 3 handle values, 3 blocks | handles of devices and of the control device owned, those of devices not lost, the right entry found |

Why the bounds are enough.  In `WritePath` three writes are one that fails, one that completes and
one that races with the halt, and two contexts leave one of them without; the sizes have a packet that
is short, one that is full, one at the limit and two over it.  `ReceiveSafe` uses the code's own
numbers (4 and 3); two routines at once give a routine of each kind a partner to race with, and each
further one only adds more of the same because no routine looks at another.  `ReceiveLive` is smaller
to keep the liveness check short, with the same order of the numbers, wake-up limit below slots.  In
it aborts succeed: when one fails and the device does not answer, its reads stay on the bus and the
halt goes around its loop for ever.  Two calls and three packets let one call's array be overtaken by
another call and by each step of a halt.  Three adapters give a first, a last and one between
them; one program is enough because programs share nothing but what they read.  In `Hardware` the
lengths are those at which an answer starts to fit and one byte less; the counter wraps within
a query.  Three handle values for two devices and the control device make the system hand out a
closed value again, also to the control device, and three blocks allow two entries for one device.
`Concurrency`, `MaxLost`, `MaxSends`, `MaxPresent`, `MaxArrivals`, `Asked`, `Lengths`, `Packets` (of
`WritePath`), `Handles` and `Entries` are the names of all bounds; the last two stand for opens and
allocations that fail.  `MaxContexts` and the sizes of `WritePath` are numbers of the code, reduced.

Violation runs: each shows that the code does not keep what one of its comments says.

| Run | Comment | What happens |
|---|---|---|
| `ReceiveEnable` | `sait.c:298` | the thread may end before it is enabled |
| `ReceiveWakeup` | `receive.c:732` | a wake-up between test and clear is lost: every read has completed (in the trace they fail), no slot is in use, the thread waits and nobody is left to set the event |
| `ReceiveSafeHalt` | `sait.c:1044` | the halt goes on with a read on the bus |
| `SendHang` | `send.c:154` | once packets were accepted the halt waits for ever (one is enough: `AcceptedBlocksHalt`) |
| `ControlLeak` | `ioctl.c:589` | a failed initialisation stays counted: a later halt deregisters with no other adapter present, and the control device remains |

Other disagreements met while modelling have no run of their own; the models contain them, and the
passing properties say how far they go.

* A stale `ReceiveEvent` lets the thread send more reads than there are descriptors
  (`receive.c:404`): `OvershootBounded` has the limit that does hold, `SlotsExact` counts the slots
  that dropped reads never give back.
* The error path of `SaitUsbPacketRead` keeps the remove lock (`receive.c:594`): `RemoveCountExact`
  counts it in `lostLocks`, and `HaltTerminates` needs `ReceiveCloseEvent` to end the halt.
* `SaitInitialize` writes to the adapter after it has freed it (`sait.c:299`).
* An ioctl may use an adapter that was freed (`gdeviceExtension`, `sait.c:404`, `ioctl.c:179`).  One
  adapter unplugged while a program has the control device open is enough, and so are two adapters, of
  which the one found last is freed first.  Nothing in the code prevents either.
  `FreedOnlyIfHeldOrShared` says no more than that these, and an initialisation that failed and stayed
  counted, are the only ways: a handle opened since the last free, with no adapter present but the freed
  one and none forgotten, leads to no freed memory, because a halt deregisters the control device
  before it frees.  TLC finds a state for each of the three exceptions when it is left out.
* A failure after the configuration was selected leaves it selected (`sait.c:637`): `EndDeselects`
  is about the configuration that was handed over to the adapter.
* Without a readable configuration the station address stays zero (`sait.c:256`); an address of the
  wrong length falls back to the permanent one.  `AddressFallsBack` says which is taken when.
* A write that fails before `IoCallDriver` keeps the remove lock (`send.c:523`-`531`), after which no
  halt is safe: `HaltUnlessAbandoned` has the exception in its premise.
* A completion routine of a write gives the lock back before its context (`send.c:710`-`712`):
  `FreedAfterTransfers` lists it among those who may still be under way when the contexts are freed.
* A filter or power state of the wrong length is refused with `BytesNeeded` left at 0, where
  `info.c:427` says that it is the number of bytes required.
* The test program is to open the control device "if it's not already opened" (`testapp.c:777`); the
  test is the other way round (`testapp.c:788`).  Handles of the control device are lost by it, so
  `NoDeviceHandleLeaks` is about handles of devices; `ReplacedControlIsLost` and `ControlNotTriedAgain`
  say what it does, and are proved.
* If a device could be opened more than once at a time, one that arrives between the registration and
  the enumeration would get two entries with a handle each.  When its removal fails, the first of them to
  be opened again may get the closed value of the second, whose message then finds the wrong
  entry: TLC shows it for `NotificationFindsEntry` with `Exclusive = FALSE`.  The program asks for share
  mode 0 (`testapp.c:590`); `Exclusive` assumes that the system grants what it means.
* `ioctl.c` is not among the `SOURCES` of `src/driver/sources`.

## Fairness

`ReceivePath`: weak fairness for the thread, the worker and each section of a routine, because the
scheduler runs them and none of them blocks except in the waits modelled as guards; strong fairness
for the completion of a cancelled read and the return of a packet, which the bus driver and NDIS owe
the driver (strong, because the bound on concurrent routines disables them now and then).  No device
has to answer, nobody has to halt; only `ReceptionGoesOn` assumes, in its own premise, that reads on
the bus are answered.  `WritePath`: a call and a completion routine run on, the bus driver completes what it
has, as the halt aborts the pipe, and a halt that has begun goes on.  `SendPath`: who has begun goes on; a spin lock that is free
again and again is acquired.  `ControlDevice`: a worker that initialises or halts an adapter runs on.
`WritePath`'s and `ControlDevice`'s liveness hold only if attempts, or collisions of back-offs, come to
an end, which is stated in the property: a counter used as a lock has no fairness of its own.
`DeviceWatch` and `OidRequests` state no liveness: nobody has to press a key or to ask.

## Proofs

* **RemoveLock** (`TypeCorrect`, `CountIsExact`, `SignalMeansEmpty`, `SignalMeansClosed`,
  `NoSignalIsLost`, `Refinement`).  The invariant adds to the exact count that from the moment somebody has
  seen the count reach 0, and not only when the event is set, nobody is inside and the base count is gone.
  Without that middle state the step that sets the event could not be shown to be right.
  `NoSignalIsLost` is the converse: with nobody counted the event is set, or somebody is about to set
  it, so a halt waits for a user that has not released and never for a signal.
  Assumption: the set of users is finite.
* **ReceivePath** (`Invariance`, `TypeCorrect`, `RemoveCountIsExact`, `DescriptorsAreExact`,
  `SlotsAreExact`, `Overshoot`, `SignalMeansQuiet`, `DrainCompletes`, `Refinement`; `NoSignalIsLost`,
  `NoIdleEventIsLost`, `OnlyLateClearLosesWakeup`, `ThreadEndsFirst`, `StallNeverEnds`).  `IInv` has
  five parts, proved one on top of the other: types, the four exact counts, the remove lock, the
  idle event, and a budget.  The budget is what makes the overshoot inductive: the slots in use, one for a
  thread that will count another read, and one for each routine about to set the event, never exceed
  the limit plus the routines that run.  The second group is about events (`OwedInv`): each of the
  three that somebody waits for is set, or a routine at a known place is about to set it, with the one
  exception of the thread's late clear.  `StallNeverEnds` turns that round: a thread that waits
  with nobody left to wake it, or with too many slots lost, waits for ever and no halt gets past it,
  which is why `HaltTerminates` and `ReceptionGoesOn` need their exceptions.
  Assumption: `SizesAssumption` and nothing on the number of slots but that it is positive.
* **SendPath** (`CountIsExact`, `FreedMeansEmpty`, `Refinement`; `TypeCorrect`, `PacketsHaveOnePlace`,
  `NothingEverPends`, `AcceptedMeansHang`, `WaitsOnlyForPackets`).  The first invariant, `IInv`, adds that a
  call is past its acquire if and only if it holds `SendLock`, so that the halt's look at the count
  cannot fall between a call's test of `HaltPending` and its queueing.  From then on `HaltPending` is
  set and no call is about to queue.  Refinement maps the packets in `SendQueue` and the one about
  to enter it to `inside`.  `PInv` adds the places of the packets (`PlaceInv`): how often a packet is in
  the lists, the arrays and the completions is as often as it was given, and at most once outside of the
  completions.  Its proof does not use that the pending queue stays empty: cancel and drain are
  shown to be right for a queue of any length, as they would have to be with a real test for hardware
  resources.  For that `Sift`, the walk of `SaitCancelSendPackets`, is a function over the places of the
  list, and what it returns (`SiftProperties`, `SiftSplits`) is proved by taking the least place at which a
  claim fails (`NatMin`, `Stepwise`).  That the queue does stay empty is a theorem of its own, and so is that one
  accepted packet holds every halt up for ever and nothing else does: run `SendHang` for all values
  of the constants.  Assumption: the set of calls is finite.
* **ControlDevice** (`TypeCorrect`, `MutexExcludes`, `CountIsExact`, `DeviceFollows`, `Refinement`,
  `DeviceIsShared`, `LastHaltDeletes`, `OneFailureIsForGood`, `FreedMeansHeldOrShared`).  The counter is
  the adapters inside plus those backing off; an adapter that brings it to 1 therefore finds nobody inside,
  and late increments cost only time.  `MiniportCount` is the number of adapters registered and not
  deregistered.  For its induction one has to know where failed initialisations can be: they stay counted
  although `FreeFailed` removes the adapter, so they are counted in a history variable from the step
  that fails.  `DeviceInv` adds what the one adapter at the device knows of the count, so that the device
  follows it whenever nobody is there.  From both follows that the steps of `NICRegisterDevice` and
  `NICDeregisterDevice` implement `SharedDevice`, in which each is one step: `RegisterIsJoin` and
  `DeregisterIsLeave` say which step it is, the counting or the one at the device.  `LastHaltDeletes` is
  the comment of `ioctl.c:589` for adapters none of which was forgotten, `OneFailureIsForGood` what becomes of
  it after the first that was: run `ControlLeak` for all values of the constants.
  `FreedMeansHeldOrShared` has no premise.  `HandleInv` says of a handle opened since the last free that
  what its ioctl uses is not freed, or else the control device has outlived an adapter; with nobody else
  there, that takes a count which a forgotten initialisation keeps up.  Assumption: the set of adapters
  is finite.
* **WritePath** (`WritesUseTheLock`, `WriteTypeCorrect`, `WriteCountIsExact`,
  `NoWriteEntersAfterSignal`, `WritesLoseNoSignal`, `AbandonedMeansNoHalt`, `WritePathRefinesRundown`,
  `TransfersEndShort`, `FreeingIsSafe`, `NoContextIsLost`).  The first says that `WriteSpec` implements
  `RemoveLock`'s `Spec`, which carries that module's theorems over.  `WInv` is the lock's invariant, the types
  (where a write is determines what it has of the lock), the lengths of the transfers under way, and that
  contexts are freed only after the wait.  The count of contexts is proved on its own.
  `AbandonedMeansNoHalt` is the reason for the exception of `HaltUnlessAbandoned`: after one write that
  kept its lock `RemoveEvent` is never set.  Assumptions: `WriteAssumption`, which
  is what the header and the device give, and that the set of writes is finite.
* **HardwareSetup** (`HardwareTypeCorrect`, `BlocksHaveOneOwner`, `NoMemoryLeaks`,
  `SuccessMeansComplete`, `EndsDeselect`).  `HInv` has the types, a part on memory and one on the
  device.  The part on memory knows for each point which variables may own a block, and that
  each block has one home variable, so that no two variables meet in one block; that makes the single
  clean-up right for seventeen exits.
* **OidRequests** (`AdapterIsSetUp` and the theorems of the adapter).  As with the writes, the
  specification implements `HardwareSetup`'s, so its four theorems hold here too.  `OInv` adds that
  a query under way knows the present counter among those it has seen, that a second try has the
  length of its answer, and what the registry means for the address.  Assumption: `OidAssumption`.
* **DeviceWatch** (`TypeCorrect`, `EntriesOwnHandles`, `EntriesOwnControlHandles`, `DeviceHandlesKept`,
  `MessagesFindEntries`, `ControlStaysClosed`, `ReplacedIsLost`).  All of them need `Exclusive`.  The invariant ties registrations and entries together (`NoteInv`), says
  that plug and play is at work on one registration and that who was queried hears the outcome
  (`RemovalInv`), that a device has one handle and a handle of the control device one entry (`OpenInv`), and, the heart of it, that of two entries
  with one value in `hDevice` the first in the list is the one that waits (`OrderInv`): entries are
  added at the tail, and a value can be given out again only after its entry was told to wait.
  `ControlStep` is all that a step can do to the control device of an entry, from which the last two follow.
  Assumptions: `WatchAssumption` and `NullAssumption`, which say that different things are different.

Every invariant and every action property of a passing run is stated by a theorem.  Only model-checked:
liveness (`HaltTerminates`, `ShutdownTerminates`, `ReceptionGoesOn`, `HaltUnlessAbandoned`, `CallsReturn`,
`HaltEndsIfUnused`, `MutexIsAcquired`), as fairness and `ENABLED` are beyond the prover.  Their safety half, that
whoever waits is owed what he waits for, is proved for the events of the receive path and the remove lock.
Properties that are proved and have no run, such as the type invariants of the send queue and the test
program or `StallIsForGood`, were checked with TLC on the same instances first.

## Not modelled

* `SaitResetPipe`, `SaitResetDevice`, `SaitSelectAlternateInterface`: called by nobody.
* `SaitReset`, `SaitCheckForHang`, `SaitPnPEventNotify`: change nothing.  `DriverEntry`: runs once.
* Contents of packets, descriptors, URBs and answers, debug output, resources and build files.
* What a late routine does to freed memory: the models stop there and say which routines are late.
  `SaitInitialize`'s own write to the freed adapter (`sait.c:299`) is one line without interleaving.
* Tests that no caller can fail: the length and the buffer in `SaitConvertUsbToNdis`
  (`receive.c:628`, `:636`), the blocks of a context in `SaitUsbPacketWrite` (`send.c:460`), a
  configuration without an interface (`sait.c:571`: the devices of the model have one).
* The second read of `gdeviceExtension` in the first vendor command (`ioctl.c:169`, `:260`), whose value
  is not used.
* In the test program: an `HeapAlloc` that fails at `testapp.c:551` (its result is not tested),
  messages handled while the box of a failed enumeration is open (`testapp.c:630`; the box and the
  clean-up are one step), and messages sent between `PostQuitMessage` and the end of the loop.
* Re-entrance of NDIS from `NdisMSendComplete` (`send.c:271`): it depends on the protocol above.

## Plan

1. Remove lock with its abstract specification; then the receive path on it; both proved (done).
2. Send queue, control device, hardware set-up, and proofs about them (done).
3. Write path on the remove lock, OID requests on the hardware set-up, the test program, each with its
   proofs (done).
4. Composition of the receive path, the send queue and the control device in one `SaitHalt`, each
   through its abstract specification.
