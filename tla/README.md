# Formal model of the AITRIOS Edge Device Manager

TLA+ modules that model the managers of the Edge Device Manager, the TLC runs
that check them on small instances, and TLAPS proofs that hold for every value
of the constants. Paths below are relative to `src/src/` of the repository
unless they begin with `docs/` or `configs/`.

1. [The system](#1-the-system): its parts, their state, how they interact
2. [Parameter Storage Manager](#2-parameter-storage-manager)
3. [Firmware Manager](#3-firmware-manager) and
   [Memory Manager](#memory-manager-memorymanager)
4. [Utility Msg](#4-utility-msg)
5. [Utility Timer](#5-utility-timer)
6. [Logging](#6-logging): Log Manager, Utility Log
7. [Supervision](#7-supervision): Power, LED, Main and System Manager
8. [Inputs](#8-inputs): Button and Clock Manager, HAL, JSON codec
9. [Network Manager](#9-network-manager)
10. [Runs](#10-runs), bounds and fairness
11. [Proofs](#11-proofs)
12. [What is not modelled](#12-what-is-not-modelled)
13. [Plan](#13-plan)

## 1. The system

The program is one process of C managers (ESF) over a porting layer (PL), a
hardware layer (HAL) and three utilities. Every manager has one or two static
mutexes and a state variable or a table of handles; managers call one another
directly, hand callbacks to one another, and post messages to threads.

| Component | State | Operations | Hard behaviours | What makes it correct |
|---|---|---|---|---|
| Parameter Storage Manager (`esf/parameter_storage_manager`) | `mutex_info[]` of two recursive locks over one mutex and one condition variable; `handle[]` with reference counts; `factory_reset[]`; items in a storage with, or without, temporary areas | Init, Deinit, Open, Close, Save, Load, GetSize, Clear, UpdateBegin/Complete/Cancel, (Un)RegisterFactoryReset, InvokeFactoryReset, Lock, Unlock | lock order, lost wakeups, timeouts, recursion at `INT8_MAX`, calls made from callbacks, failure in the middle of several members, restart between accesses | locks exclude and never deadlock; a reference keeps its handle; a call is one atomic change or an error that says what it left |
| Firmware Manager (`esf/firmware_manager`) | `s_state`, the context of one session (promised hash, SHA-256 context, mapped buffer), the submodule's context | Init, Deinit, Open, CopyToInternalBuffer, Write, PostProcess, Erase, Close, GetInfo, StartFactoryReset | failing and repeated calls, a header arriving in pieces, abort and close that fail, restart | only a promised image is installed; a closed session leaves nothing behind |
| Memory Manager (`esf/memory_manager`) | `s_handle_info_list` with the maps, open files and positions of each allocation | Allocate, Free, Map, Unmap, Fopen, Fclose, Fseek, Fread, Fwrite, Fpread, Fpwrite | several handles on one descriptor, the access outside the manager's mutex | nothing in use is freed; a handle used alone is where it was left |
| Utility Msg (`utility/msg`) | list of queues, each with two semaphores, unlocked counters of waiting threads and a list of messages | Initialize, Finalize, Open, Send, Recv, Close | sections under three kinds of locks, pointers kept across unlocks, `EINTR`, timeouts, close under users | no message or slot is lost; every caller is let go |
| Utility Timer (`utility/timer`) | `s_timer_obj[]`, a thread and two event rings per timer, an OS timer and its signal handler | Initialize, Finalize, Create, Start, Stop, Delete | handler, thread and caller race; failures leave threads behind | events are taken once each; Create comes back |
| Utility Log (`utility/log`) | `static_log_state`, parameters and callback of each module | Init, Deinit, WriteDLog, WriteBulkDLog, (Un)RegisterSetDLogLevelCallback, the update by the Log Manager | callbacks out of locked sections | a module hears of the level its logs are judged by |
| Log Manager (`esf/log_manager`) | two RAM planes, upload lists, the elog queue with its counter, settings in memory, as upload names and in the storage, three threads | Init, Start, Deinit, StoreDlog, SendBulkDlog, SendElog, Set/GetParameter, dlog-change callbacks | planes swapped while one is copied, lists searched without the entry's name, a thread that sends to its own queue, three copies of a setting | logs are collected once and in order or given up knowingly; an upload ends as itself; the queue blocks nobody; the copies agree |
| Power Manager (`esf/power_manager`, WDT and system control of the PL) | `s_status`, resources in use, hours meter, the WDT's state, queue, two threads and time stamps, the software watchdog | Start, Stop, PrepareReboot, ExecuteReboot/Shutdown, SwWdt*, WdtKeepAlive, WdtTerminate, hours meter | keep-alive threads and their queue against stop and terminate; failures half-way through start and stop | a stopped manager holds only what was refused; only a silent client ends the process; the feeding ends on a reboot |
| LED Manager (`esf/led_manager`, `pl_led.c`) | statuses per LED, which LEDs are kept, sequences and a timer in the driver | Init, Deinit, SetStatus, GetStatus, SetLightingPersistence | failures between two LEDs, the timer against a call | an LED plays the enabled status of highest priority |
| Main (`esf/main`) | what is up, the message queue, `state_mutex`, the migration's flags, the boot slot | start-up, migration, event loop, reboot, shutdown, factory reset, downgrade | order of shutdown, failed start-up, loss of power during the migration, waits that end by a timeout | only what refuses to go stays up; the source outlives the migration; a request takes the device down |
| System Manager (`esf/system_manager`) | items in the Parameter Storage Manager; reset cause and exception; the old firmware's data | getters, setters, reset cause, exception upload, migration | size and load in two calls, resets between two steps, copies that fail | an answer fits; handles come back; a cause is told, or refused by the log, before it is forgotten; no data is lost |
| Button Manager (`esf/button_manager`, `pl_button*.c`) | handles with callbacks, press timer, queue, the driver's thread | Open, Close, (Un)Register*Callback, Enable/Disable | driver thread, timer and queue against Open and Close | the timer follows the button; the queue outlives its senders |
| Clock Manager (`esf/clock_manager`) | `s_state`, the monitor and the notifier thread, parameters in memory and in storage, the reader/writer counter | Init, Deinit, Start, Stop, Set/GetParams, callback registration | threads stopped by conditions, writers held off during a synchronization | parameters stand still during a synchronization; writers come back after it |
| HAL (`hal`) | table of drivers, IO expander's devices and pins, LED pins | Initialize, Finalize, Open, Close, SetConfigure, Read, Write, WriteMulti, (Un)RegisterIrqHandler | initialisation that fails half-way, devices that refuse | entries are the devices; closed pins are quiet; a pin reads what was written |
| JSON codec (`esf/codec/json`) | table of value ids, slots of handle strings, trees of parson | Open, Close, Init, Set, Clear, Get, Append, Replace, Remove, Copy, Serialize* | a change frees what is below it; markers in texts; sizes computed twice | an id names a value; each tree is owned; the size is that of the text |
| Network Manager (`esf/network_manager`, `pl_network.c`, `pl_ether.c`) | `connect_status`, handles, `notify_info`, event queue of the PL, DHCP client | Init, Deinit, Open, Close, Start, Stop, (Un)RegisterCallback, GetIFStatus, GetNetstat, Save/Load | events against Start and Stop, a handler that gives up the lock after a second | a callback knows the state; a Stop comes to its end |
| Codecs Base64 and JPEG, WASM binding | | conversions | | |

Interactions that the models contain or rest on:

- `main.c:475` initialises Utility Msg before any user; `main.c:559-567` the
  Parameter Storage Manager, `main.c:663` the Firmware Manager; `main.c:896` and
  `943-951` take them down again while other managers' threads may still run.
- `main.c:750` opens the queue of the event loop, `main.c:843` closes it;
  `EsfMainNotifyMsg` (`main.c:1818`) sends to it from any thread (`Main`).
- `clock_manager_setting.c:1502` registers a factory reset function with the
  Parameter Storage Manager; it runs inside `InvokeFactoryReset`
  (`PsmExclusive` runs such functions, `ClockManager!OnFactoryReset` is this one).
- `pl_wdt.c` feeds the watchdog from a high-priority thread that receives
  keep-alive messages of a low-priority thread through Utility Msg;
  `PowerManager` composes it (`Watchdog`) with the manager's calls.
- `button_manager_internal.c` uses Utility Timer for long presses, with a
  callback that sends through Utility Msg. The hours meter of `power_manager.c`
  saves to the Parameter Storage Manager from its timer's callback.
- `utility_log.c` asks the Log Manager where a log goes, and the Log Manager
  updates its parameters by a callback from its own threads.
- The Firmware Manager takes its buffers from the Memory Manager; `MCFirmware`
  runs both.

`PROJECT.json` lists every component with its sources, and every hazard with
its line and the properties that would catch it.

## 2. Parameter Storage Manager

### Locks and calls: `PsmLock`, `PsmExclusive`

`PsmLock` is `parameter_storage_manager_mutex.c`: `Grant`, `Refuse`, `Sleep`,
`Drop`, `GiveUp` and `SpuriousWakeup` are the statements that run under the one
pthread mutex. `waiting` is the set of threads inside `pthread_cond_wait` or
`pthread_cond_timedwait`; both locks share the condition variable, so the last
release of either empties it.

`PsmExclusive` is `EsfParameterStorageManagerResourceExclusiveControl`: a call
is a frame with a program counter (`entry`, `storage`, `exit`, the nested
requests of Init, Deinit and the factory reset), the operation and its handle
or slot. A thread has two frames, because a registered factory reset function
runs under both locks and may make every call of the API again, unregister
itself and begin another factory reset included (`cb` is the slot each walk has
reached); the functions that such an inner reset runs call nothing. A walk gets
the slot and calls its function in one hold of the resource lock (`inloop`,
`incb`). A storage that cannot be closed makes Deinit keep the tables. `valid`, `ref`, `slot` and
`inited` are the tables of `parameter_storage_manager_resource.c`. The data is
not in this module: what a storage stage reads and writes is in `PsmStore`.

Properties: `CountIsExact` (an owner's count is the number of its holds, deep
or nested), `NoDeadlock` (a thread asks for the storage lock only as
`LockOrder` allows, and whoever sleeps for a lock is kept waiting by a thread that is awake, or
by a sleeper that is kept waiting by one), `RefCountIsExact` (references and frames
agree, so Close refuses exactly the handles in use),
`FunctionHasTheTables` (while a registered function runs, whatever changes in
the handles and slots was changed by a call the function itself made), and under fairness that every call returns
(`EveryThreadReturns` in the run). That the locks exclude (`Exclusion`) is a consequence of the
first, and proved.

### Data: `PsmItems`, `PsmStore`, `PsmAtomic`

`PsmItems` holds the constants and types of the data. An area has one of the
values callers save, `Empty`, or `Torn` for what a failed or interrupted write
leaves. `PsmStore` runs one task at a time, which the storage lock justifies,
and takes one storage access per step: each access may fail, and the device
may restart between any two. `phase` and `at` say where the task is; `undo` is
what `InternalCancel` writes back. `Cancellable` chooses a storage with
temporary areas; the SQLite storage of the Linux porting layer has none.
`MapSupport` chooses between the mapped and the file-like staging buffer,
`BigVals` the values longer than `BUFFER_LENGTH`.

`PsmAtomic` is the promise: a call is one step, with outcome ok (all members
changed), error (none changed, but the member whose write failed may be
damaged) or dataloss (nothing promised about the members). `PsmStore` refines
it (`AtomicSpec`): while a task runs, the abstract state is `before`, a
history variable that exists for this mapping only; a step that ends the task
is the abstract call and all others stutter. A restart in the middle of a call
promises nothing of the data in `PsmAtomic`; `OwnAreaOnly` adds that only
members of the running request ever change, and that only the updating handle
touches the temporary area of its item. `RollbackRestores` says that a failed
Save gives back all members but the one whose write failed. Both it and the
refinement need whole backups: mappable memory, or no value longer than the
staging buffer (`Whole` in `PsmStoreProofs`). Otherwise the backup is written
back in pieces, and each of them truncates what the one before it wrote
(`parameter_storage_manager_buffer.c:714`): a Save that failed leaves torn
members that no write failed on, against ParameterStorageManager.adoc:2362 and
2449. The proof attempt showed this, and the run `psm_pieces` reproduces it.

Left out: items with user callbacks and list items, Load, GetSize and Downgrade
(the first two change nothing), the same item twice in one Save, storage ids
other than the temporary and the actual one. A save at an offset counts as a
change in place (`ChangeInPlace`). Statuses are ok, error and dataloss.

### Disagreements with the documentation

Besides the restored backups above. Met while modelling, and in the model as the
code has them; no run is about them. Deinit frees resources to which a call has a reference
(`parameter_storage_manager_ext.c:956`; ParameterStorageManager.adoc:2123 says that
it waits); a Save that fails with a status other than DataLoss does not restore
the member whose write failed (`parameter_storage_manager_internal_work.c:362`,
adoc:2362);
Close of an updating handle leaves its temporary data
(`parameter_storage_manager_resource.c:260`, against the adoc's line 3550);
UpdateBegin of an empty update can find a stale draft
(`parameter_storage_manager_storage_adapter_pl.c:490`, 3544); InvokeFactoryReset
returns Ok though a deletion failed (`parameter_storage_manager_ext.c:1107`,
3288).

## 3. Firmware Manager

`FirmwareImage` is the header of a processor image as
`EsfFwMgrProcessorLoadBinaryHeader` collects it write by write;
`FirmwareSubmodules` the operations the core calls through
`EsfFwMgrSubmoduleOps`, with every outcome; `FirmwareManager` the core, one
action per call and outcome. Every call takes `s_main_apis_mutex` with trylock
and answers Busy when it is taken, so a call is one step.

An image is a sequence of pieces; a header is two of them. A piece is at least
as long as the magic number (the API's documentation asks that of the first
Write) and does not straddle the end of a header. The hash of a sequence is
the sequence. A header of an unknown version leaves `header_info` as `malloc`
returned it, so `Loads` lets its size and version be anything. `installed` is
what the device will boot or load; the camera's `FwMgrPl*` implementation and
the sensor's update library are outside the repository and may fail anywhere.
`Restart` keeps `installed` only.

`InstallsWhatWasPromised`: what the device uses changes only when a session
becomes Done, to the image whose hash was given to Open, without its header.
`IdleMeansClosed`: without a session there is none with the device, and no
buffer.

Left out: the blocking of streaming (a build option), GetInfo and
GetBinaryHeaderInfo (no state change), StartFactoryReset, what a failing Open
fails to give back, failures of the software SHA-256.

In the model, without a run: the copy that begins the retry of a failed Write
aborts the session (`firmware_manager.c:1321`, FirmwareManager.adoc:333);
a failing Close frees the buffer and
a later Write passes the freed buffer on (`firmware_manager.c:1020`); PostProcess
repeated after a failure of the submodule reports a mismatch
(`firmware_manager.c:1446`, against FirmwareManager.adoc:1362); a header that was
refused is accepted on a retry (`firmware_manager_processor_binary_header_ops.c:345`,
adoc:1306).

### Memory Manager: `MemoryManager`

The manager of the buffers that the sessions above are made of, in a build
whose large heap is a device with positions (`MapSupport` FALSE in the run).
An id of 1..`MEMORY_MANAGER_MAX_MAPS` names an allocation, a handle is an id with an offset,
and `entries[i].infos[o]` is what `s_handle_info_list` keeps of it: mapped,
opened, and the position. All files of an allocation share one descriptor, and
`position` is where that stands. A call is one action under
`s_memory_manager_mutex`, but a file access is five: it copies the
descriptor and position (`Calls`), waits for the handle's mutex (`EnterFile`),
seeks, accesses, and looks the handle up again to store the position (`Store`).

`AloneIsInPlace`: an allocation that one handle and one task use at a time is
always accessed where the handle was left, however it was opened, sought, read
and closed before. `disturbed` records the allocations that had two users at
once, for which nothing is promised: Fread and Fwrite do not seek first
(`memory_manager.c:2505`), although MemoryManager.adoc:551 has several handles
used concurrently.
`FreedIsUnused`: memory goes back to the heap only when nothing maps it and
no file of it is open. An access may still end on a handle that was closed under
it (`dangling`); Store then finds no handle (`memory_manager.c:2037`).

## 4. Utility Msg

`UtilityMsg` has any number of threads that open, close, send and receive. A
search in the list, the transfer of a message and the whole of MsgClose run
under `s_list_mutex`, Open and Close exclude each other by `s_api_mutex`; each of
these is one step. The waits on `sem_send` and `sem_recv`, and the counters of
waiting threads, are touched outside of every lock through the pointer the
search returned: `Count` and `Uncount` read and write a counter in two steps,
so updates can be lost as in the code. A wait ends by a unit, a timeout, a
signal (`EINTR`) or the close of the queue.

A queue is named by the number of its Open, the handle by that number modulo
`HandleLimit` (an `int32_t` in the code). MsgClose frees a queue; a thread that
kept the pointer goes on with the memory as it was left, the best that can
happen. Messages are counted: `lost` counts those dropped with a queue.
Priorities order messages under the lock and are not modelled.

`CountsAddUp` (`SlotsAddUp` and `MessagesAddUp`): in an open queue the units of the semaphores,
the messages and the threads between their wait and their transfer add up to
the queue's size and to the messages sent and not received. `ReceiversAreServed`: a
receiver beside a message gets one, unless the queue is closed.

`MsgQueue` is what the callers are promised: a queue per handle with a bounded number of
messages, where a send and a receive are one step each, a close drops what is left, and a send
that finds no memory takes a place with it. `UtilityMsg`
implements it (`QueueSpec`). The mapping, `Seen`, shows a queue from its Open to its Close
with the messages it holds; the wait on a semaphore, the counters and the search in the list
are invisible, and so is what a thread does with a queue that was closed under it.

In the model, without a run: a Send past its wait puts its message into a queue
that was closed and returns Ok (utility_msg.adoc:889). The counters of waiting
threads may be wrong (`utility_msg.c:615`), so Close may refuse or free under a
thread. Outside of it: a negative priority is the highest one
(`utility_msg.c:527`), and a Finalize that could not close a queue has destroyed
its mutexes (`utility_msg.c:451`).

## 5. Utility Timer

`UtilityTimer` is one place of `s_timer_obj[]`, with its OS timer, its thread,
the request and signal event rings, `s_event_sem` and the signal handler. Every
call holds `s_api_mutex` from its first to its last step, so there is one call
at a time and `api` is its program counter. The sections the thread runs under
the object's mutex are single steps. The handler runs without a lock at some
point after the OS timer expired (`handler`). A failed Create leaves its thread
behind; both threads then read the same rings.

`EventsAreTaken`: what is put into the signal ring is taken out, although a pass
of a thread may take several events for one unit of the semaphore. `CreateGoesOn`,
which the code violates: a Create that waits for its thread goes on. `EventsAreAnnounced`,
proved, is why events are taken: whatever waits in a ring has a unit of the semaphore, or a thread
that looks there before it waits again, also when the event was left by the timer before
and `TimerSetEvent` does not post for the second.

In the model, without a run: Stop does not wait for a running callback
(UtilityTimer.adoc:924); a thread that does not get the mutex goes on as if the
timer ran and may call a callback that was just cleared
(`utility_timer.c:1183`; the thread is then `crashed`); a one-shot timer may fire
a second time for a stale event (adoc:821); the id 0 of an OS timer counts as
none (`utility_timer.c:884`).

Left out: Initialize and Finalize, several timers, intervals, callbacks that
call the API (none in the repository does).

## 6. Logging

One run, `MCLogging`, holds the four parts of the log manager, the log library
and the timers.

`LogDlog`: debug logs. Two writers fill the current of two RAM planes
(`plane`, `current`) under one mutex; a full plane is announced to the collector
by a message built from global variables after the mutex was given back
(`log_manager_internal.c:1755`). The collector copies the plane without the
mutex (`BackupCopy`), clears it under the mutex (`BackupClear`) and registers
the copy; when nothing comes for a second, it swaps the planes itself for a
critical log that waits (`CriticalTiming`). A log is its number and takes one unit.
`DlogIsSound` is `PlanesAgree` (fill levels, the half-use flag and the pending
flag, which three functions on two threads maintain) and `EveryLogOnce`: unless
a plane was taken back or a copy given up (`overrun`), each chunk registered
continues where the one before it ended, none is empty, a chunk is critical
exactly when one of its logs is, and the logs in hand and those of the current plane are
the rest: all the logs, once and in order. A message to the collector that cannot be sent
is only logged (`log_manager_internal.c:1353`): the plane stays full until a swap takes it
back, which counts as an overrun from the start.

`LogUpload`: the lists of chunks to upload (`log_manager_list.c`), one per kind,
and the blob thread that takes the local list, the cloud list and one event of
the agent in turn. No function is told which entry it is about; each searches
for the priority entry, else the oldest critical one, else the oldest.
`GivenIsTheTarget`: what a callback does to "the target" it does to its own
chunk, whatever was registered in between. It claims nothing of a kind of upload once the
agent asked for more data and had no buffer (`EventUnfilled`, `log_manager_internal.c:1481`, `1530`): the code
then requests the upload again without telling the agent, which so gets a chunk it still has, and the callbacks
of the two uploads change each other's entry. The EVP agent is external.

`LogElog`: event logs. Senders count `s_elog_queue_cnt` up, put into the queue
of the elog thread, and the thread counts down; it also sends commands to itself.
`ElogQueueIsSound`: the count is exact, an event log is in one place, the
slots the senders leave free are there for the destroy command, and what Deinit then waits
for is under way (`DestroyIsHeard`); under fairness `DeinitCompletes`. Every send may fail for
lack of memory. A command the thread so loses to itself leaves the agent unpolled until the
next event log; a destroy command that is lost fails Deinit, with the thread running and
the log manager already `Invalid` (`log_manager.c:94-116`), so that Deinit is refused from then on (`failed`);
an Init after that, which would start a second thread, is left out. The thread calls `SYS_process_event`
without a limit of time; an agent that never returns from it keeps Deinit waiting, and `DeinitCompletes` says so.

`LogSettings`: settings in memory, as names for the upload, and in the storage
are changed one after the other (`SetParameter`, `SetUploadData`, `SaveParams`),
with restarts. `SettingsAgree`: the three agree between calls when nothing failed
and no calls overlapped. In the model, without a run: a change of all blocks calls back no
registered module, and a notification may carry settings that are no longer current.

`UtilityLog`: which module's logs go where, and the level callbacks, which are called
without the mutex. `LevelIsTold`: a registered module was told its current level since it
registered, or is being told. It may be told an older one afterwards.

## 7. Supervision

`MCSupervision` runs six parts.

`Watchdog` and `PowerManager`: `Watchdog` is `pl_wdt.c` with the library below it,
its threads of low and high priority and the message queue between them;
`PowerManager` EXTENDS it with the manager's calls, which hold `s_mutex` (`call` is where
one stands), the thread of the software watchdog, and the hours meter with its
timer and storage. Its way down looks at no answer: a timer that is not deleted keeps its handle
(`power_manager.c:295`), a storage that is not closed stays open (399), `pl_power_manager` that cannot
be finalised stays initialised (`pl_power_manager.c:123`), and the status becomes Stop all the same.
`refused` is what refused so. `StatusIsTrue` is `StoppedHoldsNothing` (a manager that is stopped holds
of these three only what is in `refused`, and none of the rest, also when a dog could not be stopped on the way, except
after an initialisation that the code does not take back, `halfway`) and `WaitingIsArmed` (one that waits for
its reset has every dog running and its feeding told to end). A later Start writes over a handle that is
still there: the storage of the earlier one is lost, and a timer may be. Such a timer counts hours beside the new one
(`DeleteTimer` leaves open for how long); that both call back at once is left out.
`EsfPwrMgrWdtTerminate` is there too, though nothing in the repository calls it. `AbortIsDeserved`:
the process ends only for an id that was enabled and silent, although the
thread reads times and flags without the lock. `FeedingEnds`: after
StopForReboot the dogs are fed no more. Not in the run: Finalize of the watchdog
joins the low thread before it closes the queue (`pl_wdt.c:212`); when the high
thread ends while the low one waits for room in a full queue, the join never
returns. In the model the call then stays before `FinalizeEnds`; no property
asks that every call returns.

`LedManager`: the manager over `pl_led.c`. A call lights the LEDs in turn and
ends at the first that refuses. `LedPlaysItsStatus`: after a call that
succeeded, every LED that is not kept plays its first enabled status, whatever
failed before.

`Main`: `boot` is the list of parts to bring up, `up` those that are. The boot,
the migration with its flag and the erasure of its source, the message queue
with its senders, and the three ways down (reboot or shutdown, factory reset,
reboot from within the boot). A wait for a part ends by its time
(`FinishTimesOut`). `PartsGoInOrder` is `SourceOutlivesMigration` (the data of the
older firmware is erased only when every part has taken its share) and `OffMeansDown`
(what the boot brought up is taken down, but for parts that refused: `main.c` logs a failing Deinit
and goes on, so a part of `Refusing` may stay up at each place where it is taken down, and is then in `stuck`). `RequestsEndTheRun`: a request in the
queue takes the device down; `RequestsAreHeard`, proved, is what it rests on. The exceptions the properties name are what the
code does: a `state_mutex` that was not obtained because the queue was full
(`gaveUp`). A downgrade switches the firmware slot although a format failed,
and reboots although the switch did (`main.c:1532`); no property is about it.

`SystemManager`: each getter and setter opens a handle of the storage of its own; a
getter asks for the size and loads in two calls. `CallsEndClean`: a text that is given fits
with its terminator (`AnswerFits`), and handles come back (`HandlesComeBack`). A text is its length.

`SystemReset`: the cause of a reset and the exception, stored, told, uploaded
and cleared over several starts, with losses of power between any two steps.
`NothingIsForgotten`: a cause is cleared only after it was offered to the log in the same run, which told it
(`told`) or refused it (`unheard`): the result of the elog write is dropped (`system_manager.c:2515`), and it
fails without memory or when the Log Manager refuses (`utility_log.c:807`). A cause that was refused is then cleared
and lost, although the header has it cleared "after successfully sending" (`system_manager.h:769`). The header says of
SetExceptionInfo that it does nothing when there already is an exception; it overwrites.

`SystemMigration`: the old firmware's data is copied kind by kind and erased at
its source. `NothingIsLost`: it is at its source or in the storage.

The Raspberry Pi configuration disables the Power, LED and Network Manager
(`configs/raspi/meson.build:138`) and the reset cause and exception upload
(170-171); the models are of a build that has them. Its porting layer answers
"not supported" for the hardware information, never asks for a reboot, and has
nothing to migrate: `HwInfoKinds`, `RebootCauses` and `had` hold the answers of other devices as well.

## 8. Inputs

`MCInputs` runs four parts.

`ButtonManager`: one button with the Linux driver's thread, the press timer,
the queue and the manager's thread. The outer mutex is held for a whole call (`bcall`);
what runs under the inner mutex, the client's callbacks included, is one step.
Sends, the start, stop and deletion of the timer, and the steps of Finalize may fail, which
the code only logs: `astray` notes that the last status was lost, or that the timer was not
started or stopped for it, until a later edge puts it right, and `"stray"` a timer or a thread that Finalize
left behind (what that does to the freed button data, and to a later Open, is not modelled).
`ButtonPartsAgree` is `TimerFollowsButton` (when every message was handled and nothing is
`astray`, the timer runs exactly while the button is held, and a release that was handled last
leaves no handle with time counted) and `QueueOutlivesSenders` (but for what is stray). An edge may also
overtake the first status (`pl_button_os_impl.c:394`); a timer callback that fired before the release and sends
after it is handled as a long press of the released button, whose time counts until the next release. A
callback that calls the manager again would wait for itself
(`button_manager_internal.c:2055`): no client in the repository does.

`ClockManager`: `cstep` is where Start or Stop stands, `client` what the readers
and the writer do, `monitor` and `notifier` the two threads. `rw` is the
reader/writer counter and `insync` the flag that keeps new writers out. `ParamsStandStill`:
between the time Start has waited for the writers and the synchronization, only
a factory reset changes the parameters. `WritersComeBack`: the synchronization
ends and lets the writers in again, unless its notification found no callback;
`SyncIsOnItsWay`, proved, says in which thread or queue that notification then is.
Three cases in which the code leaves this are in the model under a name: Init resets the
counter below a client (`overrun`), a thread id that was never set is joined
(`joinedNone`), a notification is missed (`missed`).

`Hal`: the table of device drivers, the IO expander that opens a device once and
shares it among pins, and the LED pins above. Each layer holds its mutex for a
whole call, so a call is an action; any operation of a device may fail (they
are external, and on the Raspberry Pi answer "not supported" to everything).
`TablesAgree`: with both layers up each device is reached by an entry of its
own, without the expander no entry is left but one its device refused to close
(`EntriesAreTheDevices`), and a closed pin raises no interrupt (`ClosedPinsAreQuiet`). `ReadsBackWhatWasWritten`:
an output reads the value it was last given, polarity being turned round as often on the way out as on
the way in (`Gives`, `Level`, `HalIoexpRead`). `written` is "none", and nothing is promised, of a pin made an input, which reads
what there is outside; after a write that failed, which may have written or not; and of a pin of an array that is not on the
device of the first, whose driver is handed the whole array (`hal_ioexp.c:668`). In the
model, without a run: PlLedHwInitialize returns Ok when a pin could not be
opened, and leaves the others open.

`Json`: `node` is what parson keeps, `table` the ids, `slots` the strings whose
text stays in the Memory Manager. Calls on a handle are not thread-safe by
contract (Json.adoc:4333), so a call is an action. `ContainerIsSound` is `IdsNameValues`
(whatever a call frees loses its ids first), `EveryTreeIsOwned` (one parent, no
cycles, Close frees all) and `SlotsHaveMarkers`. `SizeIsText`: the size the codec
answers is the length of the text it writes, two walks in different files. It holds
for values that are `Regular` (each handle string has a slot and a marker of its own, in
the order of the slots, that no slot before finds): otherwise the code does not do what Json.adoc:1142
says. A marker is a prefix and the digits of an id in `Base`, and `strstr` finds the marker of id 1 in that of
id 12 as well (`Finds`, `Shortened`); where it does, text and size may part and `Regular` does not hold. `EsfJsonSerializeSizeGet` adds the difference where data is
shorter than its marker; strings that do not come in the order of the slots, or behind
a free slot, keep their placeholders in the text; a copied marker is substituted as well. A Set that fails for
memory after it dropped ids turns handle strings below into plain placeholders.

## 9. Network Manager

`NetworkManager` is an Ethernet interface in normal mode: the calls on handles
(`ncall`), Start and Stop under `resource_lock`, the monitor and event threads of the
porting layer with their queue, the event handler, the DHCP client, and an
interface that follows what it was told later, with a cable that moves. Stop sends
IfDownPre through the event thread and waits for it with the lock held; the
handler of any other event gives the lock up after a second (`EventLost`).

`ClientsAreAnswered` is `CallbackIsUpToDate` (a registered callback last heard the state of the
manager) and `StopIsAnswered` (while the manager is Disconnecting, the IfDown it waits for is what
the monitor thread sees next or in the queue, and its handler is there, or one was lost).
`StopCompletesUnlessLost`: Disconnecting lasts until the IfDown that
must come; only a lost event (`lost`) keeps the manager there. That such an event
is lost is shown by `network_stop`: without the exception the property is
violated, with one pull of the cable. From then on every Start and Stop is
refused.

## 10. Runs

`PROJECT.json` names for every property of a passing run a mutant of the code's
model that breaks it (the operators whose comment begins with "Mutant" or stands
under "Wrong on purpose").

| Run | Instance | Shows |
|---|---|---|
| `psm_exclusive` | 2 threads, 3 calls each, 2 handles, 2 slots, `MaxCount` 2; beside it, fair and with Init and Deinit, 2 calls each, 1 handle, 1 slot, `LiveCount` 3 | every interleaving of open, close, a call on a handle, register, unregister, factory reset with every such call from its functions, Lock and Unlock keeps locks, references and slots consistent; no deadlock between the locks (`NoDeadlock`), no lost wakeup, every call returns |
| `psm_update` | 2 items, 1 value, 2 handles, temporary areas, no mappable memory | save, clear and the update calls refine `PsmAtomic`, areas are private |
| `psm_linux` | 3 items (1 read-only), 2 values, 1 handle, no temporary areas | with the Linux storage a failed Save damages one member at most |
| `psm_pieces` | 2 items, 2 values, one of them longer than the staging buffer, no mappable memory, no temporary areas | **violated**: a rollback in pieces damages members that no write failed on (ParameterStorageManager.adoc:2362) |
| `fw_session` | 3 kinds of targets, 3 images, 3 writes, no mappable memory; 2 tasks, 1 allocation, 2 offsets | what is installed was promised, a closed session is closed on the device; memory in use is not freed, a handle used alone is in place |
| `msg_queue` | 3 threads, 3 calls and interruptions, 2 opens, queue of 1 | slots and messages add up; the queues implement `MsgQueue`; receivers are served |
| `logging` | 2 writers, planes of 2, queues of 1, 5 logs; lists of 2, 3 chunks; 2 senders, 4 event logs, any send failing; 1 caller; 2 users of the library; a timer with 2 threads | no debug log is lost or repeated unknowingly, uploads end as themselves, the elog queue blocks nobody, settings agree, levels are told, timer events are taken |
| `supervision` | 1 dog, queue of 1, 1 refusal at a time; 2 LEDs; 2 callers of main, 2 boots, 2 parts that may refuse; 2 callers of the system manager; 4 resets; 3 failures of a migration | power, LED, main and system manager, see section 7 |
| `inputs` | 2 button handles, 2 edges; 2 clients of the clock; 3 pins on 2 devices; 3 JSON values, 2 slots | button, clock, HAL and JSON, see section 8 |
| `network` | 2 clients, 1 handle, 1 start, 1 move of the cable, 1 refusal | callbacks are up to date, the event a Stop waits for is due, a Stop ends unless it is lost |
| `timer_create` | 2 threads created, fair | **violated**: a stale signal event keeps Create from posting its request, and it waits for ever with `s_api_mutex` held (utility_timer.adoc:636) |
| `network_stop` | as `network`, no refusal | **violated**: an IfDown is dropped beside a Stop, and the manager stays Disconnecting (NetworkManager.adoc:249) |

Components that share no state are run side by side: in `MCLogging`,
`MCSupervision`, `MCInputs` and `MCFirmware` the variable `focus` chooses at the
start the one part that moves. As no step of a part reads another part's
variables, this explores the sum of the state spaces and misses no behaviour of a part. `MCPsmExclusive`
chooses in the same way (`focus`) between its two instances, the second with calls
of Init and Deinit under fairness.

Distinct states: `psm_exclusive` 1,539,607, `psm_update` 836,928, `psm_linux` 20,234,
`fw_session` 2,171,819, `logging` 1,430,450, `supervision` 852,804, `inputs` 1,349,807.

### Bounds

- `MaxCalls`, `MaxOpens`, `MaxPieces`, `MaxThreads`, `MaxSem`, `MaxLogs`,
  `MaxChunks`, `MaxElogs`, `MaxBoots`, `MaxResets`, `MaxEdges`, `MaxSeconds`,
  `MaxUnfilled`, `MaxCable`, `MaxNetStarts` and every `Max...Fails` and `MaxFaults` are guards
  on how often something happens; so is the number 2 of opens in `MemoryManager!Fopen`.
  Everything else is a size of the instance.
- Two threads are enough for the two recursive locks of `PsmExclusive`: every
  state of a lock is "free, owned, owned and waited for", and the nested calls of
  a callback give each thread a second frame. `MaxCount` is 2 in `psm_exclusive`, so
  that the refusal at `INT8_MAX` is reached by nesting alone, and 3 (`LiveCount`) in
  the fair instance. One more waiter matters only for a lost wakeup, and a release wakes all.
- `HandleMax` and `SlotMax` are small enough that "all in use" is reached (8 and 8
  in `configs/raspi`).
- Two or three items make a member before the failing one, the failing one, and one
  outside the request; two values tell the old one from the new one. `psm_update` needs one, as a
  damaged area and an empty one tell it from before.
- An image has a two-piece header and one or two pieces of payload, so a header can be
  incomplete, complete, refused and followed by data.
- `QueueSize` 1 makes both ends block; `HandleLimit` 2 lets the handle counter wrap
  onto a queue that is open. The queues of the dlog, elog, watchdog and main have
  one place for the same reason; the button's has 2, so that a timer's
  message can follow an edge's.
- Two threads of a timer are one of a deleted timer or failed Create and one of the timer in use.
- Five logs fill both planes of two and begin the next, with a second writer in between; three
  chunks in lists of two push an entry out that the agent may have.
- One failure of a device, a heap or a storage at any place tells what the code does after it;
  where a second one during the clean-up matters (HAL, reset, migration), there are two or three.
- Four resets are one that is asked for, one by a crash or a loss of power while it is reported, the
  reset again that a cause asks for, and a clean one after it.
- One dog is enough for the places a call has come to, as the library treats its dogs alike; `SpecStatusIsTrue` covers
  any set of them. `HoursMax` is 0, as no property is about the value of the meter.
- `MaxRefused` 1 is one part at a time that is not given back, any of the three, again and again. `Refusing` has a part
  from each of the two stages of a way down, `Network` and `Led`; `SpecPartsGoInOrder` covers any set.
- Three pins on two devices make two pins share a device and one not; one pin is of each
  polarity. Four addresses for two devices let a freed one be used again.
- Three JSON values make a value, its parent and its grandparent, and two slots an order. In `Base` 2
  the ids are 1, 10 and 11, so that the marker of the first begins those of the others, as that of 1 does of 12 in
  the code's base 10.
- One move of the cable and one start are the least that `lost` needs; `NetMsgs` 6 leaves the
  queue of the porting layer unfilled but by a monitor thread that is never taken from.

TLC's symmetry sets (threads of equal rights, values) are used for safety and
action properties only.

### Deadlock

`CHECK_DEADLOCK FALSE` is set where the model may stop as the program may, or
because its workload is bounded: calls and failures of `PsmExclusive` and the Network Manager end,
receivers of a queue wait for messages nobody sends, a timer's thread and the managers'
threads wait for their next event, a boot that failed sleeps, and a part in focus may have
used up its bounds. `PsmStore` is checked for deadlock.

### Fairness

`WF` for each thread's own steps, which the scheduler justifies: a thread that
can run does, a callback and a locked section end, a timed wait reaches its
deadline. Nothing is assumed about who gets a contended lock or semaphore unit.

- `EveryThreadReturns` therefore depends on the bounded number of calls: with
  endless callers, the untimed lock of an exit stage could starve.
- `UtilityTimer`: the call under way (`CallStep`) is a thread of its own; that
  the OS timer expires, that its handler runs, and that a condition wakes
  spuriously is not assumed.
- `LogElog`: the elog thread and the thread that runs Deinit, but not the return of the
  agent from `SYS_process_event`, which waits without a limit.
- `PowerManager`: the high-priority thread only. The low thread need not run.
- `Main`: the main thread, and that some request that is being sent is sent (the
  sender holds `state_mutex`, and waits only for a place in the queue).
- `ClockManager`: the monitor and notifier threads, calls of clients that have
  begun, and that the NTP client synchronizes; the last is what the
  liveness is relative to.
- `NetworkManager`: calls that have begun, the two threads of the porting layer, and that
  the interface follows what it was told.

## 11. Proofs

A theorem holds for every value of the constants that the named assumptions
allow: any number of threads, handles, items, queues, messages, planes, LEDs,
pins and failures, where the runs have two or three. Each part of a composition
(`MCLogging`, `MCSupervision`, `MCInputs`, `MCFirmware`) has an invariant of its own, and
a step of another part leaves its variables alone, so the theorems are about the
specification that the run checks. `PROJECT.json` lists the theorems.

### Assumptions

| Assumption | In | Asks | Justified by |
|---|---|---|---|
| `PsmLockAssumption` | `PsmLock` | `None` is no thread; `MaxCount` is at least 2 | `INT8_MAX` |
| `PsmExclusiveAssumption` | `PsmExclusive` | the tables have places; each thread makes calls of the API | build options |
| `NoDeinit`, finitely many threads | `SpecRefCountIsExact` | no thread calls Deinit | Deinit frees resources in use (section 2), so the count is not exact with it |
| `PsmItemsAssumption`, `PsmStoreAssumption` | `PsmItems`, `PsmStore` | items are finitely many, tables have places, the marks for empty, torn and skipped areas are no values | the item table, build options, naming |
| `Whole` | `SpecRollbackRestores`, `SpecAtomicSpec` | backups are mapped or fit the staging buffer | false otherwise: run `psm_pieces` |
| `FirmwareManagerAssumption` | `FirmwareManager` | images are sequences of pieces and not empty, targets are known kinds | PrepareWrite refuses a size of 0 (`firmware_manager_processor.c:135`), submodules of the build |
| `WellFormed` | `SpecInstallsWhatWasPromised` | an image that begins with a magic number has a header behind it, of a known version | false otherwise: the code continues with what `malloc` returned (section 3) |
| `MemoryAssumption` | `MCFirmware` | offsets, sizes and positions are naturals | their C types |
| `UtilityMsgAssumption` | `UtilityMsg` | finitely many threads; a queue has a place, there are handles | Open refuses a size of 0 |
| `ElogAssumption`, `DlogAssumption` | `MCLogging` | finitely many senders; a plane has room for a log | configuration |
| `SupervisionAssumption` | `MCSupervision` | finitely many callers; lengths of texts are naturals | C strings |
| `MainAssumption` | `MCSupervision` | the length of the queue is a natural; no caller has the name of a free mutex or of the main thread | `main.c:750`, naming |
| `JsonAssumption`, `SizesAssumption` | `MCInputs` | the numbers of nodes, ids and slots, and the sizes of texts, of the marker's prefix and of handles, are naturals | build options, the heap, `size_t` |
| `BaseAssumption` | `MCInputs` | ids are written in a base above 1 | base 10 (`PRId32`) |
| `QueueAssumption` | `NetworkManager` | the length of the event queue is a natural | `NETWORK_MSG_MAX_SIZE` |
| `FreeIsNobody`, `ClientsAssumption` | `NetworkManager`, `MCInputs` | the mark of a free lock is no client | naming |

TLC evaluates those of them that are `ASSUME`d on every run of the module.

### `PsmExclusiveProofs`

The inductive invariant is `IInv == TypeOK /\ FramesOK /\ CountIsExact`. `CountIsExact`
alone is not inductive: when a thread drops a lock, the number of its holds must fall by
exactly one, and that needs to know where the frames of the thread can be, which is
`FramesOK` (a nested call exists only while the frame below is in its callback,
and Lock has only a storage stage). Lemmas about a grant, a drop and a step that
keeps the holds carry the invariant for all the actions of their kind, and one
lemma per group of actions says which kind each is. `Exclusion` and `LockOrder`
follow from the invariant without another induction.

`SpecNoDeadlock` needs `WaitersAreBlocked`: whoever is in the set of sleepers asks for a lock that another
thread still has. A release empties the set, so no lock comes free over a sleeper; a grant
and a release by somebody else leave the locks of the remaining sleepers taken. From it and the
lock order a chain of sleepers ends: the owner of the resource lock is awake
(`ResourceOwnerRuns`), so who sleeps for that lock waits for a thread that can go on, and who sleeps
for the storage lock waits for such a thread or for one that sleeps for the resource lock.

`SpecFunctionHasTheTables`, an action property, follows from `IInv`: a step that
changes a table moves a frame that is inside the resource lock (`TablesStep`), the thread whose
function runs is inside it too, and the count of the lock belongs to one of them, so they are one
thread. Nothing is assumed of the calls the function makes. `CallsOK` says that only a call on a
handle has an exit stage and that its handle is one of the table; the invariant of `SpecRefCountIsExact` is
`RefInv == IInv /\ CallsOK /\ StaysInited /\ RefCountIsExact`: the number of frames that use a
handle changes by the one frame that moves, which is what the lemmas about cardinalities say, and
the table stays because nobody deinitialises it.

### `PsmStoreProofs`

`IInv == StateOK /\ DraftsOK /\ (Running => TaskOK /\ PhaseOK /\ WorkOK)`. `WorkOK` says
for each kind of call how far it has come: the members before `at` have their new
value and the rollback knows their old one (`Recalled`), those behind it are as
they were; in a rollback at most one member behind `at` is damaged (`OneDamaged`); an
update's areas are the old ones up to `at`, and the new ones beyond. `ElsewhereSame` says that
all other areas are those of `before`.

- `SpecOwnAreaOnly`: an action property, with and without temporary areas, whatever the memory is.
- `SpecRollbackRestores`: from `OneDamaged`. The attempt without `Whole` failed in the step that
  writes a backup in pieces, and TLC then found the run `psm_pieces`.
- `SpecAtomicSpec`: the refinement of `PsmAtomic`, for the mapping the run checks. One lemma
  per kind of call says which abstract step its last step is (`ChangeReturns`, `BeginReturns`,
  `FinishReturns`, ...), and every other step of it stutters (`WorkStutters`), because `aData`, `aTmp`, `aUpd` and `aRet` show `before` while the call runs.

### `FirmwareProofs`

`SpecTypeOK`, `SpecIdleMeansClosed` and `SpecInstallsWhatWasPromised`: any set of images,
targets and length of a session, mappable memory or not. The
invariant is `InStep`: while the session's SHA-256 context is sound, what the
device has received and what was hashed differ by the header only. A processor session
is in one of three states, `Collecting` (header incomplete, nothing sent), `Headless`
(no header, all sent) and `Headed` (header complete, the rest sent). A header may
also be loaded by a write that then fails: `Retrying`
says that the buffer is unmapped then, so that the next write can only be of the
same piece, because a copy would abort. That a failed write cannot be
retried with other data, a disagreement with the documentation (section 3), is thus what the installed image's integrity rests on.

`SpecFreedIsUnused` and `SpecAloneIsInPlace` are of the Memory Manager. `EInv` says that
each allocation's counter is the number of its maps and files and that a
descriptor is open exactly when there is a file (`EntryIsSound`). `PInv` follows an access
through its five steps: it finds its handle (`Reached`), an allocation that is not `disturbed` has one file and
one access (`OneFile`, `OneAccess`), the access finds the descriptor where the handle is
(`InPlace`), and between accesses the descriptor stands at the handle's position (`Settled`).
Proving it corrected two details of the model against the code: an Fopen whose `malloc` fails
closes the descriptor it has opened, and the seek of an Fopen can be refused.

### `UtilityMsgProofs`

`SpecCountsAddUp`, with `SlotsAddUp` and `MessagesAddUp` in the invariant: the threads
past a wait are counted, a step moves one thread, and the semaphore that the same step
writes makes up for it. It also needs that a queue not yet opened is untouched
(`Untouched`) and that no open queue has `is_terminate` set (`OpenIsNotTerminated`). Two consequences
that the code relies on without a check: an open queue never holds more than its size
(`SpecNeverOverfull`), and a receiver past its wait finds a message unless the queue was closed
meanwhile (`SpecEmptyMeansClosed`). The counters of waiting threads are in neither: they may be wrong (section 4).

`SpecNoStandstill`: a receiver and a message of an open queue are never beside each other without a
unit of the semaphore or a thread past its wait, and so for senders and free places; what
`ReceiversAreServed` adds is that somebody takes the unit. `SpecQueueSpec` is the refinement of
`MsgQueue`, for the mapping the run checks: `PutIsSend`, `GetIsReceive`,
`NoMemoryIsLoss`, `OpenIsOpen` and `CloseIsClose` say which abstract step each visible step
is (that a Put finds room, and a Get a message, is what the counts are needed for), all others
stutter (`UnseenStutters`), among them whatever touches a queue that is closed.

### `LoggingProofs`

- `SpecLevelIsTold`: `LibraryIInv`.
- `SpecGivenIsTheTarget`: a list has at most one entry in work (`AtMostOne`), and the entry the
  blob thread read before it gave the list's mutex back is still the one a search finds
  (`BlobHoldsTheTarget`), because others only append or push out entries that are not in work. Both
  hold of the kinds of upload that are not in `unfilled`.
- `SpecElogQueueIsSound`: `s_elog_queue_cnt` is the length of the queue plus those between counting
  and putting (`CountIsExact`), also when a send fails; the thread counts down before it counts its own command up,
  so a slot stays free for Deinit (`SlotIsFree`); an event log is in one place (`InOnePlace`,
  a sum over senders, queue, thread, saved and delivered logs); the destroy command is in the
  queue or with the thread from the join on, and nowhere before (`DestroyInv`), so the thread ends by it only.
- `SpecSettingsAgree`: `Agreement` says what each of the three copies is while a call is between
  its changes, in a calm time (no failure, no second caller).
- `SpecDlogIsSound`: a full plane is told of by one writer, one message or the collector, and not twice
  (`ToldOnce`); what is told of is the plane to collect as it is, and it stands still
  meanwhile (`ToldRight`), which is why the message, built after the mutex was given back, is right;
  the logs registered, in the collector's hand, in the plane to collect and in the current one
  follow each other without a gap (`LogsInOrder`). Each holds up to the first overrun.
- `SpecEventsAreAnnounced`: `TimerIInv`. The request to end a thread is the last in its ring, and only a
  Delete that waits for the thread puts it there (`KillIsLast`); the thread of a timer in use has not
  ended before it took that (`EndedWasKilled`). A thread of an earlier timer may take units and events of
  this one, but it looks at the whole ring for each unit it takes.

### `SupervisionProofs`

- `SpecStoppedHoldsNothing`, `SpecAbortIsDeserved`: what each place of a call on its way up or down
  holds, but for what was refused (`PlacesAreKnown`, unless `halfway`), and that an enabled id whose time was found too
  old was silent, also when it was found with stale data (`LateAreSilent`).
- `SpecStatusIsTrue`: with `ArmedInv`, that the way of StopForReboot passes no place that stops or
  unregisters a dog, and that nothing begins from `WaitWDTIgnition`.
- `SpecLedPlaysItsStatus`: the LEDs that a call has dealt with play what they should, those it has yet to do are in `todo`.
- `SpecPartsGoInOrder`: what is left to boot ends with a known part (`BootIsListed`), and each stage of the
  way down knows what may still be up beside what is `stuck` (`UpIsKnown`).
- `SpecRequestsAreHeard`: `state_mutex` has the name of a caller exactly when that caller is sending
  (`HolderIsSender`), and nothing is asked before the boot has opened the queue (`HeardIInv`).
- `SpecCallsEndClean`: a getter that loads has asked for a size that fits (`KnowsItsRoom`), and the handles that are open are the calls inside.
- `SpecNothingIsForgotten` (an action property) and `SpecNothingIsLost`: what a boot has told or had refused, and a
  migration taken over, at each of their steps, across losses of power.

### `NetworkProofs`

`SpecCallbackIsUpToDate`: `info` is what a client hears when it registers, `Connected` means that the
interface is up in the manager's view (`InfoIsUpToDate`), and a Stop that waits holds the lock, so that the
status it found is the one it leaves (`StopHoldsTheLock`).

`SpecStopIsAnswered`: `EventsIInv` follows the events from the monitor thread's view of the
interface through the queue to the handler. While the manager is started and its view of the
interface is up, the monitor's is too, or the queue holds an IfDown that no IfUp takes back (`DownIsDue`), and
a manager that is Disconnecting has such a view (`StopsWaitForDown`); a Start that failed may have left no
handler behind, which drops events only while Disconnected (`HandlerHears`). `SpecClientsAreAnswered` is both.

### `InputsProofs`

- `SpecTablesAgree`, `SpecReadsBackWhatWasWritten`: what the expander has opened is what it has to close (`NothingLeaks`). The
  addresses a call gets are any free ones, one for each device. A pin with a value in `written` is an output at the level of that
  value (`AsWritten`), which every change of pins keeps (`StaysAsWritten`).
- `SpecButtonPartsAgree`: the last news of the pin, wherever it is between the hardware and the
  timer (the driver's edges, its thread, the first status, the queue, the thread's own
  state), is what the pin is, unless it was lost (`astray`) or the timer refused it (`TimerRefused`) (`LastNewsIsThePin`); from the
  point in Close where the timer was dealt with, and while the manager is closed, nothing runs that is not stray (`QuietOrStray`); `StagesAreKept` says what each stage of Open and Close finds.
- `SpecParamsStandStill`, an action property: whoever waits to write holds the barrier, and the
  synchronization begins when nobody holds it (`BarrierIsKept`); a writer is alone unless Init reset the counter (`WriterIsAlone`).
- `SpecSyncIsOnItsWay`: both threads of a manager that runs go on, and the queue holds no request to end
  before Stop (`SyncIInv`).
- `SpecContainerIsSound`: the nodes are a forest, each found from a root and with one parent at most
  (`NodesFit`); an id in use is its position and its node's only one, and every root has one (`TableFits`); a slot
  in use names the id of its marker (`SlotsFit`). The lemmas come in four layers: forests (`CutOff`, `Grafted`,
  `NoCycle`, `HasRoot`; a tree is the least closed set that holds its root, so they need no induction), tables
  (an entry added, moved, dropped, lost), nodes (a member appended, replaced, removed, a tree copied, a node
  exchanged), and one lemma per call. That a value is not put below itself is where
  `EsfJsonCanJsonAddToJson` is needed; that a failed Set keeps what is below it without ids is why the entries, and not the
  nodes, lead the invariant.
- `SpecSizeIsText`: the size is the sum of the lengths of all strings, plus for each slot what its data has
  more than its marker; the text is that of parson with one marker after the other substituted. Both walk the tree by a
  recursive function. Instead of the library's induction theorems, which no installed prover can
  instantiate, the proof takes least counterexamples of `Nat` (`LowestExists`): at the least rank where a
  recursion has no solution it has one (`RecursionIsSolved`), which gives `Strings` and the sums their equations, and
  then the first slot, or the first string, at which two sums differ is refuted (`SizesHold`, `TotalsAdd`,
  `SubstitutedHas`). In a regular tree the markers come in the order of the slots and no slot finds the marker of a later one first, so that the walk that
  substitutes never passes one.

### Model-checked only

Liveness: `EveryThreadReturns`, `ReceiversAreServed`, `EventsAreTaken`, `DeinitCompletes`, `FeedingEnds`,
`RequestsEndTheRun`, `WritersComeBack` and `StopCompletesUnlessLost` rest on fairness, which TLAPS does not
reason about here (no `ENABLED`). What a waiting thread is sure of in every state is proved for
each of them: `NoDeadlock`, `NoStandstill`, `EventsAreAnnounced`, `DestroyIsHeard`, `WaitingIsArmed`,
`RequestsAreHeard`, `SyncIsOnItsWay` and `StopIsAnswered`.

## 12. What is not modelled

Not modelled at all: the Base64 and JPEG codecs, which convert one buffer into
another and keep nothing, and the WASM binding, which translates arguments.

Of components that are modelled partly (the notes in `PROJECT.json` say it for each):

- Parameter Storage Manager: items with user callbacks, list items, Downgrade; the SQLite
  statements and the offset arithmetic of a blob read. What an open, write, delete, copy or switch does to a
  record is modelled.
- Log Manager: metrics (off in the configuration), the encryption of chunks, file names.
- Power Manager: voltage, temperature and interrupt callbacks; its exception functions are of NuttX
  and appear as `retained` in `SystemReset`.
- Network Manager: Wi-Fi, the access point, the LED service, the migration.
- Button Manager: several buttons (they share the queue only) and lists of callbacks.
- HAL: I2C forwarding and the handler in interrupt context, which reads its data without
  a lock on Linux (`hal_ioexp.c:96-108`).
- JSON: the text itself and the calls that only read.

Hazards that were met and that no property covers, beside those named in the sections
above: GetInfo of the Firmware Manager reads the state under another mutex than Init
(`firmware_manager.c:1623`); the dlog collector sends to the queue it receives from
(`log_manager_internal.c:3887`); a timer deleted from its own callback joins its own thread (`utility_timer.c:628`); a
monitor thread that was never created is joined (`clock_manager_monitor.c:185`, `joinedNone` in the
model), and a Start that fails to create it leaves the NTP client running (`clock_manager.c:745`); an
interface that kept its address across a link that went down asks for no lease
(`network_manager_accessor.c:654`).

Paths that are left out of definitions, with what they would do:

- Memory Manager: an Fpwrite or Fpread whose seek fails unlocks the manager's mutex, which it does not
  hold (`memory_manager.c:2619`); what that does to a call that does hold it is undefined, and is not modelled.
- Firmware Manager: a sensor session that ends with an invalid argument is not cancelled
  (`submodules/sensor/firmware_manager_sensor.c:336`); it is one of the outcomes of `SensorPostProcess`, not a case of its own.
- Parameter Storage Manager: a function that a reset runs from within another function calls nothing itself; what
  the SSF libraries and the storage do with a session or a record is what their return values say.
- Button Manager: what a stray timer or thread does to the data that Finalize freed, and to a later Open.
- Power Manager: two hours-meter timers that call back at the same time.

Throughout, parameter checks that change nothing, failures of mutex calls and
logging are left out. Other calls that fail without the code looking at it (a send, the start or deletion of a
timer, a close, a Deinit) do fail in the models of the managers that make them.

## 13. Plan

Done: every component with control of its own has a module, and every safety invariant and action
property of the passing runs has a theorem, as have both refinements and the safety part of each
liveness property.

Next theorems: more of what callers rely on without a check, as `SpecNeverOverfull` does; the
composition of `MsgQueue` with the managers that use a queue.

Next models: the Network Manager's access point and LED service, `Watchdog`, `ButtonManager` and
`Main` over `MsgQueue` in place of a sequence of their own, the storage adapter's item types.
