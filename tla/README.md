# govmomi: TLA+ models, checks and proofs

govmomi is a Go library for the VMware vSphere API, with a command line (`govc`),
a guest agent (`toolbox`) and a vCenter/ESX simulator (`vcsim`, package
`simulator`). Most of the half million lines are generated API bindings, wrappers
that make one request each, and command line code. The logic that concurrency can
break is in the simulator (object locks, tasks, sessions, the property collector,
snapshots, history collectors), in a few client-side protocols (keep-alive,
waiting for updates and tasks, file transfers with progress) and in the guest
agent. This directory models that core, checks it with TLC on small instances, and
proves with TLAPS, for every instance, that its safety properties hold.

## 1. Inventory

| Component | State | Operations | Interacts with | What is hard |
|---|---|---|---|---|
| Object locks (`simulator/internal/object_lock.go`) | `lock`, `stateLock`, `heldBy`, `count` | `Acquire` (`try`, `wait`), `Release` | every method call and task | two mutexes; references shared by goroutines of one context |
| Calls and tasks (`simulator/simulator.go`, `task.go`, `registry.go`) | `objects`, `locks`, task state | `Service.call`, `Registry.AcquireLock`, `Remove`, `Task.Run`, `CancelTask`, `SetTaskState`, `Wait` | object locks, registry handlers | lock hand-off to the task's goroutine; removal drops the lock others wait for |
| Sessions (`simulator/session_manager.go`) | map of sessions, one idle watcher each | `Login`, `Logout`, `TerminateSession`, clone tickets, impersonation, cookie mapping and renewal, expiry | every request | get and put are separate critical sections; timers |
| Property collector (`simulator/property_collector.go`, `property_filter.go`, `view_manager.go`, `registry.go`) | queued updates, tracked `refs`, `sync`, `pending` page, `View` | `Put`, `Update`, `Remove` and their handlers; `CreateContainerView`, `CreateFilter`, `WaitForUpdatesEx`, `CancelWaitForUpdates`, `DestroyPropertyCollector` | registry, views, client | a goroutine per call, a ticker, handlers called under object locks, paging, cancellation |
| Property client (`property/wait.go`, `property/collector.go`) | version, pending page | `WaitForUpdates` loop, cancellation, clean-up | property collector | empty answers, truncated pages, cancel racing an answer |
| Keep-alive (`session/keepalive/handler.go`) | `notifyStop`, wait group, mutex | `Start`, `Stop`, `RoundTrip`, the goroutine and its `send` | session client | Stop waits with the mutex held; the goroutine stops itself |
| History collectors (`simulator/history_collector.go`, `event_manager.go`), tailing client (`event/`) | history, pages and positions, collector map | create, read, rewind, reset, resize, destroy, post, prune; `event.Manager.Events` | registry handlers, property collector | map and history shared under different locks, position in a pruned list, limits |
| VM snapshots (`simulator/snapshot.go`, `virtual_machine.go`) | snapshot tree, current snapshot, registry objects, file layout, power and crypto state | create, remove, remove all, revert; power; encrypt, recrypt, decrypt; unregister | tasks | four records of one tree; requests in flight that name removed snapshots |
| Fault injection (`simulator/fault_injection.go`) | rules and counters | match, count, inject | every call | counter changed under a read lock |
| NFC leases and transfers (`nfc/`, `ovf/importer`, `vim25/progress`, `task/wait.go`) | goroutines and unbuffered channels, lease state and progress | import, export, wait for a task, cancel; reader, tee, logger, lease updater | HTTP transport, server | channels nobody reads or that are closed under a sender; cancel at any step |
| Session cache (`session/cache`) | a file | `Load`, `Login`, `Save` | session client | several processes, one file |
| Toolbox (`toolbox/`, `toolbox/process/`) | poll delay, channel error, open request, process table, pid pool | poll loop, reset, dispatch; start, list and kill programs, read their output | the hypervisor, the guest's operating system | back-off and reset, one goroutine per program, expiry and reuse of pids |
| VMs, inventory, other managers, vAPI simulator | object data | sequential handlers under the object's lock | registry | data rather than control; library sessions are the exception |
| Bindings, wrappers, finder, govc, OVF, other clients | none | one request per call, formatting | | nothing concurrent |

What makes each modelled component correct:

* a lock is held on behalf of one context at a time, is freed by the last
  reference and no earlier, and every Acquire returns;
* calls on an object exclude each other while it is registered, the lock passes
  to a task without a gap, a task that completed keeps its state, everything ends;
* where a session timeout is set, a session that nobody uses expires within two
  timeouts; one that was ended can only be brought back by a request already in flight;
* when everything is quiet the client of a property collector knows the current
  value of every object and no object that was destroyed under its lock; it hears of an object before
  it hears of changes to it; nobody waits forever;
* a handler never runs two keep-alive goroutines, the running one can be stopped,
  and Logout returns;
* tree, registry, roots and files of a VM's snapshots agree, the tree is the lineage
  of the snapshots, and clients that wait for each other's tasks cannot break it;
* a page of a history collector is complete and in order, a reader skips no event,
  a client that tails a collector misses none;
* a transfer ends, its log says how it went, its progress adds up and nothing of
  it is left running;
* the toolbox answers the request that is open and no other, comes back after a
  channel error, stops when told to unless a write to a program blocks it, and a pid
  means the program it was given to.

## 2. Modules

`ContextMutex` is the abstract specification of a lock that the calls of one
context share. `ObjectLock` implements it (checked and proved). `TaskService` is
built on the abstract mutex: `holders[l]` is its `holding`, and it is proved to
use each of its locks as `ContextMutex` promises it. Every `MC*` module
extends a component's module and names the model values a `.cfg` uses. Each
component's module begins with "faulty variants", the mutated operators that show
that its properties can fail.

### ObjectLock
`lock`, `stateLock`, `heldBy` and `count` are the fields of the Go struct; a call
is one `Acquire`/`Release` pair and `CtxOf` gives its context. Between two mutex
operations the code of `try`, `wait` and `Release` is one action: `TryEnter` takes
`stateLock`, `TryShared` adds a reference, `TryFree`/`TryLock` take `l.lock` with
`stateLock` held, `TryFail` gives up, `WaitLock`/`WaitUnlock` are `wait`,
`ReleaseEnter`, `ReleasePanic` and `ReleaseRef` are `Release`. The refinement maps
Acquire to the step that sets `heldBy` or `count`, Release to the drop of the
reference. A custom `sync.Locker` is taken to be a `sync.Mutex`.

### KeepAlive
Variables are the handler's fields plus the program counters of the clients and
of the goroutines (goroutine `g` owns channel `g`). `Start` never blocks with the
mutex held, so it is one step; `Stop` is `StopEnter` and `StopWait`. `rest` tells
`HandlerREST` from `HandlerSOAP`: the default REST send is a session check that
comes back through `RoundTrip`, so it ends in `Start` (`SentStart`, `FailedStart`).
A request that fails in transport changes nothing and is left out.

### SessionManager
One action per critical section: `Receive` maps the cookie, `Renew` puts the
renewed copy back, then the method runs (`Login`, `Logout`, `TerminateSession`
with `TerminateDel`, `AcquireCloneTicket`, `CloneSession` with `CloneDel`,
`ImpersonateUser`, the `SetCopy` both end with, `UpdateOptions`, `Other`) or faults
(`NotAuthenticated`, `Fault`). A login is two steps, `NewSession` (the put) and
`SessionIdleWatch` after the login event: it starts the watcher if there is a
`sessionTimeout` option and nothing otherwise. There is none by default; `since` says
whether it is set, from the start or by `UpdateOptions`, and which keys are older. Its
value is the constant `Timeout`. `WatchCheck`/`WatchDel` are the idle watcher, `start`
is when it was started, `Tick` is time. Of a session only
`LastActiveTime` is kept; `ended` is a history variable.
Users, locales, call counts and per-session registries are left out.

### TaskService
`Locate`, `CallLocker`, `CallAcquire`, `CallUnlock` are `Service.call`; `RunPut`,
`RunRunning`, `RunLocker`, `RunHandoff`, `RunSpawn` are `Task.Run` up to the `go`
statement; `TaskLocker` to `Complete` are its goroutine. `Remove` deletes object
and lock, so a late caller makes a new lock. `CancelTask`, `SetTaskState` and
`WaitReturns` are other clients. `handoff` covers `TaskDelay.LockHandoff` on
and 0. Execute's own data changes and delays are abstracted away.

### PropertyCollector
One collector, one filter, one client. `PutBegin`...`PutEnd`, `RemoveBegin`...
`RemoveEnd`, `WriteLocate`...`WriteEnd` are the goroutines that create, destroy
and update objects; `applyHandlers` notifies a snapshot of the handlers in any
order, each notification being a step that may have to take a lock.
`BeginPending`, `BeginInitial`, `BeginLoop`, `Tick`, `FilterUpdate`, `Batch*`,
`Collect*`, `Apply*`, `AnswerPage` are `WaitForUpdatesEx`; `CreateView`,
`ListenView`, `CreateFilter`, `Send`, `Receive`, `CancelWaitForUpdates`, `Destroy*`
are the client. Values are counters; a filter either traverses a `ContainerView`
or names its objects (`direct`). `Registry.Remove` takes no lock itself. The task that
destroys an object holds the object's; three callers hold none of the object they remove
(`RemovePortGroup` at `host_network_system.go:164`, the end of a host's
`ComputeResource` at `cluster_compute_resource.go:436`, a failed `CreateVM` at
`folder.go:436`). `Unlocked` is the set of the objects that are removed so. An object
that is both created and removed without its lock is left out. `Initials` are the
sets of objects a behaviour may begin with, in the order of the folders.

### VMSnapshots
`Send` is what `Service.call` does before it has the locks: it finds the object a
request names. One action per task follows, whole, because the lock of the machine
is held to the end of the task (that it is, is `TaskService`'s `SeamlessHandoff`).
The records are those of the code: `RootSnapshotList` (`roots`), `CurrentSnapshot`,
`RootSnapshot`, the layouts, and `ChildSnapshot`, which keeps what it had and so gives
the true lineage (`Lineage`, its transitive closure).
The code's trees are nested lists and its functions recursive. `roots` is the list of
the nodes in the order of `allSnapshotsInTree`, parents first, each with the set of the
snapshots above it; then no operator has to be recursive, and the model can be reasoned
about. `SnapshotTrees` has the nested lists and the recursive functions as they are in
the code, and the assumption `TreesAgree` of `MCVMSnapshots` makes TLC compare every
operator of the two on all lists of trees that four snapshots can make.
A panic in a task's goroutine ends the simulator (`crashed`); one in the handler
itself leaves the machine locked (`wedged`). `careful` is an assumption about
clients that is chosen in `Init`: they send one request at a time and none to an
unregistered machine, do not use `RemoveChildren`, and remove a current root only
when it is the last snapshot.
`CarefulIsSafe` is about them, the other properties about all clients.

### EventHistory
`PostBegin`, `PostStep` are `EventManager.PostEvent`: the manager's lock is held
throughout, each collector's only while the event is added to its page, so the
methods of collectors, one action each, fall in between. `pos` says whether a
position is nil, in the page, in a list that was replaced, or pruned. A fill from
the history in the middle of a prune may have a gap; it is in `torn`. A destruction
during the iteration over the map may stop the process (`crashed`). The tailing
client is `TailStep`: create the collector, set the page size, listen, collect,
then process queued values of `latestPage`. The property collector between
them is a queue.

### Transfer
One action per send, receive or close on the unbuffered channels between main,
transport, tee, logger or item, and lease updater. `Done` has the choices of its
`select`; `SendOnClosed` is the crash of the process. `late` records that the
transport was still reading when the request was answered, which HTTP permits
for uploads only. `waitForProgress` computes a position from a percentage: in `float32`,
truncated, and from 0 percent when the reader does not know the size. `Positions` are
what may come out: off by `Skew` in either direction, or 0.

### GuestProcesses and Toolbox
`GuestProcesses` is `process.Manager`: `entries`, the pool of pseudo pids and, per
program, its monitor goroutine (`WaitReturns`, `NoteEnd`, `CancelContext`, `Expire`,
`PutPid`) and the end of the program itself. A command is a shell. If it is in
`Forking`, the shell forks a child that has its pipes (`holding`) and that only
`ChildEnds` ends: `Wait` reaps the shell, which frees its pid (`WaitReaps`), and stays
until the output has ended (`OutputEnds`). Programs are started `WithIO`, as
those without a path are. `Toolbox` extends it with the loop of
`Service.Start`: `CheckReset` with `StartChannel`, `StopChannel`, `Send`,
`Receive`, `backoff`, and the handlers of the requests that start, kill and read
programs (`Dispatch*`, `Stat*`). A client may open the stdin of a program
(`DispatchStdin`) and write to it; the write is in the loop, like every handler, and
returns when the program reads or nobody is left to read (`WriteReturns`, `WriteFails`).
That the client closes it again is left out. The two share the table, which the handlers and the
monitors change concurrently. The VMX is external: it has one request open at a time
and gives it up when the channel is reset.

## 3. Runs

Runs marked ✗ are expected to be violated: the property is a sentence of the
repository's documentation or comments, and the counterexample is a finding
(section 6).

| Run | Instance | Shows |
|---|---|---|
| `object_lock` | 4 calls, 3 contexts, two calls share one | mutual exclusion, exact counts, waiters only contend with waiters, every Acquire returns, refinement of `ContextMutex` |
| `keepalive` | 2 clients, 4 requests that start, SOAP and REST | the goroutine is always reachable by Stop; the wait group is exact; Stop leaves none; Logout returns except in exactly one situation (section 6) |
| `session_manager` | 2 workers, 4 requests, 3 keys, clock 0..3, timeout 1, option set at first, later or never | `SessionsOK`: with the option, sessions stay watched and idle ones end within two timeouts; deleted sessions come back only in flight |
| `task_service` | a task, a destroy task and a method on one object | `CallsOK`: exclusion while registered, final state when done; seamless hand-off, completed states stay, everything ends |
| `property_put` | 1 object, 1 created, 2 writers, pages of 2 | the client ends up current; queued updates are answered |
| `property_remove` | 2 objects, 1 removed with or without its lock, 1 writer, pages of 1, every MaxWait, cancellation | `FollowsRemovals`: removals under the lock are reported and values current; `AnswersOK`: pages are bounded, enter precedes modify; cancelled calls end |
| `property_deadlock` ✗ | two objects created in two folders | opposite lock orders of filter and view |
| `vm_snapshots` | 2 clients, 4 snapshots | `TreeOK`: the records agree and the tree is the lineage; careful clients are safe; encryption never happens with snapshots; a removal removes exactly what it should |
| `event_history` | 4 events, 2 collectors, history of 2, limits 1 and 2 | `PagesOK`: pages are complete, in order and bounded; the tail is current and complete; reads are contiguous |
| `transfer` | 2 files of 2 chunks, import, export, task; logger and item sinks | `TransferOK`: progress adds up; the log is true; a crash needs a late read; nothing is left; every call returns but for one that waits for a logger after a cancel |
| `transfer_cancel` ✗ | 1 file of 1 chunk, import, logger | a cancelled import leaves its logger's channel open |
| `toolbox` | 2 functions, 2 commands, one of which forks, 2 OS pids, 3 requests, 2 channel errors, delay up to 2 | `ToolboxOK`: both channels are up when polled; `TableOK`: table and programs agree; complete output, answers to the right request, recovery; Stop ends but for a write nobody reads, Kill once no child has the pipes |

**Bounds.** They are chosen so that the races can happen, and no further. Two
clients or workers make every pairwise race possible; four requests on three keys
let a login, its use, its deletion and a late renewal fit in one behaviour; a clock of
three with timeout one reaches past the two timeouts `IdleBound` speaks of. Four
calls in three contexts give a shared context, a holder and two waiters. In
`task_service` a destroy task removes the object while two others wait for it and
`MaxLocks = 5` is never reached. In the property runs two objects and pages of one
or two make a set that fits a page exactly, one that is cut, and one of several
pages. `property_remove` begins with an object that is destroyed under its lock or with
one that is removed without it, beside one that stays: two removals at a time
are three times the states. Creations and removals are in separate runs because together they meet
the deadlock of `property_deadlock` and the lost removal of section 6. Four
snapshots make a root with a chain of two and a branch, or two roots; both clients can
name any of them. Four events against pages of at most two prune every list twice.
Two files with two chunks let one file's goroutines outlive its turn. Two commands
over two OS pids make the operating system reuse one while its former owner is in
the table, and three requests start, kill or read it, or open its stdin and write to
it; two errors make a reset fail. One of the commands forks a child, so both ends of
`Wait` happen.

**Deadlock** is checked in `object_lock`. The others may stop: bounded requests,
events or snapshots run out, a REST Logout or a cancelled import hangs, a crashed
process does nothing, a client that cancelled is finished.

**Symmetry** is used in `session_manager` (workers) and `vm_snapshots` (clients),
which check no liveness.

## 4. Fairness

* `ObjectLock`, `TaskService`: weak fairness of every step of a goroutine that has
  begun. Go schedules runnable goroutines and `sync.Mutex` does not starve waiters;
  protected code returns. Clients need not make requests.
* `KeepAlive`: weak fairness of the clients' and goroutines' steps (a send is
  assumed to return, with an answer or an error), and strong fairness of `Notified`. The select
  offers both the closed channel and the timer; the timer is reset to a positive
  time, so the closed channel is offered alone again and again.
* `PropertyCollector`: weak fairness of each goroutine, of `WaitForUpdatesEx` (the
  ticker ticks) and of the client; none for cancellation.
* `Transfer`: weak fairness of every goroutine while the process lives (requests are
  answered, with success or failure; the tasks waited for end); strong fairness of
  the updater's `done` case: its select may find a tick ready too, but ticks are two
  seconds apart. None for the cancel.
* `Toolbox`: weak fairness of the loop and of the monitors; strong fairness of the
  `stop` case of the loop's select, which is random among ready cases; the shell of a
  command whose context is cancelled ends (`exec.CommandContext` kills it). None for a
  function, for the child of a shell, which nothing kills, and for `WriteReturns`: no
  program has to read its stdin. `StopEnds` and `KillEnds` are stated accordingly.
* `SessionManager`, `VMSnapshots` and `EventHistory` have none; only safety is checked.

## 5. Proofs

Each `*Proofs` module extends its component's module; its theorems hold for all values
of the constants that satisfy the named assumptions there. `SessionProofs` extends
both `SessionManager` and `KeepAlive`, the two sides of a session; their names are disjoint
(`HandlerSpec`, `HandlerInv` and so on are those of the keep-alive handler). Every one has the same
shape: `IInv` holds initially, every action preserves it, and it implies the property;
an action property follows from `IInv` and the step. TLC has checked each `IInv` on
the component's run.

**ObjectLock** (`TypeCorrect`, `MutualExclusionHolds`, `CountIsExact`,
`ReleaseIsSafe`, `TryWaitsForWaiters`, `Refinement`). Mutual exclusion is not inductive: it needs to know who owns the two
mutexes. `IInv` adds that the owner of `stateLock` is the call inside its critical
section (`StateLockOwner`), that `heldBy` is the context of every holder, that
nobody holds the object when a call is about to lock it (`FreeWhenLocking`), that
`l.lock` is owned by the holders or by one call inside `wait` (`LockOwner`), and
that `count` is the number of holders. Each step preserves it; `StepRefines` then maps
each step to a step of `ContextMutex` or a stutter. Assumption: every call has a
context, and `Nobody` is neither a call nor a context; the set of calls may be
infinite (that of the holders is finite, as part of `IInv`).

**KeepAlive**, in `SessionProofs` (`HandlerTypes`, `AtMostOne`, `AlwaysStoppable`, `CountsRunning`,
`StopIsComplete`).
`HandlerInv` says that the mutex is held across steps only by the actor inside
`Stop` (`MuOwner`), that the field `notifyStop` is the channel of any running
goroutine (`Stoppable`, which gives uniqueness), that the wait group is at 0 or 1
accordingly, that goroutines are created in order (`Places`), and that the
goroutines created plus the clients about to call `Start` are at most the requests
made (so `Start` has a fresh goroutine). The case that matters is `Start`
with `notifyStop` nil: `Stoppable` then says nobody is running. `StopIsComplete`
follows since only `StopWait` releases the mutex, at a wait group of zero.
Assumptions: finitely many clients, distinct from goroutines and from `Nobody`.

**Toolbox** (`TableIsExact`, `ChannelsAreUp`, `OutputIsComplete`,
`AnswersTheOpenRequest`). That the table is exact depends on the pool: `TableInv`
adds that the pseudo pid of a function whose monitor has not put it back is at most
`lastPid`, not in the pool and no other function's (`PidsOK`), so `Register` cannot
overwrite the entry of a function and `Expire` cannot delete one; that OS pids and pseudo
pids are disjoint; and that a program being registered is not registered yet
(`RequestOK`). Two commands may share an OS pid, which is the exception `TableOK`
makes. The other theorems need `EndsOK` (a context is cancelled only after the end is
noted, or by Kill) and `ResponseOK` (at the select, the response has the number of
the open request, or 0 after an error). Assumptions: finitely many programs, OS pids
at most `PidBase`, `MaxDelay` at most `ResetDelay`.

**TaskService** (`CallsAreSafe`, `HandoffIsSeamless`, `CompletionIsFinal`,
`LocksAreReturned`, `LocksAreContextMutexes`). Exclusion on an object is a matter of
two maps, from objects to locks and from locks to holders, and `Remove` deletes from
the first while the second is in use. `LockInv` says that a reference to a lock is held
by exactly the calls and tasks whose place says so, with the lock they chose
(`HoldersOK`), that those of one lock are of one request (`OneContext`), and that the
lock chosen is the one in the registry for as long as the object is registered
(`ChoiceOK`). Two requests inside a registered object then hold one lock.
`LastInsideOK` adds that a request that is inside, or whose task was handed the lock,
was the last to enter. `LocksAreReturned` follows from `HoldersOK`; it covers the locks
of removed objects too. `LocksAreContextMutexes` maps every step to an acquire or
release of `ContextMutex`, or a stutter, for every lock: together with `Refinement` of
`ObjectLock` it closes the gap between the service and the two mutexes below it.
Assumptions: every request has a target and a kind; no set need be finite.

**SessionManager**, in `SessionProofs` (`SessionsExpire`, `OnlyInFlight`). `WatchOK` is about the keys that
were handed out and never deleted (`Kept`): such a session is in the map and no watcher
has given it up, and if it is watched the timer fires between now and two timeouts after
the last activity, or one after the start of the watcher. `ToWatchOK` says that a key
handed out since the option was set is watched or its login is about to start the
watcher. The step that matters is `WatchCheck`: a session idle for no more
than one timeout gets one more, which is where the second timeout comes from.
`WorkersOK` says that what a worker will put or delete was handed out before, so a
fresh key is in nobody's hands, and `FreshOK` that nothing watches without the option.
Assumption: the timeout is positive.

**Transfer** (`LoggersAreTruthful`, `OnlyLateReadsCrash`, `NothingIsLeft`,
`TransfersAddUp`). The last report of a file crosses reader, tee and the two loops of the
logger, so `Truthful` needs to follow it: `ReportOK` says that once it was sent it is in
the tee or in what the logger keeps, unless the transport is late; `ClosedOK` and
`TransportOK` say which files can still be written to; `LoggersOK` that a logger is
at work only at main's own file. `TransfersAddUp` is about a sum over the files
(`SumOf`), which changes by what one item counts (`SumChange`, by induction on the
number of files), whatever order reports, ends and the stop come in and wherever a
report is rounded to. Assumptions: at
least one file and one chunk.

**EventHistory** (`PagesAreComplete`, `TailIsCurrent`, `NothingIsMissed`,
`NoEventIsSkipped`). The history is the last `MaxPage + 1` events without a gap
(`HistoryOK`); every list `fillPage` can see of it is a run of successive events
(`SeenFacts`), and it lacks none unless the history is being pruned. `PageOK` says of a
page what `PageComplete` says, and more: a page with at most `MaxPage` events was never
pruned and has all the history has; one that is longer goes back as far as the history,
since events in order and without repetition are as far apart as their places
(`Spread`); and until an event is in a history that is full, no page has it. A
list that was replaced under a position keeps what the page had (`PosOK`). The client
is told of every event because each queued page has the event it is about first
(`TailedInv`, `ToCome`) and `newEvents` always passes the first one on
(`ProcessFacts`), found or not found. Assumptions: page sizes are 1 to `MaxPage`, as
`validatePageSize` has it; reads ask for at least one event.

**PropertyCollector** (`AnswersCanBeApplied`, `ClientIsCurrent`,
`ClientFollowsRemovals`). That an answer can be applied is a matter
of what was sent before and of what is still to be sent. `IInv` says that the stream the
client has not had yet is sound for what it knows: the answer and what is pending
(`StreamOK`), or, while a call collects, the objects that entered and then the other
updates (`CollectingOK`). No change or removal comes before its object or after a
removal, and at its end the client knows every object in the filter's `refs`.
The case that matters is an object that enters after it left in the same answer, since the entered
objects are put first: an update that says `leave` is queued by whoever holds the object's lock and
keeps it until the object is unregistered (`LocksOK`, `RegisteredOK`), so a call that
waits for the lock does not find the object any more (`LeavesOK`, `ResOK`). Of an object
in `Unlocked` this is not so, and `Sound`, `Follows` and the parts of `CollectingOK` except it. None of it
is claimed once the client takes no more answers or the last one is a fault (`Over`).

That the client follows the objects needs, beside `IInv`, an account of every change
until the client has it (`TrackInv`, theorem `Tracks`). `Value(o)` is what the client
will know of `o` once it has had all that is on its way to it (`Out`). Of every object
that is registered and in the view, `Claim(o)` says that its last change is still with
the method that made it (`Writing`), or is the last word on `o` in the queue or in the
batch (`Ends`), or that nothing more is said of it (`Silent`) and `Value(o)` is its
current value or the object is still to be collected (`Settled`, `Collected`). The
last case is the one a test hardly reaches: an update of an object the filter does not
have is dropped, so some collection, the running one or one that a queued update
will cause (`More`), must find the object (`CollectedOK`), and what a collection
has read of it must be its value unless a newer one is queued. An entered object is put
before the reported changes, which is harmless because none of them is of an object
the filter lacks (`ReportedOK`). The other parts say that nothing is there to follow
before the collector listens (`FreshOK`), that a new object is unknown until it is in the
view and unchanged until it is released (`UnknownOK`, `UnseenOK`, `UnsaidOK`), that a
removed object of the filter has its removal on its way, if it was removed under its
lock (`RemovedOK`), and that without
creations the filter has every object the client will know of (`KnownOK`). When all is
quiet nothing is left but `Value(o) = cache[o]`. `ClientFollowsRemovals` assumes that no
object is created, `PutObjs = {}`: with creations the code loses removals (section 6).
It allows any removals without the lock, of other objects.
TLC checked `TrackInv` on the instances of `property_put` and `property_remove`, and on
one with both creations and removals, before it was proved.

Assumptions of all three: a created object has a new reference and is not removed without
its lock, and the names are distinct; no set need be finite.

**VMSnapshots** (`TreesAreLineage`, `CareIsEnough`, `CryptoChecks`,
`RemovesNothingElse`). First what the operators do to any list of nodes that is a forest
(`IsForest`: each snapshot once, every node a root or right below another, and all that is below
a node in one piece after it). `removeSnapshotInTree` and `RootRefs` concatenate a
list of no or one element per node; such a concatenation is a selection in order
(`FlattenPicks`), so a removal keeps the other nodes in their order with the removed
snapshot taken out of what is above them, and the result is a forest again
(`RemoveForest`). `AddChild` inserts one node behind the last one that is below its parent
(`AddInserts`, `AddForest`) and changes no root (`RootRefsAdd`). The lineage is the least set
closed under parents, so a new snapshot has that of its parent and the parent itself,
and the others keep theirs (`LineageAdd`): for that the number has to be new, in no
`ChildSnapshot` list and with an empty one of its own (`NumbersOK`). A removal cuts the
lineage down to what is left; with `RemoveChildren` it needs that ancestors of what stays
stay (`RemoveLineage`). `TreeOK` alone is not inductive for another reason: `CreateSnapshot`
appends a root when there is no current snapshot, and that the list is empty then is
`CurrentOK`, which also makes `hasSnapshots`, a look at the current snapshot, enough for
`updateCrypto`. For `CareIsEnough`, `CarefulOK` says that the request of a careful client
is the only one and that what it was checked against still holds (`Sent`). Assumptions:
`None` is neither a snapshot nor a key; clients and snapshots may be any number.

**Induction over data.** The library states induction for an operator, which the provers
cannot instantiate. `NatSetInduction` states it for a set of numbers, from the
well-foundedness of `<`; with it the recursive functions of `Transfer` (`SumOf`) and
`EventHistory` (`Fill`), and `FlattenSeq` of the community modules for `VMSnapshots`, are
shown to exist and to compute what they should.

`TypeOK` and `NoPanic` of `ObjectLock`, `HandlerTypeOK` and `OneKeepAlive` of `KeepAlive` and
`NoLockLeft` of `TaskService` are proved and have no run.

Only model-checked: liveness (`AcquireReturns`, `StopReturns`, `EverythingEnds`,
`Processed`, `CancelEnds`, `Returns`, `Recovers`, `StopEnds`, `KillEnds`), since
fairness and ENABLED are outside the prover; and that the lists of nodes of `VMSnapshots`
stand for the trees of the code (`TreesAgree`), since what recursive operators compute for
every input is outside it too.

## 6. Findings and deviations

Two findings have a run.

1. **Filter and view deadlock** (`property_deadlock`). `filter.update` takes filter
   then view, `ContainerView.PutObject` view then filter.
2. **A cancelled import hangs** (`transfer_cancel`). `reader.Done` may see the
   cancelled context before the tee and then closes nothing; `Importer.Upload` waits
   for its logger forever. `Returns` of the run `transfer` shows that it is the only
   way for a transfer not to return.

Other behaviours of the models differ from what a reader would expect. They are part
of the models, and the properties are stated so as to describe them:

* *Keep-alive.* The goroutine of a failed send calls `Done` and then `h.Stop()`
  (`handler.go:113`): a Login in between is left without keep-alive. With
  `HandlerREST`, `Stop` waits with `h.mu` held for a goroutine whose send waits for
  `h.mu` in `Start` (`handler.go:131`); `StopReturns` excepts exactly that state,
  `SendStuck`. A REST session check starts keep-alive like a Login, also after
  Logout (`handler.go:187`).
* *Sessions.* Without the `sessionTimeout` option, the default, no session expires
  (`session_manager.go:378`), also not one that was there when the option is set. An
  option whose value is no duration makes the login panic after the put; the model has
  none. A clone ticket is looked up and deleted in two critical sections, so
  concurrent requests can all use it (`session_manager.go:269`; line 272 says it "can
  only be used once"). A request in flight puts a session back that was logged out,
  terminated or expired, and nothing watches it afterwards; `ComesBackInFlight` says that this is
  the only way. The idle watcher may delete a session that was renewed since it
  looked (`:368`). `TerminateSession` stops at the first unknown id (`:226`).
* *Tasks.* `Task.Wait` returns when a client has set a final state, although the
  task still runs (`task.go:164`).
* *Property collector.* `filter.update` clears `refs` when an object was created,
  before the batch that holds a removal is processed: that removal is lost
  (`property_filter.go:71`), which is why `FollowsRemovals` is checked and proved without
  creations; nothing here would catch a change for the worse in that case.
  `Registry.Remove` notifies before it deletes and takes no lock (`registry.go:290`): of
  an object removed by one of the three callers without its lock (section 2) a
  collection in between finds it registered and lets it enter again. The client then keeps it
  for good, and may get a change of it after its removal. `Accounted` and `KnownFirst`
  except these objects (`Unlocked`), and TLC violates both without the exception; that
  the client has their current values as long as they are there is part of
  `FollowsRemovals`. A cancel that precedes the call it means cancels the previous one
  (`property_collector.go:871`); a filter destroyed under a running call makes it
  panic (`:946`); an object created between the walk of `CreateContainerView` and
  its registration is never in the view (`view_manager.go:107`).
* *Snapshots.* What clients that are not `careful` can do: a revert in flight makes
  a removed snapshot current (`snapshot.go:151`); removing a current root while
  other roots stay, or with an earlier removal in flight, panics (`:107`, `:109`);
  `RemoveChildren` leaves the objects and files of all but the top of the subtree
  (`:112`); a panic under `WithLock` leaves the lock held (`registry.go:667`).
* *History.* Destroying a collector during a `PostEvent` is a concurrent write to
  a map under iteration (`event_manager.go:147`); collectors of ended sessions keep
  their slots (`:53`); `Events` drops the error of a refused collector
  (`event/manager.go:182`). `RewindCollector` puts the position on the oldest event,
  so the next read begins with the second one (`history_collector.go:102`). After
  `SetCollectorPageSize` the position stays in the list that was replaced.
* *Transfers.* After a cancel `Abort` is called with the cancelled context and the
  lease stays (`importer.go:170`); a download of unknown length reports no progress to
  the lease until it ends (`reader.go:27`); the last report of a task wait is sent without a
  default case (`task/wait.go:81`).
* *Toolbox.* An OS pid that is reused within five minutes of the end of a command
  takes its entry, which the old command's expiry then deletes (`process.go:281`);
  `TableOK` excepts it. A write to the stdin of a program (`hgfs/server.go:563`) runs in
  the service loop; to a program that does not read it blocks (the `io.Pipe` of a function,
  `:482`, or a full pipe of a command), and neither Stop nor a Kill of that very program
  is seen any more. A Kill kills the shell only (`:538`): while a child of it has the
  pipes, `Wait` does not return and the program is listed as running. The shell is
  `/bin/sh` even where there is a `bash`, which would not fork: the test at `:60` is
  the wrong way round. `Stat` after a Kill reads a buffer that is still written
  (`:397`); a killed function may go on (`:615`); pseudo pids assume a `pid_max` of
  32768 (`:209`). A delay of five seconds after a reset stays until a request comes
  (`service.go:92`); errors of the out channel reset nothing, although the comment at
  `service.go:39` says so.

Hazards in code that no module covers: several sessions whose root collectors share
a handler key (`registry.go:152`) and create their collector twice
(`session_manager.go:494`); `ListView` removals that leave no update
(`view_manager.go:273`); the fault injector's counter under a read lock
(`fault_injection.go:161`); the session file shared by processes
(`session/cache/session.go:132`); library update sessions completed after they were
cancelled (`vapi/simulator/simulator.go:2234`); lease metadata written by two HTTP
goroutines (`http_nfc_lease.go:85`); the progress aggregator's `Sink` after `Done`
(`aggregator.go:52`); the division by a total of zero (`lease_updater.go:123`).

## 7. Not modelled

Generated bindings, wrappers, `govc`, the finder and the file formats keep no state.
The simulator's inventory methods and most methods of virtual machines are
sequential transformations of data under one lock, which `TaskService` models.
Container-backed objects are driven by docker. `TaskManager`'s collectors share
the pages of `EventHistory` and are not modelled apart. The HGFS server and archives
of the toolbox are file I/O for one request at a time. The progress aggregator has
no caller in the repository. Fault injection, the session cache, several sessions
in one property collector and library sessions have real concurrency and are in
the plan; most of the repository's lines are data and will not be covered by any model.

## 8. Plan

1. `PropertyCollector`: `ListView`, several filters and `DestroyPropertyFilter`,
   per-session collectors sharing a handler key, paging of `RetrievePropertiesEx`.
2. `FaultInjector`: counts under a read lock. Library update sessions with their
   expiry. The session cache as processes sharing a file.
