# Tilck in TLA+

Tilck is a small monolithic kernel: one CPU, preemptive, with kernel threads,
Linux-compatible processes, a VFS and a few drivers. This directory holds TLA+
models of its parts, the TLC configurations that check them on small instances,
and theorems about them with proofs that TLAPS checks.

The models cover the core on which everything else blocks (tasks, wait objects,
timers, the scheduler as the blocking functions see it, `kmutex`, `kcond`, `ksem`
and both reader-writer locks), ring buffers, pipes, the interrupt-safe ring
with the worker threads on top of it, the life cycle of processes, and signals.

## The system

### Parts, their state and their operations

| Part | State | Operations that change it |
|---|---|---|
| wait objects (`kernel/wobj.c`, `include/tilck/kernel/sync.h`) | `task->wobj` (type, pointer, list node), wait lists | `prepare_to_wait_on`, `wait_obj_reset`, `wake_up`, multi-object waiters of `poll`/`select` |
| scheduler (`kernel/sched.c`, `kernel/arch/*/process*.c`) | `__current`, task states, run list, vruntime, `need_resched`, `disable_preemption` count | `do_schedule`, `switch_to_task`, `task_change_state`, timer IRQ accounting |
| timers (`kernel/timer.c`) | `ticks_before_wake_up`, `timer_ready`, `timer_wakeup_list` | `task_set_wakeup_timer`, `task_cancel_wakeup_timer`, `tick_all_timers`, `kernel_sleep` |
| `kmutex` | owner, `lock_count`, wait list | lock, trylock, unlock |
| `kcond` | wait list | wait (with timeout), signal one, signal all |
| `ksem` | counter, max, wait list | wait (with timeout), signal |
| `rwlock_rp`, `rwlock_wp` (`kernel/rwlock.c`) | readers, writer flag, owner, recursion count | shlock, shunlock, exlock, exunlock |
| signals (`kernel/signal.c`) | pending and mask sets, handlers, stop state | `send_signal*`, `process_signals`, `sigsuspend`, `pause` |
| processes (`fork.c`, `exit.c`, `waitpid.c`, `process.c`) | process tree, zombies, pids, sessions | fork, vfork, exit, wait4, stop, continue |
| pipes, ring buffers (`pipe.c`, `ringbuf.c`) | buffer, positions, reader and writer handles | read, write, close, dup, poll |
| worker threads (`wth.c`, `safe_ringbuf.cpp`) | job rings written by IRQ handlers, `waiting_for_jobs` | enqueue, run, wait for completion |
| poll and select | one wait object per file | look, sleep, look again |
| VFS (`kernel/fs/`) | mount points, handles, inodes, file locks | open, close, dup, rename, unlink, `flock` |
| memory (`kmalloc/`, `mm/`) | heap trees, user mappings, page reference counts | allocate, free, map, unmap |
| terminals (`kernel/tty/`) | input ring, line discipline | key press, read, ioctl |

`PROJECT.json` lists every component with its sources, the modelled ones and the
others, with the reason.

### How they interact

A task blocks by writing its wait object into a wait list, changing its state to
`SLEEPING` and calling the scheduler, all with preemption disabled. Three parties
can end the sleep: the one that signals the object, the timer IRQ
(`tick_all_timers`) and `send_signal`. Each resets a different part of the
task's blocking state, so what must hold is a relation between the task state,
the wait object, the wait list and the timer. Everything else in the kernel
(file systems, pipes, terminals, worker threads, waitpid) sleeps through these
functions.

IRQ handlers put jobs into the ring of a worker thread and wake it up, between any
two of its instructions and those of other handlers. A process that dies, stops or
continues wakes up those who wait for it in `wait4`, or sends them `SIGCHLD`.

### What makes it hard

* A task is preempted at any point where preemption is enabled, including while
  it holds a `kmutex` and between being woken up and looking at why.
* A timeout, a signal and a regular wake-up race for the same sleeper.
* `kmutex_unlock` hands ownership to the next task; `ksem_signal` and
  `kcond_signal_*` hand over nothing, so that late comers overtake.
* Readers and writers of a `rwlock_wp` share one condition.
* IRQ handlers produce into rings and wake worker threads at any instruction.
* The exit of a process is preemptible: children die and are handed to `init`
  while it is half gone; one flag, `stopped`, serves both SIGSTOP and vfork.

### What correctness means

No ASSERT fails; no wake-up is lost; nobody sleeps where no waker looks; a timer
never outlives the sleep it was set for; locks exclude; a counter never leaves its
range; no job is lost or run before it is stored; every process has somebody to
report its death to, and the death is reported; and waits that must end do end.

## Modules

One step of a model is one region of code in which preemption is disabled; the
timer IRQ and any other task can come between two steps. In `SafeRingBuf` and `Wth`,
where IRQ handlers share memory with what they interrupt, one step is one access to
that memory. A failed ASSERT is the `panic` variable (in `RwLockWp`, `RwLockRp` and
`Processes`, an invariant on the states in which the ASSERT is evaluated).
Definitions named `X_Something` just before `X` and marked "Mutant" are wrong
variants, each breaking one property; no specification uses them.

| Module | Models | Remarks |
|---|---|---|
| `WaitLists` | `list.h` as wait lists use it | a list is a sequence of tasks; `Unlink` is `list_remove` of a task's node |
| `Tasks` | `wobj.c`, `timer.c`, `do_schedule`, `switch_to_task`, `kernel_sleep`, `sys_pause`, what a signal does to a sleeper | the scheduler may pick any runnable task; idle runs only when nobody else can |
| `Kmutex` | `kmutex.c` | one mutex, plain or recursive |
| `Kcond` | `kcond.c` with that mutex | timed and untimed waits, signals from inside and outside the mutex |
| `Ksem` | `ksem.c` | waits and signals of several units |
| `RwLockWp` | `rwlock_wp_*` of `rwlock.c` | built on `Monitor` |
| `RwLockRp` | `rwlock_rp_*` of `rwlock.c` | a mutex (`Exclusion`) and a semaphore of one unit (`Semaphore`) |
| `RingBuf` | `ringbuf.c`, `ringbuf.h` | sequential; an element is one byte |
| `SafeRingBuf` | `safe_ringbuf.cpp`, `safe_ringbuf.h` | the word with the positions is loaded, compared and swapped; producers interrupt each other and the consumer |
| `Wth` | `wth.c`, `wth_aux.c`, `irq_entry` | one worker thread over `SafeRingBuf`, IRQ handlers and tasks that enqueue, tasks that wait for completion |
| `Pipe` | `pipe.c`, with what `fork` and signals do to it | built on `Monitor`, once per condition; the ring buffer is its number of bytes |
| `Processes` | `fork.c`, `exit.c`, `waitpid.c`, and what kills, stops and continues a process in `signal.c` and `process.c` | one record per pid |
| `Signals` | `signal.c`: masks, handlers, sigaction, sigprocmask, sigsuspend, pause, sigreturn, faults, delivery; what `execve` resets | one process |
| `Exclusion` | abstract: what a lock promises | implemented by `Kcond` |
| `Monitor` | abstract: what a mutex and a condition promise together | implemented by `Kcond`; base of `RwLockWp` and `Pipe` |
| `Semaphore` | abstract: what a counting semaphore promises about its units | implemented by `Ksem`; what `RwLockRp` uses |
| `SharedLock` | abstract: what a reader-writer lock promises | implemented by `RwLockWp` and `RwLockRp` |
| `BoundedQueue` | abstract: a bounded FIFO queue with partial reads and writes | implemented by `RingBuf` and `SafeRingBuf` |
| `WaitListsProofs`, `KcondProofs`, `KsemProofs`, `RwLockProofs`, `RingsProofs`, `WthProofs`, `PipeProofs`, `ProcessesProofs` | the theorems | `RwLockProofs` is about both locks, `RingsProofs` about both rings, `ProcessesProofs` about `Processes` and `Signals` |
| `MCKcond`, `MCKsem`, `MCRwLock`, `MCRings`, `MCPipe`, `MCProcesses` | small instances for TLC | `MCRwLock`, `MCRings` and `MCProcesses` hold two independent specifications each; a behaviour is one of either, the other staying in its initial state |

### From code to state

| Variable | Code |
|---|---|
| `cur`, `state`, `wobj`, `timer`, `timerReady` | `__current`, `task->state`, `task->wobj.type`, `ticks_before_wake_up`, `timer_ready` |
| `pending` | the tasks with a pending signal that they catch, outside a signal handler (in one `pending_signals()` is always false; the calls of `Tasks` are made outside) |
| `pc` | where each task is; a task is inside a blocking function, inside the mutex, or elsewhere |
| `owner`, `lockCount`, `mutexQ` | the fields of `struct kmutex` |
| `condQ` | `c->wait_list` |
| `counter`, `semQ`, `want` | `s->counter`, `s->wait_list`, `wo->extra` |
| `slack` | `get_ticks()` against `end_ticks` in `ksem_do_wait`, relative to the timer |
| `r`, `w`, `exOwner`, `rc` | the fields of `struct rwlock_wp` |
| `holder`, `sem`, `readers`, `owner`, `at` | of `RwLockRp`: the mutex, the semaphore's counter, the fields of `struct rwlock_rp`, and where each task is |
| `inside`, `waitQ` | who is between lock and unlock, who waits on the condition |
| `readPos`, `writePos`, `elems`, `buf` | the fields of `struct ringbuf`; `moved` is what the last call copied |
| `stat`, `ring` | of `SafeRingBuf`: the fields of `struct generic_safe_ringbuf_stat`, and the slots |
| `writers`, `w`, `rd` | the producers in the ring, the latest to interrupt last; the local variables of each; those of the consumer |
| `stack`, `needResched`, `waiting`, `completionQ` | of `Wth`: the IRQ handlers in progress, `__need_resched`, `waiting_for_jobs`, the wait list of `completion` |
| `notEmptyQ`, `notFullQ`, `handles` | the wait lists of the two conditions of `struct pipe`; `read_handles` and `write_handles` count the members of `handles` |
| `proc` | of `Processes`: the fields of `struct task` and `struct process` of each pid that matter to the life cycle, the arguments of its `wait4`, and (for the properties) whether `setpgid` moved it after its end |
| `sig` | of `Signals`: `sa_pending`, `sa_fault_pending`, `sa_mask`, `sa_old_mask`, `in_sigsuspend`, `nested_sig_handlers`, the handlers, whether the user stack can take a signal frame, and where the process is |
| `asked` | of `Signals`: the mask the program set itself, for the properties only |

Each action has the name of the function it models; a function that sleeps is two
actions, up to the sleep and from the wake-up (`KmutexLock`, `KmutexLockWoken`), and a
function that is interruptible between accesses to shared memory has one action for each
(`SafeWriteCas`, `SafeWriteStore`).

## Runs

| Run | Question | Instance |
|---|---|---|
| `kcond` | Do the inductive invariant, the safety invariants and the refinements of `Exclusion` and `Monitor` hold with timeouts, signals and preemption anywhere? Is `lock_count` right whenever the mutex changes hands? Does everybody who waits for the mutex get it, and do timed waits and signalled pauses end? | 1 kernel thread that uses timers, 1 that does not, 1 user task that is sent signals, idle; timeouts of 1 and 2 ticks; recursive mutex, nesting of 2; fair |
| `kcond_stale_timer` | violation, see Findings | a user task that uses timers |
| `ksem` | Does the inductive invariant hold? Among waits for one unit: is a unit ever left unwatched while somebody sleeps, and are waiters served? | 3 tasks and idle, waits and signals of 1 and 2 units (the properties about single units are about the behaviours in which nobody waits for two), max 3, fair |
| `ksem_timeout` | violation, see Findings | timeouts of 2 ticks |
| `rwlock` | Both locks: exclusion, ASSERTs, refinement of `SharedLock`. `rwlock_wp`: who is woken up; does the next writer get in although readers keep coming? | 4 tasks, 1 interruptible, recursive, nesting of 2, fair |
| `rwlock_wp_signals` | violation, see Findings | 3 tasks, 2 interruptible |
| `rings` | Is the ring buffer a FIFO queue, however reads and writes wrap around? Is the interrupt-safe ring one too, at the level of memory accesses? Is no job left in the ring of a sleeping worker, is every job run, is a job that sleeps left alone, and does `wth_wait_for_completion` return when, and only when, there is nothing to do? | 4 bytes, requests of 0 to 5; a ring of 2 jobs, 1 IRQ line, 1 task that enqueues and waits, the worker, idle; fair |
| `pipe` | Is no wake-up lost although only one process is woken up at a time? Does no process sleep for ever next to bytes or space? | 3 processes, one gets signals, one is non-blocking; 2 bytes, fair |
| `pipe_eof` | violation, see Findings | 3 processes |
| `processes` | Does every process have a living parent, does vfork hold the parent exactly as long as it must, is no death or stop missed by a process asleep in `wait4`, does SIGKILL get through? Is the mask of `sigsuspend` undone, and does nobody outside a handler sleep on a deliverable signal? | 3 pids, one signal or changed setting per behaviour (forks, exits, waits and SIGCONT without bound) and one more SIGKILL for a process in a handler, fair; init waits for a group or polls, the second process waits for any child or for one pid; 5 signals: SIGKILL, one caught, one of hardware faults, one ignored, one in the second word of the sets |
| `wait_own_group` | violation, see Findings | 3 pids, `wait4(0, ...)` |
| `signals_hidden` | violation, see Findings | the same signals, two of them masked |

The bounds are enough for the interesting cases: three contenders are needed for a
late comer to overtake a task that was woken while another still sleeps, four
for two queued tasks besides the owner and a fourth that times out; two ticks
tell a timer that is about to fire from one that is not; nesting of two tells the
inner from the outer unlock; a request of one byte more than the buffer tells a
partial copy from a full one; a ring of two jobs fills up and wraps around, and an
IRQ handler that interrupts the writing task is a nested writer; a pipe of two bytes
can be neither empty nor full; two units tell a waiter that can be served from one
that cannot; with three pids a process can be child, parent and orphan of others at
once, and a pid is used again. One signal meets every state of the life cycle, since
it may come at any point of an unbounded sequence of forks, exits and waits, and the
SIGKILL on top of it one that another signal's handler has made; the
theorems about `Processes` have no such bound. The theorems remove the bounds for the
safety properties they state.

Deadlock checking is on in every run but those of `MCProcesses`: a process may be
killed, may be stopped for ever, and nothing makes anyone send it a signal.

### Fairness

`kcond` and `ksem` assume that the timer IRQ keeps coming (weak fairness of
`TickAllTimers`); that a task that is ready again and again is eventually picked
(strong fairness of `DoSchedule` to each task: `sched.c` picks the lowest
`vruntime`, which grows while a task runs, so a ready task cannot be passed over
for ever); and that a task which is inside a blocking function, or in the
critical section, goes on when it gets the CPU again and again, and unlocks as
often as it has locked. Nothing is assumed of a task outside: it need never signal.
`rwlock` assumes that `kmutex_lock` does not starve (what `LockIsGranted` shows) and
that holders release. `pipe` assumes the same of the pipe's mutex, and that a process
inside `pipe_read`, `pipe_write` or `pipe_on_handle_close` goes on; nothing makes
a process call them.

`rings` assumes of the worker, of each IRQ handler in progress and of each task inside
`wth_wait_for_completion` or an enqueueing that it goes on when it can do so again and
again (the CPU runs the innermost handler; strong fairness, because interrupts disable
what they interrupt); that the scheduler picks a ready task eventually; that the
timeouts of `wth_wait_for_completion` (`TIMER_HZ / 10` ticks) fire; and that a job that sleeps is
woken up by whoever it waits for. No interrupt need ever come.

`processes` assumes that a process the scheduler may pick, and that is inside a system
call or about to return from one, goes on (weak fairness of `KernelStep` for each pid).
No program need call anything and nobody need send a signal.

Two properties of this run leave out what the code does in a signal handler.
`pending_signals()` is false there whatever is pending (`signal.c:441`), so that a
process that calls `pause` or `wait4` in a handler, or whose entry into one of these
calls has just set a handler up, sleeps, or sleeps again, on any signal, SIGKILL
included. The comment at `signal.c:165-169` gives SIGKILL absolute priority even over a
handler; `process_signals` does that whenever it is called, but these two sleeps are not
ended. `NoSleepOnSignal` is therefore stated for a process with no handler under way, and
`KillIsDelivered` covers a process that runs in a handler but not one that sleeps in
`wait4` there. `KillIsDelivered` also leaves out a signal that comes after `wait4` has
begun and before it sleeps: `wait4` looks at the signals after its sleep only.

`NothingToReport` leaves out one case as well: `sys_setpgid` tells nobody when it moves a
zombie into the group that its parent sleeps on in `wait4(-g, ...)`.

## Findings

* `kcond_stale_timer`: a signal that ends a timed sleep leaves the timer armed
  (`signal_wakeup_task` and `do_nanosleep` do not cancel it). It goes off while
  the task is asleep in `kmutex_lock`, which then returns without the mutex, against the
  comment at `kmutex.c:93`. Hence `NoTimedUser` in the theorems and in `Kcond.cfg`: no task that
  can be signalled also sleeps with a timer. `Refinement` needs no such hypothesis: with the
  ASSERTs in place two tasks are never inside.
* `ksem_timeout`: `ksem_wait` returns on a timeout with the task still in the wait
  list; its next wait fails the ASSERT at `wobj.c:20`. Hence `WaitTicks = {0}` in the theorems
  about the wait list; the units are right with any timeouts (`KsemImplementsSemaphore`).
* `rwlock_wp_signals`: a signal makes the writer that waits for the readers queue
  again behind a reader, and the last reader then wakes the wrong task. Hence
  `QuietWriterIsWoken`, which is about the writers that are not sent signals,
  whatever signals the tasks behind them get.
* `pipe_eof`: handles are closed without the pipe's mutex. When the last writer closes
  after a reader has looked at `write_handles` and before it is in `kcond_wait`, the
  reader misses the wake-up and sleeps with no writer left, against the comment at
  `pipe.c:51`. `pipe_write` has the same gap.
* `wait_own_group`: `wait4` with pid 0 (any child of the caller's own group) registers
  with no child, and `is_waiting_on_multiple_children` (`waitpid.c:119`) takes only
  negative numbers for a wait on several children: no death wakes the caller up,
  although the comment at `waitpid.c:29` lists 0 among the values served. Hence
  `NoOwnGroup` in the theorem about `NothingToReport`.
* `signals_hidden`: `get_first_pending_sig` looks at the lowest pending signal of each
  word only. When that one is masked and a higher one is not, `sigsuspend` returns
  without running a handler and with its mask in force, and the next `sigsuspend`
  fails its ASSERT, against the comment at `signal.c:779`. Hence `NothingHides` in the
  theorems about the mask: no signal that the program masks is lower than one of the same
  word that can be pending. The instance of run `processes` satisfies it.

## Proofs

`tlapm` proves these for every set of tasks and every value of the other constants
that satisfies the named assumptions (`TaskAssumption`, `KmutexAssumption`,
`KsemAssumption`, `WpAssumption`, `RpAssumption`, `RingAssumption`, `SafeRingAssumption`,
`WthAssumption`, `PipeAssumption`, `ProcessAssumption`, `SignalAssumption`, and where noted the restrictions above).

| Theorem | States | Under |
|---|---|---|
| `Invariance` | `KcondSpec => []KcondInv` | `NoTimedUser` |
| `TypeCorrect`, `AssertsHold`, `WakeUpPossible`, `OwnerAwake`, `TimersCancelled` | the safety invariants of run `kcond` | `NoTimedUser` |
| `Refinement` | `KcondSpec => MutualExclusion` | - |
| `MonitorRefinement` | `KcondSpec => ConditionVariable` | `NoTimedUser` |
| `SemInvariance`, `SemTypeCorrect`, `SemAssertsHold`, `SemSleepersQueued` | `KsemSpec => []SemInv`, and its parts | `NoTimedUser`, `WaitTicks = {0}` |
| `KsemImplementsSemaphore` | `KsemSpec => UnitsAreAccountedFor` | - |
| `SemUnitsWatched` | `KsemSpec => SingleUnitsAreWatched` | the same, `IsFiniteSet(Task)` |
| `WpInvariance`, `WpTypeCorrect`, `WpAssertsHold`, `WpNobodySleeps` | the invariants of `rwlock_wp` in run `rwlock` | - |
| `WpRefinement` | `WpSpec => ReadersXorWriter` | - |
| `WpNextWriterWoken` | `WpSpec => []QuietWriterIsWoken` | - |
| `RpInvariance`, `RpRefinement` | `RpSpec => []RpInv`, `RpSpec => RpReadersXorWriter` | - |
| `WpUsesMonitor`, `RpUsesMutex`, `RpUsesSemaphore` | `WpSpec => MonitorSpec`, `RpSpec => Mutex!Spec`, `RpSpec => RSem!Spec` | - |
| `RingInvariance` | `RingSpec => []RingInv` | - |
| `RingRefinement` | `RingSpec => IsBoundedQueue` | - |
| `RingCountsForPipe` | `RingSpec => [][RingCounts]_ringVars` | - |
| `SafeInvariance`, `SafeRingIsQueue` | `SafeSpec => []SafeInv`, `SafeSpec => JobsAreQueued` | - |
| `WthInvariance`, `WthNoJobForgotten` | `WthSpec => []WthInv`, `WthSpec => []NoJobForgotten` | - |
| `WthUsesRing`, `WthJobsAreQueued` | `WthSpec => RingIsUsedAsDocumented`, `WthSpec => JobsAreQueued` | - |
| `WthCompletionIsReal`, `WthJobSleepsUndisturbed` | the action properties of the worker thread in run `rings` | - |
| `PipeInvariance`, `PipeTypeCorrect`, `PipeDataIsWatched`, `PipeSpaceIsWatched` | `PipeSpec => []PipeInv`, and its parts | - |
| `PipeUsesMonitors` | `PipeSpec => NE!MonitorSpec /\ NF!MonitorSpec` | - |
| `PipeNotAllAsleep` | a reader and a writer both asleep leave somebody awake in the pipe | - |
| `LifeInvariance`, `ParentsAreThere`, `VforkIsRight` | `ProcSpec => []LifeInv`, and two of its parts | - |
| `DeadStayDead` | `ProcSpec => DeathsAreFinal`: a zombie goes only in the `wait4` of its parent | - |
| `NobodyMissesAReport` | `ProcSpec => []NothingToReport`, with `setpgid` on any process that has not called `execve` | `NoOwnGroup` |
| `SignalsTypeCorrect`, `SignalsNoSleepOnSignal` | `SigSpec => []SleepInv`, in two parts; the second is about a process with no handler under way | - |
| `SignalsMaskIsRestored`, `SignalsNoNestedSuspend` | `SigSpec => []MaskIsRestored`, `SigSpec => []NoNestedSuspend` | `NothingHides` |

**The mutex and the condition.** "No ASSERT fails" is far from inductive. `KcondInv`
adds what each party relies on: a task outside the blocking functions is awake
and has no wait object (`AwakeInv`); an armed timer belongs to a task asleep
for a bounded time, an expired one to a task not scheduled since (`TimerInv`); a
task in `kmutex_lock` either owns the mutex and is awake or is asleep and queued,
the queue has no repetitions and is empty when nobody owns the mutex
(`MutexInv`); a task in `kcond_wait` is queued with its wait object set, or has
been woken and is not asleep (`CondInv`). Mutual exclusion rests on much less: `OwnerInv`, that
whoever is inside is the owner, is inductive by itself, so that `Refinement` holds whatever
timers and signals do. The proof has one lemma per action;
`WaitListsProofs` has the facts about `Unlink`, `Append` and `Tail`.

The refinement of `Monitor` maps its queue to `Sleepers`, the part of the wait list that is
still asleep, in the order of the list: a task that has timed out stays in `condQ` until it
runs, but its wait is over. `Sleepers` is `Reduced(condQ, Asleep)`, a `CHOOSE`; the lemmas of
`KcondProofs` show that there is exactly one such list (`ReductionExists`,
`ReductionFacts`) and what it becomes when a task is appended, unlinked or taken from the front
(`ReducedAppend`, `ReducedUnlink`, `ReducedTail`). Then every step of `Kcond` either leaves
`Sleepers` alone (`MonQuiet`) or is a step of `Monitor` (`MonWait`, `MonTick`, `MonSignal`,
`MonInterrupt`).

**From one module to the next.** The reader-writer locks and the pipe are specified over
abstract locks, conditions, semaphores and buffers, and these are tied to the code in two halves:
`Refinement`, `MonitorRefinement`, `KsemImplementsSemaphore` and `RingRefinement` show that
`kmutex.c`, `kcond.c`, `ksem.c` and `ringbuf.c` implement them, and `WpUsesMonitor`, `RpUsesMutex`,
`RpUsesSemaphore`, `PipeUsesMonitors` and `RingCountsForPipe` that the users stay within what they
allow. For the pipe this takes an argument: one mutex serves two conditions, so that a
wait on one is an unlock as the other sees it, and a signal takes a process off whichever
list it is in. The worker thread and its ring are tied together in the same way
(`WthUsesRing`).

**The semaphore.** `SemInv` ties being queued, being asleep in `ksem_wait` and having a wait
object of type SEM together, task by task. It fails as soon as a timeout ends a wait,
which is the finding above. `SingleUnitsAreWatched` compares the counter with the number of
tasks that were woken up and have not looked yet. `ksem_signal` hands units out along the
wait list; what is left at each place of the list (`Left`) is a recursive function.
`LeftLemma` shows for lists of any length that it is well defined, and `ServedLemma` that, with
one unit per task, a list from which somebody is left asleep has had at least as
many tasks served as there were units. `WatchInv` then says that while somebody
sleeps, at least as many tasks are awake inside `ksem_wait` as there are units.
`KsemImplementsSemaphore` is about all timeouts. Its invariant, `UnitsInv`, leaves the wait list
out: what a task in `ksem_wait` is waiting for is one of the numbers that callers ask for, and
the counter is within its bounds. With it each step of `Ksem` is a step of `Semaphore` or none.

**The reader-writer locks.** `WpInv` says that at most one task has claimed or holds
exclusive access, that `w` is set exactly then, that `ex_owner` is the writer, that
`r` counts the readers, and that the queue is empty when `w` is not set.
`NextWriterInv` adds for the wake-up that a writer waiting for the readers, if it is
not sent signals, is the first in the queue. `RpInv` says where the one unit of the
semaphore is: in the counter, with a writer, or with the readers as a whole; the
first reader holds the mutex while it waits for the unit, so that nobody else is
counted before it has it.

**The ring buffer.** `RingInv` says that the writer is `elems` places after the reader,
around the end of the buffer. The queue of the abstract specification is
`Contents`, the `elems` bytes from the reader on. A copy is one or two chunks
(`PartOne`, `PartTwo`); the lemmas show that together they have the length of the
abstract copy and that the two stores are one store at wrapped positions, from
which each operation is the abstract one, byte by byte.

**The interrupt-safe ring.** `JobsAreQueued` is about the jobs in the ring, those that an
interrupted writer has not stored yet included. What makes it true is that the word
with the positions never returns to an earlier value while somebody holds a copy of
it: nobody reads during a write, so that in each writer's copy the read position is
the present one and the number of jobs is at most the present one (`Earlier`). A
compare-and-swap that succeeds therefore compares equal because nothing has
happened, and the second load gave the same word as the first. `SafeInv` adds that
the writers about to store have different slots, all of them in use and none of them
the one that a consumer has just read.

**The worker thread.** `WthInv` has five parts. `SafeInv` is the one of the ring.
`PlacesInv` says which handlers are in progress and that a task that enqueues is
not preempted. `NestInv` says that the writes nest as the interrupts do, which is what the
ring asks of its users; with it every step of `Wth` is a step of `SafeRingBuf`
or none (`RingStepLemma`), and the theorems about the ring apply. `WakeInv` is the
argument about the lost wake-up: when the worker has set
`waiting_for_jobs` and there is a job in the ring, then whoever put the first job there has seen the
ring empty and has still to look at the flag, or to wake the worker up. `wth_wakeup` is
two steps, the flag and the state of the worker: between them the worker has
not taken a job yet, so that the second one never ends the sleep of a job. `AsleepInv` says
that a worker that sleeps has its flag set, or somebody is between those two steps.

**The pipe.** `PipeInv` adds to `DataIsWatched` and `SpaceIsWatched` that a process in a
wait list is in the loop of that condition and that one about to wait still has the mutex and
has found the buffer empty (or full): the byte that would make the sleep wrong
cannot come in between. The end of file is not part of it: see Findings.

**Processes.** `LifeInv` says that init lives and is nobody's child, that a parent is
another process which is not a zombie, and that a process is held by vfork exactly while its
vforked child lives and has not called `execve`. It is inductive as a whole
only: that the parent of a vforked child is still there depends on its being held, and
that it is held on the child's parent not having changed. `WaitInv` adds for
`NothingToReport` that nobody waits for its own group; a zombie that `setpgid` has moved
carries a mark, the only one that may be in a group its parent sleeps on. The lemmas are about
what one event does to one process (`Told`, `Post`, `Wake`), and then there is one
lemma per action for each of the two invariants. `DeathsAreFinal` follows from `LifeInv`
(a parent is another process, so the one that `wait4` reports is not its caller); it is
an action property that no run checks.

**Signals.** `SleepInv` needs no hypothesis: handlers do not nest, and a process that
sleeps with no handler under way has no signal pending that its mask lets through. `SigInv` adds for the mask that a
fault which is not delivered yet is pending and unmasked and waits for a handler to return, and that `sigsuspend` has saved the mask
the program asked for, as long as it is in force (`MaskInv`); it is inductive when the
delivery finds every signal that it should (`NothingHides`), and the run `signals_hidden`
shows that it is not otherwise.

**Induction over data.** The library's induction theorems cannot be instantiated by the provers.
Where a fact about sequences of any length is needed (the wait lists, the units handed
out along one), the proof takes the least index at which it fails:
`LeastLemma`, from the well-foundedness of the natural numbers.

### Only model-checked

Liveness (`LockIsGranted`, `BoundedWaitEnds`, `SingleWaitersAreServed`, `NextWriterGetsIn`,
`DataIsRead`, `SpaceIsUsed`, `JobsAreRun`, `CompletionIsSeen`, `DeathIsReported`,
`KillIsDelivered`) is out of the prover's reach: it needs fairness. Every other property of
the passing runs is a theorem. The properties of the runs that find a violation do not hold;
where a hypothesis excludes the violation, the theorem has it (`NoTimedUser`,
`WaitTicks = {0}`, `NoOwnGroup`, `NothingHides`; `QuietWriterIsWoken` for the writers).
`EndOfFileIsSeen` has none: it fails whenever the last writer closes at the wrong moment.

## Not modelled

Of the modelled parts:

* `kcond_wait` with no mutex or with a mutex locked twice, `kcond_signal_single`,
  the destroy functions, `KSEM_NO_WAIT` and `KSEM_NO_MAX`. The destroy functions are
  a `bzero`, the others have few or no callers.
* A task that locks a plain mutex it already owns, or unlocks one it does not
  own: both are errors of the caller.
* The branches taken while the kernel is in panic mode.
* Which runnable task the scheduler picks (vruntime and time slots): the models allow any,
  so that what they show holds for each rule of selection.
* Several handles of one process for the same end of a pipe, `poll` on
  pipes, and a `fork` or `pipe2` that fails (`pipe2` undoes its steps before anybody
  can see the pipe).
* In `Kcond` a signal is one that the task catches; killing, stopping and masks are in
  `Processes` and `Signals`.
* Several worker threads with priorities, `wth_enqueue_anywhere`; the variants of the
  interrupt-safe ring for other sizes of elements, which differ in the copy.
* In `Processes`: sessions and terminals, sending to whole groups (a repeated sending to
  one process), the address space that vfork shares. In `Signals`: the layout of the
  frames on the user stack.

Of the other parts:

* `poll` and `select`: see the hazards in `PROJECT.json`; the wait on several
  conditions at once needs a second kind of wait object in every signal operation.
* VFS, ramfs, file locks, `kmalloc`, process memory, trees: sequential data structures
  used under the locks modelled here, most of them with unit tests of their own; their
  state is too large for model checking at a size that says more than those tests do.
* Terminals, keyboard, printk, time, ELF files, FAT32: state machines over characters
  and conversions of formats.
* Architecture code, drivers, boot loaders: hardware and firmware, whose behaviour
  is not in the source.
