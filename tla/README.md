# Specifications of the OS lab: kernel, file system, key-value store

TLA+ specifications of the operating-system course work in `src/`: the kernel of
`src/kernel` (its locks, threads, semaphores, memory, keyboard, terminals and files) and the
libraries `src/libkvdb` and `src/libco`. Each module is translated from the C code at the lines that
`PROJECT.json` ("map") gives for every definition. TLC checks small instances; TLAPS
proves the spinlocks, the scheduler, the semaphores, the allocator, the keyboard's way into the
kernel, what the terminals show, the key-value store, the coroutines and, for careful callers, the file
system correct for any number of processors, tasks, locks, semaphores, callers, terminals, keys, processes, threads and inodes.

- [The system](#the-system)
- [The modules and the code](#the-modules-and-the-code)
- [Runs](#runs)
- [Where the code does not keep its promise](#where-the-code-does-not-keep-its-promise)
- [Fairness](#fairness)
- [Proofs](#proofs)
- [What the models assume](#what-the-models-assume)
- [What is not modelled](#what-is-not-modelled)
- [Plan](#plan)

## The system

The repository holds a small multiprocessor kernel on the course's abstract machine and
six user programs.

### Kernel

| Component | Source | State | Operations | Correct when |
|---|---|---|---|---|
| spinlocks | `kernel/src/kmt.c:118-178` | `lk->locked`, `lk->cpu`, per processor `cpuncli`, `intena`, the interrupt flag | `pushcli`, `popcli`, `holding`, `spin_lock`, `spin_unlock` | one holder; interrupts off exactly while a lock is held and restored after; whoever spins gets the lock |
| traps and scheduler | `os.c:48-75`, `kmt.c:13-60` | `tasks[]`, each task's `run`, `sleep`, `context`; per processor `cputask`, `cputask_last`, `notdefault` | `os_trap` calling `kmt_context_save`, `input_notify`, `kmt_context_switch` | no stack used by two processors; a task goes on where it stopped; every runnable task is run |
| task table | `kmt.c:82-117` | `tasks[]`, `cnt_tasks` | `kmt_create`, `kmt_teardown` | a slot has one task; a stack is freed when nobody is on it |
| trap handlers | `os.c:32-46` | `handlers[]` | `os_on_irq` | sorted by `seq` |
| semaphores | `kmt.c:180-254` | `count`, `cnt_tasks`, the list `pcb` | `sem_init`, `sem_wait`, `sem_signal` | no lost or invented wakeup; first come, first served |
| memory | `pmm.c` | a doubly linked list of block headers, `alloc_lock` | `kalloc`, `kfree`, `balloc` | blocks never overlap; a request fails only when no gap is wide enough |
| keyboard input | `devices/input/*.c` | modifier flags, a ring of events, `event_sem`, `sem_kbdirq` | `input_notify`, `input_task`, `push_event`, `pop_event` | no code forgotten, events in order |
| terminals | `devices/tty/tty.c` | for each a cooking queue with `cooked`, characters, dirty marks, a cursor, a lock | `tty_task`, `tty_cook`, `tty_read`, `tty_write`, `tty_render` | each reader gets the lines typed for it, whole, in order; the screen shows the current terminal |
| virtual file system | `vfs.c` | mount table, descriptors of a task, `lock_vfs` | `open`, `close`, `read`, `write`, `lseek`, `mkdir`, `rmdir`, `link`, `unlink` | two calls never take the same inode, block or descriptor (which the code keeps for opens only); each call acts at its path, once |
| ext2 | `filesystems/ext2*.c` | block and inode bitmaps, inodes, directories, all on a ramdisk | lookup, create, read, write, link, unlink | a block belongs to one inode; nothing leaks; a link count counts names; what is written is read |
| devfs, procfs | `filesystems/devfs.c`, `procfs.c` | none of their own | lookup, read | - |
| devices | `devices/dev.c`, `ramdisk.c`, `video.c` | the device table, filled once; the frame buffer and its current display | lookup, read, write | only the current terminal is drawn |
| shell | `devices/tty/shell.c` | current directory, line buffer | commands over the vfs | - |
| boot, demos, utilities | `framework/`, `util.c` | none | - | - |

Tasks run on several processors and share memory. They meet in three ways: spinlocks
(short critical sections with interrupts off), semaphores (a task goes to sleep and
yields), and traps (the timer, the keyboard and `_yield()` enter `os_trap`, which saves
the task, calls the handlers in order and may return to another task). The keyboard's
interrupt signals `sem_kbdirq`; `input_task` drains the controller into the event ring;
`tty_task` turns events into lines; a shell on each terminal reads lines and calls the
vfs, which calls a file system, which reads and writes the ramdisk. Everyone allocates
from `pmm`.

Locks nest `lock_os` > `sem->lock` > `alloc_lock`, `lock_os` > `lock_kmt` > `alloc_lock`
and `lock_vfs` > `lock_kmt` > `alloc_lock`; there is no cycle, which is what
the ordered locks of `Spinlock` rest on.

What is hard here: a trap gives `lock_os` back before it has left the stack of the task it
switches away from; a task marks itself asleep and is still running until its yield;
`pushcli` may be interrupted between reading the interrupt flag and clearing it, and go on
on another processor; a signal races with a wait; the handler races with `input_task`
between its last read and its wait; a terminal is drawn cell by cell after its lock was given up once,
while another one may become the one shown. No test drives any of these to a chosen order.

### User programs

| Component | Source | State | Correct when |
|---|---|---|---|
| key-value store | `libkvdb/kvdb.c` | a file, a `FILE` buffer and a mutex for each process, `flock` | puts survive, in order, whatever crashes; torn records are cut off; processes do not overwrite each other |
| coroutines | `libco/co.c` | a table of contexts and stacks | each jump goes to a coroutine that has not ended and to a frame that is still there; `co_wait` waits for the one that was started, and returns |
| `crepl`, `frecov`, `sperf`, `pstree`, `amgame` | as named | sequential, one pass or one loop | - |

The hazards of all components, each at its line, are listed in `PROJECT.json`
("hazards") with the properties that would show them.

## The modules and the code

**`Spinlock`** (abstract: `LockAbs`). A context is a thread or the trap handler of a
processor; the actions are the instructions of `spin_lock` and `spin_unlock` that another
processor or an interrupt can tell apart: `PushcliRead` (`IF = _intr_read()`),
`PushcliCount` (`_intr_write(0)` and the counters that then run undisturbed), `Xchg` (the
successful round of the loop), `SetOwner`, and for unlocking `AssertHolding`,
`ClearOwner`, `Release`, `Popcli`. `Interrupt` and `Iret` are `irq_handle` of the abstract machine: between any
two steps with IF set the handler may run, and it may return to another thread, so a thread
may be on another processor from one step to the next.

**`Kmt`** (abstract: `SemaphoreAbs`). Each processor is on the stack of a task and steps
through `os_trap`: `LockOs`, `Save` (`kmt_context_save`), `Notify` (`input_notify`, on a
keyboard event), `Seed` and the scan of `tasks[]` (`ScanNext`, `ScanFound`, `ScanNone`),
`UnlockOs`, `Iret`. Outside a trap the task calls `SemWait` and `SemSignal` (each up to its
`spin_unlock`), `SemUnlock`, `Yield`, `SemReturn`. `stk` is where in its code a task's
stack is, `reg` is where the processor's registers are, `context` what was saved: that the
three agree is a property, not an assumption. The scan is one step for each slot, as a semaphore
in another processor's hands may wake a task in the middle of it.

**`Pmm`** (abstract: `PmmAbs`). The heap is memory read as `struct node`; `kalloc` is
`AllocCall`, `AllocLock`, one `VisitNext` for each node passed over, `VisitFits` with
`AddNode` or `VisitEnd`, and `Unlock`; `kfree` is `FreeCall`, `FreeLock` with `DeleteNode`,
`Unlock`. Addresses are numbers, and a free gap is what lies between the end of a node's
block and the next node.

**`Kvdb`** (abstract: `KvAbs`). The file is a sequence of records, with `Torn` for a record
whose end is missing; `buffer` and `at` are what the `FILE` of a process has still to write and
where. The actions are the calls and the system calls inside them: `LockMutex`,
`LockExclusive` (`flock`), `SeekEnd` and `Truncate` (`check_journal`), `WriteRecord`
(`fprintf` into the buffer), `Fsync`, `Relock` and `LockShared` (`kvdb_get` changes its lock),
`Scan`, `Unlock`, `Return`; `Kill` and `PowerFailure` are crashes at any point between them.

**`Keyboard`, `Input`, `Tty`, `Terminal`** (abstract: `TerminalAbs`). `Keyboard` holds the
key tables and `input_keydown` as operators; `Input` the controller, the interrupt handler,
`input_task` and the event ring; `Tty` the queue of each terminal with `tty_cook`,
`tty_read`; `Terminal` composes them, with `tty_task` reading the input device. The mapping
to `TerminalAbs` collects what is typed and not yet acted upon from four places (the
controller, `input_task`'s hands, the ring, `tty_task`'s hands).

**`Screen`**. What `Tty` leaves out of `tty.c`: characters, marks and cursor of each terminal, the lock, the
frame buffer. `tty_putc` and what it is made of are operators on a terminal. A write is `Putc` for each character
(the first takes the lock, the last gives it back) or `PutNothing`, then `Render` and a `Draw` for each cell: as
`fb_write` holds `fb_sem` for a sprite, a cell is one step, in which the *current* display decides whether it is drawn. `Switch`
and `SetCurrent` are what `tty_task` does for alt and a number, which takes no lock of the terminals; the write of nothing that follows
is what draws the new one. One task for each terminal (its shell or echo task) and `tty_task` write.

**`TaskTable`**. `kmt_create` and `kmt_teardown` called by tasks while the processors switch among the tasks of the table, as the
demo `test_gen.c` does. `Create` and `FreeStack` are what they do before they take `lock_kmt`, `Insert` and `Remove` what they do
under it; traps and the other processors come in between. A trap is `Trap` (the decision, under `lock_os`) and `Iret` (the change of
stacks, after it): `Kmt` has it in full. A task may be torn down while a processor is on it, which then stays on it until its next trap.

**`Co`**. There is one thread. A coroutine is at a *place*: the chain of library calls whose frames are on its stack (`at`). The
place that `setjmp` was last called at (`env`) and the one the saved stack pointer points to (`stackptr`) are variables of their own, set
where the code sets them: `Start` and `WaitYield` call `setjmp` in the frames of `co_start` and `co_wait`; `co_yield`, `Finish` and
`WaitYield` enter `co_yield`, which chooses `cur`; `Switch` is its `setjmp` into the same `env`, `changeframe` and `longjmp`; `Return`,
`WaitCall` and `WaitReturn` are the rest. A frame that returns takes its `env` with it (`"gone"`). That a jump finds the innermost frame, in a `co_wait`
as elsewhere, is a property.

**`Files`** (abstract: `FilesAbs`). Both halves of the file system: the calls of `vfs.c` and what
`ext2.c`, `ext2fs.c` do for them. On the ramdisk are the bitmaps `imap`, `dmap`, the inode `table` and
the blocks' `data`; in memory are each task's descriptors `flides`, and each of them holds a *copy* of the
inode as it was at the open; and `call` is where a task is inside a call, with the copies of inodes it has read and the numbers that
`free_map` gave it. An open is three steps under `lock_vfs`: `OpenLook` (lookup, and for
`O_CREAT` the father and the free inode), `OpenCreate`, `OpenSlot`; `OpenMissing` is the one that finds
nothing. The calls that take no lock are two steps each, one that reads and one that writes: `MkdirLook` and `MkdirMake`, `RmLook` and `RmDo`
(`rmdir` and `unlink`, both `ext2_rm`), `WriteLook` and `WriteDo`. `link` is an open (`OpenLook`, `OpenSlot`) that goes on without the
lock in `LinkLook` and `LinkEntry`. `Close` and `Lseek` are single steps; `read` changes the offset alone and is the operator `ReadText`. The kernel stops at
a failed `assert` of `write_map`: `asserted`. The mapping to `FilesAbs` reads the tree of names
out of the directories' blocks and the text of a file out of its own; there a call that is given a path acts on the node that the path leads to,
in the directory that the path names.

`Spec` is all of this, with any callers. `CarefulSpec` has the callers that the code needs (`Careful`): a call without a lock overlaps no
other call (`Apart`), a write goes through a descriptor whose copy is what the table has (`Fresh`), and `mkdir` and `link` get paths that are not there
(`NewNames`). The kernel does not make anybody keep to it, and its shells do not.

**Composition.** Critical sections under a spinlock are single steps in `Kmt`, `Input`
and `Tty`: `Spinlock` is where that is checked (`MutualExclusion`, `HoldersRun`,
`ImplementsLock`). Semaphores are numbers of units in `Input` and `Tty`: `Kmt` is proved to
implement exactly that (`ImplementsSemaphores`). `tty->lock` in `Screen` and `lock_vfs` in `Files` are words that waiters test, as
`LockAbs` is proved to be enough for.

**`MC*`** modules give the constants their values for TLC. Definitions named `Faulty...`
are slips a programmer could have made (a dropped guard, an off-by-one, a missing reset, an
early release). No action uses them; for each property PROJECT.json ("mutants") names one
that breaks it.

## Runs

| Run | Instance | What it shows |
|---|---|---|
| `spinlock` | 2 processors, 2 threads and the 2 trap handlers, 2 nested locks | exclusion, ownership, exact nesting counts, the interrupt flag restored, no holder interrupted; refines `LockAbs`; whoever spins acquires; no deadlock |
| `kmt` | 2 processors (one takes keyboard interrupts), 2 tasks in 3 slots, 2 semaphores up to 1 | stacks stay exclusive, tasks go on where they stopped, flags and lists agree; refines `SemaphoreAbs`; no deadlock |
| `kmt_live` | 1 processor, 3 tasks, 1 semaphore | a runnable task runs, a signalled one returns |
| `pmm` | 3 callers, heap of 13 with headers of 2, sizes 1, 2, 4 | no overlap, list intact both ways; refines `PmmAbs` |
| `kvdb` | 1 process, 2 threads, 2 keys, 2 values, up to 3 records, 2 crashes | torn ends are cut; what remains is a prefix of the puts; gets see the latest |
| `terminal` | 4 codes out of 7, 2 terminals, ring of 3, queue of 4 | no code or event lost, lines counted; refines `TerminalAbs` |
| `screen` | 2 terminals of 2 by 2 cells, 3 writers, a letter and backspace | the screen shows the current terminal when nobody writes to it; marks suffice; a backspace takes the echo back; every write returns |
| `task_table` | 2 processors, 3 slots, 1 creator, 3 tasks, 4 stacks | every created task is in its slot, the count is exact; no task is on two processors; a task that was not torn down has its stack to itself, even while one that was still runs |
| `co` | main and 3 coroutines, each may start others | jumps land in the innermost frame; `co_start` returns the coroutine it made unless others started some meanwhile; `co_wait` returns |
| `files` | 2 careful tasks with a descriptor each; `/a`, `/b`, `/a/b`; 3 inodes, 3 blocks of 2 characters | bitmaps, link counts, directories and blocks agree after any order of calls, no assertion of `write_map` fails; reads give what was written; each call acts at its path (refines `FilesAbs`) |
| `kvdb_durable`, `files_shells` | as small as shows it; `files_shells` has the instance of `files` | violations, below |

Why these bounds are enough for the hazards they are for:

- `spinlock`: with two threads, one may be interrupted in the middle of `pushcli` and come back on the other
  processor, whose thread it changes places with; the handlers are contexts of their own. The second lock makes
  nesting counts of two and gives the waits an order.
- `kmt`: two processors can be after one task; an empty slot and the wrap of the scan
  occur; one semaphore is signalled from a trap, with another task asleep on it. `MaxCount`
  bounds how often a semaphore is signalled that nobody waits for.
- `kmt_live`: with one processor and three tasks the tasks compete for every switch, which
  two processors with two tasks never do. (Two processors and two tasks pass as well.)
- `pmm`: three blocks fit, so that lists with an inner node, gaps at both ends and in the
  middle, exact and too narrow gaps and a full heap all come up; two callers wait while a third walks.
- `kvdb`: two records of one key order the lookup; a torn record, followed by a put, and a
  second crash after that, need two crashes. The file's length is bounded in `CallPut`.
- `terminal`: the ring holds two events, wraps and overflows; a queue of four holds three characters,
  wraps and overflows at the fourth; four codes are enough for two characters, an erasure and a return, for
  two empty lines and a backspace behind them, and for alt+2 with a character typed on the second terminal. `CHECK_DEADLOCK FALSE`: the bound on codes stops the keyboard, and a panic (full ring,
  full queue) halts the machine.
- `screen`: a write is interrupted by a switch before, while and after it draws, by another write to the same terminal (the
  echo of `tty_task`) and by the switch back; texts are of any length. Four cells are scrolled after the fourth letter. `MarksSuffice` and
  `EchoTakenBack` try every character on every terminal that occurs. (They, and all of the safety, are proved for any size.)
- `task_table`: the table fills, is refused a fourth task, and slots and stacks are used again; four stacks are more than slots, so that both
  limits occur.
- `co`: a coroutine waits for one that waits for a third; two are in `co_start` at once; the table of the code holds ten.
- `files`: three inodes are the root and two more, so that a directory and a file in it, two files, and two
  names of one file, in one directory or in two, all come up; a fourth would repeat these. Inodes and blocks are used up and reused
  after removals. Two characters to a block and three to a file make a file of two blocks, the second half
  full. Four entries a directory ever has (`MaxEntries`) are the dots, one that was removed and one more: an entry is
  never taken away, it is marked. One descriptor for each task is enough for a file open twice.

Symmetry is used for processors, threads, tasks, characters, keys and values where no constant tells them
apart, in runs without liveness.

The type invariants hold some bounds of the code as well: indexes stay inside their arrays, the nesting
count is never negative, block headers stay inside the heap, cursors inside the screen. They are not among the runs' properties
where they are theorems (see [Proofs](#proofs)).

## Where the code does not keep its promise

- **`kvdb_durable`** (`PutsStay`). `kvdb_put` ends with `fsync(fileno(fp))` and no
  `fflush`: the record is still in the `FILE`. Killed before its next `fseek`, the process loses
  a put that has returned 0. `README.md:12` of the repository calls the library persistent and crash
  consistent. What does hold is `CrashConsistent`: what is left is always what some first puts had made of the store.
  The same buffer makes two processes lose records with no crash at all: it is written at the next `fseek`, at the offset that was
  the file's end before `LOCK_EX` was given up, over a record that the other process put there meanwhile (`Kvdb` with `Procs = {p1, p2}` and
  `Of <- TwoProcesses` finds it).
- **`files_shells`** (`MapsAsserted`). `mkdir`, `rmdir`, `unlink`, `write` and the second half of `link` take no lock (`vfs.c:115-146`, `221-226`), and
  the kernel runs two shells over the same file systems (`dev.c:56-57`). Two `mkdir`s that overlap get the same inode and the same block from
  `free_map`; the second `write_map` finds the bit set, which `ext2.c:36` asserts not to be. (`Apart` is violated there.) Overlapping calls are not needed for it:
  `ext2_inode_write` puts the descriptor's copy of the inode into the table, whatever has become of the inode since the open, and one shell that opens `b`, links it to
  `a/b`, writes and removes both names frees inode and block twice (`Fresh` is violated). What does hold, for callers who do neither, is in `files`.

Where the code relies on its callers, the models have a constant or a bound that says so. These are hazards and not findings:
nothing in the repository says what callers may do.

- `TaskTable`, `Creators`. `kmt_create` looks at `cnt_tasks` before it takes `lock_kmt`: with two creators and one slot left both
  go on, the second finds no free slot and overwrites the task in the slot its search began at (`TableExact`).
- `TaskTable`, `StackOwned`. `kmt_teardown` asks nobody whether the task runs, and its only caller (`test_gen.c:15-23`) tears down tasks that loop: until the next trap
  of its processor, such a task runs on a stack that was freed and may be the next task's. `StackOwned` is therefore about the tasks that were *not* torn
  down, and about everybody being on a task of his own; for a torn-down task nothing holds.
- `TaskTable`, `Unused`. A `task_t` is created once, as `dev.c:53-58` and `test_gen.c:17` do. `kmt_create` does not check it, and clears `run`: creating again
  a task that was torn down while a processor is on it would let a second processor choose it.
- `Tty`, the shift key. `keymap_shift` (`keymaps.c:56-104`) has no entry for return, so that shift and return type the character 0, which ends a line in the queue
  without `sem_signal(&tty->cooked)`: the reader is a line behind from then on. `terminal` types without shift; with `Used <- Shifted` in `Terminal.cfg`, TLC
  finds `LinesCounted` violated, and the theorem about it has the hypothesis `ReturnUnshifted`.
- `Files`, `NewNames`. Neither `mkdir` nor `link` looks whether the path is there, and `link` takes a directory for a file.
- `Co`. `co_start` returns the coroutine that was started *last*. That is the one it made only if nobody else started one before its caller
  goes on: `HandleIsChild` says when.
- `os_on_irq` (`os.c:40`) compares the same two entries again and again instead of going down. The kernel registers three handlers in an order for which one
  swap is enough; `Kmt` takes the table as sorted.

## Fairness

The runs `spinlock`, `kmt_live`, `screen` and `co` assume some, for their liveness properties.

`Spinlock`: weak fairness of `Step` for each processor (a processor keeps executing), strong
fairness of `Xchg` (the bus does not let the same processor lose every race; the code has
no queue, so without this a spinner may starve), strong fairness of `CallUnlock` (the code between lock and
unlock ends: the kernel's critical sections are finite, and none of them waits).

`Kmt`: weak fairness of the trap's steps and of `SemUnlock` (a processor keeps executing, and
both run with interrupts off), strong fairness of `LockOs` and `Notify` (they spin for a lock), strong fairness
of `Timer` (the interrupt stays pending while interrupts are off). For what a task does after it
is resumed, `FairTasksSpec` adds strong fairness for each task of its `Yield` and
`SemReturn`: a task that is run again and again gets to execute an instruction before the next interrupt. Nothing
is assumed of tasks calling the semaphores, nor of the keyboard: a task may sleep for ever when nobody signals.

`Screen`: weak fairness of `Ends` (a text ends) and `Draw` for each task and of `SetCurrent` (tasks are run, which is `RunnableRuns` of `Kmt`), strong
fairness of `Render` and of the write after a switch: they wait for a semaphore, which goes to whoever waited longest (`ImplementsSemaphores`). Nothing
makes a task begin to write.

`Co`: the program goes on; `rand()` answers every number again and again (strong fairness of each choice); a coroutine that is
run again and again returns in the end (strong fairness of its `Finish`), which is what the tests' functions do.

## Proofs

Checked by TLAPS for every value of the constants that satisfies the assumptions: `SpinlockProofs`, `KmtProofs`,
`PmmProofs`, `TerminalProofs`, `ScreenProofs`, `KvdbProofs`, `StackProofs` (tasks created and torn down, and coroutines: who is on
whose stack) and `FilesProofs`. What the assumptions say of the code: `TasksAssumption` (the table has a slot,
tasks are slots), `NamesAssumption` (an idle loop is no slot), `SemsAssumption` (counts start at zero
or above), `HeapAssumption` (a header has a size, both sentinels fit), `NullAssumption`; `InputAssumption` and `TtyAssumption` (ring and queue have a
slot, the first terminal exists); `OfAssumption` (a thread belongs to a process), `CoAssumption` (the table has a slot), `TableAssumption` (the task table has a slot; creators, the tasks they make and idle loops are different), `FilesAssumption` (tables and blocks are not empty, a path has a name, the dots are no names; `NULL`, for the model's empty descriptor, is no descriptor), `ScreenAssumption` (two lines and two columns at least, the first display exists, control characters are no letters), `MarksAssumption` (the marks for *nothing* and *torn* are no
records); and for locks, those of `Spinlock` (locks are ordered, as the code nests them).

**Spinlocks** (`SpinlockProofs`). The invariant `SpinInv` adds to the safety properties of the run

- `OnApart`: processors are on different stacks;
- `Parked`: a context that is not on a processor has no lock and has not got past clearing the flag, which is
  what makes it harmless to be moved to another processor;
- `ArgsKnown`: the lock of a call is above those held, or held;
- `FlagsRead`: whoever has read the flag and not yet cleared it, and holds nothing, has read what the first
  `pushcli` must save, whatever processor it is on by then;
- `LockWords`, `IntenaSaved`: the lock's word and the processor's saved flag say what the contexts hold.

One lemma for each action. The properties are theorems (`Exclusion`, `OwnerRecorded`, `NestingCounted`,
`FlagGivenBack`, `HoldersOnProcessor`), and so is the refinement of `LockAbs`: the `xchg` acquires, clearing the word gives back.

**Kernel threads** (`KmtProofs`). `StackExclusive` is not inductive: what matters is which task a
processor *may still* be on. The invariant `IInv` is the conjunction of

- `TypeOK`;
- `SchedInv`: for each step of the trap, which of `cputask`, `cputask_last` is the task whose
  stack the processor is on (`OnStack`); that these are tasks of the table or the processor's own idle loop
  (`OwnTasks`); that a task a processor has as current or as last-left is marked as running
  (`MarkedRun`); that two processors share no such task (`Apart`);
- `RunAccounted`: the converse, nothing is marked without a processor to account for it;
- `SemConsistent`: count, counter and list of each semaphore;
- `Coherent`: saved context, registers and stack agree, step by step of the trap.

The heart is `Save`: `run` is cleared for the task left *at the trap before*, whose stack
the processor has long left; `Apart` is kept as the scan takes only tasks that are not marked.
From `IInv` follow `TypeCorrect`, `StacksExclusive`, `Resumed`, `AssertionsHold`,
`Accounted`, `Consistent`.

**Semaphores** (second part of `KmtProofs`). `SleepInv` adds that a sleeper is on one list once and that a task
that is executing in its own code is awake (`Awake`, `SleepsWhileListed`): theorem `SleepListed`. With both
invariants, each step of `Kmt` is one of `SemaphoreAbs` or changes nothing that tasks see: theorem `Implements`,
with one lemma for each action.

**Allocator** (`PmmProofs`). `IInv` is `TypeOK`, `LockInv` (who is in the critical section), `OneOwner` (a block
is with one caller or in the hands of one call), `InHeap`, `Forwards` and `Backwards`
(each node's neighbours are its true neighbours by address), and `Walk`: every gap that
a walking `kalloc` has passed is too narrow. `Walk` is what `Refuse` and the *lowest* address of
`Give` need in the theorem `Implements`; `NoOverlap` and `ListWhole` follow from the others.

**Keyboard** (first part of `TerminalProofs`). `EventsCounted` speaks of the length of a ring: `Counted` says the same in numbers
(`Occupied`, with its lemmas about one more and one less). `InputInv` is types, `Counted` and `NoKeyForgotten`: theorems `Counts`,
`Remembered`; that `pop_event` never meets an empty ring is theorem `PopFinds`. What `input_keydown` makes of a code is left open but
for its type.

**Terminals** (`TerminalProofs`). That `tty_read` yields a line needs the end of one to be in its queue. `Ended`: the slot at `rear` holds
the character 0; from there every slot is some number of slots behind `front`, and a set of numbers has a least one
(`LeastNumber`, out of the library's theorem that the natural numbers are well founded): theorem `LineFound`. `Filled`: what lies between `front` and
`rear` of the ring are events. With these the types are kept (`TypesKept`).

**Screen** (`ScreenProofs`). `ScreenShowsCurrent` speaks of moments when nobody writes; `Drawn` says what holds in between: unless a text was put and its drawing has
not begun, each cell of the current terminal that a drawing task has passed is shown as it is. With it `ScreenInv` has the types,
`Places` (what each task can be doing; `tty_task` is at the current terminal unless it switches), `Holds` (who puts a text or draws
has the lock, so that one task draws a terminal at a time) and `AllMarked`. A switch makes `Drawn` true of another terminal at a blow, since the write of nothing that
has to follow is pending. The characters are lemmas: `LineStart` is the arithmetic of lines and columns, `ScrolledKeeps` and `PutcKeeps` that cursors stay on the
screen, `CharacterMarks` and `Takes` what the theorems `MarksEnough` and `EchoErased` say of every terminal of every size. Theorem `Shows` is `ScreenShowsCurrent`.

**Key-value store** (`KvdbProofs`). `KvInv` is `TypeOK` and

- `Calling`: where a thread can be in each call; `Turns`: the threads of a process take turns under the mutex, and
  `kvdb_open` and `kvdb_close` are alone; `Flocks`: processes take turns under `flock`;
- `Buffers`: a process that has looked at the end of the file has nothing left to write;
- `FileSound`: torn ends are behind all records; there is none as long as a thread is between `check_journal` and its unlock (even in
  `kvdb_get`, without any lock for a moment) or a process has a record to write, and that record's place is no further than the end;
- `Creation`: a file that is there is not created.

From it follow `TypeCorrect` and `Checked`, both for any number of processes, assuming (in the theorems) that the file was there
or that there is one process: a second process that creates the file may empty it, and a record is then
written beyond its end. For one process `OneFile` adds that the record goes to the file's very end and that what is synced
begins as the file does; then a write to the `FILE` is the moment a put takes effect, the flush and the cut change nothing, a crash leaves a
beginning: theorem `Implements`, the refinement of `KvAbs`.

**Coroutines** (second part of `StackProofs`). `CoInv` is types, `JumpsLand`, `HandleIsChild` and

- `Leaving`: between choosing `cur` and the jump, the coroutine that leaves is inside `co_yield`, its `env` not yet its own; `JumpsLand` speaks of all others;
- `Untouched`: a slot not used yet has no history;
- `Started`: whom each coroutine made, no two the same, none larger than `co_num`, and somebody made the last.

`Switch` is the step that matters: it saves the innermost frame for the one that leaves, over what `co_wait` had put into `env`, and jumps to what `JumpsLand` says of the
one that was chosen, the leaving one itself if it was. `Return` makes `env` useless, and the coroutine that has returned is the runner, of whom nothing is said
until its next `setjmp`. What `co_start` returns, `co_num`, is the caller's own coroutine or that of another one, made later: theorem `HandleRight`.

**Task table** (first part of `StackProofs`). `TableInv`: a task that lives, or that a call is inserting, has a stack of its own and,
once inserted, the slot its id says; two calls are about different tasks. `Counted` says what `cnt_tasks` is: the slots in use. The
overflow by two creators is a fact of the code, so `TableIsExact` and `TypesKept` assume `RoomForAll`: one creator, or as many slots
as tasks. `SchedInv` is the scheduler's part, as in `KmtProofs` but over a table that changes under it: a task that a processor has
as current or left last is marked, marked for one processor, and created. It does not mind if that task is torn down meanwhile: `run` stays as it is, and no
processor takes a task that is marked. From both follows `StacksOwned`, with no hypothesis but the guard `Unused` of `Create`.

**Lines of a terminal** (last part of `TerminalProofs`). `LinesInv` adds three things to the invariant of the terminals: `cooked` with a reader
past `sem_wait` is the number of ends of line between `front` and `rear` (`LineCount`, as a cardinality, with lemmas for one slot more and
less); no event that waits is the character 0 (`NoNulTyped`); the slot before `front` ends a line (`Closed`), so that a backspace takes nothing
back from an empty queue. Theorem `LinesAreCounted` assumes `ReturnUnshifted`, as the run `terminal` does: with a shift key held, RETURN types
the character 0, a line that `cooked` does not count.

**Files** (`FilesProofs`). The theorems are about `CarefulSpec`, for every number of tasks, inodes, blocks and descriptors. The invariants `MapsAsserted`, `MapsExact`, `LinksCounted`,
`DirectoriesNest` are inductive only together with what is on the pages of the directories and with what the tasks inside calls have read. `FilesInv` is

- `DiskInv`: `Typed`, `Named`, `MapsExact`, `LinksCounted`, and
  - `Paged`: the block of a directory has the dots first, then entries behind names; live ones have different names;
  - `Shaped`: the root is a directory and nobody's entry; whatever has an entry is in the root or in a directory that is in the root;
    a directory has one name, and its second entry is its father;
  - `Sized`: a file's size is within its blocks;
- `Copied`: an offset is within the size that the descriptor knows, so that a write that needs a block is at the file's end and the
  longer file does get into the table (`WithinBlocks`, `TextWritten`);
- `Locked`: who has `lock_vfs` is inside open; at most one task is inside a call; and what it has read on its way in, the copies of inodes, the free numbers,
  that the name is or is not there, *is still so* (`Inside`, with one clause for each place in a call);
- `MapsAsserted`.

`Careful` is what keeps `Inside`, and nothing else needs it. Opens that wait for each other need no care: for them `lock_vfs` does it.

The proof has two layers. What a call does to the tree is one of three lemmas: a name more (`AddedTree`, `AddedName`), a name less
(`RemovedTree`, `LessName`; `RemovedEntry` says that the entry that goes is a live one of that inode, the first of them), the same names (`SameTree`); what it does to DMAP is `BlocksMore`,
`BlocksLess` or `BlocksSame`. On these rest
`Created` (open with `O_CREAT`, `mkdir`), `NameMade` (`link`), `NameRemoved` (`rmdir`, `unlink`) and `TextWritten` (`write`), each for a disk
that satisfies `DiskInv`; then, for each action, one lemma that it keeps `FilesInv` (names in `Keeps`), and those that read (`LookKeeps` and the like) that what they read is so.

**The text of files** (second part of `FilesProofs`). `Filled` is added to `FilesInv`: the blocks of a file are all different, every one but the last is full, and
the last has what is left of the size.

`Text` says character by character where a file's text is (`At` the block, `Place` in it); `Places` and `SamePlace` are the arithmetic
of that. `WriteText` is the heart of it: after a write the file is filled again, and its text is the old one with the new
characters over it, also when the write takes a block or fills one up. It needs that a file with an offset at the end of its blocks is exactly as long as
they are (`FilledWhere`). `AllFilesKept` and `FilesKept` say that no other file's text changes, because no block is shared (`MapsExact`). Each action is then a step of
`FilesAbs` or none (`MadeIs`, `RemovedIs` and the lemmas whose names end in `Is` after an action's), which gives the theorem `TreeImplemented`: the path that
a call was given leads to the node it acts on because what the call has read is still so; and
`ReadIs`, what `ext2_inode_read` copies out of the last block, gives `ReadsGiveBack`. A read that begins in an earlier block takes too
much of the last one and is outside both the property and the theorem.

**Only model-checked**: `ImplementsTerminal` (the contents of a queue is a sorted set, defined by recursion, about which there is no
induction here); all liveness
(temporal properties under fairness are out of the prover's reach); that there is no deadlock (so is `ENABLED`).

## What the models assume

- The build: `DEBUG` and `CORRECTNESS_FIRST` off, so that the kernel's `Assert` and `Panic` macros vanish while the
  C library's `assert` and the calls of `panic` stay. A failed `assert` disables the action, but those of `write_map`, which `asserted` records; a `panic` that
  can happen (full ring, full queue) halts the model.
- Traps and the return from them are `irq_handle` of the abstract machine (`am/src/x86/qemu/cte.c`); `_yield`, the number of processors and the keyboard are
  modelled from how the kernel uses them. The keyboard controller raises its line again after a read that leaves a byte. Exceptions do not happen: the early return of `os_trap`
  for `_EVENT_ERROR` (`os.c:51-59`) is left out.
- `Kmt`: `tasks[]` is as `dev_init` left it, `handlers[]` is sorted (three handlers in a fortunate order);
  a semaphore lies in fresh memory. A sleeper's list node is got from `pmm` and not checked for `NULL` (`kmt.c:190-191`); here there is memory for it.
- `Pmm`: callers free what they hold, once; `size + BIAS` does not wrap.
- `Tty`: a fresh queue holds zeros; what is drawn is in `Screen`; the reader's buffer is as long as a line.
- `Screen`: colours are constant and left out; a character's width and height are one cell; nobody writes to the frame buffer but the terminals. `fb_sem`
  is a cell's being one step; the waits inside `fb_write` are not steps, and a writer still in its first `sem_wait` has not begun.
- `TaskTable`: nobody sleeps; there is one creator, and it creates a `task_t` once (`Unused`).
- `Co`: there is room in the table; a function calls the library as its handle allows; what the compiler keeps on a stack between two
  calls is not looked at.
- `Files`: names are longer than a character (`vfs_rmdir` refuses paths of length one); a path has one or two names below the mount
  point; a directory keeps to its first block; a write stays in one block, `ext2_inode_write` being wrong beyond; callers do what the guards marked
  `caller` say, and in `CarefulSpec` what `Careful` says. The device is not full, or the call is not made. A call's reads are one step and its writes are one: the many device reads and writes inside each are
  not interleaved further, which is enough to see overlapping calls fail, and for careful callers nobody is there to see the difference. `ext2_dir_lookup` returns `cur->inode` after it has given `cur`
  back (`ext2.c:204-206`): another processor that allocates in between may change it, which is not modelled. `rm` goes by the number of the inode (`ext2.c:216`): of two names of a file
  in one directory the first goes, whichever was asked for, and `FilesAbs` leaves open which.
- `Kvdb`: keys and values without blanks, records of one length, `flock` and pthread calls do not
  fail, a `FILE` sees the file as it is after a seek to its end. One thread opens and closes. A power failure
  loses any part of what was not synced at the end of the file, possibly inside a record. A process is killed while it is up, not inside `kvdb_open`; `fopen` does not
  fail; the flush at a normal exit is left out.

## What is not modelled

- **`os_on_irq`**, which is called three times while the kernel starts, on one processor.
- **Mount table and `access`**: the mount table is filled once by `vfs_init`; nobody calls `access`.
- The colours and the glyphs of what is drawn; textures of the frame buffer, the ramdisk and the device table, which copy memory or are
  set up once; **devfs, procfs**, which only read.
- The shell, `crepl`, `frecov`, `sperf`, `pstree`, the game and the demos are sequential programs over text or
  pixels: their correctness is in parsing and drawing, which these specifications abstract from.
- **`abstract-machine/`** is given code: but for `irq_handle`, the platform, vendored libraries (imgui, fixmath, stb) and sample applications with their
  data tables. It is most of the repository's lines, and none of the course work's own logic.

## Plan

Done, in this order: spinlocks; scheduler and semaphores, with proofs; allocator, with proofs; key-value
store; keyboard and terminals; virtual file system and ext2; proofs about spinlocks, keyboard, terminals and
key-value store; the screen and coroutines, with proofs; task table, with proofs; proofs about the file system, its text and tree of names, and the lines of a terminal.

Left, most important first:

1. **`ImplementsTerminal`** for queues of every size.
2. **`Tty` and `Screen` together**: the echo of a line is the line that is read.
3. **Files across blocks**, once `ext2_inode_write` advances its offset.
4. **Single device accesses** inside a call of the file system, once its calls take a lock and overlapping ones mean something.
