# Pintos: models, model checking and proofs

This directory holds TLA+ modules that model the Pintos kernel under
`src/pintos/src` (paths below are relative to it), TLC configurations that
check them on small instances, and TLAPS proofs of the most important facts
for every instance.  The repository also contains a vendored copy of the Bochs
emulator; it is the machine the kernel runs on and is not modelled.

## 1. Inventory

The kernel runs on one processor.  Code that disables interrupts is atomic;
everything else can be preempted by the timer.  Interrupt handlers run on the
stack of the interrupted thread, never sleep, and share state with threads
only through interrupt-disabled sections.  There is no global kernel lock and
no file system lock.

| component | state | operations | interacts with | hard behaviour |
|---|---|---|---|---|
| scheduler (`threads/thread.c`) | `status`, `ready_list`, `all_list`, `thread_ticks`, one struct thread per page | create, block, unblock, yield, exit, tick, schedule | called by every sleeping primitive; timer interrupt; page allocator | preemption anywhere interrupts are on; a page freed while its thread still runs on it; `elem` shared by run queue and waiters |
| semaphores, locks, condition variables (`threads/synch.c`) | `value`, `waiters`, `holder` | down, try_down, up; acquire, try_acquire, release; wait, signal, broadcast | block and unblock threads | lost wakeups, stolen wakeups, holder set outside the atomic part, Mesa semantics |
| interrupt framework (`threads/interrupt.c`) | interrupt level, `in_external_intr`, `yield_on_return`, handler tables | enable, disable, register, dispatch | devices, scheduler | deferred yield, no nested external interrupts |
| page allocator (`threads/palloc.c`) | two bitmaps, one lock per pool | get_multiple, free_multiple | `malloc`, threads, page tables, processes | free without the lock against a scan with it |
| block allocator (`threads/malloc.c`) | descriptors with free lists, arenas | malloc, calloc, realloc, free | page allocator, per-descriptor lock | arena returned while one of its blocks is on the free list; size arithmetic |
| interrupt queue, keyboard, serial port, input (`devices/intq.c`, `kbd.c`, `serial.c`, `input.c`) | ring buffer, `not_full`, `not_empty` waiter slots, lock; shift state; UART mode | getc, putc, interrupt handlers | single waiter slots filled by threads and emptied by interrupts | two readers, wakeup between test and sleep |
| timer (`devices/timer.c`) | `ticks`, `loops_per_tick` | sleep, interrupt, calibrate | scheduler | busy waiting, 64-bit counter read with interrupts off |
| disk driver (`devices/ide.c`), block layer (`block.c`, `partition.c`) | per-channel lock, `expecting_interrupt`, `completion_wait` | read, write, interrupt | file system, semaphores | interrupt before, during and after the wait; spurious interrupts |
| processes (`userprog/process.c`) | parent, `child_list`, `load_program`, `exit_program`, `load_status`, `exit_status` | execute, start, wait, exit, load, argument passing | semaphores, scheduler, file system, page tables | parent and child race to set and read status; failure paths |
| system calls and descriptors (`userprog/syscall.c`, `process.c`) | `file_desc`, `file_desc_size`, file positions | exec, wait, open, read, write, seek, tell, close... | file system, input queue, processes | full table, descriptors never reused, argument fetch |
| exceptions (`userprog/exception.c`), page tables (`pagedir.c`), GDT, TSS | page directory, CR3 | page fault, kill, map, unmap, activate | processes | fault in the kernel versus in user code; stale translations |
| file system (`filesys/*.c`) | open inode list, inodes, free map and its file, directory entries, file positions | create, open, read, write, remove, deny write | block layer, malloc | no lock: two threads interleave at every disk access; deferred removal; crash between two disk writes |
| kernel library (`lib/kernel/*.c`) | list, bitmap and hash table data | insert, remove, sort; set, scan, flip; insert, delete, rehash | everywhere | list surgery under preemption; boundary indices |
| C library (`lib/string.c`, `stdlib.c`, `arithmetic.c`) | caller's memory; `save_ptr` | copy, concatenate, tokenize; sort, search; 64-bit division | everywhere | overlap, truncation, a division that traps |
| archives (`filesys/fsutil.c`, `lib/ustar.c`) | positions on the scratch device, kept over calls but not over boots | extract, append | block layer, file system | panic or power failure half way |
| display, clock (`devices/vga.c`, `rtc.c`) | frame buffer and cursor; clock registers | putc; get time | console, interrupts | output from handlers during a beep; a clock that goes on while it is read |
| console (`lib/kernel/console.c`) | console lock and recursion depth | putbuf, printf | serial port, vga | printf from interrupt handlers and inside panics |
| startup and shutdown (`threads/init.c`, `devices/shutdown.c`) | options | main, run actions, power off | all | order of initialisation |

### What makes each component correct

- Scheduler: each thread is in exactly the queue its status says; exactly one
  runs; every ready thread runs again; a page is freed only after its thread
  was switched away from for good.
- Semaphores and locks: they implement counting semaphores and single-owner
  locks; no wakeup is lost.  Condition variables: every signal wakes a thread
  that waited before it, waiting and releasing the lock is atomic with respect
  to signals.
- Interrupt queue: bytes come out in the order they went in, none is lost
  while the queue is not full, a sleeping thread is woken.
- Page and block allocators: no page or block is given out twice, freed memory
  can be allocated again, an arena is returned only when wholly free.
- Disk: a completed command belongs to the thread that issued it.
- Processes: exec returns what loading the program came to, wait returns the
  exit status of the child once, resources of an ended child are freed.
- File system: one inode per sector in memory, no sector in two files, no
  sector both free and used, after a crash at most unreferenced sectors.
- Descriptors: one descriptor names one open file for its whole life.
- Address spaces: the processor never uses a page table or a frame that was
  freed; every page of a process is freed once.
- Interrupts, clocks, console: no interrupt line is left masked, a value made
  of several reads belongs to one moment, output of threads is not mixed.
- Libraries and loader: what callers rely on, at the limits of the types too.

## 2. How the model is built

The source is translated function by function.  Three rules fix the grain of
the actions:

- code with interrupts off is one action, and so is an interrupt handler;
- code with interrupts on is cut wherever another thread, a handler or a device
  can see or change what it uses: at each access to shared state that is not
  under a lock;
- code under a lock whose lock another module has been checked to exclude (block
  allocator, disk channel) is one action where no device takes part in it.

A struct thread lives at the bottom of its page and is freed and used again
with it.  Threads and processes are therefore named by their page, so that a
stale pointer is visible as a name that means another thread.

### Modules

| module | models | state | actions |
|---|---|---|---|
| `Threads` | `threads/thread.c`, `threads/synch.c`, reaping in `process.c` | `status`, `current`, `ready_list`, `thread_ticks`; `value`, `waiters`, `holder`; `child_list`; `pc`, `arg`: where each thread is in the kernel function it executes | `Yield`, `TimerTick` (handler and the yield on return), `IdleBlock`, `SemaDown`, `Resume` (after sleeping), `SemaTryDown`, `SemaUp`, `LockAcquire`, `LockTryAcquire`, `SetHolder`, `LockRelease`, `LockReleaseUp`, `ThreadCreate`, `ThreadCreateUnblock`, `KernelThread`, `ThreadExit`, `ProcessWait`, `Reap` |
| `SyncSpec` | what semaphores and locks promise | units, requests, owners | `Request`, `Grant`, `Up`, `Release`, `Renew` |
| `IntQueue` | `devices/intq.c` | the ring (`buf`, `head`, `tail`), the slots `not_empty` and `not_full`, the lock, where each thread sleeps | `Enter`, `LockWoken`, `WaitWoken`, `InterruptPut`, `InterruptGet` |
| `Fifo` | what an interrupt queue promises | `queue` | `Put`, `Get` |
| `Serial` | `devices/serial.c`, `devices/input.c`, the handler of `kbd.c` | mode, transmit queue, fill of the input buffer, interrupt enable register, the UART | `serial_init_queue`, `PutcPolling`, `Putc`, `PutcWoken`, `PutcInterruptsOff`, `serial_flush`, `Getc`, `GetcWoken`, `Key`, `SerialInterrupt`; `UartSends`, `UartReceives` for the device |
| `Ide` | `devices/ide.c` | lock, `expecting_interrupt`, `completion_wait`; the controller's status, command, interrupt line; the disk | `Call`, `LockAcquire`, `Issue`, `Complete`, `ReadSector`, `WriteSector`, `LockRelease`, `InterruptHandler`; `Ready`, `Store`, `SpuriousInterrupt` for the device |
| `BlockDevice` | what a disk promises to the block layer | content, calls not yet in effect | `Begin`, `Serve`, `End` |
| `Palloc` | `threads/palloc.c` with the bitmap | `used_map`, the pool's lock, who owns which page | `Get`, `Scan`, `ScanFails`, `ScanFinds`, `Flip`, `GetReturns`, `Free`, `Clear`, `FreeReturns`: one bit at a time |
| `Malloc` | `threads/malloc.c` | free pages, arenas, free lists, blocks in use | `MallocBlock`, `MallocArena`, `MallocBig`, `Free`, `FreeBig` |
| `Process` | `exec`, `wait`, `exit` of `userprog/syscall.c` and `userprog/process.c` | parent, `child_list`, the semaphores `load_program` and `exit_program`, `load_status` | `RunTask`, `Exec`, `ExecDown`, `ExecReturn`, `Load`, `EnterUser`, `Exit`, `Wait`, `WaitReturn` |
| `FileSys` | `filesys/*.c` with the descriptor tables of `process.c` | on disk: inodes, directory, free map; in memory: open inodes, descriptors; the call in progress | `Create`, `AllocateData`, `WriteInode`, `WriteZeros`, `DirAdd`, `Open`, `Write`, `RemoveFile`, `Close`, `Exit`, `InodeClose`, `ReleaseNext`, `Crash` |
| `SharedFiles` | the calls of `FileSys` when they overlap, without data | free map, inode sectors, directory entries, `open_inodes`, inodes; of each thread the file and the root directory's inode that it has open and its call | `Create`, `Open`, `RemoveFile`, `Close` begin a call; `Enter`, `Walk`, `Reopen`, `Push`, `Read` (`inode_open()`), `Lookup`, `Scan`, `Flip`, `WriteInode`, `Add`, `Undo`, `ReadEntries`, `WriteEntries`, `Mark`, `Count`, `Unlist`, `Release`, `Free` (`inode_close()`) are its steps |
| `FileData` | `inode_read_at()`, `inode_write_at()`, file positions | bytes of a file, positions, transfers under way with their bounce buffers | `file_seek`, `Begin`, `ReadSector`, `ReadBounce`, `WriteSector`, `Return` |
| `Archive` | `filesys/fsutil.c`, `lib/ustar.c` | scratch device, files, the two positions, the file being copied | `PutArchive`, `Boot`, `PowerOff`; `fsutil_extract` and its sectors; `fsutil_append` and its sectors; panics |
| `Partitions` | `devices/partition.c`, sector checks of `block.c` | the table, activations of `read_partition_table()`, partitions found | `partition_scan`, `SkipEntry`, `Nest`, `FoundPartition`, `Return`, `Transfer` |
| `Monitor` | condition variables of `synch.c` | where each thread is, the lock's holder, the condition's waiters and their semaphores | `Acquire`, `Release`, `Wait`, `WaitRelease`, `WaitDown`, `WaitAcquire`, `Signal`, `Broadcast`, `BroadcastNext` |
| `Mesa` | what a condition variable promises | `owner`, `waiting`, `woken` | `Enter`, `Leave`, `Wait`, `Return`, `Wake` |
| `AllList` | `all_list` of `thread.c`, pointer by pointer | `prev`, `next`, what each page is | `Point`, `Link`, `LinkBack`, `Remove` |
| `Console` | `lib/kernel/console.c` | calls of printf per thread, lock holder, depth, `use_lock` | `Begin`, `End`, `Panic` |
| `Vga` | `devices/vga.c` | frame buffer, `cx`, `cy`, hardware cursor; as history the sheet that a printer would have printed | `vga_putc`, `Beep`, `BeepEnds` |
| `PageDir` | `pagedir.c`, `tss.c`, `process_activate()`, `process_exit()` | page directories, frames, CR3, cached translations, `esp0` | `Create`, `Activate`, `Install`, `EnterUser`, `Exit`, `ExitActivate`, `DestroyFrame`, `Destroy`, `Switch`; `Access` for the processor |
| `Interrupts` | `threads/interrupt.c` | interrupt flag, the common handler, requests and interrupts in service at the controllers | `Raise`, `Deliver`, `Spurious`, `intr_yield_on_return`, `EndOfInterrupt`, `Return`, `intr_set_level` |
| `Timer` | `timer_ticks()`, `timer_sleep()` | the counter, and each reader's half-read copy | `Tick`, `timer_sleep`, `ReadLow`, `ReadStart`, `ReadElapsed` |
| `Rtc` | `devices/rtc.c` | the clock, the registers read | `Advance`, `Read`, `Again`, `Return` |
| `Keyboard` | `devices/kbd.c` | keys held down, shift state, the last character | `Press`, `Release`, each with `keyboard_interrupt` |
| `Syscall` | `syscall_handler()`, `read()` from the keyboard, the stubs of `lib/user/syscall.c` | the user stack, the parameters, the buffer | `Invoke`, `syscall_handler`, `Read`, `ReadByte`, `ReadReturns` |
| `Limits` | arithmetic at the limits of its types: sizes in `malloc.c`, `lib/arithmetic.c`, `argument_stack()`, `validate_segment()`, `load_segment()` | a call and its result | one per call |
| `Containers` | `lib/kernel/list.c`, `hash.c`, `bitmap.c` | the container chosen at first: a list in the middle of its sort, buckets, or words of bits and their file | one per operation or round of a loop |
| `Library` | `lib/stdlib.c`, `string.c` | an array in the middle of its sort, a key that is looked for, or a small memory | one per call or round of a loop |

`ThreadsProof`, `PallocProof`, `ProcessProof`, `FileSysProof`, `IdeProof`,
`IntQueueProof`, `SerialProof` and `ServicesProof` hold the theorems (section 4);
each extends the module it is about.

A configuration file names the module itself and gives its constants model
values.  The symmetries are `Pages` of `Threads` (created threads; not used for
liveness) and `Symmetry` of `FileSys` (names and processes).  `MCFileSys`,
`MCPromises`, `Services` and `MCServices` are described below.

Some definitions, next to the one they vary and with a comment that begins with
"Mutant", are not part of the model: each is a plausible bug in the code that
makes one of the properties false.  `PROJECT.json` lists one of them for each
property of each run; where a property has several parts the others break the
other parts.

### How the modules fit together

`Threads` implements `SyncSpec`, so the modules above it use its semaphores and
locks as counters and owners: `Process` for `load_program` and `exit_program`,
`Ide` for the channel's lock and `completion_wait`, `Palloc` for the pool's
lock.  `IntQueue` implements `Fifo`, so `Serial` uses bounded sequences and
counters for its two queues.  `Ide` implements `BlockDevice`, so `FileSys`
takes a disk access as one step.  `Palloc` gives groups of pages to one owner
each, so `Malloc` takes its pages from a set.  `Monitor` stands on the locks and
semaphores of `SyncSpec` and implements `Mesa`.

`Services` holds `Malloc` and one instance of each module that stands alone and
whose invariants are proved: `Monitor`, `Console`, `PageDir`, `Interrupts`,
`Timer`, `Rtc`, `Keyboard`, `Vga`, `AllList` and `FileData`, with their
parameters as constants.
`MCServices` extends it with `Syscall`, `Partitions`, `Archive`, `Containers`,
`Library` and `Limits`, for which it fixes the parameters.  A step of `MCServices` is a step of `Services` or leaves its
variables alone, so that what is proved of `ServicesSpec` holds of its runs.
The modules share no state in the kernel either, so that a product of them would show
nothing: the variable `part`, chosen in the initial state, says which one runs,
and each property is the conjunction of those of related modules.  A module that
does not run stays in its initial state, in which its properties hold.  The
interleavings that matter are those of threads, handlers and devices inside one
module.

`MCFileSys` puts `FileSys` and `SharedFiles` side by side in the same way.
`MCPromises` lets modules run one after the other, each until it has broken what
a comment promises of its code; its view of a state leaves out how those before it
did.

## 3. What the runs check

| run | instance | what it shows |
|---|---|---|
| `threads` | initial thread, idle thread, two pages for other threads; one semaphore up to 2, one lock, two ticks per slice | under every preemption and every order of calls the queues hold exactly the threads they should, locks exclude, no wakeup is lost, a page is freed only when nobody uses it, and the primitives implement `SyncSpec` |
| `threads_live` | the same without the semaphore | every ready thread runs again; a parent waiting for a child that exits gets past its wait |
| `intq` | buffer of 4, one reader, one writer or two readers | the ring is a FIFO of 3 bytes, no sleeper is forgotten, a waiter returns, the assertion in `wait()` holds for a single user of an end |
| `intq_two_readers` | two readers | the assertion in `wait()` fails (see findings) |
| `serial` | queues of 3, bytes numbered modulo 6 | bytes leave in order, once, all of them, by interrupt and by polling; the interrupt enable register never stalls input or output |
| `ide` | two threads, two sectors, two values | a channel is an atomic block device; no completion is mistaken for another |
| `palloc` | three threads, three pages | no page has two owners, the bitmap is exact, the assertion on freeing holds, a request fails only for lack of pages |
| `process` | initial thread and three processes, every program loads | a child signals the parent that waits for it, signals are not mixed up, child lists name existing processes, exec and wait return |
| `process_load_fails` | two processes, loading may fail | the kernel panics (see findings) |
| `filesys` | `FileSys` with 4 sectors, 2 names, 2 processes, 2 directory entries; or `SharedFiles` with 2 threads, 2 names, 2 sectors, 2 directory entries, 3 inodes in memory | calls one at a time: the disk is sound between any two writes, removed files last until their last close, open counts are exact, sectors are lost only in known ways; calls that overlap at every access: names, inodes, counts and the free map stay sound (`FilesStaySound`), if those that create or remove, those that remove what another opens, and uses of the list of open inodes are kept apart |
| `services` | one of 17 parts, see below | the eleven properties of the next table |
| `promises` | small instances of `Syscall` (twice), `Partitions`, `Archive`, `Library`, `Limits` and `SharedFiles` | seven comments promise something that the code does not do (see findings) |

| property of `services` | modules | what it shows |
|---|---|---|
| `BlocksAreSound` | `Malloc` | no block is handed out twice, arenas go back when empty and leave nothing on the free list, no page is lost |
| `BlocksFit` | `Limits` | blocks are big enough and not too big for all arguments that do not wrap around |
| `ImplementsMesa` | `Monitor`, `Mesa` | waiting and releasing the lock is one step to those who signal; each signal wakes one thread that waited before it |
| `OutputIsNotMixed` | `Console`, `Vga` | the console lock, its depth and who prints agree for nested calls and after a panic; the display and its cursor show what was printed |
| `ListSurvives` | `AllList` | preemption inside `list_insert()` damages the list of all threads in two cases only |
| `AddressSpacesAreOwn` | `PageDir` | wherever the timer strikes in `process_exit()`, no freed page table or frame is used, and each page has one owner that will free it |
| `InterruptsAreServed` | `Interrupts`, `Keyboard` | both controllers are acknowledged before a handler yields; characters follow the keys that are held |
| `ClocksAreRead` | `Timer`, `Rtc` | nobody sleeps too short for a tick between two reads; the time read is one moment's |
| `TransfersAreExact` | `FileData` | a write changes the bytes of the file in the range asked for and no others, beside writers of other sectors too; reads and writes return their number |
| `LibraryIsRight` | `Containers`, `Library`, `Limits` | sorts sort, the list's stably; a table is a map while it grows, shrinks and fails to; bits do not disturb their word; strings are cut where they must; 64-bit quotients are exact |
| `InputsAreTaken` | `Syscall`, `Partitions`, `Archive`, `Limits` | bytes from the keyboard stay inside the buffer and in order; partitions lie on their disk; an extraction that ends is whole and happens once; arguments and segments are where a program expects them, up to the widths of the types |

The properties that the runs name are conjunctions where facts belong together:
`CommandsAreMatched` of `Ide` (`CompletionsMatch`, `WriteAcknowledged`),
`LoadHandshake` (`ParentAwaitsLoad`, `LoadSignalsMatch`, `KnownAreLoaded`) and
`CallersReturn` (`ExecReturns`, `WaitReturns`) of `Process`, `EveryByteIsServed`
of `Serial` (both directions), `OpenFilesAreSound` of `FileSys`
(`OpenFilesKeepSectors`, `CountsAreExact`).

### Bounds

Named bounds of the models: `MaxValue` (value of a counting semaphore),
`MaxTasks` (tasks of the command line), `MaxPending` (ups of `completion_wait`
nobody has downed), `MaxArgument` (arguments of `calloc`), `MaxLength` (sectors
of a file), `MaxLost` (files opened without a descriptor), `MaxObject` (inodes in
memory), and in the parts of `services` `MaxNested` (nested printf),
`MaxTicks`, `MaxSleep`, `MaxTransfer`, `MaxSize`, `MaxFrame` (words on the user stack),
`MaxLength` and `MaxCount` (elements to sort, arguments), `MaxDepth` (nested
partition tables), `MaxEntries` (files of an archive), `MaxRows` and
`MaxBeeps`, `MaxBits`; the rest are sizes of constants.  They are enough to reach what the properties are about:

- a semaphore that reaches 2 can be upped twice before the first thread it woke
  runs;
- two created threads let one sleep and one steal its wakeup, a child page be
  reused while the parent still runs, and two threads queue behind a lock; two
  ticks per slice let a thread be preempted and also run on;
- a ring of four slots wraps around, fills and empties with a waiter in its slot;
- three threads on three pages have one scan pass over a group while another
  thread frees it and a third waits for the lock;
- arenas of 2 and 3 blocks on 3 pages have blocks of one arena taken and freed
  in every order beside a second arena and a big block of two pages;
- 9 bits of `size_t` hold several pages of 64 bytes and every path of the
  arithmetic; `malloc` is tried with every size there is;
- three processes let a child have children of its own and a page be used again;
- four sectors hold two small files or one large one: allocation fails, a
  directory of two entries fills, one inode is opened by both processes and
  removed, a descriptor table of one fills;
- two threads that overlap in the file system, with two names, two sectors and
  three inodes (one of them the root directory's), can meet at every step of
  every pair of calls; what three calls at a time do to each other is not
  covered;
- three threads let a signal come between the steps of a waiter while a third
  waits, and let the list of all threads have a neighbour on both sides;
- words of a few bits (`W`, `SW`, `OW`, `AW`, `Word`, `TickWord`) wrap around within the numbers
  that are tried, and all numbers of that width are;
- five elements have several runs to merge and a heap of three levels; five
  keys make a table grow, shrink and fail to; three bits have a last word that
  is half used;
- a memory of five characters holds two strings of which one does not fit, and
  every overlap; a scratch device of four sectors is full after two files;
- a display of two rows of four columns scrolls, wraps and has two tab stops.

`CHECK_DEADLOCK FALSE` is given where the system stops: after a kernel panic
(`intq`; there a thread may also wait for a byte that never comes), when all
tasks are done or a caller of exec hangs (`process`, `process_load_fails`), and
in `services` and `promises`, whose parts end with a single call or at a bound.

### Fairness

- `Threads`: a tick does not come between any two instructions; the code of a
  kernel function takes far less than the 10 ms between ticks.  A thread that
  runs again and again gets past its current step: strong fairness of each
  thread's `Completion` and of the tick.  No thread is ever required to make a
  call, to release a lock or to exit.
- `IntQueue`, `Serial`, `Ide`, `Process`: a thread that can go on does so (weak
  fairness), which is `ReadyRuns` of `Threads`.  Devices finish what they
  started and their interrupts are taken.  Nobody has to call, type, send or
  exit, and a user program may run for ever.
- Liveness is stated only for what has begun: a waiter whose condition is true,
  a byte in the queue, a lock that is held, a child that has ended.

## 4. What is proved

The theorems hold for every value of the constants: any number of threads,
semaphores, pages, descriptors, sectors, any size of queue, word or display.
What they assume of the constants are the named assumptions of the modules:
names of different things differ, `NULL` is none of them, sizes that the code
divides by or indexes with are not zero, and in `ThreadsAssumption`,
`FileSysAssumption` and `ListAssumption` (of `Services`, for `AllList`) that
threads, processes and, in `FileSys`, sectors are finitely many, so that they can
be counted.  TLC evaluates each of them on the runs.  In each proof
`IInv` (`FInv` in `FileSysProof`; in `ServicesProof` `MonInv`, `ConInv` and so
on, one for each module) is the inductive invariant; there is one lemma for each
action, and the theorems at the end follow from the invariant.

| theorem | states | for every |
|---|---|---|
| `ThreadsProof`: `TypeCorrectness`, `QueuesAreExact`, `LocksExclude`, `ReapingIsSafe`, `WakeupsAreNotLost` | `TypeOK`, `QueuesExact`, `MutualExclusion`, `ReapSafe`, `NoLostWakeup` | set of threads, semaphores, locks; value; slice |
| `ThreadsProof`: `SyncIsImplemented` | `ImplementsSync` | the same |
| `PallocProof`: `PagesAreNotShared`, `BitmapIsExact`, `FreedPagesAreUsed`, `FailuresAreHonest` | `NoSharing`, `UsedIsOwned`, `FreesUsedPages`, `FailsOnlyWhenFull` | size of pool, set of threads |
| `ProcessProof`: `ParentAndChildAgree`, `ChildrenAreExact` | `LoadHandshake`, `ChildListsExact` | set of pages, number of tasks, outcome of each load |
| `IdeProof`: `CompletionsAreMatched`, `DriverIsBlockDevice` | `CommandsAreMatched`, `ImplementsBlockDevice` | threads, sectors, data |
| `IntQueueProof`: `AloneIsSafe`, `NobodyIsForgotten`, `RingIsFifo` | `OneUserNeverPanics`, `SleepersAreWoken`, `ImplementsFifo` | size of buffer, set of users, bytes |
| `SerialProof`: `OutputIsInOrder`, `UartIsArmed` | `SentInOrder`, `InterruptsArmed` | sizes of the queues |
| `FileSysProof`: `DiskStaysSound`, `OpenFilesStaySound`, `LeaksAreKnown` | `DiskIsSound`, `OpenFilesAreSound`, `OnlyKnownLeaks` | disk, directory, set of names and processes, length of file |
| `ServicesProof`: `BlocksAreTheirOwners`, `WaitIsAtomic`, `HolderPrints`, `SpacesAreOwn`, `InterruptsServed`, `ReadsAreOneMoment` | `BlocksAreSound`, `ImplementsMesa`, `OutputIsNotMixed`, `AddressSpacesAreOwn`, `InterruptsAreServed`, `ClocksAreRead` | threads, pages, descriptors, lines, words, display |
| `ServicesProof`: `ListIsKept` | `ListSurvives` | finite set of threads |
| `ServicesProof`: `TransfersStayExact` | `TransfersAreExact` | size of a sector, length of the file, set of threads |

**Threads.**  None of the properties is inductive by itself.  That the run queue
stays free of duplicates needs that a thread put on it was on no list, hence
`OneRunning`, the exact waiters lists and the agreement of `status` with `pc`
(`PcOK`).  That a lock has one owner needs that its semaphore is 0 exactly while
a thread is between the atomic parts of acquire and release, and that a thread
there is not also recorded as holder.  That a freed page is unused needs the
family facts (`FamilyOK`): a thread is in one child list, only its parent downs
its `exit_program`, and that semaphore is up only when the thread has ended.
`NoLostWakeup` compares a semaphore's value with the number of threads that were
woken and have not run yet; its proof counts them, step by step (`WakeupDown`,
`WakeupUp`), over the invariant of the others.  `SyncIsImplemented` maps each
step of `IInv /\ [Next]_vars` to a step of `SyncSpec` or to none.

**Palloc.**  The scan holds the lock, but pages are freed without it.  The
invariant says what survives that: bits tested free stay free, because only the
holder of the lock sets bits; groups passed over had a page that was in use when
the lock was taken; a thread clears only bits of pages it owns.

**Process.**  `IInv` has two cases, as the kernel panics where a program fails to
load: everybody is halted, or `Running` holds.  The handshake is inductive only
with the facts that whoever waits waits for a child of its own (`CallsOK`), that
a process knows only its own children (`KnownAreChildren`), so that a page which
`wait` frees is named by nobody else, and that `exit_program` is upped once.

**Ide.**  `HolderOK` says which thread has the channel, `CommandOK` whose command
the controller works on, and `SignalsOK` counts, as long as no spurious interrupt
has come, the one thing that says so: the interrupt line or a unit of
`completion_wait`.  The refinement does not need `SignalsOK`: the driver polls
the status, so that the channel is an atomic block device with spurious
interrupts too.

**IntQueue.**  The slots and the lock's list name exactly the threads that sleep
(`SlotsOK`, `WaitersOK`); a queue behind the lock has somebody ahead who is
awake or in `wait()` (`LockComes`).  The refinement to `Fifo` replaces `%` by one
subtraction (`Wrapped`) and shows the ring's content after each operation.

**Serial.**  What was sent, what is queued and what a caller still holds are
consecutive numbers, also when polling empties a full queue; that nothing is
queued while the port is polled makes it inductive.

**FileSys.**  `FInv` says of every moment between two writes to the disk what the
call in progress has got to (`CallIs`); that the files (in the directory or open)
and the call share no sector and all their sectors are marked (`Apart`); that
inodes in memory are copies, removed exactly if they have no entry (`CopiesOK`);
and that `open_cnt` is what descriptors, closes still to come and lost references
add up to (`CountsOK`).  `DiskIsSound` alone is not inductive: a create that will
add its entry must know that nobody else has the sectors, and a close that will
release sectors that no entry names them any more.  The lemma for a step also
shows that nothing is leaked by it, except by a crash and by a `dir_add()` that
fails: the directory is full, the name is there already, or it is none.  Descriptors are counted in sets of pairs (`HeldIn`), which is
why the number of processes is finite; an exit closes a subsequence of the
descriptors, for which `PickedIs` counts how often it has each inode.

**Malloc.**  `MalInv` is `BlocksAreSound` with its types.  The work is in the
lists: a free list without duplicates stays so when a block is pushed, popped,
or all blocks of an arena are taken out, and the last is a statement about a
subsequence.  The model therefore takes the members of the list that stay by
their rank (`Nth`, `Kept`), which needs no recursion, and `KeptIs` says what the
result is.  An arena goes back exactly when its last block is freed, which
`NthIs` and cardinalities of sets of blocks (`RoomForOne`) make exact.

**Monitor, Console, Vga.**  A waiter is in the condition's list or its semaphore
is up, never both, and the mapping to `Mesa` reads `waiting` and `woken` off that.
`ConInv` ties the lock's depth to the nested calls of its holder.  The display is
compared with the sheet of all that was printed: its rows are the last rows of
the sheet (`VgaInv`), for a display of any size.

**PageDir, Interrupts, Keyboard, Timer, Rtc.**  `DirInv` says for each place in
`process_exit()` which page directory the processor may use and who owns it.
`PicInv` ties the interrupts in service to the handler that runs.  The two words
of the tick counter are read with interrupts off, so that they are of one moment
(`TimInv`); the registers of the clock are of one moment since the seconds did not
change between the first and the last read (`ClkInv`).

**AllList.**  Nothing in the property says that there is a list: it walks the
pointers.  `AllInv` says that there is a sequence without repetition, from the
head to the tail, that the pointers follow (`Chain`): every `next` on it is
right, and every `prev` but that of the tail, which is behind while a new element
is linked and not linked back.  An element that is only pointed has the last of
the sequence for its predecessor, unless that one has exited, which is a race.
Linking inserts before the tail, an exit takes one out, and `WalkIs` shows that
a walk of as many steps as there are threads passes all of the sequence: it is
defined by recursion over numbers, and the smallest number at which it would
leave the sequence cannot exist (`LeastOf`).

**FileData.**  `DatInv` says that a transfer has not passed the end of the file
or of what was asked for (`TransferOK`), and that what a writer has read of its
sector is still on the disk (`BounceOK`), as long as nobody was about to write
the same sector.  A write by one thread leaves what another has read because two
sectors are the same or have no byte in common (`SectorsApart`, from quotients);
the number returned is the size of a set of bytes (`Transferred`).

**Only model-checked.**  Liveness, which the prover cannot state a proof of:
`ReadyRuns`, `WaitReturns`, `CallersReturn`, `CommandCompletes`, `WaiterReturns`,
`EveryByteIsServed`.  `FilesStaySound`, which the run checks for two threads.  What
a recursion over data computes: `LibraryIsRight` and
`InputsAreTaken`.  `BlocksFit`, which is about powers of two, of which the
provers know nothing.

## 5. What the checks found

Three runs end in a violation:

- `intq_two_readers`: `intq_getc()` tests the queue before `lock_acquire()`,
  which may sleep.  With two processes reading the keyboard the second one gets
  the lock after a byte has arrived, and the assertion of `wait()`
  (`devices/intq.c:91`) stops the kernel.
- `process_load_fails`: when `load()` fails, `start_process()` still calls
  `argument_stack()` with a stack pointer of 0 (`userprog/process.c:140`), a page
  fault in the kernel, where `tests/userprog/exec-missing.c` expects -1.
- `promises`: each of seven comments says what the code does not do, and a state
  in which all of them are broken is reached, against `SomePromiseIsKept`:
  - `ArgumentsArrive`: `esp` is a pointer to int, so that `esp += 4`
    (`userprog/syscall.c:53`) skips four words where the number takes one.  The
    function for the call gets what lies above the arguments
    (`lib/user/syscall.c:17`: "passing argument ARG0").
  - `ReadStoresWhatItReturns`: `read()` from the keyboard fills every second byte
    and returns twice the number of bytes it stored (`userprog/syscall.c:238`
    against the comment at 224).
  - `PartitionsAreDescribed`: `read_partition_table()` reads sector 0 for an
    extended partition too (`devices/partition.c:91`), so that it registers
    partitions that no table describes.  It also calls itself without end, which
    `MaxDepth` cuts off in the model.
  - `EndMarkIsThere`: `fsutil_append()` writes both halves of the end mark to one
    sector, the second from one byte past the start of the buffer
    (`filesys/fsutil.c:213`: "two consecutive sectors full of zeros").
  - `MoveReturnsDst`: `memmove()` to a lower address returns the end of the
    destination (`lib/string.c:21`: "Returns DST").  No caller uses it.
  - `RemaindersAreExact`: `umod64()` and `smod64()` return one word of the
    remainder (`lib/arithmetic.c:131` and 150).
  - `OpenedAreRead`: `inode_open()` puts an inode on the list before it has read it
    (`filesys/inode.c:135` and 140).  Every create, open and remove opens the root
    directory, so that calls on different files share its inode, and one of them
    goes on with an inode that holds nothing.

The following are excused by a property, which names what it excuses and
holds beside it:

- `exec` downs `load_program` also when no child was created and sleeps for
  ever (`userprog/syscall.c:346`): `ExecReturns` is about children that exist.
- The page of an ended process that nobody waits for is never freed: only
  `process_wait()` frees pages, against the comment at `threads/thread.c:309`.
  `WaitReturns` is about children that are waited for.
- `expecting_interrupt` is never cleared (`devices/ide.c:514`): after an
  interrupt nobody asked for, `ide_write()` returns before the disk has
  acknowledged the data.  `WriteAcknowledged` assumes there is none; that the
  channel is an atomic block device holds either way, as status is polled.
- `malloc` of a size within a page of the end of `size_t`, and `calloc` of some
  products that wrap around, return blocks that are too small: `Fits` in
  `Limits`.
- `filesys_create()` whose `dir_add()` fails (the name exists or is none, or the
  directory is full) does not free the data sectors it allocated
  (`filesys/filesys.c:54`), and a crash may lose sectors, never sound files:
  `OnlyKnownLeaks`, `DiskIsSound`.
- `open()` with a full descriptor table leaves the file open for ever
  (`userprog/process.c:655`): the variable `lost` of `FileSys`.
- Calls of the file system that overlap damage it in other ways than
  `OpenedAreRead` shows: two creators may get one sector or one name, two
  openers that miss the list make two inodes of one file, an inode may be freed
  while another thread takes it from the list.  `FilesStaySound` says what would
  have to be kept apart: one call at a time that creates or removes, no removal of
  a file that another opens, and one thread at a time on the list of open
  inodes and their counts.  Two files open for one inode have a lock each, so
  that writers of one sector undo each other (`filesys/inode.c:303`):
  `TransfersAreExact` excuses them.
- `all_list` breaks when two threads are created at a time, or when a thread
  exits that another has just taken for its neighbour (`threads/thread.c:496`):
  `ListSurvives` excuses them.
- The offsets of `argument_stack()` have 8 bits (`userprog/process.c:584`):
  the stack is right only up to the limits in `InputsAreTaken`.

## 6. What is not modelled, and the plan

`PROJECT.json` lists every component.  Left out for good: start-up code, GDT,
interrupt stubs, calibration of delays, formatting, user programs, tests, tools
and the Bochs emulator.  Left out of the modules there are: statistics, thread
names, tids and priorities (which the scheduler ignores) in `Threads`; time-outs
(`devices/ide.c:445`, where the driver prints a message and goes on as if the
device were ready, and a panic for a read that fails) and identification in
`Ide`; exit statuses in `Process`; `deny_write` (nothing in the kernel calls it)
and failing memory allocation in `FileSys`; pointers that user programs pass to
system calls, which nothing checks, so that a bad one is a page fault in the
kernel and the panic of `kill()`; the conversion of the clock's date.

Order of work, most important first; all but the last are done:

1. `Threads`, `SyncSpec`, `ThreadsProof`: all else stands on them.
2. `Palloc`, `PallocProof`: the one place where pages change hands without a lock.
3. `Malloc`, and the sizes of its blocks in `Limits`.
4. `IntQueue`, `Fifo`, then `Serial` on top of them.
5. `Ide`, `BlockDevice`.
6. `Process`.
7. `FileSys` with calls one at a time, descriptors and crashes.
8. Proofs of the invariants of 1 and 2.
9. `SharedFiles`: calls that overlap, at every disk access; `FileData`.
10. `Syscall`, `Limits`: argument fetch, the stack of a program, segments.
11. `Containers`, `Library` and the arithmetic of `Limits`.
12. `Monitor` with `Mesa`, `Console`, `AllList`, `Timer`, `Rtc`, `Keyboard`,
    `Interrupts`, `PageDir`, `Partitions`, `Archive`, `Vga`.
13. Proofs: `NoLostWakeup`; safety of `Process`; `Malloc`; the invariants of
    `IntQueue`, `Serial`, `Ide`, `FileSys`; the services of `Services`, with
    `AllList` and `FileData` last.
14. Refinement theorems: `Threads` implements `SyncSpec`, `IntQueue` implements
    `Fifo`, `Ide` implements `BlockDevice`, `Monitor` implements `Mesa`.
15. Left: proofs of what the recursions over data of the library, the loader and
    the partition scan compute, which needs the prover's induction over data;
    a proof of `FilesStaySound` under `ApartSpec`, for every number of threads.
