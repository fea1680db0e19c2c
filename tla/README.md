# A TLA+ verification of the aesd character driver and socket server

The repository is a Linux course project. Its core is a pipeline: TCP clients
send lines to a threaded **socket server**, which appends them to a
**character device**; the device driver collects bytes until they form a line
and keeps the last ten lines in a **circular buffer**; the server reads the
device back and sends the contents to the client. Around it are two small
examples (system calls, threading), a finder application and build scripts.

This project models the circular buffer and the driver in full, the server
twice (its threads, locks, list and signals; and its connection threads with the
bytes they move, on the driver itself), and both examples. TLC checks small
instances; TLAPS proves every invariant, every action property and both
refinements that the runs check for every instance; liveness stays with TLC.

## 1. Inventory

| Component | State | Operations | Interacts through |
|---|---|---|---|
| Circular buffer (`aesd-char-driver/aesd-circular-buffer.[ch]`) | ten entries (pointer, size), `in_offs`, `out_offs`, `full` | init, add_entry, find_entry_offset_for_fpos | calls; the caller locks |
| Character driver (`aesd-char-driver/main.c`, `aesdchar.h`, `aesd_ioctl.h`) | one `aesd_dev`: the buffer, `entry` (the line being collected), `readCounter`, `lock`; per open file `f_pos` | module init and exit, open, release, read, write, llseek, ioctl | system calls on several files at once; kmalloc/kfree; copies from and to user space that may fault; waits that signals interrupt |
| Socket server (`server/aesdsocket.c`) | list of connection elements, `caught_signal`, `file_mutex`; per thread a socket, a device descriptor, `file_buffer`, `thread_complete` | accept loop, join loop, list_cleanup, signal handler, handle_connection, write_to_file | pthreads, one mutex, signals, clients, the device |
| SLIST (`server/queue.h`, vendored) | singly linked list | INSERT_HEAD, FOREACH_SAFE, REMOVE are used | macros in main |
| System call example (`examples/systemcalls`) | none of its own; the processes, their stdio buffers and descriptors | do_system, do_exec, do_exec_redirect | fork, execv, waitpid; every call may fail |
| Threading example (`examples/threading`) | a `thread_data` per thread | start_thread_obtaining_mutex, threadfunc | one pthread mutex; `thread_data` written by both sides |
| Finder application (`finder-app`) | files | writer, finder | file system |
| Start, load, build, CI scripts, course tests | none of the program's | | |

What is hard in this code, and so what the properties are about:

* **The driver works without its lock in four places**: `aesd_open` tests
  `full` and stores `out_offs`; `aesd_read` takes the entry size before it
  locks; `aesd_llseek` adds up all sizes before it locks.
* **Readers move `out_offs`**, the very position by which `add_entry` decides
  that the ring is full and that a block has to be handed back for freeing.
* **State shared between files**: the line being collected and `readCounter`
  belong to the device, `f_pos` to the file.
* **Errors half-way**: faulting copies, interrupted waits, seven return paths
  with a lock to give back; in the server three error paths with two
  descriptors, two buffers and a mutex.
* **Widths**: the search of the ring adds up sizes in an `int16_t` and compares
  it with a `size_t`.
* **Threads and signals**: the join loop races with finishing threads;
  a signal is noticed only by a failing `accept`; a reply is sent with the mutex
  held.
* **Two layers of locking that do not cover each other**: the server's `file_mutex`
  covers its reads, writes and seeks of the device but not its opens, and the open is
  what the driver does without its own lock. A line is written in one critical
  section and read back in another.
* **Two copies of a program**: after `fork` only `execv` or `exit` keeps the child
  from going on with the caller's code, and what stdio holds exists twice.
* **A result both sides write**: `thread_complete_success` is stored by the thread
  and by its creator, in either order, without synchronisation.

`PROJECT.json` lists these as hazards, each at its line, with the properties
that cover it.

## 2. Modules

| Module | Models | Note |
|---|---|---|
| `CircularBuffer` | the ring's data type: `circular_buffer_init`, `add_entry`, `add_entry_result` | operators only, used by `Ring` and `AesdChar` |
| `RecentWrites` | *abstract*: the last `Capacity` items, oldest first | |
| `Ring` | the ring on its own, driven by its interface | refines `RecentWrites` |
| `FindEntry` | `aesd_circular_buffer_find_entry_offset_for_fpos`, one loop iteration per step, on the rings of `Ring` | |
| `CommandLog` | *abstract*: what the device promises its writers | instantiates `RecentWrites` |
| `AesdChar` | the driver | refines `CommandLog` |
| `MCAesdChar` | values for constants a cfg cannot write, the view, the symmetry | |
| `AesdSocket` | the server's threads, mutex, list, signals, descriptors | |
| `MCAesdSocket` | symmetry of the connections | |
| `DeviceServer` | the connection threads with their lines, sizes and replies, on the driver | composes with `AesdChar`, whose actions it uses |
| `MCDeviceServer` | values for constants, symmetry | |
| `SystemCalls` | `do_system`, `do_exec`, `do_exec_redirect`: parent and child processes | |
| `Threading` | `start_thread_obtaining_mutex`, `threadfunc` | |
| `CircularBufferLemmas` | lemmas on the ring arithmetic, on sequences and on sums of sizes | used by the next three |
| `RingProofs` | theorems about `Ring` and `FindEntry` | |
| `AesdCharProofs`, `DriverLogProofs` | theorems about `AesdChar`: memory and locks; what is stored and where a seek goes | the second extends the first |
| `DeviceServerProofs` | theorems about `DeviceServer` | extends `DriverLogProofs` |
| `AesdSocketProofs`, `SystemCallsProofs`, `ThreadingProofs` | theorems about the module of that name | |

Definitions named "Mutant" are plausible bugs; they are used by no
specification. `PROJECT.json` says in whose place each is put and which property
then fails.

### CircularBuffer, Ring, FindEntry

`add_entry(b, e)` is the buffer after `aesd_circular_buffer_add_entry` and
`add_entry_result(b)` the pointer it returns. The early return for an invalid
`in_offs` is kept; the proof shows it is never taken. `FindEntry` keeps the
signed 16-bit arithmetic: `int16` wraps, and `GreaterU` is C's comparison of a
`size_t` with an `int16_t` (a negative one converts to a value above every
offset in use). The field `passed` of a search is a history variable: how many
entries it has passed over, counted up to one more than there are; the code keeps no such
count, and no action reads it.

### AesdChar

One `aesd_dev`; a variable per field; `alloc` and `mem` are the heap, so that a
dangling pointer, a double free, a leak and a wrong size can be told apart.
Each open file carries a `frame`, the system call it is in with its locals. That a
file is driven by one thread at a time is an assumption on its users: the kernel does
not see to it for a character device, and two threads that shared a descriptor would
race for `f_pos` as well. The server's threads share none.

| Code | Actions |
|---|---|
| `aesd_init_module`, `aesd_setup_cdev` / `aesd_cleanup_module`, `clean_aesd` | `init_module`, `cleanup_module` |
| `aesd_open` | `open` (the test of `full`), `open_reset` (the store) |
| `aesd_release` | `release` |
| `aesd_read` | `read` (takes the size), then under the lock one of `read_empty`, `read_stop`, `read_fault`, or `read_copy` and `read_advance` |
| `aesd_write`, `write_entry_into_buffer`, `checkEOLChar` | `write`, then `write_locked` or `write_fault` |
| `aesd_llseek` | `llseek`, `llseek_sum` (one loop turn, unlocked), `llseek_locked` |
| `aesd_ioctl`, `aesd_adjust_file_offset` | `ioctl` or `ioctl_rejected`, `ioctl_locked`, `ioctl_scan` (one loop turn), `ioctl_found` |
| `mutex_lock_interruptible` failing | `interrupted` |

A step ends where something unlocked, i.e. `open_reset`, can interfere. A read is
cut in two for that reason: the store of `out_offs` can come between its copy
and its increment of `out_offs`. A write touches `out_offs` in one go and
is one step. In the ioctl, `copy_from_user` is asked for `sizeof(seekto) != 0`,
that is one byte: `write_cmd` gets its low byte from the caller, all other
bytes of the structure are a choice over `StackWord`.

Modelled from their use, not under `src/`: `kmalloc(0)` returns a special non-null
pointer; a `copy_from_user` that faults has copied some prefix and zeroes the rest;
a `copy_to_user` with a negative, hence huge, count reports a fault.

### AesdSocket

A connection stands for its list element, its socket and its thread. `main`
and `thread[c]` are program counters. The list is a sequence and `elem` the
position of the loop; `SLIST_REMOVE` of the element looked at makes the saved
successor slide into its place. `pthread_create` may fail unnoticed
(`thread[c] = "never"`). `caught_signal` is read in `accept_failed` and nowhere
else. The device is a set of calls that succeed or fail: which bytes are
written and read is the subject of `DeviceServer`. A chunk that is a seek
command, or that does not end in a newline, sends the thread back to `read` with
nothing shared changed, so it is no step. `killed` stands for the process having
died: SIGPIPE on the reply, the free of an uninitialised `file_buffer`, the
join of a thread that was never created; the last two may also go unnoticed.

### DeviceServer

The composition. Each connection has two files of the driver: `fd(c)`, which
`handle_connection` opens, and `stream(c)`, which `write_to_file` opens and closes.
A thread's step that makes a system call is a conjunction with the `AesdChar` action
that starts it; the call then runs by the driver's own actions (`KernelStep`),
interleaved with the other thread and its calls, and the thread goes on when
the file is back in user space. Every step of `DeviceServer` is therefore a step of the
driver's specification or leaves the driver alone, and what is proved of the
driver holds here.

| Code | Actions |
|---|---|
| `open` of `handle_connection`, outside `file_mutex` | `start` |
| the receive loop: a seek command, a line, end or error | `recv_seek`, `recv_line`, `recv_end` |
| `write_to_file`: lock, `fopen`, `fputs`, `fclose`, unlock | `write_lock` (lock and open), `append` (the seek `fopen` makes), `write_to_file`, `fclose`; `fopen_failed` |
| lock, `lseek` to the end, `lseek` to the start, `read` | `read_lock`, `rewind`, `read_back` |
| the reply and the three error returns | `send`, `fail` |
| the clean-up | `clean_up` |

`main`, joining and signals are left to `AesdSocket`; a closed connection is accepted
again, so that the instance serves any number of them. External: `fopen(.., "a")`
seeks to the end and fails if that fails; `fputs` and `fclose` make one write
of what precedes the first zero byte (`fputs`, the operator, is that prefix).
`left` is a history variable that no action reads: what the lines handed over so far, one
after the other in the order of the mutex, should have left in the line in progress.
Signals go to the main thread and the buffers handed to the driver are valid, so
waits are not interrupted and copies do not fault. The module is loaded once and
stays: the server is started after it and stopped before it is removed.

### SystemCalls

A record per process: its place, the call it is in, its child, its stdio buffer,
where its standard output goes, its open output files, its exit status. `fork`
copies the record. `exit` and the `fflush` before `fork` write the
buffer out; `execv` discards it. A child whose `dup2` failed *returns*, and from then
on is a second caller (`CameBack`). `fork_failed` of `do_exec` exits with 0, which
is what `exit(false)` means. `waitpid_failed` leaves the child behind. The caller
(printing, calling, exiting) and the command are external.

### Threading

`call[t]` and `thread[t]` are the two program counters that share `success[t]`
(`thread_complete_success`) and `data[t]` (the block). Any access to a block
that is not allocated turns it into "misused". The caller, external, uses the mutex
too, joins a thread whose start returned true, and frees what it gets back, as
`threading.h` describes.

## 3. Runs

| Run | Instance | Shows |
|---|---|---|
| `FindEntry` | 3 slots, 2 pointers, sizes 1, 2, 16384, 22000, 16 offsets | `FindInv` (the inductive invariant of ring and search, positions in range included). The ring: `FullFlag`: full exactly when no slot is free; `ReturnsOldest`: the block handed back is the oldest; `RingKeepsRecent`: refinement of `RecentWrites`. The search: `FindsEntryStart`: right for the first byte of every entry, if that offset fits `int16_t`; `PastEnd`: in a ring whose bytes fit `int16_t` NULL is the answer exactly beyond the end, with one surprise at the end itself (see below), and when they overflow it NULL is never the answer to a byte that is there; `PassesOnce`: in a ring that holds bytes no entry is passed twice. All three while the ring holds fewer than 65536 bytes |
| `Driver` | 2 files, 2 slots, 4 blocks, opens, reads and writes (of nothing, a piece, a newline, a newline and the next piece), interrupted waits | `MemorySafe`, `CounterBelowLimit`; `KeepsCommandLog`: the slots are the last lines and `entry` the line in progress, whatever readers do; `StuckForever`: a newline inside the line in progress blocks all writers for good; `NoLeak`: a block is lost only where `full` is wrong |
| `DriverSeek` | 1 file, every call, several arguments, faults, empty writes | `DriverInv` (the inductive invariant of the proofs); `SizesMatch`; `EntriesAreLines`: an entry is one line or nothing; `ReadStaysInEntry`: a lone reader never reads past its entry; `IoctlSeeksThere`: where the seek ioctl leaves the file |
| `DriverLive` | 2 files, 2 slots, 3 blocks, every call, fair | `CallsReturn`: nobody stays in the kernel forever, on full rings and when a write replaces an entry too; the one exception is a write, and only that, while no block is left for it |
| `Server` | 3 connections | `ServerInv` (inductive); `MutexDiscipline`: the mutex is held by whoever works on the device and kept by nobody who left; `ListIsUnjoined`: the list is the threads still to be joined; `NobodyRunsAtExit`; `ClosesOnce`: every way out closes both descriptors, once; `JoinNeverWaits`: the accept loop's join waits for no client and no mutex |
| `ServerLive` | 2 connections, fair | `ExitsOnceNoticed`, `MutexIsGranted`, both as long as clients go on |
| `DeviceServer` | 2 connections at a time, any number in all; an empty line, a line cut short by a zero byte, two newlines in one chunk, a seek command | `DeviceInv` (inductive); `LineStored`: when `write_to_file` is through, the newest entry is exactly what earlier lines left in progress followed by the line, that is the line alone if they left nothing; if the result is not one whole line it is exactly what `dev->entry` holds; `SeeksSucceed`: no `lseek` of the server is refused, so no line is dropped by `fopen`; `ReplyFromStart`: the reply is read from position 0 and the read does not fault; `FullFlag` and `NothingLeaks`: with the server as the only user the flag is right and no block is lost, although its opens store `out_offs` at any moment |
| `SystemCalls` | 3 processes, 1 text, 2 descriptors, fair | `ProcessInv` (inductive); `TrueMeansRan`: true means that the call's own command ran and exited with 0, also after an interrupted call left a child behind; `OutputOnce`: what the caller prints appears once and not in the redirected file; `WaitEnds`: `waitpid` ends if commands do. `TrueMeansRan` and `WaitEnds` name the child that came back as their one exception |
| `Threading` | 3 threads, the caller, fair | `ThreadInv` (inductive); `TrueIffStarted`: the result says whether there is a thread, however far it has come; `DataAlive`: `thread_data` outlives its users; `StartedCompletes`: each thread gets the mutex and ends |

Three more runs state what a comment or a script says, and TLC finds a behaviour of
the code that does otherwise:

| Run | Statement | What happens |
|---|---|---|
| `DeviceReadDoc` | "Don t read outside the buffer entry" (`main.c:237`), with the server as the device's only user | a thread's open (outside `file_mutex`) has found the ring not full; others fill it; a reply's read takes the size of the current entry before the driver's lock (`main.c:214`); the open stores `out_offs = 0`; the read copies that many bytes from a shorter entry |
| `DeviceReplyDoc` | "Move the file pointer to the end to determine the size" (`aesdsocket.c:236`) | `SEEK_END` is relative to `out_offs`, an index (`main.c:106`): `file_size` is 0 until the ring is full, whatever it holds |
| `ServerSignalDoc` | "Stopping aesdsocket" (`aesdsocket-start-stop:8`) | a signal that arrives outside `accept` is remembered but not looked at (`aesdsocket.c:120`), and the next `accept` blocks |

Other places where the models follow the code and not a comment; no run is
spent on them:

* Buffer. For an offset inside an entry the search has already moved on and returns
  the next entry (`aesd-circular-buffer.c:28`, `50`; `FindsByteInside` as a further
  invariant of `FindEntry.cfg` shows it). The offset one past the last byte of a ring
  that is not full is answered with the next slot to be written, which is unused,
  and not with NULL (`aesd-circular-buffer.c:28`; stated in `PastEnd`). The search of an
  empty ring for an offset above 0 does not end (`aesd-circular-buffer.c:67`); from
  65536 bytes on, where a round may add up to 0 as well, nothing is claimed.
* Driver. After reads by several users `full` need not be "true when the buffer
  entry structure is full" (`aesd-circular-buffer.h:52`, `main.c:255`; `FullFlag` as
  a further invariant of `Driver.cfg` shows it). `readCounter` counts calls of all
  files, not entries (`main.c:226`, `251`). A write of no bytes puts an empty entry into
  the ring (`main.c:158`, `172`). The seek ioctl copies one byte of its argument
  (`main.c:395`).
* Server. The clean-up of a connection that sent no line frees an uninitialised
  pointer (`aesdsocket.c:281`). Of a line with a zero byte the device gets what precedes
  it, and the next client's line is appended to that (`aesdsocket.c:372`; both are in
  `LineStored`). A chunk that holds two lines is one write with a newline
  inside; the driver then keeps everything for the line in progress
  (`StuckForever`). Where `file_size` is not what the read returns there is no
  reply, and the thread is not joined before the server exits (`aesdsocket.c:254`).
* Examples. A failing `fork` ends the program of `do_exec` with exit status 0
  (`systemcalls.c:72`) where its comment promises the result false (`:38`). The
  parent does not close the output file (`systemcalls.c:128`, promised at `:102`).
  A child whose `dup2` failed returns into the caller (`systemcalls.c:143`).
  `thread_complete_success` is set when the thread is created (`threading.c:49`),
  not when it "completed with success" (`threading.h:22`); the block is leaked when
  `pthread_create` fails; `usleep` takes microseconds.

### Bounds

* `MaxOps` (10 in the code) is 2 in the driver runs and 3 for the ring
  alone: the ring wraps, is full, and is overwritten several times. `ReadLimit`,
  the literal 10 of `aesd_read`, is a separate constant, as in the code: equal to
  `MaxOps`, or 1 in `DriverLive` and `DeviceServer`, where a second read already stops
  at it.
* Four blocks are what the busiest moment needs: two slots, the line in
  progress and the block an append copies it to. Leaks eat blocks; when none
  is left a write waits. That bounds the runs and is why `CallsReturn` makes an
  exception of that write, and of no other call. `alloc` is otherwise unbounded in the
  code. `DriverLive`, whose writes are whole lines, has three blocks: a write to a full
  ring finds one, and frees one unless `full` is wrong.
* `MaxStaged` and `MaxPos` bound the line in progress and `f_pos` of a writer. With
  `MaxStaged = 2` a newline inside the line in progress, which blocks the device,
  occurs in `Driver`. In `DeviceServer`, where it is 3, a remainder cut short at a zero
  byte exists and the next line completes it, with the ring full and not; and the
  device is blocked by a chunk of two lines, with and without such a remainder before it.
* `DeviceServer` has a ring of two slots, its violation runs one of three: there an
  open can find the ring not full, and the ring become full under two more lines,
  before it stores. Two connections are enough for every race of two threads; they are
  used again and again.
* Three processes: a caller, its child, and a child of either that exists beside the
  first, so that a child left behind and one that came back both occur. A pid is not
  used again. `MaxFiles` descriptors, after which `creat` can only fail.
* `Driver` leaves out llseek and ioctl, which change only
  `f_pos` and the lock; `DriverSeek` and `DriverLive` have them, and the proofs
  cover all calls together.
* Three connections are needed to remove an element from the middle of the list.
* `VIEW Relevant` leaves out the value a call returned (no action reads it) and
  the bytes of blocks nothing points to (none of the properties of those runs
  reads either; `IoctlSeeksThere` reads a returned value only in the successor, where it
  is computed). Blocks, files and connections are interchangeable:
  no definition singles one out. The runs with fairness use neither.

Deadlock is checked in the ring, driver and `DeviceServer` runs. The others may
stop: the server exits, dies, fails to start, or has served every connection of the
instance; the programs of the two examples end.

### Fairness

* `AesdChar!FairSpec`: strong fairness of the steps a file takes inside a call. The
  kernel schedules its threads, and its mutexes hand the lock to the first
  waiter in the end. User space is never forced to start a call; signals never have
  to come.
* `AesdSocket!FairSpec`: weak fairness of main and of each thread, for the steps
  that need nobody outside. Weak fairness is enough for the mutex because a thread
  locks it twice in its life. Clients are *not* fair: they may stay silent or not
  read their reply, with the mutex held. The two liveness properties
  therefore assume that clients go on (`ClientsGoOn`); so does `SignalStops`, so
  that its violation is not the client's doing.
* `SystemCalls!Spec`: weak fairness of each process's own steps. Nothing forces a
  caller to do anything, and commands may run forever: `WaitEnds` assumes that they
  end (`CommandsEnd`).
* `Threading!Spec`: weak fairness of the creator, and of the caller for giving back the
  mutex it took; strong fairness of each thread, as the mutex may be free and taken
  again any number of times before a waiter gets it. (POSIX leaves the choice among
  waiters to the scheduling policy; Linux does not pass over one of equal priority
  forever.)

## 4. Proofs

All by TLAPS, for every value of the constants that meets the named assumptions of
the modules. They say what the constants are (a ring has a slot, sizes and offsets are
natural numbers), that special values are none of the others (`NULL` is no block,
newline is not zero, `"destroyed"` is no connection), and, in `ServerAssumption`, that
the driver's constants allow what the server does: the writes of its lines, seeks
by 0 from the start and the end, reads of the sizes such a seek returns, no
faulting copies.

Four theorems have a hypothesis of their own. Each is needed:

| Theorem | Hypothesis | Without it |
|---|---|---|
| `DriverNoLeak` | no faults | a faulting append forgets the block it allocated (`main.c:284`) |
| `DriverReadStaysInEntry` | one open file | the run `DeviceReadDoc` |
| `FindsEntryStartCorrect` | no entry of size 0 | two entries start at the same offset, the search stops at the first. The server adds none (`NoneEmpty` of `DeviceInv`) |
| `PastEndCorrect` | no entry of size 0 | with an empty last entry the offset one past the last byte is answered with that entry, in a full ring too |

### Ring and search (`RingProofs`)

`FullFlag` is not inductive: that the comparison of the two positions means "full"
needs to know that a ring that is not full starts at slot 0 and is filled up to
`in_offs`, and that in a full one the positions coincide; that is `RingInv`. The
refinement `RingRefinesRecent` shows that the entries read oldest first after
`add_entry` are those before with the new one pushed, in the two cases of
`RecentWrites!Pushed`, by unfolding the modulo.

`FindInvariant`: while fewer than 65536 bytes are kept, the search is at the k-th slot
from the oldest on, has passed k entries and added up exactly the sizes before it,
cut down to `int16_t`, and the offset lies beyond the entry before; unused slots add
nothing; back at the start the offset is inside the ring, or the search is over with NULL.
Cutting down at every addition is the same as cutting down the sum (`Int16Sums`), which
up to 65535 is itself, or negative and then ends the loop; it is not 0 again before
there are 65536 bytes. In a ring without bytes the loop goes on
for good, which the invariant says, too. `PassesOnceCorrect`, `PastEndCorrect` and
`FindsEntryStartCorrect` follow, the last two because kept entries start at different
offsets.

Sums over any number of slots need an induction. `Starts`, the reference for where
entries begin, is a recursive function on `0 .. MaxOps`; `CircularBufferLemmas` shows
that it satisfies its recursion (`StartsAre`), grows, and stays where sizes are 0.
The inductions are by the least counterexample: a non-empty set of numbers has a
least element (`LeastOf`, from the well-foundedness of `<`), hence a set with 0 and all
successors is everything (`AllPositions`).

### Driver (`AesdCharProofs`, `DriverLogProofs`), any number of files and blocks

* `DriverInvariant`: `DriverInv` is inductive. The types alone are not:
  `readCounter <= ReadLimit` after the increment needs that a reader that
  has copied found it below the limit and that nobody else passed the lock since
  (`CounterBelowLimit` with `LockDiscipline`); the array index of the ioctl loop
  needs `ScanInRange`. Steps are split into *quiet* ones, which leave the lock, the
  counter and every critical section alone, and the few that do not.
  `DriverTypeCorrect`, `DriverLockDiscipline` and `DriverCounterBelowLimit` follow.
* `DriverMemorySafe`: `MemorySafe` is preserved by every step, given
  `DriverInv`. Only a successful and a faulting write, and loading and unloading,
  touch slots, `entry` or the heap. What makes it true in spite of `full` and
  `out_offs` being wrong at times: `add_entry` hands back the pointer it
  overwrites, never the one `out_offs` designates. (Where the two differ the
  code can leak, but not free twice.)
* `DriverSizesMatch`, from `MemorySafe`: a size stays right because the
  block beside it is not reused.
* `DriverFillsInOrder`: the unused slots are those from `in_offs` on, whatever readers
  do; `DriverNoLeak` needs it to know that the slot overwritten in a ring that is
  not full is unused.
* `DriverEntriesAreLines`, `DriverStuckForever`: what `checkEOLChar` finds first in the
  bytes put together decides, and appending does not change the first newline.
* `DriverKeepsCommandLog`: the refinement of `CommandLog`. By cases of a write: it
  starts or continues the line in progress, completes it or not; a faulting one is
  `Torn` or no step; loading and unloading are `Reset`; all others leave the
  stored bytes alone. `FilledInOrder` gives the order of the slots.
* `DriverReadStaysInEntry`: the size a read took before the lock is still that of the
  current entry, when nobody else is there.
* `DriverIoctlSeeksThere`, from `ScanSum`: while the ioctl's loop holds the lock, its
  total is the sum of the sizes it passed, and no write changes them.

### Server on the driver (`DeviceServerProofs`), any number of connections

`ServerUsesDriver`: every behaviour of `DSpec` is one of the driver's `Spec`, so that all
of the above carries over (`DeviceKeepsLog` spells out the refinement and the memory
safety). `DeviceInvariant`: `DeviceInv` ties each thread's place to the system call its two
files are in and to the call's arguments. `SeeksSucceed` alone is far from
inductive: the `lseek` to the end compares `out_offs`, an index, with a sum
that was taken without the lock. It holds because the sum has counted at least one
byte per entry passed (`Counted`, `NoneEmpty`), the holder of `file_mutex`
being the only one that adds entries, and because `out_offs` is 0 until the
ring is full (`OutWaits`), opens storing that same 0; a read moves it only when the
size asked for is above 0, which it is not before the ring is full (`SizeRead`).
`LineStored` is part of the invariant: nobody but the holder of `file_mutex` writes,
so that the line in progress is `left` until its write and, from then until it
closes the stream, what its line makes of `left` (`LineKept`, `WriteStoresLine`);
that `left` is never itself a whole line is needed for a line that starts with a zero
byte, of which nothing is written. `DeviceFullFlag`, `DeviceLineStored`, `DeviceReplyFromStart` and
`DeviceNothingLeaks` follow from the same invariant.

### Server threads (`AesdSocketProofs`), any number of connections

`ServerInvariant`: `ServerInv` is inductive. `ListIsUnjoined` needs that main takes
a connection in before it has a thread and lists it after (`TakenIn`), that both loops
stay inside the list while elements are removed (`LoopsInList`), and that a flagged or
joined thread is through (`ThroughIfFlagged`, `ThroughIfJoined`); `ClosesOnce`
needs what a thread holds at each place (`Resources`). `NobodyRunsAtExit` then
holds because the list is empty when main exits. `MutexDiscipline`, `ListIsUnjoined`,
`NobodyRunsAtExit`, `ClosesOnce` and `JoinNeverWaits` each have their theorem.

### Examples (`SystemCallsProofs`, `ThreadingProofs`), any number of processes or threads

`ProcessInvariant`: only a process that executes the caller's code has anything
buffered (`Flushed`), one whose output goes to the file never returns to that code
(`Redirected`), the child a call waits for exists and, for `do_exec`, never comes back
(`Children`), and a text is in one buffer or has been shown once (`WrittenOnce`).
`TrueMeansRanCorrect` and `OutputOnceCorrect` follow. `ThreadInvariant`: once the
thread exists the flag can only be set, by either side, and the block is freed
after both are through; `TrueIffStartedCorrect` and `DataAliveCorrect` follow.

### Only model-checked

* Liveness under fairness, out of the prover's reach: `CallsReturn`,
  `ExitsOnceNoticed`, `MutexIsGranted`, `WaitEnds`, `StartedCompletes`.
* The three violations, which are counterexamples.

## 5. Not modelled

* `kmalloc` failing (the result is not tested: a kernel oops) and calls between
  `cdev_add` and `mutex_init` (`main.c:358`).
* Allocation failures the code does not test, in the server and the examples; the
  `elem` blocks leaked at `aesdsocket.c:141` and `158`.
* Which bytes of a line that TCP cut into chunks are forgotten: a chunk that does not end
  in a newline is dropped (`aesdsocket.c:231`), which changes nothing of the
  program's state.
* A short write of the reply: the code does not tell it from a complete one.
* Which call of `init_socket` failed: one outcome of startup.
* Debug output, logging, address formatting.
* The argument lists of the system call example and the lengths of the sleeps of
  the threading example.
* The finder application: `writer.c` opens, writes once and closes; nothing is kept,
  nothing runs beside it, and a property would restate its one `write`. Scripts, image
  build and tests have no state of the program.

## 6. Components and the properties that make them correct

| Component | Correct when | Status |
|---|---|---|
| Ring | it is the record of the last writes; hands back what is to be freed; search answers as documented | checked and proved, the search for first bytes of entries and for which offsets are past the end, up to 65535 bytes. It does not answer as documented for other bytes, nor one past the end of a ring that is not full |
| Driver | no dangling pointer, no double free, no lock kept, lines whole and in order, calls return | checked; all but the last proved. Reads stay in their entry only while one file is open (`DeviceReadDoc`) |
| Server | every thread joined before exit, descriptors closed once, mutex kept by nobody who has left, signal stops it | checked; all but the last proved. The last does not hold (`ServerSignalDoc`) |
| Server + driver | a line becomes an entry of its own unless one before it was cut short or blocked the device, seeks succeed, a reply is the device's contents | checked and proved; the size of the reply is not right (`DeviceReplyDoc`) |
| System calls | result true only when the command ran and exited with 0; output not doubled; waits end; no child returns into the caller; descriptors closed | checked, except the last two, which the code does not do; results and output proved. A child that came back is the exception to results and waits |
| Threading | the result says whether the thread was started; no access to freed `thread_data`; every thread ends | checked; all but the last proved |

## 7. Plan

Done: all modules of section 2; every safety property of the runs is proved. What
is left:

1. Safety parts of the liveness arguments, e.g. that a thread waiting for `file_mutex`
   always finds an owner that is in its critical section, and so a step towards
   giving it back.
2. The search in a ring of 65536 bytes and more, and for offsets above 32767: what
   the wrapped sum still guarantees.
3. The connection between `AesdSocket` and `DeviceServer`: the threads of the second, with
   the bytes forgotten, are those of the first.
