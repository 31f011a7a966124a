# Formal models of the UCM_LIN kernel modules

UCM_LIN is a set of exercises on Linux kernel programming: loadable modules that share a
buffer or a list between the processes that open a `/proc` or `/dev` entry, a USB
driver, a system call, and the user programs that exercise them. It is C for Linux 4.9.
What can go wrong in it is nearly always the same: several processes are inside the
handlers at once, most waits can be interrupted by a signal, and the bookkeeping on the
error paths was written by hand.

This directory holds TLA+ models of that code, TLC runs over small instances of them,
and proofs checked by TLAPS of what holds for every instance.

Paths below are relative to `src/`. `PROJECT.json` lists the components, the runs, the
source lines behind every definition, the hazards and the theorems.


## 1. Inventory

### FIFO pipe: `mod4/Submission/ParteB/fifoproc.c`, `Opcional/fifodev.c`

*State*: a kfifo of 64 bytes; `prod_count`, `cons_count` (open ends); `nr_prod_waiting`,
`nr_cons_waiting`; the semaphores `mtx` (1), `sem_prod` and `sem_cons` (0), the last two
used as queues of condition variables. *Operations*: `open` (counts its end, wakes the
other side, waits for it), `release`, `read` (waits for `len` bytes while there is a
producer), `write` (waits for room while there is a consumer; EPIPE without one). The
pseudocode it was written from, a monitor with two condition variables, is beside it
(`pseudocódigo.c`). `fifodev.c` has the same four handlers behind a character device;
only its loading differs. *Hard*: each wait is "count yourself, free the mutex, sleep,
take the mutex again", and each of those points can be interleaved or interrupted; a
wake is aimed at a counter, not at a process. *Correct when*: the mutex is conserved on
every path; counters and queues agree; no wake is lost; nobody sleeps with its condition
false; the bytes come out whole, in order, and as many as reported; the behaviour is the
monitor's.

### Bounded buffers: `mod4/ProdCons1/prodcons1.c`, `mod4/ProdCons2/prodcons2.c`

*State*: a kfifo of 4 integers (`MAX_ITEMS_CBUF`; it stores them as 16 bytes) with, in the first, three semaphores (`elementos`,
`huecos`, `mtx`), and in the second a mutex, two queues and two wait counters.
*Operations*: one integer per `write`, one per `read`. *Hard*: an interrupted second
wait has to give back what the first one took; the window between the insertion and its
announcement; the wakes of the second. *Correct when*: they are a FIFO buffer, whatever
is interrupted.

### Multiple buffers: `mod6/Submission/ParteA/multipc.c`, `ParteB/user.c`

*State*: `procDataList`, a list of buffers (each with a kfifo and three semaphores, as
prodcons1), `entries`, the mutex `sem_list`, and one entry in `/proc/multipc` per
buffer. *Operations*: `new <name> <i|s>` and `delete <name>` on `admin`; `read` and
`write` on a buffer; load and unload. `user.c` creates four entries, starts a producer
and a consumer thread for each, joins them and deletes the entries. *Hard*: the limit,
the test that the name is new and the insertion are three steps; a deletion walks the
list with the mutex freed, drains and frees a buffer that may be in use; results of
`down_interruptible` that nobody looks at. *Correct when*: names are unique and agree
with `/proc`; `entries` is the length of the list; no freed buffer or node is touched;
every string is freed once; the client finishes and leaves nothing behind.

### Code timer: `mod5/Submission/Codetimer/codetimer.c`, `Opcional/codetimer.c`

*State*: a kfifo of 32 bytes under a spin lock, a list of codes under a mutex, `waiting`
and the semaphore `queue`, a timer, a work item, `jobFinished`, three settings.
*Actors*: the timer (interrupt context) puts a random code in the buffer; over a
threshold it queues the work item, which moves all codes to the list; readers wait for
the list to be non-empty, read it and empty it; a writer of `/proc/codeconfig` changes
the settings meanwhile; `open` starts the timer and `release` stops it. The second
version sends codes of even and odd length to two lists with a reader each, and makes
the two `open` calls wait for each other. *Hard*: four contexts with three kinds of
exclusion; `waiting` and `jobFinished` shared without a common lock; the list freed in
two steps. *Correct when*: every code stored reaches the list whole and in order; a code
is returned by two reads only if they overlap; a reader that sleeps is woken; nothing
runs, and nothing is left, after the last `release`.

### Lists: `mod1/modlist` (three versions), `mod4/Submission/ParteA/SMPmodlist.c`

*State*: a list of integers or strings; `add`, `remove`, `cleanup`, and a listing. The
three of mod1 have no lock (one of them iterates with seq_file); SMPmodlist adds a spin
lock. *Hard*: with processes on several processors, all of it in mod1; the listing in a
buffer of fixed size; a listing of several reads. *Correct when*: with the lock, a
listing is the list at one instant, or an error; without it, the memory is safe and a
listing makes sense as long as only what may overlap does overlap.

### USB LED stick: `mod3/ParteA/blinkdrv.c`, `ParteB/blink_user.c`

*State*: a reference-counted structure per device, found through its minor number; eight
LEDs behind a control endpoint. *Operations*: probe, disconnect, open, release, and a
write that parses `<led>:<colour>,...` and sends one message per LED. `blink_user.c` is
two games, one of them with a thread that moves a light until the player stops it.
*Hard*: open or write against disconnection; a message that fails in the middle; two
writers; the light that moves while the player is judged. *Correct when*: the structure
lives as long as somebody may use it, and is freed once; a write sets the LEDs from the
first on; the players of the race stay in order and the winner's colour is the one that
is shown; a game that is won ends.

### LEDs, clipboards, examples

`mod2/.../ledctl.c` (a system call), `modledctl.c` (a `/proc` entry): a mask of three
bits to the keyboard driver. `mod1/Clipboard/clipboard.c`, `mod6/clipboard_dir.c`: one
shared text without a lock. `mod4/FifoTest/fifotest.c`: sends a text through the pipe in
messages of fixed size. The rest (hello5, mi_modulo, modleds, cpuinfo, linhello, the
timer and work queue examples) is straight-line code with no state of its own. Kernel
configuration, `list.h`, and the system call table are third-party data.

### How they interact

Modules do not call each other. Processes meet inside one module's handlers through its
shared state; handlers of different kinds (timer, work item, process) meet in the code
timer; user programs meet modules through the file operations (fifotest and the pipe,
user.c and multipc, blink_user and blinkdrv). The kernel is external: semaphores, kfifo,
lists, `/proc`, timers, work queues.


## 2. Models

| module | source | role |
|---|---|---|
| `Semaphore` | `struct semaphore` of the kernel (external) | count and FIFO list of waiters, `Down`, `Up`, `Cancel` |
| `FifoPipe` | `fifoproc.c` | the four handlers of the pipe |
| `FifoMonitor` | `pseudocódigo.c` | the monitor the pipe is meant to be |
| `FifoPipeRefinement` | both | the pipe against the monitor, through a refinement mapping |
| `BoundedBuffer` | promise of prodcons1.c, prodcons2.c | an abstract FIFO buffer with atomic calls |
| `ProdCons` | `prodcons1.c` | the version with counting semaphores |
| `ProdCons2` | `prodcons2.c` | the version with queues and wait counters |
| `MultiPC` | `multipc.c` | the admin entry, the list, the directory, and many buffers |
| `CodeTimer` | `Codetimer/codetimer.c` | timer, work item, read, open, release and settings, for any number of lists |
| `CodeTimerEvenOdd` | `Opcional/codetimer.c` | extends it: two lists, the rendezvous in `open` |
| `ModList` | `modlist.c`, `list.h` | the list without a lock, store by store |
| `SMPModList` | `SMPmodlist.c` | extends it: the spin lock and the text that does not fit |
| `ModListSeq` | `modlist2.c` | extends it: the listing through seq_file |
| `AtomicList` | promise of SMPmodlist.c | a list that is changed and read at once |
| `Removal` | `remove()`, `cleanup()` | what they leave of a list of values, for the two above |
| `BlinkDrv` | `blinkdrv.c` | probe, disconnect and the file operations over the reference count |
| `BlinkUser` | `blink_user.c` | the two games, the second with its thread |
| `SemaphoreProofs`, `FifoPipeProofs`, `ProdConsProofs`, `ProdCons2Proofs`, `MultiPCProofs`, `CodeTimerProofs`, `ListsProofs`, `BlinkstickProofs` | | lemmas, invariants and theorems |
| `MC...` | | instances for TLC: symmetry sets, and in `MCFifoPipeRefinement`, `MCLists` and `MCBlinkstick` several programs in one state space |

### Conventions

*Processes.* A process is one open file of the entry. In `prodcons1/2` a call that
succeeds moves `*off`, and every later call on that file returns 0 at once: the process
is then `"used"` until it opens the entry again. (`*off` is also assigned on some paths
that fail; the kernel keeps the new position of a call only when it succeeds.)

*Steps.* An action is the code between two points at which another process can be seen
to run. With `mtx` held that is the whole critical section, so the actions of `FifoPipe`
and `ProdCons2` are critical sections; `ProdCons` steps from one semaphore operation to
the next, because `elementos` and `huecos` change outside the mutex. `pc` names those
points; each module lists its values at the top.

*Semaphores.* `up()` hands the semaphore to the oldest waiter by taking it off the list;
the count grows only when nobody waits. "p was granted s" is therefore: p has called
`down` and is not in the list of s. `down_interruptible` looks at signals only when it
has to wait, so a signal ends a wait only of a process still on the list.

*Abstractions.* A byte of the pipe is a pair (writer, position in its message): it tells
apart what the properties speak of. Integers are model values; in `MultiPC`, where the
question is what is alive, a buffer is the number of values in it and the heap the
number of strings. Returns before the first `down` (`-ENOSPC`, `-EFAULT`, `-EINVAL`)
change nothing and are not steps. A `copy_to_user()` that fails when the shared state has
been changed and the mutex freed (fifoproc.c:180) changes nothing but the result, and is
left out of `FifoPipe` too. `printk` is left out, except in `MultiPC`, where it reads
strings that may be freed. Loading is `Init`; unloading is
modelled where it shares state with calls in progress (`ModList`, `SMPModList`).

*History variables.* Where the code breaks a promise in certain overlaps only, a
variable records that the overlap has happened (`raced`, `unlocked`, `overlap`,
`stolen`, `crossed`, `leaked`, `miscounted`, `overtaken`, `alone`, ...). No guard of the
modules reads them, and the properties say that these are the only ways to go wrong. Two
modules stop where the code becomes undefined: `MultiPC` once freed memory or a list in
change was used (`misuse`), `CodeTimer` and `CodeTimerEvenOdd` once two processes are in
the critical section of one list (`Exclusive`). Where a property speaks of the time up to
an overlap only, its formula says so (`~raced => ...`); where a run goes no further, that
is a bound of its MC module (section 3), which the theorems do not have.

*Mutants.* Definitions marked "Mutant" stand before the definition they are a plausible
mistake in, and nothing uses them: they show that each property can tell the code from a
slip in it.


### MultiPC

A buffer is a record: its name and type, its three semaphores, how much it stores, and
whether it is live, without its kfifo, or freed. `list` is the sequence of buffers,
`proc` the directory. `admin_write` is split at every point where `sem_list` is free:
the limit test and the wait of `exists()`; the walk; the creation of the entry;
`addProc()`; the load and the store of `++entries`, which come after the mutex. A
deletion is split also at the mutex and the semaphore of the buffer it drains, at
`kfifo_free()` (the last loop test before it is a step of its own), at
`remove_proc_entry()` and at the end of its wait for the calls in progress. `write` and
`read` end with a step for the message they print, up to which the call is in progress.

The kernel, as the code uses it: `proc_create_data()` refuses a registered name (and the
code does not look); `remove_proc_entry()` takes the name out and returns once no call
on the entry is in progress, which is what makes the `vfree()` after it safe, and what
lets one sleeping reader hold a deletion for ever; a freed kfifo accepts nothing and
returns nothing.

Some of what it does is undefined: a list walked while it changes, a freed kfifo used, a
string freed twice. Such a step sets `misuse` and the model stops there. Three more
variables only record how a state came about: `unlocked` (a signal hit a wait for
`sem_list`), `raced` (two `++entries` overlapped), `overlapped` (names in whose deletion
a call on the entry took part). `ListAndBuffersSafe` says that without `unlocked` and
`overlapped` there is no `misuse`.

The messages are not part of it. `read` of a string prints it (line 192) after it has
freed it (178), on every successful call; `write` prints the string it has added (131)
when a reader or a deletion may have freed it already. No order of the calls avoids the
first, so there is nothing for a property to say about when it happens; the model has the
steps and what they hold (`got` is `"dangling"` at `print`, `stale`), and goes on after
them, as they only read.

Assumed of the clients (the *client rule*, `AdminIdle` and `NobodyDeletes`): while a
process deletes, no other process uses `admin`, as in `user.c`, where one thread creates
everything and deletes everything. `admin_write()` does not enforce this: it is a guard of
the clients' calls and not of the code. Creations may overlap one another, and reads and
writes may overlap anything. Without the rule, `exists()` walks over the node of a buffer
freed between lines 261 and 266. Every property and theorem of `MultiPC` is under this
rule: none of them sees a creation, or a second deletion, inside a deletion.

### CodeTimer, CodeTimerEvenOdd

Four contexts: the timer function (three steps: the store under the spin lock, the test
of the threshold, and the test of `jobFinished` with the queueing of the work item), the
work item (one step per wait and per access to `waiting`), the processes, and writes to
`codeconfig`. `waiting++` and `waiting--` are a load and a store, because they run under
no common lock. A code is its characters and a NUL; its characters are the number it was
made with, so that a code that is cut, joined to the next, lost or overtaken shows.
`down_interruptible()` whose result nobody reads is modelled with its failure: the
caller goes on without the mutex and raises it later (`unlocked`).

The module is written for several lists, so that the version with two lists reuses the
timer, the work item and `read`. What `CodeTimerEvenOdd` adds is the random length, the
sorting of codes, the rendezvous, and a `release` per file. `open` and `release` go from
one access to shared state to the next: the two reads of `even` (265, 267), the load and
the store of `even++`, `odd++` and of their undoing, the test of `waiting_odd` (283), its
load and its store (284), the wait; in `release` the timer, the flush, the reset of the
buffer, the count, and the wait and the work of `cleanup()` with its ignored `-EINTR`. The
work item tests `even` or `odd` in one step (90, 102) and asks for the mutex in the next.

The first `open` waits on `queue_odd` with `waiting_odd`, which readers of the odd list
use as well. Two things keep the timer off for ever although both files are open: a
reader takes the unit meant for the opener (`stolen`); or both openers find
`waiting_odd` at most 0 before either has raised it, and both sleep (`crossed`).
`TimerRuns` says that, no wait being interrupted, nothing else does; in particular a lost
update of `waiting_odd` does not.

Codes come to stay in a list that nobody reads in three ways: an `open` failed after it
was counted (`leaked`); an update of `even` or `odd` was lost, or was of another list than
the one the file reads, because `even` had changed between its two reads (`miscounted`);
the last reader left the list while a code was on its way to it (`overtaken`: after the
flush of that `release` another `open` has started the timer, and the work item had
tested the count before it fell). `ListHasReader` says that nothing else does.

Assumed: `flush_workqueue()` returns when the item is idle; `del_timer_sync()` when the
timer function is not running; a work item does not run beside itself. One file is open
at a time in `CodeTimer` (several processes may share it). In `CodeTimerEvenOdd` an
`open` that would initialise or start a running timer again, or initialise a work item
that is queued, is not taken: the kernel does not define what follows. `kfifo_reset()` in
`release` and the `kfifo_in()` of a timer that another `open` has started meanwhile are
taken one after the other, although no lock orders them. The text that `configproc_write()` copies while the timer function
reads it is abstracted to its length.

### ModList, SMPModList, ModListSeq

`list.h` is modelled by its loads and stores: an addition is the load of `head->prev`
and the stores of `__list_add()`, a deletion those of `list_del()` with the poison, and
`vfree()`. A walk loads a link per step. Stores become visible in program order, as on
the x86 machines the course uses. The memory of a node is not used again, so that every
use after free shows in `misuse`. `overlap` is the worst overlap so far: none, an
addition with a read, a deletion with a read, two writers. `ModList` says which promise
survives which overlap.

`SMPModList` puts the lock where the code does (a read that fails leaves through its own
`spin_unlock`) and implements `AtomicList`: an addition or a removal takes effect when
its call gets the lock, a read when it ends. `ModListSeq` adds `numElems`, `*pos` and
the calls of `seq_read()`. Because `start()` ignores `*pos`, a listing that needs a
second read shows its first nodes again: `ListingComplete`, a part of `SeqListing`,
states what is really shown.

### BlinkDrv, BlinkUser

The USB core connects and disconnects in one thread; `hub` is where it is. The core
holds its table of minor numbers for reading while it calls `open()`, and
`usb_deregister_dev()` waits for it: that, not the driver, is what keeps the structure
alive between `usb_get_intfdata()` and `kref_get()`, and the properties fail when
`disconnect()` gives its reference back before that call. A stick that is unplugged
answers no message; a message may fail at any time. A write is one step per message, so
writers interleave; `before` and `alone` record what `WrittenPrefix` needs.

`BlinkUser` takes the two games as threads of control over the LEDs they think they
show. The stick works, as a failing `write` is only reported. In stopIt() the thread and
the player meet in `keypressed`, `position` and `win`, of which only the first is under
a lock, and only in places: every access is a step. The player is judged by `position`,
which is already the LED that comes next unless the thread has not moved it yet;
readme.txt says that the light has to be stopped in the middle (`StoppedInCentre`, which
the run `stop_in_centre` refutes).


## 3. Runs

Bounds. A process is a handler in progress, so two on a side give every pair of
interleaved handlers, and three in total contend for one mutex with one on the list
behind another. Capacities of two or three make a buffer that is empty, partly full and
full; message lengths 1 and 2 against capacity 3 make room that is too small but not
zero. Two signals interrupt two waits, or one wait twice.

| run | instance | shows |
|---|---|---|
| `fifo_fair` | capacity 3, no signals, fair; the first state chooses 1 reader and 1 writer with lengths {1,2}, or a reader, a writer and an O_RDWR process with length 2 | the pipe implements the monitor of the pseudocode, liveness included; of a pair, no wake is lost and the two sides do not wait for each other (`NoMutualBlock`), as their lengths together are within capacity + 1; of three, messages of one size come out whole (`WholeMessages`) |
| `fifo_signals` | a reader, a writer, an O_RDWR process, 2 signals | mutex; counters against queues, so that whoever is on a queue can be woken; the counts of open ends are wrong by at most the number of signals |
| `prodcons_buffer` | 2 writers, 2 readers, 2 values, capacity 3, 1 signal, fair | places and elements are accounted for (`UnitsAccounted`); the code implements the FIFO buffer, with strong fairness |
| `prodcons2_buffer` | 2 writers, 1 reader, 2 values, capacity 2, 2 signals, fair | types, mutex, counters (`Consistent`), the same FIFO buffer, also interrupted; without signals the buffer has weak fairness |
| `multipc` | 2 administrators, a producer and a consumer, 2 names, strings, buffers of 1, 1 signal | no call outlives its buffer; list and directory agree; strings, gaps, elements (`Consistent`) and entries are accounted for; a freed kfifo or node is used, or a string freed twice, only after an ignored `-EINTR` or in a deletion that overlaps a call (`ListAndBuffersSafe`; the messages are not counted) |
| `code_timer` | 2 readers, buffer of 3 characters, codes of 1 and 2, threshold 2, 1 signal, reconfiguration and reopening, fair | codes whole and in order, wakes against sleepers (`Consistent`), mutex, no code in two reads one after the other, nothing left after close, sleepers are woken |
| `code_timer_even_odd` | 2 processes, 3 opens, buffer of 2, thresholds 1 and 3, 1 signal, symmetric | openers and readers counted together; what alone can keep the timer off after the first meeting; what alone can leave codes without a reader |
| `lists` | 2 processes, 3 nodes, 2 values, for each of the three lists, symmetric | which overlaps the unlocked list survives (`MemorySafe`, `RingIntact`, `ReadsConsistent`, `UnloadFreesAll`); with the lock no call breaks or keeps the list, which is atomic (`SMPKeepsListWhole`, `SMPIsAtomic`); what seq_file shows (`SeqListing`) |
| `blinkstick` | 2 processes, 2 sticks one after the other, 2 LEDs; the games on 8 LEDs, all throws | the structure lives exactly as long as it is used; writes set a prefix; the race stays in order and shows its winner; the game that is won ends |
| `stop_in_centre` | the second game on 8 LEDs, centre 4 | *violated*: the player who wins has stopped the light in the middle |
| `fifo_short_read` | | *violated*: `read` reports what it got |
| `prodcons2_stall` | 2 readers, 1 signal | *violated*: no sleeper that may proceed is left asleep |

*Deadlock* is not checked where the system may stop: in `fifo_signals` (once the counts
are wrong, every process can end up asleep), for the three processes of `fifo_fair` (the O_RDWR
process alone, writing more than fits, waits for itself; the pair is checked), in `multipc` (a deletion waits for a reader
that no writer can reach any more), in `code_timer` and `code_timer_even_odd` (all waits
interrupted, every `open` done), in `lists` (the module is unloaded) and in `blinkstick`
(every stick has been used), and in the runs that look for a violation.

*More bounds.* `code_timer`: codes are numbered modulo 2, a list shows its last code
(`MaxListed`): an older one has been checked against its neighbour when it was appended.
Lengths 1 and 2 in a buffer of 3 give a code that fits, one that is cut before its NUL,
and one that is not stored at all; a threshold that is reached with room left. `lists`:
three nodes make a first, a middle and a last; a text of two lines makes one that does
not fit. `blinkstick`: two LEDs give a prefix that is neither empty nor whole; a second
stick meets files left from the first.

*More bounds of `multipc`*: one entry at most (`MaxEntries`), so that two creations at
once exceed it, and a third buffer for those that should not get in; once `entries` has
lost an increment the last buffer is not used and no wait is interrupted (constraint
`OnceRaced`), because then nothing limits the list. `UINT_MAX` 3 lets `entries` pass below zero. `MaxUps` bounds what drains
and readers add to a buffer's semaphores. With buffers of one string a producer and a
consumer never meet at the mutex unless a deletion takes part; that case is
`prodcons_buffer`'s.

*More bounds of the code timers*: both runs end with the first lost update of `waiting`
(`BoundedSpec` of their MC modules), since every further one moves it further from what
it counts; the properties that do not exempt it are proved beyond. With two lists
the threshold is set before a file is opened, to one that the first character reaches or
to one that none does: a timer that always or never calls for the work item. A third
`open` is one that comes while a `release` is on its way.

*Fairness* is weak fairness of `Run(p)` for every process: the scheduler runs a runnable
process. `Call(p)` (a program makes a system call) and `Interrupt(p)` (somebody sends a
signal) have none. Nothing is assumed of semaphores: that they serve in order is in the
model of `up()`. In `CodeTimer` the timer fires and the work item runs, weakly fair: the
kernel does both. In `BlinkDrv` the USB core goes on, a stick that was unplugged is
disconnected, and a call that was begun goes on; no one has to close a file. In
`BlinkUser` both threads run.

### What the code does not do

* **Short reads** (`fifo_short_read`). When the last producer has gone and fewer than
  `len` bytes are left, `read` takes them and reports `len`.
* **The light is not stopped in the middle** (`stop_in_centre`). `stopIt()` tests
  `position`, which the thread moves right after it has shown the light: the game is won
  with the green light beside the red one, and lost on it, although readme.txt asks the
  player to stop it there. The light is one LED off at most (`JudgedWithinOne`).
* **prodcons2 drops wakes** (`prodcons2_stall`). A reader that was woken and then
  interrupted at the mutex returns without passing the wake on. A second reader then
  sleeps with a value in the buffer, and a writer on the full buffer.

Other facts the models show, that no line of the repository speaks against: in multipc,
two creations at once exceed the limit or make one name twice, the second of which is in
the list and not in the directory until both are deleted; an increment of `entries` may
be lost; a deletion that finds a reader or a writer at work may use a freed kfifo or
free a string twice, and one that is interrupted leaves a buffer whose elements are
counted and gone; a writer interrupted while it waits leaks its string, and the messages
of `read` and `write` print strings that are freed; in the pipe, a
`read` and a `write` whose lengths add up to more than the capacity plus one wait for
each other for ever, one wake for two readers leaves the second asleep over a condition
that has changed (the pseudocode does the same), and signals make the counts of open
ends drift: a wait interrupted while the mutex is taken again leaves its end counted, an
interrupted `read` uncounts an end that is still open, and a `release` interrupted at
the mutex uncounts nothing (`CountsDriftBySignals`); a wake that meets an interrupted
sleep drives a wait counter to -1 and leaves a spare `up` on the queue (after which a
later sleeper wakes for nothing, tests its condition and sleeps again); in both bounded
buffers a `read` with a buffer shorter than the text loses the value it took; in
prodcons2 a late writer can take the place another was woken for, so its fairness is
weak where prodcons1's is strong; in the code timer, a lost update of `waiting` or a
signal in a wait for `sem_list` can leave a reader asleep or two in one critical
section, and two overlapping reads return the same codes; in the version with two lists,
a reader of the odd list can take the opener's unit, two `open` calls can both wait for
the other, an interrupted `open` leaves its reader counted, two `open` calls that read
`even` at once count a reader of the wrong list, or one instead of two, and a `release`
that overlaps an `open` can leave a code in the list it has emptied; in the lists of mod1, a deletion beside any other call, or two
additions, use memory that was freed, the seq_file version shows the list head as a node
beside a mere addition, and repeats its first lines when the listing is long; unloading
any of the lists leaks a node added meanwhile.


## 4. Proofs

All are checked by TLAPS from the assumptions named in the modules, for every number of
processes, capacity, number of signals, and length of the stick. The assumptions are: the
processes are finite and, in `CodeTimer`, at least one; a list has room for one node, and
what a removal of all is marked with is no integer of the list; the capacity is positive and
lengths fit the buffer; the centre of the stick is not within three LEDs of its end; in
`MultiPC`, there is an administrator, a process that uses `admin` is none that uses a
buffer (a process is one open file), and `UINT_MAX` is at least the number of entries that
creations at once can reach. History variables are part of the theorems as they are of
the properties: what is proved is that nothing but the recorded overlaps breaks the
promise.

The proofs share a method. A semaphore is an *account*: units counted in it, plus units
granted or held by processes, equal what there is to hand out, and whoever is on its list
is at a point of the program where it waits for it, once. `SemaphoreProofs` says what
`Down`, `Up` and `Cancel` do to an account when the process that calls them moves from one
place to another (off, waiting, holding), whatever the semaphore is used for: a mutex
(one unit), gaps and elements (as many as places and values), or a queue. Each module
then says, with a function from processes to places, where its own accounts are, and each
action is a move in some of them and leaves the others alone.

* `FifoPipeProofs!TypeCorrect`, `MutexIsConserved`, `WaitersAreAccounted`: `TypeOK`,
  `MutexConserved` and `WaitAccounting` of the pipe. The mutex is inductive once it is
  known that the list of `mtx` holds exactly processes that are in a mutex wait, without
  repetition, and only when the count is zero; the same is needed of the two queues. The
  accounting then follows action by action: each moves one process into or out of the
  set the counter answers for.
* `FifoPipeProofs!CountsAreNearlyRight`: `CountsDriftBySignals`. The property alone is not
  inductive: an interrupted `read` or `write` uncounts its end a few steps after the
  signal, when nothing is left to pay for it. `DriftInv` makes the signals pay at once for
  the drift there is and for the undo that is certain to come (`Undoing`), and says which
  handler a process may be in at each point (`InPlace`).
* `FifoPipeProofs!MonitorIsFollowed`, `MonitorIsImplemented`: the pipe against the monitor.
  As long as no wait was interrupted, every action is the one of the monitor with that
  name, or, on the way into the sleep and out of it, a stutter. The signals of the monitor
  that nobody has used are the processes in a wait that the counter no longer counts, so
  a wake is a `cond_signal` because it takes one from the counter (`WakeIsSignal`); who
  comes back with the mutex finds such a signal, because it waits and is not among those
  the counter and the queue still answer for (`WokenHasSignal`, from the accounts). That a
  write goes in whole, and that the end of file is exactly `prod_count = 0`, need the room
  tested by the loop and counts that are not negative, which is what `DriftInv` says
  without signals. The first theorem says it of every behaviour up to its first
  interruption (`FollowsMonitor`), the second is `Spec => Monitor!Spec` for
  `MaxSignals` = 0.
* `FifoPipeProofs!MessagesAreWholeUntilASignal`, `MessagesAreWhole`: `WholeMessages`, up to
  the first interrupted wait and, with `MaxSignals` = 0, always; for calls of one length.
  The invariant says that the contents are messages one after another (`InMessages`: the
  first byte begins one, the last ends one, and in between each byte is the next one of
  the message before it). That a `write` which was let in goes in whole is known from the
  refinement. A take and a put then move by one message (`MessageTaken`, `MessagePut`);
  that the first bytes of the contents are one message is shown by the least place where a
  byte would differ (`FirstMessage`). An end of file with bytes left, which a reader takes
  too, gives it a whole message for the same reason.
* `FifoPipeProofs!ReaderAndWriterDoNotBlock`: `NoMutualBlock`, with any number of
  interrupted waits, for at most one reader and one writer and sizes whose sum does not
  exceed `Capacity` + 1. `PairInv` keeps for each end the reason for which it sleeps: while
  its counter stands and it waits, what it waits for has not come. With one process at an
  end its counter is at most 1, so that any wake brings it to 0 (`LoneCount`); and the two
  reasons, too few bytes and too little room, exclude one another by the sum of the sizes.
* `ProdConsProofs!TypeCorrect`, `MutexIsConserved`, `UnitsAreAccounted`: places and
  elements of prodcons1. The three semaphores are three instances of one notion, an
  account: units counted in the semaphore plus units held by processes equal what there
  is to hand out. One lemma says what a `Down`, an `Up` and a `Cancel` do to an account;
  every action is a move between accounts.
* `ProdConsProofs!BufferIsImplemented`: `Spec => Buffer!Spec`. It needs the accounts:
  `WritePut` is a `Put` of the abstract buffer only because a process that holds a gap
  finds room, and `ReadTake` is a `Get` only because one that holds an element finds a
  value.
* `ProdCons2Proofs!AlwaysConsistent`, `BufferIsImplemented`: the mutex is an account of
  one unit; of each queue, the counter and the units not consumed add up to the processes
  that have counted themselves and have not been woken (`QueueAccount`). Refinement: each critical section that moves a value is a `Put` or a
  `Get` of the abstract buffer, and the rest, interrupted or not, are stutters.
* `CodeTimerProofs!AlwaysConsistent`, `AlwaysExclusive`, `CopiedAreCleaned`,
  `CloseLeavesNothing`, `OddWaitIsAccounted`, `ListsHaveReaders`, the last two of
  `CodeTimerEvenOdd`. A code that lacks its NUL is only ever in a buffer that is full, at
  its end (`Apart`), so that the next store is refused and no two codes are joined. The
  mutex of a list has the work item among its processes; `waiting` and the
  queue of a list are a `QueueAccount` as in prodcons2, in which an `open` that waits for
  the second one sleeps on the odd list's queue whichever file it opens; it holds until an
  update of `waiting` is lost. `FileInv` (the file is open for all its users or for none,
  `jobFinished` is true exactly while the work item is idle) carries the rest. With two
  lists, the account of the queues is joined by a fact that survives a lost update: only
  processes that sleep are on a queue, and a queue with units has none (`LineInv`). `even`
  and `odd` are the numbers of files that read each list, counted from the store of the
  increment to the store of the decrement (`ReadersOf`), unless `leaked` or `miscounted`
  says otherwise (`ReadersCounted`); a code is on its way to a list only while that has a
  reader, unless `overtaken` does (`CodeHasReader`); and a file is closed only after
  `cleanup()` has emptied its list, which is why the exceptions have to be these three.
  TLC refuted two versions of the property with fewer of them.
* `CodeTimerProofs!CodesAreInOrder`: `CodesInOrder`. The property is inductive once it also
  says that the stream begins with a character, ends with a NUL and is in order in
  between (`UpTo`), and that the work item keeps nothing of the buffer when it is done
  (`OrderInv`). A store appends one code of the next number (`PutCode`, `OrderedPut`: an
  unterminated code in the buffer is at its end and fills it, so that nothing more is
  stored), the work item moves the first code from one part of the stream to the other
  (`SplitCode`, `TextsAppend`), and the list loses codes at its front only
  (`OrderedRest`). What `FlattenSeq` makes of a list with one code more or less is shown by
  the least place where its recursion would differ (`FlatAppend`, `FlatFirst`).
* `CodeTimerProofs!TimerIsStarted`: `TimerRuns`, for two or more processes (a single one has
  nobody to meet, and sleeps in `open()` with the timer off). What is excluded is what the
  property excludes. The invariant (`MeetInv`) speaks of the first meeting: nobody has
  closed a file, which is so while `opens` is the number of processes that open or have one
  (`Fresh`, and `ActiveInv` for the inequality that always holds). As long as the timer is
  off in it, either a unit was raised, and a process in the queue has it or one on the way
  there will find it (`Served`), or no opener has come through and at most one waits
  (`Unserved`). The test at line 283 and the load at 284 are two steps, so an opener that
  found nobody (`Passed`) is kept beside those who joined: that there is at most one of
  both kinds is what `crossed` excuses. Lost updates need no exception: while the meeting
  is unserved only that one opener writes `waiting_odd`, so none has been lost; once it is
  served the count does not matter any more. That one who found the counter above 0 raises
  a unit which somebody gets follows from the account of the queue, which in an unserved
  meeting says that `waiting_odd` is the number of those who joined.
* `MultiPCProofs`: `CallsHaveTheirBuffer`, `ListAndDirectoryAgree`, `ListAndBuffersAreSafe`,
  `EntriesAreExact`, `AlwaysConsistent`, that is, every property of the run `multipc`,
  for administrators that keep the client rule (section 2).
  Lemma `BufferKinds` first sorts the steps: a process works *aside* of the buffers, it
  *allocates* or *frees* one, or it *works* on one buffer, in one of the ways listed
  in `WorkKind` (from where to where, and what becomes of mutex, gaps, elements, store and
  strings). What follows is about kinds rather than about actions.
  - `CoreInv` is inductive by itself: types; `Control` (who may be where: while a process
    deletes, no other administers); `ListInv` (no node twice; what is allocated is in the
    list or with its creator); `StoreInv`; `RemoveInv` (a removal stands at a node of the
    list, has the node after it in hand, and has left none of the name behind it);
    `ProcInv` (what is registered is allocated, what is listed is registered or being
    removed); `UseInv` (a call works on a registered buffer, or on one whose removal waits
    for it) and the accounts of the mutexes. The first two theorems follow. `ProcInv`
    cannot do without `RemoveInv`: of two nodes of one name, the deletion that takes the
    name out of `/proc` at the first has still to reach the second.
  - `ListMtxInv`, `QuietInv` and `MemInv` for memory: the list mutex is an account until
    a signal is ignored; a deletion that no call overlaps is alone with its buffer, so a
    drain that found a string still finds it under the mutex.
  - `EntriesInv`: without overlapping increments at most one creation is between the load
    and the store of `++entries`, and it loaded the present value; the limit is counted
    together with the creations that have passed the test.
  - `GapInv`, `ElemInv`, `GotInv` and `StringsAccounted`. The invariant claims
    the elements of a buffer unless a removal stands at a node of its name (`Removed`),
    which says more than the property, whose exception begins with the walk: nothing has
    to be recovered when a walk ends without having found a buffer. Strings are
    two finite sets, processes that have one and places that store one, and a step moves
    at most one string between the outside, the first and the second, except
    `kfifo_free()`, which loses all that came since the last loop test (`StoreEmptied`).
* `ListsProofs!Invariant`, `MemoryIsSafe`, `RingIsIntact`, `ReadsAreConsistent`,
  `UnloadingFreesAll`, `TypeCorrect` (modlist.c), `LockKeepsListWhole`,
  `SMPListStaysWhole` and `SMPListIsAtomic` (SMPmodlist.c), `ListingsAreComplete`
  (modlist2.c). A list of links cannot be followed in an inductive invariant, so the invariant claims a sequence `s` of distinct nodes instead: the links
  forth go through `s` at every instant (`ForthOK`), because an addition and a deletion
  both change the list with one store to a `next`; the links back do too (`BackOK`),
  except while a writer is between its stores, and `Phase` says for each point of
  `__list_add()` and `list_del()` what they are then, and where in `s` the walk stands.
  Lemma `WriterRing` says of a step of a writer that has the list to itself that `s`
  becomes a sequence `t`, the same, one longer or one shorter (`Changed`). It is proved
  once and used twice.
  - In modlist.c a writer has the list to itself as long as no two have overlapped, since
    then any other process in a call reads (`Clashes`, `WriterAlone`). What reads have seen
    is in `Seen`: all of it is still in `s`, in order, and what was listed when the read
    began is in the text or still to come; an addition makes `s` longer and leaves this
    true, and a deletion does not meet a read unless `overlap` says so. The nodes are in
    the order of their allocation (`InOrder`) only because additions do not overlap.
  - In SMPmodlist.c it is the process that holds the lock (`LockOK`: who is inside a
    critical section has it, who is in no call has not). Additions do overlap there, and
    the order of `s` is that of the lock; a new node is allocated outside the lock, so
    that `s` is what is live but for the nodes still to be linked (`Pending`).

  - `SMPListIsAtomic`: `AtomicList` is implemented, with the values of `s` as the contents
    while the lock is free, and while it is held what its holder will leave of them
    (`Now`). So taking the lock is the addition or the removal, and every store after it
    must change nothing: the one that links the node appends what was appended already,
    the one that unlinks a node takes out what was to go (`DropWithout`), and a walk that
    is over has left only what stays (`NoneWithout`, by `Told`, which says of the nodes
    behind a walk that they stay and of a read that its text is the beginning of `s`).
    The links forth say which sequence `s` is (`OneList`). The two lemmas about `Without`,
    a recursive function, take the least place where the recursions would differ
    (`LeastOf`), since an induction theorem cannot be instantiated.
  - `ListingsAreComplete` (modlist2.c, property `SeqListing`): the listing of `ModListSeq`
    is the list of `ModList` and its writers with one more reader, so `IInv` is kept
    (`ListingKeepsList`), and two facts are added. `CountInv`: `numElems` is the number of
    the live nodes and of the one that was unlinked and is still to be freed, as long as
    no two writers have overlapped. `Lines`: a listing has shown `*pos` lines, of which
    each read's first is the first node of `s`, and where it stands in `s` follows from
    `*pos` modulo the lines of a buffer, unless anything has overlapped. At the end
    `*pos` is `numElems`, which is the length of `s` because no writer is at work
    (`CountIsLength`). The arithmetic of the remainder is proved beside it
    (`NextRemainder`), and that the nodes before the k-th of an ordered list are k - 1
    (`OrderedCount`).

  `Listed`, which the properties speak of, follows `next` with a recursive function. That
  it is the set of the nodes of `s` (`ListedRange`) needs that the function exists, which
  is shown by a closed form, round and round `s`, and that it agrees with `s` as far as
  `s` goes, by the least place where it would not (`PathFollows`).
* `BlinkstickProofs!ReferencesAreAccounted`, `NothingFreedIsUsed`, `WritesGoInOrder`,
  `TypeCorrect`. The invariant of the first two has three parts. `Leads` says what leads to a structure: the minor number
  only to the stick that is bound, an `open()` in progress only to the stick of the
  minor number (this is where the lock of the table is needed: `Deregister` waits until
  nobody is there), a file only to a stick connected so far. `Refs` is the account
  itself. That nothing freed is used follows at each use from whoever is counted: the
  file in `write`, the connection in `open` and `disconnect`. The account alone is not
  inductive: an `open()` between `usb_get_intfdata()` and `kref_get()` is not counted
  yet. `WritesGoInOrder` (`WrittenPrefix`) needs one thing more: that whoever is marked as
  alone is the only writer of its stick (`AloneInv`), so that no message but its own
  changes what it has left; and from `Leads`, that a stick connected later is not the one
  of a file that is open.
* `BlinkstickProofs!TheRaceIsRight`, `JudgedWithinOne`, `UserTypeCorrect`. The order of the
  players needs to know who can be off the stick: only the one that was pushed by the
  player whose turn it is, who is at the other end, in the last throw (`PushedLast`).
  What the player is judged by needs where the thread is: after `Show` the light is on
  the LED shown, after `Forward` at most one further, and only the turn at the far end,
  at least two LEDs from the centre, moves it by two (`LightInv`). This bounds by one LED
  the disagreement between readme.txt and the code that `stop_in_centre` finds.

Only model-checked:

* everything that needs fairness (`PairIsWoken`, `SleeperIsWoken`, `ImplementsFairMonitor`,
  `ImplementsFairBuffer`, `FairUnlessInterrupted`, `GoneIsFreed`, `GameEnds`, ...), which is out
  of the prover's reach.

Neither proved nor checked: `WholeMessages` of the pipe for calls of several lengths, and
after an interrupted wait; `NoMutualBlock` beyond the sizes above (with two readers it is
false).

The type invariants of `FifoPipe`, `ProdCons`, `ModList`, `BlinkDrv` and `BlinkUser` are proved
rather than run; those of `ProdCons2`, `MultiPC` and `CodeTimer` are part of their
`Consistent`, which is run and proved.


## 5. Not modelled

* `fifodev.c`: its handlers are those of `fifoproc.c` line by line, and `FifoPipe` is
  their model too; the registration of the device is one sequence of calls, with no
  other actor, whose error paths do not release what came before (lines 290 to 312).
* `user.c` and `fifotest.c`: loops of calls that are inputs of `MultiPC` and `FifoPipe`.
  The producer of integers of user.c writes the four bytes of an `int` where the module
  parses text, so that its consumer waits for ever.
* `modlist1.c`: the list of `ModList` with a second type of node; what differs is the
  text.
* `ledctl.c`, `modledctl.c`: a function of one argument. `clipboard.c`,
  `clipboard_dir.c`: two copies of one buffer with nothing between them that a model
  could order.
* Of modelled components: loading that fails half way; a second open file of the code
  timer (the first work queue is lost, a running timer is initialised: everything after
  is undefined); the mixture of two formats a configuration can leave; the allocations
  that blinkdrv's write leaks (`strsep()` has moved the pointer it frees); the number 0
  in a listing of modlist.c, which has no digits by the count of line 128; everything
  that is printed.
* Kernel configuration, `list.h` beyond the operations used, the system call table, and
  the examples of the course: third-party or straight-line code.
