# Verification of owswan: links, locks, packing and interrupts

owswan is Open Watcom v2 with a target for the WonderSwan console. This
directory holds TLA+ models of the parts of it that have a protocol, a layout
contract, threads or an interrupt discipline, the TLC configurations that check
them on small instances, and proofs that TLAPS checks for every value of the
parameters. All paths below are relative to the root of the repository; `bld/`
stands for `open-watcom-v2/bld/`.

## Inventory

The repository is mostly sequential translators (compilers, assembler, linker,
librarian, make). Their correctness is a relation between files; no useful
property of theirs is about reachable states. What is left is listed here with
state, operations, interactions and what makes it correct.

| Part | State | Operations | Interacts with | Hard | Correct when |
|---|---|---|---|---|---|
| Serial link, `bld/trap/ser/c/serlink.c` | `SendBlkNo`, `ReceiveBlkNo`, `LastResponse`, `Errors`, `PrevErrors`, the port | `RemotePut`/`BlockSend`, `RemoteGet`/`WaitReceive`/`BlockReceive`, `ReSync`, `RemoteConnect`, `SetSyncTime` | its peer over a line, the request layer above | loss, damage, crossing of answers, timeouts, resynchronisation | blocks are taken once and in order; acknowledged means taken; a request ends. With faults it falls short of each, see below |
| Request layer, `bld/trap/common/remote.c`, `servacc.c`, `packet.c` | packet buffer, nesting of sessions | `DoRequest`, `DoAccess`, `Session`, connect, suspend, resume | the link below, debugger or trap DLL above | requests without reply, nested sessions, failures of the link | the answer read belongs to the request put; sessions unwind to the right loop |
| TCP transport, `bld/trap/tcp` | listening socket, one connection | accept, put, get, disconnect | operating system, request layer | an end of connection or a reset in the middle; the backlog | the same as the serial link |
| Other transports, `bld/trap/{par,nmp,nov,net,...}` | parallel port, handles | the same interface | operating system | the parallel handshake | the same as the serial link |
| ROM tool, `bld/wscromtool/c/rom.c`, `wscromtool.c` | the image being built | `rom`, `load_rom`, `find_rom_size`, `patch_rom_metadata` | linker (`bld/wl/lnk/specs.sp`), start-up code | sizes at the edges of banks, 8-bit bank numbers, padding | everything is where start-up code and program look for it |
| Data banks, `bld/wscromtool/c/fs.c` | list of files, banks | `next_fit`, `repeat_next_fit`, `build_data_file` | ROM tool, generated header | a file at exactly the room left, failures half way | header and banks agree, no file straddles a bank |
| Start-up code, `bld/libwsc/startup/a/wsccrt0.asm` | RAM, bank registers, interrupt controller | clear, copy, store bank numbers, set vectors, enable | ROM tool, program | a reset of a running program; registers kept alive over string operations | `main` always starts from the linked state |
| Interrupts, `bld/libwsc/lib/c/irq.c`, `bld/libwsc/h/inlines.h` | `REG_INT_*`, vectors | `set_hw_irq`, `ack_hw_irq`, `enable_irq`, `disable_irq` | hardware, handlers | an interrupt between any two instructions | no half vector is used, no interrupt is lost, none fires for the past |
| DMA helpers, `bld/libwsc/lib/c/dma.c` | none | two sequences of port writes | hardware | none | - |
| Batch server of the IDE, `bld/idebatch/nt` | pipe, child process | commands, `batserv`'s output polling | IDE, child | end of output against end of process, cancel | no output is lost, every command is answered |
| C library locks and threads, `bld/clib/mthread/c` | semaphores with owner and count, per-thread data | `__AccessSemaphore`, `__ReleaseSemaphore`, thread list | every library call; `sem_wait`, `sem_post` of `bld/clib/linux/c` | creation on first use, reads without a lock, wake-ups | a recursive lock |
| POSIX threads, `bld/clib/posix/c` | catalog of threads, a mutex per thread | `pthread_create`, `_exit`, `_detach`, `_join` | kernel, heap | a list that one user walks without its lock | a join waits for the end of its thread and returns |
| POSIX synchronisation, `bld/clib/posix/c` | mutexes, condition variables, read-write locks, barriers, once controls | lock, wait, signal, broadcast, ... | counting semaphores | waiters counted and woken one by one, retries | exclusion, rounds, nobody forgotten |
| C library near heap, `bld/clib/heap/c` | mini-heaps, rover, largest block before the rover | allocate, free, expand, shrink | programs | stale bounds | no block that would do is hidden |
| Compilers, linker, make, editors; debugger front ends and GUI; other run-time functions; build, docs, contributed code | - | - | - | sequential, or event loops over system services | not modelled |

The parts meet in two places. Debugger and debug server are two programs that
run the same `serlink.c`, built with and without `SERVER`; the request layer
calls it. ROM tool, linker specification, bootstrap (`wscrom.h`), start-up code
and program are written in three languages and share nothing but numbers: where
code, data and metadata are and how banks are counted.

`PROJECT.json` lists every hazard with the line where it bites and the
properties that cover it, or the reason why none does yet.

## Modules

| Module | Stands for | Code |
|---|---|---|
| `SerChannel` | what `RemotePut` and `RemoteGet` promise: a lossy pair of FIFO channels, and one that is reliable until a side gives up unheard | abstract |
| `SerLink` | both sides of `serlink.c` and the line; implements `SerChannel` | `serlink.c` 405-602, 963-1002; calling order from `remote.c`, `servacc.c` |
| `SerLink_proofs` | type correctness, inductive invariant, order, both refinements, answers to the current request | |
| `SerSync`, `MCSerSync` | how the two sides agree on a speed, tick by tick; `MCSerSync` has the lines to try | `serlink.c` 55-324, 612-620, `busywait.c` 39-54, `serint.asm` 234-241, `serdos.c` 299-307 |
| `SerSync_proofs` | type correctness, the server is never alone, the best speed is found but for port errors | |
| `TrapSession` | a debug server with nested sessions, and the debuggers that link to it over TCP | `bld/trap/common/servacc.c`, `serv.c`, `remote.c`, `packet.c`, `bld/trap/tcp/c/tcplink.c`, `bld/wv/c/remmisc.c` |
| `TrapSession_proofs` | type correctness and all four safety properties | |
| `WscRom` | from linked program to `main`, reset included | `rom.c`, `wscromtool.c` `find_rom_size`, `wscrom.h`, `wsccrt0.asm` to line 136 |
| `WscFs` | packing of data files into banks | `fs.c` |
| `WscFs_proofs` | type correctness, tight packing, every file found, the number of banks | |
| `WscIrq` | the interrupt part of `wsccrt0.asm`, `irq.c`, hardware, a program with handlers | `wsccrt0.asm` 138-161, `irq.c` |
| `Wsc_proofs` | of `WscRom` and `WscIrq`: type correctness and all seven safety properties | |
| `RecursiveLock` | what `__AccessSemaphore` and `__ReleaseSemaphore` promise | abstract |
| `ThreadLock` | the two functions over the futex semaphore; implements `RecursiveLock` | `mthread.c`, `sem_wait.c`, `sem_post.c`, `sem_init.c`, `__atomic.c` |
| `ThreadLock_proofs` | type correctness, both invariants, refinement | |
| `PtThreads` | threads made, detached, joined, and their catalog | `ptcreate.c`, `ptexit.c`, `ptjoin.c`, `ptdetach.c`, `_ptint.c` |
| `PtThreads_proofs` | type correctness, a join waits for the end, the catalog is exact | |
| `PtSync`, `MCPtSync` | the synchronisation objects; `MCPtSync` has nine programs that use them | `ptmutex.c`, `ptcond.c`, `ptrwlock.c`, `ptbar.c`, `ptonce.c` |
| `PtDiscipline` | the rules by which a thread may use those objects, call after call | none: what the functions expect of their callers |
| `PtSync_proofs` | all four safety properties, for programs that keep to the rules | |

`WscRom` and `WscIrq` cut `wsccrt0.asm` at line 138: memory and bank selection
on one side, controller on the other; below `__begdata` RAM belongs to `WscIrq`
(its `Init` has the vectors cleared), above to `WscRom`. The binary `WscFs`
writes is the raw data of `WscRom`. `TrapSession` and `SerLink` are the same
request layer over two transports. Definitions marked `mutant:` are wrong
variants of the definition that follows them, listed in `PROJECT.json`:
replacing the definition by the variant must break the named property.

### SerLink

Variables carry the names in the source; each is a function on
`{"client", "server"}`. `mode` is the place in the code: `get` is the loop of
`WaitReceive`, `put` the wait in `BlockSend`, `drain` the loop at 473 that
discards input, `resync` the loop of `ReSync`, `idle` and `busy` are outside of
the link. `wire[p]` is what is on its way to `p`. `cur`, `log`, `emptied`, `acked`,
`unheard` and `faults` are history. One action is one passage through the loop of
`BlockSend` or `WaitReceive`: a message (or silence) and all that is done about
it, so the case analysis of `BlockSend` appears as `PutAck`, `PutNak`, `PutRlr`,
`PutOther`, `PutSilence`, `PutTimeout`.

A block is atomic on the wire as long as it is intact. A damaged block becomes
one to `MaxJunk` pieces of junk, each of which a receiver may take for a control
byte of `Noise`, the beginning of a block (`STX`), or something to skip.
`ClearCom` discards any prefix of what is on its way (`Remains`), and may cut a
block. Left out of the noise is `ACK`: a damaged block that is read as an `ACK`
confirms anything, which no property of this protocol survives, and so does a
CRC that happens to match.

Time is represented by what a wait may assume. With `Premature` a wait may end
at any moment. Without it (`NoData`), a wait ends only when nothing is on its
way to the side that waits and nothing the other side could hear would make it
answer, and the one-second wait of `BlockSend` ends after the 750 ms wait of the
other side's `drain` (`NoAnswer`). A put runs out of its ten seconds after
`MaxTries` silent waits, wherever the other side is: `unheard` records that this has
happened while that side was outside of the link code (a debugger at its prompt, a
server that runs the program). `emptied` has the blocks for which `RemoteGet`
resynchronised and returned 0 bytes (975-979); they are taken all the same, as they
have been acknowledged and their number is used up.

### SerSync

After `RemoteConnect` or too many errors both sides call `Speed` with the same
`BaudCounter`, try that speed, and go on to slower ones until a test string has
passed in both directions. They exchange nothing between attempts: each side
counts ticks from `MarchToTheSameDrummer` and starts attempts at sync points it
computes. So this module, unlike `SerLink`, has time: `timer` is what is left of
the wait a side is in, `clock` is `GetTimerTicks`, `Tick` lets the clocks advance
in turns when neither side has anything to do, and `Skew` is the difference
`Wait(1)` may leave between them.

`pc` is the place in the code: `hello`, `lok`, `ack`, `drum` in `SetSyncTime` and
`MarchToTheSameDrummer`, `point`, `slop`, `hi` in `SetBaud`, `sender`, `sync`,
`string`, `tak`, `tak-again` in `SetBaudSender`, `end`, `check`, `ack-string` in
`SetBaudReceiver`; `pass` tells the two drummers, and the two directions, apart.
The client sends first; the roles change in the second pass (`Role`).

`line` says for each speed whether single bytes get through (`"byte"`) and to
whom a string does. Beside that up to `MaxLoss` bytes are lost or damaged
anywhere. Bytes between ports at different speeds arrive as nothing or as
something else. The sync string is one item that arrives when its last byte
would, or as `JUNK`; a string that comes before its `SYNC_END` is read as control
bytes, and as 8 and 4 (`SYNC_BYTE`, `SYNC_END`) are in it, does what
`StringTooSoon` says. `ClearsInput` is whether `ClearCom` discards what has been
received: it does in the DOS, OS/2 and QNX ports, not in `sernt.c`.

`flag` is the error a port keeps until `Baud` or `CheckPendingError` clears it; `ClearCom`
does not. With `FlagsErrors` any bytes that are not received as they were sent may set it,
as they do in the DOS port (`serint.asm` 234-241). `CheckSyncString` looks at it before
it looks at the string (`PendingError`), and gives a string up at the first wrong byte
(`StringSpoilt`), when its rest is still on its way to a port that has by then been set to the
next speed.

Left out: the waits that are longer when `MaxBaud` is `MIN_BAUD` (a modem), the
exchange of the two sides' limits in `RemoteConnect`, and `Baud` returning false
(the DOS and NT ports never do).

### WscRom

Memory is counted in units and a bank has `Bank` of them. `Image` is the file
`load_rom` writes, as a function from positions to tokens (`<<"code", 3>>` is
unit 3 of the code). `Read` is the console's address decoding; the properties
compare tokens seen through `Read` with those the linker meant, so every
computed number on the way (size, bank numbers, `POS_METADATA`, the copy of the
data, the bootstrap's jump) has to be right for them to hold. `Reset` may occur
whenever `main` runs and leaves RAM as it is; the bank registers then hold any
value of `AtReset`.

Things the code does that no property needs: the metadata's `flags` are
computed and not stored, `system` is always 1 (`rom.c` 152-181); the assertions
at `rom.c` 240-241 hold no longer for every input that the rest of `load_rom`
accepts, but release builds define `NDEBUG`. Data in RAM are at most
`Bank - BegData`, so the unsigned comparison at `rom.c` 298 does not wrap.

### WscIrq

One action per store to a register or to half a vector in `set_hw_irq`
(`AckOne`, `ReadEnable`, `StoreHalf`, `StoreRest`, `WriteEnable`), since an
interrupt may fall between any two. The controller latches events in `status`
(`Event`), and `Dispatch` takes the highest one that is enabled. Handlers run
with interrupts off to their `iret`; so a call of `set_hw_irq` in a handler is
one step (`Install`).

`set_hw_irq` takes no precaution of its own, so what it guarantees depends on
how it is called. The model has the two styles the repository shows: `masked`
(both examples: interrupts off around the calls in `main`; handlers may then
install as well) and `plain` (`main` starts with interrupts on and calls
`set_hw_irq` for an interrupt it has not enabled; handlers do not install).
Calling it in `main` with interrupts on while handlers call it too is outside of
both: the read of `REG_INT_ENABLE` at `irq.c` 38 and the write at 44 would then
undo what a handler enabled in between.

### TrapSession

The server is one thread, so one action is what it does from one place where it
may wait to the next: `Accept` (in `main` between sessions, and in the loop by
which `REQ_SUSPEND` waits for somebody), `Serve` (`GetPacket` and the whole switch
of `Session` for the request), `Key` and `Poll` (the loop of `main`). `depth` counts
the activations of `Session`, which calls itself for a request after a suspend;
`Return` is what the activation below does with the result. `data_socket` is the
one connection that is served. A client is where it stands in the calls the
debugger makes (`st`), and each of its links has a wire of requests and one of
answers. `Current` is its last link.

TCP is external. A connection is complete for the client as soon as it is in the
backlog; what is sent arrives in order; an end of the connection is seen after all
that was sent before it (`closed`), or takes it along (`reset`). The client sends a
suspend or disconnect and closes, so these are seen in order. A client may crash
at any time, with either kind of end.

Two things the server does after a failure are in the model as the code has
them. After a reset `GetPacket` returns `REQUEST_FAILED`, which `Session` takes for a
length: the request that is still in `PackBuff` is executed again (`ServeStale`).
After an orderly end without disconnect `recv` returns 0 and `recvData` calls it
again for ever (`Spin`). `again` marks the first; every property but `AllServed`
speaks of runs in which it has not happened, and both need a client that crashed.

### WscFs

One action is one file in one of the three passes: `Stat` in `build_file_table`,
`Pack` in `next_fit` or `repeat_next_fit`, `AddFile` in `build_data_file`. A file is
its size and its units are tokens; `Change` is another program that writes or
removes a file between any two steps, which is why a later pass may find a
shorter file than an earlier one (`Short`). `macro` is what has been written into the
header, `out` what is in the binary. The header is good for the compiler when it
ends with its `#endif` (`closed`). How names of macros are formed is left out (two
files may get the same name: a hazard that no property covers).

### ThreadLock and RecursiveLock

Reads and writes of words that threads share are steps of their own: the looks at
`obj->initialized`, the compare-and-swap of the semaphore's value, the futex word. `owner`
and `count` are written in one step, and read in one: only the thread that holds the lock
writes either, and `count` matters only to a thread that is the owner. `pc` is the place,
`sem` the object the thread is busy with, which is `InitSemaphore` while it creates another.
The futex itself is external: a wait sleeps if the word is the one it was told and ends when
woken or after 0.1 ms (the code's time limit, `Timeout`). `holds` and `made` are history;
`RecursiveLock` has nothing but `holds`, and the refinement maps it to itself.

### PtThreads

`Main` creates, detaches and joins; each worker runs its routine and ends. What is
done under the catalog's semaphore is one step, but `__get_thread` in
`pthread_exit` walks without it (`Exit`, `WalkOn`), and `__unregister_thread` stores the
head after it has let go (`ReadHead`, `StoreHead`). A freed node's link may be
anything (`WalkOn`): that is undefined behaviour of the code.

### PtSync and MCPtSync

A thread is the stack of calls and places it has left, so that a barrier's wait is
the mutex calls and condition waits the code makes, step by step. Under all are
counting semaphores, whose own code is in `ThreadLock`. `Programs` gives each
thread the calls to make; what a program does between its calls (add an item,
take one or wait for one) is an action of the model as well, since the
condition-variable protocol is only right together with it. Mutexes are of the
default kind, `PTHREAD_MUTEX_ERRORCHECK`.

`PtDiscipline` says which programs the proofs are about. It looks at one thread alone:
its mode is what it has (mutexes, the read-write lock, the knowledge that the routine of
`pthread_once` has run, its place in a barrier), and `Moves` says for each call what it may
turn into and which mode it leaves, over every answer the objects might give. A program is
`Legal` if it never comes to a call that has no move, such as a wait without the mutex or the
second `rdlock` of one thread (which POSIX allows: the rules are narrower than POSIX
there). `Legal` asks for a closed set of programs and modes, since a
`get` may wait any number of times. For the nine programs of `MCPtSync` that set is computed
(`Onward`), and TLC evaluates the assumption `Discipline` when it runs `pt_sync`: they are
`Disciplined`, and `Limit` is the number of threads. So the hypotheses of the theorems hold of
the programs the run has.

## Runs

| Run | Question | Outcome |
|---|---|---|
| `ser_noisy` | Are blocks taken at most once and in order, is the link a lossy FIFO channel, and does the debugger only read the answer to its current request, with three faults, misread noise and requests without reply? | `TypeOK`, `InOrderOnce`, `LossyChannel` hold, and `AnswersCurrent`, which speaks of runs in which no side has given up unheard; 1,257,306 states |
| `ser_single` | With one fault per exchange and waits long enough: is everything acknowledged taken, nothing passed over, nothing emptied unless the sender resynchronises too, and does every request end? | `ReliableChannel`, `RequestEnds` hold, both until a side has given up unheard; 63,901 states |
| `ser_idle` | Does every request return (`RequestReturns`) with one fault and a debugger that may be away for longer than ten seconds? | violated, see findings |
| `ser_speed` | Is the server never alone on a speed, do both settle on the fastest usable one but for those a port error spoils, and does every attempt end, with ports that keep errors, clocks a tick apart and a byte lost anywhere? | `ServerNotAlone`, `BestSpeed`, `SpeedEnds` hold; 328,868 states |
| `trap_session` | Do nested sessions unwind to the right client, are requests executed once and in order, do answers match, and is everything served, with two debuggers and crashes? | `DepthIsSuspended`, `AnswersMatch`, `OnceInOrder`, `ResumeContinues`, `AllServed` hold; 103,843 states |
| `wsc_rom` | Do ROM tool, bootstrap, start-up code and `GET_DATA_BANK` agree for all lengths, after power on and reset? Is a program refused only for its size? | `CodeInPlace`, `DataBanksFound`, `RefusedOnlyIfTooBig`, `MainStartsClean` hold; 113,268 states |
| `wsc_fs` | Does a finished header lead to every unit of every file, does its number of banks agree with the binary, and is the packing as tight as the algorithms promise, while another program changes a file? | `FilesFound`, `BanksAgree`, `PackedTight` hold; 646,902 states |
| `wsc_irq` | Interrupts between any two steps: half vectors, lost or stale interrupts? | `IrqTypeOK`, `VectorReady`, `InstalledStays`, `NoStaleEvent` hold; 28,650 states |
| `thread_lock` | Are the library's locks recursive locks, each made once, never said to have a wrong owner, and is no wake-up lost for good? | `TypeOK`, `MadeOnce`, `OwnerKept`, `RecursiveLocks`, `SomebodyGetsIt` hold; 62,685 states |
| `pt_threads` | Does a join wait for the end of its thread, is the catalog exact, and do create and join return, with three threads that come and go? | `TypeOK`, `JoinedHasEnded`, `CatalogExact`, `CreateReturns`, `JoinReturnsUndetached` hold; 101,140 states |
| `pt_join` | Does a join return when another thread has been detached? | `JoinReturns` violated, see findings |
| `pt_sync` | Exclusion, barrier rounds, no token left behind, every program ends? | `Exclusion`, `NoCorrection`, `BarrierRounds`, `NoLeftToken`, `AllEnd` hold; 37,682 states |

All runs but `thread_lock` set `CHECK_DEADLOCK FALSE`, because the system may stop
for good: a debugger that has made its requests, a server whose operator has ended
it, a program the ROM tool refused, a processor that was halted, threads that have
nothing left to do. That nothing stops too early is what the liveness properties
say. The threads of `thread_lock` take and release locks for ever, and TLC looks
for a deadlock.

### Bounds

- `Wire = UInt = 4`, three requests and three faults in `ser_noisy` suffice for an
  answer, its repetition and the answers of two earlier requests to be on the way
  at once. With `MaxJunk = 2`, where one block may be misread twice, the properties hold as
  well (5,804,823 states), and the proofs have them for any number.
- In `ser_single` the fault count starts again when both sides are at rest
  (`AtRest`), so four requests may have a fault each, and `SendBlkNo` wraps. `MaxJunk = 3`
  lets one fault cause more NAKs than `MAX_ERRORS`, and with them a `ReSync` in the next
  exchange.
  `MAX_ERRORS = 2` is the value in the source. `Noise` is empty and every request
  wants a reply: misread noise counts as a further fault.
- `MaxTries` stands for the number of silent seconds in a put (ten in the
  source); only whether there are any left is looked at.
- `ser_speed` has two speeds, `MIN_BAUD` beside them, and every quality of the line at
  each that `MCLines` can express; failing at one speed and succeeding at the next is
  the step all others repeat. The tick counts are those of the source (18.2 ticks a
  second); only `StringTicks` is the same for both speeds. With `Low = 2` and `MaxLoss = 0`
  the invariants hold as well (604,140 states), and with `FlagsErrors = FALSE` so does
  `HighestSpeed` (235,376 states). With `Skew = 2`, a whole
  `SYNC_SLOP`, `BestSpeed` fails: the first side's `SDATA_HI` is cleared by the second.
- `wsc_rom` has 16 segments of 4 units, so the code goes from one unit to all of
  the address space, in every position relative to the edge of a bank, with data
  of 0 to 2 units and raw data of 0 to 3 banks; ROMs of 2, 4, 8 and 16 banks make
  a program fit exactly, by padding, and not at all. `Starts` has both linked
  addresses and one that is not aligned.
- `wsc_irq` has three interrupts (one that is installed, one that interrupts, one
  left alone) and two handlers (one that is replaced by the other).

- `trap_session` has two clients, two links that may wait, three links and one plain
  request for each, so a client can suspend, find the other being served, come back
  and do it again, while the other waits behind it or is suspended too. With two
  plain requests and four links the invariants and action properties hold as well
  (1,258,342 states); `TrapSession_proofs` has them for any number.
- `wsc_fs` has banks of four units and up to four files of zero to five units, one
  more than a bank, so every sum of sizes around one, two and three banks occurs. One
  change at any time is enough for each file to be seen differently by each pass.
- `thread_lock` has two threads, so that each can be the one that sleeps, wakes or
  creates; two locks, since `InitSemaphore` is shared between their creations; and
  nesting two deep, so that a count may be one too many or too few.
- `pt_threads` has three workers of which two may be detached: two removals may
  interleave beside a walk, with a node before, between and behind them. `pt_join`
  needs two.
- `pt_sync` has three threads (two that wait and one that signals, or two writers and a
  reader, or a barrier of three passed twice) and the nine programs of `MCPtSync`, for each
  kind of object at least one; `Limit` is the number of threads, as the barrier is made
  for all of them.

### Fairness

`FairSpec` assumes that each side keeps running its loop while it is in the link code (weak
fairness of `BlockSend(p)` and `WaitReceive(p)`: they are loops with timeouts, and nothing
else runs on the line), that a server carries out the request it has (`Carry`), and that two
sides in `ReSync` meet. Nothing is assumed about the debugger's asking or about the line's
faults. Only `RequestEnds` needs it, and `RequestReturns` is refuted under it. `SerSync`
assumes no more than that something happens while something can (`WF_vars(Next)`): clocks
tick, and a program with a byte to read or a wait that is over goes on before the next tick.
`SpeedEnds` needs it.

`TrapSession` assumes that the server runs, and that a debugger that has connected or
suspended its link goes on and ends its session some day (`Proceeds`); whether it
asks, suspends or crashes is open. `ThreadLock` assumes that a thread inside a library
call goes on, as the kernel runs every thread, and that it releases what it holds
(`GiveUp`). `PtThreads` assumes that each worker goes on and that a call of `Main` that may
return does; the program need not make any call. `PtSync` assumes the same of every
thread, and that a thread that would have a semaphore again and again gets it some day (strong
fairness of `Take`): `pthread_rwlock_wrlock` takes and gives back `block_mutex` in a loop
while there are readers, and sleeps 10 ms in between, in which a waiting reader gets it.

## Proofs

`SerLink_proofs` proves, for every width of the counters, every bound and every
choice of the flags allowed by `NumberAssumption` and `BoundAssumption`:

- `TypeCorrect`: `Spec => []TypeOK`;
- `InOrder`: `Spec => []InOrderOnce`;
- `Refinement`: `Spec => LossyChannel`, the initial state and every step mapped to
  a step of `SerChannel` or to a stutter;
- `AnswersAreCurrent`: `Patient => (Spec => AnswersCurrent)`;
- `Reliable`: `OneFault => (Spec => ReliableChannel)`.

`InOrderOnce` is not inductive: that a block in flight is not taken twice depends
on its number. The invariant `IInv` says for each direction (`Direction`), with
`l` the block taken last, `r` the number expected next, `c` the block put last
and `n` the number put on it: every block on the wire lies between `l` and `c`;
a copy of `l` does not carry `r`; a copy of `c` carries `n` while the sender is
sending it, and then `n # r` if `c` has been taken already; blocks on the wire
are in the order of their names, and equal names have equal numbers. A failed
put reuses its number for the next block, which is why nothing stronger than
`n # r` can be said, and why a block may be dropped but none is taken twice. The
lemmas about `Thin` say that what `ClearCom`, loss, damage and consumption leave
of the wire is a subsequence as far as blocks are concerned, and `Direction` is
preserved by that (`DirectionThin`). `Answering` adds that a server answers each
request at most once.

`AnswersAreCurrent` is about what may be on its way at each place of the two sides, and
needs that they do not give up early. `Patient` says so: no wait ends while an answer is
coming (`~Premature`), and silence uses up the time limit only after more errors than make
both sides resynchronise (`MAX_ERRORS < MaxTries`; 2 and 10 in the source). Nor does the
property speak of what follows when a put has run out of time while the other side was
outside of the link (`unheard`). Each part is needed: without any one of them TLC finds the
debugger reading the answer to an earlier request, with `MAX_ERRORS = MaxTries = 1` and four
faults, with `Premature` and two, without the exception for `unheard` and two. The invariant
`Answers` is inductive together with `IInv`; TLC checked it on the constants of `ser_noisy`
first. Its parts: a request that is not the last one and may still be taken wants neither
reply nor resynchronisation (`Asking`), and neither does the last one when the debugger has
left with it on the line (`Left`); when the debugger listens, or will without a `ReSync`
before, every answer on its way has been taken or is the one it waits for (`Trusting`); only
who wants an answer gets one (`Wanted`); who runs out of time has had too many errors
(`Tired`), so that the next request makes both sides resynchronise and `ClearCom` removes
the late answer; the two meet there with the same request (`Meeting`, `Leaving`). Most steps
only consume, repeat a block or send a byte: they are `Chats`, and one lemma (`ChatKeeps`)
is enough for all of them; `Things` forgets the order of what is on the line.

`Reliable` says that nothing is passed over, that what is acknowledged has been taken, and
that `RemoteGet` returns 0 bytes for a block only when `RemotePut` resynchronises after it
(`due` in `SerChannel`). A put that is given up while the other side is outside of the link
(`GiveUp`) leaves a lossy channel, as the code does: the number is used again and the next
block is dropped. As acknowledgements carry no number, more is so only while there are few
faults, and `OneFault` says how few: one message lost or damaged between two rests of the
line (`MaxFault <= 1`), no junk that looks like a control byte (`Noise = {}`), a put that
asks at least once before it gives up, waits that do not end too early (`~Premature`), a
reply to every request (`~OneWay`), and block numbers that come round with the header's or
do not get so far (`UInt = Wire \/ MaxPut < Wire`). The number of blocks, the error limit,
the length of the time limit and the amount of junk are arbitrary. Each part is needed:
without any one of them TLC finds `ReliableChannel` violated. The invariant `Single`, which
holds until `unheard`, names the stage of the exchange. The side whose `Turn` it is puts a
block, which is on its way (`Coming`); if the line loses or damages it, it is asked for and
sent again (`Repair`) until it is `Taken`. Then its ACK comes, or it is behind junk, or it
was lost, or it is being discarded, and meanwhile the other side may have put its own block
(`Crossed`); too many errors in the exchange before lead through `HalfSync` and `FullSync`.
For each stage it is known what may be on the line in either direction, and whether the two
numbers agree (`Settled`), or one block is to be taken (`Pending`) or was taken without its
sender knowing (`Unconfirmed`). `Blamed` adds that more errors than the limit come from a
fault of this exchange, which is therefore the last one. One lemma for each stage
(`TurnStep` to `FullSyncStep`) has the stages that may follow; TLC checked `Single` before
it was proved: with the constants of `ser_single`, with numbers that come round sooner and
numbers that do not, with no errors allowed and with one try.

For `WscIrq`, `Wsc_proofs` proves, for every set of interrupts and handlers, `IrqTypes`,
`NeverWild` (`VectorReady`), `NoneLost` (`InstalledStays`) and `NoneStale`
(`NoStaleEvent`). The invariant says in addition what start-up has done by which
instruction, that every enabled interrupt has an owner and is not stale, and,
inside `set_hw_irq`, that either interrupts are off, or the interrupt being
installed has no owner yet and the copy of `REG_INT_ENABLE` is up to date.

`TrapSession_proofs` proves, for every number of clients, links, plain requests and
waiting connections, `TypesOK`, `Depth` (`DepthIsSuspended`), `Answers`
(`AnswersMatch`), `InOrder` (`OnceInOrder`) and `Resumes` (`ResumeContinues`). None of them is
inductive: that the server executes the requests of a client in order rests on which
link it takes next. `Clean` says what stands where. A link begins with a resume unless
it is the first of its client, and ends with a suspend unless it is the last; nothing
that is answered or that ends a link is followed by anything (`Contents`, `Starts`,
`Suspending`); the links of a client are accepted in their order, and none is left out between
one that is held and the last (`Ordered`); the client that is served is one the server
knows to be suspended until its resume has been executed (`Serving`), and the client of
the next link to be accepted is one, or it is new (`Expected`); the numbers of the requests run
on from the last one executed through all links to the last one sent (`Numbered`).
There is one lemma for each kind of step, `SendsClean`, `DialsClean`, `AnsweredClean`,
`GoneClean`, `AcceptClean`, `ServeClean` and `IdleClean`. After a stale request nothing is
claimed but types (`again`).

`WscFs_proofs` proves, for every capacity, any number of files and changes, `TypeCorrect`,
`Tight` (`PackedTight`), `Found` (`FilesFound`) and `Agree` (`BanksAgree`). Why a unit of a
file is where the header says needs that the place computed when writing is the one planned
when packing. As sums over files cannot be reasoned about without induction over data, the
invariant has instead a placement of the files, made when they are packed one by one
(`Planned`): an assignment of offsets such that files of one bank do not overlap and end
where the room left begins. Writing follows it (`Followed`), and what has been written is
what the header describes (`Described`, `Stored`); `BanksApart` keeps different banks from
touching each other's positions.

`ThreadLock_proofs` proves, for any threads, locks and depth, `TypesOK`, `MadeOnceAlways`,
`OwnerKeptAlways` and `Refinement` (`Spec => RecursiveLocks`). The invariant accounts for the
token of each semaphore (`Tokens`): the value is 0 or 1, and it is 1 or exactly one thread has
taken it and not yet posted; `owner` and `count` are those of that thread (`Members`); a
semaphore that is not `initialized` has a creator at most, who holds `InitSemaphore`
(`Created`, `Ready`).

`PtThreads_proofs` proves, for any number of threads, `TypesOK`, `JoinedHasEndedAlways`
(`JoinedHasEnded`) and `CatalogExactAlways` (`CatalogExact`). A join waits for the end whatever the
walk without a lock meets: a worker has its own `running_mutex` from before it is known to
anybody until it has ended (`Running`), so that `Main` cannot have it earlier (`Joining`). The
catalog is exact although a removal stores the head after it has let go of the semaphore:
nobody removes the node of `Main`, so what is stored is what was there. That a walk meets a node is
said without counting its steps: `Listed` is the least set that has the head and is closed
under links, and `Chained` that no smaller set of nodes is. Appending and unlinking a node
keep that (`AppendChained`, `RemoveChained`), and no induction over the list is needed.

`PtSync_proofs` proves, for any number of threads and any programs that are `Disciplined`,
`Excluded` (`Exclusion`) and `Uncorrected` (`NoCorrection`), and if besides the barrier
counts as many as there are threads, `InRounds` (`BarrierRounds`) and `TokensTaken`
(`NoLeftToken`). The second hypothesis is there because `BarrierRounds` tells the rounds
apart by how often a thread has called `pthread_barrier_wait`, which is the round it is in
only if all threads are needed for each; the part of the invariant about tokens goes by the
same places. The invariant is that some assignment `G` of modes to the threads is `Good`:
what each thread has left to do is legal in its mode (`Legals`); a mutex has one user at
most, and its owner is that user as long as it may be (`Mutexes`); `read_waiters` is the
number of readers, and none is there beside a writer (`RwLocks`); the routine of
`pthread_once` has run when somebody knows it (`Onces`). For the barrier (`Rounds`), `count`
is the number of threads that have come to the round and `waiters` of those that sleep; the
thread that came last hands out one token after the other and goes on to the next when the
waiter has left (`Handing`, `Passing`); a thread is in the round before, in this one or on
its way out of it by its place alone (`Place`). A step of the model is first shown to be a
move of the rules, which gives the new modes, and then to keep the parts it touches.

For `WscRom`, `Wsc_proofs` proves, for every size of a bank, every program and every set of
ROM sizes, `TypeCorrect`, `BanksFound` (`DataBanksFound`), `RefusedRightly`
(`RefusedOnlyIfTooBig`), `CleanStart` (`MainStartsClean`) and `CodeStands` (`CodeInPlace`).
The last one assumes that an aligned program starts at two or four banks, which is where
`specs.sp` links the targets `wsc` and `wscl`. The invariant says that what the tool wrote
stays what it was laid out to be (`Laid`), that code is running at a place where a window
shows it (`InWindow`), and how far start-up has got in filling RAM and which bank numbers it
has stored (`Filled`). The work is in the arithmetic: lemmas on rounding up to whole banks
(`Apart`, `DivMod`, `Rounded`), on what the least ROM that fits leaves unused (`Sizes`), on
what is in which cell of the image (`BankOf`, `Cells`), and on which cell is seen through
each of the three windows (`FirstAt`, `SecondAt`, `AboveAt`), bank numbers being bytes
counted from the end of the ROM.

`SerSync_proofs` proves, for every number of speeds, every line, any number of lost bytes
and any lengths of the waits, `TypeCorrect`, and where `ClearCom` discards what has come in
`NotAlone` (`ServerNotAlone`). The server settles with the last byte of the test, the
second `SDATA_TAK`, so it must not take an old one for it. Two sides hear each
other only with their ports at the same speed, and then they are at the same attempt
(`Tuned`, `SameSpeed`). The client sends two in each attempt and settles with the second. Hence
(`Answered`), from a sync point on, the server has received none while the client may yet
answer its string (`MayAnswer`), and no second one before the client has settled on this
speed (`BothUp`); what is left over from earlier attempts `ClearCom` removes. The roles
of the two directions (`Roles`) exclude the other ways into and out of the tests.

It also proves `BestSpeedReached` (`BestSpeed`) and, for ports that keep no errors
(`~FlagsErrors`), `HighestReached` (`HighestSpeed`), again for every number of speeds and
every line, from `ClearsInput` and from `InTime`: `SYNC_SLOP`, `MAX_BAUD_SET_TICKS` and the
waits for LOK and ACK are each longer than `Skew`. The values of the code (2, 6, 36 and 9
ticks, and 1 for `Skew`) satisfy that; with `SYNC_SLOP` equal to `Skew` TLC finds
`BestSpeed` violated, so nothing weaker will do for it. The invariant (`Best`) says that
while no byte has been lost the two are `Abreast`, in one of the phases `Greeting`,
`Drummers`, `Between`, `FirstPoint`, `Trying`, `Deaf`, `HeardFirst`, `Sends`, `Turns`,
`GivesUp` and `Settled`, each of which says where both are, what either has received and not
read, and how the two speeds and sync points compare. Every speed tried so far was to be
passed over (`Slower`): it does not carry everything, or it was `Spoilt`, as a faster one
let bytes through but not a whole string and the port keeps errors (`Avoided`). `Calm` adds
that an error is pending only at a speed that is to be passed over anyway. Time comes in by
two bounds. `InStep`: the two have counted the same ticks since `MarchToTheSameDrummer` but
for `Skew`, and one more for the side whose turn it is not, where the ticks are counted by
`timer` in the drummers and by `clock` later on (`Now`). `Ahead`: so many ticks are left
until the next sync point, at each place as many as the waits there take from the sync point
before (`Left`, `Room`). From the two follows that the first side's `SDATA_HI` comes after
the second's `ClearCom` (`Clocks`), that a side that has gone on to the next speed is still
waiting when the other one gives up (`DeafStep`, `StillTime`), and that each failure leaves
time before the next attempt (`Margins`). There is one lemma for each phase (`DrummersStep`,
`TryingStep`, `SendsStep` and so on) that says which phases may follow, and `StaysAbreast`
puts them together. TLC has checked `Best` as an invariant before: with the constants of
`ser_speed`, and with waits that are only just long enough.

Every safety property of the passing runs is proved. Only model-checked is what is out of the
prover's reach, liveness under fairness: `RequestEnds`, `SpeedEnds`, `AllServed`,
`SomebodyGetsIt`, `CreateReturns`, `JoinReturnsUndetached`, `AllEnd`. No module a proof is
about has a `RECURSIVE` operator; `Onward` is in `MCPtSync`, which only a run uses.

## Findings

- `ser_idle`: `RemotePut` gives up after ten seconds (991, 454-456) also while the debugger
  is at its prompt. If the ACK of a reply was lost, the server keeps its number although the
  debugger has counted on; the next reply is acknowledged and dropped by number (556-561),
  the server goes to `ReSync` and the debugger stays in `RemoteGet`, both for ever. Line 965
  speaks of a "time limit for getting the data", which is `FOREVER`, and 609 says `ReSync`
  "Returns:  true or false".
- `pt_join`: `pthread_exit` finds its own thread by a walk of the catalog without the
  lock (`_ptint.c` 166-183, `ptexit.c`), while a detached thread that ends unlinks,
  clears and frees its node. The walk may end early; the thread then leaves with its
  mutex locked, and a join for it waits for ever. `ptexit.c` 58 says "Unlock to release
  any joins".

### Observations

Found while modelling, without a run of their own. The first seven can be seen by
changing a configuration as said.

- A block's number has two bytes, `ReceiveBlkNo` is an `unsigned` that is never reduced
  (`serlink.c` 47-48, 556, 566). With 32-bit `unsigned`, after 65536 blocks nothing matches any
  more and every block is acknowledged and dropped, without any fault; the comment at 397 has
  the number "wrapping". (`AckedTaken` as an invariant of `ser_idle` with `UInt = 16`,
  `MaxFault = 0`, `MaxPut = 5`.)
- When a block says that its sender had more than `MAX_ERRORS` errors before, `RemoteGet`
  resynchronises, sets `BytesReceived` to 0 and returns it (`serlink.c` 975-979), though the block has
  been acknowledged and is in the buffer. One damaged block that is misread three times is
  enough, and the next block is lost to the caller; the comment at 961 has "Return:  Number of
  bytes received". (`NothingEmptied` as an invariant of `ser_idle` with `MaxJunk = 3`.)
- A side that gives up a string sets its port to the next speed while the rest of the
  string arrives at the old one. In the DOS port that sets `ErrorFlag` after `Baud` has
  cleared it, `ClearCom` leaves it, and `CheckSyncString` fails at once (149-150) on a line without
  fault, so a slower speed is settled on than the "highest possible baud rate" of 303.
  (`HighestSpeed` as an invariant of `ser_speed`.)
- Acknowledgements carry no number. When a block and then the answer to `RLR` that
  would tell are lost or stem from the block before, `BlockSend` returns true for a
  block nobody received. (`AckedTaken` as an invariant of `ser_idle` with `MaxFault = 2`.)
- `ClearCom` in `sernt.c` 232-235 empties the write cache only. The rest of a test string
  with a bad byte stays in the input, is taken for the answer to `SDATA_HI` in the
  next attempts, and every slower speed fails, although that port reports no errors.
  (`HighestSpeed` as an invariant of `ser_speed` with `ClearsInput = FALSE`,
  `FlagsErrors = FALSE`.)
- A `wsc` program has one bank of code mapped at `$2000:0000` and nothing sets
  `REG_BANK_ROM1`; code beyond its first bank is not where it was linked, although
  `src/README.md` 45 speaks of 917504 bytes. (`AllCodeInPlace` as an invariant of `wsc_rom`.)
- `wsccrt0.asm` 145-148 stores the offset of `halt_system` into offsets and segments alike of
  vectors 0 to 7 and does not reach the hardware vectors. (`UninitializedHalts` as an
  invariant of `wsc_irq`.)
- With waits that may end at any time `SerLink` keeps what its proofs say: with `Wire = UInt
  = 2`, `MAX_ERRORS = 0`, `MaxTries = 1`, `MaxPut = 2`, `MaxFault = 1`, `MaxJunk = 1`, both
  kinds of noise, `OneWay` and `Premature`, `TypeOK`, `InOrderOnce` and `LossyChannel` hold
  on 1,973,947 states.
- The debugger's documentation of traps (`trap.gml`) expects a server that is linked to to refuse
  other attempts; over TCP the backlog accepts them, and they wait.
- `recvData` calls `recv` again when it returns 0 (`Spin`), and after a reset the request in
  `PackBuff` is executed once more (`ServeStale`).
- `pthread_cond_timedwait` that runs out while a signal is being given leaves the signal's
  token behind, and the next wait ends at once; that is why `NoLeftToken` speaks of the
  condition variable of the barrier. A `pthread_rwlock_wrlock` by a thread that has the lock
  for writing returns 0 without nesting, so the first of two unlocks frees it.
- `ptspin.c` 89 takes a spin lock by swapping 0 for 1, but initialisation and unlock store
  `UNLOCKED`, which is 1: a free spin lock cannot be taken.
- An empty file that follows a full bank gets an `OFFS_` of 65536, which nobody will use;
  when the header cannot be opened, the binary has been truncated already (`NoHeader`).

## Plan

Done: `SerChannel`, `SerLink`, `WscRom`, `WscIrq`, `SerSync`, `TrapSession`,
`ThreadLock`, `RecursiveLock`, `PtThreads`, `PtSync`, `WscFs` and proofs about all of them
but the two abstract ones. What is left, in order:

1. `RemoteConnect` with block number 0 and the exchange of limits as further actions of
   `SerSync`.
2. `BatchServer`: the child's output against its end.
3. `NearHeap`: the rover's bound. Keys with destructors and cleanup handlers of the POSIX
   threads; the order in which the stream functions take their locks.

## Not modelled, and why

Compilers, assembler, linker, librarian, make and editors are functions from
files to files. Debugger front ends, GUI libraries and the IDE are event loops
over operating system services. Transports other than the serial line and TCP wrap
protocols of the operating system, except `parlink.c`, whose handshake is written for
about a dozen layouts of ports. Run-time functions other than heap and threads keep
no state. Of the threads, the builds for other systems than Linux, keys, cleanup
handlers, cancellation and spin locks are left out; of the request layer, how a packet is
put together from pieces. The DMA helpers have no state. ROM header
fields and checksum (`rom.c` 152-236) and the command line are left out since
nothing reads them back in the modelled parts.
