# A TLA+ model of the adaptive coherence simulator and its workloads

The repository is a Pintool (`src/src/simulator/`, about 1100 lines of C++) that
replays the loads and stores of a multi-threaded program through a simulated
machine: one L1 data cache per processor, a directory that keeps the caches
coherent with an MSI protocol, and a profiler that adds up hits, misses, cycles
and network messages. Its point is a *detector*: per-processor read counters and
the last writer of each directory line, with which a store pushes the data to
the likely consumers (write-update) instead of invalidating them
(write-invalidate). Its workloads are a producer-consumer program
(`src/src/app/app.cpp`) and the SPLASH-2 suite (`src/src/splash2/`), parallel
programs written with the PARMACS macros. This directory holds the
specification of both halves: TLA+ modules, TLC configurations and TLAPS proofs.

File references without a directory are to `src/src/simulator/` in sections on
the simulator, and to the directory of the program under
`src/src/splash2/codes/` elsewhere; `report/` is `src/report/`.

`PROJECT.json` lists the components with their status, the hazards with the
lines where they bite, and the source lines of every definition.

## 1. Inventory

### The simulator

| Part | State | Operations | Interacts with |
| --- | --- | --- | --- |
| `Directory_Line` (coherence.H:30) | `sharer_vector`, `state`, `last_writer`, `read_count_vector` | bit tests and updates, `owner()` scan, saturating counters | only `DIR_MSI` |
| `DIR_MSI` (coherence.H:124, coherence.cpp) | `_directory` (byte address to line), `detector`, the profiler | `process_read`, `process_write`, `invalidate`, and the handlers `fetch`, `fetch_and_invalidate`, `push_and_invalidate`, `read_miss`, `write_miss` | called by the controller and by evictions; calls back `Controller::fetch_cache_line` to push |
| `Cache_Set` (cache.H:38) | ways with `lru`, `tag`, `addr`, `status` | `fetch`, `fetch_single_line`, `evict` | `evict` calls `DIR_MSI::invalidate` |
| `Controller`, `Cache` (cache.H:124, 146) | a cache per processor, address masks | `load_single_line`, `store_single_line`, `fetch_cache_line` | called by the callbacks |
| callbacks.cpp | `mapLock`, `lock_id`, `t_map`, `next_pid`, the controller pointer | `cache_load`, `cache_store`, `thread_attach/detach`, `process_attach/detach` | called by Pin on the application's threads |
| `Profile` (profile.H) | counters per processor and per address | `profile_cache_load/store/evict`, totals | called by `DIR_MSI` |
| simulator.cpp, cache.config | the configuration | reads it, registers the callbacks | Pin |
| `app/app.cpp` | a word and a mutex | one producer, two consumers | the workload of the report |

### SPLASH-2

| Part | Shared state | Synchronisation |
| --- | --- | --- |
| `null_macros/` | pthread mutexes, condition variables, a barrier | what the programs' LOCK, BARRIER, SETPAUSE, WAITPAUSE, CLEARPAUSE, CREATE and WAIT_FOR_END become |
| LU (two versions) | blocks of a matrix, each with an owner | barriers between the three phases of a step |
| FFT | three matrices of rows, each row with an owner | barriers between the six steps |
| RADIX | keys, histograms, a prefix tree | barriers, and one event per node of the tree |
| OCEAN (two versions) | some 25 grids cut into pieces, a stack of coarser grids | barriers, locks for sums and the error |
| WATER-nsquared | molecules, forces, sums | barriers, a lock per molecule |
| WATER-spatial | boxes with lists of molecules | barriers, a lock per box |
| BARNES | an octree of cells and leaves, bodies | locks while the tree is built, flags that are spun on while it is summed up, barriers |
| RAYTRACE | a scene with a hierarchy of grids, work pools, a heap | locks of pools and heap, one barrier |
| VOLREND | a volume with an octree, an image, queues of blocks | barriers, locks of queues and counters, a counter that is spun on, flags of pixels |
| FMM, RADIOSITY, CHOLESKY | see section 6 | |

### What is hard here

* **Orders.** Reads, writes and evictions of all processors reach a line in any
  order. Handlers are serialised by `mapLock`, so the difficulty is not inside a
  handler but in long sequences of them, where the state of the line, its
  sharers, its last writer and its read counters are changed by different
  handlers and must keep agreeing.
* **Stale state.** A store clears the other sharers in the directory only; their
  caches keep the line and evict it later. The directory is keyed by byte
  address, a cache by line, and an eviction tells the directory one address.
* **Re-entrancy.** `push_and_invalidate` calls the controller, which evicts lines
  of other caches, which calls `invalidate` on other directory lines, while the
  first handler holds a reference to its own.
* **Limits.** Full sets, saturating counters, the first way of a set, processor
  numbers used up, shifts of an `int` by the number of a processor.
* **Interleaving.** In the callbacks, one increment outside the lock. In the
  programs, everything between two barriers; which barrier, lock or event orders
  which two accesses is nowhere written down.
* **Waiting.** Events whose flag is seen once and whose mutex is handed from one
  macro to the next; `Done` flags that are spun on; barriers that all must reach.
* **Failure.** There is none to model: nothing is persisted and no message is
  lost; the "network" is a cost.

What makes each part correct: the directory never loses the last written value
and never lets a sharer keep an old one; a cache holds a line in one way and
evicts only when it is full; caches and directory agree on who holds what, up to
the evictions the code does not report; every access is counted once, for the
right processor, and the report is of the whole program; each thread has a
processor while it runs. The programs have no data race, read nothing that is
undefined, and end; and what they share out (keys, pairs of molecules, pixels,
bodies, boxes) is shared out completely and once.

## 2. Modules

    DirectoryLine            Directory_Line and its helpers
      DirMSI                 the handlers of DIR_MSI, as functions of a line
        DirProtocol          one line under reads, writes and evictions
          |  implements      CopySet   (what coherence promises)
        Controller           all caches and the whole directory (with CacheSet)
          |  implements      CopySet, at every address
        ProducerConsumer     app.cpp over DirMSI and Profile
    CacheSet                 Cache_Line, Cache_Set
    Profile                  the counters and totals of profile.H
    Callbacks                the pintool's callbacks, step by step
    Widths                   the bit vectors and address masks in machine words
      MCWidths               |  implements DirectoryLine

    Footprint                what work reads and writes; the text of a thread
      StaticOrder            what the text alone says about the order of threads
        Parmacs              threads under the macros
          MCSplash           the programs on small inputs
    LUNonContiguous, LUContiguous, FFT, Radix, OceanNonContiguous,
    OceanContiguous, WaterNSquared, WaterSpatial, Volrend, Raytrace (with
    RaytraceScene and RaytraceGrid)   the text of a program each, over Footprint
    WaterBoxes, MCWaterBoxes the lists of WATER-spatial while molecules move
    Barnes, MCBarnes         BARNES, step by step

    DirMSIProofs             lemmas about the handlers
      DirProtocolProofs      the theorems about DirProtocol
      ControllerProofs       the theorems about Controller
      ProducerConsumerProofs
    CallbacksProofs
    ParmacsProofs
    WaterBoxesProofs
    BarnesProofs

Operators marked `Fault:` are not part of a specification: each is a definition
as a plausible bug would make it, used to check that a property notices.

### The simulator

**DirectoryLine, DirMSI.** A line is a record. `sharer_vector` is a set of
processors and the counters are a function to `0..3`. A handler is an operator
that takes a line, the requesting processor and the home node and returns a
record: the line it leaves, the response, cost and hops it gives the profiler,
whether a write back was charged, and the callbacks it makes to the controller
(`pushed`, `refetch`). The `if`s of the code are the `IF`s of the operators in
the same order; loops over the processors are sets (their bodies touch one
processor's bits each). `decrease_read_count` is called and then overwritten, as
in the code.

**DirProtocol.** One directory line, with an action per entry point:
`ProcessRead` (coherence.cpp:184-216), `ProcessWrite` (218-256), `Invalidate`
(37-59). An action is a whole handler because `cache_load` and `cache_store`
hold `mapLock` around it (callbacks.cpp:31-47), which `Callbacks` shows to
exclude all others. `Invalidate(S)` takes the evictions that happen for one
address within one store together; `InvalidateIsSequential` says that this is
the same as taking them one by one. An eviction may come from any processor,
sharer or not. The simulator moves no data, so `stale` (memory lacks the last
written value), `fresh` (who was handed it) and `reads` (loads since the writer
changed) are history variables that no action's guard or other variable reads;
they turn the costs the code charges into a statement about data.

**CopySet.** The promise, with no directory at all: which processors hold the
last value and whether memory does. A load joins, a store leaves its writer
(and, if updates are allowed, others), a drop makes memory current when nobody
is left. `DirProtocol` implements it with `copies <- sharer_vector` and
`memory <- IF stale ...`; `Updates` is the detector. So does each address of `Controller`, with all the
caches between the loads and stores and the directory (`LinesImplementCopySet`,
where memory is stale while the line is MODIFIED).

**CacheSet, Controller.** `fetch_single_line` of a set returns the new set and
the address (at most one) that `evict` invalidates, with the scan's details:
strict `<`, start at way 0, start address 0. Controller has `load_single_line`
and `store_single_line` as its actions, each the whole call: the lookup or
install, the eviction it causes, the directory's handler, the refetch, the
pushes into other caches and the evictions these cause. Its directory includes
address 0, which no program accesses and evictions reach.

**Callbacks.** Threads and the tool's main thread call the callbacks that
simulator.cpp registers, in the order in which Pin makes them. A callback is
four steps: `IncrementId` (`lock_id++`, outside the lock, as a read and a
write), `GetLock`, `Look` and `Update` (the body, its reads before its writes,
so that a lock that did not exclude would show), `ReleaseLock`. The simulated
machine is a counter per processor here: each access adds one.

**Profile, ProducerConsumer.** Profile is every counter of profile.H and the
totals that `stats_to_string` prints. ProducerConsumer is `main`, `produce` and
`consume` of app.cpp access by access: the mutex word is read and written like
any other word, each access goes through `DirMSI` on its line and then through
`Profile`; caches may evict at any moment (`Evict`, at most `MaxEvictions`
times).

**Widths.** The same helpers as DirectoryLine in words of `IntBits` bits, with
the shifts, masks and sign extension of the C++ expressions, and the masks that
split an address into offset, set, tag and home node. MCWidths instantiates
DirectoryLine with a mapping that reads the bits.

### SPLASH-2

**Footprint.** A program is what its threads do to shared memory, not the
numbers: `Foot(r, w)` is a piece of work that reads `r` and writes `w`, with
`Then`, `Each`, `InOrder` and `Loop` for the control of C. A thread is a
sequence of operations: work, and the macros. Work that follows work is fused:
nothing orders the threads in between, so what one does in it meets all the
other does.

**Parmacs.** The macros as `null_macros/c.m4.null.POSIX_BARRIER` defines them,
with the mutexes and condition variables of pthreads: `WAITPAUSE` tests the flag
once and keeps the mutex, `CLEARPAUSE` resets the flag and gives it back,
`CREATE` runs the function on the calling thread too. Init picks a program; a
step is one macro or one piece of work. Spurious wake-ups, which POSIX allows
and the single test would not survive, are left out.

**The programs.** Each module translates the functions of its program into
footprints, with the bounds of every loop, who owns what, and the order of the
synchronisation. What the data decides is chosen by Init: the route through the
grids of OCEAN's solver, who takes which bundle in RAYTRACE and which block in
VOLREND, which rays hit, which boxes of the picture are rough. In
RADIX the values are there: the keys, ranks and permutations are computed.
`WaterNSquared`, `WaterSpatial`, `Raytrace` and `Volrend` also have the arithmetic
of their schedules, and `Volrend` the bits of its octree; `WaterAddsAllForces` and
`PicturesAreComplete` check them for many sizes. VOLREND prepares its volume in
one process, as its user_options.H has it.

**WaterBoxes, Barnes.** Where processes do meet without a barrier in between,
footprints are too coarse, and these modules are state machines of their own,
one action per access that another process can come before or after: the lists
of boxes while BNDRY moves molecules, and the loading, summing and dividing of
the tree. Barnes' cubes and child sequences are constants, so that it does not
depend on coordinates.


## 3. Runs

| Run | Instance | Distinct states | Shows |
| --- | --- | --- | --- |
| `line_baseline` | 3 processors, home 1 | 391,966 | write-invalidate: INVALID exactly without sharers, one owner, exact hits, ownership transfers charged |
| `line_adaptive` | 3 processors, detector | 76,084 | the detector: memory and copies, the producer's duty, each write back charged once, who is pushed to, and that the line implements `CopySet` |
| `caches` | 2 processors, 2 sets of 2 ways, lines of 2 bytes, detector | 114,334 | pushes and evictions compose to single-line handlers, every address implements `CopySet`, lines are in one way, only full sets lose lines |
| `callbacks` | 2 threads, 2 processors | 19,966 | no callback fails, no access is lost, every callback returns |
| `producer_consumer` | 4 processors, 4 rounds of the producer, 1 of each consumer, 1 eviction | 110,013 | the report is of the program, qualified consumers hit, the program ends |
| `widths` | 3 processors, ints of 6 bits, addresses of 5 | 13,452 | the bits implement `DirectoryLine`, addresses are split |
| `splash` | 19 programs with 2 to 4 threads | 75,130 | no unknown race or undefined read, mutexes in order, nothing stuck, keys sorted, forces added, pictures complete |
| `water_boxes` | 3 processes, 3 boxes, 2 molecules | 899,207 | on one condition every molecule moves once and ends in its box; the step ends |
| `barnes` | 2 processes, 4 bodies, 2 time steps | 147,903 | the tree is complete and its sums too, each body has a process, the program ends |
| `new_writer_hits`, `way0_eviction`, `molecule_lost` | | | violations, section 5 |

### Bounds

The **line runs** have none: costs and hops are those of one handler, and
everything else is finite. Three processors are a writer, a reader that becomes a
consumer and one that does not (or a second writer). The baseline has the more
states because its read counters are only reset by a write to an INVALID line,
so they are nearly free.

**Controller** is bounded by `MaxLru` (3), the uses of a way: enough for a line
to be accessed twice, to lose against another and to be pushed over. The lines of
addresses 1, 5 and 8 are all in set 0, three lines for two ways, so that either way
is displaced; address 0 is in the directory because evictions from way 0 reach it.
`Writable` keeps the instance small. No two addresses of the run are in one line
(a fourth address for that takes TLC more than five minutes): the disjunct of
`SharersLoseLinesByEviction` about a line that came in with another address is
reached only by its theorem, which, like the others, needs no bound.

**Callbacks** is bounded by `IdMax`, the values of `lock_id`, and `CountMod`,
modulo which accesses are counted; a thread may come, run and go any number of
times. `next_pid` is used up by the second thread. **ProducerConsumer** is the
program to its end; the one eviction may come anywhere. **Widths** scales the
words down so that a counter field crosses the sign bit with three processors,
and takes every combination of sizes in `MCConfigs`.

**MCSplash** has every program on an input just large enough that each thread
has work in every phase and that neighbours meet: matrices of 2 x 2 to 3 x 3
blocks, 4 to 8 keys, grids with one coarser level, boxes with and without
neighbours, a hierarchy of one grid in another, a screen of 4 x 4 pixels seen
from two sides, with and without a block that two processes take. FFT comes with
rows that divide into blocks and with rows that do not. `MCKnownRaces` and
`MCKnownUndefined` give each program its own locations, those of the block taken
twice only where it is. `VIEW View` leaves out `code`,
which `prog` determines.

**Barnes** has four bodies that can come to share a leaf, split it, or be alone;
`MCBarnes` picks places for each. **WaterBoxes** has a third process so that a
molecule can pass through a box whose owner is neither its source nor its
destination.

`CHECK_DEADLOCK FALSE` is set where the program ends or a bound stops it.
Programs under `Parmacs` may not stop before their end: `NeverStuck`.

### Fairness

* `Callbacks`: a thread in a callback goes on (`WF` of its steps) and is not
  passed over for ever at the lock (`SF(GetLock)`). That is an assumption about
  `PIN_GetLock`, which is not in the repository: no lock that can starve a thread
  would do. Nothing makes a thread call.
* `ProducerConsumer`, `WaterBoxes`, `Barnes`: each thread goes on (`WF` of its
  step), as any scheduler of an operating system has it. Mutexes of
  `ProducerConsumer` are taken by spinning on a word. Evictions and, in
  `WaterBoxes`, the choice of a schedule have no fairness.
* `Parmacs` has none and no liveness property. Every step but a `Sleep` advances
  a thread and a thread sleeps at most once per operation, so every run is finite,
  and with `NeverStuck` it ends at the end of the program.

## 4. Proofs

All theorems are for every value of the constants, under the assumptions named in
the modules; TLC evaluates these on each run.

**DirMSIProofs, DirProtocolProofs.** The properties of the line runs for every
number of processors, every home node and both values of the detector, from
`NumProcessorsAssumption` (a positive number), `DetectorAssumption` (a Boolean)
and `HomeAssumption` (a processor). `DirMSIProofs` has one lemma per handler that
gives each field of its result (`FetchLine`, `PushLine`, `ReadLine`, `WriteLine`,
`InvalidateLine`, ...); the costs are naturals because hops are cardinalities of
finite sets. The inductive invariant is

    IInv == TypeOK /\ InvalidIffUnshared /\ StaleIffModified /\ SharersAreFresh
              /\ SingleOwner /\ ProducerHoldsCopy /\ ConsumersHaveRead

Only `TypeOK` and `ConsumersHaveRead` are close to inductive alone. A sharer is
fresh after a read miss only if memory is current when the line is not MODIFIED
(`StaleIffModified`). That survives an eviction only if a MODIFIED line that
loses its last sharer loses its owner, the one that writes back: this is
`SingleOwner` in the baseline and `ProducerHoldsCopy` with the detector, and the
lemma `OwnerWritesBack` is the place where they are used. `SingleOwner` in turn
needs that without the detector a MODIFIED line that is written back becomes
INVALID although `invalidate` clears one bit only. `InitIInv` and `NextIInv`
(one lemma per action) give `Invariance`; the state invariants follow, and the
action properties, the refinement of `CopySet` (`Refinement`) and through it
`NothingIsLost` are proved step by step from the same invariant.

**ControllerProofs.** The caches with the whole directory, for every geometry
(`ControllerAssumption`: positive powers of two, no program address 0). The
invariant is `DirectoryInv` (every directory line is typed and coherent) and
`CacheInv` (`SetInv` of every set: what is cached is in the set and under the tag
of the address it came with, what is not has no tag, no tag is in two ways;
counters within the bound). `FetchSet` is the main lemma: a lookup or install
keeps `SetInv` and never evicts the address it is for. With it, and with
`InvalidateTwice` (two rounds of evictions are one), `StepsAreHandlers` shows that
a store with all its pushes does at most one handler's work on any directory
line, which is what justifies studying a line alone in `DirProtocol`. The other
half of that justification is `EveryLineKeepsItsPromise`: whatever handler it is,
a coherent line does by it what `CopySet` allows (`HandlerKeepsPromise`), so that
the machine as a whole implements the promise at every address. That a set
has a victim at all is the well-foundedness of the naturals (`MinNat`).

The second part of the module is about evictions: `IInv == Inv /\ UsedInv /\
ReadInv`. A set loses a line only if it is full, although the victim is the way
with the smallest counter and a push fills a way without counting a use: a way
is CACHED exactly when its counter is above zero (`UsedInv`), which holds
because a push goes only to a processor that has the line already or whose set
is full. That is `ReadInv`: a processor with a counted read of an address still
has its line, or its set is full. `NoEarlyEviction` and
`SharersAreLeftByEviction` follow.

**CallbacksProofs.** `IInv` has, besides the types and the three safety
properties, who is in which
step of a callback and holds the lock (`LockInv`, `OpInv`), what a thread that
has attached and not detached finds in `t_map` (`AttachInv`), what the tool's
main thread has done (`MainInv`), and that what a body has read is still so when
it writes (`SeenInv`). `SeenInv` is the point of the lock, and `HandlersExclude`
is what makes `cache_load` and `cache_store` one action in `Controller`. The race
on `lock_id` is in the model and the invariant says nothing of its value: no
property depends on it.

**ProducerConsumerProofs.** The invariant is about the directory lines
(`DirInv`, with the lemmas of `DirMSIProofs`), the counted reads of consumers
whose copies are still there (`HitInv`), the mutex and the threads (`ThreadInv`),
and the counters (`ProfileInv`, `MadeInv`). `QualifiedReadersAlwaysHit` is the
claim of the report seen from the program: once the detector has qualified a
consumer, its reads hit. `EveryAccessIsBooked` is the part of
`ReportIsOfTheProgram` that is about each processor: hits and misses are the
accesses made, and at the end those of the text. Summing over the processors is
induction over data and stays with TLC.

**ParmacsProofs.** What the synchronisation of a program orders, for every set of
programs and any number of threads. The argument is about a clock, as in
`StaticOrder`: a table `behind` that says, for each place in the text of a thread,
how many operations of every other thread are over. `Vouched` checks it against
the text: a thread starts with nothing behind it, and what a barrier, the start of
a thread, `WAIT_FOR_END` or `WAITPAUSE` adds must be behind the operation that it
follows (`Follows`). For a `WAITPAUSE` that is the `SETPAUSE` of the same turn: one
that is made when the event has been cleared as often as the waiting thread has
cleared it. That is only right if no two `SETPAUSE` of an event have the same turn
and one thread alone waits for it and clears it each time (`EventsTakeTurns`), and
this in turn is read off the clock: the circle is sound because the invariant is
about what has happened so far.

`IInv` says that a thread holds exactly the mutexes its text says (`MutexInv`),
that the workers are at the same barrier and main past `CREATE` (`OrderInv`).
On it rests `Placed`: what the clock puts behind a thread is over (`ClockInv`), and
a `SETPAUSE` is over once the thread has waited more often than its turn, or has
cleared as often and sees the flag or is woken (`EventInv`). The last case is what
`WAITPAUSE` needs, which does not test the flag again after it slept. `SetInTurn`
is the heart of it: an event is never set while a previous setting has not been
cleared, so no setting is lost in another. `WhatFollows` and `ClockStep` then bring
the clock forward.

Two pieces of work that are next in two threads are therefore not behind each
other in the clock and keep no common mutex; if such pieces have known conflicts
only (`OrderedBut`), there is no other race (`OrderedProgramsHaveNoRace`). What is
read was stored before if the clock has a store behind it (`WrittenBut`,
`WrittenProgramsReadNothingUndefined`). Both theorems assume a clock for each
program; `TextOrders`, an assumption of `MCSplash` that TLC evaluates, gives one for
each of the 19 (`ClockOf`), RADIX with its tree of events included. So the
exploration of interleavings is confirmed by an argument that does not need it.

That nothing gets stuck needs more than the clock: a line of all operations
(`NoCircularWait`), in which each comes after those it waits for, the workers'
barriers of one round are in the same place, and nobody waits with a mutex.
`SetInv` is the other half of `EventInv`: a `SETPAUSE` that is over has set the
flag, nobody has cleared it too early and nobody sleeps on it any more, so that no
wake-up is lost. Then the thread whose next operation is first in the line, or one
that has a mutex, can move (`SomebodyMoves`, `OrderedProgramsAreNeverStuck`).
`TextOrders` finds such a line for each program as well (`RankOf`: the number of
operations behind). `NeverStuck` is stated with the guards of the actions, as
`ENABLED` is out of the prover's reach; the run also checks for deadlocks.

**WaterBoxesProofs.** `LateMovesAreSafe` for every number of processes, boxes and
molecules and all schedules that give each box one owner (`WaterBoxesAssumption`,
which the partition of `start_end` provides). The lists are in pieces while
molecules move, so the invariant (`Lists`) says what they mean: `home`, the box in
whose list a molecule is or Nowhere between `Remove` and `Push`; `pos`, the order
in a list; `succ`, the next one, which `next_mol` tells except for the molecule
whose `Link` is still to come. Given these, a process that goes through its list
has not lost its place (`Looping`), the molecules it is not through with are those
from its place on (`Yet`), and only these are not corrected (`Counted`) or in the
wrong box (`Settled`). The condition `~early` is needed exactly where a new first
molecule is pushed into a list: its owner, if it is not the process that pushes,
must be done with BNDRY, or it would be passed by or its predecessor taken for the
first. What a chain of links contains is the smallest closed set (`Chain`), which
`ChainIsList` finds by a first molecule that is not in it.

**BarnesProofs.** `TreeIsComplete` for every number of processes, bodies, children,
levels and mutexes, wherever the bodies are, from `BarnesAssumption` (positive
numbers, finitely many bodies, at least two levels, child sequences that have all
children). `TreeInv` has an invariant for each phase of a time step (`LoadPhase`,
`SumPhase`, `DividePhase`, `EndPhase`), as what one phase ends with is what the
next one begins with.

While the tree is built it is described by functions that the program does not
have (`TreeShape`): `lev`, how far down a node is, `zone`, the bodies whose way
down goes through it, and `kid`, the children as they will be when the cells have
been hung up that their makers still hold back (`Links`). In a tree of that shape
the way of a body goes exactly through the nodes in whose zone it is
(`WayInZones`), so a search for it cannot miss its leaf. `src` tells of each body
in a leaf which place of which table it was loaded from (`Held`): that each copy
is in one leaf, once, is a bijection between the two (`HeldCount`).

Where the mutexes matter is `Walker`, what a process knows on its way. That a child
that is not null stays so and a cell stays a cell is all the unlocked tests of
`loadtree` may rely on; that a child is still null or the leaf still has room is
known under the mutex of the cell, as every other process that would change the
same child needs the same mutex (`Alone`). A process never changes what another
one knows (`OthersWalk`). Since mutexes are shared by cells, the argument is never
about which cell one is for. The four changes of the tree are `Inserting`,
`Adding`, `Subdividing` and `Hanging`; the subdivision, in which a leaf is shared
out among new ones while everybody else still sees the old one, is the longest.

For the sums, `SumPhase` says which nodes are summed, which are taken into the sum
of their parent, and that the Done flags are those in between: a node that is
summed has as many bodies as its zone, and a cell under way those of the children
it has taken (`UnderCell`, a disjoint union over the children). No order of cells
is assumed there; that the order in `hackcofm` is one in which nobody waits for
itself is liveness, and is checked (`Finishes`). `DividePhase` keeps what a process
is to visit inside the tree, so that all bodies it takes are bodies of the system
and are counted in the next cube (`Counted`); that every body has exactly one
process (`EachBodyHasOneProcess`) is a sum over a recursion and stays with TLC.

**Only model-checked.** `Widths` uses the bitwise operators.
`EachBodyHasOneProcess` adds up the costs along a recursion through the tree;
`RadixSorts`, `WaterAddsAllForces`, `PicturesAreComplete` and the sums of
`ReportIsOfTheProgram` are induction over data. Liveness
(`EveryCallbackReturns`, `Finishes` twice, `StepEnds`) is out of the prover's
reach.

## 5. Where the code differs from what it says

Three runs expect a violation. Each checks one statement that the code does not
keep:

| Run | Says | The code |
| --- | --- | --- |
| `new_writer_hits` | coherence.cpp:17 and 22 which response is which | with the detector, a store by a new writer without a copy is a hit, because its bit is set first (149) |
| `way0_eviction` | coherence.cpp:37, cache.H:91 an eviction invalidates the directory line | a victim in way 0 invalidates address 0 (cache.H:95); the write back is lost |
| `molecule_lost` | WATER-spatial bndry.C:69 a molecule is put in its box | lists are read without their locks while others change them (84); a molecule can end in another list or in none |

The passing runs keep clear of the same places by name: `FullBeforeEvict` and
`SharersLoseLinesByEviction` are the other half of the second one,
`LateMovesAreSafe` of the third; `KnownRaces` and `KnownUndefined` list the
locations of the races and undefined reads below.

Other differences are visible in the definitions and have no run of their own.

*Simulator.* No write back is charged when the last writer changes
(report/main.tex:261). Only the
address that brought a line in is invalidated, not the whole line (cache.H:91). A
push evicts, so it has an effect on locality (253). Replacement is by least use
with counts inherited from the line before (cache.H:76), not LRU (cache.H:36,
main.tex:252). Consumers need two counted reads (`qualified_reader`), not one
(231). Only reads that miss are counted (coherence.cpp:210), not every read
(main.tex:208 and Algorithm 1), so what a push turns into hits no longer counts.
Counters are reset on a change of writer, not decreased (239), which makes
`decrease_read_count` void. With several sharers `owner()` is the lowest
(coherence.cpp:27). The assertion `pid < 64` (coherence.H:77) admits as many
processors as the vector has bits, but `1 << (pid * 2)` (80) is the shift of an int:
from processor 16 on it is undefined, and on x86 the increment goes to the counter
of processor pid - 16. `Fits` in `Widths` is the condition without that.

*OCEAN.* In the contiguous version `work3` is not what its comment says
(slave2.C:242 and 244-292), the coarse border of `putz` is never set to zero
(multi.C:528), and columns of `f` at the edges are left (slave2.C:385). The day
flags are never reset (slave1.C:503). `work7[0]` is written by two processes
(slave2.C:542).

*WATER.* VIR is read before the first step has set it. In WATER-spatial a list can
become a cycle, and KINETI may miss molecules.

*FFT.* `Transpose` rounds the size of its blocks down (fft.C:722): unless the number
of blocks divides a thread's rows, the last ones are never copied, and `trans` is
used without having been set there. In `splash` the instance with 8 rows and 3
cache lines has it, and `NeverTransposed` names the elements.

*BARNES.* The barrier after `find_my_bodies` is commented out (code.C:665): a process
that already computes forces sets costs by which others still divide the bodies,
so a body can get two processes or none; positions are advanced while others compute forces
(689). `startrun` always makes test data (near 482), `mynumleaf` of process 0 is
never reset (327), and loadtree's `valid_root` is overwritten (load.C:204).

*RAYTRACE.* tri.C frees `nlist` (848) that `TriTransform` updates, and reads
`vorder` (425), which nothing sets. memory.C clears the links of a block after the
UNLOCK (337). `GetJobs` reads the pool's state without its lock (workpool.C:203),
and `frand` shares its seed (trace.C:47). `InitWorkPool` does not end if a block is
wider than the picture.

*VOLREND.* A process resets its queue without the mutex (adaptive.C:344) after a
counter that lets the others go on (97): a block that was taken before is traced, and
laid over the picture, twice. In adaptive mode two processes may trace the same pixel
of the edge of a box, because the flag is tested and set without a mutex.
`Init_Decomposition` uses `maxcu` and `newfactor` unset for most numbers of processes
(main.C:495), and `voxel_section` is then arbitrary; the serial preprocessing
computes with it and does not use the result. The factors of the number of processes
are looked for below its root and not up to it (482). Only the last process stops at
the end of the image when the image is cleared (main.C:269-282): if the rounded up
partitions of the others do not fit, as for 12 processes and 8 x 8 pixels, they clear
memory behind it. `PicturesAreComplete` says that this condition is exact.

## 6. What is not modelled

* FMM. The adaptive tree and its interaction lists follow from the positions of the
  particles, number by number; below a size where the lists of two processes meet,
  every box is a leaf. The construction of a tree under locks is in `Barnes`.
* CHOLESKY. Tasks follow from the sparse structure of an input matrix through an
  elimination tree, supernodes and a domain partition; no input is small enough for
  TLC that has more than one domain.
* RADIOSITY. The task queues create tasks from visibility and energies in floating
  point; most of the code is the geometry of a room, with graphics.
* In the modelled programs: OCEAN's exit at its work limit, the numbers in
  WATER's potentials and its cutoff, the sizes of BARNES' tables, and what the
  programs print.
* In the simulator: Pin itself, the parsing of the configuration, the layout of
  the statistics; scripts, figures and results.
* Spurious wake-ups of condition variables. The macros test their flags once
  (POSIX_BARRIER:90), so a program with events does not survive one.
