# AccuTrak: models, checks and proofs

AccuTrak replaces the allocation routines of a running program.  Its library patches the
modules of the process so that `malloc`, `free`, `realloc`, `calloc`, `new` and `delete` go to
routines of its own, in one of several modes: a *dead page* beside every block, *padding*
around every block, *recording* of every call, or a private heap.  What was recorded is merged
into one log by the consolidator, listed by a viewer, and executed again or analysed by a
replay tool.  This directory holds TLA+ modules of all of these, TLC configurations for them,
and TLAPS proofs about the page layer, the dead-page and the padding routines, the configuration and
the patching, the recording, the consolidator, and the replay tool in its three modes.

## The system

| part | state | operations | hard |
|---|---|---|---|
| Page layer (`SysAlloc.cpp`) | two caches of freed blocks, free tags, page protection; on Windows a table of chunk headers | `GetPages`, `ReleasePages`; `System_mmap`, `System_munmap` of Windows | threads share the caches under one lock, but test the limit without it; `mprotect` may be refused; eviction order; a table that grows |
| Dead-page routines (`MallocDeadPage.cpp`) | embedded headers, pool and list of separate headers | `malloc`, `free`, `realloc` | finding the header from a user address; sizes at a boundary; a header listed before it is filled; double free |
| Padding routines (`MallocPadding.cpp`) | in-use list, deferred list and its byte counter, signatures and tails | `malloc`, `free`, `realloc`, whole-heap check | the check runs beside other threads' `malloc` and `free`; counter arithmetic; failed `realloc`; deferral against eviction |
| Configuration (`ConfigParser.cpp`) | the settings, the list of modules and the routines for each | reading of the file, line by line; completion at its end | what an option means depends on the lines before it; limits and signs of numbers |
| Patch manager (`PatchManager.cpp`) and platform patchers (`PatchElf64.cpp`, ...) | slots of the loaded modules, marks of what is patched, `AccuTrak.rec` | `Patch`, `PostDlopen`, `PostDlclose`, `CheckAll` | slots are overwritten one by one under running threads; modules that are unloaded and come back; names that contain each other; a patch that fails half-way |
| Logger (`MallocLogger.cpp`) | a buffer and a log file per thread | log of `malloc`, `free`, `realloc`; exit of a thread, exit of the process | the operation is done before it is stamped; full buffers; files of different ends; a process that is killed |
| Consolidator (`MallocLogConsolidator.cpp`) | positions in the log files, live blocks, blocks released by another thread | merge by time stamp, match of a release with its allocation, second pass over the output | equal stamps, empty and cut-off files, unmatched records, missing time stamps between threads |
| Viewer (`MallocLogViewer.cpp`) | none | views by thread, by time, totals | the same files, read by other code |
| Replay (`MallocReplay.cpp`) | two read-ahead buffers, the batch, tables of blocks; for the analysis a hash table in an internal buffer | controller, disk thread, workers; `-t`, `-p` | mutexes used as semaphores; records cut off by a buffer; a thread waits for another's block; sleep and wake-up of the disk thread |
| Red-black tree (`Tree.h`) | nodes that live in the blocks they stand for | insertion, erasure | rebalancing; links to erased nodes |
| Start-up, API (`AccuTrak.cpp`) | the patch manager | start, `AT_PatchMemRoutines` | start may come late |
| Private heap, static buffers, back traces, atomics, heap viewer | small | | sequential or machine-dependent |

How they interact: at start the library reads the configuration, and the patch manager gives every
module to be patched the routines of the configured mode; `dlopen` and `dlclose` are patched too, so
that later modules are not missed.  The dead-page routines call the page layer for whole pages and
the C library for requests out of the configured size range; the padding routines call the C
library for everything and `PatchManager::CheckAll` at every entry, which now and then calls back
`AT_CheckAllBlocks`.  The logger writes files, the consolidator merges them after the program
ended, the replay tool reads the result.  All routines run on the application's threads; there
are no threads of the library's own, and locks are held for single critical sections.  Only the
replay tool has threads.

What makes each correct: a page or block is in one place at a time; what protects a block (dead
page, tail bytes) is there as long as the application has it; `free` recognises the library's
own blocks and only those; counters and limits agree with the lists they describe; the tool
does not accuse an innocent program; while slots are overwritten no thread gets a block that
another slot would release by a routine that does not know it.  For logging and replay: the merged
log is an order in which the program could have run, whatever was lost at its end, and replay of it
does what was logged and terminates.

`PROJECT.json` lists every part as a component, and the hazards of the code line by line.

## Modules

```
the allocators

DeadPageLayout    SysAlloc              Padding
   |        \       /     \                |
   |         DeadPage     SysAllocProofs  PaddingProofs
   |             \          /
   |             DeadPageProofs
   |             /
DeadPageLayoutProofs

recording                                 replay

MallocLogger  Consolidator  LogViewer     ConsolidatedLog --------- ConsolidatedLogProofs
         \        |        /                 |         \                  |
             LogPipeline                   Replay    LogAnalysis          |
                  |                           \      /                    |
          LogPipelineProofs                 MallocReplay                  |
                                                     \                    |
                                                      ReplayProofs -------
patching
ConfigParser -- PatchManager -- AccuTrak -- AccuTrakProofs
sequential algorithms                     other pages
DeadPageLayout -- LayoutSweep -- MCAlgorithms -- RbTree         SystemChunks
```

A line means that the lower (or right) module EXTENDS the upper; `Consolidator` extends
`ConsolidatedLog` as well, `LogPipelineProofs` extends `ConsolidatedLogProofs`, and `LogAnalysis` extends `InternalBuffer`.
`DeadPageProofs` uses the lemmas of `DeadPageLayoutProofs` as an
instance, with the mode in the place of the sweep's variable, `AccuTrakProofs` the induction over intervals of
`ConsolidatedLogProofs`.  `SystemChunks` is another
implementation of the pages `SysAlloc` gets from the system and stands alone.  `LayoutSweep` goes through all requests,
to state what the layout promises of each; `MCAlgorithms` checks it and `RbTree` in one run, a step of which is one of
either.  Every other `MCx` is the model-checking instance of `x` (`MCReplay` that of `MallocReplay`).

**SysAlloc** is `GetPages` and `ReleasePages` of the Unix build.  `prot` is the protection of
every page (`unmapped`, `live`, `dead`); `gCacheBlockHead` is the LIFO list threaded through the
headers of freed blocks, `gCacheBlockTags` the FIFO list of tags (head to tail),
`gBlocksInCache` the counter the code keeps for both, `gFreeBlockTags` the number of tags on
`gFreeBlockTagHead` and `tagBuffers` the number of buffers they were cut from.  `pc`, `raw`
and `size` are where a thread is in a call and its local block.  `owned` is what the clients
have.  A step ends where the code lets go of `gCacheBlockListLock`, where it reads shared state
without it (`TestCount`), and at each `mprotect`, `mmap` or `munmap`.  Back traces, which need
the dead page open for a while, are the steps `Trace...` and `FreeTrace...`.  A refused `mprotect`
or `munmap` is a choice when `KernelRefuses`.  Two history variables are about pages that are lost:
`leaked` are the pages that stay mapped though nobody will give them back, because `munmap` was refused
(`SysAlloc.cpp:211`) or the client gave a page less than the block has (`ReleasedPages`); `cut` are the
blocks of the latter kind.

**SystemChunks** is where the Windows build has its pages from: `VirtualAlloc` gives chunks of 64KB,
`gAllChunks` is the table of their headers (which pages of each are in use), and a chunk goes back
when all its pages are free.  `gSystemChunkLock` is a `CRITICAL_SECTION`, which its owner may enter
again.  Requests of 64KB and more are not modelled.

**DeadPageLayout** is the arithmetic alone: the pages a request takes, where the user block, the
header and the dead page lie, and what the release path recomputes from the header.  **LayoutSweep** has a
variable for the request and states `BlockLaidOut` of it, which is `UserBlockPlaced` and `HeaderFoundAgain`.

**DeadPage** is `malloc`, `free` and `realloc` of `MallocDeadPage.cpp`, on top of the page layer:
it extends `SysAlloc` and drives its calls, with small pages (four units) and headers (two units)
so that all the cases of the layout occur.  The pool and the list of out-of-page headers are
`gFreeBlockHeader` and `gOtherBlocks`.  Addresses the C library hands out for requests out of
range are the numbers in `ForeignAddrs`.  `process` records how a process ends: by the code's own
report of a double free, or by a NULL header.  `SysSpec`, a property of its runs, states that every
behaviour is one of the page layer as `SysAlloc` describes it: the routines never release a block
they do not have, or with another first page or size (but a page short, see `deadpage_crowded`), or
with its header protected.

**Padding** is `MallocPadding.cpp`.  A raw block has a header (`hdr[b]`: signature, user size,
whether the magic bytes behind the user space are intact).  `gBlockHeaderAnchor` and
`gDeferredFreeBlocks` are the two lists, `gTotalDeferred` is the byte counter modulo `WordSize`.
`live` are the blocks the application has, `plain` those of them without a header.  The limit of
the deferral is chosen in the initial state, as it is read from the configuration.  `faults`, chosen
there too, says what may go wrong around the routines: a `::realloc` that fails, or an application
that overruns, underruns or frees twice.  Each routine is split where another thread can tell: at
the critical sections, the C library's calls, and the one read of a header after the block was put
on a list (`ReadSize`).  The loop of `LinkDeferredBlock` runs under the lock and is one step;
`Popped` says how many blocks it removes.

`calloc` and `new` add a `memset` or a `throw` to `malloc` and have no actions of their own.

**ConfigParser** is the reading of the configuration file, an operator from a sequence of lines to
the settings (`CPatchMgr`): one line after the other (`ParsedUpTo`), every option with its bounds and its conversion
from `long` to `unsigned long` (`ULongMax`), then `CheckConfigOptions`.  A misspelt mode leaves what the
stack holds and is a line with any mode.

**PatchManager** is `Patch` with its three loops (`PatchCatchAllFree`, `PatchDlopen`, and the loop over
the configured modules), one step for each call of `PatchFunction`, because other threads may call through
any slot between two of them; `mPatchedList` holds the marks of incremental patching, `core` is the
link map, `slots` what each slot of each module calls.  `TargetOf` picks the module as the Linux
patcher does, by a substring of its path.  **AccuTrak** is the process around it: start at load or later,
`dlopen` and `dlclose` by any module, patches asked for by the application.  `unseen`, `forgotten` and
`reloaded` remember which modules came and went behind the patch manager's back.

**MallocLogger** is what a recorded thread does: the operation itself on `heap`, with `realloc` also of `NULL`, to no bytes, or without success (`made` is what the
thread still has to log), then stamp, buffer, and the write of the full buffer to its file; the
exit of a thread (`tls` gone, a later one appends to its file), of the process (`gProcessExitting`;
only the buffer of the exiting thread is written) and its being killed, in the middle of a write.
**Consolidator** takes such files (`logFiles`), in any order of the directory: `merged` are the records
taken, `out` the log written, `gBlocksFreedByOtherThread` what the second pass has to mark; one step per
record.  **LogViewer** is what the viewer lists of the same files, as operators.  **LogPipeline** runs
the three after each other.

**ConsolidatedLog** is the file the consolidator writes and the replay tool reads: the records with
their sizes in units of four bytes, the sequence numbers, which blocks are outstanding after each
operation (`Outstanding`), and what the replay tool takes for granted: `Matched` (every release names
an allocation that is outstanding) and `CrossSeparated` (a timestamp lies between an allocation and
its release by another thread).

**Replay** is `ReplayAll`, `DoMallocFree` and `DiskIOFunc` of `MallocReplay.cpp`.  The controller
(`ctl`) takes a filled buffer and has the disk thread (`dsk`) fill the other (`TakeBuffer`), cuts a
batch at the next timestamp or where the buffer ends (`FillBatch`), wakes the workers with a job in
it one by one (`WakeWorker`) and waits for the last of them (`WaitForBatch`).  A worker (`wrk`)
executes its operations of the batch (`OpMalloc`, `OpFree`, `OpRealloc`), and when the block is to
come from another thread, yields until it is in the shared table (`AwaitBlock`).  The controller takes a filled buffer
without a look whether it is a new one; the history variable `again` says that it was not.  At the end the
threads are joined and the blocks left go (`JoinAll`), or the tool crashes (`ReadFreedEntry`).  `active` is what
lies between `lpActiveBufStart` and `lpActiveBufEnd`, as positions of the file, and `inUse` the
buffer it lies in.  `workerLock`, `gControllerLock` and `mSleepLock` are the mutexes the code uses as
binary semaphores, unlocked by another thread than the one that locked them, as glibc's default
mutexes allow; `TRUE` is locked.  `mCmdLock` and `gFreeByOtherThreadBlocksLock` protect single steps.
`heap` names the replayed blocks by the sequence number of the operation that allocated them, which
is how `Outstanding` names the logged ones.

**InternalBuffer** is the allocator the tool keeps its own entries with (`GetBlockInternal`,
`GrowInternalBuffer`, `FreeBlockInternal`): chunks cut up from the head of one list, whose nodes are
taken without a look at their size.  **LogAnalysis** is `AnalyzeTiming` (`-t`), with its hash table
in that buffer, and `PrintAll` (`-p`).  **MallocReplay** is the tool with its three modes.

**RbTree** is `Insert` and `Erase` of `Tree.h`, every case written once for both sides.  The fields
of an erased node are gone, so that following a link to one would have no value.

## Runs

| run | question | bounds |
|---|---|---|
| `sysalloc_fifo` | Is a page ever in two places or lost, are the tags conserved, are headers read only where they are accessible, does the quarantine evict in order, when `mprotect` and `munmap` may be refused at every call and a block may be released a page short? | 2 threads, 7 pages, blocks of up to 3, limit 2, two tags to a buffer: eviction, reuse and a shortage of tags all occur; underrun checking, traces stamped at `free` |
| `algorithms` | Is every block placed, guarded and found again, for every size? Does the tree hold what was inserted, and stay balanced? | real sizes (4096, 32, 8), requests 0 to 12300, i.e. three pages and the boundaries between them, both modes; 9 keys, inserted and erased in any order: every shape of up to nine nodes, which has erasures that rebalance up to the root |
| `deadpage_overrun` | Is every block guarded, is a double free reported, does no block get lost, how far can the LIFO cache exceed its limit, and do the routines respect the page layer? | 2 threads, 6 pages of 4 units, requests 1 (fits), 0 and 4 (crowded) and 6 (the C library's), a cache of 1, traces stamped at `malloc` |
| `deadpage_underrun` | With underrun checking and protected freed blocks: are embedded headers, separate headers and the C library's blocks told apart, does a freed block trap? | 2 threads, 4 pages, sizes 1 (the C library's), 2 (embedded) and 4 (separate), up to 2 headers, quarantine of 1 |
| `padding_defer` | Are the lists and the heap accounted for, the innocent never accused, damaged blocks and double frees caught, and what does the deferral counter mean? | 2 threads, 3 raw blocks, a size out of range, one below and one above the limit of 2, and no deferral; either `realloc` may fail or the application may overrun, underrun and free twice |
| `accutrak_patch` | While modules come and go and are patched slot by slot: do all modules that may release a block know it, is every module to be tracked tracked, do recorded numbers name the modules, does a mode chosen first hold for all modules, are the settings within the bounds the routines need? | 6 modules (the executable, a system library, one under `/usr/`, three libraries, one whose path contains another's name), 5 events after the start, two link maps to start from; every mode with each option about modules, files that list modules first, and every three numbers around every limit |
| `log_merge` | Is what was logged complete and in order, is the merged log one the replay tool can rely on, is every release paired with the right allocation, do viewer and consolidator agree, does the consolidator finish? | 2 threads, 2 addresses, 3 operations, time 0 to 1, a buffer of one large and one small record (5 units), so that buffers fill up; every `fopen` and `fwrite` may fail, the process may exit or be killed at any point; `MaxRecNum` 4, so that the merge also ends at the limit of records (with the last of them; with more operations it would cut some off) |
| `replay_batches` | In its three modes: does the replayed heap agree with the log after every batch, is the buffer in use left alone, are nodes conserved, are the figures of the analysis those of the log, does its allocator hand no byte out twice, and does every mode end, but for the replay's three ways not to? | every program of 3 operations of 2 threads, every placement of timestamps the consolidator makes, one of them doubled or at the end, buffers of 10 and 12 units, with and without timestamps, with and without release at the end, and an early end; chunks of 6 units with nodes of 1 and entries of 2, so that a chunk is used up, with a rest too small for another entry; a buffer is taken again at most once |
| `deadpage_crowded`, `padding_race`, `replay_again`, `chunks_table` | counterexamples, below | |

Threads and raw blocks are interchangeable in the allocators, so those runs use symmetry (none of
them checks liveness).  Pages are not: blocks are runs of consecutive pages.  Three raw blocks are
the least with which one call evicts two deferred blocks and keeps a third.  `MCSysAlloc` restricts
the next-state relation to the FIFO list, whose setting makes the guards of the other steps false;
the LIFO list is checked under the dead-page routines.

`ViewsAgree` is not tried where the consolidator's limit of records would cut off what the viewer shows: the
three operations of `log_merge` reach the limit and do not exceed it.

Five events let a module be loaded, unloaded, loaded again by another, and patched in between.  Three
operations are the least with which an address is used by two blocks and the release of the first is
logged after the second's allocation.  In the replay, three are the least with which a block passes
from one thread to another by `realloc` and is released by a third step.  A replay buffer has at least
64 units in the code (`AT_QUEUE_BUFFER_SIZE`); the run scales it down with the logs, of 7 to 16 units
or so, so that a buffer holds a few records and cuts one off at any place; nothing in the code depends
on its size but where it cuts.  No log is left out: where one ends in a batch shorter than the largest record, the
properties hold until the controller takes its buffer again.

Deadlock is checked except in `log_merge`, `accutrak_patch` and `chunks_table`, where
the application may stop: its operations or events are bounded.

What the counterexamples show:

* `deadpage_crowded`: when a request leaves less room than a header in its pages (`Crowded`), `malloc` takes one
  page more, which `free` does not count when it works the size out from the header (`MallocDeadPage.cpp:263`).
  The cache gets a block a page shorter than it is.  Served from it, the block has no dead page, an overrun of it is not
  caught, and the page cut off is mapped for ever.
* `padding_race`: `free` reads the size from the header of the block it has just deferred, after
  it gave up the lock (`MallocPadding.cpp:310`).  Another thread's `free` can evict the block in
  between.
* `replay_again` (`ReplayCompletes`), with two logs.  On one, fewer bytes than the largest record are left to be batched at the
  end of the file: the controller refills once more and gets the buffer it has already used (`MallocReplay.cpp:1526`), what it
  holds is replayed again under new numbers, and so for ever.  A log ends that way when its last batch, behind its last
  time stamp, is a small one.  On the other the end comes early: `ReadFile` sets the status of the disk thread to idle
  after a read whatever it has become (`MallocReplay.cpp:705`), a `Stop` in between is lost, and the final join never returns.
* `chunks_table`: when the table of chunk headers is full it is copied into a longer one, and the
  new chunk takes header 0 of it (`SysAlloc.cpp:278`), which is not free but a copy of another chunk's.
  The pages of that chunk are not known any more and can never be given back.

Disagreements seen while modelling that have no run of their own:

* A request of size 0 under underrun checking takes the dead page alone.  Its user address is the
  end of the block, and `free` looks for the header in the page behind it (`MallocDeadPage.cpp:186`), which may be
  anyone's or nobody's.
* The parser is to install the routines of modules listed before the mode when it
  has read the whole file (`ConfigParser.cpp:680`).  But the mode is never unset, it is `deadpage` from
  the start, so such modules get the dead-page routines at once and keep them, as those in
  `test_src/TestPrivateHeap.ini` do.  `ModeInstalled` leaves such files out.
* `AT_FREE_ALL_AT_END` frees the blocks left in the shared table and follows the link of each entry
  after that (`MallocReplay.cpp:1810`); the entry of a large block lies in the block.  The model crashes there (`ReadFreedEntry`).
* `AnalyzeTiming` reports its peaks under the number behind that of the operation which reached them
  (`MallocReplay.cpp:1037`); `AnalysisExact` has the number the code prints.
* The arrays of old routines (`MallocLogger.cpp:77-79`) are written on every platform (`PatchManager.cpp:75-79`), with an
  index that may be their length (`:645-651`), or, at a second patch that is not incremental, with one read from a pointer.
* `realloc` with padding unlinks the block and scratches its signature before it calls `::realloc`;
  when that fails (`MallocPadding.cpp:376`) the application still has the block, and its next `free` takes
  it for the C library's.  `OwnBlocksRecognisedUnlessFailed` states the exception.
* `DeferredBounded` says what is left of the limit of deferred bytes when the first deferred block is
  never counted (`MallocPadding.cpp:149`) but is subtracted when it is evicted; `CacheBound` allows the
  LIFO cache as many blocks above `max_cached_blocks` as there are threads but one
  (`SysAlloc.cpp:627`), although `ConfigParser.cpp:814` calls it a maximum; `UserBlockPlaced` says
  nothing of a request of size 0, whose address is not the dead page's as `MallocDeadPage.cpp:428`
  has it.
* `gNumChunks` is never counted (`SysAlloc.cpp:242`), so `GetReservedPages` finds no pages in the chunks
  there are; if it did, it would return with the lock held (`:318`).
* `PrintConfigDefinition` tests `AT_EVENT_FREE` twice; it only prints.

Fairness is assumed where liveness is checked, and nowhere else.  `MallocReplay` (`Terminates`): the
controller, the disk thread and every worker that can take a step takes one some time (weak fairness for
each, `ToolFairness`), as do the two sequential modes.  That is what the scheduler of a preemptive system
gives to threads that are runnable.  It is enough because each of the mutexes used as semaphores has one
waiter: once unlocked it stays unlocked until the waiter takes it, so a waiter is enabled continuously
and strong fairness is not needed.  The two spinning loops, on `mStatus` and in `AwaitBlock`, yield until
a state that lasts.  `Terminates` excepts the three ways in which the replay does not come to its end: a buffer
taken again, a lost stop (for both see `replay_again`, under the same fairness) and a crash in the last loop.  `LogPipeline` (`Finishes`): the consolidator, a sequential program, goes on
(`WF_vars` of its step); nothing is assumed of the application.  In the other modules no loop waits for
another thread.

## Proofs

`SysAllocProofs` proves, for any numbers of threads, pages, cached blocks and
tags to a buffer, for both caches, any placement of back traces, any refusals of `mprotect` and `munmap`, and
clients that release a block with all its pages or one less:

* `TypeCorrect`: `SysTypeOK`;
* `CountCorrect`: the counter is the number of cached blocks;
* `BoundCorrect`: `CacheBound`, how far the LIFO cache can exceed its limit;
* `TagsCorrect`: `TagsConserved`, no tag is lost or doubled;
* `NoPageTwiceCorrect`: `NoPageTwice`, no page is in two places;
* `QuarantineInOrderCorrect`: `QuarantineInOrder`, only the oldest of enough blocks is evicted (an
  action property);
* `NoPageLostCorrect`: `NoPageLost`, the mapped pages are exactly those somebody has and those known to be lost
  (`leaked`), and these are different pages;
* `HeadersAccessibleCorrect`: `HeadersAccessible`, headers are touched only where they can be;
* `QuarantineTrapsCorrect`: `QuarantineTraps`, every page of a quarantined block traps, unless it was cut short;
* `BlocksGuardedCorrect`: in a client's block of any size every page but the dead one can be accessed,
  and that one traps unless `mprotect` is refused or the block was cut short (`BlocksGuarded`, stated in the proof module; the runs
  check it through `UserBlockGuarded` of `DeadPage`).

Assumptions are those of `SysAllocAssumption` in `SysAlloc` (finitely many threads, a positive
number of pages, tags per buffer, and so on), which TLC evaluates in the runs.

The argument.  None of the properties but the first is inductive.  `CacheInv` adds to the types
and the counter what a call in progress looks like (`CallShape`: at which steps a thread has a
block and of which size) and that only one of the two lists is in use (`ListMode`).  For the
bound, `LimitAhead` counts the threads that passed the test and have not pushed yet
(`Pushing`): cached blocks plus those threads never exceed the limit plus the threads but one,
because the thread that tests is not among them.  For `NoPageTwice`, `PageInv` adds where the
pages of every block are (`Placed`: every block in a client's, a thread's or a list's hands
consists of mapped pages that exist), so that a freshly mapped block cannot meet an old one.  The
steps fall into a few kinds, one lemma each: nothing moves, a block is returned, given up, reused,
cached, evicted, mapped or unmapped.  `NoPageLost` follows from `LostInv`, which adds to `PageInv` the
other inclusion (`Covered`: every mapped page is in somebody's block or lost).  The two properties about
protection follow from `ProtInv`, which adds `Protected`: for each place a two-page block can be
in, which of its pages are live and which dead (`LiveBlock`, `CachedBlock`, and `BlockInCall`, by the
step of the call).  It needs `PageInv`, since a step on one block must not change a page of another.
`BlocksGuarded` adds blocks of other sizes, which never go through the cache, to `ProtInv` (`GuardInv`).

`DeadPageLayoutProofs` proves `BlockLaidOut` (`BlocksAreLaidOut`, from `BlocksArePlaced` and
`HeadersAreFound`) for requests of every size and for all sizes of pages, headers and alignments that
satisfy `LayoutConstants`, in both modes; `SweepAssumption` only says that the sweep has an end. It is
arithmetic on multiples: the user space takes `k` whole pages and the dead page one more (`WholePages`),
the bytes left over are a multiple of the alignment (`AlignedSlack`), and division finds the page a place
lies in (`Quotient`).

`DeadPageProofs` proves about `malloc`, `free` and `realloc` together with the page layer, for any threads,
any address space, both modes and any pool of headers:

* `RoutinesUseThePageLayer`: `Spec => SysSpec`, the refinement: every step of the routines is a step of the
  page layer whose clients keep their contract, or none.  With it all that is proved about `SysSpec`
  holds under the routines, `QuarantineTraps` and `CacheBound` of the runs among it;
* `BlocksAreRecognised`: `BlockRecognised`, every block is known again, through exactly one header;
* `NoBlockIsLost`: `NoBlockLost`, no path of `malloc`, `free` or `realloc` forgets a block;
* `DoubleFreeIsCaught`: `DoubleFreeCaught`;
* `UserBlocksAreGuarded`: `UserBlockGuarded`, a block's bytes can be accessed and the byte the mode watches
  traps; for this one `mprotect` is never refused (`~KernelRefuses`), since a refusal leaves the dead page open.

All five assume `SizesFit` of the sizes the routines serve themselves (those between `MinBlockSize` and
`MaxBlockSize`): under underrun checking a size is not 0, for which they are false (`free` would look for the header outside of the block), and a size
takes at most `MaxBlockPages` pages, which the page layer's model is bounded by.  Crowded sizes are among them: the
page layer has clients that release a block a page short, the routines are such clients for these sizes, and what it
costs is said in the properties (`UserBlockGuarded`, `QuarantineTraps`, `NoPageLost`) by the history variables.

None of the five is inductive.  All follow from one invariant, `DeadPageInv`, which consists of

* `GuardInv` of the page layer;
* `RoutineInv`: what a routine's locals and its call of the page layer look like at each of its steps;
* `LiveInv`: the application's blocks have sizes the routines serve and start where `malloc` puts them;
* `ClaimInv`: the blocks the page layer handed out and the claims to them are in bijection.  A block is claimed by
  the application (`"live"`), by a `realloc` that will release it (`"old"`), or by a `malloc` that waits for a
  header (`"new"`).  It is what makes `NoBlockLost` inductive, and it tells blocks apart by their first page;
* `EmbeddedInv` and `SeparateInv`: a signed header, in a block or out of it, describes a block of the
  application (`Describes`), and each block has its header, where it is looked for;
* `PoolInv`: a separate header is on the list, in the pool, or in the hands of one thread, which has not
  signed it yet (`HeaderInHand`).  `gOtherBlocks` lists headers before they are filled: another thread's
  search passes over them only because nobody signs a header that is not filled.

The parts lean on each other.  That a search finds the right header needs that two live blocks never start on the
same page (`ClaimInv`), which needs that a release gives up a whole block, which needs that the header found
has the block's size (`EmbeddedInv`, `SeparateInv`).  A page that is unmapped loses its header (`StepPage`): it is
nobody's, as the pages of all claimed blocks are mapped (`Placed` of the page layer).  There is one lemma
for what each kind of step does to the claims, to the headers and to the lists of the pool, and one for each action.
The invariant was checked by TLC on the instances of both runs before it was proved.

`LogPipelineProofs` proves `LogsAreComplete`: `LogsComplete`, for any threads, addresses, numbers of operations and
sizes of the buffer that `LoggerAssumption` allows (a record fits into the buffer; `Null` is neither a buffer nor
a file's content).  `LogInv` says where a thread's records are and in which order (`Recorded`: those in its file, then
those in its buffer), so that writing a buffer out changes nothing it speaks of.  It adds to the property
that a thread about to log has a `FileControl`, that only a late thread makes an operation without one and that a
buffer without an open file is empty, since it would be dropped (`Controlled`), and that no record is ahead of
the process (`NotAhead`).

It also proves of the consolidator, for any files that any such process leaves behind, be they cut off by a kill or
short of records that could not be written, in any order:

* `OutputIsSeparated`: `OutputSeparated`, for any finite number of threads;
* `OutputIsMatched`: `OutputMatched`, if there are fewer threads than a record has numbers for (`FewThreads`: 18 bits,
  and `MAX_THREAD_ID`).  Beyond, two threads share a number, and a release by the other is not told from one by the same;
* `ReleasesArePairedTruly`: `PairedTruly`, for any finite number of threads; `PipelineAssumption` says that `NULL` in the
  application is what its records have for it, as both are the same 0.

So what `Replay` and `LogAnalysis` assume of a log (`Matched`) holds of every log the consolidator finishes.
`MatchedInv` is the invariant, in these parts.  `FilesInv`: a file is whole records, but for its end.  `ReadingInv`: the
consolidator is at a whole record of each file it has not read to its end.  `WrittenInv`: a release names an operation
before it (`MadeBefore`); each block in `gBlockSetArray` is outstanding in the log written so far, with the size and
the thread recorded with it, and is in the set once (`KnownIn`), which is why taking it out of the set suffices for no
release to find it again; and `lPrevTimeStampSeqNo` is the number of the operation after the last time stamp
(`StampedAt`), with which an allocation of no smaller number has no time stamp behind it.  `PairedInv`: releases are right as they are
written, and an allocation that another thread releases is marked or in `gBlocksFreedByOtherThread`.  `CursorInv`: the second
pass is at the operation whose number it keeps and no allocation to be marked is behind it, so `CursorAt` finds the
next (`CursorFinds`), and marking that changes neither what is outstanding nor any number (`MarkWritten`).  TLC checked
these on the instance of `merge` before they were proved.

`PairedTruly` relates the log to the heap, which the others do not mention.  Its invariant goes by way of three parts.
`HistoryInv`: the history is true of the heap, so each release in it names the operation that made the block, and a block
is made only where none is, so that nothing on its address comes between the two but a `realloc` that failed.
`TruthInv` adds that each record, pending, in a buffer or in a file, is that of an operation of the history (`Genuine`).
`MergedInv` is about the consolidator: where the records merged so far show the operations on an address up to the last shown,
none left out, none out of order and none a `realloc` that failed (`Legible`), it knows at that address exactly the block the last of them made, or none if that
released one (`Follows`).  Each of the latter conditions is needed: without it the consolidator may pair the release with another
block, as it does not see the history.  So a record that is the next on such an address (`NextAt`) is paired with the
block it released (`PairsTrue`), and the second pass leaves the pairs as they are (`MarkChanges`).  TLC checked the three on the
instance of `merge` and on one with more operations before they were proved.

`ConsolidatedLogProofs` is what the proofs about the consolidator and the replay tool know of a log, for every log: that the recursive
functions of `ConsolidatedLog` are defined and unfold as they are written (`RecordStart`, `OperationsUpTo`,
`Outstanding`), that the records cover the file, which operation a sequence number names, and, in a log of matched
operations, that what is outstanding after `n` of them was made by one of them and not released by another
(`OutstandingUnreleased`) and that a block is released at most once, by the thread its record says
(`MatchedOperations`); and, for the consolidator, what appending a record, marking one or cutting a part out does to numbers
and outstanding blocks (`AppendedLog`, `MarkedLog`, `PartOfLog`, `OutstandingAgrees`).  Induction is not cited from the library, whose theorems take an operator, but proved from the
pigeonhole principle for finite sets with a *set* in the place of the property (`NoDescent`, `Induction`,
`IntervalInduction`, `DownwardInduction`, and `PrimitiveRecursion` for the functions themselves).

`ReplayProofs` proves, for any log, options, buffer size and number of worker threads:

* `ReplayBuffers`, and `ToolBuffers` for the tool with its three modes: `BufferNotOverwritten`;
* `ReplayedJobs`: `BatchInLog`, every job is the operation of the log with the number the workers count for it;
* `ReplayedHeap`: `HeapAsLogged`, between two batches the heap is the one the logged program had;
* `ReplayedNodes`: `NodesExact`;
* `ToolReplays`: the last three, of the tool with its three modes;
* `ReplayedOnce`: no buffer is taken again and `EachRecordOnce` holds, on a log that satisfies `LastBatchFits`;
* `ToolAnalyses`: `AnalysisExact` and `BlocksApart`, what `-t` and `-p` report is what the log says.

`BufferNotOverwritten` alone is not inductive, because the controller takes a buffer over on the status of the disk
thread's job, which is not where the disk thread is: `StatusHeld` says that a job being read has the status `"read"`,
unless the controller is past its loop and has overwritten it with the request to stop (`BufferInv`).

The next three rest on three layers.  `ReaderInv`: the units in the active buffer and in the one being filled continue
each other without a gap, the active one starts where a record does (`AtRecord`, which also ties `lRecSeqNumber` to the
operations in front of that place), and the batch is the operations `lRecSeqNumber` and the sequence number of
its first job enclose (`FileInv`, `PositionInv`); a record cut off by the end of a buffer is carried over into the reserved part of
the next.  `WorkerInv`: `gNumWorkingThreads` counts the workers with a job in the batch that are not past it, a
worker's lock and `gControllerLock` are open only for who is woken, and so the controller goes on when all are past
the batch and no earlier.  `BlocksInv`: the operations executed so far (`Executed`) have left exactly the blocks made by
one of them and released by none, in the heap and in one table each, the maker's own or the shared one as the flag
of its record says; that the flags of both records agree (`MatchedOperations`) is what makes a worker look in the right table,
whatever the order in which the workers of a batch go on.  When all are past the batch, `Executed` is the first operations of
the log, and `OutstandingUnreleased` makes of `BlocksInv` the property.

The properties speak of the replay until the controller takes the buffer it has used up (`again`), and hold of every log.
What `ReplayedOnce` adds is that this never happens if timestamps are ignored or the file has behind every timestamp at
least as many units as the buffer keeps in reserve (`LastBatchFits`); for other logs it is false (`replay_again`).
`ReplayAssumption` requires of the logs what the consolidator gives them, `Matched`.

For `ToolAnalyses`, `TimingInv` and `PrintInv` are about any log whose
operations are matched: the number of the next operation is known from the records read (`Position`); the table has one entry for
each outstanding block, known by its number and by its address, with the size the operation asked for, and the
pool has handed out these entries and no others (`Tabled`, `Good`), so that a look-up finds the block it is asked for and an entry is
never handed out twice; the figures are those of these blocks (`Figured`: the bytes are a sum over the log, which grows
and shrinks by the size of one block, `BytesOfOneMore`; a thread's blocks are counted where the release will look for
them); the peaks are the highest so far (`Peaked`); and the listing's counts account for all that was read (`Printed`).

`ReplayProofs` also proves `BlocksApartCorrect`: the replay tool's own allocator hands out no byte
twice and none outside of its chunks, for any sizes that satisfy `BufferAssumption` (a node's header fits
into an entry, an entry into a chunk) and any sequence of requests and releases.  `PoolInv`: free nodes are
large enough for an entry although nobody looks (`LargeEnough`), lie below the address of the next chunk
(`ChunksBelow`), and no two of the parts, free or handed out, overlap (`Disjoint`).

`PaddingProofs` proves, for any numbers of threads, raw blocks and request sizes, any limits of the
deferral and any faults `PaddingAssumption` allows:

* `ListIsExact`: `InUseListExact`, the list that leaks are reported from holds what it should;
* `HeapIsAccounted`: `HeapAccounted`, no raw block is lost or in two places;
* `NoAbortWithoutFault`: `NoFalseAlarm`, an application that does nothing wrong is not aborted;
* `BlocksAreRecognised`: `OwnBlocksRecognisedUnlessFailed`;
* `OverrunsAreCaught`: `OverrunCaught`, a damaged block is never taken back (an action property);
* `DeferralIsBounded`: `DeferredBounded`, wherever the deferred blocks have fewer bytes than `size_t` can
  count, which blocks that do not overlap always have.

None is inductive alone.  `PadInv` adds to the types where every block is and that two routines never
work on the same one (`PlaceInv`), what the in-use list holds (`ListInv`), what the signatures say of the
blocks in each place (`SignInv`) and, without overruns, that the magic bytes are there (`TailInv`).  The
parts need each other: whether a freed block belongs to the C library is read off its signature, and the
signature can be relied on because nobody else writes the header of a block in one's hands.  The loop of
`LinkDeferredBlock` is proved about without its byte arithmetic first: however many blocks it takes
(`PoppedInRange`: never the last), those it takes were queued and the others stay (`Queued`).  Its bytes
are the matter of `CountInv`: `gTotalDeferred` is the bytes on the list less the size of the block that was
deferred first of all, up to a multiple of `WordSize`.  The multiple is needed: when the blocks on the
list are smaller than that first one, the counter has wrapped around to a number close to `WordSize`.  From
the limit and the largest size alone no bound would follow, for a counter that wraps around upwards is below
any limit again; with the bytes on the list below `WordSize` it does, for limits up to the largest `size_t`
(`CountBounds`).  That `Bytes` is a sum, which the parts of a list share out (`BytesOfParts`), is proved by
induction with a set for the property.  The other list lemmas say what linking, unlinking and queueing do
to the members of an injective sequence.

`PaddingAssumption` asks for a request size, whichever, and lets no behaviour have both a `::realloc`
that fails and underruns: an overwritten signature of the scratched block would hide that it is off the
list.

`AccuTrakProofs` proves, for any modules, configuration files and link maps `AccuTrakAssumption` allows:

* `SettingsAreSane`: `SettingsSane`, whatever the file says and in whatever order;
* `ModesAreInstalled`: `ModeInstalled`, a mode chosen before the first module is listed is the mode of all modules;
* `ReleasesAreCovered`: `ReleasesCovered`, without any condition.  The property itself says when routines agree
  (`RoutinesAgree`): a module listed before the mode keeps the routines of the default mode, and a block may go from
  routines of one mode to those of another;
* `AllocationsAreTracked`: `AllocationsTracked`, if no shared object is called `exec` (`NoneCalledExec`), which a line
  of the file and `AddModule` take for the executable: such a module would never be listed, nor patched;
* `RecordsNameTheirModules`: `RecordsNameModules`, without any condition on files or names.

The first is an induction over the lines of the file, with one lemma for each kind of option (`Plain` are those no bound
speaks of), then over the modules that are added to the list, at the start and later (`Enlarges`).  `Shape` is the type
invariant that carries it through all steps.

`ModesAreInstalled` is the same induction over the lines with the routines for its subject (`Alike`): once modules are listed a
file that chooses its mode first chooses no other.

`ReleasesCovered` speaks of every moment between two calls of `PatchFunction` and is not inductive: of what lies
behind the loops it says nothing.  Where releases are patched in every module first, `CoverInv` adds how far that loop has come: the
modules it is past are settled, i.e. release nothing by a default routine (`FreeInv`); when it is over all are
(`SettledInv`), which must hold before the first slot that makes blocks is patched; it may skip a module by its mark because
only settled ones are marked, and a module that is unloaded loses its mark or is `forgotten` (`MarksInv`); a module's own slots
are patched in an order that has each release in front of what it releases (`ModulesInv`, `OwnInv`); and between patches only
modules not seen yet are unsettled (`ExposedInv`).  In a self-contained configuration there is no such loop: its modules release
blocks of the group with the right routines because `TrackInv`, below, says that between patches they are all patched (`SeenInv`).
`TakenInv` says whose routines the slots lead to, which is all that `RoutinesAgree`, a condition on the settings, leaves to prove
(`ReleaserTaken`, `CoverSuffices`).  That
`PatchFunction` may take another module than was meant (`TargetOf`) does not matter for `CoverInv`: it is the module
that was patched that has to be covered.

`AllocationsTracked` speaks of the moments between patches only.  `TrackInv` carries it through them by the entries of the
list, which are looked at one by one: an entry that is marked has had its module patched, unless the module has been
reloaded since (`PatchedInv`); the patch manager thinks that nothing is left only when all are marked (`FinishedInv`); what
`PatchModule` and `SkipModule` are past is done with, and if the pass reports success also marked (`WalkedInv`); with `modules=all`
every module of the application is listed that has been seen (`ListedInv`, by the loop lemmas on `AddAllModulesInCore`); so after a pass
every listed module is done with, until one is loaded without the patch manager's knowledge (`SeenInv`).  That the module is patched which
the entry names takes `NamedLoaded`: `PatchFunction` finds an unambiguous module by its base name.

`RecordsNameModules` relates the slots to a file written at other times.  `RecordInv` goes by way of the list as well: a
record mode routine carries the place of its entry (`NumberedInv`), a place that no later module takes (`Prolongs`); it is patched only into
the module that is called as the entry is (`RecordedInv`, with `TargetNamed`), which the loop over all modules, with its routines of the
first entry, would break, if it were run in record mode (`PassInv`); and the file names a first part of the list, all of it when the
start or a `dlopen` returns, unless it could not be opened (`FileInv`).  A patch the application asks for may add modules
the file does not have until the next `dlopen`, which is why the property excepts it.

The invariants were checked by TLC on the instance of `accutrak_patch` before they were proved.  `PatchAssumption` says of the
executable what its link map entry is on Linux, an empty path: it contains no name but the empty one, which is the executable's own and no other
module's.

Model-checked only: that the consolidator agrees with the viewer (`ViewsAgree`); the chunk table of Windows, and the tree.
Out of the prover's reach, and so TLC's for good: liveness under fairness (`Terminates`, `Finishes`) and
`ENABLED`; and what is written with RECURSIVE operators (the tree) or with folds of the community modules,
whose definitions take an operator and cannot be unfolded by the set-based induction above.

## Not modelled

* The patchers of other platforms and how a slot is found in the tables of an object format; back
  traces; atomics and performance counters; the private heap's library, of which only the failure to
  initialize it is modelled; the heap viewer.  They are formats, machine code, or code outside of the
  repository.
* In the page layer: requests of 64KB and more on Windows, which go to `VirtualAlloc` as they are, and
  the page statistics.  Addresses of chunks grow in `InternalBuffer` (a chunk is never given back).
* Damage to the links or the size in a padding header: an underrun is modelled as the loss of the
  signature.  `realloc` of a block that is freed already: only `free` is called twice.
* Sizes near the end of `size_t`: the rounding up to pages (`MallocDeadPage.cpp:459`) and the product of
  `calloc` (`:417`) wrap there.
* How often `CheckAll` checks: any call may check or not.
* Patching: one thread at a time loads, unloads or patches, although nothing locks `mPatchedList`;
  `dlopen` loads one module and keeps no count of references; a module is the executable's, a
  user's or the system's by its path (`Kind`), and every module imports every slot.  The arrays of old
  routines (see the disagreements) are not modelled: only the Windows build reads them.
* Logging: a `fwrite` that fails writes nothing; a thread that logs through a `FileControl` that is gone
  ends the run (`crashed`); threads above the 18 bits a record has for them (`MallocLogger.h:267`);
  the figures per module and the wording of all reports.
* In the replay tool: the Windows events, the statistics of memory, whose total is written without a
  lock, `AT_TEST_BASELINE` and `AT_TOUCH_MEMORY`; an allocation that fails, which ends the process.
  `Event.h` is used nowhere.

## Plan

What is left, by weight:

1. Proofs: `ViewsAgree` of `LogPipeline`.
2. Windows: `SystemChunks` under `SysAlloc`, as a refinement of its `mmap` and `munmap`, with requests of
   64KB and more.
3. Several threads that load and patch at the same time.
