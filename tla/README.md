# Verification of the 15-213 programs

TLA+ specifications, TLC model checks and TLAPS proofs for the programs of this
repository: the solutions to the labs of *Introduction to Computer Systems*. Paths are
relative to the repository's root; line numbers are those of the commit the project was
written against.

1. [Inventory](#1-inventory)
2. [Plan](#2-plan)
3. [Modules and their code](#3-modules-and-their-code)
4. [Runs](#4-runs)
5. [Bounds](#5-bounds)
6. [Fairness](#6-fairness)
7. [Proofs](#7-proofs)
8. [Findings](#8-findings)
9. [What is left out](#9-what-is-left-out)

## 1. Inventory

Each lab is a program of its own; labs do not call one another. Within a lab the parts
interact as follows.

| Component | Source | State | Operations | What is hard | What makes it correct |
|---|---|---|---|---|---|
| Proxy: object cache | `ProxyLab/cache.c`, `cache.h` | doubly linked list `head`/`rear` of `cdata` nodes (`url`, `size`, `read_cnt`, `cmutex`), `tsize`, semaphore `qmutex` | `Cache_init`, `Get_cache`, `Insert_cache`, `create_cache`, `delete_node`, `add_to_rear` | any number of detached threads; two kinds of lock; a body is sent with no lock held; eviction frees nodes | the list stays sound and free of duplicates, sizes are exact and bounded, LRU order, no lock is kept, a node in use is not freed |
| Proxy: threads and forwarding | `ProxyLab/proxy.c` | per thread: two descriptors, request, growing copy of the object | `main` (accept), `thread`, `browser_to_server`, `server_to_browser`, `write_buf_to_cache_browser` | partial reads and writes, peers that close, objects over the limit, error paths that must close descriptors | what is cached is what was forwarded; descriptors are closed once; `Insert_cache` gets a whole object |
| Proxy: RIO and wrappers | `ProxyLab/csapp.c` | `rio_t`: unread bytes in a buffer | `rio_readlineb`, `rio_readnb`, `rio_writen`, `P`, `V` | short counts, EINTR, end of file | a line or block is delivered whole or the error reported |
| Shell: job control | `shelllab/tsh.c` (`tshlab-handout/tsh.c` is the same program) | `job_list`, `nextjid`; the loop's `pid` and `job`; the kernel's processes and pending signals | `eval`, `builtin_cmd`, `fg`, `bg`, `wait_fg`, `addjob`, `deletejob`, `fgpid`, the three handlers | handlers interrupt the loop and one another at every step; signals merge; pids come back | no job lost, duplicated or resurrected; no child missed; keys reach the foreground job only; `wait_fg` ends |
| Shell: parsing, redirection, listing | `shelllab/tsh.c` | token array, standard descriptors | `parseline`, `redirect`, `reset_redirect`, `listjobs` | a redirection that fails half way | text in, structure out |
| Shell: test driver, helpers | `tshlab-handout/runtrace.c`, `my*.c` | script position, sync sockets, timers | `WAIT`, `NEXT`, `SIGNAL`, `SIGINT`, `SIGTSTP` | handshake against timeout | the driver acts only when the job is ready |
| Memory allocator | `malloclab-handout/mm.c`, `memlib.c` | heap words: headers with allocation bits, segregated free lists, prologue/epilogue | `mm_init`, `malloc`, `free`, `realloc`, `calloc`, `extend_heap`, `coalesce`, `place` | long sequences of legal calls; boundary sizes; `sbrk` failing | blocks tile the heap, no two allocated blocks overlap, free lists = free blocks, payloads survive |
| Allocator: earlier versions | `mm-segregated.c`, `mm-segregated2.c`, `mm-explicit.c`, `mm-book.c`, `mm-uw.c`, `mm-binarytree.c`, `mm-naive.c`, `mm-my.c` | the same heap with other tags, lists, a tree | the same calls | the same; a size read before and used after a merge | the same promise to the caller |
| Allocator: driver | `malloclab-handout/mdriver.c` | blocks and sizes by number, range list, totals | one request of a trace after another, three evaluations in the same memory | memory that holds an earlier trace's data | finds a payload misplaced or spoilt |
| Cache simulator | `cachelab-handout/csim.c` | sets of lines (tag, valid, LRU stamp), hit/miss/eviction counters | `parseOptions`, `parseTraceFile` | end of the trace, extreme `s` and `b` | counts equal a reference LRU |
| Matrix transpose | `cachelab-handout/trans.c`, `test-trans.c`, `tracegen.c` | two matrices, eight variables; the tester's simulated cache | `transpose_submit`, the replay of its trace | block edges, conflicts of A with B in the cache | B is the transpose of A, with fewer misses than asked for |
| Bit puzzles | `datalab-handout/bits.c` | none | pure functions of words | overflow, shifts at the word's edge | equal to the reference in `tests.c` |
| Bomb | `bomb*/bomb.c` | | | only `main` is in source form | |

Interactions inside the modelled components:

* **Proxy.** `main` accepts a connection and starts `thread`, which calls `Get_cache`; on a
  miss it contacts the server and calls `Insert_cache`. All sharing between threads is
  through `head`, `rear`, `tsize` and the nodes.
* **Shell.** The loop and the handlers share `job_list` and `nextjid`. The kernel moves
  children between states, sets signals pending and delivers them; `kill` and `waitpid` go
  the other way. `eval` blocks the signals around `fork` and `addjob`; `fg`, `bg` and
  `wait_fg` do not.
* **Shell and its driver.** `runtrace` starts the shell with its standard input and output
  on one datagram socket, and every job inherits another, on which it says that it is there
  and waits to be released. The driver signals the shell, and so do some jobs.
* **Allocators.** `mdriver` calls one of them, on `memlib`'s heap, and fills every block it
  is given; the allocators keep their own data in the same words.
* **Cache lab.** `test-trans` replays the accesses of `transpose_submit` on a simulator
  (the reference one; `csim` is compared with it by `test-csim`).

The behaviours that are hard to test are listed with their lines in `PROJECT.json`
(`hazards`), each with the properties that look for it or a note that says why none does.

## 2. Plan

In the order of importance; what several actors share comes first.

| | Module(s) | Content | Abstract specification | Proofs | State |
|---|---|---|---|---|---|
| 1 | `ProxyCache`, `ProxyCacheLru` | the cache and its threads | `LruCache`, a bounded LRU store | types, exclusion, list, duplicates, walks; without reuse exact counts and the refinement | done |
| 2 | `Tsh` | the shell's job control | a job table that follows the kernel's view: not written | all safety properties; `Tracked` and `HandlerSafe` for `MAXJOBS` at least the number of children | done |
| 3 | `ProxyForward` | one connection over RIO, with short counts, early ends and errors | the byte streams themselves (`InOrder`, `WholeResponse`) | types, `CopyFits`, `InOrder`, `WholeResponse` for servers that keep to their length | done |
| 4 | `Memlib`, `Mm` and the eight other allocators, `Mdriver`, `MmDriven`, `Malloclab` | the heap in words under the driver | `Allocator`: live payloads apart and unspoilt | for `mm.c`: tags, lists, coalescing, refusals, nothing leaked, and the refinement of `Allocator`, on any heap and any trace | done |
| 5 | `Csim`, `Trans` | the simulator, and the transpose replayed on it | `LruSim`, a sequence per set | `ImplementsLru` for any geometry; `is_transpose` for any number of columns | done |
| 6 | `RunTrace` | driver, shell and jobs, composed with `Tsh` | lock-step execution of a script (`InStep`) | that its shell's steps are steps of `Tsh`; `InStep` for any script | done |
| 7 | | the bit puzzles, at a small word width | `tests.c` | | left out, see section 9 |

No module that is proved about declares a recursive operator; walks are recursive functions
or relations. What could still be proved is said at the end of section 7: the eight other
allocators, each of which needs an invariant of its own.

## 3. Modules and their code

Operators that begin a definition with the comment "A fault:" (`DeleteNode_KeepsRear`,
`Fork_Unblocked`, ...) are not part of any specification. Each is a definition as a
plausible mistake would have written it; putting it in the place of the definition that
follows shows that a property fails when the code is wrong in that way, so that no property
passes for want of anything to say.

### `ProxyCache` - `ProxyLab/cache.c` and the callers in `proxy.c`

| Code | Model |
|---|---|
| `head`, `rear`, every node's `next`/`prev` | record `list` |
| `tsize`, `qmutex` | the same |
| what `Malloc` has handed out | `allocated`; freed fields hold `Junk` |
| `url`, `size`, `read_cnt`, `cmutex` of a node | functions on `Node` |
| a connection thread | `pc`, `req` (its URL), `cur` (`p` in the walks), `new` (`acache`) |
| `main`, `thread`, `parse_uri` | `Request` |
| `get_from_cache` | `Lookup`, `FindNext`, `FindMiss`, `FindHit`, `Pin`, `MoveToRear` |
| `Get_cache` after it | `Write`, `UnpinLock`, `Unpin` |
| exchange with the server | `Abandon` (error or too large) or `Fetched` (builds `acache`) |
| `create_cache` | `InsertLock`, `ScanNext`, `ScanDup`, `ScanDone`, `EvictLock`, `Evict`, `EvictBusy`, `Link` |
| `Insert_cache` after it | `FreeOwn`, and the retry by going back to `insert` |

Every `P` is a step; a `V` belongs to the last step of the section it closes, which is sound
because nothing the thread does between them can be seen by another. The body is sent
between `Write` and `UnpinLock` with no lock held. The constant `Reuse` says whether
`malloc` may return the memory of a freed node that a reader still uses: `TRUE` is what C
allows, `FALSE` separates what the cache does by itself from what follows from the eviction
of a node in use.

`LruCache` is the abstract store: entries from the least to the most recently used, and
clients that are served from it (`Hit`, `Served`) or miss, fetch, and perhaps store their
object (`Miss`, `GiveUp`, `Begin`, `Evict`, `Commit`). `ProxyCacheLru` reads the concrete
list from `head` along `next` (`Follow`) to obtain the entries (`LruOrder`), takes each thread's
request and place for what it got from its lookup (`RequestsAt`), and states
`ImplementsLru` and the exact counts. A hit takes effect at `MoveToRear`, a miss at
`FindMiss`, an insertion between `ScanDone` and `Link`.

### `Tsh` - `shelllab/tsh.c`

| Code | Model |
|---|---|
| `job_list[MAXJOBS]`, `nextjid` | the same; an entry is `[pid, jid, state]` |
| the loop's place, `pid`, `job` | `pc`, `arg`, `job` |
| `sigprocmask` in `eval` | `blocked` |
| the handlers on the stack, their locals | `stack`, `frame` |
| the kernel | `proc` (`none`, `born` until `setpgid`, `run`, `stopped`, `zombie`), `news` (stops not reported), `pending` |
| `eval` | `Fork`, `AddBg`, `AddFg`, `WaitDone` |
| `bg`, `fg` | `BuiltinBg`/`BgSet`; `BuiltinFg`, `FgSet`, `FgCont`, `FgWait` |
| `sigchld_handler` | `WaitDead`, `WaitStopped`, `WaitNone`, `DeleteDead`, `MarkStopped`, `MarkNull` |
| `sigint_handler`, `sigtstp_handler` | `ReadFg`, `Forward` |
| the user, the kernel, the children | `Key`, `Quit`, `Deliver`, `Exec`, `Die`, `Stop` |

The shell has one thread, so a step of the loop happens only with the stack of handlers
empty and a step of a handler only when it is on top. `Signal` installs handlers with an
empty mask: a handler is interrupted by the other two signals, never by its own. A section
is a single step where no interruption in it can be told from one before or after it.
In `fgpid`, called from the loop or a handler, the entries change under the scan only by a handler that
runs to its end; a scan so torn returns a value that an undisturbed scan at some moment of
the interval returns, except that an entry may be seen after having been passed over, which
`wait_fg` meets by scanning again and again. A pid comes back only when the kernel has
forgotten its last owner.

### `ProxyForward` - one connection of `proxy.c` over `csapp.c`

| Code | Model |
|---|---|
| `thread`'s place in `proxy.c` | `pc`; the ways out of `thread`, which close both descriptors, are `exit` |
| a RIO call that has not returned | `io` (kind, peer, bytes left), its result `ret`, the user's `buf` |
| `rio_buf` and its counters | `rio`, the unread bytes; `net`, what the peer sent and was not read |
| `read` in `rio_read` | `Refill(k)`, `ReadEof`, `ReadFails`; `Take` is the rest of `rio_read` in its caller's loop |
| `write` in `rio_writen` | `Write(k)`, `WriteFails`, `WriteDone` |
| `tsize`, `csize`, `cache` of `server_to_browser` | the same; `NULL` when the copy was given up |
| `write_buf_to_cache_browser` | a `writen` and, when it returns, `Store` |
| a peer that resets the connection | `Reset` |

A byte carries its kind and its place in its stream, so that loss, doubling and reordering
can be told. Strings are the bytes before the terminating zero: `rio_readlineb`'s count is
one too large at the end of a stream and for a line that is too long, which the model keeps,
and its callers use `strlen`. What the code leaves undefined is a choice (what `buf` holds
before it was read into, what `rio_writen` subtracts for a bad descriptor) or a place where
the model stops (`undefined`: a length of -1 passed on as a `size_t`).

### `Memlib`, nine allocators, `Mdriver`, `MmDriven`, `Malloclab` - `malloclab-handout`

`Memlib` has the heap: 4-byte words by address, the break, the allocator's global words.
Pointers take two words, sizes one; a client's data are negative numbers, so that a header
read from data shows as such. Each allocator is a module of pure operators from heap to heap
with the names of the C functions, so that `realloc(H, p, n)` runs the whole call; `fault`
records that address 0 was touched. `find_list`, `coalesce`, `match` and the other helpers
are operators of their own. Loops along a list, a tree or the heap are recursive functions
with a bound (`fuel`, `MaxBlocks`) that no list without a cycle reaches; the invariants
exclude cycles.

| Module | Code | Kept free blocks by |
|---|---|---|
| `Mm` | `mm.c` | 14 size classes, doubly linked, no footer on allocated blocks, `PREV_ALLOC` bits |
| `MmSegregated` | `mm-segregated.c` | the same lists, with another `realloc` and `calloc`; shares what is the same with `Mm` |
| `MmSegregated2` | `mm-segregated2.c` | 6 size classes, first fit, 4-byte links in the block |
| `MmExplicit` | `mm-explicit.c` | one list, footers |
| `MmBook` | `mm-book.c` | an implicit list with a rover (next fit) |
| `MmUw` | `mm-uw.c` | one list, tags for use and for the block before |
| `MmBinaryTree` | `mm-binarytree.c` | a tree by size with lists of equals, and two lists for small blocks |
| `MmNaive`, `MmMy` | `mm-naive.c`, `mm-my.c` | nothing; one list without splitting |

`Mdriver` is `mdriver.c`'s loop over a trace: `Alloc`, `Realloc`, `Free`, `FreeNull`, and
`NextEval` for the evaluations that follow in the same memory. Its tests (`add_range`,
`check_index`) set `status`. `Calloc` is a caller of its own: the driver never calls it.
`MmDriven` puts driver and `mm.c` side by side and states what must be true of `mm.c`'s heap;
it is what is proved about. `Malloclab` extends it with the other allocators, links the
driver with each (`PkgInit`, `PkgMalloc`, ... are constants of `Mdriver`), and states what all
of them must account for. `Allocator` is what all nine promise: `Promised` is the refinement.

### `Csim`, `LruSim`, `Trans` - `cachelab-handout`

`Csim` has the simulator's sets and counters, `Access` for a line of data, and the end of
the file with its quirks. `LruSim` is a set-associative cache as one would define it: a
sequence of blocks per set. `Lru` in `Csim` reads such a sequence from the stamps. `Trans`
runs `transpose_submit` a row of a block at a time: each row is a sequence of loads and
stores, replayed on `Csim`'s cache as `test-trans.c` does.

### `RunTrace` - `runtrace.c`, `tshlab-handout/tsh.c`, the helpers, over `Tsh`

Every step of shell, kernel and children is an action of `Tsh`, conjoined with what it
prints, reads or sends. The driver's variables are the script and what it waits for; `cmds`
and `out` are the two directions of the data socket (datagrams keep their boundaries, and
what the shell holds back until `fflush` is joined in one: `held`), `ready` and `go` those
of the other. A timeout (`TimesOut`) happens when nobody else can do anything: four seconds
are long for these processes, and a job's ten seconds are longer than the driver's four.
`Paced` says of a script that if it asks for prompts it asks for each: between two commands
of which the second has a `NEXT` after it there is a `NEXT`, as in all traces of the lab.

## 4. Runs

| Run | Shows |
|---|---|
| `cache_reuse` | With `Reuse`: the list is sound (`ListSound`), holds one copy of a URL (`UniqueUrls`), is walked only on its own nodes (`WalkInList`) by one thread (`OneInside`); the count tested by the eviction never shows a reader (`OwnNodeUnread`). |
| `cache_lru` | Without `Reuse`: `tsize` is exact (`Accounting`), the objects fit (`Fits`), reader counts are exact (`ReadersCounted`), `CACHE_FAILURE` does not happen (`NeverBusy`), the cache implements `LruCache` (`ImplementsLru`), and `qmutex` is always released though no peer ever answers (`QueueReleased`). Deadlock is checked. |
| `cache_occupied` | *Violation* of `OccupiedKept`: finding 1. |
| `forward` | Bytes arrive in order, once (`InOrder`); the copy for the cache never outgrows its memory (`CopyFits`); a whole response is forwarded and cached whole, or not cached if it does not fit (`WholeResponse`); the thread ends unless its server resets (`Ends`). |
| `forward_copy` | *Violation* of `CopyWhole`: finding 2. |
| `tsh_core` | Room for every child: `NoStaleJob`, `Tracked`, `NoMissedChild`, `HandlerSafe`, `SparesBackground`. |
| `tsh_full` | One entry for two children: `addjob` fails, children are untracked, a stop of one crashes the handler; up to then the list is right and no child is missed. |
| `tsh_live` | `ForegroundEnds`: `wait_fg` ends when its job is dead or stopped. |
| `tsh_bg_runs` | *Violation* of `BackgroundRuns`: finding 3. |
| `runtrace` | A prompt the driver takes for the next is the next (`InStep`), its signals reach a job that is ready (`SignalsArrive`), and every trace of the lab ends without a timeout (`Passes`). |
| `malloc` | All nine allocators: the driver's tests pass (`Accepted`), the abstract promise is kept (`Promised`), no block is lost or on a list twice (`Accounted`), no call that the code guards touches address 0 (`NoFault`). For `mm.c`, the one that is built: blocks tile the heap with consistent tags (`Sound`), no free neighbours (`Coalesced`), lists exact (`Listed`), and a request is refused only by a full heap (`FailsOnlyFull`). |
| `csim` | The simulator is an LRU cache (`ImplementsLru`); the transposes are right (`is_transpose`), with 284, 1352 and 1861 misses (`FewMisses`). |

TLC prints "CostModel lookup failed" in `malloc`, when it collects coverage for an operator
that is the value of a constant; it is harmless.

## 5. Bounds

* **Cache.** Two threads, three nodes, two URLs (`cache_reuse`) or three (`cache_lru`),
  object sizes 1 and 2, a cache of 2. Two threads are enough for every pair of sections to
  meet, since a third could only wait at `qmutex` or send a body; three nodes are two in the
  list and one in flight, or one freed and reused while another is read. The sizes make
  insertions evict none, one or two entries. With sizes up to `MaxObject = MaxCache`, an
  object that fills the cache is included. Threads' life is not bounded: a slot takes a new
  connection after each return.
* `TsizeBound` (`cache_reuse`) stops exploration where `tsize` exceeds `2 * MaxCache`:
  after a failed insertion the sum grows with each retry. `cache_reuse` does not check
  deadlock, since that same retry may wait for its own `cmutex` (see section 8).
* **Shell.** Two pids, which come back, so the number of jobs in a behaviour is not bounded
  by them. Job IDs are not bounded by `MAXJOBS`: `deletejob` sets `nextjid` to the largest
  in use plus one, and if the jobs overlap that may go up for ever. `MaxJid`, in the guard
  of `Fork`, bounds it: with `MaxJid = MAXJOBS + 1` jobs are started with the first number
  beyond the list's length, after the counter has wrapped and been recomputed; the numbers
  after it bring nothing that this one does not, as they are only compared. `tsh_live` stops
  at `MAXJOBS`. `Keys` is reduced to ctrl-z in `tsh_live`,
  where a liveness check without symmetry is costly; ctrl-c differs only in the signal.
* The shell's runs do not check deadlock: after `quit`, or a null pointer, it stops.
* Symmetry is used for threads, nodes, URLs and pids in safety runs only; no definition of
  theirs chooses among them (`ProxyCacheLru` has a `CHOOSE`, and its run uses no symmetry).
* **Forwarding.** `MAXLINE = 4`, `RIO_BUFSIZE = 2` and objects of at most 12 bytes: a line
  fits, fills or exceeds the buffer, a refill holds less than a line, a body takes no piece,
  one, or one and a rest, and a response ends just below, at and above the cache's limit
  (`MCResponses` has all of these). Reads and writes return any count. `MaxSent` bounds what
  is written; it is above the longest stream, and reached only by the loop that a read error
  starts.
* **Allocators.** A heap of 160 bytes that grows by 48, three block numbers, requests of 4
  and 28 bytes (the smallest block and a larger one), six requests in a trace (five for
  `mm-book.c` and for `mm-segregated.c`, whose lists are `mm.c`'s; four for `mm-naive.c`). The heap is grown twice or three times and then full;
  free blocks meet on both sides, are split with and without a rest, and requests fail with
  free blocks left. 28 bytes do not fit the block that 4 leave. Traces of six reach three
  live blocks, two of them freed and merged, and another request in the hole. The second
  memory of `Memories` holds another trace's data, so that nothing can rely on zeros. One
  path is not reached: in `MmBinaryTree`'s `DeleteNode` a successor that is not the right
  child itself needs four tree nodes, which this heap cannot hold. Size classes above the
  heap's size are not reached either.
* **Simulator.** One set of three blocks, two of two, and two of one; six addresses, up to
  five lines of data with loads and modifies (a store does what a load does). Addresses up
  to 15 lose no bit to the tag's mask. Three blocks and five lines are enough for a block to
  be renewed and another evicted. The matrices are the graded ones in full size.
* **Driver.** Two pids and two jobs at a time are what the traces use. The scripts are the
  lab's traces 3, 5, 6, 8, 9, 11-14, 16, 18-20, without the lines that echo the next
  command; 10, 15, 17 and 21-24 repeat these with other programs or test redirection. Five
  more scripts meet timeouts, text joined with the prompt, and a shell that has ended.
* `forward`, `malloc`, `csim` and `runtrace` do not check deadlock: the thread, the trace
  and the script end.

## 6. Fairness

* `ProxyCache!FairSpec`: weak fairness of `Compute(t)` for every thread: the kernel runs a
  thread that can run. `Network(t)`, which waits for a browser or a server, has none.
  Weak fairness does not promise that a thread waiting in `P` ever gets the semaphore, and
  `QueueReleased` does not need it: inside the list a thread waits only for a `cmutex`, and
  who holds that one can always go on.
* `Tsh!FairSpec`: weak fairness of `Deliver("CHLD")`, strong fairness of `Shell` and of
  every `Handler(s)`. The loop is disabled while a handler runs; strong fairness says that
  keys are not pressed so fast that the processor never gets back to the loop, and
  the same for a handler interrupted by others. Nothing is assumed of users and children.
* `ProxyForward!Spec`: weak fairness of `Thread`, whose steps are system calls that return
  and what follows them: the peers of this module send what they send and close, and take
  what is written. `Ends` then says that no loop goes round for ever. A peer that never
  answers is `ProxyCache`'s `Network`.
* `RunTrace!RTFairSpec`: weak fairness of all work together, as it is bounded by the script,
  and of `TimesOut`: time passes.

## 7. Proofs

Eight modules hold theorems: `ProxyCache_proofs` (for `ProxyCache` and `ProxyCacheLru`),
`ProxyForward_proofs`, `Tsh_proofs`, `RunTrace_proofs`, `MmDriven_proofs`, `Csim_proofs`,
`Allocator_proofs`, and `DataLemmas`, which has only lemmas. The theorems hold for all values of the constants
that satisfy the named assumptions of the modules, which TLC evaluates in their runs:

| Module | Assumptions |
|---|---|
| `ProxyCache` | pointers and junk are distinct from values; `MaxObject <= MaxCache` (`cache.h`) |
| `ProxyCacheLru` | finitely many threads and nodes; a list entry is not `NULL` |
| `ProxyForward` | `MAXLINE > 1`, `RIO_BUFSIZE > 0`; requests and responses are sequences of bytes |
| `Tsh` | `NoPid` is no pid, `MAXJOBS` positive, `Keys` among ctrl-c and ctrl-z |
| `RunTrace` | both keys; a script's `fg` and `bg` name a possible job; scripts are `Paced` |
| `Mm` | `MaxHeap` holds `mm_init`'s four words; `CHUNKSIZE` is a multiple of eight and at least a block (`mm.c` has 168) |
| `Mdriver` | `NumIds` is a natural number; requested sizes are positive multiples of four |
| `Csim`, `Trans` | options are natural numbers, at least one way; what is known of powers of two (2^s is positive, 2^(s+b) = 2^s * 2^b), which the provers have no definition of |

`Thread`, `Node`, `Url`, `Pid`, the requests, responses, scripts, options and addresses may
otherwise be any sets. Some theorems have a hypothesis of their own, which is said below:
`~Reuse`, `Room`, `TagsWhole`, `Handled`, `Proper`, `MmLinked`. Each is met by the run that checks the
property.

**`ProxyCache`.** `TypeCorrect`, `MutualExclusion`, `ListCorrect`, `NoDuplicates`,
`SafeWalks`, `BusyTestVacuous`. `ListSound` is not inductive: it describes the list from
each node and allows a ring beside the list, from which a `delete_node` would go wrong. The
inductive invariant says instead that *there is a sequence of distinct nodes* which the
links follow from `head` to `rear`, which holds exactly the allocated nodes not in flight
and no two nodes of one URL (`Shape`). With it go `Semaphore` (who may be inside),
`Owners` (a node in flight has one inserter) and, for every thread inside, where it stands
in that sequence (`Walk`): a scan has found its URL nowhere before `cur`, which gives
`NoDuplicates` at `Link`; the eviction stands at the head, which gives `SafeWalks` when it
reads `p->next` after `delete_node`. `DeleteNodeCuts`, `AddToRearAppends` and `ScrubKeeps`
say what the list's operators do to the sequence; `MoveToRearStep`, `EvictStep` and
`LinkStep` use them. The proofs cover `Reuse = TRUE`: a reader left behind changes counts
and semaphores only, of nodes that `OwnNodeUnread` bounds.

**`ProxyCacheLru`**, under `~Reuse`: with reuse the counts are false (finding 1).
`ReadersExact` from `CountOK`: the count of a node in the list *or in use* is the number of
its readers, so that an evicted node's readers are still counted down, and a node being
inserted has none, from which `RetryUnreached`. `BytesCounted` and `CacheFits` from
`BytesOK`: besides `Accounting`, objects are no larger than `MaxObject`, `tsize` is above
the limit when the loop deletes, and within it when nobody stores. When the loop meets the
end of the list the sum is over the new node alone, which is where `MaxObject <= MaxCache`
is needed. `IsLruCache` shows that every step maps to a step of `LruCache` or a stutter: the
sequence of `Shape` is the one that `LruOrder` reads from the links (`OrderIs`, by induction
along `Follow`), `MoveToRear` cuts it and appends (`EntriesMoved`), `Evict` takes its tail
(`EntriesTail`), `Link` appends (`EntriesAppend`), and what the other threads got from their
lookups does not change (`RequestsStep`).

**`ProxyForward`.** `CopyBounded` from `CopyOK`: until the body's length is known each
piece is tested and `tsize` is the copy's length; after `tsize += csize` the copy and what
is still to come fit together, and a part read is no longer than was asked for, though
`tsize` says nothing of the copy any more. `StreamsInOrder` has one half for each peer. For
the browser (`Conserved`), as long as the server's connection stands: *the bytes it has,
those in hand, those in `rio_buf` and those to come, in this order, are the response that
was sent*; what is in hand depends on the place in `proxy.c` and the call in progress
(`Held`), which needs that `ret` is the length of `buf` where the code trusts it to be
(`Replies`). For the server (`ServerOK`) the same string is ordered by place, until the
blank line. `TakeEffect`, `RefillEffect` and `WriteEffect` say what each RIO step does to
a stream. `IoOK` ties a call in progress to the place that made it.

`WholeAnswered` (`WholeResponse`) has the hypothesis that every response is `Proper`: it is
not empty, and if one of its header's lines names a length then that is 0 or the number of
bytes after the blank line (0 if there is none). Of other servers the property is false: the
bytes beyond a length that is too small are left out, and a length that is too large is counted
for the copy (finding 2). The module of the run assumes it of its responses, so that TLC
evaluates it. The places where header
lines begin (`Starts`) are given by how `rio_readlineb` cuts a line (`LineEnd`), not by
recursion along the stream: any set of places that is closed under "the next line" will do.
The invariant (`Progress`) says that, while nothing fails, the browser has the response up to
`Begin`, where the line or piece in `buf` starts, that a line in `buf` goes from one start to
the next (`Lines`, `Headers`), that in the loop by length `csize` is exactly what is left
(`Bodies`), and that the copy is the response up to `Begin` or was given up for a response
that does not fit (`Copies`, which takes the counts from `CopyOK`). A read at end of file,
which `rio_readlineb` reports as a line that is one byte longer, is where `ret` and the bytes
part (`EndRead`).

**`Tsh`.** `TypeCorrect`, `NoStale`, `NoneMissed`, `KeysSpareBackground`, `EveryJobTracked`,
`HandlerNeverFaults`. `NoStaleJob` speaks of moments without a handler; the inductive
invariant speaks of all: an entry's child has not been reaped, or it has and `deletejob` of
it is the handler's next step (`EntriesOK`); no two entries name one child (`OneEntry`). For
`addjob` to keep them, signals must be blocked since before `fork`, no handler be running,
and the child alive and without an entry (`AddOK`). `StackOK` (a handler with local state is
on the stack) makes "no handler runs" say that nothing is half done. `PointerOK` and the
types serve `TypeCorrect`. `KeysSpareBackground` adds `Aimed`: the job whose pid a key's
handler holds may have ended, stopped, or been replaced, but no `bg` has run since. The last
two need room in the list (`Room`: no more children than `MAXJOBS`; `tsh_full` shows them
false without) and `NewsOK`: what `waitpid` has reported is still so when the handler acts on
it. A free entry is found by counting: the entries in use name different children, and one
child has none (`FreeEntry`).

**`RunTrace`.** `DrivenShell`: every step of the composition is a step of `Tsh` or leaves
its variables alone, so that the theorems about `Tsh` hold under the driver. `DriverInStep`
(under `Room`, as a handler that faults ends the conversation) for any paced script: from
`OneAnswer`, as long as a `NEXT` lies ahead, at most one of a command on its way, a shell at
work and a prompt on its way is there, and if there is one, then a command was sent since
the last `NEXT`. `HeldOK` adds that only the loop's own prompt is sent alone, `WaitsOK` that
a waiting driver stands at the line that made it wait.

**`Csim`.** `SimulatesLru`, for any number of sets, ways and bytes in a block and any trace,
under `TagsWhole`: the tag's mask loses no bit of an address in the trace (`csim.c:198`;
without it blocks are confused, see section 8). The invariant (`SetOK`) says of each set that
its blocks fill from the first on, that tags are distinct, and that *there is a sequence of
the valid blocks ordered by their stamps* (`Ages`); the loop that stops at the first hit or
empty block, and the choice of the least stamp, are then the three cases of an LRU access
(`AccessIs`), which append to that sequence (`Fill`) or cut and append (`Renew`). That
`ByAge`, which counts older stamps, reads this sequence is `ByAgeIs`; that tag and index
determine the block's number and the other way round, `NumbersApart`.

**`Trans`**, in `Csim_proofs`. `Transposed` (`is_transpose`) under `Handled`: matrices have 32,
64 or 67 rows, the cases of `transpose_submit`'s switch, and for 32 and 64 a number of columns
that is a multiple of eight (of others the code would store elements that A does not have).
The run checks the three graded shapes, the theorem every width. The invariant (`Walks`) says
that every element *before* the row that is next is in its place (`Before`: in the columns of
blocks that are done, in the blocks above, or in the rows of this block that are done, where
row `n` of a 64-row block is half a row, the left halves downwards and the right ones
upwards), that the loops stand at the edge of a block, and that between the first row of a
64-row block and its last x4 to x7 hold the right half of the first (`Held`). The accesses of
a row are a fold over a sequence; `RunIs` unfolds it access by access, `CopyIs`, `LoadsRun` and
`StoresRun` say what a few accesses do, `Row32Is`, `Row67Is` and `Row64Is` what a row does:
it stores its elements and nothing else (`Wrote`), for different elements have different places
(`Places`). `WholeBlock` shows that the rows of a block leave none of it out.

**`MmDriven`.** `HeapSound`, `HeapCoalesced`, `HeapListed`, `RefusedOnlyFull`, `MmAccepted`,
`MmNoFault`, `MmPromised`, `HeapKeepsAll`: `mm.c` is right on a heap of any size, for any
number of blocks, any sizes and traces of any length. The hypothesis `MmLinked` says that
the driver's package "mm" is `mm.c`: its five operators are `mm_init`, `malloc`, `calloc`,
`free` and `realloc` of `Mm`, which is how `Malloclab` defines them for the run (`MCinit`,
`MCmalloc`, ...: the case "mm" of each). The other packages are left open;
`MmAccepted`, `MmNoFault` and `MmPromised` are about the behaviours that evaluate "mm" (`IsMm`).

`Sound`, `Coalesced` and `Listed` are not inductive: they say nothing of what the words
between two requests will be read as. The invariant (`Ready`) says that *there is a plan of
the heap*: a set `B` of blocks, their sizes `S` and the set `F` of those that are free, such
that

* the blocks lie end to end from the prologue to the break (`Plan`), each header is its size with
  the two bits that the plan implies, and a free block's footer repeats it (`Tags`);
* the links of `F` and the fourteen global words make doubly linked lists by size class
  (`Chained`), along which some rank `r` climbs. The rank is what excludes a ring, so that
  `find` and `FreeList` end; it is needed because nothing can be proved here by induction
  along a list. `remove_list` keeps it and `insert_list` puts the new head below the rest;
* no two free blocks are neighbours (`NoTwins`);
* the blocks in use, `B \ F`, are exactly those of the trace, large enough and with the
  trace's data in them (`Held`).

Each function of `mm.c` is shown to take a heap with a plan to a heap with another one, and
to leave alone the words of the blocks that stay in use (`Steady`): the four cases of
`coalesce` (`Joined`), `extend_heap`, `place` with and without a split (`IsSplit`), `free`,
`malloc`, `calloc`, and `realloc`'s copy. Between `free`'s header and `coalesce` the footer
of one block may be missing, which `ShapeBut` allows. `FindIs` and what leads to it show that
the search looks at every block that could do (`NoRoom` when it finds none), hence
`RefusedOnlyFull`. Each request of the driver is then shown to keep `InOrder`, which adds to
`Ready` that `total` is the sum of the trace's sizes and that the high-water mark does not
exceed the break; `add_range` and `check_index` find nothing, which is `MmAccepted`. The
refinement needs no more: two blocks of one plan do not overlap, and `Steady` is what
`Allocator` asks of the words. `HeapKeepsAll` (`NothingLost`) is what `Accounted` says, for
`mm.c`: a block is free and on a list, or the trace's.

**`Allocator`.** `PayloadsApart` and `PayloadsUnspoilt`: with addresses, sizes, numbers and
the meaning of a payload left open, live payloads have no word in common and hold what was
written to them. The inductive invariant is the conjunction of both with the types; `Give`
needs that the new payload is apart from the live ones (`GiveInv`), every other step that
their words are kept (`KeepInv`). With `Promised` this is what `add_range` and `check_index`
look for, of which the former compares only the two ends of a new block with the old ones.

**`DataLemmas`** has the laws of sums over finite sets (`SumAdd`, `SumTake`, `SumSame`,
`SumImage`) for the library's `SumFunctionOnSet`, which is a fold that `CHOOSE`s its
function: `FoldExists` and `FoldsAgree` show that there is one and only one. The library's
induction rules take a predicate as a parameter, which the provers cannot be given; the
lemmas take a smallest counterexample instead, from the well-foundedness of < on Nat
(`LeastNat`) and of strict inclusion on finite sets (`SmallestSet`).

Model-checked only:

* liveness, which the prover does not handle under fairness: `QueueReleased`,
  `ForegroundEnds`, `Ends`, `Passes`; and `SignalsArrive`, which depends on each script's
  waiting for its job before it signals;
* `Promised`, `Accepted` and `NoFault` for the eight allocators other than `mm.c`, and
  `Accounted`, which speaks of all of them at once and is stated in a module that reaches
  recursive operators, in whose presence the prover has no arithmetic (`mm.c`'s part is
  `HeapKeepsAll` with `HeapListed`);
* `FewMisses`, numbers that belong to the three graded matrices and the tester's cache;
* the three properties that runs show violated.

## 8. Findings

Checked by a run of their own:

1. `cache.c:92` tests the reader count of the node being *inserted* instead of the one being
   deleted: a node whose body is being sent is freed (`cache_occupied`; `cache.c:90` says the
   contrary). `BusyTestVacuous` shows that the test never protects a reader.
2. `proxy.c:192` adds the whole `Content-Length` to `tsize`, and the loops after it ignore how
   much `rio_readnb` returned: when the server closes early, the cache is given an object
   longer than the copy (`forward_copy`; `proxy.c:146`).
3. `bg` (`tsh.c:459`) does not send `SIGCONT`: the job is listed as running and stays
   stopped (`tsh_bg_runs`; `tsh.c:29`, `37`).

Met while modelling; the models take these steps:

* **Proxy.** `cache.c:105-108` returns `CACHE_FAILURE` without undoing `tsize += size` and
  without `V(&acache->cmutex)`; reached when recycled memory has been decremented by a reader
  that finding 1 left behind. After a read error `rio_readlineb`'s -1 keeps the header loop
  of `proxy.c:166` going, and in the body loops it is passed on as a length. A failed
  `Open_clientfd` is used as a descriptor; `rio_writen` then subtracts a variable it never
  set (`csapp.c:576-582`).
* **Shell.** `fg` marks an entry after a handler may have cleared it (`tsh.c:476`), so two
  entries may be in the foreground, against `tsh.c:39`. A stop reported before `fg` continues
  the job is recorded after (`tsh.c:573`): `ST` for a job that runs. A key pressed before the
  child's `setpgid` (`tsh.c:260`) reaches nobody. `nextjid` wraps, or is recomputed, into a
  number in use (`tsh.c:666`).
* **Allocators.** `calloc` of `mm.c` and `mm-naive.c` zeroes address 0 when the heap is full;
  `mm-segregated.c` does so in `realloc` too and its `calloc` zeroes one byte of each element
  (its comment, 944-948, speaks of the whole). `mm-segregated2.c` writes a header before it
  looks at what `mem_sbrk` returned. `mm-my.c` gives a block for `realloc(p, 0)`, which the
  driver refuses, keeps it for ever, and faults on `free(NULL)`. `mm_init` of `mm.c` compares
  `mem_sbrk`'s -1 with `NULL`. These are the exceptions that `Accepted` and `NoFault` name.
* **Simulator.** A trace whose last line is an instruction fetch never ends (`csim.c:207`
  comes before the test of `feof`), and a last line without a newline is dropped. The tag's
  mask keeps only as many bits as set index and block offset have (`csim.c:198`), so blocks
  further apart are confused.
* **Driver.** Text that a handler prints while the prompt is held back is sent in one
  datagram with it, and `NEXT` waits for another until it times out (`runtrace.c:426`); the
  script that starts `myints` in the background shows it, none of the lab's does. A timeout
  of `NEXT` exits with 0, neither timeout calls `clean`, and a `SIGNAL` that nobody fetched
  releases the next job. The timeout for the first prompt is printed and the script begun.
  Traces 15 and 16 do not notice that `bg` continues nothing.

## 9. What is left out

* **Proxy.** `Malloc` failing; the node that `Insert_cache` leaks when it is given no copy;
  a `Content-Length` that is negative or too large for an `int`; a header of exactly
  `MAXLINE - 1` characters before its end of line; several `Content-Length` lines; the text
  of URLs (`parse_uri`). `EINTR`: the only signal handled is ignored. `read_cnt` is changed
  only under `cmutex`, so `+= 1` is one step. `Test.c` is a scratch file.
* **Shell.** `tcsetpgrp` and which group the terminal signals (keys come to the shell);
  `redirect`, `parseline`, the text of `listjobs`; failure of `fork`. `printf` in a handler
  that interrupts `printf`.
* **Shell's driver.** `sdriver.c`, which runs `runtrace` trace by trace and compares texts,
  `driverlib.c`, `mysplitp.c`, `mycat.c`, `myenv.c`; `mysplit`'s two processes are one. What
  a run that has ended leaves behind is not followed.
* **Allocators.** Sizes that wrap around `size_t`, and more than 4 GB; requests that are not
  multiples of four; the parsing of trace files, timing (`fcyc.c`, `clock.c`, `ftimer.c`),
  results. `mm-uw.c` ends the program when `mem_sbrk` fails, which is a refused request
  here. `mm-explicit.c`, `mm-book.c`, `mm-uw.c` and `mm-binarytree.c` have no `calloc`.
  `list.c` is an exercise that nothing calls.
* **Cache lab.** `-s` and `-b` that are missing or whose sum is near 64 (undefined shifts);
  allocation failures; the trace files that `tracegen` and `valgrind` write and the child
  processes of `test-trans.c`; `trans`, a baseline.
* **Bit puzzles.** Pure functions, each with a reference in `tests.c`, over words: `btest`
  tries far more words than TLC could, bit operations are outside what can be proved here,
  and a model would be the C text over again.
* **Bomb.** The phases are a binary. Course tools (`driver.py`, tracers, `dlc`), binaries and
  the textbook wrappers that no program calls stay out.
