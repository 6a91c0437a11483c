# ChipLogger in TLA+

ChipLogger (`src/lib/logger`) is a logging library in C for microcontrollers and
hosts, derived from the ESP-IDF logger. A program sets a level per tag, logs messages
and buffers, and may redirect the output; the library keeps a list of levels, a small
cache in front of it and one lock, which each platform implements in a port.

This directory holds TLA+ modules of that code, TLC configurations that model-check
them, and proofs that TLAPS checks. Each definition is a translation of the C source;
`PROJECT.json` maps every definition to its lines.

## 1. Inventory

| Component | Source | State | Operations | Module |
| --- | --- | --- | --- | --- |
| Level registry and tag cache | `log.c` 72-97, 124-225, 250-350 | default level, list of levels by tag string, array of cached levels by tag address, generation, live count, misses | `log_level_set`, `is_tag_level_visible` and their helpers | `LogLevels` |
| Lock ports with tasks | `porting/log_freertos.c` 37-58, `porting/log_pthreads.c` 34-75 | the mutex, created on first use | lock, lock with timeout, unlock | `LogLock` |
| Lock port without an operating system | `porting/log_noos.c` 27-45 | `s_lock` | the same, with asserts | `Logger`, port `noos` |
| Public calls | `log.c` 107-122, 227-248, 531-557 | the two installed functions | `log_write`, `log_writev`, `log_write_buffer_*`, `log_set_vprintf`, `log_set_writev` | `Logger` |
| Buffer dumps | `log.c` 376-529 | none between calls | three formats, one loop each | `BufferDump` |
| Timestamps | the three ports | `base`, the static buffer and its lock, a counter | `log_timestamp`, `log_early_timestamp`, `log_system_timestamp` | `Timestamps` |
| `LOGx` macros | `log.h` 326-415 | none | the calls they expand to, the compile-time level | `Logger` |
| Configuration | `log_config.h`, `custom_log_config.h` | none | sizes, the choice of the port | constants |
| Tag list | `queue.h` (vendored BSD macros) 180-295, `log.c` 124-195, 311-325 | head, links, blocks | insert at the head, remove the head, walk, malloc, free | `TagList` |
| Demonstration, tests, transport | `src/src`, `src/test` | none of the library's | | not modelled |

How they interact. A `LOGx` macro takes a timestamp and calls `log_write`, which calls the installed writev
function, by default `log_writev`; that asks `is_tag_level_visible` and calls the
installed print function. A dump asks once before its first line and then calls
`log_write` for every line, which asks again; a `LOGx_BUFFER_*` macro is a `log_write`
and a dump, two statements. `is_tag_level_visible`, `log_level_set`
and the two swaps use the state under the port's lock; the installed functions are
*read* without it and *run* without it, so they may log in their turn.

What is hard in this code:

* The cache is keyed by the address of a tag, the list by its string; `log_level_set`
  has to keep the two in agreement, also when `malloc` fails half-way.
* The cache is a heap that is never re-ordered by comparison: an entry is moved down
  to a leaf unconditionally, which is right only because it is always the youngest.
  Its generations have 29 bits.
* The lock is created by the first call that finds none, the logging calls give up
  after a timeout, and unlock gives back whatever mutex is current.
* A message is decided under the lock, compared after it, and printed later still.
* The list is rebuilt by `"*"` while other tasks wait to walk it; `malloc` may fail, and
  one early return has an unlock of its own.
* The clock changes its source twice, when the scheduler starts and when `base` is set,
  which tasks and cores race to do; the cycle counter behind it wraps.
* The dumps format on the stack, in buffers whose sizes are sums written by hand, from
  a copy that always takes whole words.

What makes each part correct: an answer follows the level set last (registry); the
cache cannot be seen except as speed, keeps a working set that fits, evicts the oldest
tag, and no assert fails (cache); no pointer dangles and no block leaks (list); one task
at a time, no lost lock, no endless wait (lock); a dump shows its buffer (dumps); stamps
do not go back and texts are whole (timestamps); messages follow a level of their time,
dumps are whole, swaps lose nothing, handlers run unlocked, calls return (public calls).

## 2. Modules

```
          LevelRegistry        RecencyCache           Mutex
          ^    ^    ^            ^                  ^   ^   ^
          |    |    |            |                  |   |   |
          |    |   LogLevels ----+             LogLock  |   |
          |    |                                        |   |
          |   TagList ----------------------------------+   |
        Logger  --------------------------------------------+

          BufferDump           Timestamps
```

`LogLevels` implements `LevelRegistry` and `RecencyCache`, `LogLock` implements `Mutex`;
all three refinements are theorems. `Logger` is written over the two abstract
specifications with `INSTANCE`, so its runs need neither the heap nor the creation of
the mutex: the composition is by refinement. `TagList` takes the lock from `Mutex` and
implements `LevelRegistry` once more, from the pointers, which is a theorem too.
`BufferDump` and `Timestamps` share no state with the others. Every module but the
abstract ones has its theorems in `<module>Proofs`; `RecursionTheorems` has the two facts
about recursive functions that `TimestampsProofs` and `TagListProofs` share.

### LogLevels

One step per public call, because the code runs each between lock and unlock.
The variables have the names of the C statics. `reply` is the last returned answer,
`aborted` says that an assert failed and the program is gone. Actions:

* `log_level_set`: `"*"` is `SetDefaultLevel` (with `clear_log_level_list`: the list,
  the live count, the generation and the miss counter are reset, the slots keep their
  garbage); another tag is `RecordLevel` and then `RefreshCache`, or `AllocationFails`,
  which returns before the refresh. `RefreshCache` stops at the first slot with the
  same *string* and checks the heap on its way (`OrderAssert`).
* `is_tag_level_visible`: `LockTimesOut`, or `LookupAborts`, or `CacheHit` (renews the
  generation only in a full cache) or `CacheMiss` (`AddToCache` appends or replaces
  slot 0). `Answer` uses the whole level on a miss and the three-bit one on a hit.
* `heap_bubble_down` is a loop of swaps. It is modelled by the set of slots it visits:
  `IsBubblePath` says which set that is and `BubbledDown` what the swaps do along it.
  There is exactly one such set (`BubblePathIsOne`), so the step is deterministic; a set
  is easier to prove about than a recursive function.

Widths are constants: `LevelModulus` (2^3), `GenerationModulus` (2^29),
`CounterModulus` (2^32). `MaxGeneration` bounds the exploration.

Three conditions are named and used as hypotheses:

* `OneAddressPerTag`: no two addresses with one text (`readme.md:25` suggests one static `TAG`
  per file; two files with the same text break it, see section 5).
* `LevelsFitCache`: levels of three bits; `LOG_NONE` to `LOG_VERBOSE` are 0 to 5.
* `GenerationsFit`: no wrap of the generation since the last `"*"`.

The text at an address is constant: a caller that reuses a buffer for tags is outside.

### LogLock

Test, creation, call of the wait primitive, take, give-up and unlock are separate
steps. FreeRTOS and pthreads differ in one constant: a second `sem_post` counts on
(`CountsPosts`), a second `xSemaphoreGive` does not. The primitives themselves are
external: a handle has a number of tokens, taking needs one. Giving up needs that
there is none: `log_pthreads.c` computes an absolute time close to the epoch, so it
gives up at once; FreeRTOS gives up after 10 ms. `FirstUseAlone` says that the
program's first logging call returns before any other begins; `MayEnter` enforces it.

### TagList

The list of `LogLevels` again, with its pointers: one action per statement of
`log_level_set`, `clear_log_level_list` and `get_uncached_log_level`, with the `SLIST_*`
macros expanded. A block that was never written, or was freed, holds `Junk`, so a use
of it can be seen. A lookup is one that missed the cache. The walk compares tags by
content (`strcmp`). `committed` is history: the levels in force when the lock was last
released. The refinement maps the registry to it, so a step inside the critical section
is a stutter and the unlock is the registry's call; what is half done in between must
not show.

### Logger

A call is a frame on its task's stack: a macro calls `log_write` and a dump, a dump
calls `log_write` for each line, and a print function can log. A frame's `at` is the
next thing to do: `entry` (read `s_writev_func`), `lock`, `locked`, `install`, `unlock`,
`parts`, `handler`, `handled`, `return`. `parts` are the calls a macro or a dump has
still to make (`NextPart`). `LOGx` is a `log_write`; a macro above
`MAXIMUM_ENABLED_LOG_LEVEL` is compiled to nothing. A custom writev function is the
caller's; it is modelled as the test suite's, which puts out whatever it gets. `port`
is chosen at the start: with `tasks` the lock is `Mutex`, with `noos` there is one
program, nobody ever waits, and a lock that is taken stops it (`aborted`, the assert of
`log_noos.c:31`; the assert of `log_noos.c:43` is the guard of `Release`). `seen`,
`output`, `unfiltered` and `refused` are history: whether the message was visible at
each moment since the call began, what was put out, whether a custom function did it,
and whether a lock was refused. `owned` is the discipline of the callers: a task
installs a function it has, and gets back the one that was replaced.

### Timestamps

`port` is the port the configuration picks and `uses` the function the program calls:
`log_timestamp` (every `LOGx`) or, on FreeRTOS only, `log_system_timestamp`; the two share
no state, so they are explored apart. `Passes` lets the time jump to any later moment of
`Moments`, `SchedulerStarts` starts the scheduler. `log_timestamp` is cut where another
task may run: the test of `base` and of the core, the cycle counter, the assignment, the
tick count, the second read of `base`. `log_system_timestamp` before the scheduler pushes
digits in front of the static buffer (`NumberText` is the double loop); afterwards it
reads the time, takes `bufferLock` and writes four pieces and a NUL one by one. Three
history variables: `latest` is the largest stamp returned; `trusted` says that no two
tasks raced for `base` and that the cycle counter was not read past its wrap;
`settledLatest` is the largest stamp returned to a call that began with `base` settled,
that is, set, and with nobody left who found it unset and has still to set it
(`BaseSettled`). A call notes the first and the last as it begins (`floor`, `since`).

### BufferDump

One step per round of the do-while loop. A cell is the position and the kind of a
byte, so the model can tell bytes, order and origin apart; whatever the program never
stored is `Unset` and must never be shown. `printed` is the width of the formatted
line with its NUL, `copied` and `readTo` the size and the end of the last `memcpy`.
`isprint` of a byte above 127 gets a negative argument: its answer is undefined, so
such a byte may be of either kind. `PtrChars` is what `%p` prints and no condition is put
on it: it is the C library's choice, and whether a line of the hexdump fits `hd_buffer`
depends on it (`HexdumpFits`). With 10 characters on 32 bits and 14 on 64 bits a full line
uses the buffer to its last character; with the 16 digits of 64-bit MinGW, a platform
`log_config.h:61` picks a port for, it does not fit (`dump_address`, section 5). What the
code itself decides, the copy and the lines of the other two dumps, is `WritesFit`.
`Shown` is the length after its conversion to the
parameter's `uint16_t`: of a buffer that is too long only the rest is dumped, which
`LinesShowBuffer` states.

## 3. Runs

| Run | Instance | Checks |
| --- | --- | --- |
| `levels_registry` | 3 tags and `"*"`, 3 slots, 2 levels, generation modulo 4, counter modulo 8, 5 generations | `TypeOK`, `TagsDistinct`, `CacheCoherent`, refinement of `LevelRegistry`, across the wrap and up to the abort |
| `levels_heap` | 4 tags and `"*"`, 3 slots, 7 generations, timeouts | `CachedOnce`, `HeapOrdered`, `AssertsHold`, `WorkingSetStaysCached`, refinement of `RecencyCache` |
| `deep_heap` | 8 tags, 7 slots, lookups only | `HeapOrdered`, refinement of `RecencyCache` on three levels of the heap |
| `lock_ports` | 3 tasks, 3 mutexes, `FirstUseAlone` | `TypeOK`, `MutualExclusion`, `LockNotLost`, `TimedLockReturns`, `LockHandedOn`, refinement of `Mutex` |
| `tag_list` | 2 tasks, 3 blocks, 2 tags and `"*"`, 2 levels | `TypeOK`, `MemorySafe`, `NothingLeaks`, `SectionEnds`, refinement of `LevelRegistry` |
| `logger_calls` | 2 tasks (one logs buffers and swaps, one sets levels and swaps), both ports, 5 functions, print functions that log | `TypeOK`, `LevelDecides`, `DumpWholeOrNothing`, `LockFreeInHandlers`, `FunctionsConserved`, `LoggingReturns` |
| `dump_lines` | lines of 16, buffers of 0 to 51 bytes, lengths modulo 48 | `TypeOK`, `LinesShowBuffer`, `WritesFit`, `ReadsStayInLastWord`, `DumpReturns` |
| `timestamps` | 3 tasks on 2 cores, the three ports, the moments 0, 12, 112 and 215 ms, ticks of 100 ms, a cycle counter that wraps at 200 ms | `TypeOK`, `StampsFollow`, `StampsSettle`, `EarlyTextIsNumber`, `TextWhole` |

Four more runs end in a counterexample; section 5 says what it shows:
`levels_shared_tag`, `levels_assert`, `lock_creation`, `dump_address`.

Why the bounds are enough. More tags than slots makes evictions happen, also of the
tag just set; three slots are the smallest heap with a choice between two children,
seven the smallest where a swap has a subtree below it. `levels_heap` and `deep_heap`
leave 7 and 11 generations, enough to fill the cache and then hit and evict four times
in any order. Tags are symmetric except `"*"`. In `levels_registry` the generation
wraps after 4 operations instead of 2^29; the miss counter does not, because
`MaxGeneration` ends the exploration first. Three tasks give `LogLock` a holder, a timed
waiter and an unlimited one. `TagList` has a block to spare, a second entry to walk to
and a failed allocation at every point. `Logger` has both pairs that can disturb each
other (a dump against `log_level_set`, a swap against a swap), a header and two lines to
be cut between, and stacks of four: macro, dump, line and a message from the print
function. `BufferDump` has the sizes of the code but for the width of the length: three
lines, full and partial, an odd byte or two NUL bytes at every position, and the four
lengths from 48 to 51 that are cut to 0 to 3. The moments of `timestamps` have one, two
and three digits and the last lies behind the wrap of the cycle counter; the scheduler
starts at any of them, and with two tasks on core 0 and one on core 1 both the race for
`base` and the call before `base` is set happen. What grows without limit, and
every number of tasks, tags, slots, blocks, bytes and calls on a stack, is covered by the proofs.

In `levels_registry`, which runs into the abort, in `dump_lines`, where a dump is over,
and in `timestamps`, where time ends, the system may stop; deadlock is checked in the
other passing runs.

Fairness. `LogLevels` and `Timestamps` state none: all their properties are safety. In
`LogLock`, `TagList` and `Logger` each task has weak fairness of the steps inside a call: a scheduler runs every
ready task, and the print functions return (their own duty). Nothing makes a task call
the logger. No strong fairness is assumed of the mutex: neither port says who gets it
next, so an unlimited wait is only shown to be *handed on* (`LockHandedOn`), while a
logging statement, whose wait has a limit, is shown to *return* (`TimedLockReturns`,
`LoggingReturns`), and whoever has the lock to *leave* (`SectionEnds`). `BufferDump` is fair because its loop is the caller's own code.

`StampsFollow` has three conditions, each of which the model can break: a call on core 1
that begins before core 0 has set `base` gets ticks without `base`; two tasks of core 0
that both find `base` unset set it twice, and the stamps between follow the first value;
a stamp read past the wrap of the cycle counter starts again at 0. Without any one of
them TLC finds stamps that go back. `log.h:94-103` promises milliseconds and no order,
so these are limits of the code and not disagreements with it. `StampsSettle` says that
the limits pass: calls that begin with `base` settled follow one another whatever went
wrong before, raced, wrapped or counted without `base`, and this needs none of the three.
That nobody is left to set `base` is needed: if it is enough that `base` is not 0, TLC
finds the second task of a race overwriting it and stamps going back.

Some hazards are outside what a passing run shows. `lock_ports` assumes `FirstUseAlone`, so
the second creation of the mutex, and the waiters it would strand on the first one, do not
occur there; `lock_creation` shows the creation. How long a timed wait lasts is not
modelled, only that it ends. `LinesShowBuffer` takes either answer of `isprint` for a byte
above 127. A stale cached level behind a shared text and a wrapped generation are found by
`levels_shared_tag` and `levels_assert`, not by the properties of the other runs.

Every property has a mutant in the module it is about: an operator with a plausible
mistake (a forgotten reset, a reversed comparison, an early unlock, a missing
terminator) which, put in place of the original, makes TLC refute the property.

## 4. Proofs

Every safety property of the passing runs, invariant, action property or refinement, is a
theorem of its specification. Each module has one inductive invariant or a few
that build on one another. Hypotheses are named conditions on the constants; where none
is mentioned there is none but the module's ASSUMEs.

`LogLevelsProofs`, for every set of tags, every odd cache size (`log_config.h` asks for
2^n - 1) and all widths:

* `BubblePermutes` and `BubbleOrders`: moving an entry along a bubble path is a
  permutation of the slots, and restores the heap if the entry is the youngest.
* `BubblePathIsOne`: from every slot of every array there is exactly one bubble path. The
  loop of `heap_bubble_down` always ends, and the set that `PlaceNewest` picks is no
  choice: a full cache is never stuck and never nondeterministic.
* `TypeCorrect`, `TagsStayDistinct`, `CachedAtMostOnce` need no hypothesis. `BaseInv`
  is inductive: it adds to the three that every live slot holds a real address
  (`LiveTagged`), without which a hit could not be told from an empty slot.
* `HeapStaysOrdered`, `AssertsNeverFail` under `GenerationsFit`. `HeapInv` adds that
  every live generation is below the counter (so the next one is the youngest), that
  generations of live slots differ, and that no assert has failed. `HeapOrdered` says
  more than the asserts, that the root is the oldest of all: `RootOldest` shows it
  from the smallest slot that would be older than the root.
* `RecencyImplemented` under `GenerationsFit`: the heap refines the abstract cache. The
  steps are seen on the set of live *entries*, which a bubbling changes in one element
  only (`PlaceNewestEntries`, from `BubblePermutes` and the pigeonhole of the slots);
  `YoungestMapped` turns that into the abstract order of age, `FullMapped` counts tags
  by slots (`CachedOnce`), and `RootOldest` says that the victim is the abstract one.
* `WorkingSetIsKept` under `GenerationsFit`. `MissesCounted` says that the misses are at
  most the generations, equal the live slots until these are full and are no fewer
  afterwards; without the bound by the generations the miss counter could wrap and
  start the count again on a full cache.
* `CacheStaysCoherent` and `RegistryImplemented` under `OneAddressPerTag` and
  `LevelsFitCache`, wrapped generations included. `CoherentInv` is `BaseInv` with
  `CacheCoherent`. A failed allocation keeps it because both list and cache are left
  as they were; `CachedOnce` makes the first matching slot the only one to refresh.
* `AnswersAreCurrent`, from `CoherentInv`, if also no lock times out: the property
  `levels_shared_tag` refutes holds where no two addresses share a text.

`LogLockProofs`, for any number of tasks and both ports: `LockTypes`, `LockExcludes`,
`LockStays` and `LockImplemented` under `FirstUseAlone`. `LockInv` counts tokens: before the
creation at most one task is on its way, after it there is one handle, whose token is
either free or with the one task in the critical section.

`TagListProofs`, for any number of tasks, blocks, tags and levels:

* `TagListTypes`, `ListIsSafe` and `NoBlockIsLost` from `HeapInv`: one call at a time has
  the lock (`OneCall`); the list ends, has distinct blocks, distinct tags and only written
  entries (`ListOK`); and a call is as far as its stage says (`Progress`): before the
  insertion the walk has met every entry, so the new tag is absent, and what it removes is
  the head. `MemorySafe` alone is not inductive: an insertion keeps the list finite only
  because its block was in nobody's list, and a walk stays in the list only because
  nobody else has the lock.
* `ListServesRegistry` from `LevelsInv`: what a call has made, by its stage, of the levels
  that were in force when it took the lock (`Serves`). The unlock is the call of the
  registry and everything before it a stutter.

`LoggerProofs`, for any number of tasks, tags, functions and lines, stacks of any depth
and both kinds of port:

* `HandlersRunUnlocked` and `TypesAreKept` from `StackInv`: how a frame may lie on another
  (`StacksOK`: a caller waits at `handled` or `parts` for the call it made), that the lock is
  held exactly by the task whose top frame is in the section (`HolderOK`), and that without
  tasks one program runs (`OneProgram`).
* `LevelsDecide` and `DumpsAreWhole` from `MessageInv`, which says of every frame of a
  message what it saw (`Sees`: the visibility of now is among what was seen), what its
  verdict may be (`Decided`), how many lines it has put out and still owes (`Counted`),
  and how what a caller saw and counted goes with its part's (`PartOf`). The parts of a dump
  are decided one by one: that a dump is whole needs that each line saw no more than
  the dump did.
* `FunctionsAreConserved` from `FuncInv`: a function that a swap has read is the one
  it will hand back (`OrigRead`), and every function has exactly one place (`OnePlace`).

`BufferDumpProofs`, for buffers of any contents, lines of any number of words and a length
parameter of any width: `DumpShowsBuffer`, `DumpWritesFit`, `DumpReadsStay`, `DumpTypes`.
`DumpInv` ties the pointer to the lines printed (`Position`), so a round takes the next
piece; the arithmetic of the buffer sizes is in lemmas of its own. `DumpWritesFit` is about
`temp_buffer`, `hex_buffer` and `char_buffer` and has no hypothesis. `HexdumpFits` is no
theorem: that `hd_buffer` is large enough depends on the platform alone.

`TimestampsProofs`, for any number of tasks on either core, any moments, any tick and any
wrap of the cycle counter:

* `TimestampTypes` from `ClockInv` (`Phases`: what may run before the scheduler, and what
  a call at each stage may have read). `StampsDoNotGoBack` from `StampInv`: as long as
  `trusted`, what a call has read so far is not less than what was returned before it
  began, and one task at most is setting `base`, none once it is set (`Ordered`).
* `StampsDoSettle` from `SettleInv`, which does not mention `trusted`: once `base` is
  settled no call is on its way to set it and none can start to, the time since the start
  of the scheduler bounds what was returned, and the ticks a call has read bring it past
  what it found (`Due`). Until then nothing was returned that counts.
* `TextIsWhole` from `TextInv`: whoever is between acquire and release holds `bufferLock`
  and has written as many pieces as its stage says (`Exclusive`).
* `EarlyTextIsRead`, from `TextInv` too: the rounds of the push in front give the digits, and reading them
  gives the number. The loop is a recursive function here, and its result for
  every number is proved by induction over the rounds (`UpTo`). The hypothesis
  `BufferAssumption` is that the largest number fits the buffer.

`RecursionTheorems` makes those inductions possible: `RecursionIs` says that a function
on `0 .. B` defined by its value at 0 and a step exists, `UpTo` is induction over `0 .. B`
for a *set* of numbers. Both come from the well-founded order of the naturals, because
the library's induction theorems take an operator as a parameter, which no backend here
can instantiate.

Only model-checked: the liveness properties (`TimedLockReturns`, `LockHandedOn`,
`SectionEnds`, `LoggingReturns`, `DumpReturns`). They rest on fairness and `ENABLED`,
which the prover cannot reason about. No module uses a recursive operator. The mutants
take part in no proof.

## 5. Disagreements between code and documentation

* `levels_shared_tag`. Two addresses with one text: `log_level_set` refreshes the first
  matching slot and leaves the loop (`log.c:173`), so the other address keeps its old
  level, although `log.h:50-52` promises the level for the tag. Files that each define
  the same `TAG` are enough.
* `levels_assert`. After 2^29 lookups in a full cache the generation field wraps and a
  later search fails the assert of `log.c:257`. The comment at `log.c:32-35` expects the
  wrap after four billion *printed* entries, and no harm worth naming.
* `lock_creation`. Two tasks whose first logging calls overlap both find no mutex and
  both create one; both enter the critical section (`log_freertos.c:41`,
  `log_pthreads.c:38`).
* `dump_address`. `hd_buffer` has `sizeof(void *) + 88` bytes, 96 on 64 bits, a sum of the
  fields that the comment at `log.c:466-467` lists. A full line is 82 bytes and the
  address: 98 bytes where `%p` prints 16 digits, as 64-bit MinGW does.
* Read off the code, without a run: `log.h:54-55` says that `log_level_set` cannot raise a
  level above the configured default; nothing in the code compares them.

## 6. Not modelled

* The format strings, colours and file names of the macros (`log.h:255-312`): wording.
  A macro behind an `if` without braces, of which only the first statement is
  conditional: the text of the caller.
* The macros of `queue.h` that `log.c` does not use: tail queues, doubly linked lists and
  the removal, concatenation and safe traversal of singly-linked ones.
* An interrupt that logs (`log.h:148` forbids it), or threads on a platform whose
  configuration picks the port without an operating system.
* Tag texts that change: the text at an address is a constant. Levels above 7, which
  the cache would cut to three bits.
* A mutex that FreeRTOS cannot create: the NULL handle goes to `xSemaphoreTake`, and
  what that does is not in the repository.
* What an old print function uses after it was replaced: the code may call it at any
  later time, which `Logger` allows, but its resources are the caller's.
* Changes of a dumped buffer by another task while it is dumped.
* The caller's read of the text `log_system_timestamp` returns, which happens after
  `bufferLock` is released; no macro or other code of the repository calls that function,
  although `log.h:110` says so, and only the FreeRTOS port defines it. The wrap of the
  32-bit millisecond count, which `log.h:101` sets aside. The cycle counter of core 1.
* The demonstration (`src/main.cpp`), the unit tests and their transport, and
  `log_buffers.c` and `log_internal.h`, which hold no code.

## 7. Plan

Done: `LogLevels` first, because every other part only matters if the levels are right,
then `LogLock`, `Logger`, `BufferDump`, and the proofs of the first two; then the ports'
clocks (`Timestamps`), the list's pointers (`TagList`), and the macros and the port
without an operating system in `Logger`.

Next theorems: the composition seen from a caller (`Logger` over the abstract lock and
registry, together with the refinements of `LogLock` and `LogLevels`), and what further
lemmas could say of operators on their own.
