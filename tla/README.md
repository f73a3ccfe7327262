# A TLA+ model of fb303

fb303 is the statistics library of Facebook's C++ services: it keeps counters,
timeseries, histograms and quantiles, updates them from every thread of a
program at little cost, and exports them through a Thrift service. Its
difficult part is concurrency: lock-free updates, registries shared by threads
that start and die, caches indexed by address, callbacks that run while the map
they are in is changed.

This directory models that part in TLA+, checks it with TLC on small instances,
and proves the central results with TLAPS for every value of the constants.

    tlc -workers 2 -config TimeSeries.cfg MCTimeSeries      # one run
    tlapm TimeSeriesProofs.tla                              # one proof module

`PROJECT.json` lists the components, the runs, the source lines behind each
definition, one plausible bug ("mutant") per checked property, the hazards of
the code and the theorems. Paths below are relative to `src/fb303/`.

## 1. Inventory

| Component (source) | State | Operations | What is hard | What makes it correct |
|---|---|---|---|---|
| **TLStatsThreadSafe::TimeSeriesType** (`TLStatsLockTraits.h`) | two-word sum, optional surplus block of two more words, sequence number, baselines of the latest drain | `addValue` (one thread), `reset` (any), `count`, `sum` | torn reads, two drainers, wrap-around of either word, failing allocation | every update is in exactly one drained window; `count`/`sum` are the exact window, saturated |
| **ThreadLocalStats registry** (`ThreadLocalStats.h`, `-inl.h`, `TLStatsLockTraits.h`) | `tlStats_`, `linkPending_`, `tlStatsEmpty_`, the ref-counted `TLStatLink`, one registry lock | construct, move, destroy a stat; `aggregate`, close the container | deferred registration when `try_lock` fails, a stat outliving its container | registration follows the object, nothing dead is reachable, no update is lost |
| **TLStatNameSet** (`ThreadLocalStats.cpp`) | set of weak pointers to interned names, one shared mutex | `get`, deleter of the last reference | replacement of an expired entry whose deleter has not yet run | one live string per name, no leaked entry, no freed key |
| **CallbackValuesMap, DynamicCounters, DynamicStrings** (`CallbackValuesMap.h`, `-inl.h`) | shards of name to entry; each entry a callback under its own lock | `registerCallback`, `unregisterCallback`, `clear`, `getValue(s)` | callbacks run outside the shard lock and may read the map | no callback starts after its removal returned; no deadlock |
| **Regex-cached maps** (`detail/RegexUtil.h`, `.cpp`) | map plus `folly::RegexMatchCache` keyed by string address, pinned entries | insert, erase, clear, regex lookup, trim | the scan runs without the lock; addresses are reused | a lookup returns exactly the matching names |
| **ExportedStatMap, TimeseriesExporter** (`ExportedStatMap.*`, `TimeseriesExporter.*`) | name to locked timeseries; one dynamic counter per export type | create, export, add, lock, unexport, forget, clear, flush | creation and export in different critical sections | what is exported shows what was added |
| **QuantileStatMap, QuantileStat, wrappers** (`detail/QuantileStat*`, `QuantileStatWrappers.*`) | counters by key, stat by base name | `registerQuantileStat`, `get`, `forget*`, `flushAll`, getters | the candidate stat is made before the lock | one stat per name; keys and bases agree |
| **ServiceData** (`ServiceData.*`) | `counters_`, `options_`, `exportedValues_`, the maps above | flat counters, options, string values, getters, `zeroStats`, `flushAllData`, `resetAllData` | fast path under a shared lock, slow path under an exclusive one; whole-service operations are not atomic | no increment lost |
| **ThreadLocalStatsMap** (`ThreadLocalStatsMap.*`) | per-thread name to stat maps and the export flags of each name | `addStatValue`, `incrementCounter`, `getXxxSafe`, `clearStat`, `resetAllData` | references used after the lock that guarded them | stats follow the registered exports |
| **ThreadCachedServiceData** (`ThreadCachedServiceData.*`) | all thread-local maps, publisher thread and its interval | `publishStats`, start/stop of the publisher, `zeroStats` | publisher against restart and zeroing | cached values reach ServiceData once |
| **TLStatsAsyncAggregator** (`TLStatsAsyncAggregator.*`) | `intervalMS_`, `stats_` | scheduled aggregation | a timeout that reschedules itself | it never stops by itself |
| **ExportedHistogramMap, HistogramExporter** (`ExportedHistogramMap.*`, `HistogramExporter.*`) | name to locked histogram, null while under construction | `addHistogram`, `exportPercentile`, `addValue` | null placeholder, exception in the creator | no reader sees the placeholder |
| **TFunctionStatHandler** (`TFunctionStatHandler.*`) | per-thread maps of function statistics, consolidation thread | record, consolidate, stop | merge and clear against the owner | each call counted once |
| **SimpleLRUMap** (`SimpleLRUMap.h`) | list, index, size, capacity | `find`, `peek`, `touch`, `set`, `get_or_create`, `erase`, `clear`, `capacity` | three structures in step through evictions | one node per key of the index, never more than the capacity; what was used least recently goes |
| **BaseService** (`BaseService.*`) | two-thread executor, queue, expiration | the Thrift methods | a queued request expires; a slow callback holds a thread | every request is answered or expired |
| Timeseries, TimeseriesHistogram (`Timeseries.h`, `TimeseriesHistogram.h`) | folly buckets | thin wrappers | bucket arithmetic lives in folly | |
| Export types, legacy clock, FollyLoggingHandler (two dynamic options), Thrift interface, Rust crates, build system | none, or generated | | | |

**How they interact.** A thread updates its own `TLTimeseries` (registry) without a
shared lock; the value goes to a `TimeSeriesType`. `ThreadCachedServiceData`'s publisher calls
`aggregate()` on every container, which drains the `TimeSeriesType` into the
timeseries of `ExportedStatMap`. `ExportedStatMap` and the histogram map
register one callback per export in `DynamicCounters` (a `CallbackValuesMap`).
`BaseService.getCounters()` asks `ServiceData`, which merges flat counters,
quantiles and dynamic counters; regex selections go through the regex-cached
maps. Names of thread-local stats are interned in `TLStatNameSet`.

The hazards this list leads to are in `PROJECT.json`, each at its line.

## 2. Structure and plan

| Layer | Modules | Proofs | Run |
|---|---|---|---|
| lock-free accumulator | `TwoWord`, `TimeSeriesType`, abstract `Accumulator` | `TimeSeriesProofs` | `time_series` |
| registry of thread-local stats | `ThreadLocalStats` | `RegistryProofs` | `registry`, `registry_flag` |
| interned names | `TLStatNameSet` | `RegistryProofs` | `name_set` |
| dynamic counters | `CallbackValuesMap` | `CallbackProofs` | `callbacks`, `callbacks_clear` |
| regex-cached maps | `RegexUtil` | `CallbackProofs` | `regex` |
| exported stats, quantiles, flat counters | `ServiceCalls` <- `ExportedStatMap`, `QuantileStatMap` <- `ServiceData` | `ServiceDataProofs` | `service_data` |
| per-thread stats by name, publisher | `ThreadLocalStatsMap` <- `FormattedKeyHolder` <- `ThreadCachedServiceData` | `ThreadCachedProofs` | `thread_cached` |
| histograms | `ExportedHistogramMap` | `HistogramProofs` | `histograms` |
| function statistics | `TFunctionStatHandler` | `FunctionStatsProofs` | `function_stats` |
| Thrift handler, options, exported values | `ServiceSettings` <- `BaseService` | `ServiceProofs` | `base_service` |

(`A <- B`: B extends A.) Each `MC` module instantiates one of them for TLC.

Done: all of the above. Every safety invariant that a run checks is also proved, except the `NoDeadlock` invariants (section 5 says why).
What could come next is an atomic registry implemented by `ThreadLocalStats`, in the way `Accumulator` is implemented by `TimeSeriesType`.

`TLStatNameSet` and `RegexUtil` are proved about in modules that extend a second model as well, so their
specifications have names of their own (`NameSetInit`, `RegexInit`, ...).

## 3. Modules

### TwoWord, TimeSeriesType, Accumulator (`TLStatsLockTraits.h`)

`TwoWord` holds the word arithmetic as functions of the half widths `HalfRaw` and `HalfCarry`: wrapping
addition, the carry that follows the sign of the addend, subtraction with borrow, `addCalls` for a
narrow and a wide `T`, and `clamp`. `TimeSeriesType` is the class: one adder, any number of
drainers, each load or store of a word they share a step of its own. `apc`/`dpc`
say where a thread is in `addValue()`/`reset()`; the other variables are named after
the members. `added` and `taken` are history: the exact integer totals. Allocation of the surplus block may fail.
`Accumulator` is the abstract specification: one atomic pair of totals, `Add`, and `Drain` which returns
what was added since the previous drain. The refinement maps the abstract state to
the history; a drain that meets another drain's claim, or finds nothing, is a stutter.

Accesses are interleaved one at a time, i.e. the model is sequentially consistent. The fences and memory orders that
make the code behave so on weaker hardware are not examined. Neither is wrap-around of the
sequence number (2^63 updates); the assumption `HalfCarry > 5 * MaxUpdates + 2` states
the same for the high words.

### ThreadLocalStats (`ThreadLocalStats-inl.h`, `ThreadLocalStats.h`)

A stat is storage that holds no object, an unlinked one or a linked one (`life`), with a name and the updates it has
not given away (`local`). The registry is the set `tlStats`, the pending list, the empty flag, the lock and the
reference count of the link. An operation (construct, destroy, move, update, export, aggregate, close) is a list of jobs done in
order; each job is split at lock, unlock and at each access made without the lock. `RegistryChecks` states the conditions of the code's
CHECKs at the places where they are tested. `aggregate()` of one stat delivers whatever it took: the code (`ThreadLocalStats-inl.h:294-304`) delivers nothing when the count is 0, so a window
whose negative and positive counts cancel loses its sum, which ids of updates cannot show. An update is an id: it is in one stat, in the hand of one
thread between `reset()` and delivery, or in a global stat. `value_.reset()` is one
atomic step, as `Implements` (below) proves it to be. Callers synchronize the operations on one stat, as the code
requires of them. Counters and histograms share the registry code; their payload is not modelled.

### TLStatNameSet (`ThreadLocalStats.cpp`)

A thread wants a name, finds it under the shared lock or goes to `getSlow()`;
dropping the last reference starts the deleter, which takes the lock later. Strings are addresses, reused once freed.

### CallbackValuesMap (`CallbackValuesMap-inl.h`)

A shard's critical sections are single steps, except that of `clear()`, which waits for entries while it holds the shard (`locked`). `getValues()` copies shard after shard and then runs each callback
with the entry locked shared. `ReadBy` says which name a callback itself reads (`inner` is the entry it is reading): callbacks may call back into the map.

### RegexUtil (`detail/RegexUtil.h`, `detail/RegexUtil.cpp`)

The map, the cache (per pattern: matched addresses, addresses still to be looked at) and the two-phase
lookup: queue under the lock, scan without it, publish under it and copy the
result. `folly::RegexMatchCache` is external and modelled from its use: patterns are evicted at any moment the code may purge.
The scan may throw. The storage of an erased string is reused unless a lookup keeps its entry alive (`alive`).

### ServiceCalls, ExportedStatMap, QuantileStatMap, ServiceData

`ServiceCalls` has the record of the call each thread is in (operation, place, name, argument). `ExportedStatMap` and `QuantileStatMap` each add
their variables and steps; `ServiceData` extends both, adds flat counters and the operations over all maps, and
has the next-state relation. A stat is a number; a dynamic counter is the stat it is bound to. `owed` and
`asked` are history: what was added to a name and which exports were asked for. `stale` marks a name that was forgotten with its
counters left in place (`forgetStatsFor()` does so) and `raced` a name removed or made anew while it was being exported (see "Met while modelling"); `CountersShowUpdates` excepts both.

Left out here: values and windows of timeseries and digests, formatting of keys, `setDefaultStat`, cached pointers of
`ExportedStatMapImpl`.

### ThreadLocalStatsMap, FormattedKeyHolder, ThreadCachedServiceData

`ThreadLocalStatsMap` has the statistics of each thread: `object` is the `TLTimeseries` alive, with owner, key and value; `named` the
map of shared pointers by name with the export flags; `wrapper` and `local` the caches that hold such pointers too. An object that
nobody holds is in its destructor (`Dying`), which takes its value into `hand` and delivers it in a later step, as the code
does without a lock. Only the thread itself uses its maps, so an operation on them is one step.

`FormattedKeyHolder` is the dynamic wrapper. A lookup is split where the code is: last item found, local map, global map under the read lock,
under the upgrade lock, the preparation of the key (formatting and export), and the write. `Format` is any function: subkeys that differ may
have one key, which is what the integer 5 and the string "5" do.

`ThreadCachedServiceData` adds `publishStats()` as a sweep over the threads (`visit`), object by object; `zeroStats()` as a sweep followed by
zeroing, key after key; `startPublishThread()` and `stopPublishThread()` with the unlocked test of the interval (only made when no interval is asked for), the lock of `worker_`
and the join of the old worker; threads that end; and the singleton `PublisherManager` destroyed and made again. A counter differs from a timeseries only
in where the value goes, so a key stands for either. The three statistics that `publishStats()` keeps about itself are left out: they are
three more values added by the publishing thread. Of the calls to `zeroStats()` one is under way at a time: the history of `ZeroForgets` is that of one call (a bound of the model, not of the code).
The sweep does not make the test of `tlStatsEmpty_` with which `aggregate()` begins: only the owner links and unlinks in its container here, so the test can only skip a container that has nothing; `ThreadLocalStats` is about the other cases.

### ExportedHistogramMap (`ExportedHistogramMap.*`, `HistogramExporter.cpp`, `ThreadLocalStats-inl.h`, `ThreadCachedServiceData.cpp`)

A call is a list of pieces; each looks the name up under the map's lock and uses what it found after the lock is released. `addHistogram()`
inserts the null placeholder, makes the histogram (which may throw) and fills or erases the entry, with the lock held
throughout. The thread-cached `TLHistogram` finds its histogram when it is made and flushes into it later, so it may hold one that was forgotten in between;
`HistogramWrapper` applies its spec once, other threads waiting, before it looks for the histogram. A thread has one `cached` histogram per name, which stands for the wrapper's `tlHistogram_` and for the one in its
`ThreadLocalStatsMap`: either is made by the same lookup and flushed in the same way. `forgotten` is history: the
promises are about names that were never forgotten, because the code promises nothing to holders of a forgotten histogram.

### TFunctionStatHandler (`TFunctionStatHandler.*`)

A request makes a context on one thread and is freed on the same thread, into the `TStatsPerThread` the context points to, or on another one, into that thread's own object
for the function. Consolidation visits the objects of all threads once a period and in the destructor of the handler, and those of one thread at its exit; each visit takes the mutex of one
object and moves its contributions to `exported`. `logged` and `lost` are history. Bytes and durations follow the path of the
counts and are left out, as are `totalCpuTime_` and `totalWorkedTime_` (`TFunctionStatHandler.h:160-161`), which are exported but written by nothing; the sample rate, which decides whether there will be any, is kept in multiples of `1/Scale`. `TProcessor` and
`folly::ThreadLocalPtr` are external: a request in flight keeps the handler alive, a thread leaves `accessAllThreads()`
before its deleter runs and never in the middle of a visit.

### ServiceSettings, BaseService (`ServiceData.cpp`, `BaseService.h`, `LimitUtils.h`)

`ServiceSettings` has the static and dynamic options, the flags they may set, and the exported values; `pc` of a call names the lock it takes next.
A dynamic option may have a getter, a setter, both or neither. They are arbitrary callbacks, and nothing relates what is read to what was set: those of `FollyLoggingHandler` parse a
configuration, return another text than they were given, and setting one option changes what the other returns. So a getter may return any text, an option without getter the empty one, and all that is kept of a setter is the text it was handed last (`given`). `SettingsTakeEffect`
says that this is the text that was to be set, and only of static options that they read back. `getExportedValue()` asks for a dynamic string of the name first (`ServiceData.cpp:513`), hence the property speaks of the entry of `exportedValues_`.
`lastSet` is history: what the latest call to set a key asked for, when no other call for the key overlapped it.

`BaseService` adds the executor. A request is queued with what it captured; a worker takes it, answers it with an error if it has expired or
runs its lambda: match the pattern in the maps one after another, look the matches up in them one after another, apply the limit of the header,
answer. Counters come and go between any two of these steps; reading one map is one step (for dynamic counters one per
key, because a callback runs for each). Of a value only the map it came from is kept. Destruction of the service waits for the executor. `steady` and `seen` are history: counters
that were there during the whole request, or at some time in it. A counter is steady in one map: a name that leaves a map not yet read for one already read may be missing from the answer, and `CountersReported` does not claim otherwise.
An exception from `callback_->result()` itself (`BaseService.h:195`, inside the `try`) is left to Thrift.

## 4. Runs

| Run | Bounds | Distinct states | Shows |
|---|---|---|---|
| `time_series` | words of 4 values (low) and 64 (high), values and counts at the extremes of `T`, 2 drainers, 2 updates | 209 k | refinement of the accumulator, exclusive drains, exact views, drained position never moves back, `reset()` returns |
| `registry` | 3 threads, 3 stats, 2 names, 2 updates, 5 calls | 320 k | CHECKs of the code, liveness of reachable objects, conservation of updates, lifetime of the link |
| `registry_flag` | 2 threads, 2 stats, 3 calls | | finding 1 |
| `callbacks` | 3 threads, 2 names in 2 shards, 3 entries, 2 reads, 1 clear | 1.77 M | no call after removal, a steady name is always read, registration without overwrite keeps the entry, no deadlock while callbacks read the map |
| `callbacks_clear` | 2 threads, 2 names in one shard, 1 clear | | finding 2 |
| `regex` | 3 addresses, 2 names, 2 patterns, 2 lookups | 80 k | map and cache in step, cache right for what is at the address now, scan reads live strings, exact results |
| `name_set` | 3 threads, 2 names, 4 addresses | 1.4 k | interned names, readable keys, no leaked entry; here deadlock is checked too |
| `service_data` | 3 threads, 1 name, 2 export types (one by default), 2 quantile definitions, 4 calls, 1 reset | 1.40 M | exported counters show what was added, shared quantile stats, increments kept, no deadlock |
| `thread_cached` | 2 threads, 2 callers, the publish thread, 1 key with 2 subkeys, 3 objects, 4 calls, one interval besides the default | 1.18 M | values conserved through clearing, exit and zeroing; `zeroStats()` drops what was there; keys prepared once; the last item found is alive; the worker is what the interval says; joins end |
| `histograms` | 3 threads, 1 name, 2 histograms, 5 calls | 1.07 M | the placeholder is never seen; all values of a name, and its exports, meet in one histogram; the wrapper finds one |
| `function_stats` | 2 places for threads, 2 threads in all, 2 functions, 3 requests, scheduler and owner | 516 k | every call counted once under its function, nothing deleted is used, shutdown ends |
| `base_service` | 2 threads, 2 workers, 2 counter names in 3 maps (one name in two of them), 3 options, 1 exported key, 3 calls | 1.14 M | every request answered exactly once, also when it expires or the service goes; a steady counter is reported, the limit cuts from the end; what is set takes effect |

**Why the bounds are enough.** Every race in this code is between two parties over one
object; each run has those two and mostly a third that can come between them, and enough
objects for one to be replaced while an old reference is held: three stats so that one moves while another is pending, three entries so
that one is registered, replaced and registered again, three addresses so that one is reused, three `TLTimeseries` so that two of one name meet a third.
With two updates the low word of
4 values wraps in both directions and a drain falls before, between and after them. One name suffices in `service_data`, `histograms` and (as a key) `thread_cached`:
the code never relates two names except in the loops over all names, and calls on the same name are the ones that interfere. Four or five calls allow creation, export, removal
and re-creation. In `function_stats` every request throws and writes its exception, the outcome that touches every counter; requests of other outcomes leave some of them alone. In `base_service`
two of three requests can fill the executor while the third expires, or a request can run while two calls change one setting. Each property has a mutant in `PROJECT.json` which TLC refutes under the same configuration.
Symmetry is over threads, addresses, stats and export definitions, none of which the specifications order or single out; runs with
a temporal property under fairness use none.

**Deadlock.** Calls are bounded and callers may stop, so final states are legitimate and `CHECK_DEADLOCK FALSE` is set
wherever a bound on calls exists. Real deadlocks are excluded by the `NoDeadlock` invariants: while a call is under way, some step that
continues a call (never one that starts a new one) is enabled. `name_set` has no such bound and checks deadlock itself.

**Fairness.** Liveness is stated of `reset()` alone (`ResetReturns`), under weak fairness of each drainer's and the adder's next step within a call, never of starting a call. This is what a preemptive scheduler
gives to threads that are not blocked. The property is conditional on the adder being
quiet from some time on: the retry loop of `reset()` is not wait-free, and the code does not claim that it is. The other calls have
no loops that wait for a state: they end if no lock is waited for in a circle, which `NoDeadlock` says. Callbacks are assumed to finish.

### Findings

1. `registry_flag`: a deferred `link()` sets `tlStatsEmpty_` to false and pushes its stat; the
   `unlink()` that held the lock then sets it to true, as it only looks at `tlStats_`. After both have returned the
   container has a pending stat and says it is empty, so `aggregate()` skips it until the next `link` or `unlink`.
2. `callbacks_clear`: `clear()` waits for each entry's lock with the shard locked. A running callback that
   reads a name of the same shard waits for the shard: neither returns. `unregisterCallback()` avoids exactly this.

Met while modelling, without a run of their own:

- The deferred path of `link()` (`ThreadLocalStats-inl.h:82`) uses the container after a read of the pointer that no lock protects, so
  closing the container in between frees it; the comment at `ThreadLocalStats.h:840-842` promises otherwise. `LinkOutlivesUse` is about the link only.
- A stat removed between its insertion and the registration of its counters (`ExportedStatMap.cpp:70`) leaves counters bound to a stat outside the map,
  and a later stat of the name is not exported, as registration does not overwrite. This is the exception `raced` of `CountersShowUpdates`.
- `zeroStats()` cannot zero values that a destructor or an ending thread has already taken: they come up afterwards (`carried` in `ZeroForgets`).
- `startPublishThread(-1)` returns when its unlocked test sees an interval (`ThreadCachedServiceData.cpp:185`), also that of a worker another thread is about to stop.
- `HistogramWrapper` takes what the map has under its name after its spec was applied, and dereferences a null pointer if the histogram was
  forgotten by then; the spec is consumed even if applying it throws (`ThreadCachedServiceData.cpp:118`). `WrapperHasHistogram` holds for names never forgotten.
- `TLHistogram` CHECKs that its buckets are those of the histogram it finds, so two definitions of one name end the program.
- When a thread exits while the destructor of `TFunctionStatHandler` runs, its calls not yet consolidated are dropped (`lost` in `CallsConserved`).
- A name in several maps has different values in `getCounter()`, `getCounters()` and `getSelectedCounters()`; `getOptions()` lets a flag
  override a dynamic option of the same name, which `getOption()` does not.
- `setGetCountersExpiration()` writes an optional that requests read without synchronization (`BaseService.h:287`).
- `evict()` of `SimpleLRUMap` takes the key out of the index, then calls the callback, then drops the node: a callback that throws or uses the map meets, and a throwing one leaves, a list and an index that
  disagree. So does a factory that inserts the key it is asked for: the list then has two nodes for it.
- The setter of a dynamic option runs with the lock of `dynamicOptions_` held, so it must not register one.
- `makeKey()` of quantiles gives one key to distinct definitions (percentile 99 with window 9, percentile 99.9 without).
- `getTimeseriesSafe()` holds its map lock in a temporary that ends before the reference it obtained is used. The map belongs to one thread, so this is harmless as long as callers keep to that.

## 5. Proofs

Assumptions on constants, evaluated by TLC in the runs: `WordAssumption` (half widths are naturals, above 1 and above 0),
`TimeSeriesAssumption` (values and counts in `T`, high word wide enough for the number of updates), `MatchAssumption` (a pattern
matches a set of names), `FormatAssumption` (formatting is a function from subkeys to keys; several subkeys may have one key), `IntervalAssumption` (intervals are positive: `startPublishThread()` replaces any other by its default),
`TypesAssumption` (the default export types are types), `ResetAssumption`, `MapAssumption`, `ActorAssumption`, `CallAssumption`, `HandlerAssumption`, `NameSetAssumption`, `RegistryAssumption`, `ShardAssumption`, `HistogramAssumption`, `ServiceAssumption` and
`SettingsAssumption`. Those from `MapAssumption` on say that `None` (no name, no
thread, no reply) is none of the values it stands apart from; that threads, callers, the publish thread, the scheduler and the owner of a handler are different actors; that sets whose members are counted (stats, threads, callers, names of counters) are finite, as a program's are;
that counters are numbered in the order of their names; and, of options, what `ServiceData.cpp:633-639` has as literals: "v" and "vmodule" are flags of glog, and neither is
"logmailer" or "whitelist_flags". Options and exported values are kept in two maps, so their names are taken to be two sets.
No particular number of threads, objects, names or calls is assumed.

**TimeSeriesProofs.** First the arithmetic of `TwoWord`. `DifferenceExact`: two-word subtraction is integer subtraction while the difference is representable. `AddCallsExact`: both branches of `addCalls()` add the
number of calls exactly. `ClampIsSaturate`: `clamp()` is the nearest value of `T`. Then the class. The invariant is `IInv` = `TypeOK` and seven named parts:
`SeqInv` (sequence number, update under way), `SumInv` and `ExtraInv` (what the words stand for at each place of the adder), `CarryInv` (the
high words do not wrap), `ClaimInv` (at most one drainer past the claim, and the claim bit says so), `BaseInv` (the baselines are
the totals taken by the latest drain) and `ReadInv` (as long as `seq_` is what the drainer read first, what it has loaded is
the finished total). None of the properties is inductive alone: exactness of a drain needs the validated reads, which
need the sequence discipline, which needs the claim. From it: `TypeCorrect`, `DrainsExclude`, `DrainsForward`, `ViewsExact`, and `Implements`, that every
step is an `Add`, a `Drain` or a stutter of `Accumulator`. They hold for any widths, values, counts and number of drainers.

**RegistryProofs.** The properties are global while every step is local, so `IInv` says at each place of an operation what state its stats are in. Its parts are
`TypeOK`; `JobInv` (which jobs a thread has left, and what its stats are at each place of them); `OneUser` (no two operations work on one stat, which callers
guarantee and no step breaks); `LockInv` (the mutex belongs to the thread that is inside); `StatInv` (only a linked stat holds updates); `RegInv` (while the container is alive, the stats registered or pending are
exactly the linked ones, each once); `CloseInv` (one thread closes, and nobody else is inside then); `RefInv` (the link has one reference per stat and one for the container); `HandInv` (updates are in
hand only between `reset()` and delivery), `PlaceInv` and `OnceInv` (each update is in one place, under its name). Conservation of updates (`UpdatesAreConserved`) needs most of them: a hand delivers under the name its
stat has, and a stat loses its name only when it has given its updates away. `ChecksHold`, `ReachedAreLive` and `LinkOutlives` follow from `JobInv`, `RegInv` and `RefInv`; `RegistryTypes` is the type invariant.

The same module has the proofs about `TLStatNameSet`. `NameSetInv` = `NameSetTypeOK`, `KeysReadable`, `EntriesInUse`, `DyingInv` (a string in its deleter is still allocated, has no
reference and one deleter, and once cleaned no entry) and `WantInv` (a thread in `get()` wants a name). Theorems `KeysAlwaysReadable`, `AlwaysInterned`, `EntriesAlwaysInUse`.

**CallbackProofs.** `IInv` = `TypeOK`, `CallInv` (what a call has in hand), `BoundInv` (there is an entry left for every call that may make one), `EntryInv` (entries in use have been made, and are in the map under
their own name), `RemovalInv` (what a removal has cleared has no callback and no reader, now and later), `ShardInv` (inside `clear()` the shard is locked), `MapInv` (an entry in the map has its callback, unless
its shard is being cleared), `SteadyInv` (the entry copied for a name that is there all along can still be called) and `CoverInv` (such a name is in the output, copied, or in a shard still to be visited). An entry that left the map never comes back, and
one whose callback was dropped never gets one again: that makes the parts about removal inductive. Theorems `RemovedNeverCalled`, `SteadyNamesAreRead` and the action property `RegistrationKept`; `CallbackTypes` is the type invariant.

The same module has the proofs about `RegexUtil`. `RegexInv` = `RegexTypeOK`, `Lockstep`, `CacheCorrect`, `PinInv` (a lookup keeps every entry it scans or has scanned from being freed,
and its hits are right for them) and `FindsExactly`. `PinInv` is what makes `CacheCorrect` inductive: a result is
published for an address only if the string there is still the one that was scanned. Theorems `StaysInLockstep`, `CacheStaysCorrect`, `ScansSeeLive`, `LookupsExact`.

**HistogramProofs.** `IInv` = types, `OwnerInv` (a histogram belongs to one name for good), `ThreadInv` (what a call has found is what the map has, unless the name was forgotten), `LockInv` (the null pointer is there only while the thread that put it has the lock), `CacheInv` (a thread-cached
histogram of a name never forgotten refers to the one in the map), `ExportInv`, `NoValueAside` and `WrapperHasHistogram`. The step that needs the whole of it is the flush of a cached
histogram: it writes through a pointer taken long before. Theorems `NullIsHidden`, `NoValueIsAside`, `ExportsFollow`, `WrapperFinds`.

**ServiceProofs.** `IInv` = `SettingsInv` and `ServiceInv`. For a setting, `OverlapInv` (two calls for one key know of each other) and `StoreInv` (what `setOptionWithResult()` found under one lock is
still so under the next, unless another call came in between) make `SettingsTakeEffect` inductive (`SettingsAreKept`). For a request, `RequestInv` (one that waits or is worked on is there once and has no answer) gives
`RequestsAnsweredOnce`. For an answer, `LambdaOK` says of a running lambda that a counter that was there all along is in its output or in a map it still reads, that the keys it needs
then are collected or still will be, and that collecting precedes reading; `Plan` is shown to establish this for each kind of request, whatever the number of counters. The limit needs that
the first `n` entries of a finite map are `n` or all of them (`FirstEntries`). Together: `AnswersComplete`.

**ServiceDataProofs.** `IInv` = `CountInv` (stats made and calls still to make one are no more than the calls), `CallInv` (what a call has in hand at each place), `StatInv` (a stat is of one name and has the values that were added to it), `LockInv` (the writer of `statMap_` is the thread inside),
`ExportInv` (unless the name was raced, an export under way is for the stat in the map, a name being removed is exported by nobody, and during `resetAllData()` the map is empty), `ShowInv` (every export that was asked for is registered for the stat in the map, or a call under way will do it), `QuantileInv` (quantile stats handed out are the
registered ones, and keys follow their definitions), `FlatInv` and `SideInv`. What makes `CountersShowUpdates` hard is that the map and the registered counters are changed under different locks: `ExportInv` and `ShowInv` say what is true in between.
Theorems `CountersAlwaysShow`, `QuantilesAlwaysShared`, `IncrementsAlwaysKept`; `ServiceDataTypes` is the type invariant. Before it was proved, TLC checked `IInv` with 3 threads, one name and 3 calls (89 k states) and with 2 threads, two names and 4 calls (5.0 M states).

**ThreadCachedProofs.** `IInv` = `MapInv` (objects and values in hand), `HoldInv` (every pointer in a map or a cache is to a living object of the same thread and key), `KeyInv` and `UpgradeInv` (who has the upgrade lock is about to enter a subkey that is not there; no subkey was prepared that is neither there nor about to
be), `SweepInv` (what a sweep has still to visit belongs to the thread it is in), `WorkerInv` (the worker, its interval and the lock of `worker_`), `ValuesConserved` and `ZeroInv`. The last follows the values added before `zeroStats()` through its stages: until its sweep they may be cached anywhere, during it only where
the sweep has yet to go, afterwards only in keys still to be zeroed or in the hands of others. Amounts are sizes of sets, so that moving a value is moving members, and sums over threads need no induction. Theorems
`ValuesAreConserved`, `ZeroIsComplete`, `PreparedOnce`, `LastFoundLives`, `WorkerIsAsReported`. TLC checked `IInv` on the instance of `thread_cached`.

**FunctionStatsProofs.** `IInv` = `HandlerTypes` (among it that the sample rate stays between 0 and 1 and its divisor above 0), `IdInv` (each thread in a place has an id of its own, never given again), `MapInv` (the cached entry is one of the map, and a map is listed until its thread exits), `ContextInv` (the thread that made a context has its stats as long as it runs),
`JobInv` (a call has a request of its own and uses stats of its own thread), `EmptyInv` (stats outside a map, or about to be deleted, count nothing), `DestroyInv` (one actor is in the destructor, which began when nobody had a reference, and deletes only maps it has exported) and `CallsConserved`.
The id is what a raw pointer in a context stands for: a thread that exits and another that takes its place are told apart by it. Theorems `CallsAreConserved`, `StatsAlwaysOutliveUse`, `DestructorIsExclusive`. TLC checked `IInv` on the instance of `function_stats`.

**Only model-checked:** `ResetReturns`, as temporal reasoning under fairness is beyond this prover; the `NoDeadlock` invariants, which need ENABLED; and, being counterexamples, the two findings.

## 6. Not modelled

- Bucket and digest arithmetic, percentiles and windows of time: folly's, used through `Timeseries.h`, `TimeseriesHistogram.h` and `QuantileStat`.
- Formatting and parsing of names (pure strings), except that formatted keys may coincide; the clock; export types.
- `TLStatsAsyncAggregator`: a timeout on one event base that aggregates and schedules itself again; `aggregate()` is in `ThreadLocalStats`.
- `SimpleLRUMap`: a sequential container that no class of the repository uses.
- The dynamic wrappers other than that of timeseries (the same template over another stat) and the quantile wrappers (they cache the shared pointer that `QuantileStatMap` hands out).
- `ExportedStatMapImpl` and `ExportedHistogramMapImpl`: wrappers that cache pointers and forward.
- Moves of thread-local counters and histograms (those of timeseries are in `ThreadLocalStats`).
- The three statistics `publishStats()` keeps about itself.
- `FollyLoggingHandler` (two dynamic options forwarded to folly; their callbacks are among those `ServiceSettings` allows), the Thrift definition and the Rust crates (interface, generated code), the build system.
- Memory orders: every model is sequentially consistent.
