# nginx-lws in TLA+

nginx-lws is an NGINX module that serves HTTP requests with Lua scripts. This
directory models what it does between the handlers of NGINX and the chunks of
Lua: the Lua states and the request queue of a location, the running of the
chunks for one request after another, the streaming of a response from a Lua
thread through a pipe to the client, the hash table the module keeps its data in,
the profiler, the monitor that all workers share, and the algorithms that turn a
request into Lua data. TLC checks the models on small instances; TLAPS proves
all of the safety properties but `SizesGenerated` for every configuration, and
both refinements.

Paths below are relative to the repository; `lws_module.c` is `src/lws_module.c`
of the repository's source tree, and so on.

## 1. The system

NGINX runs a number of worker processes. In each, one **event loop** thread runs
the handlers of the module one at a time, and a **thread pool** runs Lua.

| component | state | operations |
|---|---|---|
| Lua states of a location (`lws_state.c`) | idle list `llcf->states`, count `states_n`; per state `in_use`, `close`, `timedout`, `request_count`, its timer | create, acquire, release, close, timer handler, run |
| request path and queue (`lws_module.c` 695-864, 1124-1275) | queue `llcf->requests`, `requests_n`, timer event `llcf->qev`; per request its context `lws_request_ctx_t` | handler, body handler, queue handler, state handler, thread handler, finalization handler |
| response streaming (`lws_lib.c` 522-570, `lws_module.c` 866-1122) | pipe, its connection and read event, `streaming_rc`, `streaming_busy`, the write event of the client | flush (pool thread); stream handler, write handler (event loop) |
| running the chunks (`lws_lib.c`, `lws_run`) | Lua registry: chunks, environments, current request; `complete`, `sealed`, `redirect` | init, pre, main and post chunk |
| hash table (`lws_table.c`) | slots, order list, count, load, cap, timeout | get, set, remove, next, clear, rehash |
| stat cache (`lws_module.c` 520-590) | a capped, timed table of file states | lookup before a request runs |
| memory accounting (`lws_state.c` 60-110) | `memory_used`, `memory_max` | the allocator of a Lua state |
| monitor (`lws_monitor.c`) | counters in shared memory, written by all workers | init, report, POST actions |
| profiler (`lws_profiler.c`) | call stack, table of function records, CPU and wall time | start, hook, stop |
| library functions on data | none | parseargs, unescape, cookies, header unfolding |
| HTTP status table, directives, error responses, build | constants | lookup, parsing, formatting |

**How they interact.** The body handler takes an idle Lua state or creates one,
and posts a task to the thread pool; or it queues the request, or answers 503.
The pool thread runs the chunks in that state. NGINX then calls the finalization
handler on the event loop: it releases the state, arms `qev` if a request is
queued, and answers, or leaves that to the stream handler. `qev` leads to the
queue handler, which starts queued requests while there are Lua states for them.
Each state has a timer, which closes an idle state and marks one in use. While
the chunks run, `response.body:flush` writes to a pipe whose other end the
stream handler reads on the event loop. The tables hold request headers,
variables, the stat cache and the profiler's records.

**What is hard.**

* Two threads work on one request. Nothing is locked: the pool thread and the
  event loop divide the context among them by convention (`sealed`, the open
  write end of the pipe, `in_use`).
* A timer of a state may expire while a request runs in it.
* The queue moves only because a finalization arms a timer event.
* Every call between acquiring and posting may fail, and must undo what was done.
* The read event of the pipe is edge triggered, the write event's timer has two
  purposes, and the client may take nothing at all.
* An error page or a redirect leads a request back to where it came from, also
  from within the loop of the queue handler.
* Brent's method moves entries of a table that has deleted slots and an order
  list through the entries.
* The profiler copies Lua's call stack from the hooks, and errors call no hook.

`PROJECT.json` lists the hazards one by one, at the lines where they bite.

**What makes the components correct.** No state is shared by two requests or
used after it was closed; an idle state may serve again and does not live for
ever; the counts are right and the limits kept; queued requests are served in
order, eventually. What a request leaves behind in a Lua state, the next one does
not see; its chunks run in their order and its answer fits what they did. A
response is streamed or buffered, never both, is complete
and in order, and is finalized exactly once, eventually. A table is an ordered
map. The profiler charges time to the functions that ran, and the monitor adds up
what it charged. The counters of the monitor add up to what the workers hold, and
the memory of a state is what its allocator says. A chunk gets of a request what
was sent.

## 2. The modules

| module | content |
|---|---|
| `LwsStates` | Lua states, queue and request path of one location in one worker |
| `LwsService` | what the location promises its requests: no states, timers, threads |
| `LwsRun` | one Lua state and the requests it serves: handler with stat cache, chunks, answer, redirect |
| `LwsStream` | one request with `lws_streaming`: pool thread, event loop, client |
| `LwsTable` | the hash table |
| `LwsMap` | what a table promises: a sequence of entries |
| `LwsProfiler` | the profiler in one Lua state, and the functions in the monitor |
| `LwsMonitor` | counters, profiler switch and memory accounts, shared by all workers |
| `LwsData` | parseargs, headers, request body, cookies, searches in sorted tables |
| `MCLwsStates`, `MCLwsRun`, `MCLwsStream`, `MCLwsTable`, `MCLwsProfiler`, `MCLwsMonitor`, `MCLwsData` | constants for TLC |
| `SeqLemmas` | lemmas on sequences without repetition and on least numbers |
| `LwsStatesProofs` | the inductive invariant of `LwsStates` and its consequences; `LwsStates` implements `LwsService` |
| `LwsRunProofs` | a Lua state is clean for every request, its chunks run in order, the answer fits, file states are fresh |
| `LwsStreamProofs` | a streamed response is in order, complete and finalized once |
| `LwsTableProofs` | no entry of a table is lost, and `LwsTable` implements `LwsMap` |
| `LwsProfilerProofs` | what the profiler measures is what happened |
| `LwsMonitorProofs` | the shared counters, the memory accounts, the switch of the profiler and the hook it sets |
| `LwsDataProofs` | arguments, headers, bodies, cookies and lookups are what they are to be, whatever their length |

Where one run takes several configurations, they are values of a variable that
never changes: `setup` in `LwsRun`, `LwsMonitor` and `LwsTable`, `kind` in
`LwsMap`, `rateLimit` in `LwsStream`. The constant `Setups` (or `RateLimits`) is
the set of them. `LwsStates` and `LwsRun` have a type invariant, and both are
proved.

A definition named `X_<Mistake>` is `X` with a plausible mistake in it. No
specification uses it. Each property was seen to fail with such a definition in
the place of the right one (`PROJECT.json`, "mutants").

### LwsStates

`pool` is the record of the idle list, its count and the `lws_state_t` objects,
an object being what decides its fate: `live`, `in_use`, `close`, `timedout`,
`timer_set`, `request_count`. The functions of `lws_state.c` are operators from
pool to pool (`Created`, `TakenIdle`, `Released`, `Expired`, `Closed`, ...), for
handlers call several of them. `requests`, `requests_n` and `qev` are the fields
of `lws_loc_conf_t`; `ctxState` is `ctx->state`; `phase` is where the request is;
`tasks` is the queue of the thread pool.

One action per handler: `BodyFails`, `Proceed`, `Queue` and `Abort` are the
outcomes of the body handler; `Finalization`, `StateTimer`, `QueueTimer` are the
other events. The loop of the queue handler is an action per round (`QueueRound`,
`QueueDone`), with `pc = "draining"` to keep other events out: a round that ends
a request may lead, by an internal redirect, right back into the body handler,
which then sees the queue and the pool in the middle of that loop. `ThreadStart`
and `ThreadEnd` are the pool's, and may happen in the middle of it too. `Exit` is
the end of the worker: NGINX joins the pool threads, then the cleanup handler of
the location closes the idle states.

Abstractions: time (an armed timer of a state may expire at any moment; one of
`qev` is due at once, its delay being 0); what Lua does (it ends, and may mark
its state for close); the body of a request (opening it may fail). `Over` is the
moment a request leaves this component: with streaming its connection may live
on, in `LwsStream`, but it has no state and is not queued. A Lua
state is an address from `States`, and one can be created while an address is
free; every instance has as many addresses as states can be live at once, or one
more than `lws_states_max` where that is what the run is about. `WORD` is 2^w for
the unsigned `states_n`.

### LwsService

A request is new, waiting, running or answered. It starts at once while fewer
than `lws_states_max` run; else it waits, in order; it is turned away only when
that many run and the queue is full. The order is that of those who wait: a new
request that finds a slot free does not look at the queue (`lws_module.c` 782), and
may overtake them between the release of a state and the queue event. Some queued
request is still served whenever the queue event finds a slot, and all of them once
no more new requests come (`QueuedIsServed`, with finitely many requests); overtaken
without end one could wait for ever, against which the code does nothing. `ImplementsService` maps `phase` to it and
forgets the pool. This is not what the code tests: it tests for an idle state or
`states_n < states_max`. That both agree needs every part of the invariant.

### LwsRun

One Lua state `L` serves `Requests` one after the other; how several of them are
pooled is the matter of `LwsStates`, so here `Start` waits until nobody holds it,
and `CloseIdle` may close it at any time. `ctx` is each request's context,
`run` the call of `lws_run` in progress, with `next` the chunk that is up and
`chunk` the one that runs.

`Handler` is `lws_handler` with `lws_get_file_status`: the main file is one of
`MainFiles`, for the directive takes variables; `cache` has, of the table of file
states, who is in it and since when. The entry used longest ago, which the table
evicts, is any entry here. `Start`, `Skip`, `Call`, `LoadFails`, `Errs`, `Ends`
and `Finish` are `lws_run` and `lws_call`; `Redirect`, `SetComplete`, `SetClose`
and `ReadBody` what a chunk may do meanwhile. `Finalization` is the answer
without streaming; an internal redirect may lead to the handler again, with a new
context and the same request body.

Abstractions: a chunk is whatever calls of the library it makes and the result
it ends with. A library call that is refused raises an error, which the chunk may
catch (then nothing has happened) or not (then it ends with one). Results are 0,
403 and 600: none, a status, and no status. A body is read at once.

`log` records which chunks the state ran and how they ended: of former requests
only the init chunk and errors stay in it. `seen` records when each file was last
there, and last missing, by the clock of the file system. No action looks at
either.

### LwsStream

The body is a sequence of numbered pieces. `Write`, `SetHeader`, `Redirect`,
`Flush`, `FlushWrite`, `FlushFails` and `ThreadEnd` are what the pool thread does
through the Lua library; each `write` on the pipe is a step. `StreamEvent` starts
the loop of the stream handler and `ReadEnd`, `ReadAgain`, `HeaderEnds`,
`ReadData`, `ReadFails` are the outcomes of one of its reads: the pool thread
runs between two reads, other events do not. `WriteEvent`, `DelayOver` and
`SendTimeout` are the events of the client's connection. `Finalization` has one
disjunct per way through the finalization handler.

External: the readiness of a pipe with an edge triggered event (`active`,
`due`, `EventAdded`), the output filters (`Sent`: some pieces go to the client,
the others are held back; with `limit_rate` a write may begin a delay and arm
the timer), `ngx_http_finalize_request` (`answers` records the calls). They are
modelled as `lws_module.c` uses them.

Abstractions: the main request only, no subrequests; status and headers are a
number that counts their changes; the buffer of the C stream is part of `body`;
"flush" covers a failing `fflush`, in which nothing is written.

### LwsTable and LwsMap

A slot is unused, deleted or set, and `order` is the order list as a sequence of
slots. The probe loops are stated by what they find: the first slot of the path
that ends the loop (`Find`, `Worst`), the first free slot of an entry's own path
within the bound the code computes (`Moves`). `Better` keeps the order of the
search, for the code takes the last outcome found, not the best. `Rehashed`
reinserts from the last entry to the first, each to the front of the list, with
the moves this causes. `InsertFails` has both ways to fail: no larger table (the
entry for eviction is gone by then), no copy of the key (the table has grown).

The hash function is part of `setup`: the code seeds it at random, so every
function is possible. Left out: `lws_table_free`, who owns keys and
values (`dup`, `free`) and case folding (`ci`); the hash is compared with the
key in the code and is a function of the key here.

`LwsMap` knows of no slots: a sequence of entries, to which `set` appends, and
from which a capped map evicts the head; `get` of a capped map moves the entry to
the end. A timed entry is hidden from `get` when its time is up, but not from
`next`, and it stays: so does the code.

### LwsProfiler

`profiler` is the `lws_profiler_t`: `records`, by function, and the `stack`. The
parts of the hook are operators from profiler to profiler: `Paused` and `Exited`
are its first half without and with a pop, `Entered` and `Resumed` the second.
`Call`, `TailCall` and `Return` are Lua's calls of the hook; `Error` is what the
hook is not called for; `HookFails` is an error the hook raises itself, which
also stands for one in `lws_stop_profiler`'s own call. `Start`, `Stop` are
`lws_start_profiler`, `lws_stop_profiler`; `Clear` is the POST action of the
monitor, which another worker may take at any time. `functions` is the monitor's
list, in which only the set of entries and their sums matter.

What really happens is kept beside it: Lua's own stack (`frames`), a clock, the
time spent in each function. `Tick` lets time pass between hooks; a hook takes
none, so the two clock readings of one hook are the same. A second has `NanoMax`
nanoseconds, so that a few ticks borrow and carry; as in the code the nanoseconds
may reach `NanoMax` itself.

Left out: the memory of functions, which is charged like self time; coroutines,
whose calls the hook, which new Lua threads inherit, puts on the same profiler
stack in between those of the others (`frames` is the stack of one Lua thread); the
tail returns of Lua 5.1; a failing clock (when the second reading of a hook fails,
`lws_profiler.c` 176, the function is on the stack without its `depth`); the
making of keys, which may give two functions one key; a failing
`lws_start_profiler`, after which the state is closed with nothing measured.

### LwsMonitor

Each worker has an event loop, `at` some point of a handler, and one Lua state at
most. A step is as small as an access to shared memory: an `ngx_atomic_fetch_add`
or an `ngx_atomic_cmp_set`. So closing a state is `Close` (counted out) and
`Closed` (its memory taken off), and disabling the profiler is `Disable` (from 1)
and `Retry` (from 2). `Reallocate` is `lws_alloc_checked` in the thread that runs
the state, on words of `Word` values, with Lua's type tag for the old size of a
new block; `Report` the measurement, collection and report of
`lws_release_state`. `StartRun` and `EndRun` are what `lws_run` does about the
profiler. `Post`, `Enable`, `Disable`, `Retry`, `Other`, `Answer` are the body
handler, one pair of its body after the other.

A worker crashes at any point, and NGINX starts another one in its place; the
shared memory stays as it is. What really happens is kept beside it: what crashed
workers have `lost`, the states that were `uncounted`, the requests `served`,
and for each POST request whether the profiler was disabled, or enabled, at some
moment of it.

Left out: what GET makes of the counters, which it reads one by one; the counter
`out_of_memory`; a reload, which makes new counters for new workers.

### LwsData

Inputs grow symbol by symbol from nothing, one at a time, so that all of them up
to a length are states: arguments (`args`), request headers, cookies, the buffers
of a body, a number. Each algorithm is compared with a definition without its
loop: `ParseArgs` (the parser and its unescaping automaton, which steps back when
an escape turns out to be none) with `MeantArgs`; `HeaderValue` and
`HeaderLength` with the joined values; `ReadAll`, by reads of any size, with the
bytes of all buffers; `Unfold`, which splits `Set-Cookie` at commas but not in
dates (tabs are taken for blanks, and `Expires=` is one symbol in whatever case),
with the cookies that were joined; `Search` with the least entry that is
not less, in the real tables of HTTP status and of sizes; and those sizes with
what `gen/table.c` makes: the first 31 of them, to 20681, which are the ones the model
has, and its search for primes for numbers up to 600. Loops are recursive functions, about which one can
reason.

Arguments are numbers of characters, for escapes are computed with. In headers
and cookies a symbol is what the algorithm can tell apart, `Expires=` being one.
`CookiesAssumption` says what a cookie is: not empty, not beginning with a blank,
each comma that of a date (`DateBefore`: the first one after `Expires=`, before the
next attribute), and each date with its comma, as in `Wed, 21 Oct 2015`. Anything else (a value
with a comma, a date without one) cannot be joined by commas: it would be split
at another place.

## 3. The runs

| run | shows | bounds |
|---|---|---|
| `states_objects` | `TypeOK`, `ExclusiveUse`, `IdleReusable`, `LifetimeKept`, `QueueCounted`, `DoomedNeverIdle`, whatever call fails | 3 requests, 3 objects, 1 thread, at most 2 states, queue of 1, 2 requests per state, 1 redirect per request |
| `states_service` | `StatesCounted`, `NoLostWakeup`, `QueueHasWaker`, `ImplementsService`, `QueuedIsServed`, `ActiveIsAnswered` when `lws_init` does not fail; with fairness | 4 requests, 2 objects, 1 thread, at most 1 state, queue of 2, one of the requests redirected at most once |
| `states_init_starve` | violation, finding 1 | 3 requests, 2 states, unrestricted queue; with fairness |
| `run_requests` | `NothingLeft`, `ChunkOrder`, `AnswerFits`, `StatFresh`, whatever fails | 2 requests; four configurations: all four chunks and a redirect; one file as two chunks; two files that come and go, a cache for one, 2 ticks; two redirects |
| `run_body` | violation, finding 4 | 2 requests, 2 redirects, nothing fails |
| `stream_responses` | the seven safety properties of `LwsStream`, whatever fails, and `WriterIsReleased`, `UnlimitedCompletes`; with fairness | 5 pieces, a pipe of 3, pages of 2, 1 header change, with and without a rate limit |
| `stream_rate_limit` | violation, finding 2 | 3 pieces, a pipe of 3, pages of 1 |
| `tables` | `Retrievable`, `OrderSound`, `CreatedForLoad`, `ImplementsMap`, failures included | growing: 5 keys, 2 hash functions, 7 to 11 slots; capped at two and timed: 3 keys, 2 values, 4 hash functions, 3 to 5 slots, 2 ticks |
| `profiler_times` | `DepthsMatch`, `TimesTrue`, `MonitorAddsUp`, whatever errors are raised and allocations fail | 2 Lua functions and `pcall`, 3 calls in all, 4 ticks, 2 ticks in a second, 2 profiled requests |
| `profiler_errors` | violation, finding 3 | the same, no failing allocations |
| `monitor` | `CountersAddUp`, `MemoryAccounted`, `HookCleared`, `SwitchHonest` | 2 workers, 2 blocks, words of 3 bits; memory limited, or collected, or both, with 2 requests and a crash or a failing `lws_init`; or 4 POST requests of 5 kinds during a request |
| `data` | `RequestRight`, `CookiesRight`, `LookupsRight`, `SizesGenerated` | all forms of 5 characters out of 9, at most 3 fields; lists of 4 headers out of 9; of 4 cookies out of 5; bodies of 5 bytes in any buffers, read by 1, 2 or 4; numbers to 600; the first 31 sizes |

Why the bounds are enough to be of interest. With two states, a queue of one and
three requests there is a request in each place; with one state, a queue of two
and four requests there is one more to be turned away, and the queue has an
order. Two
requests per state let a state be reused and then reach its maximum. One
redirect per request (`MaxHops` is an allowance for each of them) is enough to come
back from within the queue handler, and one redirected request among four meets
the order of the queue and its wakeups. Two requests are what it takes to leave something behind in a Lua state and to see
it; the second request of a state finds its init chunk done and its chunks
cached. A file that is two chunks has one environment for both. Five
pieces are more than pipe and output hold, so that the writer blocks while the
handler waits for the client; `FewReads` stands for 16, so that the handler
leaves its loop with data in the pipe. Five keys make a table of 7 slots (load 4)
grow, and the keys collide in both sizes with different steps, so that moves
happen before, in and after the rehash; of the two hash functions one is the
worst case and the other mixed. Three calls are a recursion through another
function, or a `pcall` whose callee fails and is followed by another call; or a
call in one request and two in the next, so that entries of the monitor's list
are added to, made, and missing for want of memory; four ticks carry a second.
Two workers and four POST requests let one worker turn the switch to 2 and back
to 1 between the two tries of the other. Words of 3 bits make a subtraction wrap,
and limits below half a word are what Lua itself allows. Five characters
are an escape within or next to a key and its value, or an escape cut short in
each way.

Deadlock is checked but in these runs: `stream_responses` and
`stream_rate_limit`, because of finding 2, a response that hangs, in which the
system really stops; those of `LwsProfiler`, `LwsMonitor` and `LwsData`, which end
where their bounds end them. Symmetry is used in `states_objects` (requests,
addresses), `run_requests` (requests), `monitor` (workers, blocks) and the runs of
`LwsProfiler` (the two Lua functions), none of which checks liveness.

**Fairness**, in the runs of `LwsStates` and `LwsStream` that check liveness. The
event loop handles what is due and a pool thread takes a
waiting task and goes on: weak fairness for those actions. That Lua code ends is
an assumption (strong fairness of `ThreadEnd` in `LwsStream`, for Lua may do
other things in between, such as to flush, any number of times): nothing in the
code interrupts it. No fairness for clients (`WriteEvent`, new requests), for
the timers of states, for failures or for the end of the worker. A timer of the
client's connection does expire once armed (`DelayOver`, `SendTimeout`).

## 4. What is proved

For every set of requests, states, files, keys, functions, workers and every value
of the other constants, from the assumptions of the module alone
(`StatesAssumption`, `RunAssumption`, `StreamAssumption`, `TableAssumption`,
`ProfilerAssumption`, `RecordAssumption`, `MonitorAssumption`, `DataAssumption`,
`SequencesAssumption`, `CookiesAssumption`). They say what the
constants are and that `None` is not one of the things it stands in for. Four say
more. The sizes of tables are primes above 2: that is so of all in
`lws_table_sizes`, and the only fact about them the proofs need. The configured
load, cap and sizes are what `Setup` of `LwsTable` and `LwsMonitor` say, a memory
limit below half a word among it. And the workers, and the blocks of a Lua state,
are finitely many, for they are summed over. And a cookie
is well-formed (section 2). Hardly any of the properties is inductive as it stands.

### Lua states: `LwsStatesProofs`

*The inductive invariant.* `IInv` is `TypeOK` and

* `PoolOK(pool)`: the idle list holds each idle object once; what is not live is
  blank; idle objects are reusable with their timers; no lifetime is lost. It is
  a statement about a pool, and each operator of `LwsStates` has a lemma that it
  keeps it and says what it does to `Live` and `InUse`. The steps then reason
  with these lemmas and never look into a pool.
* `Owned`: requests that hold a state and states in use correspond one to one.
* `TasksOK`: the tasks are the posted requests, once each; without it, starting a
  task could take a request that has no state.
* `QueueCounted`, and that a queue which could move has `qev` armed or is being
  drained, `NoLostWakeup`.

`Invariant` proves `Spec => []IInv`; `TypeCorrect`, `StatesAreExclusive`,
`IdleStatesReusable`, `LifetimesKept`, `QueueIsCounted`, `NoWakeupIsLost` and
`DoomedAreClosed` follow. They hold whatever call fails.

*The counts.* Under `"init" \notin Failures`, `CInv` adds that `states_n` is the
number of live states, that `lws_states_max` bounds it and that a queue not being
drained finds all states in use. `StatesAreCounted` (the count and its bound) and
`QueueCanMove` follow. The assumption is needed: finding 1.

*The refinement.* `Implements` proves `ImplementsService` under the same
assumption. Its core is `SlotIffCanProceed`: an idle state or `states_n <
states_max` means that fewer than `lws_states_max` requests run. It rests on a
bijection between running requests and states in use (`Owned`) and on the count.

### The chunks: `LwsRunProofs`

`NothingIsLeft` is about environments that were set and are cleared only if
`lws_run` gets to its end. `RInv` says where they may be meanwhile: `Held` (while
`lws_run` is at work, only chunks that its end will clear have one, that of its
request: the pre and the post chunk, and the main chunk from the moment it is
next, unless the request is complete), `DoneOK` (afterwards the state is clean, or
marked for close), `FreeOK` (a free state is clean and not marked), with
`OneHolder` and `MainIsFile`. `RunTypeCorrect` proves the types, with it that the
cache of file states keeps to its cap.

`ChunksInOrder`, `AnswersFit` and `StatusFresh` need what `RInv` says and the past.
`LogInv` is about the log. What the state has run for one run of one request is in
the order of `lws_run` (`InOrder`); the init chunk is the first of the log, if
there is one (`Begins`); an error is followed by nothing but the closing of the
state (`NoErrorBehind`). `LoggedUp` says how far the log has come while `lws_run`
is at chunk `run.next`: it has just the chunks before that one, with main left out
if and only if pre or init has set `complete`. From there `EndedWell` or
`EndedBadly` holds of every request whose run is over. That its answer fits is
read off in the step that gives it. `SeenOK` ties the cache to what was seen: no
entry of it is newer than the last time its file was there, or was missing, as the
entry says.

### The stream: `LwsStreamProofs`

`ControlInv` says who may do what. `LoopOK`: while the connection of the pipe is
open the event loop reads the pipe, waits for it with the read event active, or
waits for the client; whoever closes the connection after the finalization
handler has run, or finds it closed there, answers; a timer runs only while the
write is delayed or the client blocks. `SealedOK`: whoever gives pieces to the
pipe has sealed the response before, so the header that goes out with the first
of them is final. `BegunOK`: nothing is taken from the pipe before the header is
sent, and a connection that was closed early has left its word in
`streaming_rc` or is a response that is all header. `FinalizedOnce`,
`SingleMode`, `HeaderFrozen`, `NoLostEvent` and `EndFollowsHeader` follow
(`OnceFinalized`, `OneMode`, `HeaderIsFrozen`, `NoEventIsLost`,
`EndComesAfterHeader`).

`DataInv` is about the pieces: while the connection is open, what the client has,
what the filters hold back and what is in the pipe are together what was given,
and the filters hold something back only while the handler waits for the client.
With `ControlInv` it gives `StreamIsInOrder`; and since only the end of the pipe
answers "complete", with an open connection and an empty pipe, also
`CompleteMeansAll`. The lemmas before them are about concatenation. All theorems
are of `Spec`, hence of `FairSpec` too.

### The hash table: `LwsTableProofs`

*The path.* The code walks from `hash % alloc` in steps of `1 + hash % (alloc - 2)`.
As `alloc` is prime, a walk of `alloc` steps visits every slot exactly once
(`PathLemma`): by Euclid's lemma (`Euclid`), proved here by a least counterexample,
two steps that meet differ by a multiple of the size. So a search that does not
stop at an unused slot looks everywhere.

*The inductive invariant.* `Sound` says of a table: its parts are what they are
declared to be (`Formed`); stored entries have keys of the table (`HasKeys`), and
no key twice (`KeysOnce`); every stored entry is on the path of its key with no
unused slot before it (`Reached`), which is why slots are marked as deleted; the
order list is that of the stored entries, without repetition (`Listed`).
`TableInv` adds that count, load and cap agree. Each operator of `LwsTable` has a
lemma that it keeps `Sound` and says what it does to `Items`, the entries in their
order: `MoveLemma` for Brent's move of an entry along its own path, `PutLemma` for
a slot that is free then, `PlaceLemma` for both, `RemovedLemma`, `UsedLemma`,
`UpdatedLemma`. `RehashedLemma` is about all reinsertions at once; it is shown by
the first entry at which it would fail. `TableSound` is the invariant;
`EntriesRetrievable`, `OrderAlwaysSound` and `RoomIsKept` follow. The count stays
within the load and the load below the size, so the search for a place always ends
at one.

*The refinement.* `TableImplementsMap` proves `ImplementsMap`: the map is `Items`
of the table. `StepIsMap` goes through the actions with the lemmas above, and
`PlaceInOrder` says that no move of an entry shows in the order. Nothing is
assumed of the hash function or of when an allocation fails.

### The profiler: `LwsProfilerProofs`

`IInv` says: a function's `depth` is how often it is on the profiler's stack
(`ProfilerOK`, with a `Count` that a push and a pop change by one); without errors
that stack is Lua's own, and the self and total time of each function, each with
what has not been charged yet of it, is the time really spent (`CleanOK`); what
the monitor's list says of a function is what was merged into it (`ListOK`). Times
are pairs of seconds and nanoseconds, which the lemmas before it turn into numbers
(`CarriedTime` and `ClockNow`: the borrow and the carry are right, also where the
nanoseconds are as many as a second has). `DepthsAlwaysMatch`, `TimesAlwaysTrue`
and `MonitorAlwaysAddsUp` follow from `Invariance`, for any calls and errors.
`CleanTotalIsTime` is the other half of finding 3: a total time that is wrong once
all functions have returned takes an error that was caught.

### The monitor: `LwsMonitorProofs`

`SwitchIsHonest`: `SwitchInv` says that the profiler is 0, 1 or 2, that each POST
request has noted the present value, and that one between its two tries has seen
the profiler disabled, or it is 2 now: from 1 there is no way to 2 but through 0.
`HookIsCleared`: `HookInv` ties the hook to the switch as the request found it,
while it runs; after a chunk that failed the hook stays, and then the state is
closed, not reported.

`CountersAlwaysAddUp` and `MemoryIsAccounted` are about sums over all workers and
over all blocks. A sum is a fold over a finite set in no particular order. That it
exists, that any element may be taken first (`PartTake`), and that it changes by
what one of its terms changes (`TotalChanged`) is shown by `SubsetInduction`: no
smallest subset fails. Then `CountInv`, which is both properties with their types,
is inductive: each step of a worker either leaves what the worker holds alone
(`QuietStep`), or adds to each counter, by one `ngx_atomic_fetch_add`, what the
worker then holds or has lost more than before (`CountedStep`). `WordAdds` says
that the words wrap consistently, so that negative differences and a counter that
passes zero in between do no harm. For memory the limit matters: a count that is
right and within a limit below half a word does not wrap when a block is resized
(`ReallocateCounts`), and what is collected is taken off block by block
(`TotalSplit`).

### Data: `LwsDataProofs`

The inductive invariant is no more than `InputsInv`: the inputs are texts and
sequences of any length (`InputsTyped`). What is hard is that an algorithm gives
for each of them what its definition without a loop says. TLAPS cannot
use the library's induction theorems, so the module has its own:
`RankInduction` takes a set instead of a predicate and finds a least
counterexample, and `RecursionExists` says that a recursive definition whose steps
only ask for what ranks below has a function, glued together from those that obey
it up to some rank (`ObeysOnce`: two such functions agree). For each recursive
function one shows that its step descends, for instance `ScanDescends`, and gets
the equation that the definition reads as, `UnescapeScans`.

* *Arguments.* The unescaping automaton steps back when an escape turns out to be
  none, so that the text it has to read does not get shorter in every step; what
  descends is a measure with the states in it (`ScansNearer`). `DecodesAsMeant`
  says it decodes what is meant, by the length of the text: an escape
  (`DecodedEscape`), or a first character that begins none (`DecodedPlain`).
  `ParsesAsMeant` is the same for the table: the parser gives for a text what it
  gives for what is after its first field and, unless a later field has its key, that
  field (`ParseStep`), and the fields of a text are its first one and the others,
  moved (`FieldsShift`).
* *Headers.* `NamedJoined`: the value is the values joined, and its length is what
  the first pass has found, which is the length of the buffer it is written to.
* *Body.* `ReadTakes`: a read gives some of the front of what the chain holds, and
  none only at the end. So reading on gives all (`ReadsAll`).
* *Lookups.* `ClosesKept` is the invariant of the search: what is before `lower` is
  less, what is after `upper` is not (`HalvedFinds`); and both tables are
  sorted (`TablesSorted`), the duplicate codes 413 and 414 included.
* *Cookies.* `Layout` says where each cookie is in what they are joined to.
  From its start the scan tells at each symbol whether a date may follow (`DateStep`),
  ends at the comma behind the cookie and not before (`CookieEndIs`), and goes on
  with the next cookie (`NextPlaced`, `UnfoldsJoined`).

`RequestAlwaysRight`, `CookiesAlwaysRight` and `LookupsAlwaysRight` follow.

### What is only model-checked

Liveness (`QueuedIsServed`, `ActiveIsAnswered`, `WriterIsReleased`,
`UnlimitedCompletes`), which is beyond the prover. `SizesGenerated`, that
`gen/table.c` makes the sizes there are: that its loops end takes a prime above
each number, and that it makes this list is a computation. That
findings 1 to 4 happen is shown by TLC's counterexamples.

## 5. Findings

1. **A failed `lws_init` is counted out without having been counted in**
   (`lws_state.c` 224, 245, 260; run `states_init_starve`). `states_n` is unsigned
   and wraps, though `lws_module.h:79` calls it the number of Lua states, and so
   does the counter of the monitor (`doc/Monitor.md:34`). After that, requests are
   queued although no Lua state exists, and nobody will ever take them from the
   queue (`lws_module.c` 783). `doc/Directives.md:116`: "the requests are queued
   until a Lua state becomes available".
2. **A streamed response may hang with `limit_rate`** (`lws_module.c` 930; run
   `stream_rate_limit`): once all pending output is flushed the handler deletes
   the timer of the write event, also if the filter has just armed it to end a
   delay. The next page is held back and the handler waits for that timer.
3. **After an error that was caught, total times are lost** (`lws_profiler.c`
   106-113; run `profiler_errors`). The functions that the error unwound stay on
   the profiler's stack, each return pops one of them in place of its own, and
   the outermost functions are never charged: a `pcall` called once, in which a
   function failed, has a total time of 0. `doc/Monitor.md:77`: "total time
   additionally includes the time spent in child functions". `TimesTrue` shows
   that times are right as long as no error was caught.
4. **After an internal redirect the request body is gone** (`lws_module.c` 771;
   run `run_body`). The body handler opens a new stream on the buffers or the
   file that the first run has consumed: `lws_read_handler` advances the buffers'
   own positions (884). `doc/RequestProcessing.md:46` promises the "HTTP request
   body".

## 6. Not modelled, and what is left

* Parsing and merging of directives (their values are constants here), the text
  of error responses, of logs and of the monitor's report, the build.
* In Lua: the library functions that copy single values, the Lua views of tables
  (`pairs`, `__index`).
* `LwsTable`: `lws_table_free`, who owns keys and values, case folding.
* `LwsProfiler`: coroutines, the memory of functions.
* Failing `lua_newstate`, which leaks an `lws_state_t` (`lws_state.c` 212), and the
  descriptor of a request body in a file, which is closed twice (`lws_module.c`
  769): memory and descriptors are not in the models.

Worth doing next: the memory of functions in the profiler; a second location, with
states of its own; the views that Lua has of tables.
