# Formal models of Upipe

Upipe is a data-flow framework in C for multimedia players, transcoders and
streamers. An application assembles *pipes* that pass *urefs* (a dictionary and a
buffer) to each other. Each thread runs an event loop, pipes in different threads are
connected by lock-free queues, and everything is reference-counted.

The functional core of Upipe is data conversion. Its hard part is what lies under the
conversions: lock-free structures with hand-made ABA protection, wake-ups through
file descriptors shared by threads, objects that two threads let go of in any order,
blocking and flow control between pipes, the bookkeeping of event loops, buffers made
of shared segments, and retransmissions over networks that lose packets. This
directory models that part in TLA+, checks it with TLC on small instances, and proves
the most important facts with TLAPS.

## 1. Inventory

Paths are relative to `src/`. "State" is what the component keeps, "hard" what a unit
test hardly reaches.

| Component | Where | State | Operations | Hard |
|---|---|---|---|---|
| uring, ulifo, ufifo | `include/upipe/uring.h`, `ulifo.h`, `ufifo.h` | array of elements with a 16-bit tag and a next index, packed heads and tails | pop, push, find; ulifo and ufifo push and pop | ABA (tags wrap), compare-and-swap retries, several consumers |
| uqueue | `include/upipe/uqueue.h` | a ufifo, a 32-bit counter, two ueventfds | push, pop, length | wake-up lost between "full" and "not full", counter running late |
| ueventfd | `include/upipe/ueventfd.h` | readable or not | read (drains), write | shared by all threads that wait |
| udeal | `include/upipe/udeal.h` | waiters, access, one ueventfd | start, grab, yield, abort | exclusion and wake-ups without blocking |
| urefcount, upool | `include/upipe/urefcount.h`, `upool.h` | a count and a call-back; a ulifo of objects | use, release, dead; alloc, free, vacuum | last release in another thread |
| umem, ubuf_mem | `lib/upipe/umem_*.c`, `ubuf_mem*.c` | pools of blocks by size; shared buffers | alloc, realloc, free; share, single | sharing count, pool limits |
| upump, blockers | `lib/upipe/upump_common.c`, `lib/upump-ev` | started, status, list of blockers; references of the loop | start, stop, restart, block, unblock, set status, dispatch, free | the loop must keep running just while a blocking pump is active |
| queue source and sink | `lib/upipe-modules/upipe_queue_*.c`, `upipe_queue.c`, `include/upipe/upipe_helper_input.h` | held urefs, flow definition flag, requests, two out-of-band uqueues | input, watcher, flush, set_flow_def, register and unregister request, provide, end of source, last release | order of urefs and flow definitions, back-pressure, life of the objects shared by two threads |
| transfer | `lib/upipe-modules/upipe_transfer.c` | a uqueue of messages, a mutex, a shared count of users | alloc, control, freeze, thaw, attach, detach, release | life of the manager, events back from the remote thread, lost messages |
| worker | `lib/upipe-modules/upipe_worker.c` | inner pipes of a bin | alloc, freeze, thaw, attach | composition of the two previous ones |
| output of pipes | `include/upipe/upipe_helper_output.h`, `urequest.h` | flow definition, output, state, requests | output, set_output, store_flow_def, register, unregister | probes that change the output in the middle of an operation |
| input of pipes | `include/upipe/upipe_helper_input.h` | held urefs, blockers, limit | hold, block, output, unblock, flush | a blocker that is never released |
| probes | `lib/upipe/uprobe*.c` | chains of call-backs | throw, alloc, release | re-entrance |
| clocks, dictionaries, URIs, strings | `lib/upipe/uclock_*.c`, `udict_inline.c`, `uuri.c`, `ustring.c`, `ucookie.c` | data | pure functions | bounds |
| block buffers | `include/upipe/ubuf_block*.h`, `lib/upipe/ubuf_block_mem.c`, `ubuf_mem_common.c` | chains of segments, shared buffers and their counts, a cache of the last look-up | append, insert, delete, truncate, resize, prepend, splice, split, duplicate, read, find, compare | the cache while the chain changes under it, empty segments, offsets from the end |
| picture and sound buffers | `include/upipe/ubuf_pic*.h`, `ubuf_sound*.h`, `lib/upipe/ubuf_pic*.c`, `ubuf_sound*.c` | planes | resize, map | offsets |
| RTP with retransmissions | `lib/upipe-filters/upipe_rtp_feedback.c`, `upipe_rtcp_fb_receiver.c` | the queue of either end, what is missing since when, the round trip | packet, request for packets, two timers of the receiver and one of the sender | order, losses, sequence numbers that wrap, repeated requests |
| upipe-pthread | `lib/upipe-pthread` | one event loop per thread, mutexes | start thread, stop thread | end of threads |
| upump-ecore, upump-srt | `lib/upump-*` | as upump-ev | as upump-ev | as upump-ev |
| other modules of upipe-modules | `lib/upipe-modules` | each its own | each its own | dup, switcher, sync, reordering |
| transport stream | `lib/upipe-ts` | demux and mux state | parsing and scheduling | buffer models, continuity |
| framers | `lib/upipe-framers` | parser state | parsing | |
| av, sw*, x264, x265, v210, zvbi, ebur128, speexdsp, freetype | `lib/upipe-*` | wrappers of libraries | encode, decode, convert | udeal in av |
| hls, http, tls | `lib/upipe-hls`, `upipe-openssl`, `upipe-bearssl` | playlists, sessions | load, reload | |
| devices and displays | `lib/upipe-blackmagic`, `-alsa`, `-dvb`, `-dveo`, `-netmap`, `-gl`, `-qt`, `-osx`, `-nacl`, `-amt`, `-hbrmt`, `-dvbcsa` | drivers | input and output | |

How they interact: `uqueue` is made of a `ufifo` and two `ueventfd`s, `ufifo` and
`ulifo` are made of a `uring`; a `upool` is a `ulifo` and a count of references. Queue
sink and queue source share a queue of urefs and two queues for messages out of band,
of which the one to the source has the requests, the end of the source and its release;
the transfer manager and each of its pipes have one queue each. All of them are driven
by pumps of the event loop of their thread. The two pipes for RTP speak through the
network: packets one way, requests for what is missing the other way. A worker is a bin
of transferred pipes between queue sinks and queue sources. Every pipe has the output helper, and throws
events to probes, which may call the pipe again. `udeal` is used by the pipes of
upipe-av around the opening of codecs.

What makes each of them correct, in a sentence:

- rings: lists stay lists, an object is at one place, an operation takes effect at once;
- uqueue: nobody sleeps while there is something to do, the counter adds up;
- udeal: exclusion, and no client waits for a wake-up that never comes;
- pumps: a pump is active just while it is started and not blocked, and the count of
  the loop follows;
- queue: data in order, under its flow definition; back-pressure; both ends live long
  enough and not for ever; a request copied into another thread is freed once;
- transfer: messages never outlive what they are about; everything is freed in the end;
- output: data only goes to an output that accepted the flow definition; requests are
  registered where the output is;
- block buffers: a block is its octets, however it was put together; a shared buffer
  lives as long as a segment looks at it;
- RTP: packets leave in order and in time, and as many losses are repaired as the
  latency allows.

## 2. Modules and their correspondence with the code

`PROJECT.json` maps each definition to the lines it models. A variable has the name of
the field it stands for; `history` in a comment marks one that only properties read.

### Rings: `URing`, `ULifo`, `UFifo`, `Container`

`URing` has the ring (`uring.h`): the fields of the elements and the descriptors of
LIFOs, and `uring_lifo_pop` and `uring_lifo_push` with one step for each access to
memory that another thread may write: load of the descriptor (`TryTop`, `PushLoad`),
read of `next` (`PopNext`), read of the tag of the next element (`PopTag`), write of
`next` (`PushLink`), compare-and-swap (`PopSwap`, `PushSwap`, with the retry). `ULifo`
composes them into `ulifo_push` and `ulifo_pop`; `UFifo` adds `uring_fifo_push`,
`uring_fifo_pop` and the walk of `uring_fifo_find`, one step per element. A pop reads
`next` and the tag of elements it does not own: this data race is modelled as the
interleaving of these reads with the writes of the owner. Atomic operations are
sequentially consistent, which is what `uatomic.h` asks from the compiler.

Tags wrap at `TagMod`. They protect a pop that is suspended between its load and its
compare-and-swap, as long as no element goes around the ring so often that its tag is
the same again: 2^15 rounds in the code, since a round costs two increments.
`NotFullCircle` names this bound and is a conjunct of `ElemSet`.

`Container` is the abstract specification of both: a sequence of objects, a number of
spare slots, and what each thread holds; taking a spare slot, putting the object in,
taking an object out and giving the slot back are atomic. `Atomic` is its
specification under the refinement mapping of `ULifo` and `UFifo`.

### `UQueue`

`uqueue_push` and `uqueue_pop` with one step per operation on a list of slots, on the
counter, or on a descriptor, and the double-checks of both (states `push2`, `pop2`).
The lists are numbers of slots here: `UFifo` shows that they behave atomically.
`CallPush`, `Unblock` and `Trigger` are the event loops: a producer that was refused
waits for `event_push`, the consumer for `event_pop`; a watcher may pop once or go on,
and both are in the repository.

### `UDeal`

`udeal_start`, `udeal_grab`, `udeal_yield`, `udeal_abort`, one step per atomic
operation or system call. `style` is chosen at the start: clients that start again
from the access and abort in their call-back, or clients whose pipe may abort from
outside of it while it waits.

### `UpumpEv`

`upump_common.c` and `upump_ev.c`: alloc, start, restart, stop, status, blockers, free
and dispatch. `RealStart`, `RealStop` and `RealRestart` are `upump_ev_real_*`, with the
`ev_ref` and `ev_unref` of pumps with status false. `Happen` and `Dispatch` are libev,
which is external: something happens on an active watcher, and its call-back runs.

### `UpipeQueue`

Both ends of a queue with `upipe_helper_input.h`. The actions of the sink's thread are
the input of a uref by a pump (`Receive`, `SendFlowDef`, `SendData`), the watcher
(`Watch`, `OutputHeld`, `EndWatch`), the control commands, and the release, which is
deferred while urefs are held (`FreeSink`, `ReleaseSource`, `EndPush`). Those of the
source's thread are the two watchers (`Work`, `Oob...`) and the application's release.
A message out of band is dropped if its queue is full (`Message`), whether it is about
the end of the source or about a request (`Request`), of which only the room they take
matters here. `lost` is a history of the messages that were dropped.
`cur` is the uref a call is about: between two pushes on the queue the other thread may
run, so that a call of the sink is as many steps as it has pushes. `accepted` is a
history of what was input and not yet output, with the flow definition of that time.

### `UpipeQueueRequest`

Requests through the queue: register and unregister at the sink, the two oob watchers,
provide. Proxies (`struct upipe_queue_request`) are taken from a finite set and may be
reused after they are freed. A message that finds its queue full takes its reference
back, as in the code. The source answers a request once (`Provide`), and an answer that
finds no room is dropped; `unheard` is a history of the proxies with such an answer. All
the sinks are in one thread, so that a pop of `upstream_oob` is one action.

### `UpipeTransfer`

Manager, xfer pipes and the remote thread. `Control`, `XferRelease`, `Release`,
`Freeze`, `Thaw` run in the main thread, `Watch` and the `Pop...` actions in the remote
one, `XferWatch`, `XferPop`, `XferEnd` in the main one again. A push has two steps: the
element is visible after the first, the counter and the descriptor of the queue are
written in the second (`EndPush`, `EndRemotePush`). A remote pipe that is released
(`PopRelease`) may have other users and throw events until it dies (`Die`). A freeze
that fails (`FreezeFails`) keeps its reference on the manager. `lost` is a history: a
message that frees something found its queue full.

### `UpipeHelperOutput`

`upipe_helper_output.h` with calls that nest. `stack` holds the calls that wait for a
handler; `Handle` lets the handler of the present event make any of the calls of
`Handlers`. `judge` is the state after the call-back of line 234, where the code
compares the output with the one it holds. `life` is also where a failed assertion is
recorded: `assert(upipe != NULL)` and `assert(!urequest->registered)` are reachable
when handlers do what section 7 says, and the properties hold until then.

### Block buffers: `OctetStrings`, `UbufBlock`, `UbufBlockRead`

`OctetStrings` is the abstract specification: a handle is a sequence of octets, and a
call does to it, and to no other handle, what the comment above the function says.
`call` is its interface, with the arguments and the result of the last call.

`UbufBlock` is the code: the chain of a handle is a sequence of windows on shared
buffers, with the cache of the head (`cached_ubuf`, `cached_offset`, `cached_end_ubuf`),
and `Get` is `ubuf_block_get` with its comparison of unsigned numbers. Each action is
a whole function, and leaves the cache as the look-ups it makes do (`Looked`). A prepend
makes no look-up and moves the cached offset, which is wrong when the head itself is
cached: `Astray` says which look-ups fail then, until another one puts the cache right.
`Promised` is `OctetStrings` under the mapping of a chain to its octets (`Contents`).
Loops along the chain are sums (`Sums`) and least elements of sets, without recursive
operators, so that the module can be proved about. Its assumptions: handles are
finitely many, a buffer has memory (an octet at least), and `NULL` is not a head, a find or a string.
`ubuf_block_merge` is a copy and a release, and has no action of its own.

`UbufBlockRead` has the functions that read over segments as recursive operators, with
the loops of the code: `Extracted`, `Peeked`, `Copied`, `Compare`, `Equal`, `Match`,
`Scan`, `Find`, `Stream`; those that look up again and again take the cache along
(`Scanned`). They are compared with plain definitions on sequences in every
block that `UbufBlock` can build.

### RTP: `RtcpFb`, `RtpFb`, `RtpRetransmission`

`RtcpFb` is the sender, which keeps packets for the latency and repeats those that are
asked for, by number (`Retransmitted`) or by range (`RetransmittedRange`). `RtpFb` is
the receiver: `Add` and `Insert` put a packet into the queue and mark what is missing,
`Output` and `Ask` are its two timers. Sequence numbers are modulo `Modulus`, compared as
`uint16_t` differences. `RtpRetransmission` composes both over a network that delays,
reorders, duplicates and loses packets and requests; time is a number of ticks.

## 3. Runs

All cfgs are complete instances; no definition is replaced but the sets of the `MC`
modules.

| Run | Instance | Shows |
|---|---|---|
| udeal | 3 clients, 2 accesses each, both styles | `MutualExclusion`, `CountersSettle`, `NoLostWakeup`; `SoloProgress`: a client that waits is called once the others have gone |
| uqueue | 2 producers, of which one or two are active, 1 consumer, 2 slots, 4 elements each | `CountsAddUp` (slots are conserved and the counter differs from the content by the calls in progress only), `ConsumerWoken`; `AllDelivered`: what is pushed is popped, a lone producer included, which is woken when the queue has room |
| ulifo | 2 threads, 2 elements, 3 objects, tags of 2 bits | `RingKept` (lists stay whole, an object is at one place), `Atomic` (refinement of `Container`), `LockFree` |
| ufifo | 2 producers, 1 consumer, 3 elements, 3 objects | `FifoIntact` (types, both lists of the ring, every element at one place), `Atomic` (refinement of `Container`: no object lost or popped twice) |
| ufifo_consumers | 2 consumers | finding: `FifoIntact` is violated |
| upumpev | a descriptor, a one-shot timer, a repeating timer, 2 blockers each | `RunsAsAsked` (no call-back and no watcher of a pump that is stopped, freed or blocked; none missing of the others), `CountExact` |
| upipequeue | queue of 1, out of band of 1, 2 urefs, 2 flow definitions, 2 pumps, limits 0 and 1 | `InOrder` (nothing lost, doubled or overtaken, the end of source included), `Described`, `SinkLives`, `BackPressure`, `Delivered`, `Unblocked`, `Ends` |
| request | 2 sinks with a request each, 3 proxies, queues of 2 | `ProxyCounted`, `SourceFollows`, `Answered`, `Reclaimed` |
| transfer | 2 remote pipes, queues of 2, a freeze that fails | `LivesLongEnough` (of messages in queues), `FrozenIsStill`, `AllFreed` |
| output | 2 outputs, 2 flow definitions, 2 requests, calls 3 deep | `Described`, `RequestsFollow`, `RefsCounted`, `Returns` |
| ubufblock | 2 handles, buffers of 2 octets and of 1, 3 segments, offsets and sizes -1 to 2 | `MemoryExact`, `LookupsRight` (but for those that are `Astray`), `ReadsRight`, `Promised` (refinement of `OctetStrings`) |
| rtp | 4 packets, 3 losses of which 2 are to be repaired, delay of 1 tick, latency of 10, numbers modulo 8 that wrap after two packets | `Ordered`, `OnTime`, `HolesMarked`, `Repaired` |

The types of `UDeal`, `UQueue`, `ULifo`, `UpumpEv`, `UpipeTransfer` and
`UpipeHelperOutput` are not among the runs' properties because they are theorems
(section 5), nor is that of `UpipeQueue`, of which the part of the sink is one;
`UFifo` and `UpipeQueueRequest` have theirs within `FifoIntact` and `ProxyCounted`.

Why the bounds are enough:

- `udeal`: the third client may drain the shared descriptor while two others cross
  each other. Two accesses let a client come back while another one leaves.
- `uqueue`: with two slots a queue is neither empty nor full; four elements fill it
  and its counter twice over. `CounterMod` is above the number of slots and threads,
  as 2^32 is; the counter does go below zero.
- `ulifo`, `ufifo`: threads go round for ever, there is no bound on operations. With
  `TagMod` = 4 an element may go round once while a pop is suspended, which
  breaks lists if the compare-and-swap looks at the index alone; a mutant shows it.
  The FIFO needs three elements for a walk of more than one step. Producers and
  objects are symmetric in `ufifo`: nothing in the module tells them apart.
- `upumpev`: two blockers tell the last from another one. Timers are restarted and
  pumps with status false used, but not a pump with both (section 7).
- `upipequeue`: a queue of one is full as often as possible; two pumps are blocked
  together; with two urefs and two flow definitions one is in the queue and the others
  are held, in each order, and both limits are crossed. A queue out of band of one is
  filled by a request, by the end of the source or by its release, and each of them may
  be dropped for another.
- `request`, `transfer`: queues overflow in both; three proxies let a request be
  registered again before its first proxy is gone. `OOB_QUEUES` is 255 in the code.
  One failure of a freeze is as good as many: the manager is never freed.
- `output`: at depth three a handler's call meets another one that waits below it,
  with a call of its own in between.
- `ubufblock`: three segments have one in the middle, which a look-up may have cached
  while the head or the end changes. Two handles share a buffer, and one may look twice
  at it. Three octets are enough for each segment to have one, and for windows that are
  empty; what a deletion takes from the head is room for `prepend`. Offsets past the
  end, at the end, and from the end (-1) all occur. `MaxSegments` bounds what is put
  together and `MaxSize` the offsets and sizes that calls are made with. TLC tells
  states apart by `Distinct`: neither the last call nor which handle has which head.
- `rtp`: four packets make holes of one and of two, before, at and after the wrap of
  numbers. Losses may hit the packets, the requests and the repeated packets. A
  request names two packets at most (`NackSpan` is 1, and 16 in the code), so that the
  hole of two fills it. The queue empties within the `Horizon`. A tick is about
  the time of a packet, and round trips of one and two ticks are measured.

Deadlock is checked in `ulifo`, `ufifo`, `upumpev` and `ubufblock`, whose clients go on
for ever. In the others the application may have done all it wants to do.

## 4. Fairness

- `UDeal`: a thread goes on, and an event loop runs the watcher of a descriptor that
  stays readable (weak fairness). No client has to ask for access.
- `UQueue`: the same for producers and consumers. Which producers ever push is chosen
  in `Init`; there is no fairness between the elements.
- `ULifo`: some thread in a call runs. Any one may be suspended for ever, which is what
  lock-freedom is about.
- `UFifo`, `UpumpEv`, `UbufBlock`: none; their properties are about safety.
- `RtpRetransmission`: none. That repairs come in time is a safety property, since the
  clock only goes on (`Tick`) once both timers went off, the sender sent what it had to,
  and no message is late: this is the real-time behaviour that the latency is chosen for.
- `UpipeQueue`: each thread finishes what it began; the sink's watcher runs if its queue
  has room again and again (strong fairness: the event loop polls the descriptor, and
  the room comes and goes with other inputs).
- `UpipeQueueRequest`: watchers run, and the output of the source answers each request
  that is registered there, once (weak fairness). What is dropped is not sent again.
- `UpipeTransfer`: strong fairness of watchers and of the remote thread, for which the
  mutex comes and goes: the application thaws what it freezes, freezes do not starve
  the remote thread, and whoever else uses a remote pipe lets go of it.
- `UpipeHelperOutput`: the pipe goes on and handlers return.

## 5. Proofs

All proofs hold for any values of the constants that satisfy the `ASSUME`s. Each module
below also proves types: all those of its component, as `TypeCorrect` or with a property
that includes `TypeOK`, but in `UpipeQueueProofs` and `DataProofs` only those that
the invariants rest on. Counts are cardinalities of sets (`FiniteSetTheorems`), never sums.

- `EventLoopProofs` extends `UDeal`, `UpumpEv` and `UpipeTransfer`, whose names are distinct.
  For `UDeal`: `Exclusion`, `WakeupsKept`, `CountersCorrect`. The invariant says
  what each counter is in terms of sets of clients: `access` is the number of clients
  between a `fetch_add` and the matching `fetch_sub`. Exclusion needs more than the
  counters, namely that a client in the critical section saw the count go from zero.
  For `UpumpEv`: `NoStrayCallBack` and `StartedPumpsRun`, together `WatchersFollow`,
  and `LoopCountCorrect`. The last assumes `Steady`, that no pump with status false is a
  one-shot timer or is restarted (section 7).
  For `UpipeTransfer`: `NobodyDiesTooEarly`, `FrozenStandsStill`. The invariant is
  the account of all references on the manager (application, freeze, xfer pipes) and on
  each xfer pipe (its own, a message that comes back, its watcher); a failed freeze has one
  on the manager for ever. The own one of an xfer pipe is given
  back with `DEAD`, which is the last message since the remote pipe is gone. Each message
  to the manager but `DETACH` is about a pipe that is alive, and a living pipe keeps
  its xfer pipe, which keeps the manager. So when the last reference on the manager goes,
  its queue is empty: `DETACH` always finds room, and nothing follows it. Full queues
  are part of it: `lost` may be true. `LivesLongEnough` is about messages in queues: a push of
  which the second half is left is not one (section 7).
- `QueueProofs` extends `UQueue` and `UpipeQueueRequest`, whose names are distinct. For
  `UQueue`: `CountsCorrect`, `ConsumerNeverForgotten` (for one consumer, any number of
  producers). The counter is only right up to the calls in progress, modulo its width; a
  producer that counts from zero is the one that writes, so the strengthening says that
  while the counter is not above zero and something is queued, somebody is going to write
  or the consumer is awake. For `UpipeQueueRequest`: `EachProxyCounted`,
  `SourceHasTheListed`. Neither is inductive without the order of the messages to the
  source (`Twice`, `Followed`): at most two about one proxy, `REGISTER` first, and the
  source has, or is about to have, what is listed, was `lost`, or is to be unregistered.
  A proxy with a count of zero is then in no message (`FreeIsUnused`), which is what
  permits its memory to be used again.
- `URingProofs` has what the lists of a ring owe to nobody in particular: how a chain of
  elements changes (`ChainPop`, `ChainPush`, `ChainKept`), and the key to each pop of the
  LIFO (`Snapshot`, `SwapSeesTop`): if the descriptor still equals what a suspended pop
  loaded, the element has not left its list, so that what was read of `next` and
  of the tag is still true. It rests on the bound `NotFullCircle` and is false without.
- `ULifoProofs`: `ListsStayIntact`, `ObjectsStayKept`, on the detailed steps, and
  `RingStaysWhole`, which has both. `ImplementsContainer` is the refinement: each detailed
  step is a step of `Container` or a stutter, so that `pop` and `push` are atomic at their
  compare-and-swap. It also needs (`CInv`) that the elements of a list are as many as the
  deepest of them says, so that the top of the list is the top of the container.
- `UFifoProofs`: `FifoStaysIntact`, `ImplementsContainer`, for any number of producers and
  one consumer. That hypothesis, `Single`, holds for all FIFOs of the repository but
  `upstream_oob`, which each sink of a queue pops (`upipe_queue_sink.c:427`), possibly in
  a thread of its own; the run `ufifo_consumers` shows `FifoIntact` to fail without it.
  `FifoIntact` is about elements; that no object is lost or doubled is in the refinement.
  The two sides are
  right for different reasons. A push only writes the `next` of its own element, and its
  new descriptor follows from the one it compares with (`Ready`): no tag is needed. A
  pop walks through elements that it does not own. Producers only add behind them,
  so that the first element seen by the only consumer is still the first, the cursor of its
  walk is still on the queue, and when the walk ends it is on the second (`Traced`); the
  compare-and-swap may only fail because the tail has moved. The tags
  of the FIFO may have any width. For the refinement, the elements are counted as in `ULifoProofs`.
- `UpipeHelperOutputProofs`: `OutputDescribed`, `RequestsAtOutput`, `ReferencesCounted`,
  for any handlers and any depth of nested calls. The counts are proved by what each
  step does to the set of frames that hold a reference on an output (`Holding`): only
  `NeedOther` adds a frame to it, only `Judge` takes one out. That counts are natural
  numbers, which is in `TypeOK`, follows from there.
- `UpipeQueueProofs`: `SinkLivesLongEnough` says who has the at most two references of
  the sink: the application, and the held urefs, for which the watcher is started.
  `HeldIsBounded` is the back-pressure, for any length of the queue and any number of
  pumps. A pump that is blocked or freed is silent, and the invariant lets each silent
  pump account for two urefs, plus those of the call in progress (`cur`). It assumes
  `None \notin Senders`: a uref that comes without a pump blocks nobody, and the
  bound is false then.
  `ArrivesInOrder` and `FlowsDescribed` are about all that is on its way between input
  and output (`Coming`): the n-th uref there is the n-th of the history that was not
  output yet, and the flow definition before it is its own (`OrderInv`). `Current` adds
  which definition the source will have in the end, which is what `flow_def_sent`
  claims, except when urefs were dropped meanwhile. `EndInv` puts the end of the source behind all.
  Positions are counted, no sequence is filtered or folded, so that no induction is needed.
- `DataProofs` extends `UbufBlock` and `RtpRetransmission`, whose names are distinct. For
  `UbufBlock`: `MemoryStaysExact`, `LookupsStayRight`, and `KeepsPromises`, the refinement
  of `OctetStrings`, for any finite number of handles and any buffers, memory and bounds.
  The invariant `BlockInv` has four parts: types; `HeadsSound`, that a head has the total of
  its segments, which are within the memory of their buffers, and that its cache points to
  segments that begin where it says; `RefsCount`, that a buffer has a reference for each
  segment that looks at it, in whatever handle; and `MemoryHeld`, that it has memory
  as long as it has references. The last two are what makes the octets of one handle stay
  when another is freed or cut. `HeadsSound` is what a look-up needs: `Get` starts from the
  cache, and finds what it would find from the head (`GetRight`), unless a prepend
  has left the head in the cache with an offset above 0 and the octet is beyond it
  (`Astray`): what the code does there is wrong, and neither theorem speaks of it.
  The sums of a chain (`Sums`) are a recursive function, of which only existence and
  uniqueness are shown, for the shortest prefix without: that is all the induction there
  is, by the least number of a set. From there, the octets of a chain are placed by the sums
  before them, and each change of a chain (a cut, a deletion, an insertion) is compared place
  by place with the change of the string. An action changes one handle or two (`One`, `Both`),
  and the refinement follows from what each does to the strings of all handles (`Strings`).
  For `RtpRetransmission`: `AlwaysOrdered`, `AlwaysOnTime`, `AlwaysMarked`, for any
  number of packets, losses, latency and round trip, and any even modulus of which half is
  at least the number of packets. Below that bound the signed distance of two numbers
  is that of the packets (`Distance`, `BetweenNumbers`), although the numbers wrap. The
  invariant `RInv` says that the queue is sorted and that its times do not decrease, that
  the expected number is one past the last packet held, and that each packet missing between
  two held ones has a mark. A mark is a time, 0 for none: the clock starts beyond
  a round trip, which keeps a mark from being 0. The place where a late packet is
  inserted is the last of those before it: a maximum, by `WFMin` of the library.

Only model-checked: all liveness properties; `Repaired`, which counts losses and time
over a whole exchange; and `ReadsRight`, which is about the loops of `UbufBlockRead`,
recursive operators: what they compute needs induction over data.

## 6. What is left out

- Failures of memory and of system calls: allocations succeed, except for the slots,
  proxies and messages that the modules count.
- Weak memory orders: `uatomic.h` uses the sequentially consistent built-ins.
- `UpipeQueue`: the pseudo-output that the application may set on a sink, a pointer
  that only `get_output` and `iterate_sub` read.
- `UbufBlock`: failed allocations in the middle of a function, alignment
  (`ubuf_block_mem_alloc` with an alignment of the manager), the octets that a caller
  writes (`ubuf_block_write` and its check that nobody else uses the buffer), and
  `ubuf_block_stream` beyond whole octets.
- RTP: flow definitions, statistics, reports of the sender and the receiver, sessions
  (SSRC), and retransmission with another payload type.
- Contents of urefs, requests and flow definitions; two flow definitions are the same
  if their dictionaries are.
- An output does not call the pipe back while it is offered a flow definition, and the
  application keeps alive the outputs it sets. In `UpipeHelperOutput` one event stands
  for both the answer to a request and the probe `provide_request`.
- `UpipeQueue` and `UpipeQueueRequest` are two views of the same pipes, which share
  `downstream_oob`: in the first it is filled by requests of which nothing else is
  modelled, in the second no end of source comes in between. Several sinks are
  in one thread in the second; in several threads, they would pop `upstream_oob`
  concurrently (section 7). The first stops the watchers of the
  sink in the step that releases the source, although the code does so after it
  (`upipe_queue_sink.c:554`).
- `upipe_transfer`: what a command does in the remote pipe, references on outputs (the
  one taken for a `SET_OUTPUT` that finds the queue full is not given back,
  `upipe_transfer.c:438`) and the pool of messages.
- The components without a module: see their notes in `PROJECT.json`.

## 7. Where the code and its documentation disagree

One is shown by a run and listed under "findings": with several consumers
`uring_fifo_pop` may lose the rest of a FIFO (`uring.h:388`). The others were met while
modelling; properties are stated so as to leave these cases out, each with a named
condition.

- uqueue: with several producers, one may wait for ever in front of an empty queue: the
  consumer writes `event_push` only when the counter leaves `length` (`uqueue.h:176`),
  and the one write may wake a producer that has nothing left to push. The
  documentation promises "triggered when data can be pushed" (`uqueue.h:55`) and queues
  without limits on threads (`doc/overview.mkdoc:23`); `tests/ulifo_uqueue_test.c:162`
  avoids it by trying again. Condition: `Paired`.
- uqueue: `uqueue_length` returns the counter (`uqueue.h:195`), which may be 2^32 - 1, or
  `length` plus one, for a moment; the documentation says "number of elements in the
  queue" (`uqueue.h:189`), and `upipe_queue_source.c:382` hands it to the application.
- upump_ev: a one-shot timer with status false takes the count of the loop down twice,
  by `ev_unref` (`upump_ev.c:234`) and when it expires; so the loop may return with a
  blocking pump active, against `upump.h:368`. Condition: constants of the run, and
  `Steady` in the proof.
- upump_ev: the restart of an inactive timer with status false lacks the `ev_unref` of a
  start (`upump_ev.c:290`): the loop goes on for a pump that should not keep it. Same
  condition.
- upump_common: an expired one-shot timer that is blocked and unblocked runs again
  (`upump_common.c:97`), although it should trigger once (`upump.h:59`). `Armed` is
  about the other pumps only.
- upump_ev: a call-back that is due for an expired timer survives its restart
  (`upump_ev.c:286`), so that the timer triggers at once and again after its time
  (`upump.h:345`).
- queue sink: a flush may drop a flow definition that is held although
  `flow_def_sent` stays true (`upipe_queue_sink.c:312`, against the comment at line 75): the source
  goes on with the old one. Condition: `accepted[i].known`, from the history `dropped`.
- queue sink and source: the end of the source and the release of its last reference are
  messages that are dropped, with a warning, if requests have filled the queue out of band
  (`upipe_queue_sink.c:338`, `:554`, `upipe_queue_source.c:479`), and the source then
  never throws `source_end`, or never dies. Condition: `lost`.
- queue source: an answer to a request that finds `upstream_oob` full is dropped
  (`upipe_queue_source.c:225`) while the request counts as provided. Condition: `unheard`.
- queue source: the source, in its own thread, may free the queues while the sink's thread
  has not finished the push of `REF_END` (`upipe_queue_source.c:479`, `:464`).
- queue sink: `set_output(NULL)` releases the pseudo-output and keeps the pointer to it
  (`upipe_queue_sink.c:274`, against line 247). The pointer is not modelled.
- queue sink: with two sinks on one source, the answer to a request of one may be read,
  and the request provided, in the thread of the other (`upipe_queue_sink.c:426`);
  `doc/overview.mkdoc:73` and `:90` say that a pipe is used by one thread. They also pop
  one `ufifo` concurrently, which is not safe, as the finding about `uring_fifo_pop` shows.
- transfer: a freeze takes a reference on the manager before it locks the mutex, and does
  not give it back if that fails, as it always does without a mutex
  (`upipe_transfer.c:652`): the manager is never freed. Condition: `leaked`.
- transfer: if the queue of an xfer pipe is full of events when its remote pipe dies,
  the message is dropped (`upipe_transfer.c:289`) and the xfer pipe is never freed, nor
  is the manager (line 269). Condition: `lost`.
- transfer: the other thread may free a queue before a push on it has written the counter
  and the descriptor. The remote thread frees the manager while the main one is in the
  push of `DETACH` (`upipe_transfer.c:603`), although the detachment "may be performed
  from any thread" (line 591); the main thread frees the xfer pipe while the remote one is
  in the push of `DEAD` (line 289), which is there "to trigger the destruction of the
  upipe_xfer structure in the main thread" (line 277). `LivesLongEnough` is about the
  messages, and says nothing of these two half-finished pushes.
- worker: two workers on one manager each remember in a flag whether they are frozen
  (`upipe_worker.c:357`), while the freeze is the mutex of the manager; and a thaw that
  fails leaves the flag set although the reference of the freeze is gone already
  (`upipe_transfer.c:662`).
- ubuf_block: `splice` beyond the end makes a block whose `total_size` is larger than
  its segments; `delete` of more than there is returns an error after segments were
  emptied; `resize` with an offset beyond the end and size -1 does the same. Condition
  `Fits`: the offset and the size are within the block.
- ubuf_block: a look-up with a negative offset caches the negative offset
  (`ubuf_block.h:137`), and `prepend` moves the cached offset even when the head itself
  is cached (`ubuf_block.h:516`): look-ups of what was there before find an octet in
  front of the one asked for, until a look-up of what was prepended puts the cache right. The comment
  of the function says nothing of it. The only caller that prepends in the repository
  reads from 0 next (`tests/ubuf_block_mem_test.c:116`). Condition `FromStart`, a guard
  of the calls: no look-up goes `Astray`. Condition `NoWrap`, a guard of `PrependTo`: a
  negative cached offset stays negative, since it would be taken for one from the start.
- ubuf_block: `truncate` at a negative offset is not checked; `extract` and `peek` with a
  negative offset and an explicit size that goes past the end go on from the beginning,
  although the comment of `peek` promises `NULL`; a copy of no octet is an error;
  insertion and split at the beginning leave an empty segment, and insertion at the end
  is refused. `ReadsRight` keeps to arguments within the block where the code does not
  check them; the empty segments are in the model.
- RTP receiver: when the queue is empty, the next expected number is forgotten
  (`upipe_rtp_feedback.c:490`, `:992`), so that a packet that is late then is
  output after its successors and adds about 65000 to the losses. `out` starts anew there.
- RTP receiver: packets missing at the end of a stream, or before a pause that is longer
  than the latency, are never asked for: a hole is only seen between two packets.
- RTP receiver: a new measure of the round trip may make the first wait longer than was
  planned when the hole was marked. `NetworkAssumption` has this wait.
- RTP sender: if the first packet that a request names is gone, none of the others is sent.
- output helper: the output that a handler sets during the call-back at line 234 may be
  marked as rejected although it was never asked (`upipe_helper_output.h:242`, :54).
- output helper: if the handler of `need_output` sets the output to `NULL` after a
  rejection, the pipe is offered to `NULL` and an assertion fails
  (`upipe_helper_output.h:232`, `upipe.h:1083`).
- output helper: `set_output` registers requests one by one (`upipe_helper_output.h:407`);
  if the answer to the first makes the application set another output, requests that are
  not registered yet are unregistered, and an assertion fails (`upipe.h:1303`).

## 8. Plan

Done, in this order: `UDeal`, `UQueue`, `ULifo` and `UFifo` over `URing`, `UpipeQueue`,
`UpipeTransfer`, `UpumpEv`, `UpipeHelperOutput`, `UpipeQueueRequest`, `UbufBlock` over
`OctetStrings`, `UbufBlockRead`, `RtpRetransmission` over `RtcpFb` and `RtpFb`; with proofs for
`UDeal`, `UQueue`, `ULifo`, `UFifo` and their refinements of `Container`, `UpumpEv`, `UpipeQueue`,
`UpipeTransfer`, `UpipeHelperOutput`, `RtpRetransmission`, `UpipeQueueRequest`, and `UbufBlock`
with its refinement of `OctetStrings`.

Next, most important first:

1. `Urefcount` and `UPool`: use, release and dead step by step, objects that return to
   a pool in another thread and the life of the manager; a theorem that an object is
   freed once.
2. `Worker`: a bin over `UpipeTransfer`, with inner pipes reached while frozen, and two
   workers on one manager (`upipe_worker.c:369`).
3. Helpers of bins and sub-pipes, and the other order-sensitive pipes of `upipe-modules`.
4. Proofs: `ReadsRight`, once the loops of `UbufBlockRead` are recursive functions as `Sums` is.
