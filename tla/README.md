# Verification of the Netcode engine

TLA+ models of the core of the Netcode engine (networking in
`src/Netcode/Network` and `src/NetcodeClient/Network`; the life of a frame on
the GPU, GPU and CPU memory, keyboard input and the storage of a scene's objects
around it), TLC runs that check them on small instances, and proofs of safety
properties that TLAPS checks for every instance.

    tlc -workers 2 -config MCGameUpdates.cfg MCGameUpdates      # one run
    tlapm GameUpdatesProofs.tla                                 # one proof module

`PROJECT.json` lists components, runs, findings, hazards and theorems, the
source lines every definition stands for, and for each property a mutation of
the model that breaks it.

## 1. The system

A first-person shooter on an engine of its own: C++17, Windows, DirectX 12,
PhysX; Boost.Asio, OpenSSL (DTLS 1.2) and protobuf for the network. A game
server and its clients exchange numbered updates over UDP.

Three kinds of threads meet in the networking code:

- the **game thread** of a client or a server runs frames and ticks, takes
  received messages from queues and sends updates; input, scripts, scene and
  rendering are on it too;
- **io threads** (`NetworkContext`; the shipped configuration has 1 on a client,
  2 on a server) run every asio handler: received datagrams, send completions,
  timers, posted functions;
- **strands** serialise some of these: one per connection, for decryption and
  defragmentation, and one of `DtlsService`, for the routing table and handshakes.

The GPU is the fourth actor: two command queues that run what was submitted, and
order themselves and the game thread by fences.

A datagram takes this way: socket -> `TryParseMessage` -> plain control message,
or strand of a known connection (decrypt; then a game fragment to
`FragmentStorage` and on to `sharedQueue`, or a control message to
`sharedControlQueue`), or DTLS strand (handshake; application data of an
established route to `controlQueue`) -> game thread.

A frame takes this way: window messages -> `Input` -> network updates -> scripts
(`Scene::Foreach`) -> frame graph -> command lists on two queues -> `Present` ->
`DeviceSync` waits for the GPU -> constants, descriptors and lists start over.

### Inventory

| component | state | operations | hard because | module |
|---|---|---|---|---|
| **Game update exchange** (`GameClient`, `GameServer`, `RedundancyBuffer`) | sequence numbers, action and command indices, redundancy buffers, queued reconciliations | `SendAction`, `FetchUpdate`, `ProcessUpdate`, `Send`; `FetchActions`, `ProcessActions`, `SendServerUpdates` | updates are lost, overtaken, and read newest first; a confirmation of one update stands for all it carried | GameUpdates |
| **Completion tokens** (`CompletionToken.h`) | an atomic word, a callback, a result | `Then`, `Set`, `IsCompleted` | any thread calls them; no lock | CompletionToken |
| **Message queues** (`MessageQueue`) | an atomic list head | `Produce`, `ConsumeAll` | lock-free; nodes are freed and their addresses reused | MessageQueue |
| **Fragment storage** | chains of fragments by message, a list to delete | `AddFragment` | order of arrival, age, intrusive lists, items that own their own memory | FragmentStorage |
| **Sending game messages** (`NetcodeService::Send`) | records still to send, a token | `Send`, `SendFragment`, its handler | sizes: message, fragment, record, datagram; failure in the middle | GameSend |
| **Acknowledged control messages** (`PendingTokenStorage`, `ResendContext`) | pending nodes, attempts, timers | `Send`, `Attempt`, `InitTimer`, `Ack` | acks race sends and timers; every copy is acknowledged | ReliableControl |
| **DTLS routes and handshakes** (`DtlsRouter`, `DtlsService`) | 64 pooled routes, a pending connection, SSL objects | `HandlePacket`, `ServerListen`, `ServerAccept`, `InitConnect`, `ClientConnect`, `AsyncCheckTimeouts` | routes are erased while others point to them; timeouts race handshakes | DtlsRoutes, ClientConnect |
| **Connecting a client** (`ClientSession`) | connection state, filters, tick timer | `Connect`, hostname, punchthrough, path mtu, DTLS, connect request, clock samples | a chain of callbacks, each with failures of its own | ClientConnect |
| **Server sessions and filters** (`GameServer`, `ServerSession`) | connections, players, scene objects, scoreboard | connect request and clock sync filters, `OnPlayerConnected`, `OnPlayerJoined`, spawn, fire, `CheckTimeouts`, `DisconnectPlayer` | long sequences of joins, spawns, shots and timeouts | GameServerPlayers |
| **Clock synchronisation** (`NtpClockFilter`) | last 8 samples, best offset | `Update`, `ClockFilter` | minimum filter over shifting samples | ClockFilter |
| **Lag compensation history** (`HistoryBuffer`) | a ring of time-stamped values | `Insert`, `FindAt` | ring arithmetic | HistoryBuffer |
| **Input** (`Input`, `WinapiWindowModule`) | keys, edges, modifiers, events of the frame | window messages, `ProcessKeyEvent`, `ReflectKeyboardState`, `CompleteFrame` | the focus changes with keys held; system keys come as other messages | Keyboard |
| **Memory allocators** (`ObjectAllocator`) | pages, a free list, two pointers of a defragmentation under way | `Allocate`, `Deallocate`, `Defragment` | resumable defragmentation among allocations | ObjectAllocator |
| **Graphics: frames** (`DX12FrameGraph`, its executor, `DX12GraphicsModule`) | pools of command lists and allocators, two queues, two fences | build, cull and execute a frame graph, `Present`, `DeviceSync`, `SyncUpload` | the GPU runs late; queues wait for one another | GraphicsEngine, RenderFrame |
| **Graphics: memory** (`HeapManager`, `ConstantBufferPool`, `DynamicDescriptorHeap`) | heaps with released resources, pages and the mapped one, descriptor offsets | `CreateResource`, `ReturnResource`, `SetConstants`, `Create...`, `Prepare`, `CompleteFrame` | reuse across frames, by counters that must agree | GpuHeap, FrameMemory |
| **Scene** (`BulkVector`, `Scene`, `GameApp::Simulate`) | bulks of objects, a free list in the free slots, an iterator | `Emplace`, `Remove`, `Foreach`, `Clear` | objects are created and removed by the loop's own callback | BulkVector |
| **Replication** (`Replicator.hpp`) | last sent values | read and write by description | deltas over an unordered channel | - |

Outside of this: user interface, animation, physics, files and configuration, the
asset pipeline, the web backend, the matchmaker's HTTP and database sessions,
events. Section 7 and `PROJECT.json` say for each why it is not modelled.

### What makes each component correct

- update exchange: every action, result and command is executed exactly once and
  in order; nothing is forgotten before it is executed;
- tokens: one `Then` and one `Set` win, the callback runs exactly once, with both;
- queues: nothing lost, doubled, or touched after it was freed; known order;
- fragments: a message comes out whole and once, a complete one at once;
- sending: the token always says how it ended, and says success only when
  everything was sent;
- control messages: a result for every send, success only when it was earned;
- DTLS routes: a pointer to a route leads to the peer it was taken for, and no dead route
  is kept for ever; connecting: every attempt ends with an answer, established means
  that every stage succeeded;
- players: the scene holds the avatars of spawned, connected players, and every client
  shows them and no others; clock: the error is bounded by the delay; history: the two
  frames around a time;
- keyboard: a key counts as pressed while it is held, and an edge shows in one frame;
- memory: words, heap space, constants and descriptors have one owner at a time, and
  nothing is lost;
- frames: nothing is reset while the GPU uses it, what is read was written, waits end;
- scene: a loop comes to every object that was there, once, and to no destroyed one.

## 2. What is modelled

### GameUpdates (and the abstract ReliableStream)

One client, the server, one established connection. State: both redundancy
buffers, the counters of `NetwUtil.h`'s `Connection` and of `GameClient`, the
queues as stacks, updates on the wire as sets (any may be lost or overtaken, none
is duplicated: DTLS drops replays). The game threads are cut where other threads
get in: the client's frame into `ClientConsumeAll`, `FetchUpdate` per node,
`ProcessUpdate`, `SendAction` (scripts), `ClientSend`; the server's tick into
`ServerConsumeAll`, `FetchActions` per node, `ServerTick`. Content of actions is
abstracted to their id; of commands to id and kind; which actions are answered
(`HandleFireAction` returns early on a bad direction) is a choice.
`ReliableStream` says what the exchange is for: items issued in rising order,
executed in that order, once, none skipped; what one tick or frame executes together
is one step (the server sorts that by timestamp, the client by id). GameUpdates
refines it three times, for actions, results and commands (`StreamsAreReliable`).

### CompletionToken (and the abstract OneShot)

Every access to the atomic word is a step, so `TrySetFlag` is `Load`, `Or` (it
reads the word again for the desired value) and `Cas`; then `Write` of callback or
result, the second bit, `TryInvoke`, and the posted handler `InvokeCallback`. The
word is a set of bits. Steps are sequentially consistent: the release-only
exchanges of the code are not modelled below that, and x86-64, the only target,
gives them a total order. The constructor that takes a callback and the destructor
are left out.

### MessageQueue

`Produce` and `ConsumeAll` access by access, `compare_exchange_weak` failing for no
reason too; the walk of the callers (`RunFilters`, `NodeIter`), which frees a node by
its allocator; addresses come back for later messages.

### Fragmentation, FragmentStorage, GameSend (composed in MCGameMessages)

`Fragmentation` holds the arithmetic of fragment sizes and the header's one-byte
count; the sender and the storage share it. `FragmentStorage` is `AddFragment`: one
action with `OrderedInsert`, `CheckFragments` (`FragmentsAreConsistent`,
`TryReassemble`) and `DeleteFragments` in their order, on sequences in place of
intrusive lists. The overwritten `next` pointer of `MarkDeletable` is part of the
model: the walk ends at the first chain it finds too old. `GameSend` is
`Send(GameMessage)` and `DtlsFragmentationContext`: a message of any size, rejected,
failing to encrypt, or cut into records that `SendFragment` packs into datagrams; each
asynchronous send succeeds or fails. `MCGameMessages` checks the two ends in one run.

### ReliableControl

A control message of an odd type: `Send` lists its node and attempts; `Attempt` is cut
between its look at the token and the rest; the send's handler, `InitTimer`, the
timer's handler with and without an error, `Ack` under its lock. The wire loses,
repeats and reorders messages and acks. What an ack names (endpoint, sequence, class)
is a key that messages may share. A completion token is one step here; that it may be
is what CompletionToken shows. Its liveness is a run of its own (`MCReliableControl`);
its safety is checked and proved with the connection it belongs to (`MCConnection`).

### DtlsRoutes

The server's `DtlsRouter`: a pool of routes, linked in place, `Find`, `Add` and
`Erase` on the pointers; what a walk along them meets is the least set closed under
`next` (`Walk`), so that no list has to be sound for the model to be. On the strand the
handshake datagrams and `AsyncCheckTimeouts`, a route a step (`StartSweep`,
`SweepRoute`), while the game thread goes on; on the game thread batches of control messages, each with a
pointer to the route it came by, the filter that makes a connection out of a request,
and `CheckTimeouts`. Peers start handshakes, finish them, ask and fall silent as they
like; ages are the two limits the code compares with. `BatchesAreShort` is an
assumption of the model: the game thread is done with a batch before a
handshake begins and completes on a route of that batch. Without it
`ConnectionsKeepTheirRoute` fails: a request already taken from the queue would
then be bound to another peer's route. Taking a batch is a single step with the tick
it ends, and work on a connection's strand that reads `dtlsRoute->ssl` after the
disconnect (`Service.cpp:45`) is not modelled. An established route whose client never
asks for a connection stays for ever, as `Dtls.h` says.

### ClientConnect

One attempt, from `Connect` to `CONNECT_DONE`: hostname, socket, punchthrough, path mtu
probes over the table of `COMMON_MTUS`, the DTLS flights with their timer, the connect
request and the filter that waits for the response, the clock samples, the last
message. Every acknowledged send is ReliableControl's promise, an abstract send that
ends with an ack or without; every timer may fire whenever it is armed; the server
answers, rejects or says nothing. A send completes before it is answered. A flight
that fails to be sent is taken for the last one, because its handler resets
`pendingConnection` (a later one would dereference it, see hazards). `DEFERRED`
responses are left out, this server never sends them. After a failure the state of the
connection stays where it was, so that a second `Connect` throws; the model has one
attempt. The client may be established although the server's filter gave up
(`ServerFilterTimesOut`): `EstablishedIsEarned` claims what the client may conclude.

### GameServerPlayers

What a server does with players, over any order of connect requests, joins, filter
timeouts, spawns, shots that kill or do not, and timeouts: states, actors in the PhysX
scene (`HandleFireAction` takes the shooter's and the other avatars out and puts them
back), object ids, and what each client's `remoteObjects` hold after the commands it
got. Commands reach a client in order and once, which is what GameUpdates shows.

### HistoryBuffer, ClockFilter

The ring with `Insert` and `FindAt` against the definition "the frames
around a time", and `NtpClockFilter` fed with request and response delays
against "off by at most half the round trip's asymmetry". In the filter the jitter check
can never reject, because the estimate is stored before either early return; that is
translated as it is. The static `tmpBuffer` of `ClockFilter` points into the first instance ever
made; only one is made.

### Keyboard

Windows' keyboard and focus are external: `down` are the keys held, by virtual key code,
and while the window has the focus each press, repeat and release is a message. What the
code makes of it:

- `TranslateVirtualKey` looks the key up by its scan code without the extended bit, so
  keys share a code: right CTRL and right ALT arrive as the left ones, and `NUM_8` and
  `UP` stand for the keypad and the keys beside it. `ReflectKeyboardState`, on any change
  of focus, reads the keys by their own codes instead.
- A message is a system key message (`IsSystemKey`) while ALT is held without CTRL, and
  for F10. `Dispatch` passes those of ALT and CTRL on and drops the others, SHIFT's too.
- `ProcessKeyEvent` keeps state, edge, the three modifiers and the events;
  `CompleteFrame` clears edges.
- `Unlisted` keys are missing from `iterableKeyCodes`, so that no change of focus and no
  frame clears them: punctuation, the Windows keys, and Escape, which is listed as 0x18
  while its virtual key code is 0x1B.

`KeysFollowTheKeyboard` is about codes, and about ALT, CONTROL and SHIFT: pressed exactly
while one of their keys is held. It excepts codes that are `doubtful`: those whose last
message was dropped, and those of which a key was released while another one with that
code was held, or had been found held on a change of focus under its own name
(`reflected`). Each exception is a case in which the code goes wrong (section 4). A
press and release within a frame is seen as no press; mouse, characters and toggled keys
are left out.

### ObjectAllocator

A page word by word: items of the free list with their sizes, allocations
with their corrections, `Defragment(n)` in n steps with the two pointers it keeps
between calls. One page (a second is the same again), alignment of one word, no
request for nothing. A page whose data begin at an odd word loses a word per reuse
(lines 58 and 312 round differently), so `PageIsPartitioned` claims the no-loss half
for even pages. A single free item is never given back to the page's end (line 119).

### GraphicsEngine, RenderFrame

`GraphicsEngine` is data translated from `GraphicsEngine.cpp` and `EditorFrameGraph.h`: the
passes with what they read and write, in the graphs the game and the editor build.
`RenderFrame` is the engine: counting readers and culling, recording passes,
grouping them by queue and dependency (`HasMatchingElement` with its swapped indices),
submission with fences, the back buffer's transitions, `Present`, `DeviceSync`,
uploads, and the pools of command lists and allocators. The two GPU queues take their
commands one at a time, whenever they like. The run takes it through the scripts of the game and the
editor and through chains of passes that could be built from the same parts. A host wait ends when the fence has its
value. Left out: write-after-read order between queues (nothing enforces it), what state
change passes do to resources, and what the debug context submits itself. A pass that reads what it writes keeps itself alive in culling; the
assertions are no-ops in release builds and guard nothing here.

### GpuHeap, FrameMemory

`GpuHeap`: heaps by kind, allocation from the first compatible heap with room,
defragmentation of heaps that were passed over, release. `FrameMemory`: constants written
through the mapped page and descriptors handed out behind the kept ones, from
`Prepare` to `CompleteFrame`. A failing Direct3D call ends the program (`DX_API`).
`std::sort` orders released resources by offset, and no two have the same; heaps with
the same room may come in any order.
The 4 MiB alignment of multisampled resources, which the code ignores too, and the
limits of the descriptor heaps, which it does not check, are bounds: permanent
descriptors are never freed, so every `ReloadMap` takes more of them. The application makes
permanent views only outside of rendering and the others only inside, as the
assertions ask.

### BulkVector

The storage of a scene: bulks, the sorted free list in the free slots, the `Iterator` with
its own pointer into that list, and the loop of `GameApp::Simulate`, whose callback
removes the object it has come to or runs scripts, of which `LocalPlayerScript` creates
objects. Between loops the game client creates and removes objects, and F5 reloads
the map. Slots are ordered in memory as their bulks are, which `malloc` does not
promise (bulks are sorted by the address of their header, not of their storage); up to
512 objects there is one bulk. What the memory of a live object holds where the list
would have its `next` is zero.
`debug` is the build, and both are checked: only with `_DEBUG` does `Remove` zero the
object, and with it the mark that says it is to be deleted; only with `NETCODE_DEBUG`,
which is defined exactly with `_DEBUG`, does `AppendFreeListItem_SortedImpl` throw at its end.

## 3. Runs

| run | question | instance | states |
|---|---|---|---|
| game_updates | Is what is not executed buffered, are confirmations earned, do the streams refine ReliableStream? | 2 updates a side, 3 actions, 3 commands | 438 thousand |
| completion_token | Do calls return, does completed mean stored, is OneShot refined, with fairness? | 2 threads in `Then`, 2 in `Set` | 529 thousand |
| message_queue | Is nothing lost, what order do batches have, is every message handled? | 2 producers, 3 messages, 3 addresses | 56 thousand |
| game_messages | Fragments: whole, once, sound chains, completion returned. Sending: token set, success means all sent, true count. | messages of 2, 3 and 1 fragments (the first twice), 5 instants; sizes 0 to 36, fragments of 5 bytes, at most 6, 18 bytes a datagram | 1.1 million |
| game_send_equal_mtu | **violated**, section 4 | the same with room for 8 bytes | |
| reliable_control | Does every send of a control message end, and resending stop? | 3 messages, two with one key, one not encrypted, 3 attempts | 124 thousand |
| connection | The two sides and their control messages, each alone (MCConnection). Routes: is the pool partitioned, do connections keep their route, do dead routes come back? Client: is established earned, is the path mtu the best, does every attempt end? Control: is success earned, what is unfinished pending? | 2 routes, 3 peers, batches of 2; 5 link mtus, 5 path mtus (some not in the table, some below it), 3 flights, 3 clock samples; control messages as above | 323 thousand |
| components | Fourteen questions to nine components that share nothing, see MCComponents | players: 3; ring of 3, 6 frames in 4 instants; clock filter of 3 tuples, 4 samples, delays 0, 1 and 3; keys Escape (unlisted), left SHIFT, left ALT and both CTRLs; a page of 20 words at an odd and an even address, requests of 1 and 3; 2 heaps of 4 units, 3 resources; constants of 1 and 3 in pages of 4, 2 descriptors, 2 frames; 2 bulks of 3 objects, with and without `_DEBUG`; the graphs of game and editor and chains of two passes with a third on the back buffer, 3 scripts, 1 list a queue to begin with | 850 thousand |
| keyboard_presses | **violated**, section 4 | keys W, F5, left ALT, left CTRL | |
| bulk_vector_append | **violated**, section 4 | one bulk of 4, either build; it happens without `_DEBUG` | |

The bounds are the smallest at which what the properties speak of happens: two
updates a side for the second to overtake, replace or confirm the first, and three
items to split over them in every way (3 updates with 2 actions and 2 commands, 11.7
million states, hold too but take minutes); two racers on each side of a token;
address reuse between a producer's load and exchange; a message between whose
fragments another's arrive, a chain that ages in front of another; several records in
one datagram and one that does not fit; an ack for the other message with the same
key, a last attempt; more peers than routes; a third player to be hit, to join and to
watch; a ring that wraps twice; a page with room for three items, so that one has
two neighbours; heaps with a hole at the end, in the middle and in front; a second
constant page in a second frame, after the swap; an object created before, at and
behind the slot a loop waits for. The history variables (`applied`, `issued`,
`published`, `batches`, `delivered`, `wire`, `invocations`, `received`, `log`, `cut`)
never guard an action; `unexpected` and `reset` do, they stop a model at
undefined behaviour (section 4).

Components that share no state are checked in one run by a variable `part` that
says which one moves (MCComponents, MCGameMessages, MCConnection); the others stay in their first state.

`CHECK_DEADLOCK FALSE` is set (everywhere but in message_queue) where the system
really stops in the model: callers return, bounded messages, updates and frames are
used up, time ends. (message_queue runs for ever: its consumer goes on looking at an
empty list.)

**Fairness.** Weak fairness of a thread inside a call, of the io_context running what
was posted or due, of the timers that are armed, and of the GPU taking the next
command: these are ordinary threads, timers and queues. Strong fairness only of the
two exchanges of MessageQueue: the code relies on `compare_exchange_weak` not failing
every time. `DefragmentationEnds` assumes that frames go on, since each calls
`Defragment(16)`. Nothing is assumed of the network, of callers to call, of peers to
answer, or of encryption and sends to succeed.

## 4. Findings

Three runs state what a comment says and show the code not doing it:

1. **game_send_equal_mtu**: the token "signals the result", but when the path mtu equals
   the service's mtu a full fragment is larger than `SendFragment` may send, and it
   returns without a result. The message is never sent.
2. **keyboard_presses**: `OnKeyPressed` is for "rising edges or pulses", but the release
   of a key not known as pressed is given `UNDEFINED`, all bits set, and invokes it. Press a
   letter with ALT held, release ALT, release the letter.
3. **bulk_vector_append**: the end of `AppendFreeListItem_SortedImpl`, "should never reach
   this code", is reached in builds without `_DEBUG`: a script that creates an object
   inside the loop may take the slot the loop waits for. The loop then loses the free list
   and comes to destroyed objects, and removes a dead trail again, whose flags still say
   so. The end is passed silently there, since the comment's block with its throw is
   compiled only with `_DEBUG`; the new item has cut the free list behind its slot. With
   `_DEBUG` the loop can get lost as well, but the zeroed object is not removed again:
   `LoopsAreExact` says so of such builds.

Other things met while modelling, translated as they are, without a run of their own:

- FragmentStorage drops only one stale message a call and releases only its first item, though
  "1 second old fragments are way too old" and the function "deallocates finalized
  fragments"; the rest leaks.
- ReliableControl: the node of a send that times out or fails stays in the pending list
  (`Connection.h:302`).
- GameUpdates: results and commands are numbered apart but sorted together
  (`GameClient.cpp:204`).
- Server and client can disagree at the end of a connection attempt: the server's filter may time
  out while its io thread acknowledges CONNECT_DONE.
- RenderFrame: `HasMatchingElement` swaps the indices of its two views
  (`DX12FrameGraphExecutor.cpp:118`); the caches of 16 submitted passes and the arrays of 32
  barriers are not bounded. The graphs the engine builds stay within both.
- Keyboard: SHIFT pressed or released while ALT is held is dropped, which leaves the modifiers
  wrong until SHIFT is used again. A right CTRL or ALT, or a keypad key, that is held when the
  focus changes stays pressed after its release, which names the other key. Of two keys
  with one code, releasing one releases both. Edges of keys that are not listed are never
  cleared, and the listed Escape is not the one that messages name.
- FragmentStorage: nothing remembers a message that was handed up; if the network repeats all its
  packets, it is handed up again. `DeliveredOnce` is about packets that come once.
- ReliableControl: two messages of one endpoint with the same key complete one another;
  `SuccessIsEarned` says only what the code can tell, that a message of that key was received.
- GpuHeap: `Defragment` moves a heap's end back without lowering `freedSizeInBytes`, so a
  later release can find the heap empty while a resource in it lives, and reset it.
  `HeapsArePartitioned` shows that this is the only way (`cut`), and the model stops there.
- BulkVector: the constructor of `Iterator` goes on with its parameter, which hides the
  member (lines 81-85): with no object in the first bulk the loop begins at a destroyed
  one. `LoopsAreExact` excepts loops that began so.
- GameServer: the spawn point is indexed with the number of connections (`GameServer.cpp:576`), which is
  past the last point with seven players; statistics of a player that left stay on the scoreboard.
- CompletionToken exchanges with release and never acquires (line 57), and asio's timer is
  used by two threads in `PendingTokenStorage::Ack` (`Connection.cpp:20`): below what the
  interleavings here can tell.

The passing runs keep clear of these openly: `CompletionIsReturned` speaks of calls that
meet no stale chain, game_messages has room for a full record, and the exceptions above are
written in the properties.

## 5. Proofs

A theorem holds for all values of the constants that satisfy the `ASSUME`s of its
model; TLC evaluates them on every run:

| assumption | says | justified by |
|---|---|---|
| `BoundsAssumption`, `QueueAssumption`, `StorageAssumption`, `SizesAssumption`, `SendingAssumption` | counts and sizes are naturals, the size of a message and the room of a fragment are not 0 | their types, and `Send`'s early return for an empty message |
| `CallersAssumption`, `ControlAssumption` | callers in `Then` and in `Set` are different calls; attempts are a natural | the API |
| `RoutesAssumption` | the pool is not empty | `DtlsRoute pool[64]` |
| `SizesAreNatural` | mtus and counts are naturals, the clock is asked for a sample | `size_t`; `GameClient::Start` asks for 8 |
| `RenderAssumption` | after it has run a graph or presented, the application synchronises before it runs another (it may upload until then, and present what is on the back buffer); graphs, and the reads of a pass, are sequences; passes have a queue | every sequence of calls in the engine and its applications; TLC evaluates it on them (`MCScripts`) |
| `KeyboardAssumption` | the key a message names is one of the keyboard's, and ALT, CONTROL and SHIFT are listed | `MapVirtualKey`; `iterableKeyCodes` |
| `HistoryAssumption`, `ClockAssumption`, `MemoryAssumption`, `PoolAssumption`, `HeapAssumption`, `BulkAssumption` | a ring has room; delays stay below what the filter's lifetime of 10 s allows; no page is at address 0 and no request is for nothing; constants fit into a page; a resource takes a unit of the placement alignment at least; a bulk has slots | constructors, `GameClient.cpp:23`, `_aligned_malloc` and the callers of `Allocate`, the size of a page and of the largest constant buffer, `GetResourceAllocationInfo`, `BULK_SIZE` is 512 |

One result has a hypothesis more: the theorems about DTLS routes are for
`BatchesAreShort` (section 2), without which they are false.

Few of the properties are inductive. What the invariants add, module by module:

- **GameUpdatesProofs**: types; exactly-once for actions and replies; nothing
  unhandled is forgotten; confirmations are earned; each stream implements
  ReliableStream. Exactly-once is not inductive. The invariant adds what an update
  carries wherever it is (wire, queue, nodes being read): with sequence s it carries
  all items the buffer held then, and everything with a number up to its received_id
  was executed; that buffers hold exactly the contiguous unconfirmed items, tagged with the
  first update that carries them; that counters of both sides bound each other.
- **CompletionTokenProofs**: types, one winner, at most one invocation, completed means
  stored, bits only increase, and the refinement of OneShot (safety). The invariant adds where each
  caller's bit can be, that what `TrySetFlag` read is a subset of the word (so an
  exchange that succeeds drops nothing), that a winner's first bit is in the word, and
  that bits 4 and 8 stand for written values.
- **MessageQueueProofs**: nothing is lost; batches reverse publication. Both speak of what
  pointers reach, so the invariant (`QueueInv`) says that there are two sequences of nodes, one
  behind `head` and one behind the consumer's pointer, that are linked as they stand, share no
  node, and hold what was published and is not handled, newest first; and that a node a producer
  is still preparing is in neither. The exchange compares a pointer that may have been freed and
  come back (ABA): with `head` the only place nodes are pushed to and the whole list taken at
  once, an equal pointer is the right one, and the proof needs nothing else of it.
- **GameMessagesProofs**: of the storage, that chains are sound, messages are delivered once, and
  whole, byte by byte, and that the call that brings a message's last missing fragment hands
  that message up (an action property: a chain that then holds all indexes has them in order from
  0, so that its sizes are consistent and it is the one found); of the sender, that the one-byte count is true and that success means all
  sent. `StorageInv` adds that each chain is sorted by index and has items of one message,
  each of a packet that has come, that two chains are of different messages, and that what was
  released or handed up is in none of them: the walk that stops at the first stale
  chain keeps it although it leaves others. `SendingInv` says how far Send has counted at `dataOffset`.
- **ConnectionProofs**: of the routes, that active and free list partition the pool and that a
  connection's pointer leads to its own established route. `RoutesInv` says that two
  sequences of routes are linked as the pointers are, which is what makes walks end; that a
  message not yet taken came by an established route of its peer, and one already taken by a route
  that, should it be established, is that of its peer (here `BatchesAreShort` is needed); and that no two
  connections have one route. Of the client's connecting, that only the full exchange establishes
  it and that discovery finds the best mtu; `ConnectInv` says of each stage what cannot have
  begun yet, of the token that it is set exactly when the stages are left, and of the mtu being probed
  that every greater candidate is too large or was unlucky. Of acknowledged control messages, types, that
  success is earned, that what is unfinished is pending, that an acknowledged message is forgotten and that a
  cancelled one is completed. These are inductive together (`ControlInv`) with two facts: a message not sent
  has no result and no node, and an ack on the wire answers a received message.
- **ComponentsProofs**, the machines of one thread, each by an `INSTANCE` of its own:
  keys and modifiers follow the keyboard (Keyboard; the invariant adds that the modifiers are those of
  the pressed keys, and that a key no message names is pressed only if the last change of focus
  found it held); the scene holds the living players and every client
  shows them, and a shot changes neither (GameServerPlayers; the invariant adds which states have
  an actor and that object ids are not used twice); FindAt brackets a time (HistoryBuffer;
  the ring is the end of the log, element by element, and the log is in order); the clock's error is
  bounded (ClockFilter; each tuple in the filter bounds its own error, so that the choice among them does
  not matter); constants and descriptors keep what a frame put into them (FrameMemory; every
  handle lies below its page's offset, no two overlap, and the pages behind the mapped one are empty);
  a page is divided among its blocks and free items (ObjectAllocator; the list has each item
  once, the two pointers of Defragment are at items of it, and on an even page all sizes are even);
  a heap is divided among living and released resources (GpuHeap; `HeapsInv` adds that ids are not
  used twice and that every heap, not only those a resource is in, is in order, and the
  lemmas before it that sorting, trimming and merging keep what the released ones cover);
  no command list or allocator is reset while the GPU uses it (RenderFrame). `RenderInv` says that
  allocators are free, bound to a free list or in flight, and each once; that what is recorded or queued is
  in flight; that a signal of the main fence is behind all work on a queue, an upload apart, whose own
  signal is right behind it; and that a signal is behind a mark of the value before it, a signal of it or a wait for it, so
  that the fence moves on by one and, once the host's wait is over, nothing is queued. A second graph
  without a `DeviceSync` in between could have its signals overtake the first one's: that is where
  `RenderAssumption` is needed, which `ScriptOk` carries through the calls of a script. Culling keeps
  the largest set of passes in which each has a write that is read or shown (`CullInv`: what runs was made of
  the graph given): such a set survives each round, a round that erases nothing leaves one, and there
  cannot be more other rounds than passes.
- **BulkVectorProofs**: loops over a scene come to every object they should, once.
  The property does not say where the `Iterator` waits, so `BulkInv` does: bulks are in order and none
  is empty; the free list links exactly the unused slots in use, lowest first, from `freeListHead` on, and
  no other slot has a next (`StoreOk`); the `Iterator` is in one of the bulks, its free item is the first
  unused slot behind the object it is at, what is due is alive and not behind it, and what is alive
  from there on is due or was created since (`LoopOk`). A callback changes the first part at or behind the
  object; that the `Iterator` then finds the next one (`ContinueKeeps`) is shown by following it from bulk
  to bulk, each of which it leaves having passed over free slots only. A lost loop may come to
  any slot; that in a debug build it still removes nothing twice holds because there only living
  objects are marked (`DebugInv`).
- **DataLemmas**: induction over sets of naturals, maxima and minima, flattening of
  sequences, inserting and removing, functions that iterate a step, which the others cite.

Each proof has one lemma per action, with a step for every part of the invariant the
action can disturb. TLC checked each inductive invariant, or the parts of it, on the run's instance
before it was proved. Some of what is proved is in no run, because it follows from or
only supports what is: types, exactly-once (implied by the refinements), one winner and at most one
invocation (implied by OneShot), that bits only increase, that an acknowledged message is
forgotten, that the handler of a cancelled timer finds its token completed, and that shots leave the
players as they were.

**Model-checked only**: liveness, since TLAPS has no ENABLED (`CallsReturn`,
`ImplementsOneShotFairly`, `EventuallyDelivered`, `TokenIsSet`, `EverySendEnds`,
`ResendingStops`, `DeadRoutesAreReclaimed`, `EveryAttemptEnds`, `DefragmentationEnds`,
`HostWaitsEnd`), and `PassesFindTheirResources`, which is about a fixed set of graphs:
TLC checks all of them. Every invariant the runs check is proved.

## 6. Plan

Done: GameUpdates with ReliableStream, CompletionToken with OneShot, ReliableControl, each
with proofs; MessageQueue, Fragmentation, FragmentStorage, GameSend; DtlsRoutes,
ClientConnect, GameServerPlayers; HistoryBuffer, ClockFilter; Keyboard; ObjectAllocator,
GpuHeap, FrameMemory, BulkVector; GraphicsEngine and RenderFrame.

Since then the theorems about MessageQueue, FragmentStorage, GameSend, DtlsRoutes, ClientConnect,
GameServerPlayers, Keyboard, HistoryBuffer, ClockFilter, FrameMemory,
the pools and the culling of RenderFrame, ObjectAllocator, GpuHeap and BulkVector: every
safety property of a passing run but the one about a fixed set of graphs.

What is left: Replication, if its content is ever given more than numbers to correct.

## 7. Not modelled

- **External**: OpenSSL's handshake and cryptography, protobuf's encoding, asio's
  internals and the network stack, Direct3D, Windows' messages, PhysX. What the code
  sees of them (success, failure, order, size) is a choice in the models. Data races on
  asio timers and on the client's vector of filters are named here and under hazards.
- **User interface**: `NetcodeApp::CreateUI` returns (line 268) before it makes a page, so
  no page, control or dialog can be reached at this commit.
- **Animation**: nothing creates an animation controller or the component that would hold
  one, so `AnimationSystem` never runs a state machine; the rest is numerical blending.
- **Replication**: reads and writes numbers by a description; a lost or old value is
  corrected by the next update. Physics and movement are floating point simulation.
- **HTTP and database sessions**: request and response wrappers; the game uses none of them
  at this commit.
- **Files, configuration, URIs, asset pipeline**: platform wrappers, strings and offline
  conversion. **Web backend and frontend**: PHP and JavaScript around a database.
- **Pool, stack and bulk allocators, events**: a few lines each, on one thread.
- Wording, logging and performance counters.

Most of the repository's lines are in these parts: a vendored Direct3D header, drawing code,
importers, user interface, tests. The lines the models map are a small share of the
whole and most of the code in which steps of several actors, or long sequences of calls,
meet.
