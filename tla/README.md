# b-bridge: TLA+ models, model checking and proofs

b-bridge lets a 32-bit Direct3D 9 game be rendered by a 64-bit process. The game
loads a replacement `d3d9.dll` (the *client*, `src/src/client`); every call on a
Direct3D object becomes a *command* in shared memory; the *server*
(`src/src/server`) pulls the commands, makes the same calls on a real device and
sends back what the game waits for. Three things make this hard. The transport
(`src/src/util`) has two lock-free rings with private copies of the other side's
index, an overwrite protection that is itself asynchronous, answers that are matched
by counting, timeouts that the default configuration turns off, and two processes
either of which may die. The protocol is written down twice, in some 250 methods of
the client and 150 handlers of the server, and nowhere once. And the client sits
inside the game: it keeps a copy of the device's state, hands out COM objects with
counts of their own, and takes the game's window, input and monitor in its hands.

Paths in this text are those of the repository, below `src/src/` where they are short.
A constant in *italics* is a parameter of a module.

## 1. Inventory

| Component | Where | State | Operations | Module |
|---|---|---|---|---|
| Command queue | `util/util_atomiccircularqueue.h` | slots, two shared indices, the producer's private index, a private copy of each index, the count of headers not published | `push`, `flush`, `peek`, `pull` | `CommandQueue`, abstractly `Fifo` |
| Data ring | `util/util_circularqueue.h`, `util_circularbuffer.h`, `util_bridgecommand.cpp` (`syncDataQueue`), end of the loop in `server/main.cpp` | a position on each side, `serverDataPos`, `clientDataExpectedPos`, `serverResetPosRequired`, `dataSemaphore`, cached server position | `send_data`, `send_many`, `begin_data_blob`, `get_data`, `copy_data`, the overwrite request and its answer | `DataRing` |
| Bridge commands, batch, replies | `util/util_bridgecommand.{h,cpp}`, `util_fastlock.h`, `client/d3d9_device.h` | writer lock, command in progress, command counters, state batch, both queues | `Command()`, `~Command()`, `waitForCommand`, `pop_front`, `flushStateBatch`, `batchCmd` | `Bridge` |
| Lifecycle and handshake | `client/d3d9_lss.cpp`, `server/main.cpp` (`wWinMain`), `util_process.*`, `util_bridge_state.h` | where each process is, both bridge states, exit callbacks, `gbBridgeRunning` | attach, Syn/Ack/Continue, detach, Terminate/final Ack, either process exits or dies | `Lifecycle` |
| Loading and detours | `launcher/launcher.cpp`, `client/d3d9_bootstrap.cpp`, `d3d9_lss.cpp`, `window.cpp`, `di_hook.cpp`, `util_detourtools.h` | what is loaded, which functions lead into the client, what is attached | the launcher's command line, first and later loads, attach and detach in transactions, unload | `Loading` |
| Present synchronisation | `client/d3d9_swapchain.cpp`, `d3d9_device.cpp` (`syncOnPresent`), `util_semaphore.*` | a named semaphore | `Present`, `PresentEx`, `syncOnPresent`, the server's release | `PresentSync` |
| Display mode, frame cap | `client/d3d9_swapchain.*`, `d3d9_util.h`, `util_monitor.cpp` | the monitor's mode, each chain's parameters; the next frame's time | creation, reset and end of a chain; `FramePacer::wait` | `Display` |
| Shadow state and state blocks | `client/d3d9_device.cpp`, `d3d9_stateblock.cpp`, `server/main.cpp` | `m_state`, `m_stateRecording`, the capture of every block; device and blocks of the server | setters and getters, `MultiplyTransform`, `Create/Begin/EndStateBlock`, `Capture`, `Apply`, `Reset` | `DeviceState` (coherence), `Shadow` (addresses) |
| Calls | every class of `client/`, `server/main.cpp`, `server/module_processing.cpp` | wrappers of the client, tables of the server, the queue between them | one definition for each method that sends and for each handler | `Commands`, `Wire`, `Client*`, `Server*`, `Calls` |
| Module channel | `server/module_processing.cpp`, `client/d3d9_module.cpp` | a second Bridge, for `IDirect3D9Ex` | queries, `CreateDevice` | `ClientModule`, `ServerModule`, `Calls` |
| Reference counts and lifetimes | `client/base.h`, `d3d9_resource.h` | fused interface and object counts, children, implicit references | `AddRef`, `Release`, `D3DAutoPtr`, creation, `Reset`, end | `Objects` |
| COM interfaces, levels of textures | `client/d3d9_*texture.cpp`, `d3d9_base_texture.h`, `server/main.cpp` (`safeDestroy`) | levels made so far on both sides, references held | `QueryInterface`, `GetDevice`, `GetContainer`, `GetSurfaceLevel` and kin, `SetLOD`, destruction | `Interfaces` |
| Shared heap (off by default) | `util/util_sharedheap.*` | segments, chunk states in shared memory, allocations of the client, the server's mirror | `allocate`, `deallocate`, `freeDeallocations`, `addNewHeapSegment` | `SharedHeap` |
| Lockable resources | `client/lockable_buffer.h`, `d3d9_surface.cpp`, `d3d9_volume.cpp` | shadow memory, queue of open locks, heap buffers | `Lock`, `Unlock`, discard, read-back | `Lockable` (heap), `Images` (bytes), `Calls` (commands) |
| Shader size | `client/d3d9_commonshader.h` | the walk's position | `getShaderByteSize`, copy | `Shaders` |
| Window procedure | `client/window.cpp` | each window's procedure, `g_gameWndProc` | set, unset, detours of `SetWindowLong`/`GetWindowLong`, `windowMsg` | `WindowProc` |
| Input | `client/window.cpp` (`remixMsg`), `client/di_hook.cpp` | active UI, levels and acquisition of devices, the game's hooks, what it polls | message handling, unsticking, pump hooks, Windows hooks, cursor, keyboard and raw polling, DirectInput hooks | `Input`, `DirectInput` |
| Window message channels | `util/util_messagechannel.*`, `client/message_channels.*` | workers, handlers, handshake | `init`, `registerHandler`, `send`, `onMessage` | `MessageChannel` |
| Remix API | `client/remix_api.cpp`, `server/remix_api.cpp`, `util/util_remixapi.cpp`, `util_serializable.h` | none | entry points (in `Calls`); size, writer, reader and release of every structure | `RemixApi` |
| Options | `util/config/*`, `*_options.h` | `GlobalOptions` of each process | reading the file, conversions, the option that changes later | `Options` |
| Logging, file system, blocking queue, Tracy | see `PROJECT.json` | none that the protocol depends on | | not modelled |

**How they interact.** A setter of the device changes the shadow and appends to the
state batch, or builds a `Command`. A `Command` takes the writer lock, flushes the
batch (with a `Command` of its own), pushes its words into the data ring, where
`syncDataQueue` may stop it, and on destruction pushes one header into the command
queue. The server pulls the header, reads the words, looks the handles up in its
tables, performs the call, compares positions, and may answer through a second pair
of rings in the other direction. The client's thread waits with `peek`/`pull` until
the head of that queue is its answer. `Present` in addition waits for a semaphore that
the server releases. An unlock sends the written bytes, or their place in the shared
heap, which the server gives back by marking it. Exit callbacks of the operating
system tell either process of the other's end, on a thread of their own, and turn the
bridge off. The game's window messages pass through the client, which tells the
server of lost and regained focus over a message channel.

**What is hard.** Two threads of the game and the server's loop interleave at every
shared access; a batch written by one thread is flushed by another; answers come
back in one queue for all threads; a private copy of an index is stale while it is
used; a timeout can race the late answer; both processes can die at any point;
calls of two threads between two lock scopes reach shadow and server in different
orders; counts without a lock decide when an object ends; a creation is believed
before the server has answered it; sizes, rows and lists of members are computed
separately by processes of different word size; a UI takes input away in the middle
of a key press. Each of these is listed at its line under `hazards` in
`PROJECT.json`, with the properties that would catch it.

## 2. Modules

| Module | Lines it stands for | Shape |
|---|---|---|
| `Fifo` | what the queue promises | `Put`, `Publish`, `Take` on two sequences *held* and *visible* |
| `CommandQueue` | `AtomicCircularQueue` | one action per access to shared memory; refines `Fifo` |
| `DataRing` | positions and overwrite protection | the client's place in `syncDataQueue`, the server's place at the end of its loop |
| `Bridge` | `Command`, `waitForCommand`, batch, server loop | one program counter per thread; the queues are the `Fifo` the ring implements |
| `Lifecycle` | both main threads and both exit callbacks | one place per thread, a flag per callback |
| `Loading` | launcher, `DllMain`, attach and detach | a machine the client finds, the functions that lead into it |
| `PresentSync` | Present and its semaphore | counters as history |
| `Display` | swap chains and the monitor; the frame cap | chains, the monitor's mode; a clock |
| `Interfaces` | `QueryInterface`, levels of textures, `safeDestroy` | one object of some class, the server's references |
| `DeviceState` | shadow, setters, state blocks | one table of the setters' traits, one action per operation |
| `Shadow` | how setters and getters address their element | one operator per setter and getter |
| `Commands`, `Wire` | the enumeration; what a command is made of | sequences of items |
| `ClientDevice`, `ClientObjects`, `ClientModule` | what each method of the client sends and waits for | one definition per method |
| `ServerDevice`, `ServerObjects`, `ServerModule` | what each handler pulls, looks up, enters, erases and answers | one definition per handler |
| `Calls` | one side run against the other | a call, its service, its answer |
| `Objects` | `base.h`, containers, the device's objects | a list of atomic steps still to do per thread |
| `SharedHeap`, `Lockable` | allocator on both sides; lock, unlock, destruction | a lock in progress, the server's queue |
| `Images` | rows and blocks of surfaces | bytes that know where they belong |
| `Shaders` | the walk over a shader | tokens |
| `WindowProc` | the procedures of the windows | one step per call |
| `MessageChannel`, `DirectInput`, `Input` | messages and devices | `Input` composes the other two |
| `RemixApi` | encoding and decoding | lists of members; bytes that know where they belong |
| `Options` | reading `bridge.conf` in both processes | tokens, one table of options |
| `CommandQueueProofs`, `DataRingProofs`, `BridgeProofs`, `DeviceStateProofs`, `LockableProofs` | | theorems about the module of that name |
| `LifecycleProofs`, `PresentSyncProofs`, `WindowProcProofs` | | theorems about `Lifecycle` and `Loading`; `PresentSync` and `Display`; `WindowProc`, `MessageChannel`, `DirectInput`, `Input`, `Shadow` and `Shaders` |
| `MC*` | | instances for TLC |

**Correspondence.** Variables have the names of the code where it has a name for
them (`m_read`, `m_cachedConsumer`, `serverDataPos`, `m_stateRecording`, ...), and
actions those of the functions; where a function has several shared accesses each is
an action, named for what it does (`Reload`, `Store`, `PublishBatchFull` are the
rest of `push`). `PROJECT.json` maps every definition to its lines.

**Composition.** `CommandQueue` implements `Fifo` (proved); `Bridge`, `DataRing` and
`Lifecycle` use queues of that form (*held* and *visible* where batched publishing
matters). `Bridge` establishes that calls of a thread reach the server in their
order (`ThreadOrder`), which is why `DeviceState` lets a sent command take effect on
the server in the step that sends it, and why `Calls`, `Lockable`, `Images` and
`Interfaces` have a queue in order. `Calls` composes the six modules of methods and
handlers; it takes the lists of commands from `Commands` and starts only calls that
the enumeration has. `Input` composes the message channels, the DirectInput hooks and
the window's messages. `Lockable` composes locks with the allocator. Five MC modules
(`MCChannels`, `MCProcesses`, `MCScreen`, `MCResources`, `MCClient`) hold several parts
that do not touch each other's variables: a behaviour there picks one of them in its
initial state (`about`) and is about that one only. The *Subjects* of `MCClient` are
the parts it picks from.

**Abstractions.**
- *CommandQueue*: a header is a value. The `seq_cst` atomics are one step each.
  `pull()` on a timeout leaves its result unset in the code; no caller reads it.
- *DataRing*: a word is the number of the command it belongs to. Numbers of commands
  are reused once free, so the state space is finite without bounding the run.
- *Bridge*: three kinds of calls, `set`, `send`, `ask`. A call is the pair of its
  thread and its number. Waiting while the device lock is held
  (`sendAllServerResponses`) is not modelled.
- *Lifecycle*: the queues are reliable. Killing a process is one step at any point.
  `UnregisterWaitEx` called on the callback's own thread while the process exits is
  taken to return (Windows decides this, not the code).
- *Loading*: Detours is external. A transaction that met an error changes nothing
  when it is committed; any other leads every attached function into the client or
  back. The game makes no Direct3D object while it frees the library.
- *PresentSync*: one thread presents. Return codes are left out.
- *Display*: one monitor whose modes are a size and a rate. The system takes the
  registry's mode at any time and may refuse any other. The game has one full-screen
  device at a time. The frame cap counts a small clock.
- *Interfaces*: one thread; the device has a fixed number of implicit objects.
- *DeviceState*: a slot is one piece of device state and has two values; `Values`
  stands for the setter's arguments. The real device is external: it is taken to
  record setters between Begin and End, to fail Create, Capture and Apply while it
  records, and to capture everything with `D3DSBT_ALL`. The game is taken not to
  create, apply or reset while it records, and to release its blocks before `Reset`,
  as Direct3D demands. `tainted` is a history variable: a slot enters it in the step
  in which one of the gaps listed in section 7 parts shadow and device, and never
  leaves it. The properties then say that *nothing else* does.
- *Wire, Calls*: a value is only that it is there; a block is its length and its
  bytes as two items; handles are kept. Direct3D calls of the server succeed or fail
  at will. The client's methods run one at a time, as the device's lock has it.
- *Objects*: one device, its swap chain and surfaces, a texture with a level. With
  *Careful* no release crosses a Reset and nobody uses an object without a reference
  of its own, as COM and Direct3D ask; nothing is claimed of a Release on another thread
  in the middle of a Reset (section 7).
- *SharedHeap, Lockable*: sizes in chunks; the memory of an allocation holds the
  number of the lock that wrote it last. The game writes through an open lock at any
  time (`WriteLock`), also between the locks and unlocks of another range.
- *Images*: three formats' shapes: plain pixels, blocks, and blocks cut by the edge.
- *Shadow, Shaders, RemixApi*: data structures and tables, each operation one step. A
  value carries the place it was set for, so that a wrong element shows. Sums of
  registers wrap as in 32 bits. `strayed` (`Shadow`) and `astray` (`Shaders`) are history
  variables: a setter that checks nothing got an argument Direct3D does not have, or a
  range wrapped; the table of sizes is a word short of an instruction whose last word
  does not look like a nop. The properties say nothing from there on.
- *WindowProc*: creation and reset run on the window's thread, as Direct3D asks.
- *DirectInput*: one device of each type. DirectInput may refuse any level it is asked
  for; the code looks at none of its answers. The history variables `relevelled` (the
  game set a level under the active UI) and `refused` name the two ways in which the UI
  goes deaf.
- *Options*: a line is a sequence of tokens; numbers are read digit by digit with the
  width of their type.

## 3. Runs

| Run | Instance | Shows | Distinct states |
|---|---|---|---|
| `channels` | *Queue*: 4 slots, publish after 1, 2 or 4 headers, two values, timeouts. *Ring*: one of 7 words and one of 5, blobs of 1 word, pushes that end at the end of the ring | a pulled header is the head, no unread slot is overwritten, the ring implements `Fifo`, a push returns; both ends agree on positions through every lap, in the wide ring a write never lands on unread data and never waits, `syncDataQueue` returns, the process exits, or the wait has no last retry | 364,731 |
| `processes` | *Commands*: two threads that both ask, 2 calls each, batch of 2, publish after 2, 3 headers, timeouts. *Processes*: 3 commands, timeouts on or off, focus lost or not, deaths anywhere. *Library*: two loads on machines that lack something | commands never overlap, each thread's calls are applied in order with none missing, an answer is taken by the call it belongs to, every call returns, with or without its answer; the final Ack means done, neither process outlives the other where the code promises it, start and stop end; an unloaded library leaves nothing behind | 109,288 |
| `screen` | *Present*: semaphore of 2, 1 retry, 5 frames. *Display*: two chains, three sizes, two rates; a clock of 16 ticks. *Interfaces*: every class of object. *Windows*: two windows; a full-screen device, a windowed one, one with `NOWINDOWCHANGES`; the user | the client's lead is bounded, every Present returns; the monitor's mode follows the chains; the cap keeps its cadence; COM's rules at both ends; the game's window procedure survives every creation, failure, reset and release; activations and resizes do not answer each other for ever | 231,269 |
| `resources` | *State*: two threads, two slots, one block, batch of 2. *Heap*: at most 6 chunks, two resources. *Objects*: three threads, a device and a texture. *Images*: three shapes of surfaces | shadow, device and both halves of every block agree outside the known gaps, and the server never uses a block it does not have; allocations are disjoint, the server copies what was written, counts and lives are exact in a careful game, every byte ends in its place | 918,170 |
| `client` | *Calls*: every method but three against every handler, three settings of the responses, failing creations. *Input*: two keys and ALT, two devices, two workers. *Copies*: every structure, setter, shader and option | the server pulls exactly what was sent, every handle it looks up is there, every wait is answered with what it takes, an ended object is in no table; a device the game holds exclusively is forwarded to the UI, but for `relevelled` and `refused`; both processes end with the retries of the last focus change; of the keys that are unstuck none is left down, hooks set before the bridge's hear nothing, cursor and raw input tell nothing new; structures of the Remix API arrive as given, in a buffer of the computed size, and are freed; a getter answers what the last setter of the same element stored, until `strayed`; a shader is copied to its end, unless `astray`; both processes take the same values from the file, or a malformed number ends them | 1,203,540 |

Each of the remaining runs shows one place where the code does not do what a comment
or a document of the repository says. Its property is that statement; where the
property of a passing run stops short of the case, the comment there says so. Further
statements that the code does not keep, but that no run shows, are told in section 7.

| Run | The statement | What happens |
|---|---|---|
| `ring_lap` | `util_bridgecommand.cpp:110`: the flag is set when the server has a lap to complete | a push that ends exactly at the end of the ring leaves it clear |
| `bridge_two_askers` | `util_bridgecommand.h:370`: misordered responses are handled | with timeouts disabled one of two waiting threads abandons its answer at once |
| `present_lead` | `global_options.h:393`: the client may be *presentSemaphoreMaxFrames* ahead | the first Present waits already, whatever the maximum |
| `calls_sync` | `server/main.cpp:3244`: client and server are in sync after each command | `AddDirtyBox` of a volume texture sends the box only, the server pulls a level first |
| `calls_answered` | `global_options.h:323`: with `sendAllServerResponses` calls wait for responses | `GetDepthStencilSurface` with none bound waits for a call it has not sent |
| `unlock_order` | `lockable_buffer.h:178`: the most recent lock is undone | the oldest is |
| `image_rows` | the assertion of `d3d9_surfacebuffer_helper.h:55` | a surface with rows of fewer than 8 bytes is answered with another size |

**Bounds.** *Queue*: the ring (3072 headers in the code) has 4 slots, enough for every
cyclic order of the five indices and for batches below, at and above the capacity; the
proofs remove this bound. *Ring*: pushes are 1 and 2 words, so the lap ends at every
offset, also exactly at the end of the ring, and the client catches up with the server
within two commands; in the narrow ring the overwrite test stalls, in the wide one the
command queue's limit keeps the client from ever catching up. *Bridge*: a batch fills, is
flushed by the other thread, and a queue fills at the same time; two threads are both
parties of every race, and two calls each let a setter of one thread be flushed by the
other's question. *Lifecycle*: one command more than a pending answer needs;
machines that lack one export, refuse one function or have one foreign detour, and
seven command lines, one for every branch of the launcher. *Present*: frames exceed the
semaphore's maximum by more than one lap; *Period* 3 with *SpinTicks* and *SleepCap* 1
gives frames that are early, just in time and late by less and more than a period;
faces and levels asked for lie inside and outside the texture; *MaxSent* is 3 because
a texture's end follows the links of its two levels. *State*: one slot has a batched
setter with two lock scopes that `Reset` covers and the other an unbatched one that it
does not, the richest pair of traits. The same properties were checked over 13 further
pairs that cover all 23 setters, over three slots (2,380,312 states) and over two
blocks (1,661,240 states). Exploration stops where every slot is tainted: taint only
grows and the properties say nothing from there on. *Calls*: *Depth* 1 is enough since
the queue is in order and the server reads no state of the client; a method is called
on one object, or on two where a call needs two (*Together*). Three calls are left out
(*Excluded*), each of which breaks the protocol by itself; `calls_sync` and
`calls_answered` show two of them and section 7 describes the third, `GetData` without a
buffer. *Heap*:
segments of 2 chunks and more and resources of 1 and 3 make a strip reach over two
segments, a search fail, free, and grow; two locks nest. *Objects*: counts of 3 bits, three
threads, so that two race and the main thread resets. *Images*: rows of at least 8
bytes (narrower ones are the finding `image_rows`), two blobs in flight, two heap
buffers, three writes. *Windows*: two windows and a device of
each kind so that each can lose what another gained; the user acts once. *Input*: a key
that is unstuck, ALT and another, and a window's queue of two messages, enough for a
press and a release on either side of the UI's opening. *Copies*: arguments on both sides
of every gap of Direct3D's numbering and of every end of an array, ranges that wrap;
skins of one and of two vertices and bones; paths of 0, 1 and 3 characters; files of one
to three lines; shaders of models 1.1, 1.4, 2 and 3, of two instructions with operands
of 0, 1 and 3 words, all opcodes of model 1, and words that look like END.

No symmetry is used. Deadlock is checked except in `processes`, `screen` and the
violation runs `bridge_two_askers` and `present_lead`: there the system may stop, after
the bound on calls, commands or frames, or when a process has exited. A data ring may
stop too (its client exits), so `MCChannels` lets it stutter.

**Fairness.** A thread inside a function keeps running (weak fairness of its steps): no
step of the modelled functions waits for anything but what its guard says. Strong
fairness is assumed in one place, of the consumer's next `pull` in `CommandQueue`, since
`peek` calls may come in between and the server's loop goes on pulling. In `Bridge`
weak fairness is enough although the writer lock is a spin lock without a queue: calls
are bounded, so nobody can keep a spinning thread off the lock for ever. There a peek
that times out while the bridge runs is not among the fair steps, so `CallsReturn`
shows that calls return without the help of a timeout. For `Settles` the window's thread
dispatches what it has been posted (weak fairness), as a game that answers its window
does. Nothing is assumed of the game otherwise (it need not call, present or exit),
nobody has to die, and in `DataRing` nothing is assumed of the server: `SyncReturns`
holds by the client's retries, and says so of waits that have a last one. A wait without
(`waitForever`, `infiniteRetries`) may go on for ever and is not claimed to end. The MC
modules state each component's fairness for the behaviours that are about it.

## 4. Proofs

The theorems hold for every value of the constants that satisfies the named
assumptions (`QueueAssumption` and the like: sizes are positive naturals, the
invalid header is no value, no thread is the absent one, only what is looked up by
name can be missing). Assumptions beyond these are stated in the theorem and named
below. Every inductive invariant was first checked by TLC as an invariant of the
run that checks the property.

| Theorem | Property | Run |
|---|---|---|
| `CommandQueueProofs`: `TypeCorrect`, `CopiesAreConservative`, `PullReturnsHead`, `NoOverwrite`, `Refinement` | `PulledIsHead`, `UnreadNeverOverwritten`, `ImplementsFifo` | `channels` |
| `DataRingProofs`: `OffsetsAgree`, `WideNeverOverwrites` | `PositionsAgree`, `NoUnreadOverwritten` | `channels` |
| `BridgeProofs`: `CommandsNeverOverlap`, `CallsInOrder`, `AnswersOwn` | `NoCommandOverlaps`, `ThreadOrder`, `OwnAnswer` | `processes` |
| `LifecycleProofs`: `CleanSessions`, `LibraryLeavesNothing` | `CleanMeansDone`, `NothingLeftBehind` | `processes` |
| `PresentSyncProofs`: `PermitsConserved`, `LeadBounded`, `CadenceIsKept`, `ModeIsRestored`, `ReferencesAndLevels` | `FrameLead`, `CadenceKept`, `ModeFollows`, `ComRules` | `screen` |
| `DeviceStateProofs`: `ShadowCoherent`, `BlocksCoherent` | `Coherent`, `BlocksAgree` | `resources` |
| `LockableProofs`: `AllocationsDisjoint`, `UnlocksAreCopied`, `ImagesAreCopied`, `AnswersFit` | `Disjoint`, `ServerCopies`, `ImageCopied` | `resources` |
| `WindowProcProofs`: `WindowProcedureKept`, `UIHearsDevices`, `FocusIsAgreed`, `InputIsWithheld`, `GettersAnswer`, `ShadersCopiedWhole` | `GameProcKept`, `UIHears`, `FocusAgrees`, `InputWithheld`, `GetReturnsSet`, `ShaderCopiedWhole` | `screen`, `client` |

- **The command queue.** None of the properties is inductive: a stale copy is
  safe only because of the order in which the indices lie on the ring. `IInv` says
  that going round from the producer's copy of the consumer's index one meets
  `m_write`, `m_cachedProducer`, `m_read`, `m_localWrite` in this order (as two
  equations and one inequality between distances), that `m_pending` counts the
  entries between the last two, and that whoever is about to touch a slot has
  established that it may. Each action moves one index forward by at most the
  distance to the next. The refinement uses lemmas on the sequence of entries
  between two indices: extending it at the end, splitting it, and dropping its head.
- **The data ring** (`OffsetsAgree`). Client and server never compare positions; each
  computes its own from the sizes it sees. `OffsetInv` says that the words announced
  by each header in the queue lead from where the header before it ends to the offset
  the header carries, and those of the command being built to the client's position.
  A walk over the sizes is written as a witness function (`Leads`), not by recursion;
  lemmas extend it at its end, drop its first step and split it at a header.
- **The wide data ring** (`WideNeverOverwrites`). In a ring that takes every word the
  command queue lets through (`Wide`), nothing is overwritten and `syncDataQueue` never
  waits. Words are counted from `Done`, the position the server last published:
  `Advances` bounds how far any words lead, over the end once at most and leaving a
  blob's words unused there, and a command leads on by `MaxPushes` longest pushes at
  most (`PulledInv` and `CountInv`; along the queue by induction, `OffsetsChain`).
  `AllLegs` is the heart: from `Done` through any command under way to the client, and
  the push it makes, all fits on the ring at once. Hence the words of a push are none
  of an earlier command (`OwnedInv`: where a command's data may lie); a push that ends
  at or behind the live position goes straight on from it, and so does everything before it
  (`BehindStraight`), so that the second look never asks to wait (`LiveFree`), however
  wrong the first look at the old copy was; and `serverResetPosRequired` is only set
  while a roll-over is under way (`LapInv`), never when the next one is asked for
  (`LapFree`). In a narrower ring the client does wait, and a wait that runs out
  overwrites: nothing is proved of it but the positions. The only assumption on the
  constants beyond their types is that there is a blob to push.
- **The bridge.** For any number of threads, `LockInv`: only the owner is at a place
  where the lock is needed, and a command is in progress only while its thread is at
  a place inside it. For the order (`CallsInOrder`), `OrderInv` splits each thread's
  calls: those applied, then those of each header in the queue one after another, then
  those in the batch, then the call under way (`Split`, again with a witness
  function), and `BatchInv` says who may leave setters in the batch. For the answers
  (`AnswersOwn`), `UIDInv`: the headers between the two counts are exactly the queue,
  and two threads wait for the same number only if it has not been given to a header;
  `PayloadInv`: header, response and payload of a number belong to the thread that
  waits for it, with a lag of one between responses and payloads while a payload has
  been read and its response not yet dropped; `FrontInv`: who takes has found its own
  in front. That every wait ends with its
  answer cannot be proved, since it is not so: see `bridge_two_askers`.
- **Lifecycle** (`CleanSessions`). `CountInv`: the commands on their way are those the
  server has not counted, in the order of their numbers. `ShutdownInv`, where waits do
  not time out: `StageInv` bounds how far the server can be for each place of the
  client and what can be in the queues, `OffInv` ties `gbBridgeRunning` and the
  callback to the server's end, `AckInv` keeps the final Ack from overtaking a command.
- **Loading** (`LibraryLeavesNothing`). Functions are detoured in three groups, each by
  transactions that succeed or fail as a whole. `LoadingInv` says of each group that it
  is detoured altogether or free altogether, and in which places of the loader it must
  be free; a failed transaction that takes functions back has therefore found a group
  that was never detoured. Whether a window procedure stays is tied to why the window
  functions' group could not be attached. The theorem excludes two cases: input
  functions on a machine where a version of DirectInput is missing, whose detours may
  stay, and the window procedure where the window functions cannot be patched. Lemmas
  on short sequences show that taking
  the client out of a route restores what putting it in had changed, also behind
  another tool's detour.
- **Present, display and frame cap.** `IInv` adds that every Present ended with a
  permit or gave up but the one that waits, and that the server presents only what was
  sent. `DueInv` (`CadenceIsKept`): the next frame is due more than a period for each
  frame after the start, and a whole period after a late one. `OwnerInv`
  (`ModeIsRestored`): at most one chain is full screen, and it is the one whose
  destructor restores the mode.
- **Objects and levels** (`ReferencesAndLevels`). `Balance`: the references the game was
  given are a set of pairs (`Given`), so one more and one less are one element more and
  less, and the counts are its cardinality; the device's count has one reference more
  while the object lives. `Agree` is the protocol about levels, stated for any commands
  under way, server and client: each command finds the handle it uses or takes back,
  now or by a command before it; no handle is linked twice; after Destroy only Unlinks
  follow, and until then the server's object has a reference for each level, which is
  why `safeDestroy` must release more than once; and what table and commands promise
  are the levels the client has. There is one lemma for each kind of change: a use, a
  new level, the object's end, a step of the server. That a handle stands for one level
  at the client rests on the indices of `getCubeSurfaceIndex` being one to one.
- **Device state** (`ShadowCoherent`, `BlocksCoherent`). For any number of threads,
  slots, values and blocks. `Shape` and `BlockUse`: what a call under way carries, and
  which blocks it may be about. `InStep`: the two sides record the same block while
  some slot has met none of the gaps. For each slot that has met none, `SlotInv`: no two calls
  under way touch it (`Alone`); each call's step still to come is about the value the
  shadow has (`CallInv`); the server's device has the shadow's value or something is
  owed to it, in the batch or by a call (`DeviceInv`); what both sides have recorded
  and what both hold in each block agrees (`RecordInv`, `BlockInv`).
- **The shared heap** (`AllocationsDisjoint`). Disjointness is not inductive: the
  search looks only at the strip between two neighbours of an ordered map. `HeapInv`
  has four parts. `SegmentsInv`: segments lie inside the heap. `AllocationsInv`: each
  allocation lies in a segment, and of two the one that begins first ends before the
  other begins. `CacheInv`: the ids in use are below the next one and map onto the
  allocations one to one. `CallInv`: a lock that is about to take the beginning of a
  new segment has every allocation below it, since nothing but the client's own lock
  allocates. The server only marks; the client's cleaning removes allocations and
  never adds one.
- **Locks of resources** (`UnlocksAreCopied`). `LockInv` adds to `HeapInv` what makes
  ids safe to send ahead of the server: `SentInv` says that each Unlock or Dealloc on
  its way is about an allocation that is live, that the server knows by the time it
  gets there and that no earlier command gives back, and that the bytes an Unlock is
  going to copy are still the ones written; `HeldInv`, that whatever a resource has,
  has locked or is going to discard belongs to it alone; `InfoInv`, that a lock
  discards what no later lock is about; `MapInv`, that the server's segments are a
  beginning of the client's and the announcements on their way are the rest;
  `AllocInv`, that the allocations on their way are as the client made them.
- **Bytes of surfaces** (`ImagesAreCopied`, `AnswersFit`). Bytes lie at products of rows
  and pitches, of which every picture has its own, so the arithmetic comes first, for
  abstract rows: a row no longer than the pitch does not reach into the next, hence a
  place is in one row at one column (`RowUnique`), and copying rows gives each cell of
  the rows its source and leaves every other (`CellCopied`). For rectangles that begin
  at a block, `RectFacts` shows that the blocks of the rectangle are those between its
  ends, rounded up, and that client and server compute the same rows; from there on the
  proof speaks of cells only. `ImageInv`: the game holds one lock at a time, and the
  answer to a captured lock puts a lock of the whole surface in its place
  (`LockedInv`); the command the client waits for is the last one under way, and when its
  answer has come nothing is under way (`AskedInv`); the client's buffer shows what is
  meant while it is locked or the surface is not captured (`ShadowInv`); and of every
  cell the game is not about to write, the last command under way that reaches it shows
  what is meant, or the server's surface does when none reaches it (`FlightInv`). Two
  hypotheses. `ShapesAssumption`, evaluated by the runs: rectangles lie inside of the
  surface and begin at a block, as Direct3D asks of compressed formats. `WideRows`: every
  locked rectangle has rows of at least eight bytes; narrower rows are rounded up to 4
  bytes by the client and to 8 by the server, on which the assertion of
  `copyServerSurfaceRawData` fails in the run `image_rows` (section 7).
- **Windows.** For any windows, procedures and devices, `HookInv` relates the procedure
  the system has for each window, the one the client keeps aside and the one the game
  last set (`Kept`), and says that a client whose detours are not attached has no
  living window hooked. `unset` and `set` each have a lemma; a further one covers
  every step that only gives the hook a new value.
- **Input.** `UIHearsDevices`, for options that forward a device's input to an active
  UI, from `BeliefInv`: while the UI is active the hooks believe exclusive every device
  that is, unless the game set its level under the UI or DirectInput refused one.
  `FocusIsAgreed`: the client learns of the worker only after it has its handlers
  (`HandlersInv`) and messages are posted only to a worker (`PostedInv`), so a focus
  change is either delivered or sent again. `InputIsWithheld`, for any length of the
  window's queue, about CONTROL, SHIFT and INSERT: `PressInv`, a press on its way is of
  a key that is down or let go behind it; `HeldInv`, the game has one of the three down
  only while no UI is active and the key is down or its release is on its way;
  `ChainInv`, the bridge's windows hook hears before those the game had set; `ToldInv`,
  cursor and raw input were last told as the hooks keep them.
- **What getters answer** (`GettersAnswer`). `ShadowInv` says of every element of the
  shadow's arrays that was written that it shows what was last stored under the one
  argument, or register, that has it, until `strayed`. Two lemmas carry it: accepted
  arguments that Direct3D has (`Within`) stay inside their arrays, and no two of them
  share an element. Nothing else is assumed of the arguments: the setters that check
  none take them all, and `strayed` tells that one was not `Within`.
- **Shaders** (`ShadersCopiedWhole`). A shader is a sequence of instructions put one
  behind the other, so this is an induction: over the number of instructions, on a set
  of numbers (`NatSetInduction`, from the well-foundedness of the order of Nat), with
  the existence of the recursive function behind `FlattenSeq` shown first
  (`FlattenedExists`). `Walkable` says of a sequence of tokens that it has a set of
  places, none of them an END, each of which is followed by another or by the
  sequence's end; every instruction on which the walk does not go astray is walkable,
  and so are two walkable sequences one behind the other. Of an instruction the table
  is a word short of, the walk stands on the last word for a step, which is as good as
  an instruction of its own when it looks like a nop.

**Only model-checked.**
- Liveness (`PushReturns`, `SyncReturns`, `CallsReturn`, `ProcessesFollow`,
  `StartAndStopEnd`, `PresentReturns`, `Settles`): fairness and ENABLED are beyond the
  prover used.
- That the claims of the second table of section 3 fail: a counterexample needs no proof.
- Recursively computed data (`RoundTrip`, `ProcessesAgree`) and the
  comparison of one method with one handler (`InSync`,
  `HandlesResolve`, `Answered`, `TablesAgree`): the first are folds over lists of bytes
  or lines with the functions of the TLC module (`:>`, `@@`), of which the provers know
  nothing; the second are finite tables that TLC covers completely.
- `LifetimesExact` counts references as sums over the game's pointers and threads; see
  the plan.

## 5. Mutants

For every property of a passing run `PROJECT.json` names a mutated definition, kept
in the module beside the original, under which TLC finds the property violated: a
full test left out, a copy taken before it is refreshed, a flush forgotten, a permit
released twice, a lock not taken, a word not pulled, an entry not erased, a count
given back once too often, a procedure not restored, a row of the wrong length, a late
frame paid back, a member missing in one of three lists.

## 6. Plan

Theorems left, each with an invariant TLC can check first:

1. `Objects`: `LifetimesExact`; its invariant must say for each thread what the steps
   still to do owe to each count, which is a sum over sequences. `NoUseAfterFree` alone
   follows from less.
2. `Options`: the precedence of the sources of one option, apart from the parser.

Models that could still grow: bytes of volumes (`Images`), several threads in `Calls`
through the module and the device channel at the same time, and the optimised lock of
dynamic buffers on top of `DataRing`.

## 7. What the runs and the modelling brought to light

The runs of the second table of section 3 are the findings; `PROJECT.json` quotes the
statement each of them refutes. What else the modelling met, and how a finding shaped a
guard, a history variable, an excluded call or a bound, is told here without a run:
the history variables `tainted`, `strayed`, `astray`, `relevelled` and `refused` and the
list *Excluded* name the cases, and the properties are claimed outside of them.

*Rings and commands.*
- A push that ends exactly at the end of the data ring is not treated as a roll-over
  (`util_bridgecommand.cpp:98`, the comment at line 110 notwithstanding): `ring_lap`. A
  permit of `dataSemaphore` then no longer means that the server has caught up.
- The request for the position before 0 is -1, the value for *no request*
  (`util_bridgecommand.cpp:76`): the client goes on when its retries run out.
- The cached server position is not conservative, as the comment at
  `util_bridgecommand.cpp:60` has it: it starts at -1, is compared as an unsigned number
  (`:68`), and may be from before the server's last lap. Only the capacity of the
  command queue protects the data then, which the wide ring of `channels` shows.
- The wait at `util_bridgecommand.cpp:88`, "for the server to get there" (`:84`), has no
  last retry with `infiniteRetries` and may go on although the server is through: the
  server looks for a request at the end of a command only (`server/main.cpp:3251`), and
  asks for a position beyond the requested one (`:3257`).
- With timeouts disabled, the default, two threads that wait at the same time use up
  their attempts at once on each other's answer (`util_bridgecommand.cpp:225`), which
  `bridge_two_askers` shows; the abandoned answer stays at the head. In `processes` two
  threads ask too: it claims that every call returns and takes no other's answer, not
  that each gets its own.
- A command whose bridge is off when it ends never sends its header
  (`util_bridgecommand.cpp:371`) though its data is in the ring; nothing reads it then.

*Processes.*
- With timeouts disabled, or with the window out of focus, the wait for the final Ack of
  a dead server never looks at `gbBridgeRunning` (`d3d9_lss.cpp:448`): by default the
  client stays there, though `d3d9_lss.cpp:148` says that the exit of the server
  disables the bridge. `ProcessesFollow` claims only that the client exits or is in
  that wait.
- A client that dies before the server has loaded d3d9 leaves the server behind
  (`server/main.cpp:3417`), and the server's waits never end by themselves
  (`global_options.h:160`, against `src/bridge.conf:314`). `ProcessesFollow` says so in
  its premise. A server that cannot register its exit callback runs on unwatched.
- With timeouts, the late Ack of a handshake that was given up is taken for the final
  one (`d3d9_lss.cpp:448`).
- `OnServerExited` may exit the process from the callback's thread
  (`util_process.cpp:108`), whose exit path waits for that callback.

*Loading.* `DInputHookDetach` with a function that was never attached fails its whole
transaction, so all input detours stay; an attach transaction fails as a whole and its
result is ignored; a `terminate()` that cannot detach keeps `RemixWndProc` on the
window; `DllMain` is unguarded against a `Direct3DCreate9` of another thread;
`InitRemixFolder` loops for ever if `GetModuleFileName` fails. The launcher drops empty
arguments, matches `-w` and `-i` by prefix, and reads `argv[argc]` after a final `-w`.

*Present and display.* A Present waits as soon as one frame is under way, whatever
`presentSemaphoreMaxFrames` says (`src/bridge.conf:222`), since the semaphore starts at
0; a wait that succeeds at its last retry is reported as a timeout
(`d3d9_device.cpp:467`). `SetMonitorDisplayMode` returns `E_FAIL`, which is true, when the
monitor cannot be read; `reset()` to a window never restores the mode itself; a chain
with `NOWINDOWCHANGES` restores the registry's mode all the same; an additional
full-screen chain's destructor would restore the mode under the implicit one. An
overslept frame is made up for by the next one, a frame found late is not.

*Shadow state.* Gaps between shadow and device, each of which taints in `DeviceState`:
setters that store and send in two lock scopes, when two threads race;
`BeginStateBlock` turning recording on before its message is sent (with an
`EndStateBlock` of another thread in between the server records for ever); `Capture`
and `Apply` outside the lock; `MultiplyTransform`, which is never sent; `ResetState`,
which leaves transforms, viewport, scissor rectangle, lights, material, clip planes and
constants though the comment at `d3d9_device.cpp:423` speaks of all device state; blocks
created with flags that miss shaders, lights and the first sampler state
(`d3d9_device.cpp:1633`); constants, material and clip planes that are never
initialised; a vertex declaration set while a block is recorded, which is stored though
the device only records it, so that the same call is elided later
(`d3d9_device.cpp:2506`). `Shadow`: some getters do not check what the others check (the
state of `GetTransform`, the pointers of `GetStreamSource` and of the integer and Boolean
pixel constants); `SetFVF` and `SetVertexDeclaration` do not update each other; start
plus count wraps in 32 bits; `batchConst` drops records of 4096 registers and more
(`d3d9_device.h:86`).

*Calls.* Left out of `client` because each breaks the protocol by itself:
`GetDepthStencilSurface` with none bound waits without sending when all calls are
answered (`calls_answered`); `AddDirtyBox` of a volume texture (`calls_sync`); `GetData`
of a query without a buffer but with a size leaves its payload in the ring
(`d3d9_query.cpp:120`). Further: `GetAdapterModeCountEx` pulls a block's pointer into a structure;
`GetRasterStatus` passes a null rotation and divides by zero for a refresh rate of 0;
`CreateAdditionalSwapChain` links its handle to chain 0 first, and a creation the client
is told has failed leaves entries at the server; an unanswered `CreateQuery` that failed
is dereferenced later; `Capture` has no null check. `PresentEx`, the GPU thread priority,
`CheckResourceResidency` and the frame latency fall to the default case though
`server/main.cpp:334` says every call is mapped; no client method sends them.

*Objects.* With a Release racing Reset the device is destroyed under the thread in Reset
(`d3d9_device.cpp:147`), though the comment at lines 75-77 says it is not destroyed
unintentionally; a careful game (*Careful*) does not do this, and `LifetimesExact` is
claimed of such games only; the 65536th reference carries into the
other count (`base.h:159`); `Unlock` takes the oldest of nested locks
(`lockable_buffer.h:179`). Textures with `AUTOGENMIPMAP` test locks against `Levels` while
`m_children` has one entry; two threads that ask for the same level race, and a level
found before its link is sent makes the server dereference null; `SetLOD` and
`SetAutoGenFilterType` store inside the lock and send outside it. Private data is copied
shallowly and freed.

*Heap and images.* Destroying a buffer whose discard is pending, a failed allocation for
a discard, and unlocking a read-only discard each leak an allocation; a first allocation
larger than the first segment always fails; a strip that reaches over two segments hides
the ones behind it; the search on an empty map reads before its beginning
(`util_sharedheap.cpp:292`); a server that cannot map a segment goes on one segment
behind; a lock without DISCARD writes memory the server may still copy. A lock of a drawn
surface without capture shows and uploads the stale shadow; with the heap and capture an
inner lock moves the buffer under the game's pointer. Volumes give pitches in pixels and
rows. Shaders: `def` of model 1 and `texcrd`/`texld` of `ps_1_4` have a length one short,
after which the walk may go astray: the history variable `astray` of `Shaders` tells
where.

*Windows and input.* The UI's level is restored only for devices that were owned before;
a device whose level DirectInput refuses to change (`di_hook.cpp:570`), or the game
changes under the UI, leaves the UI deaf, though `src/bridge.conf:65` promises it the
input as messages; a key forwarded
down and released with the UI closed stays down at the renderer; only CONTROL, SHIFT and
INSERT are unstuck, and the release of ALT, which must pass according to `window.cpp:279`,
passes only as `WM_KEYUP` and not as `WM_SYSKEYUP`; a windows hook the game sets after the
bridge's hears everything, the comment at `window.cpp:216` notwithstanding; games that
read raw input or set hooks get no unsticking; `GetCursorPos` under the UI is (0,0) for a game that never asked;
equal consecutive wheel deltas are dropped; pump hooks handle a message twice and can run
before the channel exists. A late handshake leaves the client with a dead worker's id, and
a focus message before the worker's handlers are there is lost. A failed second
`CreateDevice` leaves the first window unhooked; `reattach()` has no return statement.

*Remix API.* Members of the header that are never sent: `volumetricRadianceScale` of five
lights, five subsurface members, `pVolumetricRadianceScale` of USD lights. Skinning reads
vertices × count × bones where `remix_c.h:290` says bones × vertices, the same only for
skins of at most one vertex and one bone, or without any. `remixapi_CreateMesh`
loops over `pNext` without advancing; two extensions of one type refer to themselves; some
arrays are not freed or freed with the wrong form of delete; handles are 4 bytes.

*Options.* A malformed number throws and ends the process, though `config.h:84` promises
the fallback; 8- and 16-bit options wrap (`presentSemaphoreMaxFrames = 256` is 0); sizes of
4 GB differ between the processes; the first `WM_SETFOCUS` turns `infiniteRetries` off
though the file set it; an application's default has a key with a trailing blank and is
never found.

## 8. Not modelled

- The blocking variant of the queue (`util_blockingcircularqueue.h`): no build file
  selects it, and it assigns to a constant once it is instantiated.
- The vendored profiler (`src/src/tracy`), about half of all lines.
- Logging, version, file system helpers: no state of the protocol.
- The optimised lock of dynamic buffers (`lockable_buffer.h:155`), which hands the game a
  blob of the data ring; off by default.
- The bytes of volumes, whose rows are computed as those of surfaces.
- Private data of resources: its copies are undefined behaviour as they stand.
- In `DeviceState`: blocks of the types PIXELSTATE and VERTEXSTATE.
- In `Bridge`: waits made while the device lock is held.

Debug-only messages and assertions are left out everywhere except where a property
states them.

## 9. Running

`tlc -config MCChannels.cfg MCChannels` and likewise `MCProcesses`, `MCScreen`,
`MCResources` and `MCClient` for the passing runs. Of the violation runs `MCRingLap.cfg` is
of `MCChannels`, `MCPresentLead.cfg` of `MCScreen`, `MCUnlockOrder.cfg` and
`MCImageRows.cfg` of `MCResources`, `MCBridgeTwoAskers.cfg` of `Bridge`,
`MCCallsSync.cfg` and `MCCallsAnswered.cfg` of `Calls`. Proofs are checked with
`tlapm CommandQueueProofs.tla` and likewise for the
other proof modules. Each run takes at most three minutes on two cores, the proofs about
ten minutes together.
