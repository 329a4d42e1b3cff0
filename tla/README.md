# Verification of esp32-mylibs

TLA+ models of the core of esp32-mylibs, TLC configurations that check them on
small instances, and TLAPS proofs of what should hold for every size. This file
describes the system as the models see it, how each module corresponds to the
source, what every run and every theorem shows, and what is still to do. Paths
are relative to `src/`.

## The system

A library of C++ components for the ESP32: FreeRTOS tasks on two cores, the
FreeRTOS timer service task, the `esp_timer` task, the HTTP server's task and
the radio stacks' tasks all call into them.

| Part | State | Operations | Shared with | Hard because | Correct when |
|---|---|---|---|---|---|
| Event groups (`mySystem/eventGroup.hpp`, `waitable.hpp`) | 24 flags, the never-reset ones | set, clear, wait for one or all, with or without reset | whoever waits | an auto-resetting wait takes never-reset flags away and puts them back in a second call | a stop signal reaches everybody and stays off once taken back |
| **RingBuf** (`mySystem/ringbuf.hpp`) | two pointers, byte count, operations in progress, five flags and stop | `read`, `contigRead`, `peek`, `write`, `getWriteBuf`/`commitWrite`/`abortWrite`, `clear`, `setStopSignal` | producer, consumer, controllers | waits happen between critical sections, on flags that others reset | bytes in order, none lost or repeated; nobody sleeps through what he waits for |
| **NvsHandle** (`mySystem/nvsHandle.hpp`) | cache of pending items, timer, "is running", delay | read, write, write directly, erase, commit, change the delay, iterate, destroy | tasks, timer service, flash | the timer is driven by queued commands, strings go to the store outside the mutex, power fails | one map; what was committed survives; what is pending is flushed |
| **BlockingAsyncCtx** (`mySystem/asyncCall.hpp`) | slots, last slot, one event group | `asyncCallWait` | tasks, timer service | slots and their flags are used again, one flag has two meanings | nobody returns before his function was run, everybody returns |
| **LogBuffer** (`logbuf/`) | vector of lines, two indexes, byte count | `addLine`, `clear`, `iterate` | callers under its mutex | a vector that turns into a ring, two limits | the newest lines, in order, within the limits |
| **RingQueue** (`mySystem/ringQueue.hpp`) | N raw cells, two indexes | `emplaceBack`, `popFront`, `clear`, `iterate` | one owner | objects live and die in cells by hand | a bounded queue; no dead object is touched |
| **Task** (`mySystem/task.hpp`) | handle, function, stack in PSRAM | create, wait for the end | creator and the task | the task may end before its creator knows its handle; it frees the stack it runs on | nobody runs on a stack that was freed; the object outlives its task |
| **PingWatchdog** (`mySystem/watchdog.hpp`) | two timers, which of them is meant | start, stop, pong, callbacks | callers, timer task | a stopped timer's callback may still be waiting for the mutex | it goes on watching, and does not accuse who answered |
| **WeakReferenceable** (`mySystem/weakRef.hpp`) | reference count, pointer | copy, destroy | owners of handles, on any thread | object and handles die in any order | the shared data live as long as a handle, and are deleted once |
| **WifiClient** (`mySystem/wifi.*`) | retry counter, two flags | start, stop, wait; event handlers | application, event loop's task | events come late; retries are counted | waiters are told, and what they are told is recent |
| **BluetoothStack** (`mySystem/bluetooth.*`) | four layers, the mode, one discovery | start, shut down, discover, stop; callbacks | application, the library's task | a callback ends what another task is starting | up or down, nothing between; ends are reported, requests answered |
| **SPI and display** (`st7735/spi.*`, `st7735.*`) | FIFO, DMA chain, D/C pin | send, fill, blit, set a window | driver, hardware | a transfer goes on while the next is prepared | the display shows what was asked for |
| **NetLogger** (`httpLib/netLogger.*`) | two mutexes, connections | log, connect, close | every task, server's task | two locks, a list that the server's task changes | a line reaches every connection; nobody waits for ever |
| **HTTP server** (`httpLib/httpServer.*`) | sessions, websocket connections, queued work | start, stop, send, broadcast | tasks, server's task | a send that fails changes the list it is sent along | a broadcast reaches everybody |
| **OTA** (`httpLib/ota.*`) | partitions, their states, the one to boot; the request's progress | update over HTTP, confirm, roll back, restart later | server's task, application's task, boot loader | power fails between any two steps; an update meets a rollback or another update | there is always a firmware that boots, and one to go back to until the running one is confirmed |
| **HTTP client** (`httpLib/httpClient.hpp`) | connection, response buffer | get, post, receive | network | portions of any size, a buffer that grows, redirections | the whole response or an exception |
| **HTTP file service** (`httpLib/httpFile.*`) | files | upload, download, list, delete | network, flash | any of many steps may fail | what is answered is true |
| **NvsSimple** (`mySystem/nvsSimple.*`) | a handle of the store | open, set and delete parameters over HTTP | server's task | a request of several pairs fails in the middle | the store is what the pairs up to there say |
| **Parsers, conversion, buffers** (`utils-parse.*`, `tostring.hpp`, `buffer.hpp`, `sparseBuf.hpp`) | memory | pure functions | | boundaries; results are written over the input | what was formatted is parsed back; no byte behind the end |
| **Drawing** (`st7735/framebufMono.hpp`, `gfx.hpp`, `textRender.hpp`, `fontRender*.hpp`) | pixels | lines, rectangles, glyphs, text | | bytes of eight rows, edges, scale, UTF-8 | the set of pixels of the shape or text |

`PROJECT.json` lists every component with what is modelled of it, and the
hazards, each at its line with the properties that watch it.

## The modules

| Module | What it is |
|---|---|
| `EventGroup` | operators: the FreeRTOS primitive (external) and what `EventGroup`/`Waitable` add; used by the modules that own a group |
| `RingBuf` | the ring buffer |
| `ByteStream` | abstract: a bounded stream of bytes with atomic reads, writes and clear |
| `MCRingBuf` | `RingBuf` as an implementation of `ByteStream` |
| `RingBufProofs` | theorems about `RingBuf`: types, flags, commits, buffers that are out, wake-ups |
| `RingStreamProofs` | theorems about its data: order, what callers get, the implementation of `ByteStream` |
| `NvsHandle` | the write-behind cache, its timer and the timer service |
| `KeyValue` | abstract: a map, and for each key the values that a restart may find |
| `MCNvsHandle` | small sets of values; `NvsHandle` as an implementation of `KeyValue` |
| `NvsHandleProofs` | theorems about `NvsHandle`, and that it implements `KeyValue` |
| `LogBuffer` | the log |
| `RingQueue`, `BoundedQueue` | the queue, and what it promises |
| `Buffers` | operators: what each function of the growing buffer and of the buffer in chunks does |
| `BufferUse` | the two buffers in use: their functions called in any order |
| `ToString` | operators: conversion to text, into a buffer of a given size |
| `NumberText` | the conversions in use, and what a text in a buffer has to be |
| `MCContainers` | `RingQueue`, `LogBuffer`, `BufferUse` and `NumberText` on small instances, in one model |
| `NumberTextProofs` | lemmas about the conversions, up to what each step of `NumberText` keeps |
| `ContainersProofs` | theorems about the queue, the log, the buffers and the conversions |
| `AsyncCall`, `AsyncCallProofs` | `asyncCallWait`, and theorems about it |
| `TaskLife`, `Watchdog`, `WeakRef` | a task and its object, the ping watchdog, counted handles |
| `Wifi`, `Bluetooth` | the radios' clients and their events |
| `Spi` | the SPI master, the display's driver, and the display |
| `Drawing`, `MonoFrame` | operators: the monochrome frame; the frame in use, on which shapes are drawn in any order |
| `MCDevices` | `AsyncCall` and the seven parts after it, in one model |
| `DevicesProofs` | theorems about these, but for `AsyncCall` |
| `Ota` | firmware update, confirmation and rollback |
| `HttpServer`, `NetLogger` | web sockets and broadcasts; the network log |
| `HttpClient`, `HttpFile` | requests and their responses; the file service |
| `NvsSimple` | the small NVS handle and its HTTP handlers |
| `MCNetwork` | the five parts of `httpLib` and `NvsSimple` in one model |
| `NetworkProofs` | theorems about these six |
| `Parsers` | operators: parsing |
| `DeviceInfo` | operators: what is known of a Bluetooth device |
| `TextRender` | operators: text on the colour display |
| `MCAlgorithms` | the three modules before it against their definitions, over all small inputs |

Definitions keep the names of the source where they can. A definition that nothing
uses, just before the one it resembles (`SpaceOffByOne` before `Space`, `KeepCtx`
before `DropCtx`), is a variant with a plausible mistake. Each property is paired
in `PROJECT.json` with such a variant that breaks it, so that no property holds by
accident.

### Correspondence of RingBuf

A step is a critical section that touches no event, or one call of the event
group with the assignments just before it; every other interleaving of those
is explored. FreeRTOS calls are atomic because the kernel suspends the
scheduler. The mutex is released with the last event of a critical section:
whether the two coincide makes no difference to others, who can do nothing with
the mutex that the event does not already let them do. `pc` names the point in
the member function a task has reached: `try` (the check at the top of the
loop), `wait`, `woken`, `part`/`rest` (between the two copies of a wrapped
`read` or `write`), `hold` and `filled` (an in-place buffer is out),
`setEmpty`, `setOp`, `clearSet`, `clearCheck` (inside a critical section that
sets events one by one), `peekLock`, `peeked`.

Bytes are numbered in the order in which they are committed, modulo `Tags`; a
cell whose byte was consumed or never written holds `Dead`. Timeouts are of
three kinds: none, zero, and some, which may run out at any moment;
`contigRead` with less than a tick left polls. `LeastCommit = 0` lets a caller
commit nothing, which no run does (see `ContigReadGivesData`).

There is one reader and one writer, as the design of the pulse flags (`WriteOp`,
`ReadOp`) requires, and any number of tasks that call `clear()` and the stop
signal.

### Correspondence of NvsHandle

A member function holds the recursive mutex for its body. Where it does several
things that others can see one by one (commands to the timer service, the
flush, the commit), the action takes the mutex and leaves the rest in `todo`,
the script the holder works off. Reading a string and erasing, which go on
after the mutex is released, have control states of their own. Numbers are read
under the mutex in one step: that is `View`.

The timer service (`queue`, `active`, `exists`, `dpc`) is external and follows
FreeRTOS: commands in order, a change of period starts the timer, the
callback runs in the service's task. `QueueLen` is 2 where the default
configuration has 10: a full queue is then reached with few calls. There are
`QueueLen + 2` timer objects, the most that can exist at once; a
deleted one is used again. Flash gets what the store was told at `commit()` at
the latest, and at any earlier moment (`Persist`); `Restart` starts again from
flash. The store does not fail. Where the code erases a map entry and then uses
it (lines 159-160, 357-367), the program may end (`Restart`) or go on; when it
goes on, a string is written as intended, and a number is not.

`given`, `since` and `seen` record what was asked, for the properties.
`KeyValue` allows an erasure to show an older value first and to collide with
somebody else's write, as the code does; that apart the handle is one map, and
a restart finds for each key a value it had when the last `commit()` returned or
was given since.

### Correspondence of AsyncCall, LogBuffer, RingQueue and BufferUse

`AsyncCall`: `pc` is `alloc` (in `allocSlot`), `full` and `woken` (waiting for a
slot), `started` (the timer runs, not waiting yet), `waiting`. `OnTimer` is the
callback in the timer service; it may come before the wait begins.
`LogBuffer`: the caller holds the log's mutex, so a step is one turn of a loop or
one branch of `addLine`, and nothing interleaves; lines are numbered modulo
`Ids`. `Spin` is the loop that frees nothing because the list is empty.
`RingQueue` has no lock, and a step is a call.
`BufferUse`: a step is a call, too; `buf` and `sparse` are the two objects, a byte
is a number, and 0 ends a text. `text`, `ended` and `put` are what the callers asked
for. A caller of `appendPtr` writes to the place it got and asks again, so
`WritePiece` is one turn of its loop. `append` of the chunks is called where it is
right, at the start of a chunk with at most what two chunks hold
(`AppendIsInside`); and bytes are not appended behind an end, nor a second end
asked for, since both are kept as they are given.

### Correspondence of Ota

`req` is the call of the library that the request handler comes to next
(`begin`, `refused`, `recv`, `setBoot`, `respond`); while it is not `idle`,
`gOtaInProgress` is set. A call of the library is atomic, with one exception
that matters: a partition that is being erased or written holds `Broken`, no
bootable firmware. What a call may fail with is one outcome, since the handler
does the same about each. `app` is where the application's task is, in
`rollbackConfirmAppIsWorking` or in the button's check; `reboot` means that the
library or a failed `ESP_ERROR_CHECK` restarts the program, during which the
other tasks may still take steps, but no upload arrives in full.

The boot loader (`Selected`, `Loaded`, `Restart`) is external and follows
ESP-IDF with rollback enabled: a firmware that was started and not confirmed is
given up, one that cannot be loaded is passed over. `Restart` can come at any
moment. The server handles one request at a time.

### Correspondence of the modules in MCDevices

`TaskLife`: `owner` and `task[t]` are the points in `createTask`, the destructor
and `cleanupBeforeExit`. A task in PSRAM may run, and end, before its handle is
stored; after that the assertion at line 88 fails, or the handle of a task that
is gone stays and the destructor waits for ever: both are states of the model
(`aborted`, or `idle` with `mHandle` not 0). Stacks are numbered, since whether
two tasks share one is the question. That the idle task removes a deleted task
before the four seconds of the cleanup timer are over is the assumption that
`task.hpp` itself states.

`Watchdog`: `Fire` is the moment the timer task dispatches a callback, after
which stopping the timer does not help; the callback then waits for the mutex.
The user's callbacks may call any member (`Called`); what they do to `mState` is
overwritten. `answered` and `accused` record the last `pong()`, and a time-out
reported after it, by another task than the callback's own.

`WeakRef`: an atomic decrement is one step, and the `delete` after it another.

`Wifi`: the radio (`link`) posts events to the loop; `waiter` is a call of
`waitForConnect`, which a time-out may end at any moment. After `stop()` events
that wait are dropped, because nobody is registered.

`Bluetooth`: `up` counts the four layers of the library; `starting` is what
`doDiscoverDevices` has yet to start, during which callbacks run already.

`Spi`: the driver's calls are scripts of waits and register writes (`todo`);
the hardware takes a byte at any moment (`Shift`) from where the data are at
that moment, with the level that the D/C pin has at that moment. The portions of
`spiSend` all start at the start of the data, as in the code (`Portion`); of an image
larger than the FIFO `screen` has only the pixels of the first one, and the others
as `Unclaimed`. The display
is a window, a command and a memory of pixels (`Receive`). A colour is one byte
and a zero byte, since the second byte of a pixel adds nothing.

`MonoFrame`: a step is a call of the frame buffer or of `putc`, and `frame` the set
of the pixels that are lit; `Calls` says which calls there are. `before` and `call`
record the call made last and what it found, for the property. A glyph is the set
of its columns and rows, whatever the pages of the font. Coordinates are 16 bits
wide and the error of a sloped line is too, so that only lines of which twice the
length fits 16 bits are drawn (`Reach`).

### Correspondence of the modules in MCNetwork

`HttpServer`: the server's task runs one thing at a time: a request, a frame, or work
that was queued; a broadcast is a loop whose steps are the sends, during which other
tasks queue work and peers go away. `NetLogger`: the steps are acquisitions of the two
mutexes, the sends, and what the server's task does to the list. `HttpClient`: `pc` is
where the call is; the library delivers portions of any size, fails or times out at
any call. The bytes of the buffer are `resp`, a `DynBuffer` of module `Buffers`.
`HttpFile`: an upload and a download are loops of blocks, each of which may end with
an error, and a block that `fread` returns short may be the end of the file or a read
error, which the code does not tell apart; listing and deletion are single steps
because nothing runs between theirs; the order in which `readdir` gives the entries
does not matter, so `delDirectory` is a function of the results for all of them; the
file system fails for any set of paths (`stuck`, `shut`). `NvsSimple`: a step is a
call of the store, `query` the handler's call and how many pairs it has done; the
power fails between any two steps. The store is external: it gives back what it was
told, a key has one value, and a call fails only if there is no room. What no commit
has confirmed a restart may find or not, entry by entry (`Persist`). The requests of
the run are what `Parsers` makes of queries; those of the theorem are any lists of
texts.

### Correspondence of the modules in MCAlgorithms

One operator for each function, from arguments to result; a buffer that is
written in place is its contents before and after. The properties compare with
a definition that is written the other way round: what a formatter makes must
be parsed back; text is compared with a layout that places characters one by one.
`MCAlgorithms` chooses a call and its arguments in a first step, and each property
is about the call chosen.

### Correspondence of `ToString` and `NumberText`

An overload of `toString` is an operator, from the size of the buffer, the value and
the format to whether the text was written (the code returns its end, or null) and to
the characters that are in the buffer then. The loop that finds the digits is iterated
until nothing is left (`DigitTurns`). A floating point value is a number of halves of
its last decimal, which is all that its rounding tells apart; infinity has an operator
of its own. A format is a set of flags and a base or precision. Whole parts beyond
`size_t`, and values that are no number, are left out. The assertion at line 434 stops
the program, which starts again (`Abort`, `Reboot`). In `NumberText` a caller
converts any value into a buffer of any size, and what is in the buffer is compared
with what a buffer gets that is large enough, and with the value, read back digit by
digit.

## The runs

Passing runs:

| Run | Instance | Shows |
|---|---|---|
| `ring_fifo` | N = 3, sizes 1-2, 4 tags, every data call and `clear()` | assertions of the commits, stability of in-place buffers; `ByteStream` is implemented |
| `ring_safety` | N = 2, timeouts, stop, abort, clear | truth of the level flags, no lost wake-up |
| `ring_live` | N = 3, reads of 1-2, writes of 2, 2 tags, `peek()`, stop signal, no `clear()` | if both sides keep calling each call ends; a stop signal that stays on reaches everybody who waits and ends the call, also when nobody else calls; `peek()` gives the oldest bytes although it checks without the mutex |
| `nvs_data` | one key, two strings, two tasks, erasure, direct writes, restarts | reads are recent, writes stick, `KeyValue` is implemented |
| `nvs_live` | one key, one string, delays of 0, 1 and 2 periods, commits, iterators, destruction | what is pending has a timer that ticks or will, no timer is leaked; what is written is flushed |
| `containers` | `RingQueue`: 4 cells, 2 values. `LogBuffer`: 8 bytes, 5 lines of 1-4 bytes, without and with `clear()`. Buffers: texts of up to 4 of two bytes, in pieces of up to 3; chunks of 2, allocations of up to 5. Conversions: 7 integers in 4 bases, 60 numbers with 1 and 2 decimals, texts of up to 3, buffers of 0 to 12 bytes | `BoundedQueue` is implemented; newest lines, no holes, sum right, limit kept, `addLine` returns; buffers hold what was put into them; a number or a text is written if and only if it fits, and reads back (an assertion may stop the program where it does not fit) |
| `network` | OTA: 2 firmwares of up to 2 parts, power lost at any moment. Server: 2 sockets, 2 messages, 2 pieces of queued work. Logger: one task that logs and the server's, 2 sockets. Client: bodies of up to 9 bytes, a limit of 8, a first buffer of 3, one redirection. Files: three directories, two files, bodies of 0, 2 and 3 bytes, blocks of 2. Parameters: requests of up to 2 pairs, of nine kinds; a partition with room for one entry | something boots, something to go back to, a successful update is booted and every request ends; a broadcast reaches every connection that lives; a line reaches every connection and nobody waits for ever; a response is whole; what the file service answers is true, as far as reading did not fail; parameters are stored and saved as the request says, but for keys to delete that are misread |
| `devices` | `asyncCallWait`: 3 tasks, 2 slots. Wi-Fi: 3 retries. Bluetooth: 2 devices, 2 events on their way. Weak references: 2 handles. Tasks: 3, one after the other. Watchdog: the two timers. Display: 3 x 2 pixels, a FIFO of 4 bytes, DMA buffers of 3, 2 calls. Monochrome frame: 3 x 16 pixels, one call on the empty and on the full frame | slots exclusive, no early return, calls end; what waiters are told is recent and they are told; scans are reported and requests answered; data deleted once; stacks and objects live as long as they are used; the watchdog watches and accuses nobody who answered; the display shows what was drawn, of an image larger than the FIFO the first portion; shapes change exactly their pixels |
| `algorithms` | values of up to 2 characters, two pairs, devices with up to 3 properties; a screen of 5 x 6 pixels, a font of four characters | what is formatted is parsed back; text lies where a layout puts it, down to a line that breaks by itself |

`MCContainers`, `MCDevices` and `MCNetwork` each put independent modules into
one model: a variable chosen at the start says which of the subjects a
behaviour is about, so the state spaces add up and do not multiply. What is
not the subject stays in its initial state, in which nothing is obliged to
happen.

Runs that end in a counterexample, each against a sentence of the code (quoted
under "findings" in `PROJECT.json`):

| Run | The code does not do what it says |
|---|---|
| `ring_clear_assert` | the assertion that ends `doClear()` fails when a writer consumes `ReadOp` |
| `nvs_direct` | a direct write of a pending number is lost |
| `async_full` | no release of a slot wakes a task that waits for one |

### Disagreements without a run of their own

The modules also state what these sentences of the code promise. TLC refutes
each; to see it, check the property alone with the constants given here.

| Property | Source | The code does not do what it says | Constants |
|---|---|---|---|
| `RingBuf!StopReachesAll` | `ringbuf.hpp:110`, against "-1 if stop was signalled" (line 160) | `clear()` wipes all flags, also a stop signal nobody has seen yet: a `read()` that waits is not stopped | `RingLive.cfg` with `Spec`, `"clear"` among `Calls` |
| `RingBuf!StopStaysCleared` | `eventGroup.hpp:22-26`, against the same line | a wait sets the stop flag again in a second call after the kernel cleared it, possibly after `clearStopSignal()`: the next wait returns -1 although nobody signals stop | `RingLive.cfg` with `Spec` |
| `RingBuf!ContigReadGivesData` | `ringbuf.hpp:88`, against line 199, "blocks until data becomes available" | `commitWrite(0)` into an empty ring makes it look full, and `contigRead` hands out bytes nobody wrote | `RingFifo.cfg` with `LeastCommit = 0` |
| `RingBuf!ClearEnds` | `ringbuf.hpp:321`, against line 144, "wait for its completion" | `abortWrite()` ends an operation without an event: `clear()` sleeps on | `RingFifo.cfg` with `FairSpec` |
| `RingBuf!TimedCallsReturn` | `ringbuf.hpp:222`, against line 201, "0 for timeout" | with less than a tick left `contigRead` does not block, and each turn of its loop takes no whole millisecond off the timeout | `RingLive.cfg` with `Timeouts = {"timed"}` |
| `NvsHandle!IteratorSeesAll` | `nvsHandle.hpp:571`, against line 550, "disables commit delay and commits current pending items" | of two overlapping iterators, the end of the first restores the delay under the second (and the end of the second then switches it off for good) | `NvsLive.cfg` with `Spec`, `Calls = {"write", "iterate"}` |
| `NvsHandle!LengthIsActual` | `nvsHandle.hpp:113`, against line 84, "adjusted to the actual size" | size and data are asked for in two calls after the mutex was released: a string that was shortened in between comes with its old length | `NvsData.cfg` |
| `NvsHandle!NoCallbackOnFreed` | `nvsHandle.hpp:292-303`, against line 296, "stops the timer" | stop and delete are commands in a queue; a callback that already waits for the mutex runs on the destroyed handle | `NvsLive.cfg` with `Spec` |
| `LogBuffer!FullIsFull` | `logBuf.cpp:19-30`, against `logBuf.hpp:57`, "wrapped, list is full" | a line that pushes all others out leaves `mStart` and `mEnd` equal, with one line in a vector of several cells: `iterate()` shows freed cells | `MaxDataSize = 4`, `MaxLineCount = 3`, `Sizes = {1, 4}` |
| `LogBuffer!EmptyIsEmpty` | `logBuf.cpp:34`, against `logBuf.hpp:53`, "-1 if empty" | with room for one line, the second one leaves `mStart` at -1: `iterate()` shows nothing | `MaxDataSize = 4`, `MaxLineCount = 1`, `Sizes = {1, 2}` |

### What else reading the code for the models showed

Where the code does what is listed here, the models do the same, or leave the
case out and say so; the properties are stated so as to hold all the same.

Tasks and timers (`mySystem/`):

- `task.hpp:81-88`: a function that ends before `createTask` has stored the
  handle fails the assertion, or (PSRAM) leaves a stale handle, for which the
  destructor waits for ever.
- `watchdog.hpp`: what the user's callbacks do to the watchdog is undone by the
  assignments after them; a ping callback that was already waiting when the
  watchdog was stopped and started again pings early.
- `weakRef.hpp:34`: a handle that was default-constructed is destroyed through a
  null pointer; assigned handles share a count they did not increment.
- `timer.hpp`: `LambdaTimer` and `setTimeout` cannot be instantiated.
- `taskList.hpp`: the wrap-around of the counters is off by one, a period of 0
  divides by zero, and entries after the end are used when the list shrinks.
- `asyncCall.hpp`: the flag of the last slot is also `kEvtCallSlotFreed`: a task
  that waits for a slot resets it, and so takes the end of the call in that slot
  from its caller.

Radios (`mySystem/wifi.cpp`, `bluetooth.cpp`):

- `start()` of the Wi-Fi client returns an error code where callers expect a
  `bool`, so a failure is `true`; flags and retry counter are never reset; `stop()`
  wakes nobody; a second `start()` aborts, and `WifiAp` always does.
- The Bluetooth stack keeps its mode after a shutdown and answers "Already
  started"; the end of a BLE scan is not reported, since the branch for it is
  never reached, so that a discovery of BLE alone does not complete; a second
  discovery is impossible; a `stopDiscovery()` from a callback is overtaken by the
  BLE scan that starts after it; requests for a passkey are not answered; a device
  whose extended data hold a UUID is not searched for a name; BLE together with
  SSP does not compile.

HTTP (`httpLib/`, `mySystem/nvsSimple.cpp`):

- `ota.cpp:89`: a sender that closes the connection makes `httpd_req_recv` return
  0, which the loop does not take for an error: it never ends, and the server's
  task serves nobody else.
- `httpClient.hpp:183`: a failure to open with `ESP_FAIL` ends in an assertion; a
  response of exactly `kMaxMemResponseLen` bytes that comes in chunks is refused;
  an exception leaves the client open; the number of redirections is not limited.
- `httpServer.hpp`: `onEx` registers a pointer to an object on the stack;
  `AsyncBcastReqBase` has no virtual destructor; `wsSyncBroadcast` before `wsOn`
  uses a null pointer; the buffer of `sendEspError` is a byte short; work that
  cannot be queued is leaked; `wsSendAsync` does not compile.
- `netLogger.cpp:108`: the comment calls the list's mutex non-recursive, but
  `Mutex` is recursive; `mHttpServer` is never assigned, so that closing a session
  and its context do nothing; a library that logs a failed send enters the sink
  again.
- `httpFile.cpp`: an upload that failed leaves a partial file; a sender that
  closes makes an endless loop, as in `ota.cpp`; "OK" is sent before `fclose`; a
  listing asks for the size of the escaped name.
- `httpFile.cpp:165-183`: `fread` tells an error by a short count, never by a negative
  one; the code takes it for the end of the file, completes the response and logs
  "File sent successfully" for a file cut off.
- `nvsSimple.cpp:138`: line 137 says that a key to delete may have a `:type` suffix,
  and types are one letter (lines 155-169), but the colon is looked for one letter too
  early: `ab:s=` deletes nothing and is answered with "OK", and `a:bc=` deletes `a`; a
  type that is not known is answered with "OK" and not stored; `httpDumpToJson` skips
  the first entry and, at the end, returns the iterator's error without finishing the
  response.

Text and numbers (`utils-parse.cpp`, `tostring.hpp`, `utils.hpp`, `buffer.hpp`,
`sparseBuf.hpp`):

- `trimSpaces` turns a value of one character into null; white space before a key
  stays; the length of an unescaped value is that of the escaped text, and
  `urlGetFile` counts the terminator, against `utils-parse.hpp`, "length does not
  include the null terminator"; `jsonStringEscape` writes a zero after a character.
- `tostring.hpp:238` says that spaces are appended; they come before the digits, and
  for `fmtFp` there may be more of them than asked for. A float whose integer part
  takes all of the buffer fails the assertion at line 434, which stops the program
  (only with `NDEBUG` it is refused, like other numbers that do not fit).
- `utils.hpp:130`: `vtsnprintf` writes the terminator behind the end of a full
  buffer.
- `DynBuffer::appendStr` after a terminated text adds a second terminator, and
  `vprintf` uses its `va_list` twice; `SparseBuf::append` inside a chunk writes to
  the next chunk (line 62).

Drawing (`st7735/`):

- Monochrome: clearing a vertical line over several pages leaves its first and
  last byte; the arguments of `vLine` are not in the order that `Gfx::line` and
  `rect` use; `invertImage` does not compile; a corner off the frame is moved onto
  it and the rectangle not made smaller; `blitPage` with `ClearBackground` draws
  and then clears; `putc` compares `drawW & kPutcPartial`, which is 0.
- Text: with a horizontally scanned font and a scale above 1 the loop never ends;
  `putc` does not clip at the bottom; `blitMonoVscan` goes on by the width that was
  cut; in four-byte UTF-8 the third byte is taken twice for the fourth
  (`|| b3`); the character at which a line breaks by itself is lost, against
  `textRender.hpp:37`, "retry same char"; the width of a proportional text ignores
  the scale.
- `fillRect` with no area sends a negative length.
- `spi.cpp:159`: `spiSend` sets its source to the start of the data on every turn of the
  loop, so of data longer than the FIFO's 64 bytes each portion sends the first bytes
  again; an image sent with `sendData` shows them in all its parts.

### Exceptions to what the passing runs say

Where a passing run leaves a call out (`clear()` in `ring_live`, commits of no
bytes in all others), the reason is in these lists, or is one of these:

- `peek()` with `clear()`: the bytes may be gone between its check and its copy,
  so `GotInOrder` is checked for `peek()` without `clear()`.
- `CallsReturn` of `AsyncCall` excepts the last slot, for its flag's two meanings.
- `LogAddReturns`, and the parts of `LogKept` about holes and the sum, are for no
  `clear()` and for lines of at most half the limit (and, in the theorem, room for two
  cells): `clear()` leaves `mDataSize`, and the loop that makes room then empties the
  list and finds nothing more to remove.
- `UpdateServed` excepts a sender who closes the connection, as above; and an
  update that is followed by another request or a rollback within the second
  before the restart, since the second update erases the first.
- `CallsReturn` of `RingBuf` needs read and write sizes that add up to at most
  N + 1.
- `WaitEnds` excepts a `start()` that failed, and `stop()`; `CallbacksAnswer` is
  about classic scans, and about requests other than for a passkey.
- `BroadcastReachesAll` excepts connections that were found dead.
- `AnswersAreTrue` says of a download that was completed that it is the file if reading
  it did not fail, and otherwise a part of it from the start, of whatever length.
- `SetParamsApplied` claims nothing of an entry that a misread key may stand for: a key to
  delete that ends with a type, or has a colon two letters before that (`Misread`).
- `ToStringFits` claims of a conversion that the assertion stops only that the text would
  not have fitted (`Aborted`); it leaves open on which side of an integer the spaces are,
  and bounds their number only for integers (for floats, `tostring.hpp:463` says that
  spaces come before the number, and they do).
- `DisplayShowsCalls` claims of an image sent through the FIFO the first portion, and that
  the others change nothing but pixels of the image (`FirstPortion`).
- `InputsUnderstood` claims no length of a value with escapes (`SameValue`) nor of a URL's
  file (`UrlIsSplit`), of JSON only that it leaves a text alone that needs no escape
  (`JsonLeavesAlone`), and no name of a device that gives it next to a UUID
  (`NameIsMissed`).
- `TextLands` claims nothing below a line that breaks by itself, from which a character is
  missing (`Layout`).

### Bounds

Rings of two or three cells are enough for every relation of the pointers (equal and
empty, equal and full, in order, wrapped) and for requests that take one cell,
several, all, or wrap. Tag numbers are compared modulo `Tags`, which is larger than N
where order is checked. The log's `Ids` is larger than the number of lines. Two users
and two values give each conflict a pair; keys share only the timer, and each item's
ticks are counted apart, so one key is enough for the delays. Timer ticks are the
code's own constant, two. Two sockets let one die while the other is sent to. The
client's limit of 8 with a first buffer of 3 makes the buffer grow in steps (3, 4, 6,
8), and bodies of 7, 8 and 9 bytes lie around the limit. The display's FIFO and DMA
buffers are smaller than an image, so that images take several portions and buffers,
the last of them partly filled (through the FIFO it is the first portion that is
compared). Pieces of 3 bytes cross one or two ends of chunks of 2, and an allocation
of 5 leaves the last chunk partly used. A frame of 16 rows is two pages of the
monochrome frame buffer, and one call on it (`MaxDraws`) is enough, since what a call
does to a pixel depends on that pixel alone, and the empty and the full frame have it
in both colours. Three tasks on one object let a cleanup timer hold a stack while the
next task starts and ends. The queues of events (`MaxEvents`, `MaxWork`) and the
number of calls (`MaxCalls`) are bounds of the models, named in the modules; all other
counters are bounded by the code itself; no state constraint is used.

### Fairness

`RingBuf!Fairness`: a task inside a call is scheduled, and one that holds an
in-place buffer gives it back. `Traffic`, both sides keep calling, is a
hypothesis of `CallsReturn` and not of `StopEndsWaits`; the reader may look at
the data with `peek()` in between, but goes on taking some. `AsyncCall!Fairness`:
tasks inside a call go on, and the timer service runs a timer that was started.
`NvsHandle!Fairness` is strong for the timer service: its task has a high
priority and FreeRTOS hands a mutex to the task that waits for it, so it is not
passed over for ever; a periodic timer that ticks expires. Nobody is obliged to
begin a call. `MCSpec` of `MCContainers`: a call of `addLine` that was begun goes
on. `Ota!Fairness`: a task inside a function goes on, the timer that restarts
expires, and a restart that was begun comes; the power need never fail, nobody
has to confirm, and a sender may stall, send slowly or fail. `Wifi!Fairness`: the
event loop's task runs, and an attempt to join ends, well or not.
`Bluetooth!Fairness`: the library's task runs, and a classic scan, which is given
a duration, ends. `NetLogger!Fairness` is strong for the steps that take a mutex,
because FreeRTOS hands a mutex over in order of priority and waiting, and weak
for the steps of a task that has what it needs.

### Deadlock

TLC checks for deadlock except where the system may really stop: `NvsHandle`
destroyed, or its timer service and the holder of the mutex waiting for each other
(see `Flushed`, which excepts exactly that state); in `devices` a Task object or the
last handle destroyed, and a display and a frame for which all `MaxCalls` or
`MaxDraws` calls were made; in `network` a client's call that ended in a failed
assertion. The other parts of these two runs, checked alone, never stop.

## The proofs

`tlapm` checks eight modules; the theorems hold for every value of the
constants that the assumptions named in the modules allow.

**RingBuf** (`RingBufProofs`): `TypeOK`, `RingShape`, `FlagsTellTheTruth` and
`CommitsFit`, assuming `Usage`: one reader and one writer, distinct from the
controllers, who neither ask for nor commit nothing. None of the four is
inductive. The inductive invariant `IInv` adds: the mutex is held exactly in
the critical sections (`Owner`); a buffer that is out is on record
(`Recorded`), which keeps `clear()` away; what the level flags say at each
point inside a critical section, where they are updated one at a time
(`Levels`); and how each task's remaining size relates to the bytes or the
space there is (`Sizes`), which holds although the mutex is free between check
and commit, because only the other side may move, and only in the direction that
helps. `NextIInv` has a lemma for each action. The case `LeastCommit = 0`
is excluded because the invariant is false there (`ContigReadGivesData`).

`HeldBufferStable` is an action property and follows from `IInv`: while a buffer
is out, its owner's record keeps `clear()` away, and the other side's part of
the ring does not reach it. `NoLostWakeup` needs `WakeInv`: for a reader who is
about to sleep, or does, although there is enough for it, the pulse is set or
the writer is still in the step that sets it; the same for a writer, to whom
also `clear()` gives room. Between the check and the sleep the mutex is free, so
this is where a wake-up would be lost; the pulse is cleared only by the one who
is about to look. With a second reader it is false.

**The data of RingBuf** (`RingStreamProofs`): `InOrder`, `GotInOrder` and the
refinement of `ByteStream`, for any size and any `Tags`. `InOrder` is inductive
together with `FilledInOrder`, that a buffer filled and not committed holds the
next numbers, given `IInv` for where each copy goes; the rest is arithmetic of
remainders (`Quotient`, `CellIs` and the lemmas after them). `GotInOrder` adds
`HandedOut`, at which points of a call its caller has bytes. Its theorem has the
hypothesis `NoClash`, that the calls of a program do not include both `clear()`
and `peek()`: otherwise TLC refutes it, because `peek()` copies without the mutex
(see "Exceptions" above). In the refinement, the abstract stream is the last
`Length` numbers before `Number` (`StreamIs`); each step either leaves these two
alone or changes them as a write, a read or a clear does (`Moves`), so a commit
in two steps is one write, at the first of them.

**NvsHandle** (`NvsHandleProofs`): `TypeOK`, `TimerServes`, `ReadRecent`,
`WritesStick` and the refinement of `KeyValue`, for any keys, values, users,
delays and length of the timer queue, all member functions in use at once, with
restarts. The inductive invariant `IInv` has two halves that do not need each
other. About data: `Durable`, that for each key what the store was told, what a
restart finds, and what callers are told were all given since the last commit;
and `Fresh`, what a read in progress has found in its first step or may find in
the second. About the timer: the holder's script is one of fourteen (`Scripts`),
and what it still has to do says what holds of the cache (`ScriptOK`) and of the
timer (`HandleOK`); a timer that the handle believes to be running ticks, or has
in the queue a start or a change with nothing after it (`Armed`, `QueueOK`). That there
is always an unused timer to create is a count (`SpareTimer`): each timer is the
handle's or has its deletion in the queue, and there are more than the queue is
long. `WritesStick` adds `Said`, what callers were told last is in the cache, or in
the store unless an erasure is between its two steps. Its hypothesis, that no
number is written with `writeDirect`, is needed: the run `nvs_direct` is the
counterexample. In the refinement each step moves values from the cache to the
store and shows the same map, or gives one key a value, or erases it, or
commits, or restarts.

**AsyncCall** (`AsyncCallProofs`): `TypeOK`, `SlotsExclusive`,
`ReturnsAfterCall`, for any number of tasks and slots, also when there are too
few. The strengthening is `Waits`: a caller whose function has not been run has
its flag down and, if it is past its wait, is blocked on that flag alone.
`FirstFreeIsFree`, that the search finds a free slot when there is one, rests on
the well-foundedness of the naturals.

**RingQueue and LogBuffer** (`ContainersProofs`). For the queue: `TypeOK`,
`LivesWhereVisited`, and the refinement of `BoundedQueue` for a ring of any size:
each call maps to the call of the queue, by comparing the positions `At(k)`
before and after. For the log: `LogKept`, for all limits and sizes of lines.
`LogInv` holds with and without `clear()`, and `NewestWithinLimit` follows from
it: each line is followed, among the cells that are visited after it, by the line
added next (`Linked`), a cell that is not visited is free (`OutsideFree`), and the
sum of what is there is at most `dataSize`. That there are no holes, and that
`dataSize` is the sum, is `FullInv`; it needs the hypothesis `RoomForTwo`, room for
two cells and lines of at most half the limit, because with less the code empties
the log and leaves `mStart` and `mEnd` saying that it is full, or says that it is
empty when it is not (`FullIsFull`, `EmptyIsEmpty`). With it, a line that
does not fit never meets a log of one line (`NotEmptied`). Sums over the cells are
compared cell by cell: of the cells where two sums disagree there would be a first
one (`UpTo`, from the well-foundedness of the naturals).

**Buffers** (`ContainersProofs`): `BuffersHold`, for chunks of any size, texts, pieces
and allocations of any length, and calls in any order. For `DynBuffer` the
invariant is that the buffer has the text, or the text and its end, and that this
fits (`TextInv`, `Holds`); whether the last byte is an end is decided by looking at
it, which is right because a text has no 0 (`EndedIs`). For `SparseBuf` it
(`SparseInv`) gives every byte its place: the byte number (c - 1) k + j is cell j
of chunk c, and the memory counted is k for each chunk. Pieces written up to the end
of a chunk, over the bytes of an earlier use, keep that, and so does an append that
goes on in the next chunk. That what is hashed, the chunks one after the other, is
then what was put in is an induction over the chunks, as a least counterexample.

**Conversion to text** (`NumberTextProofs`, `ContainersProofs`): `ToStringFits`, for
every integer and base, every floating point value and precision, any padding and
buffers of any size, and but for what the assertion at line 434 stops
(`FitsNotAborted`). It needs no invariant besides itself, but what recursive functions
compute: the digits, their value and the powers of ten are each some step, iterated,
and such an iteration exists and is the only one (`IteratedExists`, `IteratedSame`,
`RecursionExists`). After k turns the digits found and the rest make up the value, the
digits times a power of the base in front of them (`Turned`, `InPowers`); the rest is
less with every turn, so that the loop stops (`DigitsAre`). Zeroes in front change no
value (`ValueOfZeroes`). That a float is the quotient and the remainder of the rounded
number by the power of ten, also where the rounding makes a whole, is `RoundIs`. What
is written then is the text if it fits, and what is written of one that does not fits
(`Writes`), which sign, whole part, dot and fraction hand on to each other
(`BehindWrites`).

**Ota** (`NetworkProofs`): `TypeOK`, `AlwaysBoots` and `FallbackKept`, for any
firmwares and uploads of any length. `AlwaysBoots` rests on `RunningWhole`: the
running firmware is never written to, so the boot loader at least finds that
one. `FallbackKept` is not inductive: a restart makes a firmware unconfirmed,
and the other one must be confirmed then. `Unconfirmed` says that no update is
under way and no switch by hand is decided on until the confirmation, and
`GivenUpToRestart` that after a rollback an update can begin but not end.

**Devices** (`DevicesProofs`): `StepOfEach` takes a step of the composition apart,
and each part has an invariant of its own. `DeletedOnce`, for any number of
handles: the count is the number of handles, and while a handle is being
destroyed it has a number of its own that only the last one finds to be 0
(`WeakInv`). `StackAndObjectHeld`, for any number of tasks one after the other:
only the task created last may use the object, and a stack belongs to one task,
which is gone when it is freed (`LastUsesObject`, `StackOfOne`).
`WatchdogSound`: who waits for an answer has had none (`DogInv`).
`ConnectedIsRecent`, for any number of retries: which events may still wait in
each state of the radio (`WifiInv`). `UpOrDown` is inductive as it is.
`DisplayShowsCalls`, for a display, a FIFO and DMA buffers of any size
(`SpiAssumption`: coordinates fit in two bytes, a FIFO holds whole words). The
invariant, `SpiInv`, looks ahead: what the running transaction will still send,
and then the steps in `todo`, take the hardware to a state in which the display
shows `screen`; and as long as the transaction may run the steps only wait
(`LeadsTo`, `Does`). A step of the driver or of the bus shortens that path
(`StepKeeps`, `ShiftKeeps`), and a call appends one that must draw what it asks
for (`CallKeeps`), so that what is left is, for each function of the driver, what
it does on hardware that is idle or busy: the window's four bytes are its
coordinates (`WindowBytes`), the bytes after it are the pixels of the area in
their order (`NthIsPixel`, `PortionSent`), the repetitions of `fillRect` and the
chain of DMA buffers are all the bytes, each once (`PiecesArePortions`, `FlattenIs`,
`ChainHolds`), and what `spiSend` sends after the first portion, which is the first one
again, is as long as what it should send (`ResentIs`), and so goes to the image's other
pixels, of which nothing is claimed. Without a wait the path
does not exist, since `Does` then has no step to make. The invariant quantifies
over paths and is for the prover alone; TLC checks the property itself.

**The monochrome frame** (`DevicesProofs`, too): `ShapesDrawn`, for a frame of any
width and any number of pages, and any calls that `LegalCalls` admits. It speaks of
the call made last and is inductive as it is; the work is in what each function
does. A rectangle is a first page, whole pages and a last one, and the masks of
the three, for every offset and height, select its rows, each once (`LowerPagesAre`,
`RectFrom`, `RectIs`). Columns and rows are the same with one byte or one bit
(`ColumnIs`, `RowIs`). The walk along a sloped line and the loop of `putc` are
recursive functions; that there is such a function, and only one, is
`Iterates`, from the well-foundedness of the naturals. Along the line the error is
what the exact line says, and between its two bounds (`WalkGoes`, `OnWalk`), from
which follows that no point is further than half a pixel off, that the line ends
where it should (`WalkIs`), and the same for the four directions and for steep
lines (`FlatIs`, `SteepIs`). In the loop of `putc`, the pages of the font and of the
frame are those of the last row that was copied (`InLoop`): either is advanced
exactly when its eight rows are over, so that each row is copied once and to its
place (`TurnGoes`, `LoopIs`).

**Network** (`NetworkProofs`, too): `BroadcastReachesAll`, for any sockets, messages
and amount of queued work: those the loop has come past have the message or are
gone (`WebInv`). What would break it is a connection taken out of the list while
the loop walks it, since the others move up; the list changes only while the
server's task is free, because a failed send queues the closing. `LineReachesAll`,
for any tasks and sockets: the sender holds the mutex of the list, so nobody else
changes it, and the line was sent to those it has come past (`LogInv`).
`ResponseIsWhole`, for responses of every length in portions of every size: what
has come is at the beginning of the buffer, which is all in use but for the place
of the final 0 (`ClientInv`). What the buffer is after `reserve`, `resize` and a
growth are lemmas about `Buffers` (`ReserveIs`, `ResizeIs`, `GrownIs`).
`AnswersAreTrue` of the file service, for every tree of paths: while a handler
runs, the disk has what was received, or the client what was read (`Uploading`,
`Downloading`; a block that came short is the last, and if it should have been longer
only a part was read), and nobody was told anything that could become wrong. The
recursion of `delDirectory` has a solution, which is what the property says it
should do (`Exactly`), and no other, because a tree has no directory that holds
itself: of the directories where two solutions differ, one would hold no other of
them (`DeletesExists`, `DeletesIs`). That `Exactly` is a solution (`EmptiedIs`)
needs that entries of a directory have nothing in common (`EntriesApart`), which
is proved from what `Below` means. `SetParamsApplied`, for all lists of
parameters, all texts and any size of the partition: the pairs done so far have
settled the entries they are about, each the last word on its own (`Settled`,
`OneMore`), and an entry that differs on the flash was touched since the last commit
(`OthersSaved`). That a pair does what its sender means, if its key
is not misread, is `ApplyIs`: the name that
the handler gets by cutting the key is the one of which the key is made, name, colon
and type (`AboutStored`, `TouchesIs`, from lemmas about texts and their prefixes).

`TypeOK`, `RingShape` and `LivesWhereVisited` are not among the properties of
the runs, because the theorems, and the refinements that the runs check, say
more; TLC still evaluates the assumptions on the constants.

What is only model-checked: everything with fairness (`CallsReturn`,
`StopEndsWaits`, `Flushed`, `LogAddReturns`, `UpdateServed`, `WaitEnds`,
`CallbacksAnswer`, `LogsReturn`), since liveness and `ENABLED` are out of the
prover's reach; and the properties in `algorithms` (`InputsUnderstood`,
`TextLands`), which are about what recursive definitions compute for every text.
`TextRender` and `MCAlgorithms` have RECURSIVE operators and are for TLC alone.

## Plan

1. Done: `RingBuf`, `NvsHandle`, `AsyncCall`, `LogBuffer`, `RingQueue`, `Ota`.
2. Done: `TaskLife`, `Watchdog`, `WeakRef`.
3. Done: `HttpServer`, `NetLogger`.
4. Done: `HttpClient`, `HttpFile`, `Wifi`, `Bluetooth`, `Spi`.
5. Done: the pure algorithms, in `MCAlgorithms`.
6. Proofs. Done: all safety properties of `ring_*`, `nvs_*`, `containers`,
   `network` and `devices`, and the three refinements. Left: `TextLands`
   and `InputsUnderstood`, for all inputs.
7. Modelling that is left: `asyncCall` without waiting; `waitForLogConnection`;
   `WifiAp`; glyphs scanned horizontally (`blitMonoHscan`); `httpDumpToJson`; the
   validators of `NvsSimple`.

A run is one theme, and stays so: what comes under 7 joins `devices`, `network`
and `algorithms` as further subjects; a property that a theorem makes redundant
gives way to a deeper one.

## What is not modelled

Wrappers without state of their own, or whose state is the system's (`queue.hpp`,
`mutex.hpp`, `timer.hpp`, `uart`, `sdcard`, `mdns`); statistics for display
(`taskList`); compile-time helpers and third-party code (`cStringTuple.hpp`,
`funcTraits.hpp`, `magic_enum.hpp`); fonts, and the tools that make and show them
(`cppfont`, `psf-loader`, the web host); the set-up of pins, DMA channels and SPI
registers; `Gfx`'s rectangles and straight lines, which only call other
functions. They have no behaviour that a model would make clearer.
`StreamRingQueue` is as its component's note says. The rest is in the plan.
