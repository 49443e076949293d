# A formal model of the Albia IoT client (PHP)

`DeviceClient.php` is a client library for devices: an application stores
records with `writeData()`, the library sends them over a WebSocket and survives
lost connections, crashed processes and reboots. It has no threads. Everything
that runs in the background is a `pcntl_fork()` of the PHP process with a copy of
the client object, and the processes coordinate through four things on disk:

| shared state | read by | written by |
|---|---|---|
| SQLite table `write_operation` | writer forks | `writeData`, `connectToServer` |
| `albia.lastid`, the id of the last record sent | `writeData`, `connectToServer`, writer forks | writer forks |
| `albia.connected`, '1' or '0' | every process | constructor, `connect`, `disconnect` |
| `albia.writting`, '1' or '0' | `writeData`, `startWriteQueueThread` | constructor, `startWriteQueueThread`, writer forks |

None of them is locked, and each access is a system call of its own. That is
where the difficulty of the client lies.

Records and events are protobuf messages (`DeviceRecordMsg`, `DeviceEventMsg`). The
repository carries protobuf twice: in PHP, and as a C extension that takes the place
of the PHP classes where it is loaded. The extension is a large part of the
program's own code, with a decoder that is a virtual machine, a compiler for it, an
encoder, a JSON printer and parser, and the definitions, tables and reference counts
under them. It runs in one thread; its difficulty is in long sequences of legal
calls, in input that is cut at any byte, and in failures halfway.

## Inventory

The client. Lines are of `src/src/DeviceClient.php` where no file is named.

| component | code | state | operations | what makes it correct |
|---|---|---|---|---|
| record queue | 176-248, 317-375, 422-424, 457-484 | table, `albia.lastid`, `albia.writting` | `writeData`, purge, `startWriteQueueThread`, the writer fork | no record lost, none out of order, none twice; one writer; what is stored is sent |
| session | 126-174, 250-292, 377-431, 486-529 | `albia.connected`, a socket per process, the forks | `connect`, `disconnect`, heartbeat, event loop, callbacks | a flag that is set is watched; a loss is noticed; forks of dead connections end |
| events | 294-315, 584-607 | none of its own | `emitEvent`, `onReceiveEvent` | true means sent |
| device identity | 433-445, 531-582 | token, device id | `getDeviceIdWithDeviceKey(Sync)` | the callback is called once |
| database recovery | 93-120 | both SQLite handles, the file, `albia.lastid` | `handleDBError` | the cursor fits the file that is there |
| WebSocket engine | `third_parties/elephant.io/src/Engine/SocketIO/Version1X.php` | stream, partial payload | `connect`, `emitBinary`, `write`, `close`, `loop`, `receiveFragment` | messages are whole; events arrive in order; the loop ends when the connection does |
| frame codec | `.../Payload/Encoder.php`, `Decoder.php` | none | encode, decode | the length is right at every boundary |
| fork helper | `third_parties/fork-helper` | children | `call` | the child ends with its function |
| timestamps, event objects | `src/src/DeviceUtils.php` | none | constructors | a given time is kept |

The protobuf extension, `src/third_parties/protobuf/php/ext/google/protobuf/`:

| component | code | state | operations | what makes it correct |
|---|---|---|---|---|
| reference counting | `upb.c` 4314-5113 | objects, groups, shared counts | ref, ref2, unref, freeze | nothing freed in use, nothing kept out of use, cycles included |
| hash tables | `upb.c` 5223-5913 | entries, chains, array part | insert, remove, lookup, iterate, compact | a lookup finds the last value stored; stale iterators stay inside |
| arena | `upb.c` 6187-6424 | blocks, cleanup list | malloc, realloc, cleanup, uninit | areas apart, all given back once |
| definitions | `upb.c` 68-2100 | fields, messages, oneofs, enums, files | setters, add, validate, freeze | what is frozen is valid and its tables agree |
| descriptor pool | `upb.c` 2103-2400, 7640-8240, `def.c`, `protobuf.c` | reader, symbol table, class maps | handlers, `upb_symtab_add`, `internalAddGeneratedFile` | what is added is what was described, whole or not at all |
| bytecode compiler | `upb.c` 8312-9170 | code, labels, dispatch tables | `compile_methods` | the code means what the fields call for |
| binary decoder | `upb.c` 9200-10330 | stack, residual buffer | `run_decoder_vm` | where the input is cut makes no difference |
| binary encoder | `upb.c` 10361-10866 | buffer, segments | the encoder's handlers | what it puts is the message |
| message objects | `storage.c`, `encode_decode.c`, `message.c`, `array.c`, `map.c` | memory, cached properties, containers | setters, `mergeFrom`, `mergeFromString`, `serializeToString` | memory and properties agree; a merge is a merge |
| JSON printer | `upb.c` 12990-13820, `encode_decode.c` 1070-1415 | frames, `first_elem_` | `putrawmsg`, the printer's handlers | the text is JSON and is that of the message |
| JSON parser | `upb.c` 11358-12983 | two stacks, accumulation, capture | `parse`, its callbacks | what was printed is read back |

Hard behaviours: any two processes may interleave between any two accesses of the
shared files; `file_put_contents()` empties a file before it fills it; forks of an
old connection, or of an earlier run of the program, go on beside the new ones;
processes die anywhere; SQL statements and forks fail; the clock is set back; a
closed stream swallows writes; frames of two processes share a socket; a database is
unlinked under open connections. In the extension: cycles of references; iterators over
tables that change; objects linked in any order before they are frozen; values cut
by the end of a buffer; reallocations that fail; parses that stop between two
handlers and leave objects in use. `PROJECT.json` lists each such hazard at its line
with the properties that would catch it.

## Modules

| module | what it is |
|---|---|
| `WriteQueue` | the record queue with everything of `connect()` and `disconnect()` that touches it |
| `DurableFifo` | what the queue promises: accept, deliver in order, forget only what was delivered |
| `EventLoop` | the fork that reads the socket: frames, fragments, the Rx observer and the `disconnect()` it ends in |
| `Session` | connect, disconnect and the two forks of every connection, which all ask one flag |
| `DbRecovery` | `handleDBError()` among processes that hold the file open |
| `Wire` | frames of several processes in pieces on one socket, and the server that joins them |
| `RefCounted`, `HashTable`, `Arena` | the memory management of upb |
| `Defs`, `DefsClient` | the setters of definitions, and a client that calls them in any order |
| `DescReader`, `DescriptorPool` | what reads a file descriptor, and the pool and symbol table it goes to |
| `PbCode` | which bytecode the fields of a message call for |
| `PbCompiler`, `PbDecoder` | how the compiler gets there, and what the code does; both use `PbCode` |
| `PbEncoder` | the encoder's handlers |
| `JsonPrinter`, `JsonParser` | a message put as text, and a text parsed; the parser takes what the printer put |
| `Messages`, `MessageCalls` | message objects, and PHP code that calls them |
| `MCWriteQueue`, `MCClient`, `MCLive`, `MCUpbMemory`, `MCUpbSchema`, `MCUpbCodec`, `MCJson`, `MCMessages` | small instances for TLC |
| `WriteQueue_proofs` | type correctness and the survival of the newest records without any assumption; no unsent record deleted, order, refinement of `DurableFifo`, under `OrderedUse`; at most one writer under `SingleUse`, no duplicate under `OnceUse` |
| `EventLoop_proofs` | type correctness, what the observer guarantees, and that events arrive in order and unmixed |
| `Session_proofs` | type correctness, that a set flag is watched, that `emitEvent()` is honest |
| `Client_proofs` | type correctness of the recovery and that the cursor fits the file; type correctness of the instances of `MCClient` together |
| `Wire_proofs` | type correctness, and that messages are whole under `WholeUse` |
| `Arena_proofs` | that an arena is sound |
| `HashTable_proofs` | that a table holds what was put into it, whatever is evicted, rehashed and compacted |
| `PbEncoder_proofs` | that what the encoder puts is the encoding of the message, whatever is nested and whatever fails |

An MC module holds instances of several components. Its variable `part` is chosen in
the initial state and says which component a behaviour is of; the others keep their
initial values. One run therefore covers the sum of the instances, not their product,
and each property reads the part it is about. Components that do interact are composed
by the modules themselves: `MessageCalls` extends `Messages`, `DescriptorPool` extends
`DescReader` and that `Defs`, `JsonParser` extends `JsonPrinter`, `PbDecoder` runs what
`PbCode` assembles and `PbCompiler` is checked against it.

### How WriteQueue corresponds to the code

* **Processes.** `Caller` are the processes that run application code: `Main`,
  which ran the constructor, and slots for the forks that run `onConnect`,
  `onConnectError`, `onDisconnect` and `onReceiveEvent`. `Writer` are slots for
  the forks of `startWriteQueueThread()`, `Monitor` slots for the heartbeat and
  event-loop forks while they are inside `disconnect()`. The slots bound how many
  forks are alive at once; when no callback slot is free, or no callback was
  registered, none is forked.
* **Program counters.** `pc[p]` is the next access to shared state that `p` makes.
  Between two labels the code touches only what is local to the process, so one
  action per access is the finest interleaving there is. `pc = "dead"` is a
  process that does not exist.
* **Files.** `connected` and `writting` are Booleans: an empty or absent file is
  not equal to `'1'`. `lastId` is 0 when the file is empty or absent. Writing a
  file is two steps, except that writing '0' passes through no other value.
  `LastRecordIdSent` models that the existence test uses the script's folder and
  the read does not.
* **Table.** A row is its id and timestamp. `AUTOINCREMENT` never reuses an id,
  hence `seq`. `INSERT`, `SELECT` and `DELETE` are atomic, as SQLite makes them.
  `IsSelected` is the query of line 337: the smallest timestamp above the cursor,
  and the smallest rowid among equals, since `id_device` is 0 in every row.
* **Sockets.** `stream[p]` is the copy of the connection the process inherited:
  none, open, or closed by this process. What the writer's `emitBinary()` does
  follows from it: sends or throws on an open one, returns at once on a closed
  one, is an `Error` on null.
* **Forks of callbacks.** `ForkCallback` copies the socket into a free slot or
  throws. A callback may call any public method and ends.
* **Environment.** `Tick` and `StepBack` move the clock; `Kill`, `Reboot`, the
  failing statements and forks are enabled by `Faults`.

`RecordTypeDefined` and `StampArgs` deserve a word. As the repository stands,
`writeData()` throws on every call that gets past the length check (Disagreements, 4), so a model of nothing but
the code as it is would have an empty queue for ever. The runs of the queue assume
`RecordTypeDefined = TRUE`: that the class named in line 183 can be loaded, as it can
once the enum that line 16 loads is given that name. Calls without a `DeviceTimestamp` then work as modelled.

### How EventLoop corresponds to the code

One instance is one connection and the fork of `runLoop()` that reads it.

* **Messages.** An event is a header message
  and a payload message; a message is one frame or two fragments, which is why its
  body is two halves. `events` are the events sent whose operation is `event`.
* **The loop.** `pc` is `head` at the condition of line 99, `read` in the first
  `receiveFragment()` of an iteration and `payload` in the second. A receiving action
  is one call of `receiveFragment()` with the reads inside it: `ReceivePart` returns null
  and keeps the fragment in `huge`, `ReceiveWhole` puts the fragments together,
  `ReceiveLong` is the undefined `sprintB()`, `ReceiveClose` the close frame with and
  without a status, `ReceiveNothing` every way `readLength()` throws.
* **`stream`** is open, a closed resource that is not null, or null. `AtEnd` is the
  negated loop condition: `feof()` is false while frames are unread and, in PHP 7,
  false of a closed resource.
* **Observer.** `stopped` is `isStopped` of the RxPHP observer between the loop and
  `DeviceClient`; `Notify` is its `onError()` and `onCompleted()`.
* **`disconnect()`** is four steps: reading the flag, clearing it, closing the
  socket, forking the callback. `close()` fails only on a connection that is gone.
* **Environment.** The server sends texts, events and at most one close frame. Frames
  are under way in `link` until `Arrive` puts them into `inbox`, one at a time, so a read
  may time out between a header and its payload; `Lose` ends the connection and drops what is
  under way, so a payload may never follow its header. Other processes set and clear
  `albia.connected` at any time (`OthersSwitch`).

Frames arrive whole: an incomplete one is an exception just as none is. A
fragmented message is not interrupted by a control frame. An operation other than
`event` does nothing. After an exception within a frame the stream would be read out
of step; nothing read then reaches the application, since the observer is stopped.

### How Session corresponds

* **Connections have numbers.** `conn[c]` is what the network knows of the `c`th
  socket that was made: `up`, `gone` (closed or lost), `reset` (a process has written
  to it since). `proc[p].sock` is the copy of the client a process inherited. In the
  code nothing tells one connection from another; the numbers are there to state what a
  fork of an old one does to the new one.
* **The flag** is `albia.connected` with its empty state in between, for every reader
  compares it with `'1'`.
* **Forks** are named by their connection and kind. `HeartBeat` is one round of
  `sendPing()`: a write to a connection the peer closed succeeds once and only the
  next one throws. `ReadEnds` is the end of the event loop, whose inside is
  `EventLoop`; here it is reduced to the question what it does to the flag.
* **`connect()`** is eight steps: `Connect`, `Dial` with its three outcomes (a
  `Requests_Exception` that the observer gets, a socket, an exception nobody catches),
  the two steps of setting the flag, and one per fork. `disconnect()` is five.
* A callback makes one call and ends; slots for callbacks are `App` without the main
  program. Without registered callbacks none is forked.

### How DbRecovery corresponds

A file is a number, `path` is the one `dbFilename` refers to, and a process keeps the
one it opened: that is what unlinking means to the others. `db` and `dbThread` are
opened and closed together. `handleDBError()` is `FetchFails` (close), `Unlink`,
`UnlinkLast`, `Create`. In the main program the handler does nothing (`WriteFails`): the
statement that failed is one of `db`, the error it looks at is that of `dbThread`.
`MaxFiles` counts how often the file is created, `MaxRows` the rows of each.

### How Wire corresponds

`Pieces` cuts a frame as `fwrite()` hands it to the kernel, `ChunkSize` (8192) bytes at a
time; a process writes the pieces of its message one by one, others in between. The
server reads a frame by the length `EncodeLength` gave it and joins a text frame that
announces an attachment with the binary frame after it. `BlobLength` and `LongBlob`
are lengths on both sides of every boundary of the encoding and of the chunk.

### How the modules of upb correspond

* **`RefCounted`.** `heap` is all of the memory: `next` is the circular list of a
  group, `group` points to the cell with the shared count. `Merge` is `merge()`, which joins
  two groups and their lists; `Ref2` calls it while both objects are mutable, and counts
  across groups once one is frozen. `Frozen` is the whole of `freeze()`: Tarjan's
  algorithm (`Analyse`, which stops at `maxdepth`), the passes that move objects into
  the groups of their components, and the one that counts what crosses. `Unref`
  releases a group in the code's order. An assertion of the code that would fail sets `fault`.
* **`HashTable`.** `entries` with `next` indices, `InsertEntry` with the eviction of an
  entry that sits in a foreign slot, `RemoveEntry` that moves the next entry up, `Rehash`
  when a table is full, and for integer tables the array part and `Compacted`, which is
  `upb_inttable_compact2()`. `dict` is the ghost map it should be. The iterator is started, advanced and
  used at any time between changes, as `foreach` over a map field does. `MCUpbMemory` has a table of
  integers and, as an instance without an array part, one of strings.
* **`Arena`.** Blocks with their header, alignment of requests, doubling up to
  `max_block_size`, an initial block given by the caller, `realloc` that copies, and the
  list of cleanup functions that lies in the arena itself.
* **`Defs`.** `schema` maps every object to its record; tables are functions; a
  reference is an entry in a bag of owners. Each setter is one operator with the code's
  early returns. `DefFreeze` is `upb_def_freeze()`: validate each, assign selectors and
  lift defaults, undo if one fails. `DefsClient` calls the setters in any order the
  comments of `upb.h` allow (`Careless = FALSE`).
* **`DescReader`, `DescriptorPool`.** A descriptor is a record; `Events` is the order
  of its fields on the wire; a handler is one operator. `SymtabAdd` resolves,
  checks names and adds as `symtab_add()` does, `Register` is the loop of
  `internalAddGeneratedFile()` over messages and enums with its three maps.
* **`PbCode`, `PbCompiler`, `PbDecoder`.** `PbCode` says as a list of items what code a
  field has; `PbCompiler` produces it as the code does, in two passes, with labels
  threaded through the offset fields of the instructions that wait for them, short and
  long offsets and dispatch tables. `PbDecoder` runs the assembled code: an action per
  kind of instruction, `getbytes`, `suspend`, `skip`, the residual buffer and `end()` as
  operators. A buffer is a number of bytes that the caller gives next.
* **`PbEncoder`.** One action per handler; `Reserve` may fail at every reallocation.
  `wanted` collects the encoding of the message region by region, as a reader
  expects it, beside what the handlers put. Segments are numbers, not pointers, so that a
  reallocation of `segbuf` moves nothing; `Ends` is where in the buffer each of them ends, which
  `end_delim()` finds by going through their lengths.
* **`JsonPrinter`, `JsonParser`.** Text is a sequence of character codes. The parser
  interprets the transitions of the generated machine as a table; its callbacks
  are operators. `calls` is what the printer's handlers were called with, and what the
  parser should call its own with.
* **`Messages`, `MessageCalls`.** An object has memory cells, properties and oneof
  cases, shared as `create_layout()` shares them. Setters, containers, `mergeFrom()`,
  `clear()`, and a parse that is one handler call after another, any of which may be
  the last. `MergedTree` is the reference: what merging should give.

### Abstractions

* An oversized string makes `writeData()` return false before anything else
  happens; it changes nothing and is left out, as is `disconnect()` while not
  connected.
* The writer's `usleep()` separates two reads of `albia.connected`; a process may
  pause anywhere in the model.
* The HTTP requests, the handshake and `of()` are one step with three outcomes:
  success, `Requests_Exception`, any other exception.
* In `WriteQueue` the two frames of one message are one step; a failure between
  them counts as not sent. `Wire` has the frames.
* `WriteQueue` has no corruption of the database; `DbRecovery` has it, with a queue
  reduced to rows that are fetched in the order of their ids.
* Numbers on the wire are bytes; a varint of ten bytes is one of three
  (`VarintLen`), 32-bit limits are scaled along. The unrolled fast paths of the decoder are one
  operator with the slow one: they give the same for the same bytes.
* Memory of the encoder and decoder comes from a function that may fail, except in
  `Arena`, which is that function.
* Tables are maps everywhere but in `HashTable`; reference counts are sets of owners
  everywhere but in `RefCounted`. The protocols by which the users of both call them are
  the ones those modules are explored with.
* A text is the sequence of its characters where it is escaped, cut or compared, and a
  model value elsewhere. Floating-point values are left out; integer types are one.

## Properties

Of the record queue:

| property | says |
|---|---|
| `TypeOK` | every variable stays in its domain |
| `NoUnsentDeleted` | a row that was deleted had been handed to an open socket ("Delete old records sent", line 422) |
| `NewestSurvive` | only rows at or below one a writer went through are ever deleted |
| `InOrder` | a record goes out only when all earlier ones have |
| `ImplementsFifo` | inserting, emitting and purging implement `DurableFifo` |
| `AtMostOneWriter` | two writer forks never drain the queue at once |
| `NoDuplicate` | no record is emitted twice |
| `Drained` | a stored record of a connected client is emitted or the connection is lost |

Of the rest of the client:

| property | says |
|---|---|
| `ClientTypeOK` | every variable stays in its domain; a process that is setting up a connection holds it |
| `DeliveredPrefix` | what the application gets is a prefix of the events sent: none skipped, mixed or repeated; and all of them once a loop that was not stopped has read everything |
| `OneDisconnect` | one connection's fork calls `disconnect()` at most once |
| `EndReported` | the loop does not end without that call ("Connection closed", line 124) |
| `SilentAfterDisconnect` | after it no event is handed over, though frames may keep coming |
| `EventDelivered` | while no read fails and the connection holds, every event sent is handed over in the end |
| `LoopEnds` | when the connection is gone the fork ends |
| `Watched` | while the flag says connected somebody is there who will find out about a loss; otherwise `connect()` would return false ever after |
| `LossNoticed` | when every connection is lost the flag does not go on saying connected |
| `ForksEnd` | forks of a connection that is gone end, whatever connections follow |
| `EmitHonest` | without callbacks that reconnect, `emitEvent()` says true only of an event it sent |
| `CursorFitsFile` | `albia.lastid` is never past the ids the current database has given |
| `MessagesWhole` | the server makes sense of every byte, and what it joins came from one process, with one process that emits records beside the heartbeat |

Of the protobuf extension (each name is the conjunction of the named properties of the
modules, which carry comments of their own):

| property | says |
|---|---|
| `ObjectsSafe` | in any order of linking, freezing and releasing no assertion fails, nothing in use is freed, nothing out of use is kept |
| `GroupsHold` | groups hold the cycles, are frozen or mutable as a whole, and are what their circular lists say; a group's count is the references into it from outside |
| `TablesSound`, `StringTablesSound` | of a table of integers and one of strings: a lookup finds what was stored last, an undisturbed iteration returns every key once, a stale one only elements; no assertion fails |
| `ArenaSound` | areas are aligned and apart, in blocks the arena holds; cleanup functions run in reverse before the memory goes; all blocks are returned |
| `DefinitionsAgree` | whatever the order of setters, the tables of messages and oneofs agree with their members, references with visits, enum tables with each other, syntax with the file's |
| `FrozenIsValid` | what is frozen is complete, as is all it refers to; no two fields share a selector |
| `FreezingKeepsDefaults` | freezing an enum field keeps the number it defaults to |
| `PoolFaithful` | what was read from a descriptor is what it says; a reader that is done owns nothing; the symbol table is closed under references; the three class maps agree |
| `AddedAsAWhole` | a file is added to the symbol table as a whole or not at all |
| `CodesAssembled` | after both passes the code is the one `PbCode` assembles, jumps, calls and dispatch tables included |
| `DecodersResumable` | offsets add up and the handlers are called for the same message wherever the input is cut ("Decoding is fully resumable", `upb.c` line 9236) |
| `DecodersNest` | every call that begins something is followed by the one that ends it; input that stops in the middle is refused |
| `EncodesMessage` | what is put is the encoding of the message, or the beginning of it when a reallocation failed; nothing is written past what was reserved |
| `PrintsJson` | what is printed is the JSON of the message, and there is room for it |
| `ReadsBack` | what was printed is parsed as what it was, wherever it is cut; other texts are refused; stacks and buffers are kept |
| `Sound` | the case of a oneof, its memory and its property agree, lists are dense, and no handler, getter or encoder takes a value for what it is not |
| `Merges` | `mergeFrom()`, and `mergeFromString()` of what `serializeToString()` wrote, give what merging the two should |
| `Copies` | messages that shared nothing share nothing after a merge |

## Runs

| run | question | instance |
|---|---|---|
| `queue_pattern` | does the pattern of `example.php` lose or reorder records? | main writes, one callback at a time reconnects or disconnects at any moment; kills and failing forks |
| `queue_writers` | do two writers at once break the queue? | reconnecting does not wait for the old writer, the working directory is not the script's folder, kills, reboots |
| `queue_hazards` | what is deleted when everything at once goes wrong that the other runs leave out? | two producers, a main program that disconnects beside a callback, explicit timestamps, reboots |
| `queue_single` | is there one writer, and is a record emitted once? | one process that waits before it reconnects, three records, failing statements and forks, a clock that goes back |
| `client_safe` | event loop, session, recovery and frames, each on its own | below |
| `client_live` | is the queue drained, does every event arrive, is every loss noticed, do forks end? | fairness; two records; two messages in short frames; one process and two connections |
| `upb_memory` | reference counts, tables, arena | below |
| `upb_schema` | definitions and descriptor pool | below |
| `upb_codec` | compiler, decoder, encoder, JSON | below |
| `messages` | message objects | below |
| `finding_closed`, `finding_oneof` | see Disagreements | the smallest instance of each |

**Bounds.**

* Queue: two or three records, which is what it takes for a record to be overtaken,
  skipped or purged behind a cursor; one step of the clock, which is what it takes for
  two timestamps to differ; and enough process slots for the interleaving the run is about.
* `client_safe`: for the event loop two messages or events, which is what it takes for
  one to be skipped or mixed with the next, each in one frame or two fragments, short or
  long, close frames with and without status, failing forks. For the session two
  connections, which is what it takes for a fork of the old one to meet the new one, a
  main program and a callback, of whose processes `MaxBusy` = 2 at most are in the middle
  of something: an interleaving of two. For the recovery three files of two rows, so
  that a cursor can be too large for the file, with one writer. For frames, record lengths 0, 124, 125 (a prefix byte makes them 1, 125, 126) and 8000
  with a heartbeat, and 8191, 65534, 65535, 70000 without one, with pieces of 8192 bytes.
* `client_live`: the queue, the event loop and the session under fairness, and two parts
  without it that only take the steps the other run has none of: `faulty`, a main program
  whose forks fail and whose processes are killed (`Watched` does not hold there: who
  should watch may be dead; `EmitHonest` does, which is proved), and `killed`, a database
  whose writers are killed or meet (`CursorFitsFile` does not hold, see Disagreements).
* `upb_memory`: three objects, on which cycles, chains and diamonds form, with one owner and one reference
  each way, and a freeze limited to depth two, so that it fails on some graphs;
  tables of four keys whose hashes collide or not (every choice of hashes), which is a
  full first table, growth and every kind of eviction; an arena whose blocks end at 12
  units, with requests that fit, fill or exceed them.
* `upb_schema`: parts `members` (two fields, a message, a oneof), `types` (a field, a
  message, an enum), `files` (a field, two messages, a file), `pool` (one or two files:
  two fields of fifteen kinds each, nested messages with oneofs, enums and maps; a second
  file that uses the first, clashes with it or is broken).
* `upb_codec`: schemas of one message of up to two fields of every kind and of two
  messages that call each other; inputs of up to two fields and two levels, whole, cut
  short or malformed, in buffers cut at every byte; a nesting limit of 4, a residual buffer of 8
  bytes and varints of 3; encoded messages of up to 12 bytes (and those of more for which the last field was begun below) with buffers that start at 4, two segments, a stack of three and digits of base 8;
  JSON of messages with every kind of field, parsed in one buffer and in three, with a
  nesting limit of five on one side and three on the other.
* `messages`: classes `oneof`, `nested`, `texts`, `lists`, `maps`; two variables that hold
  messages and two more objects, elements and keys up to three.
  `Careful` names what the client of the run does not do, because the code does not stand
  it: merge or parse into a message below which an element was `unset`, set a oneof's message to null, merge from or
  parse into a message whose oneof is set, set an element of a list to the empty string.
  Without a word of it a run shows what happens (Disagreements).

Deadlock is not checked: the bounds make the instances stop, and so may the application.

Runs of safety properties of the queue compare states up to `View`, which hides a local value
while its process will assign it before reading it again, and history variables
the run's properties do not read; no action reads what is hidden, so hiding it
changes neither the future of a state nor the verdict on it. Where a run declares a symmetry,
no definition names a member of the set. The liveness run uses neither.

**Fairness** (`LiveSpec`, which conjoins `FairSpec` of `WriteQueue` and `EventLoop` and
`SessionFairSpec`): weak fairness of every step a process already inside a
method or fork can take, which the operating system's scheduler justifies, and of
`Arrive`, since TCP delivers what is under way unless the connection breaks (`Lose`). No
fairness for what the application decides to call, for links that fail, for the
clock, the server or the failures. Nor need a read that waits on a live connection (`Waiting`) ever time
out: the model stops sending after `MaxSend` messages, while pongs come in time as long as the real server lives.
If the timeout were owed every behaviour would end in `disconnect()`, and `EventDelivered` would say nothing of the
events; as it is, a loop that passed one over in silence would wait for ever with the event missing. Weaker
fairness only makes `LoopEnds` say more, which needs no timeout because a read on a connection that is gone does not
wait. `Drained` is about an application that waits for the old writer before it
reconnects; without that no writer may run until the next `writeData()`. The extension has no
liveness property: each call returns by itself.

## Disagreements

Where the code does something else than what it, or its documentation, says. Two
have a run of their own.

**The client**

1. `finding_closed`: when the main program calls `disconnect()` and the
   `onDisconnect` callback, a process of its own, reconnects as in `example.php`, the
   main program's next `writeData()` sees `albia.connected` set, starts a writer, and
   that writer inherits the closed socket: every record is silently dropped and
   marked as sent.
2. A frame of more than 125 bytes reaches `self::sprintB()`, which no
   class defines. The `Error` ends the fork; the client stays connected and gets no
   further event. `loop()` also passes the null of a first fragment on as the payload:
   `DeviceEvent` cannot be built from it and the fork ends likewise
   With `TRUE` in `Long` or `SplitPayload`, `EventDelivered` of `EventLoop` is violated.
3. Selection goes by timestamp, cursor and purge by id. Whenever a
   later id has an earlier timestamp, because two processes sampled and inserted
   in opposite orders (two members in `Producer`) or the clock is set back between two
   calls (`ClockStepsBack = TRUE`), the later record goes first and the earlier one is
   deleted unsent: `NoUnsentDeleted` is violated.
4. `writeData()` with a `DeviceTimestamp`, the call `example.php` makes (line 66), uses an
   unset variable in its SQL (line 233) and throws. Without one it
   throws too as the repository stands, at the class of line 183
   (`RecordTypeDefined = FALSE`). `WriteDataReturns` of `WriteQueue` says it should return.
5. After a close frame without a status the stream is a closed
   resource, not null; `feof()` is false, every read throws, and the loop never ends:
   `LoopEnds` is violated with `CloseKinds = {"bare"}`.
6. `example.php` (lines 20-25) reconnects in `onDisconnect`. A fork of an old connection that
   ends late tears down the new one, for the flag it asks is the new one's:
   `TeardownJustified` of `Session` does not hold.
7. `handleDBError()` ("Corrupted DB", line 95) may unlink a sound database that another writer has just
   created (`OnlyDamagedUnlinked`, with `two` in `DbFaults`), and a writer that is killed
   between the unlinking of the database and that of `albia.lastid` leaves a cursor
   past the ids of the new file, whose first records are then taken for sent
   (`CursorFitsFile`, with `kill`). In the process that called `writeData()` it does nothing.

**Message objects**

8. `finding_oneof`: `layout_merge()` takes over the case of a oneof and then leaves out
   a value that is the default, so the case says number while the memory has the pointer of the
   string that was set. Parsing into a message whose oneof is set (`oneof parse`) and
   setting a oneof's message to null (`null oneof`) leave the same disagreement.
9. After `unset()` of the last element of a list, `push` appends behind the hole
   where the setter with an index fills it (`unset`): a merge or a parse into it then
   leaves a list whose elements are not found. Empty strings are skipped when a list
   is put (`empty element`), so that a round trip shortens it.
10. `env_error_func()` frees the environment because `zend_error` "will longjmp"
    (`encode_decode.c` 107); `zend_throw_exception()` returns, and the decoder goes on
    until its next test.

**upb**

11. `upb.h` 736: `upb_env_ok()` is true if only errors "that recovered successfully" were
    reported; `upb_env_reporterror()` clears it before it asks (`EnvOkHonest` of `Arena`).
12. `upb.h` 617: no block larger than `max_block_size` "unless individual arena
    allocations are larger"; with the header one may be.
13. `upb.h` 3156: `AddFile` is said to replace symbols of the same name; it refuses them. Line 3140 says
    the caller's references are passed on even if the operation fails; `symtab_add()` donates them back then.
14. The binary decoder takes input that stops right behind the beginning of a known
    group for a whole message (with `CutGroups` of `MCUpbCodec` among `Inputs`, `DecodersNest` fails), though `end()` is to
    refuse it ("Unexpected EOF inside submessage or group"), and refuses a packed field of no elements.
15. The JSON printer expects entries with a key and a value (`upb.c` 13616-13625);
    `putmap()` leaves out either when it is the default, and the text is no JSON then.
    `putbytes()` writes base64 into `data[16000]` without a test. `first_elem_` has one
    cell per level for a message and a list each; 64 nested messages with lists need one more.
16. The JSON parser accepts a text that stops early (`end()` looks at nothing), nested arrays, and
    what follows the padding of base64; drops a number given for a string; does not
    decode bytes that are keys of a map and reads those that are numbers in the base
    their prefix says; goes on when a key could not be parsed. At the limit of its
    depth the return stack of the machine takes one cell more than it has and overwrites
    `parser_top`, which is read only when a buffer begins. A string in the accumulate buffer may
    alias a buffer that is gone unless the caller keeps it (`BuffersKept`).
17. Neither `strtol()` for default values (line 7782) nor the number conversions of the
    parser clear `errno` before they test it.

## Proofs

TLAPS proves, for every value of the constants that satisfies
`ConstantsAssumption` (`EventLoopAssumption`, `SessionAssumption`, `DbAssumption`,
`WireAssumption`, `ArenaAssumption`, `TableAssumption` and `EncoderAssumption` for the other components):

* `TypeCorrect`: `Spec => []TypeOK`. `TypeOK` alone is not inductive: that
  `albia.lastid` holds an id needs that a writer past its query holds one
  (`HoldsRecord`).
* `NewestRecordsSurvive`: `Spec => []NewestSurvive`, with no assumption on
  the use. The invariant bounds by a handled id every place a cursor can sit: the
  file, what each caller read, and the record of each writer past its emit.
* `NothingUnsentIsDeleted`, `EmittedInOrder`, `QueueImplementsFifo`, under
  `OrderedUse`: the clock is not set back, at most the main program writes, and it
  does not call `disconnect()` unless it is the only caller. Three invariants carry
  them: `TimeInv`, ids and timestamps of the table agree and a time sampled is
  never older than a row; `SocketInv`, no process that can start a writer holds a
  closed socket while connected, so no writer inherits one; and an invariant on the
  cursors, that everything at or below a saved, read or about to be saved cursor
  was emitted and that a record about to be emitted is the next one or an old one.
  They hold for any number of writers and callbacks, with every failure. Breaking any
  conjunct of `OrderedUse` loses records: see Disagreements 1 and 3.
* `OneWriter`, under `SingleUse`: one caller that reconnects only after the old
  writer stopped. The invariant ties the flag to the writer: a live writer means
  `albia.writting` is set or a caller is past the point where it matters.

* `EmittedOnce`, under `OnceUse`: the same, no kill and no reboot, and the script's
  folder as working directory. Everything emitted lies at or below `albia.lastid`,
  or is the record the writer holds between its emit and the end of its save; a
  record about to be emitted lies above `albia.lastid`, which is the cursor the
  writer used. A second writer, or a death between emit and save, breaks it.

* `LoopTypeCorrect`, `DisconnectsOnce`, `EndIsReported`, `SilentOnceDisconnected`, for
  the event loop with every kind of frame and failure. The invariant
  (`ObserverInv`) is that the observer is stopped exactly when `disconnect()` was
  called and that neither `disconnect()` nor the end is reached otherwise.

* `EventsInOrder`: `Spec => []DeliveredPrefix`, for any number of messages and
  events, whole or in fragments, of any length, with close frames, lost connections
  and timeouts at every point. What the reader has not read, inbox and link
  (`Unread`), is a chain of frames: each comes at the place the frame before it ended
  (`Chain`, from the `Comes` and `Behind` of one frame), and while the connection is
  open the last place is that of the message sent next. `ReaderInv` says the first
  place is the reader's: its fragments, its header and `pc` are those of someone who has read up to there, and it has handed over exactly the events
  numbered below the message it is at (`Done`). It holds as long as the loop passes
  events on (`Passing`) and no longer: after an error, a close frame or the death of the
  fork the bytes may be out of step with the reader, but the observer is stopped or nobody reads.
  The one place where the loop is out of step and goes on, a payload of which it takes
  the first half for the whole, is harmless unless the operation is `event`, and
  then the fork dies (`DeliversNext`). Where nothing is left to read, the message the reader is at is the one sent
  next, so that no event is missing (`NonePassedOver`).
* `SessionTypeCorrect`; `SomebodyWatches`: `SessionSpec => []Watched` when
  `SessionFaults` is empty, for any number of processes and connections. `WatchInv` strengthens
  it to a process at one of the labels from which the flag will be asked again. Only
  `connect()` sets the flag, and it watches until its forks exist; whoever stops watching has read
  an unset flag or clears it. A kill or a failing fork takes the watcher away, and the theorem
  does not hold with them.
* `EmitsHonestly`: `SessionSpec => []EmitHonest`, with every fault. While no callback is
  registered all slots for callbacks stay dead, so that the main program alone can set the flag, and a set
  flag means that its socket is open wherever `emitEvent()` can be called (`HonestInv`).
* `DbTypeCorrect`; `CursorFits`: `DbSpec => []CursorFitsFile` when `DbFaults` is empty, for any files
  and rows. `CursorInv`: the name refers to no file exactly while a writer is in
  `handleDBError()`, which empties the cursor before it creates the next file; a writer that fetched a
  row has the file open that the main program has; and a file that was replaced was damaged, so
  that nothing more is inserted in it. `DbFaults` stands for a kill and for two
  writers at once, both of which break it (Disagreements, 7).
* `ClientTypeCorrect`: `ClientSpec => []ClientTypeOK`, from the type theorems of the event loop, the session and the recovery.
* `WireTypeCorrect`; `SentAsAWhole`: `WholeUse => (WireSpec => []MessagesWhole)` for any lengths, chunk
  size and number of messages. `WholeUse` is that one process emits messages, and
  that either no other process writes or the others only ping and every frame fits one piece
  (`AllFit`). The lengths are understood at every boundary of the encoding
  (`LengthUnderstood`), so the pieces of a frame take the server from before it to
  behind it (`GoesFrame`). `WholeInv` says that the pieces on the wire take the server from where it is to
  some place, and what the emitter still holds from there to rest (`Goes`); between two pieces the server is
  inside a frame only when frames have several, and then nobody else writes.
* `MemoryApart`: `ArenaSpec => []ArenaSound`, for any alignment, header that is a multiple of it, block and
  request sizes, and any sequence of allocations, failures and errors. `ArenaSound` says where memory
  ends in its block, which is not enough to take more of the block: `MemoryInv` has that every area ends below what its
  block counts as used, that this is aligned (`AlignUpAligned`), and that blocks have numbers of their own, so that
  new memory, which is what was not used of the first block (`TakeSound`), lies behind
  all there was (`AllocSound`). `CleanupInv` has that the functions that ran and the entries still to run
  are together those registered, last first, in memory that is held.
* `TablesAgree`: in every state of `TableSpec` lookups, counts and iterators agree with `dict`, for any set of
  keys, any hash function, any size of both parts and any sequence of operations, compaction included.
  `TablesAreSound` adds that no assertion of the code fails, under `NeverFull`. The invariant (`TableInv`):
  - *Chains* (`Chained`). For the used slots there are depths such that a chain starts in the main position of its
    keys, the next slot is deeper and has the same main position, and every other slot has exactly one before it. So
    the walk of `Chain` ends (`ChainClosed`: it grows at each of as many steps as there are slots, or has ended)
    and reaches every slot with that main position (`ChainWhole`). The depths are
    not in the code; they are what keeps a cycle of `next` pointers out. `PutFree`, `PutBehind` and `Evict` show
    that each way of inserting keeps them, `DropAlone`, `DropHead` and `DropInner` each way of removing.
  - *Contents* (`Agrees`). The pairs in both parts are those of `dict`, and a key is only in the part
    it belongs to. Rehashing and compacting copy in the order of slots and of the iterator (`Rehashed`, `CopiedAll`).
  - *Iterators* (`IterOK`). The places of a table, those of the array part first, are numbers; an undisturbed iterator has returned
    exactly the keys of the places up to its own, each once (`Advanced`, `VisitedOK`).

  `NeverFull` says that the table has no array part, or that the keys together fit a hash part of
  the largest size `log2ceil()` returns (`TablesFit`). It is needed: `compact2()` asserts at its end that the new hash part did not grow (`upb.c` line 5853),
  and because `log2ceil()` is capped at `UPB_MAXARRSIZE` = 16 (line 5237) it starts too small with more than 55,705 keys that are
  too sparse for the array. Nothing is lost then (`TablesAgree` has no such hypothesis), but a build with assertions stops.

* `EncoderCorrect`: `EncoderSpec => []EncodesMessage`, for any fields, values and strings, any initial sizes of the buffer
  and the segments, any depth of the stack and messages of any length, with a reallocation that fails anywhere.
  `EncodesMessage` speaks of the output only, which outside regions is the whole message; inside them the bytes lie in
  the buffer, without the lengths that go between them. `EncoderInv` is about both. `Holds` says what the buffer stands for:
  there are places where the segments end (`IsEnds`) and, for each segment, the bytes it and the ones before it put since
  the innermost of the open regions that begin there began (`Content`: a segment that opens a region still open begins anew, every other
  one goes on, with its own length first); what the open regions are wanted to hold is
  what lies between the segments they begin with, and their lengths are counted up to the last seam (`Regions`).
  It is kept by bytes appended (`Appended`), by a seam (`Accumulated`), by a region that begins (`Started`) and by one that ends
  inside another (`InnerEnds`: its length and all that follows are joined to what the region around held);
  where the outermost ends, the loop of `end_delim()` puts just that (`EmittedIs`). `Bounds` is what holds also after a
  failure: `reserve()` doubles often enough (`DoubledEnough`), so that no byte lies past the limit. The number of open regions
  is that of the delimited fields that enclose (`OpenFields`), so that no region is ended that was not begun.
  `EncoderAssumption`: sizes are not 0, and the encoding of a number of type varint has no more bytes than are reserved for it.

Induction over data. The library's induction theorems cannot be used, but a non-empty set of natural numbers has a least
element (`LeastElement`, from the well-founded order), and that is enough for what a recursive function does step by step:
`UpTo` carries a fact from 0 to `n`. That such a function exists at all is proved first (`Power2Def`, `ChainDef`, `RehashDef`,
`CopyDef`): the functions up to `n` that satisfy the recursion agree where they are both defined. In `PbEncoder_proofs`
the invariant provides the function itself (`EndsAre`, `EmittedIs`).

The instances of the runs satisfy the assumptions of the theorems they share a property with.

Only model-checked: `Drained`, `EventDelivered`, `LoopEnds`, `LossNoticed` and `ForksEnd`, which
need fairness; reference counting, whose `freeze()` is Tarjan's algorithm on any graph and whose operators are
recursive, which the prover cannot see into; definitions, the descriptor pool, the bytecode compiler and decoder, JSON and the message
objects, for the same reason.
`StringTablesSound` is `TablesSound` of another instance; the theorem covers it, since `InitArray` is a parameter.

## Plan

1. `RefCounted` with recursive functions in place of recursive operators, and then, in this order: `Merge`, `Ref2` and `Unref` on
   objects that are never frozen, the passes of `freeze()` for any partition that `Analyse` returns, Tarjan's algorithm itself.
2. Of the descriptor pool: what holds of a file that is added without looking into the recursion.
3. The encoder's `wanted` decoded again: that a reader finds the fields in it, for messages of any length.

## Not modelled

* Requests, RxPHP and the Composer loaders are third-party libraries, seen
  only through their results and exceptions; the observer's `isStopped` is in `EventLoop`. The HTTP interface
  of the server is outside the repository, and so are its answers: a device token that
  expires (line 400 fetches it once), or a handshake that is cut (`Version1X` line 317 reads up to
  100 bytes past its headers).
* `getDeviceIdWithDeviceKey()` changes no state; timestamps and event objects are
  conversions (a timestamp of 0 is taken for none, `DeviceUtils.php` line 12). Zombies: `call()` never
  waits for its children (`Fork.php` line 50). `__destruct` is empty.
* `Decoder.php` and masking: the client never calls the former and the latter is its own inverse.
* protobuf in PHP has the same interface as the extension; where it is loaded instead, the binary format is read and
  written by plain recursive functions. The modules here are of the extension.
* Registration of handlers: the program builds them by callbacks of its own and freezes them at once.
  The text printer is not reachable from PHP. Type conversions are pure: `MessageCalls` has their outcomes.
* Services, options, extensions and the duplication of definitions; lazy submessages with handlers of
  their own; unknown fields kept for output; `clone` and `discardUnknownFields()`; floating-point text.
