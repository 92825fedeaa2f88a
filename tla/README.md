# NaiveServ: specifications, model checking and proofs

NaiveServ is a small web server: one *core* thread accepts TCP connections and
starts one detached thread per connection. It reads its configuration with a
JSON library that lies in its own tree, `src/lib/rapidjson`, and that is most of
its code. This directory holds TLA+ modules translated from both, TLC
configurations that check them on small instances, and proofs of the safety
properties, the action properties and the refinements, which TLAPS checks for all
values of the constants.

Paths below are relative to the repository (`src/sock/sock.cpp` is a file of the
server, `lib/rapidjson/reader.h` one of the library).

## 1. Inventory of the system

| Component | State it keeps | Operations | Talks to |
|---|---|---|---|
| `Socket` (`src/sock`) | `status_`, the handles `socket_` and `accepted_`, addresses, a static counter | `InitSocket`, `Bind`, `Listen`, `Connect`, `Accept`, `AcceptNew`, `Send`, `Receive`, `Close`, `Reset`, moves, destructor | the kernel's descriptor table, shared by all threads |
| `Worker` (`src/server/worker`) | its `Socket`, its `std::thread`, `done_` | constructor (starts the thread), `HandleConnection`, `FetchData`, `done` | the client by its Socket; the core by `done_`; parser, router, responders |
| `Core` (`src/server/core`) | the listening `Socket`, a `forward_list<Worker>` | `StartListen` (accept, reset after an error, emplace, sweep) | workers (creates, destroys), listener |
| Parser, response (`src/http`) | one request, one response | `Parse`, `GetFieldValue`, `AutoFill`, `ToString` | called by workers; what they make of a request goes to the router, what they make of a response to the client |
| Router, responders (`src/server/responder`) | table of prefixes, built once | `GetResponder`, `AcceptRequest` | called by workers; files |
| Configuration (`src/config`) | the settings, read once | `ReloadConfig`, `ReadConfig`, `ReadRule` | read by all |
| Daemon, `main` (`src/daemon`, `src/main.cpp`) | none | restart loop; SIGINT handler | the server process |
| Logger, singleton (`src/util`) | a global stream and its mutex; a once-flag and an instance for each of Core, ConfigReader, Router | `operator<<`; `Instance`; destruction by `exit` | called by all threads; constructors call each other |
| String helpers (`src/util/strop.h`) | none | `StrSplit`, `GetStrSuffix`, `StrEndsWith`, `NormalizeURL` | called by responders |
| JSON reader (`lib/rapidjson/reader.h`) | a stack, the place in the text, an error | `Parse`, `IterativeParse`, `IterativeParseNext` | told to a handler event by event; configuration |
| JSON numbers (`internal/strtod.h`, `diyfp.h`, `dtoa.h`, `itoa.h`, `biginteger.h`) | none | decimal to double and back; integers to text | reader, writer |
| JSON encodings and streams (`encodings.h`, `encodedstream.h`, `file*stream.h`, `stringbuffer.h`, `internal/stack.h`, the pool of `allocators.h`) | a buffer and a place in it | encode, decode, detect; `Peek`, `Take`, `Put`, `Flush`; push and pop | reader, writer, document |
| JSON document (`document.h`) | values with flags, arrays and objects with a capacity, memory | construct, assign, copy, add, erase, compare, `Accept`; handler of a parser | configuration |
| JSON writer (`writer.h`, `prettywriter.h`) | a stack of levels | one method per event | `Accept` of a document |
| JSON pointer (`pointer.h`) | tokens and the memory of their names | parse, stringify, compare; `Get`, `Create`, `Set`, `Swap`, `Erase` | documents |
| JSON regular expressions (`internal/regex.h`) | states and ranges | parse, `Match`, `Search` | schemas |
| JSON schema (`schema.h`) | a tree of schemas | validation | nothing in the server; not modelled |

The library is modelled because the server depends on what it makes of a
configuration, because it is in the tree and built with it, and because its
algorithms are the kind of code that tests sample and a model checker exhausts.

What is hard in it, and what correctness means there:

* **The sweep.** After each turn of its loop the core removes finished workers
  from the list, but `erase_after(prev)` gets an iterator that lags behind
  `it`, so that workers are destroyed while their threads run. What survives
  that? No descriptor may leak, no connection may be closed by the wrong
  destructor, the list must stay a list.
* **Descriptors are numbers.** They are reused at once, `Socket` keeps several
  copies of the same number (both handles of a moved Socket, `accepted_` of the
  listener), and closes each copy, in steps that other threads interleave with.
* **The thread starts inside the constructor**, before the last member of its
  object is initialised.
* **Errors are told by status**, not by results: `StartListen` looks at the
  listener, `FetchData` looks at `len` only.
* **Liveness.** The listener must come back, the queue must drain, threads must
  end.
* **FetchData** keeps an address across `resize`, through which `recv` may write
  anywhere after it, and three variables (`pos`, `len`, the string's size) in step
  for every way `recv` may cut the stream.
* **Routing.** One pass over the table keeps the best prefix so far; the debug
  page shows the configuration, not the table; the file responder cuts a length
  from the URL that comes from an argument, not from the rule that matched.
* **Half-read configurations.** `ReadConfig` stores members while it checks
  them, and must undo all of them when a later one is bad. Some bad files end
  the process instead, and the daemon starts it again.
* **Text that may be cut anywhere.** `Parse` looks for characters that a partial
  request does not have; a client finds the end of a response by its length,
  which a partial `send` makes untrue.
* **Sharing behind the scenes.** Singletons are built on first use by whichever
  thread comes, from within each other; messages of several parts lock the
  logger part by part; `exit` runs destructors while the threads go on.
* **A class that is used in a few of its ways.** What `Socket` does with its two
  handles in any order of its public methods is more than the server asks of it.
* **Arithmetic at its limits** (the library): products cut to 64 bits, borrows,
  indices that wrap, signed and unsigned values of the same bits, the last digit
  of a double.
* **Several programs for one grammar** (the library): three parsers, one of them
  a table, must tell a handler the same of every text.

`PROJECT.json` lists every hazard at its line, with the properties about it.

## 2. The modules

```
Sock          operators: class Socket and the descriptor table
  Worker      EXTENDS Sock: the worker threads and the clients
    Server    EXTENDS Worker: the core; the whole server; its properties;
              INSTANCEs Connections, what clients are promised
      MCServer          symmetry for TLC
      ServerProofs      theorems about Server; Server implements Connections
  SockApi     EXTENDS Sock: the class by itself, any public method in any order
    MCSockApi           symmetry for TLC
    SockApiProofs       theorems about SockApi
Connections   the abstract specification of the server
FetchData     Worker::FetchData at the level of bytes; INSTANCEs Worker, whose
              steps for a fetch it implements
  MCFetchData           module for TLC
  FetchDataProofs       theorems about FetchData
Router        the table of rules, GetResponder, what a responder cuts from the URL
              and the path it makes of the rest
  MCRouter              URLs and rules for TLC
  RouterProofs          theorems about Router
Service       daemon, server process and configuration file
  MCService             module for TLC
  ServiceProofs         theorems about Service
Process       singletons, logger, exit() in the signal handler
  MCProcess             module for TLC
  ProcessProofs         theorems about Process
HttpParser    HTTPParser::Parse on a request that may be cut anywhere
Http          responses on a connection, and the client that reads them
  HttpSymbols           the symbols of both
  HttpProofs            theorems about HttpParser and Http
JsonRecursive EXTENDS JsonBuilder: the recursive parser of the library, lexeme by
              lexeme, building a document; INSTANCEs JsonIterative, the other
              parser of the same texts, which it implements
  JsonIterative         EXTENDS JsonBuilder (lexemes, the document's stack) and
                        JsonStates (the table of states)
JsonCharacters characters that come in one by one, or are put and read again; it
              EXTENDS JsonEncodings (characters and marks) and JsonStreams (the
              file streams and the pool with its stacks)
  JsonProofs            theorems about JsonRecursive, JsonIterative and JsonCharacters
MCTexts       EXTENDS HttpParser, Http, JsonRecursive and JsonCharacters, which it
              runs; inputs for the pure algorithms, and the properties of all of these:
  ConfigVersion   the comparison of versions in the configuration
  JsonReader      the three parsers, character by character
                  (EXTENDS JsonStates; JsonWriter EXTENDS it)
  JsonNumber      decimals, doubles, integers       BigInteger
  JsonDocument    values and their memory           (JsonPointer EXTENDS it)
  JsonWriter      texts of documents
  JsonPointer     places in documents
  JsonRegex       regular expressions as automata
```

**Sock** gives, for each method of `Socket` that the server calls, the record
and the descriptor table it leaves. A Socket is `[status, socket, accepted]`;
the addresses matter to nothing here. The table maps each number to what it
names: nothing, the listener, a file, or the connection of that number.
Connections are numbered in the order of their acceptance. Where a method makes
several system calls, the module gives them one by one (`CloseAccepted`,
`CloseOwn`), and the modules above decide whether other threads can come in
between.

**Worker** is `HandleConnection`, one action per step that other threads can
see: `Loop` (the test of `done_`), `Fetch` (the entry of `recv`), `RecvData`,
`RecvEof`, `RecvReset`, `RecvFault`, `Exhaust`, the responder with or without a
file (`OpenFile`, `CloseFile`, `RespondWithoutFile`), `Send...`, then `Close`: the
handle is read (`BeginClose`), the number is closed, whatever it names by then
(`CloseConnection`), and the result is written (`WriteClosed`, `WriteUnclosed`);
last, the switch on the status (`Switch`) and `done_` (`MarkDone`). The core may
destroy the Worker between any two of these. Whether a request asks for
`Close` is chosen where it matters. `obj` and `done` belong to heap nodes,
not to threads: `this[t]` is the node of thread t, and nothing stops the node
from being freed and given to another Worker. A thread whose node is freed
either goes on with what the destructor left there or the process dies
(`TouchFreed`): the code is undefined there and these are the outcomes.
The clients close (`ClientClose`: end of stream) and abort (`ClientAbort`:
reset); a reset connection makes `send` fail, or ends the process by SIGPIPE,
which the program does not ignore.

**Server** adds the core. The steps of one turn of `StartListen`:

```
boot --OpenListener--> accept --AcceptOk / AcceptFail / AcceptNull--> dispatch
dispatch --Spawn--> build --Build--> sweep           (a new Worker)
dispatch --Reset--> reopen --OpenListener--> sweep    (the listener's error)
sweep --SweepSkip / SweepErase, Reap1, Reap2 / SweepCrash / SweepEnd--> accept
```

`Spawn` and `Build` are the two parts of `emplace_front`, between which the
thread already runs; `Reap1` and `Reap2` are the two `close()` of a destructor.
Iterators are positions in `list`; an erase that destroys the element under
`it`, or that has no element to destroy, is a crash (`SweepCrash`).
`accept` reserves its descriptor before it waits, so that the number it returns
may be any free one; the other calls take the lowest. `Fault` lets any of the
listener's system calls fail, up to `MaxFaults` times; EMFILE comes by itself
when the table is full. A reset loses the connections in the queue.

**FetchData** numbers the bytes of the stream. `stale` says that `resize` has
moved the string since its address was taken. What `recv` writes from then on is
undefined, and the allocator decides what it hits, so the model takes each
outcome: the bytes fall into the string where it is by now, at any place, wholly or
in part (`Places`: a usual allocator puts the longer string just behind the memory
it took back, where the next write goes); they miss it; `recv` fails with EFAULT
(`RecvFault`); or the heap has been written over, which may end the process then or
at any later step (`Collapse`, in Worker `Overrun`). `harmed` says that there has
been such a write. What it does to the objects of others, for example to a
string of another thread, is not modelled: of a process that is harmed nothing is
claimed about bytes, and the other modules are about processes in which the
writes hit no object of theirs. `Memory` is the longest string that can be
allocated.

**Router** builds the table from any configuration (`ReadDefault`, `AddRule`,
`Constructed`: the constructor) and then answers requests: `GetResponder`,
`Visit` for each entry of the table, `Found`, and the URL's part of
`AcceptRequest` (`Serve`, `NotImplemented`, and `Abort` for the assertion). A
URL is a sequence of characters: slashes, dots and others. A rule has the name of
its responder and the prefix to cut, the file responder's first argument. What is
left of the URL becomes a path below the root, name by name, as `StrSplit` cuts
it and `NormalizeURL` keeps or drops it (`SplitPart`, `LastPart`), and the index
page is put behind a path without a suffix. The `std::map` is walked in any order,
which includes its own.
The modules above see a routed request as one step of a responder.

**Service** is the life of the process: `RunDaemon` (`StartServer`,
`DaemonEnds`, `DaemonRestarts`), and in each new process `ReloadConfig`:
`ParseFile`, the checks of `ReadConfig` in their order (`CheckPasses`,
`CheckFails`, `CheckAborts`), `UseDefaults`. Each member of the file is good,
wrong or missing; `settings` says where each setting comes from. `Edit`
changes the file, `Crash` ends the process by a signal (what `TouchFreed`,
`SIGPIPE` and `Abort` do in the other modules), `SignalHandler` is SIGINT.
`system` runs a shell: if the shell does not `exec` the server, a signal reaches
the daemon as an exit status and ends it; `ShellTells` says which shell it is.

Worker abstracts a fetch to its outcomes; FetchData is what they come from:
`RecvData` to `RecvBytes` with `Grow` or `Return`, `RecvEof` to `RecvNothing`,
`RecvReset` and `RecvFault` to the actions of these names, `Overrun` to `Collapse`
and to `NoMemory`, also when the loop of `RecvRefused` and `Grow` ends there.
That this is so is a property of
FetchData, `FetchesAsWorker`: with one thread, one connection and the mapping
given in the module (`SeenAs`, `InRecv`), each step on the bytes is the step
that Worker has for it, or one that no other thread could see.

**HttpParser** is `Parse`, an action for each of its loops: the method and the
URL, the version, then each line with its name (`ReadName`) and its value
(`EndLine`), and the data. A request is a sequence of symbols and may end
anywhere. Reading behind the end of the string (`RunPastEnd`, `LookPastEnd`), the
exception of `substr` (`NoURL`) and a version that `int` cannot hold are places
where the machine ends.

**Http** is a worker that makes responses and sends them, and the client at the
other end. `BeginResponse` is the constructor's status line and `AutoFill`,
`WriteField` one turn of `ToString` over the fields, `Send` the empty line, the data
and `send`, which may take any part of the text: after nothing the connection ends, after
a part the worker goes on as after the whole. The client (`ReadLine`,
`ReadEmptyLine`, `ReadData`) goes by `Content-Length` and reads at any time whatever has
come. Both forget nothing: `sent` and `found` are what is compared.

**JsonRecursive** and **JsonIterative** are the two parsers of `reader.h` as
machines that read one lexeme in a step. One keeps the calls of `Parse`,
`ParseObject` and `ParseArray` that have not returned, each with its count and
the place of its next `Peek`; the other a state of the table and its own stack of
states and counts. Both build the document as `GenericDocument` does
(`JsonBuilder`): values are pushed, and the end of an array or object pops as
many as it is told and makes the value below them whole. What is inside a lexeme
and between two of them (strings, numbers, white space, comments) is in
`JsonReader`, which has the same parsers on characters. The sizes of the stacks
have no bound here; the code's counters have 32 bits, which no text in memory
of that size reaches.

**Connections** is what a client sees of the server: whether it is up, how many
connections wait, how many were accepted, which are open. They are accepted one at
a time in their order, closed one at a time and for good; only the queue as a
whole may be dropped. Server implements it with `waiting <- backlog`,
`accepted <- nconn` and `open` the connections that the descriptor table names
(`Promise` and `KeepsPromise` in `Server.tla`). That a step never closes two
connections, although destructors call `close` twice on numbers that change
hands, is what this is about.

**SockApi** takes each public method of `Socket` as one step, on several objects
of one thread, with any call of the kernel failing. Two history variables say
for whom each descriptor was made and which objects may name a number that is not
theirs (`loose`).

**Process** has, for each thread, a stack of frames: its program, and above it
the constructors of the singletons it was the first to need. `call_once` is a
flag that is new, active or done. `operator<<` is two steps under the mutex, for
each part of a message. SIGINT may meet any thread; `exit` then destroys what is
built, the last first, while all other threads run on.

**The text modules** hold functions, not processes: what a method returns, the
state it leaves, and the definition it is compared with, in the last section of
each module ("What is asked of them"). A parser or a writer is a record that its
methods turn into another one. `MCTexts` takes one step for these: from an
initial state for each subject, it chooses one input of a bounded set; each
property says of the subjects it is about what must come out. Nine subjects
are machines which run step by step: "request" is HttpParser, "responses" Http,
"parse" JsonRecursive, and the others are those of JsonCharacters: bytes
("octets") and code units ("units") come in one after the other, an encoding is
chosen and characters are put ("points"), a file is opened and read through its
buffer ("reader"), one is written through another ("writer"), and two stacks push
and pop in one pool ("stacks"). The widths of the integers, the tables and the sizes of buffers are constants, so that TLC can
reach their limits:

* `JsonReader`: numbers have 5 bits, doubles 2 digits and a small exponent, the
  fast path ends at 127; the algorithm of the code is kept, with its constants.
* `JsonNumber`: a `DiyFp` has 14 bits and a double 5 with 4 of exponent; the
  cached powers are recomputed for them, and all 480 doubles are written and read.
* `BigInteger`: digits of 6 bits, up to 6 of them. `JsonDocument`: integers of 4
  bits for `int` and 8 for `int64_t`, short strings up to 2 characters,
  containers that begin with room for 2. `JsonPointer`, `JsonRegex`: indices and
  counts of 6 bits. `JsonStreams`: files of up to 6 bytes, of two values, that are
  read through buffers of 4 and 5 and written through 1 to 3; blocks aligned to 2,
  chunks of 0 to 8 bytes, 3 operations on the stacks.
* `JsonCharacters`: up to 4 bytes, 2 units and 2 characters, from sets with the ends
  of each range of the encodings.
* `JsonEncodings` and `itoa` in `JsonNumber` have the widths of the code.

A string, where its characters matter, is a sequence of symbols; elsewhere it is
one symbol. Reading past the end, an exception and a call that never returns are
outcomes of these functions, not left out.

## 3. What is checked

| Run | Expect | Bounds | What it shows |
|---|---|---|---|
| `server_safety` | pass | 3 descriptors, 2 connections, 2 nodes, files, Close, 1 fault | `IInv`, `NoLeak`, `SecondCloseMeetsNoConnection`, `ResetSparesConnections`, `KeepsPromise` |
| `server_three` | pass | 3 descriptors, 3 connections, 2 nodes, no file, no Close | `SeparateConnections` |
| `server_live` | pass | as the first, no file, no Close, fairness | `ListenerRecovers`, `BacklogDrains`, `ThreadsEnd` |
| `fetch` | pass | buffer of 2 bytes, 8 bytes sent, memory of 8, fairness | `IInv`, `ArrivesUnlessHarmed`, `FetchesAsWorker`, `EofEndsFetch`, `WaitsOnlyAtBoundary` |
| `router` | pass | URLs of up to 2 of 2 characters and 8 longer ones with dots, 3 nested rule URLs, 5 rules | `IInv`, `LongestRuleWins`, `ShowsWhatItUses`, `CutsItsPrefix`, `FilesStayBelowRoot` |
| `service` | pass | 2 crashes, 2 edits, fairness | `IInv`, `WholeFileOrDefaults`, `ServiceReturns` |
| `sock_api` | pass | 3 descriptors, 2 objects, 2 Sockets of nullptr | `OnlyLooseSocketsShare`, `ListeningMeansListener`, `TalksOnlyMoved`, `CounterDrifts`, `LosesOnlyByMove` |
| `process` | pass | main and 2 workers, 2 messages, 1 SIGINT, fairness | `DestroyedAfterItsReaders`, `LogKeepsEveryPart`, `NoCircularWait`, `InstancesReturn` |
| `texts` | pass | some 240,000 inputs, listed in `MCTexts`; 2 responses, `send` taking any part of them; all JSON texts with up to 4 calls open and 5 values on the stack | `ParsesWholeRequests`, `ReadsWholeResponses`, `ReadsJson`, `BuildsOneRoot`, `ParsersAgree`, `NumbersKeepTheirValue`, `CharactersSurvive`, `DocumentsKeepTheirValue`, `NamesFindTheirPlace` |
| `sweep_only_done` | violation | 2 connections | the sweep erases a worker that is not done |
| `done_flag` | violation | 2 connections | a thread has ended and `done_` is false |
| `fetch_bytes` | violation | as `fetch` | a fetch returns other bytes than were sent |

`IInv` contains `TypeOK` and the smaller invariants that have a theorem of their own
(`NullMeansError` and `ListIsSound` in Server, `RoomForRecv` in FetchData, and in
its `Accounted` also `NothingSkipped`).

The properties in words:

* `NoLeak`: every open connection is named by a handle of an existing Worker or
  of the Socket just accepted, whatever the sweep has destroyed.
* `NullMeansError`: when StartListen looks at the listener's status, it is
  Error exactly if AcceptNew returned an empty Socket.
* `ResetSparesConnections`: resetting the listener never closes a connection,
  although the listener keeps the number of the last one. It holds because the
  failed `accept` that leads to the reset has overwritten that number.
* `SecondCloseMeetsNoConnection`: the destructor's second `close` of the same
  number meets a free number or a file, because only the core's own thread,
  which is busy in the destructor, makes connections.
* `ListIsSound`: no node is in the list twice or while being built or destroyed.
* `SeparateConnections`: if nothing but destructors closes descriptors, each
  Connected worker in the list owns an open connection of its own.
* `ListenerRecovers`, `BacklogDrains`, `ThreadsEnd`: see the comments in
  `Server.tla`. Each allows the process to die, which several actions do.
* `ArrivesUnlessHarmed`: as long as no `recv` has written through a stale address,
  every fetch returns exactly what was sent, also from a string that has moved;
  and only a `recv` that brings more than the first buffer of a request does that
  harm. Once it is done nothing is certain, not even the first buffer.
* `FetchesAsWorker`: what other threads can see of a fetch is what Worker lets
  it do, also where Worker chooses freely; in particular it never returns after
  a Receive that failed.
* `EofEndsFetch`, `WaitsOnlyAtBoundary`: see `FetchData.tla`.
* `LongestRuleWins`: the responder found is that of the valid rule with the
  longest prefix of the URL, or the default. A rule for the empty URL never
  applies (`router.cpp:68` wants a length above 0), although the page shows it.
* `ShowsWhatItUses`: what `PrintRouterRules` reads from the configuration
  agrees with the table that the constructor made from it.
* `CutsItsPrefix`: if each file rule cuts a prefix of its own URL, the assertion
  of `normal.cpp:70` never fails, and what is cut is that prefix. Without this
  condition the assertion can fail, which ends the server (`Abort`).
* `FilesStayBelowRoot`: the file opened for a URL lies below the root, at the
  names of the URL in their order without the dots that are dropped, or is the
  index page there.
* `WholeFileOrDefaults`: a serving process uses all of the file or none of it.
* `ServiceReturns`: once the file no longer makes the server abort while it
  reads it, the server serves again and again, unless it is told to end.
* `KeepsPromise`: the server does what Connections allows, and no more.
* `OnlyLooseSocketsShare`: a Socket names the descriptor of another one only if
  `AcceptNew` has left it the handle, if `Close` has left it a number it had
  closed, or if such a Socket has closed its own.
* `LosesOnlyByMove`: no open descriptor is left without an owner that names it,
  but by moving a Socket that has it in `socket_` alone, as a listener has.
* `ListeningMeansListener`, `TalksOnlyMoved`, `CounterDrifts`: see `SockApi.tla`.
* `DestroyedAfterItsReaders`: of the singletons complete at SIGINT, the
  configuration goes after those that read it, although other threads may finish
  building more of them meanwhile.
* `LogKeepsEveryPart`: every part inserted by any thread is in the log, also
  when messages mix.
* `NoCircularWait`: no threads wait for each other in a circle, through the
  once-flags of the singletons and the mutex of the logger, and whoever waits
  waits for a thread that exists.
* `InstancesReturn`: threads that wait for a constructor run by another get the
  instance.
* `ParsesWholeRequests`: a request with its whole header and at least one field
  is parsed as the client wrote it, whatever its values and data hold. One whose
  header is cut makes `Parse` run past the end of the string, unless it is cut at
  the end of the version: then it is taken for a request without fields and data.
* `ReadsWholeResponses`: a client that goes by `Content-Length` reads the
  responses as they were sent, and never waits for a part of one, as long as `send`
  takes all of each; after the first of which it took less, the client never has all
  that were sent.
* `ReadsJson`: the texts of the grammar, written down as a definition of its own,
  are accepted, and no others; the events are those of the value.
  The three parsers tell the same events, the same error and the same place; the
  differences in error codes are listed at the definition.
* `BuildsOneRoot`: what a closing bracket pops from the document's stack are the
  members or elements of the value it closes, each of them whole, and behind a
  parse that succeeds there is one whole value on the stack: the assertion of
  `ParseStream`.
* `ParsersAgree`: each step of the recursive parser is a step of the iterative
  one, building the same document and ending with the same error, with one
  exception in the code of an error.
* `NumbersKeepTheirValue`: what is read is the nearest double, or the exact
  integer in the narrowest type; what is written is read back, and as short as it
  may be; big integers and cut products are exact where they have to be.
* `CharactersSurvive`: exactly the forms of scalar values decode, in all
  encodings, and what a stream, a buffer or the stack was given comes out.
* `DocumentsKeepTheirValue`: every sequence of operations leaves a value with
  one type and all memory owned once; equality is that of meanings (but for the
  sign, section 5); a parse that fails or stops leaves the document; what a
  writer writes is read as the same.
* `NamesFindTheirPlace`: a pointer written and parsed is the same; it changes its
  own place of a document only; an expression accepts its language, defined by
  recursion on the expression and not by automata.

Exceptions are written as part of these properties, with the code's line: a
property then fails if the exception grows, and also, where it says "if and only
if", if it vanishes.

**Why the bounds are enough.** Three descriptors hold the listener and two
connections, so that accepting a third needs a number that was closed: in
`server_three` numbers and nodes are both reused. Two nodes suffice there,
because in that run each Worker in the list holds a descriptor. In
`server_safety` two connections already give an erased worker whose thread is
running, a live one, and a listener with a stale alias; a file takes the number
that a destructor is about to close again. A buffer of 2 bytes and a memory of 8
leave three growths, so that the string may move before the second and again
before the third piece. Rules of none, one and two characters, and URLs of
none to six, are shorter, equal and longer than each other, and prefixes of
prefixes, visited in every order; the longer URLs have a dot, two and three, as
whole parts and inside names, and empty parts. Two edits make and mend a broken
file, before or after a crash, and the second crash finds a process that was
itself restarted. Two Sockets are what every method of the class needs; one descriptor
more than a Socket can hold, with those of the other, brings the table to its
limit. Two workers and main are three threads at three singletons, so that a
cycle of constructors can close; four parts of two messages mix in every way.
Texts of JSON have up to 4 lexemes with each kind of bracket, so that containers
nest twice, and as lexemes alone any number of them with four calls open, so that
each kind of container stands in each kind and between other values; operations
on documents go in sequences of up to 4, which passes the
growth of a container that begins with room for 2 and the moves of its last
member. Nodes and Sockets are interchangeable, and permuted by a symmetry in the
runs without liveness. `server_live` instead takes a given node for the first Worker
(`FirstNodeGiven` in `MCServer`): it leaves out behaviours as a whole, of each of which
it keeps the twin with the nodes renamed.

**Deadlock** is not checked: the server rightly waits when no client acts, and
a process that has died takes no step.

**Fairness** in Server is weak fairness of the core's loop (`CoreStep`) and of each
thread (`ThreadStep`): operating-system threads that are not blocked run on.
A `recv` or `accept` that waits is not enabled, so that fairness does not
wait for it. Nothing is assumed of the clients, of the arrival of data
(`RecvData`), of failures, or of what touching freed memory does. A `send` may
really block while the client does not read; `ThreadsEnd` is about clients that
have all aborted, where it cannot, and the other properties do not depend on it.

In Service it is weak fairness of the daemon (`DaemonStep`) and of the process
while it reads the file (`ReadConfig`); crashes, SIGINT and edits are not fair.
In FetchData it is that of the fetching thread. In Process it is that of each
thread: a mutex that is given back is taken by one that waits, which weak
fairness of a step that others disable does not give by itself;
`InstancesReturn` holds without more since the log is bounded. The signal and
the start of workers are not fair.

**Mutants.** Next to an operator there may be one with a changed form
(`MovedEmpty` before `Moved`), with a comment that tells the change. It is a
plausible bug, and each property of a passing run fails with one of them, which
shows that the property says something about the code. The specifications do
not use these operators. `PROJECT.json` pairs them with the properties.

## 4. What is proved

Eight modules hold theorems: `ServerProofs`, `SockApiProofs`, `FetchDataProofs`,
`RouterProofs`, `ServiceProofs`, `ProcessProofs`, `HttpProofs` and
`JsonProofs`. `PROJECT.json` lists the theorems a reader should know. All
hold for every value of the constants that satisfies the named assumptions, and
each inductive invariant but one was first checked by TLC: `IInv` of Server, FetchData,
Router and Service is an invariant of their runs; `IInv` of SockApi, `LogInv`,
`StackInv` and `BuiltInv` of Process, `ParserIInv`, `ResponseIInv` and `ParsingIInv`
were added to `sock_api`, `process` and `texts` for this, and hold there too.
`StreamsInv` quantifies over all sequences and was not run; what it implies is part of
`CharactersSurvive`.

**Server.** `ServerProofs` proves that the safety properties above are
invariants of `Spec`, and the action property `ResetSparesConnections`, for any
descriptors, connections, nodes and failures, with or without files and Close.
None of the properties is inductive by itself. `IInv` is the conjunction of:

* `CoreShape`: where the core is tells which of `cur` and `got` is in use;
* `ListenerShape`: a listener in Error has no alias, and the listener's own
  handle never names a connection; this gives `ResetIsSafe`;
* `WorkerShape`: a Worker's `accepted` is Invalid or equals its `socket`, so
  that its destructor cannot close two different descriptors;
* `EachHeld`: `NoLeak` stated for the one handle, `socket`, that stays valid
  when a thread's `Close` gives up `accepted`;
* `Ownership`: under `NothingElseCloses`, all handles of Workers are distinct
  and open; it is stronger than `SeparateConnections` because it also covers
  the node being built and the Socket in `got`;
* `TypeOK`, `ListIsSound`, `NullMeansError`, `SecondCloseMeetsNoConnection`.

The threads have many actions but few effects on what `IInv` speaks of:
nothing, a status set to Error, a descriptor opened or closed for a file, and
`Close`. The proof classifies each thread action by its effect in a lemma and
then treats the effects, and the core's actions one by one.

**Server implements Connections** (`ServerKeepsPromise`).
The mapping takes a connection for open if a descriptor names it, and the queue
and the number of connections as they are. Each step of Server is then a step
of Connections or changes nothing there: the accept of a connection is `Accept`,
the reset of the listener is `DropQueue`, and a `close()` closes one connection
or none (lemma `OneClose`, which uses that a descriptor table gives one number at
most one connection). The invariant is what keeps the reset from closing a
connection together with the queue.

**SockApi.** Its `IInv` gives every open descriptor an owner, the Socket that
got it from the kernel or was moved it, and says that an owner names what it
owns (`OwnersName`), that a Socket which is not loose names only what it owns
(`OwnedOrLoose`), and what each status says of the two handles
(`HandlesFollowStatus`). A Socket in Listening does not own the number
in `accepted_` (`ListenersKeepNoneOfTheirOwn`); otherwise the next `AcceptNew`
would overwrite the only name of a descriptor. As the
invariant speaks of one Socket at a time (`Safe`, `Sound`), the proof treats
each method once, for its own Socket and for the others. The descriptors lost
are then those that are nobody's (`LostAreNobodys`), and `Move` is the only
method after which there can be a new one. The counter is proved by counting
Sockets (`CounterIsShort`).

**FetchData.** For any buffer of at least one byte and any memory: `Accounted`
relates `read` to `base`, `pos` and `len`, and fixes `len` at the buffer's size
once a call has failed; `MovesLate` says that the string cannot have moved before
the first buffer was full; `PrefixIntact`, which like `ArrivesUnlessHarmed` is about a
process that is not harmed, says that the string then holds what was sent up to the
place where the next `recv` writes. Both parts of `ArrivesUnlessHarmed` follow
(`UnharmedBytesArrive`). `WholeBuffers` says that `pos` is a number of whole buffers, from which
`FetchAsksAtBoundary` follows: a fetch calls `recv` again only behind whole
buffers.

**FetchData implements Worker's fetch** (`FetchImplementsWorker`). A state of the
fetch is seen as one of Worker's places (lemma `SeenLocations`); then one lemma for
each action of FetchData shows which action of Worker it is. The invariant is
what shows that no fetch returns with the status Error, which Worker leaves open,
and that what waits in `recv` has nothing of the stream behind it.

**Router.** For any URLs, rules and tables: `TableGrows` says that the table
holds exactly the shown rules that the constructor has passed, `BestSeen` that
`max_prefix_len` and `cur_resp` describe the longest match among the entries
visited. That one URL has only one prefix of each length (`PrefixUnique`) then
makes the longest rule unique, and that a prefix of a prefix is a prefix gives
`CutsItsPrefix`. For the path (`RouterStaysBelowRoot`), `PathGrows` says that
`StrSplit` always stands behind a slash or at the beginning, and that the names
of what it has passed are those of the path so far; a part that is kept adds one
name to both (`SameNames`), and a slash adds none (`SlashAddsNoName`).

**Service.** For any number of crashes and edits and for both kinds of shell:
`TakenSoFar` says that all checks before `next` were passed by the document in
memory and have stored their settings, `FailedForAReason` that a process gives up
only on a bad document.

**Process.** For any number of threads and messages. The log (`LogInv`): a thread
that has looked up the end of the stream holds the mutex until it has written
there, so that the end is still the end. The singletons (`StackInv`): above a
thread's program stand frames of constructors, each asked for by the one below
and marked as active, no two of the same singleton in the whole process; and a
constructor past its first instruction has the ConfigReader. From this (`BuiltInv`):
a reader is finished after the ConfigReader and stands behind it in the list that
`exit` works off from its end, unless it was finished after `exit` had
begun, which is why the property is about those complete at that time.
No circle (`NobodyWaitsInACircle`): a thread that waits for a constructor waits for
the one that has its frame; a constructor asks only for the ConfigReader,
whose own constructor asks for nothing but the logger; and who holds the mutex
waits for nothing. So a chain of waiting threads has at most three links, for any
number of threads.

**HttpParser** (`WholeRequestsAreParsed`). For requests of any length, with any
symbols: `FindsMeaning` says, for every way to read the request as one of the
grammar, that what `Parse` has found when it stands at `now_pos` is what lies
before `now_pos` (`FoundSoFar`); the fields are those of the lines up to there, of
each name the latest. `StaysInside` says that a line that has ended does not end
the string, so that only a header that is cut can lead `Parse` out of it.

**Http** (`ResponsesAreRead`). For any responses, any names and values of fields
without a line feed, any number of requests, and `send` taking any part of each.
`StreamHolds` says where in the stream each response lies: behind the sizes of those
before it, its lines one behind the other, each closed by CRLF, then an empty
one and the data; and that the stream is as long as the sizes say, or shorter from
the first response on that was not taken as a whole. `ClientFollows` says that the
client stands at the end of what it has found and that, as long as all has come, this
is what was sent. A step of the client keeps it because no line holds a line feed
(`IsLine`): the first CRLF behind `pos` is then the end of the line that was sent
there, whatever the data hold. `TellsLength` says that the lines have a
`Content-Length` and that the last that was read is the length of the data; for this
the theorem `NumbersAreRead` says that the digits of a number are read as that
number, for every number. Once the stream is too short, its length alone keeps the
client from having read everything.

Sizes, sums and numbers are recursive functions, and what they return is proved by
induction. The library's induction theorems have an operator as a parameter, which
the provers here cannot instantiate; but `NatLessThanWellFounded` and `WFMin` speak of
sets only: a set that is not empty has a least element. `StrongInduction` and
`Induction` are stated from them for a set, and `Recursion` for a function of a step
and a first value, so that a definition by recursion exists and obeys its equations.

**The two parsers** (`CallsAndDocument`, `OneRootIsBuilt`, `ParsersBuildTheSame`).
For texts of any length and depth and each set of flags. `CallsNest` gives the shape
of the calls: `Parse` first, each other one called from where a value may
stand. `DocumentLaidOut` relates them to the document: there is a place `base[i]`
for each call, where its container was started, and behind it lie as many whole
values as the call has counted, with a string for each name, up to the container
of the next call; so what a bracket pops is what belongs to it. The refinement
maps the calls to the state of the table (`StateOf` the last call) and to the
iterative parser's stack (`StackOf` the others: where to come back to, and the
count, which is one less where a value waits for its comma). Each action of the
recursive parser then is one of the iterative one: a lemma for each.

**Characters** (`OctetsAreDecoded`, `UnitsAreDecoded`). For every sequence of bytes or
of 16-bit units, what UTF-8 and UTF-16 accept and what they refuse. The lemmas follow
the table of `GetRange`: a lead byte of each class, with the ranges of the bytes that may
follow it, gives the code points of one interval, and these intervals are the scalar
values (`TwoDecoded`, `ThreeDecoded`, `FourDecoded`); the forms that are too long, the
surrogates and what lies above U+10FFFF are what the narrower ranges leave out.

**Streams and stacks** (`StreamsKeepWhatTheyHold`). For files, buffers and chunks of any
sizes and any sequence of operations. `StreamsInv` has a part for each machine.
`ReaderInv`: the buffer is the part of the file before the place where the stream stands
in it, and `current_` points into it. `WriterInv`: what the file has taken and the
buffer hold, one behind the other, is what was put, unless the disk is full; then the
file is the beginning of it. `PoolInv`: the blocks of
the two stacks lie apart in the chunks of the pool, inside what has been handed out,
and hold the elements in their order; that a push may copy a block into another
chunk (`ResizeElsewhere`) or only move its end (`ResizeAtEnd`) is the harder part.

**Only model-checked.**

* Everything with fairness, as the prover has no ENABLED: `ListenerRecovers`,
  `BacklogDrains`, `ThreadsEnd`, `EofEndsFetch`, `WaitsOnlyAtBoundary`,
  `ServiceReturns`, `InstancesReturn`. Of two of them the part that one state
  shows is proved: `AtBoundary`, and `NoCircularWait`.
* The properties of `MCTexts` about pure algorithms: `ReadsJson`,
  `NumbersKeepTheirValue`, `DocumentsKeepTheirValue` and `NamesFindTheirPlace`, whose
  modules have RECURSIVE operators, which the prover does not reason about. The
  lengths and kinds of the inputs are therefore chosen to reach each branch of the
  code. Of `CharactersSurvive` the decoding, the streams and the stacks are proved, as
  above; the transcoding between encodings and the detection of an encoding are not.
* The runs that show a violation.

## 5. What the runs found

Three runs show a violation of what the code's own comments say:

* `core.cpp:36-38`. "remove all of the workers which is done" (`core.cpp:35`),
  but `prev` is not advanced with `it`: `erase_after` destroys the newest
  worker instead (`sweep_only_done`). The proofs above say what still holds.
* `worker.h:11-12, 29-32`. "indicate if work is done" (`worker.h:31`): the
  thread is started before `done_` is initialised (`done_flag`).
* `worker.cpp:29, 36`. "receive data from client" (`worker.cpp:30`): the
  buffer's address is stale after `resize` (`fetch_bytes`), so that the rest of the
  request is lost, or written over what has been received.

The following came up while modelling. The modules model them as they are, and
the properties name them as exceptions, with the code's line:

* A request that is cut before the end of its header makes `Parse` read past the
  string, or throw (`http/parser.cpp`).
* `send` may take a part of a response; the next response then arrives as the
  rest of it (`worker.cpp:64`).
* Moving a Socket loses the descriptor in `socket_` if `accepted_` has another
  or none, as that of a listener;
  `Close` of a moved Socket leaves it in Listening; the counter of Sockets
  drifts by one with each `Socket(nullptr)`.
* A version is refused if any one of its three numbers is greater than the
  program's, so that a program at 1.1.0 would refuse a file for 0.2.0; with
  0.0.x, as it is, this makes no difference. A version that does not begin with
  a number, or ends after one, is judged by what uninitialised variables hold
  (`ConfigVersion`).
* In the library: subtraction of big integers loses a borrow from a full digit
  (`biginteger.h:199`); a negative integer equals the unsigned one of the same
  bits (`document.h:969`), and the comparison of objects with a name twice
  depends on the side (`:931`); a zero with a large exponent is refused;
  decimals too large for a double become the bits after those of infinity;
  `IsComplete` stays true after a root that was refused (`writer.h:351`); an
  index such as `/5000000000` in a pointer wraps unseen (`pointer.h:969`), a
  copied pointer has another's allocator (`:166`), and `Append` writes beside
  tokens given by the user (`:834`); `a*` is not found in "b" by `Search`
  (`regex.h:667`), `(a*)*` never returns (`:697`), and `a{4294967300}` counts 4
  (`:476`); a text that itself begins with the byte-order mark loses it.
* The three parsers of the library differ in a few error codes; `ReadsJson`
  lists them, at `Agree` in `JsonReader`.

## 6. What is not modelled, and the plan

Left out:

* `schema.h`: validation of documents against schemas. Its state is a tree of
  schemas, each with sets of flags, on which the server does not depend; it is the
  largest part of the library that is left, and the first candidate for more.
* The branches of `reader.h` and `writer.h` for SSE2, SSE4.2 and NEON, which do
  what the plain loops do for 16 characters at a time; parsing in place; failing
  allocations; `ostream` wrappers, forwarding templates, and the macros of
  `rapidjson.h`, which hold no algorithm.
* The HTML of the debug page and of errors, dates, log lines, addresses.
* Windows branches; the samples and the tests.
* A configured buffer size of 0: FetchData assumes at least 1 byte.
* What a write through FetchData's stale address does to objects other than the
  fetch's own string.
* In Server, requests are taken as parsed: which of them ask for the connection
  to be closed is all that Worker knows; HttpParser has what is in them.

Next, in this order:

1. The transcoding of a text between two encodings, as a theorem for texts of any
   length; and the carry and the borrow of one digit (`BigInteger`), which have no
   recursion.
2. Server for a sweep whose `prev` follows `it`: the theorem that it then erases
   only workers that are done, to show that the advance is all that is missing.
3. `schema.h`: validation against the definition of each keyword.
