----------------------------- MODULE FetchData ------------------------------
(***************************************************************************)
(* Worker::FetchData (src/server/worker.cpp) at the level of bytes: one    *)
(* thread collects a request from the stream of its connection into a      *)
(* string that it makes longer by one buffer whenever recv() has filled    *)
(* the last one.  The stream's bytes are numbered from 1; 0 is the filling *)
(* of std::string::resize.                                                 *)
(*                                                                         *)
(* FetchData takes the address of the string's memory once, before the     *)
(* loop, and resize may move the string: stale says that it has.  What     *)
(* recv() writes through the old address can hit the string where it is by *)
(* then, other memory of the heap, or none at all, in which case recv()    *)
(* fails; of other memory the model says only that the heap may notice,    *)
(* and end the process, at any later step.                                 *)
(***************************************************************************)
EXTENDS Integers

CONSTANTS
    K,          \* sock_buffer_size of the configuration
    Memory,     \* the longest string the process can allocate
    MaxSent     \* how many bytes the client sends in a behaviour

\* With an empty buffer recv() would return 0 = K and the loop never end.
ASSUME KAssumption == K \in Nat \ {0}
ASSUME MemoryAssumption == Memory \in Nat /\ K <= Memory
ASSUME MaxSentAssumption == MaxSent \in Nat

VARIABLES
    proc,       \* "up", or "down" when the process has ended
    sent,       \* bytes the client has sent
    peer,       \* the client's end of the connection
    read,       \* bytes recv() has taken from the stream
    status,     \* status_ of the worker's Socket
    loc,        \* where the thread is
    base,       \* bytes taken by the fetches before this one
    data,       \* the string
    size,       \* its length
    pos, len,   \* the variables of these names
    stale,      \* whether data has moved since its address was taken
    harmed      \* whether recv() has ever written through a stale address

stream == <<sent, peer>>
string == <<data, size, pos, stale>>
fetch == <<read, status, loc, base, len, string, harmed>>
vars == <<proc, stream, fetch>>

TypeOK ==
    /\ proc \in {"up", "down"}
    /\ sent \in 0 .. MaxSent
    /\ peer \in {"open", "eof", "reset"}
    /\ read \in Nat
    /\ status \in {"Connected", "Error"}
    /\ loc \in {"start", "recv", "check", "returned"}
    /\ base \in Nat
    /\ size \in Nat
    /\ data \in [1 .. size -> Nat]
    /\ pos \in Nat
    /\ len \in Nat
    /\ stale \in BOOLEAN
    /\ harmed \in BOOLEAN

\* std::string::resize from m bytes to n.
Resized(d, m, n) == [i \in 1 .. n |-> IF i <= m THEN d[i] ELSE 0]

\* The last recv() filled the buffer.  FullIfAny: it gave any byte at all.
FullIfAny == len > 0
Full == len = K

\* The size of the string for one more buffer at p, and at the end.
\* RoomlessSize and TaillessSize leave out the buffer and the last piece.
RoomlessSize(p) == p
NextSize(p) == K + p
TaillessSize == pos
FinalSize == pos + len

Init ==
    /\ proc = "up"
    /\ sent = 0
    /\ peer = "open"
    /\ read = 0
    /\ status = "Connected"
    /\ loc = "start"
    /\ base = 0
    /\ size = 0
    /\ data = [i \in 1 .. 0 |-> 0]
    /\ pos = 0
    /\ len = 0
    /\ stale = FALSE
    /\ harmed = FALSE

At(l) == proc = "up" /\ loc = l

-----------------------------------------------------------------------------
(* The client.                                                             *)

ClientSend ==
    /\ proc = "up"
    /\ peer = "open"
    /\ sent < MaxSent
    /\ sent' = sent + 1
    /\ UNCHANGED <<proc, peer, fetch>>

ClientClose ==
    /\ proc = "up"
    /\ peer = "open"
    /\ peer' = "eof"
    /\ UNCHANGED <<proc, sent, fetch>>

ClientAbort ==
    /\ proc = "up"
    /\ peer # "reset"
    /\ peer' = "reset"
    /\ UNCHANGED <<proc, sent, fetch>>

-----------------------------------------------------------------------------
(* FetchData.                                                              *)

Start ==
    /\ At("start")
    /\ base' = read
    /\ len' = K
    /\ pos' = 0
    /\ size' = K
    /\ data' = [i \in 1 .. K |-> 0]
    /\ stale' = FALSE
    /\ loc' = "recv"
    /\ UNCHANGED <<proc, stream, read, status, harmed>>

\* The string when n bytes of the stream are written behind its q-th byte, as
\* far as they fall into it.  WrittenAtStart: always at its beginning.
WrittenAtStart(n, q) ==
    [i \in 1 .. size |-> IF i <= n THEN read + i ELSE data[i]]
Written(n, q) ==
    [i \in 1 .. size |-> IF q < i /\ i <= q + n THEN read + (i - q) ELSE data[i]]

\* Where in the string buf + pos points: the memory given back when it moved
\* may be anywhere, also where the string has moved to.
Places(n) == IF stale THEN -n .. size ELSE {pos}

\* socket_.Receive(buf + pos, len).
Receiving == At("recv") /\ status = "Connected"

RecvBytes ==
    /\ Receiving
    /\ peer # "reset"
    /\ \E n \in 1 .. len :
         /\ n <= sent - read
         /\ read' = read + n
         /\ len' = n
         /\ \E q \in Places(n) : data' = Written(n, q)
    /\ harmed' = (harmed \/ stale)
    /\ loc' = "check"
    /\ UNCHANGED <<proc, stream, status, base, size, pos, stale>>

\* recv() fails with EFAULT, when the memory given back is no longer mapped.
RecvFault ==
    /\ Receiving
    /\ peer # "reset"
    /\ stale
    /\ read < sent
    /\ status' = "Error"
    /\ loc' = "check"
    /\ UNCHANGED <<proc, stream, read, base, len, string, harmed>>

\* recv() returns 0 at the end of the stream.
\* RecvNothingRetried: as if it had been interrupted.
RecvNothingRetried ==
    /\ Receiving
    /\ peer = "eof"
    /\ read = sent
    /\ UNCHANGED vars
RecvNothing ==
    /\ Receiving
    /\ peer = "eof"
    /\ read = sent
    /\ len' = 0
    /\ loc' = "check"
    /\ UNCHANGED <<proc, stream, read, status, base, string, harmed>>

\* Receive fails and leaves len as it was; FetchData ignores its result.
\* RecvResetEmpty: Receive sets len to 0 when it fails.
RecvResetEmpty ==
    /\ Receiving
    /\ peer = "reset"
    /\ status' = "Error"
    /\ len' = 0
    /\ loc' = "check"
    /\ UNCHANGED <<proc, stream, read, base, string, harmed>>
RecvReset ==
    /\ Receiving
    /\ peer = "reset"
    /\ status' = "Error"
    /\ loc' = "check"
    /\ UNCHANGED <<proc, stream, read, base, len, string, harmed>>

RecvRefused ==
    /\ At("recv")
    /\ status # "Connected"
    /\ loc' = "check"
    /\ UNCHANGED <<proc, stream, read, status, base, len, string, harmed>>

\* if (len == kDefaultBufferSize): one buffer more.
Grow ==
    /\ At("check")
    /\ Full
    /\ NextSize(pos + K) <= Memory
    /\ pos' = pos + K
    /\ size' = NextSize(pos + K)
    /\ data' = Resized(data, size, size')
    /\ \E moved \in BOOLEAN : stale' = (stale \/ moved)
    /\ loc' = "recv"
    /\ UNCHANGED <<proc, stream, read, status, base, len, harmed>>

\* bad_alloc ends the process.
NoMemory ==
    /\ At("check")
    /\ Full
    /\ NextSize(pos + K) > Memory
    /\ proc' = "down"
    /\ UNCHANGED <<stream, fetch>>

Return ==
    /\ At("check")
    /\ ~Full
    /\ size' = FinalSize
    /\ data' = Resized(data, size, size')
    /\ loc' = "returned"
    /\ UNCHANGED <<proc, stream, read, status, base, pos, len, stale, harmed>>

\* HandleConnection has answered and fetches the next request.
Again ==
    /\ At("returned")
    /\ loc' = "start"
    /\ UNCHANGED <<proc, stream, read, status, base, len, string, harmed>>

\* The heap, or the owner of the memory, falls over what recv() wrote there.
Collapse ==
    /\ proc = "up"
    /\ harmed
    /\ proc' = "down"
    /\ UNCHANGED <<stream, fetch>>

ThreadStep ==
    \/ Start \/ RecvBytes \/ RecvFault \/ RecvNothing \/ RecvReset
    \/ RecvRefused \/ Grow \/ NoMemory \/ Return \/ Again

Next == ThreadStep \/ Collapse \/ ClientSend \/ ClientClose \/ ClientAbort

Spec == Init /\ [][Next]_vars

\* The thread runs on; the client owes nothing, nor does the heap.
FairSpec == Spec /\ WF_vars(ThreadStep)

-----------------------------------------------------------------------------
\* Whenever recv() is called, the string ends exactly where the buffer it is
\* given does, although the two are computed apart from pos and len
\* (worker.cpp:27-37); this is what the assertion of worker.cpp:33 is for.
RoomForRecv ==
    /\ loc = "recv" => len = K /\ pos + len = size
    /\ loc = "check" => len <= K /\ pos + K = size

\* While no call has failed, the string has exactly as many bytes as this
\* fetch took from the stream, and the next fetch goes on with the next byte,
\* however recv() cut the stream into pieces (worker.cpp:31-40).
NothingSkipped ==
    loc = "returned" => size = read - base

\* As long as no recv() has written through the address of a string that
\* moved, what a fetch returns is what the client sent, byte for byte, also
\* after resize has moved it; and only a recv() that brings more than the
\* first buffer of a request does that harm, since the address is stale only
\* once a buffer was full (worker.cpp:26-41).
ArrivesUnlessHarmed ==
    [][/\ Return /\ ~harmed => \A i \in 1 .. size' : data'[i] = base + i
       /\ harmed' # harmed => read - base >= K /\ read < read']_vars

\* FetchData never returns after a failed Receive: a worker whose client has
\* aborted during recv() does not get to the switch that would log the error
\* and set done_ (worker.cpp:32-38 and :70-81).
OnlyGoodFetchReturns == loc = "returned" => status = "Connected"

\* The end of the stream ends the fetch.
EofEndsFetch ==
    peer = "eof" ~> loc = "returned" \/ proc = "down"

\* A fetch that waits for ever has taken all that was sent, and that is a
\* whole number of buffers: a request of any other length is answered even
\* when the client sends no more and keeps the connection open.
WaitsOnlyAtBoundary ==
    <>[](proc = "up" /\ loc = "recv" /\ status = "Connected")
        => <>[](sent = read /\ (sent - base) % K = 0)

\* The part of this that one state shows: a recv() that is called has behind
\* it nothing but whole buffers of this fetch (worker.cpp:31-37).
AtBoundary ==
    loc = "recv" /\ status = "Connected" =>
        \E n \in 0 .. pos : read - base = n * K

\* "receive data from client" (worker.cpp:30): what FetchData returns is what
\* the client has sent.
ReturnsWhatWasSent ==
    loc = "returned" => \A i \in 1 .. size : data[i] = base + i

-----------------------------------------------------------------------------
(* Worker's view of a fetch: one thread, on a node, a descriptor and a     *)
(* connection of its own, which sees of the bytes only whether there are   *)
(* more to come.                                                           *)

InRecv == loc = "recv" /\ status = "Connected"
SeenAs ==
    CASE loc = "returned" -> "respond"
      [] InRecv -> "recv"
      [] loc = "check" /\ ~Full -> "respond"
      [] OTHER -> "fetch"

W == INSTANCE Worker WITH
    Fds <- {3}, MaxConns <- 1, Slots <- {"node"}, FilesServed <- FALSE, Requests <- {"keep"},
    proc <- proc,
    tab <- [f \in {3} |-> 1],
    peer <- [c \in {1} |-> peer],
    obj <- [n \in {"node"} |-> [status |-> status, socket |-> 3, accepted |-> 3]],
    done <- [n \in {"node"} |-> FALSE],
    pc <- [t \in {1} |-> SeenAs],
    this <- [t \in {1} |-> "node"],
    rx <- [t \in {1} |-> IF InRecv THEN 1 ELSE 0],
    file <- [t \in {1} |-> -1]

AsWorker(t) ==
    \/ W!Fetch(t) \/ W!RecvData(t) \/ W!RecvEof(t)
    \/ W!RecvReset(t) \/ W!RecvFault(t) \/ W!Overrun(t)
    \/ W!ClientClose(t) \/ W!ClientAbort(t)

\* Every step of a fetch and of its client is the step that Worker has for
\* it, or none that other threads could see: also what Worker decides freely,
\* whether recv() is called again, whether a fetch returns after a failure
\* and when the process ends, is as the bytes make it (worker.cpp:21-41).
\* What HandleConnection does between two fetches is Worker's alone.
FetchesAsWorker ==
    [][Again \/ AsWorker(1)]_<<W!kernel, W!objects, W!threads>>

-----------------------------------------------------------------------------
(* The inductive invariant behind the safety properties.                   *)

Fetching == loc \in {"recv", "check"}

\* While no call has failed, what has been taken from the stream is what pos
\* and len account for; a failed call leaves len at K, for ever.
Accounted ==
    /\ loc \in {"start", "returned"} => status = "Connected"
    /\ loc = "recv" /\ status = "Connected" => read = base + pos
    /\ loc = "check" /\ status = "Connected" => read = base + pos + len
    /\ loc = "check" /\ status = "Error" => len = K
    /\ loc = "returned" => size = pos + len /\ read = base + size

\* The string cannot have moved before the first buffer was full.
MovesLate == Fetching => (stale => pos >= K)

\* Every buffer before the last is full.
WholeBuffers == \E n \in 0 .. pos : pos = n * K

\* Unless there was harm, the string is intact up to the bytes that the recv()
\* to come will write.
Received == IF loc = "recv" THEN pos ELSE pos + len
PrefixIntact ==
    ~harmed /\ (Fetching \/ loc = "returned") /\ status = "Connected" =>
        \A i \in 1 .. Received : data[i] = base + i

IInv ==
    /\ TypeOK
    /\ RoomForRecv
    /\ Accounted
    /\ WholeBuffers
    /\ MovesLate
    /\ PrefixIntact
=============================================================================
