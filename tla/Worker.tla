------------------------------- MODULE Worker -------------------------------
(***************************************************************************)
(* The worker threads (src/server/worker) of one server process, and their *)
(* clients.  Thread t serves the t-th accepted connection: it runs         *)
(* HandleConnection on the Worker object at heap node this[t].  It holds   *)
(* nothing that keeps the object alive, so that once the core has erased   *)
(* the Worker the thread goes on with whatever that node contains.         *)
(***************************************************************************)
EXTENDS Sock

CONSTANTS
    Slots,          \* heap nodes of the list of workers, reused once freed
    FilesServed,    \* whether a route leads to the file responder
    Requests        \* what a request asks of the connection: "keep" or "closed"

ASSUME RequestsAssumption == Requests \subseteq {"keep", "closed"}
ASSUME FilesServedAssumption == FilesServed \in BOOLEAN

VARIABLES
    proc,   \* "up", or "down" when a signal or an abort has ended it
    tab,    \* the descriptor table
    peer,   \* the other end of each connection
    obj,    \* socket_ of the Worker at each heap node
    done,   \* done_ of the Worker at each heap node
    pc,     \* where each thread is
    this,   \* the node each thread works on
    rx,     \* the connection a recv() in progress reads, or Free
    file    \* the descriptor the thread is about to close, or Invalid

kernel == <<proc, tab, peer>>
objects == <<obj, done>>
threads == <<pc, this, rx, file>>

NoNode == "none"
ASSUME SlotsAssumption == NoNode \notin Slots

Locations ==
    {"off", "loop", "fetch", "recv", "respond", "file", "send",
     "finish", "close", "closed", "unclosed", "switch", "mark", "end"}

WorkerTypeOK ==
    /\ proc \in {"up", "down"}
    /\ tab \in Tables
    /\ peer \in [Conns -> {"open", "eof", "reset"}]
    /\ obj \in [Slots -> Sockets]
    /\ done \in [Slots -> BOOLEAN]
    /\ pc \in [Conns -> Locations]
    /\ this \in [Conns -> Slots \cup {NoNode}]
    /\ rx \in [Conns -> Conns \cup {Free}]
    /\ file \in [Conns -> Handles]
    /\ \A t \in Conns : pc[t] # "off" => this[t] \in Slots

WorkerInit ==
    /\ proc = "up"
    /\ tab = [f \in Fds |-> Free]
    /\ peer = [c \in Conns |-> "open"]
    /\ obj = [s \in Slots |-> NullSocket]
    /\ done = [s \in Slots |-> FALSE]
    /\ pc = [t \in Conns |-> "off"]
    /\ this = [t \in Conns |-> NoNode]
    /\ rx = [t \in Conns |-> Free]
    /\ file = [t \in Conns |-> Invalid]

At(t, l) == proc = "up" /\ pc[t] = l
Goto(t, l) == pc' = [pc EXCEPT ![t] = l]
Mine(t) == obj[this[t]]
SetMine(t, s) == obj' = [obj EXCEPT ![this[t]] = s]
Die == proc' = "down"

-----------------------------------------------------------------------------
(* HandleConnection.                                                       *)

\* while (!done_)
Loop(t) ==
    /\ At(t, "loop")
    /\ Goto(t, IF done[this[t]] THEN "end" ELSE "fetch")
    /\ UNCHANGED <<kernel, objects, this, rx, file>>

\* Receive enters recv() on socket_; a handle that names no connection is an
\* error, which FetchData does not look at.
Fetch(t) ==
    /\ At(t, "fetch")
    /\ Mine(t).status = "Connected"
    /\ LET c == Entry(tab, Mine(t).socket)
       IN  IF c \in Conns
           THEN /\ Goto(t, "recv")
                /\ rx' = [rx EXCEPT ![t] = c]
                /\ UNCHANGED obj
           ELSE /\ SetMine(t, SetError(Mine(t)))
                /\ UNCHANGED <<pc, rx>>
    /\ UNCHANGED <<kernel, done, this, file>>

\* Receive fails at once and leaves len at the size of the buffer: FetchData
\* takes it for a full buffer and makes room for one more, until the memory
\* is exhausted and bad_alloc ends the process.
Exhaust(t) ==
    /\ At(t, "fetch")
    /\ Mine(t).status # "Connected"
    /\ Die
    /\ UNCHANGED <<tab, peer, objects, threads>>

\* recv() returns bytes.  A full buffer makes FetchData ask for more.
RecvData(t) ==
    /\ At(t, "recv")
    /\ peer[rx[t]] # "reset"
    /\ \E l \in {"fetch", "respond"} : Goto(t, l)
    /\ rx' = [rx EXCEPT ![t] = Free]
    /\ UNCHANGED <<kernel, objects, this, file>>

\* recv() returns 0: FetchData ends with what it has.
RecvEof(t) ==
    /\ At(t, "recv")
    /\ peer[rx[t]] # "open"
    /\ Goto(t, "respond")
    /\ rx' = [rx EXCEPT ![t] = Free]
    /\ UNCHANGED <<kernel, objects, this, file>>

\* recv() fails with ECONNRESET: FetchData calls Receive again.
RecvReset(t) ==
    /\ At(t, "recv")
    /\ peer[rx[t]] = "reset"
    /\ SetMine(t, SetError(Mine(t)))
    /\ Goto(t, "fetch")
    /\ rx' = [rx EXCEPT ![t] = Free]
    /\ UNCHANGED <<kernel, done, this, file>>

\* recv() fails with EFAULT, when the address that FetchData kept lies in
\* memory that resize has given back.
RecvFault(t) ==
    /\ At(t, "recv")
    /\ peer[rx[t]] # "reset"
    /\ SetMine(t, SetError(Mine(t)))
    /\ Goto(t, "fetch")
    /\ rx' = [rx EXCEPT ![t] = Free]
    /\ UNCHANGED <<kernel, done, this, file>>

\* The responder builds the response, from a file or without one.
OpenFile(t) ==
    /\ FilesServed
    /\ At(t, "respond")
    /\ \E f \in Fds :
         /\ LowestFree(tab, f)
         /\ tab' = [tab EXCEPT ![f] = File]
         /\ file' = [file EXCEPT ![t] = f]
    /\ Goto(t, "file")
    /\ UNCHANGED <<proc, peer, objects, this, rx>>

RespondWithoutFile(t) ==
    /\ At(t, "respond")
    /\ Goto(t, "send")
    /\ UNCHANGED <<kernel, objects, this, rx, file>>

\* The stream's destructor closes its descriptor, whatever it names by now.
CloseFile(t) ==
    /\ At(t, "file")
    /\ tab' = Release(tab, file[t])
    /\ file' = [file EXCEPT ![t] = Invalid]
    /\ Goto(t, "send")
    /\ UNCHANGED <<proc, peer, objects, this, rx>>

\* Send: nothing if the status is not Connected, else send() on accepted_.
CanSend(t) == Mine(t).status = "Connected"
Target(t) == Entry(tab, Mine(t).accepted)

SendNothing(t) ==
    /\ At(t, "send")
    /\ ~CanSend(t)
    /\ Goto(t, "finish")
    /\ UNCHANGED <<kernel, objects, this, rx, file>>

\* The bytes leave; a client that has closed both ways answers with a reset.
SendOk(t) ==
    /\ At(t, "send")
    /\ CanSend(t)
    /\ Target(t) \in Conns
    /\ peer[Target(t)] # "reset"
    /\ \/ UNCHANGED peer
       \/ /\ peer[Target(t)] = "eof"
          /\ peer' = [peer EXCEPT ![Target(t)] = "reset"]
    /\ Goto(t, "finish")
    /\ UNCHANGED <<proc, tab, objects, this, rx, file>>

SendError(t) ==
    /\ At(t, "send")
    /\ CanSend(t)
    /\ Target(t) \in Conns => peer[Target(t)] = "reset"
    /\ SetMine(t, SetError(Mine(t)))
    /\ Goto(t, "finish")
    /\ UNCHANGED <<kernel, done, this, rx, file>>

\* EPIPE comes with SIGPIPE, which the program leaves to its default action.
SendKilled(t) ==
    /\ At(t, "send")
    /\ CanSend(t)
    /\ Target(t) \in Conns
    /\ peer[Target(t)] = "reset"
    /\ Die
    /\ UNCHANGED <<tab, peer, objects, threads>>

\* if (Connection == "closed") socket_.Close(), which any request may ask for:
\* the status and the handle are read, of which a Connected Worker always has
\* accepted_.
BeginClose(t) ==
    LET closes == Mine(t).status = "Connected"
    IN  /\ At(t, "finish")
        /\ "closed" \in Requests
        /\ file' = [file EXCEPT ![t] = IF closes THEN CloseHandle(Mine(t)) ELSE Invalid]
        /\ Goto(t, IF closes THEN "close" ELSE "switch")
        /\ UNCHANGED <<kernel, objects, this, rx>>

\* close(): it succeeds on whatever the number names by now.
CloseConnection(t) ==
    /\ At(t, "close")
    /\ tab' = Release(tab, file[t])
    /\ file' = [file EXCEPT ![t] = Invalid]
    /\ Goto(t, IF IsOpen(tab, file[t]) THEN "closed" ELSE "unclosed")
    /\ UNCHANGED <<proc, peer, objects, this, rx>>

\* Then accepted_ and the status are written, or the error.
WriteClosed(t) ==
    /\ At(t, "closed")
    /\ SetMine(t, AfterClose(Mine(t)))
    /\ Goto(t, "switch")
    /\ UNCHANGED <<kernel, done, this, rx, file>>

WriteUnclosed(t) ==
    /\ At(t, "unclosed")
    /\ SetMine(t, SetError(Mine(t)))
    /\ Goto(t, "switch")
    /\ UNCHANGED <<kernel, done, this, rx, file>>

\* switch (socket_.status())
Ends(s) == s.status \in {"Error", "Closed"}
Switch(t) ==
    /\ At(t, "switch") \/ (At(t, "finish") /\ "keep" \in Requests)
    /\ Goto(t, IF Ends(Mine(t)) THEN "mark" ELSE "loop")
    /\ UNCHANGED <<kernel, objects, this, rx, file>>

\* done_ = true
MarkDone(t) ==
    /\ At(t, "mark")
    /\ done' = [done EXCEPT ![this[t]] = TRUE]
    /\ Goto(t, "loop")
    /\ UNCHANGED <<kernel, obj, this, rx, file>>

\* A thread whose object is gone: instead of going on with what the
\* destructor left in the node, the process may die of the access.
TouchFreed(t, live) ==
    /\ proc = "up"
    /\ pc[t] \notin {"off", "end"}
    /\ this[t] \notin live
    /\ Die
    /\ UNCHANGED <<tab, peer, objects, threads>>

\* FetchData can end the process while the connection is good, too: a long
\* request leaves no memory for another buffer, or recv() has written through
\* the old address into memory that is no longer the string's, over the
\* heap's own data perhaps, which the heap may notice at any later step.
Overrun(t) ==
    /\ proc = "up"
    /\ pc[t] # "off"
    /\ Die
    /\ UNCHANGED <<tab, peer, objects, threads>>

\* The steps the program owes, and those that wait for a client.
ThreadStep(t) ==
    \/ Loop(t) \/ Fetch(t) \/ Exhaust(t)
    \/ RecvEof(t) \/ RecvReset(t)
    \/ OpenFile(t) \/ RespondWithoutFile(t) \/ CloseFile(t)
    \/ SendNothing(t) \/ SendOk(t) \/ SendError(t) \/ SendKilled(t)
    \/ BeginClose(t) \/ CloseConnection(t) \/ WriteClosed(t) \/ WriteUnclosed(t)
    \/ Switch(t) \/ MarkDone(t)

-----------------------------------------------------------------------------
(* The clients.                                                            *)

ClientClose(c) ==
    /\ proc = "up"
    /\ pc[c] # "off"
    /\ peer[c] = "open"
    /\ peer' = [peer EXCEPT ![c] = "eof"]
    /\ UNCHANGED <<proc, tab, objects, threads>>

ClientAbort(c) ==
    /\ proc = "up"
    /\ pc[c] # "off"
    /\ peer[c] # "reset"
    /\ peer' = [peer EXCEPT ![c] = "reset"]
    /\ UNCHANGED <<proc, tab, objects, threads>>

WorkerStep(t, live) ==
    \/ ThreadStep(t) \/ RecvData(t) \/ RecvFault(t) \/ Overrun(t) \/ TouchFreed(t, live)
    \/ ClientClose(t) \/ ClientAbort(t)

\* Starting the thread of connection t on the Worker at node s: the thread
\* may run before the constructor has written done_.
Start(t, s) ==
    /\ pc' = [pc EXCEPT ![t] = "loop"]
    /\ this' = [this EXCEPT ![t] = s]
=============================================================================
