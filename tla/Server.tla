------------------------------- MODULE Server -------------------------------
(***************************************************************************)
(* The core of the server (src/server/core): StartListen accepts the       *)
(* connections, starts a Worker for each, and after each one sweeps the    *)
(* list of workers.  It composes the listener's Socket (Sock), the worker  *)
(* threads (Worker), the clients and the kernel's descriptor table.        *)
(*                                                                         *)
(* list is the forward_list, newest worker first; the iterators of the     *)
(* sweep are positions in it, 0 for before_begin.                          *)
(***************************************************************************)
EXTENDS Worker, SequencesExt

CONSTANT MaxFaults  \* how many calls of the kernel fail for no reason here

ASSUME MaxFaultsAssumption == MaxFaults \in Nat

VARIABLES
    core,       \* where StartListen is
    lst,        \* sock_, the listening Socket
    got,        \* the Socket that AcceptNew returned
    list,       \* workers_
    cur,        \* the node being built or destroyed, or NoNode
    it, prev,   \* the iterators of the sweep
    backlog,    \* connections waiting to be accepted
    nconn,      \* connections accepted so far
    faults      \* failures injected so far

coreVars == <<core, lst, got, list, cur, it, prev, backlog, nconn, faults>>
vars == <<kernel, objects, threads, coreVars>>

CoreLocations ==
    {"boot", "accept", "dispatch", "build", "reset", "reopen",
     "sweep", "reap1", "reap2"}

Live == ToSet(list) \cup ({cur} \ {NoNode})

TypeOK ==
    /\ WorkerTypeOK
    /\ core \in CoreLocations
    /\ lst \in Sockets
    /\ got \in Sockets
    /\ list \in Seq(Slots)
    /\ cur \in Slots \cup {NoNode}
    /\ core \in {"build", "reap1", "reap2"} => cur \in Slots
    /\ it \in Nat
    /\ prev \in Nat
    /\ backlog \in Nat
    /\ nconn \in 0 .. MaxConns
    /\ backlog + nconn <= MaxConns
    /\ faults \in 0 .. MaxFaults

Init ==
    /\ WorkerInit
    /\ core = "boot"
    /\ lst = NullSocket
    /\ got = NullSocket
    /\ list = <<>>
    /\ cur = NoNode
    /\ it = 1
    /\ prev = 0
    /\ backlog = 0
    /\ nconn = 0
    /\ faults = 0

AtCore(l) == proc = "up" /\ core = l
Fault == faults < MaxFaults /\ faults' = faults + 1

-----------------------------------------------------------------------------
(* The listening socket.                                                   *)

BeginSweep == it' = 1 /\ prev' = 0

\* InitSocket, set_local_port and Listen, at start-up and after a reset, when
\* the status is Closed: the socket opens, or one of socket(), setsockopt(),
\* bind(), listen() fails, the first without giving a descriptor.
OpenListener ==
    /\ \/ AtCore("boot") /\ core' = "accept" /\ UNCHANGED <<it, prev>>
       \/ AtCore("reopen") /\ core' = "sweep" /\ BeginSweep
    /\ \/ /\ (TableFull(tab) /\ UNCHANGED faults) \/ Fault
          /\ lst' = SetError([lst EXCEPT !.socket = Invalid, !.accepted = Invalid])
          /\ UNCHANGED tab
       \/ \E f \in Fds, failed \in BOOLEAN :
            /\ LowestFree(tab, f)
            /\ IF failed THEN Fault ELSE UNCHANGED faults
            /\ tab' = [tab EXCEPT ![f] = Listener]
            /\ lst' = [status |-> IF failed THEN "Error" ELSE "Listening",
                       socket |-> f, accepted |-> Invalid]
    /\ UNCHANGED <<proc, peer, objects, threads, got, list, cur, backlog, nconn>>

\* AcceptNew: nothing to accept on a Socket that is not Listening.
AcceptNull ==
    /\ AtCore("accept")
    /\ lst.status # "Listening"
    /\ got' = NullSocket
    /\ core' = "dispatch"
    /\ UNCHANGED <<kernel, objects, threads, lst, list, cur, it, prev,
                   backlog, nconn, faults>>

Accepting == AtCore("accept") /\ lst.status = "Listening"

\* The kernel reserves the number before it waits for a connection, so that
\* the number need not be the lowest free one when accept() returns.
AcceptOk ==
    /\ Accepting
    /\ Entry(tab, lst.socket) = Listener
    /\ backlog > 0
    /\ \E f \in Fds :
         /\ tab[f] = Free
         /\ tab' = [tab EXCEPT ![f] = nconn + 1]
         /\ lst' = KeepsAlias(lst, f)
         /\ got' = AcceptedFrom(f)
    /\ backlog' = backlog - 1
    /\ nconn' = nconn + 1
    /\ core' = "dispatch"
    /\ UNCHANGED <<proc, peer, objects, threads, list, cur, it, prev, faults>>

\* EMFILE, a handle that is no listening socket, or any other failure.
AcceptFail ==
    /\ Accepting
    /\ \/ /\ Entry(tab, lst.socket) # Listener \/ TableFull(tab)
          /\ UNCHANGED faults
       \/ Fault
    /\ lst' = FailedAccept(lst)
    /\ got' = NullSocket
    /\ core' = "dispatch"
    /\ UNCHANGED <<kernel, objects, threads, list, cur, it, prev, backlog, nconn>>

\* sock_.Reset(), up to InitSocket: the connections in the queue of the
\* socket are lost with it.
Reset ==
    /\ AtCore("dispatch")
    /\ lst.status = "Error"
    /\ tab' = QuitTable(lst, tab)
    /\ lst' = NullSocket
    /\ backlog' = 0
    /\ core' = "reopen"
    /\ UNCHANGED <<proc, peer, objects, threads, got, list, cur, it, prev,
                   nconn, faults>>

-----------------------------------------------------------------------------
(* The list of workers.                                                    *)

\* workers_.emplace_front(std::move(socket)), as far as the thread's start:
\* the Socket is moved into the parameter and from there into socket_;
\* done_ is whatever the memory held.
Spawn ==
    /\ AtCore("dispatch")
    /\ lst.status # "Error"
    /\ \E s \in Slots \ ToSet(list), garbage \in BOOLEAN :
         /\ cur' = s
         /\ obj' = [obj EXCEPT ![s] = Moved(Moved(got))]
         /\ done' = [done EXCEPT ![s] = garbage]
         /\ Start(nconn, s)
    /\ got' = MovedFrom(got)
    /\ core' = "build"
    /\ UNCHANGED <<kernel, rx, file, lst, list, it, prev, backlog, nconn,
                   faults>>

\* ... and the rest: done_(false), and the node is linked.
Build ==
    /\ AtCore("build")
    /\ done' = [done EXCEPT ![cur] = FALSE]
    /\ list' = <<cur>> \o list
    /\ cur' = NoNode
    /\ core' = "sweep"
    /\ BeginSweep
    /\ UNCHANGED <<kernel, obj, threads, lst, got, backlog, nconn, faults>>

\* The sweep: for each it, if (it->done()) prev = workers_.erase_after(prev).
Sweeping == AtCore("sweep") /\ it \in DOMAIN list

SweepSkip ==
    /\ Sweeping
    /\ ~done[list[it]]
    /\ it' = it + 1
    /\ UNCHANGED <<kernel, objects, threads, core, lst, got, list, cur, prev,
                   backlog, nconn, faults>>

\* What erase_after(prev) erases, and the list without it.
Victim == prev + 1
Without(l, i) == RemoveAt(l, i)

SweepErase ==
    /\ Sweeping
    /\ done[list[it]]
    /\ Victim \in DOMAIN list
    /\ cur' = list[Victim]
    /\ list' = Without(list, Victim)
    /\ prev' = Victim
    /\ it' = IF Victim <= it THEN it ELSE it + 1
    /\ core' = "reap1"
    /\ UNCHANGED <<kernel, objects, threads, lst, got, backlog, nconn, faults>>

\* There is no element after prev, or it is the one erased and ++it reads a
\* freed node: the process dies.
SweepCrash ==
    /\ Sweeping
    /\ done[list[it]]
    /\ Victim \notin DOMAIN list \/ Victim = it
    /\ Die
    /\ UNCHANGED <<tab, peer, objects, threads, coreVars>>

\* ~Socket of the erased worker, one close() at a time.
Reap1 ==
    /\ AtCore("reap1")
    /\ obj' = [obj EXCEPT ![cur] = QuitAccepted(@, tab)]
    /\ tab' = Release(tab, obj[cur].accepted)
    /\ core' = "reap2"
    /\ UNCHANGED <<proc, peer, done, threads, lst, got, list, cur, it, prev,
                   backlog, nconn, faults>>

Reap2 ==
    /\ AtCore("reap2")
    /\ obj' = [obj EXCEPT ![cur] = CloseOwn(@, tab)]
    /\ tab' = Release(tab, obj[cur].socket)
    /\ cur' = NoNode
    /\ core' = "sweep"
    /\ UNCHANGED <<proc, peer, done, threads, lst, got, list, it, prev,
                   backlog, nconn, faults>>

\* The end of the loop's body destroys the Socket that AcceptNew returned.
SweepEnd ==
    /\ AtCore("sweep")
    /\ it \notin DOMAIN list
    /\ tab' = QuitTable(got, tab)
    /\ got' = NullSocket
    /\ core' = "accept"
    /\ UNCHANGED <<proc, peer, objects, threads, lst, list, cur, it, prev,
                   backlog, nconn, faults>>

CoreStep ==
    \/ OpenListener \/ AcceptNull \/ AcceptOk \/ AcceptFail \/ Reset
    \/ Spawn \/ Build
    \/ SweepSkip \/ SweepErase \/ SweepCrash \/ Reap1 \/ Reap2 \/ SweepEnd

-----------------------------------------------------------------------------
\* A client connects while the listening socket exists.
ClientConnect ==
    /\ proc = "up"
    /\ \E f \in Fds : tab[f] = Listener
    /\ lst.status = "Listening"
    /\ backlog + nconn < MaxConns
    /\ backlog' = backlog + 1
    /\ UNCHANGED <<kernel, objects, threads, core, lst, got, list, cur, it,
                   prev, nconn, faults>>

WorkersStep ==
    \E t \in Conns : WorkerStep(t, Live) /\ UNCHANGED coreVars

Next == CoreStep \/ WorkersStep \/ ClientConnect

Spec == Init /\ [][Next]_vars

\* The core's loop and the threads run on; clients owe nothing, nor does the
\* kernel owe a failure.
Fairness ==
    /\ WF_vars(CoreStep)
    /\ \A t \in Conns : WF_vars(ThreadStep(t) /\ UNCHANGED coreVars)

FairSpec == Spec /\ Fairness

-----------------------------------------------------------------------------
(* What a reader may rely on in spite of the sweep.                        *)

\* No descriptor is lost: each open connection is named by a handle of a
\* Worker that exists or of the Socket that AcceptNew has just returned, so
\* that a destructor is still to close it (core.cpp:33-39, sock.cpp:127-139).
Names(s, h) == s.socket = h \/ s.accepted = h
NoLeak ==
    \A h \in Fds : tab[h] \in Conns =>
        Names(got, h) \/ \E s \in Live : Names(obj[s], h)

\* StartListen looks at the listener's status, not at the Socket it got, to
\* tell whether AcceptNew failed (core.cpp:21-34): an empty Socket never
\* becomes a Worker and a connection is never dropped by a reset.
NullMeansError ==
    core = "dispatch" => (~IsValidSocket(got.accepted) <=> lst.status = "Error")

\* The listener keeps the handle of the last connection in accepted_
\* (sock.cpp:197), and QuitSocket closes that one too: yet a reset of the
\* listener never closes the connection of a Worker.
ResetSparesConnections ==
    [][Reset => \A h \in Fds : tab[h] \in Conns => tab'[h] = tab[h]]_vars

\* A destructor calls close() twice, and for a Worker both calls name the
\* same number (sock.cpp:65-68 and :134-135): when the first has closed it,
\* the second meets a free number or a file just opened there, never a
\* connection or the listener, because only the core's own thread makes those.
SecondCloseMeetsNoConnection ==
    core = "reap2" /\ obj[cur].status = "Closed"
        => Entry(tab, obj[cur].socket) \in {Free, File}

\* When the file responder is not routed to and no request asks for the
\* connection to be closed, the Workers in the list never share or lose a
\* connection to a wrong close(): a Connected Worker's handle names an open
\* connection that no other names.
ConnectedWorkers == {s \in ToSet(list) : obj[s].status = "Connected"}
SeparateConnections ==
    ~FilesServed /\ "closed" \notin Requests
        => \A s \in ConnectedWorkers :
             /\ Entry(tab, obj[s].socket) \in Conns
             /\ \A u \in ConnectedWorkers \ {s} : obj[u].socket # obj[s].socket

\* The workers that the sweep destroys are exactly the ones it unlinks:
\* every node in the list is a Worker once, and the node being built or
\* destroyed is not in the list (core.cpp:33-39).
ListIsSound ==
    /\ \A i, j \in DOMAIN list : list[i] = list[j] => i = j
    /\ cur \notin ToSet(list)

\* "remove all of the workers which is done" (core.cpp:35): a worker that the
\* sweep erases is done.
SweepErasesOnlyDone == [][SweepErase => done[cur']]_vars

\* "indicate if work is done" (worker.h:31): once the thread of a worker in
\* the list has ended, the worker's done_ says so.
ThreadOf(t, s) == this[t] = s /\ \A u \in Conns : this[u] = s => u <= t
DoneTellsTheEnd ==
    \A s \in ToSet(list), t \in Conns :
        ThreadOf(t, s) /\ pc[t] = "end" => done[s]

\* After a failure of any call on it, the listening socket is opened again:
\* StartListen never stays with a Socket in Error (core.cpp:23-30).
ListenerRecovers ==
    lst.status = "Error" ~>
        \/ proc = "down"
        \/ lst.status = "Listening" /\ Entry(tab, lst.socket) = Listener

\* No connection waits for ever in the queue: the loop accepts it, or a reset
\* of the listener drops it (core.cpp:19-40).
BacklogDrains == backlog > 0 ~> backlog = 0 \/ proc = "down"

\* Once every client has aborted, no thread works for ever: each ends, unless
\* the process does (worker.cpp:44-83).
AllAborted == nconn = MaxConns /\ \A c \in Conns : peer[c] = "reset"
ThreadsEnd == AllAborted ~> proc = "down" \/ \A t \in Conns : pc[t] = "end"

-----------------------------------------------------------------------------
(* What the clients may rely on.                                           *)

Promise == INSTANCE Connections WITH
    up <- proc = "up",
    waiting <- backlog,
    accepted <- nconn,
    open <- {c \in Conns : \E f \in Fds : tab[f] = c}

\* Whatever the sweep destroys and whichever numbers close() is given, each
\* step of the server is one that Connections allows: no call closes two
\* connections, none comes back, and a reset of the listener drops the queue
\* and nothing else (core.cpp:17-41, sock.cpp:65-68 and :192-207).
KeepsPromise == Promise!Spec

-----------------------------------------------------------------------------
(* The inductive invariant behind the safety properties.                   *)

\* Where StartListen is tells which of its variables are in use.
CoreShape ==
    /\ (core \in {"build", "reap1", "reap2"}) <=> (cur # NoNode)
    /\ got.socket = Invalid
    /\ core # "dispatch" => got.accepted = Invalid
    /\ core = "dispatch" /\ IsValidSocket(got.accepted) =>
         nconn \in Conns /\ got.status = "Connected"

\* The listener is open or in Error, where it has no alias of a connection;
\* its own handle never names one.
ListenerShape ==
    /\ \/ lst.status \in {"Listening", "Error"}
       \/ core \in {"boot", "reopen"} /\ lst = NullSocket
    /\ lst.status = "Error" => lst.accepted = Invalid
    /\ Entry(tab, lst.socket) \notin Conns

\* The Workers whose destructor has not begun.
Whole == ToSet(list) \cup (IF core = "reap2" THEN {} ELSE {cur} \ {NoNode})

\* A Worker's two handles are the same number until Close() or its destructor
\* gives up the first; only a Connected one is sure to have both.
WorkerShape ==
    /\ \A s \in Live :
         /\ IsValidSocket(obj[s].socket)
         /\ obj[s].accepted \in {Invalid, obj[s].socket}
    /\ \A s \in Whole :
         /\ obj[s].status \in {"Connected", "Listening", "Error"}
         /\ obj[s].status = "Connected" => IsValidSocket(obj[s].accepted)

\* NoLeak, by the one handle that is sure to stay.
Held(h) ==
    \/ \E s \in Live : obj[s].socket = h
    \/ got.accepted = h
EachHeld == \A h \in Fds : tab[h] \in Conns => Held(h)

\* Without files and without Close(), each Worker owns its descriptor.
NothingElseCloses == ~FilesServed /\ "closed" \notin Requests
Closing == {"file", "close", "closed", "unclosed"}
Ownership ==
    NothingElseCloses =>
        /\ \A f \in Fds : tab[f] # File
        /\ \A t \in Conns : pc[t] \notin Closing
        /\ \A s \in Whole :
             /\ obj[s].accepted = obj[s].socket
             /\ Entry(tab, obj[s].socket) \in Conns
        /\ \A s, u \in Live : s # u => obj[s].socket # obj[u].socket
        /\ IsValidSocket(got.accepted) =>
             /\ Entry(tab, got.accepted) \in Conns
             /\ \A s \in Live : obj[s].socket # got.accepted

\* All of it: inductive, and it implies the safety properties above.
IInv ==
    /\ TypeOK
    /\ CoreShape
    /\ ListenerShape
    /\ ListIsSound
    /\ WorkerShape
    /\ EachHeld
    /\ NullMeansError
    /\ SecondCloseMeetsNoConnection
    /\ Ownership
=============================================================================
