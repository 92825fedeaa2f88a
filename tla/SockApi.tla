------------------------------ MODULE SockApi ------------------------------
(***************************************************************************)
(* The class Socket (src/sock) by itself: any sequence of its public       *)
(* methods, on several objects of one thread, with any call of the kernel  *)
(* failing.  A method is one step here; Server and Worker interleave the   *)
(* steps of those methods they use.                                        *)
(*                                                                         *)
(* owner and loose are history variables: the object that a descriptor was *)
(* made for or moved to, and the objects that name a number which is not   *)
(* theirs, no longer theirs, or closed by another.  Connections are not    *)
(* told apart: 1 stands for any.                                           *)
(***************************************************************************)
EXTENDS Sock, FiniteSets

CONSTANTS
    Objects,    \* where a Socket can be constructed
    MaxNulls    \* how many Sockets are made of nullptr in a behaviour

ASSUME MaxNullsAssumption == MaxNulls \in Nat

Dead == "dead"
ASSUME ObjectsAssumption == Dead \notin Objects

VARIABLES
    alive,      \* the objects that are constructed
    sock,       \* status_, socket_ and accepted_ of each
    proto,      \* proto_
    tab,        \* the descriptor table
    counter,    \* socket_counter_
    nulls,      \* how many Sockets have been made of nullptr
    owner,      \* for whom each descriptor was made
    loose       \* objects that name what may not be theirs

vars == <<alive, sock, proto, tab, counter, nulls, owner, loose>>

\* A descriptor of socket() that neither listens nor is connected.
Fresh == -3
Conn == 1

TypeOK ==
    /\ alive \subseteq Objects
    /\ sock \in [Objects -> Sockets]
    /\ proto \in [Objects -> {"TCP", "UDP"}]
    /\ tab \in [Fds -> {Free, Fresh, Listener, Conn}]
    /\ counter \in Int
    /\ nulls \in 0 .. MaxNulls
    /\ owner \in [Fds -> Objects \cup {Dead}]
    /\ loose \subseteq alive

Init ==
    /\ alive = {}
    /\ sock = [s \in Objects |-> NullSocket]
    /\ proto = [s \in Objects |-> "TCP"]
    /\ tab = [f \in Fds |-> Free]
    /\ counter = 0
    /\ nulls = 0
    /\ owner = [f \in Fds |-> Dead]
    /\ loose = {}

-----------------------------------------------------------------------------
(* What the methods have in common.                                        *)

Set(s, r) == sock' = [sock EXCEPT ![s] = r]
Disowned(own, t) == [f \in Fds |-> IF t[f] = Free THEN Dead ELSE own[f]]
Named(s, f) == s \in alive /\ f \in {sock[s].socket, sock[s].accepted}

\* The Sockets, but for those of S, whose descriptor a step that leaves the
\* table t has closed.
Robbed(S, t) ==
    {u \in alive \ S :
        \E f \in Fds : Named(u, f) /\ tab[f] # Free /\ t[f] = Free}

\* IncreaseCounter and DecreaseCounter, under their mutex.
IncreaseCounter == counter' = counter + 1
DecreaseCounter == counter' = counter - 1

\* InitSocket with the status Closed, over the table t that QuitSocket left:
\* socket() gives nothing, which it does for SOCK_STREAM with UDP; or
\* setsockopt() fails; or the Socket is Open.
InitSocket(s, p, t) ==
    \/ /\ Set(s, SetError(NullSocket))
       /\ tab' = t
       /\ owner' = Disowned(owner, t)
    \/ /\ p = "TCP"
       /\ \E f \in Fds, st \in {"Open", "Error"} :
            /\ LowestFree(t, f)
            /\ Set(s, [NullSocket EXCEPT !.status = st, !.socket = f])
            /\ tab' = [t EXCEPT ![f] = Fresh]
            /\ owner' = [Disowned(owner, t) EXCEPT ![f] = s]

\* Both ways of moving m to s, over the table t: accepted_ goes into both
\* handles of s; the status of m stays.
\* TakeOver: who owns what afterwards.  The descriptor that m alone named by
\* socket_ is lost.
TakeOver(m, s, t) ==
    [f \in Fds |->
        IF t[f] = Free THEN Dead
        ELSE IF owner[f] # m THEN owner[f]
        ELSE IF f = sock[m].accepted THEN s ELSE Dead]
MoveInto(m, s, t) ==
    /\ sock' = [sock EXCEPT ![s] = Moved(sock[m]), ![m] = MovedFrom(sock[m])]
    /\ proto' = [proto EXCEPT ![s] = proto[m]]
    /\ owner' = TakeOver(m, s, t)
    /\ loose' = (loose \ {m, s}) \cup Robbed({m, s}, t) \cup
         (IF m \in loose \cup Robbed({s}, t) THEN {s} ELSE {})

-----------------------------------------------------------------------------
(* Constructors, assignment and destructor.                                *)

Construct(s, p) ==
    /\ s \notin alive
    /\ alive' = alive \cup {s}
    /\ proto' = [proto EXCEPT ![s] = p]
    /\ IncreaseCounter
    /\ InitSocket(s, p, tab)
    /\ UNCHANGED <<nulls, loose>>

\* Socket(nullptr) counts nobody, the destructor counts everybody.
\* CountNull: it counts itself, as the other constructors do.
CountNull == IncreaseCounter
NullCounter == UNCHANGED counter
ConstructNull(s) ==
    /\ s \notin alive
    /\ nulls < MaxNulls
    /\ alive' = alive \cup {s}
    /\ Set(s, NullSocket)
    /\ proto' = [proto EXCEPT ![s] = "TCP"]
    /\ NullCounter
    /\ nulls' = nulls + 1
    /\ UNCHANGED <<tab, owner, loose>>

MoveConstruct(s, m) ==
    /\ s \notin alive
    /\ m \in alive
    /\ alive' = alive \cup {s}
    /\ IncreaseCounter
    /\ MoveInto(m, s, tab)
    /\ UNCHANGED <<tab, nulls>>

\* socket = std::move(m): QuitSocket first.
MoveAssign(s, m) ==
    /\ {s, m} \subseteq alive
    /\ s # m
    /\ tab' = QuitTable(sock[s], tab)
    /\ MoveInto(m, s, QuitTable(sock[s], tab))
    /\ UNCHANGED <<alive, counter, nulls>>

Destroy(s) ==
    /\ s \in alive
    /\ alive' = alive \ {s}
    /\ tab' = QuitTable(sock[s], tab)
    /\ owner' = Disowned(owner, QuitTable(sock[s], tab))
    /\ Set(s, NullSocket)
    /\ loose' = (loose \ {s}) \cup Robbed({s}, QuitTable(sock[s], tab))
    /\ DecreaseCounter
    /\ UNCHANGED <<proto, nulls>>

Reset(s) ==
    /\ s \in alive
    /\ InitSocket(s, proto[s], QuitTable(sock[s], tab))
    /\ loose' = (loose \ {s}) \cup Robbed({s}, QuitTable(sock[s], tab))
    /\ UNCHANGED <<alive, proto, counter, nulls>>

-----------------------------------------------------------------------------
(* The calls of the kernel.                                                *)

Is(s, st) == s \in alive /\ sock[s].status = st
Fail(s) == Set(s, SetError(sock[s]))
Keeps == UNCHANGED <<alive, proto, counter, nulls, loose>>

\* Listen, and Connect, on the Socket's own descriptor: the descriptor
\* becomes one of the given kind, and the status follows.
Turn(s, kind, st) ==
    /\ Is(s, "Open")
    /\ \/ Fail(s) /\ UNCHANGED tab
       \/ /\ Entry(tab, sock[s].socket) = Fresh
          /\ tab' = [tab EXCEPT ![sock[s].socket] = kind]
          /\ Set(s, [sock[s] EXCEPT !.status = st])
    /\ UNCHANGED owner
    /\ Keeps
Listen(s) == Turn(s, Listener, "Listening")
Connect(s) == Turn(s, Conn, "Connected")

\* set_local_port: Bind may fail on an Open Socket.
Bind(s) ==
    /\ Is(s, "Open")
    /\ Fail(s)
    /\ UNCHANGED <<tab, owner>>
    /\ Keeps

\* accept() on socket_ fails, or gives f, which is not socket_.
AcceptFails(s) ==
    /\ Is(s, "Listening")
    /\ Set(s, FailedAccept(sock[s]))
    /\ UNCHANGED <<tab, owner>>
Accepts(s, f) ==
    /\ Is(s, "Listening")
    /\ Entry(tab, sock[s].socket) = Listener
    /\ LowestFree(tab, f)
    /\ tab' = [tab EXCEPT ![f] = Conn]

\* Accept: the Socket is the listener and the connection from now on.
Accept(s) ==
    /\ \/ AcceptFails(s)
       \/ \E f \in Fds :
            /\ Accepts(s, f)
            /\ Set(s, [sock[s] EXCEPT !.accepted = f, !.status = "Connected"])
            /\ owner' = [owner EXCEPT ![f] = s]
    /\ Keeps

\* AcceptNew into n: the new Socket has the connection, and the listener
\* keeps its handle; or n is made of nullptr.
AcceptNew(s, n) ==
    /\ n \notin alive
    /\ \E f \in Fds :
         /\ Accepts(s, f)
         /\ sock' = [sock EXCEPT ![s] = KeepsAlias(@, f), ![n] = AcceptedFrom(f)]
         /\ owner' = [owner EXCEPT ![f] = n]
    /\ alive' = alive \cup {n}
    /\ proto' = [proto EXCEPT ![n] = proto[s]]
    /\ loose' = loose \cup {s}
    /\ IncreaseCounter
    /\ UNCHANGED nulls
AcceptNewFails(s, n) ==
    /\ n \notin alive
    /\ nulls < MaxNulls
    /\ Is(s, "Listening")
    /\ sock' = [sock EXCEPT ![s] = FailedAccept(@), ![n] = NullSocket]
    /\ alive' = alive \cup {n}
    /\ proto' = [proto EXCEPT ![n] = "TCP"]
    /\ NullCounter
    /\ nulls' = nulls + 1
    /\ UNCHANGED <<tab, owner, loose>>

\* Send uses accepted_ and Receive socket_, or both of them socket_ for UDP.
\* SendOwn: socket_ in any case.
SendOwn(s) == sock[s].socket
SendHandle(s) == IF proto[s] = "TCP" THEN sock[s].accepted ELSE sock[s].socket
ReceiveHandle(s) == sock[s].socket
CanSend(s) == Is(s, "Connected") /\ Entry(tab, SendHandle(s)) = Conn
CanReceive(s) == Is(s, "Connected") /\ Entry(tab, ReceiveHandle(s)) = Conn

\* Either fails, as it does on a descriptor of another kind; when it succeeds
\* nothing changes here.
Transfer(s) ==
    /\ Is(s, "Connected")
    /\ Fail(s)
    /\ UNCHANGED <<tab, owner>>
    /\ Keeps

\* Close() of a Socket made by a move leaves the number in socket_.
\* ClosedLoose: whether it does.
ClosedLoose(s) == sock[s].accepted # Invalid /\ sock[s].accepted = sock[s].socket
CloseSock(s) ==
    /\ Is(s, "Connected")
    /\ Set(s, Close(sock[s], tab))
    /\ tab' = Release(tab, CloseHandle(sock[s]))
    /\ owner' = Disowned(owner, Release(tab, CloseHandle(sock[s])))
    /\ loose' = loose \cup Robbed({s}, tab') \cup
         (IF ClosedLoose(s) THEN {s} ELSE {})
    /\ UNCHANGED <<alive, proto, counter, nulls>>

SetProtocol(s, p) ==
    /\ s \in alive
    /\ proto' = [proto EXCEPT ![s] = p]
    /\ UNCHANGED <<alive, sock, tab, counter, nulls, owner, loose>>

Next ==
    \E s \in Objects :
        \/ \E p \in {"TCP", "UDP"} : Construct(s, p) \/ SetProtocol(s, p)
        \/ ConstructNull(s) \/ Destroy(s) \/ Reset(s)
        \/ \E m \in Objects : MoveConstruct(s, m) \/ MoveAssign(s, m)
        \/ Listen(s) \/ Connect(s) \/ Bind(s) \/ Accept(s)
        \/ \E n \in Objects : AcceptNew(s, n) \/ AcceptNewFails(s, n)
        \/ Transfer(s) \/ CloseSock(s)

Spec == Init /\ [][Next]_vars

-----------------------------------------------------------------------------
(* What a user of the class may rely on.                                   *)

\* A Socket names the descriptor of another one, and so may close it, only
\* if it has accepted that one with AcceptNew, whose handle the listener
\* keeps, if Close() left it a number it had closed (sock.cpp:197, :250), or
\* if such a Socket has closed its descriptor.
OnlyLooseSocketsShare ==
    \A s \in Objects, f \in Fds :
        Named(s, f) /\ owner[f] \notin {s, Dead} => s \in loose

\* No descriptor is lost but by moving a Socket whose own descriptor is not
\* the accepted one: any other step leaves each open descriptor to a Socket
\* that owns and names it (sock.cpp:127-156).
Lost == {f \in Fds : tab[f] # Free /\ ~(owner[f] \in alive /\ Named(owner[f], f))}
Move(s, m) == MoveConstruct(s, m) \/ MoveAssign(s, m)
LosesOnlyByMove ==
    [][\A f \in Lost' \ Lost :
          \E s, m \in Objects :
             Move(s, m) /\ f = sock[m].socket /\ f # sock[m].accepted]_vars

\* A Socket that says Listening and has a handle listens, unless Close() of a
\* moved Socket has left it so, or another one has closed its descriptor; a
\* move leaves the word to both Sockets and the handle to neither
\* (sock.cpp:127-139 and :245-257).
ListeningMeansListener ==
    \A s \in Objects :
        Is(s, "Listening") /\ loose = {} /\ IsValidSocket(sock[s].socket) =>
            Entry(tab, sock[s].socket) = Listener

\* A TCP Socket that can both send and receive is one that has been moved:
\* the one AcceptNew returns cannot receive, the one that has called Accept or
\* Connect cannot do both (sock.cpp:209-243).
TalksOnlyMoved ==
    \A s \in Objects :
        proto[s] = "TCP" /\ CanSend(s) /\ CanReceive(s) /\ loose = {} =>
            sock[s].socket = sock[s].accepted

\* The counter is what the number of Sockets is, less every one ever made of
\* nullptr: it is never reset and drifts below 0 with each (sock.h:39-51).
CounterDrifts == counter = Cardinality(alive) - nulls

-----------------------------------------------------------------------------
(* Why: the inductive invariant.                                           *)

\* alive grows by one Socket at a time.
AliveIsFinite == IsFiniteSet(alive)

\* A number that names nothing is nobody's.
FreeIsNobodys == \A f \in Fds : tab[f] = Free => owner[f] = Dead

\* OnlyLooseSocketsShare, with the numbers that nobody owns: whoever gets
\* them next is then named by a loose Socket too.
Owned(s) == \A f \in Fds : Named(s, f) /\ owner[f] # s => s \in loose
OwnedOrLoose == \A s \in Objects : Owned(s)

\* The handles of a Socket that is not loose, by its status: only one that is
\* Connected has two different ones, and then it listens with the other.
FollowStatus(s) ==
    LET own == sock[s].socket
        acc == sock[s].accepted
    IN  /\ sock[s].status \in {"Open", "Listening"} => acc = Invalid
        /\ sock[s].status = "Listening" /\ own # Invalid => Entry(tab, own) = Listener
        /\ sock[s].status = "Connected" /\ Invalid \notin {own, acc} /\ own # acc =>
             Entry(tab, own) = Listener
HandlesFollowStatus == \A s \in alive \ loose : FollowStatus(s)

\* Who a descriptor was made for, or moved to, names it as long as it is open;
\* so the lost ones are those of nobody.
OwnersName == \A f \in Fds : owner[f] # Dead => Named(owner[f], f)

\* The handle that a listener keeps is never its own, loose or not: what it
\* forgets with the next connection is not lost.
KeepsNoneOfItsOwn(s) ==
    /\ sock[s].status = "Open" => sock[s].accepted = Invalid
    /\ sock[s].status = "Listening" =>
         \A f \in Fds : f = sock[s].accepted => owner[f] # s
ListenersKeepNoneOfTheirOwn == \A s \in alive : KeepsNoneOfItsOwn(s)

IInv ==
    /\ TypeOK /\ AliveIsFinite /\ CounterDrifts
    /\ FreeIsNobodys /\ OwnersName /\ OwnedOrLoose
    /\ HandlesFollowStatus /\ ListenersKeepNoneOfTheirOwn
=============================================================================
