-------------------------------- MODULE Sock --------------------------------
(***************************************************************************)
(* The class Socket (src/sock) over the process's descriptor table.        *)
(*                                                                         *)
(* A Socket is a record of its status and its two handles; the table says  *)
(* which object each descriptor number names.  The operators give the      *)
(* record, or the table, that a method of the class leaves behind, so that *)
(* the modules of the threads that share the table decide where the steps  *)
(* of one thread can be interrupted by those of another.                   *)
(***************************************************************************)
EXTENDS Integers

CONSTANTS
    Fds,        \* the descriptor numbers the process may use
    MaxConns    \* how many connections are accepted in a behaviour

ASSUME FdsAssumption == Fds \subseteq Nat
ASSUME ConnsAssumption == MaxConns \in Nat

\* Connections are numbered in the order in which they are accepted.
Conns == 1 .. MaxConns

\* What a descriptor names: nothing, the listening socket, an open file, or
\* the connection of that number.
Free == 0
Listener == -1
File == -2
Entries == Conns \cup {Free, Listener, File}

Tables == [Fds -> Entries]

Invalid == -1
Handles == Fds \cup {Invalid}
IsValidSocket(h) == h # Invalid

Status == {"Closed", "Open", "Listening", "Connected", "Error"}
Sockets == [status : Status, socket : Handles, accepted : Handles]

\* Socket(nullptr): what AcceptNew returns when it has no connection.
NullSocket == [status |-> "Closed", socket |-> Invalid, accepted |-> Invalid]

\* SetErrorLost: the failure leaves the status alone.
SetErrorLost(s) == s
SetError(s) == [s EXCEPT !.status = "Error"]

-----------------------------------------------------------------------------
(* The descriptor table.  A new descriptor is the lowest free one, and     *)
(* close() of a number that names nothing fails with EBADF.                *)

Entry(tab, h) == IF h \in Fds THEN tab[h] ELSE Free
IsOpen(tab, h) == Entry(tab, h) # Free
LowestFree(tab, f) ==
    /\ tab[f] = Free
    /\ \A g \in Fds : tab[g] = Free => f <= g
TableFull(tab) == \A f \in Fds : tab[f] # Free
Release(tab, h) == [f \in Fds |-> IF f = h THEN Free ELSE tab[f]]

-----------------------------------------------------------------------------
(* Closing.                                                                *)

\* CloseSocket(accepted_) and CloseSocket(socket_).
CloseAccepted(s, tab) ==
    IF IsOpen(tab, s.accepted)
    THEN [s EXCEPT !.accepted = Invalid, !.status = "Closed"]
    ELSE SetError(s)
CloseOwn(s, tab) ==
    IF IsOpen(tab, s.socket)
    THEN [s EXCEPT !.socket = Invalid, !.status = "Closed"]
    ELSE SetError(s)

\* QuitSocket is two calls of close(): the first only for a valid handle,
\* the second in any case.
QuitAccepted(s, tab) ==
    IF IsValidSocket(s.accepted) THEN CloseAccepted(s, tab) ELSE s
\* QuitHalf: only the first of them.
QuitHalf(s, tab) == Release(tab, s.accepted)
QuitTable(s, tab) == Release(Release(tab, s.accepted), s.socket)

\* Close() of a Connected Socket: the handle it closes and the record it
\* leaves.
\* CloseHandleOwn: the Socket's own, in any case.
CloseHandleOwn(s) == IF s.status # "Connected" THEN Invalid ELSE s.socket
CloseHandle(s) ==
    IF s.status # "Connected" THEN Invalid
    ELSE IF IsValidSocket(s.accepted) THEN s.accepted ELSE s.socket
\* CloseKeepsClosed: without the switch back to Listening.
CloseKeepsClosed(s, tab) ==
    IF s.status # "Connected" THEN s
    ELSE IF ~IsValidSocket(s.accepted) THEN CloseOwn(s, tab)
    ELSE CloseAccepted(s, tab)
Close(s, tab) ==
    IF s.status # "Connected" THEN s
    ELSE IF ~IsValidSocket(s.accepted) THEN CloseOwn(s, tab)
    ELSE LET c == CloseAccepted(s, tab)
         IN  IF c.status = "Closed" /\ IsValidSocket(c.socket)
             THEN [c EXCEPT !.status = "Listening"]
             ELSE c

\* What a Close() that goes on after its close() of accepted_ has succeeded
\* makes of the Socket as it is by then.
\* AfterCloseKept: without the switch back to Listening.
AfterCloseKept(s) == [s EXCEPT !.accepted = Invalid, !.status = "Closed"]
AfterClose(s) ==
    [s EXCEPT !.accepted = Invalid,
              !.status = IF IsValidSocket(s.socket) THEN "Listening" ELSE "Closed"]

-----------------------------------------------------------------------------
(* Accepting and moving.                                                   *)

\* AcceptNew: the Socket it returns, and the listener it leaves, when
\* accept() gives handle h or fails.
AcceptedFrom(h) ==
    [status |-> "Connected", socket |-> Invalid, accepted |-> h]
\* KeepsAliasConnected: the status changes too, as in Accept.
KeepsAliasConnected(l, h) ==
    [l EXCEPT !.accepted = h, !.status = "Connected"]
KeepsAlias(l, h) == [l EXCEPT !.accepted = h]
\* FailedAcceptAliased: the handle of the last connection stays.
FailedAcceptAliased(l) == SetError(l)
FailedAccept(l) == SetError([l EXCEPT !.accepted = Invalid])

\* The move constructor: the Socket built from s, and what is left of s.
\* MovedEmpty: the handles of s are invalidated before they are copied.
\* MovedFromAliased: s keeps the handle of the connection.
MovedEmpty(s) == [s EXCEPT !.socket = Invalid, !.accepted = Invalid]
Moved(s) == [s EXCEPT !.socket = s.accepted]
MovedFromAliased(s) == [s EXCEPT !.socket = Invalid]
MovedFrom(s) == [s EXCEPT !.socket = Invalid, !.accepted = Invalid]
=============================================================================
