---------------------------- MODULE Connections ----------------------------
(***************************************************************************)
(* What the server promises about connections, without descriptors,        *)
(* sockets, workers or threads: they are accepted one at a time in the     *)
(* order of their arrival, closed one at a time and for good, and only a   *)
(* queue that is dropped as a whole is never served.                       *)
(***************************************************************************)
EXTENDS Naturals

CONSTANT MaxConns   \* how many connections arrive in a behaviour

VARIABLES
    up,         \* whether the process runs
    waiting,    \* connections in the queue
    accepted,   \* connections accepted so far
    open        \* those of them that are open

vars == <<up, waiting, accepted, open>>

Init ==
    /\ up = TRUE
    /\ waiting = 0
    /\ accepted = 0
    /\ open = {}

Arrive ==
    /\ waiting + accepted < MaxConns
    /\ waiting' = waiting + 1
    /\ UNCHANGED <<up, accepted, open>>

Accept ==
    /\ waiting > 0
    /\ waiting' = waiting - 1
    /\ accepted' = accepted + 1
    /\ open' = open \cup {accepted + 1}
    /\ UNCHANGED up

Close ==
    /\ \E c \in open : open' = open \ {c}
    /\ UNCHANGED <<up, waiting, accepted>>

DropQueue ==
    /\ waiting' = 0
    /\ UNCHANGED <<up, accepted, open>>

Stop ==
    /\ up' = FALSE
    /\ UNCHANGED <<waiting, accepted, open>>

Next == up /\ (Arrive \/ Accept \/ Close \/ DropQueue \/ Stop)

Spec == Init /\ [][Next]_vars
=============================================================================
