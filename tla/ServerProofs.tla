---------------------------- MODULE ServerProofs ----------------------------
(***************************************************************************)
(* Proofs about Server, for every set of descriptors and of heap nodes,    *)
(* and every number of connections and of failures.                        *)
(***************************************************************************)
EXTENDS Server, TLAPS

USE DEF Free, Listener, File, Invalid, NoNode

-----------------------------------------------------------------------------
(* The descriptor table and the Socket class keep their types.             *)

LEMMA TableTypes ==
    ASSUME NEW tb \in Tables, NEW h
    PROVE  Release(tb, h) \in Tables /\ Entry(tb, h) \in Entries
BY DEF Tables, Entries, Release, Entry

LEMMA NewEntryTypes ==
    ASSUME NEW tb \in Tables, NEW f, NEW e \in Entries
    PROVE  [tb EXCEPT ![f] = e] \in Tables
BY DEF Tables

LEMMA SocketTypes ==
    ASSUME NEW s \in Sockets, NEW tb
    PROVE  /\ SetError(s) \in Sockets
           /\ CloseAccepted(s, tb) \in Sockets
           /\ CloseOwn(s, tb) \in Sockets
           /\ QuitAccepted(s, tb) \in Sockets
           /\ AfterClose(s) \in Sockets
           /\ CloseHandle(s) \in Handles
           /\ FailedAccept(s) \in Sockets
           /\ Moved(s) \in Sockets
           /\ MovedFrom(s) \in Sockets
<1> Invalid \in Handles
  BY DEF Handles
<1>1. SetError(s) \in Sockets /\ CloseAccepted(s, tb) \in Sockets
      /\ CloseOwn(s, tb) \in Sockets
  BY DEF Sockets, Status, SetError, CloseAccepted, CloseOwn
<1>2. QuitAccepted(s, tb) \in Sockets
  BY <1>1 DEF QuitAccepted
<1>3. AfterClose(s) \in Sockets
  BY DEF Sockets, Status, AfterClose
<1>4. CloseHandle(s) \in Handles
  BY DEF CloseHandle, Sockets
<1>5. FailedAccept(s) \in Sockets
  BY DEF Sockets, Status, FailedAccept, SetError
<1>6. Moved(s) \in Sockets /\ MovedFrom(s) \in Sockets
  BY DEF Sockets, Moved, MovedFrom
<1> QED
  BY <1>1, <1>2, <1>3, <1>4, <1>5, <1>6

LEMMA AcceptTypes ==
    ASSUME NEW s \in Sockets, NEW h \in Handles
    PROVE  AcceptedFrom(h) \in Sockets /\ KeepsAlias(s, h) \in Sockets
BY DEF Sockets, Status, AcceptedFrom, KeepsAlias, Handles

LEMMA NullType == NullSocket \in Sockets
BY DEF NullSocket, Sockets, Status, Handles

-----------------------------------------------------------------------------
(* The list of workers.                                                    *)

LEMMA Prepend ==
    ASSUME NEW S, NEW l \in Seq(S), NEW x \in S
    PROVE  /\ <<x>> \o l \in Seq(S)
           /\ ToSet(<<x>> \o l) = ToSet(l) \cup {x}
           /\ x \notin ToSet(l)
              /\ (\A i, j \in DOMAIN l : l[i] = l[j] => i = j)
              => \A i, j \in DOMAIN (<<x>> \o l) :
                   (<<x>> \o l)[i] = (<<x>> \o l)[j] => i = j
<1> DEFINE m == <<x>> \o l
<1>1. m \in Seq(S) /\ Len(m) = Len(l) + 1
  OBVIOUS
<1>2. m[1] = x /\ \A i \in 1 .. Len(l) : m[i + 1] = l[i]
  OBVIOUS
<1>3. DOMAIN m = 1 .. Len(l) + 1 /\ DOMAIN l = 1 .. Len(l) /\ Len(l) \in Nat
  BY <1>1
<1> HIDE DEF m
<1>4. \A i \in DOMAIN m : i = 1 \/ (i - 1 \in DOMAIN l /\ m[i] = l[i - 1])
  BY <1>2, <1>3
<1>5. ToSet(m) = ToSet(l) \cup {x}
  <2>1. ASSUME NEW e \in ToSet(m) PROVE e \in ToSet(l) \cup {x}
    BY <1>2, <1>3, <1>4 DEF ToSet
  <2>2. ASSUME NEW e \in ToSet(l) PROVE e \in ToSet(m)
    <3>1. PICK i \in DOMAIN l : e = l[i]
      BY DEF ToSet
    <3>2. i + 1 \in DOMAIN m /\ m[i + 1] = l[i]
      BY <1>2, <1>3
    <3> QED
      BY <3>1, <3>2 DEF ToSet
  <2>3. x \in ToSet(m)
    BY <1>2, <1>3 DEF ToSet
  <2> QED
    BY <2>1, <2>2, <2>3
<1>6. ASSUME x \notin ToSet(l),
             \A i, j \in DOMAIN l : l[i] = l[j] => i = j,
             NEW i \in DOMAIN m, NEW j \in DOMAIN m, m[i] = m[j]
      PROVE  i = j
  <2>1. \A k \in DOMAIN l : l[k] # x
    BY <1>6 DEF ToSet
  <2> QED
    BY <1>2, <1>3, <1>4, <1>6, <2>1
<1> QED
  BY <1>1, <1>5, <1>6 DEF m

LEMMA Joined ==
    ASSUME NEW S, NEW a \in Seq(S), NEW b \in Seq(S)
    PROVE  a \o b \in Seq(S) /\ Len(a \o b) = Len(a) + Len(b)
<1>1. a \o b \in Seq(S)
  OBVIOUS
<1>2. Len(a \o b) = Len(a) + Len(b)
  OBVIOUS
<1> QED
  BY <1>1, <1>2

LEMMA Unlink ==
    ASSUME NEW S, NEW l \in Seq(S), NEW v \in DOMAIN l
    PROVE  /\ Without(l, v) \in Seq(S)
           /\ (\A i, j \in DOMAIN l : l[i] = l[j] => i = j) =>
                /\ ToSet(Without(l, v)) = ToSet(l) \ {l[v]}
                /\ \A i, j \in DOMAIN Without(l, v) :
                     Without(l, v)[i] = Without(l, v)[j] => i = j
<1> DEFINE m == Without(l, v)
           up(i) == IF i < v THEN i ELSE i + 1
<1>1. DOMAIN l = 1 .. Len(l) /\ Len(l) \in Nat /\ v \in 1 .. Len(l)
  OBVIOUS
<1> DEFINE a == SubSeq(l, 1, v - 1)
           b == SubSeq(l, v + 1, Len(l))
<1>a. a \in Seq(S) /\ Len(a) = v - 1 /\ \A i \in 1 .. v - 1 : a[i] = l[i]
  BY <1>1
<1>b. b \in Seq(S) /\ Len(b) = Len(l) - v /\ \A i \in 1 .. Len(l) - v : b[i] = l[v + i]
  BY <1>1
<1>m. m = a \o b
  BY DEF Without, RemoveAt
<1> HIDE DEF a, b, m
<1>c. m \in Seq(S) /\ Len(m) = Len(l) - 1
  <2>1. a \o b \in Seq(S) /\ Len(a \o b) = Len(a) + Len(b)
    BY <1>a, <1>b, Joined
  <2>2. Len(a) + Len(b) = Len(l) - 1
    BY <1>1, <1>a, <1>b
  <2> QED
    BY <2>1, <2>2, <1>m
<1>2. DOMAIN m = 1 .. Len(l) - 1
  BY <1>c
<1>3. \A i \in DOMAIN m : up(i) \in DOMAIN l \ {v} /\ m[i] = l[up(i)]
  <2> SUFFICES ASSUME NEW i \in 1 .. Len(l) - 1
               PROVE  up(i) \in DOMAIN l \ {v} /\ m[i] = l[up(i)]
    BY <1>2
  <2>1. CASE i < v
    <3>1. i \in 1 .. v - 1 /\ i \in 1 .. Len(a)
      BY <1>1, <1>a, <2>1
    <3>2. m[i] = a[i]
      BY <1>1, <1>a, <1>b, <1>m, <3>1
    <3>3. m[i] = l[i]
      BY <1>a, <3>1, <3>2
    <3> QED
      BY <1>1, <2>1, <3>3
  <2>2. CASE i >= v
    <3>1. m[i] = b[i - (v - 1)]
      BY <1>1, <1>a, <1>b, <1>m, <2>2
    <3>2. i - (v - 1) \in 1 .. Len(l) - v /\ v + (i - (v - 1)) = i + 1
      BY <1>1, <2>2
    <3>3. m[i] = l[i + 1]
      BY <1>b, <3>1, <3>2
    <3> QED
      BY <1>1, <2>2, <3>3
  <2> QED
    BY <1>1, <2>1, <2>2
<1>4. \A k \in DOMAIN l \ {v} : \E i \in DOMAIN m : up(i) = k
  <2> SUFFICES ASSUME NEW k \in DOMAIN l \ {v}
               PROVE  \E i \in DOMAIN m : up(i) = k
    OBVIOUS
  <2>1. CASE k < v
    BY <1>1, <1>2, <2>1
  <2>2. CASE k > v
    <3>1. k - 1 \in DOMAIN m /\ up(k - 1) = k
      BY <1>1, <1>2, <2>2
    <3> QED
      BY <3>1
  <2> QED
    BY <1>1, <2>1, <2>2
<1>5. m \in Seq(S)
  BY <1>c
<1>6. \A i, j \in DOMAIN m : up(i) = up(j) => i = j
  BY <1>1, <1>2
<1> HIDE DEF up
<1>7. ASSUME \A i, j \in DOMAIN l : l[i] = l[j] => i = j
      PROVE  /\ ToSet(m) = ToSet(l) \ {l[v]}
             /\ \A i, j \in DOMAIN m : m[i] = m[j] => i = j
  <2>1. ToSet(m) = ToSet(l) \ {l[v]}
    BY <1>3, <1>4, <1>7 DEF ToSet
  <2>2. \A i, j \in DOMAIN m : m[i] = m[j] => i = j
    BY <1>3, <1>6, <1>7
  <2> QED
    BY <2>1, <2>2
<1> QED
  BY <1>5, <1>7 DEF m

-----------------------------------------------------------------------------
(* Type correctness.                                                       *)

USE FdsAssumption, ConnsAssumption, RequestsAssumption, SlotsAssumption,
    MaxFaultsAssumption

LEMMA SlotTypes ==
    ASSUME TypeOK, NEW t \in Conns, pc[t] # "off"
    PROVE  this[t] \in Slots /\ Mine(t) \in Sockets
BY DEF TypeOK, WorkerTypeOK, Mine

LEMMA WorkerTyping ==
    ASSUME TypeOK, NEW t \in Conns, WorkerStep(t, Live), UNCHANGED coreVars
    PROVE  TypeOK'
<1> USE DEF kernel, objects, threads, coreVars
<1> SUFFICES WorkerTypeOK'
  BY DEF TypeOK, ToSet
<1> tab \in Tables /\ WorkerTypeOK
  BY DEF TypeOK, WorkerTypeOK
<1>1. CASE Loop(t)
  BY <1>1 DEF WorkerTypeOK, Loop, At, Goto, Locations
<1>2. CASE Fetch(t)
  <2>1. Mine(t) \in Sockets /\ this[t] \in Slots
    BY <1>2, SlotTypes DEF Fetch, At
  <2>2. obj' \in [Slots -> Sockets]
    BY <1>2, <2>1, SocketTypes DEF Fetch, SetMine, WorkerTypeOK
  <2> QED
    BY <1>2, <2>2 DEF WorkerTypeOK, Fetch, At, Goto, Locations
<1>3. CASE Exhaust(t)
  BY <1>3 DEF WorkerTypeOK, Exhaust, Die
<1>4. CASE RecvData(t)
  BY <1>4 DEF WorkerTypeOK, RecvData, At, Goto, Locations
<1>5. CASE RecvEof(t)
  BY <1>5 DEF WorkerTypeOK, RecvEof, At, Goto, Locations
<1>6. CASE RecvReset(t)
  <2>1. Mine(t) \in Sockets /\ this[t] \in Slots
    BY <1>6, SlotTypes DEF RecvReset, At
  <2>2. obj' \in [Slots -> Sockets]
    BY <1>6, <2>1, SocketTypes DEF RecvReset, SetMine, WorkerTypeOK
  <2> QED
    BY <1>6, <2>2 DEF WorkerTypeOK, RecvReset, At, Goto, Locations
<1>7. CASE OpenFile(t)
  <2>1. tab' \in Tables
    <3>1. PICK f \in Fds : tab' = [tab EXCEPT ![f] = File]
      BY <1>7 DEF OpenFile
    <3>2. File \in Entries
      BY DEF Entries
    <3> QED
      BY <3>1, <3>2, NewEntryTypes
  <2>2. file' \in [Conns -> Handles]
    BY <1>7 DEF WorkerTypeOK, OpenFile, Handles
  <2>3. UNCHANGED <<proc, peer, objects, this, rx>> /\ Goto(t, "file")
    BY <1>7 DEF OpenFile
  <2> QED
    BY <2>1, <2>2, <2>3, <1>7 DEF WorkerTypeOK, OpenFile, At, Goto, Locations
<1>8. CASE RespondWithoutFile(t)
  BY <1>8 DEF WorkerTypeOK, RespondWithoutFile, At, Goto, Locations
<1>9. CASE CloseFile(t)
  <2>1. tab' \in Tables
    BY <1>9, TableTypes DEF CloseFile
  <2> QED
    BY <1>9, <2>1 DEF WorkerTypeOK, CloseFile, At, Goto, Locations, Handles
<1>10. CASE SendNothing(t)
  BY <1>10 DEF WorkerTypeOK, SendNothing, At, Goto, Locations
<1>11. CASE SendOk(t)
  BY <1>11 DEF WorkerTypeOK, SendOk, At, Goto, Locations
<1>12. CASE SendError(t)
  <2>1. Mine(t) \in Sockets /\ this[t] \in Slots
    BY <1>12, SlotTypes DEF SendError, At
  <2>2. obj' \in [Slots -> Sockets]
    BY <1>12, <2>1, SocketTypes DEF SendError, SetMine, WorkerTypeOK
  <2> QED
    BY <1>12, <2>2 DEF WorkerTypeOK, SendError, At, Goto, Locations
<1>13. CASE SendKilled(t)
  BY <1>13 DEF WorkerTypeOK, SendKilled, Die
<1>14. CASE BeginClose(t)
  <2>1. Mine(t) \in Sockets
    BY <1>14, SlotTypes DEF BeginClose, At
  <2>2. CloseHandle(Mine(t)) \in Handles /\ Invalid \in Handles
    BY <2>1, SocketTypes DEF Handles
  <2> QED
    BY <1>14, <2>2 DEF WorkerTypeOK, BeginClose, At, Goto, Locations
<1>17. CASE CloseConnection(t)
  <2>1. tab' \in Tables
    BY <1>17, TableTypes DEF CloseConnection
  <2> QED
    BY <1>17, <2>1 DEF WorkerTypeOK, CloseConnection, At, Goto, Locations, Handles
<1>18. CASE WriteClosed(t)
  <2>1. Mine(t) \in Sockets /\ this[t] \in Slots
    BY <1>18, SlotTypes DEF WriteClosed, At
  <2>2. obj' \in [Slots -> Sockets]
    BY <1>18, <2>1, SocketTypes DEF WriteClosed, SetMine, WorkerTypeOK
  <2> QED
    BY <1>18, <2>2 DEF WorkerTypeOK, WriteClosed, At, Goto, Locations
<1>19. CASE WriteUnclosed(t)
  <2>1. Mine(t) \in Sockets /\ this[t] \in Slots
    BY <1>19, SlotTypes DEF WriteUnclosed, At
  <2>2. obj' \in [Slots -> Sockets]
    BY <1>19, <2>1, SocketTypes DEF WriteUnclosed, SetMine, WorkerTypeOK
  <2> QED
    BY <1>19, <2>2 DEF WorkerTypeOK, WriteUnclosed, At, Goto, Locations
<1>20. CASE Switch(t)
  BY <1>20 DEF WorkerTypeOK, Switch, At, Goto, Locations
<1>21. CASE MarkDone(t)
  BY <1>21, SlotTypes DEF WorkerTypeOK, MarkDone, At, Goto, Locations
<1>22. CASE RecvFault(t)
  <2>1. Mine(t) \in Sockets /\ this[t] \in Slots
    BY <1>22, SlotTypes DEF RecvFault, At
  <2>2. obj' \in [Slots -> Sockets]
    BY <1>22, <2>1, SocketTypes DEF RecvFault, SetMine, WorkerTypeOK
  <2> QED
    BY <1>22, <2>2 DEF WorkerTypeOK, RecvFault, At, Goto, Locations
<1>15. CASE Overrun(t) \/ TouchFreed(t, Live)
  BY <1>15 DEF WorkerTypeOK, Overrun, TouchFreed, Die
<1>16. CASE ClientClose(t) \/ ClientAbort(t)
  BY <1>16 DEF WorkerTypeOK, ClientClose, ClientAbort
<1> QED
  BY <1>1, <1>2, <1>3, <1>4, <1>5, <1>6, <1>7, <1>8, <1>9, <1>10, <1>11, <1>12, <1>13, <1>14, <1>15, <1>16,
     <1>17, <1>18, <1>19, <1>20, <1>21, <1>22 DEF WorkerStep, ThreadStep

LEMMA CoreTyping ==
    ASSUME TypeOK, CoreStep
    PROVE  TypeOK'
<1> USE DEF kernel, objects, threads, coreVars, AtCore, Fault, CoreLocations
<1> tab \in Tables /\ lst \in Sockets /\ got \in Sockets /\ list \in Seq(Slots)
    /\ obj \in [Slots -> Sockets] /\ WorkerTypeOK
  BY DEF TypeOK, WorkerTypeOK
<1>1. CASE OpenListener
  <2>1. tab' \in Tables
    <3>1. CASE tab' = tab
      BY <3>1
    <3>2. CASE tab' # tab
      <4>1. PICK f \in Fds : tab' = [tab EXCEPT ![f] = Listener]
        BY <1>1, <3>2 DEF OpenListener
      <4>2. Listener \in Entries
        BY DEF Entries
      <4> QED
        BY <4>1, <4>2, NewEntryTypes
    <3> QED
      BY <3>1, <3>2
  <2>2. lst' \in Sockets
    <3>1. CASE lst' = SetError([lst EXCEPT !.socket = Invalid, !.accepted = Invalid])
      <4>1. [lst EXCEPT !.socket = Invalid, !.accepted = Invalid] \in Sockets
        BY DEF Sockets, Handles
      <4> QED
        BY <3>1, <4>1, SocketTypes
    <3>2. CASE \E f \in Fds, failed \in BOOLEAN :
                 lst' = [status |-> IF failed THEN "Error" ELSE "Listening",
                         socket |-> f, accepted |-> Invalid]
      BY <3>2 DEF Sockets, Status, Handles
    <3> QED
      BY <1>1, <3>1, <3>2 DEF OpenListener
  <2>3. core' \in CoreLocations /\ it' \in Nat /\ prev' \in Nat
        /\ faults' \in 0 .. MaxFaults
    BY <1>1 DEF OpenListener, BeginSweep, TypeOK
  <2> QED
    BY <1>1, <2>1, <2>2, <2>3 DEF OpenListener, TypeOK, WorkerTypeOK
<1>2. CASE AcceptNull
  BY <1>2, NullType DEF AcceptNull, TypeOK, WorkerTypeOK
<1>3. CASE AcceptOk
  <2>1. PICK f \in Fds : /\ tab' = [tab EXCEPT ![f] = nconn + 1]
                         /\ lst' = KeepsAlias(lst, f)
                         /\ got' = AcceptedFrom(f)
    BY <1>3 DEF AcceptOk
  <2>2. nconn + 1 \in Conns /\ backlog \in Nat /\ backlog > 0
    BY <1>3 DEF AcceptOk, TypeOK, Conns
  <2>3. tab' \in Tables
    BY <2>1, <2>2, NewEntryTypes DEF Entries
  <2>4. lst' \in Sockets /\ got' \in Sockets
    BY <2>1, AcceptTypes DEF Handles
  <2>5. backlog' \in Nat /\ nconn' \in 0 .. MaxConns
        /\ backlog' + nconn' <= MaxConns
    BY <1>3, <2>2 DEF AcceptOk, TypeOK, Conns
  <2>6. core' = "dispatch"
        /\ UNCHANGED <<proc, peer, objects, threads, list, cur, it, prev, faults>>
    BY <1>3 DEF AcceptOk
  <2> QED
    BY <2>3, <2>4, <2>5, <2>6 DEF TypeOK, WorkerTypeOK
<1>4. CASE AcceptFail
  <2>1. lst' \in Sockets /\ got' \in Sockets
    BY <1>4, SocketTypes, NullType DEF AcceptFail
  <2> QED
    BY <1>4, <2>1 DEF AcceptFail, Accepting, TypeOK, WorkerTypeOK
<1>5. CASE Reset
  <2>1. tab' \in Tables
    BY <1>5, TableTypes DEF Reset, QuitTable
  <2> QED
    BY <1>5, <2>1, NullType DEF Reset, TypeOK, WorkerTypeOK
<1>6. CASE Spawn
  <2>1. PICK s \in Slots, b \in BOOLEAN :
          /\ cur' = s
          /\ obj' = [obj EXCEPT ![s] = Moved(Moved(got))]
          /\ done' = [done EXCEPT ![s] = b]
          /\ Start(nconn, s)
    BY <1>6 DEF Spawn
  <2>2. obj' \in [Slots -> Sockets] /\ got' \in Sockets
    <3>1. Moved(got) \in Sockets /\ MovedFrom(got) \in Sockets
      BY SocketTypes
    <3>2. Moved(Moved(got)) \in Sockets
      BY <3>1, SocketTypes
    <3> QED
      BY <1>6, <2>1, <3>1, <3>2 DEF Spawn
  <2>3. /\ pc' \in [Conns -> Locations]
        /\ this' \in [Conns -> Slots \cup {NoNode}]
        /\ \A t \in Conns : pc'[t] # "off" => this'[t] \in Slots
    BY <2>1 DEF Start, WorkerTypeOK, Locations
  <2>4. done' \in [Slots -> BOOLEAN]
    BY <2>1 DEF WorkerTypeOK
  <2>5. core' = "build"
        /\ UNCHANGED <<kernel, rx, file, lst, list, it, prev, backlog,
                       nconn, faults>>
    BY <1>6 DEF Spawn
  <2> QED
    BY <2>1, <2>2, <2>3, <2>4, <2>5 DEF TypeOK, WorkerTypeOK
<1>7. CASE Build
  <2>1. cur \in Slots
    BY <1>7 DEF Build, TypeOK
  <2>2. list' \in Seq(Slots)
    BY <1>7, <2>1, Prepend DEF Build
  <2> QED
    BY <1>7, <2>1, <2>2 DEF Build, BeginSweep, TypeOK, WorkerTypeOK
<1>8. CASE SweepSkip
  BY <1>8 DEF SweepSkip, Sweeping, TypeOK, WorkerTypeOK
<1>9. CASE SweepErase
  <2>1. Victim \in DOMAIN list
    BY <1>9 DEF SweepErase
  <2>2. list' \in Seq(Slots) /\ list[Victim] \in Slots
    <3>1. list[Victim] \in Slots
      BY <2>1 DEF TypeOK
    <3> QED
      BY <1>9, <2>1, <3>1, Unlink DEF SweepErase
  <2>3. it' \in Nat /\ prev' \in Nat
    BY <1>9 DEF SweepErase, Victim, TypeOK
  <2>4. core' = "reap1" /\ cur' = list[Victim]
        /\ UNCHANGED <<kernel, objects, threads, lst, got, backlog, nconn, faults>>
    BY <1>9 DEF SweepErase
  <2> QED
    BY <2>2, <2>3, <2>4 DEF TypeOK, WorkerTypeOK
<1>10. CASE SweepCrash
  BY <1>10 DEF SweepCrash, Die, TypeOK, WorkerTypeOK
<1>11. CASE Reap1
  <2>1. cur \in Slots
    BY <1>11 DEF Reap1, TypeOK
  <2>2. QuitAccepted(obj[cur], tab) \in Sockets
    BY <2>1, SocketTypes
  <2>3. tab' \in Tables /\ obj' \in [Slots -> Sockets]
    BY <1>11, <2>1, <2>2, TableTypes DEF Reap1
  <2>4. core' = "reap2"
        /\ UNCHANGED <<proc, peer, done, threads, lst, got, list, cur, it, prev,
                       backlog, nconn, faults>>
    BY <1>11 DEF Reap1
  <2> QED
    BY <2>1, <2>3, <2>4 DEF TypeOK, WorkerTypeOK
<1>12. CASE Reap2
  <2>1. cur \in Slots
    BY <1>12 DEF Reap2, TypeOK
  <2>2. CloseOwn(obj[cur], tab) \in Sockets
    BY <2>1, SocketTypes
  <2>3. tab' \in Tables /\ obj' \in [Slots -> Sockets]
    BY <1>12, <2>1, <2>2, TableTypes DEF Reap2
  <2>4. core' = "sweep" /\ cur' = NoNode
        /\ UNCHANGED <<proc, peer, done, threads, lst, got, list, it, prev,
                       backlog, nconn, faults>>
    BY <1>12 DEF Reap2
  <2> QED
    BY <2>3, <2>4 DEF TypeOK, WorkerTypeOK
<1>13. CASE SweepEnd
  <2>1. tab' \in Tables
    BY <1>13, TableTypes DEF SweepEnd, QuitTable
  <2> QED
    BY <1>13, <2>1, NullType DEF SweepEnd, TypeOK, WorkerTypeOK
<1> QED
  BY <1>1, <1>2, <1>3, <1>4, <1>5, <1>6, <1>7, <1>8, <1>9, <1>10, <1>11,
     <1>12, <1>13 DEF CoreStep

LEMMA InitTyping == Init => TypeOK
<1> SUFFICES ASSUME Init PROVE TypeOK
  OBVIOUS
<1>1. WorkerTypeOK
  BY NullType DEF Init, WorkerInit, WorkerTypeOK, Tables, Entries, Locations,
     Handles
<1>2. list \in Seq(Slots)
  BY DEF Init
<1> QED
  BY <1>1, <1>2, NullType DEF Init, TypeOK, CoreLocations

LEMMA StepTyping == TypeOK /\ [Next]_vars => TypeOK'
<1> SUFFICES ASSUME TypeOK, [Next]_vars PROVE TypeOK'
  OBVIOUS
<1>1. CASE CoreStep
  BY <1>1, CoreTyping
<1>2. CASE WorkersStep
  BY <1>2, WorkerTyping DEF WorkersStep
<1>3. CASE ClientConnect
  BY <1>3 DEF ClientConnect, TypeOK, WorkerTypeOK, kernel, objects, threads
<1>4. CASE UNCHANGED vars
  BY <1>4 DEF vars, TypeOK, WorkerTypeOK, kernel, objects, threads, coreVars
<1> QED
  BY <1>1, <1>2, <1>3, <1>4 DEF Next

\* Every variable keeps its type: in particular no step writes through a node
\* that is none, and the connections accepted and waiting stay within their
\* bound.
THEOREM TypeCorrect == Spec => []TypeOK
<1>1. Init => TypeOK
  BY InitTyping
<1>2. TypeOK /\ [Next]_vars => TypeOK'
  BY StepTyping
<1> QED
  BY <1>1, <1>2, PTL DEF Spec

-----------------------------------------------------------------------------
(* What the steps of threads and clients do to the descriptors and to the  *)
(* Workers: five effects are all there are.                                *)

Fails(t) ==
    /\ this[t] \in Slots
    /\ tab' = tab
    /\ obj' = [obj EXCEPT ![this[t]] = SetError(obj[this[t]])]
Opens ==
    /\ obj' = obj
    /\ FilesServed
    /\ \E f \in Fds : tab[f] = Free /\ tab' = [tab EXCEPT ![f] = File]
Drops(t) ==
    /\ obj' = obj
    /\ pc[t] \in {"file", "close"}
    /\ tab' = Release(tab, file[t])
Forgets(t) ==
    /\ this[t] \in Slots
    /\ pc[t] = "closed"
    /\ obj' = [obj EXCEPT ![this[t]] = AfterClose(obj[this[t]])]
    /\ tab' = tab
Effect(t) ==
    \/ tab' = tab /\ obj' = obj
    \/ Fails(t) \/ Opens \/ Drops(t) \/ Forgets(t)

LEMMA ReleaseNothing == ASSUME NEW tb \in Tables PROVE Release(tb, Invalid) = tb
BY FdsAssumption DEF Release, Tables

LEMMA Effects ==
    ASSUME TypeOK, NEW t \in Conns, WorkerStep(t, Live)
    PROVE  Effect(t)
<1> USE DEF kernel, objects, Effect
<1> tab \in Tables
  BY DEF TypeOK, WorkerTypeOK
<1>1. CASE Loop(t) \/ Exhaust(t) \/ RecvData(t) \/ RecvEof(t)
           \/ RespondWithoutFile(t) \/ SendNothing(t) \/ SendKilled(t)
  BY <1>1 DEF Loop, Exhaust, RecvData, RecvEof, RespondWithoutFile, SendNothing,
     SendKilled
<1>2. CASE \/ SendOk(t) \/ Overrun(t) \/ TouchFreed(t, Live)
           \/ ClientClose(t) \/ ClientAbort(t)
  BY <1>2 DEF SendOk, Overrun, TouchFreed, ClientClose, ClientAbort
<1>3. CASE Fetch(t)
  BY <1>3, SlotTypes DEF Fetch, At, SetMine, Mine, Fails
<1>4. CASE RecvReset(t) \/ RecvFault(t)
  BY <1>4, SlotTypes DEF RecvReset, RecvFault, At, SetMine, Mine, Fails
<1>5. CASE SendError(t) \/ WriteUnclosed(t)
  BY <1>5, SlotTypes DEF SendError, WriteUnclosed, At, SetMine, Mine, Fails
<1>6. CASE OpenFile(t)
  BY <1>6 DEF OpenFile, LowestFree, Opens
<1>7. CASE CloseFile(t) \/ CloseConnection(t)
  BY <1>7 DEF CloseFile, CloseConnection, At, Drops
<1>8. CASE WriteClosed(t)
  BY <1>8, SlotTypes DEF WriteClosed, At, SetMine, Mine, Forgets
<1>9. CASE BeginClose(t) \/ Switch(t) \/ MarkDone(t)
  BY <1>9 DEF BeginClose, Switch, MarkDone
<1> QED
  BY <1>1, <1>2, <1>3, <1>4, <1>5, <1>6, <1>7, <1>8, <1>9 DEF WorkerStep, ThreadStep

\* A thread never makes a connection or a listening socket of a descriptor.
LEMMA OnlyTheCoreConnects ==
    ASSUME TypeOK, NEW t \in Conns, Effect(t), NEW h
    PROVE  \/ Entry(tab, h)' = Entry(tab, h)
           \/ Entry(tab, h)' \in {Free, File}
<1>1. tab \in [Fds -> Entries]
  BY DEF TypeOK, WorkerTypeOK, Tables
<1> QED
  BY <1>1 DEF Effect, Fails, Opens, Drops, Forgets, Entry, Release

\* What the end of Close() and an error make of the record of a Socket.
LEMMA AfterRecord ==
    ASSUME NEW s \in Sockets
    PROVE  /\ AfterClose(s).socket = s.socket
           /\ AfterClose(s).accepted = Invalid
           /\ IsValidSocket(s.socket) => AfterClose(s).status = "Listening"
           /\ SetError(s).socket = s.socket
           /\ SetError(s).accepted = s.accepted
           /\ SetError(s).status = "Error"
BY DEF Sockets, AfterClose, SetError

\* What the five effects do to the record of a Worker.
LEMMA RecordEffect ==
    ASSUME TypeOK, NEW t \in Conns, Effect(t), NEW s \in Slots
    PROVE  \/ obj'[s] = obj[s]
           \/ obj'[s] = SetError(obj[s]) /\ tab' = tab
           \/ obj'[s] = AfterClose(obj[s]) /\ tab' = tab /\ pc[t] = "closed"
BY DEF Effect, Fails, Opens, Drops, Forgets, TypeOK, WorkerTypeOK

LEMMA LiveTypes ==
    ASSUME TypeOK
    PROVE  Live \subseteq Slots /\ Whole \subseteq Live
BY DEF TypeOK, Live, Whole, ToSet

-----------------------------------------------------------------------------
(* The threads and the clients keep the invariant.                         *)

LEMMA ThreadsKeepListener ==
    ASSUME IInv, NEW t \in Conns, Effect(t), UNCHANGED coreVars
    PROVE  ListenerShape'
<1>1. lst' = lst /\ core' = core
  BY DEF coreVars
<1>2. Entry(tab, lst.socket)' = Entry(tab, lst.socket)
      \/ Entry(tab, lst.socket)' \in {Free, File}
  BY <1>1, OnlyTheCoreConnects DEF IInv, Entry
<1>3. Free \notin Conns /\ File \notin Conns
  BY DEF Conns
<1> QED
  BY <1>1, <1>2, <1>3 DEF IInv, ListenerShape

LEMMA ThreadsKeepWorkers ==
    ASSUME IInv, NEW t \in Conns, Effect(t), UNCHANGED coreVars
    PROVE  WorkerShape'
<1>1. Live' = Live /\ Whole' = Whole
  BY DEF coreVars, Live, Whole, ToSet
<1>2. TypeOK /\ Live \subseteq Slots /\ Whole \subseteq Live
  BY LiveTypes DEF IInv
<1>3. \A s \in Slots : obj[s] \in Sockets
  BY <1>2 DEF TypeOK, WorkerTypeOK
<1>4. ASSUME NEW s \in Live
      PROVE  /\ IsValidSocket(obj'[s].socket)
             /\ obj'[s].accepted \in {Invalid, obj'[s].socket}
  <2>1. /\ obj[s] \in Sockets /\ IsValidSocket(obj[s].socket)
        /\ obj[s].accepted \in {Invalid, obj[s].socket}
    BY <1>2, <1>3, <1>4 DEF IInv, WorkerShape
  <2> QED
    BY <1>2, <1>4, <2>1, RecordEffect, AfterRecord
<1>5. ASSUME NEW s \in Whole
      PROVE  /\ obj'[s].status \in {"Connected", "Listening", "Error"}
             /\ obj'[s].status = "Connected" => IsValidSocket(obj'[s].accepted)
  <2>1. /\ obj[s] \in Sockets /\ IsValidSocket(obj[s].socket)
        /\ obj[s].status \in {"Connected", "Listening", "Error"}
        /\ obj[s].status = "Connected" => IsValidSocket(obj[s].accepted)
    BY <1>2, <1>3, <1>5 DEF IInv, WorkerShape
  <2> QED
    BY <1>2, <1>5, <2>1, RecordEffect, AfterRecord
<1> QED
  BY <1>1, <1>4, <1>5 DEF WorkerShape

LEMMA ThreadsKeepDescriptors ==
    ASSUME IInv, NEW t \in Conns, Effect(t), UNCHANGED coreVars
    PROVE  EachHeld'
<1>1. Live' = Live /\ got' = got
  BY DEF coreVars, Live, ToSet
<1>2. TypeOK /\ Live \subseteq Slots
  BY LiveTypes DEF IInv
<1> SUFFICES ASSUME NEW h \in Fds, tab'[h] \in Conns
             PROVE  Held(h)'
  BY DEF EachHeld
<1>3. tab[h] = tab'[h] /\ tab[h] \in Conns
  BY <1>2, OnlyTheCoreConnects DEF Entry, Conns
<1>4. CASE got.accepted = h
  BY <1>1, <1>4 DEF Held
<1>5. ASSUME NEW s \in Live, obj[s].socket = h PROVE Held(h)'
  <2>1. obj[s] \in Sockets
    BY <1>2, <1>5 DEF TypeOK, WorkerTypeOK
  <2>2. obj'[s].socket = h
    BY <1>2, <1>5, <2>1, RecordEffect, AfterRecord
  <2> QED
    BY <1>1, <2>2 DEF Held
<1> QED
  BY <1>3, <1>4, <1>5 DEF IInv, EachHeld, Held

LEMMA ThreadsKeepSecondClose ==
    ASSUME IInv, NEW t \in Conns, Effect(t), UNCHANGED coreVars
    PROVE  SecondCloseMeetsNoConnection'
<1>1. core' = core /\ cur' = cur
  BY DEF coreVars
<1> SUFFICES ASSUME core = "reap2", obj'[cur].status = "Closed"
             PROVE  Entry(tab', obj'[cur].socket) \in {Free, File}
  BY <1>1 DEF SecondCloseMeetsNoConnection, Entry
<1>2. TypeOK /\ cur \in Slots /\ obj[cur] \in Sockets
  BY DEF IInv, TypeOK, WorkerTypeOK
<1>3. Entry(tab', obj[cur].socket) = Entry(tab, obj[cur].socket)
      \/ Entry(tab', obj[cur].socket) \in {Free, File}
  BY <1>2, OnlyTheCoreConnects DEF Entry
<1>4. ASSUME obj[cur].status = "Closed"
      PROVE  Entry(tab', obj[cur].socket) \in {Free, File}
  BY <1>3, <1>4 DEF IInv, SecondCloseMeetsNoConnection
<1>5. CASE obj'[cur] = obj[cur]
  BY <1>4, <1>5
<1>6. CASE obj'[cur] \in {SetError(obj[cur]), AfterClose(obj[cur])}
  <2>1. cur \in Live
    BY <1>2 DEF Live
  <2>2. IsValidSocket(obj[cur].socket)
    BY <2>1 DEF IInv, WorkerShape
  <2> QED
    BY <1>2, <1>6, <2>2, AfterRecord
<1> QED
  BY <1>2, <1>5, <1>6, RecordEffect

\* When nothing else closes, a thread opens no file and asks for no Close().
LEMMA ThreadsStayQuiet ==
    ASSUME TypeOK, NEW t \in Conns, WorkerStep(t, Live), NothingElseCloses,
           \A u \in Conns : pc[u] \notin Closing
    PROVE  \A u \in Conns : pc'[u] \notin Closing
<1> USE DEF TypeOK, WorkerTypeOK, threads, Goto, Closing
<1>1. CASE Loop(t) \/ Fetch(t)
  BY <1>1 DEF Loop, Fetch
<1>2. CASE RecvData(t)
  BY <1>2 DEF RecvData
<1>3. CASE RecvEof(t) \/ RecvReset(t) \/ RecvFault(t) \/ RespondWithoutFile(t)
  BY <1>3 DEF RecvEof, RecvReset, RecvFault, RespondWithoutFile
<1>4. CASE OpenFile(t)
  BY <1>4 DEF OpenFile, NothingElseCloses
<1>5. CASE \/ CloseFile(t) \/ BeginClose(t) \/ CloseConnection(t)
           \/ WriteClosed(t) \/ WriteUnclosed(t)
  BY <1>5 DEF CloseFile, BeginClose, CloseConnection, WriteClosed, WriteUnclosed, At,
     NothingElseCloses
<1>6. CASE SendNothing(t) \/ SendOk(t) \/ SendError(t) \/ Switch(t) \/ MarkDone(t)
  BY <1>6 DEF SendNothing, SendOk, SendError, Switch, MarkDone
<1>7. CASE \/ Exhaust(t) \/ SendKilled(t) \/ Overrun(t) \/ TouchFreed(t, Live)
           \/ ClientClose(t) \/ ClientAbort(t)
  BY <1>7 DEF Exhaust, SendKilled, Overrun, TouchFreed, ClientClose, ClientAbort
<1> QED
  BY <1>1, <1>2, <1>3, <1>4, <1>5, <1>6, <1>7 DEF WorkerStep, ThreadStep

LEMMA ThreadsKeepOwnership ==
    ASSUME IInv, NEW t \in Conns, WorkerStep(t, Live), UNCHANGED coreVars
    PROVE  Ownership'
<1>1. Live' = Live /\ Whole' = Whole /\ got' = got
  BY DEF coreVars, Live, Whole, ToSet
<1>2. TypeOK /\ Live \subseteq Slots /\ Whole \subseteq Live
  BY LiveTypes DEF IInv
<1> SUFFICES ASSUME NothingElseCloses PROVE Ownership'
  BY DEF Ownership, NothingElseCloses
<1>3. \A u \in Conns : pc[u] \notin Closing
  BY DEF IInv, Ownership
<1>4. \A u \in Conns : pc'[u] \notin Closing
  BY <1>2, <1>3, ThreadsStayQuiet
<1>5. tab' = tab
  BY <1>2, <1>3, Effects DEF Effect, Fails, Opens, Drops, Forgets, NothingElseCloses,
     Closing
<1>6. \A s \in Slots : obj[s] \in Sockets
  BY <1>2 DEF TypeOK, WorkerTypeOK
<1>7. \A s \in Live : /\ obj'[s].socket = obj[s].socket
                      /\ obj'[s].accepted = obj[s].accepted
  <2> SUFFICES ASSUME NEW s \in Live
               PROVE  /\ obj'[s].socket = obj[s].socket
                      /\ obj'[s].accepted = obj[s].accepted
    OBVIOUS
  <2>1. CASE obj'[s] = obj[s]
    BY <2>1
  <2>2. CASE obj'[s] = SetError(obj[s])
    BY <1>2, <1>6, <2>2, AfterRecord
  <2> QED
    BY <1>2, <1>3, <2>1, <2>2, Effects, RecordEffect DEF Closing
<1> QED
  BY <1>1, <1>2, <1>4, <1>5, <1>7 DEF IInv, Ownership, Entry

LEMMA ThreadsKeepInvariant ==
    ASSUME IInv, NEW t \in Conns, WorkerStep(t, Live), UNCHANGED coreVars
    PROVE  IInv'
<1>1. TypeOK /\ Effect(t)
  BY Effects DEF IInv
<1>2. TypeOK'
  BY <1>1, WorkerTyping
<1>3. CoreShape' /\ ListIsSound' /\ NullMeansError'
  BY DEF IInv, coreVars, CoreShape, ListIsSound, NullMeansError, ToSet
<1>4. ListenerShape' /\ WorkerShape'
  BY <1>1, ThreadsKeepListener, ThreadsKeepWorkers
<1>5. EachHeld' /\ SecondCloseMeetsNoConnection'
  BY <1>1, ThreadsKeepDescriptors, ThreadsKeepSecondClose
<1>6. Ownership'
  BY ThreadsKeepOwnership
<1> QED
  BY <1>2, <1>3, <1>4, <1>5, <1>6 DEF IInv

-----------------------------------------------------------------------------
(* The core keeps the invariant: one lemma for each of its steps.          *)

Parts ==
    /\ CoreShape /\ ListenerShape /\ ListIsSound /\ WorkerShape
    /\ EachHeld /\ NullMeansError /\ SecondCloseMeetsNoConnection /\ Ownership

LEMMA InvariantParts == IInv <=> TypeOK /\ Parts
BY DEF IInv, Parts

\* The variables that the parts of the invariant depend on.
LEMMA NothingMoves ==
    ASSUME Parts, UNCHANGED <<tab, obj, pc, core, lst, got, list, cur, nconn>>
    PROVE  Parts'
BY DEF Parts, CoreShape, ListenerShape, ListIsSound, WorkerShape, EachHeld, Held,
   NullMeansError, SecondCloseMeetsNoConnection, Ownership, Live, Whole, ToSet,
   Entry

\* A step that leaves the Workers and the Socket from AcceptNew alone, and
\* moves no connection in the table, keeps what relates them.
LEMMA ConnectionsStay ==
    ASSUME TypeOK, Parts,
           UNCHANGED <<obj, pc, list, cur>>,
           core # "reap2", core' # "reap2",
           got.accepted = Invalid, got'.accepted = Invalid,
           tab' \in Tables,
           \A h \in Fds : tab[h] \in Conns => tab'[h] = tab[h],
           \A h \in Fds : tab'[h] \in Conns => tab'[h] = tab[h],
           \A h \in Fds : tab'[h] = File => tab[h] = File
    PROVE  ListIsSound' /\ WorkerShape' /\ EachHeld'
           /\ SecondCloseMeetsNoConnection' /\ Ownership'
<1>1. Live' = Live /\ Whole' = Whole
  BY DEF Live, Whole, ToSet
<1>2. ListIsSound' /\ SecondCloseMeetsNoConnection'
  BY DEF Parts, ListIsSound, SecondCloseMeetsNoConnection, ToSet
<1>3. WorkerShape'
  BY <1>1 DEF Parts, WorkerShape
<1>4. EachHeld'
  <2> SUFFICES ASSUME NEW h \in Fds, tab'[h] \in Conns PROVE Held(h)'
    BY DEF EachHeld
  <2>1. Held(h)
    BY DEF Parts, EachHeld
  <2>2. h # Invalid
    BY FdsAssumption
  <2> QED
    BY <1>1, <2>1, <2>2 DEF Held
<1>5. Ownership'
  BY <1>1 DEF Parts, Ownership, NothingElseCloses, IsValidSocket, Entry, Conns
<1> QED
  BY <1>2, <1>3, <1>4, <1>5

LEMMA OpenListenerKeeps ==
    ASSUME TypeOK, Parts, OpenListener
    PROVE  Parts'
<1>1. TypeOK' /\ tab \in Tables /\ tab' \in Tables
  BY CoreTyping DEF CoreStep, TypeOK, WorkerTypeOK
<1>2. core \in {"boot", "reopen"} /\ core' \in {"accept", "sweep"}
      /\ got' = got /\ cur' = cur
  BY DEF OpenListener, AtCore
<1>3. got.accepted = Invalid /\ got.socket = Invalid /\ cur = NoNode
  BY <1>2 DEF Parts, CoreShape
<1>4. CASE /\ lst' = SetError([lst EXCEPT !.socket = Invalid, !.accepted = Invalid])
           /\ tab' = tab
  <2>1. lst'.status = "Error" /\ lst'.socket = Invalid /\ lst'.accepted = Invalid
    BY <1>4 DEF SetError, TypeOK, Sockets
  <2>2. ListenerShape'
    BY <2>1, FdsAssumption DEF ListenerShape, Entry, Conns
  <2>3. CoreShape' /\ NullMeansError'
    BY <1>2, <1>3 DEF CoreShape, NullMeansError
  <2> QED
    BY <1>1, <1>2, <1>3, <1>4, <2>2, <2>3, ConnectionsStay
       DEF OpenListener, Parts, threads, objects
<1>5. ASSUME NEW f \in Fds, NEW failed \in BOOLEAN, LowestFree(tab, f),
             tab' = [tab EXCEPT ![f] = Listener],
             lst' = [status |-> IF failed THEN "Error" ELSE "Listening",
                     socket |-> f, accepted |-> Invalid]
      PROVE  Parts'
  <2>1. tab[f] = Free /\ tab'[f] = Listener /\ tab \in [Fds -> Entries]
    BY <1>1, <1>5 DEF LowestFree, Tables
  <2>2. ListenerShape'
    BY <1>5, <2>1 DEF ListenerShape, Entry, Conns
  <2>3. CoreShape' /\ NullMeansError'
    BY <1>2, <1>3 DEF CoreShape, NullMeansError
  <2>4. /\ \A h \in Fds : tab[h] \in Conns => tab'[h] = tab[h]
        /\ \A h \in Fds : tab'[h] \in Conns => tab'[h] = tab[h]
        /\ \A h \in Fds : tab'[h] = File => tab[h] = File
    BY <1>5, <2>1 DEF Conns
  <2> QED
    BY <1>1, <1>2, <1>3, <2>2, <2>3, <2>4, ConnectionsStay
       DEF OpenListener, Parts, threads, objects
<1> QED
  BY <1>4, <1>5 DEF OpenListener

LEMMA AcceptFailKeeps ==
    ASSUME TypeOK, Parts, AcceptNull \/ AcceptFail
    PROVE  Parts'
<1> USE DEF kernel, threads, objects
<1>1. /\ core = "accept" /\ core' = "dispatch"
      /\ got' = NullSocket
      /\ UNCHANGED <<tab, obj, pc, list, cur>>
  BY DEF AcceptNull, AcceptFail, Accepting, AtCore
<1>2. /\ lst'.status = "Error" /\ lst'.accepted = Invalid
      /\ lst'.socket = lst.socket
  <2>1. CASE AcceptNull
    BY <1>1, <2>1 DEF AcceptNull, Parts, ListenerShape
  <2>2. CASE AcceptFail
    BY <2>2 DEF AcceptFail, FailedAccept, SetError, TypeOK, Sockets
  <2> QED
    BY <2>1, <2>2
<1>3. CoreShape' /\ NullMeansError' /\ ListenerShape'
  BY <1>1, <1>2 DEF Parts, CoreShape, NullMeansError, ListenerShape, NullSocket,
     IsValidSocket, Entry
<1>4. got.accepted = Invalid /\ got'.accepted = Invalid
  BY <1>1 DEF Parts, CoreShape, NullSocket
<1>5. tab' \in Tables
  BY <1>1 DEF TypeOK, WorkerTypeOK
<1> QED
  BY <1>1, <1>3, <1>4, <1>5, ConnectionsStay DEF Parts

LEMMA ResetKeeps ==
    ASSUME TypeOK, Parts, Reset
    PROVE  /\ Parts'
           /\ \A h \in Fds : tab[h] \in Conns => tab'[h] = tab[h]
<1> USE DEF threads, objects
<1>1. /\ core = "dispatch" /\ core' = "reopen" /\ lst' = NullSocket
      /\ lst.status = "Error" /\ lst.accepted = Invalid
      /\ UNCHANGED <<obj, pc, list, cur, got>>
  BY DEF Reset, AtCore, Parts, ListenerShape
<1>2. tab \in Tables /\ tab' \in Tables
  BY CoreTyping DEF CoreStep, TypeOK, WorkerTypeOK
<1>3. tab' = Release(tab, lst.socket)
  BY <1>1, <1>2, ReleaseNothing DEF Reset, QuitTable
<1>4. Entry(tab, lst.socket) \notin Conns
  BY DEF Parts, ListenerShape
<1>5. /\ \A h \in Fds : tab[h] \in Conns => tab'[h] = tab[h]
      /\ \A h \in Fds : tab'[h] \in Conns => tab'[h] = tab[h]
      /\ \A h \in Fds : tab'[h] = File => tab[h] = File
  BY <1>3, <1>4 DEF Release, Entry, Conns
<1>6. got.accepted = Invalid /\ got'.accepted = Invalid
  BY <1>1 DEF Parts, NullMeansError, IsValidSocket
<1>7. CoreShape' /\ NullMeansError' /\ ListenerShape'
  BY <1>1, <1>6, FdsAssumption DEF Parts, CoreShape, NullMeansError, ListenerShape,
     NullSocket, Entry, Conns
<1> QED
  BY <1>1, <1>2, <1>5, <1>6, <1>7, ConnectionsStay DEF Parts
LEMMA AcceptOkKeeps ==
    ASSUME TypeOK, Parts, AcceptOk
    PROVE  Parts'
<1> USE DEF threads, objects
<1>1. PICK f \in Fds : /\ tab[f] = Free
                       /\ tab' = [tab EXCEPT ![f] = nconn + 1]
                       /\ lst' = KeepsAlias(lst, f)
                       /\ got' = AcceptedFrom(f)
  BY DEF AcceptOk
<1>2. /\ core = "accept" /\ core' = "dispatch" /\ nconn' = nconn + 1
      /\ lst.status = "Listening" /\ Entry(tab, lst.socket) = Listener
      /\ UNCHANGED <<obj, pc, list, cur>>
  BY DEF AcceptOk, Accepting, AtCore
<1>3. nconn + 1 \in Conns /\ tab \in [Fds -> Entries] /\ f # Invalid
  BY DEF AcceptOk, TypeOK, WorkerTypeOK, Tables, Conns
<1>4. /\ lst'.status = "Listening" /\ lst'.socket = lst.socket
      /\ got'.status = "Connected" /\ got'.socket = Invalid /\ got'.accepted = f
  BY <1>1, <1>2 DEF KeepsAlias, AcceptedFrom, TypeOK, Sockets
<1>5. /\ tab'[f] \in Conns
      /\ \A h \in Fds : h # f => tab'[h] = tab[h]
  BY <1>1, <1>3
<1>6. CoreShape' /\ NullMeansError'
  BY <1>2, <1>3, <1>4 DEF Parts, CoreShape, NullMeansError, IsValidSocket
<1>7. ListenerShape'
  BY <1>1, <1>2, <1>4, <1>5 DEF ListenerShape, Entry, Conns
<1>8. Live' = Live /\ Whole' = Whole /\ Whole = Live
  BY <1>2 DEF Live, Whole, ToSet
<1>9. ListIsSound' /\ SecondCloseMeetsNoConnection' /\ WorkerShape'
  BY <1>2, <1>8 DEF Parts, ListIsSound, SecondCloseMeetsNoConnection, WorkerShape,
     ToSet
<1>10. got.accepted = Invalid
  BY <1>2 DEF Parts, CoreShape
<1>11. EachHeld'
  <2> SUFFICES ASSUME NEW h \in Fds, tab'[h] \in Conns PROVE Held(h)'
    BY DEF EachHeld
  <2>1. CASE h = f
    BY <1>4, <2>1 DEF Held
  <2>2. CASE h # f
    BY <1>2, <1>5, <1>8, <1>10, <2>2 DEF Parts, EachHeld, Held
  <2> QED
    BY <2>1, <2>2
<1>12. Ownership'
  <2> SUFFICES ASSUME NothingElseCloses PROVE Ownership'
    BY DEF Ownership, NothingElseCloses
  <2>1. \A s \in Live : obj[s].socket # f /\ Entry(tab', obj[s].socket) \in Conns
    BY <1>1, <1>5, <1>8 DEF Parts, Ownership, Entry, Conns
  <2>2. \A h \in Fds : tab'[h] # File
    BY <1>5 DEF Parts, Ownership, Conns
  <2>3. Entry(tab', f) \in Conns
    BY <1>5 DEF Entry
  <2> QED
    BY <1>2, <1>4, <1>8, <2>1, <2>2, <2>3 DEF Parts, Ownership, Entry
<1> QED
  BY <1>6, <1>7, <1>9, <1>11, <1>12 DEF Parts

LEMMA SpawnKeeps ==
    ASSUME TypeOK, Parts, Spawn
    PROVE  Parts'
<1> USE DEF kernel
<1>1. PICK s \in Slots \ ToSet(list) :
        /\ cur' = s
        /\ obj' = [obj EXCEPT ![s] = Moved(Moved(got))]
        /\ Start(nconn, s)
  BY DEF Spawn
<1>2. /\ core = "dispatch" /\ core' = "build" /\ lst.status # "Error"
      /\ got' = MovedFrom(got)
      /\ UNCHANGED <<tab, lst, list, nconn>>
  BY DEF Spawn, AtCore
<1>3. /\ got.accepted # Invalid /\ got.status = "Connected" /\ nconn \in Conns
      /\ cur = NoNode
  BY <1>2 DEF Parts, CoreShape, NullMeansError, IsValidSocket
<1>4. got'.socket = Invalid /\ got'.accepted = Invalid
  BY <1>2 DEF MovedFrom, TypeOK, Sockets
<1>5. /\ obj'[s].status = "Connected"
      /\ obj'[s].socket = got.accepted /\ obj'[s].accepted = got.accepted
      /\ \A u \in Slots : u # s => obj'[u] = obj[u]
  BY <1>1, <1>3 DEF Moved, TypeOK, WorkerTypeOK, Sockets
<1>6. /\ Live = ToSet(list) /\ Whole = Live /\ s \notin Live
      /\ Live' = Live \cup {s} /\ Whole' = Live'
  BY <1>1, <1>2, <1>3 DEF Live, Whole, ToSet
<1>7. Live \subseteq Slots
  BY LiveTypes
<1>8. CoreShape' /\ NullMeansError' /\ SecondCloseMeetsNoConnection'
  BY <1>1, <1>2, <1>4 DEF CoreShape, NullMeansError, SecondCloseMeetsNoConnection
<1>9. ListenerShape'
  BY <1>2 DEF Parts, ListenerShape, Entry
<1>10. ListIsSound'
  BY <1>1, <1>2 DEF Parts, ListIsSound, ToSet
<1>11. WorkerShape'
  BY <1>3, <1>5, <1>6, <1>7 DEF Parts, WorkerShape, IsValidSocket
<1>12. EachHeld'
  <2> SUFFICES ASSUME NEW h \in Fds, tab[h] \in Conns PROVE Held(h)'
    BY <1>2 DEF EachHeld
  <2>1. CASE h = got.accepted
    BY <1>5, <1>6, <2>1 DEF Held
  <2>2. CASE h # got.accepted
    BY <1>5, <1>6, <1>7, <2>2 DEF Parts, EachHeld, Held
  <2> QED
    BY <2>1, <2>2
<1>13. Ownership'
  <2> SUFFICES ASSUME NothingElseCloses PROVE Ownership'
    BY DEF Ownership, NothingElseCloses
  <2>1. \A u \in Conns : pc'[u] \notin Closing
    BY <1>1, <1>2 DEF Parts, Ownership, Start, TypeOK, WorkerTypeOK, Closing
  <2>2. \A u \in Live' : /\ obj'[u].accepted = obj'[u].socket
                         /\ Entry(tab', obj'[u].socket) \in Conns
    BY <1>2, <1>3, <1>5, <1>6, <1>7 DEF Parts, Ownership, IsValidSocket, Entry
  <2>3. \A u, v \in Live' : u # v => obj'[u].socket # obj'[v].socket
    BY <1>3, <1>5, <1>6, <1>7 DEF Parts, Ownership, IsValidSocket
  <2> QED
    BY <1>2, <1>4, <1>6, <2>1, <2>2, <2>3 DEF Parts, Ownership, IsValidSocket, Entry
<1> QED
  BY <1>8, <1>9, <1>10, <1>11, <1>12, <1>13 DEF Parts

\* Steps that change the list and cur, but not which Workers there are.
LEMMA WorkersStay ==
    ASSUME Parts, UNCHANGED <<tab, obj, pc, lst, got>>,
           Live' = Live, Whole' = Whole,
           core \in {"build", "sweep"}, core' \in {"sweep", "reap1"}
    PROVE  /\ ListenerShape' /\ WorkerShape' /\ EachHeld' /\ NullMeansError'
           /\ SecondCloseMeetsNoConnection' /\ Ownership'
BY DEF Parts, ListenerShape, WorkerShape, EachHeld, Held, NullMeansError,
   SecondCloseMeetsNoConnection, Ownership, Entry

LEMMA BuildKeeps ==
    ASSUME TypeOK, Parts, Build
    PROVE  Parts'
<1> USE DEF kernel, threads
<1>1. /\ core = "build" /\ core' = "sweep" /\ cur' = NoNode
      /\ list' = <<cur>> \o list
      /\ UNCHANGED <<tab, obj, pc, lst, got>>
  BY DEF Build, AtCore
<1>2. cur \in Slots /\ list \in Seq(Slots)
  BY <1>1 DEF TypeOK
<1>3. ToSet(list') = ToSet(list) \cup {cur}
  BY <1>1, <1>2, Prepend
<1>4. Live' = Live /\ Whole' = Whole
  BY <1>1, <1>2, <1>3 DEF Live, Whole, ToSet
<1>5. ListIsSound'
  <2>1. \A i, j \in DOMAIN list' : list'[i] = list'[j] => i = j
    BY <1>1, <1>2, Prepend DEF Parts, ListIsSound
  <2>2. NoNode \notin ToSet(list')
    BY <1>2, <1>3 DEF ToSet
  <2> QED
    BY <1>1, <2>1, <2>2 DEF ListIsSound, ToSet
<1>6. CoreShape'
  BY <1>1 DEF Parts, CoreShape
<1> QED
  BY <1>1, <1>4, <1>5, <1>6, WorkersStay DEF Parts

LEMMA SweepEraseKeeps ==
    ASSUME TypeOK, Parts, SweepErase
    PROVE  Parts'
<1> USE DEF kernel, threads, objects
<1>1. /\ core = "sweep" /\ core' = "reap1" /\ cur' = list[Victim]
      /\ list' = Without(list, Victim) /\ Victim \in DOMAIN list
      /\ UNCHANGED <<tab, obj, pc, lst, got>>
  BY DEF SweepErase, Sweeping, AtCore
<1>2. list \in Seq(Slots) /\ cur = NoNode /\ list[Victim] \in Slots
  BY <1>1 DEF TypeOK, Parts, CoreShape
<1>3. \A i, j \in DOMAIN list : list[i] = list[j] => i = j
  BY DEF Parts, ListIsSound
<1>4. /\ ToSet(list') = ToSet(list) \ {list[Victim]}
      /\ \A i, j \in DOMAIN list' : list'[i] = list'[j] => i = j
  BY <1>1, <1>2, <1>3, Unlink
<1>5. list[Victim] \in ToSet(list)
  BY <1>1 DEF ToSet
<1>6. Live' = Live /\ Whole' = Whole
  BY <1>1, <1>2, <1>4, <1>5 DEF Live, Whole
<1>7. ListIsSound'
  BY <1>1, <1>4 DEF ListIsSound, ToSet
<1>8. CoreShape'
  BY <1>1, <1>2 DEF Parts, CoreShape
<1> QED
  BY <1>1, <1>6, <1>7, <1>8, WorkersStay DEF Parts
LEMMA Reap1Keeps ==
    ASSUME TypeOK, Parts, Reap1
    PROVE  Parts'
<1> USE DEF threads
<1>1. /\ core = "reap1" /\ core' = "reap2"
      /\ obj' = [obj EXCEPT ![cur] = QuitAccepted(obj[cur], tab)]
      /\ tab' = Release(tab, obj[cur].accepted)
      /\ UNCHANGED <<pc, lst, got, list, cur>>
  BY DEF Reap1, AtCore
<1>2. /\ cur \in Slots /\ obj[cur] \in Sockets /\ tab \in [Fds -> Entries]
      /\ cur \notin ToSet(list) /\ cur # NoNode
  BY <1>1 DEF TypeOK, WorkerTypeOK, Tables, Parts, ListIsSound
<1>3. /\ Live = ToSet(list) \cup {cur} /\ Whole = Live
      /\ Live' = Live /\ Whole' = ToSet(list)
  BY <1>1, <1>2 DEF Live, Whole, ToSet
<1>4. Live \subseteq Slots
  BY LiveTypes
<1>5. /\ obj'[cur].socket = obj[cur].socket
      /\ obj'[cur].accepted \in {Invalid, obj[cur].accepted}
      /\ \A s \in Slots : s # cur => obj'[s] = obj[s]
  BY <1>1, <1>2 DEF QuitAccepted, CloseAccepted, SetError, TypeOK, WorkerTypeOK,
     Sockets
<1>6. \A h : /\ h # obj[cur].accepted => Entry(tab', h) = Entry(tab, h)
             /\ h = obj[cur].accepted => Entry(tab', h) = Free
  BY <1>1, <1>2 DEF Entry, Release
<1>7. CoreShape' /\ NullMeansError'
  BY <1>1 DEF Parts, CoreShape, NullMeansError
<1>8. ListenerShape'
  <2>1. Entry(tab', lst.socket) \in {Entry(tab, lst.socket), Free}
    BY <1>6
  <2> QED
    BY <1>1, <2>1 DEF Parts, ListenerShape, Entry, Conns
<1>9. ListIsSound'
  BY <1>1 DEF Parts, ListIsSound, ToSet
<1>10. WorkerShape'
  BY <1>2, <1>3, <1>4, <1>5 DEF Parts, WorkerShape
<1>11. EachHeld'
  <2> SUFFICES ASSUME NEW h \in Fds, tab'[h] \in Conns PROVE Held(h)'
    BY DEF EachHeld
  <2>1. tab[h] \in Conns
    BY <1>6 DEF Entry, Conns
  <2> QED
    BY <1>1, <1>3, <1>4, <1>5, <2>1 DEF Parts, EachHeld, Held
<1>12. SecondCloseMeetsNoConnection'
  <2> SUFFICES ASSUME obj'[cur].status = "Closed"
               PROVE  Entry(tab', obj[cur].socket) = Free
    BY <1>1, <1>5 DEF SecondCloseMeetsNoConnection, Entry
  <2>1. obj[cur].status # "Closed" /\ obj[cur].accepted \in {Invalid, obj[cur].socket}
    BY <1>3 DEF Parts, WorkerShape
  <2>2. obj[cur].accepted # Invalid
    BY <1>1, <1>2, <2>1 DEF QuitAccepted, IsValidSocket
  <2> QED
    BY <1>6, <2>1, <2>2
<1>13. Ownership'
  <2> SUFFICES ASSUME NothingElseCloses PROVE Ownership'
    BY DEF Ownership, NothingElseCloses
  <2>1. obj[cur].accepted = obj[cur].socket
    BY <1>3 DEF Parts, Ownership
  <2>2. \A s \in ToSet(list) : /\ obj'[s] = obj[s]
                                  /\ obj[s].socket # obj[cur].accepted
    BY <1>2, <1>3, <1>4, <1>5, <2>1 DEF Parts, Ownership
  <2>3. \A s \in Whole' : /\ obj'[s].accepted = obj'[s].socket
                          /\ Entry(tab', obj'[s].socket) \in Conns
    BY <1>3, <1>6, <2>2 DEF Parts, Ownership
  <2>4. \A s \in Live' : obj'[s].socket = obj[s].socket
    BY <1>3, <1>4, <1>5
  <2>5. \A h \in Fds : tab'[h] # File
    BY <1>6 DEF Parts, Ownership, Entry
  <2>6. got'.accepted = Invalid
    BY <1>1 DEF Parts, CoreShape
  <2> QED
    BY <1>1, <1>3, <2>3, <2>4, <2>5, <2>6 DEF Parts, Ownership, IsValidSocket, Entry
<1> QED
  BY <1>7, <1>8, <1>9, <1>10, <1>11, <1>12, <1>13 DEF Parts

LEMMA Reap2Keeps ==
    ASSUME TypeOK, Parts, Reap2
    PROVE  Parts'
<1> USE DEF threads
<1>1. /\ core = "reap2" /\ core' = "sweep" /\ cur' = NoNode
      /\ obj' = [obj EXCEPT ![cur] = CloseOwn(obj[cur], tab)]
      /\ tab' = Release(tab, obj[cur].socket)
      /\ UNCHANGED <<pc, lst, got, list>>
  BY DEF Reap2, AtCore
<1>2. /\ cur \in Slots /\ tab \in [Fds -> Entries]
      /\ cur \notin ToSet(list) /\ cur # NoNode
  BY <1>1 DEF TypeOK, WorkerTypeOK, Tables, Parts, ListIsSound
<1>3. /\ Live = ToSet(list) \cup {cur} /\ Whole = ToSet(list)
      /\ Live' = Whole /\ Whole' = Whole
  BY <1>1, <1>2 DEF Live, Whole, ToSet
<1>4. Live \subseteq Slots
  BY LiveTypes
<1>5. \A s \in Whole : obj'[s] = obj[s]
  BY <1>1, <1>2, <1>3, <1>4 DEF TypeOK, WorkerTypeOK
<1>6. \A h : /\ h # obj[cur].socket => Entry(tab', h) = Entry(tab, h)
             /\ h = obj[cur].socket => Entry(tab', h) = Free
  BY <1>1, <1>2 DEF Entry, Release
<1>7. CoreShape' /\ NullMeansError' /\ SecondCloseMeetsNoConnection'
  BY <1>1 DEF Parts, CoreShape, NullMeansError, SecondCloseMeetsNoConnection
<1>8. ListenerShape'
  <2>1. Entry(tab', lst.socket) \in {Entry(tab, lst.socket), Free}
    BY <1>6
  <2> QED
    BY <1>1, <2>1 DEF Parts, ListenerShape, Entry, Conns
<1>9. ListIsSound'
  <2>1. NoNode \notin ToSet(list)
    BY <1>3, <1>4
  <2> QED
    BY <1>1, <2>1 DEF Parts, ListIsSound, ToSet
<1>10. WorkerShape'
  BY <1>3, <1>5 DEF Parts, WorkerShape
<1>11. EachHeld'
  <2> SUFFICES ASSUME NEW h \in Fds, tab'[h] \in Conns PROVE Held(h)'
    BY DEF EachHeld
  <2>1. tab[h] \in Conns /\ h # obj[cur].socket
    BY <1>6 DEF Entry, Conns
  <2> QED
    BY <1>1, <1>3, <1>5, <2>1 DEF Parts, EachHeld, Held
<1>12. Ownership'
  <2> SUFFICES ASSUME NothingElseCloses PROVE Ownership'
    BY DEF Ownership, NothingElseCloses
  <2>1. \A s \in Whole : obj[s].socket # obj[cur].socket
    BY <1>2, <1>3 DEF Parts, Ownership
  <2>2. \A h \in Fds : tab'[h] # File
    <3>1. \A h \in Fds : tab[h] # File
      BY DEF Parts, Ownership
    <3> QED
      BY <1>1, <3>1 DEF Release
  <2>3. got'.accepted = Invalid
    BY <1>1 DEF Parts, CoreShape
  <2>4. \A s \in Whole : /\ obj'[s].accepted = obj'[s].socket
                         /\ Entry(tab', obj'[s].socket) \in Conns
    BY <1>5, <1>6, <2>1 DEF Parts, Ownership
  <2>5. \A s, u \in Whole : s # u => obj'[s].socket # obj'[u].socket
    BY <1>3, <1>5 DEF Parts, Ownership
  <2> QED
    BY <1>1, <1>3, <2>2, <2>3, <2>4, <2>5 DEF Parts, Ownership, IsValidSocket, Entry
<1> QED
  BY <1>7, <1>8, <1>9, <1>10, <1>11, <1>12 DEF Parts

LEMMA SweepEndKeeps ==
    ASSUME TypeOK, Parts, SweepEnd
    PROVE  Parts'
<1> USE DEF threads, objects
<1>1. /\ core = "sweep" /\ core' = "accept" /\ got' = NullSocket
      /\ UNCHANGED <<obj, pc, list, cur, lst>>
  BY DEF SweepEnd, AtCore
<1>2. tab \in Tables /\ got.socket = Invalid /\ got.accepted = Invalid
  BY <1>1 DEF TypeOK, WorkerTypeOK, Parts, CoreShape
<1>3. tab' = tab
  BY <1>2, ReleaseNothing DEF SweepEnd, QuitTable
<1>4. got'.accepted = Invalid /\ got'.socket = Invalid
  BY <1>1 DEF NullSocket
<1>5. CoreShape' /\ NullMeansError' /\ ListenerShape'
  BY <1>1, <1>3, <1>4 DEF Parts, CoreShape, NullMeansError, ListenerShape, Entry
<1> QED
  BY <1>1, <1>2, <1>3, <1>4, <1>5, ConnectionsStay DEF Parts

-----------------------------------------------------------------------------
(* The theorems.                                                           *)

LEMMA InitInvariant == Init => IInv
<1> SUFFICES ASSUME Init PROVE IInv
  OBVIOUS
<1>1. TypeOK
  BY InitTyping
<1>2. Live = {} /\ Whole = {}
  BY DEF Init, Live, Whole, ToSet
<1>3. CoreShape /\ NullMeansError /\ SecondCloseMeetsNoConnection
  BY DEF Init, CoreShape, NullSocket, NullMeansError, SecondCloseMeetsNoConnection
<1>4. ListenerShape /\ EachHeld
  BY DEF Init, WorkerInit, ListenerShape, EachHeld, NullSocket, Entry, Conns
<1>5. ListIsSound /\ WorkerShape
  BY <1>2 DEF Init, ListIsSound, WorkerShape, ToSet
<1>6. Ownership
  BY <1>2 DEF Init, WorkerInit, Ownership, IsValidSocket, NullSocket, Closing
<1> QED
  BY <1>1, <1>3, <1>4, <1>5, <1>6 DEF IInv

LEMMA StepInvariant == IInv /\ [Next]_vars => IInv'
<1> SUFFICES ASSUME IInv, [Next]_vars PROVE IInv'
  OBVIOUS
<1>1. TypeOK /\ TypeOK' /\ Parts
  BY InvariantParts, StepTyping
<1>2. CASE WorkersStep
  BY <1>2, ThreadsKeepInvariant DEF WorkersStep
<1>3. CASE CoreStep
  <2>1. ASSUME OpenListener \/ AcceptNull \/ AcceptOk \/ AcceptFail \/ Reset
        PROVE  Parts'
    BY <1>1, <2>1, OpenListenerKeeps, AcceptFailKeeps, AcceptOkKeeps, ResetKeeps
  <2>2. ASSUME Spawn \/ Build \/ SweepErase
        PROVE  Parts'
    BY <1>1, <2>2, SpawnKeeps, BuildKeeps, SweepEraseKeeps
  <2>3. ASSUME Reap1 \/ Reap2 \/ SweepEnd
        PROVE  Parts'
    BY <1>1, <2>3, Reap1Keeps, Reap2Keeps, SweepEndKeeps
  <2>4. ASSUME SweepSkip \/ SweepCrash
        PROVE  Parts'
    <3>1. UNCHANGED <<tab, obj, pc, core, lst, got, list, cur, nconn>>
      BY <2>4 DEF SweepSkip, SweepCrash, kernel, objects, threads, coreVars
    <3> QED
      BY <1>1, <3>1, NothingMoves
  <2>5. Parts'
    BY <1>3, <2>1, <2>2, <2>3, <2>4 DEF CoreStep
  <2> QED
    BY <1>1, <2>5 DEF IInv, Parts
<1>4. CASE ClientConnect \/ UNCHANGED vars
  <2>1. UNCHANGED <<tab, obj, pc, core, lst, got, list, cur, nconn>>
    BY <1>4 DEF ClientConnect, vars, kernel, objects, threads, coreVars
  <2>2. Parts'
    BY <1>1, <2>1, NothingMoves
  <2> QED
    BY <1>1, <2>2 DEF IInv, Parts
<1> QED
  BY <1>2, <1>3, <1>4 DEF Next

\* The invariant holds of every reachable state.
THEOREM Invariance == Spec => []IInv
BY InitInvariant, StepInvariant, PTL DEF Spec

\* No connection's descriptor is ever lost: some Worker, or the Socket that
\* AcceptNew has just returned, still names it (core.cpp:33-39).
THEOREM NothingLeaks == Spec => []NoLeak
<1>1. IInv => NoLeak
  BY DEF IInv, EachHeld, Held, NoLeak, Names
<1> QED
  BY <1>1, Invariance, PTL

\* The listener's status tells StartListen exactly when AcceptNew returned no
\* connection (core.cpp:21-34).
THEOREM StatusTellsFailure == Spec => []NullMeansError
<1>1. IInv => NullMeansError
  BY DEF IInv
<1> QED
  BY <1>1, Invariance, PTL

\* The second close() of a Worker's descriptor never closes a connection or
\* the listener (sock.cpp:65-68).
THEOREM SecondCloseIsHarmless == Spec => []SecondCloseMeetsNoConnection
<1>1. IInv => SecondCloseMeetsNoConnection
  BY DEF IInv
<1> QED
  BY <1>1, Invariance, PTL

\* Every node in the list is there once, and the sweep destroys none that is
\* still in it (core.cpp:33-39).
THEOREM ListStaysSound == Spec => []ListIsSound
<1>1. IInv => ListIsSound
  BY DEF IInv
<1> QED
  BY <1>1, Invariance, PTL

\* Without the file responder and without Close(), no two Connected Workers
\* share a connection and none has lost its own.
THEOREM ConnectionsStaySeparate == Spec => []SeparateConnections
<1>1. ASSUME IInv PROVE SeparateConnections
  <2>1. ConnectedWorkers \subseteq Whole /\ ConnectedWorkers \subseteq Live
    BY DEF ConnectedWorkers, Whole, Live
  <2> QED
    BY <1>1, <2>1 DEF IInv, Ownership, NothingElseCloses, SeparateConnections
<1> QED
  BY <1>1, Invariance, PTL

\* Resetting the listener closes no connection, although QuitSocket closes
\* accepted_ too, where the listener keeps the last connection's handle.
THEOREM ResetIsSafe == Spec => ResetSparesConnections
<1>1. ASSUME IInv, [Next]_vars
      PROVE  [Reset => \A h \in Fds : tab[h] \in Conns => tab'[h] = tab[h]]_vars
  BY <1>1, InvariantParts, ResetKeeps
<1> QED
  BY <1>1, Invariance, PTL DEF Spec, ResetSparesConnections

-----------------------------------------------------------------------------
(* Server implements Connections, for every set of descriptors and of heap *)
(* nodes, and every number of connections and of failures.                 *)

OpenConns == {c \in Conns : \E f \in Fds : tab[f] = c}

\* A step that moves no connection in the table leaves the same ones open.
LEMMA SameConnections ==
    ASSUME \A h \in Fds : tab[h] \in Conns => tab'[h] = tab[h],
           \A h \in Fds : tab'[h] \in Conns => tab'[h] = tab[h]
    PROVE  OpenConns' = OpenConns
<1>1. ASSUME NEW c \in OpenConns PROVE c \in OpenConns'
  BY <1>1 DEF OpenConns
<1>2. ASSUME NEW c \in OpenConns' PROVE c \in OpenConns
  BY <1>2 DEF OpenConns
<1> QED
  BY <1>1, <1>2

\* One close() closes at most one connection.
OneCloses == OpenConns' = OpenConns \/ \E c \in OpenConns : OpenConns' = OpenConns \ {c}

LEMMA OneClose ==
    ASSUME TypeOK, NEW h, tab' = Release(tab, h)
    PROVE  OneCloses
<1>1. /\ \A f \in Fds \ {h} : tab'[f] = tab[f]
      /\ h \in Fds => tab'[h] = Free
  BY DEF Release
<1>2. CASE /\ h \in Fds /\ tab[h] \in Conns
           /\ \A f \in Fds \ {h} : tab[f] # tab[h]
  <2>1. tab[h] \in OpenConns
    BY <1>2 DEF OpenConns
  <2>2. OpenConns' = OpenConns \ {tab[h]}
    <3>1. ASSUME NEW c \in OpenConns' PROVE c \in OpenConns \ {tab[h]}
      BY <1>1, <1>2, <3>1 DEF OpenConns, Conns
    <3>2. ASSUME NEW c \in OpenConns \ {tab[h]} PROVE c \in OpenConns'
      BY <1>1, <3>2 DEF OpenConns
    <3> QED
      BY <3>1, <3>2
  <2> QED
    BY <2>1, <2>2 DEF OneCloses
<1>3. CASE \/ h \notin Fds \/ tab[h] \notin Conns
           \/ \E f \in Fds \ {h} : tab[f] = tab[h]
  <2>1. ASSUME NEW c \in OpenConns' PROVE c \in OpenConns
    BY <1>1, <2>1 DEF OpenConns, Conns
  <2>2. ASSUME NEW c \in OpenConns PROVE c \in OpenConns'
    BY <1>1, <1>3, <2>2 DEF OpenConns
  <2> QED
    BY <2>1, <2>2 DEF OneCloses
<1> QED
  BY <1>2, <1>3

-----------------------------------------------------------------------------
(* Each step of Server is a step of Connections, or none.                  *)

Step == Promise!Next \/ UNCHANGED Promise!vars

LEMMA StutterOrClose ==
    ASSUME OneCloses, proc = "up", proc' = proc, backlog' = backlog, nconn' = nconn
    PROVE  Step
<1>1. CASE OpenConns' = OpenConns
  BY <1>1 DEF Step, Promise!vars, OpenConns
<1>2. CASE \E c \in OpenConns : OpenConns' = OpenConns \ {c}
  BY <1>2 DEF Step, Promise!Next, Promise!Close, OpenConns
<1> QED
  BY <1>1, <1>2 DEF OneCloses

LEMMA StutterOrStop ==
    ASSUME proc = "up", tab' = tab, backlog' = backlog, nconn' = nconn,
           proc' = proc \/ Die
    PROVE  Step
<1>1. OpenConns' = OpenConns
  BY DEF OpenConns
<1>2. CASE proc' = proc
  BY <1>1, <1>2 DEF Step, Promise!vars, OpenConns
<1>3. CASE Die
  BY <1>1, <1>3 DEF Die, Step, Promise!Next, Promise!Stop, OpenConns
<1> QED
  BY <1>2, <1>3

LEMMA ThreadsKeepPromise ==
    ASSUME IInv, WorkersStep
    PROVE  Step
<1>1. PICK t \in Conns : WorkerStep(t, Live) /\ UNCHANGED coreVars
  BY DEF WorkersStep
<1>2. TypeOK /\ backlog' = backlog /\ nconn' = nconn
  BY <1>1 DEF IInv, coreVars
<1>3. proc = "up" /\ (proc' = proc \/ (Die /\ tab' = tab))
  BY <1>1 DEF WorkerStep, ThreadStep, Loop, Fetch, Exhaust, RecvData, RecvEof,
     RecvReset, OpenFile, RespondWithoutFile, CloseFile, SendNothing, SendOk,
     SendError, SendKilled, BeginClose, CloseConnection, WriteClosed, WriteUnclosed,
     Switch, MarkDone, RecvFault, Overrun, TouchFreed, ClientClose, ClientAbort, At,
     Die, kernel
<1>4. Effect(t)
  BY <1>1, <1>2, Effects
<1>5. CASE tab' = tab
  BY <1>2, <1>3, <1>5, StutterOrStop
<1>6. CASE proc' = proc /\ Opens
  <2>1. PICK f \in Fds : tab[f] = Free /\ tab' = [tab EXCEPT ![f] = File]
    BY <1>6 DEF Opens
  <2>2. tab \in [Fds -> Entries]
    BY <1>2 DEF TypeOK, WorkerTypeOK, Tables
  <2>3. OpenConns' = OpenConns
    BY <2>1, <2>2, SameConnections DEF Conns
  <2> QED
    BY <1>2, <1>3, <1>6, <2>3, StutterOrClose DEF OneCloses
<1>7. CASE proc' = proc /\ Drops(t)
  <2>1. OneCloses
    BY <1>2, <1>7, OneClose DEF Drops
  <2> QED
    BY <1>2, <1>3, <1>7, <2>1, StutterOrClose
<1> QED
  BY <1>3, <1>4, <1>5, <1>6, <1>7 DEF Effect, Fails, Forgets

LEMMA CoreKeepsPromise ==
    ASSUME IInv, CoreStep
    PROVE  Step
<1> USE DEF kernel, objects, threads
<1>1. TypeOK /\ Parts /\ tab \in [Fds -> Entries]
  BY InvariantParts DEF TypeOK, WorkerTypeOK, Tables
<1>2. CASE OpenListener
  <2>1. /\ proc = "up" /\ proc' = proc /\ backlog' = backlog /\ nconn' = nconn
        /\ \/ tab' = tab
           \/ \E f \in Fds : tab[f] = Free /\ tab' = [tab EXCEPT ![f] = Listener]
    BY <1>2 DEF OpenListener, AtCore, LowestFree
  <2>2. OpenConns' = OpenConns
    BY <1>1, <2>1, SameConnections DEF Conns
  <2> QED
    BY <2>1, <2>2, StutterOrClose DEF OneCloses
<1>3. CASE AcceptOk
  <2>1. PICK f \in Fds : /\ tab[f] = Free
                         /\ tab' = [tab EXCEPT ![f] = nconn + 1]
                         /\ lst' = KeepsAlias(lst, f)
                         /\ got' = AcceptedFrom(f)
    BY <1>3 DEF AcceptOk
  <2>2. proc = "up" /\ proc' = proc
    BY <1>3 DEF AcceptOk, Accepting, AtCore
  <2>3. nconn' = nconn + 1 /\ backlog > 0 /\ backlog' = backlog - 1
    BY <1>3 DEF AcceptOk
  <2>4. nconn + 1 \in Conns
    <3>1. nconn \in Nat /\ backlog \in Nat /\ backlog + nconn <= MaxConns
      BY <1>1, ConnsAssumption DEF TypeOK
    <3> QED
      BY <3>1, <2>3, ConnsAssumption DEF Conns
  <2>5. OpenConns' = OpenConns \cup {nconn + 1}
    <3>1. ASSUME NEW c \in OpenConns' PROVE c \in OpenConns \cup {nconn + 1}
      <4>1. PICK g \in Fds : tab'[g] = c
        BY <3>1 DEF OpenConns
      <4>2. c \in Conns
        BY <3>1 DEF OpenConns
      <4>3. g = f \/ tab'[g] = tab[g]
        BY <1>1, <2>1
      <4>4. tab'[f] = nconn + 1
        BY <1>1, <2>1
      <4> QED
        BY <4>1, <4>2, <4>3, <4>4 DEF OpenConns
    <3>2. ASSUME NEW c \in OpenConns \cup {nconn + 1} PROVE c \in OpenConns'
      <4>1. \A h \in Fds : tab[h] \in Conns => tab'[h] = tab[h]
        BY <1>1, <2>1 DEF Conns
      <4>2. tab'[f] = nconn + 1
        BY <1>1, <2>1
      <4> QED
        BY <2>4, <3>2, <4>1, <4>2 DEF OpenConns
    <3> QED
      BY <3>1, <3>2
  <2> QED
    BY <2>2, <2>3, <2>5 DEF Step, Promise!Next, Promise!Accept, OpenConns
<1>4. CASE Reset
  <2>1. OpenConns' = OpenConns
    <3>1. tab' \in Tables
      BY <1>1, <1>4, StepTyping DEF Next, CoreStep, TypeOK, WorkerTypeOK
    <3>2. /\ Entry(tab, lst.socket) \notin Conns
          /\ lst.accepted = Invalid
      BY <1>1, <1>4 DEF Reset, AtCore, Parts, ListenerShape
    <3>3. tab' = Release(tab, lst.socket)
      BY <1>1, <1>4, <3>2, ReleaseNothing DEF Reset, QuitTable, TypeOK, WorkerTypeOK
    <3>4. /\ \A h \in Fds : tab[h] \in Conns => tab'[h] = tab[h]
          /\ \A h \in Fds : tab'[h] \in Conns => tab'[h] = tab[h]
      BY <3>2, <3>3 DEF Release, Entry, Conns
    <3> QED
      BY <3>4, SameConnections
  <2> QED
    BY <1>4, <2>1 DEF Reset, AtCore, Step, Promise!Next, Promise!DropQueue, OpenConns
<1>5. CASE AcceptNull \/ AcceptFail \/ Spawn \/ Build \/ SweepSkip \/ SweepErase
           \/ SweepCrash
  <2>1. /\ proc = "up" /\ tab' = tab /\ backlog' = backlog /\ nconn' = nconn
        /\ proc' = proc \/ Die
    BY <1>5 DEF AcceptNull, AcceptFail, Accepting, Spawn, Build, SweepSkip,
       SweepErase, SweepCrash, Sweeping, AtCore, coreVars
  <2> QED
    BY <2>1, StutterOrStop
<1>6. CASE Reap1 \/ Reap2
  <2>1. /\ proc = "up" /\ proc' = proc /\ backlog' = backlog /\ nconn' = nconn
        /\ \E h : tab' = Release(tab, h)
    BY <1>6 DEF Reap1, Reap2, AtCore
  <2> QED
    BY <1>1, <2>1, OneClose, StutterOrClose
<1>7. CASE SweepEnd
  <2>1. got.socket = Invalid /\ got.accepted = Invalid
    BY <1>1, <1>7 DEF SweepEnd, AtCore, Parts, CoreShape
  <2>2. tab' = tab
    BY <1>1, <1>7, <2>1, ReleaseNothing DEF SweepEnd, QuitTable, TypeOK, WorkerTypeOK
  <2> QED
    BY <1>7, <2>2, StutterOrStop DEF SweepEnd, AtCore
<1> QED
  BY <1>2, <1>3, <1>4, <1>5, <1>6, <1>7 DEF CoreStep

\* To a client, a step of the server is at most one thing that happens to one
\* connection, or the loss of the whole queue with a reset of the listener
\* (core.cpp:17-41).
THEOREM ServerKeepsPromise == Spec => KeepsPromise
<1>1. Init => Promise!Init
  BY DEF Init, WorkerInit, Promise!Init, Conns
<1>2. ASSUME IInv, [Next]_vars PROVE [Promise!Next]_(Promise!vars)
  <2>1. CASE ClientConnect
    <3>1. /\ proc = "up" /\ proc' = proc /\ nconn' = nconn /\ tab' = tab
          /\ backlog + nconn < MaxConns /\ backlog' = backlog + 1
      BY <2>1 DEF ClientConnect, kernel
    <3> QED
      BY <3>1 DEF Promise!Next, Promise!Arrive
  <2>2. CASE UNCHANGED vars
    BY <2>2 DEF vars, kernel, coreVars, Promise!vars
  <2> QED
    BY <1>2, <2>1, <2>2, CoreKeepsPromise, ThreadsKeepPromise DEF Next, Step
<1> QED
  BY <1>1, <1>2, Invariance, PTL DEF Spec, KeepsPromise, Promise!Spec
=============================================================================
