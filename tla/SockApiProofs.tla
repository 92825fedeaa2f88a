--------------------------- MODULE SockApiProofs ----------------------------
(***************************************************************************)
(* Proof that the public methods of Socket, in any order, on any objects   *)
(* and descriptors, share a descriptor or lose one only in the ways that   *)
(* SockApi lists, and that the counter drifts by one with each nullptr.    *)
(***************************************************************************)
EXTENDS SockApi, FiniteSetTheorems, TLAPS

USE DEF Free, Listener, Fresh, Conn, Invalid, Dead

\* What the invariant says of one Socket, constructed or not.
Sound(u) ==
    /\ Owned(u)
    /\ u \in alive => KeepsNoneOfItsOwn(u) /\ (u \notin loose => FollowStatus(u))
    /\ \A f \in Fds : owner[f] = u => Named(u, f)

Safe == TypeOK /\ FreeIsNobodys /\ \A u \in Objects : Sound(u)

LEMMA ByObject == IInv <=> AliveIsFinite /\ CounterDrifts /\ Safe
<1>1. TypeOK => /\ alive \subseteq Objects
                /\ \A f \in Fds : owner[f] # Dead => owner[f] \in Objects
                /\ \A u \in Objects : u # Dead
  BY ObjectsAssumption DEF TypeOK
<1> QED
  BY <1>1 DEF IInv, Safe, Sound, OwnersName, OwnedOrLoose, HandlesFollowStatus,
              ListenersKeepNoneOfTheirOwn

LEMMA InitInvariant == Init => IInv
<1> SUFFICES ASSUME Init
             PROVE  IInv
  OBVIOUS
<1>1. NullSocket \in Sockets
  BY DEF NullSocket, Sockets, Status, Handles
<1>2. TypeOK
  BY <1>1, MaxNullsAssumption DEF Init, TypeOK
<1>3. AliveIsFinite /\ CounterDrifts
  BY FS_EmptySet DEF Init, AliveIsFinite, CounterDrifts
<1> QED
  BY <1>2, <1>3, ObjectsAssumption
     DEF Init, IInv, FreeIsNobodys, OwnedOrLoose, Owned, Named, OwnersName,
         HandlesFollowStatus, ListenersKeepNoneOfTheirOwn

-----------------------------------------------------------------------------
(* The counter: a Socket comes and is counted, or not, or goes.            *)

LEMMA Counting ==
    ASSUME IInv, NEW s \in Objects,
           \/ /\ s \notin alive /\ alive' = alive \cup {s}
              /\ \/ counter' = counter + 1 /\ nulls' = nulls
                 \/ counter' = counter /\ nulls' = nulls + 1
           \/ s \in alive /\ alive' = alive \ {s} /\ counter' = counter - 1 /\ nulls' = nulls
           \/ UNCHANGED <<alive, counter, nulls>>
    PROVE  AliveIsFinite' /\ CounterDrifts' /\ counter' \in Int
<1>1. IsFiniteSet(alive) /\ counter = Cardinality(alive) - nulls
  BY DEF IInv, AliveIsFinite, CounterDrifts
<1>2. Cardinality(alive) \in Nat /\ nulls \in Nat /\ counter \in Int
  BY <1>1, FS_CardinalityType, MaxNullsAssumption DEF IInv, TypeOK
<1>3. CASE s \notin alive /\ alive' = alive \cup {s}
  <2>1. IsFiniteSet(alive') /\ Cardinality(alive') = Cardinality(alive) + 1
    BY <1>1, <1>3, FS_AddElement
  <2> QED
    BY <1>1, <1>2, <1>3, <2>1 DEF AliveIsFinite, CounterDrifts
<1>4. CASE s \in alive /\ alive' = alive \ {s} /\ counter' = counter - 1 /\ nulls' = nulls
  <2>1. IsFiniteSet(alive') /\ Cardinality(alive') = Cardinality(alive) - 1
    BY <1>1, <1>4, FS_RemoveElement
  <2> QED
    BY <1>1, <1>2, <1>4, <2>1 DEF AliveIsFinite, CounterDrifts
<1>5. CASE UNCHANGED <<alive, counter, nulls>>
  BY <1>1, <1>2, <1>5 DEF AliveIsFinite, CounterDrifts
<1> QED
  BY <1>3, <1>4, <1>5

-----------------------------------------------------------------------------
(* The table t is that of the process with some descriptors closed.  A     *)
(* Socket outside S that is not loose has its own descriptors, and keeps   *)
(* them when the table becomes t, unless it is robbed.                     *)

Below(t) ==
    /\ t \in [Fds -> {Free, Fresh, Listener, Conn}]
    /\ \A f \in Fds : t[f] = tab[f] \/ t[f] = Free

LEMMA TabBelow == ASSUME TypeOK PROVE Below(tab) /\ \A S : Robbed(S, tab) = {}
BY DEF TypeOK, Below, Robbed

LEMMA QuitBelow ==
    ASSUME TypeOK, NEW s \in Objects
    PROVE  /\ Below(QuitTable(sock[s], tab))
           /\ \A f \in Fds : f \in {sock[s].socket, sock[s].accepted} =>
                 QuitTable(sock[s], tab)[f] = Free
BY DEF TypeOK, Below, QuitTable, Release

LEMMA Bystander ==
    ASSUME Safe, NEW S, NEW t, Below(t),
           NEW u \in alive \ S, u \notin loose, u \notin Robbed(S, t)
    PROVE  \A f \in Fds : Named(u, f) => t[f] = tab[f] /\ tab[f] # Free /\ owner[f] = u
<1> SUFFICES ASSUME NEW f \in Fds, Named(u, f)
             PROVE  t[f] = tab[f] /\ tab[f] # Free /\ owner[f] = u
  OBVIOUS
<1>1. u \in Objects
  BY DEF Safe, TypeOK
<1>2. owner[f] = u
  BY <1>1 DEF Safe, Sound, Owned
<1>3. tab[f] # Free
  BY <1>1, <1>2, ObjectsAssumption DEF Safe, FreeIsNobodys
<1>4. t[f] # Free
  BY <1>3 DEF Robbed
<1> QED
  BY <1>2, <1>3, <1>4 DEF Below

LEMMA OthersStaySound ==
    ASSUME Safe, NEW S, NEW t, Below(t),
           \A u \in Objects \ S : sock'[u] = sock[u] /\ (u \in alive' <=> u \in alive),
           loose \ S \subseteq loose',
           Robbed(S, t) \subseteq loose',
           \A f \in Fds : t[f] # Free /\ owner[f] \notin S => owner'[f] = owner[f],
           \A f \in Fds : owner'[f] \in Objects \ S => owner'[f] = owner[f],
           \A f \in Fds : t[f] = Listener => tab'[f] = Listener
    PROVE  \A u \in Objects \ S : Sound(u)'
<1> SUFFICES ASSUME NEW u \in Objects \ S
             PROVE  Sound(u)'
  OBVIOUS
<1>1. sock'[u] = sock[u] /\ (u \in alive' <=> u \in alive) /\ Sound(u)
  BY DEF Safe
<1>2. \A f \in Fds : Named(u, f)' <=> Named(u, f)
  BY <1>1 DEF Named
<1>3. \A f \in Fds : owner'[f] = u => owner[f] = u
  OBVIOUS
<1>4. \A f \in Fds : owner'[f] = u => Named(u, f)'
  BY <1>1, <1>2, <1>3 DEF Sound
<1>5. u \in alive' => KeepsNoneOfItsOwn(u)'
  BY <1>1, <1>3 DEF Sound, KeepsNoneOfItsOwn
<1>6. ASSUME u \in alive', u \notin loose'
      PROVE  Owned(u)' /\ FollowStatus(u)'
  <2>1. u \in alive \ S /\ u \notin loose /\ u \notin Robbed(S, t)
    BY <1>1, <1>6
  <2>2. \A f \in Fds : Named(u, f) => t[f] = tab[f] /\ tab[f] # Free /\ owner[f] = u
    BY <2>1, Bystander
  <2>3. Owned(u)'
    <3> SUFFICES ASSUME NEW f \in Fds, Named(u, f)'
                 PROVE  owner'[f] = u
      BY DEF Owned
    <3> QED
      BY <1>2, <2>2
  <2>4. FollowStatus(u)
    BY <1>1, <2>1 DEF Sound
  <2>5. Entry(tab, sock[u].socket) = Listener => Entry(tab', sock'[u].socket) = Listener
    <3> SUFFICES ASSUME Entry(tab, sock[u].socket) = Listener
                 PROVE  Entry(tab', sock'[u].socket) = Listener
      OBVIOUS
    <3> DEFINE own == sock[u].socket
    <3>1. own \in Fds /\ tab[own] = Listener
      BY DEF Entry
    <3>2. t[own] = Listener
      BY <2>1, <2>2, <3>1 DEF Named
    <3> QED
      BY <1>1, <3>1, <3>2 DEF Entry
  <2> QED
    BY <1>1, <2>3, <2>4, <2>5 DEF FollowStatus
<1>7. Owned(u)'
  BY <1>6 DEF Owned, Named
<1> QED
  BY <1>4, <1>5, <1>6, <1>7 DEF Sound

\* The plain case: one Socket changes and no descriptor is closed.
LEMMA OneChanges ==
    ASSUME Safe, NEW s \in Objects,
           \A u \in Objects \ {s} : sock'[u] = sock[u] /\ (u \in alive' <=> u \in alive),
           loose \ {s} \subseteq loose',
           \A f \in Fds : owner[f] # s => owner'[f] = owner[f] \/ tab[f] = Free,
           \A f \in Fds : owner'[f] \in Objects \ {s} => owner'[f] = owner[f],
           \A f \in Fds : tab[f] = Listener => tab'[f] = Listener
    PROVE  \A u \in Objects \ {s} : Sound(u)'
<1>1. Below(tab) /\ Robbed({s}, tab) = {}
  BY TabBelow DEF Safe
<1> QED
  BY <1>1, OthersStaySound

-----------------------------------------------------------------------------
(* InitSocket and the two ways of moving, over a table below the process's.*)

\* What InitSocket leaves: no handle, or a fresh one.
LEMMA InitOutcome ==
    ASSUME NEW s \in Objects, NEW p, NEW t, InitSocket(s, p, t)
    PROVE  \E h \in Handles, st \in {"Open", "Error"} :
             /\ sock' = [sock EXCEPT ![s] = [status |-> st, socket |-> h, accepted |-> Invalid]]
             /\ h = Invalid => tab' = t /\ owner' = Disowned(owner, t)
             /\ h # Invalid => /\ h \in Fds /\ t[h] = Free
                               /\ tab' = [t EXCEPT ![h] = Fresh]
                               /\ owner' = [Disowned(owner, t) EXCEPT ![h] = s]
<1> DEFINE Outcome(h, st) ==
             /\ sock' = [sock EXCEPT ![s] = [status |-> st, socket |-> h, accepted |-> Invalid]]
             /\ h = Invalid => tab' = t /\ owner' = Disowned(owner, t)
             /\ h # Invalid => /\ h \in Fds /\ t[h] = Free
                               /\ tab' = [t EXCEPT ![h] = Fresh]
                               /\ owner' = [Disowned(owner, t) EXCEPT ![h] = s]
<1> SUFFICES \E h \in Handles, st \in {"Open", "Error"} : Outcome(h, st)
  OBVIOUS
<1>1. CASE /\ Set(s, SetError(NullSocket))
           /\ tab' = t
           /\ owner' = Disowned(owner, t)
  <2>1. SetError(NullSocket) = [status |-> "Error", socket |-> Invalid, accepted |-> Invalid]
    BY DEF SetError, NullSocket
  <2>2. Outcome(Invalid, "Error")
    BY <1>1, <2>1 DEF Set
  <2> QED
    BY <2>2 DEF Handles
<1>2. ASSUME NEW f \in Fds, NEW st \in {"Open", "Error"},
             LowestFree(t, f),
             Set(s, [NullSocket EXCEPT !.status = st, !.socket = f]),
             tab' = [t EXCEPT ![f] = Fresh],
             owner' = [Disowned(owner, t) EXCEPT ![f] = s]
      PROVE  Outcome(f, st) /\ f \in Handles
  <2>1. [NullSocket EXCEPT !.status = st, !.socket = f]
          = [status |-> st, socket |-> f, accepted |-> Invalid]
    <3> DEFINE opened == [NullSocket EXCEPT !.status = st]
    <3>1. opened = [status |-> st, socket |-> Invalid, accepted |-> Invalid]
      BY DEF NullSocket
    <3>2. [NullSocket EXCEPT !.status = st, !.socket = f] = [opened EXCEPT !.socket = f]
      BY DEF NullSocket
    <3> HIDE DEF opened
    <3> QED
      BY <3>1, <3>2
  <2>2. f \in Handles /\ f # Invalid
    BY FdsAssumption DEF Handles
  <2> QED
    BY <1>2, <2>1, <2>2 DEF Set, LowestFree
<1> HIDE DEF Outcome
<1> QED
  BY <1>1, <1>2 DEF InitSocket

LEMMA InitSocketStep ==
    ASSUME Safe, NEW s \in Objects, NEW p, NEW t, Below(t),
           InitSocket(s, p, t),
           \A f \in Fds : Named(s, f) => t[f] = Free,
           alive' = alive \cup {s},
           loose' = (loose \ {s}) \cup Robbed({s}, t),
           proto' \in [Objects -> {"TCP", "UDP"}], counter' \in Int, nulls' \in 0 .. MaxNulls
    PROVE  Safe'
<1> USE DEF Disowned
<1>1. TypeOK /\ sock \in [Objects -> Sockets] /\ owner \in [Fds -> Objects \cup {Dead}]
  BY DEF Safe, TypeOK
<1>2. PICK h \in Handles, st \in {"Open", "Error"} :
        /\ sock' = [sock EXCEPT ![s] = [status |-> st, socket |-> h, accepted |-> Invalid]]
        /\ h = Invalid => tab' = t /\ owner' = Disowned(owner, t)
        /\ h # Invalid => /\ h \in Fds /\ t[h] = Free
                          /\ tab' = [t EXCEPT ![h] = Fresh]
                          /\ owner' = [Disowned(owner, t) EXCEPT ![h] = s]
  <2> HIDE DEF Disowned
  <2> QED
    BY InitOutcome
<1>3. \A f \in Fds : /\ owner'[f] = IF f = h THEN s ELSE Disowned(owner, t)[f]
                     /\ tab'[f] = IF f = h THEN Fresh ELSE t[f]
  <2>1. CASE h = Invalid
    BY <1>2, <2>1, FdsAssumption
  <2>2. CASE h # Invalid
    BY <1>2, <2>2 DEF Below
  <2> QED
    BY <2>1, <2>2
<1>4. TypeOK'
  <2>1. tab' \in [Fds -> {Free, Fresh, Listener, Conn}]
    BY <1>2 DEF Below
  <2>2. owner' \in [Fds -> Objects \cup {Dead}]
    BY <1>1, <1>2
  <2>3. loose' \subseteq alive' /\ alive' \subseteq Objects
    BY <1>1 DEF Robbed, TypeOK
  <2>4. sock' \in [Objects -> Sockets]
    <3>1. [status |-> st, socket |-> h, accepted |-> Invalid] \in Sockets
      BY DEF Sockets, Status, Handles
    <3> QED
      BY <1>1, <1>2, <3>1
  <2> QED
    BY <2>1, <2>2, <2>3, <2>4 DEF TypeOK
<1>5. FreeIsNobodys'
  BY <1>3 DEF FreeIsNobodys
<1>6. \A u \in Objects \ {s} : Sound(u)'
  <2>1. \A u \in Objects \ {s} : sock'[u] = sock[u] /\ (u \in alive' <=> u \in alive)
    BY <1>1, <1>2
  <2>2. \A f \in Fds : /\ t[f] # Free /\ owner[f] \notin {s} => owner'[f] = owner[f]
                       /\ owner'[f] \in Objects \ {s} => owner'[f] = owner[f]
                       /\ t[f] = Listener => tab'[f] = Listener
    BY <1>2, <1>3, ObjectsAssumption
  <2>3. loose \ {s} \subseteq loose' /\ Robbed({s}, t) \subseteq loose'
    OBVIOUS
  <2> QED
    BY <2>1, <2>2, <2>3, OthersStaySound
<1>7. Sound(s)'
  <2>1. sock'[s] = [status |-> st, socket |-> h, accepted |-> Invalid] /\ s \in alive'
    BY <1>1, <1>2
  <2>2. Invalid \notin Fds
    BY FdsAssumption
  <2>3. Owned(s)'
    BY <1>3, <2>1, <2>2 DEF Owned, Named
  <2>4. FollowStatus(s)' /\ KeepsNoneOfItsOwn(s)'
    BY <2>1 DEF FollowStatus, KeepsNoneOfItsOwn
  <2>5. \A f \in Fds : owner'[f] = s => Named(s, f)'
    <3> SUFFICES ASSUME NEW f \in Fds, owner'[f] = s, f # h
                 PROVE  FALSE
      BY <2>1 DEF Named
    <3>1. t[f] # Free /\ owner[f] = s
      BY <1>3, ObjectsAssumption
    <3> QED
      BY <3>1 DEF Safe, Sound
  <2> QED
    BY <2>3, <2>4, <2>5 DEF Sound
<1> QED
  BY <1>4, <1>5, <1>6, <1>7 DEF Safe

LEMMA MoveStep ==
    ASSUME Safe, NEW s \in Objects, NEW m \in alive, s # m, NEW t, Below(t),
           MoveInto(m, s, t),
           \A f \in Fds : Named(s, f) => t[f] = Free,
           alive' = alive \cup {s},
           tab' = t, counter' \in Int, nulls' = nulls
    PROVE  Safe'
<1>1. /\ TypeOK /\ sock \in [Objects -> Sockets] /\ owner \in [Fds -> Objects \cup {Dead}]
      /\ m \in Objects /\ proto \in [Objects -> {"TCP", "UDP"}] /\ sock[m] \in Sockets
  BY DEF Safe, TypeOK
<1> DEFINE acc == sock[m].accepted
<1>2. /\ sock' \in [Objects -> Sockets]
      /\ sock'[s].status = sock[m].status /\ sock'[m].status = sock[m].status
      /\ sock'[s].socket = acc /\ sock'[s].accepted = acc
      /\ sock'[m].socket = Invalid /\ sock'[m].accepted = Invalid
      /\ \A u \in Objects \ {s, m} : sock'[u] = sock[u]
  <2>1. Moved(sock[m]) \in Sockets /\ MovedFrom(sock[m]) \in Sockets
    BY <1>1 DEF Sockets, Handles, Moved, MovedFrom
  <2>2. sock' = [sock EXCEPT ![s] = Moved(sock[m]), ![m] = MovedFrom(sock[m])]
    BY DEF MoveInto
  <2>3. sock' \in [Objects -> Sockets]
    BY <1>1, <2>1, <2>2
  <2>4. sock'[s] = Moved(sock[m]) /\ sock'[m] = MovedFrom(sock[m])
    BY <1>1, <2>2
  <2>5. \A u \in Objects \ {s, m} : sock'[u] = sock[u]
    BY <1>1, <2>2
  <2> QED
    BY <1>1, <2>3, <2>4, <2>5 DEF Moved, MovedFrom, Sockets
<1>3. \A f \in Fds :
        owner'[f] = IF t[f] = Free THEN Dead
                    ELSE IF owner[f] # m THEN owner[f]
                    ELSE IF f = acc THEN s ELSE Dead
  BY DEF MoveInto, TakeOver
<1>4. TypeOK'
  <2>1. tab' \in [Fds -> {Free, Fresh, Listener, Conn}]
    BY DEF Below
  <2>2. owner' \in [Fds -> Objects \cup {Dead}]
    BY <1>1 DEF MoveInto, TakeOver
  <2>3. loose' \subseteq alive' /\ alive' \subseteq Objects
    BY <1>1 DEF Robbed, TypeOK, MoveInto
  <2>4. proto' \in [Objects -> {"TCP", "UDP"}]
    BY <1>1 DEF MoveInto
  <2> QED
    BY <1>1, <1>2, <2>1, <2>2, <2>3, <2>4 DEF TypeOK
<1>5. FreeIsNobodys'
  BY <1>3 DEF FreeIsNobodys
<1>6. \A u \in Objects \ {s, m} : Sound(u)'
  <2>1. \A u \in Objects \ {s, m} : sock'[u] = sock[u] /\ (u \in alive' <=> u \in alive)
    BY <1>2
  <2>2. \A f \in Fds : /\ t[f] # Free /\ owner[f] \notin {s, m} => owner'[f] = owner[f]
                       /\ owner'[f] \in Objects \ {s, m} => owner'[f] = owner[f]
                       /\ t[f] = Listener => tab'[f] = Listener
    BY <1>3, ObjectsAssumption
  <2>3. loose \ {s, m} \subseteq loose' /\ Robbed({s, m}, t) \subseteq loose'
    BY DEF MoveInto
  <2> QED
    BY <2>1, <2>2, <2>3, OthersStaySound
<1>7. Sound(m)'
  <2>1. Invalid \notin Fds
    BY FdsAssumption
  <2>2. \A f \in Fds : owner'[f] # m
    BY <1>1, <1>3, ObjectsAssumption
  <2> QED
    BY <1>2, <2>1, <2>2 DEF Sound, Owned, Named, FollowStatus, KeepsNoneOfItsOwn
<1>8. Sound(s)'
  <2>1. \A f \in Fds : t[f] # Free => owner[f] # s
    BY DEF Safe, Sound
  <2>2. \A f \in Fds : owner'[f] = s => f = acc /\ owner[f] = m
    BY <1>3, <2>1, ObjectsAssumption
  <2>3. KeepsNoneOfItsOwn(m)
    BY <1>1 DEF Safe, Sound
  <2>4. KeepsNoneOfItsOwn(s)'
    BY <1>2, <2>2, <2>3 DEF KeepsNoneOfItsOwn
  <2>5. \A f \in Fds : owner'[f] = s => Named(s, f)'
    BY <1>2, <2>2 DEF Named
  <2>6. ASSUME s \notin loose'
        PROVE  Owned(s)' /\ FollowStatus(s)'
    <3>1. m \notin loose /\ m \notin Robbed({s}, t)
      BY <2>6 DEF MoveInto
    <3>2. acc \in Fds => owner'[acc] = s
      <4> SUFFICES ASSUME acc \in Fds
                   PROVE  owner'[acc] = s
        OBVIOUS
      <4>1. Named(m, acc)
        BY DEF Named
      <4>2. t[acc] = tab[acc] /\ tab[acc] # Free /\ owner[acc] = m
        BY <1>1, <3>1, <4>1, Bystander
      <4> QED
        BY <1>3, <4>2
    <3>3. FollowStatus(m)
      BY <1>1, <3>1 DEF Safe, Sound
    <3> QED
      BY <1>2, <3>2, <3>3 DEF Owned, Named, FollowStatus
  <2>7. Owned(s)'
    BY <2>6 DEF Owned
  <2> QED
    BY <2>4, <2>5, <2>6, <2>7 DEF Sound
<1> QED
  BY <1>4, <1>5, <1>6, <1>7, <1>8 DEF Safe

-----------------------------------------------------------------------------
(* The constructors, the assignment and the destructor.                    *)

LEMMA ConstructStep ==
    ASSUME IInv, NEW s \in Objects, NEW p \in {"TCP", "UDP"}, Construct(s, p)
    PROVE  IInv'
<1>1. Safe /\ TypeOK /\ s \notin loose
  BY ByObject DEF Safe, TypeOK, Construct
<1>2. Below(tab) /\ Robbed({s}, tab) = {}
  BY <1>1, TabBelow
<1>3. AliveIsFinite' /\ CounterDrifts' /\ counter' \in Int
  BY Counting DEF Construct, IncreaseCounter
<1>4. proto' \in [Objects -> {"TCP", "UDP"}] /\ nulls' \in 0 .. MaxNulls
  BY <1>1 DEF Construct, TypeOK
<1>5. /\ InitSocket(s, p, tab) /\ alive' = alive \cup {s}
      /\ loose' = (loose \ {s}) \cup Robbed({s}, tab)
      /\ \A f \in Fds : Named(s, f) => tab[f] = Free
  BY <1>1, <1>2 DEF Construct, Named
<1>6. Safe'
  BY <1>1, <1>2, <1>3, <1>4, <1>5, InitSocketStep
<1> QED
  BY <1>3, <1>6, ByObject, PTL

LEMMA ConstructNullStep ==
    ASSUME IInv, NEW s \in Objects, ConstructNull(s)
    PROVE  IInv'
<1>1. Safe /\ TypeOK /\ s \notin loose
  BY ByObject DEF Safe, TypeOK, ConstructNull
<1>2. AliveIsFinite' /\ CounterDrifts' /\ counter' \in Int
  BY Counting DEF ConstructNull, NullCounter
<1>3. /\ NullSocket \in Sockets
      /\ sock' = [sock EXCEPT ![s] = NullSocket] /\ sock \in [Objects -> Sockets]
      /\ alive' = alive \cup {s} /\ UNCHANGED <<tab, owner, loose>>
  BY <1>1 DEF NullSocket, Sockets, Status, Handles, ConstructNull, Set, TypeOK
<1>4. TypeOK'
  BY <1>1, <1>2, <1>3, MaxNullsAssumption DEF TypeOK, ConstructNull
<1>5. FreeIsNobodys'
  BY <1>1, <1>3 DEF Safe, FreeIsNobodys
<1>6. \A u \in Objects \ {s} : Sound(u)'
  BY <1>1, <1>3, OneChanges
<1>7. Sound(s)'
  <2>1. sock'[s] = NullSocket /\ Invalid \notin Fds
    BY <1>3, FdsAssumption
  <2>2. \A f \in Fds : owner'[f] # s
    BY <1>1, <1>3 DEF Safe, Sound, Named, ConstructNull
  <2> QED
    BY <2>1, <2>2
       DEF Sound, Owned, Named, FollowStatus, KeepsNoneOfItsOwn, NullSocket
<1>8. Safe'
  BY <1>4, <1>5, <1>6, <1>7 DEF Safe
<1> QED
  BY <1>2, <1>8, ByObject, PTL

LEMMA MoveConstructStep ==
    ASSUME IInv, NEW s \in Objects, NEW m \in Objects, MoveConstruct(s, m)
    PROVE  IInv'
<1>1. Safe /\ TypeOK
  BY ByObject DEF Safe
<1>2. Below(tab)
  BY <1>1, TabBelow
<1>3. AliveIsFinite' /\ CounterDrifts' /\ counter' \in Int
  BY Counting DEF MoveConstruct, IncreaseCounter
<1>4. /\ MoveInto(m, s, tab) /\ m \in alive /\ s # m /\ alive' = alive \cup {s}
      /\ tab' = tab /\ nulls' = nulls
      /\ \A f \in Fds : Named(s, f) => tab[f] = Free
  BY DEF MoveConstruct, Named
<1>5. Safe'
  BY <1>1, <1>2, <1>3, <1>4, MoveStep
<1> QED
  BY <1>3, <1>5, ByObject, PTL

LEMMA MoveAssignStep ==
    ASSUME IInv, NEW s \in Objects, NEW m \in Objects, MoveAssign(s, m)
    PROVE  IInv'
<1>1. Safe /\ TypeOK
  BY ByObject DEF Safe
<1> DEFINE t == QuitTable(sock[s], tab)
<1>2. /\ Below(t)
      /\ \A f \in Fds : f \in {sock[s].socket, sock[s].accepted} => t[f] = Free
  BY <1>1, QuitBelow
<1>3. AliveIsFinite' /\ CounterDrifts' /\ counter' \in Int
  BY Counting DEF MoveAssign
<1>4. /\ MoveInto(m, s, t) /\ m \in alive /\ s # m /\ alive' = alive \cup {s}
      /\ tab' = t /\ nulls' = nulls
      /\ \A f \in Fds : Named(s, f) => t[f] = Free
  BY <1>2 DEF MoveAssign, Named
<1> HIDE DEF t
<1>5. Safe'
  BY <1>1, <1>2, <1>3, <1>4, MoveStep
<1> QED
  BY <1>3, <1>5, ByObject, PTL

LEMMA DestroyStep ==
    ASSUME IInv, NEW s \in Objects, Destroy(s)
    PROVE  IInv'
<1>1. Safe /\ TypeOK /\ s \in alive
  BY ByObject DEF Safe, Destroy
<1> DEFINE t == QuitTable(sock[s], tab)
<1>2. /\ Below(t)
      /\ \A f \in Fds : f \in {sock[s].socket, sock[s].accepted} => t[f] = Free
  BY <1>1, QuitBelow
<1>3. AliveIsFinite' /\ CounterDrifts' /\ counter' \in Int
  BY Counting DEF Destroy, DecreaseCounter
<1>4. /\ NullSocket \in Sockets
      /\ sock' = [sock EXCEPT ![s] = NullSocket] /\ sock \in [Objects -> Sockets]
      /\ alive' = alive \ {s} /\ tab' = t /\ owner' = Disowned(owner, t)
      /\ loose' = (loose \ {s}) \cup Robbed({s}, t)
      /\ UNCHANGED <<proto, nulls>>
  BY <1>1 DEF NullSocket, Sockets, Status, Handles, Destroy, Set, TypeOK
<1> HIDE DEF t
<1>5. \A f \in Fds : owner'[f] = IF t[f] = Free THEN Dead ELSE owner[f]
  BY <1>4 DEF Disowned
<1>6. TypeOK'
  <2>1. loose' \subseteq alive' /\ alive' \subseteq Objects
    BY <1>1, <1>4 DEF Robbed, TypeOK
  <2>2. owner' \in [Fds -> Objects \cup {Dead}]
    BY <1>1, <1>4 DEF TypeOK, Disowned
  <2> QED
    BY <1>1, <1>2, <1>3, <1>4, <2>1, <2>2 DEF TypeOK, Below
<1>7. FreeIsNobodys'
  BY <1>4, <1>5 DEF FreeIsNobodys
<1>8. \A u \in Objects \ {s} : Sound(u)'
  <2>1. \A u \in Objects \ {s} : sock'[u] = sock[u] /\ (u \in alive' <=> u \in alive)
    BY <1>4
  <2>2. \A f \in Fds : /\ t[f] # Free /\ owner[f] \notin {s} => owner'[f] = owner[f]
                       /\ owner'[f] \in Objects \ {s} => owner'[f] = owner[f]
                       /\ t[f] = Listener => tab'[f] = Listener
    BY <1>4, <1>5, ObjectsAssumption
  <2>3. loose \ {s} \subseteq loose' /\ Robbed({s}, t) \subseteq loose'
    BY <1>4
  <2> QED
    BY <1>1, <1>2, <2>1, <2>2, <2>3, OthersStaySound
<1>9. Sound(s)'
  <2>1. \A f \in Fds : owner'[f] # s
    BY <1>1, <1>2, <1>5, ObjectsAssumption DEF Safe, Sound, Named
  <2> QED
    BY <1>4, <2>1 DEF Sound, Owned, Named
<1>10. Safe'
  BY <1>6, <1>7, <1>8, <1>9 DEF Safe
<1> QED
  BY <1>3, <1>10, ByObject, PTL

LEMMA ResetStep ==
    ASSUME IInv, NEW s \in Objects, Reset(s)
    PROVE  IInv'
<1>1. Safe /\ TypeOK /\ s \in alive
  BY ByObject DEF Safe, Reset
<1> DEFINE t == QuitTable(sock[s], tab)
<1>2. /\ Below(t)
      /\ \A f \in Fds : Named(s, f) => t[f] = Free
  BY <1>1, QuitBelow DEF Named
<1>3. AliveIsFinite' /\ CounterDrifts' /\ counter' \in Int
  BY Counting DEF Reset
<1>4. /\ InitSocket(s, proto[s], t) /\ alive' = alive \cup {s}
      /\ loose' = (loose \ {s}) \cup Robbed({s}, t)
      /\ proto' \in [Objects -> {"TCP", "UDP"}] /\ nulls' \in 0 .. MaxNulls
  BY <1>1 DEF Reset, TypeOK
<1> HIDE DEF t
<1>5. Safe'
  BY <1>1, <1>2, <1>3, <1>4, InitSocketStep
<1> QED
  BY <1>3, <1>5, ByObject, PTL

-----------------------------------------------------------------------------
(* The calls of the kernel.  No Socket comes or goes.                      *)

LEMMA KeepsTheCount ==
    ASSUME IInv, UNCHANGED <<alive, counter, nulls>>, Safe'
    PROVE  IInv'
<1>1. AliveIsFinite' /\ CounterDrifts'
  BY DEF IInv, AliveIsFinite, CounterDrifts
<1> QED
  BY <1>1, ByObject, PTL

\* A method fails: the Socket says so, and may forget what it accepted as a
\* listener.
LEMMA FailStep ==
    ASSUME IInv, NEW s \in alive, NEW r \in Sockets,
           Set(s, r), r.status = "Error", r.socket = sock[s].socket,
           \/ r.accepted = sock[s].accepted
           \/ r.accepted = Invalid /\ sock[s].status = "Listening",
           UNCHANGED <<tab, owner>>, Keeps
    PROVE  IInv'
<1>1. /\ Safe /\ TypeOK /\ s \in Objects /\ sock \in [Objects -> Sockets]
      /\ sock' = [sock EXCEPT ![s] = r]
      /\ UNCHANGED <<alive, proto, counter, nulls, loose, tab, owner>>
  BY ByObject DEF Safe, TypeOK, Set, Keeps
<1>2. TypeOK'
  BY <1>1 DEF TypeOK
<1>3. FreeIsNobodys'
  BY <1>1 DEF Safe, FreeIsNobodys
<1>4. \A u \in Objects \ {s} : Sound(u)'
  BY <1>1, OneChanges
<1>5. Sound(s)'
  <2>1. sock'[s] = r /\ Sound(s) /\ Invalid \notin Fds
    BY <1>1, FdsAssumption DEF Safe
  <2>2. \A f \in Fds : Named(s, f)' => Named(s, f)
    BY <1>1, <2>1 DEF Named
  <2>3. \A f \in Fds : owner[f] = s => Named(s, f)'
    BY <1>1, <2>1 DEF Sound, KeepsNoneOfItsOwn, Named
  <2>4. Owned(s)'
    BY <1>1, <2>1, <2>2 DEF Sound, Owned
  <2> QED
    BY <1>1, <2>1, <2>3, <2>4 DEF Sound, FollowStatus, KeepsNoneOfItsOwn
<1>6. Safe'
  BY <1>2, <1>3, <1>4, <1>5 DEF Safe
<1> QED
  BY <1>1, <1>6, KeepsTheCount

LEMMA ErrorStep ==
    ASSUME IInv, NEW s \in alive, Fail(s), UNCHANGED <<tab, owner>>, Keeps
    PROVE  IInv'
<1> DEFINE r == SetError(sock[s])
<1>1. sock[s] \in Sockets
  BY DEF IInv, TypeOK
<1>2. /\ r \in Sockets /\ r.status = "Error"
      /\ r.socket = sock[s].socket /\ r.accepted = sock[s].accepted
  BY <1>1 DEF Sockets, Status, SetError
<1>3. Set(s, r)
  BY DEF Fail
<1> HIDE DEF r
<1> QED
  BY <1>2, <1>3, FailStep

LEMMA AcceptFailsStep ==
    ASSUME IInv, NEW s \in Objects, AcceptFails(s), Keeps
    PROVE  IInv'
<1> DEFINE r == FailedAccept(sock[s])
<1>1. s \in alive /\ sock[s] \in Sockets /\ sock[s].status = "Listening"
  BY DEF IInv, TypeOK, AcceptFails, Is
<1>2. /\ r \in Sockets /\ r.status = "Error"
      /\ r.socket = sock[s].socket /\ r.accepted = Invalid
  BY <1>1 DEF Sockets, Status, Handles, SetError, FailedAccept
<1>3. Set(s, r) /\ UNCHANGED <<tab, owner>>
  BY DEF AcceptFails
<1> HIDE DEF r
<1> QED
  BY <1>1, <1>2, <1>3, FailStep

LEMMA TurnStep ==
    ASSUME IInv, NEW s \in Objects,
           NEW kind, NEW st, Turn(s, kind, st),
           \/ kind = Listener /\ st = "Listening"
           \/ kind = Conn /\ st = "Connected"
    PROVE  IInv'
<1>1. /\ Safe /\ TypeOK /\ s \in alive /\ sock \in [Objects -> Sockets]
      /\ sock[s].status = "Open" /\ sock[s] \in Sockets /\ sock[s].accepted = Invalid
  BY ByObject DEF Safe, TypeOK, Turn, Is, Sound, KeepsNoneOfItsOwn
<1>2. CASE Fail(s) /\ UNCHANGED tab
  BY <1>1, <1>2, ErrorStep DEF Turn
<1>3. ASSUME Entry(tab, sock[s].socket) = Fresh,
             tab' = [tab EXCEPT ![sock[s].socket] = kind],
             Set(s, [sock[s] EXCEPT !.status = st])
      PROVE  IInv'
  <2> DEFINE own == sock[s].socket
             r == [sock[s] EXCEPT !.status = st]
  <2>1. own \in Fds /\ tab[own] = Fresh
    BY <1>3 DEF Entry
  <2>2. /\ r \in Sockets /\ r.status = st /\ r.socket = own /\ r.accepted = Invalid
    BY <1>1 DEF Sockets, Status
  <2>3. /\ sock' = [sock EXCEPT ![s] = r]
        /\ tab' = [tab EXCEPT ![own] = kind]
        /\ UNCHANGED <<alive, proto, counter, nulls, loose, owner>>
    BY <1>3 DEF Set, Turn, Keeps
  <2> HIDE DEF r
  <2>4. TypeOK'
    BY <1>1, <2>2, <2>3 DEF TypeOK
  <2>5. tab \in [Fds -> {Free, Fresh, Listener, Conn}]
    BY <1>1 DEF TypeOK
  <2>6. \A f \in Fds : /\ tab'[f] = Free => tab[f] = Free
                       /\ tab[f] = Listener => tab'[f] = Listener
    BY <2>1, <2>3, <2>5
  <2>7. FreeIsNobodys'
    BY <1>1, <2>3, <2>6 DEF Safe, FreeIsNobodys
  <2>8. \A u \in Objects \ {s} : Sound(u)'
    BY <1>1, <2>3, <2>6, OneChanges
  <2>9. Sound(s)'
    <3>1. sock'[s] = r /\ Sound(s) /\ Invalid \notin Fds /\ tab'[own] = kind
      BY <1>1, <2>1, <2>3, <2>5, FdsAssumption DEF Safe
    <3>2. \A f \in Fds : Named(s, f)' <=> Named(s, f)
      BY <1>1, <2>2, <2>3, <3>1 DEF Named
    <3>3. Owned(s)' /\ \A f \in Fds : owner'[f] = s => Named(s, f)'
      BY <2>3, <3>1, <3>2 DEF Sound, Owned
    <3>4. FollowStatus(s)' /\ KeepsNoneOfItsOwn(s)'
      BY <2>1, <2>2, <3>1 DEF FollowStatus, KeepsNoneOfItsOwn, Entry
    <3> QED
      BY <3>3, <3>4 DEF Sound
  <2>10. Safe'
    BY <2>4, <2>7, <2>8, <2>9 DEF Safe
  <2> QED
    BY <2>3, <2>10, KeepsTheCount
<1> QED
  BY <1>2, <1>3 DEF Turn

\* What accept() gives is free, and not the Socket's own.
LEMMA Accepted ==
    ASSUME Safe, NEW s \in Objects, NEW f \in Fds, Accepts(s, f)
    PROVE  /\ s \in alive /\ sock[s] \in Sockets /\ sock[s].status = "Listening"
           /\ sock[s].socket \in Fds /\ tab[sock[s].socket] = Listener /\ sock[s].socket # f
           /\ tab[f] = Free /\ owner[f] = Dead
           /\ tab' \in [Fds -> {Free, Fresh, Listener, Conn}]
           /\ \A g \in Fds : tab'[g] = IF g = f THEN Conn ELSE tab[g]
<1>1. tab \in [Fds -> {Free, Fresh, Listener, Conn}] /\ sock[s] \in Sockets
  BY DEF Safe, TypeOK
<1>2. sock[s].socket \in Fds /\ tab[sock[s].socket] = Listener
  BY DEF Accepts, Entry
<1> QED
  BY <1>1, <1>2 DEF Accepts, LowestFree, Safe, FreeIsNobodys, Is

LEMMA AcceptStep ==
    ASSUME IInv, NEW s \in Objects, Accept(s)
    PROVE  IInv'
<1>1. Safe /\ TypeOK /\ sock \in [Objects -> Sockets] /\ owner \in [Fds -> Objects \cup {Dead}]
  BY ByObject DEF Safe, TypeOK
<1>2. CASE AcceptFails(s)
  BY <1>2, AcceptFailsStep DEF Accept
<1>3. ASSUME NEW f \in Fds, Accepts(s, f),
             Set(s, [sock[s] EXCEPT !.accepted = f, !.status = "Connected"]),
             owner' = [owner EXCEPT ![f] = s]
      PROVE  IInv'
  <2> DEFINE own == sock[s].socket
             r == [sock[s] EXCEPT !.accepted = f, !.status = "Connected"]
  <2>1. /\ s \in alive /\ sock[s] \in Sockets /\ sock[s].status = "Listening"
        /\ own \in Fds /\ tab[own] = Listener /\ own # f
        /\ tab[f] = Free /\ owner[f] = Dead
        /\ tab' \in [Fds -> {Free, Fresh, Listener, Conn}]
        /\ \A g \in Fds : tab'[g] = IF g = f THEN Conn ELSE tab[g]
    BY <1>1, <1>3, Accepted
  <2>2. /\ r \in Sockets /\ r.status = "Connected" /\ r.socket = own /\ r.accepted = f
    BY <2>1 DEF Sockets, Status, Handles
  <2>3. /\ sock' = [sock EXCEPT ![s] = r]
        /\ UNCHANGED <<alive, proto, counter, nulls, loose>>
        /\ \A g \in Fds : owner'[g] = IF g = f THEN s ELSE owner[g]
    BY <1>1, <1>3 DEF Set, Accept, Keeps
  <2> HIDE DEF r
  <2>4. TypeOK'
    <3>1. owner' \in [Fds -> Objects \cup {Dead}]
      BY <1>1, <1>3
    <3> QED
      BY <1>1, <2>1, <2>2, <2>3, <3>1 DEF TypeOK
  <2>5. FreeIsNobodys'
    BY <1>1, <2>1, <2>3 DEF Safe, FreeIsNobodys
  <2>6. \A u \in Objects \ {s} : Sound(u)'
    <3>1. /\ \A u \in Objects \ {s} : sock'[u] = sock[u] /\ (u \in alive' <=> u \in alive)
          /\ loose \ {s} \subseteq loose'
      BY <1>1, <2>3
    <3>2. \A g \in Fds : /\ owner[g] # s => owner'[g] = owner[g] \/ tab[g] = Free
                         /\ owner'[g] \in Objects \ {s} => owner'[g] = owner[g]
                         /\ tab[g] = Listener => tab'[g] = Listener
      BY <2>1, <2>3
    <3> QED
      BY <1>1, <3>1, <3>2, OneChanges
  <2>7. Sound(s)'
    <3>1. sock'[s] = r /\ Sound(s) /\ s \in alive'
      BY <1>1, <2>1, <2>3 DEF Safe
    <3>2. \A g \in Fds : Named(s, g)' <=> g \in {own, f}
      BY <2>2, <3>1 DEF Named
    <3>3. Owned(s)'
      BY <2>1, <2>3, <3>1, <3>2 DEF Sound, Owned, Named
    <3>4. \A g \in Fds : owner'[g] = s => Named(s, g)'
      BY <2>1, <2>3, <3>1, <3>2 DEF Sound, KeepsNoneOfItsOwn, Named
    <3>5. FollowStatus(s)' /\ KeepsNoneOfItsOwn(s)'
      BY <2>1, <2>2, <3>1 DEF FollowStatus, KeepsNoneOfItsOwn, Entry
    <3> QED
      BY <3>3, <3>4, <3>5 DEF Sound
  <2>8. Safe'
    BY <2>4, <2>5, <2>6, <2>7 DEF Safe
  <2> QED
    BY <2>3, <2>8, KeepsTheCount
<1> QED
  BY <1>2, <1>3 DEF Accept

LEMMA AcceptNewStep ==
    ASSUME IInv, NEW s \in Objects, NEW n \in Objects, AcceptNew(s, n)
    PROVE  IInv'
<1>1. /\ Safe /\ TypeOK /\ sock \in [Objects -> Sockets]
      /\ owner \in [Fds -> Objects \cup {Dead}] /\ n \notin loose
  BY ByObject DEF Safe, TypeOK, AcceptNew
<1>2. PICK f \in Fds :
        /\ Accepts(s, f)
        /\ sock' = [sock EXCEPT ![s] = KeepsAlias(@, f), ![n] = AcceptedFrom(f)]
        /\ owner' = [owner EXCEPT ![f] = n]
  BY DEF AcceptNew
<1> DEFINE own == sock[s].socket
<1>3. /\ s \in alive /\ sock[s] \in Sockets /\ sock[s].status = "Listening"
      /\ own \in Fds /\ tab[own] = Listener /\ own # f
      /\ tab[f] = Free /\ owner[f] = Dead
      /\ tab' \in [Fds -> {Free, Fresh, Listener, Conn}]
      /\ \A g \in Fds : tab'[g] = IF g = f THEN Conn ELSE tab[g]
  BY <1>1, <1>2, Accepted
<1>4. /\ s # n /\ alive' = alive \cup {n} /\ loose' = loose \cup {s}
      /\ nulls' = nulls /\ counter' = counter + 1
      /\ \A g \in Fds : owner'[g] = IF g = f THEN n ELSE owner[g]
  BY <1>1, <1>2, <1>3 DEF AcceptNew, IncreaseCounter
<1>5. AliveIsFinite' /\ CounterDrifts' /\ counter' \in Int
  BY <1>4, Counting DEF AcceptNew
<1> DEFINE r == KeepsAlias(sock[s], f)
           a == AcceptedFrom(f)
<1>6. /\ r \in Sockets /\ r.status = "Listening" /\ r.socket = own /\ r.accepted = f
      /\ a \in Sockets /\ a.status = "Connected" /\ a.socket = Invalid /\ a.accepted = f
  BY <1>3 DEF Sockets, Status, Handles, KeepsAlias, AcceptedFrom
<1>7. sock' = [sock EXCEPT ![s] = r, ![n] = a]
  BY <1>2
<1> HIDE DEF r, a
<1>8. TypeOK'
  <2>1. sock' \in [Objects -> Sockets]
    BY <1>1, <1>6, <1>7
  <2>2. owner' \in [Fds -> Objects \cup {Dead}]
    BY <1>1, <1>2
  <2>3. proto' \in [Objects -> {"TCP", "UDP"}]
    BY <1>1 DEF AcceptNew, TypeOK
  <2> QED
    BY <1>1, <1>3, <1>4, <1>5, <2>1, <2>2, <2>3 DEF TypeOK
<1>9. FreeIsNobodys'
  BY <1>1, <1>3, <1>4 DEF Safe, FreeIsNobodys
<1>10. \A u \in Objects \ {s, n} : Sound(u)'
  <2>1. Below(tab) /\ Robbed({s, n}, tab) = {}
    BY <1>1, TabBelow
  <2>2. /\ \A u \in Objects \ {s, n} : sock'[u] = sock[u] /\ (u \in alive' <=> u \in alive)
        /\ loose \ {s, n} \subseteq loose' /\ Robbed({s, n}, tab) \subseteq loose'
    BY <1>1, <1>4, <1>7, <2>1
  <2>3. \A g \in Fds : /\ tab[g] # Free /\ owner[g] \notin {s, n} => owner'[g] = owner[g]
                       /\ owner'[g] \in Objects \ {s, n} => owner'[g] = owner[g]
                       /\ tab[g] = Listener => tab'[g] = Listener
    BY <1>3, <1>4
  <2> QED
    BY <1>1, <2>1, <2>2, <2>3, OthersStaySound
<1>11. Sound(s)'
  <2>1. sock'[s] = r /\ Sound(s) /\ s \in loose' /\ s \in alive'
    BY <1>1, <1>3, <1>4, <1>7 DEF Safe
  <2>2. \A g \in Fds : owner'[g] = s => Named(s, g)'
    BY <1>3, <1>4, <1>6, <2>1 DEF Sound, KeepsNoneOfItsOwn, Named
  <2>3. KeepsNoneOfItsOwn(s)'
    BY <1>4, <1>6, <2>1 DEF KeepsNoneOfItsOwn
  <2> QED
    BY <2>1, <2>2, <2>3 DEF Sound, Owned
<1>12. Sound(n)'
  <2>1. sock'[n] = a /\ Sound(n) /\ n \notin alive /\ n \in alive' /\ Invalid \notin Fds
    BY <1>1, <1>4, <1>7, FdsAssumption DEF Safe, AcceptNew
  <2>2. \A g \in Fds : owner'[g] = n <=> g = f
    BY <1>4, <2>1 DEF Sound, Named
  <2>3. \A g \in Fds : Named(n, g)' <=> g = f
    BY <1>6, <2>1 DEF Named
  <2> QED
    BY <1>6, <2>1, <2>2, <2>3 DEF Sound, Owned, FollowStatus, KeepsNoneOfItsOwn
<1>13. Safe'
  BY <1>8, <1>9, <1>10, <1>11, <1>12 DEF Safe
<1> QED
  BY <1>5, <1>13, ByObject, PTL

LEMMA AcceptNewFailsStep ==
    ASSUME IInv, NEW s \in Objects, NEW n \in Objects, AcceptNewFails(s, n)
    PROVE  IInv'
<1>1. /\ Safe /\ TypeOK /\ sock \in [Objects -> Sockets] /\ sock[s] \in Sockets
      /\ s \in alive /\ sock[s].status = "Listening" /\ n \notin alive /\ n \notin loose
  BY ByObject DEF Safe, TypeOK, AcceptNewFails, Is
<1>2. AliveIsFinite' /\ CounterDrifts' /\ counter' \in Int
  BY Counting DEF AcceptNewFails, NullCounter
<1> DEFINE r == FailedAccept(sock[s])
<1>3. /\ r \in Sockets /\ r.status = "Error"
      /\ r.socket = sock[s].socket /\ r.accepted = Invalid
      /\ NullSocket \in Sockets
  BY <1>1 DEF Sockets, Status, Handles, SetError, FailedAccept, NullSocket
<1>4. /\ sock' = [sock EXCEPT ![s] = r, ![n] = NullSocket]
      /\ alive' = alive \cup {n} /\ UNCHANGED <<tab, owner, loose>>
  BY DEF AcceptNewFails
<1> HIDE DEF r
<1>5. TypeOK'
  <2>1. sock' \in [Objects -> Sockets]
    BY <1>1, <1>3, <1>4
  <2>2. nulls' \in 0 .. MaxNulls /\ proto' \in [Objects -> {"TCP", "UDP"}]
    BY <1>1, MaxNullsAssumption DEF TypeOK, AcceptNewFails
  <2> QED
    BY <1>1, <1>2, <1>4, <2>1, <2>2 DEF TypeOK
<1>6. FreeIsNobodys'
  BY <1>1, <1>4 DEF Safe, FreeIsNobodys
<1>7. \A u \in Objects \ {s, n} : Sound(u)'
  <2>1. Below(tab) /\ Robbed({s, n}, tab) = {}
    BY <1>1, TabBelow
  <2>2. /\ \A u \in Objects \ {s, n} : sock'[u] = sock[u] /\ (u \in alive' <=> u \in alive)
        /\ loose \ {s, n} \subseteq loose' /\ Robbed({s, n}, tab) \subseteq loose'
    BY <1>1, <1>4, <2>1
  <2> QED
    BY <1>1, <1>4, <2>1, <2>2, OthersStaySound
<1>8. Sound(s)'
  <2>1. sock'[s] = r /\ Sound(s) /\ Invalid \notin Fds
    BY <1>1, <1>4, FdsAssumption DEF Safe
  <2>2. \A f \in Fds : Named(s, f)' => Named(s, f)
    BY <1>1, <1>3, <2>1 DEF Named
  <2>3. \A f \in Fds : owner[f] = s => Named(s, f)'
    BY <1>1, <1>3, <1>4, <2>1 DEF Sound, KeepsNoneOfItsOwn, Named
  <2>4. Owned(s)'
    BY <1>4, <2>1, <2>2 DEF Sound, Owned
  <2> QED
    BY <1>3, <1>4, <2>1, <2>3, <2>4 DEF Sound, FollowStatus, KeepsNoneOfItsOwn
<1>9. Sound(n)'
  <2>1. sock'[n] = NullSocket /\ Sound(n) /\ Invalid \notin Fds
    BY <1>1, <1>4, FdsAssumption DEF Safe
  <2>2. \A f \in Fds : owner'[f] # n
    BY <1>1, <1>4, <2>1 DEF Sound, Named
  <2> QED
    BY <2>1, <2>2
       DEF Sound, Owned, Named, FollowStatus, KeepsNoneOfItsOwn, NullSocket
<1>10. Safe'
  BY <1>5, <1>6, <1>7, <1>8, <1>9 DEF Safe
<1> QED
  BY <1>2, <1>10, ByObject, PTL

LEMMA CloseStep ==
    ASSUME IInv, NEW s \in Objects, CloseSock(s)
    PROVE  IInv'
<1>1. /\ Safe /\ TypeOK /\ sock \in [Objects -> Sockets] /\ sock[s] \in Sockets
      /\ owner \in [Fds -> Objects \cup {Dead}]
      /\ s \in alive /\ sock[s].status = "Connected"
  BY ByObject DEF Safe, TypeOK, CloseSock, Is
<1> DEFINE own == sock[s].socket
           acc == sock[s].accepted
           h == CloseHandle(sock[s])
           t == Release(tab, h)
           r == Close(sock[s], tab)
<1>2. Below(t) /\ \A f \in Fds : t[f] = IF f = h THEN Free ELSE tab[f]
  BY <1>1 DEF TypeOK, Below, Release
<1>3. h = IF acc # Invalid THEN acc ELSE own
  BY <1>1 DEF CloseHandle, IsValidSocket
<1>4. /\ sock' = [sock EXCEPT ![s] = r] /\ tab' = t
      /\ loose' = loose \cup Robbed({s}, t) \cup (IF ClosedLoose(s) THEN {s} ELSE {})
      /\ \A f \in Fds : owner'[f] = IF t[f] = Free THEN Dead ELSE owner[f]
      /\ UNCHANGED <<alive, proto, counter, nulls>>
  BY DEF CloseSock, Set, Disowned
\* What Close leaves, if the handle it closes was open and if it was not.
<1>5. ASSUME Entry(tab, h) # Free
      PROVE  r \in Sockets /\ Sound(s)'
  <2>1. /\ r \in Sockets
        /\ acc = Invalid => r.status = "Closed" /\ r.socket = Invalid /\ r.accepted = Invalid
        /\ acc # Invalid => /\ r.socket = own /\ r.accepted = Invalid
                            /\ r.status = IF own = Invalid THEN "Closed" ELSE "Listening"
    <3>1. CASE acc = Invalid
      BY <1>1, <1>3, <1>5, <3>1
         DEF Close, CloseOwn, IsOpen, IsValidSocket, Sockets, Status, Handles
    <3>2. CASE acc # Invalid
      <4> DEFINE c == [sock[s] EXCEPT !.accepted = Invalid, !.status = "Closed"]
      <4>1. CloseAccepted(sock[s], tab) = c
        BY <1>3, <1>5, <3>2 DEF CloseAccepted, IsOpen
      <4>2. c \in Sockets /\ c.status = "Closed" /\ c.socket = own /\ c.accepted = Invalid
        BY <1>1 DEF Sockets, Status, Handles
      <4>3. r = IF own # Invalid THEN [c EXCEPT !.status = "Listening"] ELSE c
        BY <1>1, <3>2, <4>1, <4>2 DEF Close, IsValidSocket
      <4> HIDE DEF c, r
      <4> QED
        BY <3>2, <4>2, <4>3 DEF Sockets, Status
    <3> QED
      BY <3>1, <3>2
  <2> HIDE DEF r
  <2>2. sock'[s] = r /\ Sound(s) /\ Invalid \notin Fds /\ h \in Fds
    BY <1>1, <1>4, <1>5, FdsAssumption DEF Safe, Entry
  <2>3. \A f \in Fds : Named(s, f)' => Named(s, f)
    BY <1>1, <1>4, <2>1, <2>2 DEF Named
  <2>4. \A f \in Fds : owner'[f] = s => Named(s, f)'
    BY <1>1, <1>2, <1>3, <1>4, <2>1, <2>2, ObjectsAssumption DEF Sound, Named
  <2>5. ASSUME s \notin loose'
        PROVE  Owned(s)' /\ FollowStatus(s)'
    <3>1. s \notin loose /\ (acc = Invalid \/ acc # own)
      BY <1>4, <2>5 DEF ClosedLoose
    <3>2. \A f \in Fds : Named(s, f)' => owner[f] = s /\ f # h
      BY <1>3, <2>1, <2>2, <2>3, <3>1 DEF Named, Sound, Owned
    <3>3. \A f \in Fds : owner[f] = s => tab[f] # Free
      BY <1>1, ObjectsAssumption DEF Safe, FreeIsNobodys
    <3>4. Owned(s)'
      BY <1>2, <1>4, <3>2, <3>3 DEF Owned
    <3>5. FollowStatus(s)
      BY <1>1, <2>2, <3>1 DEF Sound
    <3>6. r.status = "Listening" => own \in Fds /\ own # h /\ Entry(tab, own) = Listener
      BY <1>1, <1>3, <2>1, <3>1, <3>5 DEF FollowStatus, Sockets, Handles
    <3>7. r.status = "Listening" => Entry(tab', own) = Listener
      BY <1>2, <1>4, <3>6 DEF Entry
    <3>8. FollowStatus(s)'
      BY <2>1, <2>2, <3>7 DEF FollowStatus
    <3> QED
      BY <3>4, <3>8
  <2>6. KeepsNoneOfItsOwn(s)'
    BY <2>1, <2>2 DEF KeepsNoneOfItsOwn
  <2>7. Owned(s)'
    BY <2>5 DEF Owned
  <2> QED
    BY <2>1, <2>4, <2>5, <2>6, <2>7 DEF Sound
<1>6. ASSUME Entry(tab, h) = Free
      PROVE  r \in Sockets /\ Sound(s)'
  <2>1. r = SetError(sock[s])
    BY <1>1, <1>3, <1>6
       DEF Close, CloseOwn, CloseAccepted, IsOpen, IsValidSocket, SetError, Sockets
  <2>2. r \in Sockets /\ r.status = "Error" /\ r.socket = own /\ r.accepted = acc
    BY <1>1, <2>1 DEF SetError, Sockets, Status
  <2> HIDE DEF r
  <2>3. sock'[s] = r /\ Sound(s)
    BY <1>1, <1>4 DEF Safe
  <2>4. \A f \in Fds : owner'[f] = owner[f]
    BY <1>1, <1>2, <1>4, <1>6 DEF Entry, Safe, FreeIsNobodys
  <2>5. \A f \in Fds : Named(s, f)' <=> Named(s, f)
    BY <1>1, <1>4, <2>2, <2>3 DEF Named
  <2>6. Owned(s)'
    BY <1>4, <2>3, <2>4, <2>5 DEF Owned, Sound
  <2> QED
    BY <2>2, <2>3, <2>4, <2>5, <2>6 DEF Sound, FollowStatus, KeepsNoneOfItsOwn
<1>7. r \in Sockets /\ Sound(s)'
  BY <1>5, <1>6
<1> HIDE DEF r, t
<1>8. TypeOK'
  <2>1. owner' \in [Fds -> Objects \cup {Dead}]
    BY <1>1 DEF CloseSock, Disowned
  <2>2. loose' \subseteq alive'
    BY <1>1, <1>4 DEF TypeOK, Robbed
  <2> QED
    BY <1>1, <1>2, <1>4, <1>7, <2>1, <2>2 DEF TypeOK, Below
<1>9. FreeIsNobodys'
  BY <1>4 DEF FreeIsNobodys
<1>10. \A u \in Objects \ {s} : Sound(u)'
  <2>1. /\ \A u \in Objects \ {s} : sock'[u] = sock[u] /\ (u \in alive' <=> u \in alive)
        /\ loose \ {s} \subseteq loose' /\ Robbed({s}, t) \subseteq loose'
    BY <1>1, <1>4
  <2>2. \A f \in Fds : /\ t[f] # Free /\ owner[f] \notin {s} => owner'[f] = owner[f]
                       /\ owner'[f] \in Objects \ {s} => owner'[f] = owner[f]
                       /\ t[f] = Listener => tab'[f] = Listener
    BY <1>4, ObjectsAssumption
  <2> QED
    BY <1>1, <1>2, <2>1, <2>2, OthersStaySound
<1>11. Safe'
  BY <1>7, <1>8, <1>9, <1>10 DEF Safe
<1> QED
  BY <1>4, <1>11, KeepsTheCount

LEMMA SetProtocolStep ==
    ASSUME IInv, NEW s \in Objects, NEW p \in {"TCP", "UDP"}, SetProtocol(s, p)
    PROVE  IInv'
<1>1. UNCHANGED <<alive, sock, tab, counter, nulls, owner, loose>>
  BY DEF SetProtocol
<1>2. TypeOK'
  BY <1>1 DEF IInv, TypeOK, SetProtocol
<1> QED
  BY <1>1, <1>2
     DEF IInv, AliveIsFinite, CounterDrifts, FreeIsNobodys, OwnersName, OwnedOrLoose,
         Owned, HandlesFollowStatus, FollowStatus, ListenersKeepNoneOfTheirOwn,
         KeepsNoneOfItsOwn, Named

-----------------------------------------------------------------------------
(* Every step, and what follows.                                           *)

\* What the steps make of Turn, with which the kinds are fixed.
LEMMA NextInvariant ==
    ASSUME IInv, Next
    PROVE  IInv'
<1>1. PICK s \in Objects :
        \/ \E p \in {"TCP", "UDP"} : Construct(s, p) \/ SetProtocol(s, p)
        \/ ConstructNull(s) \/ Destroy(s) \/ Reset(s)
        \/ \E m \in Objects : MoveConstruct(s, m) \/ MoveAssign(s, m)
        \/ Listen(s) \/ Connect(s) \/ Bind(s) \/ Accept(s)
        \/ \E n \in Objects : AcceptNew(s, n) \/ AcceptNewFails(s, n)
        \/ Transfer(s) \/ CloseSock(s)
  BY DEF Next
<1>2. CASE \E p \in {"TCP", "UDP"} : Construct(s, p) \/ SetProtocol(s, p)
  BY <1>2, ConstructStep, SetProtocolStep
<1>3. CASE ConstructNull(s) \/ Destroy(s) \/ Reset(s)
  BY <1>3, ConstructNullStep, DestroyStep, ResetStep
<1>4. CASE \E m \in Objects : MoveConstruct(s, m) \/ MoveAssign(s, m)
  BY <1>4, MoveConstructStep, MoveAssignStep
<1>5. CASE Listen(s) \/ Connect(s)
  BY <1>5, TurnStep DEF Listen, Connect
<1>6. CASE Bind(s) \/ Transfer(s)
  BY <1>6, ErrorStep DEF Bind, Transfer, Is
<1>7. CASE Accept(s) \/ CloseSock(s)
  BY <1>7, AcceptStep, CloseStep
<1>8. CASE \E n \in Objects : AcceptNew(s, n) \/ AcceptNewFails(s, n)
  BY <1>8, AcceptNewStep, AcceptNewFailsStep
<1> QED
  BY <1>1, <1>2, <1>3, <1>4, <1>5, <1>6, <1>7, <1>8

LEMMA StutterInvariant ==
    ASSUME IInv, UNCHANGED vars
    PROVE  IInv'
BY DEF vars, IInv, TypeOK, AliveIsFinite, CounterDrifts, FreeIsNobodys, OwnersName,
       OwnedOrLoose, Owned, HandlesFollowStatus, FollowStatus,
       ListenersKeepNoneOfTheirOwn, KeepsNoneOfItsOwn, Named

\* The inductive invariant of the class holds after any methods.
THEOREM SockApiInvariance == Spec => []IInv
<1>1. IInv /\ [Next]_vars => IInv'
  BY NextInvariant, StutterInvariant
<1> QED
  BY InitInvariant, <1>1, PTL DEF Spec

\* A Socket that is not loose names no descriptor of another (sock.cpp:197,
\* :250).
THEOREM SocketsShareOnlyLoose == Spec => []OnlyLooseSocketsShare
<1>1. IInv => OnlyLooseSocketsShare
  BY DEF IInv, OwnedOrLoose, Owned, OnlyLooseSocketsShare
<1> QED
  BY <1>1, SockApiInvariance, PTL

\* As long as no Socket is loose, one that says Listening and has a handle
\* listens (sock.cpp:127-139, :245-257).
THEOREM ListeningIsTrue == Spec => []ListeningMeansListener
<1>1. IInv => ListeningMeansListener
  BY DEF IInv, HandlesFollowStatus, FollowStatus, ListeningMeansListener, Is, IsValidSocket
<1> QED
  BY <1>1, SockApiInvariance, PTL

\* A TCP Socket that sends and receives has been moved (sock.cpp:209-243).
THEOREM OnlyMovedTalk == Spec => []TalksOnlyMoved
<1>1. IInv => TalksOnlyMoved
  <2> SUFFICES ASSUME IInv, NEW s \in Objects,
                      proto[s] = "TCP", CanSend(s), CanReceive(s), loose = {}
               PROVE  sock[s].socket = sock[s].accepted
    BY DEF TalksOnlyMoved
  <2>1. /\ s \in alive /\ sock[s].status = "Connected"
        /\ Entry(tab, sock[s].accepted) = Conn /\ Entry(tab, sock[s].socket) = Conn
    BY DEF CanSend, CanReceive, SendHandle, ReceiveHandle, Is
  <2>2. Invalid \notin {sock[s].accepted, sock[s].socket}
    BY <2>1, FdsAssumption DEF Entry
  <2> QED
    BY <2>1, <2>2 DEF IInv, HandlesFollowStatus, FollowStatus
<1> QED
  BY <1>1, SockApiInvariance, PTL

\* The counter is short of the number of Sockets by all those ever made of
\* nullptr (sock.h:39-51).
THEOREM CounterIsShort == Spec => []CounterDrifts
<1>1. IInv => CounterDrifts
  BY DEF IInv
<1> QED
  BY <1>1, SockApiInvariance, PTL

-----------------------------------------------------------------------------
(* The lost descriptors are the open ones of nobody, and only a move makes *)
(* a descriptor nobody's.                                                  *)

Nobodys(f) == tab[f] # Free /\ owner[f] = Dead

LEMMA LostAreNobodys == IInv => \A g \in Fds : g \in Lost <=> Nobodys(g)
<1>1. TypeOK => Dead \notin alive
  BY ObjectsAssumption DEF TypeOK
<1> QED
  BY <1>1 DEF IInv, OwnersName, Lost, Nobodys, Named

LEMMA LostAreNobodysAfter == IInv' => (\A g \in Fds : g \in Lost <=> Nobodys(g))'
<1>1. TypeOK' => Dead \notin alive'
  BY ObjectsAssumption DEF TypeOK
<1> QED
  BY <1>1 DEF IInv, OwnersName, Lost, Nobodys, Named

LEMMA InitKeepsOwners ==
    ASSUME IInv, NEW s \in Objects, NEW p, NEW t, Below(t), InitSocket(s, p, t),
           NEW f \in Fds, Nobodys(f)'
    PROVE  Nobodys(f)
<1>1. PICK h \in Handles, st \in {"Open", "Error"} :
        /\ h = Invalid => tab' = t /\ owner' = Disowned(owner, t)
        /\ h # Invalid => /\ h \in Fds /\ t[h] = Free
                          /\ tab' = [t EXCEPT ![h] = Fresh]
                          /\ owner' = [Disowned(owner, t) EXCEPT ![h] = s]
  BY InitOutcome
<1>2. f # h
  BY <1>1, FdsAssumption, ObjectsAssumption DEF Nobodys, Disowned
<1>3. tab'[f] = t[f] /\ owner'[f] = Disowned(owner, t)[f]
  <2>1. CASE h = Invalid
    BY <1>1, <2>1
  <2>2. CASE h # Invalid
    BY <1>1, <1>2, <2>2 DEF Below, Disowned
  <2> QED
    BY <2>1, <2>2
<1> QED
  BY <1>3 DEF Nobodys, Disowned, Below

LEMMA OnlyMovesDisown ==
    ASSUME IInv, Next, NEW f \in Fds, Nobodys(f)', ~Nobodys(f)
    PROVE  \E s, m \in Objects :
              Move(s, m) /\ f = sock[m].socket /\ f # sock[m].accepted
<1>1. PICK s \in Objects :
        \/ \E p \in {"TCP", "UDP"} : Construct(s, p) \/ SetProtocol(s, p)
        \/ ConstructNull(s) \/ Destroy(s) \/ Reset(s)
        \/ \E m \in Objects : MoveConstruct(s, m) \/ MoveAssign(s, m)
        \/ Listen(s) \/ Connect(s) \/ Bind(s) \/ Accept(s)
        \/ \E n \in Objects : AcceptNew(s, n) \/ AcceptNewFails(s, n)
        \/ Transfer(s) \/ CloseSock(s)
  BY DEF Next
<1>2. Safe /\ TypeOK /\ Below(tab) /\ Below(QuitTable(sock[s], tab)) /\ Dead \notin Objects
  BY ByObject, TabBelow, QuitBelow, ObjectsAssumption DEF Safe
<1>3. ~\E p \in {"TCP", "UDP"} : Construct(s, p) \/ SetProtocol(s, p)
  BY <1>2, InitKeepsOwners DEF Construct, SetProtocol, Nobodys
<1>4. ~(ConstructNull(s) \/ Reset(s))
  BY <1>2, InitKeepsOwners DEF ConstructNull, Reset, Nobodys
<1>5. ~Destroy(s)
  <2> SUFFICES ASSUME Destroy(s)
               PROVE  Nobodys(f)
    OBVIOUS
  <2> DEFINE t == QuitTable(sock[s], tab)
  <2>1. tab' = t /\ owner' = Disowned(owner, t)
    BY DEF Destroy
  <2> HIDE DEF t
  <2> QED
    BY <1>2, <2>1 DEF Nobodys, Disowned, Below, t
<1>6. ~(Listen(s) \/ Connect(s) \/ Bind(s) \/ Transfer(s))
  BY <1>2 DEF Listen, Connect, Bind, Transfer, Turn, Nobodys, Entry, TypeOK
<1>7. ~Accept(s)
  <2> SUFFICES ASSUME NEW g \in Fds, Accepts(s, g), owner' = [owner EXCEPT ![g] = s]
               PROVE  Nobodys(f)
    BY DEF Accept, AcceptFails, Nobodys
  <2> QED
    BY <1>2, Accepted DEF Nobodys, TypeOK
<1>8. ~\E n \in Objects : AcceptNew(s, n) \/ AcceptNewFails(s, n)
  <2> SUFFICES ASSUME NEW n \in Objects, NEW g \in Fds,
                      Accepts(s, g), owner' = [owner EXCEPT ![g] = n]
               PROVE  Nobodys(f)
    BY DEF AcceptNew, AcceptNewFails, Nobodys
  <2> QED
    BY <1>2, Accepted DEF Nobodys, TypeOK
<1>9. ~CloseSock(s)
  <2> SUFFICES ASSUME CloseSock(s)
               PROVE  Nobodys(f)
    OBVIOUS
  <2> DEFINE h == CloseHandle(sock[s])
  <2>1. tab' = Release(tab, h) /\ owner' = Disowned(owner, Release(tab, h))
    BY DEF CloseSock
  <2> HIDE DEF h
  <2> QED
    BY <2>1 DEF Nobodys, Disowned, Release
<1>10. PICK m \in Objects : MoveConstruct(s, m) \/ MoveAssign(s, m)
  BY <1>1, <1>3, <1>4, <1>5, <1>6, <1>7, <1>8, <1>9
<1>11. PICK t : Below(t) /\ MoveInto(m, s, t) /\ tab' = t /\ m \in alive
  BY <1>2, <1>10 DEF MoveConstruct, MoveAssign
<1>12. owner'[f] = IF t[f] = Free THEN Dead
                   ELSE IF owner[f] # m THEN owner[f]
                   ELSE IF f = sock[m].accepted THEN s ELSE Dead
  BY <1>11 DEF MoveInto, TakeOver
<1>13. tab[f] # Free /\ owner[f] = m /\ f # sock[m].accepted
  BY <1>2, <1>11, <1>12 DEF Nobodys, Below
<1>14. f = sock[m].socket
  BY <1>2, <1>13 DEF Safe, Sound, Named
<1> QED
  BY <1>10, <1>13, <1>14 DEF Move

\* A descriptor is lost only by moving a Socket that has it in socket_ alone
\* (sock.cpp:127-156).
THEOREM OnlyMovesLose == Spec => LosesOnlyByMove
<1> DEFINE Loses ==
      \A f \in Lost' \ Lost :
         \E s, m \in Objects : Move(s, m) /\ f = sock[m].socket /\ f # sock[m].accepted
<1>1. ASSUME IInv, IInv', [Next]_vars
      PROVE  [Loses]_vars
  <2> SUFFICES ASSUME Next, NEW f \in Lost' \ Lost
               PROVE  \E s, m \in Objects :
                        Move(s, m) /\ f = sock[m].socket /\ f # sock[m].accepted
    BY <1>1
  <2>1. f \in Fds
    BY DEF Lost
  <2>2. ~Nobodys(f)
    BY <1>1, <2>1, LostAreNobodys
  <2>3. (\A g \in Fds : g \in Lost <=> Nobodys(g))'
    BY <1>1, LostAreNobodysAfter
  <2>4. Nobodys(f)'
    BY <2>1, <2>3
  <2> QED
    BY <1>1, <2>1, <2>2, <2>4, OnlyMovesDisown
<1>2. Spec => [][Loses]_vars
  <2> HIDE DEF Loses
  <2> QED
    BY <1>1, SockApiInvariance, PTL DEF Spec
<1> QED
  BY <1>2 DEF LosesOnlyByMove
=============================================================================
