-------------------------- MODULE FetchDataProofs ---------------------------
(***************************************************************************)
(* Proofs about FetchData, for every size of the buffer, of the memory and *)
(* of what the client sends.                                               *)
(***************************************************************************)
EXTENDS FetchData, TLAPS

USE KAssumption, MemoryAssumption, MaxSentAssumption
USE DEF string, fetch

\* What resize and recv() make of the string.
LEMMA ResizedData ==
    ASSUME NEW m \in Nat, NEW d \in [1 .. m -> Nat], NEW n \in Nat
    PROVE  /\ Resized(d, m, n) \in [1 .. n -> Nat]
           /\ \A i \in 1 .. n : i <= m => Resized(d, m, n)[i] = d[i]
BY DEF Resized

LEMMA WrittenData ==
    ASSUME TypeOK, NEW n \in Nat, NEW q \in Int
    PROVE  /\ Written(n, q) \in [1 .. size -> Nat]
           /\ \A i \in 1 .. size :
                /\ i <= q => Written(n, q)[i] = data[i]
                /\ q < i /\ i <= q + n => Written(n, q)[i] = read + (i - q)
BY DEF Written, TypeOK

\* Only Grow changes pos, by one buffer, and Start, which sets it to 0.
LEMMA BuffersStayWhole ==
    ASSUME TypeOK, WholeBuffers, pos' \in {0, pos, pos + K}
    PROVE  WholeBuffers'
<1>1. PICK n \in 0 .. pos : pos = n * K
  BY DEF WholeBuffers
<1>2. CASE pos' = pos
  BY <1>1, <1>2 DEF WholeBuffers
<1>3. CASE pos' = 0
  <2>1. 0 \in 0 .. pos' /\ pos' = 0 * K
    BY <1>3
  <2> QED
    BY <2>1 DEF WholeBuffers
<1>4. CASE pos' = pos + K
  <2>1. n + 1 \in 0 .. pos' /\ pos' = (n + 1) * K
    BY <1>1, <1>4 DEF TypeOK
  <2> QED
    BY <2>1 DEF WholeBuffers
<1> QED
  BY <1>2, <1>3, <1>4

LEMMA InitInvariant == Init => IInv
<1> SUFFICES ASSUME Init PROVE IInv
  OBVIOUS
<1>1. data \in [1 .. size -> Nat]
  BY DEF Init
<1>2. TypeOK
  <2>1. /\ sent = 0 /\ read = 0 /\ base = 0 /\ size = 0 /\ pos = 0 /\ len = 0
        /\ peer = "open" /\ status = "Connected" /\ loc = "start" /\ proc = "up"
    BY DEF Init
  <2>2. stale \in BOOLEAN /\ harmed \in BOOLEAN
    BY DEF Init
  <2> QED
    BY <1>1, <2>1, <2>2 DEF TypeOK
<1>3. RoomForRecv /\ Accounted /\ MovesLate /\ PrefixIntact
  BY DEF Init, RoomForRecv, Accounted, MovesLate, Fetching, PrefixIntact
<1>4. WholeBuffers
  BY DEF Init, WholeBuffers
<1> QED
  BY <1>2, <1>3, <1>4 DEF IInv

LEMMA ClientKeeps ==
    ASSUME IInv, ClientSend \/ ClientClose \/ ClientAbort
    PROVE  IInv'
<1>1. UNCHANGED <<proc, read, status, loc, base, data, size, pos, len, stale, harmed>>
  BY DEF ClientSend, ClientClose, ClientAbort
<1>2. sent' \in 0 .. MaxSent /\ peer' \in {"open", "eof", "reset"}
  BY DEF IInv, TypeOK, ClientSend, ClientClose, ClientAbort
<1>3. TypeOK'
  BY <1>1, <1>2 DEF IInv, TypeOK
<1>4. RoomForRecv' /\ Accounted' /\ MovesLate' /\ PrefixIntact'
  BY <1>1 DEF IInv, RoomForRecv, Accounted, MovesLate, Fetching, PrefixIntact,
     Received
<1>5. WholeBuffers'
  BY <1>1, BuffersStayWhole DEF IInv
<1> QED
  BY <1>3, <1>4, <1>5 DEF IInv

LEMMA StartKeeps ==
    ASSUME IInv, Start
    PROVE  IInv'
<1>1. /\ loc' = "recv" /\ pos' = 0 /\ len' = K /\ size' = K /\ base' = read
      /\ data' = [i \in 1 .. K |-> 0] /\ stale' = FALSE
      /\ UNCHANGED <<proc, stream, read, status, harmed>>
  BY DEF Start
<1>2. data' \in [1 .. size' -> Nat]
  BY <1>1
<1>3. TypeOK'
  BY <1>1, <1>2 DEF IInv, TypeOK, stream
<1>4. RoomForRecv' /\ Accounted' /\ MovesLate' /\ PrefixIntact'
  BY <1>1 DEF IInv, TypeOK, RoomForRecv, Accounted, MovesLate, Fetching,
     PrefixIntact, Received
<1>5. WholeBuffers'
  BY <1>1, BuffersStayWhole DEF IInv
<1> QED
  BY <1>3, <1>4, <1>5 DEF IInv

LEMMA RecvBytesKeeps ==
    ASSUME IInv, RecvBytes
    PROVE  IInv'
<1>1. PICK n \in 1 .. len : /\ n <= sent - read
                            /\ read' = read + n
                            /\ len' = n
                            /\ \E q \in Places(n) : data' = Written(n, q)
  BY DEF RecvBytes
<1>2. /\ loc = "recv" /\ loc' = "check" /\ status = "Connected"
      /\ harmed' = (harmed \/ stale)
      /\ UNCHANGED <<proc, stream, status, base, size, pos, stale>>
  BY DEF RecvBytes, Receiving, At
<1>3. TypeOK /\ n \in Nat
  BY <1>1 DEF IInv, TypeOK
<1>4. PICK q \in Places(n) : data' = Written(n, q)
  BY <1>1
<1>5. q \in Int /\ (~stale => q = pos)
  BY <1>3 DEF Places, TypeOK
<1>6. TypeOK'
  <2>1. data' \in [1 .. size' -> Nat]
    BY <1>2, <1>3, <1>4, <1>5, WrittenData
  <2>2. harmed' \in BOOLEAN
    BY <1>2, <1>3 DEF TypeOK
  <2> QED
    BY <1>1, <1>2, <1>3, <2>1, <2>2 DEF TypeOK, stream
<1>8. RoomForRecv' /\ Accounted' /\ MovesLate'
  BY <1>1, <1>2, <1>3 DEF IInv, TypeOK, RoomForRecv, Accounted, MovesLate, Fetching
<1>9. PrefixIntact'
  <2> SUFFICES ASSUME ~harmed, ~stale, NEW i \in 1 .. pos + n
               PROVE  data'[i] = base + i
    BY <1>1, <1>2 DEF PrefixIntact, Received
  <2>1. /\ pos + K = size /\ read = base + pos
        /\ (i <= pos => data[i] = base + i) /\ n <= K
    BY <1>1, <1>2, <1>3 DEF IInv, TypeOK, RoomForRecv, Accounted, Fetching,
       PrefixIntact, Received
  <2>2. i \in 1 .. size /\ pos \in Nat /\ base \in Nat /\ i \in Nat
    BY <1>3, <2>1 DEF TypeOK
  <2>3. /\ i <= pos => data'[i] = data[i]
        /\ pos < i => data'[i] = read + (i - pos)
    BY <1>3, <1>4, <1>5, <2>2, WrittenData
  <2> QED
    BY <2>1, <2>2, <2>3
<1>7. WholeBuffers'
  BY <1>2, <1>3, BuffersStayWhole DEF IInv
<1> QED
  BY <1>6, <1>7, <1>8, <1>9 DEF IInv

LEMMA RecvOthersKeep ==
    ASSUME IInv, RecvFault \/ RecvNothing \/ RecvReset \/ RecvRefused
    PROVE  IInv'
<1>1. TypeOK'
  BY DEF IInv, TypeOK, RecvFault, RecvNothing, RecvReset, RecvRefused, stream, Receiving, At
<1>2. RoomForRecv' /\ Accounted' /\ MovesLate'
  BY DEF IInv, TypeOK, RoomForRecv, Accounted, MovesLate, Fetching, Receiving, At,
     RecvFault, RecvNothing, RecvReset, RecvRefused
<1>3. PrefixIntact'
  BY DEF IInv, TypeOK, PrefixIntact, Received, Fetching, Receiving, At,
     RecvFault, RecvNothing, RecvReset, RecvRefused
<1>4. WholeBuffers'
  BY BuffersStayWhole DEF IInv, RecvFault, RecvNothing, RecvReset, RecvRefused
<1> QED
  BY <1>1, <1>2, <1>3, <1>4 DEF IInv

LEMMA GrowKeeps ==
    ASSUME IInv, Grow
    PROVE  IInv'
<1>1. /\ loc = "check" /\ loc' = "recv" /\ len = K
      /\ pos' = pos + K /\ size' = K + pos'
      /\ data' = Resized(data, size, size')
      /\ stale' \in BOOLEAN /\ (stale => stale')
      /\ UNCHANGED <<proc, stream, read, status, base, len, harmed>>
  BY DEF Grow, At, Full, NextSize, IInv, TypeOK
<1>2. TypeOK /\ size' \in Nat /\ pos' \in Nat /\ size <= size'
  BY <1>1 DEF IInv, TypeOK, RoomForRecv
<1>3. TypeOK'
  <2>1. data' \in [1 .. size' -> Nat]
    BY <1>1, <1>2, ResizedData DEF TypeOK
  <2> QED
    BY <1>1, <1>2, <2>1 DEF TypeOK, stream
<1>4. RoomForRecv' /\ Accounted' /\ MovesLate'
  BY <1>1, <1>2 DEF IInv, TypeOK, RoomForRecv, Accounted, MovesLate, Fetching
<1>5. PrefixIntact'
  <2> SUFFICES ASSUME status = "Connected", ~harmed, NEW i \in 1 .. pos + K
               PROVE  data'[i] = base + i
    BY <1>1 DEF PrefixIntact, Received
  <2>1. i <= size /\ i \in 1 .. size' /\ data[i] = base + i
    BY <1>1, <1>2 DEF IInv, TypeOK, RoomForRecv, PrefixIntact, Received, Fetching
  <2>2. size \in Nat /\ data \in [1 .. size -> Nat] /\ i \in Nat
    BY <1>2 DEF TypeOK
  <2>3. Resized(data, size, size')[i] = data[i]
    BY <1>2, <2>1, <2>2, ResizedData
  <2> QED
    BY <1>1, <2>1, <2>3
<1>6. WholeBuffers'
  BY <1>1, <1>2, BuffersStayWhole DEF IInv
<1> QED
  BY <1>3, <1>4, <1>5, <1>6 DEF IInv

LEMMA ReturnKeeps ==
    ASSUME IInv, Return
    PROVE  IInv'
<1>1. /\ loc = "check" /\ loc' = "returned" /\ len # K
      /\ size' = pos + len
      /\ data' = Resized(data, size, size')
      /\ UNCHANGED <<proc, stream, read, status, base, pos, len, stale, harmed>>
  BY DEF Return, At, Full, FinalSize
<1>2. TypeOK /\ size' \in Nat /\ size' <= size /\ status = "Connected"
  BY <1>1 DEF IInv, TypeOK, RoomForRecv, Accounted
<1>3. TypeOK'
  <2>1. data' \in [1 .. size' -> Nat]
    BY <1>1, <1>2, ResizedData DEF TypeOK
  <2> QED
    BY <1>1, <1>2, <2>1 DEF TypeOK, stream
<1>4. RoomForRecv' /\ Accounted' /\ MovesLate'
  BY <1>1, <1>2 DEF IInv, TypeOK, RoomForRecv, Accounted, MovesLate, Fetching
<1>5. PrefixIntact'
  <2> SUFFICES ASSUME ~harmed, NEW i \in 1 .. pos + len
               PROVE  data'[i] = base + i
    BY <1>1 DEF PrefixIntact, Received
  <2>1. i <= size /\ i \in 1 .. size' /\ data[i] = base + i
    BY <1>1, <1>2 DEF IInv, TypeOK, PrefixIntact, Received, Fetching
  <2>2. size \in Nat /\ data \in [1 .. size -> Nat]
    BY <1>2 DEF TypeOK
  <2>3. Resized(data, size, size')[i] = data[i]
    BY <1>2, <2>1, <2>2, ResizedData
  <2> QED
    BY <1>1, <2>1, <2>3
<1>6. WholeBuffers'
  BY <1>1, <1>2, BuffersStayWhole DEF IInv
<1> QED
  BY <1>3, <1>4, <1>5, <1>6 DEF IInv

\* The process ends: nothing else changes.
LEMMA DeathKeeps ==
    ASSUME IInv, NoMemory \/ Collapse
    PROVE  IInv'
<1>1. proc' = "down" /\ UNCHANGED <<stream, fetch>>
  BY DEF NoMemory, Collapse
<1>2. TypeOK' /\ WholeBuffers'
  BY <1>1 DEF IInv, TypeOK, WholeBuffers, stream
<1>3. RoomForRecv' /\ Accounted' /\ MovesLate' /\ PrefixIntact'
  BY <1>1 DEF IInv, RoomForRecv, Accounted, MovesLate, Fetching, PrefixIntact,
     Received
<1> QED
  BY <1>2, <1>3 DEF IInv

LEMMA AgainKeeps ==
    ASSUME IInv, Again
    PROVE  IInv'
BY DEF Again, At, IInv, TypeOK, RoomForRecv, Accounted, MovesLate, Fetching,
   PrefixIntact, WholeBuffers, stream

LEMMA StepInvariant == IInv /\ [Next]_vars => IInv'
<1> SUFFICES ASSUME IInv, [Next]_vars PROVE IInv'
  OBVIOUS
<1>1. CASE ThreadStep \/ Collapse
  BY <1>1, StartKeeps, RecvBytesKeeps, RecvOthersKeep, GrowKeeps, ReturnKeeps,
     DeathKeeps, AgainKeeps DEF ThreadStep
<1>2. CASE ClientSend \/ ClientClose \/ ClientAbort
  BY <1>2, ClientKeeps
<1>3. CASE UNCHANGED vars
  BY <1>3 DEF vars, stream, IInv, TypeOK, WholeBuffers, RoomForRecv, Accounted,
     MovesLate, Fetching, PrefixIntact, Received
<1> QED
  BY <1>1, <1>2, <1>3 DEF Next

\* The invariant holds of every reachable state.
THEOREM FetchInvariance == Spec => []IInv
BY InitInvariant, StepInvariant, PTL DEF Spec

\* Every variable of the fetch keeps its type, the string the length that size
\* tells (worker.cpp:22-42).
THEOREM FetchTypeCorrect == Spec => []TypeOK
<1>1. IInv => TypeOK
  BY DEF IInv
<1> QED
  BY <1>1, FetchInvariance, PTL

\* Each recv() gets exactly the room that the string has, and never returns
\* more than the assertion allows (worker.cpp:27-37).
THEOREM RecvFitsTheString == Spec => []RoomForRecv
<1>1. IInv => RoomForRecv
  BY DEF IInv
<1> QED
  BY <1>1, FetchInvariance, PTL

\* A fetch returns as many bytes as it took from the stream, and the next one
\* goes on behind them (worker.cpp:31-40).
THEOREM FetchSkipsNothing == Spec => []NothingSkipped
<1>1. IInv => NothingSkipped
  BY DEF IInv, TypeOK, Accounted, NothingSkipped
<1> QED
  BY <1>1, FetchInvariance, PTL

\* What a fetch returns is what the client sent unless recv() has written
\* through a stale address, and only bytes behind the first buffer of a
\* request are ever written there (worker.cpp:26-41).
THEOREM UnharmedBytesArrive == Spec => ArrivesUnlessHarmed
<1>1. ASSUME IInv, IInv', [Next]_vars
      PROVE  [/\ Return /\ ~harmed => \A i \in 1 .. size' : data'[i] = base + i
              /\ harmed' # harmed => read - base >= K /\ read < read']_vars
  <2>1. ASSUME Return, ~harmed PROVE \A i \in 1 .. size' : data'[i] = base + i
    <3>1. /\ loc' = "returned" /\ size' = pos' + len' /\ ~harmed' /\ base' = base
      BY <2>1 DEF Return, FinalSize
    <3> QED
      BY <1>1, <3>1 DEF IInv, Accounted, PrefixIntact, Received
  <2>2. ASSUME harmed' # harmed PROVE read - base >= K /\ read < read'
    <3>1. RecvBytes
      BY <1>1, <2>2 DEF Next, ThreadStep, Start, RecvFault, RecvNothing, RecvReset,
         RecvRefused, Grow, NoMemory, Return, Again, Collapse, ClientSend, ClientClose,
         ClientAbort, vars
    <3>2. PICK n \in 1 .. len : read' = read + n
      BY <3>1 DEF RecvBytes
    <3>3. /\ loc = "recv" /\ status = "Connected" /\ stale
      BY <1>1, <2>2, <3>1 DEF RecvBytes, Receiving, At, IInv, TypeOK
    <3> QED
      BY <1>1, <3>2, <3>3 DEF IInv, TypeOK, Accounted, MovesLate, Fetching
  <2> QED
    BY <2>1, <2>2
<1> QED
  BY <1>1, FetchInvariance, PTL DEF Spec, ArrivesUnlessHarmed

\* A recv() is called only when this fetch has taken a whole number of
\* buffers, none of them short, so that a request of another length never
\* waits for more (worker.cpp:31-37).
THEOREM FetchAsksAtBoundary == Spec => []AtBoundary
<1>1. IInv => AtBoundary
  <2> SUFFICES ASSUME IInv, loc = "recv", status = "Connected"
               PROVE  \E n \in 0 .. pos : read - base = n * K
    BY DEF AtBoundary
  <2>1. read - base = pos
    BY DEF IInv, TypeOK, Accounted
  <2> QED
    BY <2>1 DEF IInv, WholeBuffers
<1> QED
  BY <1>1, FetchInvariance, PTL

\* A fetch in which a call failed never returns (worker.cpp:32-38).
THEOREM FailedFetchNeverReturns == Spec => []OnlyGoodFetchReturns
<1>1. IInv => OnlyGoodFetchReturns
  BY DEF IInv, Accounted, OnlyGoodFetchReturns
<1> QED
  BY <1>1, FetchInvariance, PTL

-----------------------------------------------------------------------------
(* The fetch is the one that Worker has.                                   *)

\* Where Worker sees the thread.
Seen ==
    /\ loc = "start" => SeenAs = "fetch" /\ ~InRecv
    /\ loc = "returned" => SeenAs = "respond" /\ ~InRecv
    /\ loc = "recv" /\ status = "Connected" => SeenAs = "recv" /\ InRecv
    /\ loc = "recv" /\ status = "Error" => SeenAs = "fetch" /\ ~InRecv
    /\ loc = "check" /\ len = K => SeenAs = "fetch" /\ ~InRecv
    /\ loc = "check" /\ len # K => SeenAs = "respond" /\ ~InRecv

LEMMA SeenLocations ==
    /\ TypeOK => Seen
    /\ TypeOK' => Seen'
<1>1. TypeOK => Seen
  BY DEF TypeOK, Seen, SeenAs, InRecv, Full
<1>2. TypeOK' => Seen'
  BY <1>1, PTL
<1> QED
  BY <1>1, <1>2

\* What Worker sees of the rest is the status, the client and whether the
\* process is up.
LEMMA AskingIsFetch ==
    ASSUME SeenAs = "fetch", ~InRecv, SeenAs' = "recv", InRecv',
           status = "Connected", proc = "up", UNCHANGED <<proc, peer, status>>
    PROVE  W!Fetch(1)
<1>1. W!At(1, "fetch")
  BY DEF W!At
<1>2. W!Mine(1).status = "Connected" /\ W!Mine(1).socket = 3
  BY DEF W!Mine
<1>3. /\ W!Entry([f \in {3} |-> 1], W!Mine(1).socket) = 1
      /\ 1 \in W!Conns
  BY <1>2 DEF W!Entry, W!Conns
<1>4. W!Goto(1, "recv")
  BY DEF W!Goto
<1>5. [t \in {1} |-> IF InRecv THEN 1 ELSE 0]'
        = [[t \in {1} |-> IF InRecv THEN 1 ELSE 0] EXCEPT ![1] = 1]
  OBVIOUS
<1>6. UNCHANGED [n \in {"node"} |-> [status |-> status, socket |-> 3, accepted |-> 3]]
  OBVIOUS
<1>7. UNCHANGED W!kernel
  BY DEF W!kernel
<1>8. UNCHANGED <<[n \in {"node"} |-> FALSE], [t \in {1} |-> "node"],
                  [t \in {1} |-> "keep"], [t \in {1} |-> -1]>>
  OBVIOUS
<1> QED
  BY <1>1, <1>2, <1>3, <1>4, <1>5, <1>6, <1>7, <1>8 DEF W!Fetch

LEMMA BytesAreRecvData ==
    ASSUME SeenAs = "recv", InRecv, SeenAs' \in {"fetch", "respond"}, ~InRecv',
           peer # "reset", proc = "up", UNCHANGED <<proc, peer, status>>
    PROVE  W!RecvData(1)
<1>1. W!At(1, "recv")
  BY DEF W!At
<1>2. [c \in {1} |-> peer][[t \in {1} |-> IF InRecv THEN 1 ELSE 0][1]] # "reset"
  OBVIOUS
<1>3. W!Goto(1, SeenAs')
  BY DEF W!Goto
<1>4. [t \in {1} |-> IF InRecv THEN 1 ELSE 0]'
        = [[t \in {1} |-> IF InRecv THEN 1 ELSE 0] EXCEPT ![1] = W!Free]
  BY DEF W!Free
<1>5. UNCHANGED <<W!kernel, W!objects>>
  BY DEF W!kernel, W!objects
<1>6. UNCHANGED <<[t \in {1} |-> "node"], [t \in {1} |-> -1]>>
  OBVIOUS
<1>7. [t \in {1} |-> "keep"]' = [[t \in {1} |-> "keep"] EXCEPT ![1] = "keep"]
  OBVIOUS
<1> QED
  BY <1>1, <1>2, <1>3, <1>4, <1>5, <1>6, <1>7 DEF W!RecvData

LEMMA EndIsRecvEof ==
    ASSUME SeenAs = "recv", InRecv, SeenAs' = "respond", ~InRecv',
           peer # "open", proc = "up", UNCHANGED <<proc, peer, status>>
    PROVE  W!RecvEof(1)
<1>1. W!At(1, "recv")
  BY DEF W!At
<1>2. [c \in {1} |-> peer][[t \in {1} |-> IF InRecv THEN 1 ELSE 0][1]] # "open"
  OBVIOUS
<1>3. W!Goto(1, "respond")
  BY DEF W!Goto
<1>4. [t \in {1} |-> IF InRecv THEN 1 ELSE 0]'
        = [[t \in {1} |-> IF InRecv THEN 1 ELSE 0] EXCEPT ![1] = W!Free]
  BY DEF W!Free
<1>5. UNCHANGED <<W!kernel, W!objects>>
  BY DEF W!kernel, W!objects
<1>6. UNCHANGED <<[t \in {1} |-> "node"], [t \in {1} |-> "keep"], [t \in {1} |-> -1]>>
  OBVIOUS
<1> QED
  BY <1>1, <1>2, <1>3, <1>4, <1>5, <1>6 DEF W!RecvEof

LEMMA FailureIsRecvError ==
    ASSUME SeenAs = "recv", InRecv, SeenAs' = "fetch", ~InRecv',
           status' = "Error", proc = "up", UNCHANGED <<proc, peer>>
    PROVE  /\ peer = "reset" => W!RecvReset(1)
           /\ peer # "reset" => W!RecvFault(1)
<1>1. W!At(1, "recv")
  BY DEF W!At
<1>2. [c \in {1} |-> peer][[t \in {1} |-> IF InRecv THEN 1 ELSE 0][1]] = peer
  OBVIOUS
<1>3. W!Goto(1, "fetch")
  BY DEF W!Goto
<1>4. [t \in {1} |-> IF InRecv THEN 1 ELSE 0]'
        = [[t \in {1} |-> IF InRecv THEN 1 ELSE 0] EXCEPT ![1] = W!Free]
  BY DEF W!Free
<1>5. W!SetMine(1, W!SetError(W!Mine(1)))
  BY DEF W!SetMine, W!SetError, W!Mine
<1>6. UNCHANGED W!kernel
  BY DEF W!kernel
<1>7. UNCHANGED <<[n \in {"node"} |-> FALSE], [t \in {1} |-> "node"],
                  [t \in {1} |-> "keep"], [t \in {1} |-> -1]>>
  OBVIOUS
<1> QED
  BY <1>1, <1>2, <1>3, <1>4, <1>5, <1>6, <1>7 DEF W!RecvReset, W!RecvFault

LEMMA DeathIsOverrun ==
    ASSUME proc = "up", proc' = "down", SeenAs' = SeenAs, InRecv' <=> InRecv,
           UNCHANGED <<peer, status>>, SeenAs # "off"
    PROVE  W!Overrun(1)
<1>1. W!Die
  BY DEF W!Die
<1>2. UNCHANGED W!objects
  BY DEF W!objects
<1>3. UNCHANGED W!threads
  BY DEF W!threads
<1>4. UNCHANGED <<[f \in {3} |-> 1], [c \in {1} |-> peer]>>
  OBVIOUS
<1>5. [t \in {1} |-> SeenAs][1] # "off"
  OBVIOUS
<1> QED
  BY <1>1, <1>2, <1>3, <1>4, <1>5 DEF W!Overrun

LEMMA ClientIsClient ==
    ASSUME proc = "up", UNCHANGED <<proc, loc, status>>, SeenAs' = SeenAs,
           InRecv' <=> InRecv, SeenAs # "off",
           \/ peer = "open" /\ peer' = "eof"
           \/ peer # "reset" /\ peer' = "reset"
    PROVE  W!ClientClose(1) \/ W!ClientAbort(1)
<1>1. [t \in {1} |-> SeenAs][1] # "off" /\ [c \in {1} |-> peer][1] = peer
  OBVIOUS
<1>2. [c \in {1} |-> peer]' = [[c \in {1} |-> peer] EXCEPT ![1] = peer']
  OBVIOUS
<1>3. UNCHANGED [f \in {3} |-> 1]
  OBVIOUS
<1>4. UNCHANGED W!objects
  BY DEF W!objects
<1>5. UNCHANGED W!threads
  BY DEF W!threads
<1> QED
  BY <1>1, <1>2, <1>3, <1>4, <1>5 DEF W!ClientClose, W!ClientAbort

LEMMA UnseenSteps ==
    ASSUME SeenAs' = SeenAs, InRecv' <=> InRecv, UNCHANGED <<proc, peer, status>>
    PROVE  UNCHANGED <<W!kernel, W!objects, W!threads>>
<1>1. UNCHANGED W!kernel
  BY DEF W!kernel
<1>2. UNCHANGED W!objects
  BY DEF W!objects
<1>3. UNCHANGED W!threads
  BY DEF W!threads
<1> QED
  BY <1>1, <1>2, <1>3

\* Every step is one of Worker's, or none of it.
LEMMA FetchStep ==
    ASSUME IInv, IInv', [Next]_vars
    PROVE  [Again \/ AsWorker(1)]_<<W!kernel, W!objects, W!threads>>
<1>0. /\ TypeOK /\ TypeOK' /\ K > 0
      /\ RoomForRecv /\ Accounted /\ RoomForRecv' /\ Accounted'
  BY DEF IInv
<1>00. Seen /\ Seen'
  BY <1>0, SeenLocations
<1> SUFFICES ASSUME ~Again
             PROVE  AsWorker(1) \/ UNCHANGED <<W!kernel, W!objects, W!threads>>
  OBVIOUS
<1> USE DEF At
<1>1. CASE Start
  <2>1. /\ loc = "start" /\ loc' = "recv" /\ status = "Connected"
        /\ proc = "up" /\ UNCHANGED <<proc, peer, status>>
    BY <1>0, <1>1 DEF Start, Accounted, stream
  <2> QED
    BY <1>0, <1>00, <2>1, AskingIsFetch DEF Seen, AsWorker
<1>2. CASE RecvBytes
  <2>1. /\ loc = "recv" /\ loc' = "check" /\ status = "Connected" /\ peer # "reset"
        /\ proc = "up" /\ UNCHANGED <<proc, peer, status>>
    BY <1>2 DEF RecvBytes, Receiving, stream
  <2> QED
    BY <1>0, <1>00, <2>1, BytesAreRecvData DEF Seen, AsWorker
<1>3. CASE RecvNothing
  <2>1. /\ loc = "recv" /\ loc' = "check" /\ status = "Connected" /\ peer # "open"
        /\ len' # K /\ proc = "up" /\ UNCHANGED <<proc, peer, status>>
    BY <1>0, <1>3 DEF RecvNothing, Receiving, stream
  <2> QED
    BY <1>0, <1>00, <2>1, EndIsRecvEof DEF Seen, AsWorker
<1>4. CASE RecvReset \/ RecvFault
  <2>1. /\ loc = "recv" /\ loc' = "check" /\ status = "Connected"
        /\ status' = "Error" /\ len' = K /\ proc = "up" /\ UNCHANGED <<proc, peer>>
    BY <1>0, <1>4 DEF RecvReset, RecvFault, Receiving, stream, RoomForRecv
  <2> QED
    BY <1>0, <1>00, <2>1, FailureIsRecvError DEF Seen, AsWorker
<1>5. CASE NoMemory \/ Collapse
  <2>1. /\ proc = "up" /\ proc' = "down"
        /\ UNCHANGED <<peer, status, loc, len>>
    BY <1>5 DEF NoMemory, Collapse, stream, fetch
  <2>2. SeenAs' = SeenAs /\ (InRecv' <=> InRecv) /\ SeenAs # "off"
    BY <1>0, <1>00, <2>1 DEF Seen, TypeOK
  <2> QED
    BY <2>1, <2>2, DeathIsOverrun DEF AsWorker
<1>6. CASE RecvRefused
  <2>1. /\ loc = "recv" /\ loc' = "check" /\ status = "Error" /\ len' = K
        /\ UNCHANGED <<proc, peer, status>>
    BY <1>0, <1>6 DEF RecvRefused, stream, RoomForRecv, TypeOK
  <2> QED
    BY <1>0, <1>00, <2>1, UnseenSteps DEF Seen
<1>7. CASE Grow
  <2>1. /\ loc = "check" /\ loc' = "recv" /\ len = K
        /\ proc = "up" /\ UNCHANGED <<proc, peer, status>>
    BY <1>7 DEF Grow, Full, stream
  <2>2. CASE status = "Connected"
    BY <1>0, <1>00, <2>1, <2>2, AskingIsFetch DEF Seen, AsWorker
  <2>3. CASE status = "Error"
    BY <1>0, <1>00, <2>1, <2>3, UnseenSteps DEF Seen
  <2> QED
    BY <1>0, <2>2, <2>3 DEF TypeOK
<1>8. CASE Return
  <2>1. /\ loc = "check" /\ loc' = "returned" /\ len # K
        /\ UNCHANGED <<proc, peer, status>>
    BY <1>8 DEF Return, Full, stream
  <2> QED
    BY <1>0, <1>00, <2>1, UnseenSteps DEF Seen
<1>9. CASE ClientSend \/ ClientClose \/ ClientAbort
  <2>1. /\ proc = "up" /\ UNCHANGED <<proc, loc, status, len>>
        /\ \/ UNCHANGED peer
           \/ peer = "open" /\ peer' = "eof"
           \/ peer # "reset" /\ peer' = "reset"
    BY <1>9 DEF ClientSend, ClientClose, ClientAbort
  <2>2. SeenAs' = SeenAs /\ (InRecv' <=> InRecv) /\ SeenAs # "off"
    BY <1>0, <1>00, <2>1 DEF Seen, TypeOK
  <2> QED
    BY <2>1, <2>2, ClientIsClient, UnseenSteps DEF AsWorker
<1>10. CASE UNCHANGED vars
  <2>1. UNCHANGED <<proc, peer, loc, status, len>>
    BY <1>10 DEF vars, stream
  <2>2. SeenAs' = SeenAs /\ (InRecv' <=> InRecv)
    BY <1>0, <1>00, <2>1 DEF Seen, TypeOK
  <2> QED
    BY <2>1, <2>2, UnseenSteps
<1> QED
  BY <1>1, <1>2, <1>3, <1>4, <1>5, <1>6, <1>7, <1>8, <1>9, <1>10 DEF Next, ThreadStep

\* The fetch of Worker, with its free choices of how much arrives, is what
\* FetchData does with the bytes, whatever the sizes of the buffer and of the
\* memory (worker.cpp:21-41).
THEOREM FetchImplementsWorker == Spec => FetchesAsWorker
<1>1. IInv /\ IInv' /\ [Next]_vars =>
        [Again \/ AsWorker(1)]_<<W!kernel, W!objects, W!threads>>
  BY FetchStep
<1> QED
  BY <1>1, FetchInvariance, PTL DEF Spec, FetchesAsWorker
=============================================================================
