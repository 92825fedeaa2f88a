--------------------------- MODULE ProcessProofs ----------------------------
(***************************************************************************)
(* Proofs that the logger loses no part of a message, that exit() destroys *)
(* a singleton after those that read it, and that the threads never wait   *)
(* for each other in a circle.                                             *)
(***************************************************************************)
EXTENDS Process, FiniteSetTheorems, TLAPS

-----------------------------------------------------------------------------
(* The logger. Whoever inserts holds the mutex since it looked for the end *)
(* of the stream, so that what it looked up is still the end.              *)

PartsOf(t) == {i \in DOMAIN log : log[i] = t}

LogTypes ==
    /\ log \in Seq(Threads)
    /\ pos \in [Threads -> Nat]
    /\ part \in [Threads -> Nat]
    /\ said \in [Threads -> Nat]
    /\ holder \in Threads \cup {NoThread}

HolderKnowsTheEnd ==
    \A t \in Threads :
        /\ pos[t] > 0 <=> holder = t
        /\ pos[t] > 0 => pos[t] = Len(log) + 1

LogInv == LogTypes /\ HolderKnowsTheEnd /\ LogKeepsEveryPart

LEMMA NoThreadIsNone == NoThread \notin Threads
BY WorkersAssumption DEF NoThread, Threads, Main

LEMMA PartsAreFinite ==
    ASSUME LogTypes, NEW t \in Threads
    PROVE  IsFiniteSet(PartsOf(t))
<1>1. PartsOf(t) \in SUBSET (1 .. Len(log))
  BY DEF PartsOf, LogTypes
<1>2. IsFiniteSet(1 .. Len(log))
  <2>1. Len(log) \in Int
    BY DEF LogTypes
  <2> QED
    BY <2>1, FS_Interval
<1> QED
  BY <1>1, <1>2, FS_Subset

LEMMA LogInvInit == Init => LogInv
<1> SUFFICES ASSUME Init PROVE LogInv
  OBVIOUS
<1>1. LogTypes
  BY DEF Init, LogTypes
<1>2. HolderKnowsTheEnd
  BY NoThreadIsNone DEF Init, HolderKnowsTheEnd
<1>3. ASSUME NEW t \in Threads
      PROVE  said[t] = Cardinality({i \in DOMAIN log : log[i] = t})
  <2>1. {i \in DOMAIN log : log[i] = t} = {}
    BY DEF Init
  <2> QED
    BY <2>1, FS_EmptySet DEF Init
<1> QED
  BY <1>1, <1>2, <1>3 DEF LogInv, LogKeepsEveryPart

LEMMA BeginInsertKeepsLog ==
    ASSUME LogInv, NEW t \in Threads, BeginInsert(t)
    PROVE  LogInv'
<1> USE DEF LogInv
<1>1. LogTypes'
  BY DEF LogTypes, BeginInsert
<1>2. HolderKnowsTheEnd'
  BY NoThreadIsNone DEF LogTypes, HolderKnowsTheEnd, BeginInsert, MutexFree
<1>3. LogKeepsEveryPart'
  BY DEF LogKeepsEveryPart, BeginInsert
<1> QED
  BY <1>1, <1>2, <1>3

\* The part goes to the end of the stream: nothing is written over.
LEMMA EndInsertAppends ==
    ASSUME LogInv, NEW t \in Threads, EndInsert(t)
    PROVE  /\ log' = Append(log, t)
           /\ \A u \in Threads : u # t => pos[u] = 0
<1>1. pos[t] = Len(log) + 1 /\ holder = t
  BY DEF LogInv, HolderKnowsTheEnd, EndInsert
<1>2. SubSeq(log, 1, pos[t] - 1) = log
  BY <1>1 DEF LogInv, LogTypes
<1>3. \A u \in Threads : u # t => pos[u] = 0
  BY <1>1 DEF LogInv, LogTypes, HolderKnowsTheEnd
<1> QED
  BY <1>2, <1>3 DEF EndInsert

LEMMA EndInsertKeepsLog ==
    ASSUME LogInv, NEW t \in Threads, EndInsert(t)
    PROVE  LogInv'
<1>1. log' = Append(log, t) /\ \A u \in Threads : u # t => pos[u] = 0
  BY EndInsertAppends
<1>2. LogTypes'
  <2>1. log' \in Seq(Threads)
    BY <1>1 DEF LogInv, LogTypes
  <2>2. /\ pos' \in [Threads -> Nat]
        /\ said' \in [Threads -> Nat]
        /\ holder' \in Threads \cup {NoThread}
    BY DEF LogInv, LogTypes, EndInsert
  <2>3. part' \in [Threads -> Nat]
    <3>1. \/ part' = [part EXCEPT ![t] = 0]
          \/ part' = [part EXCEPT ![t] = @ + 1]
      BY Zenon DEF EndInsert
    <3>2. part \in [Threads -> Nat] /\ part[t] + 1 \in Nat
      BY DEF LogInv, LogTypes
    <3>3. ASSUME NEW n \in Nat
          PROVE  [part EXCEPT ![t] = n] \in [Threads -> Nat]
      BY <3>2
    <3> QED
      BY <3>1, <3>2, <3>3
  <2> QED
    BY <2>1, <2>2, <2>3 DEF LogTypes
<1>3. HolderKnowsTheEnd'
  <2>1. \A u \in Threads : pos'[u] = 0 /\ holder' # u
    BY <1>1, NoThreadIsNone DEF LogInv, LogTypes, EndInsert
  <2> QED
    BY <2>1 DEF HolderKnowsTheEnd
<1>4. ASSUME NEW u \in Threads
      PROVE  said'[u] = Cardinality(PartsOf(u)')
  <2>1. said[u] = Cardinality(PartsOf(u)) /\ IsFiniteSet(PartsOf(u))
    BY PartsAreFinite DEF LogInv, LogKeepsEveryPart, PartsOf
  <2>2. CASE u = t
    <3>1. PartsOf(u)' = PartsOf(u) \cup {Len(log) + 1}
      <4>1. /\ DOMAIN log' = DOMAIN log \cup {Len(log) + 1}
            /\ \A i \in DOMAIN log : log'[i] = log[i]
            /\ log'[Len(log) + 1] = t
        <5>1. log \in Seq(Threads)
          BY DEF LogInv, LogTypes
        <5>2. /\ Len(log') = Len(log) + 1
              /\ \A i \in 1 .. Len(log) : log'[i] = log[i]
              /\ log'[Len(log) + 1] = t
          BY <1>1, <5>1
        <5>3. log' \in Seq(Threads)
          BY <1>1, <5>1
        <5> QED
          BY <5>1, <5>2, <5>3
      <4> QED
        BY <4>1, <2>2 DEF PartsOf
    <3>2. Len(log) + 1 \notin PartsOf(u)
      BY DEF PartsOf, LogInv, LogTypes
    <3>3. Cardinality(PartsOf(u) \cup {Len(log) + 1}) = Cardinality(PartsOf(u)) + 1
      BY <2>1, <3>2, FS_AddElement
    <3>4. said'[u] = said[u] + 1
      BY <2>2 DEF EndInsert, LogInv, LogTypes
    <3> QED
      BY <2>1, <3>1, <3>3, <3>4
  <2>3. CASE u # t
    <3>1. PartsOf(u)' = PartsOf(u)
      BY <1>1, <2>3 DEF PartsOf, LogInv, LogTypes
    <3>2. said'[u] = said[u]
      BY <2>3 DEF EndInsert, LogInv, LogTypes
    <3> QED
      BY <2>1, <3>1, <3>2
  <2> QED
    BY <2>2, <2>3
<1> QED
  BY <1>2, <1>3, <1>4 DEF LogInv, LogKeepsEveryPart, PartsOf

LEMMA LogInvNext == LogInv /\ [Next]_vars => LogInv'
<1> SUFFICES ASSUME LogInv, [Next]_vars PROVE LogInv'
  OBVIOUS
<1>1. ASSUME UNCHANGED logging
      PROVE  LogInv'
  BY <1>1 DEF logging, LogInv, LogTypes, HolderKnowsTheEnd, LogKeepsEveryPart
<1>2. ASSUME NEW t \in Threads, ThreadStep(t)
      PROVE  LogInv'
  <2>1. CASE BeginInsert(t)
    BY <2>1, BeginInsertKeepsLog
  <2>2. CASE EndInsert(t)
    BY <2>2, EndInsertKeepsLog
  <2>3. CASE EndInstance(t) \/ SocketError(t) \/ Silent(t)
    BY <1>1, <2>3 DEF EndInstance, SocketError, Silent
  <2>4. ASSUME NEW x \in Singletons,
               BeginInstance(t, x) \/ GetInstance(t, x) \/ UseDestroyed(t, x)
        PROVE  LogInv'
    BY <1>1, <2>4 DEF BeginInstance, GetInstance, UseDestroyed
  <2> QED
    BY <1>2, <2>1, <2>2, <2>3, <2>4 DEF ThreadStep
<1>3. ASSUME NEW t \in Threads, StartWorker(t) \/ SignalHandler(t)
      PROVE  LogInv'
  BY <1>1, <1>3 DEF StartWorker, SignalHandler
<1>4. CASE DestroyLast \/ Exit
  BY <1>1, <1>4 DEF DestroyLast, Exit
<1>5. CASE UNCHANGED vars
  BY <1>1, <1>5 DEF vars
<1> QED
  BY <1>2, <1>3, <1>4, <1>5 DEF Next

\* "an implementation of thread-safe logger" (logger.h:9): with any number of
\* threads and messages, the stream holds every part that was inserted.
THEOREM StreamIsWhole == Spec => []LogKeepsEveryPart
<1>1. Spec => []LogInv
  BY LogInvInit, LogInvNext, PTL DEF Spec
<1>2. LogInv => LogKeepsEveryPart
  BY DEF LogInv
<1> QED
  BY <1>1, <1>2, PTL

-----------------------------------------------------------------------------
(* The stacks of the threads: above the program of the thread, frames of   *)
(* constructors, each asked for by the one below, and no two of the same   *)
(* singleton. A constructor that is past its first instruction has the     *)
(* ConfigReader, if it reads it.                                           *)

Frames == [run : Singletons \cup Threads, at : Nat \ {0}]
Readers == {"Core", "Router"}
Needs(f) == IF Ended(f) THEN "none" ELSE Program(f)[f.at]

StackOK(s, g) ==
    /\ s \in Seq(Frames)
    /\ s # <<>> => s[1].run \notin Singletons
    /\ \A i \in 2 .. Len(s) :
         s[i].run \in Singletons /\ g[s[i].run] = "active" /\ Needs(s[i - 1]) = s[i].run
    /\ \A i \in 1 .. Len(s) :
         s[i].run \in Readers /\ s[i].at > 1 => g["ConfigReader"] = "done"

OneConstructorEach ==
    \A t, u \in Threads : \A i \in 2 .. Len(stack[t]), j \in 2 .. Len(stack[u]) :
        stack[t][i].run = stack[u][j].run => t = u /\ i = j

StackInv ==
    /\ DOMAIN stack = Threads
    /\ flag \in [Singletons -> {"new", "active", "done"}]
    /\ \A t \in Threads : StackOK(stack[t], flag)
    /\ OneConstructorEach
    /\ DOMAIN pos = Threads
    /\ \A t \in Threads : pos[t] # 0 => stack[t] # <<>> /\ Instruction(t) = "log"

LEMMA SingletonsAreNoThreads == Singletons \cap Threads = {}
BY WorkersAssumption DEF Singletons, Threads, Main

\* What the last frame asks for, and what a reader asks for first.
LEMMA LastNeeds ==
    ASSUME NEW t, stack[t] \in Seq(Frames), stack[t] # <<>>
    PROVE  Instruction(t) = Needs(stack[t][Len(stack[t])])
BY DEF Instruction, Needs, Last

LEMMA ReadersAskFirst ==
    ASSUME NEW f \in Frames, f.run \in Readers
    PROVE  /\ f.at = 1 => Needs(f) = "ConfigReader"
           /\ Ended(f) => f.at > 1
<1>1. f.run = "Core" \/ f.run = "Router"
  BY DEF Readers
<1>2. f.at \in Nat \ {0} /\ f.run \in Singletons
  BY <1>1 DEF Frames, Singletons
<1>3. Program(f) = Body[f.run]
  BY <1>2 DEF Program
<1>4. Len(Program(f)) >= 1 /\ Program(f)[1] = "ConfigReader" /\ Len(Program(f)) \in Nat
  BY <1>1, <1>3 DEF Body
<1> QED
  BY <1>2, <1>4 DEF Needs, Ended

\* The next instruction: only the last frame changes, and in it only the
\* place.
LEMMA AdvancedStack ==
    ASSUME NEW t, NEW s \in Seq(Frames), s # <<>>
    PROVE  /\ Advanced(t, s) \in Seq(Frames)
           /\ Len(Advanced(t, s)) = Len(s)
           /\ \A i \in 1 .. Len(s) : Advanced(t, s)[i].run = s[i].run
           /\ \A i \in 1 .. Len(s) - 1 : Advanced(t, s)[i] = s[i]
<1> DEFINE f == [Last(s) EXCEPT !.at = @ + 1]
           g == IF Ended(f) /\ f.run \notin Singletons
                THEN [f EXCEPT !.at = Start(t)] ELSE f
<1>1. Last(s) \in Frames /\ Last(s) = s[Len(s)] /\ Len(s) \in Nat \ {0}
  BY DEF Last
<1>2. f \in Frames /\ f.run = Last(s).run
  BY <1>1 DEF Frames
<1>3. g \in Frames /\ g.run = Last(s).run
  <2>1. [f EXCEPT !.at = Start(t)] \in Frames /\ [f EXCEPT !.at = Start(t)].run = f.run
    <3>1. Start(t) \in Nat \ {0}
      BY DEF Start
    <3> HIDE DEF f
    <3> QED
      BY <1>2, <3>1 DEF Frames
  <2> QED
    BY <1>2, <2>1
<1>4. Advanced(t, s) = Front(s) \o <<g>>
  BY DEF Advanced
<1>5. /\ Front(s) \in Seq(Frames)
      /\ Len(Front(s)) = Len(s) - 1
      /\ \A i \in 1 .. Len(s) - 1 : Front(s)[i] = s[i]
  BY <1>1 DEF Front
<1> HIDE DEF g
<1>6. <<g>> \in Seq(Frames) /\ Len(<<g>>) = 1 /\ <<g>>[1] = g
  BY <1>3
<1>7. /\ Front(s) \o <<g>> \in Seq(Frames)
      /\ Len(Front(s) \o <<g>>) = Len(s)
      /\ \A i \in 1 .. Len(s) - 1 : (Front(s) \o <<g>>)[i] = Front(s)[i]
      /\ (Front(s) \o <<g>>)[Len(s)] = g
  <2> HIDE DEF f
  <2>1. Len(s) \in Nat /\ Front(s) \in Seq(Frames) /\ Len(Front(s)) + 1 = Len(s)
    BY <1>1, <1>5
  <2> DEFINE F == Front(s)
  <2> HIDE DEF F
  <2>2. F \in Seq(Frames) /\ Len(F) + 1 = Len(s)
    BY <2>1 DEF F
  <2>3. /\ F \o <<g>> \in Seq(Frames)
        /\ Len(F \o <<g>>) = Len(F) + 1
        /\ \A i \in 1 .. Len(F) : (F \o <<g>>)[i] = F[i]
        /\ (F \o <<g>>)[Len(F) + 1] = g
    BY <1>3, <2>2
  <2>4. Len(s) - 1 = Len(F)
    BY <2>1, <2>2
  <2> QED
    BY <2>2, <2>3, <2>4 DEF F
<1>8. \A i \in 1 .. Len(s) : i = Len(s) \/ i \in 1 .. Len(s) - 1
  BY <1>1
<1> QED
  BY <1>1, <1>3, <1>4, <1>5, <1>7, <1>8

\* A thread goes on in its last constructor, or in its program.
LEMMA AdvanceIsOK ==
    ASSUME NEW g, NEW h, NEW t, NEW s \in Seq(Frames), s # <<>>,
           \A i \in 2 .. Len(s) : h[s[i].run] = g[s[i].run],
           g["ConfigReader"] = "done" => h["ConfigReader"] = "done",
           StackOK(s, g),
           Needs(s[Len(s)]) = "ConfigReader" => h["ConfigReader"] = "done"
    PROVE  StackOK(Advanced(t, s), h)
<1> DEFINE a == Advanced(t, s)
<1>1. /\ a \in Seq(Frames)
      /\ Len(a) = Len(s)
      /\ \A i \in 1 .. Len(s) : a[i].run = s[i].run
      /\ \A i \in 1 .. Len(s) - 1 : a[i] = s[i]
  BY AdvancedStack
<1> HIDE DEF a
<1>2. Len(s) \in Nat \ {0}
  OBVIOUS
<1>3. a[1].run \notin Singletons
  BY <1>1, <1>2 DEF StackOK
<1>4. ASSUME NEW i \in 2 .. Len(a)
      PROVE  a[i].run \in Singletons /\ h[a[i].run] = "active" /\ Needs(a[i - 1]) = a[i].run
  <2>1. i \in 2 .. Len(s) /\ i \in 1 .. Len(s) /\ i - 1 \in 1 .. Len(s) - 1
    BY <1>1, <1>2
  <2> QED
    BY <1>1, <2>1 DEF StackOK
<1>5. ASSUME NEW i \in 1 .. Len(a), a[i].run \in Readers, a[i].at > 1
      PROVE  h["ConfigReader"] = "done"
  <2>1. CASE i \in 1 .. Len(s) - 1
    BY <1>1, <1>5, <2>1, <1>2 DEF StackOK
  <2>2. CASE i = Len(s)
    <3>1. s[i] \in Frames /\ s[i].run \in Readers
      BY <1>1, <1>2, <1>5, <2>2
    <3>2. s[i].at \in Nat /\ (s[i].at = 1 \/ s[i].at > 1)
      BY <3>1 DEF Frames
    <3>3. CASE s[i].at = 1
      BY <2>2, <3>1, <3>3, ReadersAskFirst
    <3>4. CASE s[i].at > 1
      BY <1>1, <1>2, <2>2, <3>1, <3>4 DEF StackOK
    <3> QED
      BY <3>2, <3>3, <3>4
  <2> QED
    BY <1>1, <1>2, <1>5, <2>1, <2>2
<1> QED
  BY <1>1, <1>3, <1>4, <1>5 DEF StackOK, a

LEMMA AdvanceKeepsStacks ==
    ASSUME StackInv, NEW t \in Threads, stack[t] # <<>>,
           Instruction(t) = "ConfigReader" => flag["ConfigReader"] = "done",
           Advance(t), flag' = flag,
           DOMAIN pos' = Threads, pos'[t] = 0,
           \A u \in Threads : u # t => pos'[u] = pos[u]
    PROVE  StackInv'
<1> DEFINE a == Advanced(t, stack[t])
<1>1. /\ DOMAIN stack' = Threads
      /\ stack'[t] = a
      /\ \A u \in Threads : u # t => stack'[u] = stack[u]
  BY DEF StackInv, Advance
<1>2. stack[t] \in Seq(Frames) /\ StackOK(stack[t], flag)
  BY DEF StackInv, StackOK
<1>3. /\ Len(a) = Len(stack[t])
      /\ \A i \in 1 .. Len(stack[t]) : a[i].run = stack[t][i].run
  BY <1>2, AdvancedStack
<1>4. StackOK(a, flag)
  BY <1>2, LastNeeds, AdvanceIsOK
<1> HIDE DEF a
<1>5. \A u \in Threads :
        /\ Len(stack'[u]) = Len(stack[u])
        /\ \A i \in 2 .. Len(stack[u]) : stack'[u][i].run = stack[u][i].run
  BY <1>1, <1>2, <1>3
<1>6. OneConstructorEach'
  BY <1>5 DEF StackInv, OneConstructorEach
<1>7. \A u \in Threads : StackOK(stack'[u], flag')
  BY <1>1, <1>4 DEF StackInv
<1>8. ASSUME NEW u \in Threads, pos'[u] # 0
      PROVE  stack'[u] # <<>> /\ Instruction(u)' = "log"
  BY <1>1, <1>8 DEF StackInv, Instruction
<1> QED
  BY <1>1, <1>6, <1>7, <1>8 DEF StackInv

LEMMA StackInvInit == Init => StackInv
<1> SUFFICES ASSUME Init PROVE StackInv
  OBVIOUS
<1>1. \A t \in Threads : Len(stack[t]) \in {0, 1} /\ pos[t] = 0
  BY DEF Init
<1>2. ASSUME NEW t \in Threads
      PROVE  StackOK(stack[t], flag)
  <2>1. CASE t = Main
    <3>1. [run |-> Main, at |-> 1] \in Frames
      BY <2>1 DEF Frames
    <3>2. stack[t] = <<[run |-> Main, at |-> 1]>>
      BY <2>1 DEF Init
    <3>3. Main \notin Singletons /\ Main \notin Readers
      BY DEF Main, Singletons, Readers
    <3>4. stack[t] \in Seq(Frames) /\ Len(stack[t]) = 1 /\ stack[t][1].run = Main
      BY <3>1, <3>2
    <3> QED
      BY <3>3, <3>4 DEF StackOK
  <2>2. CASE t # Main
    BY <2>2 DEF Init, StackOK
  <2> QED
    BY <2>1, <2>2
<1>3. OneConstructorEach
  BY <1>1 DEF OneConstructorEach
<1> QED
  BY <1>1, <1>2, <1>3 DEF Init, StackInv

\* The first to come puts a frame on its stack, and the others find the flag.
LEMMA BeginInstanceKeepsStacks ==
    ASSUME StackInv, NEW t \in Threads, NEW x \in Singletons, BeginInstance(t, x)
    PROVE  StackInv'
<1> DEFINE s == stack[t]
           a == Append(s, [run |-> x, at |-> 1])
<1>1. /\ s \in Seq(Frames) /\ s # <<>> /\ StackOK(s, flag)
      /\ Instruction(t) = x /\ flag[x] = "new"
  BY DEF StackInv, StackOK, BeginInstance, Runs
<1>2. /\ DOMAIN stack' = Threads
      /\ stack'[t] = a
      /\ \A u \in Threads : u # t => stack'[u] = stack[u]
      /\ pos' = pos
  BY DEF StackInv, BeginInstance, logging
<1>3. /\ flag' \in [Singletons -> {"new", "active", "done"}]
      /\ flag'[x] = "active"
      /\ \A y \in Singletons : y # x => flag'[y] = flag[y]
  BY DEF StackInv, BeginInstance
<1>4. "ConfigReader" \in Singletons
  BY DEF Singletons
<1>5. [run |-> x, at |-> 1] \in Frames
  BY DEF Frames
<1> HIDE DEF s
<1>6. /\ a \in Seq(Frames)
      /\ Len(a) = Len(s) + 1 /\ Len(s) \in Nat \ {0}
      /\ \A i \in 1 .. Len(s) : a[i] = s[i]
      /\ a[Len(s) + 1] = [run |-> x, at |-> 1]
  BY <1>1, <1>5
<1> HIDE DEF a
<1>7. ASSUME NEW r, StackOK(r, flag)
      PROVE  /\ StackOK(r, flag')
             /\ \A i \in 2 .. Len(r) : r[i].run # x
  BY <1>1, <1>3, <1>4, <1>7 DEF StackOK
<1>8. StackOK(a, flag')
  <2>1. StackOK(s, flag')
    BY <1>1, <1>7
  <2>2. a[1].run \notin Singletons
    BY <1>1, <1>6 DEF StackOK
  <2>3. ASSUME NEW i \in 2 .. Len(a)
        PROVE  a[i].run \in Singletons /\ flag'[a[i].run] = "active" /\ Needs(a[i - 1]) = a[i].run
    <3>1. CASE i \in 2 .. Len(s)
      <4>1. a[i] = s[i] /\ a[i - 1] = s[i - 1]
        BY <1>6, <3>1
      <4> QED
        BY <2>1, <3>1, <4>1 DEF StackOK
    <3>2. CASE i = Len(s) + 1
      <4>1. a[i].run = x /\ a[i - 1] = s[Len(s)]
        BY <1>6, <3>2
      <4>2. Needs(s[Len(s)]) = x
        BY <1>1, LastNeeds DEF s
      <4> QED
        BY <1>3, <4>1, <4>2
    <3> QED
      BY <1>6, <3>1, <3>2
  <2>4. ASSUME NEW i \in 1 .. Len(a), a[i].run \in Readers, a[i].at > 1
        PROVE  flag'["ConfigReader"] = "done"
    <3>1. CASE i \in 1 .. Len(s)
      BY <1>6, <2>1, <2>4, <3>1 DEF StackOK
    <3>2. CASE i = Len(s) + 1
      BY <1>6, <2>4, <3>2
    <3> QED
      BY <1>6, <3>1, <3>2
  <2> QED
    BY <1>6, <2>2, <2>3, <2>4 DEF StackOK
<1>9. \A u \in Threads : StackOK(stack'[u], flag')
  BY <1>2, <1>7, <1>8 DEF StackInv
<1>10. OneConstructorEach'
  <2> SUFFICES ASSUME NEW u \in Threads, NEW v \in Threads,
                      NEW i \in 2 .. Len(stack'[u]), NEW j \in 2 .. Len(stack'[v]),
                      stack'[u][i].run = stack'[v][j].run
               PROVE  u = v /\ i = j
    BY DEF OneConstructorEach
  <2>1. ASSUME NEW w \in Threads, NEW k \in 2 .. Len(stack'[w])
        PROVE  \/ k \in 2 .. Len(stack[w]) /\ stack'[w][k] = stack[w][k] /\ stack[w][k].run # x
               \/ w = t /\ k = Len(s) + 1 /\ stack'[w][k].run = x
    <3>1. CASE w = t
      <4>1. k \in 2 .. Len(s) \/ k = Len(s) + 1
        BY <1>2, <1>6, <2>1, <3>1
      <4>2. CASE k \in 2 .. Len(s)
        <5>1. a[k] = s[k] /\ s[k].run # x
          BY <1>1, <1>6, <1>7, <4>2
        <5> QED
          BY <1>2, <3>1, <4>2, <5>1 DEF s
      <4>3. CASE k = Len(s) + 1
        BY <1>2, <1>6, <3>1, <4>3
      <4> QED
        BY <4>1, <4>2, <4>3
    <3>2. CASE w # t
      BY <1>2, <1>7, <2>1, <3>2 DEF StackInv
    <3> QED
      BY <3>1, <3>2
  <2>2. \/ i \in 2 .. Len(stack[u]) /\ stack'[u][i] = stack[u][i] /\ stack[u][i].run # x
        \/ u = t /\ i = Len(s) + 1 /\ stack'[u][i].run = x
    BY <2>1
  <2>3. \/ j \in 2 .. Len(stack[v]) /\ stack'[v][j] = stack[v][j] /\ stack[v][j].run # x
        \/ v = t /\ j = Len(s) + 1 /\ stack'[v][j].run = x
    BY <2>1
  <2> QED
    BY <2>2, <2>3 DEF StackInv, OneConstructorEach
<1>11. ASSUME NEW u \in Threads, pos'[u] # 0
       PROVE  stack'[u] # <<>> /\ Instruction(u)' = "log"
  <2>1. pos[u] # 0 /\ Instruction(u) = "log" /\ stack[u] # <<>>
    BY <1>2, <1>11 DEF StackInv
  <2>2. x # "log"
    BY DEF Singletons
  <2>3. u # t
    BY <1>1, <2>1, <2>2
  <2> QED
    BY <1>2, <2>1, <2>3 DEF Instruction
<1> QED
  BY <1>2, <1>3, <1>9, <1>10, <1>11 DEF StackInv

\* The constructor ends: its frame goes, and the one below goes on.
LEMMA EndInstanceKeepsStacks ==
    ASSUME StackInv, NEW t \in Threads, EndInstance(t)
    PROVE  StackInv'
<1> DEFINE s == stack[t]
           n == Len(s)
           x == s[n].run
           F == Front(s)
           a == Advanced(t, F)
<1>1. /\ s \in Seq(Frames) /\ s # <<>> /\ StackOK(s, flag)
      /\ Last(s) = s[n] /\ x \in Singletons /\ Ended(s[n])
  BY DEF StackInv, StackOK, EndInstance, Runs, Last
<1>2. /\ DOMAIN stack' = Threads
      /\ stack'[t] = a
      /\ \A u \in Threads : u # t => stack'[u] = stack[u]
      /\ pos' = pos
  BY DEF StackInv, EndInstance, logging
<1>3. /\ flag' \in [Singletons -> {"new", "active", "done"}]
      /\ flag'[x] = "done"
      /\ \A y \in Singletons : y # x => flag'[y] = flag[y]
  BY <1>1 DEF StackInv, EndInstance
<1>4. Instruction(t) = "none"
  BY <1>1 DEF Instruction
<1>5. n \in Nat \ {0} /\ n >= 2
  BY <1>1 DEF StackOK
<1>6. /\ F \in Seq(Frames)
      /\ Len(F) = n - 1
      /\ \A i \in 1 .. n - 1 : F[i] = s[i]
  BY <1>1, <1>5 DEF Front
<1>7. \A u \in Threads : \A i \in 2 .. Len(stack[u]) : stack[u][i].run = x => u = t /\ i = n
  <2>1. n \in 2 .. Len(stack[t])
    BY <1>5
  <2> QED
    BY <2>1 DEF StackInv, OneConstructorEach
<1>8. flag["ConfigReader"] = "done" => flag'["ConfigReader"] = "done"
  <2>1. "ConfigReader" \in Singletons
    BY DEF Singletons
  <2> QED
    BY <1>3, <2>1
<1> HIDE DEF F, n, x
<1>9. StackOK(a, flag')
  <2>1. F # <<>> /\ F[Len(F)] = s[n - 1]
    BY <1>5, <1>6
  <2>2. StackOK(F, flag)
    <3>1. \A i \in 1 .. Len(F) : i \in 1 .. n /\ F[i] = s[i]
      BY <1>5, <1>6
    <3>2. \A i \in 2 .. Len(F) : i \in 2 .. n /\ F[i] = s[i] /\ F[i - 1] = s[i - 1]
      BY <1>5, <1>6
    <3>3. F[1] = s[1]
      BY <1>5, <1>6
    <3> QED
      BY <1>1, <1>6, <3>1, <3>2, <3>3 DEF StackOK, n
  <2>3. \A i \in 2 .. Len(F) : flag'[F[i].run] = flag[F[i].run]
    <3> SUFFICES ASSUME NEW i \in 2 .. Len(F)
                 PROVE  flag'[F[i].run] = flag[F[i].run]
      OBVIOUS
    <3>1. i \in 2 .. n /\ i # n /\ F[i] = s[i]
      BY <1>5, <1>6
    <3>2. s[i].run # x
      BY <1>7, <3>1 DEF n
    <3>3. s[i].run \in Singletons
      BY <1>1, <3>1 DEF StackOK, n
    <3> QED
      BY <1>3, <3>1, <3>2, <3>3
  <2>4. Needs(F[Len(F)]) = "ConfigReader" => flag'["ConfigReader"] = "done"
    <3>1. n \in 2 .. Len(s)
      BY <1>5 DEF n
    <3>2. Needs(s[n - 1]) = x
      BY <1>1, <3>1 DEF StackOK, x
    <3> QED
      BY <1>3, <2>1, <3>2
  <2> QED
    BY <1>6, <1>8, <2>1, <2>2, <2>3, <2>4, AdvanceIsOK
<1>10. ASSUME NEW u \in Threads
       PROVE  StackOK(stack'[u], flag')
  <2>1. CASE u = t
    BY <1>2, <1>9, <2>1
  <2>2. CASE u # t
    <3>1. StackOK(stack[u], flag)
      BY DEF StackInv
    <3>2. \A i \in 2 .. Len(stack[u]) : flag'[stack[u][i].run] = flag[stack[u][i].run]
      BY <1>3, <1>7, <2>2, <3>1 DEF StackOK
    <3>3. StackOK(stack[u], flag')
      BY <1>8, <3>1, <3>2 DEF StackOK
    <3> QED
      BY <1>2, <2>2, <3>3
  <2> QED
    BY <2>1, <2>2
<1>11. ASSUME NEW u \in Threads, NEW i \in 2 .. Len(stack'[u])
       PROVE  i \in 2 .. Len(stack[u]) /\ stack'[u][i].run = stack[u][i].run
  <2>1. CASE u = t
    <3>1. F # <<>>
      BY <1>5, <1>6
    <3>2. Len(a) = n - 1 /\ \A k \in 1 .. n - 1 : a[k].run = F[k].run
      BY <1>6, <3>1, AdvancedStack
    <3> HIDE DEF a
    <3>3. i \in 2 .. n /\ i \in 1 .. n - 1
      BY <1>2, <1>5, <1>11, <2>1, <3>2
    <3> QED
      BY <1>2, <1>6, <2>1, <3>2, <3>3 DEF n
  <2>2. CASE u # t
    BY <1>2, <1>11, <2>2
  <2> QED
    BY <2>1, <2>2
<1>12. OneConstructorEach'
  BY <1>11 DEF StackInv, OneConstructorEach
<1>13. ASSUME NEW u \in Threads, pos'[u] # 0
       PROVE  stack'[u] # <<>> /\ Instruction(u)' = "log"
  <2>1. pos[u] # 0 /\ Instruction(u) = "log" /\ stack[u] # <<>>
    BY <1>2, <1>13 DEF StackInv
  <2>2. u # t
    BY <1>4, <2>1
  <2> QED
    BY <1>2, <2>1, <2>2 DEF Instruction
<1> QED
  BY <1>2, <1>3, <1>10, <1>12, <1>13 DEF StackInv

LEMMA StartWorkerKeepsStacks ==
    ASSUME StackInv, NEW t \in Threads, StartWorker(t)
    PROVE  StackInv'
<1>1. PICK w \in Workers :
        /\ stack[w] = <<>>
        /\ stack' = [stack EXCEPT ![w] = <<[run |-> w, at |-> 1]>>]
  BY DEF StartWorker
<1>2. w \in Threads /\ w \notin Singletons
  BY SingletonsAreNoThreads DEF Threads
<1>3. /\ DOMAIN stack' = Threads
      /\ stack'[w] = <<[run |-> w, at |-> 1]>>
      /\ \A u \in Threads : u # w => stack'[u] = stack[u]
      /\ flag' = flag /\ pos' = pos
  BY <1>1, <1>2 DEF StackInv, StartWorker, logging
<1>4. [run |-> w, at |-> 1] \in Frames
  BY <1>2 DEF Frames
<1>5. stack'[w] \in Seq(Frames) /\ Len(stack'[w]) = 1 /\ stack'[w][1].run = w
  BY <1>3, <1>4
<1>6. StackOK(stack'[w], flag')
  <2>1. w \notin Readers
    BY <1>2 DEF Singletons, Readers
  <2> QED
    BY <1>2, <1>5, <2>1 DEF StackOK
<1>7. \A u \in Threads : StackOK(stack'[u], flag')
  BY <1>3, <1>6 DEF StackInv
<1>8. \A u \in Threads : \A i \in 2 .. Len(stack'[u]) : u # w
  <2>1. 2 .. Len(stack'[w]) = {}
    BY <1>5
  <2> QED
    BY <2>1
<1>9. OneConstructorEach'
  BY <1>3, <1>8 DEF StackInv, OneConstructorEach
<1>10. ASSUME NEW u \in Threads, pos'[u] # 0
       PROVE  stack'[u] # <<>> /\ Instruction(u)' = "log"
  <2>1. pos[u] # 0 /\ Instruction(u) = "log" /\ stack[u] # <<>>
    BY <1>3, <1>10 DEF StackInv
  <2> QED
    BY <1>1, <1>3, <2>1 DEF Instruction
<1> QED
  BY <1>3, <1>7, <1>9, <1>10 DEF StackInv

\* An insertion begins and ends in one instruction of the thread.
LEMMA InsertKeepsStacks ==
    ASSUME StackInv, LogInv, NEW t \in Threads,
           BeginInsert(t) \/ EndInsert(t) \/ Silent(t)
    PROVE  StackInv'
<1>1. stack[t] # <<>> /\ flag' = flag
  BY DEF BeginInsert, EndInsert, Silent, Runs
<1>2. CASE BeginInsert(t)
  <2>1. /\ Instruction(t) = "log" /\ stack' = stack
        /\ DOMAIN pos' = Threads
        /\ \A u \in Threads : u # t => pos'[u] = pos[u]
    BY <1>2 DEF StackInv, BeginInsert
  <2>2. \A u \in Threads : pos'[u] # 0 => stack'[u] # <<>> /\ Instruction(u)' = "log"
    BY <1>1, <2>1 DEF StackInv, Instruction
  <2> QED
    BY <1>1, <2>1, <2>2 DEF StackInv, OneConstructorEach
<1>3. CASE EndInsert(t)
  <2>1. /\ DOMAIN pos' = Threads /\ pos'[t] = 0
        /\ \A u \in Threads : u # t => pos'[u] = pos[u]
    BY <1>3 DEF StackInv, EndInsert
  <2>2. Instruction(t) = "log"
    BY <1>3 DEF StackInv, LogInv, LogTypes, EndInsert
  <2>3. CASE Advance(t)
    BY <1>1, <2>1, <2>2, <2>3, AdvanceKeepsStacks
  <2>4. CASE UNCHANGED stack
    BY <1>1, <2>1, <2>4 DEF StackInv, OneConstructorEach, Instruction
  <2>5. Advance(t) \/ UNCHANGED stack
    BY <1>3, Zenon DEF EndInsert
  <2> QED
    BY <2>3, <2>4, <2>5
<1>4. CASE Silent(t)
  <2>1. /\ pos' = pos /\ pos[t] = 0 /\ DOMAIN pos = Threads
        /\ Instruction(t) = "log" /\ Advance(t)
    BY <1>4 DEF StackInv, Silent, logging
  <2> QED
    BY <1>1, <2>1, AdvanceKeepsStacks
<1> QED
  BY <1>2, <1>3, <1>4

LEMMA StackInvNext == StackInv /\ LogInv /\ [Next]_vars => StackInv'
<1> SUFFICES ASSUME StackInv, LogInv, [Next]_vars PROVE StackInv'
  OBVIOUS
<1>1. ASSUME UNCHANGED <<stack, flag, pos>>
      PROVE  StackInv'
  BY <1>1 DEF StackInv, OneConstructorEach, Instruction
<1>2. ASSUME NEW t \in Threads, ThreadStep(t)
      PROVE  StackInv'
  <2>1. CASE BeginInsert(t) \/ EndInsert(t) \/ Silent(t)
    BY <2>1, InsertKeepsStacks
  <2>2. CASE EndInstance(t)
    BY <2>2, EndInstanceKeepsStacks
  <2>3. ASSUME NEW k, Instruction(t) = k, k = "ConfigReader" => flag[k] = "done",
               Runs(t), Advance(t), UNCHANGED <<flag, logging>>, k # "log"
        PROVE  StackInv'
    <3>1. pos' = pos /\ DOMAIN pos = Threads /\ pos[t] = 0 /\ stack[t] # <<>>
      BY <2>3 DEF StackInv, logging, Runs
    <3> QED
      BY <2>3, <3>1, AdvanceKeepsStacks
  <2>4. CASE SocketError(t)
    BY <2>3, <2>4 DEF SocketError
  <2>5. ASSUME NEW x \in Singletons, BeginInstance(t, x) \/ GetInstance(t, x) \/ UseDestroyed(t, x)
        PROVE  StackInv'
    <3>1. CASE BeginInstance(t, x)
      BY <3>1, BeginInstanceKeepsStacks
    <3>2. CASE GetInstance(t, x)
      <4>1. x # "log"
        BY DEF Singletons
      <4> QED
        BY <2>3, <3>2, <4>1 DEF GetInstance
    <3>3. CASE UseDestroyed(t, x)
      BY <1>1, <3>3 DEF UseDestroyed, logging
    <3> QED
      BY <2>5, <3>1, <3>2, <3>3
  <2> QED
    BY <1>2, <2>1, <2>2, <2>4, <2>5 DEF ThreadStep
<1>3. ASSUME NEW t \in Threads, StartWorker(t) \/ SignalHandler(t)
      PROVE  StackInv'
  BY <1>1, <1>3, StartWorkerKeepsStacks DEF SignalHandler, logging
<1>4. CASE DestroyLast \/ Exit
  BY <1>1, <1>4 DEF DestroyLast, Exit, logging
<1>5. CASE UNCHANGED vars
  BY <1>1, <1>5 DEF vars, logging
<1> QED
  BY <1>2, <1>3, <1>4, <1>5 DEF Next

-----------------------------------------------------------------------------
(* exit(). What is complete is either still to destroy or destroyed, and   *)
(* before a reader that was complete when exit() began stands the          *)
(* ConfigReader, which is destroyed after it.                              *)

BuiltInv ==
    /\ built \in Seq(Singletons)
    /\ gone \subseteq Singletons
    /\ atExit \subseteq Singletons
    /\ \A x \in Singletons :
         flag[x] = "done" <=> x \in gone \/ \E i \in 1 .. Len(built) : built[i] = x
    /\ \A i \in 1 .. Len(built) : built[i] \notin gone
    /\ \A i, j \in 1 .. Len(built) : built[i] = built[j] => i = j
    /\ exiting = NoThread => gone = {} /\ atExit = {}
    /\ \A x \in atExit : flag[x] = "done"
    /\ \A i \in 1 .. Len(built) :
         built[i] \in Readers /\ (exiting = NoThread \/ built[i] \in atExit)
         => \E j \in 1 .. i - 1 : built[j] = "ConfigReader"

LEMMA BuiltInvInit == Init => BuiltInv
BY DEF Init, BuiltInv, Singletons

LEMMA EndInstanceKeepsBuilt ==
    ASSUME StackInv, BuiltInv, NEW t \in Threads, EndInstance(t)
    PROVE  BuiltInv'
<1> DEFINE x == Last(stack[t]).run
           n == Len(stack[t])
<1>1. /\ stack[t] \in Seq(Frames) /\ stack[t] # <<>> /\ StackOK(stack[t], flag)
      /\ Last(stack[t]) = stack[t][n] /\ x \in Singletons /\ Ended(stack[t][n])
      /\ n \in Nat \ {0}
  <2>1. stack[t] \in Seq(Frames) /\ stack[t] # <<>> /\ StackOK(stack[t], flag)
    BY DEF StackInv, StackOK, EndInstance, Runs
  <2>2. Last(stack[t]) = stack[t][n]
    BY DEF Last
  <2>3. x \in Singletons /\ Ended(stack[t][n])
    BY <2>2 DEF EndInstance
  <2>4. n \in Nat \ {0}
    BY <2>1
  <2> QED
    BY <2>1, <2>2, <2>3, <2>4
<1>2. n \in 2 .. n /\ n \in 1 .. n
  BY <1>1 DEF StackOK
<1>3. flag[x] = "active"
  BY <1>1, <1>2 DEF StackOK
<1>4. /\ built' = Append(built, x)
      /\ flag' = [flag EXCEPT ![x] = "done"]
      /\ gone' = gone /\ atExit' = atExit /\ exiting' = exiting
  BY DEF EndInstance, ending
<1>5. x \in Readers => flag["ConfigReader"] = "done"
  <2> SUFFICES ASSUME x \in Readers
               PROVE  flag["ConfigReader"] = "done"
    OBVIOUS
  <2>1. stack[t][n] \in Frames /\ stack[t][n].run \in Readers
    BY <1>1, <1>2
  <2>2. stack[t][n].at > 1
    BY <1>1, <2>1, ReadersAskFirst
  <2> QED
    BY <1>1, <1>2, <2>1, <2>2 DEF StackOK
<1> HIDE DEF x, n
<1>6. /\ built' \in Seq(Singletons)
      /\ Len(built') = Len(built) + 1 /\ Len(built) \in Nat
      /\ \A i \in 1 .. Len(built) : built'[i] = built[i]
      /\ built'[Len(built) + 1] = x
  BY <1>1, <1>4 DEF BuiltInv
<1>7. x \notin gone /\ x \notin atExit /\ \A i \in 1 .. Len(built) : built[i] # x
  BY <1>1, <1>3 DEF BuiltInv
<1>8. \A i \in 1 .. Len(built') : i \in 1 .. Len(built) \/ i = Len(built) + 1
  BY <1>6
<1>9. \A y \in Singletons :
        flag'[y] = "done" <=> y \in gone' \/ \E i \in 1 .. Len(built') : built'[i] = y
  <2> SUFFICES ASSUME NEW y \in Singletons
               PROVE  flag'[y] = "done" <=> y \in gone \/ \E i \in 1 .. Len(built') : built'[i] = y
    BY <1>4
  <2>1. CASE y = x
    BY <1>1, <1>4, <1>6, <2>1 DEF StackInv
  <2>2. CASE y # x
    <3>1. flag'[y] = flag[y]
      BY <1>4, <2>2 DEF StackInv
    <3>2. (\E i \in 1 .. Len(built') : built'[i] = y) <=> \E i \in 1 .. Len(built) : built[i] = y
      BY <1>6, <1>8, <2>2
    <3> QED
      BY <3>1, <3>2 DEF BuiltInv
  <2> QED
    BY <2>1, <2>2
<1>10. \A i, j \in 1 .. Len(built') : built'[i] = built'[j] => i = j
  BY <1>6, <1>7, <1>8 DEF BuiltInv
<1>11. \A i \in 1 .. Len(built') : built'[i] \notin gone'
  BY <1>4, <1>6, <1>7, <1>8 DEF BuiltInv
<1>12. \A y \in atExit' : flag'[y] = "done"
  BY <1>4, <1>7 DEF BuiltInv, StackInv
<1>13. ASSUME NEW i \in 1 .. Len(built'), built'[i] \in Readers,
              exiting' = NoThread \/ built'[i] \in atExit'
       PROVE  \E j \in 1 .. i - 1 : built'[j] = "ConfigReader"
  <2>1. CASE i \in 1 .. Len(built)
    <3>1. PICK j \in 1 .. i - 1 : built[j] = "ConfigReader"
      BY <1>4, <1>6, <1>13, <2>1 DEF BuiltInv
    <3>2. j \in 1 .. Len(built)
      BY <1>6, <2>1
    <3> QED
      BY <1>6, <3>1, <3>2
  <2>2. CASE i = Len(built) + 1
    <3>1. x \in Readers /\ exiting = NoThread
      BY <1>4, <1>6, <1>7, <1>13, <2>2
    <3>2. "ConfigReader" \in Singletons
      BY DEF Singletons
    <3>3. PICK j \in 1 .. Len(built) : built[j] = "ConfigReader"
      BY <1>5, <3>1, <3>2 DEF BuiltInv
    <3> QED
      BY <1>6, <2>2, <3>3
  <2> QED
    BY <1>8, <2>1, <2>2
<1> QED
  BY <1>4, <1>6, <1>9, <1>10, <1>11, <1>12, <1>13 DEF BuiltInv

LEMMA DestroyLastKeepsBuilt ==
    ASSUME BuiltInv, flag' = flag, DestroyLast
    PROVE  BuiltInv'
<1> DEFINE n == Len(built)
<1>1. /\ n \in Nat \ {0} /\ Last(built) = built[n] /\ built \in Seq(Singletons)
      /\ built[n] \in Singletons
  BY DEF BuiltInv, DestroyLast, Last
<1>2. /\ built' \in Seq(Singletons)
      /\ Len(built') = n - 1
      /\ \A i \in 1 .. n - 1 : built'[i] = built[i]
  <2>1. built' = SubSeq(built, 1, n - 1)
    BY DEF DestroyLast, Front
  <2> HIDE DEF n
  <2>2. \A i \in 1 .. n - 1 : built[i] \in Singletons
    BY <1>1 DEF n
  <2>3. built' = [i \in 1 .. n - 1 |-> built[i]]
    BY <1>1, <2>1 DEF n
  <2>4. built' \in [1 .. n - 1 -> Singletons] /\ n - 1 \in Nat
    BY <1>1, <2>2, <2>3
  <2>5. built' \in Seq(Singletons)
    BY <2>4
  <2> QED
    BY <1>1, <2>3, <2>4, <2>5
<1>3. /\ gone' = gone \cup {built[n]} /\ exiting # NoThread
      /\ exiting' = exiting /\ atExit' = atExit
  BY <1>1 DEF DestroyLast
<1>4. \A i \in 1 .. n : i \in 1 .. n - 1 \/ i = n
  BY <1>1
<1>5. \A i \in 1 .. n - 1 : i \in 1 .. n /\ i # n /\ \A j \in 1 .. i - 1 : j \in 1 .. n - 1
  BY <1>1
<1>6. n \in 1 .. n
  BY <1>1
<1>7. \A i \in 1 .. Len(built') : i \in 1 .. n - 1 /\ built'[i] = built[i]
  BY <1>2
<1>8. \A y \in Singletons :
        y \in gone' \/ (\E i \in 1 .. Len(built') : built'[i] = y)
        <=> y \in gone \/ \E i \in 1 .. n : built[i] = y
  BY <1>2, <1>3, <1>4, <1>5, <1>6
<1>9. \A y \in Singletons :
        flag'[y] = "done" <=> y \in gone' \/ \E i \in 1 .. Len(built') : built'[i] = y
  BY <1>8 DEF BuiltInv
<1>10. \A i \in 1 .. Len(built') : built'[i] \notin gone'
  BY <1>3, <1>5, <1>6, <1>7 DEF BuiltInv
<1>11. \A i, j \in 1 .. Len(built') : built'[i] = built'[j] => i = j
  BY <1>5, <1>7 DEF BuiltInv
<1>12. ASSUME NEW i \in 1 .. Len(built'), built'[i] \in Readers, built'[i] \in atExit'
       PROVE  \E j \in 1 .. i - 1 : built'[j] = "ConfigReader"
  <2>1. i \in 1 .. n /\ built[i] \in Readers /\ built[i] \in atExit
    BY <1>3, <1>5, <1>7, <1>12
  <2>2. PICK j \in 1 .. i - 1 : built[j] = "ConfigReader"
    BY <2>1 DEF BuiltInv
  <2>3. j \in 1 .. n - 1
    BY <1>5, <1>7, <2>2
  <2> QED
    BY <1>2, <2>2, <2>3
<1> QED
  BY <1>1, <1>2, <1>3, <1>9, <1>10, <1>11, <1>12 DEF BuiltInv

LEMMA BuiltInvNext == BuiltInv /\ StackInv /\ LogInv /\ [Next]_vars => BuiltInv'
<1> SUFFICES ASSUME BuiltInv, StackInv, LogInv, [Next]_vars PROVE BuiltInv'
  OBVIOUS
<1>1. ASSUME UNCHANGED <<flag, built, ending>>
      PROVE  BuiltInv'
  BY <1>1 DEF BuiltInv, ending
<1>2. ASSUME NEW t \in Threads, ThreadStep(t)
      PROVE  BuiltInv'
  <2>1. CASE EndInstance(t)
    BY <2>1, EndInstanceKeepsBuilt
  <2>2. CASE SocketError(t) \/ BeginInsert(t) \/ EndInsert(t) \/ Silent(t)
    BY <1>1, <2>2 DEF SocketError, BeginInsert, EndInsert, Silent
  <2>3. ASSUME NEW x \in Singletons, BeginInstance(t, x) \/ GetInstance(t, x) \/ UseDestroyed(t, x)
        PROVE  BuiltInv'
    <3>1. CASE GetInstance(t, x) \/ UseDestroyed(t, x)
      BY <1>1, <3>1 DEF GetInstance, UseDestroyed
    <3>2. CASE BeginInstance(t, x)
      <4>1. /\ built' = built /\ gone' = gone /\ exiting' = exiting /\ atExit' = atExit
            /\ \A y \in Singletons : flag'[y] = "done" <=> flag[y] = "done"
        BY <3>2 DEF BeginInstance, ending, StackInv
      <4> QED
        BY <4>1 DEF BuiltInv
    <3> QED
      BY <2>3, <3>1, <3>2
  <2> QED
    BY <1>2, <2>1, <2>2, <2>3 DEF ThreadStep
<1>3. ASSUME NEW t \in Threads, StartWorker(t) \/ SignalHandler(t)
      PROVE  BuiltInv'
  <2>1. CASE StartWorker(t)
    BY <1>1, <2>1 DEF StartWorker
  <2>2. CASE SignalHandler(t)
    BY <2>2, NoThreadIsNone DEF SignalHandler, BuiltInv
  <2> QED
    BY <1>3, <2>1, <2>2
<1>4. CASE DestroyLast
  BY <1>4, DestroyLastKeepsBuilt DEF DestroyLast
<1>5. CASE Exit \/ UNCHANGED vars
  BY <1>1, <1>5 DEF Exit, vars
<1> QED
  BY <1>2, <1>3, <1>4, <1>5 DEF Next

LEMMA ConfigReaderGoesLast == BuiltInv => DestroyedAfterItsReaders
<1> SUFFICES ASSUME BuiltInv, NEW x \in Readers, x \in atExit,
                    "ConfigReader" \in gone, x \notin gone
             PROVE  FALSE
  BY DEF DestroyedAfterItsReaders, Reads, Readers
<1>1. PICK i \in 1 .. Len(built) : built[i] = x
  BY DEF BuiltInv
<1>2. PICK j \in 1 .. i - 1 : built[j] = "ConfigReader"
  BY <1>1 DEF BuiltInv
<1>3. j \in 1 .. Len(built)
  BY <1>1, <1>2 DEF BuiltInv
<1> QED
  BY <1>2, <1>3 DEF BuiltInv

\* The destructors of the statics run in the reverse order of their
\* constructors (singleton.h:13), in which the ConfigReader comes before its
\* readers (core.h:21, router.cpp:20): with any number of threads that build
\* them, none that was complete when exit() began outlives what it reads.
THEOREM ReadersGoFirst == Spec => []DestroyedAfterItsReaders
<1>1. Spec => []LogInv
  BY LogInvInit, LogInvNext, PTL DEF Spec
<1>2. Spec => []StackInv
  BY <1>1, StackInvInit, StackInvNext, PTL DEF Spec
<1>3. Spec => []BuiltInv
  BY <1>1, <1>2, BuiltInvInit, BuiltInvNext, PTL DEF Spec
<1> QED
  BY <1>3, ConfigReaderGoesLast, PTL

-----------------------------------------------------------------------------
(* Waiting. A constructor that is begun has a frame in some thread until   *)
(* it ends, and what it asks for itself is the ConfigReader, whose own     *)
(* constructor asks for nothing but the mutex.                             *)

ActiveIsBuilt ==
    \A x \in Singletons : flag[x] = "active" => \E u \in Threads : x \in Builds(u)

LEMMA ActiveInit == Init => ActiveIsBuilt
BY DEF Init, ActiveIsBuilt

\* What a thread builds depends on the frames above its program.
LEMMA SameFrames ==
    ASSUME ActiveIsBuilt,
           \A x \in Singletons : flag'[x] = "active" => flag[x] = "active",
           \A u \in Threads : /\ Len(stack[u]) <= Len(stack'[u])
                               /\ \A i \in 2 .. Len(stack[u]) :
                                    stack'[u][i].run = stack[u][i].run,
           \A u \in Threads : Len(stack[u]) \in Nat /\ Len(stack'[u]) \in Nat
    PROVE  ActiveIsBuilt'
<1> SUFFICES ASSUME NEW x \in Singletons, flag'[x] = "active"
             PROVE  \E u \in Threads : x \in Builds(u)'
  BY DEF ActiveIsBuilt
<1>1. PICK u \in Threads : x \in Builds(u)
  BY DEF ActiveIsBuilt
<1>2. PICK i \in 2 .. Len(stack[u]) : stack[u][i].run = x
  BY <1>1 DEF Builds
<1>3. i \in 2 .. Len(stack'[u]) /\ stack'[u][i].run = x
  BY <1>2
<1> QED
  BY <1>3 DEF Builds

LEMMA AdvanceKeepsActive ==
    ASSUME ActiveIsBuilt, StackInv, NEW t \in Threads, stack[t] # <<>>, Advance(t),
           flag' = flag
    PROVE  ActiveIsBuilt'
<1>1. /\ stack'[t] = Advanced(t, stack[t])
      /\ \A u \in Threads : u # t => stack'[u] = stack[u]
  BY DEF StackInv, Advance
<1>2. \A u \in Threads : stack[u] \in Seq(Frames)
  BY DEF StackInv, StackOK
<1>3. /\ Len(stack'[t]) = Len(stack[t])
      /\ \A i \in 1 .. Len(stack[t]) : stack'[t][i].run = stack[t][i].run
  BY <1>1, <1>2, AdvancedStack
<1>4. \A u \in Threads : Len(stack[u]) \in Nat /\ Len(stack'[u]) = Len(stack[u])
  BY <1>1, <1>2, <1>3
<1>5. \A u \in Threads : \A i \in 2 .. Len(stack[u]) : stack'[u][i].run = stack[u][i].run
  BY <1>1, <1>3, <1>4
<1> QED
  BY <1>4, <1>5, SameFrames

LEMMA BeginInstanceKeepsActive ==
    ASSUME ActiveIsBuilt, StackInv, NEW t \in Threads, NEW x \in Singletons,
           BeginInstance(t, x)
    PROVE  ActiveIsBuilt'
<1> DEFINE s == stack[t]
           f == [run |-> x, at |-> 1]
<1>1. s \in Seq(Frames) /\ s # <<>> /\ f \in Frames
  BY DEF StackInv, StackOK, BeginInstance, Runs, Frames
<1>2. /\ stack'[t] = Append(s, f)
      /\ \A u \in Threads : u # t => stack'[u] = stack[u]
  BY DEF StackInv, BeginInstance
<1>3. \A y \in Singletons : y # x => flag'[y] = flag[y]
  BY DEF StackInv, BeginInstance
<1> HIDE DEF s, f
<1>4. /\ Len(Append(s, f)) = Len(s) + 1 /\ Len(s) \in Nat \ {0}
      /\ \A i \in 1 .. Len(s) : Append(s, f)[i] = s[i]
      /\ Append(s, f)[Len(s) + 1] = f
  BY <1>1
<1> SUFFICES ASSUME NEW y \in Singletons, flag'[y] = "active"
             PROVE  \E u \in Threads : y \in Builds(u)'
  BY DEF ActiveIsBuilt
<1>5. CASE y = x
  <2>1. Len(s) + 1 \in 2 .. Len(stack'[t]) /\ stack'[t][Len(s) + 1].run = x
    BY <1>2, <1>4 DEF f
  <2> QED
    BY <1>5, <2>1 DEF Builds
<1>6. CASE y # x
  <2>1. PICK u \in Threads : y \in Builds(u)
    BY <1>3, <1>6 DEF ActiveIsBuilt
  <2>2. PICK i \in 2 .. Len(stack[u]) : stack[u][i].run = y
    BY <2>1 DEF Builds
  <2>3. i \in 2 .. Len(stack'[u]) /\ stack'[u][i] = stack[u][i]
    <3>1. CASE u = t
      BY <1>2, <1>4, <2>2, <3>1 DEF s
    <3>2. CASE u # t
      BY <1>2, <3>2
    <3> QED
      BY <3>1, <3>2
  <2> QED
    BY <2>2, <2>3 DEF Builds
<1> QED
  BY <1>5, <1>6

LEMMA EndInstanceKeepsActive ==
    ASSUME ActiveIsBuilt, StackInv, NEW t \in Threads, EndInstance(t)
    PROVE  ActiveIsBuilt'
<1> DEFINE s == stack[t]
           n == Len(s)
           F == Front(s)
           x == s[n].run
<1>1. /\ s \in Seq(Frames) /\ s # <<>> /\ StackOK(s, flag)
      /\ Last(s) = s[n] /\ x \in Singletons
  BY DEF StackInv, StackOK, EndInstance, Runs, Last
<1>2. n \in Nat \ {0} /\ n >= 2
  BY <1>1 DEF StackOK
<1>3. /\ F \in Seq(Frames) /\ F # <<>> /\ Len(F) = n - 1
      /\ \A i \in 1 .. n - 1 : F[i] = s[i]
  <2>1. /\ F \in Seq(Frames)
        /\ Len(F) = n - 1
        /\ \A i \in 1 .. n - 1 : F[i] = s[i]
    BY <1>1, <1>2 DEF Front
  <2> QED
    BY <1>2, <2>1
<1>4. /\ stack'[t] = Advanced(t, F)
      /\ \A u \in Threads : u # t => stack'[u] = stack[u]
  BY DEF StackInv, EndInstance
<1>5. flag'[x] = "done" /\ \A y \in Singletons : y # x => flag'[y] = flag[y]
  BY <1>1 DEF StackInv, EndInstance
<1> HIDE DEF F
<1>6. /\ Len(stack'[t]) = n - 1
      /\ \A i \in 1 .. n - 1 : stack'[t][i].run = s[i].run
  <2>1. /\ Len(Advanced(t, F)) = Len(F)
        /\ \A i \in 1 .. Len(F) : Advanced(t, F)[i].run = F[i].run
    BY <1>3, AdvancedStack
  <2> HIDE DEF n
  <2> QED
    BY <1>3, <1>4, <2>1
<1> SUFFICES ASSUME NEW y \in Singletons, flag'[y] = "active"
             PROVE  \E u \in Threads : y \in Builds(u)'
  BY DEF ActiveIsBuilt
<1>7. y # x /\ flag[y] = "active"
  BY <1>5
<1>8. PICK u \in Threads : y \in Builds(u)
  BY <1>7 DEF ActiveIsBuilt
<1>9. PICK i \in 2 .. Len(stack[u]) : stack[u][i].run = y
  BY <1>8 DEF Builds
<1>10. i \in 2 .. Len(stack'[u]) /\ stack'[u][i].run = y
  <2>1. CASE u = t
    <3>1. i # n
      BY <1>7, <1>9, <2>1
    <3>2. i \in 2 .. n - 1 /\ i \in 1 .. n - 1
      BY <1>2, <1>9, <2>1, <3>1
    <3> QED
      BY <1>6, <1>9, <2>1, <3>2
  <2>2. CASE u # t
    BY <1>4, <1>9, <2>2
  <2> QED
    BY <2>1, <2>2
<1> QED
  BY <1>10 DEF Builds

LEMMA ActiveNext == ActiveIsBuilt /\ StackInv /\ LogInv /\ [Next]_vars => ActiveIsBuilt'
<1> SUFFICES ASSUME ActiveIsBuilt, StackInv, LogInv, [Next]_vars PROVE ActiveIsBuilt'
  OBVIOUS
<1>1. ASSUME UNCHANGED <<stack, flag>>
      PROVE  ActiveIsBuilt'
  BY <1>1 DEF ActiveIsBuilt, Builds
<1>2. ASSUME NEW t \in Threads, ThreadStep(t)
      PROVE  ActiveIsBuilt'
  <2>1. CASE EndInstance(t)
    BY <2>1, EndInstanceKeepsActive
  <2>2. CASE SocketError(t) \/ Silent(t)
    BY <2>2, AdvanceKeepsActive DEF SocketError, Silent, Runs
  <2>3. CASE BeginInsert(t)
    BY <1>1, <2>3 DEF BeginInsert
  <2>4. CASE EndInsert(t)
    <3>1. (Advance(t) \/ UNCHANGED stack) /\ flag' = flag /\ stack[t] # <<>>
      BY <2>4, Zenon DEF EndInsert, Runs
    <3> QED
      BY <1>1, <3>1, AdvanceKeepsActive
  <2>5. ASSUME NEW x \in Singletons, BeginInstance(t, x) \/ GetInstance(t, x) \/ UseDestroyed(t, x)
        PROVE  ActiveIsBuilt'
    <3>1. CASE BeginInstance(t, x)
      BY <3>1, BeginInstanceKeepsActive
    <3>2. CASE GetInstance(t, x)
      BY <3>2, AdvanceKeepsActive DEF GetInstance, Runs
    <3>3. CASE UseDestroyed(t, x)
      BY <1>1, <3>3 DEF UseDestroyed
    <3> QED
      BY <2>5, <3>1, <3>2, <3>3
  <2> QED
    BY <1>2, <2>1, <2>2, <2>3, <2>4, <2>5 DEF ThreadStep
<1>3. ASSUME NEW t \in Threads, StartWorker(t)
      PROVE  ActiveIsBuilt'
  <2>1. PICK w \in Workers :
          stack[w] = <<>> /\ stack' = [stack EXCEPT ![w] = <<[run |-> w, at |-> 1]>>]
    BY <1>3 DEF StartWorker
  <2>2. w \in Threads /\ flag' = flag
    BY <1>3 DEF StartWorker, Threads
  <2>3. /\ Len(stack[w]) = 0 /\ Len(stack'[w]) = 1
        /\ \A u \in Threads : u # w => stack'[u] = stack[u]
    BY <2>1, <2>2 DEF StackInv
  <2>4. \A u \in Threads : Len(stack[u]) \in Nat
    BY DEF StackInv, StackOK
  <2>5. \A u \in Threads : /\ Len(stack'[u]) \in Nat /\ Len(stack[u]) <= Len(stack'[u])
                            /\ \A i \in 2 .. Len(stack[u]) :
                                 stack'[u][i].run = stack[u][i].run
    BY <2>3, <2>4
  <2> QED
    BY <2>2, <2>4, <2>5, SameFrames
<1>4. CASE DestroyLast \/ Exit \/ UNCHANGED vars \/ \E t \in Threads : SignalHandler(t)
  BY <1>1, <1>4 DEF DestroyLast, Exit, SignalHandler, vars
<1> QED
  BY <1>2, <1>3, <1>4 DEF Next

\* A constructor asks for the ConfigReader, if for any, and the ConfigReader's
\* for none.
LEMMA BodiesNeed ==
    ASSUME NEW f \in Frames, f.run \in Singletons
    PROVE  /\ Needs(f) \in {"ConfigReader", "log", "none"}
           /\ f.run = "ConfigReader" => Needs(f) \in {"log", "none"}
<1>1. f.run \in {"Core", "ConfigReader", "Router"} /\ f.at \in Nat \ {0}
  BY DEF Frames, Singletons
<1>2. Program(f) = Body[f.run]
  BY DEF Program
<1>3. CASE f.run = "Core"
  <2>1. Program(f) = <<"ConfigReader">>
    BY <1>2, <1>3 DEF Body
  <2> QED
    BY <1>1, <1>3, <2>1 DEF Needs, Ended
<1>4. CASE f.run = "ConfigReader"
  <2>1. Program(f) = <<"log">>
    BY <1>2, <1>4 DEF Body
  <2> QED
    BY <1>1, <1>4, <2>1 DEF Needs, Ended
<1>5. CASE f.run = "Router"
  <2>1. Program(f) = <<"ConfigReader", "log">>
    BY <1>2, <1>5 DEF Body
  <2> QED
    BY <1>1, <1>5, <2>1 DEF Needs, Ended
<1> QED
  BY <1>1, <1>3, <1>4, <1>5

\* So does the thread that runs it: its last frame is a constructor's, and
\* nothing is above that of the ConfigReader.
LEMMA BuildersNeed ==
    ASSUME StackInv, NEW u \in Threads, NEW x \in Builds(u)
    PROVE  /\ Instruction(u) \in {"ConfigReader", "log", "none"}
           /\ x = "ConfigReader" => Instruction(u) \in {"log", "none"}
<1> DEFINE s == stack[u]
           n == Len(s)
<1>1. s \in Seq(Frames) /\ StackOK(s, flag)
  BY DEF StackInv, StackOK
<1>2. PICK i \in 2 .. n : s[i].run = x
  BY DEF Builds
<1>3. n \in Nat /\ n >= 2 /\ n \in 2 .. n /\ n \in 1 .. n /\ s # <<>>
  BY <1>1, <1>2
<1>4. Instruction(u) = Needs(s[n])
  BY <1>1, <1>3, LastNeeds
<1>5. s[n] \in Frames /\ s[n].run \in Singletons
  BY <1>1, <1>3 DEF StackOK
<1>6. ASSUME x = "ConfigReader"
      PROVE  i = n
  <2>1. SUFFICES ASSUME i # n
                 PROVE  FALSE
    OBVIOUS
  <2>2. i + 1 \in 2 .. n /\ i \in 1 .. n /\ (i + 1) - 1 = i
    BY <1>2, <1>3, <2>1
  <2>3. Needs(s[i]) = s[i + 1].run /\ s[i + 1].run \in Singletons
    BY <1>1, <2>2 DEF StackOK
  <2>4. s[i] \in Frames /\ s[i].run = "ConfigReader" /\ s[i].run \in Singletons
    BY <1>1, <1>2, <1>6, <2>2 DEF Singletons
  <2>5. Needs(s[i]) \in {"log", "none"}
    BY <2>4, BodiesNeed
  <2> QED
    BY <2>3, <2>5 DEF Singletons
<1> QED
  BY <1>2, <1>4, <1>5, <1>6, BodiesNeed

LEMMA WaitingEnds ==
    ASSUME LogInv, StackInv, ActiveIsBuilt
    PROVE  NoCircularWait
<1>1. \A t \in Threads : Waits(t) /\ exiting # t => WaitsFor(t) # {}
  BY DEF Waits, WaitsFor, ActiveIsBuilt
<1>2. "log" \notin Singletons /\ "none" \notin Singletons
  BY DEF Singletons
\* Whoever holds the mutex waits for nothing.
<1>3. ASSUME NEW t \in Threads, holder = t
      PROVE  WaitsFor(t) = {}
  <2>1. Instruction(t) = "log"
    BY <1>3 DEF LogInv, LogTypes, HolderKnowsTheEnd, StackInv
  <2> QED
    BY <1>2, <1>3, <2>1 DEF WaitsFor, Waits
\* Whom a thread waits for either holds it, or builds what it needs.
<1>4. ASSUME NEW t \in Threads, NEW u \in WaitsFor(t)
      PROVE  /\ u \in Threads
             /\ \/ u = holder
                \/ Instruction(t) \in Builds(u) /\ Waits(t)
  BY <1>4 DEF WaitsFor, LogInv, LogTypes
\* Who builds the ConfigReader waits at most for the mutex.
<1>5. ASSUME NEW t \in Threads, "ConfigReader" \in Builds(t), NEW u \in WaitsFor(t)
      PROVE  u = holder
  BY <1>2, <1>4, <1>5, BuildersNeed DEF Waits
<1>6. ASSUME NEW t \in Threads, NEW x \in Builds(t), NEW u \in WaitsFor(t)
      PROVE  u = holder \/ "ConfigReader" \in Builds(u)
  BY <1>2, <1>4, <1>6, BuildersNeed DEF Waits
<1>7. ASSUME NEW S \in SUBSET Threads, S # {}, \A t \in S : WaitsFor(t) \cap S # {}
      PROVE  FALSE
  <2>1. PICK t \in S : TRUE
    BY <1>7
  <2>2. holder \notin S
    BY <1>3, <1>7
  <2>3. PICK u \in S : u \in WaitsFor(t)
    BY <1>7
  <2>4. Instruction(t) \in Builds(u)
    BY <1>4, <2>2, <2>3
  <2>5. PICK v \in S : v \in WaitsFor(u)
    BY <1>7
  <2>6. "ConfigReader" \in Builds(v)
    BY <1>6, <2>2, <2>4, <2>5
  <2>7. PICK w \in S : w \in WaitsFor(v)
    BY <1>7
  <2> QED
    BY <1>5, <2>2, <2>6, <2>7
<1> QED
  BY <1>1, <1>7 DEF NoCircularWait

\* "thread-safe" (singleton.h:6): with any number of threads that need the
\* singletons in any order, each while it builds others, and that log
\* meanwhile, no circle of threads wait for each other, and nobody waits for
\* a constructor that no thread runs.
THEOREM NobodyWaitsInACircle == Spec => []NoCircularWait
<1>1. Spec => []LogInv
  BY LogInvInit, LogInvNext, PTL DEF Spec
<1>2. Spec => []StackInv
  BY <1>1, StackInvInit, StackInvNext, PTL DEF Spec
<1>3. Spec => []ActiveIsBuilt
  BY <1>1, <1>2, ActiveInit, ActiveNext, PTL DEF Spec
<1> QED
  BY <1>1, <1>2, <1>3, WaitingEnds, PTL
=============================================================================
