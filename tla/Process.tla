------------------------------ MODULE Process ------------------------------
(***************************************************************************)
(* What the threads of the server share beside the sockets: the singletons *)
(* (src/util/singleton), built on first use, by whichever thread gets      *)
(* there, one from within another; the global logger (src/util/logger);    *)
(* and exit(), called by the handler of SIGINT in any thread (src/main)    *)
(* while the others run on.                                                *)
(*                                                                         *)
(* A thread is a stack of frames: the bottom one runs its program, each    *)
(* other one the constructor of a singleton that it is the first to need.  *)
(***************************************************************************)
EXTENDS Naturals, Sequences, SequencesExt, FiniteSets

CONSTANTS
    Workers,        \* the worker threads
    MaxMessages     \* how many messages are logged, about

ASSUME MaxMessagesAssumption == MaxMessages \in Nat

Main == "main"
NoThread == "none"
ASSUME WorkersAssumption ==
    {Main, NoThread, "Core", "ConfigReader", "Router"} \cap Workers = {}
Threads == Workers \cup {Main}

VARIABLES
    proc,       \* "up" or "down"
    stack,      \* the frames of each thread; none before it is started
    flag,       \* call_once and the guard of the static of each singleton
    built,      \* the singletons to destroy, in the order they were finished
    gone,       \* the singletons that are destroyed
    exiting,    \* the thread that runs the signal handler
    atExit,     \* history: the singletons finished when it began
    holder,     \* who holds logger_mutex_
    pos,        \* where the insertion in progress will write
    part,       \* parts of the message in progress that are written
    log,        \* the thread of each part in the stream
    said        \* history: how many parts each thread has inserted

logging == <<holder, pos, part, log, said>>
ending == <<gone, exiting, atExit>>
vars == <<proc, stack, flag, built, ending, logging>>

-----------------------------------------------------------------------------
(* What the threads and the constructors do, as far as they share it.      *)

Singletons == {"Core", "ConfigReader", "Router"}

\* The constructors: the Core asks for the port; ConfigReader logs what is
\* wrong with the file; the Router reads the rules, and logs bad ones.
\* BodyLazy: the Core does not ask for the port.
\* BodyCycle: ConfigReader asks the Router about the rules.
BodyLazy == [Core |-> <<>>,
             ConfigReader |-> <<"log">>,
             Router |-> <<"ConfigReader", "log">>]
BodyCycle == [Core |-> <<"ConfigReader">>,
              ConfigReader |-> <<"Router", "log">>,
              Router |-> <<"ConfigReader", "log">>]
Body == [Core |-> <<"ConfigReader">>,
         ConfigReader |-> <<"log">>,
         Router |-> <<"ConfigReader", "log">>]

\* main: from its second instruction on it starts workers, or logs an error
\* and asks for the port again.
MainProgram == <<"Core", "start", "log", "ConfigReader">>
\* HandleConnection: the buffer's size, the responder, and a socket error.
WorkerProgram == <<"ConfigReader", "Router", "log">>
Start(t) == IF t = Main THEN 2 ELSE 1

Program(f) ==
    IF f.run \in Singletons THEN Body[f.run]
    ELSE IF f.run = Main THEN MainProgram ELSE WorkerProgram

Parts == 2      \* insertions of one message

Init ==
    /\ proc = "up"
    /\ stack = [t \in Threads |-> IF t = Main THEN <<[run |-> Main, at |-> 1]>> ELSE <<>>]
    /\ flag = [x \in Singletons |-> "new"]
    /\ built = <<>>
    /\ gone = {}
    /\ exiting = NoThread
    /\ atExit = {}
    /\ holder = NoThread
    /\ pos = [t \in Threads |-> 0]
    /\ part = [t \in Threads |-> 0]
    /\ log = <<>>
    /\ said = [t \in Threads |-> 0]

Runs(t) == proc = "up" /\ stack[t] # <<>> /\ exiting # t
Ended(f) == f.at > Len(Program(f))
Instruction(t) ==
    IF stack[t] = <<>> \/ Ended(Last(stack[t])) THEN "none"
    ELSE Program(Last(stack[t]))[Last(stack[t]).at]

\* The next instruction of the last frame; a program starts again.
Advanced(t, s) ==
    LET f == [Last(s) EXCEPT !.at = @ + 1]
    IN  Front(s) \o
        <<IF Ended(f) /\ f.run \notin Singletons
          THEN [f EXCEPT !.at = Start(t)] ELSE f>>
Advance(t) == stack' = [stack EXCEPT ![t] = Advanced(t, @)]

-----------------------------------------------------------------------------
(* Instance().                                                             *)

\* The first to come runs the constructor; the others wait in call_once.
BeginInstance(t, x) ==
    /\ Runs(t)
    /\ Instruction(t) = x
    /\ flag[x] = "new"
    /\ flag' = [flag EXCEPT ![x] = "active"]
    /\ stack' = [stack EXCEPT ![t] = Append(@, [run |-> x, at |-> 1])]
    /\ UNCHANGED <<proc, built, ending, logging>>

\* The end of the constructor: its destructor is registered with exit().
EndInstance(t) ==
    /\ Runs(t)
    /\ Last(stack[t]).run \in Singletons
    /\ Ended(Last(stack[t]))
    /\ flag' = [flag EXCEPT ![Last(stack[t]).run] = "done"]
    /\ built' = Append(built, Last(stack[t]).run)
    /\ stack' = [stack EXCEPT ![t] = Advanced(t, Front(@))]
    /\ UNCHANGED <<proc, ending, logging>>

GetInstance(t, x) ==
    /\ Runs(t)
    /\ Instruction(t) = x
    /\ flag[x] = "done"
    /\ Advance(t)
    /\ UNCHANGED <<proc, flag, built, ending, logging>>

\* The use of a destroyed instance may also end the process.
UseDestroyed(t, x) ==
    /\ Runs(t)
    /\ Instruction(t) = x
    /\ x \in gone
    /\ proc' = "down"
    /\ UNCHANGED <<stack, flag, built, ending, logging>>

\* Core::StartListen: a Worker starts its thread, or nothing has come.
StartWorker(t) ==
    /\ Runs(t)
    /\ Instruction(t) = "start"
    /\ \E w \in Workers :
         /\ stack[w] = <<>>
         /\ stack' = [stack EXCEPT ![w] = <<[run |-> w, at |-> 1]>>]
    /\ UNCHANGED <<proc, flag, built, ending, logging>>
SocketError(t) ==
    /\ Runs(t)
    /\ Instruction(t) = "start"
    /\ Advance(t)
    /\ UNCHANGED <<proc, flag, built, ending, logging>>

-----------------------------------------------------------------------------
(* operator<<: the lock is taken and given back for each part of a         *)
(* message, so that only a part is sure to stay in one piece.              *)

\* The bound on the log.
InMessage == {t \in Threads : part[t] + pos[t] > 0}
Room == Len(log) + Cardinality(InMessage) < Parts * MaxMessages

\* NoLock: nobody waits for the mutex.
NoLock == TRUE
MutexFree == holder = NoThread

BeginInsert(t) ==
    /\ Runs(t)
    /\ Instruction(t) = "log"
    /\ holder # t
    /\ part[t] > 0 \/ Room
    /\ MutexFree
    /\ holder' = t
    /\ pos' = [pos EXCEPT ![t] = Len(log) + 1]
    /\ UNCHANGED <<proc, stack, flag, built, ending, part, log, said>>

EndInsert(t) ==
    /\ Runs(t)
    /\ pos[t] > 0
    /\ log' = Append(SubSeq(log, 1, pos[t] - 1), t)
    /\ said' = [said EXCEPT ![t] = @ + 1]
    /\ holder' = NoThread
    /\ pos' = [pos EXCEPT ![t] = 0]
    /\ IF part[t] + 1 = Parts
       THEN part' = [part EXCEPT ![t] = 0] /\ Advance(t)
       ELSE part' = [part EXCEPT ![t] = @ + 1] /\ UNCHANGED stack
    /\ UNCHANGED <<proc, flag, built, ending>>

\* There is nothing to report.
Silent(t) ==
    /\ Runs(t)
    /\ Instruction(t) = "log"
    /\ part[t] = 0 /\ pos[t] = 0
    /\ Advance(t)
    /\ UNCHANGED <<proc, flag, built, ending, logging>>

-----------------------------------------------------------------------------
(* SIGINT, once, in any thread: exit() destroys the statics, the last      *)
(* finished first, also those finished by other threads in the meantime.   *)

SignalHandler(t) ==
    /\ Runs(t)
    /\ exiting = NoThread
    /\ exiting' = t
    /\ atExit' = {x \in Singletons : flag[x] = "done"}
    /\ UNCHANGED <<proc, stack, flag, built, gone, logging>>

DestroyLast ==
    /\ proc = "up"
    /\ exiting # NoThread
    /\ built # <<>>
    /\ gone' = gone \cup {Last(built)}
    /\ built' = Front(built)
    /\ UNCHANGED <<proc, stack, flag, exiting, atExit, logging>>

Exit ==
    /\ proc = "up"
    /\ exiting # NoThread
    /\ built = <<>>
    /\ proc' = "down"
    /\ UNCHANGED <<stack, flag, built, ending, logging>>

ThreadStep(t) ==
    \/ \E x \in Singletons :
         BeginInstance(t, x) \/ GetInstance(t, x) \/ UseDestroyed(t, x)
    \/ EndInstance(t)
    \/ SocketError(t)
    \/ BeginInsert(t) \/ EndInsert(t) \/ Silent(t)

Next ==
    \/ \E t \in Threads : ThreadStep(t) \/ StartWorker(t) \/ SignalHandler(t)
    \/ DestroyLast \/ Exit

\* The threads run on; a mutex that is free is given to one that waits.
Spec == Init /\ [][Next]_vars
FairSpec == Spec /\ \A t \in Threads : WF_vars(ThreadStep(t))

-----------------------------------------------------------------------------
\* "a base template class of singleton (thread-safe)" (singleton.h:6): a
\* thread that waits for the constructor run by another gets the instance:
\* no two constructors wait for each other.
Waits(t) == Instruction(t) \in Singletons /\ flag[Instruction(t)] = "active"
InstancesReturn ==
    \A t \in Threads : Waits(t) ~> ~Waits(t) \/ exiting # NoThread \/ proc = "down"

\* Whom a thread waits for: those that run the constructor of what it needs,
\* or the one that holds the mutex.
Builds(u) == {stack[u][i].run : i \in 2 .. Len(stack[u])}
WaitsFor(t) ==
    IF exiting = t THEN {}
    ELSE IF Waits(t) THEN {u \in Threads : Instruction(t) \in Builds(u)}
    ELSE IF Instruction(t) = "log" /\ holder \notin {NoThread, t} THEN {holder}
    ELSE {}

\* Nobody waits for a constructor that no thread runs (singleton.h:20), and
\* threads do not wait for each other in a circle, through the once-flags,
\* which one constructor takes within another (core.h:21, router.cpp:20), and
\* the mutex, which they take within those (logger.h:18).
NoCircularWait ==
    /\ \A t \in Threads : Waits(t) /\ exiting # t => WaitsFor(t) # {}
    /\ \A S \in SUBSET Threads : S # {} => \E t \in S : WaitsFor(t) \cap S = {}

\* Among the singletons that are complete when exit() begins, none is
\* destroyed before one that reads it: the ConfigReader goes last, because the
\* constructors of the others ask for it (core.h:21, router.cpp:20).
Reads == {<<"Core", "ConfigReader">>, <<"Router", "ConfigReader">>}
DestroyedAfterItsReaders ==
    \A r \in Reads :
        {r[1], r[2]} \subseteq atExit /\ r[2] \in gone => r[1] \in gone

\* "an implementation of thread-safe logger" (logger.h:9): whatever the
\* threads insert is in the stream, also when their messages mix.
LogKeepsEveryPart ==
    \A t \in Threads : said[t] = Cardinality({i \in DOMAIN log : log[i] = t})
=============================================================================
