------------------------------ MODULE Service ------------------------------
(***************************************************************************)
(* The life of the service: the daemon (src/daemon) starts the server      *)
(* process again whenever a signal has ended it, and each new process      *)
(* reads the configuration (src/config) before it serves.                  *)
(*                                                                         *)
(* The file has a member for each check of ReadConfig: "missing", "wrong"  *)
(* or "good".  A missing member of a rule is an assertion of the JSON      *)
(* library, unless it is built without assertions.                         *)
(***************************************************************************)
EXTENDS Naturals, Sequences

CONSTANTS
    ShellTells,     \* whether system() sees the signal that ended the server,
                    \* or an exit status that the shell has made of it
    MaxCrashes,     \* how often the serving process is ended by a signal
    MaxEdits        \* how often the file is changed

ASSUME ShellAssumption == ShellTells \in BOOLEAN
ASSUME BoundsAssumption == MaxCrashes \in Nat /\ MaxEdits \in Nat

\* The members in the order in which they are checked, and the settings that
\* are taken from them.
Checks == <<"version", "port", "rootDirectory", "sockBufferSize", "responder",
            "default", "rules">>
Members == {Checks[i] : i \in DOMAIN Checks}
Settings == {"port", "rootDirectory", "sockBufferSize", "default", "rules"}
RuleMembers == {"default", "rules"}

Findings == {"missing", "wrong", "good"}
Documents == [parses : BOOLEAN, members : [Members -> Findings]]

VARIABLES
    daemon,     \* where RunDaemon is
    server,     \* what the server process does, or how it ended
    disk,       \* the configuration file
    document,   \* what the process has parsed
    next,       \* the check that ReadConfig is at
    settings,   \* where each setting comes from
    crashes, edits

configuration == <<document, next, settings>>
vars == <<daemon, server, disk, configuration, crashes, edits>>

Unset == [s \in Settings |-> "unset"]

TypeOK ==
    /\ daemon \in {"start", "wait", "exited"}
    /\ server \in {"none", "parse", "read", "failed", "serve", "killed", "exited"}
    /\ disk \in Documents
    /\ document \in Documents
    /\ next \in DOMAIN Checks
    /\ settings \in [Settings -> {"unset", "default", "file"}]
    /\ crashes \in 0 .. MaxCrashes
    /\ edits \in 0 .. MaxEdits

AllGood == [m \in Members |-> "good"]

\* The file is good, or one member of it is not, or it cannot be parsed.
Init ==
    /\ daemon = "start"
    /\ server = "none"
    /\ \E p \in BOOLEAN, m \in Members, v \in Findings :
         disk = [parses |-> p, members |-> [AllGood EXCEPT ![m] = v]]
    /\ document = [parses |-> FALSE, members |-> AllGood]
    /\ next = 1
    /\ settings = Unset
    /\ crashes = 0
    /\ edits = 0

-----------------------------------------------------------------------------
(* RunDaemon.                                                              *)

\* system() starts the server.
StartServer ==
    /\ daemon = "start"
    /\ daemon' = "wait"
    /\ server' = "parse"
    /\ settings' = Unset
    /\ UNCHANGED <<disk, document, next, crashes, edits>>

\* WIFEXITED(status)
\* ExitedAlways: the status is not looked at.
ExitedAlways == server \in {"exited", "killed"}
Exited == server = "exited" \/ (server = "killed" /\ ~ShellTells)

DaemonEnds ==
    /\ daemon = "wait"
    /\ Exited
    /\ daemon' = "exited"
    /\ UNCHANGED <<server, disk, configuration, crashes, edits>>

DaemonRestarts ==
    /\ daemon = "wait"
    /\ server = "killed"
    /\ ~Exited
    /\ daemon' = "start"
    /\ UNCHANGED <<server, disk, configuration, crashes, edits>>

-----------------------------------------------------------------------------
(* ReloadConfig and ReadConfig, in the new process.                        *)

ParseFile ==
    /\ server = "parse"
    /\ document' = disk
    /\ server' = IF disk.parses THEN "read" ELSE "failed"
    /\ next' = 1
    /\ UNCHANGED <<daemon, disk, settings, crashes, edits>>

Member == Checks[next]
Found == document.members[Member]

\* TakeNothing: the member is checked and forgotten.
TakeNothing == settings
Take == IF Member \in Settings THEN [settings EXCEPT ![Member] = "file"] ELSE settings

CheckPasses ==
    /\ server = "read"
    /\ Found = "good"
    /\ settings' = Take
    /\ IF next = Len(Checks)
       THEN server' = "serve" /\ UNCHANGED next
       ELSE next' = next + 1 /\ UNCHANGED server
    /\ UNCHANGED <<daemon, disk, document, crashes, edits>>

\* Something of a wrong rule, or of the rules before it, may have been taken.
CheckFails ==
    /\ server = "read"
    /\ Found # "good"
    /\ \/ UNCHANGED settings
       \/ Member \in RuleMembers /\ settings' = Take
    /\ server' = "failed"
    /\ UNCHANGED <<daemon, disk, document, next, crashes, edits>>

CheckAborts ==
    /\ server = "read"
    /\ Found = "missing"
    /\ Member \in RuleMembers
    /\ server' = "killed"
    /\ UNCHANGED <<daemon, disk, configuration, crashes, edits>>

\* SetAsDefault
\* DefaultsButRules: the rules are not cleared.
DefaultsButRules ==
    [s \in Settings |-> IF s = "rules" /\ settings[s] = "file" THEN "file" ELSE "default"]
Defaults == [s \in Settings |-> "default"]

UseDefaults ==
    /\ server = "failed"
    /\ settings' = Defaults
    /\ server' = "serve"
    /\ UNCHANGED <<daemon, disk, document, next, crashes, edits>>

-----------------------------------------------------------------------------
(* What may happen to the process and to the file.                         *)

Alive == server \in {"parse", "read", "failed", "serve"}

Crash ==
    /\ Alive
    /\ crashes < MaxCrashes
    /\ crashes' = crashes + 1
    /\ server' = "killed"
    /\ UNCHANGED <<daemon, disk, configuration, edits>>

\* SIGINT: exit(0)
SignalHandler ==
    /\ Alive
    /\ server' = "exited"
    /\ UNCHANGED <<daemon, disk, configuration, crashes, edits>>

Edit ==
    /\ edits < MaxEdits
    /\ edits' = edits + 1
    /\ \/ \E p \in BOOLEAN : disk' = [disk EXCEPT !.parses = p]
       \/ \E m \in Members, v \in Findings :
            disk' = [disk EXCEPT !.members[m] = v]
    /\ UNCHANGED <<daemon, server, configuration, crashes>>

DaemonStep == StartServer \/ DaemonEnds \/ DaemonRestarts
ReadConfig == ParseFile \/ CheckPasses \/ CheckFails \/ CheckAborts \/ UseDefaults
Next == DaemonStep \/ ReadConfig \/ Crash \/ SignalHandler \/ Edit

Spec == Init /\ [][Next]_vars

\* The daemon and the process that reads its configuration run on.
FairSpec == Spec /\ WF_vars(DaemonStep) /\ WF_vars(ReadConfig)

-----------------------------------------------------------------------------
Valid(d) == d.parses /\ d.members = AllGood

\* The first member that is not good is one that a rule lacks.
Breaks(d) ==
    /\ d.parses
    /\ \E i \in DOMAIN Checks :
         /\ Checks[i] \in RuleMembers
         /\ d.members[Checks[i]] = "missing"
         /\ \A j \in 1 .. i - 1 : d.members[Checks[j]] = "good"

\* A serving process uses the whole file that it has read, if all of it is
\* good, and else the defaults alone: never some of each, although the checks
\* store the members one by one and a later one may fail (config.cpp:119-188).
WholeFileOrDefaults ==
    server = "serve" =>
        settings = [s \in Settings |-> IF Valid(document) THEN "file" ELSE "default"]

\* Once the file no longer breaks the server, the service is back after each
\* crash, unless it is told to end (daemon.cpp:23-29): no crash, and no file
\* that was broken for a time, ends it for good.
ServiceReturns ==
    <>[]~Breaks(disk) => []<>(server \in {"serve", "exited"})

\* The members before next are good, and those among them that are settings
\* have been taken, from this very document.
TakenSoFar ==
    server = "read" =>
        /\ document.parses
        /\ \A i \in 1 .. next - 1 :
             /\ document.members[Checks[i]] = "good"
             /\ Checks[i] \in Settings => settings[Checks[i]] = "file"
FailedForAReason == server = "failed" => ~Valid(document)

IInv == TypeOK /\ TakenSoFar /\ FailedForAReason /\ WholeFileOrDefaults
=============================================================================
