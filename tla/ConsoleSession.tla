--------------------------- MODULE ConsoleSession ---------------------------
(***************************************************************************)
(* labgrid-client console: microcom runs beside the client for as long as  *)
(* the place may be used, and, with --loop, again and again.  Meanwhile    *)
(* the place is released, acquired or allowed to others, the serial port   *)
(* goes and comes back, and microcom may not react to signals.             *)
(***************************************************************************)
EXTENDS Naturals

CONSTANTS MaxRounds     \* microcoms started

VARIABLES
    loop,       \* --loop was given
    acquired,   \* who has the place, as the client knows: "me", "other", "none"
    allowed,    \* host and user are in place.allowed
    avail,      \* the serial port is available
    pc,         \* where the client is
    microcom,   \* "none", "running", "ended"
    code,       \* its exit code
    deaf,       \* signals it does not react to: {}, {"TERM"}, {"TERM", "KILL"}
    overdue,    \* checks made while the place could not be used and microcom ran
    rounds,
    result      \* how the command ended, and the exit code
vars == <<loop, acquired, allowed, avail, pc, microcom, code, deaf, overdue, rounds, result>>

Codes == {0, 1, 255}
Running == microcom = "running"

\* The type invariant.
TypeOK ==
    /\ loop \in BOOLEAN /\ acquired \in {"me", "other", "none"} /\ allowed \in BOOLEAN /\ avail \in BOOLEAN
    /\ pc \in {"await", "start", "watch", "terminate", "kill", "sleep", "done"}
    /\ microcom \in {"none", "running", "ended"} /\ code \in Codes /\ rounds \in 0..MaxRounds
    /\ result \in {"none", "ok", "user_error", "no_resource", "server_error", "interactive", "exception"}

Init ==
    /\ loop \in BOOLEAN /\ avail \in BOOLEAN /\ deaf \in {{}, {"TERM"}, {"TERM", "KILL"}}
    /\ acquired = "me" /\ allowed = TRUE
    /\ pc = "await" /\ microcom = "none" /\ code = 0 /\ overdue = 0 /\ rounds = 0 /\ result = "none"

Client == UNCHANGED <<loop, acquired, allowed, avail, deaf>>
Ends(how) == pc' = "done" /\ result' = how

\* The port is polled until it is there, or, without --loop, for ten seconds.
AwaitResource ==
    /\ pc = "await"
    /\ \/ avail /\ pc' = "start" /\ UNCHANGED result
       \/ ~avail /\ ~loop /\ Ends("no_resource")
    /\ UNCHANGED <<microcom, code, overdue, rounds>> /\ Client

\* Only that somebody has the place is looked at before microcom starts.
StartMicrocom ==
    /\ pc = "start"
    /\ \/ acquired = "none" /\ Ends("ok") /\ UNCHANGED <<microcom, overdue, rounds>>
       \/ acquired # "none" /\ Ends("server_error") /\ UNCHANGED <<microcom, overdue, rounds>>
       \/ /\ acquired # "none" /\ rounds < MaxRounds
          /\ microcom' = "running" /\ pc' = "watch" /\ overdue' = 0 /\ rounds' = rounds + 1 /\ UNCHANGED result
    /\ UNCHANGED code /\ Client

\* _check_allowed, after a second or when microcom has ended.  terminate() of
\* a process that is gone may raise an error of its own.
Allowed == acquired # "none" /\ allowed

\* console(): the return value 255 stands for a place that was released.
Return ==
    IF code = 255 THEN Ends("ok")
    ELSE IF loop THEN pc' = "sleep" /\ UNCHANGED result
    ELSE Ends(IF code = 0 THEN "ok" ELSE "interactive")

Watch_only_acquired ==
    /\ pc = "watch"
    /\ \/ Running /\ acquired # "none" /\ overdue' = (IF Allowed THEN overdue ELSE overdue + 1) /\ UNCHANGED <<pc, result>>
       \/ ~Running /\ acquired # "none" /\ Return /\ UNCHANGED overdue
       \/ Running /\ acquired = "none" /\ pc' = "terminate" /\ overdue' = overdue + 1 /\ UNCHANGED result
       \/ ~Running /\ acquired = "none" /\ (\E how \in {"user_error", "exception"} : Ends(how)) /\ UNCHANGED overdue
    /\ UNCHANGED <<microcom, code, rounds>> /\ Client

Watch ==
    /\ pc = "watch"
    /\ \/ Running /\ Allowed /\ UNCHANGED <<pc, overdue, result>>
       \/ ~Running /\ Allowed /\ Return /\ UNCHANGED overdue
       \/ Running /\ ~Allowed /\ pc' = "terminate" /\ overdue' = overdue + 1 /\ UNCHANGED result
       \/ ~Running /\ ~Allowed /\ (\E how \in {"user_error", "exception"} : Ends(how)) /\ UNCHANGED overdue
    /\ UNCHANGED <<microcom, code, rounds>> /\ Client

\* A second after terminate(), kill(); a second after that, TimeoutError.
Terminate ==
    /\ pc = "terminate"
    /\ \/ microcom' = "ended" /\ (Running => "TERM" \notin deaf) /\ Ends("user_error")
       \/ Running /\ "TERM" \in deaf /\ pc' = "kill" /\ UNCHANGED <<microcom, result>>
    /\ UNCHANGED <<code, overdue, rounds>> /\ Client

Kill ==
    /\ pc = "kill"
    /\ \/ microcom' = "ended" /\ (Running => "KILL" \notin deaf) /\ Ends("user_error")
       \/ Running /\ "KILL" \in deaf /\ Ends("exception") /\ UNCHANGED microcom
    /\ UNCHANGED <<code, overdue, rounds>> /\ Client

SleepEnds ==
    /\ pc = "sleep"
    /\ pc' = "await" /\ microcom' = "none"
    /\ UNCHANGED <<code, overdue, rounds, result>> /\ Client

\* main(): what the caller of the program sees.
ExitCode == CASE result = "ok" -> 0
              [] result \in {"user_error", "no_resource", "server_error"} -> 1
              [] result = "interactive" -> code
              [] OTHER -> 2

(***************************************************************************)
(* The world: updates of the place, the port, and microcom.                *)
(***************************************************************************)
PlaceChanges ==
    /\ pc # "done"
    /\ \E who \in {"me", "other", "none"}, may \in BOOLEAN :
        /\ who = "me" => may
        /\ who = "none" => ~may
        /\ acquired' = who /\ allowed' = may
    /\ UNCHANGED <<loop, avail, pc, microcom, code, deaf, overdue, rounds, result>>

PortChanges ==
    /\ pc # "done" /\ avail' = ~avail
    /\ UNCHANGED <<loop, acquired, allowed, pc, microcom, code, deaf, overdue, rounds, result>>

MicrocomEnds ==
    /\ Running
    /\ microcom' = "ended" /\ code' \in Codes
    /\ UNCHANGED <<loop, acquired, allowed, avail, pc, deaf, overdue, rounds, result>>

Next ==
    \/ AwaitResource \/ StartMicrocom \/ Watch \/ Terminate \/ Kill \/ SleepEnds
    \/ PlaceChanges \/ PortChanges \/ MicrocomEnds

\* The client's event loop runs on.
Steps == AwaitResource \/ StartMicrocom \/ Watch \/ Terminate \/ Kill \/ SleepEnds
Spec == Init /\ [][Next]_vars
-----------------------------------------------------------------------------
\* A place that was lost is noticed at the first check, which stops microcom.
Noticed == overdue <= 1 /\ (overdue = 1 => pc \in {"terminate", "kill", "done"})

\* The command does not end before its microcom, unless that survives even
\* kill(), and then the exit code is not that of success.
NoOrphan == (pc = "done" /\ Running) => "KILL" \in deaf /\ ExitCode = 2

\* Success means that microcom ended without error or that the place is no
\* longer acquired.
ExitHonest == (pc = "done" /\ ExitCode = 0) => acquired = "none" \/ microcom = "ended"

ConsoleSessionHonest == Noticed /\ NoOrphan /\ ExitHonest

\* Without a place to use, microcom does not go on for ever.
Lingers == Running /\ ~Allowed /\ pc # "done"
-----------------------------------------------------------------------------
(***************************************************************************)
(* The inductive invariant: where the client is says what it knows of its  *)
(* microcom and of the end.                                                *)
(***************************************************************************)
MicrocomKnown ==
    /\ Running => pc \in {"watch", "terminate", "kill", "done"}
    /\ pc = "watch" => microcom # "none"
    /\ pc # "done" => result = "none"
    /\ result = "interactive" => code # 0 /\ ~Running

ConsoleSessionInv == TypeOK /\ overdue \in {0, 1} /\ MicrocomKnown /\ ConsoleSessionHonest
=============================================================================
