----------------------------- MODULE SSHDriver -----------------------------
(***************************************************************************)
(* SSHDriver: a control master started with retries, a keepalive that says *)
(* whether the target is still there, and forwardings that last as long as *)
(* a with statement.  The target may go down at any time.                  *)
(***************************************************************************)
EXTENDS Naturals, FiniteSets

CONSTANTS MaxAttempts,  \* ssh masters started
          Scopes,       \* with statements around a forwarding
          Ports         \* ports that they forward

VARIABLES
    status,     \* of the driver: "bound", "connecting" (in _start_own_master), "active"
    n,          \* attempts made so far: the last one's directory is self.tmpdir
    ssh,        \* what became of the ssh of each attempt
    control,    \* the attempt that self.control belongs to, or 0
    dirs, passfiles,    \* attempts whose directory, or password file, is still there
    keepalive,  \* "none", "running", "dead"
    board,      \* the target answers
    password,   \* a password is used
    scope,      \* what each with statement opened: <<port, attempt>>
    forwarded,  \* ports that the current master forwards
    crossed,    \* a scope was left whose port another scope had opened too
    result
vars == <<status, n, ssh, control, dirs, passfiles, keepalive, board, password, scope, forwarded, crossed, result>>

\* "trying" goes on after its time was up, and may still become a "late" master.
Fates == {"none", "refused", "unstarted", "trying", "late", "master", "ended"}
Closed == <<0, 0>>
Attempts == 1..MaxAttempts

\* The type invariant.
TypeOK ==
    /\ status \in {"bound", "connecting", "active"} /\ n \in 0..MaxAttempts /\ control \in 0..MaxAttempts
    /\ ssh \in [Attempts -> Fates] /\ dirs \subseteq Attempts /\ passfiles \subseteq Attempts
    /\ keepalive \in {"none", "running", "dead"} /\ board \in BOOLEAN /\ password \in BOOLEAN
    /\ forwarded \subseteq Ports /\ crossed \in BOOLEAN
    /\ result \in {"none", "ok", "error", "no_keepalive", "inactive", "no_connection", "bad_arguments"}

Init ==
    /\ status = "bound" /\ n = 0 /\ ssh = [i \in Attempts |-> "none"] /\ control = 0
    /\ dirs = {} /\ passfiles = {} /\ keepalive = "none"
    /\ board \in BOOLEAN /\ password \in BOOLEAN
    /\ scope = [s \in Scopes |-> Closed] /\ forwarded = {} /\ crossed = FALSE /\ result = "none"

Mastered == control # 0 /\ ssh[control] = "master"
Answers(how) == /\ result' = how
                /\ UNCHANGED <<status, n, ssh, control, dirs, passfiles, keepalive, board, password, scope, forwarded, crossed>>

(***************************************************************************)
(* on_activate.  Every attempt makes a directory; only the last one's is   *)
(* known to the driver.                                                    *)
(***************************************************************************)
Activate ==
    /\ status = "bound"
    /\ status' = "connecting" /\ result' = "none"
    /\ UNCHANGED <<n, ssh, control, dirs, passfiles, keepalive, board, password, scope, forwarded, crossed>>

Attempt(fate) == /\ status = "connecting" /\ n < MaxAttempts
                 /\ n' = n + 1 /\ dirs' = dirs \cup {n + 1}
                 /\ ssh' = [ssh EXCEPT ![n + 1] = fate]

\* _start_keepalive, _stop_keepalive (with kill() if need be), and the end of
\* the master, if it is still there, with the directory of the last attempt.
StartKeepalive == keepalive' = "running"
StopKeepalive == keepalive' = "none"
CleanupOwnMaster == /\ ssh' = [ssh EXCEPT ![control] = "ended"] /\ forwarded' = {}
                    /\ dirs' = dirs \ {n}

\* ssh goes into the background and its socket is there: a keepalive is
\* started through it.
AttemptConnects ==
    /\ Attempt("master") /\ board
    /\ control' = n + 1 /\ StartKeepalive /\ status' = "active" /\ result' = "ok"
    /\ forwarded' = {}
    /\ UNCHANGED <<passfiles, board, password, scope, crossed>>

\* A return code, no socket, or no end in time, in which case ssh goes on:
\* the next attempt follows half a second later, or the time is up.
AttemptFails(fate) ==
    /\ Attempt(fate)
    /\ \/ status' = "connecting" /\ UNCHANGED result
       \/ status' = "bound" /\ result' = "no_connection"
    /\ UNCHANGED <<control, passfiles, keepalive, board, password, scope, forwarded, crossed>>

\* No ssh to start, or more than one % in the address: not an ExecutionError,
\* and the password file is written before and removed only after Popen.
AttemptBreaks ==
    /\ Attempt("unstarted")
    /\ passfiles' = IF password THEN passfiles \cup {n + 1} ELSE passfiles
    /\ status' = "bound" /\ result' = "error"
    /\ UNCHANGED <<control, keepalive, board, password, scope, forwarded, crossed>>

Deactivate_leaves_master ==
    /\ status = "active"
    /\ keepalive' = "none" /\ dirs' = dirs \ {n}
    /\ status' = "bound" /\ result' = "ok"
    /\ UNCHANGED <<n, ssh, control, passfiles, board, password, scope, forwarded, crossed>>

\* on_deactivate.
Deactivate ==
    /\ status = "active"
    /\ StopKeepalive /\ CleanupOwnMaster
    /\ status' = "bound" /\ result' = "ok"
    /\ UNCHANGED <<n, control, passfiles, board, password, scope, crossed>>

(***************************************************************************)
(* Operations.                                                             *)
(***************************************************************************)
Alive == status = "active" /\ keepalive = "running"

\* run, rsync, sshfs: refused without a keepalive; a connection that is lost
\* right after the check is an error.
Run == Alive /\ \E how \in {"ok", "error"} : Answers(how)
RunRefused == status = "active" /\ keepalive = "dead" /\ Answers("no_keepalive")

\* interact() does not check that the driver is active: there may be no
\* keepalive to ask.
Interact ==
    /\ status # "connecting"
    /\ \/ Alive /\ \E how \in {"ok", "error"} : Answers(how)
       \/ keepalive = "dead" /\ Answers("no_keepalive")
       \/ keepalive = "none" /\ Answers("error")

\* scp: exactly one side is remote, and a mode asked for must be supported.
Supported(version, sftp, scp) == (sftp => version # "8.5") /\ (scp => version = "9.0")
Scp(remotes, version, sftp, scp) ==
    /\ Alive
    /\ IF remotes # 1 THEN Answers("bad_arguments")
       ELSE IF ~Supported(version, sftp, scp) THEN Answers("error")
       ELSE \E how \in {"ok", "error"} : Answers(how)

\* put and get do not look at the keepalive: ssh makes a connection of its
\* own when the socket is gone.
Transfer ==
    /\ status = "active"
    /\ \/ (Mastered \/ board) /\ Answers("ok")
       \/ Answers("error")

ForwardOpen(s, port) ==
    /\ Alive /\ scope[s] = Closed
    /\ \/ /\ Mastered
          /\ scope' = [scope EXCEPT ![s] = <<port, control>>]
          /\ forwarded' = forwarded \cup {port} /\ result' = "ok"
       \/ result' = "error" /\ UNCHANGED <<scope, forwarded>>
    /\ UNCHANGED <<status, n, ssh, control, dirs, passfiles, keepalive, board, password, crossed>>

\* The end of the with statement asks whatever master there is now; errors are
\* not reported.
ForwardClose(s) ==
    /\ scope[s] # Closed /\ status # "connecting"
    /\ forwarded' = IF Mastered THEN forwarded \ {scope[s][1]} ELSE forwarded
    /\ crossed' = (crossed \/ \E other \in Scopes \ {s} : scope[other][1] = scope[s][1])
    /\ scope' = [scope EXCEPT ![s] = Closed]
    /\ UNCHANGED <<status, n, ssh, control, dirs, passfiles, keepalive, board, password, result>>

(***************************************************************************)
(* Outside.                                                                *)
(***************************************************************************)
BoardDown ==
    /\ board
    /\ board' = FALSE
    /\ ssh' = [i \in Attempts |-> IF ssh[i] \in {"master", "late"} THEN "ended" ELSE ssh[i]]
    /\ keepalive' = IF keepalive = "running" THEN "dead" ELSE keepalive
    /\ forwarded' = {}
    /\ UNCHANGED <<status, n, control, dirs, passfiles, password, scope, crossed, result>>

BoardUp ==
    /\ ~board
    /\ board' = TRUE
    /\ UNCHANGED <<status, n, ssh, control, dirs, passfiles, keepalive, password, scope, forwarded, crossed, result>>

\* An ssh that nobody waits for any more connects, or gives up.
LateEnd(i) ==
    /\ ssh[i] = "trying"
    /\ ssh' = [ssh EXCEPT ![i] = IF board THEN "late" ELSE "refused"]
    /\ UNCHANGED <<status, n, control, dirs, passfiles, keepalive, board, password, scope, forwarded, crossed, result>>

Next ==
    \/ Activate \/ AttemptConnects \/ AttemptBreaks \/ Deactivate
    \/ \E fate \in {"refused", "trying"} : AttemptFails(fate)
    \/ Run \/ RunRefused \/ Interact \/ Transfer
    \/ \E remotes \in 0..2, version \in {"8.5", "8.6", "9.0"}, sftp, scp \in BOOLEAN : Scp(remotes, version, sftp, scp)
    \/ \E s \in Scopes : ForwardClose(s) \/ \E port \in Ports : ForwardOpen(s, port)
    \/ BoardDown \/ BoardUp
    \/ \E i \in Attempts : LateEnd(i)

Spec == Init /\ [][Next]_vars
-----------------------------------------------------------------------------
\* As long as the keepalive runs, commands go through the driver's own master,
\* which is the one that the last attempt started.
CommandsReachMaster == Alive => Mastered /\ control = n

\* A driver that is not active has no master, no forwarding and no directory
\* of a connection that it once had.  (What attempts that failed leave behind,
\* it has no name for: their directories, and an ssh that was too slow.)
NothingLeft ==
    status # "active" =>
        /\ \A i \in Attempts : ssh[i] # "master"
        /\ \A i \in dirs : ssh[i] # "ended" \/ i # control
        /\ keepalive = "none" /\ forwarded = {}

\* A password is left on disk only when ssh could not even be started.
PasswordRemoved == \A i \in passfiles : ssh[i] = "unstarted"

\* Inside its with statement a port is forwarded, as long as the master that
\* was asked is there and nobody else used the same port.
ForwardsWork == (Mastered /\ ~crossed) => \A s \in Scopes : scope[s][2] = control => scope[s][1] \in forwarded

SSHDriverHonest == CommandsReachMaster /\ NothingLeft /\ PasswordRemoved /\ ForwardsWork
-----------------------------------------------------------------------------
(***************************************************************************)
(* The inductive invariant: self.control is the last attempt that became a *)
(* master, and the only one that can still be one.                         *)
(***************************************************************************)
ControlKnown ==
    /\ control <= n
    /\ control # 0 => ssh[control] \in {"master", "ended"} /\ (status = "active" \/ control \notin dirs)
    /\ status = "active" => control = n /\ control # 0 /\ keepalive # "none"
    /\ keepalive = "running" => status = "active" /\ ssh[control] = "master"
    /\ \A i \in Attempts : /\ ssh[i] = "master" => status = "active" /\ i = control
                           /\ i > n => ssh[i] = "none"

\* No with statement has anything of an attempt that is still to come.
ScopesKnown == scope \in [Scopes -> ({0} \cup Ports) \X (0..MaxAttempts)] /\ \A s \in Scopes : scope[s][2] <= n

SSHDriverInv == TypeOK /\ ControlKnown /\ ScopesKnown /\ SSHDriverHonest
=============================================================================
