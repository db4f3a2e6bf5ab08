----------------------------- MODULE Strategies -----------------------------
(***************************************************************************)
(* BareboxStrategy, UBootStrategy, ShellStrategy and DockerStrategy: the   *)
(* order in which transition() and force() use the drivers of a target,    *)
(* and never_retry.  Activation is that of module Target, reduced to the   *)
(* drivers a strategy binds: the loader and the shell need the console,    *)
(* which serves one of them at a time.                                     *)
(***************************************************************************)
EXTENDS Naturals, Sequences

VARIABLES
    kind,       \* the strategy
    status,     \* self.status
    broken,     \* self.broken is set
    todo,       \* what is left of the call under way, inner calls unfolded
    active,     \* the active drivers
    board,      \* "off", "loader" (at its prompt), "linux", or "booting"
    forced,     \* the status was set by force()
    leftover,   \* force("off") has left a client of the console active
    result      \* of the last call
vars == <<kind, status, broken, todo, active, board, forced, leftover, result>>

Kinds == {"barebox", "uboot", "shell", "docker"}
HasLoader == kind \in {"barebox", "uboot"}
Statuses == CASE HasLoader -> {"off", "loader", "shell"}
              [] kind = "shell" -> {"off", "shell"}
              [] kind = "docker" -> {"gone", "accessible"}

\* The type invariant.
TypeOK ==
    /\ kind \in Kinds /\ status \in Statuses \cup {"unknown"} /\ broken \in BOOLEAN
    /\ active \subseteq {"power", "console", "loader", "shell", "docker"}
    /\ board \in {"off", "loader", "linux", "booting"}
    /\ result \in {"none", "done", "nothing", "failed", "refused", "inactive"}

Init ==
    /\ kind \in Kinds
    /\ status = "unknown" /\ broken = FALSE /\ todo = <<>>
    /\ active = {} /\ board \in {"off", "booting", "linux"}
    /\ forced = FALSE /\ leftover = FALSE /\ result = "none"

(***************************************************************************)
(* The bodies of transition(): <<what, whom>>, with inner calls of         *)
(* transition() in place.  A status that is already there is skipped.      *)
(***************************************************************************)
Do(what, whom) == <<what, whom>>
Inner(to, body) == IF status = to THEN <<>> ELSE body \o <<Do("status", to)>>

ToOff_keeps_console == <<Do("activate", "power"), Do("use", "off")>>
ToOff == <<Do("deactivate", "console"), Do("activate", "power"), Do("use", "off")>>
ToLoader == Inner("off", ToOff) \o
            <<Do("activate", "console"), Do("use", "cycle"), Do("activate", "loader")>>
ToShell == IF HasLoader
           THEN Inner("loader", ToLoader) \o
                <<Do("use", "boot"), Do("use", "await_boot"), Do("activate", "shell"), Do("use", "run")>>
           ELSE Inner("off", ToOff) \o
                <<Do("activate", "console"), Do("use", "cycle"), Do("activate", "shell"), Do("use", "run")>>
ToAccessible == <<Do("activate", "docker"), Do("use", "on")>>
ToGone == <<Do("activate", "docker"), Do("use", "docker_off"), Do("deactivate", "docker")>>
Body(to) == CASE to = "off" -> ToOff
              [] to = "loader" -> ToLoader
              [] to = "shell" -> ToShell
              [] to = "accessible" -> ToAccessible
              [] to = "gone" -> ToGone

\* force(): <<>> stands for a status that cannot be forced.
ForceBody(to) ==
    CASE kind = "barebox" /\ to \in {"loader", "shell"} -> <<Do("activate", "power"), Do("activate", to)>>
      [] kind = "uboot" /\ to = "off" -> <<Do("activate", "power")>>
      [] kind = "uboot" /\ to # "off" -> <<Do("activate", to)>>
      [] kind = "shell" /\ to = "off" -> <<Do("deactivate", "shell"), Do("activate", "power")>>
      [] kind = "shell" /\ to = "shell" -> <<Do("activate", "power"), Do("activate", "shell")>>
      [] OTHER -> <<>>

Idle == todo = <<>>
Outside == <<kind, board, active>>

\* never_retry: a broken strategy raises at once.
Refused ==
    /\ Idle /\ broken
    /\ result' = "refused"
    /\ UNCHANGED <<Outside, status, broken, todo, forced, leftover>>

Transition(to) ==
    /\ Idle /\ ~broken
    /\ IF status = to THEN result' = "nothing" /\ UNCHANGED todo
       ELSE /\ todo' = Append(Body(to), Do("status", to))
            /\ result' = "none"
    /\ UNCHANGED <<Outside, status, broken, forced, leftover>>

Force(to) ==
    /\ Idle /\ ~broken /\ kind # "docker"
    /\ IF ForceBody(to) = <<>> THEN broken' = TRUE /\ result' = "failed" /\ UNCHANGED todo
       ELSE /\ todo' = ForceBody(to) \o <<Do("force", to)>>
            /\ result' = "none" /\ UNCHANGED broken
    /\ UNCHANGED <<Outside, status, forced, leftover>>

(***************************************************************************)
(* One step of a body.  Anything may raise instead, and check_active does  *)
(* for a driver that is not active; the strategy is broken from then on,   *)
(* whatever it has done so far.  That is so for an Exception; after a      *)
(* KeyboardInterrupt it would not be broken (common.py:24), which is left   *)
(* out: the test run that it ends has no use for the strategy.             *)
(***************************************************************************)
Step == Head(todo)
Driver == CASE Step[2] \in {"off", "cycle"} -> "power"
            [] Step[2] \in {"boot", "await_boot"} -> "loader"
            [] Step[2] = "run" -> "shell"
            [] OTHER -> "docker"

Goes == todo' = Tail(todo) /\ UNCHANGED <<kind, broken>>

\* Deactivating the console takes its clients along.
Deactivate ==
    /\ ~Idle /\ Step[1] = "deactivate"
    /\ active' = active \ (IF Step[2] = "console" THEN {"console", "loader", "shell"} ELSE {Step[2]})
    /\ leftover' = (leftover /\ active' \cap {"loader", "shell"} # {})
    /\ Goes /\ UNCHANGED <<board, status, forced, result>>

\* A loader or a shell waits for its prompt; the other client of the console
\* is deactivated.
Prompt(driver) == CASE driver = "loader" -> {"loader"}
                    [] driver = "shell" -> {"linux"}
                    [] OTHER -> {"off", "booting", "loader", "linux"}
Activate ==
    /\ ~Idle /\ Step[1] = "activate"
    /\ Step[2] \in active \/ board \in Prompt(Step[2]) \/ (board = "booting" /\ Step[2] \in {"loader", "shell"})
    /\ active' = IF Step[2] \in {"loader", "shell"} THEN (active \ {"loader", "shell"}) \cup {"console", Step[2]}
                 ELSE active \cup {Step[2]}
    /\ board' = IF Step[2] \in active THEN board ELSE
                [off |-> board, loader |-> board, linux |-> board,
                 booting |-> CASE Step[2] = "loader" -> "loader" [] Step[2] = "shell" -> "linux" [] OTHER -> board][board]
    /\ Goes /\ UNCHANGED <<status, forced, leftover, result>>

Use ==
    /\ ~Idle /\ Step[1] = "use" /\ Driver \in active
    /\ Step[2] = "await_boot" => board = "booting"
    /\ board' = CASE Step[2] \in {"off", "docker_off"} -> "off"
                  [] Step[2] \in {"cycle", "boot"} -> "booting"
                  [] Step[2] = "on" -> "linux"
                  [] OTHER -> board
    /\ Goes /\ UNCHANGED <<active, status, forced, leftover, result>>

SetStatus ==
    /\ ~Idle /\ Step[1] \in {"status", "force"}
    /\ status' = Step[2]
    /\ forced' = (Step[1] = "force")
    /\ leftover' = (leftover \/ (Step = Do("force", "off") /\ active \cap {"loader", "shell"} # {}))
    /\ result' = "done"
    /\ Goes /\ UNCHANGED <<board, active>>

Raises ==
    /\ ~Idle /\ Step[1] \notin {"status", "force"}
    /\ todo' = <<>> /\ broken' = TRUE
    /\ result' = IF Step[1] = "use" /\ Driver \notin active THEN "inactive" ELSE "failed"
    /\ UNCHANGED <<Outside, status, forced, leftover>>

Next ==
    \/ Refused \/ Deactivate \/ Activate \/ Use \/ SetStatus \/ Raises
    \/ \E to \in Statuses : Transition(to) \/ Force(to)

Spec == Init /\ [][Next]_vars
-----------------------------------------------------------------------------
\* A strategy that is in order never uses a driver that is not active,
\* whatever was forced or skipped before.
DriversReady == result # "inactive"

\* What a strategy in order says is so: the drivers of its status are active,
\* those of the others are not, and the board is there.  (UBootStrategy leaves
\* the loader active when "off" is forced, and then does not wait for its
\* prompt again.)
StatusIsTrue == (Idle /\ ~broken /\ ~leftover) =>
    CASE status = "off" -> active \cap {"loader", "shell"} = {} /\ (forced \/ board = "off")
      [] status = "loader" -> "loader" \in active /\ board = "loader"
      [] status = "shell" -> "shell" \in active /\ "loader" \notin active /\ board = "linux"
      [] status = "accessible" -> "docker" \in active /\ board = "linux"
      [] status = "gone" -> active = {} /\ board = "off"
      [] OTHER -> TRUE

StrategiesHonest == DriversReady /\ StatusIsTrue
-----------------------------------------------------------------------------
(***************************************************************************)
(* The inductive invariant: what is left of a body is the end of one of    *)
(* these, and before each of its steps something is known of the drivers   *)
(* and the board.                                                          *)
(***************************************************************************)
LoaderBody == <<Do("deactivate", "console"), Do("activate", "power"), Do("use", "off"), Do("status", "off"),
                Do("activate", "console"), Do("use", "cycle"), Do("activate", "loader"), Do("status", "loader"),
                Do("use", "boot"), Do("use", "await_boot"), Do("activate", "shell"), Do("use", "run"),
                Do("status", "shell")>>
ShellBody == <<Do("deactivate", "console"), Do("activate", "power"), Do("use", "off"), Do("status", "off"),
               Do("activate", "console"), Do("use", "cycle"), Do("activate", "shell"), Do("use", "run"),
               Do("status", "shell")>>
AccessibleBody == <<Do("activate", "docker"), Do("use", "on"), Do("status", "accessible")>>
GoneBody == <<Do("activate", "docker"), Do("use", "docker_off"), Do("deactivate", "docker"), Do("status", "gone")>>

Orders == {"deactivate", "activate", "use", "status", "force"}
          \X {"power", "console", "loader", "shell", "docker", "off", "docker_off", "cycle", "boot", "await_boot",
               "run", "on", "accessible", "gone"}

\* t is this stretch of a body, m steps from the k-th on.
Stretch(t, body, k, m) == Len(t) = m /\ \A i \in 1..m : t[i] = body[k - 1 + i]
\* The k-th of the first n steps of a body is the next one.
Within(body, n, k) == k \in 1..n /\ Stretch(todo, body, k, n + 1 - k)

Quiet == active \cap {"loader", "shell"} = {}
AtPrompt(driver, where) == driver \in active => leftover \/ board = where
Prompts == AtPrompt("loader", "loader") /\ AtPrompt("shell", "linux")
KnownLoader == "loader" \in active /\ "shell" \notin active /\ (leftover \/ board = "loader")
KnownShell == "shell" \in active /\ "loader" \notin active /\ (leftover \/ board = "linux")

OffKnown(k) ==
    /\ k \in 2..4 => Quiet /\ ~leftover
    /\ k \in 3..7 => "power" \in active
    /\ k = 4 => board = "off"
    /\ k \in 5..7 => leftover \/ Quiet
    /\ k = 7 => board = "booting"
LoaderKnown(k) ==
    /\ OffKnown(k)
    /\ k \in 8..9 => KnownLoader
    /\ k \in 10..11 => "loader" \in active /\ "shell" \notin active /\ board = "booting"
    /\ k \in 12..13 => KnownShell
ShellKnown(k) == OffKnown(k) /\ (k \in 8..9 => KnownShell)
DockerKnown(k, after) ==
    /\ k \in {2, 3} => "docker" \in active
    /\ k \in {3, 4} => board = after
    /\ k = 4 => active = {}

\* What is forced: the drivers of a status that are not there yet.
UpKnown(to) == IF to = "loader" THEN KnownLoader ELSE KnownShell
ForceKnown(to) ==
    /\ Prompts
    /\ \/ kind # "uboot" /\ to # "off" /\ \E k \in 1..3 :
            /\ Within(<<Do("activate", "power"), Do("activate", to), Do("force", to)>>, 3, k)
            /\ k = 3 => UpKnown(to)
       \/ kind = "uboot" /\ to # "off" /\ \E k \in 1..2 :
            /\ Within(<<Do("activate", to), Do("force", to)>>, 2, k)
            /\ k = 2 => UpKnown(to)
       \/ kind = "uboot" /\ to = "off" /\ \E k \in 1..2 :
            /\ Within(<<Do("activate", "power"), Do("force", "off")>>, 2, k)
            /\ k = 2 => "power" \in active
       \/ kind = "shell" /\ to = "off" /\ \E k \in 1..3 :
            /\ Within(<<Do("deactivate", "shell"), Do("activate", "power"), Do("force", "off")>>, 3, k)
            /\ k > 1 => Quiet
            /\ k = 3 => "power" \in active

Resting ==
    /\ kind # "docker" => Prompts
    /\ status = "off" => "power" \in active /\ (leftover \/ (Quiet /\ (forced \/ board = "off")))
    /\ status = "loader" => KnownLoader
    /\ status = "shell" => KnownShell
    /\ status = "accessible" => "docker" \in active /\ board = "linux"
    /\ status = "gone" => active = {} /\ board = "off"
Underway ==
    \/ HasLoader /\ \E n \in {4, 8, 13}, k \in 1..13 : Within(LoaderBody, n, k) /\ LoaderKnown(k)
    \/ kind = "shell" /\ \E n \in {4, 9}, k \in 1..9 : Within(ShellBody, n, k) /\ ShellKnown(k)
    \/ kind = "docker" /\ \E k \in 1..3 : Within(AccessibleBody, 3, k) /\ DockerKnown(k, "linux")
    \/ kind = "docker" /\ \E k \in 1..4 : Within(GoneBody, 4, k) /\ DockerKnown(k, "off")
    \/ kind # "docker" /\ \E to \in Statuses : ForceKnown(to)

StrategiesInv ==
    /\ TypeOK /\ DriversReady
    /\ todo \in Seq(Orders)
    /\ kind = "docker" => active \subseteq {"docker"}
    /\ kind = "shell" => "loader" \notin active
    /\ IF Idle THEN broken \/ Resting ELSE ~broken /\ Underway
=============================================================================
