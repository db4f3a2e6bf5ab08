------------------------------ MODULE Console ------------------------------
(***************************************************************************)
(* The drivers that talk to a prompt: ShellDriver, UBootDriver,            *)
(* SmallUBootDriver and BareboxDriver, with CommandMixin above and the     *)
(* expect buffer of ConsoleExpectMixin below them.                         *)
(*                                                                         *)
(* The board is at the other end of a serial line, takes its time, and may *)
(* reboot at any moment.  What it prints is a sequence of tokens; lines it *)
(* has not read yet are queued.  A marker is the number of the line that   *)
(* contains it.                                                            *)
(***************************************************************************)
EXTENDS Naturals, Sequences

CONSTANTS Kinds,        \* the drivers of this instance
          MaxLines,     \* lines that are sent at most
          MaxBoots,     \* times the board starts at most
          MaxSaid       \* tokens in the buffer and lines in the queue

VARIABLES
    kind,       \* the driver
    secret,     \* the board asks for no password, or the driver has none, a wrong or the right one
    board,      \* "off", "autoboot", "login", "password", "prompt", "kernel"
    knows,      \* the shell of the board knows the function run
    boots,      \* how often the board has started
    typed,      \* lines that the board has not read yet
    said,       \* what expect has not consumed yet
    lines,      \* lines sent so far
    d           \* the driver: status, active and the call under way
vars == <<kind, secret, board, knows, boots, typed, said, lines, d>>

Shell == kind = "shell"
Results == {"none", "active", "reset", "ok", "found", "expired", "booted", "timeout", "desync",
            "no_password", "wrong_password", "no_answer"}
Stages == {"idle", "await", "check", "checking", "inject", "injecting", "init", "running", "run", "boot"}

(***************************************************************************)
(* mark: the line whose answer is awaited.  inits: how many commands have  *)
(* to be run before the driver is active.  did, silenced, entered, last:   *)
(* local variables of the functions that wait for a prompt.  clean: the    *)
(* board has not restarted since activation began.  hopeless: a run()      *)
(* timed out although the board had read everything.  prepared: the        *)
(* commands that belong to activation were answered since the driver last  *)
(* had no prompt.  stale: when activation began, a prompt from before the  *)
(* login of the board was unread.                                          *)
(***************************************************************************)
Fresh == [status |-> 0, active |-> FALSE, op |-> "none", stage |-> "idle", mark |-> 0, inits |-> 0,
          did |-> FALSE, silenced |-> FALSE, entered |-> FALSE, last |-> <<>>, result |-> "none",
          clean |-> TRUE, hopeless |-> FALSE, prepared |-> FALSE, stale |-> FALSE]

Tok(what, n) == <<what, n>>
Is(t, what) == t[1] = what
Prompt == Tok("prompt", 0)

\* The type invariant.
TypeOK ==
    /\ board \in {"off", "autoboot", "login", "password", "prompt", "kernel"}
    /\ boots \in 0..MaxBoots /\ lines \in 0..MaxLines + 2 /\ Len(typed) <= MaxSaid
    /\ d.stage \in Stages /\ d.result \in Results /\ d.status \in {0, 1}
    /\ d.active => d.op # "activate"

Init ==
    /\ kind \in Kinds
    /\ board \in {"off", "prompt"} /\ knows = FALSE
    /\ boots = IF board = "off" THEN 0 ELSE 1
    /\ secret \in IF board = "off" THEN {"none", "unknown", "wrong", "right"} ELSE {"none"}
    /\ typed = <<>> /\ said = IF board = "off" THEN <<>> ELSE <<Prompt>>
    /\ lines = 0
    /\ d = Fresh

(***************************************************************************)
(* The board (external): it starts, counts down or shows its login, and    *)
(* reads a line.                                                           *)
(***************************************************************************)
Prints(tokens) == /\ Len(said) + Len(tokens) <= MaxSaid
                  /\ said' = said \o tokens
Greeting == IF Shell THEN "login" ELSE "autoboot"

BoardStarts ==
    /\ boots < MaxBoots
    /\ boots' = boots + 1 /\ knows' = FALSE
    /\ board' = Greeting /\ Prints(<<Tok(Greeting, 0)>>)
    /\ typed' = <<>>
    /\ d' = [d EXCEPT !.clean = FALSE]
    /\ UNCHANGED <<kind, secret, lines>>

AutobootPasses ==
    /\ board = "autoboot"
    /\ board' = "kernel" /\ Prints(<<Tok("kernel", 0)>>)
    /\ UNCHANGED <<kind, secret, knows, boots, typed, lines, d>>

AfterLogin == IF secret # "none" /\ board # "password" THEN <<"password", <<Tok("password", 0)>>>> ELSE <<"prompt", <<Prompt>>>>

\* The state of the board after a line, and what it prints.
Reads(l) ==
    CASE board = "autoboot" -> AfterLogin
      [] board = "login" -> IF Is(l, "user") THEN AfterLogin ELSE <<"login", <<Tok("login", 0)>>>>
      [] board = "password" -> IF Is(l, "secret") /\ secret = "right" THEN AfterLogin
                               ELSE IF Shell THEN <<"login", <<Tok("login", 0)>>>>
                               ELSE <<"password", <<Tok("password", 0)>>>>
      [] board = "prompt" /\ Is(l, "check") -> <<"prompt", <<Tok("mark", l[2]), Prompt>>>>
      [] board = "prompt" /\ Is(l, "run") -> <<"prompt", IF Shell /\ ~knows THEN <<Prompt>> ELSE <<Tok("out", l[2]), Prompt>>>>
      [] board = "prompt" /\ Is(l, "boot") -> <<"kernel", <<Tok("kernel", 0)>>>>
      [] board = "prompt" /\ Is(l, "reset") -> <<"autoboot", <<Tok("autoboot", 0)>>>>
      [] board = "prompt" -> <<"prompt", <<Prompt>>>>
      [] OTHER -> <<board, <<>>>>

BoardReads ==
    /\ typed # <<>>
    /\ board' = Reads(Head(typed))[1] /\ Prints(Reads(Head(typed))[2])
    /\ knows' = IF board = "prompt" THEN knows \/ Is(Head(typed), "define") ELSE FALSE
    /\ typed' = Tail(typed)
    /\ UNCHANGED <<kind, secret, boots, lines, d>>

(***************************************************************************)
(* expect(): the first match in the buffer, which is consumed up to its    *)
(* end; a timeout leaves the buffer as it is.                              *)
(***************************************************************************)
Where(P(_)) == {i \in 1..Len(said) : P(i)}
First(S) == CHOOSE i \in S : \A j \in S : i <= j
Last(S) == CHOOSE i \in S : \A j \in S : j <= i
Consume(i) == said' = SubSeq(said, i + 1, Len(said))
Keep == UNCHANGED said

Prompts == Where(LAMBDA i : Is(said[i], "prompt"))
\* SmallUBootDriver waits for two texts, one after the other.
Asked == IF kind # "small" THEN {"prompt", Greeting, "password"}
         ELSE IF d.did THEN {"prompt"} ELSE {Greeting}
Asking == Where(LAMBDA i : said[i][1] \in Asked)
Marked == Where(LAMBDA i : said[i] = Tok("mark", d.mark))

\* _check_prompt: the shell wants its marker and the prompt in one match,
\* the boot loaders one after the other.
CheckEnd == IF Shell THEN {i \in Prompts : i - 1 \in Marked}
            ELSE {i \in Prompts : Marked # {} /\ First(Marked) < i}

Outputs_any == Where(LAMBDA i : Is(said[i], "out"))
\* {marker}(.*){marker}, or the lines between two markers.
Outputs == Where(LAMBDA i : said[i] = Tok("out", d.mark))

\* _run: the U-Boot drivers take what is before the next prompt; the others
\* look for their own output and the prompt after it.
RunEnd == CASE Shell -> {i \in Prompts : i - 1 \in Outputs}
            [] kind = "barebox" -> {i \in Prompts : Outputs # {} /\ First(Outputs) < i}
            [] OTHER -> Prompts
RunMatch == IF kind = "barebox" THEN Last(RunEnd) ELSE First(RunEnd)
Answers == {i \in Outputs : i <= RunMatch}

(***************************************************************************)
(* The driver: sendline() adds a line for the board.                       *)
(***************************************************************************)
Send(what) == /\ lines < MaxLines + (IF what \in {"run", "check"} THEN 0 ELSE 2)
              /\ lines' = lines + 1
              /\ Len(typed) < MaxSaid
              /\ typed' = Append(typed, Tok(what, lines + 1))
Quiet == UNCHANGED <<lines, typed>>
Stays == UNCHANGED <<kind, secret, board, knows, boots>>

Ends(result) == [d EXCEPT !.stage = "idle", !.op = "none", !.result = result, !.mark = 0,
                          !.did = FALSE, !.silenced = FALSE, !.entered = FALSE, !.last = <<>>]
Fails(result) == [Ends(result) EXCEPT !.hopeless = (typed = <<>> /\ d.clean /\ board = "prompt"
                                                       /\ d.op \in {"run", "wait_for", "poll", "boot"})]
Idle == d.stage = "idle"
Begin(op, stage) ==
    [d EXCEPT !.op = op, !.stage = stage, !.result = "none", !.hopeless = FALSE]

\* on_activate: a driver that has a prompt already does not wait for it.
Activate ==
    /\ Idle /\ ~d.active
    /\ d' = IF d.status = 0 THEN [Begin("activate", "await") EXCEPT !.prepared = FALSE, !.clean = TRUE,
                !.stale = Shell /\ \E i \in Prompts : \E j \in i..Len(said) : Is(said[j], Greeting)]
            ELSE [Begin("none", "idle") EXCEPT !.active = TRUE, !.result = "active"]
    /\ Stays /\ Keep /\ Quiet

Deactivate ==
    /\ Idle /\ d.active
    /\ d' = [Fresh EXCEPT !.clean = d.clean]
    /\ Stays /\ Keep /\ Quiet

\* What remains to be done once there is a prompt: _inject_run, the
\* init_commands, or the log level of barebox (asked for and set to 0).
Prepared(x) == IF Shell THEN [x EXCEPT !.stage = "inject"]
               ELSE [x EXCEPT !.stage = "init", !.inits = IF kind = "barebox" THEN 2 ELSE 1]
Activated(x) == [x EXCEPT !.stage = "idle", !.op = "none", !.prepared = TRUE, !.mark = 0, !.last = <<>>,
                          !.did = FALSE, !.silenced = FALSE, !.entered = FALSE,
                          !.active = TRUE, !.result = IF d.op = "activate" THEN "active" ELSE "reset"]

\* _await_login and _await_prompt, one round each: the first of the texts
\* that are waited for.
AwaitPrompt ==
    /\ d.stage = "await" /\ Asking # {}
    /\ Is(said[First(Asking)], "prompt")
    /\ Consume(First(Asking))
    /\ IF Shell /\ d.did /\ ~d.silenced
       THEN Send("silence") /\ d' = [d EXCEPT !.silenced = TRUE, !.last = <<>>]
       ELSE /\ Quiet
            /\ d' = LET x == [d EXCEPT !.status = 1]
                    IN IF kind = "small" \/ (Shell /\ ~d.did) THEN Prepared(x) ELSE [x EXCEPT !.stage = "check"]
    /\ Stays

AwaitGreeting ==
    /\ d.stage = "await" /\ Asking # {}
    /\ Is(said[First(Asking)], Greeting)
    /\ Consume(First(Asking)) /\ Send(IF Shell THEN "user" ELSE "interrupt")
    \* SmallUBootDriver believes in its prompt before it has seen it
    /\ d' = [d EXCEPT !.did = TRUE, !.last = <<>>, !.status = IF kind = "small" THEN 1 ELSE @]
    /\ Stays

\* Only barebox takes a second question for an answer to the first.
AwaitPassword ==
    /\ d.stage = "await" /\ Asking # {}
    /\ Is(said[First(Asking)], "password")
    /\ Consume(First(Asking))
    /\ \/ /\ secret = "unknown" /\ Quiet /\ d' = Ends("no_password")
       \/ /\ secret # "unknown" /\ kind = "barebox" /\ d.entered
          /\ Quiet /\ d' = Ends("wrong_password")
       \/ /\ secret # "unknown" /\ ~(kind = "barebox" /\ d.entered)
          /\ Send("secret") /\ d' = [d EXCEPT !.last = <<>>, !.entered = TRUE]
    /\ Stays

\* A timeout of the short expect: a newline if nothing has arrived since the
\* last one.
AwaitQuiet ==
    /\ d.stage = "await" /\ Asking = {} /\ kind # "small"
    /\ said = d.last
    /\ Send("newline")
    /\ d' = [d EXCEPT !.last = said]
    /\ Keep /\ Stays
AwaitMore ==
    /\ d.stage = "await" /\ Asking = {} /\ kind # "small"
    /\ said # d.last
    /\ d' = [d EXCEPT !.last = said]
    /\ Quiet /\ Keep /\ Stays

\* login_timeout.
AwaitExpired ==
    /\ d.stage = "await" /\ Asking = {}
    /\ d' = Ends("timeout")
    /\ Quiet /\ Keep /\ Stays

\* _check_prompt.
CheckSend ==
    /\ d.stage = "check"
    /\ Send("check")
    /\ d' = [d EXCEPT !.stage = "checking", !.mark = lines + 1]
    /\ Keep /\ Stays
CheckDone ==
    /\ d.stage = "checking" /\ CheckEnd # {}
    /\ Consume(First(CheckEnd))
    /\ d' = LET x == [d EXCEPT !.status = 1, !.mark = 0]
            IN IF d.op \in {"activate", "reset"} THEN Prepared(x) ELSE [x EXCEPT !.stage = "run"]
    /\ Quiet /\ Stays
CheckTimeout ==
    /\ d.stage = "checking" /\ CheckEnd = {}
    /\ IF Shell \/ Marked = {} THEN Keep ELSE Consume(First(Marked))
    /\ d' = [Fails("timeout") EXCEPT !.status = 0]
    /\ Quiet /\ Stays

\* _inject_run: any prompt will do.
Inject ==
    /\ d.stage = "inject"
    /\ Send("define")
    /\ d' = [d EXCEPT !.stage = "injecting"]
    /\ Keep /\ Stays
Injected ==
    /\ d.stage = "injecting" /\ Prompts # {}
    /\ Consume(First(Prompts))
    /\ d' = Activated(d)
    /\ Quiet /\ Stays
InjectTimeout ==
    /\ d.stage = "injecting" /\ Prompts = {}
    /\ d' = Ends("timeout")
    /\ Quiet /\ Keep /\ Stays

\* run(): the shell makes sure of its prompt first; without a prompt the
\* others return None.
Run(op) ==
    /\ Idle /\ d.active
    /\ d' = IF Shell THEN Begin(op, "check")
            ELSE IF d.status = 1 THEN Begin(op, "run")
            ELSE [Begin("none", "idle") EXCEPT !.result = "no_answer"]
    /\ Keep /\ Quiet /\ Stays

RunSend ==
    /\ d.stage \in {"run", "init"}
    /\ Send("run")
    /\ d' = [d EXCEPT !.stage = "running", !.mark = lines + 1]
    /\ Keep /\ Stays

\* _run has its answer.  wait_for and poll_until_success go on until it is
\* the expected one or their time is over; wait_for raises in the latter
\* case, even if the last answer was the expected one.
RunDone ==
    /\ d.stage = "running" /\ RunEnd # {} /\ Answers # {}
    /\ Consume(RunMatch)
    /\ \E good, expired \in BOOLEAN :
        d' = CASE d.op \in {"activate", "reset"} ->
                    IF d.inits > 1 THEN [d EXCEPT !.inits = @ - 1, !.stage = "init", !.mark = 0]
                    ELSE Activated([d EXCEPT !.inits = 0])
               [] d.op = "run" -> Ends("ok")
               [] d.op = "boot" -> [d EXCEPT !.stage = "boot", !.mark = 0]
               [] d.op = "wait_for" /\ ~good /\ ~expired -> [d EXCEPT !.stage = IF Shell THEN "check" ELSE "run"]
               [] d.op = "wait_for" -> Ends(IF expired THEN "expired" ELSE "found")
               [] d.op = "poll" /\ ~good /\ ~expired -> [d EXCEPT !.stage = IF Shell THEN "check" ELSE "run"]
               [] d.op = "poll" -> Ends(IF good THEN "found" ELSE "expired")
    /\ Quiet /\ Stays

\* data.index(marker): the prompt was that of another command.
RunDesync ==
    /\ d.stage = "running" /\ RunEnd # {} /\ Answers = {}
    /\ Consume(RunMatch)
    /\ d' = Ends("desync")
    /\ Quiet /\ Stays

RunTimeout ==
    /\ d.stage = "running" /\ RunEnd = {}
    /\ d' = Fails("timeout")
    /\ Quiet /\ Keep /\ Stays

\* reset() and boot() of the boot loaders.  boot() leaves the status alone;
\* that of barebox first runs a command that restores the log level, and
\* sends nothing more if that times out.
Reset ==
    /\ Idle /\ d.active /\ ~Shell
    /\ Send("reset")
    /\ d' = [Begin("reset", "await") EXCEPT !.status = 0, !.prepared = FALSE]
    /\ Keep /\ Stays
BootSend == Send("boot") /\ d' = [Ends("none") EXCEPT !.prepared = FALSE, !.hopeless = FALSE]
Boot ==
    /\ \/ /\ Idle /\ d.active /\ ~Shell
          /\ IF kind = "barebox" /\ d.status = 1 THEN Quiet /\ d' = Begin("boot", "run") ELSE BootSend
       \/ d.stage = "boot" /\ BootSend
    /\ Keep /\ Stays
Banner == Where(LAMBDA i : Is(said[i], "kernel"))
AwaitBoot ==
    /\ Idle /\ d.active /\ ~Shell
    /\ IF Banner # {} THEN Consume(First(Banner)) /\ d' = [Begin("none", "idle") EXCEPT !.result = "booted"]
       ELSE Keep /\ d' = [Begin("none", "idle") EXCEPT !.result = "timeout"]
    /\ Quiet /\ Stays

DriverStep ==
    \/ AwaitPrompt \/ AwaitGreeting \/ AwaitPassword \/ AwaitQuiet \/ AwaitMore \/ AwaitExpired
    \/ CheckSend \/ CheckDone \/ CheckTimeout \/ Inject \/ Injected \/ InjectTimeout
    \/ RunSend \/ RunDone \/ RunDesync \/ RunTimeout

Next ==
    \/ BoardStarts \/ AutobootPasses \/ BoardReads
    \/ Activate \/ Deactivate \/ Reset \/ Boot \/ AwaitBoot
    \/ \E op \in {"run", "wait_for", "poll"} : Run(op)
    \/ DriverStep

Spec == Init /\ [][Next]_vars
-----------------------------------------------------------------------------
\* A command that returned its output has read everything that was sent
\* before, whatever of it had been given up, and nothing is left that the next
\* command could take for its own answer: no output and no prompt, neither in
\* the buffer nor still to come.
InStep == (Idle /\ d.result \in {"ok", "found", "expired"}) =>
    /\ typed = <<>>
    /\ \A i \in 1..Len(said) : said[i][1] \notin {"prompt", "mark", "out"}

\* A shell whose driver is active and that was not restarted since activation
\* began knows run(), or will before it reads the first command that uses it.
\* Not so if the board restarts between two activations and leaves prompts of
\* before its restart in the buffer: they are taken for its login having passed
\* and for the answer of _inject_run (shelldriver.py:218), and the driver
\* becomes active while the board asks for a user.
RunAlwaysDefined == (Shell /\ d.active /\ d.prepared /\ d.clean) =>
    knows \/ \E i \in 1..Len(typed) : Is(typed[i], "define")

\* The same without such prompts: one that is left over otherwise ends the
\* waiting of _inject_run early, and does no harm.
RunDefined == d.stale \/ RunAlwaysDefined

\* A board that is at its prompt and has answered everything is heard: what
\* is left over from calls that were given up confuses no later call.  (The
\* U-Boot drivers take any prompt for that of their command, and are one
\* answer behind from then on.)
Resynchronises == d.hopeless \/ (d.result = "desync" /\ d.active) => kind \in {"uboot", "small"}

ConsoleHonest == InStep /\ RunDefined /\ Resynchronises

\* "init_commands (tuple): optional, tuple of commands to run after unlock"
\* (ubootdriver.py:24): a driver that is active has run them.
InitCommandsRun == (d.result = "active" /\ d.clean /\ ~Shell) => d.prepared
=============================================================================
