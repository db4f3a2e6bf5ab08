------------------------------- MODULE Agent -------------------------------
(***************************************************************************)
(* AgentWrapper and Agent: calls of methods in a helper process, over its  *)
(* standard input and output, one line each way and without numbers; file  *)
(* descriptors travel over a socket of their own.                          *)
(***************************************************************************)
EXTENDS Naturals, Sequences

CONSTANTS MaxCalls,     \* calls made
          Modules,      \* modules that are loaded into the agent
          Methods       \* methods that each of them registers

VARIABLES
    remote,     \* the agent runs on another host: there is no socket
    alive,      \* the agent: "running", "ended"
    wrapper,    \* self.agent: "open", "gone" (None)
    stdin, stdout, fdpass,  \* what is on its way
    registered, \* methods the agent knows
    loaded,     \* what the wrapper has loaded
    calls,      \* numbers the calls
    pending,    \* the call that waits in readline(), or 0
    what,       \* what it asks for
    got,        \* what the last call returned
    upset       \* a call was interrupted, or an FD was sent and no result
vars == <<remote, alive, wrapper, stdin, stdout, fdpass, registered, loaded, calls, pending, what, got, upset>>

Requests == {"plain", "fd", "close"} \cup Modules
Nothing == [kind |-> "none", call |-> 0, fd |-> 0]
Known(m) == {<<m, k>> : k \in 1..Methods}

\* The type invariant.
TypeOK ==
    /\ remote \in BOOLEAN /\ alive \in {"running", "ended"} /\ wrapper \in {"open", "gone"}
    /\ registered \subseteq UNION {Known(m) : m \in Modules} /\ loaded \subseteq Modules
    /\ calls \in 0..MaxCalls /\ pending \in 0..MaxCalls /\ what \in Requests
    /\ got.kind \in {"none", "result", "exception", "error", "interrupted", "dead"}

Init ==
    /\ remote \in BOOLEAN
    /\ alive = "running" /\ wrapper = "open"
    /\ stdin = <<>> /\ stdout = <<>> /\ fdpass = <<>>
    /\ registered = {} /\ loaded = {} /\ calls = 0
    /\ pending = 0 /\ what = "plain" /\ got = Nothing /\ upset = {}

Idle == pending = 0
Result(kind, call, fd) == [kind |-> kind, call |-> call, fd |-> fd]

\* MethodProxy and load(): a module that is loaded is not loaded again.
Call(request) ==
    /\ Idle /\ wrapper = "open" /\ calls < MaxCalls
    /\ request \notin loaded
    /\ calls' = calls + 1 /\ got' = Nothing
    /\ IF alive = "running"
       THEN pending' = calls + 1 /\ what' = request /\ stdin' = Append(stdin, <<calls + 1, request>>)
       ELSE UNCHANGED <<pending, what, stdin>>      \* BrokenPipeError
    /\ UNCHANGED <<remote, alive, wrapper, stdout, fdpass, registered, loaded, upset>>

(***************************************************************************)
(* The agent: one request at a time.  A method raises, or its result       *)
(* cannot be translated to JSON: the wrapper gets an exception.            *)
(***************************************************************************)
Reading(kinds) == alive = "running" /\ stdin # <<>> /\ Head(stdin)[2] \in kinds
Number == Head(stdin)[1]
Replies(kind, fd) == /\ stdin' = Tail(stdin)
                     /\ stdout' = Append(stdout, Result(kind, Number, fd))
Rest == UNCHANGED <<remote, wrapper, loaded, calls, pending, what, got>>

HandlePlain ==
    /\ Reading({"plain"})
    /\ \E kind \in {"result", "exception"} : Replies(kind, 0)
    /\ UNCHANGED <<alive, fdpass, registered, upset>> /\ Rest

\* The descriptor is sent before the result is; without a socket the agent
\* complains and ends.
HandleFd ==
    /\ Reading({"fd"}) /\ ~remote
    /\ \/ Replies("result", Number) /\ fdpass' = Append(fdpass, Number) /\ UNCHANGED upset
       \/ Replies("exception", 0) /\ UNCHANGED <<fdpass, upset>>
       \/ Replies("exception", 0) /\ fdpass' = Append(fdpass, Number) /\ upset' = upset \cup {"fd"}
    /\ UNCHANGED <<alive, registered>> /\ Rest

HandleFdRemote ==
    /\ Reading({"fd"}) /\ remote
    /\ Replies("error", 0)
    /\ alive' = "ended"
    /\ UNCHANGED <<fdpass, registered, upset>> /\ Rest

\* load: methods are registered one by one; a name that is known already
\* fails an assertion.
HandleLoad ==
    /\ Reading(Modules)
    /\ LET m == Head(stdin)[2] IN
       \/ registered \cap Known(m) = {} /\ registered' = registered \cup Known(m) /\ Replies("result", 0)
       \/ /\ registered \cap Known(m) = {} /\ Replies("exception", 0)      \* a half of it
          /\ \E some \in SUBSET Known(m) \ {Known(m)} : registered' = registered \cup some
       \/ registered \cap Known(m) # {} /\ UNCHANGED registered /\ Replies("exception", 0)
    /\ UNCHANGED <<alive, fdpass, upset>> /\ Rest

\* It may end between the two.
AgentEndsAfterFd ==
    /\ Reading({"fd"}) /\ ~remote
    /\ alive' = "ended" /\ stdin' = <<>>
    /\ fdpass' = Append(fdpass, Number) /\ upset' = upset \cup {"fd"}
    /\ UNCHANGED <<stdout, registered>> /\ Rest

AgentEnds ==
    /\ alive = "running"           \* it has read the request to close, or crashes
    /\ alive' = "ended" /\ stdin' = <<>>
    /\ UNCHANGED <<stdout, fdpass, registered, upset>> /\ Rest

(***************************************************************************)
(* The wrapper goes on with the next line, whatever call it belongs to.    *)
(***************************************************************************)
Receive_forgets_fd ==
    /\ pending # 0 /\ stdout # <<>> /\ stdout[1].kind # "error"
    /\ got' = Result(stdout[1].kind, stdout[1].call, stdout[1].fd)
    /\ stdout' = Tail(stdout) /\ pending' = 0
    /\ loaded' = loaded
    /\ UNCHANGED <<remote, alive, wrapper, stdin, fdpass, registered, calls, what, upset>>

Receive ==
    /\ pending # 0 /\ stdout # <<>> /\ stdout[1].kind # "error"
    /\ stdout[1].fd # 0 => fdpass # <<>>
    /\ got' = Result(stdout[1].kind, stdout[1].call, IF stdout[1].fd = 0 THEN 0 ELSE fdpass[1])
    /\ fdpass' = IF stdout[1].fd = 0 THEN fdpass ELSE Tail(fdpass)
    /\ stdout' = Tail(stdout) /\ pending' = 0
    /\ loaded' = IF what \in Modules /\ stdout[1].kind = "result" THEN loaded \cup {what} ELSE loaded
    /\ UNCHANGED <<remote, alive, wrapper, stdin, registered, calls, what, upset>>

\* The agent is waited for, and there is none from now on.
ReceiveError ==
    /\ pending # 0 /\ stdout # <<>> /\ stdout[1].kind = "error"
    /\ got' = Result("error", stdout[1].call, 0)
    /\ wrapper' = "gone" /\ stdout' = <<>> /\ pending' = 0
    /\ UNCHANGED <<remote, alive, stdin, fdpass, registered, loaded, calls, what, upset>>

\* readline() returns nothing: json.loads raises.
ReceiveNothing ==
    /\ pending # 0 /\ stdout = <<>> /\ alive = "ended"
    /\ got' = Result("dead", pending, 0) /\ pending' = 0
    /\ UNCHANGED <<remote, alive, wrapper, stdin, stdout, fdpass, registered, loaded, calls, what, upset>>

\* Ctrl-C while the wrapper waits; the agent ignores the signal.
Interrupt ==
    /\ pending # 0 /\ alive = "running" /\ stdout = <<>>
    /\ got' = Result("interrupted", pending, 0) /\ pending' = 0
    /\ upset' = upset \cup {"line"}
    /\ UNCHANGED <<remote, alive, wrapper, stdin, stdout, fdpass, registered, loaded, calls, what>>

\* close(): the request is sent and the end of the agent awaited.
Close ==
    /\ Idle /\ wrapper = "open" /\ alive = "running"
    /\ stdin' = Append(stdin, <<0, "close">>)
    /\ wrapper' = "gone"
    /\ UNCHANGED <<remote, alive, stdout, fdpass, registered, loaded, calls, pending, what, got, upset>>

Next ==
    \/ \E request \in Requests \ {"close"} : Call(request)
    \/ HandlePlain \/ HandleFd \/ HandleFdRemote \/ HandleLoad \/ AgentEnds
    \/ AgentEndsAfterFd
    \/ Receive \/ ReceiveError \/ ReceiveNothing \/ Interrupt \/ Close

Spec == Init /\ [][Next]_vars
-----------------------------------------------------------------------------
\* Lines without numbers: a call returns the answer to itself, as long as no
\* earlier one was interrupted, and its own file descriptor, as long as none
\* was sent for a call that then failed.
OwnResponse ==
    /\ (Idle /\ got.kind \in {"result", "exception"} /\ "line" \notin upset) => got.call = calls
    /\ (Idle /\ got.fd # 0 /\ upset = {}) => got.fd = calls

\* Nothing is left over between two calls, so that the next one can be right.
PipesDrained == (Idle /\ wrapper = "open" /\ upset = {}) => stdin = <<>> /\ stdout = <<>> /\ fdpass = <<>>

\* What the wrapper takes for loaded is there with all of its methods.
LoadedIsThere == "line" \notin upset => \A m \in loaded : Known(m) \subseteq registered

\* A wrapper that is closed leaves no agent behind that would go on.
ClosedEnds == (wrapper = "gone" /\ alive = "running") => \E i \in DOMAIN stdin : stdin[i][2] = "close"

AgentHonest == OwnResponse /\ PipesDrained /\ LoadedIsThere /\ ClosedEnds
-----------------------------------------------------------------------------
(***************************************************************************)
(* The inductive invariant: what may be on its way while a call waits.     *)
(***************************************************************************)
Kinds == {"none", "result", "exception", "error", "interrupted", "dead"}
Answers == [kind : Kinds, call : 0..MaxCalls, fd : 0..MaxCalls]
Lines ==
    /\ stdin \in Seq((0..MaxCalls) \X Requests) /\ stdout \in Seq(Answers) /\ fdpass \in Seq(0..MaxCalls)
    /\ got \in Answers
    /\ \A i \in DOMAIN stdout : stdout[i].kind = "error" => stdout[i].fd = 0 /\ alive = "ended"

\* Without an interruption, there is one line between the two at most: the
\* request of the call that waits, or the answer to it.
OneLine ==
    "line" \notin upset =>
        /\ pending = 0 =>
            /\ stdout = <<>>
            /\ stdin = <<>> \/ (wrapper = "gone" /\ stdin = <<<<0, "close">>>>)
        /\ pending # 0 =>
            /\ pending = calls /\ wrapper = "open"
            /\ \/ stdin = <<<<calls, what>>>> /\ stdout = <<>> /\ alive = "running"
               \/ stdin = <<>> /\ stdout = <<>> /\ alive = "ended"
               \/ stdin = <<>> /\ Len(stdout) = 1 /\ stdout[1].call = calls

\* A descriptor is on its way with the answer that it belongs to.
FdPaired ==
    upset = {} => fdpass = IF stdout = <<>> \/ stdout[1].fd = 0 THEN <<>> ELSE <<calls>>

\* An answer to load() says that the methods are there.
LoadAnswered ==
    ("line" \notin upset /\ stdout # <<>> /\ stdout[1].kind = "result" /\ what \in Modules) => Known(what) \subseteq registered

AgentInv == TypeOK /\ Lines /\ OneLine /\ FdPaired /\ LoadAnswered /\ AgentHonest
=============================================================================
