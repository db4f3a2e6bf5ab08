----------------------------- MODULE BoardProofs -----------------------------
(***************************************************************************)
(* The boards and what is attached to them, for every value of the         *)
(* constants: agents, SSH connections, shared outputs and power backends.  *)
(*                                                                         *)
(* The inductive invariant of a component, named ...Inv and stated in its  *)
(* module, holds initially and is kept by every step.  The theorems at the *)
(* end draw the conclusions for the specification that examines the        *)
(* components, which is where TLC checks the same properties.              *)
(***************************************************************************)
EXTENDS Components, TLAPS, FiniteSetTheorems
(***************************************************************************)
(* Sequences from which the first is taken, and to which one is added.     *)
(***************************************************************************)
LEMMA TailAt ==
    ASSUME NEW X, NEW s \in Seq(X), s # <<>>
    PROVE  /\ Tail(s) \in Seq(X) /\ Len(s) \in Nat \ {0} /\ Len(Tail(s)) = Len(s) - 1
           /\ Head(s) = s[1] /\ s[1] \in X /\ DOMAIN s = 1..Len(s) /\ DOMAIN Tail(s) = 1..Len(s) - 1
           /\ \A i \in 1..Len(s) - 1 : i + 1 \in 1..Len(s) /\ Tail(s)[i] = s[i + 1]
           /\ Len(s) = 1 => Tail(s) = <<>>
<1>1. /\ Tail(s) \in Seq(X) /\ Len(s) \in Nat \ {0} /\ Len(Tail(s)) = Len(s) - 1
      /\ Head(s) = s[1] /\ s[1] \in X /\ DOMAIN s = 1..Len(s) /\ DOMAIN Tail(s) = 1..Len(s) - 1
      /\ \A i \in 1..Len(s) - 1 : i + 1 \in 1..Len(s) /\ Tail(s)[i] = s[i + 1]
  OBVIOUS
<1>2. Len(s) = 1 => Tail(s) = <<>>
  BY <1>1
<1> QED BY <1>1, <1>2

\* What a sequence is after something was added to it.
LEMMA AppendAt ==
    ASSUME NEW X, NEW s \in Seq(X), NEW m \in X
    PROVE  /\ Append(s, m) \in Seq(X) /\ Len(s) \in Nat /\ Len(Append(s, m)) = Len(s) + 1
           /\ DOMAIN s = 1..Len(s) /\ DOMAIN Append(s, m) = 1..Len(s) + 1
           /\ Append(s, m)[Len(s) + 1] = m
           /\ \A i \in 1..Len(s) : Append(s, m)[i] = s[i]
           /\ s = <<>> => Append(s, m) = <<m>>
<1>1. /\ Append(s, m) \in Seq(X) /\ Len(s) \in Nat /\ Len(Append(s, m)) = Len(s) + 1
      /\ DOMAIN s = 1..Len(s) /\ Append(s, m)[Len(s) + 1] = m
  OBVIOUS
<1>2. DOMAIN Append(s, m) = 1..Len(s) + 1
  BY <1>1
<1>3. \A i \in 1..Len(s) : Append(s, m)[i] = s[i]
  OBVIOUS
<1>4. s = <<>> => Append(s, m) = <<m>>
  OBVIOUS
<1> QED BY <1>1, <1>2, <1>3, <1>4

-----------------------------------------------------------------------------
(***************************************************************************)
(* Agents (util/agent.py, util/agentwrapper.py); the slots under the names of *)
(***************************************************************************)
stdin == s4
stdout == s5
fdpass == s6
calls == s9
alive == s2
wrapper == s3
loaded == s8
got == s12
registered == s7
pending == s10
what == s11
upset == s13

\* An agent that is not started yet satisfies the invariant.
LEMMA AgentInit == A!Init => A!AgentInv
BY AgentAssumption DEF A!Init, A!AgentInv, A!TypeOK, A!Lines, A!OneLine, A!FdPaired, A!LoadAnswered, A!AgentHonest,
       A!OwnResponse, A!PipesDrained, A!LoadedIsThere, A!ClosedEnds,
       A!Nothing, A!Idle, A!Requests, A!Answers, A!Kinds, A!Result

\* The agent takes a request and answers it.
LEMMA AgentReadsNumber ==
    ASSUME A!AgentInv, NEW kinds, A!Reading(kinds), "close" \notin kinds
    PROVE  A!Number \in 0..AgentCalls /\ ("line" \notin upset => A!Number # 0)
<1>1. Head(stdin) \in (0..AgentCalls) \X A!Requests
  BY TailAt DEF A!AgentInv, A!Lines, A!Reading, stdin
<1>2. ASSUME "line" \notin upset PROVE A!Number # 0
  <2>1. stdin # <<>> /\ stdin # <<<<0, "close">>>>
    BY DEF A!Reading, stdin
  <2>2. pending # 0 /\ pending = calls /\ stdin = <<<<calls, what>>>>
    BY <1>2, <2>1 DEF A!AgentInv, A!OneLine, stdin, pending, calls, what, upset
  <2> QED BY <2>2 DEF A!Number, stdin
<1> QED BY <1>1, <1>2 DEF A!Number, stdin

\* What the pipes hold after the agent took a request and answered it: while nothing was
\* upset there is one request at a time, and the answer carries its number.
LEMMA AgentReplies ==
    ASSUME A!AgentInv, NEW kinds, A!Reading(kinds), "close" \notin kinds,
           NEW kind \in A!Kinds, NEW fd \in 0..AgentCalls, A!Replies(kind, fd)
    PROVE  /\ stdin' \in Seq((0..AgentCalls) \X A!Requests) /\ stdout' \in Seq(A!Answers)
           /\ A!Number \in 0..AgentCalls /\ Head(stdin)[2] \in A!Requests
           /\ \A i \in DOMAIN stdout' : (i \in DOMAIN stdout /\ stdout'[i] = stdout[i]) \/ stdout'[i] = A!Result(kind, A!Number, fd)
           /\ "line" \notin upset =>
                /\ pending # 0 /\ pending = calls /\ stdin' = <<>> /\ stdout = <<>>
                /\ stdout' = <<A!Result(kind, calls, fd)>> /\ Len(stdout') = 1 /\ stdout'[1] = A!Result(kind, calls, fd)
                /\ A!Number = calls /\ Head(stdin)[2] = what
           /\ (\E i \in DOMAIN stdin : stdin[i][2] = "close") => \E i \in DOMAIN stdin' : stdin'[i][2] = "close"
<1> USE AgentAssumption DEF stdin, stdout, fdpass, calls, pending, what, upset
<1>1. /\ stdin # <<>> /\ stdin \in Seq((0..AgentCalls) \X A!Requests) /\ Head(stdin)[2] \in kinds
      /\ stdin' = Tail(stdin) /\ stdout' = Append(stdout, A!Result(kind, A!Number, fd))
      /\ stdout \in Seq(A!Answers)
  BY DEF A!Reading, A!Replies, A!AgentInv, A!Lines
<1>2. /\ stdin' \in Seq((0..AgentCalls) \X A!Requests) /\ Head(stdin) \in (0..AgentCalls) \X A!Requests
  BY <1>1, TailAt
<1>3. A!Number \in 0..AgentCalls /\ Head(stdin)[2] \in A!Requests
  BY <1>2 DEF A!Number
<1>4. A!Result(kind, A!Number, fd) \in A!Answers
  BY <1>3 DEF A!Result, A!Answers
<1>5. stdout' \in Seq(A!Answers)
  BY <1>1, <1>4, AppendAt
<1>6. \A i \in DOMAIN stdout' : (i \in DOMAIN stdout /\ stdout'[i] = stdout[i]) \/ stdout'[i] = A!Result(kind, A!Number, fd)
  BY <1>1, <1>4, AppendAt
<1>7. ASSUME "line" \notin upset
      PROVE  /\ pending # 0 /\ pending = calls /\ stdin' = <<>> /\ stdout = <<>>
             /\ A!Number = calls /\ Head(stdin)[2] = what
  <2>1. stdin # <<<<0, "close">>>>
    BY <1>1
  <2>2. pending # 0 /\ pending = calls /\ stdin = <<<<calls, what>>>> /\ stdout = <<>>
    BY <1>1, <1>7, <2>1 DEF A!AgentInv, A!OneLine
  <2> QED BY <1>1, <2>2 DEF A!Number
<1>8. ASSUME "line" \notin upset
      PROVE  stdout' = <<A!Result(kind, calls, fd)>> /\ Len(stdout') = 1 /\ stdout'[1] = A!Result(kind, calls, fd)
  BY <1>1, <1>4, <1>7, <1>8, AppendAt
<1>9. ASSUME NEW i \in DOMAIN stdin, stdin[i][2] = "close" PROVE \E j \in DOMAIN stdin' : stdin'[j][2] = "close"
  <2>1. i # 1 /\ i \in 1..Len(stdin)
    BY <1>1, <1>9, TailAt
  <2>l. Len(stdin) \in Nat
    BY <1>1, TailAt
  <2>2. i - 1 \in 1..Len(stdin) - 1 /\ (i - 1) + 1 = i
    BY <2>1, <2>l
  <2>3. i - 1 \in DOMAIN Tail(stdin) /\ Tail(stdin)[i - 1] = stdin[i]
    BY <1>1, <2>2, TailAt
  <2> QED BY <1>1, <1>9, <2>3
<1> QED BY <1>2, <1>3, <1>5, <1>6, <1>7, <1>8, <1>9

\* A request that was handled keeps the invariant, whatever the answer was: the result, an
\* exception, or an error after which the agent ends (agent.py, handle_call).
LEMMA AgentAnswered ==
    ASSUME A!AgentInv, NEW kinds, A!Reading(kinds), "close" \notin kinds,
           NEW kind \in {"result", "exception", "error"}, NEW fd \in {0, A!Number}, A!Replies(kind, fd), A!Rest,
           IF kind = "error" THEN fd = 0 /\ alive' = "ended" ELSE UNCHANGED alive,
           registered \subseteq registered', registered' \subseteq UNION {A!Known(m) : m \in Modules},
           kind = "result" /\ Head(stdin)[2] \in Modules => A!Known(Head(stdin)[2]) \subseteq registered',
           upset' \in {upset, upset \cup {"fd"}},
           fdpass' \in {fdpass, Append(fdpass, A!Number)},
           upset' = {} => fdpass' = IF fd = 0 THEN fdpass ELSE Append(fdpass, A!Number)
    PROVE  A!AgentInv'
<1>1. /\ A!Number \in 0..AgentCalls /\ fd \in 0..AgentCalls /\ kind \in A!Kinds
  BY AgentAssumption, AgentReadsNumber DEF A!Kinds
<1>2. /\ stdin' \in Seq((0..AgentCalls) \X A!Requests) /\ stdout' \in Seq(A!Answers)
      /\ \A i \in DOMAIN stdout' : (i \in DOMAIN stdout /\ stdout'[i] = stdout[i]) \/ stdout'[i] = A!Result(kind, A!Number, fd)
      /\ "line" \notin upset =>
           /\ pending # 0 /\ pending = calls /\ stdin' = <<>> /\ stdout = <<>>
           /\ stdout' = <<A!Result(kind, calls, fd)>> /\ Len(stdout') = 1 /\ stdout'[1] = A!Result(kind, calls, fd)
           /\ A!Number = calls /\ Head(stdin)[2] = what
      /\ (\E i \in DOMAIN stdin : stdin[i][2] = "close") => \E i \in DOMAIN stdin' : stdin'[i][2] = "close"
  BY <1>1, AgentReplies
<1>3. UNCHANGED <<s1, s3, s8, s9, s10, s11, s12>>
  BY DEF A!Rest
<1>4. "line" \notin upset' => "line" \notin upset
  OBVIOUS
<1>5. A!TypeOK'
  BY <1>3 DEF A!AgentInv, A!TypeOK, A!Requests, alive, registered
<1>6. A!Lines'
  <2>1. fdpass' \in Seq(0..AgentCalls)
    <3>1. fdpass \in Seq(0..AgentCalls)
      BY DEF A!AgentInv, A!Lines, fdpass
    <3>2. Append(fdpass, A!Number) \in Seq(0..AgentCalls)
      BY <1>1, <3>1, AppendAt
    <3> QED BY <3>1, <3>2
  <2>2. \A i \in DOMAIN stdout' : stdout'[i].kind = "error" => stdout'[i].fd = 0 /\ alive' = "ended"
    BY <1>2 DEF A!AgentInv, A!Lines, A!Result, stdout, alive
  <2> QED BY <1>2, <1>3, <2>1, <2>2 DEF A!AgentInv, A!Lines, A!Requests, A!Answers, A!Kinds, stdin, stdout, fdpass, alive
<1>7. A!OneLine'
  BY <1>2, <1>3, <1>4 DEF A!AgentInv, A!OneLine, A!Result, stdin, stdout, pending, calls, what, upset
<1>8. A!FdPaired'
  <2> SUFFICES ASSUME upset' = {} PROVE fdpass' = IF stdout' = <<>> \/ stdout'[1].fd = 0 THEN <<>> ELSE <<calls'>>
    BY DEF A!FdPaired, stdout, fdpass, calls, upset
  <2>1. upset = {} /\ "line" \notin upset
    OBVIOUS
  <2>2. fdpass = <<>> /\ stdout' # <<>> /\ stdout'[1].fd = fd /\ A!Number = calls
    BY <1>2, <2>1 DEF A!AgentInv, A!FdPaired, A!Result, stdout, fdpass, calls, upset
  <2>3. Append(<<>>, calls) = <<calls>>
    BY <1>1, <2>2, AppendAt
  <2> QED BY <1>3, <2>2, <2>3 DEF calls
<1>9. A!LoadAnswered'
  BY <1>2, <1>3, <1>4 DEF A!AgentInv, A!LoadAnswered, A!Result, A!Known, stdout, what, upset, registered
<1>10. A!AgentHonest'
  <2>1. A!OwnResponse' /\ A!PipesDrained'
    BY <1>2, <1>3, <1>4 DEF A!AgentInv, A!AgentHonest, A!OwnResponse, A!PipesDrained, A!Idle, pending, upset
  <2>2. A!LoadedIsThere'
    BY <1>3, <1>4 DEF A!AgentInv, A!AgentHonest, A!LoadedIsThere, A!Known, upset, registered
  <2>3. A!ClosedEnds'
    BY <1>2, <1>3 DEF A!AgentInv, A!AgentHonest, A!ClosedEnds, stdin, alive
  <2> QED BY <2>1, <2>2, <2>3 DEF A!AgentHonest
<1> QED BY <1>5, <1>6, <1>7, <1>8, <1>9, <1>10 DEF A!AgentInv

\* Every way in which the agent handles a request keeps the invariant.
LEMMA AgentHandles ==
    ASSUME A!AgentInv, A!HandlePlain \/ A!HandleFd \/ A!HandleFdRemote \/ A!HandleLoad
    PROVE  A!AgentInv'
<1>1. CASE A!HandlePlain
  <2>1. PICK kind \in {"result", "exception"} : A!Replies(kind, 0)
    BY <1>1 DEF A!HandlePlain
  <2>2. A!Reading({"plain"}) /\ A!Rest /\ UNCHANGED <<alive, fdpass, registered, upset>>
    BY <1>1 DEF A!HandlePlain, alive, fdpass, registered, upset
  <2>3. Head(stdin)[2] \notin Modules
    BY <2>2, AgentAssumption DEF A!Reading, stdin
  <2> QED BY <2>1, <2>2, <2>3, AgentAnswered DEF A!AgentInv, A!TypeOK, registered
<1>2. CASE A!HandleFd
  <2>1. A!Reading({"fd"}) /\ A!Rest /\ UNCHANGED <<alive, registered>>
    BY <1>2 DEF A!HandleFd, alive, registered
  <2>2. Head(stdin)[2] \notin Modules
    BY <2>1, AgentAssumption DEF A!Reading, stdin
  <2>3. registered' \subseteq UNION {A!Known(m) : m \in Modules}
    BY <2>1 DEF A!AgentInv, A!TypeOK, registered
  <2>7. upset' = {} => upset = {}
    BY <1>2 DEF A!HandleFd, upset
  <2>4. CASE A!Replies("result", A!Number) /\ fdpass' = Append(fdpass, A!Number) /\ UNCHANGED upset
    <3>0. upset' = {} => A!Number # 0
      BY <2>1, <2>7, AgentReadsNumber
    <3>1. A!Number \in {0, A!Number} /\ upset' \in {upset, upset \cup {"fd"}}
          /\ fdpass' \in {fdpass, Append(fdpass, A!Number)} /\ registered \subseteq registered'
          /\ (upset' = {} => fdpass' = IF A!Number = 0 THEN fdpass ELSE Append(fdpass, A!Number))
      BY <2>1, <2>4, <3>0
    <3>2. \A fd : (fd = A!Number /\ fd \in {0, A!Number} /\ A!Replies("result", fd)
                   /\ (upset' = {} => fdpass' = IF fd = 0 THEN fdpass ELSE Append(fdpass, A!Number)))
                  => A!AgentInv'
      BY <2>1, <2>2, <2>3, <2>4, <3>1, AgentAnswered
    <3> QED BY <2>4, <3>1, <3>2
  <2>5. CASE A!Replies("exception", 0) /\ UNCHANGED <<fdpass, upset>>
    BY <2>1, <2>2, <2>3, <2>5, AgentAnswered
  <2>6. CASE A!Replies("exception", 0) /\ fdpass' = Append(fdpass, A!Number) /\ upset' = upset \cup {"fd"}
    BY <2>1, <2>2, <2>3, <2>6, AgentAnswered
  <2> QED BY <1>2, <2>4, <2>5, <2>6 DEF A!HandleFd, fdpass, upset
<1>3. CASE A!HandleFdRemote
  <2>1. A!Reading({"fd"}) /\ A!Rest /\ UNCHANGED <<fdpass, registered, upset>> /\ A!Replies("error", 0) /\ alive' = "ended"
    BY <1>3 DEF A!HandleFdRemote, alive, fdpass, registered, upset
  <2>2. registered' \subseteq UNION {A!Known(m) : m \in Modules}
    BY <2>1 DEF A!AgentInv, A!TypeOK, registered
  <2> QED BY <2>1, <2>2, AgentAnswered
<1>4. CASE A!HandleLoad
  <2>1. A!Reading(Modules) /\ "close" \notin Modules /\ A!Rest /\ UNCHANGED <<alive, fdpass, upset>>
    BY <1>4, AgentAssumption DEF A!HandleLoad, alive, fdpass, upset
  <2> DEFINE m == Head(stdin)[2]
  <2>2. m \in Modules /\ registered \subseteq UNION {A!Known(k) : k \in Modules}
    BY <2>1 DEF A!Reading, A!AgentInv, A!TypeOK, registered, stdin
  <2>3. CASE registered' = registered \cup A!Known(m) /\ A!Replies("result", 0)
    BY <2>1, <2>2, <2>3, AgentAnswered
  <2>4. ASSUME NEW some \in SUBSET A!Known(m) \ {A!Known(m)}, registered' = registered \cup some, A!Replies("exception", 0)
        PROVE  A!AgentInv'
    BY <2>1, <2>2, <2>4, AgentAnswered
  <2>5. CASE registered' = registered /\ A!Replies("exception", 0)
    BY <2>1, <2>2, <2>5, AgentAnswered
  <2> QED BY <1>4, <2>3, <2>4, <2>5 DEF A!HandleLoad, registered, stdin
<1> QED BY <1>1, <1>2, <1>3, <1>4

\* The wrapper takes the first line that is there.
LEMMA AgentReceives ==
    ASSUME A!AgentInv, A!Receive \/ A!ReceiveError
    PROVE  A!AgentInv'
<1>1. /\ pending # 0 /\ stdout # <<>> /\ stdout \in Seq(A!Answers) /\ fdpass \in Seq(0..AgentCalls) /\ pending' = 0
      /\ UNCHANGED <<s1, s2, s4, s7, s9, s11, s13>>
  BY DEF A!Receive, A!ReceiveError, A!AgentInv, A!Lines, pending, stdout, fdpass
<1>2. stdout[1] \in A!Answers /\ Tail(stdout) \in Seq(A!Answers)
  BY <1>1, TailAt
<1>3. stdout' \in Seq(A!Answers) /\ \A i \in DOMAIN stdout' : i + 1 \in DOMAIN stdout /\ stdout'[i] = stdout[i + 1]
  <2>1. CASE A!Receive
    <3>1. stdout' = Tail(stdout)
      BY <2>1 DEF A!Receive, stdout
    <3> QED BY <1>1, <3>1, TailAt
  <2>2. CASE A!ReceiveError
    BY <2>2 DEF A!ReceiveError, stdout
  <2> QED BY <2>1, <2>2
<1>4. fdpass' \in Seq(0..AgentCalls) /\ got' \in A!Answers
  <2>1. CASE A!Receive
    <3>1. fdpass # <<>> => fdpass[1] \in 0..AgentCalls /\ Tail(fdpass) \in Seq(0..AgentCalls)
      BY <1>1, TailAt
    <3>2. stdout[1].kind \in A!Kinds /\ stdout[1].call \in 0..AgentCalls /\ stdout[1].fd \in 0..AgentCalls
      BY <1>2 DEF A!Answers
    <3>3. got'.fd \in 0..AgentCalls /\ fdpass' \in Seq(0..AgentCalls)
      BY <1>1, <2>1, <3>1, <3>2, AgentAssumption DEF A!Receive, A!Result, stdout, fdpass, got
    <3> QED BY <2>1, <3>2, <3>3 DEF A!Receive, A!Result, A!Answers, stdout, got
  <2>2. CASE A!ReceiveError
    BY <1>1, <1>2, <2>2, AgentAssumption DEF A!ReceiveError, A!Result, A!Answers, A!Kinds, stdout, fdpass, got
  <2> QED BY <2>1, <2>2
<1>5. "line" \notin upset =>
        /\ pending = calls /\ wrapper = "open" /\ stdin = <<>> /\ Len(stdout) = 1 /\ stdout[1].call = calls
        /\ stdout' = <<>>
  <2> SUFFICES ASSUME "line" \notin upset
               PROVE  /\ pending = calls /\ wrapper = "open" /\ stdin = <<>> /\ Len(stdout) = 1 /\ stdout[1].call = calls
                      /\ stdout' = <<>>
    OBVIOUS
  <2>1. pending = calls /\ wrapper = "open" /\ stdin = <<>> /\ Len(stdout) = 1 /\ stdout[1].call = calls
    BY <1>1 DEF A!AgentInv, A!OneLine, pending, calls, wrapper, stdin, stdout, what, upset
  <2>2. Tail(stdout) = <<>>
    BY <1>1, <2>1, TailAt
  <2>3. stdout' = Tail(stdout) \/ stdout' = <<>>
    BY DEF A!Receive, A!ReceiveError, stdout
  <2> QED BY <2>1, <2>2, <2>3
<1>6. loaded' \subseteq Modules /\ wrapper' \in {"open", "gone"} /\ (wrapper' # wrapper => alive = "ended")
      /\ got'.kind \in A!Kinds
  <2>1. /\ loaded \subseteq Modules /\ wrapper \in {"open", "gone"}
        /\ \A i \in DOMAIN stdout : stdout[i].kind = "error" => alive = "ended"
    BY DEF A!AgentInv, A!TypeOK, A!Lines, wrapper, loaded, stdout, alive
  <2>2. 1 \in DOMAIN stdout
    BY <1>1, TailAt
  <2>3. got'.kind \in A!Kinds
    BY <1>4 DEF A!Answers
  <2>4. CASE A!Receive
    BY <2>1, <2>3, <2>4 DEF A!Receive, wrapper, loaded, what
  <2>5. CASE A!ReceiveError
    BY <2>1, <2>2, <2>3, <2>5 DEF A!ReceiveError, wrapper, loaded, stdout
  <2> QED BY <2>4, <2>5
<1>7. A!TypeOK'
  BY <1>1, <1>6, AgentAssumption DEF A!AgentInv, A!TypeOK, A!Requests, A!Known, A!Kinds, pending, loaded, wrapper, got
<1>8. A!Lines'
  BY <1>1, <1>3, <1>4 DEF A!AgentInv, A!Lines, A!Requests, stdout, fdpass, got
<1>9. A!OneLine'
  BY <1>1, <1>5 DEF A!OneLine, pending, stdin, stdout, wrapper, upset
<1>10. upset = {} => fdpass' = <<>> /\ (got'.fd # 0 => got'.fd = calls)
  <2> SUFFICES ASSUME upset = {} PROVE fdpass' = <<>> /\ (got'.fd # 0 => got'.fd = calls)
    OBVIOUS
  <2>1. fdpass = IF stdout[1].fd = 0 THEN <<>> ELSE <<calls>>
    BY <1>1 DEF A!AgentInv, A!FdPaired, stdout, fdpass, calls, upset
  <2>2. <<calls>>[1] = calls /\ Tail(<<calls>>) = <<>> /\ calls \in 0..AgentCalls
    BY DEF A!AgentInv, A!TypeOK, calls
  <2>3. CASE A!Receive
    BY <2>1, <2>2, <2>3 DEF A!Receive, A!Result, stdout, fdpass, got
  <2>4. CASE A!ReceiveError
    <3>1. stdout[1].kind = "error" /\ 1 \in DOMAIN stdout
      BY <1>1, <2>4, TailAt DEF A!ReceiveError, stdout
    <3>2. stdout[1].fd = 0
      BY <3>1 DEF A!AgentInv, A!Lines, stdout
    <3> QED BY <2>1, <2>4, <3>2 DEF A!ReceiveError, A!Result, fdpass, got
  <2> QED BY <2>3, <2>4
<1>11. A!FdPaired'
  BY <1>1, <1>5, <1>10 DEF A!FdPaired, stdout, fdpass, calls, upset
<1>12. A!LoadAnswered'
  BY <1>1, <1>5 DEF A!LoadAnswered, stdout, upset
<1>13. A!AgentHonest'
  <2>1. got'.call = stdout[1].call
    BY DEF A!Receive, A!ReceiveError, A!Result, stdout, got
  <2>2. A!OwnResponse'
    BY <1>1, <1>5, <1>10, <2>1 DEF A!OwnResponse, A!Idle, upset, got, calls, pending
  <2>3. A!PipesDrained'
    BY <1>1, <1>5, <1>10 DEF A!PipesDrained, A!Idle, stdin, stdout, fdpass, upset
  <2>4. A!LoadedIsThere'
    BY <1>1 DEF A!Receive, A!ReceiveError, A!AgentInv, A!LoadAnswered, A!AgentHonest, A!LoadedIsThere, A!Known, stdout, what, upset
  <2>5. A!ClosedEnds'
    BY <1>1, <1>6 DEF A!AgentInv, A!AgentHonest, A!ClosedEnds, alive, wrapper
  <2> QED BY <2>2, <2>3, <2>4, <2>5 DEF A!AgentHonest
<1> QED BY <1>7, <1>8, <1>9, <1>11, <1>12, <1>13 DEF A!AgentInv

\* Every step of the wrapper, of the agent and of the connection keeps the invariant.
LEMMA AgentStep == A!AgentInv /\ [A!Next]_A!vars => A!AgentInv'
<1> SUFFICES ASSUME A!AgentInv, [A!Next]_A!vars PROVE A!AgentInv'
  OBVIOUS
<1> USE AgentAssumption DEF A!AgentInv, A!TypeOK, A!Lines, A!OneLine, A!FdPaired, A!LoadAnswered, A!AgentHonest,
       A!OwnResponse, A!PipesDrained, A!LoadedIsThere, A!ClosedEnds, A!Idle, A!Requests, A!Answers, A!Kinds, A!Result
<1>1. ASSUME NEW request \in A!Requests \ {"close"}, A!Call(request) PROVE A!AgentInv'
  <2>4. A!TypeOK'
    BY <1>1 DEF A!Call, A!Nothing, A!Known
  <2>5. A!FdPaired'
    BY <1>1 DEF A!Call
  <2>6. A!LoadAnswered'
    BY <1>1 DEF A!Call, A!Known
  <2>7. A!OwnResponse'
    BY <1>1 DEF A!Call, A!Nothing
  <2>8. A!PipesDrained'
    BY <1>1 DEF A!Call
  <2>9. A!LoadedIsThere'
    BY <1>1 DEF A!Call, A!Known
  <2>10. A!ClosedEnds'
    BY <1>1 DEF A!Call
  <2>1. A!TypeOK' /\ A!FdPaired' /\ A!LoadAnswered' /\ A!AgentHonest'
    BY <2>4, <2>5, <2>6, <2>7, <2>8, <2>9, <2>10
  <2>2. CASE s2 = "running"
    <3>1. /\ <<calls + 1, request>> \in (0..AgentCalls) \X A!Requests
          /\ stdin' = Append(stdin, <<calls + 1, request>>)
      BY <1>1, <2>2, SMTT(30) DEF A!Call, stdin, calls
    <3>2. stdin' \in Seq((0..AgentCalls) \X A!Requests) /\ (stdin = <<>> => stdin' = <<<<calls + 1, request>>>>)
      BY <3>1, AppendAt DEF stdin
    <3>3. A!Lines'
      BY <1>1, <2>2, <3>2 DEF A!Call, A!Nothing, stdin
    <3>4. A!OneLine'
      BY <1>1, <2>2, <3>2 DEF A!Call, stdin, calls
    <3> QED BY <2>1, <3>3, <3>4
  <2>3. CASE s2 # "running"
    <3>1. A!Lines' /\ A!OneLine'
      BY <1>1, <2>3 DEF A!Call, A!Nothing
    <3> QED BY <2>1, <3>1
  <2> QED BY <2>2, <2>3
<1>2. CASE A!HandlePlain \/ A!HandleFd \/ A!HandleFdRemote \/ A!HandleLoad
  BY <1>2, AgentHandles
<1>3. CASE A!AgentEnds
  <2>1. A!TypeOK' /\ A!FdPaired' /\ A!LoadAnswered'
    BY <1>3 DEF A!AgentEnds, A!Rest, A!Known
  <2>6. stdin' = <<>> /\ stdin' \in Seq((0..AgentCalls) \X A!Requests)
    BY <1>3 DEF A!AgentEnds, stdin
  <2>2. A!Lines'
    BY <1>3, <2>6 DEF A!AgentEnds, A!Rest, stdin
  <2>3. A!OneLine'
    BY <1>3 DEF A!AgentEnds, A!Rest
  <2>4. A!OwnResponse' /\ A!PipesDrained' /\ A!ClosedEnds'
    BY <1>3 DEF A!AgentEnds, A!Rest
  <2>5. A!LoadedIsThere'
    BY <1>3 DEF A!AgentEnds, A!Rest, A!Known
  <2> QED BY <2>1, <2>2, <2>3, <2>4, <2>5
<1>9. CASE A!AgentEndsAfterFd
  <2>1. A!TypeOK' /\ A!FdPaired' /\ A!LoadAnswered'
    BY <1>9 DEF A!AgentEndsAfterFd, A!Rest, A!Known
  <2>2. stdin # <<>> /\ stdin \in Seq((0..AgentCalls) \X A!Requests) /\ fdpass \in Seq(0..AgentCalls)
    BY <1>9 DEF A!AgentEndsAfterFd, A!Reading, stdin, fdpass
  <2>3. A!Number \in 0..AgentCalls
    BY <1>9, AgentReadsNumber DEF A!AgentEndsAfterFd
  <2>4. stdin' = <<>> /\ stdin' \in Seq((0..AgentCalls) \X A!Requests)
    BY <1>9 DEF A!AgentEndsAfterFd, stdin
  <2>5. fdpass' \in Seq(0..AgentCalls)
    BY <1>9, <2>2, <2>3, AppendAt DEF A!AgentEndsAfterFd, fdpass
  <2>6. A!Lines'
    BY <1>9, <2>4, <2>5 DEF A!AgentEndsAfterFd, A!Rest, stdin, fdpass
  <2>7. A!OneLine'
    BY <1>9 DEF A!AgentEndsAfterFd, A!Rest
  <2>8. A!OwnResponse' /\ A!PipesDrained' /\ A!ClosedEnds'
    BY <1>9 DEF A!AgentEndsAfterFd, A!Rest
  <2>9. A!LoadedIsThere'
    BY <1>9 DEF A!AgentEndsAfterFd, A!Rest, A!Known
  <2> QED BY <2>1, <2>6, <2>7, <2>8, <2>9
<1>4. CASE A!Receive \/ A!ReceiveError
  BY <1>4, AgentReceives
<1>5. CASE A!ReceiveNothing
  <2>1. A!TypeOK' /\ A!FdPaired' /\ A!LoadAnswered'
    BY <1>5 DEF A!ReceiveNothing, A!Known
  <2>5. got' = [kind |-> "dead", call |-> pending, fd |-> 0] /\ pending \in 0..AgentCalls
    BY <1>5 DEF A!ReceiveNothing, got, pending
  <2>6. got' \in A!Answers
    BY <2>5
  <2>2. A!Lines'
    BY <1>5, <2>6 DEF A!ReceiveNothing, got
  <2>7. A!OneLine'
    BY <1>5 DEF A!ReceiveNothing
  <2>8. A!OwnResponse'
    BY <1>5, <2>5 DEF A!ReceiveNothing, got
  <2>9. A!PipesDrained'
    BY <1>5 DEF A!ReceiveNothing
  <2>10. A!ClosedEnds'
    BY <1>5 DEF A!ReceiveNothing
  <2>4. A!LoadedIsThere'
    BY <1>5 DEF A!ReceiveNothing, A!Known
  <2> QED BY <2>1, <2>2, <2>4, <2>7, <2>8, <2>9, <2>10
<1>6. CASE A!Interrupt
  BY <1>6 DEF A!Interrupt, A!Known
<1>7. CASE A!Close
  <2>1. /\ <<0, "close">> \in (0..AgentCalls) \X A!Requests /\ stdin \in Seq((0..AgentCalls) \X A!Requests)
        /\ stdin' = Append(stdin, <<0, "close">>)
    BY <1>7 DEF A!Close, stdin
  <2> HIDE DEF A!AgentInv, A!Requests, stdin
  <2>8. /\ Append(stdin, <<0, "close">>) \in Seq((0..AgentCalls) \X A!Requests) /\ Len(stdin) \in Nat
        /\ (stdin = <<>> => Append(stdin, <<0, "close">>) = <<<<0, "close">>>>)
        /\ DOMAIN Append(stdin, <<0, "close">>) = 1..Len(stdin) + 1
        /\ Append(stdin, <<0, "close">>)[Len(stdin) + 1] = <<0, "close">>
    BY <2>1, AppendAt
  <2>2. /\ stdin' \in Seq((0..AgentCalls) \X A!Requests) /\ (stdin = <<>> => stdin' = <<<<0, "close">>>>)
        /\ Len(stdin) + 1 \in DOMAIN stdin' /\ stdin'[Len(stdin) + 1] = <<0, "close">>
    BY <2>1, <2>8
  <2> USE DEF A!AgentInv, A!Requests
  <2>3. A!TypeOK' /\ A!Lines' /\ A!FdPaired' /\ A!LoadAnswered'
    BY <1>7, <2>2 DEF A!Close, A!Known, stdin
  <2>4. A!OneLine'
    BY <1>7, <2>2 DEF A!Close, stdin
  <2>5. A!ClosedEnds'
    BY <2>2 DEF stdin
  <2>6. A!AgentHonest'
    BY <1>7, <2>5 DEF A!Close, A!Known
  <2> QED BY <2>3, <2>4, <2>6
<1>8. CASE UNCHANGED A!vars
  BY <1>8 DEF A!vars, A!Known
<1> QED BY <1>1, <1>2, <1>3, <1>4, <1>5, <1>6, <1>7, <1>8, <1>9 DEF A!Next

-----------------------------------------------------------------------------
(***************************************************************************)
(* SSH connections (util/ssh.py).                                          *)
(***************************************************************************)
\* Before any use there is no connection, hence nothing to keep.
LEMMA SSHInit == ASSUME H!Init PROVE H!SSHInv
<1> USE BoundAssumption DEF H!Init, H!SSHInv, H!TypeOK, H!Tables, H!Connections, H!None, H!ForwardsApart, H!HasForwards, H!MastersKnown, H!SSHHonest, H!PortsWork, H!PortsShared, H!NothingLeft, H!Fresh
<1>1. H!TypeOK
  <2>1. /\ s1 \in BOOLEAN /\ s2 \in BOOLEAN /\ s4 \in BOOLEAN
    OBVIOUS
  <2>2. s3.keepalive \in {"none", "running", "dead"} /\ s6 \in 0..MaxPort
    OBVIOUS
  <2>3. s3.forwards \subseteq Dests \X (1..MaxPort) /\ s5 \subseteq Dests \X (0..MaxPort) /\ s3.rforwards \subseteq Dests
    OBVIOUS
  <2>4. s10 \in {"none", "ok", "not_connected", "error"}
    OBVIOUS
  <2> QED BY <2>1, <2>2, <2>3, <2>4
<1>2. s3 \in H!Connections
  OBVIOUS
<1>3. H!Tables
  OBVIOUS
<1>4. H!ForwardsApart
  OBVIOUS
<1>5. H!HasForwards
  OBVIOUS
<1>6. H!MastersKnown
  OBVIOUS
<1>7. H!PortsWork
  OBVIOUS
<1>8. H!PortsShared
  OBVIOUS
<1>9. H!NothingLeft
  OBVIOUS
<1> QED BY <1>1, <1>2, <1>3, <1>4, <1>5, <1>6, <1>7, <1>8, <1>9

\* Every step of a connection, of its forwards and of its master keeps the invariant.
LEMMA SSHStep == H!SSHInv /\ [H!Next]_H!vars => H!SSHInv'
<1> SUFFICES ASSUME H!SSHInv, [H!Next]_H!vars PROVE H!SSHInv'
  OBVIOUS
<1> USE BoundAssumption DEF H!SSHInv, H!TypeOK, H!Tables, H!Connections, H!None, H!ForwardsApart, H!HasForwards, H!MastersKnown, H!SSHHonest, H!PortsWork, H!PortsShared, H!NothingLeft
<1>1. CASE H!Get
  <2>1. H!TypeOK'
    BY <1>1 DEF H!Get, H!Open, H!Fresh, H!CheckExternalMaster
  <2>2. s3' \in H!Connections
    BY <1>1 DEF H!Get, H!Open, H!Fresh, H!CheckExternalMaster
  <2>3. H!Tables'
    BY <1>1 DEF H!Get, H!Open, H!Fresh, H!CheckExternalMaster
  <2>4. H!ForwardsApart'
    BY <1>1 DEF H!Get, H!Open, H!Fresh, H!CheckExternalMaster
  <2>5. H!HasForwards'
    BY <1>1 DEF H!Get, H!Open, H!Fresh, H!CheckExternalMaster
  <2>6. H!MastersKnown'
    <3>1. UNCHANGED <<s1, s9>> /\ ~s3.connected
      BY <1>1 DEF H!Get, H!Open, H!Fresh, H!CheckExternalMaster
    <3>2. \/ s2' /\ s3'.connected /\ s3'.keepalive = "running" /\ (s3'.own <=> ~s1) /\ (s4' <=> s4 \/ ~s1)
          \/ (s2 => s2') /\ (s4' <=> s4) /\ ~s3'.connected /\ s3'.keepalive = s3.keepalive
      BY <1>1, <3>1 DEF H!Get, H!Open, H!Fresh, H!CheckExternalMaster
    <3>3. CASE s2' /\ s3'.connected /\ s3'.keepalive = "running" /\ (s3'.own <=> ~s1) /\ (s4' <=> s4 \/ ~s1)
      BY <3>1, <3>3
    <3>4. CASE (s2 => s2') /\ (s4' <=> s4) /\ ~s3'.connected /\ s3'.keepalive = s3.keepalive
      BY <3>1, <3>4
    <3> QED BY <3>2, <3>3, <3>4
  <2>7. H!PortsWork'
    BY <1>1 DEF H!Get, H!Open, H!Fresh, H!CheckExternalMaster
  <2>8. H!PortsShared'
    BY <1>1 DEF H!Get, H!Open, H!Fresh, H!CheckExternalMaster
  <2>9. H!NothingLeft'
    BY <1>1 DEF H!Get, H!Open, H!Fresh, H!CheckExternalMaster
  <2> QED BY <2>1, <2>2, <2>3, <2>4, <2>5, <2>6, <2>7, <2>8, <2>9
<1>2. CASE H!Connect
  <2>1. H!TypeOK'
    BY <1>2 DEF H!Connect, H!Open, H!CheckExternalMaster
  <2>2. s3' \in H!Connections
    BY <1>2 DEF H!Connect, H!Open, H!CheckExternalMaster
  <2>3. H!Tables'
    BY <1>2 DEF H!Connect, H!Open, H!CheckExternalMaster
  <2>4. H!ForwardsApart'
    BY <1>2 DEF H!Connect, H!Open, H!CheckExternalMaster
  <2>5. H!HasForwards'
    BY <1>2 DEF H!Connect, H!Open, H!CheckExternalMaster
  <2>6. H!MastersKnown'
    <3>1. UNCHANGED <<s1, s9>> /\ ~s3.connected
      BY <1>2 DEF H!Connect, H!Open, H!CheckExternalMaster
    <3>2. \/ s2' /\ s3'.connected /\ s3'.keepalive = "running" /\ (s3'.own <=> ~s1) /\ (s4' <=> s4 \/ ~s1)
          \/ (s2 => s2') /\ (s4' <=> s4) /\ ~s3'.connected /\ s3'.keepalive = s3.keepalive
      BY <1>2, <3>1 DEF H!Connect, H!Open, H!CheckExternalMaster
    <3>3. CASE s2' /\ s3'.connected /\ s3'.keepalive = "running" /\ (s3'.own <=> ~s1) /\ (s4' <=> s4 \/ ~s1)
      BY <3>1, <3>3
    <3>4. CASE (s2 => s2') /\ (s4' <=> s4) /\ ~s3'.connected /\ s3'.keepalive = s3.keepalive
      BY <3>1, <3>4
    <3> QED BY <3>2, <3>3, <3>4
  <2>7. H!PortsWork'
    BY <1>2 DEF H!Connect, H!Open, H!CheckExternalMaster
  <2>8. H!PortsShared'
    BY <1>2 DEF H!Connect, H!Open, H!CheckExternalMaster
  <2>9. H!NothingLeft'
    BY <1>2 DEF H!Connect, H!Open, H!CheckExternalMaster
  <2> QED BY <2>1, <2>2, <2>3, <2>4, <2>5, <2>6, <2>7, <2>8, <2>9
<1>3. CASE H!Use
  BY <1>3 DEF H!Use, H!Raise
<1>4. CASE H!NotConnected
  BY <1>4 DEF H!NotConnected, H!Raise
<1>5. CASE H!RemoveConnection
  BY <1>5 DEF H!RemoveConnection, H!Fresh, H!IsConnected
<1>6. CASE H!Cleanup
  BY <1>6 DEF H!Cleanup, H!Fresh, H!IsConnected, H!Cancelled
<1>7. CASE H!LinkLost
  <2>1. H!TypeOK'
    BY <1>7 DEF H!LinkLost
  <2>2. s3' \in H!Connections
    BY <1>7 DEF H!LinkLost
  <2>3. H!Tables'
    BY <1>7 DEF H!LinkLost
  <2>4. H!ForwardsApart'
    BY <1>7 DEF H!LinkLost
  <2>5. H!HasForwards'
    BY <1>7 DEF H!LinkLost
  <2>6. H!MastersKnown'
    BY <1>7 DEF H!LinkLost
  <2>7. H!PortsWork'
    BY <1>7 DEF H!LinkLost
  <2>8. H!PortsShared'
    BY <1>7 DEF H!LinkLost
  <2>9. H!NothingLeft'
    BY <1>7 DEF H!LinkLost
  <2> QED BY <2>1, <2>2, <2>3, <2>4, <2>5, <2>6, <2>7, <2>8, <2>9
<1>8. ASSUME NEW d \in Dests, H!AddRemote(d) PROVE H!SSHInv'
  <2>1. H!TypeOK'
    BY <1>8 DEF H!AddRemote, H!IsConnected
  <2>2. s3' \in H!Connections
    BY <1>8 DEF H!AddRemote, H!IsConnected
  <2>3. H!Tables'
    BY <1>8 DEF H!AddRemote, H!IsConnected
  <2>4. H!ForwardsApart'
    BY <1>8 DEF H!AddRemote, H!IsConnected
  <2>5. H!HasForwards'
    BY <1>8 DEF H!AddRemote, H!IsConnected
  <2>6. H!MastersKnown'
    BY <1>8 DEF H!AddRemote, H!IsConnected
  <2>7. H!PortsWork'
    BY <1>8 DEF H!AddRemote, H!IsConnected
  <2>8. H!PortsShared'
    BY <1>8 DEF H!AddRemote, H!IsConnected
  <2>9. H!NothingLeft'
    BY <1>8 DEF H!AddRemote, H!IsConnected
  <2> QED BY <2>1, <2>2, <2>3, <2>4, <2>5, <2>6, <2>7, <2>8, <2>9
<1>9. ASSUME NEW d \in Dests, H!RemoveRemote(d) PROVE H!SSHInv'
  <2>1. H!TypeOK'
    BY <1>9 DEF H!RemoveRemote, H!IsConnected
  <2>2. s3' \in H!Connections
    BY <1>9 DEF H!RemoveRemote, H!IsConnected
  <2>3. H!Tables'
    BY <1>9 DEF H!RemoveRemote, H!IsConnected
  <2>4. H!ForwardsApart'
    BY <1>9 DEF H!RemoveRemote, H!IsConnected
  <2>5. H!HasForwards'
    BY <1>9 DEF H!RemoveRemote, H!IsConnected
  <2>6. H!MastersKnown'
    BY <1>9 DEF H!RemoveRemote, H!IsConnected
  <2>7. H!PortsWork'
    BY <1>9 DEF H!RemoveRemote, H!IsConnected
  <2>8. H!PortsShared'
    BY <1>9 DEF H!RemoveRemote, H!IsConnected
  <2>9. H!NothingLeft'
    BY <1>9 DEF H!RemoveRemote, H!IsConnected
  <2> QED BY <2>1, <2>2, <2>3, <2>4, <2>5, <2>6, <2>7, <2>8, <2>9
<1>10. ASSUME NEW drop \in BOOLEAN, H!Disconnect(drop) PROVE H!SSHInv'
  <2>1. H!TypeOK'
    BY <1>10 DEF H!Disconnect, H!Stopped, H!IsConnected
  <2>2. s3' \in H!Connections
    BY <1>10 DEF H!Disconnect, H!Stopped, H!IsConnected
  <2>3. H!Tables'
    BY <1>10 DEF H!Disconnect, H!Stopped, H!IsConnected
  <2>4. H!ForwardsApart'
    BY <1>10 DEF H!Disconnect, H!Stopped, H!IsConnected
  <2>5. H!HasForwards'
    BY <1>10 DEF H!Disconnect, H!Stopped, H!IsConnected
  <2>6. H!MastersKnown'
    BY <1>10 DEF H!Disconnect, H!Stopped, H!IsConnected
  <2>7. H!PortsWork'
    BY <1>10 DEF H!Disconnect, H!Stopped, H!IsConnected
  <2>8. H!PortsShared'
    BY <1>10 DEF H!Disconnect, H!Stopped, H!IsConnected
  <2>9. H!NothingLeft'
    BY <1>10 DEF H!Disconnect, H!Stopped, H!IsConnected
  <2> QED BY <2>1, <2>2, <2>3, <2>4, <2>5, <2>6, <2>7, <2>8, <2>9
<1>11. ASSUME NEW u \in Users, H!RemoveForward(u) PROVE H!SSHInv'
  <2>1. H!TypeOK'
    BY <1>11 DEF H!RemoveForward, H!IsConnected
  <2>2. s3' \in H!Connections
    BY <1>11 DEF H!RemoveForward, H!IsConnected
  <2>3. H!Tables'
    BY <1>11 DEF H!RemoveForward, H!IsConnected
  <2>4. H!ForwardsApart'
    BY <1>11 DEF H!RemoveForward, H!IsConnected
  <2>5. H!HasForwards'
    BY <1>11 DEF H!RemoveForward, H!IsConnected
  <2>6. H!MastersKnown'
    BY <1>11 DEF H!RemoveForward, H!IsConnected
  <2>7. H!PortsWork'
    BY <1>11 DEF H!RemoveForward, H!IsConnected
  <2>8. H!PortsShared'
    BY <1>11 DEF H!RemoveForward, H!IsConnected
  <2>9. H!NothingLeft'
    BY <1>11 DEF H!RemoveForward, H!IsConnected
  <2> QED BY <2>1, <2>2, <2>3, <2>4, <2>5, <2>6, <2>7, <2>8, <2>9
<1>12. ASSUME NEW u \in Users, NEW d \in Dests, H!AddForward(u, d) PROVE H!SSHInv'
  <2>1. H!TypeOK'
    BY <1>12, SMTT(40) DEF H!AddForward, H!Wanted, H!IsConnected
  <2>2. s3' \in H!Connections
    BY <1>12, SMTT(40) DEF H!AddForward, H!Wanted, H!IsConnected
  <2>3. H!Tables'
    BY <1>12, <2>2, SMTT(30) DEF H!AddForward, H!Wanted, H!IsConnected
  <2>4. H!ForwardsApart'
    BY <1>12, SMTT(40) DEF H!AddForward, H!Wanted, H!IsConnected
  <2>5. H!HasForwards'
    BY <1>12, SMTT(40) DEF H!AddForward, H!Wanted, H!IsConnected
  <2>6. H!MastersKnown'
    BY <1>12, SMTT(40) DEF H!AddForward, H!Wanted, H!IsConnected
  <2>7. H!PortsWork'
    BY <1>12 DEF H!AddForward, H!Wanted, H!IsConnected
  <2>8. H!PortsShared'
    BY <1>12 DEF H!AddForward, H!Wanted, H!IsConnected
  <2>9. H!NothingLeft'
    BY <1>12 DEF H!AddForward, H!Wanted, H!IsConnected
  <2> QED BY <2>1, <2>2, <2>3, <2>4, <2>5, <2>6, <2>7, <2>8, <2>9
<1>13. CASE UNCHANGED H!vars
  BY <1>13 DEF H!vars
<1> QED BY <1>1, <1>2, <1>3, <1>4, <1>5, <1>6, <1>7, <1>8, <1>9, <1>10, <1>11, <1>12, <1>13 DEF H!Next

-----------------------------------------------------------------------------
(***************************************************************************)
(* Outputs that share an FTDI chip (driver/ftdigpiodriver.py).             *)
(***************************************************************************)
\* The module's own name for the number of elements.
LEMMA SharedCardinality == \A X : S!Cardinality(X) = Cardinality(X)
BY DEF S!Cardinality, Cardinality

\* The users of an agent are finitely many, and no more than there are drivers.
LEMMA CountUsers ==
    ASSUME NEW c, NEW n
    PROVE  /\ IsFiniteSet(S!UsersOf(c, n)) /\ S!Cardinality(S!UsersOf(c, n)) \in 0..S!Cardinality(Drivers)
           /\ S!Cardinality(Drivers) \in Nat
<1>1. S!UsersOf(c, n) \subseteq Drivers
  BY DEF S!UsersOf
<1> QED BY <1>1, OutputsAssumption, SharedCardinality, FS_Subset, FS_CardinalityType

\* The same in the next state.
LEMMA CountUsersNext ==
    ASSUME NEW c, NEW n
    PROVE  /\ IsFiniteSet(S!UsersOf(c, n)') /\ S!Cardinality(S!UsersOf(c, n)') \in 0..S!Cardinality(Drivers)
           /\ S!Cardinality(Drivers) \in Nat
<1>1. S!UsersOf(c, n)' \subseteq Drivers
  BY DEF S!UsersOf
<1> QED BY <1>1, OutputsAssumption, SharedCardinality, FS_Subset, FS_CardinalityType

\* What the counts and the claim say of the properties.
LEMMA SharedFollows ==
    ASSUME S!TypeOK, S!CallsApart, S!ClaimKnown, S!CountsKnown
    PROVE  S!AgentsAreCounted /\ S!ClaimLeftByFailure
<1>1. S!AgentsAreCounted
  BY DEF S!CountsKnown
<1>2. ASSUME s8 # S!NoAgent, \A d \in S!Served(s8) : ~S!Calling(d)
      PROVE  s1 = "hid" /\ \E d \in S!Served(s8) : s9[d] = "error"
  <2>1. PICK d \in Drivers : s4[d] # 0 /\ s8 = S!Agent(d) /\ (S!Holding(d) \/ (~S!Shares /\ (S!Calling(d) \/ s9[d] = "error")))
    BY <1>2 DEF S!ClaimKnown
  <2>2. d \in S!Served(s8)
    BY <2>1 DEF S!Served
  <2>3. ~S!Calling(d)
    BY <1>2, <2>2
  <2>4. s5[d] = <<"idle", FALSE>>
    BY <2>3 DEF S!Calling, S!Idle
  <2>5. ~S!Holding(d)
    BY <2>4 DEF S!Holding
  <2> QED BY <2>1, <2>2, <2>3, <2>5 DEF S!Shares, S!TypeOK
<1> QED BY <1>1, <1>2 DEF S!ClaimLeftByFailure

\* A driver that holds the interface is in a call.
LEMMA HoldingCalls ==
    ASSUME NEW e \in Drivers
    PROVE  /\ S!Holding(e) => S!Calling(e)
           /\ s5[e][1] # "idle" => S!Calling(e)
           /\ s5[e] = <<"idle", FALSE>> => ~S!Holding(e) /\ ~S!At(e, "release") /\ ~S!At(e, "write")
<1>1. S!Idle[1] = "idle" /\ S!Idle = <<"idle", FALSE>>
  BY DEF S!Idle
<1>2. s5[e] = S!Idle => s5[e][1] = "idle"
  BY <1>1
<1> QED BY <1>1, <1>2 DEF S!Holding, S!Calling, S!At

\* Before the first activation no agent runs and no call is under way.
LEMMA SharedInit == ASSUME S!Init PROVE S!SharedInv
<1> USE OutputsAssumption DEF S!Init
<1>1. S!TypeOK
  <2>1. 0 \in 0..S!Cardinality(Drivers)
    BY SharedCardinality, FS_CardinalityType
  <2>2. s3 \in [Clients \X S!Numbers -> 0..S!Cardinality(Drivers)]
    BY <2>1
  <2>3. s2 \in S!Numbers
    BY DEF S!Numbers
  <2>4. s5 \in [Drivers -> {"idle", "claim", "read", "write", "release", "close"} \X BOOLEAN]
    BY DEF S!Idle
  <2>5. s7 \in [Drivers -> BOOLEAN] /\ s6 \in [Drivers -> [Drivers -> BOOLEAN]]
    BY DEF S!NoByte
  <2>6. s4 \in [Drivers -> {0} \cup S!Numbers] /\ s9 \in [Drivers -> {"none", "on", "off", "error"}]
    OBVIOUS
  <2> QED BY <2>2, <2>3, <2>4, <2>5, <2>6 DEF S!TypeOK
<1>2. S!CallsApart /\ S!TransfersApart /\ S!ClaimKnown /\ S!NoLostUpdate
  BY DEF S!CallsApart, S!TransfersApart, S!ClaimKnown, S!NoLostUpdate, S!Calling, S!Holding, S!Idle, S!At
<1>3. S!CountsKnown
  <2>1. \A c \in Clients, k \in S!Numbers : S!UsersOf(c, k) = {} /\ s3[<<c, k>>] = 0
    BY DEF S!UsersOf, S!Numbers
  <2>2. S!Cardinality({}) = 0
    BY SharedCardinality, FS_EmptySet
  <2>3. \A c \in Clients, k \in S!Numbers : S!Cardinality(S!UsersOf(c, k)) = 0 /\ s3[<<c, k>>] = 0
    BY <2>1, <2>2
  <2>4. \A d \in Drivers : s4[d] <= s2
    OBVIOUS
  <2>5. s10 = {}
    OBVIOUS
  <2> HIDE DEF S!Init
  <2>6. S!AgentsAreCounted
    BY <2>3, <2>5 DEF S!AgentsAreCounted
  <2> QED BY <2>1, <2>3, <2>4, <2>5, <2>6 DEF S!CountsKnown
<1> QED BY <1>1, <1>2, <1>3, SharedFollows DEF S!SharedInv, S!SharedSafely

\* Activating a driver keeps the invariant: it joins the agent of its chip or starts one.
LEMMA SharedActivates == ASSUME S!SharedInv, NEW d \in Drivers, S!Activate(d) PROVE S!SharedInv'
<1> USE OutputsAssumption DEF S!SharedInv
<1>1. /\ s4[d] = 0 /\ s4' = [s4 EXCEPT ![d] = s2] /\ s9' = [s9 EXCEPT ![d] = "none"]
      /\ ~S!Calling(d) /\ UNCHANGED <<s1, s2, s5, s6, s7, s8, s10, s11>>
      /\ s2 \in S!Numbers /\ s2 \in Nat \ {0} /\ s4 \in [Drivers -> {0} \cup S!Numbers]
  BY DEF S!Activate, S!Free, S!TypeOK, S!Numbers
<1>2. ClientOf[d] \in Clients /\ d \notin s10
  BY <1>1 DEF S!CountsKnown
<1>3. \A c, n : n # 0 => S!UsersOf(c, n)' = IF c = ClientOf[d] /\ n = s2 THEN S!UsersOf(c, n) \cup {d} ELSE S!UsersOf(c, n)
  BY <1>1, <1>2 DEF S!UsersOf
<1>4. d \notin S!UsersOf(ClientOf[d], s2)
  BY <1>1 DEF S!UsersOf
<1>5. S!Cardinality(S!UsersOf(ClientOf[d], s2)') = S!Cardinality(S!UsersOf(ClientOf[d], s2)) + 1
  <2>1. S!UsersOf(ClientOf[d], s2)' = S!UsersOf(ClientOf[d], s2) \cup {d}
    BY <1>1, <1>3
  <2> QED BY <1>4, <2>1, CountUsers, SharedCardinality, FS_AddElement
<1>6. \A c, n : S!Cardinality(S!UsersOf(c, n)) \in Nat /\ S!Cardinality(S!UsersOf(c, n)') \in 0..S!Cardinality(Drivers) /\ S!Cardinality(Drivers) \in Nat
  BY CountUsers, CountUsersNext
<1>7. S!Shares => s3[<<ClientOf[d], s2>>] \in 0..S!Cardinality(Drivers) /\ s3[<<ClientOf[d], s2>>] <= S!Cardinality(S!UsersOf(ClientOf[d], s2))
  <2>1. <<ClientOf[d], s2>> \in Clients \X S!Numbers
    BY <1>1, <1>2
  <2> QED BY <1>1, <1>2, <2>1 DEF S!TypeOK, S!CountsKnown
<1>8. s3' \in [Clients \X S!Numbers -> 0..S!Cardinality(Drivers)]
  <2>1. S!Shares => s3[<<ClientOf[d], s2>>] + 1 \in 0..S!Cardinality(Drivers)
    BY <1>2, <1>5, <1>6, <1>7
  <2>2. <<ClientOf[d], s2>> \in Clients \X S!Numbers
    BY <1>1, <1>2
  <2> QED BY <2>1, <2>2 DEF S!Activate, S!TypeOK
<1>9. S!TypeOK'
  <2>1. s4' \in [Drivers -> {0} \cup S!Numbers] /\ s9' \in [Drivers -> {"none", "on", "off", "error"}]
    BY <1>1 DEF S!TypeOK
  <2> QED BY <1>1, <1>8, <2>1 DEF S!TypeOK
<1>10. S!CallsApart'
  BY <1>1 DEF S!CallsApart, S!TypeOK, S!Calling
<1>11. S!TransfersApart'
  BY <1>1 DEF S!TransfersApart, S!TypeOK, S!Calling, S!Holding, S!Agent, S!Shares, S!At, S!Idle
<1>12. S!ClaimKnown'
  BY <1>1 DEF S!ClaimKnown, S!TypeOK, S!Calling, S!Holding, S!Agent, S!Shares
<1>13. S!CountsKnown'
  <2>1. \A c \in Clients, k \in S!Numbers :
            s3'[<<c, k>>] = IF S!Shares /\ c = ClientOf[d] /\ k = s2 THEN s3[<<c, k>>] + 1 ELSE s3[<<c, k>>]
    <3>1. s3 \in [Clients \X S!Numbers -> 0..S!Cardinality(Drivers)]
      BY DEF S!TypeOK
    <3>2. s3' = IF S!Shares THEN [s3 EXCEPT ![<<ClientOf[d], s2>>] = @ + 1] ELSE s3
      BY DEF S!Activate
    <3> QED BY <1>1, <1>2, <3>1, <3>2
  <2>2. S!Shares' = S!Shares
    BY <1>1 DEF S!Shares
  <2>3. \A e \in Drivers : s4'[e] <= s2'
    BY <1>1 DEF S!CountsKnown
  <2>4. ASSUME NEW c \in Clients, NEW k \in S!Numbers
        PROVE  /\ k > s2' \/ ~S!Shares => s3'[<<c, k>>] = 0
               /\ k = s2' /\ S!Shares => s3'[<<c, k>>] <= S!Cardinality(S!UsersOf(c, k)')
               /\ S!Shares /\ s3'[<<c, k>>] = 0 => S!UsersOf(c, k)' = {}
               /\ S!Shares /\ <<c, k>> \notin s11' => s3'[<<c, k>>] = S!Cardinality(S!UsersOf(c, k)')
    <3>0. k \in Nat /\ k # 0 /\ s3[<<c, k>>] \in Nat
      <4>1. <<c, k>> \in Clients \X S!Numbers
        OBVIOUS
      <4>2. s3[<<c, k>>] \in 0..S!Cardinality(Drivers)
        BY <4>1 DEF S!TypeOK
      <4> QED BY <4>2, <1>6 DEF S!Numbers
    <3>1. /\ k > s2 \/ ~S!Shares => s3[<<c, k>>] = 0
          /\ k = s2 /\ S!Shares => s3[<<c, k>>] <= S!Cardinality(S!UsersOf(c, k))
          /\ S!Shares /\ s3[<<c, k>>] = 0 => S!UsersOf(c, k) = {}
          /\ S!Shares /\ <<c, k>> \notin s11 => s3[<<c, k>>] = S!Cardinality(S!UsersOf(c, k))
      BY DEF S!CountsKnown, S!AgentsAreCounted
    <3>2. CASE c = ClientOf[d] /\ k = s2 /\ S!Shares
      BY <1>1, <1>5, <1>6, <2>1, <3>0, <3>1, <3>2
    <3>3. CASE ~(c = ClientOf[d] /\ k = s2) /\ S!Shares
      BY <1>1, <1>3, <2>1, <3>0, <3>1, <3>3
    <3>4. CASE ~S!Shares
      BY <2>1, <3>1, <3>4
    <3> QED BY <3>2, <3>3, <3>4
  <2>5. \A e \in s10' : S!Shares /\ s4'[e] # 0 /\ S!Key(e)' \in s11'
    <3>1. \A e \in s10 : S!Shares /\ s4[e] # 0 /\ S!Key(e) \in s11 /\ e \in Drivers
      BY DEF S!CountsKnown, S!AgentsAreCounted, S!TypeOK
    <3>2. \A e \in s10 : s4'[e] = s4[e]
      BY <1>1, <1>2, <3>1
    <3> QED BY <1>1, <3>1, <3>2 DEF S!Key
  <2> HIDE DEF S!SharedInv
  <2>6. S!AgentsAreCounted'
    BY <2>2, <2>4, <2>5 DEF S!AgentsAreCounted, S!Numbers
  <2> QED BY <2>2, <2>3, <2>4, <2>5, <2>6 DEF S!CountsKnown, S!Numbers
<1>14. S!NoLostUpdate'
  BY <1>1 DEF S!SharedSafely, S!NoLostUpdate, S!TypeOK
<1>15. S!AgentsAreCounted' /\ S!ClaimLeftByFailure'
  BY <1>9, <1>10, <1>12, <1>13, SharedFollows, PTL
<1> QED BY <1>9, <1>10, <1>11, <1>12, <1>13, <1>14, <1>15 DEF S!SharedSafely

\* A driver that an agent serves is one of its users, and closing the agent
\* leaves none.
LEMMA AgentServes ==
    ASSUME S!SharedInv, NEW d \in Drivers, s4[d] # 0, S!Shares
    PROVE  /\ d \in S!UsersOf(ClientOf[d], s4[d]) <=> d \notin s10
           /\ S!Key(d) \notin s11 => d \notin s10
BY DEF S!SharedInv, S!CountsKnown, S!AgentsAreCounted, S!UsersOf

\* Deactivating a driver keeps the invariant: the last user of a chip closes its agent.
LEMMA SharedDeactivates == ASSUME S!SharedInv, NEW d \in Drivers, S!Deactivate(d) PROVE S!SharedInv'
<1> USE OutputsAssumption DEF S!SharedInv
<1> DEFINE key == <<ClientOf[d], s2>>
           last == s3[key] = 1
<1>1. /\ s4[d] # 0 /\ s4' = [s4 EXCEPT ![d] = 0] /\ s9' = [s9 EXCEPT ![d] = "none"]
      /\ \A other \in Drivers : ClientOf[other] = ClientOf[d] => ~S!Calling(other)
      /\ UNCHANGED <<s1, s2, s5, s6, s7>>
      /\ s2 \in S!Numbers /\ s2 \in Nat \ {0} /\ s4 \in [Drivers -> {0} \cup S!Numbers]
  BY DEF S!Deactivate, S!Free, S!TypeOK, S!Numbers
<1>a. S!Shares => /\ s3' = [s3 EXCEPT ![key] = IF @ > 0 THEN @ - 1 ELSE 0]
                  /\ s10' = (IF last THEN s10 \cup S!UsersOf(ClientOf[d], s2) ELSE s10) \ {d}
                  /\ s11' = IF S!Key(d) = key THEN s11 ELSE s11 \cup {S!Key(d), key}
                  /\ s8' = IF last /\ s8 = key THEN S!NoAgent ELSE s8
  BY DEF S!Deactivate, S!ReleaseAgent
<1>b. ~S!Shares => s8' = (IF s8 = S!Agent(d) THEN S!NoAgent ELSE s8) /\ UNCHANGED <<s3, s10, s11>>
  BY DEF S!Deactivate, S!CloseAgent
<1>2. key \in Clients \X S!Numbers /\ s3[key] \in 0..S!Cardinality(Drivers) /\ S!Cardinality(Drivers) \in Nat
  BY <1>1, CountUsers DEF S!TypeOK
<1>9. S!TypeOK'
  <2>1. s4' \in [Drivers -> {0} \cup S!Numbers] /\ s9' \in [Drivers -> {"none", "on", "off", "error"}]
    BY <1>1 DEF S!TypeOK
  <2>2. (IF s3[key] > 0 THEN s3[key] - 1 ELSE 0) \in 0..S!Cardinality(Drivers)
    BY <1>2
  <2>3. s3' \in [Clients \X S!Numbers -> 0..S!Cardinality(Drivers)]
    <3>1. CASE S!Shares
      BY <1>a, <1>2, <2>2, <3>1 DEF S!TypeOK
    <3>2. CASE ~S!Shares
      BY <1>b, <3>2 DEF S!TypeOK
    <3> QED BY <3>1, <3>2
  <2>4. S!UsersOf(ClientOf[d], s2) \subseteq Drivers
    BY DEF S!UsersOf
  <2>5. s10' \subseteq Drivers
    BY <1>a, <1>b, <2>4 DEF S!TypeOK
  <2>6. S!Key(d) \in Clients \X S!Numbers
    BY <1>1 DEF S!Key
  <2>7. s11' \subseteq Clients \X S!Numbers
    BY <1>a, <1>b, <1>2, <2>6 DEF S!TypeOK
  <2> HIDE DEF key, last
  <2> QED BY <1>1, <2>1, <2>3, <2>5, <2>7 DEF S!TypeOK
<1>10. S!CallsApart'
  BY <1>1 DEF S!CallsApart, S!TypeOK, S!Calling
<1>11. \A e \in Drivers : S!Holding(e) => S!Calling(e) /\ ClientOf[e] # ClientOf[d] /\ e # d
  <2> SUFFICES ASSUME NEW e \in Drivers, S!Holding(e)
               PROVE  S!Calling(e) /\ ClientOf[e] # ClientOf[d] /\ e # d
    OBVIOUS
  <2>2. S!Calling(e)
    BY HoldingCalls
  <2> QED BY <1>1, <2>2
<1>12. s8' \in {s8, S!NoAgent}
  BY <1>a, <1>b
<1>13. s8' # s8 => IF S!Shares THEN s8 = key ELSE s8 = S!Agent(d)
  BY <1>a, <1>b
<1>14. \A e \in Drivers : S!Holding(e) => s8' = s8
  BY <1>11, <1>13 DEF S!TransfersApart, S!Agent, S!Shares
<1>15. \A e \in Drivers : e # d => S!Agent(e)' = S!Agent(e)
  BY <1>1 DEF S!Agent, S!Shares
<1>16. S!TransfersApart'
  <2>1. ASSUME NEW e \in Drivers, S!Holding(e)' PROVE s8' = S!Agent(e)'
    <3>1. S!Holding(e)
      BY <1>1, <2>1 DEF S!Holding
    <3> QED BY <3>1, <1>11, <1>14, <1>15 DEF S!TransfersApart
  <2> QED BY <1>1, <2>1 DEF S!TransfersApart, S!Shares, S!At
<1>17. S!ClaimKnown'
  <2> SUFFICES ASSUME s8' # S!NoAgent
               PROVE  \E e \in Drivers : s4'[e] # 0 /\ s8' = S!Agent(e)' /\ (S!Holding(e)' \/ (~S!Shares' /\ (S!Calling(e)' \/ s9'[e] = "error")))
    BY DEF S!ClaimKnown
  <2>1. s8' = s8 /\ s8 # S!NoAgent
    BY <1>12
  <2>2. PICK e \in Drivers : s4[e] # 0 /\ s8 = S!Agent(e) /\ (S!Holding(e) \/ (~S!Shares /\ (S!Calling(e) \/ s9[e] = "error")))
    BY <2>1 DEF S!ClaimKnown
  <2>3. e # d
    <3>1. CASE S!Shares
      BY <1>11, <2>2, <3>1
    <3>2. CASE ~S!Shares
      BY <1>b, <2>1, <2>2, <3>2
    <3> QED BY <3>1, <3>2
  <2> QED BY <1>1, <1>15, <2>1, <2>2, <2>3 DEF S!Holding, S!Calling, S!Shares, S!TypeOK
<1>18. S!CountsKnown'
  <2>1. S!Shares' = S!Shares
    BY <1>1 DEF S!Shares
  <2>2. \A e \in Drivers : s4'[e] <= s2'
    BY <1>1 DEF S!CountsKnown
  <2>3. CASE ~S!Shares
    <3>1. s10 = {} /\ s10' = {} /\ s3' = s3
      BY <1>b, <2>3 DEF S!CountsKnown
    <3>2. \A c \in Clients, k \in S!Numbers : s3'[<<c, k>>] = 0
      BY <2>3, <3>1 DEF S!CountsKnown
    <3> QED BY <2>1, <2>2, <2>3, <3>1, <3>2 DEF S!CountsKnown, S!AgentsAreCounted, S!Numbers
  <2>4. CASE S!Shares
    <3>1. \A c \in Clients, k \in S!Numbers :
              s3'[<<c, k>>] = IF <<c, k>> = key THEN (IF s3[key] > 0 THEN s3[key] - 1 ELSE 0) ELSE s3[<<c, k>>]
      <4>1. s3 \in [Clients \X S!Numbers -> 0..S!Cardinality(Drivers)]
        BY DEF S!TypeOK
      <4> QED BY <1>a, <1>2, <2>4, <4>1
    <3>2. \A c \in Clients, k \in S!Numbers :
              S!UsersOf(c, k)' = IF <<c, k>> = key /\ last THEN {} ELSE S!UsersOf(c, k) \ {d}
      <4>1. \A e \in Drivers : e # d => s4'[e] = s4[e]
        BY <1>1
      <4>2. s4'[d] = 0
        BY <1>1
      <4>3. \A k \in S!Numbers : k # 0
        BY DEF S!Numbers
      <4>4. \A e \in Drivers : e # d => (e \in s10' <=> e \in s10 \/ (last /\ ClientOf[e] = ClientOf[d] /\ s4[e] = s2 /\ e \notin s10))
        BY <1>a, <2>4 DEF S!UsersOf
      <4> HIDE DEF last
      <4> QED BY <1>1, <4>1, <4>2, <4>3, <4>4 DEF S!UsersOf
    <3>3. \A c, k : /\ S!Cardinality(S!UsersOf(c, k)) \in Nat
                    /\ S!Cardinality(S!UsersOf(c, k) \ {d}) =
                          IF d \in S!UsersOf(c, k) THEN S!Cardinality(S!UsersOf(c, k)) - 1 ELSE S!Cardinality(S!UsersOf(c, k))
                    /\ S!Cardinality(S!UsersOf(c, k) \ {d}) \in Nat
      <4>1. \A c, k : IsFiniteSet(S!UsersOf(c, k)) /\ S!Cardinality(S!UsersOf(c, k)) \in Nat
        BY CountUsers
      <4>2. ASSUME NEW c, NEW k
            PROVE  S!Cardinality(S!UsersOf(c, k) \ {d}) \in Nat
        BY <4>1, SharedCardinality, FS_RemoveElement, FS_CardinalityType, FS_Difference
      <4> QED BY <4>1, <4>2, SharedCardinality, FS_RemoveElement
    <3>4. S!Cardinality({}) = 0 /\ \A c, k : S!Cardinality(S!UsersOf(c, k) \ {d}) = 0 => S!UsersOf(c, k) \subseteq {d}
      <4>1. S!Cardinality({}) = 0
        BY SharedCardinality, FS_EmptySet
      <4>2. ASSUME NEW c, NEW k, S!Cardinality(S!UsersOf(c, k) \ {d}) = 0
            PROVE  S!UsersOf(c, k) \subseteq {d}
        <5>1. IsFiniteSet(S!UsersOf(c, k) \ {d})
          BY CountUsers, FS_Difference
        <5>2. S!UsersOf(c, k) \ {d} = {}
          BY <4>2, <5>1, SharedCardinality, FS_EmptySet
        <5> QED BY <5>2
      <4> QED BY <4>1, <4>2
    <3>5. ASSUME NEW c \in Clients, NEW k \in S!Numbers
          PROVE  /\ k \in Nat /\ s3[<<c, k>>] \in Nat
                 /\ k > s2 => s3[<<c, k>>] = 0
                 /\ k = s2 => s3[<<c, k>>] <= S!Cardinality(S!UsersOf(c, k))
                 /\ s3[<<c, k>>] = 0 => S!UsersOf(c, k) = {}
                 /\ <<c, k>> \notin s11 => s3[<<c, k>>] = S!Cardinality(S!UsersOf(c, k))
      <4>1. <<c, k>> \in Clients \X S!Numbers
        OBVIOUS
      <4>2. s3[<<c, k>>] \in 0..S!Cardinality(Drivers)
        BY <4>1 DEF S!TypeOK
      <4>3. k \in Nat
        BY DEF S!Numbers
      <4> QED BY <1>2, <2>4, <4>2, <4>3 DEF S!CountsKnown, S!AgentsAreCounted
    <3>6. \A c, k : d \in S!UsersOf(c, k) => <<c, k>> = S!Key(d)
      BY DEF S!UsersOf, S!Key
    <3>7. S!Key(d) = key /\ key \notin s11 => d \in S!UsersOf(ClientOf[d], s2)
      <4>1. S!Key(d) = key => s4[d] = s2
        BY DEF S!Key
      <4> QED BY <1>1, <2>4, <4>1, AgentServes
    <3>8. s11 \subseteq s11' /\ (key \notin s11' => key \notin s11 /\ S!Key(d) = key) /\ (S!Key(d) \notin s11' => S!Key(d) = key)
      BY <1>a, <2>4
    <3>9. ASSUME NEW c \in Clients, NEW k \in S!Numbers
          PROVE  /\ k > s2' => s3'[<<c, k>>] = 0
                 /\ k = s2' => s3'[<<c, k>>] <= S!Cardinality(S!UsersOf(c, k)')
                 /\ s3'[<<c, k>>] = 0 => S!UsersOf(c, k)' = {}
                 /\ <<c, k>> \notin s11' => s3'[<<c, k>>] = S!Cardinality(S!UsersOf(c, k)')
      <4>1. CASE <<c, k>> = key /\ last
        <5>1. s3'[<<c, k>>] = 0 /\ S!UsersOf(c, k)' = {}
          BY <3>1, <3>2, <4>1
        <5> QED BY <3>4, <5>1
      <4>2. CASE <<c, k>> = key /\ ~last
        <5>1. c = ClientOf[d] /\ k = s2
          BY <4>2
        <5>2. /\ s3'[<<c, k>>] = IF s3[<<c, k>>] > 0 THEN s3[<<c, k>>] - 1 ELSE 0
              /\ S!UsersOf(c, k)' = S!UsersOf(c, k) \ {d} /\ s3[<<c, k>>] # 1
          BY <3>1, <3>2, <4>2
        <5>3. <<c, k>> \notin s11' => <<c, k>> \notin s11 /\ d \in S!UsersOf(c, k)
          BY <3>7, <3>8, <4>2, <5>1
        <5> HIDE DEF key, last
        <5>4. s3[<<c, k>>] = 0 => S!UsersOf(c, k) \ {d} = {} /\ S!Cardinality(S!UsersOf(c, k)) = 0
          BY <3>4, <3>5
        <5> DEFINE x == s3[<<c, k>>]
                   y == s3'[<<c, k>>]
                   u == S!Cardinality(S!UsersOf(c, k))
                   v == S!Cardinality(S!UsersOf(c, k)')
        <5>5. u \in Nat /\ v \in Nat /\ v = IF d \in S!UsersOf(c, k) THEN u - 1 ELSE u
          BY <3>3, <5>2
        <5>6. x \in Nat /\ x <= u /\ x # 1 /\ y = (IF x > 0 THEN x - 1 ELSE 0) /\ (x = 0 => u = 0)
          BY <1>1, <3>5, <5>1, <5>2, <5>4
        <5>7. <<c, k>> \notin s11' => x = u /\ d \in S!UsersOf(c, k)
          BY <3>5, <5>3
        <5>8. y = 0 => S!UsersOf(c, k)' = {}
          <6>1. y = 0 => x = 0
            BY <5>6
          <6> QED BY <5>2, <5>4, <6>1
        <5> HIDE DEF x, y, u, v
        <5>9. y <= v /\ (<<c, k>> \notin s11' => y = v)
          BY <5>5, <5>6, <5>7
        <5>10. ~(k > s2')
          BY <1>1, <5>1
        <5> QED BY <5>8, <5>9, <5>10 DEF y, v
      <4>3. CASE <<c, k>> # key
        <5>1. s3'[<<c, k>>] = s3[<<c, k>>] /\ S!UsersOf(c, k)' = S!UsersOf(c, k) \ {d}
          BY <3>1, <3>2, <4>3
        <5>2. <<c, k>> \notin s11' => <<c, k>> \notin s11 /\ d \notin S!UsersOf(c, k)
          BY <3>6, <3>8, <4>3
        <5>3. k = s2 => d \notin S!UsersOf(c, k)
          BY <4>3 DEF S!UsersOf
        <5> HIDE DEF key, last
        <5> QED BY <1>1, <3>3, <3>5, <5>1, <5>2, <5>3
      <4> QED BY <4>1, <4>2, <4>3
    <3>10. ASSUME NEW e \in s10' PROVE s4'[e] # 0 /\ S!Key(e)' \in s11'
      <4>1. e \in Drivers /\ e # d /\ (e \in s10 \/ (last /\ e \in S!UsersOf(ClientOf[d], s2)))
        <5>1. e # d /\ (e \in s10 \/ (last /\ e \in S!UsersOf(ClientOf[d], s2)))
          BY <1>a, <2>4, <3>10
        <5>2. s10 \subseteq Drivers /\ S!UsersOf(ClientOf[d], s2) \subseteq Drivers
          BY DEF S!TypeOK, S!UsersOf
        <5> QED BY <5>1, <5>2
      <4>2. s4'[e] = s4[e] /\ S!Key(e)' = S!Key(e)
        BY <1>1, <4>1 DEF S!Key
      <4>3. CASE e \in s10
        BY <3>8, <4>2, <4>3 DEF S!CountsKnown, S!AgentsAreCounted
      <4>4. CASE last /\ e \in S!UsersOf(ClientOf[d], s2)
        <5>1. S!Key(e) = key /\ s4[e] # 0
          BY <1>1, <4>4 DEF S!Key, S!UsersOf
        <5>2. SUFFICES ASSUME key \notin s11' PROVE FALSE
          BY <4>2, <5>1
        <5>3. key \notin s11 /\ d \in S!UsersOf(ClientOf[d], s2)
          BY <3>7, <3>8, <5>2
        <5>4. ClientOf[d] \in Clients /\ s3[key] = 1
          BY <4>4
        <5>5. S!Cardinality(S!UsersOf(ClientOf[d], s2)) = 1
          BY <1>1, <3>5, <5>3, <5>4
        <5>6. S!Cardinality(S!UsersOf(ClientOf[d], s2) \ {d}) = S!Cardinality(S!UsersOf(ClientOf[d], s2)) - 1
          BY <3>3, <5>3
        <5>7. S!Cardinality(S!UsersOf(ClientOf[d], s2) \ {d}) = 0
          BY <5>5, <5>6
        <5>8. S!UsersOf(ClientOf[d], s2) \subseteq {d}
          BY <3>4, <5>7
        <5> QED BY <4>1, <4>4, <5>8
      <4> QED BY <4>1, <4>3, <4>4
    <3> HIDE DEF S!SharedInv, key, last
    <3>11. S!AgentsAreCounted'
      BY <2>1, <3>9, <3>10 DEF S!AgentsAreCounted, S!Numbers
    <3> QED BY <2>1, <2>2, <2>4, <3>9, <3>10, <3>11 DEF S!CountsKnown, S!Numbers
  <2> QED BY <2>3, <2>4
<1>19. S!NoLostUpdate'
  BY <1>1 DEF S!SharedSafely, S!NoLostUpdate, S!TypeOK
<1>20. S!AgentsAreCounted' /\ S!ClaimLeftByFailure'
  BY <1>9, <1>10, <1>17, <1>18, SharedFollows, PTL
<1> QED BY <1>9, <1>10, <1>16, <1>17, <1>18, <1>19, <1>20 DEF S!SharedSafely

\* A step that leaves the references, the agents and their number alone.
LEMMA CountsKept ==
    ASSUME S!CountsKnown, UNCHANGED <<s1, s2, s3, s4, s10, s11>>
    PROVE  S!CountsKnown'
<1>1. \A c, n : S!UsersOf(c, n)' = S!UsersOf(c, n)
  BY DEF S!UsersOf
<1>2. S!AgentsAreCounted'
  BY <1>1 DEF S!CountsKnown, S!AgentsAreCounted, S!Shares, S!Key, S!Numbers
<1> QED BY <1>1, <1>2 DEF S!CountsKnown, S!Shares, S!Numbers

\* Another number for the chip after it was plugged again keeps the invariant.
LEMMA SharedReplug == ASSUME S!SharedInv, S!Replug PROVE S!SharedInv'
<1> USE OutputsAssumption DEF S!SharedInv
<1>1. /\ s2 < MaxNumber /\ s2' = s2 + 1 /\ s8' = S!NoAgent /\ UNCHANGED <<s1, s3, s4, s10, s11>>
      /\ s2 \in Nat \ {0} /\ s2' \in S!Numbers /\ s4 \in [Drivers -> {0} \cup S!Numbers]
      /\ s7' \in {s7, S!NoByte} /\ s5' = [e \in Drivers |-> <<"idle", FALSE>>] /\ s6' = [e \in Drivers |-> S!NoByte]
      /\ s9' = [e \in Drivers |-> IF S!Calling(e) THEN "error" ELSE "none"]
  BY DEF S!Replug, S!TypeOK, S!Numbers, S!Idle
<1>2. \A e \in Drivers : s5'[e] = <<"idle", FALSE>> /\ ~S!Calling(e)' /\ ~S!Holding(e)' /\ s9'[e] \in {"none", "error"}
  BY <1>1 DEF S!Calling, S!Holding, S!Idle
<1>3. S!TypeOK'
  <2>1. S!NoByte \in [Drivers -> BOOLEAN]
    BY DEF S!NoByte
  <2>2. s5' \in [Drivers -> {"idle", "claim", "read", "write", "release", "close"} \X BOOLEAN]
    BY <1>1
  <2>3. s6' \in [Drivers -> [Drivers -> BOOLEAN]] /\ s7' \in [Drivers -> BOOLEAN] /\ s9' \in [Drivers -> {"none", "on", "off", "error"}]
    BY <1>1, <2>1 DEF S!TypeOK
  <2> QED BY <1>1, <2>2, <2>3 DEF S!TypeOK
<1>4. S!CallsApart' /\ S!ClaimKnown' /\ S!NoLostUpdate'
  BY <1>1, <1>2 DEF S!CallsApart, S!ClaimKnown, S!NoLostUpdate
<1>5. S!TransfersApart'
  BY <1>1, <1>2 DEF S!TransfersApart, S!At
<1>6. S!CountsKnown'
  <2>0. \A k \in S!Numbers : k >= s2' => k > s2
    BY <1>1 DEF S!Numbers
  <2>1. \A c, n : S!UsersOf(c, n)' = S!UsersOf(c, n)
    BY <1>1 DEF S!UsersOf
  <2>2. \A c, n : S!Cardinality(S!UsersOf(c, n)) \in Nat
    BY CountUsers
  <2>3. \A e \in Drivers : s4'[e] <= s2'
    BY <1>1 DEF S!CountsKnown, S!Numbers
  <2>4. \A c \in Clients, k \in S!Numbers : k >= s2' \/ ~S!Shares => s3'[<<c, k>>] = 0
    BY <1>1, <2>0 DEF S!CountsKnown
  <2>5. S!Shares' = S!Shares /\ \A e \in Drivers : S!Key(e)' = S!Key(e)
    BY <1>1 DEF S!Shares, S!Key
  <2>6. S!AgentsAreCounted'
    BY <1>1, <2>1, <2>5 DEF S!CountsKnown, S!AgentsAreCounted, S!Numbers, S!TypeOK
  <2>7. \A c \in Clients, k \in S!Numbers :
          /\ k > s2' \/ ~S!Shares => s3'[<<c, k>>] = 0
          /\ k = s2' /\ S!Shares => s3'[<<c, k>>] <= S!Cardinality(S!UsersOf(c, k)')
          /\ S!Shares /\ s3'[<<c, k>>] = 0 => S!UsersOf(c, k)' = {}
    <3> SUFFICES ASSUME NEW c \in Clients, NEW k \in S!Numbers
                 PROVE  /\ k > s2' \/ ~S!Shares => s3'[<<c, k>>] = 0
                        /\ k = s2' /\ S!Shares => s3'[<<c, k>>] <= S!Cardinality(S!UsersOf(c, k)')
                        /\ S!Shares /\ s3'[<<c, k>>] = 0 => S!UsersOf(c, k)' = {}
      OBVIOUS
    <3>1. k \in Nat /\ s2' \in Nat
      BY <1>1 DEF S!Numbers
    <3>2. k >= s2' \/ ~S!Shares => s3'[<<c, k>>] = 0
      BY <2>4
    <3>3. S!UsersOf(c, k)' = S!UsersOf(c, k) /\ S!Cardinality(S!UsersOf(c, k)) \in Nat
      BY <2>1, <2>2
    <3>4. S!Shares /\ s3[<<c, k>>] = 0 => S!UsersOf(c, k) = {}
      BY DEF S!CountsKnown
    <3>5. s3' = s3
      BY <1>1
    <3> HIDE DEF S!SharedInv
    <3> QED BY <3>1, <3>2, <3>3, <3>4, <3>5
  <2>8. \A e \in s10' : S!Shares /\ s4'[e] # 0
    BY <1>1 DEF S!CountsKnown
  <2> QED BY <2>3, <2>5, <2>6, <2>7, <2>8 DEF S!CountsKnown, S!Numbers
<1>7. S!AgentsAreCounted' /\ S!ClaimLeftByFailure'
  BY <1>3, <1>4, <1>6, SharedFollows, PTL
<1> QED BY <1>3, <1>4, <1>5, <1>6, <1>7 DEF S!SharedSafely

\* Calling set() on a driver keeps the invariant.
LEMMA SharedSets == ASSUME S!SharedInv, NEW d \in Drivers, NEW value \in BOOLEAN, S!Set(d, value) PROVE S!SharedInv'
<1> USE DEF S!SharedInv
<1>1. /\ s4[d] # 0 /\ \A other \in Drivers : ClientOf[other] = ClientOf[d] => ~S!Calling(other)
      /\ s5' = [s5 EXCEPT ![d] = <<"claim", value>>] /\ s9' = [s9 EXCEPT ![d] = "none"]
      /\ UNCHANGED <<s1, s2, s3, s4, s6, s7, s8, s10, s11>>
  BY DEF S!Set, S!Free
<1>2. S!TypeOK'
  <2>1. <<"claim", value>> \in {"idle", "claim", "read", "write", "release", "close"} \X BOOLEAN
    OBVIOUS
  <2>2. s5' \in [Drivers -> {"idle", "claim", "read", "write", "release", "close"} \X BOOLEAN]
    BY <1>1, <2>1 DEF S!TypeOK
  <2>3. s9' \in [Drivers -> {"none", "on", "off", "error"}]
    BY <1>1 DEF S!TypeOK
  <2> QED BY <1>1, <2>2, <2>3 DEF S!TypeOK
<1>3. s5'[d] = <<"claim", value>> /\ s9'[d] = "none" /\ \A e \in Drivers : e # d => s5'[e] = s5[e] /\ s9'[e] = s9[e]
  BY <1>1 DEF S!TypeOK
<1>0. <<"claim", value>>[1] = "claim" /\ <<"claim", value>> # <<"idle", FALSE>>
  OBVIOUS
<1>4. S!CallsApart'
  <2>1. \A e \in Drivers : ClientOf[e] = ClientOf[d] /\ S!Calling(e)' => e = d
    BY <1>1, <1>3 DEF S!Calling
  <2>2. \A e \in Drivers : e # d => (S!Calling(e)' <=> S!Calling(e)) /\ s5'[e] = s5[e] /\ s9'[e] = s9[e] /\ s4'[e] = s4[e]
    BY <1>1, <1>3 DEF S!Calling
  <2>3. s5'[d][1] # "idle" /\ s4'[d] # 0 /\ s9'[d] = "none"
    BY <1>0, <1>1, <1>3
  <2> QED BY <2>1, <2>2, <2>3 DEF S!CallsApart
<1>5. \A e \in Drivers : S!Agent(e)' = S!Agent(e)
  BY <1>1 DEF S!Agent, S!Shares
<1>6. ~S!Holding(d)' /\ S!Calling(d)' /\ ~S!Calling(d)
  BY <1>0, <1>1, <1>3 DEF S!Holding, S!Calling, S!Idle
<1>7. S!TransfersApart'
  BY <1>1, <1>3, <1>5, <1>6 DEF S!TransfersApart, S!Holding, S!At, S!Shares
<1>8. S!ClaimKnown'
  <2> SUFFICES ASSUME s8' # S!NoAgent
               PROVE  \E e \in Drivers : s4'[e] # 0 /\ s8' = S!Agent(e)' /\ (S!Holding(e)' \/ (~S!Shares' /\ (S!Calling(e)' \/ s9'[e] = "error")))
    BY DEF S!ClaimKnown
  <2>1. PICK e \in Drivers : s4[e] # 0 /\ s8 = S!Agent(e) /\ (S!Holding(e) \/ (~S!Shares /\ (S!Calling(e) \/ s9[e] = "error")))
    BY <1>1 DEF S!ClaimKnown
  <2>2. S!Holding(d) => S!Calling(d)
    BY HoldingCalls
  <2>3. CASE e = d
    BY <1>1, <1>5, <1>6, <2>1, <2>2, <2>3 DEF S!Shares
  <2>4. CASE e # d
    BY <1>1, <1>3, <1>5, <2>1, <2>4 DEF S!Shares, S!Holding, S!Calling
  <2> QED BY <2>3, <2>4
<1>9. S!CountsKnown' /\ S!NoLostUpdate'
  BY <1>1, <1>3, CountsKept DEF S!SharedSafely, S!NoLostUpdate
<1>10. S!AgentsAreCounted' /\ S!ClaimLeftByFailure'
  BY <1>2, <1>4, <1>8, <1>9, SharedFollows, PTL
<1> QED BY <1>2, <1>4, <1>7, <1>8, <1>9, <1>10 DEF S!SharedSafely

\* A driver that holds the interface is the only one.
LEMMA OneHolder ==
    ASSUME S!SharedInv, NEW d \in Drivers, NEW e \in Drivers, S!Calling(d), S!Calling(e), S!Agent(d) = S!Agent(e)
    PROVE  e = d
<1> USE DEF S!SharedInv
<1>1. CASE S!Shares
  BY <1>1 DEF S!Agent, S!CallsApart
<1>2. CASE ~S!Shares
  BY <1>2 DEF S!Agent
<1> QED BY <1>1, <1>2

\* The call of a driver moves on with its value, or ends in some way.
CallMoves(d, to, v, how) ==
    /\ s5' = [s5 EXCEPT ![d] = <<to, v>>] /\ s9' = [s9 EXCEPT ![d] = how]
    /\ to \in {"idle", "read", "write", "release", "close"} /\ v \in BOOLEAN
    /\ how \in {"none", "on", "off", "error"}
    /\ (to = "idle") <=> (how # "none")
    /\ to = "idle" => v = FALSE

\* What the steps of a call have in common: the call of one driver moves on or
\* ends, and only the outputs, what it has read and the claim change with it.
LEMMA SharedCalls ==
    ASSUME S!SharedInv, NEW d \in Drivers, S!Calling(d), UNCHANGED <<s1, s2, s3, s4, s10, s11>>,
           NEW to, NEW v, NEW how, CallMoves(d, to, v, how),
           s6' \in [Drivers -> [Drivers -> BOOLEAN]], s7' \in [Drivers -> BOOLEAN]
    PROVE  /\ S!TypeOK' /\ S!CallsApart' /\ S!CountsKnown'
           /\ \A e \in Drivers : S!Agent(e)' = S!Agent(e)
           /\ s5'[d] = <<to, v>> /\ s9'[d] = how /\ s9[d] = "none"
           /\ \A e \in Drivers : e # d => s5'[e] = s5[e] /\ s9'[e] = s9[e]
<1> USE DEF S!SharedInv, CallMoves
<1>1. S!TypeOK'
  <2>1. <<to, v>> \in {"idle", "claim", "read", "write", "release", "close"} \X BOOLEAN
    OBVIOUS
  <2>2. s5' \in [Drivers -> {"idle", "claim", "read", "write", "release", "close"} \X BOOLEAN]
    BY <2>1 DEF S!TypeOK
  <2>3. s9' \in [Drivers -> {"none", "on", "off", "error"}]
    BY DEF S!TypeOK
  <2> QED BY <2>2, <2>3 DEF S!TypeOK
<1>2. s5'[d] = <<to, v>> /\ s9'[d] = how /\ \A e \in Drivers : e # d => s5'[e] = s5[e] /\ s9'[e] = s9[e]
  BY DEF S!TypeOK
<1>3. s4[d] # 0 /\ s9[d] = "none"
  BY DEF S!CallsApart
<1>4. S!CallsApart'
  <2>1. \A e \in Drivers : S!Calling(e)' => S!Calling(e)
    BY <1>2 DEF S!Calling, S!Idle
  <2>2. S!Calling(d)' => to # "idle"
    BY <1>2 DEF S!Calling, S!Idle
  <2>3. \A e \in Drivers : S!Calling(e)' => s5'[e][1] # "idle" /\ s4'[e] # 0 /\ s9'[e] = "none"
    BY <1>2, <1>3, <2>1, <2>2 DEF S!CallsApart
  <2> QED BY <2>1, <2>3 DEF S!CallsApart
<1>5. \A e \in Drivers : S!Agent(e)' = S!Agent(e)
  BY DEF S!Agent, S!Shares
<1> QED BY <1>1, <1>2, <1>3, <1>4, <1>5, CountsKept

\* A driver that holds the interface or is given it is the only holder.
LEMMA NobodyElseHolds ==
    ASSUME S!SharedInv, NEW d \in Drivers, S!Calling(d), s8 \in {S!NoAgent, S!Agent(d)},
           NEW e \in Drivers, S!Holding(e)
    PROVE  e = d
<1>1. s8 = S!Agent(e) /\ S!Calling(e)
  BY HoldingCalls DEF S!SharedInv, S!TransfersApart
<1>2. S!Agent(e) # S!NoAgent
  BY DEF S!Agent, S!NoAgent
<1> QED BY <1>1, <1>2, OneHolder

\* A step within a call keeps its value.
LEMMA SharedProceeds ==
    ASSUME S!SharedInv, NEW d \in Drivers, S!Calling(d), NEW to, S!Proceeds(d, to)
    PROVE  /\ s5[d][2] \in BOOLEAN
           /\ s5' = [s5 EXCEPT ![d] = <<to, s5[d][2]>>]
           /\ s9' = [s9 EXCEPT ![d] = "none"]
<1>1. s9[d] = "none"
  BY DEF S!SharedInv, S!CallsApart
<1> QED BY <1>1 DEF S!Proceeds, S!SharedInv, S!TypeOK

\* Claiming the chip for a transfer keeps the invariant.
LEMMA SharedClaims == ASSUME S!SharedInv, NEW d \in Drivers, S!Claim(d) PROVE S!SharedInv'
<1>0. S!TypeOK /\ S!CallsApart /\ S!TransfersApart /\ S!ClaimKnown /\ S!NoLostUpdate
  BY DEF S!SharedInv, S!SharedSafely
<1>1. s5[d][1] = "claim" /\ UNCHANGED <<s1, s2, s3, s4, s6, s7, s10, s11>>
  BY DEF S!Claim, S!At
<1>2. S!Calling(d) /\ ~S!Holding(d)
  BY <1>1, HoldingCalls DEF S!Holding
<1>3. s6' \in [Drivers -> [Drivers -> BOOLEAN]] /\ s7' \in [Drivers -> BOOLEAN]
  BY <1>0, <1>1 DEF S!TypeOK
<1>4. CASE s8 \in {S!NoAgent, S!Agent(d)} /\ s8' = S!Agent(d) /\ S!Proceeds(d, IF S!Shares THEN "read" ELSE "write")
  <2> DEFINE to == IF S!Shares THEN "read" ELSE "write"
  <2>1. s5[d][2] \in BOOLEAN /\ s5' = [s5 EXCEPT ![d] = <<to, s5[d][2]>>] /\ s9' = [s9 EXCEPT ![d] = "none"]
    BY <1>2, <1>4, SharedProceeds
  <2>2. to \in {"idle", "read", "write", "release", "close"} /\ to # "idle" /\ (S!Shares => to # "write") /\ to # "release"
        /\ to \in {"read", "write", "release", "close"} /\ ((to = "idle") <=> ("none" # "none"))
    OBVIOUS
  <2> HIDE DEF to
  <2>3. /\ S!TypeOK' /\ S!CallsApart' /\ S!CountsKnown'
        /\ \A e \in Drivers : S!Agent(e)' = S!Agent(e)
        /\ s5'[d] = <<to, s5[d][2]>> /\ s9'[d] = "none" /\ s9[d] = "none"
        /\ \A e \in Drivers : e # d => s5'[e] = s5[e] /\ s9'[e] = s9[e]
    <3>1. CallMoves(d, to, s5[d][2], "none")
      BY <2>1, <2>2 DEF CallMoves
    <3> QED BY <1>1, <1>2, <1>3, <3>1, SharedCalls
  <2>4. \A e \in Drivers : e # d => ~S!Holding(e)
    BY <1>2, <1>4, NobodyElseHolds
  <2>5. \A e \in Drivers : S!Holding(e)' => e = d
    BY <2>3, <2>4 DEF S!Holding
  <2>6. S!Holding(d)' /\ (S!Shares => ~S!At(d, "write")') /\ ~S!At(d, "release")'
    BY <2>2, <2>3 DEF S!Holding, S!At
  <2>7. S!TransfersApart'
    BY <1>1, <1>4, <2>3, <2>5, <2>6 DEF S!TransfersApart, S!Holding, S!At, S!Shares
  <2>8. S!ClaimKnown'
    <3>1. s4'[d] # 0
      BY <1>0, <1>1, <1>2 DEF S!CallsApart
    <3> QED BY <1>4, <2>3, <2>6, <3>1 DEF S!ClaimKnown
  <2>9. S!NoLostUpdate'
    BY <1>0, <1>1, <2>3 DEF S!NoLostUpdate
  <2>10. S!AgentsAreCounted' /\ S!ClaimLeftByFailure'
    BY <2>3, <2>8, SharedFollows, PTL
  <2> QED BY <2>3, <2>7, <2>8, <2>9, <2>10 DEF S!SharedInv, S!SharedSafely
<1>5. CASE s8' = s8 /\ S!Ends(d, "error")
  <2>1. s5' = [s5 EXCEPT ![d] = <<"idle", FALSE>>] /\ s9' = [s9 EXCEPT ![d] = "error"]
    BY <1>5 DEF S!Ends, S!Idle
  <2>3. /\ S!TypeOK' /\ S!CallsApart' /\ S!CountsKnown'
        /\ \A e \in Drivers : S!Agent(e)' = S!Agent(e)
        /\ s5'[d] = <<"idle", FALSE>> /\ s9'[d] = "error" /\ s9[d] = "none"
        /\ \A e \in Drivers : e # d => s5'[e] = s5[e] /\ s9'[e] = s9[e]
    <3>1. CallMoves(d, "idle", FALSE, "error")
      BY <2>1 DEF CallMoves
    <3> QED BY <1>1, <1>2, <1>3, <3>1, SharedCalls
  <2>4. ~S!Holding(d)' /\ ~S!At(d, "write")' /\ ~S!At(d, "release")'
    BY <2>3 DEF S!Holding, S!At
  <2>7. S!TransfersApart'
    BY <1>0, <1>1, <1>5, <2>3, <2>4 DEF S!TransfersApart, S!Holding, S!At, S!Shares
  <2>8. S!ClaimKnown'
    <3> SUFFICES ASSUME s8' # S!NoAgent
                 PROVE  \E e \in Drivers : s4'[e] # 0 /\ s8' = S!Agent(e)' /\ (S!Holding(e)' \/ (~S!Shares' /\ (S!Calling(e)' \/ s9'[e] = "error")))
      BY DEF S!ClaimKnown
    <3>1. PICK e \in Drivers : s4[e] # 0 /\ s8 = S!Agent(e) /\ (S!Holding(e) \/ (~S!Shares /\ (S!Calling(e) \/ s9[e] = "error")))
      BY <1>0, <1>5 DEF S!ClaimKnown
    <3>2. CASE e = d
      BY <1>1, <1>2, <1>5, <2>3, <3>1, <3>2 DEF S!Shares
    <3>3. CASE e # d
      BY <1>1, <1>5, <2>3, <3>1, <3>3 DEF S!Shares, S!Holding, S!Calling
    <3> QED BY <3>2, <3>3
  <2>9. S!NoLostUpdate'
    BY <1>0, <1>1, <2>3 DEF S!NoLostUpdate
  <2>10. S!AgentsAreCounted' /\ S!ClaimLeftByFailure'
    BY <2>3, <2>8, SharedFollows, PTL
  <2> QED BY <2>3, <2>7, <2>8, <2>9, <2>10 DEF S!SharedInv, S!SharedSafely
<1> QED BY <1>4, <1>5 DEF S!Claim

\* Reading the byte of the chip keeps the invariant.
LEMMA SharedReads == ASSUME S!SharedInv, NEW d \in Drivers, S!ReadByte(d) PROVE S!SharedInv'
<1>0. S!TypeOK /\ S!CallsApart /\ S!TransfersApart /\ S!ClaimKnown /\ S!NoLostUpdate
  BY DEF S!SharedInv, S!SharedSafely
<1>1. s5[d][1] = "read" /\ UNCHANGED <<s1, s2, s3, s4, s7, s8, s10, s11>>
  BY DEF S!ReadByte, S!At
<1>2. S!Calling(d) /\ S!Holding(d)
  BY <1>1, HoldingCalls DEF S!Holding
<1>3. PICK to \in {"write", "close"} : S!Proceeds(d, to) /\ s6' = IF to = "write" THEN [s6 EXCEPT ![d] = s7] ELSE s6
  BY DEF S!ReadByte
<1>4. s6' \in [Drivers -> [Drivers -> BOOLEAN]] /\ s7' \in [Drivers -> BOOLEAN]
  BY <1>0, <1>1, <1>3 DEF S!TypeOK
<1>5. s5[d][2] \in BOOLEAN /\ s5' = [s5 EXCEPT ![d] = <<to, s5[d][2]>>] /\ s9' = [s9 EXCEPT ![d] = "none"]
  BY <1>2, <1>3, SharedProceeds
<1>6. to \in {"idle", "read", "write", "release", "close"} /\ to # "idle" /\ ((to = "idle") <=> ("none" # "none"))
  OBVIOUS
<1>7. /\ S!TypeOK' /\ S!CallsApart' /\ S!CountsKnown'
      /\ \A e \in Drivers : S!Agent(e)' = S!Agent(e)
      /\ s5'[d] = <<to, s5[d][2]>> /\ s9'[d] = "none" /\ s9[d] = "none"
      /\ \A e \in Drivers : e # d => s5'[e] = s5[e] /\ s9'[e] = s9[e]
  <2>1. CallMoves(d, to, s5[d][2], "none")
    BY <1>5, <1>6 DEF CallMoves
  <2> QED BY <1>1, <1>2, <1>4, <2>1, SharedCalls
<1>8. S!Holding(d)' /\ (S!At(d, "write")' => to = "write") /\ ~S!At(d, "release")'
  BY <1>7 DEF S!Holding, S!At
<1>9. (to = "write" => s6'[d] = s7) /\ \A e \in Drivers : e # d => s6'[e] = s6[e]
  BY <1>0, <1>3 DEF S!TypeOK
<1>10. S!TransfersApart'
  BY <1>0, <1>1, <1>2, <1>7, <1>8, <1>9 DEF S!TransfersApart, S!Holding, S!At, S!Shares
<1>11. S!ClaimKnown'
  <2>1. s4'[d] # 0 /\ s8' = S!Agent(d)'
    BY <1>0, <1>1, <1>2, <1>7 DEF S!CallsApart, S!TransfersApart
  <2> QED BY <1>8, <2>1 DEF S!ClaimKnown
<1>12. S!NoLostUpdate'
  BY <1>0, <1>1, <1>7 DEF S!NoLostUpdate
<1>13. S!AgentsAreCounted' /\ S!ClaimLeftByFailure'
  BY <1>7, <1>11, SharedFollows, PTL
<1> QED BY <1>7, <1>10, <1>11, <1>12, <1>13 DEF S!SharedInv, S!SharedSafely

\* Writing the byte with one line changed keeps the invariant.
LEMMA SharedWrites == ASSUME S!SharedInv, NEW d \in Drivers, S!Write(d) PROVE S!SharedInv'
<1>0. S!TypeOK /\ S!CallsApart /\ S!TransfersApart /\ S!ClaimKnown /\ S!NoLostUpdate
  BY DEF S!SharedInv, S!SharedSafely
<1>1. s5[d][1] = "write" /\ UNCHANGED <<s1, s2, s3, s4, s8, s10, s11>> /\ s6' = [s6 EXCEPT ![d] = S!NoByte]
  BY DEF S!Write, S!At
<1>2. S!Calling(d) /\ S!Holding(d) /\ S!At(d, "write")
  BY <1>1, HoldingCalls DEF S!Holding, S!At
<1>3. s8 = S!Agent(d) /\ (S!Shares => s6[d] = s7) /\ s4[d] # 0
  BY <1>0, <1>2 DEF S!TransfersApart, S!CallsApart
<1>4. \A e \in Drivers : e # d => ~S!Holding(e)
  BY <1>2, <1>3, NobodyElseHolds
<1>5. s6' \in [Drivers -> [Drivers -> BOOLEAN]]
  BY <1>0, <1>1 DEF S!TypeOK, S!NoByte
<1>6. s5[d][2] \in BOOLEAN /\ s7 \in [Drivers -> BOOLEAN]
  BY <1>0 DEF S!TypeOK
<1>7. ASSUME NEW to \in {"idle", "release", "close"}, NEW v \in BOOLEAN, NEW how \in {"none", "error"},
             s5' = [s5 EXCEPT ![d] = <<to, v>>], s9' = [s9 EXCEPT ![d] = how],
             (to = "idle") <=> (how # "none"), to = "idle" => v = FALSE /\ ~S!Shares,
             s7' \in [Drivers -> BOOLEAN], to = "release" => s7'[d] = v, \A e \in Drivers : e # d => s7'[e] = s7[e]
      PROVE  S!SharedInv'
  <2>1. to \in {"idle", "read", "write", "release", "close"} /\ how \in {"none", "on", "off", "error"}
    OBVIOUS
  <2>2. /\ S!TypeOK' /\ S!CallsApart' /\ S!CountsKnown'
        /\ \A e \in Drivers : S!Agent(e)' = S!Agent(e)
        /\ s5'[d] = <<to, v>> /\ s9'[d] = how /\ s9[d] = "none"
        /\ \A e \in Drivers : e # d => s5'[e] = s5[e] /\ s9'[e] = s9[e]
    <3>1. CallMoves(d, to, v, how)
      BY <1>7, <2>1 DEF CallMoves
    <3> QED BY <1>1, <1>2, <1>5, <1>7, <3>1, SharedCalls
  <2>3. \A e \in Drivers : S!Holding(e)' => e = d
    BY <1>4, <2>2 DEF S!Holding
  <2>4. ~S!At(d, "write")' /\ (S!At(d, "release")' => to = "release") /\ (to # "idle" => S!Holding(d)')
    BY <2>2 DEF S!At, S!Holding
  <2>5. \A e \in Drivers : S!At(e, "write")' \/ S!At(e, "release")' => e = d
    BY <2>3 DEF S!At, S!Holding
  <2>6. S!TransfersApart'
    BY <1>1, <1>3, <1>7, <2>2, <2>3, <2>4, <2>5 DEF S!TransfersApart
  <2>7. S!ClaimKnown'
    BY <1>1, <1>3, <1>7, <2>2, <2>4 DEF S!ClaimKnown, S!Shares
  <2>8. S!NoLostUpdate'
    BY <1>0, <1>7, <2>2 DEF S!NoLostUpdate
  <2>9. S!AgentsAreCounted' /\ S!ClaimLeftByFailure'
    BY <2>2, <2>7, SharedFollows, PTL
  <2> QED BY <2>2, <2>6, <2>7, <2>8, <2>9 DEF S!SharedInv, S!SharedSafely
<1>8. CASE s7' = [(IF S!Shares THEN s6[d] ELSE s7) EXCEPT ![d] = s5[d][2]] /\ S!Proceeds(d, "release")
  <2>1. s7' = [s7 EXCEPT ![d] = s5[d][2]]
    BY <1>3, <1>8
  <2>2. s7' \in [Drivers -> BOOLEAN] /\ s7'[d] = s5[d][2] /\ \A e \in Drivers : e # d => s7'[e] = s7[e]
    BY <1>6, <2>1
  <2>3. s5' = [s5 EXCEPT ![d] = <<"release", s5[d][2]>>] /\ s9' = [s9 EXCEPT ![d] = "none"]
    BY <1>2, <1>8, SharedProceeds
  <2> QED BY <1>6, <1>7, <2>2, <2>3
<1>9. CASE s7' = s7 /\ S!Shares /\ S!Proceeds(d, "close")
  <2>1. s5' = [s5 EXCEPT ![d] = <<"close", s5[d][2]>>] /\ s9' = [s9 EXCEPT ![d] = "none"]
    BY <1>2, <1>9, SharedProceeds
  <2> QED BY <1>6, <1>7, <1>9, <2>1
<1>10. CASE s7' = s7 /\ ~S!Shares /\ S!Ends(d, "error")
  <2>1. s5' = [s5 EXCEPT ![d] = <<"idle", FALSE>>] /\ s9' = [s9 EXCEPT ![d] = "error"]
    BY <1>10 DEF S!Ends, S!Idle
  <2> QED BY <1>6, <1>7, <1>10, <2>1
<1> QED BY <1>8, <1>9, <1>10 DEF S!Write

\* Ending a transfer keeps the invariant.
LEMMA SharedReleases == ASSUME S!SharedInv, NEW d \in Drivers, S!Release(d) PROVE S!SharedInv'
<1>0. S!TypeOK /\ S!CallsApart /\ S!TransfersApart /\ S!ClaimKnown /\ S!NoLostUpdate
  BY DEF S!SharedInv, S!SharedSafely
<1> DEFINE how == IF S!At(d, "close") THEN "error" ELSE IF s5[d][2] THEN "on" ELSE "off"
<1>1. s5[d][1] \in {"release", "close"} /\ UNCHANGED <<s1, s2, s3, s4, s6, s7, s10, s11>> /\ s8' = S!NoAgent
      /\ s5' = [s5 EXCEPT ![d] = <<"idle", FALSE>>] /\ s9' = [s9 EXCEPT ![d] = how]
  BY DEF S!Release, S!At, S!Ends, S!Idle
<1>2. S!Calling(d) /\ S!Holding(d)
  BY <1>1, HoldingCalls DEF S!Holding
<1>3. s8 = S!Agent(d) /\ (how # "error" => s7[d] = s5[d][2])
  BY <1>0, <1>1, <1>2 DEF S!TransfersApart, S!At
<1>4. \A e \in Drivers : e # d => ~S!Holding(e)
  BY <1>2, <1>3, NobodyElseHolds
<1>5. s6' \in [Drivers -> [Drivers -> BOOLEAN]] /\ s7' \in [Drivers -> BOOLEAN] /\ s5[d][2] \in BOOLEAN
  BY <1>0, <1>1 DEF S!TypeOK
<1>6. how \in {"none", "on", "off", "error"} /\ how # "none" /\ (how = "on" => s5[d][2]) /\ (how = "off" => ~s5[d][2])
  OBVIOUS
<1> HIDE DEF how
<1>7. /\ S!TypeOK' /\ S!CallsApart' /\ S!CountsKnown'
      /\ \A e \in Drivers : S!Agent(e)' = S!Agent(e)
      /\ s5'[d] = <<"idle", FALSE>> /\ s9'[d] = how /\ s9[d] = "none"
      /\ \A e \in Drivers : e # d => s5'[e] = s5[e] /\ s9'[e] = s9[e]
  <2>1. CallMoves(d, "idle", FALSE, how)
    BY <1>1, <1>6 DEF CallMoves
  <2> QED BY <1>1, <1>2, <1>5, <2>1, SharedCalls
<1>8. \A e \in Drivers : ~S!Holding(e)'
  BY <1>4, <1>7 DEF S!Holding
<1>9. S!TransfersApart'
  BY <1>8 DEF S!TransfersApart, S!Holding, S!At
<1>10. S!ClaimKnown'
  BY <1>1 DEF S!ClaimKnown
<1>11. S!NoLostUpdate'
  BY <1>0, <1>1, <1>3, <1>6, <1>7 DEF S!NoLostUpdate
<1>12. S!AgentsAreCounted' /\ S!ClaimLeftByFailure'
  BY <1>7, <1>10, SharedFollows, PTL
<1> QED BY <1>7, <1>9, <1>10, <1>11, <1>12 DEF S!SharedInv, S!SharedSafely

\* Every step of the drivers, of their agents and of the chip keeps the invariant.
LEMMA SharedStep == ASSUME S!SharedInv, [S!Next]_(S!vars) PROVE S!SharedInv'
<1>1. CASE UNCHANGED S!vars
  <2>2. /\ S!TypeOK' /\ S!CallsApart' /\ S!ClaimKnown' /\ S!CountsKnown'
    BY <1>1, CountsKept DEF S!vars, S!SharedInv, S!TypeOK, S!CallsApart, S!ClaimKnown, S!Calling,
       S!Holding, S!Agent, S!Shares
  <2>3. S!TransfersApart' /\ S!NoLostUpdate'
    BY <1>1 DEF S!vars, S!SharedInv, S!SharedSafely, S!TransfersApart, S!NoLostUpdate, S!Holding, S!At, S!Agent, S!Shares
  <2>4. S!AgentsAreCounted' /\ S!ClaimLeftByFailure'
    BY <2>2, SharedFollows, PTL
  <2> QED BY <2>2, <2>3, <2>4 DEF S!SharedInv, S!SharedSafely
<1>2. CASE S!Replug
  BY <1>2, SharedReplug
<1>3. ASSUME NEW d \in Drivers, S!Activate(d) \/ S!Deactivate(d) \/ (\E value \in BOOLEAN : S!Set(d, value))
      PROVE  S!SharedInv'
  BY <1>3, SharedActivates, SharedDeactivates, SharedSets
<1>4. ASSUME NEW d \in Drivers, S!Claim(d) \/ S!ReadByte(d) \/ S!Write(d) \/ S!Release(d)
      PROVE  S!SharedInv'
  BY <1>4, SharedClaims, SharedReads, SharedWrites, SharedReleases
<1> QED BY <1>1, <1>2, <1>3, <1>4 DEF S!Next

-----------------------------------------------------------------------------
(***************************************************************************)
(* Power backends and digital outputs (driver/power/*.py).                 *)
(***************************************************************************)
\* A backend without an exception is sound.
LEMMA ButNothing == ASSUME NEW b, O!SoundBut(b, {}) PROVE O!Sound(b)
BY DEF O!Sound, O!SoundBut, O!Paired

\* The numbers, bits and words of the modules of driver/power/ are sound.
LEMMA NetworkPowerSound == \A b \in O!NetworkPower : O!Sound(b)
<1> USE IndexAssumption DEF O!SoundBut, O!Paired, O!Read, O!Fitting, O!Backend, O!Same, O!Strict, O!OnlyOn, O!OnlyOff, O!Decode,
                            O!Shown, O!Settled, O!Raise, O!Nothing, O!FromLeft, O!ByBit, O!Minimum
<1>1. O!SoundBut(O!apc, {})
  BY DEF O!apc
<1>2. O!SoundBut(O!digipower, {})
  BY DEF O!digipower
<1>3. O!SoundBut(O!digitalloggers_http, {})
  BY DEF O!digitalloggers_http
<1>4. O!SoundBut(O!digitalloggers_restapi, {})
  BY DEF O!digitalloggers_restapi
<1>5. O!SoundBut(O!eaton, {})
  BY DEF O!eaton
<1>6. O!SoundBut(O!eg_pms2_network, {})
  BY DEF O!eg_pms2_network
<1>7. O!SoundBut(O!eth008, {})
  BY DEF O!eth008
<1>8. O!SoundBut(O!gude, {})
  BY DEF O!gude
<1>9. O!SoundBut(O!gude24, {})
  BY DEF O!gude24
<1>10. O!SoundBut(O!gude8031, {})
  BY DEF O!gude8031
<1>11. O!SoundBut(O!gude8225, {})
  BY DEF O!gude8225
<1>12. O!SoundBut(O!gude8316, {})
  BY DEF O!gude8316
<1>13. O!SoundBut(O!mfi_mpower, {})
  BY DEF O!mfi_mpower
<1>14. O!SoundBut(O!netio, {})
  BY DEF O!netio
<1>15. O!SoundBut(O!netio_kshell, {})
  BY DEF O!netio_kshell
<1>16. O!SoundBut(O!pe6216, {})
  BY DEF O!pe6216
<1>17. O!SoundBut(O!poe_mib, {})
  BY DEF O!poe_mib
<1>18. O!SoundBut(O!poe_netgear_plus, {})
  BY DEF O!poe_netgear_plus
<1>19. O!SoundBut(O!raritan, {})
  BY DEF O!raritan
<1>20. O!SoundBut(O!rest, {})
  BY DEF O!rest
<1>21. O!SoundBut(O!rpm1521, {0})
  BY DEF O!rpm1521
<1>22. O!SoundBut(O!sentry, {})
  BY DEF O!sentry
<1>23. O!SoundBut(O!shelly_gen1, {})
  BY DEF O!shelly_gen1
<1>24. O!SoundBut(O!shelly_gen2, {})
  BY DEF O!shelly_gen2
<1>25. O!SoundBut(O!siglent, {})
  BY DEF O!siglent
<1>26. O!SoundBut(O!simplerest, {})
  BY DEF O!simplerest
<1>27. O!SoundBut(O!tinycontrol, {})
  BY DEF O!tinycontrol
<1>28. O!SoundBut(O!tinycontrol_tcpdu, {})
  BY DEF O!tinycontrol_tcpdu
<1>29. O!SoundBut(O!tplink, {})
  BY DEF O!tplink
<1>30. O!SoundBut(O!ubus, {})
  BY DEF O!ubus
<1> HIDE DEF O!SoundBut
<1> QED BY <1>1, <1>2, <1>3, <1>4, <1>5, <1>6, <1>7, <1>8, <1>9, <1>10, <1>11, <1>12, <1>13, <1>14, <1>15, <1>16, <1>17, <1>18, <1>19, <1>20, <1>21, <1>22, <1>23, <1>24, <1>25, <1>26, <1>27, <1>28, <1>29, <1>30, ButNothing DEF O!NetworkPower, O!Sound

\* The numbers, bits and words of the digital output drivers are sound.
LEMMA DigitalOutputsSound == \A b \in O!DigitalOutputs : O!Sound(b)
<1> USE IndexAssumption DEF O!SoundBut, O!Paired, O!Read, O!Fitting, O!Backend, O!Same, O!Strict, O!OnlyOn, O!OnlyOff, O!Decode,
                            O!Shown, O!Settled, O!Raise, O!Nothing, O!FromLeft, O!ByBit, O!Minimum
<1>1. O!SoundBut(O!ModbusCoil, {})
  BY DEF O!ModbusCoil
<1>2. O!SoundBut(O!WaveShareCoil, {})
  BY DEF O!WaveShareCoil
<1>3. O!SoundBut(O!HttpDigitalOutput, {})
  BY DEF O!HttpDigitalOutput
<1>4. O!SoundBut(O!Eth008Output, {})
  BY DEF O!Eth008Output
<1>5. O!SoundBut(O!SerialPortOutput, {})
  BY DEF O!SerialPortOutput
<1>6. O!SoundBut(O!FileOutput, {})
  BY DEF O!FileOutput
<1>7. O!SoundBut(O!LXAIOBusPIO, {})
  BY DEF O!LXAIOBusPIO
<1>8. O!SoundBut(O!OneWirePIO, {})
  BY DEF O!OneWirePIO
<1>9. O!SoundBut(O!GpioOutput, {})
  BY DEF O!GpioOutput
<1>10. O!SoundBut(O!DeditecRelais, {})
  BY DEF O!DeditecRelais
<1>11. O!SoundBut(O!HIDRelayDcttech, {})
  BY DEF O!HIDRelayDcttech
<1>12. O!SoundBut(O!HIDRelayLcus, {})
  BY DEF O!HIDRelayLcus
<1> HIDE DEF O!SoundBut
<1> QED BY <1>1, <1>2, <1>3, <1>4, <1>5, <1>6, <1>7, <1>8, <1>9, <1>10, <1>11, <1>12, ButNothing DEF O!DigitalOutputs

\* The numbers, bits and words of the drivers that start a tool of their own are sound.
LEMMA OwnToolsSound == \A b \in O!OwnTools : O!Sound(b)
<1> USE IndexAssumption DEF O!SoundBut, O!Paired, O!Read, O!Fitting, O!Backend, O!Same, O!Strict, O!OnlyOn, O!OnlyOff, O!Decode,
                            O!Shown, O!Settled, O!Raise, O!Nothing, O!FromLeft, O!ByBit, O!Minimum
<1>1. O!SoundBut(O!SiSPM, {})
  BY DEF O!SiSPM
<1>2. O!SoundBut(O!YKUSH, {})
  BY DEF O!YKUSH
<1>3. O!SoundBut(O!UhubCtl, {})
  BY DEF O!UhubCtl
<1>4. O!SoundBut(O!PDUDaemon, {})
  BY DEF O!PDUDaemon
<1>5. O!SoundBut(O!ExternalCommand, {})
  BY DEF O!ExternalCommand
<1>6. O!SoundBut(O!Manual, {})
  BY DEF O!Manual
<1> HIDE DEF O!SoundBut
<1> QED BY <1>1, <1>2, <1>3, <1>4, <1>5, <1>6, ButNothing DEF O!OwnTools

\* Every backend is sound: its numbers, the words of its replies and its options fit.
LEMMA BackendsSound == \A b \in O!Backends : O!Sound(b)
BY NetworkPowerSound, DigitalOutputsSound, OwnToolsSound DEF O!Backends

\* What is known of the backend of this driver.
LEMMA OutletsKnown ==
    ASSUME O!OutletsInv
    PROVE  /\ s1.sets[s2] # s1.sets[s3]
           /\ s2 \in s1.valid => O!ReadsAnother \/ s1.reads[s2] = s1.sets[s2]
           /\ s1.decode \in [O!Shown -> {"on", "off", "raise", "none"}]
           /\ s1.readable => \A s \in {"on", "off"} : s1.decode[s] \in {"on", "off"} => s1.decode[s] = s
           /\ s1.slow => s1.decode["turning_off"] # "on" /\ ~s4
           /\ s1.port = "none" => ~s1.PORT
           /\ s1.port = "url" => s1.PORT
           /\ s6 \in [{s1.sets[s2], s1.sets[s3], s1.reads[s2]} -> IF s1.slow THEN O!Shown ELSE {"on", "off"}]
<1>1. O!Sound(s1)
  BY BackendsSound DEF O!OutletsInv, O!TypeOK
<1> QED BY <1>1 DEF O!OutletsInv, O!TypeOK, O!Wired, O!Sound, O!SoundBut, O!Paired, O!Read, O!Fitting, O!Settled, O!Raise, O!Nothing, O!ReadsAnother

\* An outlet is set to a level that settles, and a slow device knows no inversion.
LEMMA OutletsLevel ==
    ASSUME O!OutletsInv, NEW value \in {"on", "off"}
    PROVE  /\ O!Level(value) \in {"on", "off"}
           /\ O!Moves(O!Level(value)) \subseteq IF s1.slow THEN O!Shown ELSE {"on", "off"}
           /\ s1.slow => O!Level(value) = value
           /\ O!Level("on") # O!Level("off")
<1>1. s4 \in BOOLEAN /\ (s1.slow => ~s4)
  BY OutletsKnown DEF O!OutletsInv, O!TypeOK
<1> QED BY <1>1 DEF O!Level, O!Flip, O!Moves, O!Shown

\* A command touches no outlet but this one, and one that is answered has
\* switched it.
LEMMA OutletsCommand ==
    ASSUME O!OutletsInv, NEW value \in {"on", "off"}, NEW done, NEW next, O!Command(value, done, next)
    PROVE  /\ s6' \in [{s1.sets[s2], s1.sets[s3], s1.reads[s2]} -> IF s1.slow THEN O!Shown ELSE {"on", "off"}]
           /\ s6'[s1.sets[s3]] = s6[s1.sets[s3]]
           /\ s7' \in BOOLEAN
           /\ \/ /\ s10' = done /\ s8' = next /\ ~s7'
                 /\ s1.checked => s6'[s1.sets[s2]] \in O!Moves(O!Level(value))
              \/ s10' = "error" /\ s8' = "idle"
<1>1. PICK effect \in O!Effects, answered \in BOOLEAN :
        /\ s6' \in O!Switched(effect, value)
        /\ s7' \in O!SessionsAfter(O!Succeeds(effect, answered))
        /\ IF O!Succeeds(effect, answered) THEN s10' = done /\ s8' = next ELSE s10' = "error" /\ s8' = "idle"
  BY DEF O!Command
<1>2. O!Succeeds(effect, answered) \in BOOLEAN /\ s7 \in BOOLEAN
  BY DEF O!Succeeds, O!OutletsInv, O!TypeOK
<1>3. s7' \in BOOLEAN /\ (O!Succeeds(effect, answered) => ~s7')
  BY <1>1, <1>2 DEF O!SessionsAfter
<1>4. s1.checked /\ O!Succeeds(effect, answered) => effect = "executed"
  BY DEF O!Succeeds
<1>5. s6' = s6 \/ \E s \in O!Moves(O!Level(value)) : s6' = [s6 EXCEPT ![s1.sets[s2]] = s]
  BY <1>1 DEF O!Switched, O!Outlet
<1>6. effect = "executed" => \E s \in O!Moves(O!Level(value)) : s6' = [s6 EXCEPT ![s1.sets[s2]] = s]
  BY <1>1 DEF O!Switched, O!Outlet
<1>7. /\ s6' \in [{s1.sets[s2], s1.sets[s3], s1.reads[s2]} -> IF s1.slow THEN O!Shown ELSE {"on", "off"}]
      /\ s6'[s1.sets[s3]] = s6[s1.sets[s3]]
  BY <1>5, OutletsKnown, OutletsLevel
<1>8. effect = "executed" => s6'[s1.sets[s2]] \in O!Moves(O!Level(value))
  BY <1>6, OutletsKnown
<1> QED BY <1>1, <1>3, <1>4, <1>7, <1>8

\* Only a port that the device does not have is refused.
LEMMA OutletsAsserts ==
    ASSUME O!OutletsInv, s5 # "unset", ~O!Accepts
    PROVE  s2 \notin s1.valid
BY OutletsKnown DEF O!OutletsInv, O!TypeOK, O!Addressed, O!Accepts

\* A power driver that was activated satisfies the invariant.
LEMMA OutletsInit == ASSUME O!Init PROVE O!OutletsInv
<1> USE DEF O!Init
<1>1. O!Sound(s1)
  BY BackendsSound
<1>2. O!TypeOK
  <2>1. s6 \in [{s1.sets[s2], s1.sets[s3], s1.reads[s2]} -> {"on", "off"}]
    BY DEF O!Settled
  <2> QED BY <2>1 DEF O!TypeOK, O!Results, O!Shown
<1>3. O!Addressed /\ O!Passed
  BY DEF O!Addressed, O!Passed
<1>4. O!Wired
  BY DEF O!Wired, O!Shown, O!Settled
<1>5. O!OutletsHonest
  BY DEF O!OutletsHonest, O!GetTellsTruth, O!GetAlwaysTellsTruth, O!ReadsAnother, O!SuccessMeansSwitched, O!AssertsOnlyOnIndex, O!SessionFreed
<1> QED BY <1>2, <1>3, <1>4, <1>5 DEF O!OutletsInv

\* The step of an operation, from what it leaves of the device and of the result.
LEMMA OutletsOperation ==
    ASSUME O!OutletsInv, UNCHANGED <<s1, s2, s3, s4, s5>>,
           s5 # "unset",
           s6' \in [{s1.sets[s2], s1.sets[s3], s1.reads[s2]} -> IF s1.slow THEN O!Shown ELSE {"on", "off"}],
           s7' \in BOOLEAN, s7' => s8' = "idle" /\ s10' \in {"error", "assert"},
           s8' \in {"idle", "pause"}, s9' \in BOOLEAN, s10' \in O!Results,
           s8' = "pause" => s2 \in s1.valid /\ s10' = "none" /\ (s1.checked => s9'),
           s10' \in {"is_on", "is_off", "cycled", "says_on", "says_off", "says_none"} => s2 \in s1.valid,
           s10' = "assert" => s2 \notin s1.valid,
           s1.readable /\ ~O!ReadsAnother =>
              /\ s10' = "says_on" => s6'[s1.sets[s2]] \in O!Moves(O!Level("on"))
              /\ s10' = "says_off" => s6'[s1.sets[s2]] # O!Level("on"),
           s1.checked => /\ s10' = "is_on" => s6'[s1.sets[s2]] \in O!Moves(O!Level("on"))
                         /\ s10' = "is_off" => s6'[s1.sets[s2]] \in O!Moves(O!Level("off"))
                         /\ s10' = "cycled" => s9' /\ s6'[s1.sets[s2]] \in O!Moves(O!Level("on"))
    PROVE  O!OutletsInv'
<1>1. O!TypeOK'
  <2>1. \A o \in DOMAIN s6' : s6'[o] \in O!Shown
    BY DEF O!Shown
  <2> QED BY <2>1 DEF O!OutletsInv, O!TypeOK
<1>2. O!Addressed' /\ O!Passed'
  BY DEF O!OutletsInv, O!Addressed, O!Passed
<1>3. O!Wired'
  BY DEF O!OutletsInv, O!Wired, O!Settled
<1>4. O!Level("on")' = O!Level("on") /\ O!Level("off")' = O!Level("off") /\ O!Outlet' = s1.sets[s2]
  BY DEF O!Level, O!Outlet
<1>5. O!Moves(O!Level("on"))' = O!Moves(O!Level("on")) /\ O!Moves(O!Level("off"))' = O!Moves(O!Level("off"))
  BY <1>4 DEF O!Moves
<1>6. O!ReadsAnother' <=> O!ReadsAnother
  BY DEF O!ReadsAnother
<1>7. O!GetTellsTruth'
  BY <1>4, <1>5, <1>6 DEF O!GetTellsTruth, O!GetAlwaysTellsTruth
<1>8. O!OutletsHonest'
  BY <1>4, <1>5, <1>7 DEF O!OutletsHonest, O!SuccessMeansSwitched, O!AssertsOnlyOnIndex, O!SessionFreed
<1> QED BY <1>1, <1>2, <1>3, <1>8 DEF O!OutletsInv

\* An operation whose assertion fails changes nothing else.
LEMMA OutletsRefused ==
    ASSUME O!OutletsInv, O!Asserts, s5 # "unset", s9' \in BOOLEAN, UNCHANGED O!config, UNCHANGED s5
    PROVE  O!OutletsInv'
<1>1. s10' = "assert" /\ s8' = "idle" /\ s6' = s6 /\ s7' = s7 /\ s7 \in BOOLEAN /\ s10' \in O!Results
  BY DEF O!Asserts, O!OutletsInv, O!TypeOK, O!Results
<1>2. s2 \notin s1.valid
  BY OutletsAsserts DEF O!Asserts
<1> QED BY <1>1, <1>2, OutletsKnown, OutletsOperation DEF O!config

\* An operation whose command fails leaves nothing but an error.
LEMMA OutletsFailed ==
    ASSUME O!OutletsInv, NEW value \in {"on", "off"}, NEW done, NEW next, O!Command(value, done, next),
           s10' = "error", s8' = "idle", s5 # "unset", s9' \in BOOLEAN, UNCHANGED O!config, UNCHANGED s5
    PROVE  O!OutletsInv'
<1>1. s10' \in O!Results
  BY DEF O!Results
<1> QED BY <1>1, OutletsCommand, OutletsOperation DEF O!config

\* Every operation of a backend, and every failure of it, keeps the invariant.
LEMMA OutletsStep == O!OutletsInv /\ [O!Next]_O!vars => O!OutletsInv'
<1> SUFFICES ASSUME O!OutletsInv, [O!Next]_O!vars PROVE O!OutletsInv'
  OBVIOUS
<1> USE DEF O!config
<1>t. /\ s5 \in {"unset", "None", "number"} /\ s7 \in BOOLEAN /\ s9 \in BOOLEAN /\ s8 \in {"idle", "pause"} /\ s10 \in O!Results
      /\ s8 = "pause" => s5 # "unset" /\ s2 \in s1.valid /\ s10 = "none" /\ (s1.checked => s9)
      /\ s7 => s8 = "idle" /\ s10 \in {"error", "none", "assert"}
  BY DEF O!OutletsInv, O!TypeOK, O!Passed, O!OutletsHonest, O!SessionFreed
<1>1. CASE O!Activate
  <2>1. O!TypeOK' /\ O!Addressed' /\ O!Passed' /\ O!Wired'
    BY <1>1, <1>t DEF O!Activate, O!OutletsInv, O!TypeOK, O!Addressed, O!Passed, O!Wired
  <2>2. O!OutletsHonest'
    BY <1>1, <1>t DEF O!Activate, O!OutletsInv, O!OutletsHonest, O!GetTellsTruth, O!GetAlwaysTellsTruth, O!ReadsAnother, O!SuccessMeansSwitched, O!AssertsOnlyOnIndex, O!SessionFreed, O!Outlet, O!Level, O!Moves
  <2> QED BY <2>1, <2>2 DEF O!OutletsInv
<1>2. CASE O!On
  <2>1. CASE O!Accepts /\ O!Command("on", "is_on", "idle") /\ s10' # "error"
    <3>1. s10' = "is_on" /\ s8' = "idle" /\ ~s7' /\ s10' \in O!Results /\ s2 \in s1.valid
      BY <2>1, OutletsCommand DEF O!Results, O!Accepts
    <3> QED BY <1>2, <2>1, <3>1, OutletsCommand, OutletsOperation DEF O!On, O!Active
  <2>2. CASE O!Accepts /\ O!Command("on", "is_on", "idle") /\ s10' = "error"
    <3>1. s8' = "idle"
      BY <2>2, OutletsCommand
    <3> QED BY <1>2, <2>2, <3>1, OutletsFailed DEF O!On, O!Active
  <2>3. CASE O!Asserts
    BY <1>2, <2>3, OutletsRefused DEF O!On, O!Active
  <2> QED BY <1>2, <2>1, <2>2, <2>3 DEF O!On
<1>3. CASE O!Off
  <2>1. CASE O!Accepts /\ O!Command("off", "is_off", "idle") /\ s10' # "error"
    <3>1. s10' = "is_off" /\ s8' = "idle" /\ ~s7' /\ s10' \in O!Results /\ s2 \in s1.valid
      BY <2>1, OutletsCommand DEF O!Results, O!Accepts
    <3> QED BY <1>3, <2>1, <3>1, OutletsCommand, OutletsOperation DEF O!Off, O!Active
  <2>2. CASE O!Accepts /\ O!Command("off", "is_off", "idle") /\ s10' = "error"
    <3>1. s8' = "idle"
      BY <2>2, OutletsCommand
    <3> QED BY <1>3, <2>2, <3>1, OutletsFailed DEF O!Off, O!Active
  <2>3. CASE O!Asserts
    BY <1>3, <2>3, OutletsRefused DEF O!Off, O!Active
  <2> QED BY <1>3, <2>1, <2>2, <2>3 DEF O!Off
<1>4. CASE O!CycleOff
  <2>1. s9' \in BOOLEAN /\ (s8' = "pause" /\ s6'[s1.sets[s2]] \in O!Moves(O!Level("off")) => s9')
    BY <1>4 DEF O!CycleOff, O!Outlet
  <2>2. CASE O!Accepts /\ O!Command("off", "none", "pause") /\ s10' # "error"
    <3>1. s10' = "none" /\ s8' = "pause" /\ ~s7' /\ s10' \in O!Results /\ s2 \in s1.valid
      BY <2>2, OutletsCommand DEF O!Results, O!Accepts
    <3> QED BY <1>4, <2>1, <2>2, <3>1, OutletsCommand, OutletsOperation DEF O!CycleOff, O!Active
  <2>3. CASE O!Accepts /\ O!Command("off", "none", "pause") /\ s10' = "error"
    <3>1. s8' = "idle"
      BY <2>3, OutletsCommand
    <3> QED BY <1>4, <2>1, <2>3, <3>1, OutletsFailed DEF O!CycleOff, O!Active
  <2>4. CASE O!Asserts
    BY <1>4, <2>1, <2>4, OutletsRefused DEF O!CycleOff, O!Active
  <2> QED BY <1>4, <2>2, <2>3, <2>4 DEF O!CycleOff
<1>5. CASE O!CycleOn
  <2>1. O!Command("on", "cycled", "idle") /\ s5 # "unset" /\ s2 \in s1.valid /\ s9' = s9 /\ (s1.checked => s9)
    BY <1>5, <1>t DEF O!CycleOn
  <2>2. CASE s10' # "error"
    <3>1. s10' = "cycled" /\ s8' = "idle" /\ ~s7' /\ s10' \in O!Results
      BY <2>1, <2>2, OutletsCommand DEF O!Results
    <3> QED BY <1>5, <1>t, <2>1, <3>1, OutletsCommand, OutletsOperation DEF O!CycleOn
  <2>3. CASE s10' = "error"
    <3>1. s8' = "idle"
      BY <2>1, <2>3, OutletsCommand
    <3> QED BY <1>5, <1>t, <2>1, <2>3, <3>1, OutletsFailed DEF O!CycleOn
  <2> QED BY <2>2, <2>3
<1>6. CASE O!CycleAtOnce
  <2>1. O!Command("on", "cycled", "idle") /\ s5 # "unset" /\ s2 \in s1.valid /\ s9' = (s10' = "cycled")
    BY <1>6 DEF O!CycleAtOnce, O!Active, O!Accepts
  <2>2. CASE s10' # "error"
    <3>1. s10' = "cycled" /\ s8' = "idle" /\ ~s7' /\ s10' \in O!Results
      BY <2>1, <2>2, OutletsCommand DEF O!Results
    <3> QED BY <1>6, <2>1, <3>1, OutletsCommand, OutletsOperation DEF O!CycleAtOnce
  <2>3. CASE s10' = "error"
    <3>1. s8' = "idle"
      BY <2>1, <2>3, OutletsCommand
    <3> QED BY <1>6, <2>1, <2>3, <3>1, OutletsFailed DEF O!CycleAtOnce
  <2> QED BY <2>2, <2>3
<1>7. CASE O!Get
  <2>1. CASE O!Accepts /\ s6' = s6 /\ s8' = s8 /\ \E answered \in BOOLEAN :
            /\ s10' = IF ~answered \/ s2 \in s1.fails \/ O!Answer = O!Raise THEN "error" ELSE
                         [on |-> "says_on", off |-> "says_off", none |-> "says_none"][O!Answer]
            /\ s7' \in O!SessionsAfter(answered)
    <3>1. PICK answered \in BOOLEAN :
            /\ s10' = IF ~answered \/ s2 \in s1.fails \/ O!Answer = O!Raise THEN "error" ELSE
                         [on |-> "says_on", off |-> "says_off", none |-> "says_none"][O!Answer]
            /\ s7' \in O!SessionsAfter(answered)
      BY <2>1
    <3> DEFINE shown == s6[s1.reads[s2]]
               said == s1.decode[shown]
    <3>2. s2 \in s1.valid /\ s5 # "unset" /\ s8 = "idle" /\ (O!ReadsAnother \/ s1.reads[s2] = s1.sets[s2])
      BY <1>7, <2>1, OutletsKnown DEF O!Get, O!Active, O!Accepts
    <3>3. shown \in O!Shown /\ (~s1.slow => shown \in {"on", "off"})
      BY OutletsKnown DEF O!Shown
    <3>4. said \in {"on", "off", "raise", "none"}
      BY <3>3, OutletsKnown
    <3>5. O!Answer = IF said \in {"on", "off"} THEN O!Level(said) ELSE said
      BY DEF O!Answer, O!Settled
    <3>6. O!Answer \in {"on", "off", "raise", "none"}
      BY <3>4, <3>5, OutletsLevel
    <3>7. s10' \in {"error", "says_on", "says_off", "says_none"} /\ (s10' = "error" \/ ~s7') /\ s7' \in BOOLEAN
      <4>1. s10' \in {"error", "says_on", "says_off", "says_none"} /\ (~answered => s10' = "error")
        BY <3>1, <3>6 DEF O!Raise
      <4>2. s7' \in BOOLEAN /\ (answered => ~s7')
        BY <3>1, <1>t DEF O!SessionsAfter
      <4> QED BY <4>1, <4>2
    <3>8. /\ s10' = "says_on" => O!Answer = "on"
          /\ s10' = "says_off" => O!Answer = "off"
      BY <3>1, <3>6 DEF O!Raise
    <3>9. s1.readable /\ O!Answer = "on" => shown \in O!Moves(O!Level("on"))
      BY <3>3, <3>4, <3>5, OutletsKnown, <1>t DEF O!Level, O!Flip, O!Moves, O!Shown, O!OutletsInv, O!TypeOK
    <3>10. s1.readable /\ O!Answer = "off" => shown # O!Level("on")
      BY <3>3, <3>4, <3>5, OutletsKnown, <1>t DEF O!Level, O!Flip, O!Moves, O!Shown, O!OutletsInv, O!TypeOK
    <3>11. s10' \in O!Results /\ s9' = FALSE /\ UNCHANGED <<s1, s2, s3, s4, s5>>
      BY <3>7, <1>7 DEF O!Results, O!Get
    <3> HIDE DEF shown, said
    <3>12. O!ReadsAnother \/ s6'[s1.sets[s2]] = shown
      BY <2>1, <3>2 DEF shown
    <3> QED BY <2>1, <3>2, <3>7, <3>8, <3>9, <3>10, <3>11, <3>12, OutletsKnown, OutletsOperation
  <2>2. CASE O!Asserts
    BY <1>7, <2>2, OutletsRefused DEF O!Get, O!Active
  <2> QED BY <1>7, <2>1, <2>2 DEF O!Get
<1> DEFINE Outlets == {s1.sets[s2], s1.sets[s3], s1.reads[s2]}
<1>8. ASSUME UNCHANGED <<s1, s2, s3, s4, s5, s7, s8, s9>>, s10' = s10 \/ s10' = "none",
             s6' \in [Outlets -> IF s1.slow THEN O!Shown ELSE {"on", "off"}],
             s6'[s1.sets[s2]] = s6[s1.sets[s2]] \/ s10' = "none"
      PROVE  O!OutletsInv'
  <2>1. O!TypeOK'
    <3>1. \A o \in DOMAIN s6' : s6'[o] \in O!Shown
      BY <1>8 DEF O!Shown
    <3> QED BY <1>8, <3>1 DEF O!OutletsInv, O!TypeOK, O!Results
  <2>2. O!Addressed' /\ O!Passed'
    BY <1>8 DEF O!OutletsInv, O!Addressed, O!Passed
  <2>3. O!Wired'
    BY <1>8 DEF O!OutletsInv, O!Wired, O!Settled
  <2>4. /\ O!Level("on")' = O!Level("on") /\ O!Level("off")' = O!Level("off")
        /\ O!Outlet' = s1.sets[s2] /\ O!Outlet = s1.sets[s2]
    BY <1>8 DEF O!Level, O!Outlet
  <2>5. O!Moves(O!Level("on"))' = O!Moves(O!Level("on")) /\ O!Moves(O!Level("off"))' = O!Moves(O!Level("off"))
    BY <1>8, <2>4 DEF O!Moves
  <2>6. O!OutletsHonest'
    BY <1>8, <2>4, <2>5 DEF O!OutletsInv, O!OutletsHonest, O!GetTellsTruth, O!GetAlwaysTellsTruth, O!ReadsAnother, O!SuccessMeansSwitched, O!AssertsOnlyOnIndex, O!SessionFreed
  <2> QED BY <2>1, <2>2, <2>3, <2>6 DEF O!OutletsInv
<1>9. ASSUME NEW value \in O!Settled, O!OtherSet(value) PROVE O!OutletsInv'
  <2>1. s6' = [s6 EXCEPT ![s1.sets[s3]] = value] /\ UNCHANGED <<s1, s2, s3, s4, s5, s7, s8, s9, s10>>
    BY <1>9 DEF O!OtherSet
  <2>2. s6' \in [Outlets -> IF s1.slow THEN O!Shown ELSE {"on", "off"}] /\ s6'[s1.sets[s2]] = s6[s1.sets[s2]]
    BY <1>9, <2>1, OutletsKnown DEF O!Settled, O!Shown
  <2> QED BY <1>8, <2>1, <2>2
<1>10. ASSUME NEW o \in DOMAIN s6, O!Settle(o) PROVE O!OutletsInv'
  <2>1. /\ s6' = [s6 EXCEPT ![o] = IF s6[o] = "turning_on" THEN "on" ELSE "off"]
        /\ s10' = IF o = s1.sets[s2] THEN "none" ELSE s10
        /\ UNCHANGED <<s1, s2, s3, s4, s5, s7, s8, s9>>
    BY <1>10 DEF O!Settle, O!Outlet
  <2>2. /\ s6' \in [Outlets -> IF s1.slow THEN O!Shown ELSE {"on", "off"}]
        /\ s6'[s1.sets[s2]] = s6[s1.sets[s2]] \/ o = s1.sets[s2]
    BY <2>1, OutletsKnown DEF O!Shown
  <2> QED BY <1>8, <2>1, <2>2
<1>11. CASE UNCHANGED O!vars
  BY <1>11, <1>8, OutletsKnown DEF O!vars
<1> QED BY <1>1, <1>2, <1>3, <1>4, <1>5, <1>6, <1>7, <1>9, <1>10, <1>11 DEF O!Next

\* Switching leaves the outlets of other places alone.
LEMMA OutletsApartStep == ASSUME O!OutletsInv PROVE O!OthersUntouched
<1> SUFFICES ASSUME O!OwnStep PROVE s6'[s1.sets[s3]] = s6[s1.sets[s3]]
  BY DEF O!OthersUntouched
<1>1. CASE O!Asserts
  BY <1>1 DEF O!Asserts
<1>2. ASSUME NEW value \in {"on", "off"}, NEW done, NEW next, O!Command(value, done, next)
      PROVE  s6'[s1.sets[s3]] = s6[s1.sets[s3]]
  BY <1>2, OutletsCommand
<1>3. CASE O!On
  BY <1>1, <1>2, <1>3 DEF O!On
<1>4. CASE O!Off
  BY <1>1, <1>2, <1>4 DEF O!Off
<1>5. CASE O!CycleOff
  BY <1>1, <1>2, <1>5 DEF O!CycleOff
<1>6. CASE O!CycleOn
  BY <1>2, <1>6 DEF O!CycleOn
<1>7. CASE O!CycleAtOnce
  BY <1>2, <1>7 DEF O!CycleAtOnce
<1>8. CASE O!Get
  BY <1>1, <1>8 DEF O!Get
<1> QED BY <1>3, <1>4, <1>5, <1>6, <1>7, <1>8 DEF O!OwnStep

-----------------------------------------------------------------------------
(***************************************************************************)
(* The conclusions for the specification.                                  *)
(***************************************************************************)
\* Only the component that is examined ever takes a step.
LEMMA OneComponent ==
    [Next]_vars =>
        /\ bench' = bench
        /\ bench = "agent" => [A!Next]_(A!vars)
        /\ bench = "ssh" => [H!Next]_(H!vars)
        /\ bench = "outputs" => [S!Next]_(S!vars)
        /\ bench = "outlets" => [O!Next]_(O!vars)
<1> SUFFICES ASSUME [Next]_vars
             PROVE  /\ bench' = bench
                    /\ bench = "agent" => [A!Next]_(A!vars)
                    /\ bench = "ssh" => [H!Next]_(H!vars)
                    /\ bench = "outputs" => [S!Next]_(S!vars)
                    /\ bench = "outlets" => [O!Next]_(O!vars)
  OBVIOUS
<1>1. CASE ONext
  BY <1>1 DEF ONext
<1>2. CASE SNext
  BY <1>2 DEF SNext
<1>3. CASE ANext
  BY <1>3 DEF ANext
<1>4. CASE HNext
  BY <1>4 DEF HNext
<1>5. CASE CNext
  BY <1>5 DEF CNext
<1>6. CASE GNext
  BY <1>6 DEF GNext
<1>7. CASE UNext
  BY <1>7 DEF UNext
<1>8. CASE KNext
  BY <1>8 DEF KNext
<1>9. CASE MNext
  BY <1>9 DEF MNext
<1>10. CASE DNext
  BY <1>10 DEF DNext
<1>11. CASE TNext
  BY <1>11 DEF TNext
<1>12. CASE PNext
  BY <1>12 DEF PNext
<1>13. CASE ENext
  BY <1>13 DEF ENext
<1>14. CASE UNCHANGED vars
  <2>1. bench' = bench
    BY <1>14 DEF vars
  <2>2. UNCHANGED A!vars
    BY <1>14 DEF vars, slots, A!vars
  <2>3. UNCHANGED H!vars
    BY <1>14 DEF vars, slots, H!vars
  <2>4. UNCHANGED S!vars
    BY <1>14 DEF vars, slots, S!vars
  <2>5. UNCHANGED O!vars
    BY <1>14 DEF vars, slots, O!vars, O!config
  <2> QED BY <2>1, <2>2, <2>3, <2>4, <2>5
<1> QED BY <1>1, <1>2, <1>3, <1>4, <1>5, <1>6, <1>7, <1>8, <1>9, <1>10, <1>11, <1>12, <1>13, <1>14 DEF Next

\* A behaviour starts in an initial state of the component that is examined.
LEMMA OneStart ==
    Init =>
        /\ bench = "agent" => A!Init
        /\ bench = "ssh" => H!Init
        /\ bench = "outputs" => S!Init
        /\ bench = "outlets" => O!Init
BY DEF Init, OInit, SInit, AInit, HInit, CInit, GInit, UInit, KInit, MInit, DInit, TInit, PInit,
   EInit

\* As long as no earlier call was interrupted, a call returns the answer to itself and the
\* pipes are empty between calls; what counts as loaded has its methods, and a closed
\* wrapper ends its agent (agentwrapper.py, agent.py): any modules, any number of calls.
THEOREM AgentsAnswer == Spec => []AgentOK
<1>1. Init => (bench = "agent" => A!AgentInv)
  BY OneStart, AgentInit
<1>2. (bench = "agent" => A!AgentInv) /\ [Next]_vars => (bench = "agent" => A!AgentInv)'
  BY OneComponent, AgentStep
<1>3. (bench = "agent" => A!AgentInv) => AgentOK
  BY DEF AgentOK, A!AgentInv
<1>4. Spec => Init /\ [][Next]_vars
  BY PTL DEF Spec
<1> QED BY <1>1, <1>2, <1>3, <1>4, PTL

\* Whoever was given a port for a destination can use it until it is removed or the link is
\* lost, ports are shared exactly by those who asked for one destination, and a closed
\* connection leaves nothing behind (util/ssh.py): any users, destinations and ports.
THEOREM ForwardingsWork == Spec => []SSHOK
<1>1. Init => (bench = "ssh" => H!SSHInv)
  BY OneStart, SSHInit
<1>2. (bench = "ssh" => H!SSHInv) /\ [Next]_vars => (bench = "ssh" => H!SSHInv)'
  BY OneComponent, SSHStep
<1>3. (bench = "ssh" => H!SSHInv) => SSHOK
  BY DEF SSHOK, H!SSHInv
<1>4. Spec => Init /\ [][Next]_vars
  BY PTL DEF Spec
<1> QED BY <1>1, <1>2, <1>3, <1>4, PTL

\* A set() that returned is not taken back by another driver's transfer, an agent lives as
\* long as one of its drivers is active, and only a failed call leaves the interface claimed
\* (ftdigpiodriver.py, agentwrapper's users): any finite set of drivers, any replugging.
THEOREM LinesAreShared == Spec => []SharedOK
<1>1. Init => (bench = "outputs" => S!SharedInv)
  BY OneStart, SharedInit
<1>2. (bench = "outputs" => S!SharedInv) /\ [Next]_vars => (bench = "outputs" => S!SharedInv)'
  BY OneComponent, SharedStep
<1>3. (bench = "outputs" => S!SharedInv) => SharedOK
  BY DEF SharedOK, S!SharedInv
<1>4. Spec => Init /\ [][Next]_vars
  BY PTL DEF Spec
<1> QED BY <1>1, <1>2, <1>3, <1>4, PTL

\* get() says what the outlet is, success means that it was switched, an assertion fails only
\* for an outlet the device does not have, and only failure leaves the device reserved
\* (driver/power/*.py and the drivers of outputs): every index below 100.
THEOREM OutletsAreHonest == Spec => []OutletsOK
<1>1. Init => (bench = "outlets" => O!OutletsInv)
  BY OneStart, OutletsInit
<1>2. (bench = "outlets" => O!OutletsInv) /\ [Next]_vars => (bench = "outlets" => O!OutletsInv)'
  BY OneComponent, OutletsStep
<1>3. (bench = "outlets" => O!OutletsInv) => OutletsOK
  BY DEF OutletsOK, O!OutletsInv
<1>4. Spec => Init /\ [][Next]_vars
  BY PTL DEF Spec
<1> QED BY <1>1, <1>2, <1>3, <1>4, PTL

\* Switching an outlet leaves all others as they are (driver/power/*.py).
THEOREM OutletsStayApart == Spec => OutletsApart
<1>1. Init => (bench = "outlets" => O!OutletsInv)
  BY OneStart, OutletsInit
<1>2. (bench = "outlets" => O!OutletsInv) /\ [Next]_vars => (bench = "outlets" => O!OutletsInv)'
  BY OneComponent, OutletsStep
<1>3. (bench = "outlets" => O!OutletsInv) => (bench = "outlets" => O!OthersUntouched)
  BY OutletsApartStep
<1>4. Spec => Init /\ [][Next]_vars
  BY PTL DEF Spec
<1> QED BY <1>1, <1>2, <1>3, <1>4, PTL DEF OutletsApart
=============================================================================
