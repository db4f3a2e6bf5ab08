-------------------------- MODULE PublishingProofs --------------------------
(***************************************************************************)
(* Clients and the coordinator's places: proofs for any number of clients, *)
(* places, commands, changes and crashes that a client sees what it should.*)
(***************************************************************************)
EXTENDS Publishing, TLAPS

\* What start() has put into the stream.
Startup == <<"startup", "places", "resources", "sync">>

\* A client that is known to the coordinator, and reads what it is sent.
Served(c) == c \in session /\ pump[c] = "running"
Waits(c) == cmd[c].phase \in {"starting", "syncing"}
Changing(c) == cmd[c].phase \in {"answered", "syncing"}

\* The life of a client: until the startup is received nothing is known of it.
Life(c) ==
    /\ cmd[c].phase = "off" <=> pump[c] = "off"
    /\ cmd[c].phase = "starting" => pump[c] = "running"
    /\ cmd[c].phase = "off" => c \notin session
    /\ c \notin session => out[c] = <<>>
    /\ pump[c] # "running" => in[c] = <<>>
    /\ cmd[c].phase \notin {"off", "starting", "idle"} => cmd[c].place \in Places
    /\ cmd[c].phase = "calling" /\ cmd[c].op = "AllowPlace" => cmd[c].arg \in Clients
    /\ in[c] # <<>> /\ Head(in[c]) = "startup" =>
          /\ cmd[c].phase = "starting" /\ c \notin session
          /\ in[c] = Startup /\ out[c] = <<>>
          /\ copy[c] = Empty /\ known[c] = 0

\* What a client has still to say, and the one sync that is under way: a command
\* begins when there is nothing of this left.
OneSync(c) ==
    \E i \in 1..Len(out[c]) : out[c][i].sync /\ \A j \in 1..Len(out[c]) : out[c][j].sync => j = i
NoSync(c) == \A i \in 1..Len(out[c]) : ~out[c][i].sync
Syncs(c) ==
    Served(c) =>
        /\ cmd[c].phase = "starting" =>
              in[c] \in {<<"places", "resources", "sync">>, <<"resources", "sync">>, <<"sync">>, <<>>}
        /\ cmd[c].phase = "syncing" => in[c] \in {<<"sync">>, <<>>}
        /\ ~Waits(c) => in[c] = <<>>
        /\ Waits(c) /\ in[c] = <<>> => OneSync(c)
        /\ ~Waits(c) \/ in[c] # <<>> => NoSync(c)

\* What the client has missed will be in the snapshots; what is not there, they
\* cannot take away.
Exact(c) ==
    Served(c) =>
        /\ \A p \in Places :
              p \notin DOMAIN places \/ "places" \notin Range(in[c]) => PlaceExact(c, p)
        /\ resource = 0 \/ "resources" \notin Range(in[c]) => ResourceExact(c)

\* From message k on, or from the beginning, all that is told is in S.
Seen(v, told, k, S) ==
    /\ k = 0 => v \in S
    /\ k # 0 => told[k] # {} /\ told[k] \subseteq S
    /\ \A i \in DOMAIN told : i > k => told[i] \subseteq S

\* Before the sync comes back, the client reads of its own change.
OwnChange(c) ==
    Served(c) /\ Changing(c) =>
        \E k \in 0..Len(out[c]) :
            /\ Seen(Value(copy[c], cmd[c].place), Told(out[c], cmd[c].place), k, since[c])
            /\ \A i \in 1..Len(out[c]) : out[c][i].sync => i > k

\* The resource has one state in a message.
OneState(c) == \A i \in 1..Len(out[c]) : \E r \in States : out[c][i].res \subseteq {r}

ClientInv(c) == OneState(c) /\ Life(c) /\ Syncs(c) /\ Exact(c) /\ OwnChange(c)

\* What a place is, is what it was last.
Recorded == \A p \in Places : Value(places, p) \in recent[p]

\* The RPC that waits with the lock is one of a client, for a place that exists.
LockHeld == lock # NoOne => up /\ cmd[lock].phase = "calling" /\ cmd[lock].place \in DOMAIN places

IInv ==
    /\ TypeOK
    /\ ~up => session = {}
    /\ Recorded /\ LockHeld
    /\ \A c \in Clients : ClientInv(c)

-----------------------------------------------------------------------------
\* The rest of a sequence after its head.
LEMMA TailAt ==
    ASSUME NEW M, NEW s \in Seq(M), s # <<>>
    PROVE  /\ Tail(s) \in Seq(M) /\ Len(s) \in Nat \ {0}
           /\ Len(Tail(s)) = Len(s) - 1
           /\ Head(s) = s[1] /\ Head(s) \in M
           /\ \A i \in 1..Len(Tail(s)) : i + 1 \in 1..Len(s) /\ Tail(s)[i] = s[i + 1]
OBVIOUS

\* A sequence with one more element.
LEMMA AppendAt ==
    ASSUME NEW M, NEW s \in Seq(M), NEW m \in M
    PROVE  /\ Append(s, m) \in Seq(M) /\ Len(s) \in Nat
           /\ Len(Append(s, m)) = Len(s) + 1
           /\ Append(s, m)[Len(s) + 1] = m
           /\ \A i \in 1..Len(s) : Append(s, m)[i] = s[i]
OBVIOUS

\* Reading the first of what is told.
LEMMA BecomesRead ==
    ASSUME NEW n \in Nat \ {0}, NEW told, DOMAIN told = 1..n,
           NEW t, DOMAIN t = 1..n - 1, \A i \in 1..n - 1 : t[i] = told[i + 1],
           NEW v, NEW v2, told[1] = {} => v2 = v, \A x : told[1] = {x} => v2 = x,
           NEW w, Becomes(v, told, w)
    PROVE  Becomes(v2, t, w)
<1>1. CASE v = w /\ \A i \in DOMAIN told : told[i] = {}
  BY <1>1 DEF Becomes
<1>2. CASE \E i \in DOMAIN told : told[i] = {w} /\ \A j \in DOMAIN told : j > i => told[j] = {}
  <2>1. PICK i \in 1..n : told[i] = {w} /\ \A j \in 1..n : j > i => told[j] = {}
    BY <1>2
  <2>2. \A j \in 1..n - 1 : j + 1 > i => t[j] = {}
    BY <2>1
  <2>3. CASE i = 1
    BY <2>1, <2>2, <2>3 DEF Becomes
  <2>4. CASE i # 1
    <3>1. i - 1 \in 1..n - 1 /\ t[i - 1] = {w}
      BY <2>1, <2>4
    <3>2. \A j \in 1..n - 1 : j > i - 1 => t[j] = {}
      BY <2>2
    <3> QED BY <3>1, <3>2 DEF Becomes
  <2> QED BY <2>3, <2>4
<1> QED BY <1>1, <1>2 DEF Becomes

\* One more thing is told.
LEMMA BecomesSend ==
    ASSUME NEW n \in Nat, NEW told, DOMAIN told = 1..n,
           NEW t, DOMAIN t = 1..n + 1, \A i \in 1..n : t[i] = told[i], NEW v
    PROVE  /\ t[n + 1] = {} => \A w : Becomes(v, told, w) => Becomes(v, t, w)
           /\ \A x : t[n + 1] = {x} => Becomes(v, t, x)
<1>1. ASSUME t[n + 1] = {}, NEW w, Becomes(v, told, w) PROVE Becomes(v, t, w)
  <2>1. CASE v = w /\ \A i \in 1..n : told[i] = {}
    <3>1. \A i \in 1..n + 1 : t[i] = {}
      BY <1>1, <2>1
    <3> QED BY <2>1, <3>1 DEF Becomes
  <2>2. CASE \E i \in 1..n : told[i] = {w} /\ \A j \in 1..n : j > i => told[j] = {}
    <3>1. PICK i \in 1..n : told[i] = {w} /\ \A j \in 1..n : j > i => told[j] = {}
      BY <2>2
    <3>2. i \in 1..n + 1 /\ t[i] = {w} /\ \A j \in 1..n + 1 : j > i => t[j] = {}
      BY <1>1, <3>1
    <3> QED BY <3>2 DEF Becomes
  <2> QED BY <1>1, <2>1, <2>2 DEF Becomes
<1>2. ASSUME NEW x, t[n + 1] = {x} PROVE Becomes(v, t, x)
  <2>1. n + 1 \in DOMAIN t /\ \A j \in DOMAIN t : j > n + 1 => t[j] = {}
    OBVIOUS
  <2> QED BY <1>2, <2>1 DEF Becomes
<1> QED BY <1>1, <1>2

\* The same for what a client must have seen.
LEMMA SeenRead ==
    ASSUME NEW n \in Nat \ {0}, NEW told, DOMAIN told = 1..n,
           NEW t, DOMAIN t = 1..n - 1, \A i \in 1..n - 1 : t[i] = told[i + 1],
           NEW v, NEW v2, told[1] = {} => v2 = v, told[1] = {} \/ told[1] = {v2},
           NEW S, NEW k \in 0..n, Seen(v, told, k, S)
    PROVE  IF k = 0 THEN Seen(v2, t, 0, S) ELSE Seen(v2, t, k - 1, S)
<1>1. \A i \in 1..n - 1 : i > k - 1 => t[i] \subseteq S
  BY DEF Seen
<1>2. CASE k = 0
  <2>1. v \in S /\ told[1] \subseteq S
    BY <1>2 DEF Seen
  <2>2. v2 \in S
    BY <2>1
  <2>3. \A i \in 1..n - 1 : i > 0 => t[i] \subseteq S
    BY <1>1, <1>2
  <2> QED BY <1>2, <2>2, <2>3 DEF Seen
<1>3. CASE k = 1
  <2>1. v2 \in S
    BY <1>3 DEF Seen
  <2> QED BY <1>1, <1>3, <2>1 DEF Seen
<1>4. CASE k > 1
  <2>1. k - 1 \in 1..n - 1 /\ t[k - 1] = told[k]
    BY <1>4
  <2>2. told[k] # {} /\ told[k] \subseteq S
    BY <1>4 DEF Seen
  <2> QED BY <1>1, <1>4, <2>1, <2>2 DEF Seen
<1> QED BY <1>2, <1>3, <1>4

\* One more thing is told that is in T.
LEMMA SeenSend ==
    ASSUME NEW n \in Nat, NEW told, DOMAIN told = 1..n,
           NEW t, DOMAIN t = 1..n + 1, \A i \in 1..n : t[i] = told[i],
           NEW v, NEW S, NEW T, S \subseteq T, NEW k \in 0..n, Seen(v, told, k, S), t[n + 1] \subseteq T
    PROVE  Seen(v, t, k, T)
<1>1. ASSUME NEW i \in 1..n + 1, i > k PROVE t[i] \subseteq T
  BY <1>1 DEF Seen
<1>2. k # 0 => t[k] # {} /\ t[k] \subseteq T
  BY DEF Seen
<1>3. k = 0 => v \in T
  BY DEF Seen
<1> QED BY <1>1, <1>2, <1>3 DEF Seen

\* What v is in the end, is in S after the last that is told.
LEMMA BecomesSeen ==
    ASSUME NEW n \in Nat, NEW told, DOMAIN told = 1..n, NEW v, NEW w, Becomes(v, told, w),
           NEW S, w \in S
    PROVE  \E k \in 0..n : Seen(v, told, k, S)
<1>1. CASE v = w /\ \A i \in DOMAIN told : told[i] = {}
  <2>1. Seen(v, told, 0, S)
    BY <1>1 DEF Seen
  <2> QED BY <2>1
<1>2. CASE \E i \in DOMAIN told : told[i] = {w} /\ \A j \in DOMAIN told : j > i => told[j] = {}
  <2>1. PICK i \in 1..n : told[i] = {w} /\ \A j \in 1..n : j > i => told[j] = {}
    BY <1>2
  <2>2. Seen(v, told, i, S)
    BY <2>1 DEF Seen
  <2> QED BY <2>1, <2>2
<1> QED BY <1>1, <1>2 DEF Becomes

-----------------------------------------------------------------------------
\* Places and messages, as the code makes them.
LEMMA PlacesMade ==
    /\ Empty \in SomePlaces /\ Fresh \in PlaceValues /\ Default \in PlaceValues
    /\ Nothing \in Message
    /\ \A f \in SomePlaces, p \in Places, v \in PlaceValues : With(f, p, v) \in SomePlaces
    /\ \A f \in SomePlaces : \A S : Restrict(f, DOMAIN f \ S) \in SomePlaces
    /\ \A f \in SomePlaces : Durable(f) \in SomePlaces
    /\ \A f \in SomePlaces : \A p : Value(f, p) \subseteq PlaceValues
<1>1. Fresh \in PlaceValues /\ Default \in PlaceValues
  BY DEF Fresh, Default, PlaceValues, Attributes
<1>2. Empty \in SomePlaces
  BY DEF Empty, SomePlaces
<1>3. Nothing \in Message
  BY <1>2 DEF Nothing, Message
<1>4. ASSUME NEW f \in SomePlaces
      PROVE  /\ \A p \in Places, v \in PlaceValues : With(f, p, v) \in SomePlaces
             /\ \A S : Restrict(f, DOMAIN f \ S) \in SomePlaces
             /\ Durable(f) \in SomePlaces
             /\ \A p : Value(f, p) \subseteq PlaceValues
  <2>1. PICK D \in SUBSET Places : f \in [D -> PlaceValues]
    BY DEF SomePlaces
  <2>2. ASSUME NEW p \in Places, NEW v \in PlaceValues PROVE With(f, p, v) \in SomePlaces
    <3>1. With(f, p, v) \in [D \cup {p} -> PlaceValues] /\ D \cup {p} \in SUBSET Places
      BY <2>1, <2>2 DEF With
    <3> QED BY <3>1 DEF SomePlaces
  <2>3. ASSUME NEW S PROVE Restrict(f, DOMAIN f \ S) \in SomePlaces
    <3>1. Restrict(f, DOMAIN f \ S) \in [D \ S -> PlaceValues] /\ D \ S \in SUBSET Places
      BY <2>1 DEF Restrict
    <3> QED BY <3>1 DEF SomePlaces
  <2>4. Durable(f) \in SomePlaces
    <3>1. \A v \in PlaceValues : [v EXCEPT !.acquired = NoOne, !.allowed = {}] \in PlaceValues
      BY DEF PlaceValues
    <3>2. Durable(f) \in [D -> PlaceValues]
      BY <2>1, <3>1 DEF Durable
    <3> QED BY <3>2 DEF SomePlaces
  <2>5. \A p : Value(f, p) \subseteq PlaceValues
    BY <2>1 DEF Value
  <2> QED BY <2>2, <2>3, <2>4, <2>5
<1> QED BY <1>1, <1>2, <1>3, <1>4

\* A message tells of a place one value or nothing.
LEMMA AboutOne ==
    ASSUME NEW msg, NEW p
    PROVE  /\ About(msg, p) = {} \/ \E w : About(msg, p) = {w}
           /\ p \in msg.del => About(msg, p) = {{}}
           /\ p \notin msg.del /\ p \in DOMAIN msg.set => About(msg, p) = {{msg.set[p]}}
           /\ p \notin msg.del /\ p \notin DOMAIN msg.set => About(msg, p) = {}
<1>1. p \notin msg.del /\ p \in DOMAIN msg.set => About(msg, p) = {{msg.set[p]}}
  BY DEF About, Value
<1>2. p \notin msg.del /\ p \notin DOMAIN msg.set => About(msg, p) = {}
  BY DEF About, Value
<1>3. p \in msg.del => About(msg, p) = {{}}
  BY DEF About
<1> QED BY <1>1, <1>2, <1>3 DEF Value

\* Reading a message does to the copy of a place what the message tells.
LEMMA ApplyTells ==
    ASSUME NEW f, NEW msg, NEW p
    PROVE  /\ About(msg, p) = {} => Value(Apply(f, msg), p) = Value(f, p)
           /\ \A w : About(msg, p) = {w} => Value(Apply(f, msg), p) = w
<1>1. /\ DOMAIN Apply(f, msg) = (DOMAIN f \cup DOMAIN msg.set) \ msg.del
      /\ \A q \in DOMAIN Apply(f, msg) :
            Apply(f, msg)[q] = IF q \in DOMAIN msg.set THEN msg.set[q] ELSE f[q]
  BY DEF Apply
<1>2. CASE p \in msg.del
  BY <1>1, <1>2, AboutOne DEF Value
<1>3. CASE p \notin msg.del /\ p \in DOMAIN msg.set
  BY <1>1, <1>3, AboutOne DEF Value
<1>4. CASE p \notin msg.del /\ p \notin DOMAIN msg.set
  BY <1>1, <1>4, AboutOne DEF Value
<1> QED BY <1>2, <1>3, <1>4

\* The same for the resource.
LEMMA ApplyResourceTells ==
    ASSUME NEW k, NEW msg, NEW r \in States, msg.res \subseteq {r}
    PROVE  /\ AboutResource(msg) = {} => ApplyResource(k, msg) = k
           /\ \A w : AboutResource(msg) = {w} => ApplyResource(k, msg) = w
           /\ k \in States \cup {-1} => ApplyResource(k, msg) \in States \cup {-1}
<1>1. CASE msg.res = {}
  BY <1>1 DEF ApplyResource, AboutResource
<1>2. CASE msg.res # {}
  <2>1. msg.res = {r}
    BY <1>2
  <2>2. (CHOOSE s \in msg.res : TRUE) = r
    BY <2>1
  <2>3. ApplyResource(k, msg) = IF r = 0 THEN -1 ELSE r
    BY <2>1, <2>2 DEF ApplyResource
  <2>4. AboutResource(msg) = {IF r = 0 THEN -1 ELSE r}
    BY <2>1 DEF AboutResource
  <2> QED BY <2>3, <2>4
<1> QED BY <1>1, <1>2

-----------------------------------------------------------------------------
\* What is under way, with the first message read.
LEMMA ReadTold ==
    ASSUME NEW s \in Seq(Message), s # <<>>, NEW f, NEW p
    PROVE  LET v == Value(Apply(f, Head(s)), p) IN
           /\ \A w : Becomes(Value(f, p), Told(s, p), w) => Becomes(v, Told(Tail(s), p), w)
           /\ \A S : \A k \in 0..Len(s) : Seen(Value(f, p), Told(s, p), k, S) =>
                IF k = 0 THEN Seen(v, Told(Tail(s), p), 0, S) ELSE Seen(v, Told(Tail(s), p), k - 1, S)
<1> DEFINE told == Told(s, p)
           t == Told(Tail(s), p)
           v == Value(Apply(f, Head(s)), p)
           n == Len(s)
<1>1. /\ n \in Nat \ {0} /\ Len(Tail(s)) = n - 1 /\ Head(s) = s[1]
      /\ \A i \in 1..n - 1 : i + 1 \in 1..n /\ Tail(s)[i] = s[i + 1]
  <2>1. n \in Nat \ {0} /\ Len(Tail(s)) = n - 1
    BY TailAt
  <2> QED BY <2>1, TailAt
<1>2. /\ DOMAIN told = 1..n /\ DOMAIN t = 1..n - 1
      /\ told[1] = About(Head(s), p)
      /\ \A i \in 1..n - 1 : t[i] = told[i + 1]
  BY <1>1 DEF Told
<1> HIDE DEF told, t, n
<1>3. /\ told[1] = {} => v = Value(f, p)
      /\ \A w : told[1] = {w} => v = w
      /\ told[1] = {} \/ told[1] = {v}
  <2>1. /\ About(Head(s), p) = {} => v = Value(f, p)
        /\ \A w : About(Head(s), p) = {w} => v = w
    <3>1. About(Head(s), p) = {} => v = Value(f, p)
      BY ApplyTells
    <3>2. \A w : About(Head(s), p) = {w} => v = w
      BY ApplyTells
    <3> QED BY <3>1, <3>2
  <2>2. About(Head(s), p) = {} \/ \E w : About(Head(s), p) = {w}
    BY AboutOne
  <2> HIDE DEF v
  <2> QED BY <1>2, <2>1, <2>2
<1> HIDE DEF v
<1>4. ASSUME NEW w, Becomes(Value(f, p), told, w) PROVE Becomes(v, t, w)
  BY <1>1, <1>2, <1>3, <1>4, BecomesRead
<1>5. ASSUME NEW S, NEW k \in 0..n, Seen(Value(f, p), told, k, S)
      PROVE  IF k = 0 THEN Seen(v, t, 0, S) ELSE Seen(v, t, k - 1, S)
  BY <1>1, <1>2, <1>3, <1>5, SeenRead
<1> QED BY <1>4, <1>5 DEF told, t, v, n

\* The same for the resource.
LEMMA ReadResource ==
    ASSUME NEW s \in Seq(Message), s # <<>>, NEW k, NEW r \in States, Head(s).res \subseteq {r}, NEW w,
           Becomes(k, ToldResource(s), w)
    PROVE  Becomes(ApplyResource(k, Head(s)), ToldResource(Tail(s)), w)
<1> DEFINE told == ToldResource(s)
           t == ToldResource(Tail(s))
           n == Len(s)
<1>1. /\ n \in Nat \ {0} /\ Len(Tail(s)) = n - 1 /\ Head(s) = s[1]
      /\ \A i \in 1..n - 1 : i + 1 \in 1..n /\ Tail(s)[i] = s[i + 1]
  <2>1. n \in Nat \ {0} /\ Len(Tail(s)) = n - 1
    BY TailAt
  <2> QED BY <2>1, TailAt
<1>2. /\ DOMAIN told = 1..n /\ DOMAIN t = 1..n - 1
      /\ told[1] = AboutResource(Head(s))
      /\ \A i \in 1..n - 1 : t[i] = told[i + 1]
  BY <1>1 DEF ToldResource
<1> HIDE DEF told, t, n
<1>3. /\ told[1] = {} => ApplyResource(k, Head(s)) = k
      /\ \A x : told[1] = {x} => ApplyResource(k, Head(s)) = x
  BY <1>2, ApplyResourceTells
<1>4. Becomes(k, told, w)
  BY DEF told
<1>5. Becomes(ApplyResource(k, Head(s)), t, w)
  BY <1>1, <1>2, <1>3, <1>4, BecomesRead
<1> QED BY <1>5 DEF t

\* What is under way, with one more message.
LEMMA SendTold ==
    ASSUME NEW s \in Seq(Message), NEW msg \in Message, NEW v, NEW p
    PROVE  LET told == Told(s, p)
               t == Told(Append(s, msg), p)
           IN  /\ About(msg, p) = {} => \A w : Becomes(v, told, w) => Becomes(v, t, w)
               /\ \A w : About(msg, p) = {w} => Becomes(v, t, w)
               /\ \A S, T : \A k \in 0..Len(s) :
                    Seen(v, told, k, S) /\ S \subseteq T /\ About(msg, p) \subseteq T => Seen(v, t, k, T)
               /\ \A S : About(msg, p) # {} /\ About(msg, p) \subseteq S => Seen(v, t, Len(s) + 1, S)
<1> DEFINE told == Told(s, p)
           t == Told(Append(s, msg), p)
           n == Len(s)
<1>1. /\ n \in Nat /\ Len(Append(s, msg)) = n + 1 /\ Append(s, msg)[n + 1] = msg
      /\ \A i \in 1..n : Append(s, msg)[i] = s[i]
  BY AppendAt
<1>2. /\ DOMAIN told = 1..n /\ DOMAIN t = 1..n + 1
      /\ t[n + 1] = About(msg, p)
      /\ \A i \in 1..n : t[i] = told[i]
  BY <1>1 DEF Told
<1> HIDE DEF told, t, n
<1>3. /\ About(msg, p) = {} => \A w : Becomes(v, told, w) => Becomes(v, t, w)
      /\ \A w : About(msg, p) = {w} => Becomes(v, t, w)
  BY <1>1, <1>2, BecomesSend
<1>4. ASSUME NEW S, NEW T, NEW k \in 0..n, Seen(v, told, k, S), S \subseteq T, About(msg, p) \subseteq T
      PROVE  Seen(v, t, k, T)
  BY <1>1, <1>2, <1>4, SeenSend
<1>5. ASSUME NEW S, About(msg, p) # {}, About(msg, p) \subseteq S PROVE Seen(v, t, n + 1, S)
  BY <1>1, <1>2, <1>5 DEF Seen
<1> QED BY <1>3, <1>4, <1>5 DEF told, t, n

\* The same for the resource.
LEMMA SendResource ==
    ASSUME NEW s \in Seq(Message), NEW msg \in Message, NEW v
    PROVE  LET t == ToldResource(Append(s, msg))
           IN  /\ msg.res = {} => \A w : Becomes(v, ToldResource(s), w) => Becomes(v, t, w)
               /\ \A r : msg.res = {r} => Becomes(v, t, IF r = 0 THEN -1 ELSE r)
<1> DEFINE told == ToldResource(s)
           t == ToldResource(Append(s, msg))
           n == Len(s)
<1>1. /\ n \in Nat /\ Len(Append(s, msg)) = n + 1 /\ Append(s, msg)[n + 1] = msg
      /\ \A i \in 1..n : Append(s, msg)[i] = s[i]
  BY AppendAt
<1>2. /\ DOMAIN told = 1..n /\ DOMAIN t = 1..n + 1
      /\ t[n + 1] = AboutResource(msg)
      /\ \A i \in 1..n : t[i] = told[i]
  BY <1>1 DEF ToldResource
<1> HIDE DEF told, t, n
<1>3. /\ msg.res = {} => AboutResource(msg) = {}
      /\ \A r : msg.res = {r} => AboutResource(msg) = {IF r = 0 THEN -1 ELSE r}
  BY DEF AboutResource
<1>4. /\ AboutResource(msg) = {} => \A w : Becomes(v, told, w) => Becomes(v, t, w)
      /\ \A w : AboutResource(msg) = {w} => Becomes(v, t, w)
  BY <1>1, <1>2, BecomesSend
<1> QED BY <1>3, <1>4 DEF told, t

-----------------------------------------------------------------------------
\* A step that tells nobody of a place forgets nothing that it has been.
Quietly == \A p \in Places : recent[p] \subseteq recent'[p] /\ (p \in DOMAIN places => p \in DOMAIN places')

\* Nothing that c can notice happens.
LEMMA Untouched ==
    ASSUME IInv, NEW c \in Clients,
           in'[c] = in[c], out'[c] = out[c], pump'[c] = pump[c], copy'[c] = copy[c], known'[c] = known[c],
           c \in session' <=> c \in session
    PROVE  /\ OneState(c)'
           /\ cmd'[c] = cmd[c] => Life(c)' /\ Syncs(c)'
           /\ Quietly /\ resource' = resource => Exact(c)'
           /\ cmd'[c] = cmd[c] /\ since[c] \subseteq since'[c] => OwnChange(c)'
<1>1. OneState(c) /\ Life(c) /\ Syncs(c) /\ Exact(c) /\ OwnChange(c)
  BY DEF IInv, ClientInv
<1>2. OneState(c)'
  BY <1>1 DEF OneState
<1>3. ASSUME cmd'[c] = cmd[c] PROVE Life(c)' /\ Syncs(c)'
  <2>1. Life(c)'
    BY <1>1, <1>3 DEF Life
  <2>2. Syncs(c)'
    BY <1>1, <1>3 DEF Syncs, Served, Waits, OneSync, NoSync
  <2> QED BY <2>1, <2>2
<1>4. ASSUME Quietly, resource' = resource PROVE Exact(c)'
  <2>1. ResourceExact(c)' <=> ResourceExact(c)
    BY <1>4 DEF ResourceExact
  <2>2. \A p \in Places : PlaceExact(c, p) => PlaceExact(c, p)'
    BY <1>4 DEF PlaceExact, Quietly
  <2> QED BY <1>1, <1>4, <2>1, <2>2 DEF Exact, Served, Quietly
<1>5. ASSUME cmd'[c] = cmd[c], since[c] \subseteq since'[c] PROVE OwnChange(c)'
  <2> SUFFICES ASSUME Served(c), Changing(c)
               PROVE  \E k \in 0..Len(out'[c]) :
                        /\ Seen(Value(copy'[c], cmd'[c].place), Told(out'[c], cmd'[c].place), k, since'[c])
                        /\ \A i \in 1..Len(out'[c]) : out'[c][i].sync => i > k
    BY <1>5 DEF OwnChange, Served, Changing
  <2>1. PICK k \in 0..Len(out[c]) :
          /\ Seen(Value(copy[c], cmd[c].place), Told(out[c], cmd[c].place), k, since[c])
          /\ \A i \in 1..Len(out[c]) : out[c][i].sync => i > k
    BY <1>1 DEF OwnChange
  <2>2. Seen(Value(copy[c], cmd[c].place), Told(out[c], cmd[c].place), k, since'[c])
    BY <1>5, <2>1 DEF Seen
  <2> QED BY <1>5, <2>1, <2>2
<1> QED BY <1>2, <1>3, <1>4, <1>5

\* What a step publishes of a place: its new value, or nothing.
Publishes(msg, p) ==
    \/ About(msg, p) = {Value(places', p)} /\ Value(places', p) \in recent'[p]
    \/ About(msg, p) = {} /\ recent[p] \subseteq recent'[p] /\ (p \in DOMAIN places => p \in DOMAIN places')
PublishesResource(msg) ==
    \/ msg.res = {} /\ resource' = resource
    \/ msg.res = {resource'}

\* A message is put into the queue of c.
LEMMA Notified ==
    ASSUME IInv, NEW c \in Clients, NEW msg \in Message, ~msg.sync, NEW r \in States, msg.res \subseteq {r},
           in'[c] = in[c], pump'[c] = pump[c], copy'[c] = copy[c], known'[c] = known[c],
           c \in session' <=> c \in session,
           out'[c] = IF c \in session THEN Append(out[c], msg) ELSE out[c]
    PROVE  /\ OneState(c)'
           /\ cmd'[c] = cmd[c] => Life(c)' /\ Syncs(c)'
           /\ (\A p \in Places : Publishes(msg, p)) /\ PublishesResource(msg) => Exact(c)'
           /\ /\ cmd'[c] = cmd[c] /\ since[c] \subseteq since'[c]
              /\ Changing(c) => About(msg, cmd[c].place) \subseteq since'[c]
              => OwnChange(c)'
<1>1. OneState(c) /\ Life(c) /\ Syncs(c) /\ Exact(c) /\ OwnChange(c) /\ out[c] \in Seq(Message)
  BY DEF IInv, ClientInv, TypeOK
<1>2. CASE c \notin session
  <2>1. Exact(c)' /\ OwnChange(c)' /\ (cmd'[c] = cmd[c] => Syncs(c)')
    BY <1>2 DEF Exact, OwnChange, Syncs, Served
  <2>2. OneState(c)' /\ (cmd'[c] = cmd[c] => Life(c)')
    BY <1>1, <1>2 DEF OneState, Life
  <2> QED BY <2>1, <2>2
<1>3. CASE c \in session
  <2> DEFINE n == Len(out[c])
  <2>1. /\ n \in Nat /\ Len(out'[c]) = n + 1 /\ out'[c][n + 1] = msg
        /\ \A i \in 1..n : out'[c][i] = out[c][i]
    BY <1>1, <1>3, AppendAt
  <2>2. out'[c] = Append(out[c], msg)
    BY <1>3
  <2> HIDE DEF n
  <2>3. OneState(c)'
    BY <1>1, <2>1 DEF OneState, n
  <2>4. ASSUME cmd'[c] = cmd[c] PROVE Life(c)' /\ Syncs(c)'
    <3>1. Life(c)'
      BY <1>1, <1>3, <2>4 DEF Life
    <3>2. NoSync(c) => NoSync(c)'
      BY <2>1 DEF NoSync, n
    <3>3. ASSUME OneSync(c) PROVE OneSync(c)'
      <4>1. PICK i \in 1..n : out[c][i].sync /\ \A j \in 1..n : out[c][j].sync => j = i
        BY <3>3 DEF OneSync, n
      <4>2. /\ i \in 1..n + 1 /\ out'[c][i].sync
            /\ \A j \in 1..n + 1 : out'[c][j].sync => j = i
        BY <2>1, <4>1
      <4> QED BY <2>1, <4>2 DEF OneSync
    <3>4. /\ Served(c)' <=> Served(c)
          /\ Waits(c)' <=> Waits(c)
      BY <2>4 DEF Served, Waits
    <3>5. Syncs(c)'
      BY <1>1, <2>4, <3>2, <3>3, <3>4 DEF Syncs
    <3> QED BY <3>1, <3>5
  <2>5. ASSUME \A p \in Places : Publishes(msg, p), PublishesResource(msg) PROVE Exact(c)'
    <3> SUFFICES ASSUME Served(c)
                 PROVE  /\ \A p \in Places :
                              p \notin DOMAIN places' \/ "places" \notin Range(in[c]) => PlaceExact(c, p)'
                        /\ resource' = 0 \/ "resources" \notin Range(in[c]) => ResourceExact(c)'
      BY DEF Exact, Served
    <3>1. ASSUME NEW p \in Places, p \notin DOMAIN places' \/ "places" \notin Range(in[c])
          PROVE  PlaceExact(c, p)'
      <4> DEFINE v == Value(copy[c], p)
                 told == Told(out[c], p)
                 t == Told(Append(out[c], msg), p)
      <4>1. /\ About(msg, p) = {} => \A w : Becomes(v, told, w) => Becomes(v, t, w)
            /\ \A w : About(msg, p) = {w} => Becomes(v, t, w)
        BY <1>1, SendTold
      <4>2. p \notin DOMAIN places \/ "places" \notin Range(in[c]) => \E w \in recent[p] : Becomes(v, told, w)
        BY <1>1, <1>3, <2>5 DEF Exact, PlaceExact, Served
      <4>3. PlaceExact(c, p)' <=> \E w \in recent'[p] : Becomes(v, t, w)
        BY <2>2 DEF PlaceExact
      <4> HIDE DEF v, told, t
      <4>4. CASE About(msg, p) = {Value(places', p)} /\ Value(places', p) \in recent'[p]
        BY <4>1, <4>3, <4>4
      <4>5. CASE About(msg, p) = {} /\ recent[p] \subseteq recent'[p] /\ (p \in DOMAIN places => p \in DOMAIN places')
        BY <3>1, <4>1, <4>2, <4>3, <4>5
      <4> QED BY <2>5, <4>4, <4>5 DEF Publishes
    <3>2. ASSUME resource' = 0 \/ "resources" \notin Range(in[c]) PROVE ResourceExact(c)'
      <4> DEFINE told == ToldResource(out[c])
                 t == ToldResource(Append(out[c], msg))
      <4>1. /\ msg.res = {} => \A w : Becomes(known[c], told, w) => Becomes(known[c], t, w)
            /\ \A s : msg.res = {s} => Becomes(known[c], t, IF s = 0 THEN -1 ELSE s)
        BY <1>1, SendResource
      <4>2. resource = 0 \/ "resources" \notin Range(in[c]) =>
              \E s \in IF resource = 0 THEN {0, -1} ELSE {resource} : Becomes(known[c], told, s)
        BY <1>1 DEF Exact, ResourceExact
      <4>3. ResourceExact(c)' <=>
              \E s \in IF resource' = 0 THEN {0, -1} ELSE {resource'} : Becomes(known[c], t, s)
        BY <2>2 DEF ResourceExact
      <4> HIDE DEF told, t
      <4>4. CASE msg.res = {} /\ resource' = resource
        BY <3>2, <4>1, <4>2, <4>3, <4>4
      <4>5. CASE msg.res = {resource'}
        <5>1. Becomes(known[c], t, IF resource' = 0 THEN -1 ELSE resource')
          BY <4>1, <4>5
        <5>2. (IF resource' = 0 THEN -1 ELSE resource') \in IF resource' = 0 THEN {0, -1} ELSE {resource'}
          OBVIOUS
        <5> QED BY <4>3, <5>1, <5>2
      <4> QED BY <2>5, <4>4, <4>5 DEF PublishesResource
    <3> QED BY <3>1, <3>2
  <2>6. ASSUME cmd'[c] = cmd[c], since[c] \subseteq since'[c],
               Changing(c) => About(msg, cmd[c].place) \subseteq since'[c]
        PROVE  OwnChange(c)'
    <3> DEFINE p == cmd[c].place
    <3> SUFFICES ASSUME Served(c), Changing(c)
                 PROVE  \E k \in 0..n + 1 :
                          /\ Seen(Value(copy[c], p), Told(Append(out[c], msg), p), k, since'[c])
                          /\ \A i \in 1..n + 1 : out'[c][i].sync => i > k
      BY <2>1, <2>2, <2>6 DEF OwnChange, Served, Changing
    <3>1. PICK k \in 0..n :
            /\ Seen(Value(copy[c], p), Told(out[c], p), k, since[c])
            /\ \A i \in 1..n : out[c][i].sync => i > k
      BY <1>1 DEF OwnChange, n
    <3>2. Seen(Value(copy[c], p), Told(Append(out[c], msg), p), k, since'[c])
      BY <1>1, <2>6, <3>1, SendTold DEF n
    <3>3. k \in 0..n + 1 /\ \A i \in 1..n + 1 : out'[c][i].sync => i > k
      BY <2>1, <3>1
    <3> QED BY <3>2, <3>3
  <2> QED BY <2>3, <2>4, <2>5, <2>6
<1> QED BY <1>2, <1>3

-----------------------------------------------------------------------------
\* What an RPC that takes effect publishes: its place as it is then, no other.
Published(c, new, msg) ==
    /\ Done(c, new, msg) /\ new \in SomePlaces /\ msg \in Message
    /\ ~msg.sync /\ msg.res = {}
    /\ About(msg, Place(c)) = {Value(new, Place(c))}
    /\ \A p \in Places : p # Place(c) => About(msg, p) = {} /\ Value(new, p) = Value(places, p)

\* ReleasePlace of a place that another user has.
LeftAlone(c) ==
    /\ lock = NoOne
    /\ cmd' = [cmd EXCEPT ![c].phase = "answered"]
    /\ since' = [since EXCEPT ![c] = recent[Place(c)]]
    /\ UNCHANGED <<coordinator, in, out, pump, copy, known, spent>>

\* A place that may have changed, without a message.
Changed(p) ==
    \/ UNCHANGED <<places, recent>>
    \/ \E v \in PlaceValues : Unpublished(With(places, p, v), p)

\* An RPC that begins to wait, and one that ends with an error.
Begun(c) == Await(c) /\ Exists(c) /\ Changed(Place(c))
Failed(c) == Fail(c) /\ Changed(Place(c))

LEMMA ChangedFacts ==
    ASSUME TypeOK, Recorded, NEW p \in Places, Changed(p)
    PROVE  /\ places' \in SomePlaces /\ recent' \in [Places -> SUBSET SUBSET PlaceValues]
           /\ Quietly /\ Recorded'
<1>1. CASE UNCHANGED <<places, recent>>
  BY <1>1 DEF TypeOK, Recorded, Quietly
<1>2. ASSUME NEW v \in PlaceValues, Unpublished(With(places, p, v), p)
      PROVE  /\ places' \in SomePlaces /\ recent' \in [Places -> SUBSET SUBSET PlaceValues]
             /\ Quietly /\ Recorded'
  <2> DEFINE new == With(places, p, v)
  <2>1. places' = new /\ recent' = [recent EXCEPT ![p] = @ \cup {Value(new, p)}]
    BY <1>2 DEF Unpublished
  <2>2. new \in SomePlaces /\ Value(new, p) \subseteq PlaceValues
    BY PlacesMade DEF TypeOK
  <2>3. /\ DOMAIN new = DOMAIN places \cup {p}
        /\ \A q \in Places : q # p => Value(new, q) = Value(places, q)
    BY DEF With, Value
  <2> HIDE DEF new
  <2>4. recent' \in [Places -> SUBSET SUBSET PlaceValues]
    BY <2>1, <2>2 DEF TypeOK
  <2>5. Quietly
    BY <2>1, <2>3 DEF Quietly, TypeOK
  <2>6. Recorded'
    BY <2>1, <2>3 DEF Recorded, TypeOK
  <2> QED BY <2>1, <2>2, <2>4, <2>5, <2>6
<1> QED BY <1>1, <1>2 DEF Changed

\* An RPC that changes a place.
LEMMA ChangePublishes ==
    ASSUME TypeOK, NEW c \in Clients, Place(c) \in Places, NEW v \in PlaceValues, Change(c, v)
    PROVE  Published(c, With(places, Place(c), v), PlaceMsg(Place(c), v))
<1> DEFINE p == Place(c)
           new == With(places, p, v)
           msg == PlaceMsg(p, v)
<1>1. /\ msg.del = {} /\ msg.res = {} /\ msg.sync = FALSE /\ msg.set = [x \in {p} |-> v]
      /\ msg \in Message
  <2>1. [x \in {p} |-> v] \in SomePlaces
    <3>1. [x \in {p} |-> v] \in [{p} -> PlaceValues] /\ {p} \in SUBSET Places
      OBVIOUS
    <3> QED BY <3>1 DEF SomePlaces
  <2> QED BY <2>1 DEF PlaceMsg, Nothing, Message
<1>2. /\ DOMAIN new = DOMAIN places \cup {p} /\ new[p] = v
      /\ \A q \in DOMAIN places : q # p => new[q] = places[q]
  BY DEF With
<1>3. new \in SomePlaces
  BY PlacesMade DEF TypeOK
<1>4. Done(c, new, msg)
  BY DEF Change
<1> HIDE DEF new, msg
<1>5. About(msg, p) = {Value(new, p)}
  <2>1. About(msg, p) = {{v}}
    BY <1>1, AboutOne
  <2>2. Value(new, p) = {v}
    BY <1>2 DEF Value
  <2> QED BY <2>1, <2>2
<1>6. ASSUME NEW q \in Places, q # p PROVE About(msg, q) = {} /\ Value(new, q) = Value(places, q)
  <2>1. About(msg, q) = {}
    BY <1>1, <1>6, AboutOne
  <2>2. Value(new, q) = Value(places, q)
    BY <1>2, <1>6 DEF Value
  <2> QED BY <2>1, <2>2
<1> QED BY <1>1, <1>3, <1>4, <1>5, <1>6 DEF Published, new, msg

\* An RPC that edits attributes of a place.
LEMMA EditPublishes ==
    ASSUME TypeOK, NEW c \in Clients, Place(c) \in Places, NEW ok, NEW has \in SUBSET Attributes,
           Edit(c, ok, has)
    PROVE  Refuse(c) \/ \E new, msg : Published(c, new, msg)
<1>1. CASE Exists(c) /\ ok
  <2>1. places[Place(c)] \in PlaceValues
    BY <1>1 DEF TypeOK, SomePlaces, Exists
  <2>2. [places[Place(c)] EXCEPT !.has = has] \in PlaceValues
    BY <2>1 DEF PlaceValues
  <2>3. Change(c, [places[Place(c)] EXCEPT !.has = has])
    BY <1>1 DEF Edit
  <2> QED BY <2>2, <2>3, ChangePublishes
<1> QED BY <1>1 DEF Edit

\* All RPCs.
LEMMA ServeFacts ==
    ASSUME IInv, NEW c \in Clients, Serve(c)
    PROVE  /\ up /\ cmd[c].phase = "calling" /\ Place(c) \in Places /\ lock \in {NoOne, c}
           /\ \/ Failed(c) \/ Begun(c) \/ LeftAlone(c)
              \/ \E new, msg : Published(c, new, msg)
<1> DEFINE p == Place(c)
           Goal == Failed(c) \/ Begun(c) \/ LeftAlone(c) \/ \E new, msg : Published(c, new, msg)
<1>0. lock = c => up /\ cmd[c].phase = "calling" /\ Exists(c)
  BY PublishingAssumption DEF IInv, LockHeld, Exists, Place
<1>1. up /\ cmd[c].phase = "calling" /\ lock \in {NoOne, c}
  <2>1. \A op : Calling(c, op) => up /\ cmd[c].phase = "calling" /\ lock = NoOne
    BY DEF Calling
  <2>2. \A op : Waiting(c, op) => lock = c
    BY DEF Waiting
  <2>3. CASE \/ AddPlace(c) \/ DeletePlace(c) \/ AddPlaceAlias(c) \/ DeletePlaceAlias(c) \/ SetPlaceTags(c)
             \/ SetPlaceComment(c)
    BY <2>1, <2>3 DEF AddPlace, DeletePlace, AddPlaceAlias, DeletePlaceAlias, SetPlaceTags, SetPlaceComment
  <2>4. CASE AddPlaceMatch(c) \/ DeletePlaceMatch(c) \/ AcquirePlace(c) \/ ReleasePlace(c) \/ AllowPlace(c)
    BY <2>1, <2>4 DEF AddPlaceMatch, DeletePlaceMatch, AcquirePlace, ReleasePlace, AllowPlace
  <2>5. CASE Acquired(c) \/ AcquireFails(c) \/ Released(c) \/ Raises(c)
    BY <1>0, <2>2, <2>5 DEF Acquired, AcquireFails, Released, Raises
  <2> QED BY <2>3, <2>4, <2>5 DEF Serve
<1>2. p \in Places /\ TypeOK
  BY <1>1 DEF IInv, ClientInv, Life, Place
<1>3. Exists(c) => /\ places[p] \in PlaceValues
                   /\ Has(c) \subseteq Attributes
                   /\ [places[p] EXCEPT !.acquired = c] \in PlaceValues
                   /\ [places[p] EXCEPT !.acquired = NoOne] \in PlaceValues
                   /\ [places[p] EXCEPT !.acquired = NoOne, !.allowed = {}] \in PlaceValues
  <2> SUFFICES ASSUME Exists(c)
               PROVE  /\ places[p] \in PlaceValues
                      /\ Has(c) \subseteq Attributes
                      /\ \A u \in Clients \cup {NoOne} : [places[p] EXCEPT !.acquired = u] \in PlaceValues
                      /\ [places[p] EXCEPT !.acquired = NoOne, !.allowed = {}] \in PlaceValues
    OBVIOUS
  <2>1. places[p] \in PlaceValues
    BY <1>2 DEF TypeOK, SomePlaces, Exists
  <2>2. Has(c) \subseteq Attributes
    BY <2>1 DEF Has, PlaceValues
  <2>3. \A v \in PlaceValues :
          /\ \A u \in Clients \cup {NoOne} : [v EXCEPT !.acquired = u] \in PlaceValues
          /\ [v EXCEPT !.acquired = NoOne, !.allowed = {}] \in PlaceValues
    BY DEF PlaceValues
  <2> QED BY <2>1, <2>2, <2>3
<1>4. cmd[c].op = "AllowPlace" => cmd[c].arg \in Clients
  BY <1>1 DEF IInv, ClientInv, Life
<1> SUFFICES Goal
  BY <1>1, <1>2
<1>R. ASSUME Refuse(c) PROVE Goal
  BY <1>R DEF Refuse, Failed, Changed
<1> HIDE DEF Goal
<1>5. CASE AddPlace(c)
  BY <1>R, <1>2, <1>5, PlacesMade, ChangePublishes DEF AddPlace, Goal
<1>6. CASE DeletePlace(c)
  <2> SUFFICES ASSUME Exists(c) PROVE Goal
    BY <1>R, <1>6 DEF DeletePlace
  <2> DEFINE new == Restrict(places, DOMAIN places \ {p})
             msg == [Nothing EXCEPT !.del = {p}]
  <2>1. Done(c, new, msg)
    BY <1>6 DEF DeletePlace
  <2>2. /\ msg.del = {p} /\ msg.set = Empty /\ msg.res = {} /\ msg.sync = FALSE
        /\ msg \in Message
    BY <1>2, PlacesMade DEF Nothing, Message
  <2>3. new \in SomePlaces
    BY <1>2, PlacesMade DEF TypeOK
  <2>4. DOMAIN new = DOMAIN places \ {p} /\ \A q \in DOMAIN new : new[q] = places[q]
    BY DEF Restrict
  <2> HIDE DEF new, msg
  <2>5. About(msg, p) = {Value(new, p)}
    BY <2>2, <2>4, AboutOne DEF Value
  <2>6. ASSUME NEW q \in Places, q # p PROVE About(msg, q) = {} /\ Value(new, q) = Value(places, q)
    <3>1. q \notin msg.del /\ q \notin DOMAIN msg.set
      BY <2>2, <2>6 DEF Empty
    <3>2. About(msg, q) = {}
      BY <3>1, AboutOne
    <3>3. Value(new, q) = Value(places, q)
      BY <2>4, <2>6 DEF Value
    <3> QED BY <3>2, <3>3
  <2>7. Published(c, new, msg)
    BY <2>1, <2>2, <2>3, <2>5, <2>6 DEF Published
  <2> QED BY <2>7 DEF Goal
<1>7. ASSUME NEW ok, NEW has, Exists(c) => has \in SUBSET Attributes, Edit(c, ok, has) PROVE Goal
  <2>1. CASE Exists(c)
    BY <1>R, <1>2, <1>7, <2>1, EditPublishes DEF Goal
  <2>2. CASE ~Exists(c)
    BY <1>R, <1>7, <2>2 DEF Edit
  <2> QED BY <2>1, <2>2
<1>8. CASE \/ AddPlaceAlias(c) \/ DeletePlaceAlias(c) \/ AddPlaceMatch(c) \/ DeletePlaceMatch(c)
  <2>1. PICK has \in {Has(c) \cup {"alias"}, Has(c) \ {"alias"}, Has(c) \cup {"match"}, Has(c) \ {"match"}} :
          \E ok : Edit(c, ok, has)
    BY <1>8 DEF AddPlaceAlias, DeletePlaceAlias, AddPlaceMatch, DeletePlaceMatch
  <2>2. Exists(c) => has \in SUBSET Attributes
    BY <1>3, <2>1 DEF Attributes
  <2> QED BY <1>7, <2>1, <2>2
<1>9. CASE SetPlaceTags(c) \/ SetPlaceComment(c)
  <2>1. PICK more \in SUBSET {"tag", "comment"}, less \in SUBSET {"tag", "comment"} :
          Edit(c, TRUE, (Has(c) \ less) \cup more)
    BY <1>9 DEF SetPlaceTags, SetPlaceComment
  <2>2. Exists(c) => (Has(c) \ less) \cup more \in SUBSET Attributes
    BY <1>3, <2>1 DEF Attributes
  <2> QED BY <1>7, <2>1, <2>2
<1>10. CASE AcquirePlace(c)
  <2> DEFINE acquired == [places[p] EXCEPT !.acquired = c]
  <2>1. \/ Refuse(c)
        \/ Exists(c) /\ Change(c, acquired)
        \/ Exists(c) /\ Await(c) /\ Unpublished(With(places, p, acquired), p)
    BY <1>10 DEF AcquirePlace
  <2>2. Exists(c) => acquired \in PlaceValues
    BY <1>3
  <2> HIDE DEF acquired
  <2>3. CASE Exists(c) /\ Await(c) /\ Unpublished(With(places, p, acquired), p)
    BY <2>2, <2>3 DEF Begun, Changed, Goal
  <2> QED BY <1>R, <1>2, <2>1, <2>2, <2>3, ChangePublishes DEF Goal
<1>11. CASE ReleasePlace(c)
  <2>1. \/ Refuse(c) \/ LeftAlone(c)
        \/ Exists(c) /\ Change(c, [places[p] EXCEPT !.acquired = NoOne, !.allowed = {}])
        \/ Exists(c) /\ Await(c) /\ UNCHANGED <<places, recent>>
    BY <1>11 DEF ReleasePlace, Calling, LeftAlone
  <2>2. CASE Exists(c) /\ Await(c) /\ UNCHANGED <<places, recent>>
    BY <2>2 DEF Begun, Changed, Goal
  <2> QED BY <1>R, <1>2, <1>3, <2>1, <2>2, ChangePublishes DEF Goal
<1>13. CASE Acquired(c) \/ Released(c)
  <2>1. Exists(c)
    BY <1>0, <1>13 DEF Acquired, Released, Waiting
  <2>2. PICK v \in PlaceValues : Change(c, v)
    BY <1>3, <1>13, <2>1 DEF Acquired, Released
  <2> QED BY <1>2, <2>2, ChangePublishes DEF Goal
<1>14. CASE AcquireFails(c)
  <2>1. Exists(c)
    BY <1>0, <1>14 DEF AcquireFails, Waiting
  <2>2. PICK v \in PlaceValues : Fail(c) /\ Unpublished(With(places, p, v), p)
    BY <1>3, <1>14, <2>1 DEF AcquireFails
  <2> QED BY <2>2 DEF Failed, Changed, Goal
<1>15. CASE Raises(c)
  BY <1>R, <1>15 DEF Raises
<1>12. CASE AllowPlace(c)
  <2>0. cmd[c].arg \in Clients
    BY <1>4, <1>12 DEF AllowPlace, Calling
  <2> SUFFICES ASSUME Exists(c), places[p].acquired = c,
                      Change(c, [places[p] EXCEPT !.allowed = @ \cup {cmd[c].arg}])
               PROVE  Goal
    BY <1>R, <1>12 DEF AllowPlace
  <2>1. [places[p] EXCEPT !.allowed = @ \cup {cmd[c].arg}] \in PlaceValues
    BY <1>3, <2>0 DEF PlaceValues
  <2> QED BY <1>2, <2>1, ChangePublishes DEF Goal
<1> QED BY <1>5, <1>6, <1>8, <1>9, <1>10, <1>11, <1>12, <1>13, <1>14, <1>15 DEF Serve

\* A command of the client ends in a request.
LEMMA CommandCalls ==
    ASSUME NEW c \in Clients, NEW p \in Places, Command(c, p)
    PROVE  \E op \in Operations, arg \in Clients \cup {NoOne} :
             Call(c, p, op, arg) /\ (op = "AllowPlace" => arg \in Clients)
<1>1. CASE \E u \in Clients : release_from(c, p, u) \/ allow(c, p, u)
  <2>1. PICK u \in Clients : \/ Call(c, p, "ReleasePlace", u) \/ Call(c, p, "AllowPlace", u)
    BY <1>1 DEF release_from, allow
  <2>2. {"ReleasePlace", "AllowPlace"} \subseteq Operations
    BY DEF Operations
  <2> QED BY <2>1, <2>2
<1>2. CASE add_place(c, p) \/ del_place(c, p) \/ add_alias(c, p) \/ del_alias(c, p)
  <2>1. PICK op \in {"AddPlace", "DeletePlace", "AddPlaceAlias", "DeletePlaceAlias"} : Call(c, p, op, NoOne)
    BY <1>2 DEF add_place, del_place, add_alias, del_alias
  <2>2. op \in Operations /\ op # "AllowPlace"
    BY <2>1 DEF Operations
  <2> QED BY <2>1, <2>2
<1>3. CASE set_comment(c, p) \/ set_tags(c, p) \/ add_match(c, p) \/ add_named_match(c, p) \/ del_match(c, p)
  <2>1. PICK op \in {"SetPlaceComment", "SetPlaceTags", "AddPlaceMatch", "DeletePlaceMatch"} : Call(c, p, op, NoOne)
    BY <1>3 DEF set_comment, set_tags, add_match, add_named_match, del_match
  <2>2. op \in Operations /\ op # "AllowPlace"
    BY <2>1 DEF Operations
  <2> QED BY <2>1, <2>2
<1>4. CASE acquire(c, p) \/ release(c, p)
  <2>1. PICK op \in {"AcquirePlace", "ReleasePlace"} : Call(c, p, op, NoOne)
    BY <1>4 DEF acquire, release
  <2>2. op \in Operations /\ op # "AllowPlace"
    BY <2>1 DEF Operations
  <2> QED BY <2>1, <2>2
<1> QED BY <1>1, <1>2, <1>3, <1>4 DEF Command

-----------------------------------------------------------------------------
\* What is put into the queues has the type of their messages.
LEMMA PutTypes ==
    ASSUME TypeOK, NEW msg \in Message
    PROVE  Put(msg) \in [Clients -> Seq(Message)]
<1>1. \A c \in Clients : out[c] \in Seq(Message)
  BY DEF TypeOK
<1> QED BY <1>1, AppendAt DEF Put

\* What a client is at when it executes no command.
LEMMA IdleTypes ==
    /\ Idle \in CommandStates
    /\ \A x \in Phases : [Idle EXCEPT !.phase = x] \in CommandStates
    /\ \A x \in Phases, y \in CommandStates : [y EXCEPT !.phase = x] \in CommandStates
<1>1. Idle \in CommandStates
  BY DEF Idle, CommandStates, Phases, Operations
<1>2. ASSUME NEW x \in Phases, NEW y \in CommandStates PROVE [y EXCEPT !.phase = x] \in CommandStates
  BY DEF CommandStates
<1> QED BY <1>1, <1>2

\* What is spent of the bounds stays within them.
LEMMA SpentTypes ==
    ASSUME TypeOK, SpendStart \/ SpendEvent \/ spent' = spent
    PROVE  spent' \in [events : 0..MaxEvents, starts : 0..MaxStarts] /\ spent'.events \in 0..MaxEvents
<1>1. spent \in [events : 0..MaxEvents, starts : 0..MaxStarts]
  BY DEF TypeOK
<1>2. spent.events \in 0..MaxEvents /\ spent.starts \in 0..MaxStarts
  BY <1>1
<1>3. CASE SpendStart
  <2>1. spent.starts + 1 \in 0..MaxStarts
    BY <1>2, <1>3, PublishingAssumption DEF SpendStart
  <2>2. spent' = [spent EXCEPT !.starts = spent.starts + 1]
    BY <1>3 DEF SpendStart
  <2> QED BY <1>1, <2>1, <2>2
<1>4. CASE SpendEvent
  <2>1. spent.events + 1 \in 0..MaxEvents
    BY <1>2, <1>4, PublishingAssumption DEF SpendEvent
  <2>2. spent' = [spent EXCEPT !.events = spent.events + 1]
    BY <1>4 DEF SpendEvent
  <2> QED BY <1>1, <2>1, <2>2
<1> QED BY <1>1, <1>3, <1>4

\* Well-typedness.
LEMMA ClientTypes ==
    ASSUME IInv, NEW c \in Clients,
           \/ Start(c) \/ Stop(c) \/ Sync(c) \/ RpcLost(c) \/ StreamBreaks(c)
           \/ \E p \in Places : Command(c, p)
    PROVE  TypeOK'
<1>1. TypeOK
  BY DEF IInv
<1>2. CASE Start(c)
  <2>1. spent' \in [events : 0..MaxEvents, starts : 0..MaxStarts]
    BY <1>1, <1>2, SpentTypes DEF Start
  <2>2. <<"startup", "places", "resources", "sync">> \in Seq(Kinds)
    BY DEF Kinds
  <2>3. UNCHANGED <<coordinator, since>>
    BY <1>2 DEF Start
  <2>4. /\ in' \in [Clients -> Seq(Kinds)]
        /\ out' \in [Clients -> Seq(Message)]
        /\ pump' \in [Clients -> {"off", "running", "dead"}]
    BY <1>1, <1>2, <2>2 DEF TypeOK, Start
  <2>5. /\ copy' \in [Clients -> SomePlaces] /\ known' \in [Clients -> States \cup {-1}]
    BY <1>1, <1>2, PlacesMade, PublishingAssumption DEF TypeOK, Start, States
  <2>6. cmd' \in [Clients -> CommandStates]
    BY <1>1, <1>2, IdleTypes DEF TypeOK, Start, Phases
  <2> QED BY <1>1, <2>1, <2>3, <2>4, <2>5, <2>6 DEF TypeOK, coordinator, service
<1>3. CASE Stop(c)
  <2>1. /\ UNCHANGED <<up, places, resource, adding, recent, spent>> /\ session' \subseteq Clients
        /\ lock' \in Clients \cup {NoOne}
    BY <1>1, <1>3 DEF TypeOK, Stop
  <2>2. /\ in' \in [Clients -> Seq(Kinds)]
        /\ out' \in [Clients -> Seq(Message)]
        /\ pump' \in [Clients -> {"off", "running", "dead"}]
        /\ since' \in [Clients -> SUBSET SUBSET PlaceValues]
    BY <1>1, <1>3 DEF TypeOK, Stop
  <2>3. copy' \in [Clients -> SomePlaces] /\ known' \in [Clients -> States \cup {-1}]
    BY <1>1, <1>3, PlacesMade, PublishingAssumption DEF TypeOK, Stop, States
  <2>4. cmd' \in [Clients -> CommandStates]
    BY <1>1, <1>3, IdleTypes DEF TypeOK, Stop
  <2> QED BY <1>1, <2>1, <2>2, <2>3, <2>4 DEF TypeOK
<1>4. CASE Sync(c)
  <2>1. in' \in [Clients -> Seq(Kinds)]
    BY <1>1, <1>4 DEF TypeOK, Sync, Kinds
  <2>2. cmd' \in [Clients -> CommandStates]
    <3>1. [cmd[c] EXCEPT !.phase = "syncing"] \in CommandStates
      BY <1>1, IdleTypes DEF TypeOK, Phases
    <3> QED BY <1>1, <1>4, <3>1 DEF TypeOK, Sync
  <2>3. UNCHANGED <<coordinator, out, pump, copy, known, spent, since>>
    BY <1>4 DEF Sync
  <2> QED BY <1>1, <2>1, <2>2, <2>3 DEF TypeOK, coordinator, service
<1>5. CASE RpcLost(c)
  <2>1. cmd' \in [Clients -> CommandStates]
    BY <1>1, <1>5, IdleTypes DEF TypeOK, RpcLost, Phases
  <2>2. since' \in [Clients -> SUBSET SUBSET PlaceValues]
    BY <1>1, <1>5 DEF TypeOK, RpcLost
  <2>3. UNCHANGED <<coordinator, in, out, pump, copy, known, spent>>
    BY <1>5 DEF RpcLost
  <2> QED BY <1>1, <2>1, <2>2, <2>3 DEF TypeOK, coordinator, service
<1>6. CASE StreamBreaks(c)
  <2>1. Wake(c) \in CommandStates
    <3>1. cmd[c] \in CommandStates
      BY <1>1 DEF TypeOK
    <3> QED BY <3>1, IdleTypes DEF Wake, Phases
  <2>2. /\ in' \in [Clients -> Seq(Kinds)]
        /\ pump' \in [Clients -> {"off", "running", "dead"}]
    BY <1>1, <1>6 DEF TypeOK, StreamBreaks, Ends
  <2>3. cmd' \in [Clients -> CommandStates]
    BY <1>1, <1>6, <2>1 DEF TypeOK, StreamBreaks
  <2>4. UNCHANGED <<coordinator, out, copy, known, spent, since>>
    BY <1>6 DEF StreamBreaks
  <2> QED BY <1>1, <2>2, <2>3, <2>4 DEF TypeOK, coordinator, service
<1>7. CASE \E p \in Places : Command(c, p)
  <2>1. PICK p \in Places, op \in Operations, arg \in Clients \cup {NoOne} : Call(c, p, op, arg)
    BY <1>7, CommandCalls
  <2>2. spent' \in [events : 0..MaxEvents, starts : 0..MaxStarts]
    BY <1>1, <2>1, SpentTypes DEF Call
  <2>3. cmd' \in [Clients -> CommandStates]
    <3>1. [phase |-> "calling", op |-> op, place |-> p, arg |-> arg] \in CommandStates
      BY <2>1 DEF CommandStates, Phases
    <3> QED BY <1>1, <2>1, <3>1 DEF TypeOK, Call
  <2>4. UNCHANGED <<coordinator, in, out, pump, copy, known, since>>
    BY <2>1 DEF Call
  <2> QED BY <1>1, <2>2, <2>3, <2>4 DEF TypeOK, coordinator, service
<1> QED BY <1>2, <1>3, <1>4, <1>5, <1>6, <1>7

\* What the coordinator does with the first message of a stream.
LEMMA AnswerFacts ==
    ASSUME IInv, NEW c \in Clients, ClientStream(c)
    PROVE  /\ up /\ in[c] # <<>> /\ Connected(c) /\ in' = [in EXCEPT ![c] = Tail(@)]
           /\ UNCHANGED <<service, client, spent, since>>
           /\ \E msg \in Message :
                /\ out' \in {out, [out EXCEPT ![c] = Append(@, msg)]}
                /\ session' \in {session, session \cup {c}}
                /\ \/ /\ Head(in[c]) = "startup"
                      /\ session' = session \cup {c} /\ out' = out
                   \/ /\ session' = session /\ out' = [out EXCEPT ![c] = Append(@, msg)]
                      /\ \/ /\ Head(in[c]) = "places"
                            /\ msg.set = places /\ msg.del = {} /\ msg.res = {} /\ ~msg.sync
                         \/ /\ Head(in[c]) = "resources"
                            /\ msg.set = Empty /\ msg.del = {} /\ ~msg.sync
                            /\ msg.res = IF resource = 0 THEN {} ELSE {resource}
                         \/ /\ Head(in[c]) = "sync"
                            /\ msg.set = Empty /\ msg.del = {} /\ msg.res = {} /\ msg.sync
<1>1. TypeOK /\ in[c] \in Seq(Kinds)
  BY DEF IInv, ClientInv, TypeOK
<1>2. /\ up /\ in[c] # <<>> /\ Connected(c) /\ in' = [in EXCEPT ![c] = Tail(@)]
      /\ UNCHANGED <<service, client, spent, since>>
  BY DEF ClientStream
<1>3. Head(in[c]) \in Kinds
  BY <1>1, <1>2, TailAt
<1>4. /\ Nothing.set = Empty /\ Nothing.del = {} /\ Nothing.res = {} /\ Nothing.sync = FALSE
      /\ Nothing \in Message
  BY PlacesMade DEF Nothing
<1>5. CASE Head(in[c]) = "startup"
  BY <1>2, <1>4, <1>5 DEF ClientStream
<1>6. CASE Head(in[c]) = "places"
  <2> DEFINE msg == [Nothing EXCEPT !.set = places]
  <2>1. msg.set = places /\ msg.del = {} /\ msg.res = {} /\ msg.sync = FALSE /\ msg \in Message
    BY <1>1, <1>4 DEF Message, Nothing, TypeOK
  <2>2. session' = session /\ out' = [out EXCEPT ![c] = Append(@, msg)]
    BY <1>6 DEF ClientStream
  <2> HIDE DEF msg
  <2> QED BY <1>2, <1>6, <2>1, <2>2
<1>7. CASE Head(in[c]) = "resources"
  <2> DEFINE msg == [Nothing EXCEPT !.res = IF resource = 0 THEN {} ELSE {resource}]
  <2>1. /\ msg.set = Empty /\ msg.del = {} /\ msg.res = (IF resource = 0 THEN {} ELSE {resource})
        /\ msg.sync = FALSE /\ msg \in Message
    BY <1>1, <1>4 DEF Message, Nothing, TypeOK
  <2>2. session' = session /\ out' = [out EXCEPT ![c] = Append(@, msg)]
    BY <1>7 DEF ClientStream
  <2> HIDE DEF msg
  <2> QED BY <1>2, <1>7, <2>1, <2>2
<1>8. CASE Head(in[c]) = "sync"
  <2> DEFINE msg == [Nothing EXCEPT !.sync = TRUE]
  <2>1. /\ msg.set = Empty /\ msg.del = {} /\ msg.res = {} /\ msg.sync = TRUE /\ msg \in Message
    BY <1>1, <1>4 DEF Message, Nothing, TypeOK
  <2>2. session' = session /\ out' = [out EXCEPT ![c] = Append(@, msg)]
    BY <1>8 DEF ClientStream
  <2> HIDE DEF msg
  <2> QED BY <1>2, <1>8, <2>1, <2>2
<1> QED BY <1>3, <1>5, <1>6, <1>7, <1>8 DEF Kinds

\* What exporters make the coordinator publish.
LEMMA ResourceMessages ==
    ASSUME TypeOK
    PROVE  /\ \A group : SetResource(group) => \E msg \in Message :
                /\ msg.res = {resource'} /\ msg.set = Empty /\ msg.del = {} /\ ~msg.sync
                /\ out' = Put(msg) /\ resource' \in States \ {0}
           /\ ExporterLeaves => \E msg \in Message :
                /\ msg.res = {0} /\ msg.set = Empty /\ msg.del = {} /\ ~msg.sync /\ out' = Put(msg)
<1>1. /\ Nothing.set = Empty /\ Nothing.del = {} /\ Nothing.res = {} /\ Nothing.sync = FALSE
      /\ Nothing \in Message
  BY PlacesMade DEF Nothing
<1>2. ASSUME NEW r \in States
      PROVE  LET msg == [Nothing EXCEPT !.res = {r}]
             IN  msg.res = {r} /\ msg.set = Empty /\ msg.del = {} /\ msg.sync = FALSE /\ msg \in Message
  BY <1>1 DEF Message, Nothing
<1>3. ASSUME NEW group, SetResource(group)
      PROVE  resource' \in States \ {0} /\ out' = Put([Nothing EXCEPT !.res = {resource'}])
  <2>1. spent'.events \in 0..MaxEvents
    BY <1>3, SpentTypes DEF SetResource
  <2>2. resource' = spent'.events + 1 /\ out' = Put([Nothing EXCEPT !.res = {resource'}])
    BY <1>3 DEF SetResource
  <2> QED BY <2>1, <2>2, PublishingAssumption DEF States
<1>4. ASSUME ExporterLeaves PROVE 0 \in States /\ out' = Put([Nothing EXCEPT !.res = {0}])
  BY <1>4, PublishingAssumption DEF ExporterLeaves, States
<1> QED BY <1>2, <1>3, <1>4

\* Well-typedness, where an RPC is served.
LEMMA ServeTypes ==
    ASSUME IInv, NEW c \in Clients, Serve(c)
    PROVE  TypeOK'
<1>1. TypeOK /\ cmd[c] \in CommandStates
  BY DEF IInv, ClientInv, TypeOK
<1>0. Place(c) \in Places /\ Recorded
  BY ServeFacts DEF IInv
<1>2. CASE Failed(c)
  <2>1. cmd' \in [Clients -> CommandStates]
    BY <1>1, <1>2, IdleTypes DEF TypeOK, Failed, Fail, Phases
  <2>2. /\ lock' = NoOne
        /\ UNCHANGED <<up, resource, session, adding, in, out, pump, copy, known, spent, since>>
    BY <1>2 DEF Failed, Fail
  <2>3. places' \in SomePlaces /\ recent' \in [Places -> SUBSET SUBSET PlaceValues]
    BY <1>0, <1>1, <1>2, ChangedFacts DEF Failed
  <2> QED BY <1>1, <2>1, <2>2, <2>3 DEF TypeOK
<1>6. CASE Begun(c)
  <2>1. /\ lock' = c
        /\ UNCHANGED <<up, resource, session, adding, client, in, out, spent, since>>
    BY <1>6 DEF Begun, Await
  <2>2. places' \in SomePlaces /\ recent' \in [Places -> SUBSET SUBSET PlaceValues]
    BY <1>0, <1>1, <1>6, ChangedFacts DEF Begun
  <2> QED BY <1>1, <2>1, <2>2 DEF TypeOK, client
<1>3. [cmd[c] EXCEPT !.phase = "answered"] \in CommandStates
  BY <1>1, IdleTypes DEF Phases
<1>4. CASE LeftAlone(c)
  <2>1. cmd' \in [Clients -> CommandStates]
    BY <1>1, <1>3, <1>4 DEF TypeOK, LeftAlone
  <2>2. recent[Place(c)] \in SUBSET SUBSET PlaceValues
    BY <1>0, <1>1 DEF TypeOK
  <2>3. since' \in [Clients -> SUBSET SUBSET PlaceValues]
    BY <1>1, <1>4, <2>2 DEF TypeOK, LeftAlone
  <2>4. UNCHANGED <<coordinator, in, out, pump, copy, known, spent>>
    BY <1>4 DEF LeftAlone
  <2> QED BY <1>1, <2>1, <2>3, <2>4 DEF TypeOK, coordinator, service
<1>5. ASSUME NEW new, NEW msg, Published(c, new, msg) PROVE TypeOK'
  <2>1. /\ new \in SomePlaces /\ msg \in Message /\ places' = new /\ out' = Put(msg)
        /\ cmd' = [cmd EXCEPT ![c].phase = "answered"]
        /\ since' = Since(new, c, Place(c)) /\ lock' = NoOne
        /\ recent' = [recent EXCEPT ![Place(c)] = {Value(new, Place(c))}]
        /\ UNCHANGED <<up, resource, session, adding, in, pump, copy, known, spent>>
    BY <1>5 DEF Published, Done
  <2>2. out' \in [Clients -> Seq(Message)]
    BY <1>1, <2>1, PutTypes
  <2>3. cmd' \in [Clients -> CommandStates]
    BY <1>1, <1>3, <2>1 DEF TypeOK
  <2>4. since' \in [Clients -> SUBSET SUBSET PlaceValues]
    <3>1. Value(new, Place(c)) \in SUBSET PlaceValues
      BY <2>1, PlacesMade
    <3>2. \A d \in Clients : since[d] \in SUBSET SUBSET PlaceValues
      BY <1>1 DEF TypeOK
    <3> QED BY <2>1, <3>1, <3>2 DEF Since
  <2>5. recent' \in [Places -> SUBSET SUBSET PlaceValues]
    <3>1. Value(new, Place(c)) \in SUBSET PlaceValues
      BY <2>1, PlacesMade
    <3> QED BY <1>1, <2>1, <3>1 DEF TypeOK
  <2> QED BY <1>1, <2>1, <2>2, <2>3, <2>4, <2>5 DEF TypeOK
<1> QED BY <1>2, <1>4, <1>5, <1>6, ServeFacts

\* Well-typedness, at both ends of a stream.
LEMMA StreamTypes ==
    ASSUME IInv, NEW c \in Clients, Receive(c) \/ ClientStream(c)
    PROVE  TypeOK'
<1>1. /\ TypeOK /\ in[c] \in Seq(Kinds) /\ out[c] \in Seq(Message) /\ cmd[c] \in CommandStates
      /\ copy[c] \in SomePlaces /\ known[c] \in States \cup {-1} /\ OneState(c)
  BY DEF IInv, ClientInv, TypeOK
<1>2. CASE Receive(c) /\ Head(out[c]).del \subseteq DOMAIN copy[c]
  <2> DEFINE msg == Head(out[c])
  <2>1. /\ copy' = [copy EXCEPT ![c] = Apply(@, msg)]
        /\ known' = [known EXCEPT ![c] = ApplyResource(@, msg)]
        /\ cmd' = [cmd EXCEPT ![c] = IF msg.sync THEN [Idle EXCEPT !.phase = "idle"] ELSE @]
        /\ since' = [since EXCEPT ![c] = IF msg.sync THEN {} ELSE @]
        /\ out' = [out EXCEPT ![c] = Tail(@)] /\ out[c] # <<>>
        /\ UNCHANGED <<service, spent, session, pump, in>>
    BY <1>2 DEF Receive
  <2>2. msg \in Message /\ Tail(out[c]) \in Seq(Message) /\ msg = out[c][1] /\ 1 \in 1..Len(out[c])
    BY <1>1, <2>1, TailAt
  <2>3. PICK r \in States : msg.res \subseteq {r}
    BY <1>1, <2>2 DEF OneState
  <2>4. Apply(copy[c], msg) \in SomePlaces
    <3>1. PICK D \in SUBSET Places : copy[c] \in [D -> PlaceValues]
      BY <1>1 DEF SomePlaces
    <3>2. PICK E \in SUBSET Places : msg.set \in [E -> PlaceValues]
      BY <2>2 DEF Message, SomePlaces
    <3>3. Apply(copy[c], msg) \in [(D \cup E) \ msg.del -> PlaceValues] /\ (D \cup E) \ msg.del \in SUBSET Places
      BY <3>1, <3>2 DEF Apply
    <3> QED BY <3>3 DEF SomePlaces
  <2>5. ApplyResource(known[c], msg) \in States \cup {-1}
    BY <1>1, <2>3, ApplyResourceTells
  <2> HIDE DEF msg
  <2>6. cmd' \in [Clients -> CommandStates]
    BY <1>1, <2>1, IdleTypes DEF TypeOK, Phases
  <2>7. /\ copy' \in [Clients -> SomePlaces] /\ known' \in [Clients -> States \cup {-1}]
        /\ out' \in [Clients -> Seq(Message)]
        /\ since' \in [Clients -> SUBSET SUBSET PlaceValues]
    BY <1>1, <2>1, <2>2, <2>4, <2>5 DEF TypeOK
  <2> QED BY <1>1, <2>1, <2>6, <2>7 DEF TypeOK, service
<1>3. CASE Receive(c) /\ ~(Head(out[c]).del \subseteq DOMAIN copy[c])
  <2>1. /\ pump' = [pump EXCEPT ![c] = Ends(c)]
        /\ cmd' = [cmd EXCEPT ![c] = Wake(c)]
        /\ session' = IF Ends(c) = "off" THEN session \ {c} ELSE session
        /\ in' = [in EXCEPT ![c] = <<>>] /\ out' = [out EXCEPT ![c] = <<>>]
        /\ UNCHANGED <<copy, known, since, service, spent>>
    BY <1>3 DEF Receive
  <2>2. Wake(c) \in CommandStates /\ Ends(c) \in {"off", "running", "dead"}
    BY <1>1, IdleTypes DEF Wake, Phases, Ends
  <2>3. /\ in' \in [Clients -> Seq(Kinds)] /\ out' \in [Clients -> Seq(Message)]
        /\ pump' \in [Clients -> {"off", "running", "dead"}]
        /\ cmd' \in [Clients -> CommandStates]
    BY <1>1, <2>1, <2>2 DEF TypeOK
  <2>4. session' \subseteq Clients
    BY <1>1, <2>1 DEF TypeOK
  <2> QED BY <1>1, <2>1, <2>3, <2>4 DEF TypeOK, service
<1>4. CASE ClientStream(c)
  <2>1. PICK msg \in Message :
          /\ out' \in {out, [out EXCEPT ![c] = Append(@, msg)]}
          /\ session' \in {session, session \cup {c}}
          /\ in' = [in EXCEPT ![c] = Tail(@)] /\ in[c] # <<>>
          /\ UNCHANGED <<service, client, spent, since>>
    BY <1>4, AnswerFacts
  <2>2. Tail(in[c]) \in Seq(Kinds) /\ Append(out[c], msg) \in Seq(Message)
    BY <1>1, <2>1
  <2> DEFINE rest == Tail(in[c])
             more == Append(out[c], msg)
  <2> HIDE DEF rest, more
  <2>3. in' = [in EXCEPT ![c] = rest] /\ out' \in {out, [out EXCEPT ![c] = more]}
    BY <2>1 DEF rest, more
  <2>5. rest \in Seq(Kinds) /\ more \in Seq(Message)
    BY <2>2 DEF rest, more
  <2>6. in' \in [Clients -> Seq(Kinds)]
    BY <1>1, <2>3, <2>5 DEF TypeOK
  <2>7. out' \in [Clients -> Seq(Message)]
    BY <1>1, <2>3, <2>5 DEF TypeOK
  <2>8. session' \subseteq Clients
    BY <1>1, <2>1 DEF TypeOK
  <2> QED BY <1>1, <2>1, <2>6, <2>7, <2>8 DEF TypeOK, client, service
<1> QED BY <1>2, <1>3, <1>4

\* Well-typedness, when the resource or the coordinator comes or goes.
LEMMA OtherTypes ==
    ASSUME IInv, \/ \E group \in Places : SetResource(group)
                 \/ AddsDefaultPlace \/ ExporterLeaves \/ ExporterLost \/ Crash \/ Restart
    PROVE  TypeOK'
<1>1. TypeOK /\ Recorded
  BY DEF IInv
<1>2. ASSUME NEW group \in Places, SetResource(group) PROVE TypeOK'
  <2>1. PICK msg \in Message : /\ msg.res = {resource'} /\ msg.set = Empty /\ msg.del = {} /\ ~msg.sync
                               /\ out' = Put(msg) /\ resource' \in States \ {0}
    BY <1>1, <1>2, ResourceMessages
  <2>2. /\ spent' \in [events : 0..MaxEvents, starts : 0..MaxStarts]
        /\ UNCHANGED <<up, lock, session, client, in, since>>
        /\ adding' \in {adding, group}
    BY <1>1, <1>2, SpentTypes DEF SetResource
  <2>3. out' \in [Clients -> Seq(Message)]
    BY <1>1, <2>1, PutTypes
  <2>4. Changed(group)
    BY <1>2, PlacesMade DEF SetResource, AddDefaultPlace, Changed
  <2>5. places' \in SomePlaces /\ recent' \in [Places -> SUBSET SUBSET PlaceValues]
    BY <1>1, <2>4, ChangedFacts
  <2> QED BY <1>1, <2>1, <2>2, <2>3, <2>5 DEF TypeOK, client
<1>3. CASE ExporterLeaves
  <2>1. PICK msg \in Message : msg.res = {0} /\ msg.set = Empty /\ msg.del = {} /\ ~msg.sync /\ out' = Put(msg)
    BY <1>1, <1>3, ResourceMessages
  <2>2. /\ resource' = 0
        /\ UNCHANGED <<up, places, lock, adding, recent, session, client, in, spent, since>>
    BY <1>1, <1>3 DEF ExporterLeaves
  <2>3. out' \in [Clients -> Seq(Message)] /\ 0 \in States
    BY <1>1, <2>1, PutTypes, PublishingAssumption DEF States
  <2> QED BY <1>1, <2>2, <2>3 DEF TypeOK, client
<1>4. CASE Crash
  <2>1. /\ spent' \in [events : 0..MaxEvents, starts : 0..MaxStarts] /\ resource' = 0 /\ up' = FALSE
        /\ session' = {} /\ lock' = NoOne /\ adding' = "none" /\ UNCHANGED <<places, recent, client, since>>
    BY <1>1, <1>4, SpentTypes DEF Crash
  <2>2. ASSUME NEW S PROVE [c \in Clients |-> <<>>] \in [Clients -> Seq(S)]
    OBVIOUS
  <2>3. in' = [c \in Clients |-> <<>>] /\ out' = [c \in Clients |-> <<>>]
    BY <1>4 DEF Crash
  <2>4. 0 \in States
    BY PublishingAssumption DEF States
  <2>5. in' \in [Clients -> Seq(Kinds)] /\ out' \in [Clients -> Seq(Message)]
    BY <2>2, <2>3
  <2> QED BY <1>1, <2>1, <2>4, <2>5 DEF TypeOK, client
<1>5. CASE Restart
  <2>1. places' \in SomePlaces /\ up' = TRUE /\ recent' = [p \in Places |-> {Value(places', p)}]
    BY <1>1, <1>5, PlacesMade DEF Restart, TypeOK
  <2>2. UNCHANGED <<resource, lock, adding, session, client, in, out, spent, since>>
    BY <1>5 DEF Restart
  <2>3. \A p \in Places : {Value(places', p)} \in SUBSET SUBSET PlaceValues
    BY <2>1, PlacesMade
  <2>4. recent' \in [Places -> SUBSET SUBSET PlaceValues]
    BY <2>1, <2>3
  <2> QED BY <1>1, <2>1, <2>2, <2>4 DEF TypeOK, client
<1>6. CASE AddsDefaultPlace
  <2>1. /\ adding \in Places /\ adding' = "none"
        /\ UNCHANGED <<up, resource, lock, session, client, in, out, spent, since>>
    BY <1>6 DEF AddsDefaultPlace
  <2>2. Changed(adding)
    BY <1>6, PlacesMade DEF AddsDefaultPlace, AddDefaultPlace, Changed
  <2>3. places' \in SomePlaces /\ recent' \in [Places -> SUBSET SUBSET PlaceValues]
    BY <1>1, <2>1, <2>2, ChangedFacts
  <2> QED BY <1>1, <2>1, <2>3 DEF TypeOK, client
<1>7. CASE ExporterLost
  BY <1>1, <1>7 DEF ExporterLost, TypeOK, client
<1> QED BY <1>2, <1>3, <1>4, <1>5, <1>6, <1>7

-----------------------------------------------------------------------------
\* What one client does is nothing to another.
LEMMA OthersUntouched ==
    ASSUME IInv, NEW c \in Clients, NEW d \in Clients, d # c,
           \/ Start(c) \/ Stop(c) \/ Sync(c) \/ RpcLost(c) \/ StreamBreaks(c) \/ Receive(c)
           \/ ClientStream(c) \/ LeftAlone(c) \/ (Place(c) \in Places /\ Failed(c))
           \/ \E p \in Places : Command(c, p)
    PROVE  ClientInv(d)'
<1> DEFINE Same == /\ in'[d] = in[d] /\ out'[d] = out[d] /\ pump'[d] = pump[d]
                   /\ copy'[d] = copy[d] /\ known'[d] = known[d]
                   /\ cmd'[d] = cmd[d] /\ since'[d] = since[d]
                   /\ d \in session' <=> d \in session
                   /\ Quietly /\ resource' = resource
<1>0. UNCHANGED <<places, recent>> => Quietly
  BY DEF Quietly
<1>1. TypeOK /\ Recorded
  BY DEF IInv
<1> SUFFICES Same
  <2> HIDE DEF Same
  <2> SUFFICES ASSUME Same PROVE OneState(d)' /\ Life(d)' /\ Syncs(d)' /\ Exact(d)' /\ OwnChange(d)'
    BY DEF ClientInv
  <2> QED BY Untouched DEF Same
<1>2. CASE Start(c)
  BY <1>0, <1>1, <1>2 DEF TypeOK, Start, coordinator, service
<1>3. CASE Stop(c)
  BY <1>0, <1>1, <1>3 DEF TypeOK, Stop
<1>4. CASE Sync(c)
  BY <1>0, <1>1, <1>4 DEF TypeOK, Sync, coordinator, service
<1>5. CASE RpcLost(c) \/ StreamBreaks(c)
  BY <1>0, <1>1, <1>5 DEF TypeOK, RpcLost, StreamBreaks, coordinator, service
<1>6. CASE Receive(c)
  BY <1>0, <1>1, <1>6 DEF TypeOK, Receive, service
<1>7. CASE ClientStream(c)
  <2>1. PICK msg \in Message :
          /\ out' \in {out, [out EXCEPT ![c] = Append(@, msg)]}
          /\ session' \in {session, session \cup {c}}
          /\ in' = [in EXCEPT ![c] = Tail(@)]
          /\ UNCHANGED <<service, client, spent, since>>
    BY <1>7, AnswerFacts
  <2> QED BY <1>0, <1>1, <2>1 DEF TypeOK, client, service
<1>8. CASE LeftAlone(c)
  BY <1>0, <1>1, <1>8 DEF TypeOK, LeftAlone, coordinator, service
<1>10. CASE Place(c) \in Places /\ Failed(c)
  <2>1. Quietly
    BY <1>1, <1>10, ChangedFacts DEF Failed
  <2> QED BY <1>1, <1>10, <2>1 DEF TypeOK, Failed, Fail
<1>9. CASE \E p \in Places : Command(c, p)
  <2>1. PICK p, op, arg : Call(c, p, op, arg)
    BY <1>9, CommandCalls
  <2> QED BY <1>0, <1>1, <2>1 DEF TypeOK, Call, coordinator, service
<1> QED BY <1>2, <1>3, <1>4, <1>5, <1>6, <1>7, <1>8, <1>9, <1>10

\* A client that the coordinator does not know has nothing to rely on yet.
LEMMA Unserved ==
    ASSUME NEW c \in Clients, ~Served(c)', Life(c)', OneState(c)'
    PROVE  ClientInv(c)'
BY DEF ClientInv, Syncs, Exact, OwnChange

\* start(): the coordinator does not know the client yet.
LEMMA StartKeeps ==
    ASSUME IInv, NEW c \in Clients, Start(c)
    PROVE  ClientInv(c)'
<1>1. /\ TypeOK /\ Life(c)
      /\ cmd[c].phase = "off" /\ session' = session
      /\ pump' = [pump EXCEPT ![c] = "running"]
      /\ copy' = [copy EXCEPT ![c] = Empty] /\ known' = [known EXCEPT ![c] = 0]
      /\ cmd' = [cmd EXCEPT ![c] = [Idle EXCEPT !.phase = "starting"]]
      /\ in' = [in EXCEPT ![c] = Startup]
      /\ out' = [out EXCEPT ![c] = <<>>]
  BY DEF IInv, ClientInv, Start, coordinator, service, Startup
<1>2. /\ pump'[c] = "running" /\ copy'[c] = Empty /\ known'[c] = 0
      /\ cmd'[c].phase = "starting" /\ in'[c] = Startup /\ out'[c] = <<>>
  BY <1>1 DEF TypeOK, Idle
<1>3. c \notin session'
  BY <1>1 DEF Life
<1>4. Life(c)'
  BY <1>2, <1>3 DEF Life
<1>5. OneState(c)'
  BY <1>2 DEF OneState
<1>6. ~Served(c)'
  BY <1>3 DEF Served
<1> QED BY <1>4, <1>5, <1>6, Unserved

\* stop() and close(): it does not know it any more.
LEMMA StopKeeps ==
    ASSUME IInv, NEW c \in Clients, Stop(c)
    PROVE  ClientInv(c)'
<1>1. /\ pump'[c] = "off" /\ cmd'[c].phase = "off" /\ c \notin session'
      /\ in'[c] = <<>> /\ out'[c] = <<>>
  BY DEF IInv, TypeOK, Stop, Idle
<1>2. Life(c)'
  BY <1>1 DEF Life
<1>3. OneState(c)'
  BY <1>1 DEF OneState
<1>4. ~Served(c)'
  BY <1>1 DEF Served
<1> QED BY <1>2, <1>3, <1>4, Unserved

\* The end of the stream is noticed.
LEMMA BreakKeeps ==
    ASSUME IInv, NEW c \in Clients, StreamBreaks(c)
    PROVE  ClientInv(c)'
<1>1. /\ Life(c) /\ OneState(c)
      /\ pump[c] = "running" /\ c \notin session /\ session' = session /\ out' = out
      /\ pump'[c] = Ends(c) /\ cmd'[c] = Wake(c) /\ in'[c] = <<>>
  BY DEF IInv, ClientInv, TypeOK, StreamBreaks, Connected, coordinator, service
<1>2. /\ cmd'[c].phase = "off" <=> pump'[c] = "off"
      /\ cmd'[c].phase # "starting"
      /\ cmd'[c].phase \notin {"off", "starting", "idle"} => cmd'[c] = cmd[c]
  BY <1>1 DEF Life, Ends, Wake, Idle
<1>3. Life(c)'
  BY <1>1, <1>2 DEF Life
<1>4. OneState(c)'
  BY <1>1 DEF OneState
<1>5. ~Served(c)'
  BY <1>1 DEF Served
<1> QED BY <1>3, <1>4, <1>5, Unserved

\* A client that waits for nothing, before and after, and has no change to see.
LEMMA IdleKeeps ==
    ASSUME IInv, NEW c \in Clients,
           in'[c] = in[c], out'[c] = out[c], pump'[c] = pump[c], copy'[c] = copy[c], known'[c] = known[c],
           Quietly, UNCHANGED <<resource, session>>,
           cmd[c].phase \in {"idle", "calling", "answered"}, cmd'[c].phase \in {"idle", "calling"},
           cmd'[c].phase = "calling" =>
              cmd'[c].place \in Places /\ (cmd'[c].op = "AllowPlace" => cmd'[c].arg \in Clients)
    PROVE  ClientInv(c)'
<1>1. /\ OneState(c) /\ Life(c) /\ Syncs(c) /\ Exact(c)
  BY DEF IInv, ClientInv
<1>2. OneState(c)' /\ Exact(c)'
  BY Untouched
<1>3. Life(c)'
  BY <1>1 DEF Life
<1>4. Syncs(c)'
  <2>1. ~Waits(c) /\ ~Waits(c)' /\ cmd'[c].phase \notin {"starting", "syncing"}
    BY DEF Waits
  <2>2. NoSync(c)' <=> NoSync(c)
    BY DEF NoSync
  <2>3. Served(c)' <=> Served(c)
    BY DEF Served
  <2> QED BY <1>1, <2>1, <2>2, <2>3 DEF Syncs
<1>5. OwnChange(c)'
  BY DEF OwnChange, Changing
<1> QED BY <1>2, <1>3, <1>4, <1>5 DEF ClientInv

\* A command sends its request.
LEMMA CommandKeeps ==
    ASSUME IInv, NEW c \in Clients, NEW p \in Places, Command(c, p)
    PROVE  ClientInv(c)'
<1>1. PICK op \in Operations, arg \in Clients \cup {NoOne} :
        Call(c, p, op, arg) /\ (op = "AllowPlace" => arg \in Clients)
  BY CommandCalls
<1>2. /\ cmd[c].phase = "idle"
      /\ cmd' = [cmd EXCEPT ![c] = [phase |-> "calling", op |-> op, place |-> p, arg |-> arg]]
      /\ UNCHANGED <<coordinator, in, out, pump, copy, known>>
  BY <1>1 DEF Call
<1>3. cmd'[c] = [phase |-> "calling", op |-> op, place |-> p, arg |-> arg]
  BY <1>2 DEF IInv, TypeOK
<1> QED BY <1>1, <1>2, <1>3, IdleKeeps DEF coordinator, service, Quietly

\* The request is refused, or lost.
LEMMA RefuseKeeps ==
    ASSUME IInv, NEW c \in Clients,
           RpcLost(c) \/ (cmd[c].phase = "calling" /\ Place(c) \in Places /\ Failed(c))
    PROVE  ClientInv(c)'
<1>1. CASE RpcLost(c)
  <2>1. /\ cmd[c].phase \in {"calling", "answered"}
        /\ cmd' = [cmd EXCEPT ![c] = [Idle EXCEPT !.phase = "idle"]]
        /\ UNCHANGED <<coordinator, in, out, pump, copy, known>>
    BY <1>1 DEF RpcLost
  <2>2. cmd'[c].phase = "idle" /\ Quietly
    BY <2>1 DEF IInv, TypeOK, Idle, Quietly, coordinator, service
  <2> QED BY <2>1, <2>2, IdleKeeps DEF coordinator, service
<1>2. CASE cmd[c].phase = "calling" /\ Place(c) \in Places /\ Failed(c)
  <2>1. /\ cmd' = [cmd EXCEPT ![c] = [Idle EXCEPT !.phase = "idle"]]
        /\ UNCHANGED <<resource, session, in, out, pump, copy, known>>
    BY <1>2 DEF Failed, Fail
  <2>2. cmd'[c].phase = "idle"
    BY <2>1 DEF IInv, TypeOK, Idle
  <2>3. Quietly
    BY <1>2, ChangedFacts DEF Failed, IInv
  <2> QED BY <1>2, <2>1, <2>2, <2>3, IdleKeeps
<1> QED BY <1>1, <1>2

\* An RPC begins to wait, or a default place is added: nobody is told.
LEMMA WaitKeeps ==
    ASSUME IInv, NEW p \in Places, Changed(p),
           UNCHANGED <<resource, session, client, in, out, since>>
    PROVE  \A d \in Clients : ClientInv(d)'
<1>1. Quietly
  BY ChangedFacts DEF IInv
<1> SUFFICES ASSUME NEW d \in Clients PROVE ClientInv(d)'
  OBVIOUS
<1> QED BY <1>1, Untouched DEF ClientInv, client

\* The answer is there, and the sync is sent: all that came before it is read.
LEMMA SyncKeeps ==
    ASSUME IInv, NEW c \in Clients, Sync(c)
    PROVE  ClientInv(c)'
<1>1. /\ OneState(c) /\ Life(c) /\ Syncs(c) /\ Exact(c) /\ OwnChange(c) /\ in[c] \in Seq(Kinds)
      /\ cmd[c].phase = "answered"
      /\ cmd'[c] = [cmd[c] EXCEPT !.phase = "syncing"]
      /\ in'[c] = IF pump[c] = "running" THEN Append(in[c], "sync") ELSE in[c]
      /\ UNCHANGED <<coordinator, out, pump, copy, known, since>>
  BY DEF IInv, ClientInv, TypeOK, Sync
<1>2. cmd'[c].phase = "syncing" /\ cmd'[c].place = cmd[c].place
  BY <1>1 DEF IInv, TypeOK, CommandStates
<1>3. OneState(c)'
  BY <1>1 DEF OneState
<1>4. in'[c] # <<>> => Head(in'[c]) # "startup"
  <2>1. in[c] # <<>> => Head(in[c]) # "startup"
    BY <1>1 DEF Life
  <2>2. in[c] = <<>> => Append(in[c], "sync")[1] = "sync"
    BY <1>1
  <2>3. in[c] # <<>> => Append(in[c], "sync")[1] = Head(in[c])
    BY <1>1
  <2> QED BY <1>1, <2>1, <2>2, <2>3
<1>5. Life(c)'
  <2>1. /\ pump[c] # "off" /\ cmd[c].place \in Places
        /\ c \notin session => out[c] = <<>>
        /\ pump[c] # "running" => in[c] = <<>>
    BY <1>1 DEF Life
  <2>2. /\ pump'[c] # "off" /\ cmd'[c].place \in Places
        /\ c \notin session' => out'[c] = <<>>
        /\ pump'[c] # "running" => in'[c] = <<>>
    BY <1>1, <1>2, <2>1 DEF coordinator
  <2> QED BY <1>2, <1>4, <2>2 DEF Life
<1>6. ASSUME Served(c)'
      PROVE  Syncs(c)' /\ Exact(c)' /\ OwnChange(c)'
  <2>1. Served(c) /\ pump[c] = "running"
    BY <1>1, <1>6 DEF Served, coordinator, service
  <2>2. in[c] = <<>> /\ NoSync(c)
    BY <1>1, <2>1 DEF Syncs, Waits
  <2>3. in'[c] = <<"sync">>
    BY <1>1, <2>1, <2>2
  <2>4. Syncs(c)'
    BY <1>1, <1>2, <2>2, <2>3 DEF Syncs, Waits, NoSync
  <2>5. "places" \notin Range(in[c]) /\ "resources" \notin Range(in[c])
    BY <2>2 DEF Range
  <2>6. (\A p \in Places : PlaceExact(c, p)) /\ ResourceExact(c)
    BY <1>1, <2>1, <2>5 DEF Exact
  <2>7. Exact(c)'
    BY <1>1, <2>6 DEF Exact, PlaceExact, ResourceExact, coordinator, service
  <2>8. OwnChange(c)'
    BY <1>1, <1>2, <2>1 DEF OwnChange, Changing
  <2> QED BY <2>4, <2>7, <2>8
<1>7. ~Served(c)' => ClientInv(c)'
  BY <1>3, <1>5, Unserved
<1> QED BY <1>3, <1>5, <1>6, <1>7 DEF ClientInv

\* The place of another user is left alone: the change to see is what is there.
LEMMA LeftAloneKeeps ==
    ASSUME IInv, NEW c \in Clients, cmd[c].phase = "calling", LeftAlone(c)
    PROVE  ClientInv(c)'
<1> DEFINE p == Place(c)
           S == recent[p]
<1>1. /\ OneState(c) /\ Life(c) /\ Syncs(c) /\ Exact(c) /\ out[c] \in Seq(Message)
      /\ cmd'[c] = [cmd[c] EXCEPT !.phase = "answered"] /\ since'[c] = S
      /\ UNCHANGED <<coordinator, in, out, pump, copy, known>>
  BY DEF IInv, ClientInv, TypeOK, LeftAlone
<1>2. cmd'[c].phase = "answered" /\ cmd'[c].place = p /\ p \in Places
  BY <1>1 DEF IInv, TypeOK, CommandStates, Life, Place
<1>3. OneState(c)' /\ Exact(c)'
  BY <1>1, Untouched DEF coordinator, service, Quietly
<1>4. Life(c)'
  <2>1. /\ pump[c] # "off"
        /\ c \notin session => out[c] = <<>>
        /\ pump[c] # "running" => in[c] = <<>>
        /\ in[c] # <<>> => Head(in[c]) # "startup"
    BY <1>1 DEF Life
  <2>2. /\ pump'[c] # "off" /\ cmd'[c].place \in Places
        /\ c \notin session' => out'[c] = <<>>
        /\ pump'[c] # "running" => in'[c] = <<>>
        /\ in'[c] # <<>> => Head(in'[c]) # "startup"
    BY <1>1, <1>2, <2>1 DEF coordinator
  <2> QED BY <1>2, <2>2 DEF Life
<1>5. ASSUME Served(c)' PROVE Syncs(c)' /\ OwnChange(c)'
  <2>1. Served(c)
    BY <1>1, <1>5 DEF Served, coordinator, service
  <2>2. in[c] = <<>> /\ NoSync(c)
    BY <1>1, <2>1 DEF Syncs, Waits
  <2>3. Syncs(c)'
    BY <1>1, <1>2, <2>2 DEF Syncs, Waits, NoSync
  <2>4. PlaceExact(c, p)
    <3>1. "places" \notin Range(in[c])
      BY <2>2 DEF Range
    <3> QED BY <1>1, <1>2, <2>1, <3>1 DEF Exact
  <2>5. PICK w \in S : Becomes(Value(copy[c], p), Told(out[c], p), w)
    BY <2>4 DEF PlaceExact
  <2>6. PICK k \in 0..Len(out[c]) : Seen(Value(copy[c], p), Told(out[c], p), k, S)
    <3>1. Len(out[c]) \in Nat /\ DOMAIN Told(out[c], p) = 1..Len(out[c])
      BY <1>1 DEF Told
    <3> QED BY <2>5, <3>1, BecomesSeen
  <2>7. /\ Seen(Value(copy'[c], cmd'[c].place), Told(out'[c], cmd'[c].place), k, since'[c])
        /\ \A i \in 1..Len(out'[c]) : out'[c][i].sync => i > k
    BY <1>1, <1>2, <2>2, <2>6 DEF NoSync
  <2> QED BY <1>1, <2>3, <2>7 DEF OwnChange
<1>6. ~Served(c)' => ClientInv(c)'
  BY <1>3, <1>4, Unserved
<1> QED BY <1>3, <1>4, <1>5, <1>6 DEF ClientInv

\* A change is published to all clients, also to the one that asked for it.
LEMMA ChangeKeeps ==
    ASSUME IInv, NEW c \in Clients, cmd[c].phase = "calling", Place(c) \in Places,
           NEW new, NEW msg, Published(c, new, msg)
    PROVE  \A d \in Clients : ClientInv(d)'
<1> DEFINE p == Place(c)
<1>1. /\ msg \in Message /\ ~msg.sync /\ msg.res = {} /\ 0 \in States
      /\ About(msg, p) = {Value(places', p)}
      /\ \A q \in Places : q # p => About(msg, q) = {} /\ Value(places', q) = Value(places, q)
      /\ recent' = [recent EXCEPT ![p] = {Value(new, p)}]
      /\ out' = Put(msg) /\ since' = Since(new, c, p) /\ places' = new
      /\ cmd' = [cmd EXCEPT ![c].phase = "answered"]
      /\ UNCHANGED <<up, resource, session, in, pump, copy, known, spent>>
  BY PublishingAssumption DEF Published, Done, States
<1>2. (\A q \in Places : Publishes(msg, q)) /\ PublishesResource(msg)
  <2>1. recent \in [Places -> SUBSET SUBSET PlaceValues]
    BY DEF IInv, TypeOK
  <2>2. Publishes(msg, p)
    BY <1>1, <2>1 DEF Publishes
  <2>3. ASSUME NEW q \in Places, q # p PROVE Publishes(msg, q)
    <3>1. q \in DOMAIN places => q \in DOMAIN places'
      BY <1>1, <2>3 DEF Value
    <3> QED BY <1>1, <2>1, <2>3, <3>1 DEF Publishes
  <2> QED BY <1>1, <2>2, <2>3 DEF PublishesResource
<1>3. ASSUME NEW d \in Clients PROVE OneState(d)' /\ Exact(d)'
  <2>1. out'[d] = IF d \in session THEN Append(out[d], msg) ELSE out[d]
    BY <1>1 DEF Put
  <2> QED BY <1>1, <1>2, <2>1, Notified
<1>4. ASSUME NEW d \in Clients, d # c PROVE ClientInv(d)'
  <2>1. cmd'[d] = cmd[d] /\ out'[d] = IF d \in session THEN Append(out[d], msg) ELSE out[d]
    BY <1>1, <1>4 DEF IInv, TypeOK, Put
  <2>2. since[d] \subseteq since'[d]
    BY <1>1, <1>4 DEF Since
  <2>3. ASSUME Changing(d) PROVE About(msg, cmd[d].place) \subseteq since'[d]
    <3>1. cmd[d].place \in Places
      BY <2>3 DEF IInv, ClientInv, Life, Changing
    <3>2. cmd[d].place = p => Value(places', p) \in since'[d]
      BY <1>1, <1>4, <2>3 DEF Since, Changing
    <3> QED BY <1>1, <3>1, <3>2
  <2>4. Life(d)' /\ Syncs(d)' /\ OwnChange(d)'
    BY <1>1, <2>1, <2>2, <2>3, Notified
  <2> QED BY <1>3, <2>4 DEF ClientInv
<1>5. ClientInv(c)'
  <2>1. /\ Life(c) /\ Syncs(c) /\ out[c] \in Seq(Message)
        /\ cmd'[c].phase = "answered" /\ cmd'[c].place = p
        /\ out'[c] = IF c \in session THEN Append(out[c], msg) ELSE out[c]
    BY <1>1 DEF IInv, ClientInv, TypeOK, CommandStates, Put, Place
  <2>2. Life(c)'
    BY <1>1, <2>1 DEF Life
  <2>3. ASSUME Served(c)' PROVE Syncs(c)' /\ OwnChange(c)'
    <3> DEFINE n == Len(out[c])
    <3>1. Served(c)
      BY <1>1, <2>3 DEF Served
    <3>2. in[c] = <<>> /\ NoSync(c)
      BY <2>1, <3>1 DEF Syncs, Waits
    <3>3. /\ out'[c] = Append(out[c], msg) /\ n \in Nat /\ Len(out'[c]) = n + 1
          /\ out'[c][n + 1] = msg /\ \A i \in 1..n : out'[c][i] = out[c][i]
      BY <1>1, <2>1, <3>1, AppendAt DEF Served
    <3>4. \A i \in 1..n + 1 : ~out'[c][i].sync
      BY <1>1, <3>2, <3>3 DEF NoSync
    <3>5. Syncs(c)'
      BY <1>1, <2>1, <3>2, <3>3, <3>4 DEF Syncs, Waits, NoSync
    <3>6. Seen(Value(copy[c], p), Told(out'[c], p), n + 1, since'[c])
      <4>1. About(msg, p) # {} /\ About(msg, p) \subseteq since'[c]
        BY <1>1 DEF Since
      <4> QED BY <1>1, <2>1, <3>3, <4>1, SendTold
    <3>7. n + 1 \in 0..Len(out'[c])
      BY <3>3
    <3>8. /\ Seen(Value(copy'[c], cmd'[c].place), Told(out'[c], cmd'[c].place), n + 1, since'[c])
          /\ \A i \in 1..Len(out'[c]) : out'[c][i].sync => i > n + 1
      BY <1>1, <2>1, <3>3, <3>4, <3>6
    <3>9. OwnChange(c)'
      BY <3>7, <3>8 DEF OwnChange
    <3> QED BY <3>5, <3>9
  <2>4. ~Served(c)' => ClientInv(c)'
    BY <1>3, <2>2, Unserved
  <2> QED BY <1>3, <2>2, <2>3, <2>4 DEF ClientInv
<1> QED BY <1>4, <1>5

\* The resource, and the place for its group, which no message mentions.
LEMMA ResourceKeeps ==
    ASSUME IInv, ExporterLeaves \/ \E group \in Places : SetResource(group)
    PROVE  Quietly /\ Recorded' /\ \A d \in Clients : ClientInv(d)'
<1>1. TypeOK
  BY DEF IInv
<1>2. PICK msg \in Message, r \in States :
        /\ msg.res = {r} /\ r = resource' /\ msg.set = Empty /\ msg.del = {} /\ ~msg.sync
        /\ out' = Put(msg)
  <2>1. CASE ExporterLeaves
    <3>1. resource' = 0 /\ 0 \in States
      BY <2>1, PublishingAssumption DEF ExporterLeaves, States
    <3> QED BY <1>1, <2>1, <3>1, ResourceMessages
  <2>2. CASE \E group \in Places : SetResource(group)
    BY <1>1, <2>2, ResourceMessages
  <2> QED BY <2>1, <2>2
<1>3. UNCHANGED <<session, client, in, since>> /\ Quietly /\ Recorded'
  <2>1. CASE ExporterLeaves
    <3>1. UNCHANGED <<places, recent, session, client, in, since>>
      BY <2>1 DEF ExporterLeaves
    <3> QED BY <3>1 DEF IInv, Quietly, Recorded
  <2>2. ASSUME NEW group \in Places, SetResource(group)
        PROVE  UNCHANGED <<session, client, in, since>> /\ Quietly /\ Recorded'
    <3>1. Changed(group) /\ UNCHANGED <<session, client, in, since>>
      BY <2>2, PlacesMade DEF SetResource, AddDefaultPlace, Changed
    <3> QED BY <1>1, <3>1, ChangedFacts DEF IInv
  <2> QED BY <2>1, <2>2
<1>4. \A p : About(msg, p) = {}
  <2>1. \A p : p \notin DOMAIN msg.set
    BY <1>2 DEF Empty
  <2> QED BY <1>2, <2>1, AboutOne
<1>5. (\A p \in Places : Publishes(msg, p)) /\ PublishesResource(msg)
  BY <1>2, <1>3, <1>4 DEF Publishes, PublishesResource, Quietly
<1>6. SUFFICES ASSUME NEW d \in Clients PROVE ClientInv(d)'
  BY <1>3
<1>7. out'[d] = IF d \in session THEN Append(out[d], msg) ELSE out[d]
  BY <1>2 DEF Put
<1>8. OneState(d)' /\ Life(d)' /\ Syncs(d)' /\ Exact(d)' /\ OwnChange(d)'
  BY <1>2, <1>3, <1>4, <1>5, <1>7, Notified DEF client
<1> QED BY <1>8 DEF ClientInv

\* When the coordinator is not there, nobody is served by it.
LEMMA CrashKeeps ==
    ASSUME IInv, Crash \/ Restart
    PROVE  \A d \in Clients : ClientInv(d)'
<1> SUFFICES ASSUME NEW d \in Clients PROVE ClientInv(d)'
  OBVIOUS
<1>1. Life(d) /\ OneState(d) /\ (~up => session = {})
  BY DEF IInv, ClientInv
<1>2. /\ session' = {} /\ pump' = pump /\ cmd' = cmd /\ copy' = copy /\ known' = known
      /\ \/ in'[d] = <<>> /\ out'[d] = <<>>
         \/ in'[d] = in[d] /\ out'[d] = out[d]
  BY <1>1 DEF Crash, Restart, client
<1>3. Life(d)'
  <2>1. in'[d] = <<>> \/ (in'[d] = in[d] /\ out'[d] = out[d])
    BY <1>2
  <2>2. out'[d] = <<>>
    <3>1. CASE Crash
      BY <3>1 DEF Crash
    <3>2. CASE Restart
      BY <1>1, <3>2 DEF Restart, Life
    <3> QED BY <3>1, <3>2
  <2>3. CASE in'[d] = <<>>
    BY <1>1, <1>2, <2>2, <2>3 DEF Life
  <2>4. CASE in'[d] = in[d] /\ out'[d] = out[d]
    BY <1>1, <1>2, <2>2, <2>4 DEF Life
  <2> QED BY <2>1, <2>3, <2>4
<1>4. OneState(d)'
  BY <1>1, <1>2 DEF OneState
<1>5. ~Served(d)'
  BY <1>2 DEF Served
<1> QED BY <1>3, <1>4, <1>5, Unserved

\* Reading a message.  The sync comes after the client's own change, which it
\* has read then.
LEMMA ReadKeeps ==
    ASSUME IInv, NEW c \in Clients, Receive(c), Head(out[c]).del \subseteq DOMAIN copy[c]
    PROVE  /\ ClientInv(c)'
           /\ Served(c) /\ Changing(c) /\ Head(out[c]).sync => Value(copy'[c], cmd[c].place) \in since[c]
<1> DEFINE msg == Head(out[c])
           s == out[c]
           n == Len(s)
<1>1. /\ OneState(c) /\ Life(c) /\ Syncs(c) /\ Exact(c) /\ OwnChange(c) /\ s \in Seq(Message)
      /\ pump[c] = "running" /\ s # <<>>
      /\ copy'[c] = Apply(copy[c], msg)
      /\ known'[c] = ApplyResource(known[c], msg)
      /\ cmd'[c] = IF msg.sync THEN [Idle EXCEPT !.phase = "idle"] ELSE cmd[c]
      /\ since'[c] = IF msg.sync THEN {} ELSE since[c]
      /\ out'[c] = Tail(s)
      /\ UNCHANGED <<session, pump, in, up, places, resource, recent>>
  BY DEF IInv, ClientInv, TypeOK, Receive, service
<1>2. /\ n \in Nat \ {0} /\ Len(out'[c]) = n - 1 /\ msg = s[1]
      /\ \A i \in 1..n - 1 : i + 1 \in 1..n /\ out'[c][i] = s[i + 1]
  BY <1>1, TailAt
<1>3. OneState(c)'
  BY <1>1, <1>2 DEF OneState
<1>4. msg.sync => cmd'[c].phase = "idle"
  BY <1>1 DEF Idle
<1>5. Life(c)'
  <2>1. ~(in[c] # <<>> /\ Head(in[c]) = "startup") /\ cmd[c].phase # "off"
    BY <1>1 DEF Life
  <2> QED BY <1>1, <1>4, <2>1 DEF Life
<1>6. ASSUME Served(c), msg.sync
      PROVE  Waits(c) /\ in[c] = <<>> /\ \A i \in 1..n : s[i].sync => i = 1
  <2>1. 1 \in 1..n /\ ~NoSync(c)
    BY <1>2, <1>6 DEF NoSync
  <2>2. Waits(c) /\ in[c] = <<>> /\ OneSync(c)
    BY <1>1, <1>6, <2>1 DEF Syncs
  <2>3. PICK i \in 1..n : \A j \in 1..n : s[j].sync => j = i
    BY <2>2 DEF OneSync
  <2>4. i = 1
    BY <1>2, <1>6, <2>1, <2>3
  <2> QED BY <2>2, <2>3, <2>4
<1>7. ASSUME Served(c) PROVE Syncs(c)'
  <2>1. CASE msg.sync
    <3>1. NoSync(c)'
      <4>1. \A i \in 1..n : s[i].sync => i = 1
        BY <1>6, <1>7, <2>1
      <4>2. ASSUME NEW i \in 1..n - 1 PROVE ~out'[c][i].sync
        <5>1. i + 1 \in 1..n /\ out'[c][i] = s[i + 1] /\ i + 1 # 1
          BY <1>2
        <5> QED BY <4>1, <5>1
      <4> QED BY <1>2, <4>2 DEF NoSync
    <3>2. ~Waits(c)' /\ cmd'[c].phase = "idle" /\ in'[c] = <<>>
      BY <1>1, <1>4, <1>6, <1>7, <2>1 DEF Waits
    <3> QED BY <3>1, <3>2 DEF Syncs
  <2>2. CASE ~msg.sync
    <3>1. NoSync(c) => NoSync(c)'
      BY <1>2 DEF NoSync
    <3>2. ASSUME OneSync(c) PROVE OneSync(c)'
      <4>1. PICK i \in 1..n : s[i].sync /\ \A j \in 1..n : s[j].sync => j = i
        BY <3>2 DEF OneSync
      <4>2. i # 1
        BY <1>2, <2>2, <4>1
      <4>3. i - 1 \in 1..n - 1 /\ out'[c][i - 1] = s[i]
        BY <1>2, <4>2
      <4>4. \A j \in 1..n - 1 : out'[c][j].sync => j = i - 1
        BY <1>2, <4>1
      <4> QED BY <1>2, <4>1, <4>3, <4>4 DEF OneSync
    <3>3. /\ cmd'[c] = cmd[c] /\ in'[c] = in[c] /\ (Waits(c)' <=> Waits(c)) /\ (Served(c)' <=> Served(c))
      BY <1>1, <2>2 DEF Waits, Served
    <3> QED BY <1>1, <3>1, <3>2, <3>3 DEF Syncs
  <2> QED BY <2>1, <2>2
<1>8. ASSUME Served(c) PROVE Exact(c)'
  <2>1. ASSUME NEW p \in Places, PlaceExact(c, p) PROVE PlaceExact(c, p)'
    <3>1. \A w : Becomes(Value(copy[c], p), Told(s, p), w) => Becomes(Value(copy'[c], p), Told(out'[c], p), w)
      BY <1>1, ReadTold
    <3> QED BY <1>1, <2>1, <3>1 DEF PlaceExact
  <2>2. ASSUME ResourceExact(c) PROVE ResourceExact(c)'
    <3>1. PICK r \in States : msg.res \subseteq {r}
      BY <1>1, <1>2 DEF OneState
    <3>2. PICK w \in IF resource = 0 THEN {0, -1} ELSE {resource} : Becomes(known[c], ToldResource(s), w)
      BY <2>2 DEF ResourceExact
    <3>3. Becomes(known'[c], ToldResource(out'[c]), w)
      BY <1>1, <3>1, <3>2, ReadResource
    <3> QED BY <1>1, <3>2, <3>3 DEF ResourceExact
  <2> QED BY <1>1, <1>8, <2>1, <2>2 DEF Exact
<1>9. ASSUME Served(c), Changing(c)
      PROVE  /\ OwnChange(c)'
             /\ msg.sync => Value(copy'[c], cmd[c].place) \in since[c]
  <2> DEFINE p == cmd[c].place
  <2>1. PICK k \in 0..n :
          /\ Seen(Value(copy[c], p), Told(s, p), k, since[c])
          /\ \A i \in 1..n : s[i].sync => i > k
    BY <1>1, <1>9 DEF OwnChange
  <2>2. IF k = 0 THEN Seen(Value(copy'[c], p), Told(out'[c], p), 0, since[c])
                 ELSE Seen(Value(copy'[c], p), Told(out'[c], p), k - 1, since[c])
    BY <1>1, <2>1, ReadTold
  <2>3. CASE msg.sync
    <3>1. k = 0
      BY <1>2, <2>1, <2>3
    <3>2. Value(copy'[c], p) \in since[c]
      BY <2>2, <3>1 DEF Seen
    <3>3. ~Changing(c)'
      BY <1>4, <2>3 DEF Changing
    <3> QED BY <3>2, <3>3 DEF OwnChange
  <2>4. CASE ~msg.sync
    <3>1. PICK m \in 0..n - 1 : m = IF k = 0 THEN 0 ELSE k - 1
      BY <1>2
    <3>2. ASSUME NEW i \in 1..n - 1, out'[c][i].sync PROVE i > m
      <4>1. i + 1 \in 1..n /\ s[i + 1].sync
        BY <1>2, <3>2
      <4>2. i + 1 > k
        BY <2>1, <4>1
      <4> QED BY <3>1, <4>2
    <3>3. Seen(Value(copy'[c], p), Told(out'[c], p), m, since[c])
      BY <2>2, <3>1
    <3>4. cmd'[c] = cmd[c] /\ since'[c] = since[c] /\ Len(out'[c]) = n - 1
      BY <1>1, <1>2, <2>4
    <3> QED BY <3>1, <3>2, <3>3, <3>4, <2>4 DEF OwnChange
  <2> QED BY <2>3, <2>4
<1>10. ASSUME ~Changing(c) PROVE OwnChange(c)'
  BY <1>1, <1>4, <1>10 DEF OwnChange, Changing
<1>11. Served(c)' <=> Served(c)
  BY <1>1 DEF Served
<1>12. CASE Served(c)
  BY <1>3, <1>5, <1>7, <1>8, <1>9, <1>10, <1>12 DEF ClientInv
<1>13. CASE ~Served(c)
  BY <1>3, <1>5, <1>11, <1>13, Unserved
<1> QED BY <1>12, <1>13

\* A message about an unknown place ends the pump.
LEMMA EndKeeps ==
    ASSUME IInv, NEW c \in Clients, Receive(c), ~(Head(out[c]).del \subseteq DOMAIN copy[c])
    PROVE  /\ ClientInv(c)' /\ pump'[c] # "running"
           /\ \A d \in Clients : d # c => ClientInv(d)'
<1>1. /\ Life(c)
      /\ pump[c] = "running" /\ pump'[c] = Ends(c) /\ cmd'[c] = Wake(c)
      /\ session' = IF Ends(c) = "off" THEN session \ {c} ELSE session
      /\ in'[c] = <<>> /\ out'[c] = <<>>
  BY DEF IInv, ClientInv, TypeOK, Receive
<1>2. /\ cmd'[c].phase = "off" <=> pump'[c] = "off"
      /\ cmd'[c].phase # "starting" /\ pump'[c] # "running"
      /\ cmd'[c].phase \notin {"off", "starting", "idle"} => cmd'[c] = cmd[c]
  BY <1>1 DEF Life, Ends, Wake, Idle
<1>3. Life(c)'
  BY <1>1, <1>2 DEF Life
<1>4. OneState(c)'
  BY <1>1 DEF OneState
<1>5. ~Served(c)'
  BY <1>2 DEF Served
<1> QED BY <1>2, <1>3, <1>4, <1>5, Unserved, OthersUntouched

\* The coordinator reads what the client sent: the startup, which makes it known,
\* the two subscriptions, each with its snapshot, or a sync.
LEMMA StreamKeeps ==
    ASSUME IInv, NEW c \in Clients, ClientStream(c)
    PROVE  ClientInv(c)'
<1> DEFINE s == out[c]
           n == Len(s)
           Before(forms) == Served(c) /\ in[c] \in forms
<1>1. /\ OneState(c) /\ Life(c) /\ Syncs(c) /\ Exact(c) /\ OwnChange(c) /\ TypeOK
      /\ s \in Seq(Message) /\ in[c] \in Seq(Kinds)
      /\ in[c] # <<>> /\ Connected(c) /\ in'[c] = Tail(in[c])
      /\ UNCHANGED <<up, places, resource, recent, client, since>>
      /\ \A p \in Places : Value(places, p) \in recent[p]
  BY AnswerFacts DEF IInv, ClientInv, TypeOK, service, Recorded
<1>2. pump[c] = "running"
  BY <1>1 DEF Life
<1>3. CASE Head(in[c]) = "startup"
  <2>1. /\ cmd[c].phase = "starting" /\ in[c] = Startup /\ s = <<>>
        /\ copy[c] = Empty /\ known[c] = 0
    BY <1>1, <1>3 DEF Life
  <2>2. session' = session \cup {c} /\ out' = out
    BY <1>3, AnswerFacts
  <2>3. in'[c] = <<"places", "resources", "sync">>
    BY <1>1, <2>1 DEF Startup
  <2>4. /\ cmd'[c] = cmd[c] /\ pump'[c] = "running" /\ out'[c] = <<>> /\ copy'[c] = Empty /\ known'[c] = 0
    BY <1>1, <1>2, <2>1, <2>2 DEF client
  <2>5. OneState(c)'
    BY <2>4 DEF OneState
  <2>6. Life(c)'
    BY <2>1, <2>3, <2>4 DEF Life
  <2>7. Syncs(c)'
    BY <2>1, <2>3, <2>4 DEF Syncs, NoSync, Waits
  <2>8. "places" \in Range(in'[c]) /\ "resources" \in Range(in'[c])
    BY <2>3 DEF Range
  <2>9. ASSUME NEW p \in Places, p \notin DOMAIN places' PROVE PlaceExact(c, p)'
    <3>1. Value(copy'[c], p) = {} /\ Value(places', p) = {}
      BY <2>4, <2>9 DEF Value, Empty
    <3>2. DOMAIN Told(out'[c], p) = {}
      BY <2>4 DEF Told
    <3>3. {} \in recent'[p]
      BY <1>1, <3>1
    <3> QED BY <3>1, <3>2, <3>3 DEF PlaceExact, Becomes
  <2>10. ASSUME resource' = 0 PROVE ResourceExact(c)'
    <3>1. DOMAIN ToldResource(out'[c]) = {}
      BY <2>4 DEF ToldResource
    <3> QED BY <2>4, <2>10, <3>1 DEF ResourceExact, Becomes
  <2>11. Exact(c)'
    BY <2>8, <2>9, <2>10 DEF Exact
  <2>12. OwnChange(c)'
    BY <2>1, <2>4 DEF OwnChange, Changing
  <2> QED BY <2>5, <2>6, <2>7, <2>11, <2>12 DEF ClientInv
<1>4. CASE Head(in[c]) # "startup"
  <2>1. Served(c)
    BY <1>1, <1>2, <1>4 DEF Connected, Served
  <2>2. PICK msg \in Message :
          /\ session' = session /\ out' = [out EXCEPT ![c] = Append(@, msg)]
          /\ msg.del = {}
          /\ \/ /\ Head(in[c]) = "places"
                /\ msg.set = places /\ msg.res = {} /\ ~msg.sync
             \/ /\ Head(in[c]) = "resources"
                /\ msg.set = Empty /\ ~msg.sync
                /\ msg.res = IF resource = 0 THEN {} ELSE {resource}
             \/ /\ Head(in[c]) = "sync"
                /\ msg.set = Empty /\ msg.res = {} /\ msg.sync
    BY <1>4, AnswerFacts
  <2>3. /\ n \in Nat /\ out'[c] = Append(s, msg) /\ Len(out'[c]) = n + 1
        /\ out'[c][n + 1] = msg /\ \A i \in 1..n : out'[c][i] = s[i]
    BY <1>1, <2>2, AppendAt DEF TypeOK
  <2>4. /\ cmd'[c] = cmd[c] /\ pump'[c] = "running" /\ copy'[c] = copy[c] /\ known'[c] = known[c]
        /\ since'[c] = since[c] /\ c \in session' /\ c \in session
    BY <1>1, <1>2, <2>1, <2>2 DEF client, Served
  <2>5. \/ /\ in[c] = <<"places", "resources", "sync">> /\ in'[c] = <<"resources", "sync">>
           /\ Head(in[c]) = "places"
        \/ /\ in[c] = <<"resources", "sync">> /\ in'[c] = <<"sync">>
           /\ Head(in[c]) = "resources"
        \/ /\ in[c] = <<"sync">> /\ in'[c] = <<>>
           /\ Head(in[c]) = "sync"
    <3>1. in[c] \in {<<"places", "resources", "sync">>, <<"resources", "sync">>, <<"sync">>}
      BY <1>1, <2>1 DEF Syncs, Waits
    <3>2. CASE in[c] = <<"places", "resources", "sync">>
      BY <1>1, <3>2
    <3>3. CASE in[c] = <<"resources", "sync">>
      BY <1>1, <3>3
    <3>4. CASE in[c] = <<"sync">>
      BY <1>1, <3>4
    <3> QED BY <3>1, <3>2, <3>3, <3>4
  <2>6. Waits(c) /\ NoSync(c) /\ (cmd[c].phase = "syncing" => in[c] = <<"sync">>)
    BY <1>1, <2>1 DEF Syncs
  <2>7. OneState(c)'
    <3>1. \E r \in States : msg.res \subseteq {r}
      <4>1. resource \in States
        BY <1>1 DEF TypeOK
      <4> QED BY <2>2, <4>1
    <3> QED BY <1>1, <2>3, <3>1 DEF OneState
  <2>8. Life(c)'
    <3>1. in'[c] # <<>> => Head(in'[c]) # "startup"
      BY <2>5
    <3> QED BY <1>1, <2>4, <3>1 DEF Life
  <2>9. Syncs(c)'
    <3>1. Waits(c)' /\ cmd'[c] = cmd[c]
      BY <2>4, <2>6 DEF Waits
    <3>2. CASE msg.sync
      <4>1. in'[c] = <<>>
        BY <2>2, <2>5, <3>2
      <4>2. n + 1 \in 1..n + 1 /\ out'[c][n + 1].sync
        BY <2>3, <3>2
      <4>3. \A j \in 1..n + 1 : out'[c][j].sync => j = n + 1
        BY <2>3, <2>6 DEF NoSync
      <4>4. OneSync(c)'
        BY <2>3, <4>2, <4>3 DEF OneSync
      <4> QED BY <3>1, <4>1, <4>4 DEF Syncs
    <3>3. CASE ~msg.sync
      <4>1. NoSync(c)'
        BY <2>3, <2>6, <3>3 DEF NoSync
      <4>0. in'[c] \in {<<"resources", "sync">>, <<"sync">>}
        BY <2>2, <2>5, <3>3
      <4>2. in'[c] \in {<<"resources", "sync">>, <<"sync">>} /\ in'[c] # <<>>
        BY <4>0
      <4>3. cmd[c].phase # "syncing"
        BY <2>2, <2>5, <2>6, <3>3
      <4> QED BY <3>1, <4>1, <4>2, <4>3 DEF Syncs, Waits
    <3> QED BY <3>2, <3>3
  <2>10. ASSUME NEW p \in Places, "places" \notin Range(in'[c]) \/ p \notin DOMAIN places
         PROVE  PlaceExact(c, p)'
    <3> DEFINE v == Value(copy[c], p)
               t == Told(out'[c], p)
    <3>1. /\ About(msg, p) = {} => \A w : Becomes(v, Told(s, p), w) => Becomes(v, t, w)
          /\ \A w : About(msg, p) = {w} => Becomes(v, t, w)
      BY <1>1, <2>3, SendTold
    <3>2. CASE Head(in[c]) = "places" /\ p \in DOMAIN places
      <4>1. msg.set = places
        BY <2>2, <3>2
      <4>2. About(msg, p) = {{places[p]}} /\ Value(places, p) = {places[p]}
        BY <2>2, <3>2, <4>1, AboutOne DEF Value
      <4>3. Becomes(v, t, Value(places, p))
        BY <3>1, <4>2
      <4> QED BY <1>1, <2>4, <4>3 DEF PlaceExact
    <3>3. CASE Head(in[c]) # "places" \/ p \notin DOMAIN places
      <4>1. p \notin DOMAIN msg.set
        <5>1. msg.set = Empty \/ (msg.set = places /\ Head(in[c]) = "places")
          BY <2>2
        <5> QED BY <3>3, <5>1 DEF Empty
      <4>2. About(msg, p) = {}
        BY <2>2, <4>1, AboutOne
      <4>3. p \notin DOMAIN places \/ "places" \notin Range(in[c])
        <5>1. in[c] \in {<<"resources", "sync">>, <<"sync">>} => "places" \notin Range(in[c])
          BY DEF Range
        <5> QED BY <2>5, <3>3, <5>1
      <4>4. PlaceExact(c, p)
        BY <1>1, <2>1, <4>3 DEF Exact
      <4>5. \E w \in recent[p] : Becomes(v, t, w)
        BY <3>1, <4>2, <4>4 DEF PlaceExact
      <4> QED BY <1>1, <2>4, <4>5 DEF PlaceExact
    <3> QED BY <3>2, <3>3
  <2>11. ASSUME resource = 0 \/ "resources" \notin Range(in'[c]) PROVE ResourceExact(c)'
    <3> DEFINE t == ToldResource(out'[c])
    <3>1. /\ msg.res = {} => \A w : Becomes(known[c], ToldResource(s), w) => Becomes(known[c], t, w)
          /\ \A r : msg.res = {r} => Becomes(known[c], t, IF r = 0 THEN -1 ELSE r)
      BY <1>1, <2>3, SendResource
    <3>2. CASE Head(in[c]) = "resources" /\ resource # 0
      <4>1. msg.res = {resource}
        BY <2>2, <3>2
      <4>2. Becomes(known[c], t, resource)
        BY <3>1, <3>2, <4>1
      <4> QED BY <1>1, <2>4, <3>2, <4>2 DEF ResourceExact
    <3>3. CASE Head(in[c]) # "resources" \/ resource = 0
      <4>1. msg.res = {}
        BY <2>2, <3>3
      <4>2. resource = 0 \/ "resources" \notin Range(in[c])
        <5>1. in[c] = <<"sync">> => "resources" \notin Range(in[c])
          BY DEF Range
        <5>2. in'[c] = <<"resources", "sync">> => "resources" \in Range(in'[c])
          BY DEF Range
        <5> QED BY <2>5, <2>11, <3>3, <5>1, <5>2
      <4>3. PICK w \in IF resource = 0 THEN {0, -1} ELSE {resource} : Becomes(known[c], ToldResource(s), w)
        BY <1>1, <2>1, <4>2 DEF Exact, ResourceExact
      <4>4. Becomes(known[c], t, w)
        BY <3>1, <4>1, <4>3
      <4> QED BY <1>1, <2>4, <4>3, <4>4 DEF ResourceExact
    <3> QED BY <3>2, <3>3
  <2>12. Exact(c)'
    BY <1>1, <2>10, <2>11 DEF Exact
  <2>13. ASSUME Changing(c) PROVE OwnChange(c)'
    <3> DEFINE p == cmd[c].place
    <3>1. msg.set = Empty
      <4>1. Head(in[c]) = "sync"
        BY <2>5, <2>6, <2>13 DEF Changing, Waits
      <4> QED BY <2>2, <4>1
    <3>2. About(msg, p) = {}
      BY <2>2, <3>1, AboutOne DEF Empty
    <3>3. PICK k \in 0..n : Seen(Value(copy[c], p), Told(s, p), k, since[c])
      BY <1>1, <2>1, <2>13 DEF OwnChange
    <3>4. Seen(Value(copy[c], p), Told(out'[c], p), k, since[c])
      BY <1>1, <2>3, <3>2, <3>3, SendTold
    <3>5. \A i \in 1..n + 1 : out'[c][i].sync => i > k
      BY <2>3, <2>6, <3>3 DEF NoSync
    <3>6. k \in 0..n + 1
      BY <2>3, <3>3
    <3> QED BY <2>3, <2>4, <3>4, <3>5, <3>6 DEF OwnChange
  <2>14. ~Changing(c) => OwnChange(c)'
    BY <2>4 DEF OwnChange, Changing
  <2> QED BY <2>7, <2>8, <2>9, <2>12, <2>13, <2>14 DEF ClientInv
<1> QED BY <1>3, <1>4

-----------------------------------------------------------------------------
\* In the beginning one client has everything.
LEMMA InitIInv == Init => IInv
<1> SUFFICES ASSUME Init PROVE IInv
  OBVIOUS
<1>1. PICK first \in Clients :
        /\ session = {first}
        /\ pump = [c \in Clients |-> IF c = first THEN "running" ELSE "off"]
        /\ copy = [c \in Clients |-> IF c = first THEN places ELSE Empty]
        /\ known = [c \in Clients |-> IF c = first THEN resource ELSE 0]
        /\ cmd = [c \in Clients |-> IF c = first THEN [Idle EXCEPT !.phase = "idle"] ELSE Idle]
  BY DEF Init
<1>2. places \in SomePlaces /\ resource \in States
  <2>1. 0 \in States /\ 1 \in States
    BY PublishingAssumption DEF States
  <2>2. ASSUME NEW u \in {NoOne} \cup Clients PROVE [Default EXCEPT !.acquired = u] \in PlaceValues
    BY DEF Default, Fresh, PlaceValues, Attributes
  <2>3. ASSUME NEW v \in PlaceValues PROVE [p \in Places |-> v] \in SomePlaces
    BY DEF SomePlaces
  <2>4. CASE places = Empty /\ resource = 0
    BY <2>1, <2>4, PlacesMade
  <2>5. ASSUME NEW u \in {NoOne} \cup Clients,
               places = [p \in Places |-> [Default EXCEPT !.acquired = u]], resource = 1
        PROVE  places \in SomePlaces /\ resource \in States
    <3> DEFINE v == [Default EXCEPT !.acquired = u]
    <3>1. v \in PlaceValues /\ places = [p \in Places |-> v]
      BY <2>2, <2>5
    <3> HIDE DEF v
    <3> QED BY <2>1, <2>3, <2>5, <3>1
  <2> QED BY <2>4, <2>5 DEF Init
<1>3. TypeOK
  <2>1. \A c \in Clients : cmd[c] \in CommandStates
    BY <1>1, IdleTypes DEF Phases
  <2>2. cmd \in [Clients -> CommandStates]
    BY <1>1, <2>1
  <2>3. ASSUME NEW S PROVE [c \in Clients |-> <<>>] \in [Clients -> Seq(S)]
    OBVIOUS
  <2>4. in = [c \in Clients |-> <<>>] /\ out = [c \in Clients |-> <<>>]
    BY DEF Init
  <2>5. in \in [Clients -> Seq(Kinds)] /\ out \in [Clients -> Seq(Message)]
    BY <2>3, <2>4
  <2>6. copy \in [Clients -> SomePlaces]
    BY <1>1, <1>2, PlacesMade
  <2>7. known \in [Clients -> States \cup {-1}] /\ pump \in [Clients -> {"off", "running", "dead"}]
    BY <1>1, <1>2, PublishingAssumption DEF States
  <2>8. spent \in [events : 0..MaxEvents, starts : 0..MaxStarts]
    BY PublishingAssumption DEF Init
  <2>9. up \in BOOLEAN /\ session \subseteq Clients
        /\ lock \in Clients \cup {NoOne} /\ adding \in Places \cup {"none", "lost"}
        /\ since \in [Clients -> SUBSET SUBSET PlaceValues]
    BY <1>1 DEF Init
  <2>10. recent \in [Places -> SUBSET SUBSET PlaceValues]
    <3>1. \A p \in Places : {Value(places, p)} \in SUBSET SUBSET PlaceValues
      BY <1>2, PlacesMade
    <3> QED BY <3>1 DEF Init
  <2> QED BY <1>2, <2>2, <2>5, <2>6, <2>7, <2>8, <2>9, <2>10 DEF TypeOK
<1>4. ASSUME NEW c \in Clients PROVE ClientInv(c)
  <2>1. /\ in[c] = <<>> /\ out[c] = <<>>
        /\ c \in session <=> c = first
        /\ pump[c] = IF c = first THEN "running" ELSE "off"
        /\ cmd[c].phase = IF c = first THEN "idle" ELSE "off"
        /\ c = first => copy[c] = places /\ known[c] = resource
    BY <1>1 DEF Init, Idle
  <2>2. OneState(c) /\ Life(c)
    BY <2>1 DEF OneState, Life
  <2>3. Syncs(c) /\ OwnChange(c)
    BY <2>1 DEF Syncs, OwnChange, NoSync, Waits, Changing
  <2>4. ASSUME c = first, NEW p \in Places PROVE PlaceExact(c, p)
    <3>1. DOMAIN Told(out[c], p) = {}
      BY <2>1 DEF Told
    <3>2. Value(places, p) \in recent[p]
      BY DEF Init
    <3> QED BY <2>1, <2>4, <3>1, <3>2 DEF PlaceExact, Becomes
  <2>5. ASSUME c = first PROVE ResourceExact(c)
    <3>1. DOMAIN ToldResource(out[c]) = {}
      BY <2>1 DEF ToldResource
    <3> QED BY <2>1, <2>5, <3>1 DEF ResourceExact, Becomes
  <2>6. Exact(c)
    BY <2>1, <2>4, <2>5 DEF Exact, Served
  <2> QED BY <2>2, <2>3, <2>6 DEF ClientInv
<1>5. up /\ Recorded /\ LockHeld
  BY DEF Init, Recorded, LockHeld
<1> QED BY <1>3, <1>4, <1>5 DEF IInv

\* Only the RPC that has the lock gives it back, and its place stays until then.
LEMMA LockKept ==
    ASSUME IInv, [Next]_vars
    PROVE  LockHeld'
<1> SUFFICES ASSUME lock' # NoOne PROVE up' /\ cmd'[lock'].phase = "calling" /\ cmd'[lock'].place \in DOMAIN places'
  BY DEF LockHeld
<1> DEFINE Goal == up' /\ cmd'[lock'].phase = "calling" /\ cmd'[lock'].place \in DOMAIN places'
<1>1. TypeOK /\ Recorded
  BY DEF IInv
<1>2. lock # NoOne => up /\ lock \in Clients /\ cmd[lock].phase = "calling" /\ cmd[lock].place \in DOMAIN places
  BY <1>1 DEF IInv, LockHeld, TypeOK
<1>3. ASSUME lock' = lock, up' = up, cmd'[lock] = cmd[lock], DOMAIN places \subseteq DOMAIN places' PROVE Goal
  BY <1>2, <1>3
<1> SUFFICES Goal
  OBVIOUS
<1> HIDE DEF Goal
<1>4. ASSUME NEW c \in Clients, Start(c) \/ Stop(c) \/ Sync(c) \/ RpcLost(c) \/ StreamBreaks(c) \/ Receive(c) PROVE Goal
  <2>1. /\ UNCHANGED <<up, places>> /\ lock' \in {lock, NoOne} /\ (lock' = c => cmd'[c] = cmd[c])
        /\ \A d \in Clients : d # c => cmd'[d] = cmd[d]
    <3>1. CASE Start(c) \/ Stop(c) \/ Sync(c) \/ RpcLost(c)
      BY <1>1, <1>2, <1>4, <3>1, PublishingAssumption DEF Start, Stop, Sync, RpcLost, coordinator, service, TypeOK
    <3>2. Wake(c) # cmd[c] => cmd[c].phase # "calling"
      BY DEF Wake
    <3>3. CASE StreamBreaks(c)
      BY <1>1, <1>2, <3>2, <3>3 DEF StreamBreaks, coordinator, service, TypeOK
    <3>4. CASE Receive(c)
      <4>1. lock' = lock /\ UNCHANGED <<up, places>> /\ \A d \in Clients : d # c => cmd'[d] = cmd[d]
        BY <1>1, <3>4 DEF Receive, service, TypeOK
      <4>2. ASSUME lock = c PROVE cmd'[c] = cmd[c]
        <5>1. ~Waits(c) /\ cmd[c].phase = "calling"
          BY <1>2, <4>2, PublishingAssumption DEF Waits
        <5>2. CASE Head(out[c]).del \subseteq DOMAIN copy[c]
          <6>1. ~Head(out[c]).sync
            <7>1. c \in session => NoSync(c)
              BY <3>4, <5>1 DEF IInv, ClientInv, Syncs, Served, Receive
            <7>2. c \in session
              BY <3>4 DEF IInv, ClientInv, Life, Receive
            <7>3. out[c] \in Seq(Message) /\ out[c] # <<>>
              BY <1>1, <3>4 DEF Receive, TypeOK
            <7>4. 1 \in 1..Len(out[c]) /\ Head(out[c]) = out[c][1]
              BY <7>3, TailAt
            <7> QED BY <7>1, <7>2, <7>4 DEF NoSync
          <6> QED BY <1>1, <3>4, <5>2, <6>1 DEF Receive, TypeOK
        <5>3. CASE ~(Head(out[c]).del \subseteq DOMAIN copy[c])
          BY <1>1, <3>2, <3>4, <5>1, <5>3 DEF Receive, TypeOK
        <5> QED BY <5>2, <5>3
      <4> QED BY <4>1, <4>2
    <3> QED BY <1>4, <3>1, <3>3, <3>4
  <2> QED BY <1>2, <1>3, <2>1
<1>5. ASSUME NEW c \in Clients, NEW p \in Places, Command(c, p) PROVE Goal
  <2>1. PICK op, arg : Call(c, p, op, arg)
    BY <1>5, CommandCalls
  <2>2. lock # c
    BY <1>2, <2>1, PublishingAssumption DEF Call
  <2>3. UNCHANGED <<lock, up, places>> /\ \A d \in Clients : d # c => cmd'[d] = cmd[d]
    BY <1>1, <2>1 DEF Call, coordinator, service, TypeOK
  <2> QED BY <1>2, <1>3, <2>2, <2>3
<1>6. ASSUME NEW c \in Clients, ClientStream(c) PROVE Goal
  BY <1>3, <1>6, AnswerFacts DEF service, client
<1>7. ASSUME NEW c \in Clients, Serve(c) PROVE Goal
  <2>1. up /\ cmd[c].phase = "calling" /\ Place(c) \in Places /\ lock \in {NoOne, c}
    BY <1>7, ServeFacts
  <2>2. CASE Begun(c)
    <3>1. lock' = c /\ up' = up /\ cmd' = cmd /\ Place(c) \in DOMAIN places
      BY <2>2 DEF Begun, Await, Exists, client
    <3>2. Quietly
      BY <1>1, <2>1, <2>2, ChangedFacts DEF Begun
    <3> QED BY <2>1, <3>1, <3>2 DEF Goal, Quietly, Place
  <2>3. CASE LeftAlone(c)
    BY <2>3 DEF LeftAlone, coordinator, service
  <2> QED BY <1>7, <2>1, <2>2, <2>3, ServeFacts DEF Failed, Fail, Published, Done
<1>8. CASE AddsDefaultPlace \/ \E group \in Places : SetResource(group)
  <2>1. PICK p \in Places : Changed(p)
    BY <1>8, PlacesMade DEF AddsDefaultPlace, SetResource, AddDefaultPlace, Changed
  <2>2. UNCHANGED <<lock, up, cmd>>
    BY <1>8 DEF AddsDefaultPlace, SetResource, client
  <2>3. DOMAIN places \subseteq DOMAIN places'
    <3>1. Quietly
      BY <1>1, <2>1, ChangedFacts
    <3>2. DOMAIN places \subseteq Places
      BY <1>1 DEF TypeOK, SomePlaces
    <3> QED BY <3>1, <3>2 DEF Quietly
  <2> QED BY <1>3, <2>2, <2>3
<1>9. CASE ExporterLeaves \/ ExporterLost \/ UNCHANGED vars
  BY <1>3, <1>9 DEF ExporterLeaves, ExporterLost, vars, coordinator, service, client
<1>10. CASE Crash \/ Restart
  BY <1>1, <1>2, <1>10 DEF Crash, Restart
<1> QED BY <1>4, <1>5, <1>6, <1>7, <1>8, <1>9, <1>10 DEF Next

\* Every step keeps the invariant: one step of the proof per action or group of them.
LEMMA NextIInv == IInv /\ [Next]_vars => IInv'
<1> SUFFICES ASSUME IInv, [Next]_vars PROVE IInv'
  OBVIOUS
<1> DEFINE Goal == IInv'
           Clients2 == \A d \in Clients : ClientInv(d)'
           Down == (~up' => session' = {}) /\ Recorded'
<1>1. TypeOK /\ (~up => session = {}) /\ Recorded
  BY DEF IInv
<1>R. UNCHANGED <<places, recent>> => Recorded'
  BY <1>1 DEF Recorded
<1>2. ASSUME TypeOK', Down, Clients2 PROVE Goal
  BY <1>2, LockKept DEF IInv
<1> SUFFICES Goal
  OBVIOUS
<1> HIDE DEF Goal
<1>3. ASSUME NEW c \in Clients, Start(c) \/ Stop(c) \/ Sync(c) \/ RpcLost(c) \/ StreamBreaks(c)
      PROVE  Goal
  <2>1. TypeOK'
    BY <1>3, ClientTypes
  <2>2. Down
    BY <1>1, <1>3, <1>R DEF Start, Stop, Sync, RpcLost, StreamBreaks, coordinator, service
  <2>3. ClientInv(c)'
    BY <1>3, StartKeeps, StopKeeps, SyncKeeps, RefuseKeeps, BreakKeeps
  <2>4. Clients2
    BY <1>3, <2>3, OthersUntouched
  <2> QED BY <1>2, <2>1, <2>2, <2>4
<1>4. ASSUME NEW c \in Clients, NEW p \in Places, Command(c, p) PROVE Goal
  <2>1. TypeOK'
    BY <1>4, ClientTypes
  <2>2. Down
    <3>1. PICK op, arg : Call(c, p, op, arg)
      BY <1>4, CommandCalls
    <3> QED BY <1>1, <1>R, <3>1 DEF Call, coordinator, service
  <2>3. Clients2
    BY <1>4, CommandKeeps, OthersUntouched
  <2> QED BY <1>2, <2>1, <2>2, <2>3
<1>5. ASSUME NEW c \in Clients, Receive(c) PROVE Goal
  <2>1. TypeOK'
    BY <1>5, StreamTypes
  <2>2. Down
    BY <1>1, <1>5, <1>R DEF Receive, service
  <2>3. ClientInv(c)'
    BY <1>5, ReadKeeps, EndKeeps
  <2>4. Clients2
    BY <1>5, <2>3, OthersUntouched
  <2> QED BY <1>2, <2>1, <2>2, <2>4
<1>6. ASSUME NEW c \in Clients, ClientStream(c) PROVE Goal
  <2>1. TypeOK'
    BY <1>6, StreamTypes
  <2>2. Down
    BY <1>6, <1>R, AnswerFacts DEF service
  <2>3. Clients2
    BY <1>6, StreamKeeps, OthersUntouched
  <2> QED BY <1>2, <2>1, <2>2, <2>3
<1>7. ASSUME NEW c \in Clients, Serve(c) PROVE Goal
  <2>1. TypeOK'
    BY <1>7, ServeTypes
  <2>2. up /\ cmd[c].phase = "calling" /\ Place(c) \in Places
    BY <1>7, ServeFacts
  <2>3. CASE Failed(c)
    <3>1. Clients2
      BY <2>2, <2>3, RefuseKeeps, OthersUntouched
    <3>2. Down
      BY <1>1, <2>2, <2>3, ChangedFacts DEF Failed, Fail
    <3> QED BY <1>2, <2>1, <3>1, <3>2
  <2>4. CASE LeftAlone(c)
    <3>1. Clients2
      BY <2>2, <2>4, LeftAloneKeeps, OthersUntouched
    <3>2. Down
      BY <1>1, <1>R, <2>4 DEF LeftAlone, coordinator, service
    <3> QED BY <1>2, <2>1, <3>1, <3>2
  <2>6. CASE Begun(c)
    <3>1. Clients2
      BY <2>2, <2>6, WaitKeeps DEF Begun, Await
    <3>2. Down
      BY <1>1, <2>2, <2>6, ChangedFacts DEF Begun, Await
    <3> QED BY <1>2, <2>1, <3>1, <3>2
  <2>5. ASSUME NEW new, NEW msg, Published(c, new, msg) PROVE Goal
    <3>1. Clients2
      BY <2>2, <2>5, ChangeKeeps
    <3>2. ~up' => session' = {}
      BY <1>1, <2>5 DEF Published, Done
    <3>3. Recorded'
      <4>1. /\ recent' = [recent EXCEPT ![Place(c)] = {Value(places', Place(c))}]
            /\ \A p \in Places : p # Place(c) => Value(places', p) = Value(places, p)
        BY <2>5 DEF Published, Done
      <4> QED BY <1>1, <4>1 DEF Recorded, TypeOK
    <3> QED BY <1>2, <2>1, <3>1, <3>2, <3>3
  <2> QED BY <1>7, <2>3, <2>4, <2>5, <2>6, ServeFacts
<1>8. CASE ExporterLeaves \/ \E group \in Places : SetResource(group)
  <2>1. TypeOK' /\ Clients2
    BY <1>8, OtherTypes, ResourceKeeps
  <2>2. Down
    BY <1>1, <1>8, ResourceKeeps DEF ExporterLeaves, SetResource
  <2> QED BY <1>2, <2>1, <2>2
<1>9. CASE Crash \/ Restart
  <2>1. TypeOK' /\ Clients2
    BY <1>9, OtherTypes, CrashKeeps
  <2>2. Down
    <3>1. CASE Crash
      BY <1>R, <3>1 DEF Crash
    <3>2. CASE Restart
      BY <3>2 DEF Restart, Recorded
    <3> QED BY <1>9, <3>1, <3>2
  <2> QED BY <1>2, <2>1, <2>2
<1>11. CASE AddsDefaultPlace \/ ExporterLost
  <2>1. PICK p \in Places : Changed(p)
    BY <1>11, PlacesMade DEF AddsDefaultPlace, AddDefaultPlace, ExporterLost, Changed
  <2>2. UNCHANGED <<up, resource, session, client, in, out, since>>
    BY <1>11 DEF AddsDefaultPlace, ExporterLost
  <2>3. TypeOK' /\ Clients2
    BY <1>11, <2>1, <2>2, OtherTypes, WaitKeeps
  <2>4. Down
    BY <1>1, <2>1, <2>2, ChangedFacts
  <2> QED BY <1>2, <2>3, <2>4
<1>10. CASE UNCHANGED vars
  <2>1. UNCHANGED <<up, places, resource, session, lock, adding, recent, pump, copy, known, cmd, in, out, spent, since>>
    BY <1>10 DEF vars, coordinator, service, client
  <2>2. TypeOK' /\ Down
    BY <1>1, <1>R, <2>1 DEF TypeOK
  <2>3. ASSUME NEW d \in Clients PROVE ClientInv(d)'
    <3>1. OneState(d)' /\ Life(d)' /\ Syncs(d)' /\ Exact(d)' /\ OwnChange(d)'
      BY <2>1, Untouched DEF Quietly
    <3> QED BY <3>1 DEF ClientInv
  <2> QED BY <1>2, <2>2, <2>3
<1> QED BY <1>3, <1>4, <1>5, <1>6, <1>7, <1>8, <1>9, <1>10, <1>11 DEF Next

\* The inductive invariant.
LEMMA AlwaysIInv == Spec => []IInv
BY InitIInv, NextIInv, PTL DEF Spec

\* A connected client that has read what is under way has each place as the
\* coordinator has it, or had it since it last published the place, and the
\* resource as it is; the sync that it waits for is under way; and start() is
\* not left alone by its pump.  (StreamBreaks, Receive, Put, subscribe_places,
\* and AcquirePlace, which publishes at its end what it changes before)
THEOREM ClientsAreServed == Spec => []ClientsServed
<1>1. IInv => ClientsServed
  <2> SUFFICES ASSUME IInv PROVE ClientsServed
    OBVIOUS
  <2>1. TypeOK /\ \A c \in Clients : Life(c) /\ Syncs(c) /\ Exact(c)
    BY DEF IInv, ClientInv
  <2>2. CopyExact
    BY <2>1 DEF CopyExact, Exact, Served, TypeOK
  <2>3. StartReturns
    BY <2>1 DEF StartReturns, Life
  <2>4. ASSUME NEW c \in Clients, cmd[c].phase = "syncing", pump[c] = "running", c \in session
        PROVE  \/ \E i \in 1..Len(in[c]) : in[c][i] = "sync"
               \/ \E i \in 1..Len(out[c]) : out[c][i].sync
    <3>1. \/ in[c] = <<"sync">>
          \/ in[c] = <<>> /\ OneSync(c)
      BY <2>1, <2>4 DEF Syncs, Served, Waits
    <3>2. in[c] = <<"sync">> => 1 \in 1..Len(in[c]) /\ in[c][1] = "sync"
      OBVIOUS
    <3> QED BY <3>1, <3>2 DEF OneSync
  <2>5. SyncUnderWay
    BY <2>4 DEF SyncUnderWay
  <2> QED BY <2>1, <2>2, <2>3, <2>5 DEF ClientsServed
<1> QED BY <1>1, AlwaysIInv, PTL

\* When a command returns, its client has seen the change, or what became of it.
\* (sync_with_coordinator, message_pump)
THEOREM ReadsOwnWrites == Spec => ReadYourWrites
<1> DEFINE Reads(c) ==
        cmd[c].phase \in {"answered", "syncing"} /\ cmd'[c].phase = "idle" /\ pump'[c] = "running" /\ c \in session
            => Value(copy'[c], cmd[c].place) \in since[c]
           Step == \A c \in Clients : Reads(c)
<1>1. ASSUME IInv, [Next]_vars PROVE Step
  <2> SUFFICES ASSUME NEW c \in Clients,
                      cmd[c].phase \in {"answered", "syncing"}, cmd'[c].phase = "idle", pump'[c] = "running",
                      c \in session
               PROVE  Value(copy'[c], cmd[c].place) \in since[c]
    OBVIOUS
  <2> DEFINE Goal == Value(copy'[c], cmd[c].place) \in since[c]
             Same == cmd'[c] = cmd[c]
  <2> SUFFICES Goal
    OBVIOUS
  <2> HIDE DEF Goal
  <2>1. TypeOK /\ Life(c) /\ ~Same
    BY <1>1 DEF IInv, ClientInv
  <2>2. ASSUME NEW d \in Clients, d # c,
               \/ Start(d) \/ Stop(d) \/ Sync(d) \/ RpcLost(d) \/ StreamBreaks(d) \/ Receive(d)
               \/ ClientStream(d)
        PROVE  Goal
    <3>1. ASSUME ClientStream(d) PROVE Same
      BY <3>1 DEF ClientStream, client
    <3> QED BY <2>1, <2>2, <3>1 DEF TypeOK, Start, Stop, Sync, RpcLost, StreamBreaks, Receive
  <2>3. ASSUME Start(c) \/ Stop(c) \/ Sync(c) \/ RpcLost(c) \/ StreamBreaks(c) \/ ClientStream(c) PROVE Goal
    <3>1. CASE Start(c) \/ Stop(c) \/ RpcLost(c)
      BY <2>1, <3>1 DEF TypeOK, Start, Stop, RpcLost
    <3>2. CASE Sync(c)
      BY <2>1, <3>2 DEF TypeOK, CommandStates, Sync
    <3>3. CASE StreamBreaks(c)
      BY <3>3 DEF StreamBreaks, Connected
    <3>4. CASE ClientStream(c)
      BY <2>1, <3>4 DEF ClientStream, client
    <3> QED BY <2>3, <3>1, <3>2, <3>3, <3>4
  <2>4. ASSUME Receive(c) PROVE Goal
    <3>1. CASE Head(out[c]).del \subseteq DOMAIN copy[c]
      <4>1. Head(out[c]).sync
        BY <2>1, <2>4, <3>1 DEF TypeOK, Receive
      <4>2. Served(c) /\ Changing(c)
        BY <2>4 DEF Served, Changing, Receive
      <4> QED BY <1>1, <2>4, <3>1, <4>1, <4>2, ReadKeeps DEF Goal
    <3>2. CASE ~(Head(out[c]).del \subseteq DOMAIN copy[c])
      BY <1>1, <2>4, <3>2, EndKeeps
    <3> QED BY <3>1, <3>2
  <2>5. ASSUME NEW d \in Clients, NEW p \in Places, Command(d, p) PROVE Goal
    <3>1. PICK op, arg : Call(d, p, op, arg)
      BY <2>5, CommandCalls
    <3>2. cmd[d].phase = "idle" /\ \E y : cmd' = [cmd EXCEPT ![d] = y]
      BY <3>1 DEF Call
    <3> QED BY <2>1, <3>2 DEF TypeOK
  <2>6. ASSUME NEW d \in Clients, Serve(d) PROVE Goal
    <3>1. cmd[d].phase = "calling" /\ (cmd' = cmd \/ \E y : cmd' = [cmd EXCEPT ![d] = y])
      BY <1>1, <2>6, ServeFacts DEF Failed, Fail, Begun, Await, client, LeftAlone, Published, Done
    <3> QED BY <2>1, <3>1 DEF TypeOK
  <2>7. CASE ExporterLeaves \/ ExporterLost \/ AddsDefaultPlace \/ \E group \in Places : SetResource(group)
    BY <2>1, <2>7 DEF ExporterLeaves, ExporterLost, AddsDefaultPlace, SetResource, client
  <2>8. CASE Crash \/ Restart \/ UNCHANGED vars
    BY <2>1, <2>8 DEF Crash, Restart, vars, client
  <2> QED BY <1>1, <2>2, <2>3, <2>4, <2>5, <2>6, <2>7, <2>8 DEF Next
<1> HIDE DEF Step
<1>2. ASSUME IInv, [Next]_vars PROVE [Step]_vars
  BY <1>1, <1>2
<1>3. Spec => [][Step]_vars
  BY <1>2, AlwaysIInv, PTL DEF Spec
<1> QED BY <1>3 DEF ReadYourWrites, Step

\* An RPC leaves the owner of a place, or makes it free, or takes a free one.
LEMMA ServeOwner ==
    ASSUME IInv, NEW c \in Clients, Serve(c), NEW p \in DOMAIN places \cap DOMAIN places',
           places[p].acquired # NoOne
    PROVE  places'[p].acquired \in {places[p].acquired, NoOne}
<1> DEFINE Goal == places'[p].acquired \in {places[p].acquired, NoOne}
<1>1. places[p] \in PlaceValues
  BY DEF IInv, TypeOK, SomePlaces
<1>2. ASSUME UNCHANGED places PROVE Goal
  BY <1>2
<1>3. ASSUME NEW v, Change(c, v), p = Place(c) => v.acquired \in {places[p].acquired, NoOne} PROVE Goal
  <2>1. places' = With(places, Place(c), v)
    BY <1>3 DEF Change, Done
  <2> QED BY <1>3, <2>1 DEF With
<1>12. ASSUME NEW v, Unpublished(With(places, Place(c), v), Place(c)),
              p = Place(c) => v.acquired \in {places[p].acquired, NoOne}
       PROVE  Goal
  <2>1. places' = With(places, Place(c), v)
    BY <1>12 DEF Unpublished
  <2> QED BY <1>12, <2>1 DEF With
<1>4. ASSUME Refuse(c) PROVE Goal
  BY <1>2, <1>4 DEF Refuse
<1>5. ASSUME NEW ok, NEW has, Edit(c, ok, has) PROVE Goal
  <2>1. CASE Exists(c) /\ ok
    <3> DEFINE v == [places[Place(c)] EXCEPT !.has = has]
    <3>1. Change(c, v)
      BY <1>5, <2>1 DEF Edit
    <3>2. p = Place(c) => v.acquired = places[p].acquired
      BY <1>1 DEF PlaceValues
    <3> HIDE DEF v
    <3> QED BY <1>3, <3>1, <3>2
  <2>2. CASE ~(Exists(c) /\ ok)
    BY <1>4, <1>5, <2>2 DEF Edit
  <2> QED BY <2>1, <2>2
<1> SUFFICES Goal
  OBVIOUS
<1> HIDE DEF Goal
<1>6. CASE AddPlace(c)
  <2>1. CASE Exists(c)
    BY <1>4, <1>6, <2>1 DEF AddPlace
  <2>2. CASE ~Exists(c)
    BY <1>3, <1>6, <2>2 DEF AddPlace, Exists
  <2> QED BY <2>1, <2>2
<1>7. CASE DeletePlace(c)
  <2>1. CASE Exists(c)
    <3>1. places' = Restrict(places, DOMAIN places \ {Place(c)})
      BY <1>7, <2>1 DEF DeletePlace, Done
    <3> QED BY <3>1 DEF Goal, Restrict
  <2>2. CASE ~Exists(c)
    BY <1>4, <1>7, <2>2 DEF DeletePlace
  <2> QED BY <2>1, <2>2
<1>8. CASE \/ AddPlaceAlias(c) \/ DeletePlaceAlias(c) \/ SetPlaceTags(c) \/ SetPlaceComment(c)
           \/ AddPlaceMatch(c) \/ DeletePlaceMatch(c)
  BY <1>5, <1>8 DEF AddPlaceAlias, DeletePlaceAlias, SetPlaceTags, SetPlaceComment, AddPlaceMatch,
                    DeletePlaceMatch
<1>9. CASE AcquirePlace(c)
  <2>1. CASE c \in session /\ Exists(c) /\ places[Place(c)].acquired = NoOne
    <3>1. /\ p # Place(c)
          /\ \/ Change(c, [places[Place(c)] EXCEPT !.acquired = c]) \/ Refuse(c)
             \/ Unpublished(With(places, Place(c), [places[Place(c)] EXCEPT !.acquired = c]), Place(c))
      BY <1>9, <2>1 DEF AcquirePlace
    <3> QED BY <1>3, <1>4, <1>12, <3>1
  <2>2. CASE ~(c \in session /\ Exists(c) /\ places[Place(c)].acquired = NoOne)
    BY <1>4, <1>9, <2>2 DEF AcquirePlace
  <2> QED BY <2>1, <2>2
<1>10. CASE ReleasePlace(c)
  <2>1. \/ Refuse(c) \/ UNCHANGED places
        \/ Change(c, [places[Place(c)] EXCEPT !.acquired = NoOne, !.allowed = {}])
    BY <1>10 DEF ReleasePlace, coordinator, service
  <2>2. p = Place(c) => [places[Place(c)] EXCEPT !.acquired = NoOne, !.allowed = {}].acquired = NoOne
    BY <1>1 DEF PlaceValues
  <2> QED BY <1>2, <1>3, <1>4, <2>1, <2>2
<1>11. CASE AllowPlace(c)
  <2> DEFINE v == [places[Place(c)] EXCEPT !.allowed = @ \cup {cmd[c].arg}]
  <2>1. Refuse(c) \/ Change(c, v)
    BY <1>11 DEF AllowPlace
  <2>2. p = Place(c) => v.acquired = places[p].acquired
    BY <1>1 DEF PlaceValues
  <2> HIDE DEF v
  <2> QED BY <1>3, <1>4, <2>1, <2>2
<1>13. CASE Acquired(c)
  <2>1. Change(c, places[Place(c)])
    BY <1>13 DEF Acquired
  <2> QED BY <1>3, <2>1
<1>14. CASE AcquireFails(c) \/ Released(c)
  <2>1. PICK v \in {[places[Place(c)] EXCEPT !.acquired = NoOne],
                   [places[Place(c)] EXCEPT !.acquired = NoOne, !.allowed = {}]} :
          Change(c, v) \/ Unpublished(With(places, Place(c), v), Place(c))
    BY <1>14 DEF AcquireFails, Released
  <2>2. p = Place(c) => v.acquired = NoOne
    BY <1>1, <2>1 DEF PlaceValues
  <2> QED BY <1>3, <1>12, <2>1, <2>2
<1>15. CASE Raises(c)
  BY <1>4, <1>15 DEF Raises
<1> QED BY <1>6, <1>7, <1>8, <1>9, <1>10, <1>11, <1>13, <1>14, <1>15 DEF Serve

\* A place passes from one user to another only after a release.
\* (AcquirePlace, ReleasePlace, load)
THEOREM NeverTakenOver == Spec => NoTakeover
<1> DEFINE Step == \A p \in DOMAIN places \cap DOMAIN places' :
                     places[p].acquired # NoOne => places'[p].acquired \in {places[p].acquired, NoOne}
<1>1. ASSUME IInv, [Next]_vars PROVE Step
  <2> SUFFICES ASSUME NEW p \in DOMAIN places \cap DOMAIN places', places[p].acquired # NoOne
               PROVE  places'[p].acquired \in {places[p].acquired, NoOne}
    OBVIOUS
  <2> DEFINE Goal == places'[p].acquired \in {places[p].acquired, NoOne}
  <2>1. places[p] \in PlaceValues
    BY <1>1 DEF IInv, TypeOK, SomePlaces
  <2>2. ASSUME UNCHANGED places PROVE Goal
    BY <2>2
  <2> SUFFICES Goal
    OBVIOUS
  <2>3. ASSUME NEW c \in Clients, Serve(c) PROVE Goal
    BY <1>1, <2>3, ServeOwner
  <2>4. CASE Restart
    <3>1. places' = Durable(places)
      BY <2>4 DEF Restart, Empty
    <3>2. places'[p] = [places[p] EXCEPT !.acquired = NoOne, !.allowed = {}]
      BY <3>1 DEF Durable
    <3> QED BY <2>1, <3>2 DEF PlaceValues
  <2>5. ASSUME NEW group, SetResource(group) \/ (AddsDefaultPlace /\ group = adding) PROVE Goal
    <3>1. places' = places \/ (group \notin DOMAIN places /\ places' = With(places, group, Default))
      BY <2>5 DEF SetResource, AddsDefaultPlace, AddDefaultPlace, Unpublished
    <3>2. places'[p] = places[p]
      BY <3>1 DEF With
    <3> QED BY <3>2
  <2> HIDE DEF Goal
  <2>6. ASSUME NEW c \in Clients,
               \/ Start(c) \/ Stop(c) \/ Sync(c) \/ RpcLost(c) \/ Receive(c) \/ StreamBreaks(c) \/ ClientStream(c)
        PROVE  Goal
    BY <2>2, <2>6 DEF Start, Stop, Sync, RpcLost, Receive, StreamBreaks, ClientStream, coordinator, service
  <2>7. ASSUME NEW c \in Clients, NEW q \in Places, Command(c, q) PROVE Goal
    <3>1. PICK op, arg : Call(c, q, op, arg)
      BY <2>7, CommandCalls
    <3> QED BY <2>2, <3>1 DEF Call, coordinator, service
  <2>8. CASE ExporterLeaves \/ ExporterLost \/ Crash \/ UNCHANGED vars
    BY <2>2, <2>8 DEF ExporterLeaves, ExporterLost, Crash, vars, coordinator, service
  <2> QED BY <1>1, <2>3, <2>4, <2>5, <2>6, <2>7, <2>8 DEF Next
<1> HIDE DEF Step
<1>2. ASSUME IInv, [Next]_vars PROVE [Step]_vars
  BY <1>1, <1>2
<1>3. Spec => [][Step]_vars
  BY <1>2, AlwaysIInv, PTL DEF Spec
<1> QED BY <1>3 DEF NoTakeover, Step
=============================================================================
