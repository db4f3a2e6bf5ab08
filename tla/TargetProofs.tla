---------------------------- MODULE TargetProofs ----------------------------
(***************************************************************************)
(* Deactivation in a target, for every graph of resources and drivers:     *)
(* however calls nest, an object goes down only after all of its clients.  *)
(***************************************************************************)
EXTENDS Target, FiniteSetTheorems, TLAPS

IsSeq(s) == \E S : s \in Seq(S)

\* A call as it is kept on the stack.
IsFrame(f) == f \in [fn : {f.fn}, x : {f.x}, client : {f.client}, pc : {f.pc}, todo : {f.todo}]

StackOK == IsSeq(stack) /\ \A i \in 1..Len(stack) : IsFrame(stack[i])

StateOK == state \in [Objects -> {"bound", "active"}]

\* What deactivate calls is deactivate: nothing is activated below it.
Nested ==
    \A i, j \in 1..Len(stack) : i <= j /\ stack[i].fn = "deactivate" => stack[j].fn = "deactivate"

\* A client that the loop has passed is bound, or is what the next call is about.
ClientsPassed ==
    \A i \in 1..Len(stack) : stack[i].fn = "deactivate" =>
        \A d \in Clients(stack[i].x) :
            \/ d \in stack[i].todo
            \/ state[d] = "bound"
            \/ i < Len(stack) /\ stack[i + 1].x = d

TearInv == StackOK /\ StateOK /\ Nested /\ ClientsPassed

-----------------------------------------------------------------------------
\* Pushing a frame.
LEMMA AppendFacts ==
    ASSUME NEW s, IsSeq(s), NEW f
    PROVE  /\ IsSeq(Append(s, f)) /\ Len(s) \in Nat
           /\ Len(Append(s, f)) = Len(s) + 1
           /\ \A i \in 1..Len(s) : Append(s, f)[i] = s[i]
           /\ Append(s, f)[Len(s) + 1] = f
<1>1. PICK S : s \in Seq(S)
  BY DEF IsSeq
<1>2. s \in Seq(S \cup {f}) /\ f \in S \cup {f}
  BY <1>1
<1>3. Append(s, f) \in Seq(S \cup {f})
  BY <1>2
<1>4. IsSeq(Append(s, f))
  BY <1>3 DEF IsSeq
<1> QED BY <1>2, <1>4

\* Popping the top.
LEMMA BelowFacts ==
    ASSUME IsSeq(stack), stack # <<>>
    PROVE  /\ IsSeq(Below) /\ Len(stack) \in Nat \ {0}
           /\ Len(Below) = Len(stack) - 1
           /\ \A i \in 1..Len(stack) - 1 : Below[i] = stack[i]
<1>1. PICK S : stack \in Seq(S)
  BY DEF IsSeq
<1>2. Len(stack) \in Nat \ {0}
  BY <1>1
<1> DEFINE n == Len(stack) - 1
<1>3. n \in Nat /\ n <= Len(stack)
  BY <1>2
<1>4. Below = SubSeq(stack, 1, n)
  BY DEF Below
<1> HIDE DEF n
<1>5. SubSeq(stack, 1, n) \in Seq(S) /\ Len(SubSeq(stack, 1, n)) = n
  BY <1>1, <1>3
<1>6. \A i \in 1..n : SubSeq(stack, 1, n)[i] = stack[i]
  BY <1>1, <1>3
<1>7. IsSeq(Below) /\ Len(Below) = n /\ \A i \in 1..n : Below[i] = stack[i]
  BY <1>4, <1>5, <1>6 DEF IsSeq
<1> QED BY <1>2, <1>7 DEF n

\* Going on in the top: a frame takes its place.
LEMMA ReplaceFacts ==
    ASSUME IsSeq(stack), stack # <<>>, NEW f
    PROVE  /\ IsSeq(Append(Below, f)) /\ Len(stack) \in Nat \ {0}
           /\ Len(Append(Below, f)) = Len(stack)
           /\ \A i \in 1..Len(stack) - 1 : Append(Below, f)[i] = stack[i]
           /\ Append(Below, f)[Len(stack)] = f
<1>1. /\ IsSeq(Below) /\ Len(stack) \in Nat \ {0} /\ Len(Below) = Len(stack) - 1
      /\ \A i \in 1..Len(stack) - 1 : Below[i] = stack[i]
  BY BelowFacts
<1>2. /\ IsSeq(Append(Below, f))
      /\ Len(Append(Below, f)) = Len(Below) + 1
      /\ \A i \in 1..Len(Below) : Append(Below, f)[i] = Below[i]
      /\ Append(Below, f)[Len(Below) + 1] = f
  BY <1>1, AppendFacts
<1> QED BY <1>1, <1>2

\* A call that is not a deactivation has none below it.
LEMMA NoneBelow ==
    ASSUME TearInv, stack # <<>>, Top.fn # "deactivate"
    PROVE  \A i \in 1..Len(stack) : stack[i].fn # "deactivate"
<1>1. Len(stack) \in Nat \ {0}
  BY BelowFacts DEF TearInv, StackOK
<1> QED BY <1>1 DEF TearInv, Nested, Top

-----------------------------------------------------------------------------
\* A stack without deactivations satisfies the invariant, ...
LEMMA FreshStack ==
    ASSUME StackOK', StateOK', \A i \in 1..Len(stack') : stack'[i].fn # "deactivate"
    PROVE  TearInv'
BY DEF TearInv, Nested, ClientsPassed

\* ... and one whose top has just been called.
LEMMA FreshTop ==
    ASSUME StackOK', StateOK', stack' # <<>>, NEW c, stack'[Len(stack')] = deactivate(c),
           \A i \in 1..Len(stack') - 1 : stack'[i].fn # "deactivate"
    PROVE  TearInv'
<1>1. Len(stack') \in Nat
  BY AppendFacts DEF StackOK
<1>2. /\ stack'[Len(stack')].fn = "deactivate" /\ stack'[Len(stack')].x = c
      /\ stack'[Len(stack')].todo = Clients(c)
  BY DEF deactivate, Frame
<1>3. \A i \in 1..Len(stack') : stack'[i].fn = "deactivate" <=> i = Len(stack')
  BY <1>1, <1>2
<1>4. Nested'
  BY <1>1, <1>3 DEF Nested
<1>5. ClientsPassed'
  BY <1>2, <1>3 DEF ClientsPassed, Clients
<1> QED BY <1>4, <1>5 DEF TearInv

\* A call from outside.
LEMMA BeginStep ==
    ASSUME TearInv, Call
    PROVE  TearInv' /\ state' = state
<1>1. PICK frame : stack = <<>> /\ stack' = <<frame>> /\ state' = state /\ IsFrame(frame)
                   /\ (frame.fn # "deactivate" \/ \E c : frame = deactivate(c))
  BY DEF Call, CallActivate, CallDeactivate, CallAwait, Cleanup, Export, Begin, IsFrame,
         activate, deactivate, await_resources, deactivate_each, export, Frame
<1>2. IsSeq(stack') /\ Len(stack') = 1 /\ stack'[1] = frame /\ stack' # <<>>
  <2>1. stack' \in Seq({frame})
    BY <1>1
  <2> QED BY <1>1, <2>1 DEF IsSeq
<1>3. StackOK' /\ StateOK'
  BY <1>1, <1>2 DEF StackOK, TearInv, StateOK
<1>4. CASE frame.fn # "deactivate"
  BY <1>1, <1>2, <1>3, <1>4, FreshStack
<1>5. CASE \E c : frame = deactivate(c)
  BY <1>1, <1>2, <1>3, <1>5, FreshTop
<1> QED BY <1>1, <1>4, <1>5

\* A call returns, raises, goes on, or goes on and calls.
GoesOn ==
    \/ stack' = <<>> \/ stack' = Below
    \/ \E f : IsFrame(f) /\ f.fn = Top.fn /\
         \/ stack' = Append(Below, f)
         \/ \E g : /\ stack' = Append(Append(Below, f), g)
                   /\ IsFrame(g)
                   /\ g.fn # "deactivate" \/ \E c : g = deactivate(c)

\* A step of a call other than deactivate.
LEMMA OtherStep ==
    ASSUME TearInv, StateOK', stack # <<>>, Top.fn # "deactivate", GoesOn
    PROVE  TearInv'
<1>0. /\ Len(stack) \in Nat \ {0} /\ IsSeq(stack)
      /\ \A i \in 1..Len(stack) : IsFrame(stack[i]) /\ stack[i].fn # "deactivate"
  BY NoneBelow, BelowFacts DEF TearInv, StackOK
<1>1. CASE stack' = <<>>
  <2>1. IsSeq(stack') /\ Len(stack') = 0
    <3>1. stack' \in Seq({})
      BY <1>1
    <3> QED BY <1>1, <3>1 DEF IsSeq
  <2> QED BY <2>1, FreshStack DEF StackOK
<1>2. CASE stack' = Below
  <2>1. IsSeq(stack') /\ Len(stack') = Len(stack) - 1 /\ \A i \in 1..Len(stack') : stack'[i] = stack[i]
    BY <1>0, <1>2, BelowFacts
  <2>2. \A i \in 1..Len(stack') : IsFrame(stack'[i]) /\ stack'[i].fn # "deactivate"
    BY <1>0, <2>1
  <2> QED BY <2>1, <2>2, FreshStack DEF StackOK
<1>3. ASSUME NEW f, IsFrame(f), f.fn = Top.fn
      PROVE  /\ IsSeq(Append(Below, f)) /\ Len(Append(Below, f)) = Len(stack)
             /\ \A i \in 1..Len(stack) :
                  IsFrame(Append(Below, f)[i]) /\ Append(Below, f)[i].fn # "deactivate"
  <2>1. /\ IsSeq(Append(Below, f)) /\ Len(Append(Below, f)) = Len(stack)
        /\ \A i \in 1..Len(stack) - 1 : Append(Below, f)[i] = stack[i]
        /\ Append(Below, f)[Len(stack)] = f
    BY <1>0, ReplaceFacts
  <2> QED BY <1>0, <1>3, <2>1
<1>4. ASSUME NEW f, IsFrame(f), f.fn = Top.fn, stack' = Append(Below, f)
      PROVE  TearInv'
  BY <1>3, <1>4, FreshStack DEF StackOK
<1>5. ASSUME NEW f, IsFrame(f), f.fn = Top.fn, NEW g, stack' = Append(Append(Below, f), g),
             IsFrame(g), g.fn # "deactivate" \/ \E c : g = deactivate(c)
      PROVE  TearInv'
  <2>1. /\ IsSeq(stack') /\ Len(stack') = Len(stack) + 1 /\ stack'[Len(stack')] = g
        /\ \A i \in 1..Len(stack') - 1 : IsFrame(stack'[i]) /\ stack'[i].fn # "deactivate"
    BY <1>0, <1>3, <1>5, AppendFacts
  <2>2. StackOK' /\ stack' # <<>>
    BY <1>0, <1>5, <2>1 DEF StackOK
  <2>3. CASE g.fn # "deactivate"
    BY <1>0, <2>1, <2>2, <2>3, FreshStack
  <2>4. CASE \E c : g = deactivate(c)
    BY <2>1, <2>2, <2>4, FreshTop
  <2> QED BY <1>5, <2>3, <2>4
<1> QED BY <1>1, <1>2, <1>4, <1>5 DEF GoesOn

-----------------------------------------------------------------------------
\* The frames of the functions.
LEMMA FrameIsFrame ==
    ASSUME NEW fn, NEW x, NEW client, NEW todo
    PROVE  IsFrame(Frame(fn, x, client, todo)) /\ Frame(fn, x, client, todo).fn = fn
BY DEF Frame, IsFrame

LEMMA Callees ==
    /\ \A c : /\ IsFrame(activate(c)) /\ activate(c).fn = "activate"
              /\ IsFrame(deactivate(c)) /\ deactivate(c).fn = "deactivate"
    /\ \A s, client : /\ IsFrame(resolve_conflicts(s, client))
                      /\ resolve_conflicts(s, client).fn = "resolve_conflicts"
    /\ IsFrame(update_resources) /\ update_resources.fn = "update_resources"
    /\ \A rs : IsFrame(await_resources(rs)) /\ await_resources(rs).fn = "await_resources"
<1>1. \A c : /\ IsFrame(activate(c)) /\ activate(c).fn = "activate"
             /\ IsFrame(deactivate(c)) /\ deactivate(c).fn = "deactivate"
  BY FrameIsFrame DEF activate, deactivate
<1>2. \A s, client : /\ IsFrame(resolve_conflicts(s, client))
                     /\ resolve_conflicts(s, client).fn = "resolve_conflicts"
  BY FrameIsFrame DEF resolve_conflicts
<1>3. IsFrame(update_resources) /\ update_resources.fn = "update_resources"
  BY FrameIsFrame DEF update_resources
<1>4. \A rs : IsFrame(await_resources(rs)) /\ await_resources(rs).fn = "await_resources"
  BY FrameIsFrame DEF await_resources
<1> QED BY <1>1, <1>2, <1>3, <1>4

LEMMA TopIsFrame == ASSUME StackOK, stack # <<>> PROVE IsFrame(Top)
<1>1. Len(stack) \in Nat \ {0}
  BY BelowFacts DEF StackOK
<1> QED BY <1>1 DEF StackOK, Top

LEMMA GotoFacts ==
    ASSUME StackOK, stack # <<>>, NEW pc, NEW todo
    PROVE  \E f : /\ IsFrame(f) /\ f.fn = Top.fn /\ f.x = Top.x /\ f.todo = todo
                  /\ Goto(pc, todo) = Append(Below, f)
<1> DEFINE next == [Top EXCEPT !.pc = pc, !.todo = todo]
<1>1. IsFrame(next) /\ next.fn = Top.fn /\ next.x = Top.x /\ next.todo = todo
  BY TopIsFrame DEF IsFrame
<1>2. Goto(pc, todo) = Append(Below, next)
  BY DEF Goto
<1> HIDE DEF next
<1> QED BY <1>1, <1>2

\* What is not about deactivation.
Elsewhere ==
    \/ DeactivateEach \/ ExportDriver
    \/ ActivateStart \/ ActivateResolve \/ OnActivate \/ ResolveConflicts
    \/ \E s \in Objects : ActivateSupplier(s)
    \/ UpdateStart \/ UpdateResource
    \/ AwaitStart \/ AwaitCheck \/ AwaitExpired \/ AwaitDone \/ AwaitReturn \/ AwaitPoll

\* Nothing but on_deactivate takes an object down.
NoneDown == \A x \in Objects : state[x] = "active" => state'[x] = "active"

LEMMA ElsewhereStep ==
    ASSUME TearInv, Elsewhere
    PROVE  TearInv' /\ NoneDown
<1>1. stack # <<>> /\ Top.fn # "deactivate"
  BY DEF Elsewhere, DeactivateEach, ExportDriver, ActivateStart, ActivateResolve, OnActivate, ResolveConflicts,
         ActivateSupplier, UpdateStart, UpdateResource, AwaitStart, AwaitCheck, AwaitExpired,
         AwaitDone, AwaitReturn, AwaitPoll, At
<1>2. StackOK /\ StateOK /\ IsFrame(Top)
  BY <1>1, TopIsFrame DEF TearInv
<1>3. StateOK' /\ NoneDown
  <2>1. CASE OnActivate
    BY <1>2, <2>1 DEF OnActivate, StateOK, NoneDown
  <2>2. CASE UNCHANGED state
    BY <1>2, <2>2 DEF StateOK, NoneDown
  <2> QED BY <2>1, <2>2
       DEF Elsewhere, DeactivateEach, ExportDriver, ActivateStart, ActivateResolve, ResolveConflicts,
           ActivateSupplier, UpdateStart, UpdateResource, AwaitStart, AwaitCheck, AwaitExpired,
           AwaitDone, AwaitReturn, AwaitPoll
<1>4. \A pc, todo, g :
        /\ stack' = Goto(pc, todo) => GoesOn
        /\ stack' = Append(Goto(pc, todo), g) /\ IsFrame(g)
              /\ (g.fn # "deactivate" \/ \E c : g = deactivate(c)) => GoesOn
  BY <1>1, <1>2, GotoFacts DEF GoesOn
<1>5. GoesOn
  <2>1. CASE DeactivateEach \/ ExportDriver
    BY <2>1, <1>4, Callees DEF DeactivateEach, ExportDriver, Return, GoesOn
  <2>2. CASE ActivateStart
    BY <2>2, <1>4, Callees DEF ActivateStart, Return, GoesOn
  <2>3. CASE ActivateResolve
    <3> DEFINE next == [Top EXCEPT !.pc = "suppliers", !.client = NoOne, !.todo = @ \ {Top.client}]
    <3>1. IsFrame(next) /\ next.fn = Top.fn
      BY <1>2 DEF IsFrame
    <3>2. \/ stack' = Append(Below, next)
          \/ stack' = Append(Append(Below, next), resolve_conflicts(Top.client, Top.x))
      BY <2>3 DEF ActivateResolve
    <3> HIDE DEF next
    <3> QED BY <3>1, <3>2, Callees DEF GoesOn
  <2>4. CASE OnActivate
    BY <2>4 DEF OnActivate, Return, Raise, GoesOn
  <2>5. CASE ResolveConflicts
    BY <2>5, <1>4, Callees DEF ResolveConflicts, Return, GoesOn
  <2>6. ASSUME NEW s \in Objects, ActivateSupplier(s)
        PROVE  GoesOn
    <3> DEFINE next == [Top EXCEPT !.pc = "resolve", !.client = s]
    <3>1. IsFrame(next) /\ next.fn = Top.fn
      BY <1>2 DEF IsFrame
    <3>2. \/ stack' = Append(Below, next)
          \/ stack' = Append(Append(Below, next), activate(s))
      BY <2>6 DEF ActivateSupplier
    <3> HIDE DEF next
    <3> QED BY <3>1, <3>2, Callees DEF GoesOn
  <2>7. CASE UpdateStart
    BY <2>7, <1>4 DEF UpdateStart, Return, GoesOn
  <2>8. CASE UpdateResource
    BY <2>8, <1>4, Callees DEF UpdateResource, Return, GoesOn
  <2>9. CASE AwaitStart \/ AwaitDone
    BY <2>9, <1>4, Callees DEF AwaitStart, AwaitDone
  <2>10. CASE AwaitCheck \/ AwaitPoll
    BY <2>10, <1>4 DEF AwaitCheck, AwaitPoll, Return, GoesOn
  <2>11. CASE AwaitExpired \/ AwaitReturn
    BY <2>11 DEF AwaitExpired, AwaitReturn, Raise, Return, GoesOn
  <2> QED BY <2>1, <2>2, <2>3, <2>4, <2>5, <2>6, <2>7, <2>8, <2>9, <2>10, <2>11 DEF Elsewhere
<1> QED BY <1>1, <1>3, <1>5, OtherStep

-----------------------------------------------------------------------------
\* Deactivation itself.
LEMMA DeactivateSteps ==
    ASSUME TearInv, \/ DeactivateStart \/ OnDeactivate \/ \E cli \in Drv : DeactivateClient(cli)
    PROVE  /\ TearInv'
           /\ \A x \in Objects : state[x] = "active" /\ state'[x] = "bound"
                => \A d \in Clients(x) : state[d] = "bound"
<1> DEFINE n == Len(stack)
<1>1. stack # <<>> /\ Top.fn = "deactivate" /\ Top = stack[n]
  BY DEF DeactivateStart, OnDeactivate, DeactivateClient, At, Top
<1>2. /\ StackOK /\ StateOK /\ Nested /\ ClientsPassed /\ IsSeq(stack)
      /\ IsFrame(Top) /\ n \in Nat \ {0}
  BY <1>1, TopIsFrame, BelowFacts DEF TearInv, StackOK
<1>3. \A i \in 1..n : IsFrame(stack[i])
  BY <1>2 DEF StackOK
<1> HIDE DEF n
\* What the top has passed; what the frame below it waits for is the top's object.
<1>4. /\ \A d \in Clients(Top.x) : d \in Top.todo \/ state[d] = "bound"
      /\ \A i \in 1..n - 1 : stack[i].fn = "deactivate" =>
            \A d \in Clients(stack[i].x) :
                \/ d \in stack[i].todo
                \/ state[d] = "bound"
                \/ stack[i + 1].x = d
  BY <1>1, <1>2 DEF ClientsPassed, n
\* It returns, with its object down.
<1>5. ASSUME stack' = Below, StateOK', Top.x \in Objects => state'[Top.x] = "bound",
             \A x \in Objects : state[x] = "bound" => state'[x] = "bound"
      PROVE  TearInv'
  <2>1. IsSeq(stack') /\ Len(stack') = n - 1 /\ \A i \in 1..n - 1 : stack'[i] = stack[i]
    BY <1>1, <1>2, <1>5, BelowFacts DEF n
  <2>2. StackOK'
    BY <1>2, <1>3, <2>1 DEF StackOK
  <2>3. Nested'
    BY <1>2, <2>1 DEF Nested, n
  <2>4. ClientsPassed'
    <3>1. ASSUME NEW i \in 1..n - 1, stack[i].fn = "deactivate", NEW d \in Clients(stack[i].x)
          PROVE  d \in stack[i].todo \/ state'[d] = "bound" \/ (i < n - 1 /\ stack[i + 1].x = d)
      <4>1. d \in Objects
        BY <3>1 DEF Clients, Objects
      <4>2. d \in stack[i].todo \/ state[d] = "bound" \/ stack[i + 1].x = d
        BY <1>4, <3>1
      <4>3. CASE i = n - 1
        BY <1>1, <1>2, <1>5, <4>1, <4>2, <4>3
      <4>4. CASE i < n - 1
        BY <1>5, <4>1, <4>2, <4>4
      <4> QED BY <1>2, <4>3, <4>4
    <3>2. \A i \in 1..n - 1 : i < n - 1 => i + 1 \in 1..n - 1
      BY <1>2
    <3> QED BY <1>2, <2>1, <3>1, <3>2 DEF ClientsPassed, Clients
  <2> QED BY <1>5, <2>2, <2>3, <2>4 DEF TearInv
\* It goes on, with the next client perhaps.
<1>6. ASSUME UNCHANGED state, NEW f, IsFrame(f), f.fn = "deactivate", f.x = Top.x,
             \/ f.todo = Top.todo /\ stack' = Append(Below, f)
             \/ \E c : f.todo = Top.todo \ {c} /\ stack' = Append(Append(Below, f), deactivate(c))
      PROVE  TearInv'
  <2> DEFINE s == Append(Below, f)
  <2>1. IsSeq(s) /\ Len(s) = n /\ s[n] = f /\ \A i \in 1..n - 1 : s[i] = stack[i]
    BY <1>1, <1>2, ReplaceFacts DEF n
  <2> HIDE DEF s
  <2>2. StateOK'
    BY <1>2, <1>6 DEF StateOK
  <2>3. \A i \in 1..n - 1 : stack'[i] = stack[i] /\ IsFrame(stack[i])
    <3>1. CASE stack' = s
      BY <1>3, <2>1, <3>1
    <3>2. CASE \E c : stack' = Append(s, deactivate(c))
      BY <1>2, <1>3, <2>1, <3>2, AppendFacts
    <3> QED BY <1>6, <3>1, <3>2 DEF s
  <2>4. CASE f.todo = Top.todo /\ stack' = s
    <3>1. StackOK'
      BY <1>2, <1>6, <2>1, <2>3, <2>4 DEF StackOK
    <3>2. Nested'
      BY <1>1, <1>2, <1>6, <2>1, <2>4 DEF Nested, n
    <3>3. ClientsPassed'
      <4>1. \A i \in 1..n : stack'[i].fn = stack[i].fn /\ stack'[i].x = stack[i].x
                            /\ stack'[i].todo = stack[i].todo
        BY <1>1, <1>2, <1>6, <2>1, <2>4
      <4> QED BY <1>2, <1>6, <2>1, <2>4, <4>1 DEF ClientsPassed, Clients, n
    <3> QED BY <2>2, <3>1, <3>2, <3>3 DEF TearInv
  <2>5. ASSUME NEW c, f.todo = Top.todo \ {c}, stack' = Append(s, deactivate(c))
        PROVE  TearInv'
    <3>1. /\ IsSeq(stack') /\ Len(stack') = n + 1 /\ stack'[n + 1] = deactivate(c) /\ stack'[n] = f
          /\ \A i \in 1..n - 1 : stack'[i] = stack[i]
      BY <1>2, <2>1, <2>5, AppendFacts
    <3>2. /\ IsFrame(deactivate(c)) /\ deactivate(c).fn = "deactivate"
          /\ deactivate(c).x = c /\ deactivate(c).todo = Clients(c)
      BY Callees DEF deactivate, Frame
    <3>3. StackOK'
      BY <1>2, <1>6, <2>3, <3>1, <3>2 DEF StackOK
    <3>4. \A i \in 1..n : stack'[i].fn = stack[i].fn /\ stack'[i].x = stack[i].x
      BY <1>1, <1>2, <1>6, <3>1
    <3>5. Nested'
      BY <1>2, <3>1, <3>2, <3>4 DEF Nested, n
    <3>6. ClientsPassed'
      <4>1. \A d \in Clients(f.x) : d \in f.todo \/ state[d] = "bound" \/ c = d
        BY <1>4, <1>6, <2>5
      <4>2. \A i \in 1..n - 1 : stack'[i].todo = stack[i].todo
        BY <3>1
      <4>3. ASSUME NEW i \in 1..n + 1, stack'[i].fn = "deactivate", NEW d \in Clients(stack'[i].x)
            PROVE  d \in stack'[i].todo \/ state[d] = "bound" \/ (i < n + 1 /\ stack'[i + 1].x = d)
        <5>1. CASE i = n + 1
          BY <3>1, <3>2, <4>3, <5>1
        <5>2. CASE i = n
          BY <1>2, <3>1, <3>2, <4>1, <4>3, <5>2
        <5>3. CASE i \in 1..n - 1
          <6>1. stack'[i + 1].x = stack[i + 1].x /\ i < n + 1
            BY <1>2, <3>4, <5>3
          <6>2. stack'[i].fn = stack[i].fn /\ stack'[i].x = stack[i].x /\ stack'[i].todo = stack[i].todo
            BY <3>1, <5>3
          <6> QED BY <1>4, <4>3, <5>3, <6>1, <6>2
        <5> QED BY <1>2, <5>1, <5>2, <5>3
      <4> QED BY <1>6, <3>1, <4>3 DEF ClientsPassed, Clients
    <3> QED BY <2>2, <3>3, <3>5, <3>6 DEF TearInv
  <2> QED BY <1>6, <2>4, <2>5 DEF s

\* It returns at once, or begins with its clients.
<1>7. CASE DeactivateStart
  <2>1. UNCHANGED state
    BY <1>7 DEF DeactivateStart
  <2>2. CASE state[Top.x] = "bound"
    BY <1>2, <1>5, <1>7, <2>1, <2>2 DEF DeactivateStart, Return, StateOK
  <2>3. CASE state[Top.x] # "bound"
    <3>1. stack' = Goto("clients", Top.todo)
      BY <1>7, <2>3 DEF DeactivateStart
    <3>2. PICK f : /\ IsFrame(f) /\ f.fn = Top.fn /\ f.x = Top.x /\ f.todo = Top.todo
                   /\ Goto("clients", Top.todo) = Append(Below, f)
      BY <1>1, <1>2, GotoFacts
    <3> QED BY <1>1, <1>6, <2>1, <3>1, <3>2
  <2> QED BY <2>1, <2>2, <2>3 DEF TearInv
\* The next client is to go down first.
<1>8. ASSUME NEW cli \in Drv, DeactivateClient(cli)
      PROVE  TearInv' /\ UNCHANGED state
  <2>1. UNCHANGED state /\ stack' = Append(Goto("clients", Top.todo \ {cli}), deactivate(cli))
    BY <1>8 DEF DeactivateClient
  <2>2. PICK f : /\ IsFrame(f) /\ f.fn = Top.fn /\ f.x = Top.x /\ f.todo = Top.todo \ {cli}
                 /\ Goto("clients", Top.todo \ {cli}) = Append(Below, f)
    BY <1>1, <1>2, GotoFacts
  <2> QED BY <1>1, <1>6, <2>1, <2>2
\* All clients are passed: the hook runs, and may raise.
<1>9. CASE OnDeactivate
  <2>1. \A d \in Clients(Top.x) : state[d] = "bound"
    BY <1>4, <1>9 DEF OnDeactivate
  <2>2. CASE state' = [state EXCEPT ![Top.x] = "bound"] /\ Return
    <3>1. StateOK' /\ \A x \in Objects : state'[x] = IF x = Top.x THEN "bound" ELSE state[x]
      BY <1>2, <2>2 DEF StateOK
    <3> QED BY <1>5, <2>1, <2>2, <3>1 DEF Return
  <2>3. CASE Raise /\ UNCHANGED state
    <3>1. StackOK' /\ StateOK' /\ \A i \in 1..Len(stack') : stack'[i].fn # "deactivate"
      <4>1. stack' \in Seq({}) /\ Len(stack') = 0
        BY <2>3 DEF Raise
      <4> QED BY <1>2, <2>3, <4>1 DEF StackOK, StateOK, IsSeq
    <3> QED BY <2>3, <3>1, FreshStack
  <2> QED BY <1>9, <2>2, <2>3 DEF OnDeactivate
<1>10. \A cli \in Drv : DeactivateClient(cli) => TearInv' /\ UNCHANGED state
  BY <1>8
<1> QED BY <1>7, <1>9, <1>10 DEF DeactivateStart

-----------------------------------------------------------------------------
LEMMA InitTear == Init => TearInv
<1> SUFFICES ASSUME Init PROVE TearInv
  OBVIOUS
<1>1. stack \in Seq({}) /\ Len(stack) = 0
  BY DEF Init
<1>2. StateOK
  BY DEF Init, StateOK
<1> QED BY <1>1, <1>2 DEF TearInv, StackOK, Nested, ClientsPassed, IsSeq

InOrder ==
    \A x \in Objects : state[x] = "active" /\ state'[x] = "bound"
        => \A d \in Clients(x) : state[d] = "bound"

LEMMA StepTear == TearInv /\ [Next]_vars => TearInv' /\ InOrder
<1> SUFFICES ASSUME TearInv, [Next]_vars
             PROVE  TearInv' /\ InOrder
  OBVIOUS
<1>1. CASE Call
  BY <1>1, BeginStep DEF InOrder
<1>2. CASE Elsewhere
  BY <1>2, ElsewhereStep DEF InOrder, NoneDown
<1>3. CASE DeactivateStart \/ OnDeactivate \/ \E cli \in Drv : DeactivateClient(cli)
  BY <1>3, DeactivateSteps DEF InOrder
<1>4. CASE Age \/ UNCHANGED vars
  BY <1>4 DEF Age, vars, InOrder, TearInv, StackOK, StateOK, Nested, ClientsPassed
<1> QED BY <1>1, <1>2, <1>3, <1>4 DEF Next, Step, Elsewhere

\* For every target: whichever calls nest in whichever way, and whatever fails
\* or disappears meanwhile, on_deactivate of an object runs only when all the
\* drivers bound to it are down.
THEOREM DeactivatedInOrder == Spec => TeardownInOrder
<1>1. Init => TearInv
  BY InitTear
<1>2. TearInv /\ [Next]_vars => TearInv' /\ InOrder
  BY StepTear
<1> QED BY <1>1, <1>2, PTL DEF Spec, TeardownInOrder, InOrder

-----------------------------------------------------------------------------
(***************************************************************************)
(* What calls leave behind.  The invariant is again about the stack: which *)
(* function may be in progress above which, about what, and what holds for *)
(* the suppliers that an activation in progress has passed.                *)
(***************************************************************************)
\* The suppliers that the loop of an activation is through with.
Passed(f) == SuppliersOf(f.x) \ f.todo

\* A frame says what its function was called with and what is left to do.
FrameOK(f) ==
    /\ f.x \in Objects \cup {NoOne} /\ f.client \in Objects \cup {NoOne}
    /\ f.fn = "activate" =>
          /\ f.x \in Objects /\ f.todo \subseteq SuppliersOf(f.x)
          /\ f.pc = "start" => f.todo = SuppliersOf(f.x)
          /\ f.pc = "resolve" => f.client \in f.todo
    /\ f.fn = "deactivate" => f.x \in Objects /\ f.todo \subseteq Clients(f.x)
    /\ f.fn = "resolve_conflicts" =>
          /\ f.x \in Consoles /\ f.client \in Clients(f.x)
          /\ f.todo \subseteq Clients(f.x) \ {f.client}
    /\ f.fn = "update_resources" => f.todo \in Seq(Res)
    /\ f.fn \in {"deactivate_each", "export"} => f.todo \in Seq(Objects)

\* Past its beginning, an activation is about something that is down, and what
\* it has passed is up, unless a supplier was lost.
Underway(f, st, lo) ==
    f.fn = "activate" /\ f.pc # "start" =>
        /\ st[f.x] = "bound"
        /\ \A s \in Passed(f) : st[s] = "active" \/ f.x \in lo

\* Which call g may be in progress, at any depth, above which call f.  An
\* activation is called by others for what their next supplier needs.  What
\* goes down is nothing that an activation below has passed, unless it has
\* lost a supplier.
Above(f, g, lo) ==
    /\ g.fn \notin {"deactivate_each", "export"}
    /\ f.fn = "resolve_conflicts" => g.fn = "deactivate"
    /\ g.fn = "activate" =>
          f.fn = "activate" /\ f.pc = "resolve" /\ g.x \in Needs[f.client]
    /\ f.fn = "activate" =>
          /\ g.fn = "resolve_conflicts" => g.client \in Needs[f.x]
          /\ g.fn = "deactivate" =>
                /\ f.pc # "start" /\ g.pc = "clients" => f.x # g.x
                /\ f.x \notin lo => \A s \in Passed(f) : g.x \notin Needs[s]

\* Directly above an activation that is at a supplier is the supplier's.
Calls(f, g) ==
    f.fn = "activate" /\ f.pc = "resolve" => g.fn = "activate" /\ g.x = f.client

CoreOf(s, st, lo) ==
    /\ \A i \in 1..Len(s) : FrameOK(s[i]) /\ Underway(s[i], st, lo)
    /\ \A i, j \in 1..Len(s) : i < j => Above(s[i], s[j], lo)
    /\ \A i \in 1..Len(s) - 1 : Calls(s[i], s[i + 1])

\* When the supplier's activation has returned, it is active.
BackAt(f, st) == f.fn = "activate" /\ f.pc = "resolve" => st[f.client] = "active"

\* The conflict between the activation in frame i and c is being resolved.
Resolving(s, i, k, c) ==
    /\ i < Len(s) /\ s[i + 1].fn = "resolve_conflicts" /\ s[i + 1].x = k
    /\ \/ c \in s[i + 1].todo
       \/ i + 1 < Len(s) /\ s[i + 2].x = c

\* The other clients of a console that an activation has passed are down, or
\* going down.
AloneIn(s, st) ==
    \A i \in 1..Len(s) : s[i].fn = "activate" =>
        \A k \in Consoles \cap Passed(s[i]) : \A c \in Clients(k) \ {s[i].x} :
            st[c] = "bound" \/ Resolving(s, i, k, c)

StackInv ==
    /\ CoreOf(stack, state, lost) /\ AloneIn(stack, state)
    /\ stack # <<>> => BackAt(Top, state)

\* At any time, not only between two calls.
Supplied == \A d \in Drv \ lost : state[d] = "active" => \A s \in Suppliers[d] : state[s] = "active"
OneClient ==
    \A k \in Consoles : \A c, d \in Clients(k) : state[c] = "active" /\ state[d] = "active" => c = d

Typed ==
    /\ StateOK /\ avail \in [Res -> BOOLEAN] /\ fresh \in BOOLEAN
    /\ result \in {"none", "ok", "error"} /\ lost \subseteq Drv

IInv == TearInv /\ Typed /\ StackInv /\ Supplied /\ OneClient

-----------------------------------------------------------------------------
\* What an object stands on.
LEMMA SuppliersKnown ==
    ASSUME NEW x \in Objects, NEW s \in SuppliersOf(x)
    PROVE  s \in Objects /\ x \in Drv /\ x \in Clients(s)
<1>1. x \in Drv /\ s \in Suppliers[x]
  BY DEF SuppliersOf
<1>2. PICK i \in 1..Len(Drivers) : Drivers[i] = x
  BY <1>1 DEF Drv, Elements
<1>3. s \in Res \cup {Drivers[j] : j \in 1..i - 1}
  BY <1>1, <1>2, BindingOrder
<1>4. {Drivers[j] : j \in 1..i - 1} \subseteq Drv
  <2>1. Len(Drivers) \in Nat
    BY BindingOrder
  <2> QED BY <1>2, <2>1 DEF Drv, Elements
<1> QED BY <1>1, <1>3, <1>4 DEF Objects, Clients

LEMMA NeedsFacts ==
    ASSUME NEW x \in Objects
    PROVE  /\ x \in Needs[x] /\ Needs[x] \subseteq Objects
           /\ \A y \in Needs[x] : Needs[y] \subseteq Needs[x] /\ SuppliersOf(y) \subseteq Needs[x]
<1>1. \A z \in Objects : Needs[z] =
        {y \in Objects : \A S \in SUBSET Objects : z \in S /\ Closed(S) => y \in S}
  BY DEF Needs
<1>2. x \in Needs[x] /\ Needs[x] \subseteq Objects
  BY <1>1
<1>3. ASSUME NEW y \in Needs[x] PROVE Needs[y] \subseteq Needs[x]
  <2>1. y \in Objects
    BY <1>2, <1>3
  <2> QED BY <1>1, <1>3, <2>1
<1>4. ASSUME NEW y \in Needs[x], NEW z \in SuppliersOf(y) PROVE z \in Needs[x]
  <2>1. y \in Objects /\ z \in Objects
    BY <1>2, <1>4, SuppliersKnown
  <2>2. ASSUME NEW S \in SUBSET Objects, x \in S, Closed(S) PROVE z \in S
    BY <1>1, <1>4, <2>1, <2>2 DEF Closed
  <2> QED BY <1>1, <2>1, <2>2
<1> QED BY <1>2, <1>3, <1>4

\* Nothing stands on itself: suppliers are bound first.
LEMMA NoCycle ==
    ASSUME NEW x \in Objects, NEW s \in SuppliersOf(x)
    PROVE  x \notin Needs[s]
<1>1. x \in Drv /\ s \in Suppliers[x] /\ s \in Objects
  BY SuppliersKnown DEF SuppliersOf
<1>2. PICK i \in 1..Len(Drivers) : Drivers[i] = x
  BY <1>1 DEF Drv, Elements
<1>3. Len(Drivers) \in Nat
  BY BindingOrder
<1> DEFINE S == Res \cup {Drivers[j] : j \in 1..i - 1}
<1>4. s \in S
  BY <1>1, <1>2, BindingOrder
<1>5. S \in SUBSET Objects
  BY <1>2, <1>3 DEF Objects, Drv, Elements
<1>6. x \notin S
  <2>1. x \notin Res
    BY <1>1, BindingOrder
  <2>2. \A j \in 1..i - 1 : j \in 1..Len(Drivers) /\ j # i
    BY <1>2, <1>3
  <2>3. \A j \in 1..i - 1 : Drivers[j] # Drivers[i]
    BY <1>2, <2>2, BindingOrder
  <2> QED BY <1>2, <2>1, <2>3
<1>7. ASSUME NEW y \in S, NEW z \in SuppliersOf(y) PROVE z \in S
  <2>1. y \in Drv /\ z \in Suppliers[y]
    BY <1>7 DEF SuppliersOf
  <2>2. y \notin Res
    BY <2>1, BindingOrder
  <2>3. PICK j \in 1..i - 1 : y = Drivers[j]
    BY <1>7, <2>2
  <2>4. j \in 1..Len(Drivers) /\ \A h \in 1..j - 1 : h \in 1..i - 1
    BY <1>2, <1>3
  <2>5. z \in Res \cup {Drivers[h] : h \in 1..j - 1}
    BY <2>1, <2>3, <2>4, BindingOrder
  <2> QED BY <2>4, <2>5
<1>8. Closed(S)
  BY <1>7 DEF Closed
<1> HIDE DEF S
<1> QED BY <1>1, <1>4, <1>5, <1>6, <1>8 DEF Needs

-----------------------------------------------------------------------------
\* A call is over, ...
LEMMA PopCore ==
    ASSUME IsSeq(stack), stack # <<>>, NEW st, NEW lo, CoreOf(stack, st, lo)
    PROVE  CoreOf(Below, st, lo)
<1>1. /\ Len(stack) \in Nat \ {0} /\ Len(Below) = Len(stack) - 1
      /\ \A i \in 1..Len(stack) - 1 : Below[i] = stack[i]
  BY BelowFacts
<1>2. \A i \in 1..Len(Below) : i \in 1..Len(stack) /\ Below[i] = stack[i]
  BY <1>1
<1>3. \A i \in 1..Len(Below) - 1 : i + 1 \in 1..Len(Below) /\ i \in 1..Len(stack) - 1
  BY <1>1
<1>4. \A i \in 1..Len(Below) - 1 : Calls(Below[i], Below[i + 1])
  BY <1>1, <1>2, <1>3 DEF CoreOf
<1> QED BY <1>2, <1>4 DEF CoreOf

\* ... one goes on, ...
LEMMA PlaceCore ==
    ASSUME IsSeq(stack), stack # <<>>, NEW st, NEW lo, CoreOf(stack, st, lo),
           NEW f, FrameOK(f), Underway(f, st, lo), f.fn = Top.fn, f.x = Top.x,
           \A i \in 1..Len(stack) - 1 : Above(stack[i], f, lo)
    PROVE  CoreOf(Append(Below, f), st, lo)
<1> DEFINE s == Append(Below, f)
           n == Len(stack)
<1>1. /\ n \in Nat \ {0} /\ Len(s) = n /\ s[n] = f
      /\ \A i \in 1..n - 1 : s[i] = stack[i]
  BY ReplaceFacts
<1> HIDE DEF s
<1>2. \A i \in 1..n : FrameOK(s[i]) /\ Underway(s[i], st, lo)
  BY <1>1 DEF CoreOf
<1>3. \A i, j \in 1..n : i < j => Above(s[i], s[j], lo)
  <2>1. \A i, j \in 1..n : i < j => i \in 1..n - 1 /\ (j = n \/ j \in 1..n - 1)
    BY <1>1
  <2> QED BY <1>1, <2>1 DEF CoreOf
<1>4. \A i \in 1..n - 1 : Calls(s[i], s[i + 1])
  <2>1. \A i \in 1..n - 1 : Calls(stack[i], stack[i + 1])
    BY DEF CoreOf
  <2>2. ASSUME NEW i \in 1..n - 1 PROVE s[i + 1].fn = stack[i + 1].fn /\ s[i + 1].x = stack[i + 1].x
    <3>1. CASE i = n - 1
      BY <1>1, <3>1 DEF Top
    <3>2. CASE i < n - 1
      BY <1>1, <3>2
    <3> QED BY <1>1, <3>1, <3>2
  <2> QED BY <1>1, <2>1, <2>2 DEF Calls
<1> QED BY <1>1, <1>2, <1>3, <1>4 DEF CoreOf, s

\* ... and another is called.
LEMMA PushCore ==
    ASSUME NEW s, IsSeq(s), NEW st, NEW lo, CoreOf(s, st, lo),
           NEW g, FrameOK(g), Underway(g, st, lo),
           \A i \in 1..Len(s) : Above(s[i], g, lo),
           Len(s) # 0 => Calls(s[Len(s)], g)
    PROVE  CoreOf(Append(s, g), st, lo)
<1> DEFINE t == Append(s, g)
           n == Len(s)
<1>1. /\ n \in Nat /\ Len(t) = n + 1 /\ t[n + 1] = g
      /\ \A i \in 1..n : t[i] = s[i]
  BY AppendFacts
<1> HIDE DEF t
<1>2. \A i \in 1..n + 1 : FrameOK(t[i]) /\ Underway(t[i], st, lo)
  BY <1>1 DEF CoreOf
<1>3. \A i, j \in 1..n + 1 : i < j => Above(t[i], t[j], lo)
  <2>1. \A i, j \in 1..n + 1 : i < j => i \in 1..n /\ (j = n + 1 \/ j \in 1..n)
    BY <1>1
  <2> QED BY <1>1, <2>1 DEF CoreOf
<1>4. \A i \in 1..n : Calls(t[i], t[i + 1])
  <2>1. \A i \in 1..n - 1 : Calls(s[i], s[i + 1]) /\ i + 1 \in 1..n
    BY <1>1 DEF CoreOf
  <2>2. \A i \in 1..n : i = n \/ i \in 1..n - 1
    BY <1>1
  <2> QED BY <1>1, <2>1, <2>2
<1> QED BY <1>1, <1>2, <1>3, <1>4 DEF CoreOf, t

\* The state changes without disturbing the calls in progress.
LEMMA ShiftCore ==
    ASSUME NEW s, NEW st, NEW lo, CoreOf(s, st, lo), NEW st2, NEW lo2,
           \A i \in 1..Len(s) : s[i].fn = "activate" /\ s[i].pc # "start" =>
                /\ st2[s[i].x] = "bound"
                /\ s[i].x \in lo => s[i].x \in lo2
                /\ \A p \in Passed(s[i]) : st[p] = "active" => st2[p] = "active" \/ s[i].x \in lo2
    PROVE  CoreOf(s, st2, lo2)
<1>1. \A i \in 1..Len(s) : Underway(s[i], st2, lo2)
  BY DEF CoreOf, Underway
<1>2. ASSUME NEW i \in 1..Len(s), NEW j \in 1..Len(s), i < j
      PROVE  Above(s[i], s[j], lo2)
  <2>1. Above(s[i], s[j], lo) /\ FrameOK(s[i])
    BY <1>2 DEF CoreOf
  <2>2. CASE s[i].fn = "activate" /\ s[i].pc = "start"
    BY <2>1, <2>2 DEF Above, FrameOK, Passed
  <2>3. CASE s[i].fn = "activate" /\ s[i].pc # "start"
    BY <2>1, <2>3 DEF Above
  <2>4. CASE s[i].fn # "activate"
    BY <2>1, <2>4 DEF Above
  <2> QED BY <2>2, <2>3, <2>4
<1> QED BY <1>1, <1>2 DEF CoreOf

\* Nobody is resolving a conflict unless a driver is about to go down.
LEMMA NotResolving ==
    ASSUME IsSeq(stack), stack # <<>>, NEW st, NEW lo, CoreOf(stack, st, lo),
           Top.fn \notin {"resolve_conflicts", "deactivate"}
    PROVE  \A i \in 1..Len(stack) - 1 : stack[i + 1].fn # "resolve_conflicts"
<1>1. Len(stack) \in Nat \ {0}
  BY BelowFacts
<1>2. SUFFICES ASSUME NEW i \in 1..Len(stack) - 1, stack[i + 1].fn = "resolve_conflicts" PROVE FALSE
  OBVIOUS
<1>3. CASE i + 1 = Len(stack)
  BY <1>2, <1>3 DEF Top
<1>4. CASE i + 1 < Len(stack)
  <2>1. i + 1 \in 1..Len(stack) /\ Len(stack) \in 1..Len(stack)
    BY <1>1
  <2>2. Above(stack[i + 1], Top, lo)
    BY <1>4, <2>1 DEF CoreOf, Top
  <2> QED BY <1>2, <2>2 DEF Above
<1> QED BY <1>1, <1>3, <1>4

-----------------------------------------------------------------------------
\* The call that is going on, and those below it.
LEMMA Tops ==
    ASSUME IInv, stack # <<>>
    PROVE  /\ IsSeq(stack) /\ Len(stack) \in Nat \ {0} /\ Top = stack[Len(stack)] /\ IsFrame(Top)
           /\ CoreOf(stack, state, lost) /\ AloneIn(stack, state) /\ BackAt(Top, state)
           /\ FrameOK(Top) /\ Underway(Top, state, lost)
           /\ \A i \in 1..Len(stack) - 1 :
                FrameOK(stack[i]) /\ Underway(stack[i], state, lost) /\ Above(stack[i], Top, lost)
<1>1. IsSeq(stack) /\ Len(stack) \in Nat \ {0} /\ Top = stack[Len(stack)] /\ IsFrame(Top)
  BY BelowFacts, TopIsFrame DEF IInv, TearInv, StackOK, Top
<1>2. CoreOf(stack, state, lost) /\ AloneIn(stack, state) /\ BackAt(Top, state)
  BY DEF IInv, StackInv
<1>3. /\ Len(stack) \in 1..Len(stack)
      /\ \A i \in 1..Len(stack) - 1 : i \in 1..Len(stack) /\ i < Len(stack)
  BY <1>1
<1>4. FrameOK(Top) /\ Underway(Top, state, lost)
  BY <1>1, <1>2, <1>3 DEF CoreOf
<1>5. \A i \in 1..Len(stack) - 1 :
         FrameOK(stack[i]) /\ Underway(stack[i], state, lost) /\ Above(stack[i], Top, lost)
  BY <1>1, <1>2, <1>3 DEF CoreOf
<1> QED BY <1>1, <1>2, <1>4, <1>5

\* An exception leaves no call in progress.
LEMMA RaiseInv == stack' = <<>> => StackInv'
<1> SUFFICES ASSUME stack' = <<>> PROVE StackInv'
  OBVIOUS
<1>1. Len(stack') = 0
  <2>1. stack' \in Seq({})
    OBVIOUS
  <2> QED BY <2>1
<1> QED BY <1>1 DEF StackInv, CoreOf, AloneIn

\* What neither activates nor deactivates anything: update_resources,
\* await_resources and the loops over all drivers.
LEMMA QuietStep ==
    ASSUME IInv, stack # <<>>, Top.fn \notin {"activate", "deactivate", "resolve_conflicts"},
           UNCHANGED state, lost \subseteq lost',
           \/ stack' = <<>>
           \/ stack' = Below
           \/ \E f : /\ FrameOK(f) /\ f.fn = Top.fn /\ f.x = Top.x
                     /\ \/ stack' = Append(Below, f)
                        \/ stack' = Append(Append(Below, f), update_resources)
                        \/ \E o \in Objects :
                             /\ stack' = Append(Append(Below, f), deactivate(o))
                             /\ \A i \in 1..Len(stack) - 1 :
                                  stack[i].fn = "activate" /\ stack[i].x \notin lost' =>
                                      \A s \in Passed(stack[i]) : o \notin Needs[s]
    PROVE  StackInv' /\ Supplied' /\ OneClient'
<1> DEFINE n == Len(stack)
<1>0. Supplied' /\ OneClient'
  BY DEF IInv, Supplied, OneClient
<1>1. /\ IsSeq(stack) /\ n \in Nat \ {0} /\ Top = stack[n] /\ CoreOf(stack, state, lost)
      /\ AloneIn(stack, state)
      /\ \A i \in 1..n - 1 : FrameOK(stack[i]) /\ Above(stack[i], Top, lost)
  BY Tops
<1>2. CoreOf(stack, state', lost')
  <2>1. \A i \in 1..n : Underway(stack[i], state, lost)
    BY <1>1 DEF CoreOf
  <2> QED BY <1>1, <2>1, ShiftCore DEF Underway
\* The frames that stay are about what they were about.
<1>3. \A i \in 1..n - 1 : stack[i].fn = "activate" =>
           \A k \in Consoles \cap Passed(stack[i]) : \A c \in Clients(k) \ {stack[i].x} :
              state'[c] = "bound"
  <2>1. \A i \in 1..n - 1 : stack[i + 1].fn # "resolve_conflicts" /\ i \in 1..n
    BY <1>1, NotResolving
  <2> QED BY <1>1, <2>1 DEF AloneIn, Resolving
<1>4. ASSUME \A i \in 1..n - 1 : i <= Len(stack') => stack'[i] = stack[i], Len(stack') \in Nat,
             \A i \in n..Len(stack') : stack'[i].fn # "activate"
      PROVE  AloneIn(stack', state')
  <2>1. \A i \in 1..Len(stack') : i \in 1..n - 1 \/ i \in n..Len(stack')
    BY <1>1, <1>4
  <2> QED BY <1>3, <1>4, <2>1 DEF AloneIn
<1> HIDE DEF n
<1>5. CASE stack' = <<>>
  BY <1>0, <1>5, RaiseInv
<1>6. CASE stack' = Below
  <2>1. Len(stack') = n - 1 /\ \A i \in 1..n - 1 : stack'[i] = stack[i]
    BY <1>1, <1>6, BelowFacts DEF n
  <2>2. CoreOf(stack', state', lost')
    BY <1>1, <1>2, <1>6, PopCore
  <2>3. AloneIn(stack', state')
    BY <1>1, <1>4, <2>1
  <2>4. stack' # <<>> => BackAt(stack'[Len(stack')], state')
    <3>1. SUFFICES ASSUME stack' # <<>> PROVE BackAt(stack'[Len(stack')], state')
      OBVIOUS
    <3>2. n - 1 # 0
      <4>1. IsSeq(stack')
        BY <1>1, <1>6, BelowFacts
      <4>2. PICK S : stack' \in Seq(S)
        BY <4>1 DEF IsSeq
      <4> QED BY <2>1, <3>1, <4>2
    <3>3. Calls(stack[n - 1], Top) /\ stack'[n - 1] = stack[n - 1]
      BY <1>1, <2>1, <3>2 DEF CoreOf, n
    <3> QED BY <2>1, <3>3 DEF Calls, BackAt
  <2> QED BY <1>0, <2>2, <2>3, <2>4 DEF StackInv, Top
<1>7. ASSUME NEW f, FrameOK(f), f.fn = Top.fn, f.x = Top.x
      PROVE  /\ CoreOf(Append(Below, f), state', lost') /\ Len(Append(Below, f)) = n
             /\ IsSeq(Append(Below, f)) /\ Append(Below, f)[n] = f
             /\ \A i \in 1..n - 1 : Append(Below, f)[i] = stack[i]
  <2>1. Underway(f, state', lost')
    BY <1>7 DEF Underway
  <2>2. \A i \in 1..n - 1 : Above(stack[i], f, lost')
    BY <1>1, <1>7 DEF Above
  <2> QED BY <1>1, <1>2, <1>7, <2>1, <2>2, PlaceCore, ReplaceFacts DEF n
<1>8. ASSUME NEW f, FrameOK(f), f.fn = Top.fn, f.x = Top.x, stack' = Append(Below, f)
      PROVE  StackInv'
  <2>1. \A i \in n..Len(stack') : stack'[i].fn # "activate"
    BY <1>1, <1>7, <1>8
  <2>2. AloneIn(stack', state')
    BY <1>1, <1>4, <1>7, <1>8, <2>1
  <2> QED BY <1>1, <1>7, <1>8, <2>2 DEF StackInv, BackAt, Top
<1>9. ASSUME NEW f, FrameOK(f), f.fn = Top.fn, f.x = Top.x,
             NEW g, stack' = Append(Append(Below, f), g), FrameOK(g),
             g.fn \in {"update_resources", "deactivate"}, g.pc = "start",
             g.fn = "deactivate" =>
                \A i \in 1..n - 1 : stack[i].fn = "activate" /\ stack[i].x \notin lost' =>
                    \A s \in Passed(stack[i]) : g.x \notin Needs[s]
      PROVE  StackInv'
  <2> DEFINE s == Append(Below, f)
  <2>1. /\ CoreOf(s, state', lost') /\ Len(s) = n /\ IsSeq(s) /\ s[n] = f
        /\ \A i \in 1..n - 1 : s[i] = stack[i]
    BY <1>7, <1>9
  <2> HIDE DEF s
  <2>2. \A i \in 1..n : Above(s[i], g, lost')
    <3>1. Above(f, g, lost')
      BY <1>9 DEF Above
    <3>2. ASSUME NEW i \in 1..n - 1 PROVE Above(stack[i], g, lost')
      <4>1. stack[i].fn # "resolve_conflicts"
        BY <1>1, <3>2 DEF Above
      <4> QED BY <1>9, <4>1, <3>2 DEF Above
    <3> QED BY <1>1, <2>1, <3>1, <3>2
  <2>3. Underway(g, state', lost') /\ Calls(f, g)
    BY <1>9 DEF Underway, Calls
  <2>4. CoreOf(stack', state', lost')
    BY <1>9, <2>1, <2>2, <2>3, PushCore DEF s
  <2>5. /\ Len(stack') = n + 1 /\ stack'[n + 1] = g
        /\ \A i \in 1..n : stack'[i] = s[i]
    BY <1>9, <2>1, AppendFacts DEF s
  <2>6. AloneIn(stack', state')
    <3>1. \A i \in n..Len(stack') : stack'[i].fn # "activate"
      BY <1>1, <1>9, <2>1, <2>5
    <3> QED BY <1>1, <1>4, <2>1, <2>5, <3>1
  <2> QED BY <1>9, <2>4, <2>5, <2>6 DEF StackInv, BackAt, Top
<1>10. FrameOK(update_resources) /\ update_resources.fn = "update_resources" /\ update_resources.pc = "start"
  BY BindingOrder DEF FrameOK, update_resources, Frame
<1>11. \A o \in Objects : /\ FrameOK(deactivate(o)) /\ deactivate(o).fn = "deactivate"
                          /\ deactivate(o).pc = "start" /\ deactivate(o).x = o
  BY DEF FrameOK, deactivate, Frame
<1> QED BY <1>0, <1>5, <1>6, <1>8, <1>9, <1>10, <1>11 DEF n

\* The steps of update_resources, await_resources and the loops over drivers.
Quiet ==
    \/ DeactivateEach \/ ExportDriver \/ UpdateStart \/ UpdateResource
    \/ AwaitStart \/ AwaitCheck \/ AwaitExpired \/ AwaitDone \/ AwaitReturn \/ AwaitPoll

\* Going on in the top.
LEMMA GotoFrame ==
    ASSUME IInv, stack # <<>>, NEW pc, NEW todo,
           Top.fn \notin {"activate", "deactivate", "resolve_conflicts"},
           Top.fn = "update_resources" => todo \in Seq(Res),
           Top.fn \in {"deactivate_each", "export"} => todo \in Seq(Objects)
    PROVE  \E f : /\ FrameOK(f) /\ f.fn = Top.fn /\ f.x = Top.x
                  /\ Goto(pc, todo) = Append(Below, f)
<1> DEFINE next == [Top EXCEPT !.pc = pc, !.todo = todo]
<1>1. IsFrame(Top) /\ FrameOK(Top)
  BY Tops
<1>2. next.fn = Top.fn /\ next.x = Top.x /\ next.todo = todo /\ next.client = Top.client
  BY <1>1 DEF IsFrame
<1>3. Goto(pc, todo) = Append(Below, next)
  BY DEF Goto
<1> HIDE DEF next
<1>4. FrameOK(next)
  BY <1>1, <1>2 DEF FrameOK
<1> QED BY <1>2, <1>3, <1>4

LEMMA QuietSteps ==
    ASSUME IInv, Quiet
    PROVE  StackInv' /\ Supplied' /\ OneClient'
<1>1. /\ stack # <<>> /\ Top.fn \notin {"activate", "deactivate", "resolve_conflicts"}
      /\ UNCHANGED state
  BY DEF Quiet, DeactivateEach, ExportDriver, UpdateStart, UpdateResource, AwaitStart, AwaitCheck,
         AwaitExpired, AwaitDone, AwaitReturn, AwaitPoll, At
<1>2. FrameOK(Top) /\ \A i \in 1..Len(stack) - 1 : Above(stack[i], Top, lost)
  BY <1>1, Tops
\* The loops over all drivers are called from outside: no activation is below.
<1>4. CASE DeactivateEach
  <2>1. Top.fn = "deactivate_each" /\ Top.todo \in Seq(Objects) /\ UNCHANGED lost
    BY <1>2, <1>4 DEF DeactivateEach, At, FrameOK
  <2>2. CASE Top.todo = <<>>
    BY <1>1, <1>4, <2>1, <2>2, QuietStep DEF DeactivateEach, Return
  <2>3. CASE Top.todo # <<>>
    <3>1. Head(Top.todo) \in Objects /\ Tail(Top.todo) \in Seq(Objects)
      BY <2>1, <2>3
    <3>2. PICK f : /\ FrameOK(f) /\ f.fn = Top.fn /\ f.x = Top.x
                   /\ Goto("start", Tail(Top.todo)) = Append(Below, f)
      BY <1>1, <2>1, <3>1, GotoFrame
    <3>3. stack' = Append(Append(Below, f), deactivate(Head(Top.todo)))
      BY <1>4, <2>3, <3>2 DEF DeactivateEach
    <3>4. \A i \in 1..Len(stack) - 1 : stack[i].fn # "activate"
      BY <1>2, <2>1 DEF Above
    <3> QED BY <1>1, <2>1, <3>1, <3>2, <3>3, <3>4, QuietStep
  <2> QED BY <2>2, <2>3
<1>5. CASE ExportDriver
  <2>1. Top.fn = "export" /\ Top.todo \in Seq(Objects) /\ UNCHANGED lost
    BY <1>2, <1>5 DEF ExportDriver, At, FrameOK
  <2>2. CASE Top.todo = <<>>
    BY <1>1, <1>5, <2>1, <2>2, QuietStep DEF ExportDriver, Return
  <2>3. CASE Top.todo # <<>>
    <3>1. Head(Top.todo) \in Objects /\ Tail(Top.todo) \in Seq(Objects)
      BY <2>1, <2>3
    <3>2. PICK f : /\ FrameOK(f) /\ f.fn = Top.fn /\ f.x = Top.x
                   /\ Goto("start", Tail(Top.todo)) = Append(Below, f)
      BY <1>1, <2>1, <3>1, GotoFrame
    <3>3. \/ stack' = Append(Below, f)
          \/ stack' = Append(Append(Below, f), deactivate(Head(Top.todo)))
      BY <1>5, <2>3, <3>2 DEF ExportDriver
    <3>4. \A i \in 1..Len(stack) - 1 : stack[i].fn # "activate"
      BY <1>2, <2>1 DEF Above
    <3> QED BY <1>1, <2>1, <3>1, <3>2, <3>3, <3>4, QuietStep
  <2> QED BY <2>2, <2>3
<1>6. CASE UpdateStart
  <2>1. Top.fn = "update_resources" /\ Top.todo \in Seq(Res) /\ UNCHANGED lost
    BY <1>2, <1>6 DEF UpdateStart, At, FrameOK
  <2>2. PICK f : /\ FrameOK(f) /\ f.fn = Top.fn /\ f.x = Top.x
                 /\ Goto("resources", Top.todo) = Append(Below, f)
    BY <1>1, <2>1, GotoFrame
  <2>3. stack' = Below \/ stack' = Append(Below, f)
    BY <1>6, <2>2 DEF UpdateStart, Return
  <2> QED BY <1>1, <2>1, <2>2, <2>3, QuietStep
\* A resource that is gone is to go down: whoever relies on it has lost it.
<1>7. CASE UpdateResource
  <2>1. Top.fn = "update_resources" /\ Top.todo \in Seq(Res)
    BY <1>2, <1>7 DEF UpdateResource, At, FrameOK
  <2>2. CASE Top.todo = <<>>
    BY <1>1, <1>7, <2>1, <2>2, QuietStep DEF UpdateResource, Return
  <2>3. CASE Top.todo # <<>>
    <3> DEFINE r == Head(Top.todo)
    <3>1. r \in Res /\ Tail(Top.todo) \in Seq(Res)
      BY <2>1, <2>3
    <3> HIDE DEF r
    <3>2. PICK f : /\ FrameOK(f) /\ f.fn = Top.fn /\ f.x = Top.x
                   /\ Goto("resources", Tail(Top.todo)) = Append(Below, f)
      BY <1>1, <2>1, <3>1, GotoFrame
    <3>3. \/ stack' = Append(Below, f) /\ UNCHANGED lost
          \/ /\ stack' = Append(Append(Below, f), deactivate(r))
             /\ lost' = lost \cup Undermined(r)
      BY <1>7, <2>3, <3>2 DEF UpdateResource, r
    <3>4. \A i \in 1..Len(stack) - 1 :
            stack[i].fn = "activate" /\ stack[i].x \notin Undermined(r) =>
                \A s \in Passed(stack[i]) : r \notin Needs[s]
      <4>1. \A i \in 1..Len(stack) - 1 : i \in 1..Len(stack)
        BY <1>1, Tops
      <4> QED BY <4>1 DEF Undermined, Passed
    <3>5. r \in Objects
      BY <3>1 DEF Objects
    <3>6. CASE stack' = Append(Below, f) /\ UNCHANGED lost
      BY <1>1, <2>1, <3>2, <3>6, QuietStep
    <3>7. CASE /\ stack' = Append(Append(Below, f), deactivate(r))
               /\ lost' = lost \cup Undermined(r)
      BY <1>1, <2>1, <3>2, <3>4, <3>5, <3>7, QuietStep
    <3> QED BY <3>3, <3>6, <3>7
  <2> QED BY <2>2, <2>3
<1>8. CASE AwaitStart \/ AwaitDone
  <2>1. Top.fn = "await_resources" /\ UNCHANGED lost
    BY <1>8 DEF AwaitStart, AwaitDone, At
  <2>2. PICK pc, todo : stack' = Append(Goto(pc, todo), update_resources)
    BY <1>8 DEF AwaitStart, AwaitDone
  <2>3. PICK f : FrameOK(f) /\ f.fn = Top.fn /\ f.x = Top.x /\ Goto(pc, todo) = Append(Below, f)
    BY <1>1, <2>1, GotoFrame
  <2> QED BY <1>1, <2>1, <2>2, <2>3, QuietStep
<1>9. CASE AwaitCheck \/ AwaitPoll
  <2>1. Top.fn = "await_resources" /\ UNCHANGED lost
    BY <1>9 DEF AwaitCheck, AwaitPoll, At
  <2>2. PICK todo : stack' = Below \/ stack' = Goto("poll", todo)
    BY <1>9 DEF AwaitCheck, AwaitPoll, Return
  <2>3. PICK f : FrameOK(f) /\ f.fn = Top.fn /\ f.x = Top.x /\ Goto("poll", todo) = Append(Below, f)
    BY <1>1, <2>1, GotoFrame
  <2> QED BY <1>1, <2>1, <2>2, <2>3, QuietStep
<1>10. CASE AwaitExpired \/ AwaitReturn
  <2>1. (stack' = <<>> \/ stack' = Below) /\ UNCHANGED lost
    BY <1>10 DEF AwaitExpired, AwaitReturn, Raise, Return
  <2> QED BY <1>1, <2>1, QuietStep
<1> QED BY <1>4, <1>5, <1>6, <1>7, <1>8, <1>9, <1>10 DEF Quiet

-----------------------------------------------------------------------------
\* Below an activation there are only activations, which need what it is about.
LEMMA Activations ==
    ASSUME IInv, stack # <<>>, Top.fn = "activate"
    PROVE  /\ Top.x \in Objects
           /\ \A i \in 1..Len(stack) - 1 :
                /\ stack[i].fn = "activate" /\ stack[i].pc = "resolve" /\ stack[i].x \in Objects
                /\ stack[i].client \in SuppliersOf(stack[i].x)
                /\ Top.x \in Needs[stack[i].client]
                /\ Needs[Top.x] \subseteq Needs[stack[i].x] /\ Top.x \in Needs[stack[i].x]
                /\ Top.x # stack[i].x /\ state[stack[i].x] = "bound"
           /\ \A i \in 1..Len(stack) : \A k \in Consoles \cap Passed(stack[i]) :
                \A c \in Clients(k) \ {stack[i].x} : state[c] = "bound"
<1>1. /\ IsSeq(stack) /\ Len(stack) \in Nat \ {0} /\ Top = stack[Len(stack)]
      /\ CoreOf(stack, state, lost) /\ AloneIn(stack, state) /\ FrameOK(Top)
      /\ \A i \in 1..Len(stack) - 1 :
           FrameOK(stack[i]) /\ Underway(stack[i], state, lost) /\ Above(stack[i], Top, lost)
  BY Tops
<1>2. Top.x \in Objects
  BY <1>1 DEF FrameOK
<1>3. ASSUME NEW i \in 1..Len(stack) - 1
      PROVE  /\ stack[i].fn = "activate" /\ stack[i].pc = "resolve" /\ stack[i].x \in Objects
             /\ stack[i].client \in SuppliersOf(stack[i].x)
             /\ Top.x \in Needs[stack[i].client]
             /\ Needs[Top.x] \subseteq Needs[stack[i].x] /\ Top.x \in Needs[stack[i].x]
             /\ Top.x # stack[i].x /\ state[stack[i].x] = "bound"
  <2>1. stack[i].fn = "activate" /\ stack[i].pc = "resolve" /\ Top.x \in Needs[stack[i].client]
    BY <1>1, <1>3 DEF Above
  <2>2. stack[i].x \in Objects /\ stack[i].client \in SuppliersOf(stack[i].x)
    BY <1>1, <1>3, <2>1 DEF FrameOK
  <2>3. state[stack[i].x] = "bound"
    BY <1>1, <1>3, <2>1 DEF Underway
  <2>4. stack[i].client \in Needs[stack[i].x]
    BY <2>2, NeedsFacts
  <2>5. Top.x \in Needs[stack[i].x]
    BY <2>1, <2>2, <2>4, NeedsFacts
  <2>6. Needs[Top.x] \subseteq Needs[stack[i].x]
    BY <2>2, <2>5, NeedsFacts
  <2>7. Top.x # stack[i].x
    BY <2>1, <2>2, NoCycle
  <2> QED BY <2>1, <2>2, <2>3, <2>5, <2>6, <2>7
<1>4. \A i \in 1..Len(stack) - 1 : stack[i + 1].fn # "resolve_conflicts"
  BY <1>1, NotResolving
<1>5. \A i \in 1..Len(stack) : stack[i].fn = "activate" /\ (i < Len(stack) => i \in 1..Len(stack) - 1)
  BY <1>1, <1>3
<1>6. \A i \in 1..Len(stack) : \A k \in Consoles \cap Passed(stack[i]) :
         \A c \in Clients(k) \ {stack[i].x} : state[c] = "bound"
  BY <1>1, <1>4, <1>5 DEF AloneIn, Resolving
<1> QED BY <1>2, <1>3, <1>6

\* An activation goes on, with a call perhaps.
LEMMA ActivationGoesOn ==
    ASSUME IInv, stack # <<>>, Top.fn = "activate", UNCHANGED <<state, lost>>,
           NEW f, FrameOK(f), Underway(f, state, lost), f.fn = Top.fn, f.x = Top.x,
           \/ /\ stack' = Append(Below, f)
              /\ BackAt(f, state)
              /\ \A k \in Consoles \cap Passed(f) : \A c \in Clients(k) \ {f.x} : state[c] = "bound"
           \/ \E g :
              /\ stack' = Append(Append(Below, f), g)
              /\ FrameOK(g) /\ g.pc = "start" /\ Calls(f, g) /\ Above(f, g, lost)
              /\ \A i \in 1..Len(stack) - 1 : Above(stack[i], g, lost)
              /\ \A k \in Consoles \cap Passed(f) : \A c \in Clients(k) \ {f.x} :
                    state[c] = "bound" \/ (g.fn = "resolve_conflicts" /\ g.x = k /\ c \in g.todo)
    PROVE  StackInv' /\ Supplied' /\ OneClient'
<1> DEFINE n == Len(stack)
           s == Append(Below, f)
<1>0. Supplied' /\ OneClient'
  BY DEF IInv, Supplied, OneClient
<1>1. /\ IsSeq(stack) /\ n \in Nat \ {0} /\ CoreOf(stack, state, lost)
      /\ \A i \in 1..n - 1 : Above(stack[i], Top, lost)
  BY Tops
<1>2. \A i \in 1..n - 1 : Above(stack[i], f, lost)
  BY <1>1 DEF Above
<1>3. /\ CoreOf(s, state, lost) /\ IsSeq(s) /\ Len(s) = n /\ s[n] = f
      /\ \A i \in 1..n - 1 : s[i] = stack[i]
  BY <1>1, <1>2, PlaceCore, ReplaceFacts
<1> HIDE DEF s
<1>4. \A i \in 1..n - 1 : \A k \in Consoles \cap Passed(stack[i]) :
         \A c \in Clients(k) \ {stack[i].x} : state[c] = "bound"
  <2>1. \A i \in 1..n - 1 : i \in 1..n
    BY <1>1
  <2> QED BY <2>1, Activations
<1> HIDE DEF n
<1>5. CASE /\ stack' = s
           /\ BackAt(f, state)
           /\ \A k \in Consoles \cap Passed(f) : \A c \in Clients(k) \ {f.x} : state[c] = "bound"
  <2>1. AloneIn(stack', state')
    <3>1. \A i \in 1..n : i = n \/ i \in 1..n - 1
      BY <1>1
    <3> QED BY <1>1, <1>3, <1>4, <1>5, <3>1 DEF AloneIn
  <2>2. BackAt(stack'[Len(stack')], state')
    BY <1>3, <1>5
  <2> QED BY <1>0, <1>3, <1>5, <2>1, <2>2 DEF StackInv, Top
<1>6. ASSUME NEW g, stack' = Append(s, g),
             FrameOK(g), g.pc = "start", Calls(f, g), Above(f, g, lost),
             \A i \in 1..n - 1 : Above(stack[i], g, lost),
             \A k \in Consoles \cap Passed(f) : \A c \in Clients(k) \ {f.x} :
                    state[c] = "bound" \/ (g.fn = "resolve_conflicts" /\ g.x = k /\ c \in g.todo)
      PROVE  StackInv'
  <2>1. \A i \in 1..n : Above(s[i], g, lost)
    BY <1>1, <1>3, <1>6
  <2>2. Underway(g, state, lost)
    BY <1>6 DEF Underway
  <2>3. CoreOf(stack', state', lost')
    BY <1>1, <1>3, <1>6, <2>1, <2>2, PushCore
  <2>4. Len(stack') = n + 1 /\ stack'[n + 1] = g /\ \A i \in 1..n : stack'[i] = s[i]
    BY <1>3, <1>6, AppendFacts
  <2>5. AloneIn(stack', state')
    <3>1. \A i \in 1..n + 1 : i = n + 1 \/ i = n \/ i \in 1..n - 1
      BY <1>1
    <3>2. g.fn = "activate" => Passed(g) = {}
      BY <1>6 DEF FrameOK, Passed
    <3>3. \A i \in 1..n - 1 : stack'[i] = stack[i]
      BY <1>1, <1>3, <2>4
    <3>4. stack'[n] = f
      BY <1>1, <1>3, <2>4
    <3>5. ASSUME NEW i \in 1..n + 1, stack'[i].fn = "activate",
                 NEW k \in Consoles \cap Passed(stack'[i]), NEW c \in Clients(k) \ {stack'[i].x}
          PROVE  state[c] = "bound" \/ Resolving(stack', i, k, c)
      <4>1. CASE i = n + 1
        BY <2>4, <3>2, <3>5, <4>1
      <4>2. CASE i = n
        BY <1>1, <1>6, <2>4, <3>4, <3>5, <4>2 DEF Resolving
      <4>3. CASE i \in 1..n - 1
        BY <1>4, <3>3, <3>5, <4>3
      <4> QED BY <3>1, <4>1, <4>2, <4>3
    <3> QED BY <2>4, <3>5 DEF AloneIn, Clients
  <2>6. BackAt(stack'[Len(stack')], state')
    BY <1>6, <2>4 DEF BackAt
  <2> QED BY <2>3, <2>5, <2>6 DEF StackInv, Top
<1> QED BY <1>0, <1>5, <1>6 DEF s, n

\* The call itself returns: what it was about is active.
LEMMA ActivationReturns ==
    ASSUME IInv, stack # <<>>, Top.fn = "activate", stack' = Below, UNCHANGED lost,
           state'[Top.x] = "active", \A y \in Objects : y # Top.x => state'[y] = state[y], NoRivals
    PROVE  StackInv'
<1> DEFINE n == Len(stack)
<1>1. /\ IsSeq(stack) /\ n \in Nat \ {0} /\ CoreOf(stack, state, lost) /\ Top = stack[n]
      /\ IsSeq(Below) /\ Len(Below) = n - 1 /\ \A i \in 1..n - 1 : Below[i] = stack[i] /\ i \in 1..n
  BY Tops, BelowFacts
<1>3. /\ Top.x \in Objects
      /\ \A y \in Objects : state[y] = "active" => state'[y] = "active"
  BY Activations
<1>4. \A i \in 1..n - 1 :
        /\ stack[i].fn = "activate" /\ stack[i].pc = "resolve" /\ stack[i].x \in Objects
        /\ stack[i].client \in SuppliersOf(stack[i].x)
        /\ Top.x \in Needs[stack[i].x]
        /\ Top.x # stack[i].x /\ state[stack[i].x] = "bound"
        /\ \A k \in Consoles \cap Passed(stack[i]) :
                \A c \in Clients(k) \ {stack[i].x} : state[c] = "bound"
  BY <1>1, Activations
<1>5. CoreOf(Below, state', lost')
  <2>1. CoreOf(Below, state, lost)
    BY <1>1, PopCore
  <2>2. \A i \in 1..n - 1 : Passed(stack[i]) \subseteq Objects
    BY <1>4, SuppliersKnown DEF Passed
  <2>3. ASSUME NEW i \in 1..Len(Below)
        PROVE  /\ state'[Below[i].x] = "bound"
               /\ Below[i].x \in lost => Below[i].x \in lost'
               /\ \A p \in Passed(Below[i]) :
                    state[p] = "active" => state'[p] = "active" \/ Below[i].x \in lost'
    BY <1>1, <1>3, <1>4, <2>2, <2>3
  <2> QED BY <2>1, <2>3, ShiftCore
\* Another client of a console that is passed below would be a rival.
<1>6. AloneIn(Below, state')
  <2>1. ASSUME NEW i \in 1..n - 1, NEW k \in Consoles \cap Passed(stack[i]),
               NEW c \in Clients(k) \ {stack[i].x}
        PROVE  state'[c] = "bound"
    <3>1. k \in SuppliersOf(stack[i].x)
      BY <2>1 DEF Passed
    <3>2. stack[i].x \in Clients(k) /\ stack[i].x \in Needs[stack[i].x]
      BY <1>4, <2>1, <3>1, SuppliersKnown, NeedsFacts
    <3>3. c # Top.x /\ c \in Objects
      BY <1>4, <2>1, <3>2 DEF NoRivals, Clients, Objects
    <3> QED BY <1>3, <1>4, <2>1, <3>3
  <2> QED BY <1>1, <2>1 DEF AloneIn
<1>7. stack' # <<>> => BackAt(stack'[Len(stack')], state')
  <2>1. SUFFICES ASSUME stack' # <<>> PROVE BackAt(stack'[Len(stack')], state')
    OBVIOUS
  <2>2. n - 1 # 0
    <3>1. PICK S : stack' \in Seq(S)
      BY <1>1 DEF IsSeq
    <3> QED BY <1>1, <2>1, <3>1
  <2>3. n - 1 \in 1..n - 1 /\ (n - 1) + 1 = n
    BY <1>1, <2>2
  <2>4. Calls(stack[n - 1], stack[(n - 1) + 1])
    BY <2>3, <1>1 DEF CoreOf
  <2>5. Calls(stack[n - 1], Top) /\ stack'[Len(stack')] = stack[n - 1]
    BY <1>1, <2>3, <2>4
  <2> QED BY <2>5 DEF Calls, BackAt
<1> QED BY <1>5, <1>6, <1>7 DEF StackInv, Top

LEMMA ActivateSteps ==
    ASSUME IInv, NoRivals,
           ActivateStart \/ ActivateResolve \/ OnActivate \/ \E s \in Objects : ActivateSupplier(s)
    PROVE  StackInv' /\ Supplied' /\ OneClient'
<1>1. stack # <<>> /\ Top.fn = "activate" /\ UNCHANGED lost
  BY DEF ActivateStart, ActivateResolve, OnActivate, ActivateSupplier, At
<1>2. /\ IsFrame(Top) /\ FrameOK(Top) /\ Underway(Top, state, lost) /\ BackAt(Top, state)
      /\ StateOK /\ Len(stack) \in Nat \ {0} /\ Top = stack[Len(stack)]
      /\ Supplied /\ OneClient
  BY <1>1, Tops DEF IInv, Typed
<1>3. /\ Top.x \in Objects
      /\ \A i \in 1..Len(stack) - 1 :
           /\ stack[i].fn = "activate" /\ stack[i].pc = "resolve" /\ stack[i].x \in Objects
           /\ stack[i].client \in SuppliersOf(stack[i].x)
           /\ Top.x \in Needs[stack[i].client] /\ Top.x \in Needs[stack[i].x]
      /\ \A k \in Consoles \cap Passed(Top) : \A c \in Clients(k) \ {Top.x} : state[c] = "bound"
  <2>1. Len(stack) \in 1..Len(stack)
    BY <1>2
  <2> QED BY <1>1, <1>2, <2>1, Activations
\* The resources first, unless there is nothing to do.
<1>4. CASE ActivateStart
  <2>1. Top.pc = "start" /\ Top.todo = SuppliersOf(Top.x) /\ UNCHANGED state
    BY <1>1, <1>2, <1>4 DEF ActivateStart, At, FrameOK
  <2>2. CASE state[Top.x] = "active"
    <3>1. stack' = Below
      BY <1>4, <2>2 DEF ActivateStart, Return
    <3>2. StackInv'
      BY <1>1, <2>1, <2>2, <3>1, ActivationReturns
    <3> QED BY <1>1, <1>2, <2>1, <3>2 DEF Supplied, OneClient
  <2>3. CASE state[Top.x] # "active"
    <3> DEFINE f == [Top EXCEPT !.pc = "suppliers", !.todo = Top.todo]
               g == await_resources(SuppliersOf(Top.x) \cap Res)
    <3>1. stack' = Append(Append(Below, f), g)
      BY <1>4, <2>3 DEF ActivateStart, Goto
    <3>2. /\ f.fn = Top.fn /\ f.x = Top.x /\ f.pc = "suppliers" /\ f.todo = Top.todo
          /\ f.client = Top.client
      BY <1>2 DEF IsFrame
    <3>3. g.fn = "await_resources" /\ g.pc = "start" /\ g.x = NoOne /\ g.client = NoOne
      BY DEF await_resources, Frame
    <3> HIDE DEF f, g
    <3>4. Passed(f) = {} /\ state[f.x] = "bound"
      BY <1>2, <1>3, <2>1, <2>3, <3>2 DEF Passed, StateOK
    <3>5. FrameOK(f) /\ Underway(f, state, lost)
      BY <1>1, <1>2, <3>2, <3>4 DEF FrameOK, Underway
    <3>6. FrameOK(g) /\ Calls(f, g) /\ Above(f, g, lost)
      BY <1>1, <3>2, <3>3 DEF FrameOK, Calls, Above
    <3>7. \A i \in 1..Len(stack) - 1 : Above(stack[i], g, lost)
      BY <1>3, <3>3 DEF Above
    <3> QED BY <1>1, <2>1, <3>1, <3>2, <3>3, <3>4, <3>5, <3>6, <3>7, ActivationGoesOn
  <2> QED BY <2>2, <2>3
\* The next supplier is activated, if it is not active.
<1>5. ASSUME NEW s \in Objects, ActivateSupplier(s)
      PROVE  StackInv' /\ Supplied' /\ OneClient'
  <2> DEFINE f == [Top EXCEPT !.pc = "resolve", !.client = s]
             g == activate(s)
  <2>1. s \in Top.todo /\ Top.pc = "suppliers" /\ UNCHANGED state
    BY <1>5 DEF ActivateSupplier, At
  <2>2. \/ stack' = Append(Below, f) /\ state[s] = "active"
        \/ stack' = Append(Append(Below, f), g)
    BY <1>5 DEF ActivateSupplier
  <2>3. /\ f.fn = Top.fn /\ f.x = Top.x /\ f.pc = "resolve" /\ f.todo = Top.todo /\ f.client = s
    BY <1>2 DEF IsFrame
  <2>4. /\ g.fn = "activate" /\ g.pc = "start" /\ g.x = s /\ g.client = NoOne
        /\ g.todo = SuppliersOf(s)
    BY DEF activate, Frame
  <2> HIDE DEF f, g
  <2>5. FrameOK(f) /\ Underway(f, state, lost) /\ Passed(f) = Passed(Top)
    BY <1>1, <1>2, <2>1, <2>3 DEF FrameOK, Underway, Passed
  <2>6. s \in SuppliersOf(Top.x)
    BY <1>1, <1>2, <2>1 DEF FrameOK
  <2>7. FrameOK(g) /\ Calls(f, g)
    BY <1>1, <2>3, <2>4 DEF FrameOK, Calls
  <2>8. Above(f, g, lost)
    BY <1>1, <2>3, <2>4, NeedsFacts DEF Above
  <2>9. ASSUME NEW i \in 1..Len(stack) - 1 PROVE Above(stack[i], g, lost)
    <3>1. stack[i].client \in Objects
      BY <1>3, <2>9, SuppliersKnown
    <3>2. s \in Needs[stack[i].client]
      BY <1>3, <2>6, <2>9, <3>1, NeedsFacts
    <3> QED BY <1>3, <2>4, <2>9, <3>2 DEF Above
  <2>10. CASE stack' = Append(Below, f) /\ state[s] = "active"
    <3>1. BackAt(f, state)
      BY <2>3, <2>10 DEF BackAt
    <3> QED BY <1>1, <1>3, <2>1, <2>3, <2>5, <2>10, <3>1, ActivationGoesOn
  <2>11. CASE stack' = Append(Append(Below, f), g)
    BY <1>1, <1>3, <2>1, <2>3, <2>4, <2>5, <2>7, <2>8, <2>9, <2>11, ActivationGoesOn
  <2> QED BY <2>2, <2>10, <2>11
\* The supplier is active; a console resolves conflicts.
<1>6. CASE ActivateResolve
  <2> DEFINE s == Top.client
             f == [Top EXCEPT !.pc = "suppliers", !.client = NoOne, !.todo = @ \ {s}]
             g == resolve_conflicts(s, Top.x)
  <2>1. Top.pc = "resolve" /\ s \in Top.todo /\ state[s] = "active" /\ UNCHANGED state
    BY <1>1, <1>2, <1>6 DEF ActivateResolve, At, FrameOK, BackAt
  <2>2. \/ stack' = Append(Below, f) /\ s \notin Consoles
        \/ stack' = Append(Append(Below, f), g) /\ s \in Consoles
    BY <1>6 DEF ActivateResolve
  <2>3. /\ f.fn = Top.fn /\ f.x = Top.x /\ f.pc = "suppliers" /\ f.todo = Top.todo \ {s}
        /\ f.client = NoOne
    BY <1>2 DEF IsFrame
  <2>4. /\ g.fn = "resolve_conflicts" /\ g.pc = "start" /\ g.x = s /\ g.client = Top.x
        /\ g.todo = Clients(s) \ {Top.x}
    BY DEF resolve_conflicts, Frame
  <2> HIDE DEF f, g
  <2>5. s \in SuppliersOf(Top.x) /\ s \in Objects /\ Top.x \in Clients(s)
    BY <1>1, <1>2, <1>3, <2>1, SuppliersKnown DEF FrameOK
  <2> HIDE DEF s
  <2>6. Passed(f) = Passed(Top) \cup {s}
    BY <2>3, <2>5 DEF Passed
  <2>7. FrameOK(f)
    BY <1>1, <1>2, <2>3 DEF FrameOK
  <2>8. Underway(f, state, lost)
    BY <1>1, <1>2, <2>1, <2>3, <2>6 DEF Underway
  <2>9. CASE stack' = Append(Below, f) /\ s \notin Consoles
    <3>1. BackAt(f, state)
      BY <2>3 DEF BackAt
    <3> QED BY <1>1, <1>3, <2>1, <2>3, <2>6, <2>7, <2>8, <2>9, <3>1, ActivationGoesOn
  <2>10. CASE stack' = Append(Append(Below, f), g) /\ s \in Consoles
    <3>1. FrameOK(g) /\ Calls(f, g)
      BY <1>3, <2>3, <2>4, <2>5, <2>10 DEF FrameOK, Calls
    <3>2. Above(f, g, lost)
      BY <1>1, <1>3, <2>3, <2>4, NeedsFacts DEF Above
    <3>3. \A i \in 1..Len(stack) - 1 : Above(stack[i], g, lost)
      BY <1>3, <2>4 DEF Above
    <3>4. \A k \in Consoles \cap Passed(f) : \A c \in Clients(k) \ {f.x} :
            state[c] = "bound" \/ (g.fn = "resolve_conflicts" /\ g.x = k /\ c \in g.todo)
      BY <1>3, <2>3, <2>4, <2>6
    <3> QED BY <1>1, <2>1, <2>3, <2>4, <2>7, <2>8, <2>10, <3>1, <3>2, <3>3, <3>4, ActivationGoesOn
  <2> QED BY <2>2, <2>9, <2>10
\* All suppliers are passed: on_activate succeeds, or raises.
<1>7. CASE OnActivate
  <2>1. Top.pc = "suppliers" /\ Top.todo = {} /\ Passed(Top) = SuppliersOf(Top.x)
    BY <1>7 DEF OnActivate, At, Passed
  <2>2. CASE state' = [state EXCEPT ![Top.x] = "active"] /\ Return
    <3>2. /\ state'[Top.x] = "active" /\ \A y \in Objects : y # Top.x => state'[y] = state[y]
          /\ \A y \in Objects : state[y] = "active" => state'[y] = "active"
      BY <1>2, <1>3, <2>2 DEF StateOK
    <3>1. StackInv'
      BY <1>1, <2>2, <3>2, ActivationReturns DEF Return
    <3>3. Supplied'
      <4>1. ASSUME NEW d \in Drv \ lost, state'[d] = "active", NEW s \in Suppliers[d]
            PROVE  state'[s] = "active"
        <5>1. s \in SuppliersOf(d) /\ d \in Objects
          BY <4>1 DEF SuppliersOf, Objects
        <5>2. s \in Objects
          BY <5>1, SuppliersKnown
        <5>3. CASE d = Top.x
          <6>1. state[s] = "active"
            BY <1>1, <1>2, <2>1, <4>1, <5>1, <5>3 DEF Underway
          <6> QED BY <3>2, <5>2, <6>1
        <5>4. CASE d # Top.x
          BY <1>2, <3>2, <4>1, <5>1, <5>2, <5>4 DEF Supplied
        <5> QED BY <5>3, <5>4
      <4> QED BY <1>1, <4>1 DEF Supplied
    <3>4. OneClient'
      <4>1. ASSUME NEW k \in Consoles, Top.x \in Clients(k), NEW c \in Clients(k), c # Top.x
            PROVE  state'[c] = "bound"
        <5>1. k \in SuppliersOf(Top.x) /\ c \in Objects
          BY <4>1 DEF Clients, SuppliersOf, Objects
        <5> QED BY <1>3, <2>1, <3>2, <4>1, <5>1
      <4>2. ASSUME NEW k \in Consoles, NEW c \in Clients(k), NEW d \in Clients(k),
                   state'[c] = "active", state'[d] = "active"
            PROVE  c = d
        <5>1. c \in Objects /\ d \in Objects
          BY DEF Clients, Objects
        <5> QED BY <1>2, <3>2, <4>1, <4>2, <5>1 DEF OneClient
      <4> QED BY <4>2 DEF OneClient, Clients
    <3> QED BY <3>1, <3>3, <3>4
  <2>3. CASE Raise /\ UNCHANGED state
    BY <1>1, <1>2, <2>3, RaiseInv DEF Raise, Supplied, OneClient
  <2> QED BY <1>7, <2>2, <2>3 DEF OnActivate
<1> QED BY <1>4, <1>5, <1>6, <1>7

-----------------------------------------------------------------------------
\* A console deactivates the other clients, which no activation below needs:
\* they would be rivals.
LEMMA ConflictSteps ==
    ASSUME IInv, NoRivals, ResolveConflicts
    PROVE  StackInv' /\ Supplied' /\ OneClient'
<1> DEFINE n == Len(stack)
<1>0. /\ stack # <<>> /\ Top.fn = "resolve_conflicts" /\ Top.pc = "start"
      /\ UNCHANGED <<state, lost>> /\ Supplied' /\ OneClient'
  BY DEF ResolveConflicts, At, IInv, Supplied, OneClient
<1>1. /\ IsSeq(stack) /\ n \in Nat \ {0} /\ Top = stack[n] /\ IsFrame(Top) /\ FrameOK(Top)
      /\ CoreOf(stack, state, lost) /\ AloneIn(stack, state)
      /\ \A i \in 1..n - 1 : FrameOK(stack[i]) /\ Above(stack[i], Top, lost) /\ i \in 1..n
  BY <1>0, Tops
<1>2. /\ Top.x \in Consoles /\ Top.client \in Clients(Top.x)
      /\ Top.todo \subseteq Clients(Top.x) \ {Top.client}
  BY <1>0, <1>1 DEF FrameOK
\* Only the topmost conflict is being resolved.
<1>3. ASSUME NEW i \in 1..n - 1, stack[i].fn = "activate",
             NEW k \in Consoles \cap Passed(stack[i]), NEW c \in Clients(k) \ {stack[i].x}
      PROVE  state[c] = "bound" \/ (i = n - 1 /\ Top.x = k /\ c \in Top.todo)
  <2>1. state[c] = "bound" \/ Resolving(stack, i, k, c)
    BY <1>1, <1>3 DEF AloneIn
  <2>2. i # n - 1 => stack[i + 1].fn # "resolve_conflicts"
    <3>1. i # n - 1 => i + 1 \in 1..n - 1
      BY <1>1
    <3> QED BY <1>0, <1>1, <3>1 DEF Above
  <2>3. CASE i = n - 1
    BY <1>1, <2>1, <2>3 DEF Resolving
  <2> QED BY <2>1, <2>2, <2>3 DEF Resolving
<1> HIDE DEF n
<1>4. CASE Top.todo = {}
  <2>1. stack' = Below
    BY <1>4 DEF ResolveConflicts, Return
  <2>2. IsSeq(stack') /\ Len(stack') = n - 1 /\ \A i \in 1..n - 1 : stack'[i] = stack[i]
    BY <1>0, <1>1, <2>1, BelowFacts DEF n
  <2>3. CoreOf(stack', state', lost')
    BY <1>0, <1>1, <2>1, PopCore
  <2>4. AloneIn(stack', state')
    BY <1>0, <1>3, <1>4, <2>2 DEF AloneIn
  <2>5. stack' # <<>> => BackAt(stack'[Len(stack')], state')
    <3>1. SUFFICES ASSUME stack' # <<>> PROVE BackAt(stack'[Len(stack')], state')
      OBVIOUS
    <3>2. n - 1 # 0
      <4>1. PICK S : stack' \in Seq(S)
        BY <2>2 DEF IsSeq
      <4> QED BY <2>2, <3>1, <4>1
    <3>3. n - 1 \in 1..n - 1 /\ (n - 1) + 1 = n
      BY <1>1, <3>2
    <3>4. Calls(stack[n - 1], Top)
      BY <1>1, <3>3 DEF CoreOf, n
    <3> QED BY <1>0, <2>2, <3>3, <3>4 DEF Calls, BackAt
  <2> QED BY <1>0, <2>3, <2>4, <2>5 DEF StackInv, Top
<1>5. CASE Top.todo # {}
  <2>1. PICK other \in Top.todo : stack' = Append(Goto("start", Top.todo \ {other}), deactivate(other))
    BY <1>5 DEF ResolveConflicts
  <2> DEFINE f == [Top EXCEPT !.pc = "start", !.todo = Top.todo \ {other}]
             g == deactivate(other)
             s == Append(Below, f)
  <2>2. stack' = Append(s, g)
    BY <2>1 DEF Goto
  <2>3. /\ f.fn = Top.fn /\ f.x = Top.x /\ f.pc = "start" /\ f.todo = Top.todo \ {other}
        /\ f.client = Top.client
    BY <1>1 DEF IsFrame
  <2>4. g.fn = "deactivate" /\ g.pc = "start" /\ g.x = other /\ g.client = NoOne /\ g.todo = Clients(other)
    BY DEF deactivate, Frame
  <2> HIDE DEF f, g
  <2>5. other \in Clients(Top.x) /\ other # Top.client /\ other \in Objects
    BY <1>2 DEF Clients, Objects
  <2>6. FrameOK(f) /\ FrameOK(g) /\ Underway(f, state, lost) /\ Underway(g, state, lost)
    BY <1>0, <1>1, <1>2, <2>3, <2>4, <2>5 DEF FrameOK, Underway
  <2>7. \A i \in 1..n - 1 : Above(stack[i], f, lost)
    BY <1>0, <1>1, <2>3 DEF Above
  <2>8. /\ CoreOf(s, state, lost) /\ IsSeq(s) /\ Len(s) = n /\ s[n] = f
        /\ \A i \in 1..n - 1 : s[i] = stack[i]
    BY <1>0, <1>1, <2>3, <2>6, <2>7, PlaceCore, ReplaceFacts DEF n
  <2> HIDE DEF s
  <2>9. ASSUME NEW i \in 1..n - 1 PROVE Above(stack[i], g, lost)
    <3>1. ASSUME stack[i].fn = "activate", NEW p \in Passed(stack[i]), other \in Needs[p]
          PROVE  FALSE
      <4>1. stack[i].x \in Objects /\ Top.client \in Needs[stack[i].x]
        BY <1>0, <1>1, <2>9, <3>1 DEF FrameOK, Above
      <4>2. p \in SuppliersOf(stack[i].x)
        BY <3>1 DEF Passed
      <4>3. p \in Needs[stack[i].x]
        BY <4>1, <4>2, NeedsFacts
      <4>4. other \in Needs[stack[i].x]
        BY <3>1, <4>1, <4>3, NeedsFacts
      <4> QED BY <1>2, <2>5, <4>1, <4>4 DEF NoRivals
    <3> QED BY <2>4, <3>1 DEF Above
  <2>10. Above(f, g, lost) /\ Calls(f, g)
    BY <1>0, <2>3, <2>4 DEF Above, Calls
  <2>11. \A i \in 1..n : Above(s[i], g, lost)
    <3>1. \A i \in 1..n : i = n \/ i \in 1..n - 1
      BY <1>1
    <3> QED BY <2>8, <2>9, <2>10, <3>1
  <2>12. CoreOf(stack', state', lost')
    BY <1>0, <1>1, <2>2, <2>6, <2>8, <2>10, <2>11, PushCore
  <2>13. Len(stack') = n + 1 /\ stack'[n + 1] = g /\ \A i \in 1..n : stack'[i] = s[i]
    BY <2>2, <2>8, AppendFacts
  <2>14. AloneIn(stack', state')
    <3>1. \A i \in 1..n + 1 : i = n + 1 \/ i = n \/ i \in 1..n - 1
      BY <1>1
    <3>2. \A i \in 1..n - 1 : stack'[i] = stack[i]
      BY <1>1, <2>8, <2>13
    <3>3. stack'[n] = f /\ f.fn # "activate" /\ g.fn # "activate"
      BY <1>0, <1>1, <2>3, <2>4, <2>8, <2>13
    <3>4. ASSUME NEW i \in 1..n - 1, stack[i].fn = "activate",
                 NEW k \in Consoles \cap Passed(stack[i]), NEW c \in Clients(k) \ {stack[i].x}
          PROVE  state[c] = "bound" \/ Resolving(stack', i, k, c)
      <4>1. CASE state[c] = "bound"
        BY <4>1
      <4>2. CASE i = n - 1 /\ Top.x = k /\ c \in Top.todo
        <5>1. i + 1 = n /\ i + 2 = n + 1 /\ n < n + 1 /\ i < n + 1
          BY <1>1, <4>2
        <5>2. c \in f.todo \/ g.x = c
          BY <2>3, <2>4, <4>2
        <5> QED BY <1>0, <2>3, <2>13, <3>3, <4>2, <5>1, <5>2 DEF Resolving
      <4> QED BY <1>3, <3>4, <4>1, <4>2
    <3> QED BY <1>0, <2>13, <3>1, <3>2, <3>3, <3>4 DEF AloneIn
  <2>15. BackAt(stack'[Len(stack')], state')
    BY <2>4, <2>13 DEF BackAt
  <2> QED BY <1>0, <2>12, <2>14, <2>15 DEF StackInv, Top
<1> QED BY <1>4, <1>5

-----------------------------------------------------------------------------
\* The clients on a console that is being resolved stay what they are: waiting,
\* going down, or down.
LEMMA StillAlone ==
    ASSUME IInv, stack # <<>>, Top.fn = "deactivate",
           Len(stack') \in {Len(stack) - 1, Len(stack), Len(stack) + 1},
           \A i \in 1..Len(stack) - 1 : stack'[i] = stack[i],
           \A i \in Len(stack)..Len(stack') : stack'[i].fn = "deactivate",
           Len(stack') >= Len(stack) => stack'[Len(stack)].x = Top.x,
           Len(stack') < Len(stack) => state'[Top.x] = "bound",
           \A y \in Objects : state[y] = "bound" => state'[y] = "bound"
    PROVE  AloneIn(stack', state')
<1> DEFINE n == Len(stack)
           m == Len(stack')
<1>1. n \in Nat \ {0} /\ Top = stack[n] /\ AloneIn(stack, state)
  BY Tops
<1>2. \A i \in 1..m : stack'[i].fn = "activate" => i \in 1..n - 1 /\ i \in 1..n /\ stack'[i] = stack[i]
  BY <1>1
<1>3. ASSUME NEW i \in 1..m, stack'[i].fn = "activate",
             NEW k \in Consoles \cap Passed(stack'[i]), NEW c \in Clients(k) \ {stack'[i].x}
      PROVE  state'[c] = "bound" \/ Resolving(stack', i, k, c)
  <2>1. i \in 1..n - 1 /\ i \in 1..n /\ stack'[i] = stack[i]
    BY <1>2, <1>3
  <2>2. state[c] = "bound" \/ Resolving(stack, i, k, c)
    BY <1>1, <1>3, <2>1 DEF AloneIn
  <2>3. CASE state[c] = "bound"
    BY <2>3 DEF Clients, Objects
  <2>4. CASE Resolving(stack, i, k, c)
    <3>1. stack[i + 1].fn = "resolve_conflicts" /\ stack[i + 1].x = k
      BY <2>4 DEF Resolving
    <3>2. i + 1 # n
      BY <1>1, <3>1
    <3>3. i + 1 \in 1..n - 1 /\ i < m /\ stack'[i + 1] = stack[i + 1]
      BY <1>1, <2>1, <3>2
    <3>4. CASE c \in stack[i + 1].todo
      BY <3>1, <3>3, <3>4 DEF Resolving
    <3>5. CASE stack[i + 2].x = c /\ i + 2 \in 1..n - 1
      <4>1. stack'[i + 2] = stack[i + 2]
        BY <3>5
      <4>2. m \in {n - 1, n, n + 1}
        OBVIOUS
      <4>3. i \in Nat /\ i + 2 =< n - 1
        BY <1>1, <2>1, <3>5
      <4> HIDE DEF m, n
      <4>4. i + 1 < m
        BY <1>1, <4>2, <4>3
      <4>5. stack'[i + 2] = stack[i + 2] /\ i + 1 < m
        BY <4>1, <4>4
      <4> USE DEF m, n
      <4>6. i < Len(stack') /\ stack'[i + 1].fn = "resolve_conflicts" /\ stack'[i + 1].x = k
        BY <1>1, <3>1, <3>3
      <4>7. i + 1 < Len(stack') /\ stack'[i + 2].x = c
        BY <1>1, <3>5, <4>5
      <4> QED BY <4>6, <4>7 DEF Resolving
    <3>6. CASE stack[i + 2].x = c /\ i + 2 = n
      <4>1. CASE m < n
        BY <1>1, <3>6, <4>1
      <4>2. CASE m >= n
        <5>1. stack'[i + 2].x = c /\ i + 1 < m
          BY <1>1, <3>6, <4>2
        <5> QED BY <3>1, <3>3, <5>1 DEF Resolving
      <4> QED BY <1>1, <4>1, <4>2
    <3> QED BY <1>1, <2>1, <2>4, <3>3, <3>4, <3>5, <3>6 DEF Resolving
  <2> QED BY <2>2, <2>3, <2>4
<1> QED BY <1>3 DEF AloneIn

\* A deactivation goes on, with the next client perhaps.
LEMMA DeactivationGoesOn ==
    ASSUME IInv, stack # <<>>, Top.fn = "deactivate", UNCHANGED <<state, lost>>,
           NEW f, FrameOK(f), f.fn = "deactivate", f.x = Top.x,
           \A i \in 1..Len(stack) - 1 : Above(stack[i], f, lost),
           \/ stack' = Append(Below, f)
           \/ \E c \in Drv : c \in Clients(Top.x) /\ stack' = Append(Append(Below, f), deactivate(c))
    PROVE  StackInv' /\ Supplied' /\ OneClient'
<1> DEFINE n == Len(stack)
           s == Append(Below, f)
<1>0. Supplied' /\ OneClient'
  BY DEF IInv, Supplied, OneClient
<1>1. /\ IsSeq(stack) /\ n \in Nat \ {0} /\ CoreOf(stack, state, lost)
      /\ \A i \in 1..n - 1 : FrameOK(stack[i]) /\ Above(stack[i], Top, lost)
  BY Tops
<1>2. Underway(f, state, lost) /\ BackAt(f, state)
  BY DEF Underway, BackAt
<1>3. /\ CoreOf(s, state, lost) /\ IsSeq(s) /\ Len(s) = n /\ s[n] = f
      /\ \A i \in 1..n - 1 : s[i] = stack[i]
  BY <1>1, <1>2, PlaceCore, ReplaceFacts
<1> HIDE DEF s, n
<1>4. CASE stack' = s
  <2>1. AloneIn(stack', state')
    <3>1. \A i \in n..n : i = n
      BY <1>1
    <3> QED BY <1>1, <1>3, <1>4, <3>1, StillAlone DEF n
  <2> QED BY <1>0, <1>2, <1>3, <1>4, <2>1 DEF StackInv, Top
<1>5. ASSUME NEW c \in Drv, c \in Clients(Top.x), stack' = Append(s, deactivate(c))
      PROVE  StackInv'
  <2> DEFINE g == deactivate(c)
  <2>1. g.fn = "deactivate" /\ g.pc = "start" /\ g.x = c /\ g.client = NoOne /\ g.todo = Clients(c)
    BY DEF deactivate, Frame
  <2> HIDE DEF g
  <2>2. c \in Objects /\ Top.x \in SuppliersOf(c)
    BY <1>5 DEF Objects, Clients, SuppliersOf
  <2>3. FrameOK(g) /\ Underway(g, state, lost) /\ Calls(f, g) /\ Above(f, g, lost)
    BY <2>1, <2>2 DEF FrameOK, Underway, Calls, Above
  <2>4. ASSUME NEW i \in 1..n - 1 PROVE Above(stack[i], g, lost)
    <3>1. ASSUME stack[i].fn = "activate", stack[i].x \notin lost,
                 NEW p \in Passed(stack[i]), c \in Needs[p]
          PROVE  FALSE
      <4>1. stack[i].x \in Objects /\ p \in SuppliersOf(stack[i].x)
        BY <1>1, <2>4, <3>1 DEF FrameOK, Passed
      <4>2. p \in Objects
        BY <4>1, SuppliersKnown
      <4>3. Top.x \in Needs[p]
        BY <2>2, <3>1, <4>2, NeedsFacts
      <4> QED BY <1>1, <2>4, <3>1, <4>3 DEF Above
    <3> QED BY <2>1, <3>1 DEF Above
  <2>5. \A i \in 1..n : Above(s[i], g, lost)
    <3>1. \A i \in 1..n : i = n \/ i \in 1..n - 1
      BY <1>1
    <3> QED BY <1>3, <2>3, <2>4, <3>1
  <2>6. CoreOf(stack', state', lost')
    BY <1>1, <1>3, <1>5, <2>3, <2>5, PushCore DEF g
  <2>7. Len(stack') = n + 1 /\ stack'[n + 1] = g /\ \A i \in 1..n : stack'[i] = s[i]
    BY <1>3, <1>5, AppendFacts DEF g
  <2>8. AloneIn(stack', state')
    <3>1. \A i \in n..n + 1 : i = n \/ i = n + 1
      BY <1>1
    <3>2. stack'[n] = f /\ \A i \in 1..n - 1 : stack'[i] = stack[i]
      BY <1>1, <1>3, <2>7
    <3> QED BY <1>1, <2>1, <2>7, <3>1, <3>2, StillAlone DEF n
  <2>9. BackAt(stack'[Len(stack')], state')
    BY <2>1, <2>7 DEF BackAt
  <2> QED BY <2>6, <2>8, <2>9 DEF StackInv, Top
<1> QED BY <1>0, <1>4, <1>5 DEF s

\* It returns, with its object down.
LEMMA DeactivationReturns ==
    ASSUME IInv, stack # <<>>, Top.fn = "deactivate", stack' = Below,
           \/ state[Top.x] = "bound" /\ lost' = lost
           \/ Top.pc = "clients" /\ lost' = lost \ {Top.x},
           state'[Top.x] = "bound", \A y \in Objects : y # Top.x => state'[y] = state[y]
    PROVE  StackInv'
<1> DEFINE n == Len(stack)
<1>1. /\ IsSeq(stack) /\ n \in Nat \ {0} /\ CoreOf(stack, state, lost) /\ Top = stack[n]
      /\ FrameOK(Top)
      /\ \A i \in 1..n - 1 :
            FrameOK(stack[i]) /\ Underway(stack[i], state, lost) /\ Above(stack[i], Top, lost)
      /\ IsSeq(Below) /\ Len(Below) = n - 1 /\ \A i \in 1..n - 1 : Below[i] = stack[i]
  BY Tops, BelowFacts
<1> HIDE DEF n
<1>2. Top.x \in Objects
  BY <1>1 DEF FrameOK
<1>3. CoreOf(Below, state', lost')
  <2>1. CoreOf(Below, state, lost)
    BY <1>1, PopCore
  <2>2. ASSUME NEW i \in 1..n - 1, stack[i].fn = "activate", stack[i].pc # "start"
        PROVE  /\ state'[stack[i].x] = "bound"
               /\ stack[i].x \in lost => stack[i].x \in lost'
               /\ \A p \in Passed(stack[i]) :
                    state[p] = "active" => state'[p] = "active" \/ stack[i].x \in lost'
    <3>1. stack[i].x \in Objects /\ state[stack[i].x] = "bound"
      BY <1>1, <2>2 DEF FrameOK, Underway
    <3>2. state'[stack[i].x] = "bound"
      BY <1>2, <3>1
    <3>3. stack[i].x \in lost => stack[i].x \in lost'
      BY <1>1, <2>2 DEF Above
    <3>4. ASSUME NEW p \in Passed(stack[i]), state[p] = "active", state'[p] # "active"
          PROVE  stack[i].x \in lost'
      <4>1. p \in Objects
        BY <3>1, SuppliersKnown DEF Passed
      <4>2. p = Top.x
        BY <3>4, <4>1
      <4>3. Top.x \in Needs[p]
        BY <4>1, <4>2, NeedsFacts
      <4> QED BY <1>1, <2>2, <3>3, <4>3 DEF Above
    <3> QED BY <3>2, <3>3, <3>4
  <2>3. \A i \in 1..Len(Below) : i \in 1..n - 1 /\ Below[i] = stack[i]
    BY <1>1
  <2> QED BY <2>1, <2>2, <2>3, ShiftCore
<1>4. AloneIn(stack', state')
  <2>1. Len(stack') = n - 1 /\ (\A i \in n..n - 1 : FALSE) /\ n - 1 < n /\ ~(n - 1 >= n)
    BY <1>1
  <2>2. \A y \in Objects : state[y] = "bound" => state'[y] = "bound"
    BY <1>2
  <2> QED BY <1>1, <2>1, <2>2, StillAlone DEF n
<1>5. stack' # <<>> => BackAt(stack'[Len(stack')], state')
  <2>1. SUFFICES ASSUME stack' # <<>> PROVE BackAt(stack'[Len(stack')], state')
    OBVIOUS
  <2>2. n - 1 # 0
    <3>1. PICK S : stack' \in Seq(S)
      BY <1>1 DEF IsSeq
    <3> QED BY <1>1, <2>1, <3>1
  <2>3. n - 1 \in 1..n - 1 /\ (n - 1) + 1 = n
    BY <1>1, <2>2
  <2>4. Calls(stack[n - 1], Top)
    BY <1>1, <2>3 DEF CoreOf, n
  <2> QED BY <1>1, <2>3, <2>4 DEF Calls, BackAt
<1> QED BY <1>3, <1>4, <1>5 DEF StackInv, Top

LEMMA DeactivationSteps ==
    ASSUME IInv, \/ DeactivateStart \/ OnDeactivate \/ \E cli \in Drv : DeactivateClient(cli)
    PROVE  StackInv' /\ Supplied' /\ OneClient'
<1>1. stack # <<>> /\ Top.fn = "deactivate"
  BY DEF DeactivateStart, OnDeactivate, DeactivateClient, At
<1>2. /\ IsFrame(Top) /\ FrameOK(Top) /\ StateOK /\ Supplied /\ OneClient
      /\ \A i \in 1..Len(stack) - 1 : Underway(stack[i], state, lost) /\ Above(stack[i], Top, lost)
  BY <1>1, Tops DEF IInv, Typed
<1>3. Top.x \in Objects /\ Top.todo \subseteq Clients(Top.x)
  BY <1>1, <1>2 DEF FrameOK
<1>4. CASE DeactivateStart
  <2>1. UNCHANGED <<state, lost>>
    BY <1>4 DEF DeactivateStart
  <2>2. CASE state[Top.x] = "bound"
    <3>1. StackInv'
      BY <1>1, <1>4, <2>1, <2>2, DeactivationReturns DEF DeactivateStart, Return
    <3> QED BY <1>2, <2>1, <3>1 DEF Supplied, OneClient
\* What is up is not what an activation below is about.
  <2>3. CASE state[Top.x] # "bound"
    <3> DEFINE f == [Top EXCEPT !.pc = "clients", !.todo = Top.todo]
    <3>1. stack' = Append(Below, f)
      BY <1>4, <2>3 DEF DeactivateStart, Goto
    <3>2. f.fn = Top.fn /\ f.x = Top.x /\ f.todo = Top.todo /\ f.client = Top.client
      BY <1>2 DEF IsFrame
    <3> HIDE DEF f
    <3>3. FrameOK(f)
      BY <1>1, <1>2, <3>2 DEF FrameOK
    <3>4. \A i \in 1..Len(stack) - 1 : Above(stack[i], f, lost)
      BY <1>1, <1>2, <2>3, <3>2 DEF Above, Underway
    <3> QED BY <1>1, <2>1, <3>1, <3>2, <3>3, <3>4, DeactivationGoesOn
  <2> QED BY <2>2, <2>3
<1>5. ASSUME NEW cli \in Drv, DeactivateClient(cli)
      PROVE  StackInv' /\ Supplied' /\ OneClient'
  <2> DEFINE f == [Top EXCEPT !.pc = "clients", !.todo = Top.todo \ {cli}]
  <2>1. /\ UNCHANGED <<state, lost>> /\ Top.pc = "clients" /\ cli \in Top.todo
        /\ stack' = Append(Append(Below, f), deactivate(cli))
    BY <1>5 DEF DeactivateClient, Goto, At
  <2>2. /\ f.fn = Top.fn /\ f.x = Top.x /\ f.todo = Top.todo \ {cli} /\ f.client = Top.client
        /\ f.pc = "clients"
    BY <1>2 DEF IsFrame
  <2> HIDE DEF f
  <2>3. FrameOK(f)
    BY <1>1, <1>2, <2>2 DEF FrameOK
  <2>4. \A i \in 1..Len(stack) - 1 : Above(stack[i], f, lost)
    BY <1>1, <1>2, <2>1, <2>2 DEF Above
  <2> QED BY <1>1, <1>3, <2>1, <2>2, <2>3, <2>4, DeactivationGoesOn
\* All its clients are down.
<1>6. CASE OnDeactivate
  <2>1. Top.pc = "clients"
    BY <1>6 DEF OnDeactivate, At
  <2>2. CASE state' = [state EXCEPT ![Top.x] = "bound"] /\ lost' = lost \ {Top.x} /\ Return
    <3>1. state'[Top.x] = "bound" /\ \A y \in Objects : y # Top.x => state'[y] = state[y]
      BY <1>2, <1>3, <2>2 DEF StateOK
    <3>2. StackInv'
      BY <1>1, <2>1, <2>2, <3>1, DeactivationReturns DEF Return
    <3>3. state[Top.x] = "active" => \A d \in Clients(Top.x) : state[d] = "bound"
      BY <1>3, <1>6, <3>1, DeactivateSteps DEF IInv
    <3>4. \A y \in Objects : state'[y] = "active" => state[y] = "active"
      BY <1>3, <3>1
    <3>5. Supplied'
      <4>1. ASSUME NEW d \in Drv \ lost', state'[d] = "active", NEW s \in Suppliers[d]
            PROVE  state'[s] = "active"
        <5>1. s \in SuppliersOf(d) /\ d \in Objects /\ d \in Clients(s)
          BY <4>1 DEF SuppliersOf, Objects, Clients
        <5>2. s \in Objects
          BY <5>1, SuppliersKnown
        <5>3. d # Top.x /\ state[d] = "active" /\ d \in Drv \ lost
          BY <2>2, <3>1, <3>4, <4>1, <5>1
        <5>4. state[s] = "active"
          BY <1>2, <4>1, <5>3 DEF Supplied
        <5>5. s # Top.x
          BY <3>3, <5>1, <5>3, <5>4
        <5> QED BY <3>1, <5>2, <5>4, <5>5
      <4> QED BY <4>1 DEF Supplied
    <3>6. OneClient'
      BY <1>2, <3>4 DEF OneClient, Clients, Objects
    <3> QED BY <3>2, <3>5, <3>6
  <2>3. CASE Raise /\ UNCHANGED <<state, lost>>
    BY <1>2, <2>3, RaiseInv DEF Raise, Supplied, OneClient
  <2> QED BY <1>6, <2>2, <2>3 DEF OnDeactivate
<1> QED BY <1>4, <1>5, <1>6

-----------------------------------------------------------------------------
LEMMA ReversedIsSeq ==
    ASSUME NEW S, NEW s \in Seq(S)
    PROVE  Reversed(s) \in Seq(S)
<1>1. Len(s) \in Nat /\ \A i \in 1..Len(s) : Len(s) + 1 - i \in 1..Len(s)
  OBVIOUS
<1>2. \A i \in 1..Len(s) : s[Len(s) + 1 - i] \in S
  BY <1>1
<1> QED BY <1>1, <1>2 DEF Reversed

\* A call from outside is the only one in progress.
LEMMA BeginInv ==
    ASSUME IInv, Call
    PROVE  StackInv' /\ Supplied' /\ OneClient'
<1>1. Resources \in Seq(Objects) /\ Drivers \in Seq(Objects) /\ Resources \o Drivers \in Seq(Objects)
  BY BindingOrder DEF Objects
<1>2. PICK g : /\ stack' = <<g>> /\ UNCHANGED <<state, lost>>
               /\ FrameOK(g) /\ g.pc = "start"
  <2>1. ASSUME NEW c \in Objects
        PROVE  /\ FrameOK(activate(c)) /\ activate(c).pc = "start"
               /\ FrameOK(deactivate(c)) /\ deactivate(c).pc = "start"
    BY <2>1 DEF FrameOK, activate, deactivate, Frame
  <2>2. ASSUME NEW r PROVE FrameOK(await_resources({r})) /\ await_resources({r}).pc = "start"
    BY DEF FrameOK, await_resources, Frame
  <2>3. /\ FrameOK(deactivate_each(Reversed(Resources \o Drivers)))
        /\ deactivate_each(Reversed(Resources \o Drivers)).pc = "start"
    BY <1>1, ReversedIsSeq DEF FrameOK, deactivate_each, Frame
  <2>4. FrameOK(export) /\ export.pc = "start"
    BY <1>1, ReversedIsSeq DEF FrameOK, export, Frame
  <2>5. PICK g : Begin(g) /\ FrameOK(g) /\ g.pc = "start"
    <3>1. CASE \E c \in Drv : CallActivate(c) \/ CallDeactivate(c)
      BY <2>1, <3>1 DEF CallActivate, CallDeactivate, Objects
    <3>2. CASE \E r \in Res : CallAwait(r) \/ CallDeactivate(r)
      BY <2>1, <2>2, <3>2 DEF CallAwait, CallDeactivate, Objects
    <3>3. CASE Cleanup
      BY <2>3, <3>3 DEF Cleanup
    <3>4. CASE Export
      BY <2>4, <3>4 DEF Export
    <3> QED BY <3>1, <3>2, <3>3, <3>4 DEF Call
  <2> QED BY <2>5 DEF Begin
<1>3. Len(stack') = 1 /\ stack'[1] = g /\ \A i \in 1..1 : i = 1
  BY <1>2
<1>4. Underway(g, state', lost') /\ BackAt(g, state') /\ (g.fn = "activate" => Passed(g) = {})
  BY <1>2 DEF Underway, BackAt, FrameOK, Passed
<1>5. CoreOf(stack', state', lost')
  BY <1>2, <1>3, <1>4 DEF CoreOf
<1>6. AloneIn(stack', state')
  BY <1>3, <1>4 DEF AloneIn
<1>7. Supplied' /\ OneClient'
  BY <1>2 DEF IInv, Supplied, OneClient
<1> QED BY <1>3, <1>4, <1>5, <1>6, <1>7 DEF StackInv, Top

LEMMA TypedStep ==
    ASSUME IInv, [Next]_vars, StateOK'
    PROVE  Typed'
<1>1. Typed
  BY DEF IInv
<1>2. result' \in {"none", "ok", "error"}
  BY <1>1 DEF Typed, Next, Step, vars, Call, CallActivate, CallDeactivate, CallAwait, Cleanup, Export,
       Begin, DeactivateEach, ExportDriver, ActivateStart, ActivateResolve, OnActivate,
       ResolveConflicts, ActivateSupplier, DeactivateStart, OnDeactivate, DeactivateClient,
       UpdateStart, UpdateResource, AwaitStart, AwaitCheck, AwaitExpired, AwaitDone, AwaitReturn,
       AwaitPoll, Age, Return, Raise
<1>3. avail' \in [Res -> BOOLEAN]
  BY <1>1 DEF Typed, Next, Step, vars, Call, CallActivate, CallDeactivate, CallAwait, Cleanup, Export,
       Begin, DeactivateEach, ExportDriver, ActivateStart, ActivateResolve, OnActivate,
       ResolveConflicts, ActivateSupplier, DeactivateStart, OnDeactivate, DeactivateClient,
       UpdateStart, UpdateResource, AwaitStart, AwaitCheck, AwaitExpired, AwaitDone, AwaitReturn,
       AwaitPoll, Age, Polled
<1>4. fresh' \in BOOLEAN
  BY <1>1 DEF Typed, Next, Step, vars, Call, CallActivate, CallDeactivate, CallAwait, Cleanup, Export,
       Begin, DeactivateEach, ExportDriver, ActivateStart, ActivateResolve, OnActivate,
       ResolveConflicts, ActivateSupplier, DeactivateStart, OnDeactivate, DeactivateClient,
       UpdateStart, UpdateResource, AwaitStart, AwaitCheck, AwaitExpired, AwaitDone, AwaitReturn,
       AwaitPoll, Age
<1>5. lost' \subseteq Drv
  <2>1. \A r : Undermined(r) \subseteq Drv
    BY DEF Undermined, SuppliersOf
  <2>2. CASE UpdateResource
    BY <1>1, <2>1, <2>2 DEF Typed, UpdateResource
  <2>3. CASE OnDeactivate
    BY <1>1, <2>3 DEF Typed, OnDeactivate
  <2>4. CASE UNCHANGED lost
    BY <1>1, <2>4 DEF Typed
  <2> QED BY <2>2, <2>3, <2>4
       DEF Next, Step, vars, Call, CallActivate, CallDeactivate, CallAwait, Cleanup, Export,
       Begin, DeactivateEach, ExportDriver, ActivateStart, ActivateResolve, OnActivate,
       ResolveConflicts, ActivateSupplier, DeactivateStart, DeactivateClient,
       UpdateStart, AwaitStart, AwaitCheck, AwaitExpired, AwaitDone, AwaitReturn,
       AwaitPoll, Age
<1> QED BY <1>2, <1>3, <1>4, <1>5 DEF Typed

LEMMA StepIInv ==
    ASSUME IInv, NoRivals, [Next]_vars
    PROVE  IInv'
<1>1. TearInv' /\ Typed'
  BY StepTear, TypedStep DEF IInv, TearInv
<1>2. StackInv' /\ Supplied' /\ OneClient'
  <2>1. CASE Call
    BY <2>1, BeginInv
  <2>2. CASE Quiet
    BY <2>2, QuietSteps
  <2>3. CASE ActivateStart \/ ActivateResolve \/ OnActivate \/ \E s \in Objects : ActivateSupplier(s)
    BY <2>3, ActivateSteps
  <2>4. CASE ResolveConflicts
    BY <2>4, ConflictSteps
  <2>5. CASE DeactivateStart \/ OnDeactivate \/ \E cli \in Drv : DeactivateClient(cli)
    BY <2>5, DeactivationSteps
  <2>6. CASE Age \/ UNCHANGED vars
    BY <2>6 DEF Age, vars, IInv, StackInv, Top, Supplied, OneClient
  <2> QED BY <2>1, <2>2, <2>3, <2>4, <2>5, <2>6 DEF Next, Step, Quiet
<1> QED BY <1>1, <1>2 DEF IInv

LEMMA InitIInv == Init => IInv
<1> SUFFICES ASSUME Init PROVE IInv
  OBVIOUS
<1>1. TearInv /\ StateOK
  BY InitTear DEF TearInv
<1>2. stack = <<>> /\ Len(stack) = 0
  BY DEF Init
<1>3. CoreOf(stack, state, lost) /\ AloneIn(stack, state)
  BY <1>2 DEF CoreOf, AloneIn
<1>4. Typed
  BY <1>1 DEF Init, Typed
<1>5. Supplied /\ OneClient
  BY DEF Init, Supplied, OneClient, Clients, Objects
<1> QED BY <1>1, <1>2, <1>3, <1>4, <1>5 DEF IInv, StackInv

LEMMA IInvSuffices == IInv => BindingsConsistent
<1> SUFFICES ASSUME IInv PROVE BindingsConsistent
  OBVIOUS
<1>1. TypeOK
  BY DEF IInv, StackInv, CoreOf, FrameOK, Typed, StateOK, TypeOK
<1>2. ActiveClientsSupplied
  BY DEF IInv, Supplied, ActiveClientsSupplied
<1>3. OneClientPerConsole
  <2>1. ASSUME NEW k \in Consoles
        PROVE  Cardinality({d \in Clients(k) : state[d] = "active"}) <= 1
    <3> DEFINE A == {d \in Clients(k) : state[d] = "active"}
    <3>1. \A c, d \in A : c = d
      BY DEF IInv, OneClient
    <3>2. A = {} => Cardinality(A) <= 1
      BY FS_EmptySet
    <3>3. ASSUME A # {} PROVE Cardinality(A) <= 1
      <4>1. PICK d \in A : A = {d}
        BY <3>1, <3>3
      <4>2. Cardinality({d}) = 1
        BY FS_Singleton
      <4> HIDE DEF A
      <4> QED BY <4>1, <4>2
    <3>4. Cardinality(A) <= 1
      BY <3>2, <3>3
    <3> QED BY <3>4
  <2> QED BY <2>1 DEF OneClientPerConsole
<1> QED BY <1>1, <1>2, <1>3 DEF BindingsConsistent

\* For every target in which nothing stands on two clients of a console: when no
\* call is in progress, whatever was activated, deactivated, exported, lost or
\* raised before, an active driver has all its suppliers active, unless one went
\* away while it was being activated, and a console has one active client.
THEOREM AlwaysConsistent ==
    ASSUME NoRivals
    PROVE  Spec => []BindingsConsistent
<1>1. Init => IInv
  BY InitIInv
<1>2. IInv /\ [Next]_vars => IInv'
  BY StepIInv
<1>3. IInv => BindingsConsistent
  BY IInvSuffices
<1> QED BY <1>1, <1>2, <1>3, PTL DEF Spec
=============================================================================
