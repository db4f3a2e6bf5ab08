--------------------------- MODULE GraphStrategy ---------------------------
(***************************************************************************)
(* GraphStrategy: states with dependencies, the path to a state, and the   *)
(* state methods that are run for it.  A state method is code of the user: *)
(* it may raise, and it may call transition() itself.                      *)
(***************************************************************************)
EXTENDS Naturals, Sequences

CONSTANTS N,            \* states 1..N; a state depends on smaller ones, 1 is the root
          MaxVia,       \* length of via
          MaxCalls      \* transitions that begin

States == 1..N
Range(s) == {s[i] : i \in DOMAIN s}
Distinct(s) == \A i, j \in DOMAIN s : s[i] = s[j] => i = j
Lists(S, max) == {s \in UNION {[1..k -> S] : k \in 0..max} : Distinct(s)}
Graphs == {g \in [States -> Lists(States, N - 1)] :
             /\ g[1] = <<>>
             /\ \A s \in States \ {1} : g[s] # <<>> /\ Range(g[s]) \subseteq 1..(s - 1)}

Vias == Lists(States \ {1}, MaxVia)

VARIABLES
    deps,       \* the dependencies, in the order of @depends
    path,       \* self.path
    running,    \* self.__transition_running
    frames,     \* transitions under way, the innermost last
    log,        \* the state methods that were run since all drivers were deactivated
    calls,      \* transitions begun
    caught,     \* a state method went on after its own transition() was refused
    result      \* of the last call of transition() from outside
vars == <<deps, path, running, frames, log, calls, caught, result>>

\* The type invariant.
TypeOK ==
    /\ Range(path) \subseteq States /\ Distinct(path) /\ running \in BOOLEAN /\ calls \in 0..MaxCalls
    /\ \A i \in DOMAIN frames : Range(frames[i].rest) \subseteq States
    /\ result \in {"none", "moved", "nothing", "raised"}

Init ==
    /\ deps \in Graphs
    /\ path = <<>> /\ running = FALSE /\ frames = <<>>
    /\ log = <<>> /\ calls = 0 /\ caught = FALSE /\ result = "none"

(***************************************************************************)
(* find_abs_path climbs from the state to the root.  At each state it goes *)
(* through what is left of via, from its last position to its first, and   *)
(* removes the dependencies of the state from the list it goes through:    *)
(* the position after a removed one is skipped, and the last one that is   *)
(* removed is where it climbs to.                                          *)
(***************************************************************************)
Hit(via, left, of, R, i) ==
    /\ via[i] \in Range(deps[of])
    /\ \A j \in R : i < j => \E k \in left : i < k /\ k < j
Removed(via, left, of) == CHOOSE R \in SUBSET left : \A i \in left : i \in R <=> Hit(via, left, of, R, i)

next_state(via, R, of) == IF R = {} THEN deps[of][1] ELSE via[CHOOSE i \in R : \A j \in R : i =< j]

\* The path to a state, and the positions that are left at the root.
Climb(via, up, of, left) ==
    IF deps[of] = <<>> THEN [path |-> <<of>>, left |-> left]
    ELSE LET R == Removed(via, left, of)
             above == up[next_state(via, R, of)][left \ R]
         IN [path |-> Append(above.path, of), left |-> above.left]

find_abs_path(state, via) ==
    LET Up[of \in States] == [left \in SUBSET DOMAIN via |-> Climb(via, Up, of, left)]
    IN  Up[state][DOMAIN via]

find_rel_path_longer(abs) ==
    IF Len(abs) > Len(path) THEN SubSeq(abs, Len(path) + 1, Len(abs)) ELSE abs

\* The rest of a path that goes on from the current one, or all of it.
find_rel_path(abs) ==
    IF Len(abs) > Len(path) /\ SubSeq(abs, 1, Len(path)) = path
    THEN SubSeq(abs, Len(path) + 1, Len(abs)) ELSE abs

Top == frames[Len(frames)]
Pop == SubSeq(frames, 1, Len(frames) - 1)
InMethod == frames # <<>> /\ Top.at = "method"
Outside == frames = <<>>

\* An exception arrives in the caller of transition(): a state method that
\* does not catch it raises as well, and with it all others.
Raised(fs) == \/ /\ fs = <<>> /\ result' = "raised"
                 /\ UNCHANGED <<caught, path, log>> /\ frames' = fs
              \/ /\ fs # <<>> /\ caught' = TRUE
                 /\ UNCHANGED <<result, path, log>> /\ frames' = fs
              \/ /\ fs # <<>> /\ result' = "raised" /\ UNCHANGED caught
                 /\ path' = <<>> /\ log' = <<>> /\ frames' = <<>>

\* transition(), from outside or from a state method.
Begins == /\ Outside \/ InMethod
          /\ calls < MaxCalls
          /\ calls' = calls + 1

Refused ==
    /\ Begins /\ running
    /\ running' = FALSE
    /\ Raised(frames)
    /\ UNCHANGED deps

NoPath(found) ==
    /\ found.left # {}
    /\ Raised(frames)
    /\ UNCHANGED <<deps, running>>

Nothing(found) ==
    /\ found.left = {} /\ found.path = path
    /\ result' = IF Outside THEN "nothing" ELSE result
    /\ UNCHANGED <<deps, running, frames, path, log, caught>>

Moves(found, via) ==
    /\ found.left = {} /\ found.path # path
    /\ running' = TRUE
    /\ frames' = Append(frames, [abs |-> found.path, rest |-> find_rel_path(found.path),
                                 at |-> "loop", via |-> via])
    /\ result' = IF Outside THEN "none" ELSE result
    /\ UNCHANGED <<deps, path, log, caught>>

Transition(state, via) ==
    /\ Begins /\ ~running
    /\ \E found \in {find_abs_path(state, via)} : NoPath(found) \/ Nothing(found) \/ Moves(found, via)

\* The loop over the path: all drivers are deactivated before the root state.
Method ==
    /\ frames # <<>> /\ Top.at = "loop" /\ Top.rest # <<>>
    /\ frames' = [frames EXCEPT ![Len(frames)].at = "method"]
    /\ log' = IF Head(Top.rest) = 1 THEN <<>> ELSE log
    /\ UNCHANGED <<deps, path, running, calls, caught, result>>

MethodReturns ==
    /\ InMethod
    /\ frames' = [frames EXCEPT ![Len(frames)].at = "loop", ![Len(frames)].rest = Tail(@)]
    /\ log' = Append(log, Head(Top.rest))
    /\ UNCHANGED <<deps, path, running, calls, caught, result>>

\* invalidate(), and the finally block of this transition and of the others
\* that the exception leaves.
MethodRaises ==
    /\ InMethod
    /\ running' = FALSE
    /\ \/ path' = <<>> /\ log' = <<>> /\ frames' = <<>> /\ result' = "raised" /\ UNCHANGED caught
       \/ /\ Len(frames) > 1
          /\ path' = <<>> /\ log' = <<>> /\ frames' = Pop /\ caught' = TRUE /\ UNCHANGED result
    /\ UNCHANGED <<deps, calls>>

Finished ==
    /\ frames # <<>> /\ Top.at = "loop" /\ Top.rest = <<>>
    /\ path' = Top.abs /\ frames' = Pop /\ running' = FALSE
    /\ result' = IF Len(frames) = 1 THEN "moved" ELSE result
    /\ UNCHANGED <<deps, log, calls, caught>>

\* invalidate(), called by the user.
Invalidate ==
    /\ Outside /\ path # <<>>
    /\ path' = <<>> /\ log' = <<>>
    /\ UNCHANGED <<deps, running, frames, calls, caught, result>>

Next ==
    \/ Refused \/ Method \/ MethodReturns \/ MethodRaises \/ Finished \/ Invalidate
    \/ \E state \in States, via \in Vias :
        Transition(state, via)

Spec == Init /\ [][Next]_vars
-----------------------------------------------------------------------------
\* The path that a strategy believes in is what was done to the target: the
\* methods of its states were run, in this order, since all drivers were
\* deactivated.  (A state method that catches the refusal of its own
\* transition() finds the flag cleared, and may start another one.)
PathIsHistory == (Outside /\ ~caught /\ path # <<>>) => log = path

\* A transition goes along dependencies, and through both states of a via of
\* two.  Of three it may leave one out: a state of via that is removed together
\* with another one is not gone through.
ViaHonoured == \A i \in DOMAIN frames :
    /\ Len(frames[i].via) <= 2 => Range(frames[i].via) \subseteq Range(frames[i].abs)
    /\ frames[i].abs[1] = 1
    /\ \A k \in 2..Len(frames[i].abs) : frames[i].abs[k - 1] \in Range(deps[frames[i].abs[k]])

\* "Computes the path from root state (via "via" state, if given) to given
\* state." (graphstrategy.py:109), and "no via states should be left now" (:194).
ViaAlwaysHonoured == \A i \in DOMAIN frames : Range(frames[i].via) \subseteq Range(frames[i].abs)

\* The flag is set as long as a transition runs, unless a refused one has
\* cleared it.
FlagHeld == ~caught => (running <=> frames # <<>>)

GraphHonest == PathIsHistory /\ ViaHonoured /\ FlagHeld
-----------------------------------------------------------------------------
(***************************************************************************)
(* The inductive invariant: what the transitions under way have done.      *)
(***************************************************************************)
Frames == [abs : Seq(States), rest : Seq(States), at : {"loop", "method"}, via : Seq(States)]

\* A path from the root along dependencies.
Rooted(graph, p) ==
    /\ p \in Seq(States) /\ p # <<>> /\ p[1] = 1
    /\ \A k \in 2..Len(p) : p[k - 1] \in Range(graph[p[k]])
    /\ \A i, j \in DOMAIN p : i < j => p[i] < p[j]

\* A transition under way.
Sound(graph, f) ==
    /\ Rooted(graph, f.abs)
    /\ Len(f.via) <= 2 => Range(f.via) \subseteq Range(f.abs)
    /\ f.at = "method" => f.rest # <<>>

\* It has not begun, or its methods were run in their order.
OnTheWay(done, f) == (f.at = "loop" /\ f.rest = f.abs) \/ done \o f.rest = f.abs

\* Unless a refusal was caught, one transition is under way at a time.
Uncaught ==
    /\ running <=> frames # <<>>
    /\ Len(frames) <= 1
    /\ \A i \in DOMAIN frames : OnTheWay(log, frames[i])
    /\ frames = <<>> /\ path # <<>> => log = path

GraphInv ==
    /\ deps \in Graphs /\ (path = <<>> \/ Rooted(deps, path)) /\ frames \in Seq(Frames) /\ log \in Seq(States)
    /\ running \in BOOLEAN /\ calls \in 0..MaxCalls /\ result \in {"none", "moved", "nothing", "raised"}
    /\ \A i \in DOMAIN frames : Sound(deps, frames[i])
    /\ ~caught => Uncaught
=============================================================================
