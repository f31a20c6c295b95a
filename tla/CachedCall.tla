----------------------------- MODULE CachedCall -----------------------------
(***************************************************************************)
(* What a cached function promises its callers, whatever the cache does in *)
(* between: a call is answered with data computed for the argument it was  *)
(* made with, and that data reflects a state of the source at most Bound   *)
(* old; or the call fails with the exception of the cached function.       *)
(***************************************************************************)
EXTENDS Integers

CONSTANTS Tasks, Keys, Bound, NoAnswer

VARIABLES now,      \* the clock
          asked,    \* asked[t]: the keys t's unanswered call is for (none or one)
          answer    \* answer[t]: what t's last call returned

vars == <<now, asked, answer>>

Init ==
  /\ now = 0
  /\ asked = [t \in Tasks |-> {}]
  /\ answer = [t \in Tasks |-> NoAnswer]

Ask(t, k) ==
  /\ asked[t] = {}
  /\ asked' = [asked EXCEPT ![t] = {k}]
  /\ answer' = [answer EXCEPT ![t] = NoAnswer]
  /\ UNCHANGED now

Respond(t, k, asOf) ==
  /\ asked[t] = {k}
  /\ now - asOf <= Bound
  /\ answer' = [answer EXCEPT ![t] =
                  [asked |-> k, data |-> [of |-> k, asOf |-> asOf], at |-> now]]
  /\ asked' = [asked EXCEPT ![t] = {}]
  /\ UNCHANGED now

Raise(t) ==
  /\ asked[t] # {}
  /\ asked' = [asked EXCEPT ![t] = {}]
  /\ UNCHANGED <<now, answer>>

Tick ==
  /\ now' = now + 1
  /\ UNCHANGED <<asked, answer>>

Next ==
  \/ Tick
  \/ \E t \in Tasks : Raise(t)
  \/ \E t \in Tasks, k \in Keys : Ask(t, k)
  \/ \E t \in Tasks, k \in Keys, asOf \in 0 .. now : Respond(t, k, asOf)

Spec == Init /\ [][Next]_vars
=============================================================================
