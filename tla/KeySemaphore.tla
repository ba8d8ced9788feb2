---------------------------- MODULE KeySemaphore ----------------------------
(***************************************************************************)
(* What internal/relay/limits.go promises its caller: every client key has *)
(* a counting semaphore.  A semaphore may be forgotten, or opened again    *)
(* with another capacity, only while nobody holds a slot of it; while it   *)
(* is held, only an explicit SetLimit changes its capacity.                *)
(***************************************************************************)
EXTENDS Naturals, FiniteSets

CONSTANTS Procs,      \* goroutines
          Keys,       \* client key ids
          Caps,       \* capacities a semaphore may be opened with
          Resizes     \* capacities SetLimit may install

VARIABLES held,     \* held[k]: the goroutines that own a slot of key k
          cap       \* cap[k]: the capacity in force, 0 when there is none

semVars == <<held, cap>>

Init ==
    /\ held = [k \in Keys |-> {}]
    /\ cap = [k \in Keys |-> 0]

Open(k) ==
    /\ cap[k] = 0
    /\ held[k] = {}
    /\ \E c \in Caps : cap' = [cap EXCEPT ![k] = c]
    /\ UNCHANGED held

Forget(k) ==
    /\ held[k] = {}
    /\ cap' = [cap EXCEPT ![k] = 0]
    /\ UNCHANGED held

Resize(k) ==
    /\ \E c \in Resizes : cap' = [cap EXCEPT ![k] = c]
    /\ UNCHANGED held

Acquire(p, k) ==
    /\ p \notin held[k]
    /\ Cardinality(held[k]) < cap[k]
    /\ held' = [held EXCEPT ![k] = @ \cup {p}]
    /\ UNCHANGED cap

Release(p, k) ==
    /\ p \in held[k]
    /\ held' = [held EXCEPT ![k] = @ \ {p}]
    /\ UNCHANGED cap

Next ==
    \E k \in Keys :
        \/ Open(k)
        \/ Forget(k)
        \/ Resize(k)
        \/ \E p \in Procs : Acquire(p, k) \/ Release(p, k)

Spec == Init /\ [][Next]_semVars
=============================================================================
