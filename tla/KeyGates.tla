------------------------------ MODULE KeyGates ------------------------------
(***************************************************************************)
(* internal/relay/limits.go: the per-key concurrency gates.                *)
(*                                                                         *)
(* A keyGate is a heap object that the map `gates` points to.  TryAcquire  *)
(* finds or creates it and takes a reference under ks.mu, lets go of the   *)
(* mutex, and only then asks the gate for a slot: the object it asks must  *)
(* still be the one the map names, or two goroutines would be admitted     *)
(* through two different gates of the same key.                            *)
(***************************************************************************)
EXTENDS Naturals, FiniteSets

CONSTANTS Procs,       \* goroutines that call TryAcquire and Release
          Keys,        \* client key ids (positive)
          Entries,     \* heap cells for keyGate objects
          Limits,      \* limits callers pass to TryAcquire
          SetLimits,   \* limits passed to SetLimit; empty: nobody calls it
          None         \* the nil pointer

ASSUME ProcsFinite == IsFiniteSet(Procs)
ASSUME LimitsNat == Limits \subseteq Nat /\ SetLimits \subseteq Nat
ASSUME NoneFresh == None \notin Entries /\ None \notin Keys

VARIABLES gates,   \* KeyGates.gates: key -> keyGate pointer
          heap,    \* keyGate objects: gate.limit, gate.active, refs
          pc,      \* where each goroutine is in TryAcquire / Release
          key,     \* the key id it works on
          ptr      \* TryAcquire's local `entry`

vars == <<gates, heap, pc, key, ptr>>

\* Mutant: NewGate without its clamp.
AsGiven(n) == n

AtLeastOne(n) == IF n < 1 THEN 1 ELSE n

NewKeyGate(l) == [limit |-> AtLeastOne(l), active |-> 0, refs |-> 0]

Users(e) == {p \in Procs : pc[p] # "idle" /\ ptr[p] = e}
Holders(e) == {p \in Procs : pc[p] = "held" /\ ptr[p] = e}
HoldersOf(k) == {p \in Procs : pc[p] = "held" /\ key[p] = k}

\* Release holds ks.mu across its two steps; nobody else may enter meanwhile.
MuFree == \A p \in Procs : pc[p] # "dropping"

\* A cell no pointer reaches: what the allocator may hand out.
Unreachable(e) ==
    /\ \A k \in Keys : gates[k] # e
    /\ \A p \in Procs : ptr[p] # e

Init ==
    /\ gates = [k \in Keys |-> None]
    /\ heap = [e \in Entries |-> NewKeyGate(1)]
    /\ pc = [p \in Procs |-> "idle"]
    /\ key = [p \in Procs |-> None]
    /\ ptr = [p \in Procs |-> None]

-----------------------------------------------------------------------------
(* TryAcquire, first critical section: find or create the gate, refs++.    *)
TakeRef(p, k, l) ==
    /\ pc[p] = "idle"
    /\ MuFree
    /\ \E e \in Entries :
         /\ \/ /\ gates[k] = e
               /\ heap' = [heap EXCEPT ![e].refs = @ + 1]
            \/ /\ gates[k] = None
               /\ Unreachable(e)
               /\ heap' = [heap EXCEPT ![e] = [NewKeyGate(l) EXCEPT !.refs = 1]]
         /\ gates' = [gates EXCEPT ![k] = e]
         /\ ptr' = [ptr EXCEPT ![p] = e]
    /\ pc' = [pc EXCEPT ![p] = "asking"]
    /\ key' = [key EXCEPT ![p] = k]

\* Mutant: the gate admits one goroutine too many.
AskGateOver(p) ==
    /\ pc[p] = "asking"
    /\ IF heap[ptr[p]].active =< heap[ptr[p]].limit
       THEN /\ heap' = [heap EXCEPT ![ptr[p]].active = @ + 1]
            /\ pc' = [pc EXCEPT ![p] = "held"]
       ELSE /\ pc' = [pc EXCEPT ![p] = "refused"]
            /\ UNCHANGED heap
    /\ UNCHANGED <<gates, key, ptr>>

(* TryAcquire, outside ks.mu: entry.gate.TryAcquire().                     *)
AskGate(p) ==
    /\ pc[p] = "asking"
    /\ IF heap[ptr[p]].active < heap[ptr[p]].limit
       THEN /\ heap' = [heap EXCEPT ![ptr[p]].active = @ + 1]
            /\ pc' = [pc EXCEPT ![p] = "held"]
       ELSE /\ pc' = [pc EXCEPT ![p] = "refused"]
            /\ UNCHANGED heap
    /\ UNCHANGED <<gates, key, ptr>>

Leave(p) ==
    /\ pc' = [pc EXCEPT ![p] = "idle"]
    /\ key' = [key EXCEPT ![p] = None]
    /\ ptr' = [ptr EXCEPT ![p] = None]

\* Mutant: a refusal deletes the gate whoever else uses it.
DropRefDeletes(p) ==
    /\ pc[p] = "refused"
    /\ MuFree
    /\ heap' = [heap EXCEPT ![ptr[p]].refs = @ - 1]
    /\ gates' = [gates EXCEPT ![key[p]] = None]
    /\ Leave(p)

\* Mutant: a refusal never deletes the gate.
DropRefKeeps(p) ==
    /\ pc[p] = "refused"
    /\ MuFree
    /\ heap' = [heap EXCEPT ![ptr[p]].refs = @ - 1]
    /\ UNCHANGED gates
    /\ Leave(p)

(* TryAcquire, second critical section after a refusal: refs--.            *)
DropRef(p) ==
    LET e == ptr[p] IN
    /\ pc[p] = "refused"
    /\ MuFree
    /\ heap' = [heap EXCEPT ![e].refs = @ - 1]
    /\ gates' = [gates EXCEPT ![key[p]] = IF heap[e].refs = 1 THEN None ELSE @]
    /\ Leave(p)

\* Mutant: a slot above a lowered limit is not given back.
ReleaseSlotCapped(p) ==
    LET e == gates[key[p]] IN
    /\ pc[p] = "held"
    /\ MuFree
    /\ heap' = [heap EXCEPT ![e].active = IF @ =< heap[e].limit THEN @ - 1 ELSE @]
    /\ pc' = [pc EXCEPT ![p] = "dropping"]
    /\ UNCHANGED <<gates, key, ptr>>

(* Release: under ks.mu the gate gives back its slot ...                   *)
ReleaseSlot(p) ==
    LET e == gates[key[p]] IN
    /\ pc[p] = "held"
    /\ MuFree
    /\ IF e = None
       THEN Leave(p) /\ UNCHANGED heap
       ELSE /\ heap' = [heap EXCEPT ![e].active = IF @ > 0 THEN @ - 1 ELSE @]
            /\ pc' = [pc EXCEPT ![p] = "dropping"]
            /\ UNCHANGED <<key, ptr>>
    /\ UNCHANGED gates

(* ... and then the reference; an unused gate is deleted from the map.     *)
ReleaseRef(p) ==
    LET e == gates[key[p]] IN
    /\ pc[p] = "dropping"
    /\ heap' = [heap EXCEPT ![e].refs = @ - 1]
    /\ gates' = [gates EXCEPT ![key[p]] =
                    IF heap[e].refs = 1 /\ heap[e].active = 0 THEN None ELSE @]
    /\ Leave(p)

(* KeyGates.SetLimit, an exported operation without a production caller.   *)
SetLimit(k, l) ==
    /\ MuFree
    /\ \E e \in Entries :
         \/ /\ gates[k] = e
            /\ heap' = [heap EXCEPT ![e].limit = AtLeastOne(l)]
            /\ UNCHANGED gates
         \/ /\ gates[k] = None
            /\ Unreachable(e)
            /\ heap' = [heap EXCEPT ![e] = NewKeyGate(l)]
            /\ gates' = [gates EXCEPT ![k] = e]
    /\ UNCHANGED <<pc, key, ptr>>

Next ==
    \/ \E p \in Procs, k \in Keys, l \in Limits : TakeRef(p, k, l)
    \/ \E p \in Procs : AskGate(p)
    \/ \E p \in Procs : DropRef(p)
    \/ \E p \in Procs : ReleaseSlot(p)
    \/ \E p \in Procs : ReleaseRef(p)
    \/ \E k \in Keys, l \in SetLimits : SetLimit(k, l)

Spec == Init /\ [][Next]_vars

-----------------------------------------------------------------------------
KeyGate == [limit : Nat \ {0}, active : Nat, refs : Nat]

(* Shape of the state of KeyGates and of the goroutines inside it.         *)
TypeOK ==
    /\ gates \in [Keys -> Entries \cup {None}]
    /\ heap \in [Entries -> KeyGate]
    /\ pc \in [Procs -> {"idle", "asking", "refused", "held", "dropping"}]
    /\ key \in [Procs -> Keys \cup {None}]
    /\ ptr \in [Procs -> Entries \cup {None}]

(* A goroutine inside TryAcquire, or holding a slot, uses the gate object  *)
(* that the map names for its key: DropRef and ReleaseRef never delete a   *)
(* gate another goroutine still points to.                                 *)
GateIsCurrent ==
    \A p \in Procs : pc[p] # "idle" => /\ key[p] \in Keys
                                       /\ ptr[p] \in Entries
                                       /\ gates[key[p]] = ptr[p]

IdleHasNoPointer ==
    \A p \in Procs : pc[p] = "idle" => ptr[p] = None /\ key[p] = None

GatesDisjoint ==
    \A j, k \in Keys : gates[j] = gates[k] /\ gates[j] # None => j = k

OneInRelease ==
    \A p, q \in Procs : pc[p] = "dropping" /\ pc[q] = "dropping" => p = q

(* The counters of every gate in the map are exact: refs counts the        *)
(* goroutines that point to it, gate.active those that own a slot.         *)
CountsExact ==
    \A k \in Keys, e \in Entries : gates[k] = e =>
        /\ heap[e].refs = Cardinality(Users(e))
        /\ heap[e].active = Cardinality(Holders(e))

(* The inductive invariant.                                                *)
Inv ==
    /\ TypeOK
    /\ GateIsCurrent
    /\ IdleHasNoPointer
    /\ GatesDisjoint
    /\ OneInRelease
    /\ CountsExact

(* The map does not grow with the keys ever seen: whoever leaves a key as  *)
(* its last user, after a refusal or a release, removes its gate.          *)
LastUserTakesGate ==
    [][\A k \in Keys :
          /\ \E p \in Procs : key[p] = k
          /\ \A p \in Procs : key'[p] # k
          => gates'[k] = None]_vars

-----------------------------------------------------------------------------
capOf == [k \in Keys |-> IF gates[k] = None THEN 0 ELSE heap[gates[k]].limit]
heldOf == [k \in Keys |-> HoldersOf(k)]

Sem == INSTANCE KeySemaphore WITH
    held <- heldOf, cap <- capOf,
    Caps <- {AtLeastOne(l) : l \in Limits \cup SetLimits},
    Resizes <- {AtLeastOne(l) : l \in SetLimits}

(* KeyGates implements one counting semaphore per key, although the gate   *)
(* is asked outside the map's mutex and gates come and go with their users.*)
ImplementsSemaphore == Sem!Spec
=============================================================================
