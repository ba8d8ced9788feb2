--------------------------- MODULE KeyGatesProofs ---------------------------
(***************************************************************************)
(* Proofs about KeyGates, for any finite set of goroutines and any keys,   *)
(* heap cells and limits: the counters of a gate are exact, a gate in use  *)
(* is never replaced, and the whole implements KeySemaphore.               *)
(***************************************************************************)
EXTENDS KeyGates, FiniteSetTheorems, TLAPS

(* Adding one goroutine to a set of goroutines adds one to its size.       *)
LEMMA CardAdd ==
    ASSUME NEW S, S \subseteq Procs, NEW p \in Procs, p \notin S
    PROVE  /\ Cardinality(S) \in Nat
           /\ Cardinality(S \cup {p}) = Cardinality(S) + 1
  <1>1. IsFiniteSet(S)
    BY ProcsFinite, FS_Subset
  <1>. QED
    BY <1>1, FS_AddElement, FS_CardinalityType

(* Removing one of its members takes one off, and it had at least one.     *)
LEMMA CardRemove ==
    ASSUME NEW S, S \subseteq Procs, NEW p \in S
    PROVE  /\ Cardinality(S) \in Nat
           /\ Cardinality(S) >= 1
           /\ Cardinality(S \ {p}) = Cardinality(S) - 1
           /\ Cardinality(S) = 1 => S \ {p} = {}
  <1>1. IsFiniteSet(S)
    BY ProcsFinite, FS_Subset
  <1>2. IsFiniteSet(S \ {p}) /\ Cardinality(S \ {p}) = Cardinality(S) - 1
    BY <1>1, FS_RemoveElement
  <1>3. Cardinality(S) \in Nat /\ Cardinality(S \ {p}) \in Nat
    BY <1>1, <1>2, FS_CardinalityType
  <1>4. Cardinality(S \ {p}) = 0 => S \ {p} = {}
    BY <1>2, FS_EmptySet
  <1>. QED
    BY <1>2, <1>3, <1>4

(* The clamp of NewGate and SetLimit yields a positive limit.              *)
LEMMA ClampPositive ==
    ASSUME NEW n \in Nat
    PROVE  AtLeastOne(n) \in Nat \ {0}
  BY DEF AtLeastOne

(* No entry is in use at first, so all counts agree.                       *)
LEMMA InitInv == Init => Inv
  <1> SUFFICES ASSUME Init PROVE Inv
    OBVIOUS
  <1>1. TypeOK
    BY DEF Init, TypeOK, NewKeyGate, KeyGate, AtLeastOne
  <1>. QED
    BY <1>1, NoneFresh DEF Init, Inv, GateIsCurrent, IdleHasNoPointer, GatesDisjoint,
       OneInRelease, CountsExact

(* Each action preserves the shape of the state.                           *)
LEMMA NextTypeOK == Inv /\ Next => TypeOK'
  <1> SUFFICES ASSUME Inv, Next PROVE TypeOK'
    OBVIOUS
  <1> USE DEF Inv, TypeOK, KeyGate
  <1>1. ASSUME NEW p \in Procs, NEW k \in Keys, NEW l \in Limits, TakeRef(p, k, l)
        PROVE  TypeOK'
    <2>1. l \in Nat
      BY LimitsNat
    <2>. QED
      BY <1>1, <2>1, ClampPositive DEF TakeRef, NewKeyGate
  <1>2. ASSUME NEW p \in Procs, AskGate(p) PROVE TypeOK'
    <2>1. PICK e \in Entries : ptr[p] = e
      BY <1>2 DEF AskGate, GateIsCurrent
    <2>2. heap' = heap \/ heap' = [heap EXCEPT ![e].active = @ + 1]
      BY <1>2, <2>1 DEF AskGate
    <2>3. heap' \in [Entries -> KeyGate]
      BY <2>1, <2>2
    <2>. QED
      BY <1>2, <2>3 DEF AskGate
  <1>3. ASSUME NEW p \in Procs, DropRef(p) PROVE TypeOK'
    <2>1. heap[ptr[p]].refs >= 1
      <3>1. p \in Users(ptr[p]) /\ Users(ptr[p]) \subseteq Procs
        BY <1>3 DEF DropRef, Users
      <3>2. heap[ptr[p]].refs = Cardinality(Users(ptr[p]))
        BY <1>3, NoneFresh DEF DropRef, GateIsCurrent, CountsExact
      <3>3. Cardinality(Users(ptr[p])) >= 1
        BY <3>1, CardRemove
      <3>. QED
        BY <3>2, <3>3
    <2>. QED
      <3>1. PICK e \in Entries : ptr[p] = e /\ gates[key[p]] = e
        BY <1>3 DEF DropRef, GateIsCurrent
      <3>2. heap' = [heap EXCEPT ![e].refs = @ - 1] /\ heap[e].refs >= 1
        BY <1>3, <2>1, <3>1 DEF DropRef
      <3>3. heap' \in [Entries -> KeyGate]
        BY <3>1, <3>2
      <3>. QED
        BY <1>3, <3>1, <3>3 DEF DropRef, Leave
  <1>4. ASSUME NEW p \in Procs, ReleaseSlot(p) PROVE TypeOK'
    <2>1. PICK e \in Entries : gates[key[p]] = e
      BY <1>4 DEF ReleaseSlot, GateIsCurrent
    <2>2. heap' = [heap EXCEPT ![e].active = IF @ > 0 THEN @ - 1 ELSE @]
      BY <1>4, <2>1, NoneFresh DEF ReleaseSlot
    <2>3. heap[e].active \in Nat
      BY <2>1
    <2>4. heap' \in [Entries -> KeyGate]
      BY <2>1, <2>2, <2>3
    <2>. QED
      BY <1>4, <2>1, <2>4, NoneFresh DEF ReleaseSlot
  <1>5. ASSUME NEW p \in Procs, ReleaseRef(p) PROVE TypeOK'
    <2>1. heap[ptr[p]].refs >= 1
      <3>1. p \in Users(ptr[p]) /\ Users(ptr[p]) \subseteq Procs
        BY <1>5 DEF ReleaseRef, Users
      <3>2. heap[ptr[p]].refs = Cardinality(Users(ptr[p]))
        BY <1>5, NoneFresh DEF ReleaseRef, GateIsCurrent, CountsExact
      <3>3. Cardinality(Users(ptr[p])) >= 1
        BY <3>1, CardRemove
      <3>. QED
        BY <3>2, <3>3
    <2>. QED
      <3>1. PICK e \in Entries : ptr[p] = e /\ gates[key[p]] = e
        BY <1>5 DEF ReleaseRef, GateIsCurrent
      <3>2. heap' = [heap EXCEPT ![e].refs = @ - 1] /\ heap[e].refs >= 1
        BY <1>5, <2>1, <3>1 DEF ReleaseRef
      <3>3. heap' \in [Entries -> KeyGate]
        BY <3>1, <3>2
      <3>. QED
        BY <1>5, <3>1, <3>3 DEF ReleaseRef, Leave
  <1>6. ASSUME NEW k \in Keys, NEW l \in SetLimits, SetLimit(k, l) PROVE TypeOK'
    <2>1. l \in Nat
      BY LimitsNat
    <2>. QED
      BY <1>6, <2>1, ClampPositive DEF SetLimit, NewKeyGate
  <1>. QED
    BY <1>1, <1>2, <1>3, <1>4, <1>5, <1>6 DEF Next

\* What the inductive invariant says beyond the shape of the state.
Rest == /\ GateIsCurrent /\ IdleHasNoPointer /\ GatesDisjoint
        /\ OneInRelease /\ CountsExact

(* TakeRef adds its goroutine to the users of one gate.                    *)
LEMMA TakeRefRest ==
    ASSUME Inv, TypeOK', NEW p \in Procs, NEW k \in Keys, NEW l \in Limits, TakeRef(p, k, l)
    PROVE  Rest'
  <1> USE DEF Inv, TypeOK, KeyGate
  <1>1. PICK e \in Entries :
          /\ \/ /\ gates[k] = e
                /\ heap' = [heap EXCEPT ![e].refs = @ + 1]
             \/ /\ gates[k] = None
                /\ Unreachable(e)
                /\ heap' = [heap EXCEPT ![e] = [NewKeyGate(l) EXCEPT !.refs = 1]]
          /\ gates' = [gates EXCEPT ![k] = e]
          /\ ptr' = [ptr EXCEPT ![p] = e]
    BY DEF TakeRef
  <1>2. pc[p] = "idle" /\ ptr[p] = None /\ key[p] = None /\ pc' = [pc EXCEPT ![p] = "asking"]
        /\ key' = [key EXCEPT ![p] = k]
    BY DEF TakeRef, IdleHasNoPointer
  <1>3. GateIsCurrent'
    BY <1>1, <1>2, NoneFresh DEF GateIsCurrent
  <1>4. IdleHasNoPointer' /\ OneInRelease'
    BY <1>1, <1>2 DEF IdleHasNoPointer, OneInRelease
  <1>5. GatesDisjoint'
    BY <1>1, NoneFresh DEF GatesDisjoint, Unreachable
  <1>6. Users(e)' = Users(e) \cup {p} /\ p \notin Users(e) /\ Users(e) \subseteq Procs
    BY <1>1, <1>2 DEF Users
  <1>7. \A x \in Entries : (x # e => Users(x)' = Users(x)) /\ Holders(x)' = Holders(x)
    BY <1>1, <1>2, NoneFresh DEF Users, Holders
  <1>8. ASSUME NEW j \in Keys, NEW x \in Entries, gates'[j] = x
        PROVE  /\ heap'[x].refs = Cardinality(Users(x)')
               /\ heap'[x].active = Cardinality(Holders(x)')
    <2>1. CASE j # k
      <3>1. gates[j] = x /\ x # e
        BY <1>1, <1>8, <2>1, NoneFresh DEF GatesDisjoint, Unreachable
      <3>2. heap'[x] = heap[x]
        BY <1>1, <3>1
      <3>. QED
        BY <1>7, <3>1, <3>2 DEF CountsExact
    <2>2. CASE j = k /\ gates[k] = e
      <3>1. heap[e].refs = Cardinality(Users(e)) /\ heap[e].active = Cardinality(Holders(e))
        BY <2>2 DEF CountsExact
      <3>2. Cardinality(Users(e)') = Cardinality(Users(e)) + 1
        BY <1>6, CardAdd
      <3>3. x = e /\ heap'[e].refs = heap[e].refs + 1 /\ heap'[e].active = heap[e].active
        BY <1>1, <1>8, <2>2, NoneFresh
      <3>. QED
        BY <1>7, <3>1, <3>2, <3>3
    <2>3. CASE j = k /\ gates[k] = None
      <3>1. Users(e) = {} /\ Holders(e) = {}
        BY <1>1, <2>3, NoneFresh DEF Users, Holders, Unreachable
      <3>2. x = e /\ heap'[e].refs = 1 /\ heap'[e].active = 0
        BY <1>1, <1>8, <2>3, NoneFresh DEF NewKeyGate
      <3>3. Cardinality(Users(e)) = 0 /\ Cardinality(Holders(e)) = 0
        BY <3>1, FS_EmptySet
      <3>4. Cardinality(Users(e)') = 1
        BY <1>6, <3>3, CardAdd
      <3>. QED
        BY <1>7, <3>2, <3>3, <3>4
    <2>. QED
      BY <1>1, <2>1, <2>2, <2>3
  <1>9. CountsExact'
    BY <1>8 DEF CountsExact
  <1>. QED
    BY <1>3, <1>4, <1>5, <1>9 DEF Rest

(* AskGate turns a user of a gate into a holder, or into a refused one.    *)
LEMMA AskGateRest ==
    ASSUME Inv, TypeOK', NEW p \in Procs, AskGate(p)
    PROVE  Rest'
  <1> USE DEF Inv, TypeOK, KeyGate
  <1>0. PICK e \in Entries : ptr[p] = e
    BY DEF AskGate, GateIsCurrent
  <1>1. ptr[p] = e /\ pc[p] = "asking" /\ gates' = gates /\ key' = key /\ ptr' = ptr
    BY <1>0 DEF AskGate
  <1>2. /\ pc' = [pc EXCEPT ![p] = pc'[p]]
        /\ pc'[p] \in {"held", "refused"}
        /\ pc'[p] = "held" => heap' = [heap EXCEPT ![e].active = @ + 1]
        /\ pc'[p] = "refused" => heap' = heap
    BY <1>0 DEF AskGate
  <1>3. GateIsCurrent' /\ IdleHasNoPointer' /\ GatesDisjoint' /\ OneInRelease'
    BY <1>1, <1>2 DEF GateIsCurrent, IdleHasNoPointer, GatesDisjoint, OneInRelease
  <1>4. \A x \in Entries : Users(x)' = Users(x) /\ (x # e => Holders(x)' = Holders(x))
    BY <1>1, <1>2 DEF Users, Holders
  <1>5. CASE pc'[p] = "refused"
    <2>1. \A x \in Entries : Holders(x)' = Holders(x)
      BY <1>1, <1>2, <1>5 DEF Holders
    <2>2. ASSUME NEW j \in Keys, NEW x \in Entries, gates'[j] = x
          PROVE  /\ heap'[x].refs = Cardinality(Users(x)')
                 /\ heap'[x].active = Cardinality(Holders(x)')
      BY <1>1, <1>2, <1>4, <1>5, <2>1, <2>2 DEF CountsExact
    <2>3. CountsExact'
      BY <2>2 DEF CountsExact
    <2>. QED
      BY <1>3, <2>3 DEF Rest
  <1>6. CASE pc'[p] = "held"
    <2>1. Holders(e)' = Holders(e) \cup {p} /\ p \notin Holders(e) /\ Holders(e) \subseteq Procs
      BY <1>1, <1>2, <1>6 DEF Holders
    <2>2. Cardinality(Holders(e)') = Cardinality(Holders(e)) + 1
      BY <2>1, CardAdd
    <2>3. ASSUME NEW j \in Keys, NEW x \in Entries, gates'[j] = x
          PROVE  /\ heap'[x].refs = Cardinality(Users(x)')
                 /\ heap'[x].active = Cardinality(Holders(x)')
      <3>1. /\ heap[x].refs = Cardinality(Users(x))
            /\ heap[x].active = Cardinality(Holders(x))
        BY <1>1, <2>3 DEF CountsExact
      <3>2. CASE x # e
        BY <1>2, <1>4, <1>6, <3>1, <3>2
      <3>3. CASE x = e
        <4>1. heap'[e].active = heap[e].active + 1 /\ heap'[e].refs = heap[e].refs
          BY <1>2, <1>6
        <4>. QED
          BY <1>4, <2>2, <3>1, <3>3, <4>1
      <3>. QED
        BY <3>2, <3>3
    <2>4. CountsExact'
      BY <2>3 DEF CountsExact
    <2>. QED
      BY <1>3, <2>4 DEF Rest
  <1>. QED
    BY <1>2, <1>5, <1>6

(* ReleaseSlot: the gate is in the map, and its holder only leaves the     *)
(* holders, still counted as a user.                                       *)
LEMMA ReleaseSlotRest ==
    ASSUME Inv, TypeOK', NEW p \in Procs, ReleaseSlot(p)
    PROVE  Rest'
  <1> USE DEF Inv, TypeOK, KeyGate
  <1>0. PICK e \in Entries : ptr[p] = e
    BY DEF ReleaseSlot, GateIsCurrent
  <1>1. /\ pc[p] = "held" /\ key[p] \in Keys /\ gates[key[p]] = e
        /\ gates' = gates /\ key' = key /\ ptr' = ptr
        /\ pc' = [pc EXCEPT ![p] = "dropping"]
        /\ heap' = [heap EXCEPT ![e].active = IF @ > 0 THEN @ - 1 ELSE @]
        /\ \A q \in Procs : pc[q] # "dropping"
    BY <1>0, NoneFresh DEF ReleaseSlot, GateIsCurrent, MuFree
  <1>2. GateIsCurrent' /\ IdleHasNoPointer' /\ GatesDisjoint' /\ OneInRelease'
    BY <1>1 DEF GateIsCurrent, IdleHasNoPointer, GatesDisjoint, OneInRelease
  <1>3. \A x \in Entries : Users(x)' = Users(x) /\ (x # e => Holders(x)' = Holders(x))
    BY <1>0, <1>1 DEF Users, Holders
  <1>4. Holders(e)' = Holders(e) \ {p} /\ p \in Holders(e) /\ Holders(e) \subseteq Procs
    BY <1>0, <1>1 DEF Holders
  <1>5. Cardinality(Holders(e)') = Cardinality(Holders(e)) - 1 /\ Cardinality(Holders(e)) >= 1
    BY <1>4, CardRemove
  <1>6. ASSUME NEW j \in Keys, NEW x \in Entries, gates'[j] = x
        PROVE  /\ heap'[x].refs = Cardinality(Users(x)')
               /\ heap'[x].active = Cardinality(Holders(x)')
    <2>1. heap[x].refs = Cardinality(Users(x)) /\ heap[x].active = Cardinality(Holders(x))
      BY <1>1, <1>6 DEF CountsExact
    <2>2. CASE x # e
      BY <1>1, <1>3, <2>1, <2>2
    <2>3. CASE x = e
      <3>1. heap'[e].active = heap[e].active - 1 /\ heap'[e].refs = heap[e].refs
        BY <1>1, <1>5, <2>1, <2>3
      <3>. QED
        BY <1>3, <1>5, <2>1, <2>3, <3>1
    <2>. QED
      BY <2>2, <2>3
  <1>7. CountsExact'
    BY <1>6 DEF CountsExact
  <1>. QED
    BY <1>2, <1>7 DEF Rest

(* A goroutine that holds no slot leaves its gate: the gate loses a user,  *)
(* and is deleted exactly when that was the last one.                      *)
LEMMA LeaveRest ==
    ASSUME Inv, TypeOK', NEW p \in Procs, NEW e \in Entries, ptr[p] = e,
           pc[p] \in {"refused", "dropping"}, Leave(p),
           heap' = [heap EXCEPT ![e].refs = @ - 1],
           gates' = [gates EXCEPT ![key[p]] = IF heap[e].refs = 1 THEN None ELSE @]
    PROVE  Rest'
  <1> USE DEF Inv, TypeOK, KeyGate
  <1>1. /\ key[p] \in Keys /\ gates[key[p]] = e
        /\ pc' = [pc EXCEPT ![p] = "idle"]
        /\ key' = [key EXCEPT ![p] = None]
        /\ ptr' = [ptr EXCEPT ![p] = None]
    BY DEF Leave, GateIsCurrent
  <1>2. p \in Users(e) /\ Users(e) \subseteq Procs /\ Users(e)' = Users(e) \ {p}
    BY <1>1, NoneFresh DEF Users
  <1>3. \A x \in Entries : (x # e => Users(x)' = Users(x)) /\ Holders(x)' = Holders(x)
    BY <1>1, NoneFresh DEF Users, Holders
  <1>4. heap[e].refs = Cardinality(Users(e)) /\ heap[e].active = Cardinality(Holders(e))
    BY <1>1 DEF CountsExact
  <1>5. /\ Cardinality(Users(e)') = Cardinality(Users(e)) - 1
        /\ Cardinality(Users(e)) \in Nat
        /\ Cardinality(Users(e)) = 1 => Users(e) \ {p} = {}
    <2>1. /\ Cardinality(Users(e) \ {p}) = Cardinality(Users(e)) - 1
          /\ Cardinality(Users(e)) \in Nat
          /\ Cardinality(Users(e)) = 1 => Users(e) \ {p} = {}
      BY <1>2, CardRemove, Zenon
    <2>. QED
      BY <1>2, <2>1, Zenon
  <1>6. ASSUME heap[e].refs = 1, NEW q \in Procs, pc[q] # "idle", q # p
        PROVE  ptr[q] # e /\ key[q] # key[p]
    <2>1. q \notin Users(e)
      BY <1>2, <1>4, <1>5, <1>6
    <2>2. ptr[q] # e
      BY <1>6, <2>1 DEF Users
    <2>. QED
      BY <1>1, <1>6, <2>2 DEF GateIsCurrent
  <1>7. GateIsCurrent'
    <2> SUFFICES ASSUME NEW q \in Procs, pc'[q] # "idle"
                 PROVE  /\ key'[q] \in Keys /\ ptr'[q] \in Entries
                        /\ gates'[key'[q]] = ptr'[q]
      BY DEF GateIsCurrent
    <2>1. q # p /\ pc[q] # "idle" /\ key'[q] = key[q] /\ ptr'[q] = ptr[q]
      BY <1>1
    <2>2. key[q] \in Keys /\ ptr[q] \in Entries /\ gates[key[q]] = ptr[q]
      BY <2>1 DEF GateIsCurrent
    <2>3. gates'[key[q]] = gates[key[q]]
      BY <1>1, <1>6, <2>1, <2>2
    <2>. QED
      BY <2>1, <2>2, <2>3
  <1>8. IdleHasNoPointer' /\ OneInRelease'
    BY <1>1 DEF IdleHasNoPointer, OneInRelease
  <1>9. GatesDisjoint'
    BY <1>1 DEF GatesDisjoint
  <1>10. ASSUME NEW j \in Keys, NEW x \in Entries, gates'[j] = x
         PROVE  /\ heap'[x].refs = Cardinality(Users(x)')
                /\ heap'[x].active = Cardinality(Holders(x)')
    <2>1. gates[j] = x
      BY <1>1, <1>10, NoneFresh
    <2>2. CASE x # e
      <3>1. heap'[x] = heap[x]
        BY <2>2
      <3>. QED
        BY <1>3, <2>1, <2>2, <3>1 DEF CountsExact
    <2>3. CASE x = e
      <3>1. heap'[e].refs = heap[e].refs - 1 /\ heap'[e].active = heap[e].active
        OBVIOUS
      <3>. QED
        BY <1>3, <1>4, <1>5, <2>3, <3>1
    <2>. QED
      BY <2>2, <2>3
  <1>11. CountsExact'
    BY <1>10 DEF CountsExact
  <1>. QED
    BY <1>7, <1>8, <1>9, <1>11 DEF Rest

(* DropRef and ReleaseRef are departures in the sense of LeaveRest; for    *)
(* ReleaseRef because the last user of a gate holds no slot of it.         *)
LEMMA DropRefRest ==
    ASSUME Inv, TypeOK', NEW p \in Procs, DropRef(p)
    PROVE  Rest'
  <1>1. PICK e \in Entries : ptr[p] = e
    BY DEF DropRef, Inv, TypeOK, GateIsCurrent
  <1>. QED
    BY <1>1, LeaveRest DEF DropRef

(* Releasing a reference leaves the counts of all entries exact: the entry *)
(* goes with its last user and not before.                                 *)
LEMMA ReleaseRefRest ==
    ASSUME Inv, TypeOK', NEW p \in Procs, ReleaseRef(p)
    PROVE  Rest'
  <1> USE DEF Inv, TypeOK, KeyGate
  <1>1. PICK e \in Entries : ptr[p] = e
    BY DEF ReleaseRef, GateIsCurrent
  <1>2. pc[p] = "dropping" /\ key[p] \in Keys /\ gates[key[p]] = e
    BY <1>1 DEF ReleaseRef, GateIsCurrent
  <1>3. heap[e].refs = Cardinality(Users(e)) /\ heap[e].active = Cardinality(Holders(e))
    BY <1>2 DEF CountsExact
  <1>4. p \in Users(e) /\ Users(e) \subseteq Procs /\ Holders(e) \subseteq Users(e) \ {p}
    BY <1>1, <1>2 DEF Users, Holders
  <1>5. ASSUME heap[e].refs = 1 PROVE heap[e].active = 0
    <2>1. Users(e) \ {p} = {}
      BY <1>3, <1>4, <1>5, CardRemove
    <2>2. Holders(e) = {}
      BY <1>4, <2>1
    <2>. QED
      BY <1>3, <2>2, FS_EmptySet
  <1>6. gates' = [gates EXCEPT ![key[p]] = IF heap[e].refs = 1 THEN None ELSE @]
    BY <1>2, <1>5 DEF ReleaseRef
  <1>7. heap' = [heap EXCEPT ![e].refs = @ - 1] /\ Leave(p)
    BY <1>2 DEF ReleaseRef
  <1>. QED
    BY <1>1, <1>2, <1>6, <1>7, LeaveRest

(* SetLimit moves no goroutine; a gate it creates has none.                *)
LEMMA SetLimitRest ==
    ASSUME Inv, TypeOK', NEW k \in Keys, NEW l \in SetLimits, SetLimit(k, l)
    PROVE  Rest'
  <1> USE DEF Inv, TypeOK, KeyGate
  <1>1. PICK e \in Entries :
          \/ /\ gates[k] = e
             /\ heap' = [heap EXCEPT ![e].limit = AtLeastOne(l)]
             /\ gates' = gates
          \/ /\ gates[k] = None
             /\ Unreachable(e)
             /\ heap' = [heap EXCEPT ![e] = NewKeyGate(l)]
             /\ gates' = [gates EXCEPT ![k] = e]
    BY DEF SetLimit
  <1>2. pc' = pc /\ key' = key /\ ptr' = ptr
    BY DEF SetLimit
  <1>3. \A x \in Entries : Users(x)' = Users(x) /\ Holders(x)' = Holders(x)
    BY <1>2 DEF Users, Holders
  <1>4. GateIsCurrent' /\ IdleHasNoPointer' /\ OneInRelease'
    BY <1>1, <1>2, NoneFresh DEF GateIsCurrent, IdleHasNoPointer, OneInRelease
  <1>5. GatesDisjoint'
    BY <1>1, NoneFresh DEF GatesDisjoint, Unreachable
  <1>6. ASSUME NEW j \in Keys, NEW x \in Entries, gates'[j] = x
        PROVE  /\ heap'[x].refs = Cardinality(Users(x)')
               /\ heap'[x].active = Cardinality(Holders(x)')
    <2>1. CASE gates[j] = x
      <3>1. heap[x].refs = Cardinality(Users(x)) /\ heap[x].active = Cardinality(Holders(x))
        BY <2>1 DEF CountsExact
      <3>2. heap'[x].refs = heap[x].refs /\ heap'[x].active = heap[x].active
        BY <1>1, <2>1 DEF Unreachable
      <3>. QED
        BY <1>3, <3>1, <3>2
    <2>2. CASE gates[j] # x
      <3>1. x = e /\ Unreachable(e) /\ heap'[e].refs = 0 /\ heap'[e].active = 0
        BY <1>1, <1>6, <2>2 DEF NewKeyGate
      <3>2. Users(e) = {} /\ Holders(e) = {}
        BY <3>1 DEF Unreachable, Users, Holders
      <3>3. Cardinality(Users(e)) = 0 /\ Cardinality(Holders(e)) = 0
        BY <3>2, FS_EmptySet
      <3>. QED
        BY <1>3, <3>1, <3>3
    <2>. QED
      BY <2>1, <2>2
  <1>7. CountsExact'
    BY <1>6 DEF CountsExact
  <1>. QED
    BY <1>4, <1>5, <1>7 DEF Rest

(* Inv is inductive.                                                       *)
LEMMA InvStep == Inv /\ [Next]_vars => Inv'
  <1> SUFFICES ASSUME Inv, [Next]_vars PROVE Inv'
    OBVIOUS
  <1>1. CASE Next
    <2>1. TypeOK'
      BY <1>1, NextTypeOK
    <2>2. Rest'
      BY <1>1, <2>1, TakeRefRest, AskGateRest, DropRefRest, ReleaseSlotRest,
         ReleaseRefRest, SetLimitRest DEF Next
    <2>. QED
      BY <2>1, <2>2 DEF Inv, Rest
  <1>2. CASE UNCHANGED vars
    BY <1>2 DEF vars, Inv, TypeOK, GateIsCurrent, IdleHasNoPointer, GatesDisjoint,
       OneInRelease, CountsExact, Users, Holders
  <1>. QED
    BY <1>1, <1>2

(* The map and the gates agree at all times: a gate somebody points to is  *)
(* the current gate of its key, and its refs and active counters are exact.*)
THEOREM GatesCorrect == Spec => [](TypeOK /\ GateIsCurrent /\ CountsExact)
  <1>1. Inv => TypeOK /\ GateIsCurrent /\ CountsExact
    BY DEF Inv
  <1>. QED
    BY <1>1, InitInv, InvStep, PTL DEF Spec

(* The sole user of a key is the sole user of its gate, and the gate's     *)
(* reference counter says so.                                              *)
LEMMA SoleUserCounted ==
    ASSUME Inv, NEW p \in Procs, pc[p] # "idle",
           \A q \in Procs : q # p => key[q] # key[p]
    PROVE  heap[ptr[p]].refs = 1
  <1>1. key[p] \in Keys /\ ptr[p] \in Entries /\ gates[key[p]] = ptr[p]
    BY DEF Inv, GateIsCurrent
  <1>2. ASSUME NEW q \in Procs, pc[q] # "idle", ptr[q] = ptr[p]
        PROVE  q = p
    <2>1. key[q] \in Keys /\ gates[key[q]] = gates[key[p]]
      BY <1>1, <1>2 DEF Inv, GateIsCurrent
    <2>2. key[q] = key[p]
      BY <1>1, <2>1, NoneFresh DEF Inv, GatesDisjoint
    <2>. QED
      BY <2>2
  <1>3. Users(ptr[p]) = {p}
    BY <1>2 DEF Users
  <1>4. Cardinality({p}) = 1
    BY FS_Singleton
  <1>. QED
    BY <1>1, <1>3, <1>4 DEF Inv, CountsExact

(* Whoever leaves a key as its last user removes its gate from the map,    *)
(* with or without SetLimit: the map does not grow with the keys seen.     *)
THEOREM GatesDoNotPileUp == Spec => LastUserTakesGate
  <1> DEFINE Step == \A k \in Keys :
                        /\ \E p \in Procs : key[p] = k
                        /\ \A p \in Procs : key'[p] # k
                        => gates'[k] = None
  <1>1. ASSUME Inv, Inv', Next PROVE Step
    <2> SUFFICES ASSUME NEW k \in Keys, NEW p \in Procs, key[p] = k,
                        \A q \in Procs : key'[q] # k
                 PROVE  gates'[k] = None
      OBVIOUS
    <2>0. key \in [Procs -> Keys \cup {None}] /\ gates \in [Keys -> Entries \cup {None}]
          /\ pc[p] # "idle"
      BY <1>1, NoneFresh DEF Inv, TypeOK, IdleHasNoPointer
    <2>1. CASE \E q \in Procs, j \in Keys, l \in Limits : TakeRef(q, j, l)
      BY <1>1, <2>0, <2>1, NoneFresh DEF TakeRef, Inv, IdleHasNoPointer
    <2>2. CASE \E q \in Procs : AskGate(q)
      BY <2>2 DEF AskGate
    <2>3. ASSUME NEW q \in Procs, Leave(q) PROVE heap[ptr[p]].refs = 1 /\ q = p
      <3>1. q = p /\ \A r \in Procs : r # p => key[r] # key[p]
        BY <2>0, <2>3 DEF Leave
      <3>. QED
        BY <1>1, <2>0, <3>1, SoleUserCounted
    <2>4. CASE \E q \in Procs : DropRef(q)
      BY <2>0, <2>3, <2>4 DEF DropRef
    <2>5. CASE \E q \in Procs : ReleaseSlot(q)
      BY <1>1, <2>3, <2>5, NoneFresh DEF ReleaseSlot, Inv, GateIsCurrent
    <2>6. CASE \E q \in Procs : ReleaseRef(q)
      <3>1. PICK q \in Procs : ReleaseRef(q)
        BY <2>6
      <3>2. q = p /\ heap[ptr[p]].refs = 1 /\ pc[p] = "dropping"
        BY <2>3, <3>1 DEF ReleaseRef
      <3>3. gates[key[p]] = ptr[p] /\ ptr[p] \in Entries
        BY <1>1, <2>0 DEF Inv, GateIsCurrent
      <3>4. heap[ptr[p]].refs = Cardinality(Users(ptr[p]))
            /\ heap[ptr[p]].active = Cardinality(Holders(ptr[p]))
        BY <1>1, <3>3 DEF Inv, CountsExact
      <3>5. Users(ptr[p]) \ {p} = {}
        <4>1. p \in Users(ptr[p]) /\ Users(ptr[p]) \subseteq Procs
          BY <2>0 DEF Users
        <4>2. Cardinality(Users(ptr[p])) = 1
          BY <3>2, <3>4
        <4>. QED
          BY <4>1, <4>2, CardRemove, Zenon
      <3>6. Holders(ptr[p]) = {}
        BY <3>2, <3>5 DEF Users, Holders
      <3>7. heap[ptr[p]].active = 0
        BY <3>4, <3>6, FS_EmptySet
      <3>. QED
        BY <2>0, <3>1, <3>2, <3>3, <3>7 DEF ReleaseRef
    <2>7. CASE \E j \in Keys, l \in SetLimits : SetLimit(j, l)
      BY <2>7 DEF SetLimit
    <2>. QED
      BY <1>1, <2>1, <2>2, <2>4, <2>5, <2>6, <2>7 DEF Next
  <1>2. Inv /\ Inv' /\ [Next]_vars => [Step]_vars
    BY <1>1
  <1>. QED
    BY <1>2, InitInv, InvStep, PTL DEF Spec, LastUserTakesGate

-----------------------------------------------------------------------------
(* Both modules count with the same Cardinality.                           *)
LEMMA SameCardinality == \A S : Sem!Cardinality(S) = Cardinality(S)
  BY ZenonT(30) DEF Sem!Cardinality, Cardinality, Sem!IsFiniteSet, IsFiniteSet

(* The goroutines that hold a slot of a key hold it at the key's gate.     *)
LEMMA HoldersAtGate ==
    ASSUME Inv, NEW k \in Keys, NEW e \in Entries, gates[k] = e
    PROVE  HoldersOf(k) = Holders(e)
  BY NoneFresh DEF Inv, GateIsCurrent, GatesDisjoint, HoldersOf, Holders

(* A key without a gate has no holders.                                    *)
LEMMA NoGateNoHolders ==
    ASSUME Inv, NEW k \in Keys, gates[k] = None
    PROVE  HoldersOf(k) = {}
  BY NoneFresh DEF Inv, GateIsCurrent, HoldersOf

(* Leaving a gate one holds no slot of forgets the semaphore, or does      *)
(* nothing the abstract machine can see.                                   *)
LEMMA LeaveRefines ==
    ASSUME Inv, Inv', NEW p \in Procs, NEW e \in Entries, ptr[p] = e,
           pc[p] \in {"refused", "dropping"}, Leave(p),
           heap' = [heap EXCEPT ![e].refs = @ - 1],
           \/ gates' = [gates EXCEPT ![key[p]] = None]
           \/ gates' = gates
    PROVE  [Sem!Next]_(Sem!semVars)
  <1> USE DEF Inv, TypeOK, KeyGate
  <1>1. key[p] \in Keys /\ gates[key[p]] = e
    BY DEF GateIsCurrent
  <1>2. heldOf' = heldOf
    BY DEF heldOf, HoldersOf, Leave
  <1>3. \A x \in Entries : heap'[x].limit = heap[x].limit
    OBVIOUS
  <1>4. CASE gates' = gates
    <2>1. capOf' = capOf
      BY <1>3, <1>4 DEF capOf
    <2>. QED
      BY <1>2, <2>1 DEF Sem!semVars
  <1>5. CASE gates' = [gates EXCEPT ![key[p]] = None]
    <2>1. capOf' = [capOf EXCEPT ![key[p]] = 0]
      BY <1>1, <1>3, <1>5 DEF capOf
    <2>2. PICK k \in Keys : key[p] = k /\ gates'[k] = None
      BY <1>1, <1>5
    <2>3. heldOf'[k] = {}
      BY <2>2, NoneFresh DEF GateIsCurrent, HoldersOf, heldOf
    <2>4. Sem!Forget(key[p])
      BY <1>2, <2>1, <2>2, <2>3 DEF Sem!Forget
    <2>. QED
      BY <1>1, <2>4 DEF Sem!Next
  <1>. QED
    BY <1>4, <1>5

(* Every step of KeyGates is a step of the semaphores, or changes neither  *)
(* their holders nor their capacities.                                     *)
LEMMA StepRefines == Inv /\ Inv' /\ [Next]_vars => [Sem!Next]_(Sem!semVars)
  <1> SUFFICES ASSUME Inv, Inv', [Next]_vars PROVE [Sem!Next]_(Sem!semVars)
    OBVIOUS
  <1> USE DEF Inv, TypeOK, KeyGate
  <1>1. ASSUME NEW p \in Procs, NEW k \in Keys, NEW l \in Limits, TakeRef(p, k, l)
        PROVE  [Sem!Next]_(Sem!semVars)
    <2>1. heldOf' = heldOf
      BY <1>1 DEF heldOf, HoldersOf, TakeRef, IdleHasNoPointer
    <2>2. PICK e \in Entries :
            /\ \/ /\ gates[k] = e
                  /\ heap' = [heap EXCEPT ![e].refs = @ + 1]
               \/ /\ gates[k] = None
                  /\ Unreachable(e)
                  /\ heap' = [heap EXCEPT ![e] = [NewKeyGate(l) EXCEPT !.refs = 1]]
            /\ gates' = [gates EXCEPT ![k] = e]
      BY <1>1 DEF TakeRef
    <2>3. CASE gates[k] = e
      <3>1. \A x \in Entries : heap'[x].limit = heap[x].limit
        BY <2>2, <2>3, NoneFresh
      <3>2. gates' = gates
        BY <2>2, <2>3
      <3>3. capOf' = capOf
        BY <3>1, <3>2 DEF capOf
      <3>. QED
        BY <2>1, <3>3 DEF Sem!semVars
    <2>4. CASE gates[k] = None
      <3>1. heap'[e].limit = AtLeastOne(l) /\ \A x \in Entries : x # e => heap'[x] = heap[x]
        BY <2>2, <2>4, NoneFresh DEF NewKeyGate
      <3>2. \A j \in Keys : gates[j] # e
        BY <2>2, <2>4, NoneFresh DEF Unreachable
      <3>3. capOf' = [capOf EXCEPT ![k] = AtLeastOne(l)]
        BY <2>2, <3>1, <3>2, NoneFresh DEF capOf
      <3>4. capOf[k] = 0 /\ heldOf[k] = {}
        BY <2>4, NoGateNoHolders DEF capOf, heldOf
      <3>5. Sem!Open(k)
        BY <2>1, <3>3, <3>4 DEF Sem!Open
      <3>. QED
        BY <3>5 DEF Sem!Next
    <2>. QED
      BY <2>2, <2>3, <2>4
  <1>2. ASSUME NEW p \in Procs, AskGate(p)
        PROVE  [Sem!Next]_(Sem!semVars)
    <2>1. PICK e \in Entries : ptr[p] = e
      BY <1>2 DEF AskGate, GateIsCurrent
    <2>2. PICK k \in Keys : key[p] = k /\ gates[k] = e
      BY <1>2, <2>1 DEF AskGate, GateIsCurrent
    <2>3. \A x \in Entries : heap'[x].limit = heap[x].limit
      BY <1>2, <2>1 DEF AskGate
    <2>4. capOf' = capOf
      BY <1>2, <2>3 DEF capOf, AskGate
    <2>5. CASE heap[e].active < heap[e].limit
      <3>0. /\ HoldersOf(k)' = HoldersOf(k) \cup {p} /\ p \notin HoldersOf(k)
            /\ \A j \in Keys : j # k => HoldersOf(j)' = HoldersOf(j)
        BY <1>2, <2>1, <2>2, <2>5 DEF HoldersOf, AskGate
      <3>1. heldOf' = [heldOf EXCEPT ![k] = @ \cup {p}] /\ p \notin heldOf[k]
        BY <3>0 DEF heldOf
      <3>2. heap[e].active = Cardinality(heldOf[k])
        BY <2>2, HoldersAtGate DEF CountsExact, heldOf
      <3>3. capOf[k] = heap[e].limit
        BY <2>2, NoneFresh DEF capOf
      <3>4. Cardinality(heldOf[k]) < capOf[k]
        BY <2>5, <3>2, <3>3
      <3>5. Sem!Acquire(p, k)
        BY <2>4, <3>1, <3>4, SameCardinality DEF Sem!Acquire
      <3>. QED
        BY <3>5 DEF Sem!Next
    <2>6. CASE ~(heap[e].active < heap[e].limit)
      <3>1. heldOf' = heldOf
        BY <1>2, <2>1, <2>6 DEF heldOf, HoldersOf, AskGate
      <3>. QED
        BY <2>4, <3>1 DEF Sem!semVars
    <2>. QED
      BY <2>5, <2>6
  <1>3. ASSUME NEW p \in Procs, DropRef(p)
        PROVE  [Sem!Next]_(Sem!semVars)
    <2>1. PICK e \in Entries : ptr[p] = e
      BY <1>3 DEF DropRef, GateIsCurrent
    <2>2. gates' = [gates EXCEPT ![key[p]] = None] \/ gates' = gates
      BY <1>3 DEF DropRef
    <2>. QED
      BY <1>3, <2>1, <2>2, LeaveRefines DEF DropRef
  <1>4. ASSUME NEW p \in Procs, ReleaseSlot(p)
        PROVE  [Sem!Next]_(Sem!semVars)
    <2>1. PICK e \in Entries : ptr[p] = e
      BY <1>4 DEF ReleaseSlot, GateIsCurrent
    <2>2. PICK k \in Keys : key[p] = k /\ gates[k] = e
      BY <1>4, <2>1 DEF ReleaseSlot, GateIsCurrent
    <2>3. \A x \in Entries : heap'[x].limit = heap[x].limit
      BY <1>4, <2>2, NoneFresh DEF ReleaseSlot
    <2>4. capOf' = capOf
      BY <1>4, <2>3 DEF capOf, ReleaseSlot
    <2>5. /\ HoldersOf(k)' = HoldersOf(k) \ {p} /\ p \in HoldersOf(k)
          /\ \A j \in Keys : j # k => HoldersOf(j)' = HoldersOf(j)
      BY <1>4, <2>2, NoneFresh DEF HoldersOf, ReleaseSlot
    <2>6. heldOf' = [heldOf EXCEPT ![k] = @ \ {p}] /\ p \in heldOf[k]
      BY <2>5 DEF heldOf
    <2>7. Sem!Release(p, k)
      BY <2>4, <2>6 DEF Sem!Release
    <2>. QED
      BY <2>7 DEF Sem!Next
  <1>5. ASSUME NEW p \in Procs, ReleaseRef(p)
        PROVE  [Sem!Next]_(Sem!semVars)
    <2>1. PICK e \in Entries : ptr[p] = e
      BY <1>5 DEF ReleaseRef, GateIsCurrent
    <2>2. key[p] \in Keys /\ gates[key[p]] = e /\ pc[p] = "dropping"
      BY <1>5, <2>1 DEF ReleaseRef, GateIsCurrent
    <2>3. gates' = [gates EXCEPT ![key[p]] = None] \/ gates' = gates
      BY <1>5 DEF ReleaseRef
    <2>4. heap' = [heap EXCEPT ![e].refs = @ - 1] /\ Leave(p)
      BY <1>5, <2>2 DEF ReleaseRef
    <2>. QED
      BY <2>1, <2>2, <2>3, <2>4, LeaveRefines
  <1>6. ASSUME NEW k \in Keys, NEW l \in SetLimits, SetLimit(k, l)
        PROVE  [Sem!Next]_(Sem!semVars)
    <2>1. heldOf' = heldOf
      BY <1>6 DEF heldOf, HoldersOf, SetLimit
    <2>2. PICK e \in Entries :
            \/ /\ gates[k] = e
               /\ heap' = [heap EXCEPT ![e].limit = AtLeastOne(l)]
               /\ gates' = gates
            \/ /\ gates[k] = None
               /\ Unreachable(e)
               /\ heap' = [heap EXCEPT ![e] = NewKeyGate(l)]
               /\ gates' = [gates EXCEPT ![k] = e]
      BY <1>6 DEF SetLimit
    <2>3. heap'[e].limit = AtLeastOne(l) /\ \A x \in Entries : x # e => heap'[x] = heap[x]
      BY <2>2 DEF NewKeyGate
    <2>4. \A j \in Keys : j # k => gates[j] # e
      BY <2>2, NoneFresh DEF Unreachable, GatesDisjoint
    <2>5. gates'[k] = e /\ \A j \in Keys : j # k => gates'[j] = gates[j]
      BY <2>2
    <2>6. capOf' = [capOf EXCEPT ![k] = AtLeastOne(l)]
      BY <2>3, <2>4, <2>5, NoneFresh DEF capOf
    <2>7. Sem!Resize(k)
      BY <2>1, <2>6 DEF Sem!Resize
    <2>. QED
      BY <2>7 DEF Sem!Next
  <1>7. CASE UNCHANGED vars
    <2>1. capOf' = capOf /\ heldOf' = heldOf
      BY <1>7 DEF vars, capOf, heldOf, HoldersOf
    <2>. QED
      BY <2>1 DEF Sem!semVars
  <1>. QED
    BY <1>1, <1>2, <1>3, <1>4, <1>5, <1>6, <1>7 DEF Next

(* KeyGates implements one counting semaphore per key: although the gate   *)
(* is asked outside ks.mu and gates are created and deleted with their     *)
(* users, no key is ever admitted beyond the limit in force.               *)
THEOREM GatesImplementSemaphore == Spec => ImplementsSemaphore
  <1>1. Init => Sem!Init
    BY NoneFresh DEF Init, Sem!Init, heldOf, capOf, HoldersOf
  <1>. QED
    BY <1>1, InitInv, InvStep, StepRefines, PTL DEF Spec, ImplementsSemaphore, Sem!Spec
=============================================================================
