-------------------------- MODULE SettlementProofs --------------------------
(***************************************************************************)
(* Proofs about Settlement, for any finite set of requests and any limits, *)
(* outcomes and numbers of retries, faults and crashes.                    *)
(***************************************************************************)
EXTENDS Settlement, FiniteSetTheorems, TLAPS

(* The state before any request.                                           *)
LEMMA InitInv == Init => Inv
  <1> SUFFICES ASSUME Init PROVE Inv
    OBVIOUS
  <1>1. TypeOK
    BY SettlementAssumption DEF Init, TypeOK, Positions, Closers
  <1>2. HoldsGlobal = {} /\ \A k \in Keys : HoldsKey(k) = {}
    BY DEF Init, HoldsGlobal, HoldsKey, GlobalHeldAt, KeyHeldAt
  <1>3. SlotsExact /\ WithinLimit
    BY <1>2, FS_EmptySet, SettlementAssumption DEF Init, SlotsExact, WithinLimit
  <1>4. Shape
    BY SettlementAssumption
    DEF Init, Shape, RowFollows, OutcomeFrozen, OneCloser, Registered, ReaperExcludes,
       PhaseOrder, OwnedRowIntact, BilledAsDecided, Owned, OwnedAt, ClosingAt, UndecidedAt,
       Closers
  <1>. QED
    BY <1>1, <1>3, <1>4 DEF Inv

-----------------------------------------------------------------------------
(* The slots.                                                              *)

(* A set of requests is finite; gaining or losing one member moves its     *)
(* size by one.                                                            *)
LEMMA CardChange ==
    ASSUME NEW S, S \subseteq Requests, NEW r \in Requests
    PROVE  /\ Cardinality(S) \in Nat
           /\ r \notin S => Cardinality(S \cup {r}) = Cardinality(S) + 1
           /\ r \in S => Cardinality(S) >= 1 /\ Cardinality(S \ {r}) = Cardinality(S) - 1
  <1>1. IsFiniteSet(S)
    BY SettlementAssumption, FS_Subset
  <1>2. Cardinality(S) \in Nat /\ Cardinality(S \ {r}) \in Nat
    BY <1>1, FS_CardinalityType, FS_Difference
  <1>3. r \notin S => Cardinality(S \cup {r}) = Cardinality(S) + 1
    BY <1>1, FS_AddElement
  <1>4. r \in S => Cardinality(S \ {r}) = Cardinality(S) - 1
    BY <1>1, FS_RemoveElement
  <1>. QED
    BY <1>2, <1>3, <1>4

(* A step of one request that neither takes nor returns a slot.            *)
LEMMA SlotsKept ==
    ASSUME Inv, HoldsGlobal' = HoldsGlobal, \A k \in Keys : HoldsKey(k)' = HoldsKey(k),
           gActive' = gActive, kActive' = kActive
    PROVE  SlotsExact'
  <1>1. gActive' = Cardinality(HoldsGlobal')
    BY DEF Inv, SlotsExact
  <1>2. \A k \in Keys : kActive'[k] = Cardinality(HoldsKey(k)')
    BY DEF Inv, SlotsExact
  <1>. QED
    BY <1>1, <1>2 DEF SlotsExact

(* global.TryAcquire and global.Release change one request and the         *)
(* counter together.                                                       *)
LEMMA GlobalMoves ==
    ASSUME Inv, NEW r \in Requests, \A k \in Keys : HoldsKey(k)' = HoldsKey(k),
           kActive' = kActive,
           \/ /\ r \notin HoldsGlobal
              /\ HoldsGlobal' = HoldsGlobal \cup {r}
              /\ gActive' = gActive + 1
           \/ /\ r \in HoldsGlobal
              /\ HoldsGlobal' = HoldsGlobal \ {r}
              /\ gActive' = gActive - 1
    PROVE  SlotsExact'
  <1>1. HoldsGlobal \subseteq Requests
    BY DEF HoldsGlobal
  <1>2. gActive' = Cardinality(HoldsGlobal')
    BY <1>1, CardChange DEF Inv, SlotsExact
  <1>3. \A k \in Keys : kActive'[k] = Cardinality(HoldsKey(k)')
    BY DEF Inv, SlotsExact
  <1>. QED
    BY <1>2, <1>3 DEF SlotsExact

(* The same for the gate of one key.                                       *)
LEMMA KeyMoves ==
    ASSUME Inv, NEW r \in Requests, HoldsGlobal' = HoldsGlobal, gActive' = gActive,
           NEW h \in Keys, \A k \in Keys : k # h => HoldsKey(k)' = HoldsKey(k),
           \/ /\ r \notin HoldsKey(h)
              /\ HoldsKey(h)' = HoldsKey(h) \cup {r}
              /\ kActive' = [kActive EXCEPT ![h] = @ + 1]
           \/ /\ r \in HoldsKey(h)
              /\ HoldsKey(h)' = HoldsKey(h) \ {r}
              /\ kActive' = [kActive EXCEPT ![h] = @ - 1]
    PROVE  SlotsExact'
  <1>1. HoldsKey(h) \subseteq Requests /\ kActive \in [Keys -> Nat]
    BY DEF HoldsKey, Inv, TypeOK
  <1>2. kActive[h] = Cardinality(HoldsKey(h))
    BY DEF Inv, SlotsExact
  <1>3. kActive'[h] = Cardinality(HoldsKey(h)')
    BY <1>1, <1>2, CardChange
  <1>4. \A k \in Keys : k # h => kActive'[k] = Cardinality(HoldsKey(k)')
    BY <1>1 DEF Inv, SlotsExact
  <1>5. gActive' = Cardinality(HoldsGlobal')
    BY DEF Inv, SlotsExact
  <1>. QED
    BY <1>3, <1>4, <1>5 DEF SlotsExact

(* After Wipe no request holds a slot and the counters are zero.           *)
LEMMA WipeSlots == Wipe => SlotsExact'
  <1> SUFFICES ASSUME Wipe PROVE SlotsExact'
    OBVIOUS
  <1>1. HoldsGlobal' = {} /\ \A k \in Keys : HoldsKey(k)' = {}
    BY DEF Wipe, HoldsGlobal, HoldsKey, GlobalHeldAt, KeyHeldAt
  <1>2. gActive' = 0 /\ \A k \in Keys : kActive'[k] = 0
    BY DEF Wipe
  <1>. QED
    BY <1>1, <1>2, FS_EmptySet DEF SlotsExact

(* Begin and Close return each slot exactly once on every path.            *)
LEMMA SlotsStep == Inv /\ Next => SlotsExact'
  <1> SUFFICES ASSUME Inv, Next PROVE SlotsExact'
    OBVIOUS
  <1>0. st \in [Requests -> Positions] /\ KeyOf \in [Requests -> Keys]
    BY SettlementAssumption DEF Inv, TypeOK
  <1> USE DEF HoldsGlobal, HoldsKey, GlobalHeldAt, KeyHeldAt, Move
  <1>1. ASSUME NEW r \in Requests, AcquireGlobal(r) PROVE SlotsExact'
    <2>1. \A k \in Keys : HoldsKey(k)' = HoldsKey(k)
      BY <1>0, <1>1 DEF AcquireGlobal
    <2>2. CASE gActive < gLimit
      <3>1. r \notin HoldsGlobal /\ HoldsGlobal' = HoldsGlobal \cup {r}
        BY <1>0, <1>1, <2>2 DEF AcquireGlobal
      <3>. QED
        BY <1>1, <2>1, <2>2, <3>1, GlobalMoves DEF AcquireGlobal
    <2>3. CASE ~(gActive < gLimit)
      <3>1. HoldsGlobal' = HoldsGlobal
        BY <1>0, <1>1, <2>3 DEF AcquireGlobal
      <3>. QED
        BY <1>1, <2>1, <2>3, <3>1, SlotsKept DEF AcquireGlobal
    <2>. QED
      BY <2>2, <2>3
  <1>2. ASSUME NEW r \in Requests, AcquireKey(r) PROVE SlotsExact'
    <2>1. HoldsGlobal' = HoldsGlobal
      BY <1>0, <1>2 DEF AcquireKey
    <2>2. \A k \in Keys : k # KeyOf[r] => HoldsKey(k)' = HoldsKey(k)
      BY <1>0, <1>2 DEF AcquireKey
    <2>3. CASE kActive[KeyOf[r]] < KeyLimit
      <3>1. r \notin HoldsKey(KeyOf[r]) /\ HoldsKey(KeyOf[r])' = HoldsKey(KeyOf[r]) \cup {r}
        BY <1>0, <1>2, <2>3 DEF AcquireKey
      <3>. QED
        BY <1>0, <1>2, <2>1, <2>2, <2>3, <3>1, KeyMoves DEF AcquireKey
    <2>4. CASE ~(kActive[KeyOf[r]] < KeyLimit)
      <3>1. \A k \in Keys : HoldsKey(k)' = HoldsKey(k)
        BY <1>0, <1>2, <2>4 DEF AcquireKey
      <3>. QED
        BY <1>2, <2>1, <2>4, <3>1, SlotsKept DEF AcquireKey
    <2>. QED
      BY <2>3, <2>4
  <1>3. ASSUME NEW r \in Requests, UnwindKey(r) \/ FreeKey(r) PROVE SlotsExact'
    <2>1. HoldsGlobal' = HoldsGlobal
      BY <1>0, <1>3 DEF UnwindKey, FreeKey
    <2>2. \A k \in Keys : k # KeyOf[r] => HoldsKey(k)' = HoldsKey(k)
      BY <1>0, <1>3 DEF UnwindKey, FreeKey
    <2>3. r \in HoldsKey(KeyOf[r]) /\ HoldsKey(KeyOf[r])' = HoldsKey(KeyOf[r]) \ {r}
      BY <1>0, <1>3 DEF UnwindKey, FreeKey
    <2>. QED
      BY <1>0, <1>3, <2>1, <2>2, <2>3, KeyMoves DEF UnwindKey, FreeKey
  <1>4. ASSUME NEW r \in Requests, UnwindGlobal(r) \/ FreeGlobal(r) PROVE SlotsExact'
    <2>1. \A k \in Keys : HoldsKey(k)' = HoldsKey(k)
      BY <1>0, <1>4 DEF UnwindGlobal, FreeGlobal
    <2>2. r \in HoldsGlobal /\ HoldsGlobal' = HoldsGlobal \ {r}
      BY <1>0, <1>4 DEF UnwindGlobal, FreeGlobal
    <2>. QED
      BY <1>4, <2>1, <2>2, GlobalMoves DEF UnwindGlobal, FreeGlobal, ReleaseGlobal
  <1>5. ASSUME NEW r \in Requests,
               \/ Arrive(r) \/ Reserve(r) \/ ReserveRefused(r) \/ ReserveLostAck(r)
               \/ Register(r) \/ HandlerClose(r) \/ SettleStep(r)
               \/ Handover(r) \/ Park(r) \/ Unpend(r) \/ Unregister(r) \/ Age(r)
        PROVE  SlotsExact'
    <2>1. HoldsGlobal' = HoldsGlobal /\ \A k \in Keys : HoldsKey(k)' = HoldsKey(k)
      BY <1>0, <1>5 DEF Arrive, Reserve, ReserveRefused, ReserveLostAck, Register,
         HandlerClose, SettleStep, SettleOk, SettleRejected, SettleBusy, SettleError,
         SettleLostAck, Leave, Handover, Park, Unpend, Unregister, Age, leaseVars
    <2>2. gActive' = gActive /\ kActive' = kActive
      BY <1>5 DEF Arrive, Reserve, ReserveRefused, ReserveLostAck, Register,
         HandlerClose, SettleStep, SettleOk, SettleRejected, SettleBusy, SettleError,
         SettleLostAck, Leave, Handover, Park, Unpend, Unregister, Age, gateVars, SetLimit
    <2>. QED
      BY <2>1, <2>2, SlotsKept
  <1>6. ASSUME NEW c \in Closers, ReconcileStep(c) PROVE SlotsExact'
    <2>1. HoldsGlobal' = HoldsGlobal /\ \A k \in Keys : HoldsKey(k)' = HoldsKey(k)
      BY <1>0, <1>6 DEF ReconcileStep, ReconcileStart, ReconcileClose, ReconcileSkip, leaseVars
    <2>2. gActive' = gActive /\ kActive' = kActive
      BY <1>6 DEF ReconcileStep, ReconcileStart, ReconcileClose, ReconcileSkip, gateVars
    <2>. QED
      BY <2>1, <2>2, SlotsKept
  <1>7. ASSUME UNCHANGED <<leaseVars, gActive, kActive>> PROVE SlotsExact'
    BY <1>7, SlotsKept DEF leaseVars
  <1>8. ASSUME ReapStep \/ BeginDraining \/ Restart
        PROVE  UNCHANGED <<leaseVars, gActive, kActive>>
    BY <1>8 DEF ReapStep, ReapReadActive, ReapReadPending, ReapOrphans, ReapCancelled,
       BeginDraining, Restart, SetLimit, gateVars
  <1>9. ASSUME ShutdownStep PROVE SlotsExact'
    <2>1. Exit \/ UNCHANGED <<leaseVars, gActive, kActive>>
      BY <1>9 DEF ShutdownStep, HandlersReturned, HandlersTimeout, DrainEnds, DrainTimeout,
         MaintenanceCancelled, StoreClose, gateVars
    <2>. QED
      BY <1>7, <2>1, WipeSlots DEF Exit
  <1>10. ASSUME Crash PROVE SlotsExact'
    BY <1>10, WipeSlots DEF Crash
  <1>. QED
    BY <1>1, <1>2, <1>3, <1>4, <1>5, <1>6, <1>7, <1>8, <1>9, <1>10
    DEF Next, BeginStep, CloseStep

(* TryAcquire compares with the limit in force, and a lowered limit leaves *)
(* the earlier one in peak until the gate is empty.                        *)
LEMMA WithinLimitStep == Inv /\ Next => WithinLimit'
  <1> SUFFICES ASSUME Inv, Next PROVE WithinLimit'
    OBVIOUS
  <1>1. gActive \in Nat /\ gLimit \in Nat /\ peak \in Nat /\ GlobalLimits \subseteq Nat
    BY SettlementAssumption DEF Inv, TypeOK
  <1> USE DEF Inv, WithinLimit, gateVars, SetLimit, ReleaseGlobal
  <1>2. ASSUME NEW r \in Requests, BeginStep(r) PROVE WithinLimit'
    BY <1>1, <1>2 DEF BeginStep, Arrive, AcquireGlobal, AcquireKey, Reserve, ReserveRefused,
       ReserveLostAck, UnwindKey, UnwindGlobal, Register
  <1>3. ASSUME NEW r \in Requests, HandlerClose(r) \/ SettleStep(r) \/ Age(r)
        PROVE  WithinLimit'
    BY <1>1, <1>3 DEF HandlerClose, SettleStep, SettleOk, SettleRejected, SettleBusy,
       SettleError, SettleLostAck, Leave, Age
  <1>4. ASSUME NEW r \in Requests, CloseStep(r) PROVE WithinLimit'
    BY <1>1, <1>4 DEF CloseStep, Handover, Park, Unpend, Unregister, FreeKey, FreeGlobal
  <1>5. ASSUME NEW c \in Closers, ReconcileStep(c) PROVE WithinLimit'
    BY <1>1, <1>5 DEF ReconcileStep, ReconcileStart, ReconcileClose, ReconcileSkip
  <1>6. ASSUME ReapStep \/ BeginDraining \/ Restart PROVE WithinLimit'
    BY <1>1, <1>6 DEF ReapStep, ReapReadActive, ReapReadPending, ReapOrphans, ReapCancelled,
       BeginDraining, Restart
  <1>7. ASSUME ShutdownStep \/ Crash PROVE WithinLimit'
    BY <1>1, <1>7 DEF ShutdownStep, HandlersReturned, HandlersTimeout, DrainEnds,
       DrainTimeout, MaintenanceCancelled, StoreClose, Exit, Crash, Wipe
  <1>. QED
    BY <1>2, <1>3, <1>4, <1>5, <1>6, <1>7 DEF Next

(* Each action preserves the shape of the state; the counters stay natural *)
(* numbers because they are exact.                                         *)
LEMMA TypeStep == Inv /\ Next => TypeOK'
  <1> SUFFICES ASSUME Inv, Next PROVE TypeOK'
    OBVIOUS
  <1>1. SlotsExact'
    BY SlotsStep
  <1>2. gActive' \in Nat /\ \A k \in Keys : kActive'[k] \in Nat
    <2>1. HoldsGlobal' \subseteq Requests /\ \A k \in Keys : HoldsKey(k)' \subseteq Requests
      BY DEF HoldsGlobal, HoldsKey
    <2>2. \A S \in SUBSET Requests : Cardinality(S) \in Nat
      BY SettlementAssumption, FS_Subset, FS_CardinalityType
    <2>. QED
      BY <1>1, <2>1, <2>2 DEF SlotsExact
  <1> DEFINE KeyCounters == kActive' = [k \in Keys |-> kActive'[k]]
             Others == /\ gLimit' \in GlobalLimits /\ peak' \in GlobalLimits
                       /\ row' \in [Requests -> Outcomes \cup {"none", "reserved", "stale",
                                                               "recovered"}]
                       /\ st' \in [Requests -> Positions]
                       /\ by' \in [Requests -> Closers \cup {"handler", None}]
                       /\ frozen' \in [Requests -> Outcomes \cup {None}]
                       /\ tries' \in [Requests -> 0 .. MaxTries - 1]
                       /\ active' \subseteq Requests /\ pending' \subseteq Requests
                       /\ todo' \in [Closers -> SUBSET Requests]
                       /\ reap' \in {"idle", "readPending", "tx"}
                       /\ seen' \subseteq Requests /\ agers' \subseteq Requests
                       /\ phase' \in {"serving", "draining", "settling", "abandoning",
                                      "stopping", "closed", "down"}
                       /\ faults' \in 0 .. MaxFaults
  <1> USE SettlementAssumption DEF Inv, TypeOK, Shape, OutcomeFrozen, ClosingAt, Positions,
      GlobalHeldAt, Closers, ledgerVars, leaseVars, registryVars, gateVars, maintVars,
      envVars, Move, Phase, SetLimit, ReleaseGlobal
  <1>3. ASSUME NEW r \in Requests, BeginStep(r) PROVE KeyCounters /\ Others
    BY <1>3 DEF BeginStep, Arrive, AcquireGlobal, AcquireKey, Reserve, ReserveRefused,
       ReserveLostAck, UnwindKey, UnwindGlobal, Register
  <1>4. ASSUME NEW r \in Requests, HandlerClose(r) \/ Age(r) PROVE KeyCounters /\ Others
    BY <1>4 DEF HandlerClose, Age
  <1>5. ASSUME NEW r \in Requests, SettleStep(r) PROVE KeyCounters /\ Others
    BY <1>5 DEF SettleStep, SettleOk, SettleRejected, SettleBusy, SettleError,
       SettleLostAck, Leave
  <1>6. ASSUME NEW r \in Requests, CloseStep(r) PROVE KeyCounters /\ Others
    BY <1>6 DEF CloseStep, Handover, Park, Unpend, Unregister, FreeKey, FreeGlobal, Unlock
  <1>7. ASSUME NEW c \in Closers, ReconcileStep(c) PROVE KeyCounters /\ Others
    BY <1>7 DEF ReconcileStep, ReconcileStart, ReconcileClose, ReconcileSkip
  <1>8. ASSUME ReapStep \/ BeginDraining \/ Restart PROVE KeyCounters /\ Others
    BY <1>8 DEF ReapStep, ReapReadActive, ReapReadPending, ReapOrphans, ReapCancelled,
       BeginDraining, Restart
  <1>9. ASSUME ShutdownStep \/ Crash PROVE KeyCounters /\ Others
    BY <1>9 DEF ShutdownStep, HandlersReturned, HandlersTimeout, DrainEnds, DrainTimeout,
       MaintenanceCancelled, StoreClose, Exit, Crash, Wipe
  <1>10. KeyCounters /\ Others
    BY <1>3, <1>4, <1>5, <1>6, <1>7, <1>8, <1>9 DEF Next
  <1>. QED
    BY <1>2, <1>10

-----------------------------------------------------------------------------
(* Rows, leases, registries, reaper and phases.                            *)

(* The rows follow the positions: only ReapOrphans and Restart write rows  *)
(* of requests that do not move, and neither reaches a row still in use.   *)
LEMMA RowFollowsStep == Inv /\ Next => RowFollows'
  <1> SUFFICES ASSUME Inv, Next PROVE RowFollows'
    OBVIOUS
  <1> USE SettlementAssumption DEF Inv, Shape, TypeOK, RowFollows,
      ReaperExcludes, PhaseOrder, Reserved, Owned, OwnedAt, Exposed,
      ledgerVars, leaseVars, registryVars, gateVars, maintVars, envVars
  <1>1. ASSUME NEW r \in Requests, BeginStep(r) PROVE RowFollows'
    BY <1>1 DEF BeginStep, Arrive, AcquireGlobal, AcquireKey, Reserve,
       ReserveRefused, ReserveLostAck, UnwindKey, UnwindGlobal, Register, Move
  <1>2. ASSUME NEW r \in Requests, HandlerClose(r) PROVE RowFollows'
    BY <1>2 DEF HandlerClose, Move
  <1>3. ASSUME NEW r \in Requests, SettleStep(r) PROVE RowFollows'
    BY <1>3 DEF SettleStep, SettleOk, SettleRejected, SettleBusy, SettleError,
       SettleLostAck, Leave, Accepts, Move
  <1>4. ASSUME NEW r \in Requests, CloseStep(r) PROVE RowFollows'
    BY <1>4 DEF CloseStep, Handover, Park, Unpend, Unregister, FreeKey,
       FreeGlobal, Unlock, Move
  <1>5. ASSUME NEW r \in Requests, Age(r) PROVE RowFollows'
    BY <1>5 DEF Age
  <1>6. ASSUME NEW c \in Closers, ReconcileStep(c) PROVE RowFollows'
    BY <1>6 DEF ReconcileStep, ReconcileStart, ReconcileClose, ReconcileSkip,
       Move, MaintIdle
  <1>7. ASSUME ReapStep PROVE RowFollows'
    BY <1>7 DEF ReapStep, ReapReadActive, ReapReadPending, ReapOrphans,
       ReapCancelled
  <1>8. ASSUME BeginDraining PROVE RowFollows'
    BY <1>8 DEF BeginDraining, Phase
  <1>9. ASSUME ShutdownStep PROVE RowFollows'
    BY <1>9 DEF ShutdownStep, HandlersReturned, HandlersTimeout, DrainEnds,
       DrainTimeout, MaintenanceCancelled, StoreClose, Exit, Wipe, Phase
  <1>10. ASSUME Crash PROVE RowFollows'
    BY <1>10 DEF Crash, Wipe
  <1>11. ASSUME Restart PROVE RowFollows'
    BY <1>11 DEF Restart, Phase
  <1>. QED
    BY <1>1, <1>2, <1>3, <1>4, <1>5, <1>6, <1>7, <1>8, <1>9, <1>10, <1>11 DEF
       Next

(* Only HandlerClose decides an outcome, and nothing changes it            *)
(* afterwards.                                                             *)
LEMMA OutcomeFrozenStep == Inv /\ Next => OutcomeFrozen'
  <1> SUFFICES ASSUME Inv, Next PROVE OutcomeFrozen'
    OBVIOUS
  <1> USE SettlementAssumption DEF Inv, Shape, TypeOK, OutcomeFrozen,
      UndecidedAt, ClosingAt, ledgerVars, leaseVars, registryVars, gateVars,
      maintVars, envVars
  <1>1. ASSUME NEW r \in Requests, BeginStep(r) PROVE OutcomeFrozen'
    BY <1>1 DEF BeginStep, Arrive, AcquireGlobal, AcquireKey, Reserve,
       ReserveRefused, ReserveLostAck, UnwindKey, UnwindGlobal, Register, Move
  <1>2. ASSUME NEW r \in Requests, HandlerClose(r) PROVE OutcomeFrozen'
    BY <1>2 DEF HandlerClose, Move
  <1>3. ASSUME NEW r \in Requests, SettleStep(r) PROVE OutcomeFrozen'
    BY <1>3 DEF SettleStep, SettleOk, SettleRejected, SettleBusy, SettleError,
       SettleLostAck, Leave, Accepts, Move
  <1>4. ASSUME NEW r \in Requests, CloseStep(r) PROVE OutcomeFrozen'
    BY <1>4 DEF CloseStep, Handover, Park, Unpend, Unregister, FreeKey,
       FreeGlobal, Unlock, Move
  <1>5. ASSUME NEW r \in Requests, Age(r) PROVE OutcomeFrozen'
    BY <1>5 DEF Age
  <1>6. ASSUME NEW c \in Closers, ReconcileStep(c) PROVE OutcomeFrozen'
    BY <1>6 DEF ReconcileStep, ReconcileStart, ReconcileClose, ReconcileSkip,
       Move, MaintIdle
  <1>7. ASSUME ReapStep PROVE OutcomeFrozen'
    BY <1>7 DEF ReapStep, ReapReadActive, ReapReadPending, ReapOrphans,
       ReapCancelled
  <1>8. ASSUME BeginDraining PROVE OutcomeFrozen'
    BY <1>8 DEF BeginDraining, Phase
  <1>9. ASSUME ShutdownStep PROVE OutcomeFrozen'
    BY <1>9 DEF ShutdownStep, HandlersReturned, HandlersTimeout, DrainEnds,
       DrainTimeout, MaintenanceCancelled, StoreClose, Exit, Wipe, Phase
  <1>10. ASSUME Crash PROVE OutcomeFrozen'
    BY <1>10 DEF Crash, Wipe
  <1>11. ASSUME Restart PROVE OutcomeFrozen'
    BY <1>11 DEF Restart, Phase
  <1>. QED
    BY <1>1, <1>2, <1>3, <1>4, <1>5, <1>6, <1>7, <1>8, <1>9, <1>10, <1>11 DEF
       Next

(* A Close holds the lease's mutex from its first step to its last.        *)
LEMMA OneCloserStep == Inv /\ Next => OneCloser'
  <1> SUFFICES ASSUME Inv, Next PROVE OneCloser'
    OBVIOUS
  <1> USE SettlementAssumption DEF Inv, Shape, TypeOK, OneCloser, ClosingAt,
      Closers, MaintIdle, ledgerVars, leaseVars, registryVars, gateVars,
      maintVars, envVars
  <1>1. ASSUME NEW r \in Requests, BeginStep(r) PROVE OneCloser'
    BY <1>1 DEF BeginStep, Arrive, AcquireGlobal, AcquireKey, Reserve,
       ReserveRefused, ReserveLostAck, UnwindKey, UnwindGlobal, Register, Move
  <1>2. ASSUME NEW r \in Requests, HandlerClose(r) PROVE OneCloser'
    BY <1>2 DEF HandlerClose, Move
  <1>3. ASSUME NEW r \in Requests, SettleStep(r) PROVE OneCloser'
    BY <1>3 DEF SettleStep, SettleOk, SettleRejected, SettleBusy, SettleError,
       SettleLostAck, Leave, Accepts, Move
  <1>4. ASSUME NEW r \in Requests, CloseStep(r) PROVE OneCloser'
    BY <1>4 DEF CloseStep, Handover, Park, Unpend, Unregister, FreeKey,
       FreeGlobal, Unlock, Move
  <1>5. ASSUME NEW r \in Requests, Age(r) PROVE OneCloser'
    BY <1>5 DEF Age
  <1>6. ASSUME NEW c \in Closers, ReconcileStep(c) PROVE OneCloser'
    BY <1>6 DEF ReconcileStep, ReconcileStart, ReconcileClose, ReconcileSkip,
       Move, MaintIdle
  <1>7. ASSUME ReapStep PROVE OneCloser'
    BY <1>7 DEF ReapStep, ReapReadActive, ReapReadPending, ReapOrphans,
       ReapCancelled
  <1>8. ASSUME BeginDraining PROVE OneCloser'
    BY <1>8 DEF BeginDraining, Phase
  <1>9. ASSUME ShutdownStep PROVE OneCloser'
    BY <1>9 DEF ShutdownStep, HandlersReturned, HandlersTimeout, DrainEnds,
       DrainTimeout, MaintenanceCancelled, StoreClose, Exit, Wipe, Phase
  <1>10. ASSUME Crash PROVE OneCloser'
    BY <1>10 DEF Crash, Wipe
  <1>11. ASSUME Restart PROVE OneCloser'
    BY <1>11 DEF Restart, Phase
  <1>. QED
    BY <1>1, <1>2, <1>3, <1>4, <1>5, <1>6, <1>7, <1>8, <1>9, <1>10, <1>11 DEF
       Next

(* pending.Add comes before active.Remove: a live lease is always listed.  *)
LEMMA RegisteredStep == Inv /\ Next => Registered'
  <1> SUFFICES ASSUME Inv, Next PROVE Registered'
    OBVIOUS
  <1> USE SettlementAssumption DEF Inv, Shape, TypeOK, Registered, Owned,
      OwnedAt, ledgerVars, leaseVars, registryVars, gateVars, maintVars,
      envVars
  <1>1. ASSUME NEW r \in Requests, BeginStep(r) PROVE Registered'
    BY <1>1 DEF BeginStep, Arrive, AcquireGlobal, AcquireKey, Reserve,
       ReserveRefused, ReserveLostAck, UnwindKey, UnwindGlobal, Register, Move
  <1>2. ASSUME NEW r \in Requests, HandlerClose(r) PROVE Registered'
    BY <1>2 DEF HandlerClose, Move
  <1>3. ASSUME NEW r \in Requests, SettleStep(r) PROVE Registered'
    BY <1>3 DEF SettleStep, SettleOk, SettleRejected, SettleBusy, SettleError,
       SettleLostAck, Leave, Accepts, Move
  <1>4. ASSUME NEW r \in Requests, CloseStep(r) PROVE Registered'
    BY <1>4 DEF CloseStep, Handover, Park, Unpend, Unregister, FreeKey,
       FreeGlobal, Unlock, Move
  <1>5. ASSUME NEW r \in Requests, Age(r) PROVE Registered'
    BY <1>5 DEF Age
  <1>6. ASSUME NEW c \in Closers, ReconcileStep(c) PROVE Registered'
    BY <1>6 DEF ReconcileStep, ReconcileStart, ReconcileClose, ReconcileSkip,
       Move, MaintIdle
  <1>7. ASSUME ReapStep PROVE Registered'
    BY <1>7 DEF ReapStep, ReapReadActive, ReapReadPending, ReapOrphans,
       ReapCancelled
  <1>8. ASSUME BeginDraining PROVE Registered'
    BY <1>8 DEF BeginDraining, Phase
  <1>9. ASSUME ShutdownStep PROVE Registered'
    BY <1>9 DEF ShutdownStep, HandlersReturned, HandlersTimeout, DrainEnds,
       DrainTimeout, MaintenanceCancelled, StoreClose, Exit, Wipe, Phase
  <1>10. ASSUME Crash PROVE Registered'
    BY <1>10 DEF Crash, Wipe
  <1>11. ASSUME Restart PROVE Registered'
    BY <1>11 DEF Restart, Phase
  <1>. QED
    BY <1>1, <1>2, <1>3, <1>4, <1>5, <1>6, <1>7, <1>8, <1>9, <1>10, <1>11 DEF
       Next

(* Reading active before pending, the pass excludes whatever it could      *)
(* reap.                                                                   *)
LEMMA ReaperExcludesStep == Inv /\ Next => ReaperExcludes'
  <1> SUFFICES ASSUME Inv, Next PROVE ReaperExcludes'
    OBVIOUS
  <1> USE SettlementAssumption DEF Inv, Shape, TypeOK, ReaperExcludes,
      Registered, RowFollows, OutcomeFrozen, UndecidedAt, ClosingAt, Exposed,
      Reserved, Owned, OwnedAt, ledgerVars, leaseVars, registryVars, gateVars,
      maintVars, envVars
  <1>1. ASSUME NEW r \in Requests, BeginStep(r) PROVE ReaperExcludes'
    BY <1>1 DEF BeginStep, Arrive, AcquireGlobal, AcquireKey, Reserve,
       ReserveRefused, ReserveLostAck, UnwindKey, UnwindGlobal, Register, Move
  <1>2. ASSUME NEW r \in Requests, HandlerClose(r) PROVE ReaperExcludes'
    BY <1>2 DEF HandlerClose, Move
  <1>3. ASSUME NEW r \in Requests, SettleStep(r) PROVE ReaperExcludes'
    BY <1>3 DEF SettleStep, SettleOk, SettleRejected, SettleBusy, SettleError,
       SettleLostAck, Leave, Accepts, Move
  <1>4. ASSUME NEW r \in Requests, CloseStep(r) PROVE ReaperExcludes'
    BY <1>4 DEF CloseStep, Handover, Park, Unpend, Unregister, FreeKey,
       FreeGlobal, Unlock, Move
  <1>5. ASSUME NEW r \in Requests, Age(r) PROVE ReaperExcludes'
    BY <1>5 DEF Age
  <1>6. ASSUME NEW c \in Closers, ReconcileStep(c) PROVE ReaperExcludes'
    BY <1>6 DEF ReconcileStep, ReconcileStart, ReconcileClose, ReconcileSkip,
       Move, MaintIdle
  <1>7. ASSUME ReapStep PROVE ReaperExcludes'
    BY <1>7 DEF ReapStep, ReapReadActive, ReapReadPending, ReapOrphans,
       ReapCancelled
  <1>8. ASSUME BeginDraining PROVE ReaperExcludes'
    BY <1>8 DEF BeginDraining, Phase
  <1>9. ASSUME ShutdownStep PROVE ReaperExcludes'
    BY <1>9 DEF ShutdownStep, HandlersReturned, HandlersTimeout, DrainEnds,
       DrainTimeout, MaintenanceCancelled, StoreClose, Exit, Wipe, Phase
  <1>10. ASSUME Crash PROVE ReaperExcludes'
    BY <1>10 DEF Crash, Wipe
  <1>11. ASSUME Restart PROVE ReaperExcludes'
    BY <1>11 DEF Restart, Phase
  <1>. QED
    BY <1>1, <1>2, <1>3, <1>4, <1>5, <1>6, <1>7, <1>8, <1>9, <1>10, <1>11 DEF
       Next

(* Each phase of shutdown leaves fewer users of the Store.                 *)
LEMMA PhaseOrderStep == Inv /\ Next => PhaseOrder'
  <1> SUFFICES ASSUME Inv, Next PROVE PhaseOrder'
    OBVIOUS
  <1> USE SettlementAssumption DEF Inv, Shape, TypeOK, PhaseOrder, OneCloser,
      InHandler, ClosingAt, Closers, MaintIdle, ledgerVars, leaseVars,
      registryVars, gateVars, maintVars, envVars
  <1>1. ASSUME NEW r \in Requests, BeginStep(r) PROVE PhaseOrder'
    BY <1>1 DEF BeginStep, Arrive, AcquireGlobal, AcquireKey, Reserve,
       ReserveRefused, ReserveLostAck, UnwindKey, UnwindGlobal, Register, Move
  <1>2. ASSUME NEW r \in Requests, HandlerClose(r) PROVE PhaseOrder'
    BY <1>2 DEF HandlerClose, Move
  <1>3. ASSUME NEW r \in Requests, SettleStep(r) PROVE PhaseOrder'
    BY <1>3 DEF SettleStep, SettleOk, SettleRejected, SettleBusy, SettleError,
       SettleLostAck, Leave, Accepts, Move
  <1>4. ASSUME NEW r \in Requests, CloseStep(r) PROVE PhaseOrder'
    BY <1>4 DEF CloseStep, Handover, Park, Unpend, Unregister, FreeKey,
       FreeGlobal, Unlock, Move
  <1>5. ASSUME NEW r \in Requests, Age(r) PROVE PhaseOrder'
    BY <1>5 DEF Age
  <1>6. ASSUME NEW c \in Closers, ReconcileStep(c) PROVE PhaseOrder'
    BY <1>6 DEF ReconcileStep, ReconcileStart, ReconcileClose, ReconcileSkip,
       Move, MaintIdle
  <1>7. ASSUME ReapStep PROVE PhaseOrder'
    BY <1>7 DEF ReapStep, ReapReadActive, ReapReadPending, ReapOrphans,
       ReapCancelled
  <1>8. ASSUME BeginDraining PROVE PhaseOrder'
    BY <1>8 DEF BeginDraining, Phase
  <1>9. ASSUME ShutdownStep PROVE PhaseOrder'
    BY <1>9 DEF ShutdownStep, HandlersReturned, HandlersTimeout, DrainEnds,
       DrainTimeout, MaintenanceCancelled, StoreClose, Exit, Wipe, Phase
  <1>10. ASSUME Crash PROVE PhaseOrder'
    BY <1>10 DEF Crash, Wipe
  <1>11. ASSUME Restart PROVE PhaseOrder'
    BY <1>11 DEF Restart, Phase
  <1>. QED
    BY <1>1, <1>2, <1>3, <1>4, <1>5, <1>6, <1>7, <1>8, <1>9, <1>10, <1>11 DEF
       Next

(* Neither the reaper nor start-up recovery writes the row of a live       *)
(* lease.                                                                  *)
LEMMA OwnedRowIntactStep == Inv /\ Next => OwnedRowIntact'
  <1> SUFFICES ASSUME Inv, Next PROVE OwnedRowIntact'
    OBVIOUS
  <1> USE SettlementAssumption DEF Inv, Shape, TypeOK, OwnedRowIntact,
      RowFollows, OutcomeFrozen, ReaperExcludes, PhaseOrder, Registered,
      Reserved, Owned, OwnedAt, UndecidedAt, ClosingAt, Exposed, ledgerVars,
      leaseVars, registryVars, gateVars, maintVars, envVars
  <1>1. ASSUME NEW r \in Requests, BeginStep(r) PROVE OwnedRowIntact'
    BY <1>1 DEF BeginStep, Arrive, AcquireGlobal, AcquireKey, Reserve,
       ReserveRefused, ReserveLostAck, UnwindKey, UnwindGlobal, Register, Move
  <1>2. ASSUME NEW r \in Requests, HandlerClose(r) PROVE OwnedRowIntact'
    BY <1>2 DEF HandlerClose, Move
  <1>3. ASSUME NEW r \in Requests, SettleStep(r) PROVE OwnedRowIntact'
    BY <1>3 DEF SettleStep, SettleOk, SettleRejected, SettleBusy, SettleError,
       SettleLostAck, Leave, Accepts, Move
  <1>4. ASSUME NEW r \in Requests, CloseStep(r) PROVE OwnedRowIntact'
    BY <1>4 DEF CloseStep, Handover, Park, Unpend, Unregister, FreeKey,
       FreeGlobal, Unlock, Move
  <1>5. ASSUME NEW r \in Requests, Age(r) PROVE OwnedRowIntact'
    BY <1>5 DEF Age
  <1>6. ASSUME NEW c \in Closers, ReconcileStep(c) PROVE OwnedRowIntact'
    BY <1>6 DEF ReconcileStep, ReconcileStart, ReconcileClose, ReconcileSkip,
       Move, MaintIdle
  <1>7. ASSUME ReapStep PROVE OwnedRowIntact'
    BY <1>7 DEF ReapStep, ReapReadActive, ReapReadPending, ReapOrphans,
       ReapCancelled
  <1>8. ASSUME BeginDraining PROVE OwnedRowIntact'
    BY <1>8 DEF BeginDraining, Phase
  <1>9. ASSUME ShutdownStep PROVE OwnedRowIntact'
    BY <1>9 DEF ShutdownStep, HandlersReturned, HandlersTimeout, DrainEnds,
       DrainTimeout, MaintenanceCancelled, StoreClose, Exit, Wipe, Phase
  <1>10. ASSUME Crash PROVE OwnedRowIntact'
    BY <1>10 DEF Crash, Wipe
  <1>11. ASSUME Restart PROVE OwnedRowIntact'
    BY <1>11 DEF Restart, Phase
  <1>. QED
    BY <1>1, <1>2, <1>3, <1>4, <1>5, <1>6, <1>7, <1>8, <1>9, <1>10, <1>11 DEF
       Next

(* A settled lease keeps the row and the outcome it settled with.          *)
LEMMA BilledAsDecidedStep == Inv /\ Next => BilledAsDecided'
  <1> SUFFICES ASSUME Inv, Next PROVE BilledAsDecided'
    OBVIOUS
  <1> USE SettlementAssumption DEF Inv, Shape, TypeOK, BilledAsDecided,
      OutcomeFrozen, PhaseOrder, ReaperExcludes, UndecidedAt, ClosingAt,
      Reserved, ledgerVars, leaseVars, registryVars, gateVars, maintVars,
      envVars
  <1>1. ASSUME NEW r \in Requests, BeginStep(r) PROVE BilledAsDecided'
    BY <1>1 DEF BeginStep, Arrive, AcquireGlobal, AcquireKey, Reserve,
       ReserveRefused, ReserveLostAck, UnwindKey, UnwindGlobal, Register, Move
  <1>2. ASSUME NEW r \in Requests, HandlerClose(r) PROVE BilledAsDecided'
    BY <1>2 DEF HandlerClose, Move
  <1>3. ASSUME NEW r \in Requests, SettleStep(r) PROVE BilledAsDecided'
    BY <1>3 DEF SettleStep, SettleOk, SettleRejected, SettleBusy, SettleError,
       SettleLostAck, Leave, Accepts, Move
  <1>4. ASSUME NEW r \in Requests, CloseStep(r) PROVE BilledAsDecided'
    BY <1>4 DEF CloseStep, Handover, Park, Unpend, Unregister, FreeKey,
       FreeGlobal, Unlock, Move
  <1>5. ASSUME NEW r \in Requests, Age(r) PROVE BilledAsDecided'
    BY <1>5 DEF Age
  <1>6. ASSUME NEW c \in Closers, ReconcileStep(c) PROVE BilledAsDecided'
    BY <1>6 DEF ReconcileStep, ReconcileStart, ReconcileClose, ReconcileSkip,
       Move, MaintIdle
  <1>7. ASSUME ReapStep PROVE BilledAsDecided'
    BY <1>7 DEF ReapStep, ReapReadActive, ReapReadPending, ReapOrphans,
       ReapCancelled
  <1>8. ASSUME BeginDraining PROVE BilledAsDecided'
    BY <1>8 DEF BeginDraining, Phase
  <1>9. ASSUME ShutdownStep PROVE BilledAsDecided'
    BY <1>9 DEF ShutdownStep, HandlersReturned, HandlersTimeout, DrainEnds,
       DrainTimeout, MaintenanceCancelled, StoreClose, Exit, Wipe, Phase
  <1>10. ASSUME Crash PROVE BilledAsDecided'
    BY <1>10 DEF Crash, Wipe
  <1>11. ASSUME Restart PROVE BilledAsDecided'
    BY <1>11 DEF Restart, Phase
  <1>. QED
    BY <1>1, <1>2, <1>3, <1>4, <1>5, <1>6, <1>7, <1>8, <1>9, <1>10, <1>11 DEF
       Next

(* Inv is inductive.                                                       *)
LEMMA InvStep == Inv /\ [Next]_vars => Inv'
  <1> SUFFICES ASSUME Inv, [Next]_vars PROVE Inv'
    OBVIOUS
  <1>1. CASE Next
    BY <1>1, TypeStep, SlotsStep, WithinLimitStep, RowFollowsStep, OutcomeFrozenStep,
       OneCloserStep, RegisteredStep, ReaperExcludesStep, PhaseOrderStep,
       OwnedRowIntactStep, BilledAsDecidedStep DEF Inv, Shape
  <1>2. CASE UNCHANGED vars
    <2>1. TypeOK' /\ WithinLimit'
      BY <1>2 DEF vars, Inv, TypeOK, WithinLimit
    <2>2. SlotsExact'
      BY <1>2, SlotsKept DEF vars, HoldsGlobal, HoldsKey
    <2>3. Shape'
      BY <1>2 DEF vars, Inv, Shape, RowFollows, OutcomeFrozen, OneCloser, Registered,
         ReaperExcludes, PhaseOrder, OwnedRowIntact, BilledAsDecided, Reserved, Owned,
         InHandler, Exposed, MaintIdle
    <2>. QED
      BY <2>1, <2>2, <2>3 DEF Inv
  <1>. QED
    BY <1>1, <1>2

(* The registries hold only requests that hold a global slot, so the       *)
(* reconciliation queue is bounded by the gate.                            *)
LEMMA QueueWithinSlots == Inv => QueueBounded
  <1> SUFFICES ASSUME Inv PROVE QueueBounded
    OBVIOUS
  <1>1. active \cup pending \subseteq HoldsGlobal
    BY DEF Inv, TypeOK, Shape, Registered, HoldsGlobal, GlobalHeldAt
  <1>2. IsFiniteSet(HoldsGlobal)
    BY SettlementAssumption, FS_Subset DEF HoldsGlobal
  <1>3. /\ Cardinality(active \cup pending) =< Cardinality(HoldsGlobal)
        /\ Cardinality(active \cup pending) \in Nat
        /\ Cardinality(HoldsGlobal) \in Nat
    BY <1>1, <1>2, FS_Subset, FS_CardinalityType
  <1>4. peak \in Nat
    BY SettlementAssumption DEF Inv, TypeOK
  <1>. QED
    BY <1>3, <1>4 DEF Inv, SlotsExact, WithinLimit, QueueBounded

(* A closed Store has no user left: the handlers have returned, main has   *)
(* finished its snapshot and maintenance has stopped.                      *)
LEMMA ClosedMeansIdle == Inv => ClosedStoreUnused
  BY DEF Inv, TypeOK, Shape, PhaseOrder, OneCloser, ClosedStoreUnused, InHandler, Closers,
     MaintIdle

(* The safety of settlement: exact slots, a bounded reconciliation queue,  *)
(* no live lease's row written by the reaper, every confirmed settlement   *)
(* billed as first decided, and no use of a closed Store.                  *)
THEOREM SettlementSafe ==
    Spec => [](TypeOK /\ SlotsExact /\ QueueBounded /\ OwnedRowIntact
                 /\ BilledAsDecided /\ ClosedStoreUnused)
  <1>1. Inv => TypeOK /\ SlotsExact /\ QueueBounded /\ OwnedRowIntact
                 /\ BilledAsDecided /\ ClosedStoreUnused
    BY QueueWithinSlots, ClosedMeansIdle DEF Inv, Shape
  <1>. QED
    BY <1>1, InitInv, InvStep, PTL DEF Spec

(* Every write to the ledger goes to a row that is not final, or writes    *)
(* what the row already holds.                                             *)
LEMMA FinalKept ==
    ASSUME Inv, Next, NEW r \in Requests, Final(r)
    PROVE  row'[r] = row[r]
  <1> USE SettlementAssumption DEF Inv, TypeOK, Shape, Final, ledgerVars
  <1>1. ASSUME NEW q \in Requests, BeginStep(q) PROVE row'[r] = row[r]
    BY <1>1 DEF BeginStep, Arrive, AcquireGlobal, AcquireKey, Reserve, ReserveRefused,
       ReserveLostAck, UnwindKey, UnwindGlobal, Register, Move, RowFollows
  <1>2. ASSUME NEW q \in Requests, HandlerClose(q) \/ SettleStep(q) PROVE row'[r] = row[r]
    BY <1>2 DEF HandlerClose, SettleStep, SettleOk, SettleRejected, SettleBusy, SettleError,
       SettleLostAck, Leave, Accepts, Reserved
  <1>3. ASSUME NEW q \in Requests, CloseStep(q) \/ Age(q) PROVE row'[r] = row[r]
    BY <1>3 DEF CloseStep, Handover, Park, Unpend, Unregister, FreeKey, FreeGlobal, Age
  <1>4. ASSUME NEW c \in Closers, ReconcileStep(c) PROVE row'[r] = row[r]
    BY <1>4 DEF ReconcileStep, ReconcileStart, ReconcileClose, ReconcileSkip
  <1>5. ASSUME ReapStep \/ BeginDraining \/ Restart PROVE row'[r] = row[r]
    BY <1>5 DEF ReapStep, ReapReadActive, ReapReadPending, ReapOrphans, ReapCancelled,
       BeginDraining, Restart, Reserved
  <1>6. ASSUME ShutdownStep \/ Crash PROVE row'[r] = row[r]
    BY <1>6 DEF ShutdownStep, HandlersReturned, HandlersTimeout, DrainEnds, DrainTimeout,
       MaintenanceCancelled, StoreClose, Exit, Crash, Wipe
  <1>. QED
    BY <1>1, <1>2, <1>3, <1>4, <1>5, <1>6 DEF Next

(* No retry, reaper pass, recovery or second closer rewrites a final row.  *)
THEOREM FinalRowsStay == Spec => FinalRowsImmutable
  <1>1. Inv /\ [Next]_vars => [\A r \in Requests : Final(r) => row'[r] = row[r]]_vars
    BY FinalKept
  <1>. QED
    BY <1>1, InitInv, InvStep, PTL DEF Spec, FinalRowsImmutable

-----------------------------------------------------------------------------
(* Refinement of RequestBilling.                                           *)

(* A step the billing promise does not see.                                *)
LEMMA Unseen ==
    ASSUME ledgerOf' = ledgerOf, frozen' = frozen, ownersOf' = ownersOf
    PROVE  [Billing!Next]_(Billing!billingVars)
  BY DEF Billing!billingVars

(* Begin: the commit of ReserveRequest admits, Register takes ownership.   *)
LEMMA BeginRefines ==
    ASSUME Inv, NEW r \in Requests, BeginStep(r)
    PROVE  [Billing!Next]_(Billing!billingVars)
  <1> USE SettlementAssumption DEF Inv, TypeOK, Shape, Move, ledgerOf, ownersOf, Reserved,
      Owned, OwnedAt
  <1>1. ASSUME Reserve(r) \/ ReserveLostAck(r) PROVE Billing!Admit(r)
    <2>1. row[r] = "none" /\ row' = [row EXCEPT ![r] = "reserved"]
      BY <1>1 DEF Reserve, ReserveLostAck, RowFollows
    <2>2. ledgerOf' = [ledgerOf EXCEPT ![r] = "open"] /\ ledgerOf[r] = "none"
      BY <2>1
    <2>3. ownersOf' = ownersOf /\ frozen' = frozen
      BY <1>1 DEF Reserve, ReserveLostAck
    <2>. QED
      BY <2>2, <2>3 DEF Billing!Admit
  <1>2. ASSUME Register(r) PROVE Billing!Own(r)
    BY <1>2 DEF Register, RowFollows, OutcomeFrozen, UndecidedAt, Billing!Own
  <1>3. ASSUME \/ Arrive(r) \/ AcquireGlobal(r) \/ AcquireKey(r)
               \/ ReserveRefused(r) \/ UnwindKey(r) \/ UnwindGlobal(r)
        PROVE  ledgerOf' = ledgerOf /\ frozen' = frozen /\ ownersOf' = ownersOf
    BY <1>3 DEF Arrive, AcquireGlobal, AcquireKey, ReserveRefused, UnwindKey, UnwindGlobal
  <1>. QED
    BY <1>1, <1>2, <1>3, Unseen DEF BeginStep, Billing!Next

(* Close: the outcome is decided once, billed by the first commit whether  *)
(* or not its answer arrives, and the lease discharged by pending.Remove.  *)
LEMMA CloseRefines ==
    ASSUME Inv, NEW r \in Requests, HandlerClose(r) \/ SettleStep(r) \/ CloseStep(r)
    PROVE  [Billing!Next]_(Billing!billingVars)
  <1> USE SettlementAssumption DEF Inv, TypeOK, Shape, Move, ledgerOf, ownersOf, Reserved,
      Owned, OwnedAt
  <1>1. ASSUME HandlerClose(r) PROVE Billing!Decide(r)
    BY <1>1 DEF HandlerClose, OutcomeFrozen, UndecidedAt, Billing!Decide
  <1>2. ASSUME SettleOk(r) \/ SettleLostAck(r), Reserved(r) PROVE Billing!Bill(r)
    <2>1. row' = [row EXCEPT ![r] = frozen[r]] /\ frozen[r] \in Outcomes
      BY <1>2 DEF SettleOk, SettleLostAck, Leave, OutcomeFrozen, ClosingAt
    <2>2. ledgerOf' = [ledgerOf EXCEPT ![r] = frozen[r]] /\ ledgerOf[r] = "open"
      BY <1>2, <2>1
    <2>3. ownersOf' = ownersOf /\ frozen' = frozen /\ r \in ownersOf
      BY <1>2 DEF SettleOk, SettleLostAck, Leave
    <2>. QED
      BY <2>1, <2>2, <2>3 DEF Billing!Bill
  <1>3. ASSUME SettleOk(r) \/ SettleLostAck(r), ~Reserved(r)
        PROVE  ledgerOf' = ledgerOf /\ frozen' = frozen /\ ownersOf' = ownersOf
    BY <1>3 DEF SettleOk, SettleLostAck, Leave, Accepts
  <1>4. ASSUME SettleRejected(r) \/ SettleBusy(r) \/ SettleError(r)
        PROVE  ledgerOf' = ledgerOf /\ frozen' = frozen /\ ownersOf' = ownersOf
    BY <1>4 DEF SettleRejected, SettleBusy, SettleError, Leave
  <1>5. ASSUME Unpend(r) PROVE Billing!Discharge(r)
    BY <1>5 DEF Unpend, BilledAsDecided, OutcomeFrozen, ClosingAt, Billing!Discharge
  <1>6. ASSUME Handover(r) \/ Park(r) \/ Unregister(r) \/ FreeKey(r) \/ FreeGlobal(r)
        PROVE  ledgerOf' = ledgerOf /\ frozen' = frozen /\ ownersOf' = ownersOf
    BY <1>6 DEF Handover, Park, Unregister, FreeKey, FreeGlobal
  <1>. QED
    BY <1>1, <1>2, <1>3, <1>4, <1>5, <1>6, Unseen DEF SettleStep, CloseStep, Billing!Next

(* The reaper and start-up recover only reservations nobody owns.          *)
LEMMA RecoveryRefines ==
    ASSUME Inv, ReapOrphans \/ Restart
    PROVE  Billing!Recover
  <1> USE SettlementAssumption DEF Inv, TypeOK, Shape, ledgerOf, ownersOf, Reserved,
      Owned, OwnedAt
  <1>1. frozen' = frozen /\ ownersOf' = ownersOf
    BY DEF ReapOrphans, Restart, leaseVars
  <1>2. ASSUME NEW r \in Requests
        PROVE  \/ ledgerOf'[r] = ledgerOf[r]
               \/ r \notin ownersOf /\ ledgerOf[r] = "open" /\ ledgerOf'[r] = "recovered"
    <2>1. CASE ReapOrphans
      BY <2>1 DEF ReapOrphans, ReaperExcludes, Exposed, BilledAsDecided, OutcomeFrozen,
         ClosingAt
    <2>2. CASE Restart
      BY <2>2 DEF Restart, Phase, PhaseOrder
    <2>. QED
      BY <2>1, <2>2
  <1>3. ledgerOf' = [r \in Requests |-> ledgerOf'[r]]
    OBVIOUS
  <1>. QED
    BY <1>1, <1>2, <1>3 DEF Billing!Recover

(* Losing the process loses every lease.                                   *)
LEMMA WipeRefines ==
    ASSUME Wipe
    PROVE  Billing!Lose
  BY DEF Wipe, Billing!Lose, ledgerOf, ownersOf, Reserved, Owned, OwnedAt

(* Every step of Settlement is a step of RequestBilling or unseen by it.   *)
LEMMA StepRefines == Inv /\ [Next]_vars => [Billing!Next]_(Billing!billingVars)
  <1> SUFFICES ASSUME Inv, [Next]_vars PROVE [Billing!Next]_(Billing!billingVars)
    OBVIOUS
  <1> USE SettlementAssumption DEF ledgerOf, ownersOf, Reserved, Owned, OwnedAt
  <1>1. ASSUME NEW r \in Requests, Age(r)
        PROVE  ledgerOf' = ledgerOf /\ frozen' = frozen /\ ownersOf' = ownersOf
    BY <1>1 DEF Age, leaseVars, Inv, TypeOK
  <1>2. ASSUME NEW c \in Closers, ReconcileStep(c)
        PROVE  ledgerOf' = ledgerOf /\ frozen' = frozen /\ ownersOf' = ownersOf
    BY <1>2 DEF ReconcileStep, ReconcileStart, ReconcileClose, ReconcileSkip, ledgerVars,
       leaseVars, Inv, TypeOK, Move
  <1>3. ASSUME ReapReadActive \/ ReapReadPending \/ ReapCancelled \/ BeginDraining
        PROVE  ledgerOf' = ledgerOf /\ frozen' = frozen /\ ownersOf' = ownersOf
    BY <1>3 DEF ReapReadActive, ReapReadPending, ReapCancelled, BeginDraining, ledgerVars,
       leaseVars
  <1>4. ASSUME \/ HandlersReturned \/ HandlersTimeout \/ DrainEnds \/ DrainTimeout
               \/ MaintenanceCancelled \/ StoreClose
        PROVE  ledgerOf' = ledgerOf /\ frozen' = frozen /\ ownersOf' = ownersOf
    BY <1>4 DEF HandlersReturned, HandlersTimeout, DrainEnds, DrainTimeout,
       MaintenanceCancelled, StoreClose, ledgerVars, leaseVars
  <1>5. ASSUME ReapOrphans \/ Restart PROVE Billing!Next
    BY <1>5, RecoveryRefines DEF Billing!Next
  <1>6. ASSUME Exit \/ Crash PROVE Billing!Next
    BY <1>6, WipeRefines DEF Exit, Crash, Billing!Next
  <1>7. CASE UNCHANGED vars
    <2>1. ledgerOf' = ledgerOf /\ frozen' = frozen /\ ownersOf' = ownersOf
      BY <1>7 DEF vars
    <2>. QED
      BY <2>1, Unseen
  <1>. QED
    BY <1>1, <1>2, <1>3, <1>4, <1>5, <1>6, <1>7, BeginRefines, CloseRefines, Unseen
    DEF Next, ReapStep, ShutdownStep

(* The machinery of retries, reconciliation, reaping, shutdown and crash   *)
(* recovery implements the billing promise.                                *)
THEOREM SettlementImplementsBilling == Spec => ImplementsBilling
  <1>1. Init => Billing!Init
    BY DEF Init, Billing!Init, ledgerOf, ownersOf, Reserved, Owned, OwnedAt
  <1>. QED
    BY <1>1, InitInv, InvStep, StepRefines, PTL DEF Spec, ImplementsBilling, Billing!Spec
=============================================================================
