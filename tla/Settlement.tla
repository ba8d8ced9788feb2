----------------------------- MODULE Settlement -----------------------------
(***************************************************************************)
(* The life of a public request from admission to its one entry in the     *)
(* ledger: Service.Begin and Lease.Close (internal/relay/service.go), the  *)
(* active and pending registries (active.go, reconcile.go), the settlement *)
(* transaction (internal/store/settlement.go), the orphan reaper           *)
(* (internal/store/maintenance.go), and start-up, shutdown and crash       *)
(* (cmd/civic-relay/main.go).                                              *)
(*                                                                         *)
(* Handlers run concurrently.  The maintenance goroutine runs one job at a *)
(* time: a reaper pass or a reconciliation.  During shutdown the main      *)
(* goroutine reconciles too, next to maintenance.  A lease's mutex admits  *)
(* one Close at a time; `by` says whose.                                   *)
(***************************************************************************)
EXTENDS Naturals, FiniteSets

CONSTANTS Requests,      \* public requests, each handled once
          Keys,          \* client keys
          KeyOf,         \* the key each request authenticates as
          GlobalLimits,  \* values GLOBAL_CONCURRENCY_LIMIT takes over time
          KeyLimit,      \* a key's concurrency_limit
          Outcomes,      \* outcomes a handler may settle with
          Invalid,       \* outcomes FinishReservation rejects as invalid
          MaxTries,      \* settlement attempts of one Close
          MaxFaults,     \* bound: database faults and crashes in a behaviour
          ReaperOn,      \* MAX_STREAM_DURATION > 0
          None

ASSUME SettlementAssumption ==
    /\ IsFiniteSet(Requests)
    /\ KeyOf \in [Requests -> Keys]
    /\ GlobalLimits \subseteq Nat \ {0} /\ KeyLimit \in Nat \ {0}
    /\ MaxTries \in Nat \ {0} /\ MaxFaults \in Nat
    /\ Invalid \subseteq Outcomes
    /\ ReaperOn \in BOOLEAN
    /\ Outcomes \cap {"none", "reserved", "stale", "recovered", None} = {}
    /\ None \notin {"handler", "maint", "main"}

VARIABLES
    row,       \* the request's ledger rows (requests and key_reservations)
    st,        \* where the request is in Begin and Close
    by,        \* who is inside Lease.Close, the owner of l.mu
    frozen,    \* l.frozenOutcome
    tries,     \* attempts made by the Close in progress
    active,    \* ActiveReservations.ids
    pending,   \* Reconciler.leases
    gActive,   \* global.active
    gLimit,    \* global.limit
    peak,      \* history: the largest limit since the gate was last empty
    kActive,   \* active of each key's gate
    todo,      \* snapshot a RunOnce still has to close
    reap,      \* where the reaper is
    seen,      \* the ids its pass excludes
    agers,     \* rows that its cutoff may reach (see Age)
    phase,     \* where the main goroutine is
    faults     \* database faults and crashes so far

ledgerVars == <<row>>
leaseVars == <<st, by, frozen, tries>>
registryVars == <<active, pending>>
gateVars == <<gActive, gLimit, peak, kActive>>
maintVars == <<todo, reap, seen, agers>>
envVars == <<phase, faults>>
vars == <<row, st, by, frozen, tries, active, pending, gActive, kActive,
          gLimit, peak, todo, reap, seen, agers, phase, faults>>

Closers == {"maint", "main"}

-----------------------------------------------------------------------------
(* Reading the state.                                                      *)

\* status = 'reserved'; "stale" is a reserved row older than the cutoff.
Reserved(r) == row[r] \in {"reserved", "stale"}
Final(r) == row[r] \notin {"none", "reserved", "stale"}

\* Positions between the two acquisitions and releases of the gates.
GlobalHeldAt == {"global", "key", "inserted", "leased", "settling", "handover",
                 "parting", "parked", "settled", "forgetting", "freeKey",
                 "freeGlobal", "unwindKey", "unwindGlobal"}
KeyHeldAt == GlobalHeldAt \ {"global", "freeGlobal", "unwindGlobal"}

HoldsGlobal == {r \in Requests : st[r] \in GlobalHeldAt}
HoldsKey(k) == {r \in Requests : KeyOf[r] = k /\ st[r] \in KeyHeldAt}

\* A lease exists and its settlement has not been confirmed to it.
OwnedAt == {"leased", "settling", "handover", "parting", "parked"}
Owned(r) == st[r] \in OwnedAt

\* The HTTP handler of r has not returned: trackedHandler counts it.
InHandler(r) ==
    \/ st[r] \in {"arrived", "global", "key", "inserted", "leased",
                  "unwindKey", "unwindGlobal"}
    \/ by[r] = "handler"

Up == phase # "down"
StoreOpen == phase \notin {"closed", "down"}

-----------------------------------------------------------------------------
Init ==
    /\ row = [r \in Requests |-> "none"]
    /\ st = [r \in Requests |-> "new"]
    /\ by = [r \in Requests |-> None]
    /\ frozen = [r \in Requests |-> None]
    /\ tries = [r \in Requests |-> 0]
    /\ active = {} /\ pending = {}
    /\ gActive = 0 /\ gLimit \in GlobalLimits /\ peak = gLimit
    /\ kActive = [k \in Keys |-> 0]
    /\ todo = [c \in Closers |-> {}]
    /\ reap = "idle" /\ seen = {} /\ agers = {}
    /\ phase = "serving" /\ faults = 0

Move(r, from, to) == st[r] = from /\ st' = [st EXCEPT ![r] = to]

-----------------------------------------------------------------------------
(* Service.Begin                                                           *)

\* global.SetLimit, whatever leases are held.
SetLimit(l) ==
    /\ gLimit' = l
    /\ peak' = IF gActive = 0 \/ l > peak THEN l ELSE peak
    /\ UNCHANGED <<gActive, kActive>>

\* trackedHandler lets the handler in; Begin passes its first draining check,
\* authentication and the choice of the model, and sets the gate to the limit
\* of the settings in force.  Validation of the token limits may end it here.
Arrive(r) ==
    /\ phase = "serving"
    /\ \E l \in GlobalLimits : SetLimit(l)
    /\ \E to \in {"arrived", "refused"} : Move(r, "new", to)
    /\ UNCHANGED <<row, by, frozen, tries, registryVars, maintVars, envVars>>

\* Mutant: the global gate admits one request too many.
AcquireGlobalOver(r) ==
    /\ Up
    /\ IF gActive =< gLimit
       THEN /\ Move(r, "arrived", IF phase = "serving" THEN "global" ELSE "unwindGlobal")
            /\ gActive' = gActive + 1
       ELSE /\ Move(r, "arrived", "refused")
            /\ UNCHANGED gActive
    /\ UNCHANGED <<row, by, frozen, tries, registryVars, gLimit, peak, kActive, maintVars, envVars>>

\* global.TryAcquire, then the second draining check.
AcquireGlobal(r) ==
    /\ Up
    /\ IF gActive < gLimit
       THEN /\ Move(r, "arrived", IF phase = "serving" THEN "global" ELSE "unwindGlobal")
            /\ gActive' = gActive + 1
       ELSE /\ Move(r, "arrived", "refused")
            /\ UNCHANGED gActive
    /\ UNCHANGED <<row, by, frozen, tries, registryVars, gLimit, peak, kActive, maintVars, envVars>>

\* keys.TryAcquire, one atomic step of the semaphore KeyGates implements.
AcquireKey(r) ==
    /\ IF kActive[KeyOf[r]] < KeyLimit
       THEN /\ Move(r, "global", "key")
            /\ kActive' = [kActive EXCEPT ![KeyOf[r]] = @ + 1]
       ELSE /\ Move(r, "global", "unwindGlobal")
            /\ UNCHANGED kActive
    /\ UNCHANGED <<row, by, frozen, tries, registryVars, gActive, gLimit, peak, maintVars, envVars>>

ReservedOfKey(k) == {r \in Requests : KeyOf[r] = k /\ Reserved(r)}

\* ReserveRequest commits: the pair of rows exists.
Reserve(r) ==
    /\ Move(r, "key", "inserted")
    /\ Cardinality(ReservedOfKey(KeyOf[r])) < KeyLimit
    /\ row' = [row EXCEPT ![r] = "reserved"]
    /\ UNCHANGED <<by, frozen, tries, registryVars, gateVars, maintVars, envVars>>

\* ReserveRequest refuses (rate, quota, concurrency) or fails before COMMIT.
ReserveRefused(r) ==
    /\ Move(r, "key", "unwindKey")
    /\ UNCHANGED <<row, by, frozen, tries, registryVars, gateVars, maintVars, envVars>>

\* ReserveRequest's COMMIT takes effect but reports an error.
ReserveLostAck(r) ==
    /\ faults < MaxFaults
    /\ Move(r, "key", "unwindKey")
    /\ Cardinality(ReservedOfKey(KeyOf[r])) < KeyLimit
    /\ row' = [row EXCEPT ![r] = "reserved"]
    /\ faults' = faults + 1
    /\ UNCHANGED <<by, frozen, tries, registryVars, gateVars, maintVars, phase>>

UnwindKey(r) ==
    /\ Move(r, "unwindKey", "unwindGlobal")
    /\ kActive' = [kActive EXCEPT ![KeyOf[r]] = @ - 1]
    /\ UNCHANGED <<row, by, frozen, tries, registryVars, gActive, gLimit, peak, maintVars, envVars>>

\* global.Release; an empty gate has no use for larger limits of the past.
ReleaseGlobal ==
    /\ gActive' = gActive - 1
    /\ peak' = IF gActive = 1 THEN gLimit ELSE peak
    /\ UNCHANGED <<gLimit, kActive>>

UnwindGlobal(r) ==
    /\ Move(r, "unwindGlobal", "refused")
    /\ ReleaseGlobal
    /\ UNCHANGED <<row, by, frozen, tries, registryVars, maintVars, envVars>>

Register(r) ==
    /\ Move(r, "inserted", "leased")
    /\ active' = active \cup {r}
    /\ UNCHANGED <<row, by, frozen, tries, pending, gateVars, maintVars, envVars>>

-----------------------------------------------------------------------------
(* Lease.Close                                                             *)

\* The handler ends its request with some outcome, which Close freezes.
HandlerClose(r) ==
    /\ Move(r, "leased", "settling")
    /\ by' = [by EXCEPT ![r] = "handler"]
    /\ \E o \in Outcomes : frozen' = [frozen EXCEPT ![r] = o]
    /\ UNCHANGED <<row, tries, registryVars, gateVars, maintVars, envVars>>

\* Leaving settleWithRetry: the Close goes on at `to`.
Leave(r, to) ==
    /\ Move(r, "settling", to)
    /\ tries' = [tries EXCEPT ![r] = 0]
    /\ UNCHANGED <<by, frozen, registryVars, gateVars, maintVars>>

\* FinishReservation accepts: a reserved row takes the outcome, a row that
\* already has it is left as it is.
Accepts(r) ==
    /\ frozen[r] \notin Invalid
    /\ Reserved(r) \/ row[r] = frozen[r]

SettleOk(r) ==
    /\ Leave(r, "settled")
    /\ Accepts(r)
    /\ row' = [row EXCEPT ![r] = frozen[r]]
    /\ UNCHANGED envVars

\* Mutant: a rejected settlement counts as settled.
SettleRejectedIgnored(r) ==
    /\ Leave(r, "settled")
    /\ ~Accepts(r)
    /\ UNCHANGED <<row, envVars>>

\* "invalid settlement", ErrSettlementConflict or ErrReservationNotFound.
SettleRejected(r) ==
    /\ Leave(r, "handover")
    /\ ~Accepts(r)
    /\ UNCHANGED <<row, envVars>>

\* Mutant: no limit on the attempts.
SettleBusyForever(r) ==
    /\ faults < MaxFaults
    /\ st[r] = "settling"
    /\ tries' = [tries EXCEPT ![r] = @ + 1]
    /\ faults' = faults + 1
    /\ UNCHANGED <<row, st, by, frozen, registryVars, gateVars, maintVars, phase>>

\* SQLITE_BUSY or LOCKED with attempts left: settleWithRetry tries again.
SettleBusy(r) ==
    /\ faults < MaxFaults
    /\ st[r] = "settling"
    /\ tries[r] + 1 < MaxTries
    /\ tries' = [tries EXCEPT ![r] = @ + 1]
    /\ faults' = faults + 1
    /\ UNCHANGED <<row, st, by, frozen, registryVars, gateVars, maintVars, phase>>

\* The last attempt is busy, or an error that is not retried; rolled back.
SettleError(r) ==
    /\ faults < MaxFaults
    /\ Leave(r, "handover")
    /\ faults' = faults + 1
    /\ UNCHANGED <<row, phase>>

\* COMMIT takes effect but the call reports an error or times out.
SettleLostAck(r) ==
    /\ faults < MaxFaults
    /\ Leave(r, "handover")
    /\ Accepts(r)
    /\ row' = [row EXCEPT ![r] = frozen[r]]
    /\ faults' = faults + 1
    /\ UNCHANGED phase

\* Close ends and unlocks l.mu; a reconciler goes to its next lease.
Unlock(r) ==
    /\ by' = [by EXCEPT ![r] = None]
    /\ todo' = [c \in Closers |-> IF by[r] = c THEN todo[c] \ {r} ELSE todo[c]]
    /\ UNCHANGED <<reap, seen, agers>>

\* Mutant: the failed lease is not handed to the reconciler.
HandoverForgets(r) ==
    /\ Move(r, "handover", "parting")
    /\ UNCHANGED <<row, by, frozen, tries, registryVars, gateVars, maintVars, envVars>>

\* Failure: pending.Add, and then active.Remove.
Handover(r) ==
    /\ Move(r, "handover", "parting")
    /\ pending' = pending \cup {r}
    /\ UNCHANGED <<row, by, frozen, tries, active, gateVars, maintVars, envVars>>

Park(r) ==
    /\ Move(r, "parting", "parked")
    /\ active' = active \ {r}
    /\ Unlock(r)
    /\ UNCHANGED <<row, frozen, tries, pending, gateVars, envVars>>

\* Success: pending.Remove, active.Remove, keys.Release, global.Release.
Unpend(r) ==
    /\ Move(r, "settled", "forgetting")
    /\ pending' = pending \ {r}
    /\ UNCHANGED <<row, by, frozen, tries, active, gateVars, maintVars, envVars>>

Unregister(r) ==
    /\ Move(r, "forgetting", "freeKey")
    /\ active' = active \ {r}
    /\ UNCHANGED <<row, by, frozen, tries, pending, gateVars, maintVars, envVars>>

FreeKey(r) ==
    /\ Move(r, "freeKey", "freeGlobal")
    /\ kActive' = [kActive EXCEPT ![KeyOf[r]] = @ - 1]
    /\ UNCHANGED <<row, by, frozen, tries, registryVars, gActive, gLimit, peak, maintVars, envVars>>

FreeGlobal(r) ==
    /\ Move(r, "freeGlobal", "done")
    /\ ReleaseGlobal
    /\ Unlock(r)
    /\ UNCHANGED <<row, frozen, tries, registryVars, envVars>>

-----------------------------------------------------------------------------
(* Reconciler.RunOnce, by maintenance every 5s and by main while draining. *)

MaintIdle == reap = "idle" /\ todo["maint"] = {}

ReconcileStart(c) ==
    /\ \/ c = "maint" /\ MaintIdle /\ phase \in {"serving", "draining", "settling"}
       \/ c = "main" /\ todo["main"] = {} /\ phase = "settling"
    /\ pending # {}
    /\ todo' = [todo EXCEPT ![c] = pending]
    /\ UNCHANGED <<ledgerVars, leaseVars, registryVars, gateVars, reap, seen, agers, envVars>>

\* Mutant: the reconciler's Outcome{} replaces the frozen one.
ReconcileCloseRedecides(c, r) ==
    /\ r \in todo[c]
    /\ by[r] = None
    /\ \A q \in Requests : by[q] # c
    /\ Move(r, "parked", "settling")
    /\ by' = [by EXCEPT ![r] = c]
    /\ \E o \in Outcomes : frozen' = [frozen EXCEPT ![r] = o]
    /\ UNCHANGED <<row, tries, registryVars, gateVars, maintVars, envVars>>

\* The next lease of the snapshot: Close takes l.mu and settles with the
\* frozen outcome ...
ReconcileClose(c, r) ==
    /\ r \in todo[c]
    /\ by[r] = None
    /\ \A q \in Requests : by[q] # c
    /\ Move(r, "parked", "settling")
    /\ by' = [by EXCEPT ![r] = c]
    /\ UNCHANGED <<row, frozen, tries, registryVars, gateVars, maintVars, envVars>>

\* Mutant: a settled lease is released once more.
ReconcileSkipReleases(c, r) ==
    /\ r \in todo[c]
    /\ by[r] = None
    /\ \A q \in Requests : by[q] # c
    /\ st[r] = "done"
    /\ todo' = [todo EXCEPT ![c] = @ \ {r}]
    /\ gActive' = IF gActive > 0 THEN gActive - 1 ELSE 0
    /\ UNCHANGED <<ledgerVars, leaseVars, registryVars, gLimit, peak, kActive, reap, seen, agers, envVars>>

\* ... or finds l.settled and returns at once.
ReconcileSkip(c, r) ==
    /\ r \in todo[c]
    /\ by[r] = None
    /\ \A q \in Requests : by[q] # c
    /\ st[r] = "done"
    /\ todo' = [todo EXCEPT ![c] = @ \ {r}]
    /\ UNCHANGED <<ledgerVars, leaseVars, registryVars, gateVars, reap, seen, agers, envVars>>

-----------------------------------------------------------------------------
(* The reaper pass of startMaintenance, every 5 minutes.                   *)

\* activeIDs is read first.  Rows that are committed but not yet registered
\* are younger than the cutoff and stay so for the length of a pass.
ReapReadActive ==
    /\ ReaperOn
    /\ MaintIdle
    /\ phase \in {"serving", "draining", "settling"}
    /\ reap' = "readPending"
    /\ seen' = active
    /\ agers' = {r \in Requests : Reserved(r) /\ st[r] # "inserted"}
    /\ UNCHANGED <<ledgerVars, leaseVars, registryVars, gateVars, todo, envVars>>

\* Mutant: the pass excludes the pending ids only.
ReapReadPendingOnly ==
    /\ reap = "readPending"
    /\ reap' = "tx"
    /\ seen' = pending
    /\ UNCHANGED <<ledgerVars, leaseVars, registryVars, gateVars, todo, agers, envVars>>

\* pendingIDs is read second.
ReapReadPending ==
    /\ reap = "readPending"
    /\ reap' = "tx"
    /\ seen' = seen \cup pending
    /\ UNCHANGED <<ledgerVars, leaseVars, registryVars, gateVars, todo, agers, envVars>>

\* Mutant: IN where NOT IN is meant.
ReapOrphansInverted ==
    /\ reap = "tx"
    /\ reap' = "idle" /\ seen' = {} /\ agers' = {}
    /\ row' = [r \in Requests |->
                  IF row[r] = "stale" /\ r \in seen THEN "recovered" ELSE row[r]]
    /\ UNCHANGED <<leaseVars, registryVars, gateVars, todo, envVars>>

\* ReapOrphanReservations: one transaction, or an error that changes nothing.
ReapOrphans ==
    /\ reap = "tx"
    /\ reap' = "idle" /\ seen' = {} /\ agers' = {}
    /\ \/ /\ row' = [r \in Requests |->
                        IF row[r] = "stale" /\ r \notin seen THEN "recovered" ELSE row[r]]
          /\ UNCHANGED faults
       \/ /\ faults < MaxFaults
          /\ faults' = faults + 1
          /\ UNCHANGED row
    /\ UNCHANGED <<leaseVars, registryVars, gateVars, todo, phase>>

\* maintenanceCancel reaches a pass under way: its transaction fails.
ReapCancelled ==
    /\ reap # "idle"
    /\ phase \in {"stopping", "abandoning"}
    /\ reap' = "idle" /\ seen' = {} /\ agers' = {}
    /\ UNCHANGED <<ledgerVars, leaseVars, registryVars, gateVars, todo, envVars>>

\* A reserved row becomes older than MAX_STREAM_DURATION plus two minutes.
Age(r) ==
    /\ ReaperOn
    /\ row[r] = "reserved"
    /\ st[r] # "inserted"
    /\ reap = "idle" \/ r \in agers
    /\ row' = [row EXCEPT ![r] = "stale"]
    /\ UNCHANGED <<leaseVars, registryVars, gateVars, maintVars, envVars>>

-----------------------------------------------------------------------------
(* Application.Close, crash and buildApplication.                          *)

Phase(from, to) == phase = from /\ phase' = to

BeginDraining ==
    /\ Phase("serving", "draining")
    /\ UNCHANGED <<ledgerVars, leaseVars, registryVars, gateVars, maintVars, faults>>

\* Mutant: shutdown goes on without waiting for the handlers.
HandlersNotAwaited ==
    /\ Phase("draining", "settling")
    /\ UNCHANGED <<ledgerVars, leaseVars, registryVars, gateVars, maintVars, faults>>

\* Shutdown and tracker.wait end: every handler returned, or time is up.
HandlersReturned ==
    /\ Phase("draining", "settling")
    /\ \A r \in Requests : ~InHandler(r)
    /\ UNCHANGED <<ledgerVars, leaseVars, registryVars, gateVars, maintVars, faults>>

HandlersTimeout ==
    /\ Phase("draining", "abandoning")
    /\ \E r \in Requests : InHandler(r)
    /\ UNCHANGED <<ledgerVars, leaseVars, registryVars, gateVars, maintVars, faults>>

\* drainSettlements ends between two RunOnce: nothing pending, or time is up.
DrainEnds ==
    /\ Phase("settling", "stopping")
    /\ todo["main"] = {}
    /\ UNCHANGED <<ledgerVars, leaseVars, registryVars, gateVars, maintVars, faults>>

\* RunOnce of main sees its context expired between two leases.
DrainTimeout ==
    /\ Phase("settling", "stopping")
    /\ \A q \in Requests : by[q] # "main"
    /\ todo["main"] # {}
    /\ todo' = [todo EXCEPT !["main"] = {}]
    /\ UNCHANGED <<ledgerVars, leaseVars, registryVars, gateVars, reap, seen, agers, faults>>

\* maintenanceCancel: RunOnce of maintenance stops between two leases.
MaintenanceCancelled ==
    /\ phase \in {"stopping", "abandoning"}
    /\ \A q \in Requests : by[q] # "maint"
    /\ todo["maint"] # {}
    /\ todo' = [todo EXCEPT !["maint"] = {}]
    /\ UNCHANGED <<ledgerVars, leaseVars, registryVars, gateVars, reap, seen, agers, envVars>>

\* maintenanceDone, then Store.Close.
StoreClose ==
    /\ Phase("stopping", "closed")
    /\ MaintIdle
    /\ UNCHANGED <<ledgerVars, leaseVars, registryVars, gateVars, maintVars, faults>>

\* The process is gone: memory is lost, the ledger stays.
Wipe ==
    /\ st' = [r \in Requests |-> IF st[r] \in {"new", "refused", "done", "lost"}
                                  THEN st[r] ELSE "lost"]
    /\ by' = [r \in Requests |-> None]
    /\ tries' = [r \in Requests |-> 0]
    /\ active' = {} /\ pending' = {}
    /\ gActive' = 0 /\ peak' = gLimit /\ UNCHANGED gLimit
    /\ kActive' = [k \in Keys |-> 0]
    /\ todo' = [c \in Closers |-> {}]
    /\ reap' = "idle" /\ seen' = {} /\ agers' = {}
    /\ UNCHANGED <<row, frozen>>

\* Mutant: main never gives up on a handler or on maintenance.
ExitOnlyClosed ==
    /\ phase = "closed"
    /\ phase' = "down"
    /\ Wipe
    /\ UNCHANGED faults

\* main returns; it does not wait longer than 5s for maintenance.
Exit ==
    /\ phase \in {"closed", "stopping", "abandoning"}
    /\ phase' = "down"
    /\ Wipe
    /\ UNCHANGED faults

Crash ==
    /\ Up
    /\ faults < MaxFaults
    /\ phase' = "down"
    /\ faults' = faults + 1
    /\ Wipe

\* Mutant: start-up recovery without its status = 'reserved' condition.
RestartRecoversAll ==
    /\ Phase("down", "serving")
    /\ row' = [r \in Requests |-> IF row[r] = "none" THEN "none" ELSE "recovered"]
    /\ UNCHANGED <<leaseVars, registryVars, gateVars, maintVars, faults>>

\* Start-up recovers every reserved row before the server listens; NewService
\* builds the gate with the limit of the settings it finds.
Restart ==
    /\ Phase("down", "serving")
    /\ \E l \in GlobalLimits : SetLimit(l)
    /\ row' = [r \in Requests |-> IF Reserved(r) THEN "recovered" ELSE row[r]]
    /\ UNCHANGED <<leaseVars, registryVars, maintVars, faults>>

-----------------------------------------------------------------------------
BeginStep(r) ==
    \/ Arrive(r) \/ AcquireGlobal(r) \/ AcquireKey(r)
    \/ Reserve(r) \/ ReserveRefused(r) \/ ReserveLostAck(r)
    \/ UnwindKey(r) \/ UnwindGlobal(r) \/ Register(r)

SettleStep(r) ==
    \/ SettleOk(r) \/ SettleRejected(r) \/ SettleBusy(r)
    \/ SettleError(r) \/ SettleLostAck(r)

CloseStep(r) ==
    \/ Handover(r) \/ Park(r)
    \/ Unpend(r) \/ Unregister(r) \/ FreeKey(r) \/ FreeGlobal(r)

ReconcileStep(c) ==
    \/ ReconcileStart(c)
    \/ \E r \in Requests : ReconcileClose(c, r) \/ ReconcileSkip(c, r)

ReapStep == ReapReadActive \/ ReapReadPending \/ ReapOrphans \/ ReapCancelled

ShutdownStep ==
    \/ HandlersReturned \/ HandlersTimeout \/ DrainEnds \/ DrainTimeout
    \/ MaintenanceCancelled \/ StoreClose \/ Exit

Next ==
    \/ \E r \in Requests : BeginStep(r) \/ HandlerClose(r) \/ SettleStep(r)
                             \/ CloseStep(r) \/ Age(r)
    \/ \E c \in Closers : ReconcileStep(c)
    \/ ReapStep
    \/ BeginDraining \/ ShutdownStep
    \/ Crash \/ Restart

Spec == Init /\ [][Next]_vars

(***************************************************************************)
(* Fairness.  Goroutines that can run do run.  MAX_STREAM_DURATION ends    *)
(* every upstream call, so a handler reaches its Close.  The maintenance   *)
(* loop selects among tickers whose ticks wait in a buffer, so no job is   *)
(* starved by the other one: strong fairness for starting each.  Restart   *)
(* is the supervisor's (docker restart policy, systemd).                   *)
(***************************************************************************)
Fairness ==
    /\ \A r \in Requests :
         /\ WF_vars(BeginStep(r) /\ st[r] # "new")
         /\ WF_vars(HandlerClose(r))
         /\ WF_vars(SettleStep(r))
         /\ WF_vars(CloseStep(r))
         /\ WF_vars(Age(r))
    /\ \A c \in Closers :
         /\ SF_vars(ReconcileStart(c))
         /\ WF_vars(\E r \in Requests : ReconcileClose(c, r) \/ ReconcileSkip(c, r))
    /\ SF_vars(ReapReadActive)
    /\ WF_vars(ReapReadPending \/ ReapOrphans)
    /\ WF_vars(ShutdownStep)
    /\ WF_vars(Restart)

LiveSpec == Spec /\ Fairness

-----------------------------------------------------------------------------
(* Safety.                                                                 *)

Positions == GlobalHeldAt \cup {"new", "arrived", "refused", "done", "lost"}

(* Shape of the ledger, the leases, the registries and the gates.          *)
TypeOK ==
    /\ row \in [Requests -> Outcomes \cup {"none", "reserved", "stale", "recovered"}]
    /\ st \in [Requests -> Positions]
    /\ by \in [Requests -> Closers \cup {"handler", None}]
    /\ frozen \in [Requests -> Outcomes \cup {None}]
    /\ tries \in [Requests -> 0 .. MaxTries - 1]
    /\ active \subseteq Requests /\ pending \subseteq Requests
    /\ gActive \in Nat /\ kActive \in [Keys -> Nat]
    /\ gLimit \in GlobalLimits /\ peak \in GlobalLimits
    /\ todo \in [Closers -> SUBSET Requests]
    /\ reap \in {"idle", "readPending", "tx"}
    /\ seen \subseteq Requests /\ agers \subseteq Requests
    /\ phase \in {"serving", "draining", "settling", "abandoning", "stopping",
                  "closed", "down"}
    /\ faults \in 0 .. MaxFaults

(* Lease.Close and Begin give back each slot exactly once on every path,   *)
(* and keep it while the settlement is pending: the gates' counters are    *)
(* the number of requests between acquisition and release.                 *)
SlotsExact ==
    /\ gActive = Cardinality(HoldsGlobal)
    /\ \A k \in Keys : kActive[k] = Cardinality(HoldsKey(k))

(* The reconciliation queue is bounded because a failed settlement keeps   *)
(* its slot until it succeeds: active and pending together never exceed    *)
(* the largest limit in force since the gate was last empty.  They may     *)
(* exceed the present limit: Begin lowers it whatever leases are held.     *)
QueueBounded == Cardinality(active \cup pending) =< peak

(* The reaper never touches the row of a live lease: as long as a lease    *)
(* waits for its settlement its row is still reserved, or holds the very   *)
(* outcome the lease froze (a COMMIT whose answer was lost).               *)
OwnedRowIntact ==
    \A r \in Requests : Owned(r) => Reserved(r) \/ row[r] = frozen[r]

(* A lease that Close reports as settled is in the ledger with the outcome *)
(* its handler decided first, whoever settled it and however often.        *)
BilledAsDecided ==
    \A r \in Requests :
        st[r] \in {"settled", "forgetting", "freeKey", "freeGlobal", "done"} =>
            row[r] = frozen[r]

(* Application.Close closes the Store only when no handler, settlement or  *)
(* maintenance job can still use it.                                       *)
ClosedStoreUnused ==
    phase = "closed" =>
        /\ \A r \in Requests : ~InHandler(r) /\ by[r] = None
        /\ MaintIdle

(* A ledger row that reached a final status is never written again, by a   *)
(* retry, the reaper, start-up recovery or another closer.                 *)
FinalRowsImmutable == [][\A r \in Requests : Final(r) => row'[r] = row[r]]_vars

-----------------------------------------------------------------------------
(* The inductive invariant.                                                *)

UndecidedAt == {"new", "arrived", "global", "key", "inserted", "leased",
                "unwindKey", "unwindGlobal", "refused"}
ClosingAt == {"settling", "handover", "parting", "settled", "forgetting",
              "freeKey", "freeGlobal"}

WithinLimit == gActive =< peak /\ gLimit =< peak

\* What a position says of the ledger rows before an outcome is decided.
RowFollows ==
    \A r \in Requests :
        /\ st[r] \in {"new", "arrived", "global", "key"} => row[r] = "none"
        /\ st[r] = "inserted" => row[r] = "reserved"
        /\ st[r] = "leased" => Reserved(r)

OutcomeFrozen ==
    \A r \in Requests :
        /\ st[r] \in UndecidedAt => frozen[r] = None
        /\ st[r] \in ClosingAt \cup {"parked", "done"} => frozen[r] \in Outcomes

\* A lease is locked exactly while some Close works on it, and a reconciler
\* works only on leases of its snapshot.
OneCloser ==
    \A r \in Requests :
        /\ by[r] # None <=> st[r] \in ClosingAt
        /\ by[r] \in Closers => r \in todo[by[r]]

Registered ==
    \A r \in Requests :
        /\ r \in active => st[r] \in {"leased", "settling", "handover", "parting",
                                      "settled", "forgetting"}
        /\ r \in pending => st[r] \in {"settling", "handover", "parting", "parked",
                                       "settled"}
        /\ Owned(r) => r \in active \cup pending
        /\ st[r] = "leased" => r \in active
        /\ st[r] \in {"parting", "parked"} => r \in pending

\* A row the pass in progress may reap: old already, or it may become old.
Exposed(r) == row[r] = "stale" \/ (row[r] = "reserved" /\ r \in agers)

\* The pass excludes every live lease whose row is exposed to it; until it
\* has read the pending ids it still counts on them.
ReaperExcludes ==
    \A r \in Requests :
        /\ r \in agers => st[r] \notin {"new", "arrived", "global", "key", "inserted"}
        /\ reap = "readPending" /\ Owned(r) /\ Exposed(r) => r \in seen \cup pending
        /\ reap = "tx" /\ Owned(r) /\ Exposed(r) => r \in seen

PhaseOrder ==
    /\ phase \in {"settling", "stopping", "closed"} => \A r \in Requests : ~InHandler(r)
    /\ phase \in {"stopping", "closed"} => todo["main"] = {}
    /\ phase = "closed" => MaintIdle
    /\ phase = "down" =>
         /\ reap = "idle"
         /\ \A r \in Requests : st[r] \in {"new", "refused", "done", "lost"}

Shape ==
    /\ RowFollows /\ OutcomeFrozen /\ OneCloser /\ Registered
    /\ ReaperExcludes /\ PhaseOrder /\ OwnedRowIntact /\ BilledAsDecided

Inv == TypeOK /\ SlotsExact /\ WithinLimit /\ Shape

-----------------------------------------------------------------------------
ledgerOf == [r \in Requests |-> IF Reserved(r) THEN "open" ELSE row[r]]
ownersOf == {r \in Requests : Owned(r) \/ st[r] = "settled"}

Billing == INSTANCE RequestBilling WITH
    ledger <- ledgerOf, decided <- frozen, owners <- ownersOf

(* The whole machinery of retries, reconciliation, reaping, shutdown and   *)
(* crash recovery implements the billing promise of RequestBilling.        *)
ImplementsBilling == Billing!Spec

(* Liveness.                                                               *)

(* Every admitted request gives its slots back.                            *)
SlotsReturned == \A r \in Requests : (r \in HoldsGlobal) ~> (r \notin HoldsGlobal)

(* Every reservation leaves the reserved status, also when the request     *)
(* crashed or its insert was committed without the caller learning it.     *)
EveryRowSettles == \A r \in Requests : Reserved(r) ~> Final(r)

(* Application.Close ends whatever the handlers and the database do.       *)
ShutdownEnds == (phase = "draining") ~> (phase = "down")
=============================================================================
