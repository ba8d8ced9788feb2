--------------------------- MODULE RequestBilling ---------------------------
(***************************************************************************)
(* What the relay promises about billing one request: it gets at most one  *)
(* final ledger entry; if its lease settled it, the entry is the outcome   *)
(* the request's handler decided; a reservation is recovered without       *)
(* charge only when no lease owns it any more.                             *)
(***************************************************************************)
CONSTANTS Requests, Outcomes, None

VARIABLES ledger,    \* "none", "open", an outcome, or "recovered"
          decided,   \* the outcome the handler decided, None before
          owners     \* requests whose lease still owes the settlement

billingVars == <<ledger, decided, owners>>

Init ==
    /\ ledger = [r \in Requests |-> "none"]
    /\ decided = [r \in Requests |-> None]
    /\ owners = {}

Admit(r) ==
    /\ ledger[r] = "none"
    /\ ledger' = [ledger EXCEPT ![r] = "open"]
    /\ UNCHANGED <<decided, owners>>

Own(r) ==
    /\ ledger[r] = "open"
    /\ decided[r] = None
    /\ owners' = owners \cup {r}
    /\ UNCHANGED <<ledger, decided>>

Decide(r) ==
    /\ r \in owners
    /\ decided[r] = None
    /\ \E o \in Outcomes : decided' = [decided EXCEPT ![r] = o]
    /\ UNCHANGED <<ledger, owners>>

Bill(r) ==
    /\ r \in owners
    /\ ledger[r] = "open"
    /\ decided[r] \in Outcomes
    /\ ledger' = [ledger EXCEPT ![r] = decided[r]]
    /\ UNCHANGED <<decided, owners>>

Discharge(r) ==
    /\ r \in owners
    /\ ledger[r] = decided[r]
    /\ owners' = owners \ {r}
    /\ UNCHANGED <<ledger, decided>>

\* Any number of ownerless reservations, in one transaction.
Recover ==
    /\ \A r \in Requests :
         \/ ledger'[r] = ledger[r]
         \/ r \notin owners /\ ledger[r] = "open" /\ ledger'[r] = "recovered"
    /\ ledger' = [r \in Requests |-> ledger'[r]]
    /\ UNCHANGED <<decided, owners>>

\* The process dies with every lease.
Lose ==
    /\ owners' = {}
    /\ UNCHANGED <<ledger, decided>>

Next ==
    \/ \E r \in Requests : Admit(r) \/ Own(r) \/ Decide(r) \/ Bill(r) \/ Discharge(r)
    \/ Recover
    \/ Lose

Spec == Init /\ [][Next]_billingVars
=============================================================================
