------------------------------- MODULE Quota -------------------------------
(***************************************************************************)
(* The quota decision of Store.ReserveRequest (internal/store/ledger.go)   *)
(* over the ledger rows of groups and keys, next to settlement, retention  *)
(* pruning and the administrator's edits and deletions.                    *)
(*                                                                         *)
(* Time is a number of ticks in Beijing time.  A row's created_at_utc is   *)
(* RFC3339Nano text: within a second, text without a fraction sorts after  *)
(* text with one ("48Z" > "48.2Z"), and some of the queries compare text.  *)
(* Window starts lie on whole seconds; a request starts at an instant with *)
(* a fraction (the clock counts nanoseconds), and reservationMu lets one   *)
(* request at a time read it, so a row is known by its instant.            *)
(*                                                                         *)
(* RFC3339Nano drops trailing zeros, so two fractions of which one is a    *)
(* prefix of the other ("48.2Z" > "48.21Z") are also out of order as text; *)
(* a tick does not tell such fractions apart.                              *)
(*                                                                         *)
(* A request has a row in requests, which the rate counts, and one in      *)
(* key_reservations, which every quota sums.  Deleting a model, a provider *)
(* or a key takes the second away and leaves the first.                    *)
(*                                                                         *)
(* Tokens and amounts pass the same checks side by side; the module has    *)
(* one of the two.                                                         *)
(***************************************************************************)
EXTENDS Integers, FiniteSetsExt

CONSTANTS Keys, Groups, None,
          Settings,                  \* quota settings an administrator may save
          Initial,                   \* the settings a group may start with
          KeyQuota,                  \* token_limit of a key, 0 = no limit
          KeyConcurrency, RPMLimit,
          Costs,                     \* tokens a request reserves
          Charges,                   \* tokens a settlement charges
          Second, Minute, FiveHours, Day, Week,
          Retention,                 \* RETENTION_DAYS in ticks
          Deletions,                 \* whether models, providers and keys are deleted
          MaxTime, MaxRows           \* bounds: last instant, rows kept

VARIABLES
    now,
    rows,      \* requests: created_at_utc -> the row; kept = it still has its
               \* row in key_reservations
    limits,    \* the quota columns of model_groups
    groupOf,   \* client_keys.group_id
    forgotten  \* history: tokens of each key's rows that were deleted

vars == <<now, rows, limits, groupOf, forgotten>>

\* 0 = no limit; start = None: the period has no start.
SettingsOK(s) ==
    /\ DOMAIN s = {"fiveHour", "daily", "weekly", "period", "days", "start"}
    /\ \A f \in {"fiveHour", "daily", "weekly", "period", "days"} : s[f] \in Nat
    /\ s.start = None \/ s.start \in Nat

ASSUME QuotaAssumption ==
    /\ \A s \in Settings \cup Initial : SettingsOK(s)
    /\ IsFiniteSet(Keys) /\ {KeyQuota, KeyConcurrency, RPMLimit} \subseteq Nat
    /\ Costs \subseteq Nat \ {0} /\ \E c \in Costs : \A d \in Costs : c =< d
    /\ Charges \subseteq Nat /\ \E c \in Charges \cup Costs : \A d \in Charges \cup Costs : c >= d
    /\ {Second, Minute, FiveHours, Day, Week, Retention, MaxTime, MaxRows} \subseteq Nat
    /\ Deletions \in BOOLEAN
    /\ Second > 1 /\ Day > 0 /\ Week > 0
    /\ FiveHours % Second = 0 /\ Day % Second = 0 /\ Week % Day = 0

-----------------------------------------------------------------------------
(* Time as the queries see it.                                             *)

Whole(t) == t % Second = 0

\* s <= t as RFC3339Nano text.
TextLeq(s, t) ==
    \/ s \div Second < t \div Second
    \/ s \div Second = t \div Second /\ (s = t \/ Whole(t) \/ (~Whole(s) /\ s < t))

TextLess(s, t) == s # t /\ TextLeq(s, t)

billingWeekStart(t) == (t \div Week) * Week

-----------------------------------------------------------------------------
(* Windows: sets of rows.                                                  *)

Ids == DOMAIN rows

\* The most tokens of a row.
MaxCharge == Max(Charges \cup Costs)

\* reserved_tokens + charged_tokens of a set of rows, the tokens of each row
\* numbered from 1.
Tokens(S) == {x \in S \X (1 .. MaxCharge) : x[2] =< rows[x[1]].tokens}
Used(S) == Cardinality(Tokens(S))

\* The rows of key_reservations the quotas sum:
\* status IN ('reserved','completed','failed','aborted')
Billed == {i \in Ids : rows[i].kept /\ rows[i].status # "rejected"}

Counted(g) == {i \in Billed : rows[i].group = g}

\* Mutant: reservations that are not settled yet do not count.
fiveHourSettled(g) ==
    {i \in Counted(g) : i >= now - FiveHours /\ rows[i].status = "charged"}

fiveHourRows(g) == {i \in Counted(g) : i >= now - FiveHours}

\* Mutant: the same for the day.
dailySettled(g) ==
    {i \in Counted(g) : i \div Day = now \div Day /\ rows[i].status = "charged"}

dailyRows(g) == {i \in Counted(g) : /\ i \div Day = now \div Day
                                     /\ TextLeq(i, now)}

\* The conditions a period needs to have any effect, and its end.
HasPeriod(l) == l.days > 0 /\ l.period > 0 /\ l.start # None
PeriodEnd(l) == l.start + l.days * Day

periodActive(l) == HasPeriod(l) /\ l.start =< now /\ now < PeriodEnd(l)

periodRows(g) == {i \in Counted(g) : /\ i >= limits[g].start
                                      /\ i < PeriodEnd(limits[g])
                                      /\ i =< now}

\* periodQuotaTransition: the row with which the period was used up, as a
\* set that is empty while it is not.
Transition(g) ==
    LET spent == {i \in periodRows(g) :
                     Used({j \in periodRows(g) : j =< i}) >= limits[g].period}
    IN  IF periodActive(limits[g]) /\ spent # {} THEN {Min(spent)} ELSE {}

InPeriod(g) == periodActive(limits[g]) /\ Transition(g) = {}

\* weeklyWindowStart outside of an active period.
weeklyWindowStart(l) ==
    IF HasPeriod(l) /\ PeriodEnd(l) > billingWeekStart(now) /\ PeriodEnd(l) =< now
    THEN PeriodEnd(l)
    ELSE billingWeekStart(now)

weeklyRows(g) ==
    {i \in Counted(g) :
        /\ TextLeq(i, now)
        /\ \/ Transition(g) = {} /\ TextLeq(weeklyWindowStart(limits[g]), i)
           \/ \E h \in Transition(g) : TextLess(h, i)}

-----------------------------------------------------------------------------
(* ReserveRequest.                                                         *)

overdrawn(used, limit) == limit > 0 /\ used >= limit

\* Mutant: the key's total forgets what it used in another group.
KeyRowsInGroup(k) == {i \in Billed : rows[i].key = k /\ rows[i].group = groupOf[k]}

KeyRows(k) == {i \in Billed : rows[i].key = k}

\* Mutant: once a period is active nothing checks the week.
GroupChecksNoHandover(g) ==
    /\ ~overdrawn(Used(fiveHourRows(g)), limits[g].fiveHour)
    /\ ~overdrawn(Used(dailyRows(g)), limits[g].daily)
    /\ InPeriod(g) => ~overdrawn(Used(periodRows(g)), limits[g].period)
    /\ ~periodActive(limits[g]) => ~overdrawn(Used(weeklyRows(g)), limits[g].weekly)

GroupChecks(g) ==
    /\ ~overdrawn(Used(fiveHourRows(g)), limits[g].fiveHour)
    /\ ~overdrawn(Used(dailyRows(g)), limits[g].daily)
    /\ InPeriod(g) => ~overdrawn(Used(periodRows(g)), limits[g].period)
    /\ ~InPeriod(g) => ~overdrawn(Used(weeklyRows(g)), limits[g].weekly)

\* Mutant: the rate counts the rows of the last minute that are in flight.
RateFullInFlight ==
    Cardinality({i \in Ids : rows[i].status = "reserved" /\ i >= now - Minute})
        >= RPMLimit

RateFull == Cardinality({i \in Ids : i >= now - Minute}) >= RPMLimit

Held(k) == {i \in KeyRows(k) : rows[i].status = "reserved"}

\* The checks in the code's order; the first that fails rolls back.
Admitted(k) ==
    /\ Cardinality(Held(k)) < KeyConcurrency
    /\ groupOf[k] # None
    /\ ~RateFull
    /\ GroupChecks(groupOf[k])
    /\ ~overdrawn(Used(KeyRows(k)), KeyQuota)

ReserveRequest(k, cost) ==
    /\ Cardinality(Ids) < MaxRows
    /\ ~Whole(now)
    /\ \A i \in Ids : i < now
    /\ Admitted(k)
    /\ rows' = [i \in Ids \cup {now} |->
                   IF i = now
                   THEN [key |-> k, group |-> groupOf[k], status |-> "reserved", tokens |-> cost,
                         kept |-> TRUE]
                   ELSE rows[i]]
    /\ UNCHANGED <<now, limits, groupOf, forgotten>>

-----------------------------------------------------------------------------
(* Settlement, retention, administration and time.                         *)

\* Mutant: the charge is added to the reservation instead of replacing it.
FinishReservationAdds(i, status, charge) ==
    /\ rows[i].status = "reserved"
    /\ rows' = [rows EXCEPT ![i].status = status, ![i].tokens = @ + charge]
    /\ UNCHANGED <<now, limits, groupOf, forgotten>>

\* FinishReservation, reaping and recovery: "charged" stands for completed,
\* failed and aborted.
FinishReservation(i, status, charge) ==
    /\ rows[i].status = "reserved"
    /\ rows' = [rows EXCEPT ![i].status = status, ![i].tokens = charge]
    /\ UNCHANGED <<now, limits, groupOf, forgotten>>

\* Mutant: whole days are deleted, the day of the cutoff included.
OldDays(i) == i \div Day =< (now - Retention) \div Day /\ rows[i].status # "reserved"

Old(i) == TextLess(i, now - Retention) /\ rows[i].status # "reserved"

Prune ==
    /\ \E i \in Ids : Old(i)
    /\ rows' = [i \in {i \in Ids : ~Old(i)} |-> rows[i]]
    /\ forgotten' = [k \in Keys |-> forgotten[k] + Used({i \in KeyRows(k) : Old(i)})]
    /\ UNCHANGED <<now, limits, groupOf>>

\* A deletion cascades to the key_reservations rows S.  A reservation in
\* flight aborts it (prevent_active_reservation_delete).
Cascade(S) ==
    /\ Deletions
    /\ \A i \in S : rows[i].status # "reserved"
    /\ rows' = [i \in Ids |-> [rows[i] EXCEPT !.kept = @ /\ i \notin S]]
    /\ forgotten' = [k \in Keys |-> forgotten[k] + Used(KeyRows(k) \cap S)]
    /\ UNCHANGED <<now, limits>>

\* S: the rows of some models, or of a provider with all its models.
DeleteModels(S) == Cascade(S) /\ UNCHANGED groupOf

\* A key made later may take its place.
DeleteClientKey(k) ==
    /\ Cascade({i \in Ids : rows[i].key = k})
    /\ groupOf' = [groupOf EXCEPT ![k] = None]

\* An edit without a start keeps the old one or starts the period now, in
\* whole seconds; an empty start or days = 0 clears it.
UpdateModelGroup(g, s, clear) ==
    /\ limits' = [limits EXCEPT ![g] =
           [s EXCEPT !.start =
               CASE s.days = 0 \/ clear -> None
                 [] s.days > 0 /\ ~clear /\ s.start # None -> s.start
                 [] s.days > 0 /\ ~clear /\ s.start = None /\ limits[g].start # None ->
                        limits[g].start
                 [] OTHER -> (now \div Second) * Second]]
    /\ UNCHANGED <<now, rows, groupOf, forgotten>>

SetKeyGroup(k, g) ==
    /\ groupOf' = [groupOf EXCEPT ![k] = g]
    /\ UNCHANGED <<now, rows, limits, forgotten>>

Tick ==
    /\ now' \in now + 1 .. MaxTime
    /\ UNCHANGED <<rows, limits, groupOf, forgotten>>

Init ==
    /\ now = 0
    /\ rows = [i \in {} |-> None]
    /\ limits \in [Groups -> Initial]
    /\ groupOf \in [Keys -> Groups]
    /\ forgotten = [k \in Keys |-> 0]

Next ==
    \/ \E k \in Keys, c \in Costs : ReserveRequest(k, c)
    \/ \E i \in Ids, c \in Charges : FinishReservation(i, "charged", c)
    \/ \E i \in Ids : FinishReservation(i, "rejected", 0)
    \/ Prune
    \/ \E S \in SUBSET {i \in Ids : rows[i].kept} : DeleteModels(S)
    \/ \E k \in Keys : DeleteClientKey(k)
    \/ \E g \in Groups, s \in Settings, clear \in BOOLEAN : UpdateModelGroup(g, s, clear)
    \/ \E k \in Keys, g \in Groups \cup {None} : SetKeyGroup(k, g)
    \/ Tick

Spec == Init /\ [][Next]_vars

-----------------------------------------------------------------------------
(* Properties.                                                             *)

(* Shape of the ledger and of the quota columns.                           *)
TypeOK ==
    /\ now \in 0 .. MaxTime
    /\ Ids \subseteq 0 .. now /\ Cardinality(Ids) =< MaxRows
    /\ rows \in [Ids -> [key : Keys, group : Groups,
                          status : {"reserved", "charged", "rejected"},
                          tokens : Costs \cup Charges \cup {0},
                          kept : BOOLEAN]]
    /\ \A g \in Groups : SettingsOK(limits[g])
    /\ groupOf \in [Keys -> Groups \cup {None}]
    /\ forgotten \in [Keys -> Nat]

\* What requests may use beyond a limit: they are admitted while any of it is
\* left, each row may settle higher than it reserved, and there are at most
\* InFlight of them at a time.
InFlight == Cardinality(Keys) * KeyConcurrency
Overdraft == MaxCharge - 1 + (InFlight - 1) * (MaxCharge - Min(Costs))

Bounded(S, limit) == limit > 0 => Used(S) =< limit + Overdraft

(* No interval of a minute ever holds more than RPM_LIMIT requests,        *)
(* whatever became of them and of their models, while RPM_LIMIT is left as *)
(* it is.                                                                  *)
RateBounded ==
    \A i \in Ids :
        Cardinality({j \in Ids : j =< i /\ j >= i - Minute}) =< RPMLimit

(* "Overdraft first, then refusal" (README): in no five hours does a group *)
(* use more than its limit and the overdraft of the requests in flight,    *)
(* rows that were deleted left aside.                                      *)
FiveHourBounded ==
    \A g \in Groups : \A i \in Counted(g) :
        Bounded({j \in Counted(g) : j =< i /\ j >= i - FiveHours},
                limits[g].fiveHour)

(* The same for a Beijing day.                                             *)
DailyBounded ==
    \A g \in Groups : \A i \in Counted(g) :
        Bounded({j \in Counted(g) : j \div Day = i \div Day},
                limits[g].daily)

(* The same for a Beijing week, in a group without a custom period.        *)
WeeklyBounded ==
    \A g \in Groups : \A i \in Counted(g) :
        ~HasPeriod(limits[g]) =>
            Bounded({j \in Counted(g) : j \div Week = i \div Week},
                    limits[g].weekly)

(* Within a custom period a group uses the period's limit and, after the   *)
(* hand-over, the weekly limit: the hand-over never opens a third budget.  *)
PeriodBounded ==
    \A g \in Groups :
        HasPeriod(limits[g]) /\ limits[g].weekly > 0 =>
            Used(periodRows(g)) =< limits[g].period + limits[g].weekly + 2 * Overdraft

(* Under a retention that covers the windows, Prune never deletes a row    *)
(* that one of them still counts: it cannot give quota back early.         *)
PruneKeepsWindows ==
    [][\A g \in Groups :
          Prune => /\ \A i \in fiveHourRows(g) \cup dailyRows(g) \cup weeklyRows(g) : ~Old(i)
                   /\ periodActive(limits[g]) => \A i \in periodRows(g) : ~Old(i)]_vars

\* The tokens of a key the ledger still has.
KeyUse(k) == Used({i \in Ids : rows[i].key = k /\ rows[i].kept /\ rows[i].status # "rejected"})

(* A key's total does not rotate and does not depend on its group: what    *)
(* the ledger has of a key is never more than its quota and one overdraft, *)
(* wherever the key was moved.                                             *)
KeyTotalBounded ==
    KeyQuota > 0 => \A k \in Keys : KeyUse(k) =< KeyQuota + Overdraft

(* The same over a key's whole life, with what Prune and the cascade of    *)
(* deletions took from the ledger: what "does not rotate with a window"    *)
(* (docs/admin-api.md) says of a key's total.                              *)
KeyLifeBounded ==
    KeyQuota > 0 => \A k \in Keys : forgotten[k] + KeyUse(k) =< KeyQuota + Overdraft
=============================================================================
