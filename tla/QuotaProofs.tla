---------------------------- MODULE QuotaProofs ----------------------------
(***************************************************************************)
(* Proofs about Quota, for any keys, groups, limits, costs and charges.    *)
(***************************************************************************)
EXTENDS Quota, FiniteSetTheorems, TLAPS

-----------------------------------------------------------------------------
(* Numbers and time.                                                       *)

\* The durations and limits are natural numbers, and a day is not empty.
LEMMA Constants ==
  /\ Second \in Nat /\ Second > 1 /\ Minute \in Nat /\ FiveHours \in Nat /\ Day \in Nat
  /\ Week \in Nat /\ Retention \in Nat /\ MaxTime \in Nat /\ MaxRows \in Nat
  /\ KeyQuota \in Nat /\ KeyConcurrency \in Nat /\ RPMLimit \in Nat
  /\ IsFiniteSet(Keys) /\ Costs \subseteq Nat \ {0} /\ Charges \subseteq Nat
  /\ Day > 0 /\ Week > 0
  /\ FiveHours % Second = 0 /\ Day % Second = 0 /\ Week % Day = 0
  BY QuotaAssumption

\* Products keep the order.
LEMMA ProductOrder ==
  ASSUME NEW d \in Nat, NEW m \in Int, NEW n \in Int, m =< n
  PROVE d * m =< d * n
<1>1. n - m \in Nat /\ d * (n - m) >= 0
  OBVIOUS
<1>2. d * (n - m) = d * n - d * m
  OBVIOUS
<1> QED
  BY <1>1, <1>2

\* Division leaves a rest.
LEMMA DivRest ==
  ASSUME NEW t \in Int, NEW d \in Nat, d > 0
  PROVE /\ t \div d \in Int /\ t % d \in Int
        /\ 0 =< t % d /\ t % d < d
        /\ t = d * (t \div d) + (t % d)
<1>1. t \div d \in Int /\ t % d \in Int
  OBVIOUS
<1>2. 0 =< t % d /\ t % d < d
  OBVIOUS
<1>3. t = d * (t \div d) + (t % d)
  OBVIOUS
<1> QED
  BY <1>1, <1>2, <1>3

\* Division keeps the order.
LEMMA DivOrder ==
  ASSUME NEW s \in Int, NEW t \in Int, NEW d \in Nat, d > 0, s =< t
  PROVE s \div d =< t \div d
<1> DEFINE p == s \div d
           q == t \div d
           a == s % d
           b == t % d
<1>1. /\ p \in Int /\ q \in Int /\ a \in Int /\ b \in Int
      /\ 0 =< a /\ b < d /\ s = d * p + a /\ t = d * q + b
  BY DivRest
<1> HIDE DEF p, q, a, b
<1>2. SUFFICES ASSUME q + 1 =< p PROVE FALSE
  BY <1>1 DEF p, q
<1>3. d * (q + 1) =< d * p
  BY <1>1, <1>2, ProductOrder
<1>4. d * (q + 1) = d * q + d
  BY <1>1
<1> QED
  BY <1>1, <1>3, <1>4

\* Among instants with a fraction the order of their text is that of time.
LEMMA TextIsTime ==
  ASSUME NEW s \in Int, NEW t \in Int, ~Whole(s), ~Whole(t)
  PROVE /\ TextLeq(s, t) <=> s =< t
        /\ TextLess(s, t) <=> s < t
<1>1. s \div Second \in Int /\ t \div Second \in Int
  BY Constants, DivRest
<1>2. s =< t => s \div Second =< t \div Second
  BY Constants, DivOrder
<1>3. t =< s => t \div Second =< s \div Second
  BY Constants, DivOrder
<1> QED
  BY <1>1, <1>2, <1>3 DEF TextLeq, TextLess

-----------------------------------------------------------------------------
(* Costs and charges.                                                      *)

MinCost == Min(Costs)

\* The dearest row and the cheapest reservation.
LEMMA CostFacts ==
  /\ MaxCharge \in Nat /\ MinCost \in Nat /\ MinCost \in Costs
  /\ 1 =< MinCost /\ MinCost =< MaxCharge
  /\ \A c \in Charges \cup Costs : c =< MaxCharge
  /\ \A c \in Costs : MinCost =< c
<1> DEFINE All == Charges \cup Costs
<1>1. All \subseteq Nat /\ Costs \subseteq Nat \ {0}
  BY Constants
<1>2. \E c \in All : \A d \in All : c >= d
  BY QuotaAssumption
<1>3. \E c \in Costs : \A d \in Costs : c =< d
  BY QuotaAssumption
<1>4. MaxCharge \in All /\ \A c \in All : MaxCharge >= c
  BY <1>2 DEF MaxCharge, Max
<1>5. MinCost \in Costs /\ \A c \in Costs : MinCost =< c
  BY <1>3 DEF MinCost, Min
<1>6. \A c \in All : c =< MaxCharge
  BY <1>1, <1>4
<1> QED
  BY <1>1, <1>4, <1>5, <1>6

-----------------------------------------------------------------------------
(* Counting.                                                               *)

\* A part of a finite set is finite and no larger.
LEMMA Part ==
  ASSUME NEW T, IsFiniteSet(T), NEW S, S \subseteq T
  PROVE /\ IsFiniteSet(S) /\ Cardinality(S) \in Nat /\ Cardinality(T) \in Nat
        /\ Cardinality(S) =< Cardinality(T)
  BY FS_Subset, FS_CardinalityType

\* The tokens of finitely many rows can be counted.
LEMMA UsedType ==
  ASSUME NEW S, IsFiniteSet(S)
  PROVE IsFiniteSet(Tokens(S)) /\ Used(S) \in Nat
<1>1. IsFiniteSet(1 .. MaxCharge)
  BY CostFacts, FS_Interval
<1>2. IsFiniteSet(S \X (1 .. MaxCharge))
  BY <1>1, FS_Product
<1> QED
  BY <1>2, Part DEF Tokens, Used

\* The tokens of the rows S once every reservation in it has been settled as
\* high as a settlement can be.
Worst(r, S) ==
    {x \in S \X (1 .. MaxCharge) : r[x[1]].status = "reserved" \/ x[2] =< r[x[1]].tokens}

\* They can be counted too, and are the more the more rows there are.
LEMMA WorstType ==
  ASSUME NEW r, NEW S, IsFiniteSet(S)
  PROVE IsFiniteSet(Worst(r, S)) /\ Cardinality(Worst(r, S)) \in Nat
<1>1. IsFiniteSet(1 .. MaxCharge)
  BY CostFacts, FS_Interval
<1>2. IsFiniteSet(S \X (1 .. MaxCharge))
  BY <1>1, FS_Product
<1> QED
  BY <1>2, Part DEF Worst

\* What is used is no more than that.
LEMMA UsedIsLess ==
  ASSUME NEW S, IsFiniteSet(S)
  PROVE Used(S) =< Cardinality(Worst(rows, S))
<1>1. Tokens(S) \subseteq Worst(rows, S)
  BY DEF Tokens, Worst
<1> QED
  BY <1>1, WorstType, Part DEF Used

\* If at most KeyConcurrency of the rows H belong to each key, there are at
\* most InFlight of them: they can be told apart by key and rank.
LEMMA FewInFlight ==
  ASSUME NEW H, IsFiniteSet(H), H \subseteq Int, NEW f \in [H -> Keys],
         \A k \in Keys : Cardinality({i \in H : f[i] = k}) =< KeyConcurrency
  PROVE InFlight \in Nat /\ Cardinality(H) =< InFlight
<1> DEFINE Class(k) == {i \in H : f[i] = k}
           Upto(i) == {j \in H : f[j] = f[i] /\ j =< i}
           places == Keys \X (1 .. KeyConcurrency)
           place == [i \in H |-> <<f[i], Cardinality(Upto(i))>>]
<1>1. IsFiniteSet(places) /\ Cardinality(places) = InFlight /\ InFlight \in Nat
  <2>1. IsFiniteSet(1 .. KeyConcurrency) /\ Cardinality(1 .. KeyConcurrency) = KeyConcurrency
    BY Constants, FS_Interval
  <2>2. Cardinality(Keys) \in Nat
    BY Constants, FS_CardinalityType
  <2>3. IsFiniteSet(places) /\ Cardinality(places) = Cardinality(Keys) * KeyConcurrency
    BY <2>1, Constants, FS_Product
  <2>4. Cardinality(Keys) * KeyConcurrency \in Nat
    BY <2>2, Constants
  <2> QED
    BY <2>3, <2>4 DEF InFlight
<1>2. ASSUME NEW i \in H PROVE Cardinality(Upto(i)) \in 1 .. KeyConcurrency /\ IsFiniteSet(Upto(i))
  <2>1. IsFiniteSet(Class(f[i])) /\ Upto(i) \subseteq Class(f[i])
    BY Part
  <2>2. IsFiniteSet(Upto(i)) /\ Cardinality(Upto(i)) \in Nat
        /\ Cardinality(Upto(i)) =< Cardinality(Class(f[i]))
        /\ Cardinality(Class(f[i])) \in Nat
    BY <2>1, Part
  <2>3. i \in Upto(i)
    OBVIOUS
  <2>4. Cardinality(Upto(i)) # 0
    BY <2>2, <2>3, FS_EmptySet
  <2>5. Cardinality(Class(f[i])) =< KeyConcurrency
    OBVIOUS
  <2> QED
    BY <2>2, <2>4, <2>5, Constants
<1>3. place \in [H -> places]
  BY <1>2
<1>4. ASSUME NEW a \in H, NEW b \in H, f[a] = f[b], a < b
      PROVE Cardinality(Upto(a)) # Cardinality(Upto(b))
  <2>1. Upto(a) \subseteq Upto(b) /\ b \in Upto(b) /\ b \notin Upto(a)
    <3>1. a \in Int /\ b \in Int /\ \A j \in H : j \in Int
      OBVIOUS
    <3>2. \A j \in H : j =< a => j =< b
      BY <1>4, <3>1
    <3>3. ~(b =< a) /\ b =< b
      BY <1>4, <3>1
    <3> QED
      BY <1>4, <3>2, <3>3
  <2>2. IsFiniteSet(Upto(b)) /\ Upto(a) \in SUBSET Upto(b) /\ Upto(a) # Upto(b)
    BY <1>2, <2>1
  <2> HIDE DEF Upto
  <2> QED
    BY <2>2, FS_Subset
<1>5. \A a, b \in H : place[a] = place[b] => a = b
  <2> SUFFICES ASSUME NEW a \in H, NEW b \in H, place[a] = place[b], a # b PROVE FALSE
    OBVIOUS
  <2>1. f[a] = f[b] /\ Cardinality(Upto(a)) = Cardinality(Upto(b))
    OBVIOUS
  <2>2. a < b \/ b < a
    OBVIOUS
  <2> HIDE DEF Upto, place
  <2> QED
    BY <1>4, <2>1, <2>2
<1>6. place \in Injection(H, places)
  BY <1>3, <1>5 DEF Injection, IsInjective
<1> HIDE DEF place, places
<1> QED
  BY <1>1, <1>6, FS_Injection

-----------------------------------------------------------------------------
(* The shape of the ledger.                                                *)

Row == [key : Keys, group : Groups, status : {"reserved", "charged", "rejected"},
        tokens : Costs \cup Charges \cup {0}, kept : BOOLEAN]

\* Besides the type: the quota columns are a function, no row starts on a
\* whole second, and a reservation is there and holds what a request may
\* reserve.
Shape ==
    /\ TypeOK
    /\ limits = [g \in Groups |-> limits[g]]
    /\ \A i \in Ids : ~Whole(i)
    /\ \A i \in Ids : rows[i].status = "reserved" => rows[i].tokens \in Costs /\ rows[i].kept

\* The ledger is finite and its instants are in the past.
LEMMA IdsFinite ==
  ASSUME Shape
  PROVE /\ IsFiniteSet(Ids) /\ Ids \subseteq Nat /\ now \in Nat /\ \A i \in Ids : i =< now
        /\ \A i \in Ids : rows[i] \in Row
        /\ limits \in [Groups -> {limits[g] : g \in Groups}]
<1>1. now \in Nat /\ now \in Int /\ Ids \subseteq 0 .. now
  BY Constants DEF Shape, TypeOK
<1>2. IsFiniteSet(0 .. now)
  BY <1>1, FS_Interval
<1>3. IsFiniteSet(Ids)
  BY <1>1, <1>2, Part
<1>4. \A i \in Ids : rows[i] \in Row
  BY DEF Shape, TypeOK, Row
<1>5. Ids \subseteq Nat /\ \A i \in Ids : i =< now
  BY <1>1
<1> QED
  BY <1>1, <1>3, <1>4, <1>5 DEF Shape

\* The shape is kept by a step to other rows at the same time.
LEMMA RowsShape ==
  ASSUME Shape, NEW I, I \subseteq 0 .. now, IsFiniteSet(I), Cardinality(I) =< MaxRows,
         rows' = [i \in I |-> rows'[i]], \A i \in I : rows'[i] \in Row /\ ~Whole(i),
         \A i \in I : rows'[i].status = "reserved" => rows'[i].tokens \in Costs /\ rows'[i].kept,
         UNCHANGED <<now, limits>>, groupOf' \in [Keys -> Groups \cup {None}],
         forgotten' \in [Keys -> Nat]
  PROVE Shape'
<1>1. Ids' = I
  BY DEF Ids
<1>2. rows' \in [I -> Row]
  OBVIOUS
<1>3. TypeOK'
  BY <1>1, <1>2 DEF Shape, TypeOK, Row
<1> QED
  BY <1>1, <1>3 DEF Shape, Whole

\* The initial ledger has the shape.
LEMMA InitShape == Init => Shape
<1> SUFFICES ASSUME Init PROVE Shape
  OBVIOUS
<1>1. Ids = {}
  BY DEF Init, Ids
<1>2. Cardinality(Ids) = 0
  BY <1>1, FS_EmptySet
<1>3. \A g \in Groups : SettingsOK(limits[g])
  BY QuotaAssumption DEF Init
<1>4. now \in 0 .. MaxTime
  BY Constants DEF Init
<1>5. rows \in [Ids -> [key : Keys, group : Groups,
                        status : {"reserved", "charged", "rejected"},
                        tokens : Costs \cup Charges \cup {0}, kept : BOOLEAN]]
  BY <1>1 DEF Init
<1>6. groupOf \in [Keys -> Groups \cup {None}] /\ forgotten \in [Keys -> Nat]
  BY DEF Init
<1>7. TypeOK
  BY <1>1, <1>2, <1>3, <1>4, <1>5, <1>6, Constants DEF TypeOK
<1> QED
  BY <1>1, <1>7 DEF Shape, Init

\* A reservation adds a row at this instant.
LEMMA ReserveShape ==
  ASSUME Shape, NEW k \in Keys, NEW c \in Costs, ReserveRequest(k, c)
  PROVE Shape' /\ Ids' = Ids \cup {now} /\ now \notin Ids
<1> DEFINE I == Ids \cup {now}
<1>1. rows' = [i \in I |-> rows'[i]] /\ Ids' = I /\ now \notin Ids
  BY IdsFinite DEF ReserveRequest, Ids
<1>2. I \subseteq 0 .. now /\ IsFiniteSet(I)
  BY IdsFinite, FS_AddElement
<1>3. Cardinality(I) =< MaxRows
  <2>1. Cardinality(I) = Cardinality(Ids) + 1 /\ Cardinality(Ids) \in Nat
    BY <1>1, IdsFinite, FS_AddElement, FS_CardinalityType
  <2> QED
    BY <2>1, Constants DEF ReserveRequest
<1>4. groupOf[k] \in Groups
  BY DEF ReserveRequest, Admitted, Shape, TypeOK
<1>5. \A i \in I : rows'[i] = IF i = now
                   THEN [key |-> k, group |-> groupOf[k], status |-> "reserved", tokens |-> c,
                         kept |-> TRUE]
                   ELSE rows[i]
  BY DEF ReserveRequest
<1>6. \A i \in I : rows'[i] \in Row /\ ~Whole(i)
  BY <1>4, <1>5, IdsFinite DEF ReserveRequest, Shape, Row
<1>7. \A i \in I : rows'[i].status = "reserved" => rows'[i].tokens \in Costs /\ rows'[i].kept
  BY <1>5 DEF Shape
<1>8. /\ UNCHANGED <<now, limits>> /\ groupOf' \in [Keys -> Groups \cup {None}]
      /\ forgotten' \in [Keys -> Nat]
  BY DEF ReserveRequest, Shape, TypeOK
<1> HIDE DEF I
<1> QED
  BY <1>1, <1>2, <1>3, <1>6, <1>7, <1>8, RowsShape DEF I

\* A row that is settled is a row.
LEMMA SettledRow ==
  ASSUME NEW r \in Row, NEW status \in {"charged", "rejected"}, NEW c \in Charges \cup {0}
  PROVE [r EXCEPT !.status = status, !.tokens = c] \in Row
<1>1. status \in {"reserved", "charged", "rejected"} /\ c \in Costs \cup Charges \cup {0}
  OBVIOUS
<1> QED
  BY <1>1, Zenon DEF Row

\* So is one whose reservation is deleted, and the rest of it is as it was.
LEMMA DeletedRow ==
  ASSUME NEW r \in Row, NEW b \in BOOLEAN, NEW q, q = [r EXCEPT !.kept = b]
  PROVE /\ q \in Row /\ q.kept = b
        /\ q.key = r.key /\ q.group = r.group /\ q.status = r.status /\ q.tokens = r.tokens
<1>1. q \in Row
  BY SMT DEF Row
<1>2. q.kept = b
  BY Zenon DEF Row
<1>3. q.key = r.key /\ q.group = r.group /\ q.status = r.status /\ q.tokens = r.tokens
  BY Zenon DEF Row
<1> QED
  BY <1>1, <1>2, <1>3

\* A settlement changes one row.
LEMMA FinishShape ==
  ASSUME Shape, NEW i \in Ids, NEW status \in {"charged", "rejected"}, NEW c \in Charges \cup {0},
         FinishReservation(i, status, c)
  PROVE Shape' /\ Ids' = Ids
<1>1. Ids' = Ids /\ rows' = [j \in Ids |-> rows'[j]]
  BY DEF FinishReservation, Ids, Shape, TypeOK
<1>2. \A j \in Ids : rows'[j] = IF j = i THEN [rows[i] EXCEPT !.status = status, !.tokens = c]
                                ELSE rows[j]
  BY DEF FinishReservation, Ids, Shape, TypeOK
<1>3. \A j \in Ids : rows'[j] \in Row
  <2>1. rows[i] \in Row /\ rows'[i] = [rows[i] EXCEPT !.status = status, !.tokens = c]
    BY <1>2, IdsFinite
  <2>2. rows'[i] \in Row
    <3> DEFINE r == rows[i]
               q == rows'[i]
    <3>1. r \in Row /\ q = [r EXCEPT !.status = status, !.tokens = c]
      BY <2>1
    <3> HIDE DEF r, q
    <3>2. q \in Row
      BY <3>1, SettledRow, Zenon
    <3> QED
      BY <3>2 DEF q
  <2>3. \A j \in Ids : j # i => rows'[j] = rows[j] /\ rows[j] \in Row
    BY <1>2, IdsFinite
  <2> QED
    BY <2>2, <2>3
<1>4. rows'[i].status # "reserved"
  BY <1>2, IdsFinite DEF Row
<1>5. \A j \in Ids : rows'[j].status = "reserved" => rows'[j].tokens \in Costs /\ rows'[j].kept
  BY <1>2, <1>4 DEF Shape
<1>6. Ids \subseteq 0 .. now /\ Cardinality(Ids) =< MaxRows
  BY DEF Shape, TypeOK
<1>7. /\ UNCHANGED <<now, limits>> /\ groupOf' \in [Keys -> Groups \cup {None}]
      /\ forgotten' \in [Keys -> Nat]
  BY DEF FinishReservation, Shape, TypeOK
<1>8. \A j \in Ids : ~Whole(j)
  BY DEF Shape
<1> QED
  BY <1>1, <1>3, <1>5, <1>6, <1>7, <1>8, IdsFinite, RowsShape

\* Pruning takes rows away.
LEMMA PruneShape ==
  ASSUME Shape, Prune
  PROVE Shape' /\ Ids' \subseteq Ids /\ \A i \in Ids' : rows'[i] = rows[i] /\ ~Old(i)
<1> DEFINE I == {i \in Ids : ~Old(i)}
<1>1. Ids' = I /\ rows' = [i \in I |-> rows'[i]] /\ \A i \in I : rows'[i] = rows[i]
  BY DEF Prune, Ids
<1>2. IsFiniteSet(I) /\ Cardinality(I) =< Cardinality(Ids) /\ Cardinality(I) \in Nat
      /\ Cardinality(Ids) \in Nat
  BY IdsFinite, Part
<1>3. I \subseteq 0 .. now /\ Cardinality(I) =< MaxRows
  BY <1>2, Constants DEF Shape, TypeOK
<1>4. \A k \in Keys : Used({i \in KeyRows(k) : Old(i)}) \in Nat
  <2> SUFFICES ASSUME NEW k \in Keys PROVE Used({i \in KeyRows(k) : Old(i)}) \in Nat
    OBVIOUS
  <2>1. IsFiniteSet({i \in KeyRows(k) : Old(i)})
    BY IdsFinite, Part DEF KeyRows, Billed
  <2> QED
    BY <2>1, UsedType
<1>5. forgotten' \in [Keys -> Nat]
  <2> DEFINE u(k) == Used({i \in KeyRows(k) : Old(i)})
  <2>1. forgotten' = [k \in Keys |-> forgotten[k] + u(k)] /\ forgotten \in [Keys -> Nat]
    BY DEF Prune, Shape, TypeOK
  <2>2. \A k \in Keys : u(k) \in Nat
    BY <1>4
  <2> HIDE DEF u
  <2> QED
    BY <2>1, <2>2
<1>6. \A i \in I : /\ rows'[i] \in Row /\ ~Whole(i)
                   /\ rows'[i].status = "reserved" => rows'[i].tokens \in Costs /\ rows'[i].kept
  BY <1>1, IdsFinite DEF Shape
<1>7. UNCHANGED <<now, limits>> /\ groupOf' \in [Keys -> Groups \cup {None}]
  BY DEF Prune, Shape, TypeOK
<1>8. Shape'
  <2> HIDE DEF I
  <2> QED
    BY <1>1, <1>2, <1>3, <1>5, <1>6, <1>7, RowsShape
<1> QED
  BY <1>1, <1>8

\* A deletion leaves the rows there are and takes their reservations away.
LEMMA CascadeShape ==
  ASSUME Shape, NEW S, Cascade(S), groupOf' \in [Keys -> Groups \cup {None}]
  PROVE /\ Shape' /\ Ids' = Ids
        /\ \A i \in Ids : /\ rows'[i].key = rows[i].key /\ rows'[i].group = rows[i].group
                          /\ rows'[i].status = rows[i].status /\ rows'[i].tokens = rows[i].tokens
                          /\ rows'[i].kept => rows[i].kept
<1>1. Ids' = Ids /\ rows' = [i \in Ids |-> rows'[i]]
  BY DEF Cascade, Ids
<1>2. \A i \in Ids : rows'[i] = [rows[i] EXCEPT !.kept = @ /\ i \notin S]
  BY DEF Cascade, Ids
<1>3. \A i \in Ids : /\ rows'[i].key = rows[i].key /\ rows'[i].group = rows[i].group
                     /\ rows'[i].status = rows[i].status /\ rows'[i].tokens = rows[i].tokens
                     /\ rows'[i].kept = (rows[i].kept /\ i \notin S) /\ rows'[i] \in Row
  <2> TAKE i \in Ids
  <2> DEFINE b == rows[i].kept /\ i \notin S
  <2>1. rows[i] \in Row /\ b \in BOOLEAN /\ rows'[i] = [rows[i] EXCEPT !.kept = b]
    BY <1>2, IdsFinite
  <2>2. /\ rows'[i] \in Row /\ rows'[i].kept = b
        /\ rows'[i].key = rows[i].key /\ rows'[i].group = rows[i].group
        /\ rows'[i].status = rows[i].status /\ rows'[i].tokens = rows[i].tokens
    <3> HIDE DEF b
    <3> QED
      BY <2>1, DeletedRow
  <2> QED
    BY <2>2
<1>4. \A i \in Ids : rows'[i] \in Row
  BY <1>3
<1>5. \A i \in Ids : rows'[i].status = "reserved" => rows'[i].tokens \in Costs /\ rows'[i].kept
  <2> SUFFICES ASSUME NEW i \in Ids, rows'[i].status = "reserved"
               PROVE rows'[i].tokens \in Costs /\ rows'[i].kept
    OBVIOUS
  <2>1. rows[i].status = "reserved" /\ rows'[i].tokens = rows[i].tokens
    BY <1>3
  <2>2. i \notin S
    BY <2>1 DEF Cascade
  <2>3. rows[i].tokens \in Costs /\ rows[i].kept
    BY <2>1 DEF Shape
  <2>4. rows'[i].kept = (rows[i].kept /\ i \notin S)
    BY <1>3
  <2>5. rows'[i].kept
    BY <2>2, <2>3, <2>4, Zenon
  <2> QED
    BY <2>1, <2>3, <2>5
<1>6. Ids \subseteq 0 .. now /\ Cardinality(Ids) =< MaxRows /\ \A i \in Ids : ~Whole(i)
  BY DEF Shape, TypeOK
<1>7. forgotten' \in [Keys -> Nat]
  <2> DEFINE u(k) == Used(KeyRows(k) \cap S)
  <2>1. forgotten' = [k \in Keys |-> forgotten[k] + u(k)] /\ forgotten \in [Keys -> Nat]
    BY DEF Cascade, Shape, TypeOK
  <2>2. \A k \in Keys : u(k) \in Nat
    <3> SUFFICES ASSUME NEW k \in Keys PROVE u(k) \in Nat
      OBVIOUS
    <3>1. IsFiniteSet(KeyRows(k) \cap S)
      BY IdsFinite, Part DEF KeyRows, Billed
    <3> QED
      BY <3>1, UsedType
  <2> HIDE DEF u
  <2> QED
    BY <2>1, <2>2
<1>8. UNCHANGED <<now, limits>>
  BY DEF Cascade
<1>9. Shape'
  BY <1>1, <1>4, <1>5, <1>6, <1>7, <1>8, IdsFinite, RowsShape
<1> QED
  BY <1>1, <1>3, <1>9

\* A deletion of models, of a provider or of a key is one.
LEMMA DeletionShape ==
  ASSUME Shape, (\E S \in SUBSET {i \in Ids : rows[i].kept} : DeleteModels(S))
                \/ (\E k \in Keys : DeleteClientKey(k))
  PROVE /\ Shape' /\ Ids' = Ids
        /\ \A i \in Ids : /\ rows'[i].key = rows[i].key /\ rows'[i].group = rows[i].group
                          /\ rows'[i].status = rows[i].status /\ rows'[i].tokens = rows[i].tokens
                          /\ rows'[i].kept => rows[i].kept
<1>1. groupOf \in [Keys -> Groups \cup {None}]
  BY DEF Shape, TypeOK
<1>2. PICK S : Cascade(S) /\ groupOf' \in [Keys -> Groups \cup {None}]
  <2>1. ASSUME NEW S, DeleteModels(S) PROVE Cascade(S) /\ groupOf' \in [Keys -> Groups \cup {None}]
    BY <1>1, <2>1 DEF DeleteModels
  <2>2. ASSUME NEW k \in Keys, DeleteClientKey(k)
        PROVE /\ Cascade({i \in Ids : rows[i].key = k})
              /\ groupOf' \in [Keys -> Groups \cup {None}]
    BY <1>1, <2>2 DEF DeleteClientKey
  <2> HIDE DEF DeleteModels, DeleteClientKey
  <2> QED
    BY <2>1, <2>2
<1> QED
  BY <1>2, CascadeShape

\* An edit leaves settings of the right kind.
LEMMA EditShape ==
  ASSUME Shape, NEW g \in Groups, NEW s \in Settings, NEW clear \in BOOLEAN,
         UpdateModelGroup(g, s, clear)
  PROVE Shape'
<1> DEFINE start == limits'[g].start
<1>1. SettingsOK(s) /\ SettingsOK(limits[g])
  BY QuotaAssumption DEF Shape, TypeOK
<1>2. (now \div Second) * Second \in Nat
  <2>1. now \in Nat /\ now \div Second \in Nat
    BY IdsFinite, Constants
  <2> QED
    BY <2>1, Constants
<1>3. limits' = [x \in Groups |-> limits'[x]] /\ \A x \in Groups \ {g} : limits'[x] = limits[x]
  BY DEF UpdateModelGroup, Shape
<1>4. start = None \/ start \in Nat
  BY <1>1, <1>2 DEF UpdateModelGroup, Shape, SettingsOK
<1>5. limits'[g] = [s EXCEPT !.start = start]
  BY <1>1 DEF UpdateModelGroup, Shape, SettingsOK
<1>6. SettingsOK(limits'[g])
  <2> HIDE DEF start
  <2> QED
    BY <1>1, <1>4, <1>5 DEF SettingsOK
<1>7. \A x \in Groups : SettingsOK(limits'[x])
  BY <1>3, <1>6 DEF Shape, TypeOK
<1> QED
  BY <1>3, <1>7 DEF UpdateModelGroup, Shape, TypeOK, Ids, SettingsOK, Whole

\* Every step keeps the shape.
LEMMA NextShape == Shape /\ [Next]_vars => Shape'
<1> SUFFICES ASSUME Shape, [Next]_vars PROVE Shape'
  OBVIOUS
<1>1. ASSUME NEW k \in Keys, NEW c \in Costs, ReserveRequest(k, c) PROVE Shape'
  BY <1>1, ReserveShape
<1>2. ASSUME NEW i \in Ids, NEW c \in Charges, FinishReservation(i, "charged", c) PROVE Shape'
  BY <1>2, FinishShape
<1>3. ASSUME NEW i \in Ids, FinishReservation(i, "rejected", 0) PROVE Shape'
  BY <1>3, FinishShape
<1>4. CASE Prune
  BY <1>4, PruneShape
<1>5. ASSUME NEW g \in Groups, NEW s \in Settings, NEW clear \in BOOLEAN,
             UpdateModelGroup(g, s, clear)
      PROVE Shape'
  BY <1>5, EditShape
<1>6. ASSUME NEW k \in Keys, NEW g \in Groups \cup {None}, SetKeyGroup(k, g) PROVE Shape'
  BY <1>6 DEF SetKeyGroup, Shape, TypeOK, Ids, Whole, SettingsOK
<1>7. CASE Tick
  <2>1. now' \in 0 .. MaxTime /\ now =< now' /\ now \in Nat
    BY <1>7, IdsFinite, Constants DEF Tick
  <2>2. Ids' = Ids /\ Ids \subseteq 0 .. now'
    BY <1>7, <2>1 DEF Tick, Ids, Shape, TypeOK
  <2> QED
    BY <1>7, <2>1, <2>2 DEF Tick, Shape, TypeOK, Whole, SettingsOK
<1>8. CASE UNCHANGED vars
  BY <1>8 DEF vars, Shape, TypeOK, Ids, Whole, SettingsOK
<1>9. ASSUME \/ \E S \in SUBSET {i \in Ids : rows[i].kept} : DeleteModels(S)
             \/ \E k \in Keys : DeleteClientKey(k)
      PROVE Shape'
  BY <1>9, DeletionShape
<1> QED
  BY <1>1, <1>2, <1>3, <1>4, <1>5, <1>6, <1>7, <1>8, <1>9 DEF Next

\* What a step other than a reservation may do to the rows: take some away,
\* settle others, and take the reservations of others away.
Settles ==
    /\ Ids' \subseteq Ids
    /\ \A i \in Ids' :
          /\ rows'[i].key = rows[i].key /\ rows'[i].group = rows[i].group
          /\ rows'[i].kept => rows[i].kept
          /\ \/ rows'[i].status = rows[i].status /\ rows'[i].tokens = rows[i].tokens
             \/ rows[i].status = "reserved" /\ rows'[i].status # "reserved"

\* Every step reserves or settles.
LEMMA ReserveOrSettle ==
  ASSUME Shape, [Next]_vars
  PROVE (\E k \in Keys, c \in Costs : ReserveRequest(k, c)) \/ Settles
<1>1. ASSUME UNCHANGED rows PROVE Settles
  BY <1>1 DEF Settles, Ids
<1>2. ASSUME NEW i \in Ids, NEW c, NEW status \in {"charged", "rejected"},
             FinishReservation(i, status, c)
      PROVE Settles
  <2>1. Ids' = Ids
    BY <1>2 DEF FinishReservation, Ids
  <2>2. \A j \in Ids : rows'[j] = IF j = i THEN [rows[i] EXCEPT !.status = status, !.tokens = c]
                                  ELSE rows[j]
    BY <1>2 DEF FinishReservation, Ids, Shape, TypeOK
  <2>3. rows[i].status = "reserved" /\ rows[i] \in Row
    BY <1>2, IdsFinite DEF FinishReservation
  <2>4. /\ rows'[i].key = rows[i].key /\ rows'[i].group = rows[i].group
        /\ rows'[i].kept = rows[i].kept /\ rows'[i].status = status
    BY <2>2, <2>3 DEF Row
  <2> QED
    BY <2>1, <2>2, <2>3, <2>4 DEF Settles
<1>3. CASE Prune
  BY <1>3, PruneShape DEF Settles
<1>4. ASSUME \/ \E S \in SUBSET {i \in Ids : rows[i].kept} : DeleteModels(S)
             \/ \E k \in Keys : DeleteClientKey(k)
      PROVE Settles
  BY <1>4, DeletionShape DEF Settles
<1> QED
  BY <1>1, <1>2, <1>3, <1>4 DEF Next, UpdateModelGroup, SetKeyGroup, Tick, vars

\* A step that settles can only take from the worst.
LEMMA SettlesWorst ==
  ASSUME Shape, Settles, NEW S, S \subseteq Ids, NEW T, T \subseteq S, T \subseteq Ids'
  PROVE /\ IsFiniteSet(S) /\ Cardinality(Worst(rows, S)) \in Nat
        /\ Cardinality(Worst(rows', T)) \in Nat
        /\ Cardinality(Worst(rows', T)) =< Cardinality(Worst(rows, S))
<1>1. Worst(rows', T) \subseteq Worst(rows, S)
  BY DEF Worst, Settles
<1>2. IsFiniteSet(S)
  BY IdsFinite, Part
<1> QED
  BY <1>1, <1>2, WorstType, Part

-----------------------------------------------------------------------------
(* Requests in flight.                                                     *)

HeldBounded == \A k \in Keys : Cardinality(Held(k)) =< KeyConcurrency

\* No request is in flight at first.
LEMMA InitHeld == Init => HeldBounded
<1> SUFFICES ASSUME Init, NEW k \in Keys PROVE Cardinality(Held(k)) =< KeyConcurrency
  BY DEF HeldBounded
<1>1. Held(k) = {}
  BY DEF Init, Held, KeyRows, Billed, Ids
<1> QED
  BY <1>1, FS_EmptySet, Constants

\* A reservation is checked against the key's concurrency.
LEMMA NextHeld == Shape /\ HeldBounded /\ [Next]_vars => HeldBounded'
<1> SUFFICES ASSUME Shape, HeldBounded, [Next]_vars, NEW k \in Keys
             PROVE Cardinality(Held(k)') =< KeyConcurrency
  BY DEF HeldBounded
<1>1. IsFiniteSet(Held(k)) /\ Cardinality(Held(k)) \in Nat
  BY IdsFinite, Part DEF Held, KeyRows, Billed
<1>2. ASSUME NEW q \in Keys, NEW c \in Costs, ReserveRequest(q, c)
      PROVE Cardinality(Held(k)') =< KeyConcurrency
  <2>1. Ids' = Ids \cup {now} /\ now \notin Ids
    BY <1>2, ReserveShape
  <2>2. \A i \in Ids : rows'[i] = rows[i]
    BY <1>2, <2>1 DEF ReserveRequest
  <2>3. rows'[now].key = q
    BY <1>2, <2>1 DEF ReserveRequest
  <2>4. CASE q = k
    <3>1. Held(k)' \subseteq Held(k) \cup {now}
      BY <2>1, <2>2 DEF Held, KeyRows, Billed
    <3>2. /\ IsFiniteSet(Held(k) \cup {now})
          /\ Cardinality(Held(k) \cup {now}) =< Cardinality(Held(k)) + 1
      BY <1>1, FS_AddElement
    <3>3. Cardinality(Held(k)) < KeyConcurrency
      BY <1>2, <2>4 DEF ReserveRequest, Admitted
    <3>4. /\ Cardinality(Held(k)') =< Cardinality(Held(k) \cup {now})
          /\ Cardinality(Held(k)') \in Nat /\ Cardinality(Held(k) \cup {now}) \in Nat
      BY <3>1, <3>2, Part
    <3> QED
      BY <1>1, <3>2, <3>3, <3>4, Constants
  <2>5. CASE q # k
    <3>1. Held(k)' = Held(k)
      BY <2>1, <2>2, <2>3, <2>5 DEF Held, KeyRows, Billed
    <3> QED
      BY <3>1 DEF HeldBounded
  <2> QED
    BY <2>4, <2>5
<1>3. CASE Settles
  <2>1. Held(k)' \subseteq Held(k)
    BY <1>3 DEF Settles, Held, KeyRows, Billed
  <2>2. Cardinality(Held(k)') =< Cardinality(Held(k)) /\ Cardinality(Held(k)') \in Nat
    BY <1>1, <2>1, Part
  <2>3. Cardinality(Held(k)) =< KeyConcurrency
    BY DEF HeldBounded
  <2> QED
    BY <1>1, <2>2, <2>3, Constants
<1> QED
  BY <1>2, <1>3, ReserveOrSettle

\* A union is no larger than its parts together.
LEMMA UnionBound ==
  ASSUME NEW S, NEW T, IsFiniteSet(S), IsFiniteSet(T)
  PROVE /\ IsFiniteSet(S \cup T) /\ Cardinality(S \cup T) \in Nat
        /\ Cardinality(S) \in Nat /\ Cardinality(T) \in Nat
        /\ Cardinality(S \cup T) =< Cardinality(S) + Cardinality(T)
<1>1. IsFiniteSet(S \cup T) /\ IsFiniteSet(S \cap T)
  BY FS_Union, Part
<1>2. Cardinality(S \cup T) = Cardinality(S) + Cardinality(T) - Cardinality(S \cap T)
  BY FS_Union
<1>3. /\ Cardinality(S \cup T) \in Nat /\ Cardinality(S) \in Nat
      /\ Cardinality(T) \in Nat /\ Cardinality(S \cap T) \in Nat
  BY <1>1, FS_CardinalityType
<1> QED
  BY <1>1, <1>2, <1>3

\* When a request is admitted there is room for it among those in flight.
LEMMA RoomInFlight ==
  ASSUME Shape, HeldBounded, NEW k \in Keys, NEW c \in Costs, ReserveRequest(k, c)
  PROVE LET H == {i \in Ids : rows[i].status = "reserved"}
        IN  /\ IsFiniteSet(H) /\ Cardinality(H) \in Nat /\ InFlight \in Nat
            /\ Cardinality(H) + 1 =< InFlight
<1> DEFINE H == {i \in Ids : rows[i].status = "reserved"}
           J == {i \in Ids' : rows'[i].status = "reserved"}
           f == [i \in J |-> rows'[i].key]
<1>1. Shape' /\ Ids' = Ids \cup {now} /\ now \notin Ids
  BY ReserveShape
<1>2. HeldBounded'
  <2>1. [Next]_vars
    BY DEF Next
  <2> QED
    BY <2>1, NextHeld
<1>3. J = H \cup {now} /\ now \notin H
  BY <1>1 DEF ReserveRequest
<1>4. IsFiniteSet(H) /\ Cardinality(H) \in Nat
  BY IdsFinite, Part
<1>5. IsFiniteSet(J) /\ Cardinality(J) = Cardinality(H) + 1
  <2> HIDE DEF J, H
  <2> QED
    BY <1>3, <1>4, FS_AddElement
<1>6. f \in [J -> Keys] /\ J \subseteq Int
  <2>1. \A i \in Ids' : rows'[i].key \in Keys
    BY <1>1 DEF Shape, TypeOK
  <2>2. now \in Int /\ Ids \subseteq Int
    BY IdsFinite
  <2> QED
    BY <1>1, <2>1, <2>2
<1>7. \A q \in Keys : {i \in J : f[i] = q} = Held(q)'
  BY <1>1 DEF Held, KeyRows, Billed, Shape
<1>8. \A q \in Keys : Cardinality({i \in J : f[i] = q}) =< KeyConcurrency
  BY <1>2, <1>7 DEF HeldBounded
<1> HIDE DEF f, J, H
<1>9. InFlight \in Nat /\ Cardinality(J) =< InFlight
  BY <1>5, <1>6, <1>8, FewInFlight
<1> QED
  BY <1>4, <1>5, <1>9 DEF H

\* After a request is admitted, the rows of any window will never use more
\* than what they used before it and the overdraft.
LEMMA Admission ==
  ASSUME Shape, HeldBounded, NEW k \in Keys, NEW c \in Costs, ReserveRequest(k, c),
         NEW W, W \subseteq Ids
  PROVE /\ Used(W) \in Nat /\ Overdraft \in Nat /\ MaxCharge - 1 =< Overdraft
        /\ Cardinality(Worst(rows', W \cup {now})) \in Nat
        /\ Cardinality(Worst(rows', W \cup {now})) =< Used(W) + 1 + Overdraft
<1> DEFINE H == {i \in Ids : rows[i].status = "reserved"}
           d == MaxCharge - MinCost
           Rest == H \X (MinCost + 1 .. MaxCharge)
           Own == {now} \X (1 .. MaxCharge)
           A == Tokens(W)
           B == A \cup Rest
           C == B \cup Own
<1>1. IsFiniteSet(H) /\ Cardinality(H) \in Nat /\ InFlight \in Nat /\ Cardinality(H) + 1 =< InFlight
  BY RoomInFlight
<1>2. d \in Nat /\ MaxCharge \in Nat /\ MinCost \in Nat /\ 1 =< MaxCharge
  BY CostFacts
<1>3. IsFiniteSet(A) /\ Used(W) = Cardinality(A) /\ Used(W) \in Nat
  BY IdsFinite, Part, UsedType DEF Used
<1>4. IsFiniteSet(Rest) /\ Cardinality(Rest) = Cardinality(H) * d
  <2>1. IsFiniteSet(MinCost + 1 .. MaxCharge) /\ Cardinality(MinCost + 1 .. MaxCharge) = d
    <3>1. MinCost + 1 \in Int /\ MaxCharge \in Int
      BY <1>2
    <3>2. /\ IsFiniteSet(MinCost + 1 .. MaxCharge)
          /\ Cardinality(MinCost + 1 .. MaxCharge) =
               IF MinCost + 1 > MaxCharge THEN 0 ELSE MaxCharge - (MinCost + 1) + 1
      BY <3>1, FS_Interval
    <3> QED
      BY <1>2, <3>2, CostFacts
  <2> QED
    BY <1>1, <2>1, FS_Product
<1>5. IsFiniteSet(Own) /\ Cardinality(Own) = MaxCharge
  <2>1. IsFiniteSet(1 .. MaxCharge) /\ Cardinality(1 .. MaxCharge) = MaxCharge
    BY <1>2, FS_Interval
  <2>2. IsFiniteSet({now}) /\ Cardinality({now}) = 1
    BY FS_Singleton
  <2>3. IsFiniteSet(Own) /\ Cardinality(Own) = 1 * MaxCharge
    BY <2>1, <2>2, FS_Product
  <2> QED
    BY <1>2, <2>3
<1>6. Worst(rows', W \cup {now}) \subseteq C
  <2> SUFFICES ASSUME NEW x \in Worst(rows', W \cup {now}), x[1] # now PROVE x \in B
    BY DEF Worst
  <2>1. x \in W \X (1 .. MaxCharge) /\ rows'[x[1]] = rows[x[1]] /\ x[1] \in Ids
    BY DEF Worst, ReserveRequest
  <2>2. rows[x[1]].tokens \in Nat
    BY <2>1, IdsFinite, Constants DEF Row
  <2>3. CASE x[2] =< rows[x[1]].tokens
    BY <2>1, <2>3 DEF Tokens
  <2>4. CASE ~(x[2] =< rows[x[1]].tokens)
    <3>1. rows[x[1]].status = "reserved"
      BY <2>1, <2>4 DEF Worst
    <3>2. MinCost =< rows[x[1]].tokens
      BY <2>1, <3>1, CostFacts DEF Shape
    <3>3. x[2] \in MinCost + 1 .. MaxCharge
      BY <1>2, <2>1, <2>2, <2>4, <3>2
    <3> QED
      BY <2>1, <3>1, <3>3
  <2> QED
    BY <2>3, <2>4
<1> HIDE DEF H, d, Rest, Own, A
<1>7. /\ IsFiniteSet(B) /\ Cardinality(B) \in Nat
      /\ Cardinality(B) =< Cardinality(A) + Cardinality(Rest)
  BY <1>3, <1>4, UnionBound
<1> HIDE DEF B
<1>8. /\ IsFiniteSet(C) /\ Cardinality(C) \in Nat
      /\ Cardinality(C) =< Cardinality(B) + Cardinality(Own)
  BY <1>5, <1>7, UnionBound
<1> HIDE DEF C
<1>9. /\ Cardinality(Worst(rows', W \cup {now})) \in Nat
      /\ Cardinality(Worst(rows', W \cup {now})) =< Cardinality(C)
  BY <1>6, <1>8, Part
<1>10. d * Cardinality(H) =< d * (InFlight - 1)
  BY <1>1, <1>2, ProductOrder
<1>11. /\ Overdraft = MaxCharge - 1 + (InFlight - 1) * d
       /\ (InFlight - 1) * d = d * (InFlight - 1) /\ Cardinality(H) * d = d * Cardinality(H)
       /\ d * (InFlight - 1) \in Nat /\ d * Cardinality(H) \in Nat
  <2>1. InFlight - 1 \in Nat
    BY <1>1
  <2> QED
    BY <1>1, <1>2, <2>1 DEF Overdraft, d, MinCost
<1> QED
  BY <1>2, <1>3, <1>4, <1>5, <1>7, <1>8, <1>9, <1>10, <1>11

\* What one request and the others in flight may add is a number.
LEMMA OverdraftType == Overdraft \in Nat
<1> DEFINE d == MaxCharge - MinCost
           n == Cardinality(Keys) * KeyConcurrency
<1>1. n \in Nat /\ n = InFlight
  <2>1. Cardinality(Keys) \in Nat
    BY Constants, FS_CardinalityType
  <2> QED
    BY <2>1, Constants DEF InFlight
<1>2. d \in Nat /\ MaxCharge \in Nat /\ MinCost \in Nat /\ 1 =< MinCost
  BY CostFacts
<1>3. Overdraft = MaxCharge - 1 + (n - 1) * d
  BY <1>1 DEF Overdraft, MinCost
<1> HIDE DEF n
<1>4. (n - 1) * d = d * (n - 1) /\ d * (n - 1) \in Int /\ d * (-1) = - d
  BY <1>1, <1>2
<1>5. d * (-1) =< d * (n - 1)
  <2>1. -1 =< n - 1 /\ n - 1 \in Int /\ -1 \in Int
    BY <1>1
  <2> HIDE DEF d
  <2> QED
    BY <1>2, <2>1, ProductOrder
<1> QED
  BY <1>2, <1>3, <1>4, <1>5

-----------------------------------------------------------------------------
(* The rate.                                                               *)

\* The minute before a row is empty at first.
LEMMA InitRate == Init => RateBounded
  BY DEF Init, RateBounded, Ids

\* A reservation is checked against the rate of the minute before it, and
\* comes after all rows of other minutes.
LEMMA NextRate == Shape /\ RateBounded /\ [Next]_vars => RateBounded'
<1> DEFINE M(i) == {j \in Ids : j =< i /\ j >= i - Minute}
<1> SUFFICES ASSUME Shape, RateBounded, [Next]_vars, NEW i \in Ids'
             PROVE Cardinality(M(i)') =< RPMLimit
  BY DEF RateBounded
<1>1. \A j \in Ids : IsFiniteSet(M(j)) /\ Cardinality(M(j)) \in Nat /\ Cardinality(M(j)) =< RPMLimit
  BY IdsFinite, Part DEF RateBounded
<1>2. ASSUME NEW k \in Keys, NEW c \in Costs, ReserveRequest(k, c)
      PROVE Cardinality(M(i)') =< RPMLimit
  <2>1. Ids' = Ids \cup {now} /\ now \notin Ids /\ Ids \subseteq Nat /\ now \in Nat
        /\ \A j \in Ids : j < now
    BY <1>2, ReserveShape, IdsFinite DEF ReserveRequest
  <2>2. CASE i \in Ids
    <3>1. M(i)' = M(i)
      BY <2>1, <2>2
    <3> QED
      BY <1>1, <2>2, <3>1
  <2>3. CASE i = now
    <3> DEFINE L == {j \in Ids : j >= now - Minute}
    <3>1. M(i)' = L \cup {now}
      <4>1. M(i)' = {j \in Ids' : j =< i /\ j >= i - Minute}
        OBVIOUS
      <4>2. \A j \in Ids : j =< now /\ j # now
        BY <2>1
      <4>3. now =< now /\ now >= now - Minute
        BY <2>1, Constants
      <4> QED
        BY <2>1, <2>3, <4>1, <4>2, <4>3
    <3>2. IsFiniteSet(L) /\ Cardinality(L) \in Nat
      BY IdsFinite, Part
    <3>3. Cardinality(L) < RPMLimit
      BY <1>2, <3>2, Constants DEF ReserveRequest, Admitted, RateFull
    <3> HIDE DEF L, M
    <3>4. Cardinality(L \cup {now}) =< Cardinality(L) + 1 /\ Cardinality(L \cup {now}) \in Nat
      <4>1. /\ IsFiniteSet(L \cup {now})
            /\ Cardinality(L \cup {now}) =
                 IF now \in L THEN Cardinality(L) ELSE Cardinality(L) + 1
        BY <3>2, FS_AddElement
      <4> QED
        BY <3>2, <4>1
    <3> QED
      BY <3>1, <3>2, <3>3, <3>4, Constants
  <2> QED
    BY <2>1, <2>2, <2>3
<1>3. CASE Settles
  <2>1. M(i)' \subseteq M(i) /\ i \in Ids
    BY <1>3 DEF Settles
  <2>2. IsFiniteSet(M(i)) /\ Cardinality(M(i)) \in Nat /\ Cardinality(M(i)) =< RPMLimit
    BY <1>1, <2>1
  <2> HIDE DEF M
  <2>3. Cardinality(M(i)') =< Cardinality(M(i)) /\ Cardinality(M(i)') \in Nat
    BY <2>1, <2>2, Part
  <2> QED
    BY <2>2, <2>3, Constants
<1> QED
  BY <1>2, <1>3, ReserveOrSettle

-----------------------------------------------------------------------------
(* Windows of a group whose limits are not edited.                         *)

FiveHourWindow(g, i) == {j \in Counted(g) : j =< i /\ j >= i - FiveHours}
DayWindow(g, i) == {j \in Counted(g) : j \div Day = i \div Day}

\* Bounded, with every reservation at its worst.
WorstBounded(S, limit) == limit > 0 => Cardinality(Worst(rows, S)) =< limit + Overdraft

FiveHourHeld == \A g \in Groups : \A i \in Counted(g) : WorstBounded(FiveHourWindow(g, i), limits[g].fiveHour)
DayHeld == \A g \in Groups : \A i \in Counted(g) : WorstBounded(DayWindow(g, i), limits[g].daily)

\* The worst is bounded, so what is used is.
LEMMA WorstThenUsed ==
  ASSUME Shape, NEW S, S \subseteq Ids, NEW limit \in Nat, WorstBounded(S, limit)
  PROVE Bounded(S, limit)
<1>1. IsFiniteSet(S)
  BY IdsFinite, Part
<1>2. Used(S) \in Nat /\ Used(S) =< Cardinality(Worst(rows, S)) /\ Cardinality(Worst(rows, S)) \in Nat
  BY <1>1, UsedType, UsedIsLess, WorstType
<1> QED
  BY <1>2, OverdraftType DEF WorstBounded, Bounded

\* A limit that is raised or lifted.
Raised(limit, next) == next = 0 \/ (limit > 0 /\ next >= limit)

\* What an edit must not do to a group if what was used before is to stay
\* within its limits: lower a limit, impose one, or move the custom period.
NoLimitLowered ==
    \A g \in Groups :
        /\ Raised(limits[g].fiveHour, limits'[g].fiveHour)
        /\ Raised(limits[g].daily, limits'[g].daily)
        /\ Raised(limits[g].weekly, limits'[g].weekly)
        /\ Raised(limits[g].period, limits'[g].period)
        /\ HasPeriod(limits'[g]) <=> HasPeriod(limits[g])
        /\ HasPeriod(limits[g]) => /\ limits'[g].start = limits[g].start
                                   /\ limits'[g].days = limits[g].days

\* A step without an edit lowers nothing.
LEMMA Unedited ==
  ASSUME Shape, [NoLimitLowered]_vars
  PROVE NoLimitLowered
<1>1. \A g \in Groups : /\ limits[g].fiveHour \in Nat /\ limits[g].daily \in Nat
                        /\ limits[g].weekly \in Nat /\ limits[g].period \in Nat
  BY DEF Shape, TypeOK, SettingsOK
<1> QED
  BY <1>1 DEF NoLimitLowered, Raised, vars

\* A step that settles leaves a bound in place, also under a raised limit.
LEMMA SettlesBound ==
  ASSUME Shape, Settles, NEW S, S \subseteq Ids, NEW T, T \subseteq S, T \subseteq Ids',
         NEW limit \in Nat, WorstBounded(S, limit), NEW next \in Nat, Raised(limit, next)
  PROVE next > 0 => Cardinality(Worst(rows', T)) =< next + Overdraft
  BY SettlesWorst, OverdraftType DEF WorstBounded, Raised

\* A request that was admitted while some of the limit was left leaves a bound.
LEMMA AdmissionBound ==
  ASSUME Shape, HeldBounded, NEW k \in Keys, NEW c \in Costs, ReserveRequest(k, c),
         NEW W, W \subseteq Ids, NEW limit \in Nat, ~overdrawn(Used(W), limit)
  PROVE limit > 0 => Cardinality(Worst(rows', W \cup {now})) =< limit + Overdraft
<1>1. /\ Used(W) \in Nat /\ Overdraft \in Nat
      /\ Cardinality(Worst(rows', W \cup {now})) \in Nat
      /\ Cardinality(Worst(rows', W \cup {now})) =< Used(W) + 1 + Overdraft
  BY Admission
<1> QED
  BY <1>1 DEF overdrawn

\* A request leaves the rows there were as they were.
LEMMA ReserveRows ==
  ASSUME Shape, NEW k \in Keys, NEW c \in Costs, ReserveRequest(k, c)
  PROVE /\ Ids' = Ids \cup {now} /\ now \notin Ids /\ Ids \subseteq Nat /\ now \in Nat
        /\ \A j \in Ids : j < now
        /\ groupOf[k] \in Groups /\ UNCHANGED <<now, limits>>
        /\ \A g \in Groups : Counted(g)' = IF g = groupOf[k] THEN Counted(g) \cup {now} ELSE Counted(g)
        /\ \A g \in Groups : Counted(g) \subseteq Ids
        /\ \A S : S \subseteq Ids => Worst(rows', S) = Worst(rows, S)
<1>1. Ids' = Ids \cup {now} /\ now \notin Ids /\ Ids \subseteq Nat /\ now \in Nat
      /\ (\A j \in Ids : j < now) /\ UNCHANGED <<now, limits>>
  BY ReserveShape, IdsFinite DEF ReserveRequest
<1>2. \A i \in Ids : rows'[i] = rows[i]
  BY <1>1 DEF ReserveRequest
<1>3. rows'[now].group = groupOf[k] /\ rows'[now].status = "reserved" /\ rows'[now].kept
  BY DEF ReserveRequest
<1>4. groupOf[k] \in Groups
  BY DEF ReserveRequest, Admitted, Shape, TypeOK
<1>5. \A g \in Groups : Counted(g)' = IF g = groupOf[k] THEN Counted(g) \cup {now} ELSE Counted(g)
  BY <1>1, <1>2, <1>3 DEF Counted, Billed
<1>6. \A S : S \subseteq Ids => Worst(rows', S) = Worst(rows, S)
  BY <1>2 DEF Worst
<1> QED
  BY <1>1, <1>4, <1>5, <1>6 DEF Counted, Billed

\* No window is used at first.
LEMMA InitWindows == Init => FiveHourHeld /\ DayHeld
  BY DEF Init, FiveHourHeld, DayHeld, Counted, Billed, Ids

\* A request is checked against the five hours before it and against its day.
LEMMA NextWindows ==
  ASSUME NoLimitLowered, Shape, HeldBounded, FiveHourHeld, DayHeld, [Next]_vars
  PROVE FiveHourHeld' /\ DayHeld'
<1>1. ASSUME NEW k \in Keys, NEW c \in Costs, ReserveRequest(k, c)
      PROVE FiveHourHeld' /\ DayHeld'
  <2>1. /\ Ids' = Ids \cup {now} /\ now \notin Ids /\ Ids \subseteq Nat /\ now \in Nat
        /\ \A j \in Ids : j < now
        /\ groupOf[k] \in Groups /\ UNCHANGED <<now, limits>>
        /\ \A g \in Groups : Counted(g)' = IF g = groupOf[k] THEN Counted(g) \cup {now} ELSE Counted(g)
        /\ \A g \in Groups : Counted(g) \subseteq Ids
        /\ \A S : S \subseteq Ids => Worst(rows', S) = Worst(rows, S)
    BY <1>1, ReserveRows
  <2>2. GroupChecks(groupOf[k]) /\ ~Whole(now)
    BY <1>1 DEF ReserveRequest, Admitted
  <2>3. \A g \in Groups : limits[g].fiveHour \in Nat /\ limits[g].daily \in Nat
    BY DEF Shape, TypeOK, SettingsOK
  <2>4. ASSUME NEW g \in Groups, NEW i \in Counted(g)'
        PROVE WorstBounded(FiveHourWindow(g, i), limits[g].fiveHour)'
    <3>1. CASE i \in Counted(g)
      <4>1. FiveHourWindow(g, i)' = FiveHourWindow(g, i) /\ FiveHourWindow(g, i) \subseteq Ids
        <5>1. i \in Ids /\ i \in Nat
          BY <2>1, <3>1
        <5>2. ~(now =< i)
          BY <2>1, <5>1
        <5> QED
          BY <2>1, <5>2 DEF FiveHourWindow
      <4> QED
        BY <2>1, <3>1, <4>1 DEF WorstBounded, FiveHourHeld
    <3>2. CASE i \notin Counted(g)
      <4>1. i = now /\ g = groupOf[k]
        BY <2>1, <3>2
      <4>2. FiveHourWindow(g, i)' = fiveHourRows(g) \cup {now} /\ fiveHourRows(g) \subseteq Ids
        <5>1. \A j \in Ids : j =< now /\ j # now
          BY <2>1
        <5>2. now =< now /\ now >= now - FiveHours
          BY <2>1, Constants
        <5> QED
          BY <2>1, <4>1, <5>1, <5>2 DEF FiveHourWindow, fiveHourRows
      <4>3. ~overdrawn(Used(fiveHourRows(g)), limits[g].fiveHour)
        BY <2>2, <4>1 DEF GroupChecks
      <4> QED
        BY <1>1, <2>1, <2>3, <4>2, <4>3, AdmissionBound DEF WorstBounded
    <3> QED
      BY <3>1, <3>2
  <2>5. ASSUME NEW g \in Groups, NEW i \in Counted(g)'
        PROVE WorstBounded(DayWindow(g, i), limits[g].daily)'
    <3>1. CASE g = groupOf[k] /\ i \div Day = now \div Day
      <4>1. DayWindow(g, i)' = dailyRows(g) \cup {now} /\ dailyRows(g) \subseteq Ids
        <5>1. \A j \in Counted(g) : TextLeq(j, now)
          BY <2>1, <2>2, TextIsTime DEF Shape
        <5> QED
          BY <2>1, <3>1, <5>1 DEF DayWindow, dailyRows
      <4>2. ~overdrawn(Used(dailyRows(g)), limits[g].daily)
        BY <2>2, <3>1 DEF GroupChecks
      <4> QED
        BY <1>1, <2>1, <2>3, <4>1, <4>2, AdmissionBound DEF WorstBounded
    <3>2. CASE ~(g = groupOf[k] /\ i \div Day = now \div Day)
      <4>1. i \in Counted(g)
        BY <2>1, <3>2
      <4>2. DayWindow(g, i)' = DayWindow(g, i) /\ DayWindow(g, i) \subseteq Ids
        BY <2>1, <3>2 DEF DayWindow
      <4> QED
        BY <2>1, <4>1, <4>2 DEF WorstBounded, DayHeld
    <3> QED
      BY <3>1, <3>2
  <2> QED
    BY <2>4, <2>5 DEF FiveHourHeld, DayHeld
<1>2. CASE Settles
  <2>1. \A g \in Groups : /\ limits'[g].fiveHour \in Nat /\ limits'[g].daily \in Nat
                          /\ Raised(limits[g].fiveHour, limits'[g].fiveHour)
                          /\ Raised(limits[g].daily, limits'[g].daily)
    BY NextShape DEF Shape, TypeOK, SettingsOK, NoLimitLowered
  <2>2. \A g \in Groups : Counted(g)' \subseteq Counted(g) /\ Counted(g) \subseteq Ids
                          /\ Counted(g)' \subseteq Ids'
    BY <1>2 DEF Settles, Counted, Billed
  <2>3. \A g \in Groups : limits[g].fiveHour \in Nat /\ limits[g].daily \in Nat
    BY DEF Shape, TypeOK, SettingsOK
  <2>4. ASSUME NEW g \in Groups, NEW i \in Counted(g)'
        PROVE WorstBounded(FiveHourWindow(g, i), limits[g].fiveHour)'
    <3>1. FiveHourWindow(g, i)' \subseteq FiveHourWindow(g, i) /\ FiveHourWindow(g, i) \subseteq Ids
          /\ FiveHourWindow(g, i)' \subseteq Ids'
      BY <2>2 DEF FiveHourWindow
    <3>2. WorstBounded(FiveHourWindow(g, i), limits[g].fiveHour)
      BY <2>2 DEF FiveHourHeld
    <3> QED
      BY <1>2, <2>1, <2>3, <3>1, <3>2, SettlesBound DEF WorstBounded
  <2>5. ASSUME NEW g \in Groups, NEW i \in Counted(g)'
        PROVE WorstBounded(DayWindow(g, i), limits[g].daily)'
    <3>1. DayWindow(g, i)' \subseteq DayWindow(g, i) /\ DayWindow(g, i) \subseteq Ids
          /\ DayWindow(g, i)' \subseteq Ids'
      BY <2>2 DEF DayWindow
    <3>2. WorstBounded(DayWindow(g, i), limits[g].daily)
      BY <2>2 DEF DayHeld
    <3> QED
      BY <1>2, <2>1, <2>3, <3>1, <3>2, SettlesBound DEF WorstBounded
  <2> QED
    BY <2>4, <2>5 DEF FiveHourHeld, DayHeld
<1> QED
  BY <1>1, <1>2, ReserveOrSettle

-----------------------------------------------------------------------------
(* The total of a key.                                                     *)

KeyHeld == \A k \in Keys : WorstBounded(KeyRows(k), KeyQuota)

\* No key has used anything at first.
LEMMA InitKey == Init => KeyHeld
<1> SUFFICES ASSUME Init, NEW k \in Keys PROVE WorstBounded(KeyRows(k), KeyQuota)
  BY DEF KeyHeld
<1>1. Worst(rows, KeyRows(k)) = {}
  BY DEF Init, KeyRows, Billed, Ids, Worst
<1>2. Cardinality(Worst(rows, KeyRows(k))) = 0
  BY <1>1, FS_EmptySet
<1> QED
  BY <1>2, OverdraftType, Constants DEF Init, WorstBounded

\* A request is checked against the total of its key, whatever its group.
LEMMA NextKey ==
  ASSUME Shape, HeldBounded, KeyHeld, [Next]_vars
  PROVE KeyHeld'
<1> SUFFICES ASSUME NEW k \in Keys PROVE WorstBounded(KeyRows(k), KeyQuota)'
  BY DEF KeyHeld
<1>3. KeyRows(k) \subseteq Ids /\ WorstBounded(KeyRows(k), KeyQuota) /\ KeyQuota \in Nat
  BY Constants DEF KeyRows, Billed, KeyHeld
<1>4. ASSUME NEW q \in Keys, NEW c \in Costs, ReserveRequest(q, c)
      PROVE WorstBounded(KeyRows(k), KeyQuota)'
  <2>1. /\ Ids' = Ids \cup {now} /\ now \notin Ids
        /\ \A S : S \subseteq Ids => Worst(rows', S) = Worst(rows, S)
    BY <1>4, ReserveRows
  <2>2. /\ \A i \in Ids : rows'[i] = rows[i]
        /\ rows'[now].key = q /\ rows'[now].status = "reserved" /\ rows'[now].kept
    BY <1>4, <2>1 DEF ReserveRequest
  <2>3. CASE q = k
    <3>1. KeyRows(k)' = KeyRows(k) \cup {now}
      BY <2>1, <2>2, <2>3 DEF KeyRows, Billed
    <3>2. ~overdrawn(Used(KeyRows(k)), KeyQuota)
      BY <1>4, <2>3 DEF ReserveRequest, Admitted
    <3> QED
      BY <1>3, <1>4, <3>1, <3>2, AdmissionBound DEF WorstBounded
  <2>4. CASE q # k
    <3>1. KeyRows(k)' = KeyRows(k)
      BY <2>1, <2>2, <2>4 DEF KeyRows, Billed
    <3> QED
      BY <1>3, <2>1, <3>1 DEF WorstBounded
  <2> QED
    BY <2>3, <2>4
<1>5. CASE Settles
  <2>1. KeyRows(k)' \subseteq KeyRows(k) /\ KeyRows(k)' \subseteq Ids'
    BY <1>5 DEF Settles, KeyRows, Billed
  <2> QED
    BY <1>3, <1>5, <2>1, SettlesBound DEF WorstBounded, Raised
<1> QED
  BY <1>4, <1>5, ReserveOrSettle

-----------------------------------------------------------------------------
(* A custom period and the week that follows it.                           *)

\* A set of natural numbers has a least element.
LEMMA LeastNat ==
  ASSUME NEW T, T \subseteq Nat, T # {}
  PROVE \E m \in T : \A n \in T : m =< n
<1>1. \E m \in T : \A n \in T : ~(<<n, m>> \in OpToRel(<, Nat))
  BY NatLessThanWellFounded, WFMin
<1>2. \A n, m \in T : <<n, m>> \in OpToRel(<, Nat) <=> n < m
  BY DEF OpToRel
<1>3. PICK m \in T : \A n \in T : ~(<<n, m>> \in OpToRel(<, Nat))
  BY <1>1
<1>4. \A n \in T : ~(n < m) /\ n \in Nat /\ m \in Nat
  BY <1>2, <1>3
<1>5. \A n \in T : m =< n
  BY <1>4
<1> QED
  BY <1>5

\* A bounded one has a greatest.
LEMMA GreatestNat ==
  ASSUME NEW T, T \subseteq Nat, T # {}, NEW b \in Nat, \A n \in T : n =< b
  PROVE \E m \in T : \A n \in T : n =< m
<1> DEFINE U == {b - n : n \in T}
<1>1. U \subseteq Nat /\ U # {}
  <2>1. \A n \in T : n \in Nat /\ n =< b /\ b - n \in Nat
    OBVIOUS
  <2>2. U # {}
    OBVIOUS
  <2> QED
    BY <2>1, <2>2
<1>2. PICK u \in U : \A v \in U : u =< v
  <2> HIDE DEF U
  <2> QED
    BY <1>1, LeastNat
<1>3. PICK m \in T : u = b - m
  OBVIOUS
<1>4. \A n \in T : b - m =< b - n
  BY <1>2, <1>3
<1> QED
  BY <1>3, <1>4

\* The rows of a custom period.
PeriodWindow(g) ==
    {i \in Counted(g) : limits[g].start =< i /\ i < PeriodEnd(limits[g])}

PeriodHeld ==
    \A g \in Groups :
        HasPeriod(limits[g]) /\ limits[g].weekly > 0 =>
            Cardinality(Worst(rows, PeriodWindow(g)))
                =< limits[g].period + limits[g].weekly + 2 * Overdraft

\* Rows do not lie in the future.
LEMMA PeriodAgrees ==
  ASSUME Shape, NEW g \in Groups, HasPeriod(limits[g])
  PROVE PeriodWindow(g) = periodRows(g) /\ periodRows(g) \subseteq Ids
<1>1. limits[g].start \in Nat
  BY DEF Shape, TypeOK, SettingsOK, HasPeriod
<1> QED
  BY <1>1, IdsFinite DEF PeriodWindow, periodRows, Counted, Billed

\* The row that used a period up is one of the period's.
LEMMA HandOverRow ==
  ASSUME Shape, NEW g \in Groups, NEW h \in Transition(g)
  PROVE h \in periodRows(g)
<1> DEFINE spent == {i \in periodRows(g) :
                        Used({j \in periodRows(g) : j =< i}) >= limits[g].period}
<1>1. spent # {} /\ h = Min(spent)
  BY DEF Transition
<1>2. spent \subseteq Nat
  BY IdsFinite DEF periodRows, Counted, Billed
<1>3. \E m \in spent : \A n \in spent : m =< n
  BY <1>1, <1>2, LeastNat
<1>4. h \in spent
  <2> HIDE DEF spent
  <2> QED
    BY <1>1, <1>3 DEF Min
<1> QED
  BY <1>4

\* Once the period is used up, what was used in it is one row more than the
\* limit at most, and what the week counts since.
LEMMA HandOver ==
  ASSUME Shape, ~Whole(now), NEW g \in Groups, HasPeriod(limits[g]), Transition(g) # {}
  PROVE /\ Used(weeklyRows(g)) \in Nat /\ Used(periodRows(g)) \in Nat
        /\ Used(periodRows(g)) =< limits[g].period - 1 + MaxCharge + Used(weeklyRows(g))
<1> DEFINE P == periodRows(g)
           W == weeklyRows(g)
           L == limits[g].period
           spent == {i \in P : Used({j \in P : j =< i}) >= L}
           h == Min(spent)
           A == {j \in P : j < h}
           Own == {h} \X (1 .. MaxCharge)
           B == Tokens(A) \cup Own
           C == B \cup Tokens(W)
<1>1. spent # {} /\ Transition(g) = {h}
  BY DEF Transition
<1>2. P \subseteq Ids /\ W \subseteq Ids /\ P \subseteq Nat /\ L \in Nat /\ L > 0
  BY IdsFinite DEF periodRows, weeklyRows, Counted, Billed, Shape, TypeOK, SettingsOK, HasPeriod
<1>3. h \in spent /\ \A i \in spent : h =< i
  <2>1. \E m \in spent : \A n \in spent : m =< n
    BY <1>1, <1>2, LeastNat
  <2> HIDE DEF spent
  <2> QED
    BY <2>1 DEF Min
<1>4. h \in P /\ h \in Nat /\ A \subseteq P
  BY <1>2, <1>3
<1>5. /\ IsFiniteSet(P) /\ IsFiniteSet(W) /\ IsFiniteSet(A)
      /\ Used(P) \in Nat /\ Used(W) \in Nat /\ Used(A) \in Nat
      /\ IsFiniteSet(Tokens(A)) /\ IsFiniteSet(Tokens(W))
  <2>1. IsFiniteSet(P) /\ IsFiniteSet(W) /\ IsFiniteSet(A)
    BY <1>2, <1>4, IdsFinite, Part
  <2> QED
    BY <2>1, UsedType
<1> HIDE DEF P, W
<1>6. Used(A) < L
  <2>1. CASE A = {}
    <3>1. Tokens(A) = {}
      BY <2>1 DEF Tokens
    <3> QED
      BY <1>2, <3>1, FS_EmptySet DEF Used
  <2>2. CASE A # {}
    <3>1. PICK m \in A : \A n \in A : n =< m
      <4>0. \A n \in A : n \in P /\ n < h
        OBVIOUS
      <4>1. A \subseteq Nat /\ \A n \in A : n =< h
        <5> HIDE DEF A, h
        <5> QED
          BY <1>2, <1>4, <4>0
      <4> HIDE DEF A, h
      <4> QED
        BY <1>4, <2>2, <4>1, GreatestNat
    <3>2. m \in P /\ m \in Nat /\ m < h
      BY <1>2, <1>4
    <3>3. A = {j \in P : j =< m}
      <4>1. \A j \in P : j < h => j =< m
        BY <3>1
      <4>2. \A j \in P : j =< m => j < h
        <5> HIDE DEF A, h
        <5> QED
          BY <1>2, <1>4, <3>2
      <4>3. \A j : j \in A <=> j \in P /\ j < h
        OBVIOUS
      <4> HIDE DEF A, h
      <4> QED
        BY <4>1, <4>2, <4>3
    <3>4. m \notin spent
      <4> HIDE DEF spent, h
      <4> QED
        BY <1>3, <1>4, <3>2
    <3>5. ~(Used({j \in P : j =< m}) >= L)
      BY <3>2, <3>4
    <3>6. ~(Used(A) >= L)
      <4> HIDE DEF A, spent, h
      <4> QED
        BY <3>3, <3>5
    <3> HIDE DEF A
    <3> QED
      BY <1>2, <1>5, <3>6
  <2> QED
    BY <2>1, <2>2
<1>7. \A j \in P : j > h => j \in W
  <2>1. \A j \in P : j \in Counted(g) /\ j \in Ids
    BY DEF P, periodRows, Counted, Billed
  <2>2. \A j \in P : TextLeq(j, now) /\ (j > h => TextLess(h, j))
    BY <1>2, <1>4, IdsFinite, TextIsTime DEF Shape
  <2> HIDE DEF h
  <2> QED
    BY <1>1, <2>1, <2>2 DEF W, weeklyRows
<1> HIDE DEF spent, h
<1>8. Tokens(P) \subseteq C
  <2> SUFFICES ASSUME NEW x \in Tokens(P) PROVE x \in C
    OBVIOUS
  <2>1. x \in P \X (1 .. MaxCharge) /\ x[2] =< rows[x[1]].tokens /\ x[1] \in P /\ x[1] \in Nat
    BY <1>2 DEF Tokens
  <2>2. x[1] < h \/ x[1] = h \/ x[1] > h
    BY <1>4, <2>1
  <2>3. CASE x[1] < h
    BY <2>1, <2>3 DEF Tokens
  <2>4. CASE x[1] = h
    BY <2>1, <2>4
  <2>5. CASE x[1] > h
    BY <1>7, <2>1, <2>5 DEF Tokens
  <2> QED
    BY <2>2, <2>3, <2>4, <2>5
<1>9. IsFiniteSet(Own) /\ Cardinality(Own) = MaxCharge
  <2>1. IsFiniteSet(1 .. MaxCharge) /\ Cardinality(1 .. MaxCharge) = MaxCharge
    BY CostFacts, FS_Interval
  <2>2. IsFiniteSet({h}) /\ Cardinality({h}) = 1
    BY FS_Singleton
  <2>3. IsFiniteSet(Own) /\ Cardinality(Own) = 1 * MaxCharge
    BY <2>1, <2>2, FS_Product
  <2> QED
    BY <2>3, CostFacts
<1> HIDE DEF A, Own
<1>10. /\ IsFiniteSet(B) /\ Cardinality(B) \in Nat
       /\ Cardinality(B) =< Cardinality(Tokens(A)) + Cardinality(Own)
  BY <1>5, <1>9, UnionBound
<1> HIDE DEF B
<1>11. /\ IsFiniteSet(C) /\ Cardinality(C) \in Nat
       /\ Cardinality(C) =< Cardinality(B) + Cardinality(Tokens(W))
  BY <1>5, <1>10, UnionBound
<1> HIDE DEF C
<1>12. Cardinality(Tokens(P)) =< Cardinality(C)
  BY <1>8, <1>11, Part
<1>13. Used(P) =< L - 1 + MaxCharge + Used(W)
  BY <1>2, <1>5, <1>6, <1>9, <1>10, <1>11, <1>12, CostFacts DEF Used
<1> QED
  BY <1>5, <1>13 DEF P, W

\* A period without rows is within any limit.
LEMMA InitPeriod == Init => PeriodHeld
<1> SUFFICES ASSUME Init, NEW g \in Groups, HasPeriod(limits[g]), limits[g].weekly > 0
             PROVE Cardinality(Worst(rows, PeriodWindow(g)))
                       =< limits[g].period + limits[g].weekly + 2 * Overdraft
  BY DEF PeriodHeld
<1>1. Worst(rows, PeriodWindow(g)) = {}
  BY DEF Init, PeriodWindow, Counted, Billed, Ids, Worst
<1>2. limits[g].period \in Nat /\ limits[g].weekly \in Nat
  BY InitShape DEF Shape, TypeOK, SettingsOK
<1>3. Cardinality(Worst(rows, PeriodWindow(g))) = 0
  BY <1>1, FS_EmptySet
<1> QED
  BY <1>2, <1>3, OverdraftType

\* A request inside a period was checked against the period's own limit or,
\* after the hand-over, against the week since.
LEMMA ReserveInPeriod ==
  ASSUME Shape, HeldBounded, NEW k \in Keys, NEW c \in Costs, ReserveRequest(k, c),
         NEW g \in Groups, g = groupOf[k], periodActive(limits[g]), limits[g].weekly > 0
  PROVE /\ Cardinality(Worst(rows', periodRows(g) \cup {now})) \in Nat
        /\ Cardinality(Worst(rows', periodRows(g) \cup {now}))
               =< limits[g].period + limits[g].weekly + 2 * Overdraft
<1> DEFINE P == periodRows(g)
           W == weeklyRows(g)
           L == limits[g].period
           K == limits[g].weekly
<1>1. HasPeriod(limits[g]) /\ L \in Nat /\ L > 0 /\ K \in Nat /\ K > 0
  BY DEF periodActive, HasPeriod, Shape, TypeOK, SettingsOK
<1>2. P \subseteq Ids
  BY <1>1, PeriodAgrees
<1>3. /\ Used(P) \in Nat /\ Overdraft \in Nat /\ MaxCharge - 1 =< Overdraft
      /\ Cardinality(Worst(rows', P \cup {now})) \in Nat
      /\ Cardinality(Worst(rows', P \cup {now})) =< Used(P) + 1 + Overdraft
  BY <1>2, Admission
<1>4. GroupChecks(g) /\ ~Whole(now)
  BY DEF ReserveRequest, Admitted
<1> HIDE DEF P, W, L, K
<1>5. Used(P) + 1 =< L + K + Overdraft
  <2>1. CASE Transition(g) = {}
    <3>1. ~overdrawn(Used(P), L)
      BY <1>4, <2>1 DEF GroupChecks, InPeriod, P, L
    <3>2. Used(P) < L
      BY <1>1, <1>3, <3>1 DEF overdrawn
    <3> QED
      BY <1>1, <1>3, <3>2
  <2>2. CASE Transition(g) # {}
    <3>1. Used(W) \in Nat /\ Used(P) =< L - 1 + MaxCharge + Used(W)
      BY <1>1, <1>4, <2>2, HandOver DEF P, W, L
    <3>2. ~overdrawn(Used(W), K)
      BY <1>4, <2>2 DEF GroupChecks, InPeriod, W, K
    <3>3. Used(W) < K
      BY <1>1, <3>1, <3>2 DEF overdrawn
    <3> QED
      BY <1>1, <1>3, <3>1, <3>3, CostFacts
  <2> QED
    BY <2>1, <2>2
<1>6. Cardinality(Worst(rows', P \cup {now})) =< L + K + 2 * Overdraft
  BY <1>1, <1>3, <1>5
<1> QED
  BY <1>3, <1>6 DEF P, L, K

\* Every step keeps each period within its two budgets.
LEMMA NextPeriod ==
  ASSUME NoLimitLowered, Shape, HeldBounded, PeriodHeld, [Next]_vars
  PROVE PeriodHeld'
<1> SUFFICES ASSUME NEW g \in Groups, HasPeriod(limits[g])', limits[g].weekly' > 0
             PROVE (Cardinality(Worst(rows, PeriodWindow(g)))
                       =< limits[g].period + limits[g].weekly + 2 * Overdraft)'
  BY DEF PeriodHeld
<1> DEFINE P == PeriodWindow(g)
           Q == PeriodWindow(g)'
           N == limits[g].period + limits[g].weekly + 2 * Overdraft
           M == limits'[g].period + limits'[g].weekly + 2 * Overdraft
<1>0. /\ limits[g].period \in Nat /\ limits[g].weekly \in Nat
      /\ limits'[g].period \in Nat /\ limits'[g].weekly \in Nat
  BY NextShape DEF Shape, TypeOK, SettingsOK
<1>1. /\ Raised(limits[g].weekly, limits'[g].weekly) /\ Raised(limits[g].period, limits'[g].period)
      /\ HasPeriod(limits[g])
      /\ limits'[g].start = limits[g].start /\ limits'[g].days = limits[g].days
      /\ limits'[g].weekly > 0 /\ limits'[g].period > 0
  BY DEF NoLimitLowered, HasPeriod
<1>2. HasPeriod(limits[g]) /\ limits[g].weekly > 0
  BY <1>0, <1>1 DEF Raised
<1>3. Cardinality(Worst(rows, P)) =< N
  BY <1>2 DEF PeriodHeld
<1>4. P \subseteq Ids /\ P = periodRows(g) /\ N \in Nat
  BY <1>0, <1>2, PeriodAgrees, OverdraftType
<1>5. M \in Nat /\ N =< M
  BY <1>0, <1>1, OverdraftType DEF Raised
<1>6. ASSUME NEW k \in Keys, NEW c \in Costs, ReserveRequest(k, c)
      PROVE Cardinality(Worst(rows', Q)) \in Nat /\ Cardinality(Worst(rows', Q)) =< N
  <2>1. /\ Ids' = Ids \cup {now} /\ now \notin Ids /\ Ids \subseteq Nat /\ now \in Nat
        /\ Counted(g)' = IF g = groupOf[k] THEN Counted(g) \cup {now} ELSE Counted(g)
        /\ \A S : S \subseteq Ids => Worst(rows', S) = Worst(rows, S)
    BY <1>6, ReserveRows
  <2>2. CASE g = groupOf[k] /\ periodActive(limits[g])
    <3>1. Q = P \cup {now}
      BY <1>1, <2>1, <2>2 DEF PeriodWindow, periodActive, PeriodEnd
    <3>2. /\ Cardinality(Worst(rows', periodRows(g) \cup {now})) \in Nat
          /\ Cardinality(Worst(rows', periodRows(g) \cup {now})) =< N
      BY <1>2, <1>6, <2>2, ReserveInPeriod
    <3> QED
      BY <1>4, <3>1, <3>2
  <2>3. CASE ~(g = groupOf[k] /\ periodActive(limits[g]))
    <3>1. Q = P
      BY <1>1, <1>2, <2>1, <2>3 DEF PeriodWindow, periodActive, PeriodEnd
    <3>2. Cardinality(Worst(rows, P)) \in Nat
      BY <1>4, IdsFinite, Part, WorstType
    <3> QED
      BY <1>3, <1>4, <2>1, <3>1, <3>2
  <2> QED
    BY <2>2, <2>3
<1>7. CASE Settles
  <2>1. Q \subseteq P /\ Q \subseteq Ids'
    BY <1>1, <1>7 DEF PeriodWindow, Counted, Billed, Settles, PeriodEnd
  <2>2. Cardinality(Worst(rows', Q)) =< Cardinality(Worst(rows, P))
        /\ Cardinality(Worst(rows, P)) \in Nat /\ Cardinality(Worst(rows', Q)) \in Nat
    BY <1>4, <1>7, <2>1, SettlesWorst
  <2>3. Cardinality(Worst(rows', Q)) =< N
    <3> HIDE DEF P, Q, N
    <3> QED
      BY <1>3, <1>4, <2>2
  <2>4. Cardinality(Worst(rows', Q)) =< M
    <3> HIDE DEF P, Q, N, M
    <3> QED
      BY <1>4, <1>5, <2>2, <2>3
  <2> QED
    BY <2>4 DEF Worst, MaxCharge, Overdraft, InFlight
<1>8. (\E k \in Keys, c \in Costs : ReserveRequest(k, c)) \/ Settles
  BY ReserveOrSettle
<1>9. CASE \E k \in Keys, c \in Costs : ReserveRequest(k, c)
  <2>1. Cardinality(Worst(rows', Q)) \in Nat /\ Cardinality(Worst(rows', Q)) =< N
    BY <1>6, <1>9
  <2>2. Cardinality(Worst(rows', Q)) =< M
    <3> HIDE DEF P, Q, N, M
    <3> QED
      BY <1>4, <1>5, <2>1
  <2> QED
    BY <2>2 DEF Worst, MaxCharge, Overdraft, InFlight
<1> QED
  BY <1>7, <1>8, <1>9

-----------------------------------------------------------------------------
(* Retention.                                                              *)

\* The retention covers every window, and periods start on whole seconds.
CoveredByRetention ==
    /\ FiveHours + Second =< Retention /\ Day =< Retention /\ Week =< Retention
    /\ \A s \in Settings \cup Initial :
          s.days * Day =< Retention /\ (s.start = None \/ Whole(s.start))

Covered ==
    \A g \in Groups :
        limits[g].days * Day =< Retention /\ (limits[g].start = None \/ Whole(limits[g].start))

\* A multiple of a second is a whole second.
LEMMA MultipleWhole ==
  ASSUME NEW n \in Int
  PROVE Whole(Second * n) /\ Second * n \in Int
<1> DEFINE t == Second * n
           q == t \div Second
           r == t % Second
<1>1. t \in Int
  BY Constants
<1>2. /\ q \in Int /\ r \in Int /\ 0 =< r /\ r < Second /\ t = Second * q + r
  BY <1>1, Constants, DivRest
<1> HIDE DEF q, r
<1>3. Second * (n - q) = r
  BY <1>2, Constants
<1>4. n - q = 0
  <2>1. n - q >= 1 => Second * (n - q) >= Second * 1
    BY <1>2, Constants, ProductOrder
  <2>2. n - q =< -1 => Second * (n - q) =< Second * (-1)
    BY <1>2, Constants, ProductOrder
  <2> QED
    BY <1>2, <1>3, <2>1, <2>2, Constants
<1>5. r = 0
  BY <1>3, <1>4, Constants
<1> QED
  BY <1>1, <1>5 DEF Whole, r

\* A sum of whole seconds is one.
LEMMA SumWhole ==
  ASSUME NEW s \in Int, NEW t \in Int, Whole(s), Whole(t)
  PROVE Whole(s + t)
<1> DEFINE m == s \div Second
           n == t \div Second
<1>1. m \in Int /\ n \in Int /\ s = Second * m /\ t = Second * n
  <2>1. m \in Int /\ n \in Int /\ s = Second * m + (s % Second) /\ t = Second * n + (t % Second)
    BY Constants, DivRest
  <2>2. s % Second = 0 /\ t % Second = 0
    BY DEF Whole
  <2> HIDE DEF m, n
  <2>3. Second * m \in Int /\ Second * n \in Int
    BY <2>1, Constants
  <2> QED
    BY <2>1, <2>2, <2>3
<1> HIDE DEF m, n
<1>2. s + t = Second * (m + n)
  BY <1>1, Constants
<1> QED
  BY <1>1, <1>2, MultipleWhole

\* So are days and weeks.
LEMMA DaysWhole ==
  ASSUME NEW n \in Int
  PROVE /\ Day * n \in Int /\ Whole(Day * n)
        /\ Week * n \in Int /\ Whole(Week * n)
<1> DEFINE a == Day \div Second
           b == Week \div Day
<1>1. a \in Int /\ Day = Second * a
  <2>1. a \in Int /\ Day = Second * a + (Day % Second)
    BY Constants, DivRest
  <2> HIDE DEF a
  <2>2. Second * a \in Int
    BY <2>1, Constants
  <2> QED
    BY <2>1, <2>2, Constants
<1>2. b \in Int /\ Week = Day * b
  <2>1. b \in Int /\ Week = Day * b + (Week % Day)
    BY Constants, DivRest
  <2> HIDE DEF b
  <2>2. Day * b \in Int
    BY <2>1, Constants
  <2> QED
    BY <2>1, <2>2, Constants
<1> HIDE DEF a, b
<1>3. Day * n = Second * (a * n) /\ a * n \in Int
  BY <1>1, Constants
<1>4. Week * n = Second * (a * b * n) /\ a * b * n \in Int
  BY <1>1, <1>2, Constants
<1>5. Whole(Second * (a * n)) /\ Second * (a * n) \in Int
  BY <1>3, MultipleWhole
<1>6. Whole(Second * (a * b * n)) /\ Second * (a * b * n) \in Int
  BY <1>4, MultipleWhole
<1> QED
  BY <1>3, <1>4, <1>5, <1>6

\* Text that is not before a whole second is not before it in time either.
LEMMA TextAfterWhole ==
  ASSUME NEW u \in Int, Whole(u), NEW i \in Int, TextLeq(u, i)
  PROVE u =< i
<1>1. u \div Second \in Int /\ i \div Second \in Int
  BY Constants, DivRest
<1>2. i =< u => i \div Second =< u \div Second
  BY Constants, DivOrder
<1>3. CASE u \div Second < i \div Second
  BY <1>1, <1>2, <1>3
<1>4. CASE u \div Second = i \div Second
  <2> DEFINE p == u \div Second
             r == i % Second
  <2>1. /\ p \in Int /\ r \in Int /\ 0 =< r /\ i = Second * p + r /\ u = Second * p + (u % Second)
    BY <1>4, Constants, DivRest
  <2>2. u % Second = 0
    BY DEF Whole
  <2> HIDE DEF p, r
  <2>3. Second * p \in Int
    BY <2>1, Constants
  <2> QED
    BY <2>1, <2>2, <2>3
<1> QED
  BY <1>3, <1>4 DEF TextLeq

\* A row from a whole second on that is within the retention is not old.
LEMMA Recent ==
  ASSUME NEW u \in Int, Whole(u), NEW t \in Int, t < u, NEW i \in Int, u =< i
  PROVE ~TextLess(i, t)
<1> DEFINE q == t \div Second
           p == u \div Second
           r == t % Second
<1>1. p \in Int /\ q \in Int /\ i \div Second \in Int /\ p =< i \div Second
  BY Constants, DivRest, DivOrder
<1>2. r \in Int /\ 0 =< r /\ t = Second * q + r /\ u = Second * p
  <2>1. r \in Int /\ 0 =< r /\ t = Second * q + r /\ u = Second * p + (u % Second)
    BY Constants, DivRest
  <2>2. u % Second = 0
    BY DEF Whole
  <2> HIDE DEF p, q, r
  <2>3. Second * p \in Int
    BY <1>1, Constants
  <2> QED
    BY <2>1, <2>2, <2>3
<1> HIDE DEF p, q, r
<1>3. q < p
  <2>1. p =< q => Second * p =< Second * q
    BY <1>1, Constants, ProductOrder
  <2>2. Second * p \in Int /\ Second * q \in Int
    BY <1>1, Constants
  <2> QED
    BY <1>1, <1>2, <2>1, <2>2
<1>4. q < i \div Second
  BY <1>1, <1>3
<1> QED
  BY <1>1, <1>4 DEF TextLess, TextLeq, q

\* The initial settings are covered.
LEMMA InitCovered == CoveredByRetention /\ Init => Covered
  BY DEF CoveredByRetention, Covered, Init

\* An edit takes a covered setting; a period it starts itself starts on a
\* whole second.
LEMMA NextCovered ==
  ASSUME CoveredByRetention, Shape, Covered, [Next]_vars
  PROVE Covered'
<1>1. ASSUME NEW g \in Groups, NEW s \in Settings, NEW clear \in BOOLEAN,
             UpdateModelGroup(g, s, clear)
      PROVE Covered'
  <2> DEFINE n == now \div Second
  <2>1. Whole(n * Second)
    <3>1. n \in Int
      BY IdsFinite, Constants, DivRest
    <3> HIDE DEF n
    <3>2. n * Second = Second * n
      BY <3>1, Constants
    <3> QED
      BY <3>1, <3>2, MultipleWhole
  <2>2. /\ s.days * Day =< Retention /\ (s.start = None \/ Whole(s.start))
        /\ DOMAIN s = {"fiveHour", "daily", "weekly", "period", "days", "start"}
    BY QuotaAssumption DEF CoveredByRetention, SettingsOK
  <2>3. limits[g].start = None \/ Whole(limits[g].start)
    BY DEF Covered
  <2>4. \A h \in Groups : h # g => limits'[h] = limits[h]
    BY <1>1 DEF UpdateModelGroup, Shape
  <2>5. limits'[g].days = s.days
    BY <1>1, <2>2 DEF UpdateModelGroup, Shape
  <2>6. limits'[g].start = None \/ Whole(limits'[g].start)
    <3>1. limits'[g].start = CASE s.days = 0 \/ clear -> None
                               [] s.days > 0 /\ ~clear /\ s.start # None -> s.start
                               [] s.days > 0 /\ ~clear /\ s.start = None /\ limits[g].start # None ->
                                      limits[g].start
                               [] OTHER -> n * Second
      BY <1>1, <2>2 DEF UpdateModelGroup, Shape
    <3>2. s.days \in Nat
      BY QuotaAssumption DEF SettingsOK
    <3>3. limits'[g].start \in {None, s.start, limits[g].start, n * Second}
      <4> HIDE DEF n
      <4> QED
        BY <3>1, <3>2
    <3> QED
      BY <2>1, <2>2, <2>3, <3>3
  <2> QED
    BY <2>2, <2>4, <2>5, <2>6 DEF Covered
<1>2. CASE UNCHANGED limits
  BY <1>2 DEF Covered, Whole
<1> QED
  BY <1>1, <1>2 DEF Next, vars, ReserveRequest, FinishReservation, Prune, DeleteModels,
       DeleteClientKey, Cascade, SetKeyGroup, Tick

\* No row that a window counts is old.
LEMMA WindowsKept ==
  ASSUME CoveredByRetention, Shape, Covered, NEW g \in Groups
  PROVE /\ \A i \in fiveHourRows(g) \cup dailyRows(g) \cup weeklyRows(g) : ~Old(i)
        /\ periodActive(limits[g]) => \A i \in periodRows(g) : ~Old(i)
<1> DEFINE l == limits[g]
           t == now - Retention
<1>1. /\ now \in Nat /\ t \in Int /\ Ids \subseteq Nat
      /\ \A i \in Ids : ~Whole(i) /\ i \in Int
  BY IdsFinite, Constants DEF Shape
<1>2. l.days \in Nat /\ (l.start = None \/ l.start \in Nat)
  BY DEF Shape, TypeOK, SettingsOK
<1>3. FiveHours + Second =< Retention /\ Day =< Retention /\ Week =< Retention
      /\ l.days * Day =< Retention /\ (l.start = None \/ Whole(l.start))
  BY DEF CoveredByRetention, Covered
<1>4. ASSUME NEW u \in Int, Whole(u), t < u, NEW i \in Ids, u =< i
      PROVE ~Old(i)
  BY <1>1, <1>4, Recent DEF Old
<1>5. ASSUME NEW i \in fiveHourRows(g) PROVE ~Old(i)
  <2> DEFINE w == now - FiveHours
             n == w \div Second
             r == w % Second
  <2>1. w \in Int /\ i \in Ids /\ i \in Int /\ w =< i
    BY <1>1, Constants DEF fiveHourRows, Counted, Billed
  <2>2. n \in Int /\ r \in Int /\ 0 =< r /\ r < Second /\ w = Second * n + r
    BY <2>1, Constants, DivRest
  <2> HIDE DEF n, r
  <2>3. Whole(Second * n) /\ Second * n \in Int
    BY <2>2, MultipleWhole
  <2>4. t < Second * n /\ Second * n =< i
    BY <1>1, <1>3, <2>1, <2>2, <2>3, Constants
  <2> HIDE DEF t
  <2> QED
    BY <1>4, <2>1, <2>3, <2>4
<1>6. ASSUME NEW i \in dailyRows(g) PROVE ~Old(i)
  <2> DEFINE n == now \div Day
  <2>1. i \in Ids /\ i \in Int /\ i \div Day = n
    BY <1>1 DEF dailyRows, Counted, Billed
  <2>2. n \in Int /\ (now % Day) \in Int /\ (now % Day) < Day /\ now = Day * n + (now % Day)
        /\ (i % Day) \in Int /\ 0 =< (i % Day) /\ i = Day * n + (i % Day)
    BY <1>1, <2>1, Constants, DivRest
  <2> HIDE DEF n
  <2>3. Whole(Day * n) /\ Day * n \in Int
    BY <2>2, DaysWhole
  <2>4. t < Day * n /\ Day * n =< i
    BY <1>1, <1>3, <2>1, <2>2, <2>3, Constants
  <2> HIDE DEF t
  <2> QED
    BY <1>4, <2>1, <2>3, <2>4
<1>7. ASSUME periodActive(l), NEW i \in Ids, i >= l.start PROVE ~Old(i)
  <2>1. l.start \in Nat /\ Whole(l.start) /\ now < l.start + l.days * Day
    BY <1>2, <1>3, <1>7 DEF periodActive, HasPeriod, PeriodEnd
  <2>2. l.days * Day \in Nat
    BY <1>2, Constants
  <2>3. t < l.start
    BY <1>1, <1>3, <2>1, <2>2, Constants
  <2> HIDE DEF t, l
  <2> QED
    BY <1>1, <1>4, <1>7, <2>1, <2>3
<1>8. ASSUME NEW i \in weeklyRows(g) PROVE ~Old(i)
  <2>1. i \in Ids /\ i \in Int
    BY <1>1 DEF weeklyRows, Counted, Billed
  <2>2. CASE TextLeq(weeklyWindowStart(l), i)
    <3> DEFINE u == weeklyWindowStart(l)
               n == now \div Week
    <3>1. n \in Int /\ (now % Week) \in Int /\ (now % Week) < Week /\ now = Week * n + (now % Week)
      BY <1>1, Constants, DivRest
    <3>2. Whole(Week * n) /\ Week * n \in Int /\ billingWeekStart(now) = Week * n
      <4>1. billingWeekStart(now) = n * Week
        BY DEF billingWeekStart
      <4> HIDE DEF n
      <4>2. n * Week = Week * n
        BY <3>1, Constants
      <4>3. Whole(Week * n) /\ Week * n \in Int
        BY <3>1, DaysWhole
      <4> QED
        BY <4>1, <4>2, <4>3
    <3>3. HasPeriod(l) => Whole(PeriodEnd(l)) /\ PeriodEnd(l) \in Int
      <4> SUFFICES ASSUME HasPeriod(l) PROVE Whole(PeriodEnd(l)) /\ PeriodEnd(l) \in Int
        OBVIOUS
      <4>1. l.start \in Nat /\ Whole(l.start)
        BY <1>2, <1>3 DEF HasPeriod
      <4>2. l.days * Day = Day * l.days /\ Day * l.days \in Int /\ Whole(Day * l.days)
        BY <1>2, DaysWhole, Constants
      <4> DEFINE d == Day * l.days
                 s == l.start
      <4>3. PeriodEnd(l) = s + d
        BY <4>2 DEF PeriodEnd
      <4>4. d \in Int /\ Whole(d) /\ s \in Int /\ Whole(s)
        BY <4>1, <4>2
      <4> HIDE DEF d, s
      <4>5. Whole(s + d) /\ s + d \in Int
        BY <4>4, SumWhole
      <4> QED
        BY <4>3, <4>5
    <3> HIDE DEF n
    <3>4. Whole(u) /\ u \in Int /\ Week * n =< u
      <4> HIDE DEF l
      <4> QED
        BY <3>2, <3>3 DEF weeklyWindowStart
    <3> HIDE DEF u
    <3>5. t < u
      BY <1>1, <1>3, <3>1, <3>2, <3>4, Constants
    <3>6. u =< i
      BY <2>1, <2>2, <3>4, TextAfterWhole DEF u
    <3> HIDE DEF t
    <3> QED
      BY <1>4, <2>1, <3>4, <3>5, <3>6
  <2>3. CASE \E h \in Transition(g) : TextLess(h, i)
    <3>1. PICK h \in Transition(g) : TextLess(h, i)
      BY <2>3
    <3>2. periodActive(l)
      BY DEF Transition
    <3>3. h \in periodRows(g)
      BY HandOverRow
    <3>4. h \in Ids /\ h \in Nat /\ h >= l.start
      BY <1>1, <3>3 DEF periodRows, Counted, Billed
    <3>5. h < i
      BY <1>1, <2>1, <3>1, <3>4, TextIsTime
    <3>6. l.start \in Nat
      BY <1>2, <3>2 DEF periodActive, HasPeriod
    <3>7. i >= l.start
      <4> HIDE DEF l
      <4> QED
        BY <2>1, <3>4, <3>5, <3>6
    <3> QED
      BY <1>7, <2>1, <3>2, <3>7
  <2> QED
    BY <2>2, <2>3 DEF weeklyRows
<1> QED
  BY <1>5, <1>6, <1>7, <1>8 DEF periodRows, Counted, Billed

-----------------------------------------------------------------------------
(* Theorems.                                                               *)

\* The worst of every window, and with it what is used, is within the bounds.
LEMMA HeldThenBounded ==
  ASSUME Shape
  PROVE /\ FiveHourHeld => FiveHourBounded
        /\ DayHeld => DailyBounded
        /\ PeriodHeld => PeriodBounded
        /\ KeyHeld => KeyTotalBounded
<1>1. \A g \in Groups : Counted(g) \subseteq Ids /\ limits[g].fiveHour \in Nat
                        /\ limits[g].daily \in Nat /\ limits[g].weekly \in Nat
                        /\ limits[g].period \in Nat
  BY DEF Counted, Billed, Shape, TypeOK, SettingsOK
<1>2. ASSUME FiveHourHeld PROVE FiveHourBounded
  <2> SUFFICES ASSUME NEW g \in Groups, NEW i \in Counted(g)
               PROVE Bounded(FiveHourWindow(g, i), limits[g].fiveHour)
    BY DEF FiveHourBounded, FiveHourWindow
  <2>1. FiveHourWindow(g, i) \subseteq Ids /\ WorstBounded(FiveHourWindow(g, i), limits[g].fiveHour)
    BY <1>1, <1>2 DEF FiveHourHeld, FiveHourWindow
  <2> QED
    BY <1>1, <2>1, WorstThenUsed
<1>3. ASSUME DayHeld PROVE DailyBounded
  <2> SUFFICES ASSUME NEW g \in Groups, NEW i \in Counted(g)
               PROVE Bounded(DayWindow(g, i), limits[g].daily)
    BY DEF DailyBounded, DayWindow
  <2>1. DayWindow(g, i) \subseteq Ids /\ WorstBounded(DayWindow(g, i), limits[g].daily)
    BY <1>1, <1>3 DEF DayHeld, DayWindow
  <2> QED
    BY <1>1, <2>1, WorstThenUsed
<1>4. ASSUME PeriodHeld PROVE PeriodBounded
  <2> SUFFICES ASSUME NEW g \in Groups, HasPeriod(limits[g]), limits[g].weekly > 0
               PROVE Used(periodRows(g)) =< limits[g].period + limits[g].weekly + 2 * Overdraft
    BY DEF PeriodBounded
  <2> DEFINE P == periodRows(g)
             N == limits[g].period + limits[g].weekly + 2 * Overdraft
  <2>1. P \subseteq Ids /\ Cardinality(Worst(rows, P)) =< N
    BY <1>4, PeriodAgrees DEF PeriodHeld
  <2>2. IsFiniteSet(P) /\ N \in Nat
    BY <1>1, <2>1, IdsFinite, Part, OverdraftType
  <2> HIDE DEF P, N
  <2>3. Used(P) \in Nat /\ Cardinality(Worst(rows, P)) \in Nat /\ Used(P) =< Cardinality(Worst(rows, P))
    BY <2>2, UsedType, WorstType, UsedIsLess
  <2>4. Used(P) =< N
    BY <2>1, <2>2, <2>3
  <2> QED
    BY <2>4 DEF P, N
<1>5. ASSUME KeyHeld PROVE KeyTotalBounded
  <2> SUFFICES ASSUME KeyQuota > 0, NEW k \in Keys
               PROVE KeyUse(k) =< KeyQuota + Overdraft
    BY DEF KeyTotalBounded
  <2>1. KeyRows(k) \subseteq Ids /\ WorstBounded(KeyRows(k), KeyQuota)
    BY <1>5 DEF KeyHeld, KeyRows, Billed
  <2>2. Used(KeyRows(k)) =< KeyQuota + Overdraft
    BY <2>1, WorstThenUsed, Constants DEF Bounded
  <2>3. KeyUse(k) = Used(KeyRows(k))
    <3>1. KeyRows(k) = {i \in Ids : rows[i].key = k /\ rows[i].kept /\ rows[i].status # "rejected"}
      BY DEF KeyRows, Billed
    <3> QED
      BY <3>1 DEF KeyUse
  <2> QED
    BY <2>2, <2>3
<1> QED
  BY <1>2, <1>3, <1>4, <1>5

\* The ledger keeps its shape and no minute ever holds more requests than
\* RPM_LIMIT.  The administrator may edit groups, move keys and delete models,
\* providers and keys, and Prune may delete rows, at any time.
THEOREM QuotaSafe == Spec => [](TypeOK /\ RateBounded)
<1>1. Init => Shape /\ RateBounded
  BY InitShape, InitRate
<1>2. (Shape /\ RateBounded) /\ [Next]_vars => (Shape /\ RateBounded)'
  BY NextShape, NextRate
<1>3. Shape => TypeOK
  BY DEF Shape
<1> QED
  BY <1>1, <1>2, <1>3, PTL DEF Spec

\* As long as UpdateModelGroup lowers no limit and moves no custom period, no
\* five hours, no day and no custom period ever exceeds its limit by more than
\* the overdraft of the requests in flight, rows that were deleted left aside.
\* (An edit that lowers a limit below what was used already breaks the bound at
\* once, and a deletion gives back what the deleted rows had used.)
THEOREM WindowsBounded ==
  Spec /\ [][NoLimitLowered]_vars => [](FiveHourBounded /\ DailyBounded /\ PeriodBounded)
<1> DEFINE IInv == Shape /\ HeldBounded /\ FiveHourHeld /\ DayHeld /\ PeriodHeld
<1>1. Init => IInv
  BY InitShape, InitHeld, InitWindows, InitPeriod
<1>2. IInv /\ [Next]_vars /\ [NoLimitLowered]_vars => IInv'
  <2> SUFFICES ASSUME IInv, [Next]_vars, [NoLimitLowered]_vars PROVE IInv'
    OBVIOUS
  <2>0. NoLimitLowered
    BY Unedited
  <2>1. Shape' /\ HeldBounded'
    BY NextShape, NextHeld
  <2>2. FiveHourHeld' /\ DayHeld' /\ PeriodHeld'
    BY <2>0, NextWindows, NextPeriod
  <2> QED
    BY <2>1, <2>2
<1>3. IInv => FiveHourBounded /\ DailyBounded /\ PeriodBounded
  BY HeldThenBounded
<1> HIDE DEF IInv
<1> QED
  BY <1>1, <1>2, <1>3, PTL DEF Spec

\* What the ledger has of a key is never more than its quota and one
\* overdraft, whatever groups it was moved between, however their limits were
\* edited and whatever was deleted: ReserveRequest sums the key's rows over all
\* groups before it adds one.
THEOREM KeyTotal == Spec => []KeyTotalBounded
<1> DEFINE IInv == Shape /\ HeldBounded /\ KeyHeld
<1>1. Init => IInv
  BY InitShape, InitHeld, InitKey
<1>2. IInv /\ [Next]_vars => IInv'
  BY NextShape, NextHeld, NextKey
<1>3. IInv => KeyTotalBounded
  BY HeldThenBounded
<1> HIDE DEF IInv
<1> QED
  BY <1>1, <1>2, <1>3, PTL DEF Spec

\* Over its whole life a key uses no more than that in every behaviour in which
\* none of its tokens is deleted, by Prune or with a model, a provider or the
\* key.  (Afterwards ReserveRequest no longer sees what the key has used.)
THEOREM KeyLife == Spec /\ [][forgotten' = forgotten]_vars => []KeyLifeBounded
<1> DEFINE IInv == Shape /\ \A k \in Keys : forgotten[k] = 0
<1>1. Init => IInv
  BY InitShape DEF Init
<1>2. IInv /\ [Next]_vars /\ [forgotten' = forgotten]_vars => IInv'
  BY NextShape DEF vars
<1>3. IInv /\ KeyTotalBounded => KeyLifeBounded
  <2> SUFFICES ASSUME IInv, KeyTotalBounded, KeyQuota > 0, NEW k \in Keys
               PROVE forgotten[k] + KeyUse(k) =< KeyQuota + Overdraft
    BY DEF KeyLifeBounded
  <2>1. forgotten[k] = 0 /\ KeyUse(k) =< KeyQuota + Overdraft
    BY DEF KeyTotalBounded
  <2>2. KeyUse(k) \in Nat
    BY IdsFinite, Part, UsedType DEF KeyUse
  <2> QED
    BY <2>1, <2>2
<1>4. Spec => []KeyTotalBounded
  BY KeyTotal
<1> HIDE DEF IInv
<1> QED
  BY <1>1, <1>2, <1>3, <1>4, PTL DEF Spec

\* Under a retention of at least a week, the default, that is no shorter than
\* any custom period, Prune deletes no row that a window still counts,
\* although it compares text and the window starts are whole seconds.
THEOREM PruneKeeps ==
  ASSUME CoveredByRetention
  PROVE Spec => PruneKeepsWindows
<1> DEFINE Kept == \A g \in Groups :
                      /\ \A i \in fiveHourRows(g) \cup dailyRows(g) \cup weeklyRows(g) : ~Old(i)
                      /\ periodActive(limits[g]) => \A i \in periodRows(g) : ~Old(i)
           Step == \A g \in Groups :
                      Prune => /\ \A i \in fiveHourRows(g) \cup dailyRows(g) \cup weeklyRows(g) : ~Old(i)
                               /\ periodActive(limits[g]) => \A i \in periodRows(g) : ~Old(i)
<1>1. Init => Shape /\ Covered
  BY InitShape, InitCovered
<1>2. (Shape /\ Covered) /\ [Next]_vars => (Shape /\ Covered)'
  BY NextShape, NextCovered
<1>3. Shape /\ Covered => Kept
  BY WindowsKept
<1>4. Kept => [Step]_vars
  OBVIOUS
<1>5. PruneKeepsWindows <=> [][Step]_vars
  BY DEF PruneKeepsWindows
<1> HIDE DEF Kept, Step
<1> QED
  BY <1>1, <1>2, <1>3, <1>4, <1>5, PTL DEF Spec

-----------------------------------------------------------------------------
(* The week after its first second: the weekly query compares the start of *)
(* the week as text, which sorts after the other instants of its second.   *)

WeekWindow(g, i) ==
    {j \in Counted(g) : j \div Week = i \div Week /\ j >= billingWeekStart(i) + Second}

WeekHeld ==
    \A g \in Groups : \A i \in Counted(g) :
        ~HasPeriod(limits[g]) => WorstBounded(WeekWindow(g, i), limits[g].weekly)

\* What a Beijing week's requests use after its first second is within the
\* limit of a group without a custom period and the overdraft.
WeeklyAfterFirstSecond ==
    \A g \in Groups : \A i \in Counted(g) :
        ~HasPeriod(limits[g]) => Bounded(WeekWindow(g, i), limits[g].weekly)

\* Among instants with a fraction, text from a whole second on begins with
\* the second after.
LEMMA TextFromWhole ==
  ASSUME NEW u \in Int, Whole(u), NEW i \in Int, ~Whole(i)
  PROVE TextLeq(u, i) <=> i >= u + Second
<1> DEFINE p == u \div Second
           q == i \div Second
           r == i % Second
<1>1. p \in Int /\ q \in Int /\ r \in Int /\ 0 =< r /\ r < Second /\ i = Second * q + r
  BY Constants, DivRest
<1>2. u = Second * p
  <2>1. u = Second * p + (u % Second)
    BY Constants, DivRest
  <2>2. u % Second = 0
    BY DEF Whole
  <2> HIDE DEF p
  <2>3. Second * p \in Int
    BY <1>1, Constants
  <2> QED
    BY <2>1, <2>2, <2>3
<1>3. TextLeq(u, i) <=> p < q
  <2>1. u # i
    OBVIOUS
  <2> QED
    BY <1>1, <2>1 DEF TextLeq
<1> HIDE DEF p, q, r
<1>4. p < q => Second * (p + 1) =< Second * q
  BY <1>1, Constants, ProductOrder
<1>5. q =< p => Second * q =< Second * p
  BY <1>1, Constants, ProductOrder
<1>6. Second * (p + 1) = Second * p + Second /\ Second * p \in Int /\ Second * q \in Int
  BY <1>1, Constants
<1> QED
  BY <1>1, <1>2, <1>3, <1>4, <1>5, <1>6, Constants

\* The week of an instant starts on a whole second, not after it.
LEMMA WeekStart ==
  ASSUME NEW t \in Int
  PROVE /\ billingWeekStart(t) \in Int /\ Whole(billingWeekStart(t)) /\ billingWeekStart(t) =< t
<1> DEFINE n == t \div Week
<1>1. n \in Int /\ (t % Week) \in Int /\ 0 =< (t % Week) /\ t = Week * n + (t % Week)
  BY Constants, DivRest
<1>2. billingWeekStart(t) = n * Week
  BY DEF billingWeekStart
<1> HIDE DEF n
<1>3. n * Week = Week * n
  BY <1>1, Constants
<1>4. Whole(Week * n) /\ Week * n \in Int
  BY <1>1, DaysWhole
<1> QED
  BY <1>1, <1>2, <1>3, <1>4

\* There are no rows at first.
LEMMA InitWeek == Init => WeekHeld
  BY DEF Init, WeekHeld, Counted, Billed, Ids

\* A request is checked against what its week counts.
LEMMA NextWeek ==
  ASSUME NoLimitLowered, Shape, HeldBounded, WeekHeld, [Next]_vars
  PROVE WeekHeld'
<1>0. \A g \in Groups : /\ Raised(limits[g].weekly, limits'[g].weekly) /\ limits'[g].weekly \in Nat
                        /\ HasPeriod(limits'[g]) <=> HasPeriod(limits[g])
  BY NextShape DEF NoLimitLowered, Shape, TypeOK, SettingsOK
<1>00. \A g \in Groups : limits[g].weekly \in Nat /\ Counted(g) \subseteq Ids
  BY DEF Shape, TypeOK, SettingsOK, Counted, Billed
<1> SUFFICES ASSUME NEW g \in Groups, NEW i \in Counted(g)', ~HasPeriod(limits[g])
             PROVE WorstBounded(WeekWindow(g, i), limits[g].weekly)'
  BY <1>0 DEF WeekHeld, HasPeriod
<1>1. ASSUME NEW k \in Keys, NEW c \in Costs, ReserveRequest(k, c)
      PROVE WorstBounded(WeekWindow(g, i), limits[g].weekly)'
  <2>1. /\ Ids' = Ids \cup {now} /\ now \notin Ids /\ Ids \subseteq Nat /\ now \in Nat
        /\ (\A j \in Ids : j < now) /\ limits' = limits
        /\ Counted(g)' = IF g = groupOf[k] THEN Counted(g) \cup {now} ELSE Counted(g)
        /\ \A S : S \subseteq Ids => Worst(rows', S) = Worst(rows, S)
    BY <1>1, ReserveRows
  <2>2. GroupChecks(groupOf[k]) /\ ~Whole(now)
    BY <1>1 DEF ReserveRequest, Admitted
  <2> DEFINE u == billingWeekStart(now)
  <2>3. u \in Int /\ Whole(u) /\ u =< now
    BY <2>1, WeekStart
  <2>4. CASE g = groupOf[k] /\ i \div Week = now \div Week
    <3>1. billingWeekStart(i) = u
      BY <2>4 DEF billingWeekStart
    <3>2. weeklyRows(g) = {j \in Counted(g) : j >= u + Second}
      <4>1. Transition(g) = {}
        BY DEF Transition, periodActive
      <4>2. weeklyWindowStart(limits[g]) = u
        BY DEF weeklyWindowStart
      <4>3. \A j \in Counted(g) : j \in Int /\ ~Whole(j) /\ j =< now
        BY <1>00, <2>1 DEF Shape
      <4>4. \A j \in Counted(g) : TextLeq(j, now)
        BY <2>1, <2>2, <4>3, TextIsTime
      <4>5. \A j \in Counted(g) : TextLeq(u, j) <=> j >= u + Second
        <5> HIDE DEF u
        <5> QED
          BY <2>3, <4>3, TextFromWhole
      <4> HIDE DEF u
      <4> QED
        BY <4>1, <4>2, <4>4, <4>5 DEF weeklyRows
    <3>3. weeklyRows(g) \subseteq Ids
      BY <1>00, <3>2
    <3>4. \A j \in Counted(g) : j >= u + Second => j \div Week = now \div Week
      <4> SUFFICES ASSUME NEW j \in Counted(g), j >= u + Second PROVE j \div Week = now \div Week
        OBVIOUS
      <4> DEFINE n == now \div Week
      <4>0. j \in Ids
        BY <1>00
      <4>1. j \in Int /\ j =< now
        BY <2>1, <4>0
      <4>2. j \div Week \in Int /\ n \in Int /\ j \div Week =< n
        BY <2>1, <4>1, Constants, DivRest, DivOrder
      <4>3. u \div Week =< j \div Week /\ u \div Week \in Int
        <5>1. u =< j
          <6> HIDE DEF u
          <6> QED
            BY <2>3, <4>1, Constants
        <5> HIDE DEF u
        <5> QED
          BY <2>3, <4>1, <5>1, Constants, DivRest, DivOrder
      <4>4. u \div Week = n
        <5> DEFINE m == u \div Week
        <5>1. u = n * Week
          BY DEF billingWeekStart
        <5>2. m \in Int /\ (u % Week) \in Int /\ 0 =< (u % Week) /\ (u % Week) < Week /\ u = Week * m + (u % Week)
          <6> HIDE DEF u
          <6> QED
            BY <2>3, Constants, DivRest
        <5> HIDE DEF m, n, u
        <5>3. n =< m \/ m + 1 =< n
          BY <4>2, <5>2
        <5>4. m + 1 =< n => Week * (m + 1) =< Week * n
          BY <4>2, <5>2, Constants, ProductOrder
        <5>5. Week * (m + 1) = Week * m + Week /\ Week * m \in Int /\ n * Week = Week * n /\ Week * n \in Int
          BY <4>2, <5>2, Constants
        <5>6. n =< m
          BY <5>1, <5>2, <5>3, <5>4, <5>5, Constants
        <5>7. m =< n
          BY <4>2, <4>3 DEF m
        <5>8. m = n
          BY <4>2, <5>2, <5>6, <5>7
        <5> QED
          BY <5>8 DEF m
      <4> QED
        BY <4>2, <4>3, <4>4
    <3>5. CASE now >= u + Second
      <4>1. WeekWindow(g, i)' = weeklyRows(g) \cup {now}
        <5>1. billingWeekStart(i)' = u
          BY <3>1 DEF billingWeekStart
        <5> HIDE DEF u
        <5> QED
          BY <2>1, <2>4, <3>2, <3>4, <3>5, <5>1 DEF WeekWindow
      <4>2. ~overdrawn(Used(weeklyRows(g)), limits[g].weekly)
        BY <2>2, <2>4 DEF GroupChecks, InPeriod, periodActive
      <4> QED
        BY <1>00, <1>1, <2>1, <3>3, <4>1, <4>2, AdmissionBound DEF WorstBounded
    <3>6. CASE ~(now >= u + Second)
      <4>1. WeekWindow(g, i)' = {}
        <5>1. billingWeekStart(i)' = u
          BY <3>1 DEF billingWeekStart
        <5>2. \A j \in Ids \cup {now} : ~(j >= u + Second)
          <6> HIDE DEF u
          <6> QED
            BY <2>1, <2>3, <3>6, Constants
        <5> HIDE DEF u
        <5> QED
          BY <1>00, <2>1, <5>1, <5>2 DEF WeekWindow
      <4>2. Worst(rows', {}) = {}
        BY DEF Worst
      <4>3. Cardinality(Worst(rows', WeekWindow(g, i)')) = 0
        BY <4>1, <4>2, FS_EmptySet
      <4> QED
        BY <1>00, <2>1, <4>3, OverdraftType DEF WorstBounded
    <3> QED
      BY <3>5, <3>6
  <2>5. CASE ~(g = groupOf[k] /\ i \div Week = now \div Week)
    <3>1. i \in Counted(g)
      BY <2>1, <2>5
    <3>2. WeekWindow(g, i)' = WeekWindow(g, i) /\ WeekWindow(g, i) \subseteq Ids
      BY <1>00, <2>1, <2>5 DEF WeekWindow, billingWeekStart
    <3> QED
      BY <2>1, <3>1, <3>2 DEF WorstBounded, WeekHeld
  <2> QED
    BY <2>4, <2>5
<1>2. CASE Settles
  <2>1. Counted(g)' \subseteq Counted(g) /\ Counted(g)' \subseteq Ids'
    BY <1>2 DEF Settles, Counted, Billed
  <2>2. WeekWindow(g, i)' \subseteq WeekWindow(g, i) /\ WeekWindow(g, i) \subseteq Ids
        /\ WeekWindow(g, i)' \subseteq Ids'
    BY <1>00, <2>1 DEF WeekWindow, billingWeekStart
  <2>3. WorstBounded(WeekWindow(g, i), limits[g].weekly)
    BY <2>1 DEF WeekHeld
  <2> QED
    BY <1>0, <1>00, <1>2, <2>2, <2>3, SettlesBound DEF WorstBounded
<1> QED
  BY <1>1, <1>2, ReserveOrSettle

\* The weekly limit of a group without a custom period holds for everything
\* but the first second of the week, as long as no limit is lowered:
\* ReserveRequest checks it before every reservation, and no other row escapes
\* its query.
THEOREM WeekBounded == Spec /\ [][NoLimitLowered]_vars => []WeeklyAfterFirstSecond
<1> DEFINE IInv == Shape /\ HeldBounded /\ WeekHeld
<1>1. Init => IInv
  BY InitShape, InitHeld, InitWeek
<1>2. IInv /\ [Next]_vars /\ [NoLimitLowered]_vars => IInv'
  <2> SUFFICES ASSUME IInv, [Next]_vars, [NoLimitLowered]_vars PROVE IInv'
    OBVIOUS
  <2>0. NoLimitLowered
    BY Unedited
  <2>1. Shape' /\ HeldBounded'
    BY NextShape, NextHeld
  <2>2. WeekHeld'
    BY <2>0, NextWeek
  <2> QED
    BY <2>1, <2>2
<1>3. IInv => WeeklyAfterFirstSecond
  <2> SUFFICES ASSUME IInv, NEW g \in Groups, NEW i \in Counted(g), ~HasPeriod(limits[g])
               PROVE Bounded(WeekWindow(g, i), limits[g].weekly)
    BY DEF WeeklyAfterFirstSecond
  <2>1. WeekWindow(g, i) \subseteq Ids /\ limits[g].weekly \in Nat
    BY DEF WeekWindow, Counted, Billed, Shape, TypeOK, SettingsOK
  <2>2. WorstBounded(WeekWindow(g, i), limits[g].weekly)
    BY DEF WeekHeld
  <2> QED
    BY <2>1, <2>2, WorstThenUsed
<1> HIDE DEF IInv
<1> QED
  BY <1>1, <1>2, <1>3, PTL DEF Spec
=============================================================================
