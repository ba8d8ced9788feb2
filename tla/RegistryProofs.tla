--------------------------- MODULE RegistryProofs ---------------------------
(***************************************************************************)
(* Proofs about Registry, for any set of administrators and requests, any  *)
(* edits they may make and any bound on rows and calls.                    *)
(***************************************************************************)
EXTENDS Registry, FiniteSetTheorems, TLAPS

-----------------------------------------------------------------------------
(* The inductive invariant.                                                *)

\* Calls and goroutines have the fields that their next step reads, and only
\* the holder of Registry.mu is between the two reads of forProvider.
Jobs ==
    /\ DOMAIN op = Admins /\ DOMAIN job = Callers
    /\ \A a \in Admins : "kind" \in DOMAIN op[a]
    /\ \A c \in Callers : "pc" \in DOMAIN job[c]
    /\ \A c \in Callers : job[c].pc = "reading" => mu.by = c
    /\ \A r \in Requests :
          job[r].pc \in {"chosen", "lookup", "reading", "client", "failed"} =>
              "key" \in DOMAIN job[r] /\ "model" \in DOMAIN job[r]

\* A provider's row, and the copy an edit has read, have their credentials.
Credentials(row) == "url" \in DOMAIN row /\ "key" \in DOMAIN row

ProviderRows ==
    /\ \A p \in DOMAIN providers : Credentials(providers[p])
    /\ \A a \in Admins : op[a].kind = "provider" => Credentials(op[a].old)

\* What makes up for a client that is not its provider's.
Excused(p) == (\E a \in Admins : op[a] = Evicting(p)) \/ p \in raced

\* The address that the holder of Registry.mu has read is as good as a cached
\* one: an edit in between evicts, and an eviction waits for Registry.mu.
Fetched ==
    mu.by # None =>
        \/ mu.id \in DOMAIN providers /\ mu.url = providers[mu.id].url
        \/ Excused(mu.id)

\* A token is made once, by the call it is named after.
Tokens ==
    /\ edits \in Nat
    /\ \A k \in DOMAIN keys : /\ keys[k].token \in Nat /\ keys[k].token =< edits
                              /\ "token" \in DOMAIN keys[k]
    /\ \A t \in retired : t \in Nat /\ t =< edits
    /\ \A k, l \in DOMAIN keys : keys[k].token = keys[l].token => k = l

FiniteModels == IsFiniteSet(DOMAIN models)

Inv == /\ Jobs /\ ProviderRows /\ Fetched /\ CacheCurrent
       /\ Tokens /\ RetiredTokensDead /\ ActiveRowsKept /\ FiniteModels

-----------------------------------------------------------------------------
(* What a step leaves alone.                                               *)

\* A call of the administration touches no goroutine and no other call.
LEMMA AdminFrame ==
  ASSUME Jobs, NEW a \in Admins, ServeHTTP(a)
  PROVE /\ UNCHANGED <<mu, job>> /\ DOMAIN op' = Admins /\ "kind" \in DOMAIN op'[a]
        /\ \A b \in Admins : b # a => op'[b] = op[b]
        /\ edits' = edits \/ edits' = edits + 1
  <1> USE DEF Call, Then, Jobs, rows, Idle, Evicting
  <1> DEFINE Framed == /\ UNCHANGED <<mu, job>> /\ DOMAIN op' = Admins /\ "kind" \in DOMAIN op'[a]
                       /\ \A b \in Admins : b # a => op'[b] = op[b]
                       /\ edits' = edits \/ edits' = edits + 1
  <1> SUFFICES Framed
    OBVIOUS
  <1>1. CASE providerCreate(a)
    BY <1>1 DEF providerCreate, CreateProvider
  <1>2. ASSUME NEW kind, NEW table, NEW id, NEW patch, ReadRow(a, kind, table, id, patch)
        PROVE Framed
    BY <1>2 DEF ReadRow
  <1>3. CASE WriteProvider(a)
    BY <1>3 DEF WriteProvider
  <1>4. CASE EvictProvider(a)
    BY <1>4 DEF EvictProvider
  <1>5. ASSUME NEW id \in Rowids, DeleteProvider(a, id) PROVE Framed
    BY <1>5 DEF DeleteProvider
  <1>6. CASE providerImportModels(a)
    <2>1. ASSUME NEW p \in Rowids, NEW chosen, ReadImport(a, p, chosen) PROVE Framed
      BY <2>1 DEF ReadImport
    <2>2. ASSUME NEW i \in Items, ImportItem(a, i) PROVE Framed
      <3> DEFINE rest == [op[a] EXCEPT !.todo = @ \ {i}, !.known = @ \cup {<<op[a].name, i>>}]
      <3>1. /\ op[a].kind = "import" /\ (Then(a, Idle) \/ Then(a, rest))
            /\ UNCHANGED <<providers, clients, mu, job, edits, raced>>
        BY <2>2 DEF ImportItem
      <3>2. "kind" \in DOMAIN rest /\ rest.kind = "import"
        BY <3>1
      <3> HIDE DEF rest
      <3> QED BY <3>1, <3>2
    <2> QED BY <1>6, <2>1, <2>2 DEF providerImportModels
  <1>7. CASE modelCreate(a)
    BY <1>7 DEF modelCreate, CreateModel
  <1>8. CASE WriteModel(a)
    BY <1>8 DEF WriteModel
  <1>9. ASSUME NEW id \in Rowids, DeleteModel(a, id) PROVE Framed
    BY <1>9 DEF DeleteModel
  <1>10. CASE groupCreate(a)
    BY <1>10 DEF groupCreate, CreateModelGroup, FirstMembers
  <1>11. CASE WriteGroup(a)
    BY <1>11 DEF WriteGroup
  <1>12. ASSUME NEW g \in Rowids, NEW members, PutMembers(a, g, members) PROVE Framed
    BY <1>12 DEF PutMembers
  <1>13. ASSUME NEW g \in Rowids, DeleteModelGroup(a, g) PROVE Framed
    BY <1>13 DEF DeleteModelGroup
  <1>14. CASE keyCreate(a)
    BY <1>14 DEF keyCreate, CreateClientKey, FirstGroup
  <1>15. CASE WriteKey(a)
    BY <1>15 DEF WriteKey
  <1>16. ASSUME NEW k \in Rowids, NEW g, PutKeyGroup(a, k, g) PROVE Framed
    BY <1>16 DEF PutKeyGroup
  <1>17. ASSUME NEW k \in Rowids, RotateClientKey(a, k) \/ DeleteClientKey(a, k) PROVE Framed
    BY <1>17 DEF RotateClientKey, DeleteClientKey
  <1> HIDE DEF Framed, Call, Then, Jobs, rows, Idle, Evicting
  <1> QED
    BY <1>1, <1>2, <1>3, <1>4, <1>5, <1>6, <1>7, <1>8, <1>9, <1>10, <1>11, <1>12, <1>13, <1>14,
       <1>15, <1>16, <1>17 DEF ServeHTTP, providerItem, modelItem, groupItem, keyItem

\* The calls that are not about a provider.
OtherCalls(a) ==
    \/ providerImportModels(a) \/ modelCreate(a) \/ modelItem(a) \/ groupCreate(a)
    \/ groupItem(a) \/ keyCreate(a) \/ keyItem(a)

\* They leave providers and clients alone, and no eviction undone.
LEMMA OtherFrame ==
  ASSUME Jobs, NEW a \in Admins, OtherCalls(a)
  PROVE /\ UNCHANGED <<providers, clients, raced>>
        /\ op[a].kind # "evict" /\ op'[a].kind # "provider"
  <1> USE DEF Call, Then, Jobs, rows, Idle
  <1> DEFINE Framed == /\ UNCHANGED <<providers, clients, raced>>
                       /\ op[a].kind # "evict" /\ op'[a].kind # "provider"
  <1> SUFFICES Framed
    OBVIOUS
  <1>1. ASSUME NEW kind \in {"model", "group", "key"}, NEW table, NEW id, NEW patch,
               ReadRow(a, kind, table, id, patch)
        PROVE Framed
    BY <1>1 DEF ReadRow
  <1>2. CASE providerImportModels(a)
    <2>1. ASSUME NEW p \in Rowids, NEW chosen, ReadImport(a, p, chosen) PROVE Framed
      BY <2>1 DEF ReadImport
    <2>2. ASSUME NEW i \in Items, ImportItem(a, i) PROVE Framed
      <3> DEFINE rest == [op[a] EXCEPT !.todo = @ \ {i}, !.known = @ \cup {<<op[a].name, i>>}]
      <3>1. /\ op[a].kind = "import" /\ (Then(a, Idle) \/ Then(a, rest))
            /\ UNCHANGED <<providers, clients, mu, job, edits, raced>>
        BY <2>2 DEF ImportItem
      <3>2. "kind" \in DOMAIN rest /\ rest.kind = "import"
        BY <3>1
      <3> HIDE DEF rest
      <3> QED BY <3>1, <3>2
    <2> QED BY <1>2, <2>1, <2>2 DEF providerImportModels
  <1>3. CASE modelCreate(a)
    BY <1>3 DEF modelCreate, CreateModel
  <1>4. CASE WriteModel(a)
    BY <1>4 DEF WriteModel
  <1>5. ASSUME NEW id \in Rowids, DeleteModel(a, id) PROVE Framed
    BY <1>5 DEF DeleteModel
  <1>6. CASE groupCreate(a)
    BY <1>6 DEF groupCreate, CreateModelGroup, FirstMembers
  <1>7. CASE WriteGroup(a)
    BY <1>7 DEF WriteGroup
  <1>8. ASSUME NEW g \in Rowids, NEW members, PutMembers(a, g, members) PROVE Framed
    BY <1>8 DEF PutMembers
  <1>9. ASSUME NEW g \in Rowids, DeleteModelGroup(a, g) PROVE Framed
    BY <1>9 DEF DeleteModelGroup
  <1>10. CASE keyCreate(a)
    BY <1>10 DEF keyCreate, CreateClientKey, FirstGroup
  <1>11. CASE WriteKey(a)
    BY <1>11 DEF WriteKey
  <1>12. ASSUME NEW k \in Rowids, NEW g, PutKeyGroup(a, k, g) PROVE Framed
    BY <1>12 DEF PutKeyGroup
  <1>13. ASSUME NEW k \in Rowids, RotateClientKey(a, k) \/ DeleteClientKey(a, k) PROVE Framed
    BY <1>13 DEF RotateClientKey, DeleteClientKey
  <1> HIDE DEF Framed, Call, Then, Jobs, rows, Idle
  <1> QED
    BY <1>1, <1>2, <1>3, <1>4, <1>5, <1>6, <1>7, <1>8, <1>9, <1>10,
       <1>11, <1>12, <1>13 DEF OtherCalls, modelItem, groupItem, keyItem

\* A goroutine's step.
CallerStep ==
    \/ \E c \in Callers : LookupStep(c)
    \/ \E r \in Requests : RequestStep(r)
    \/ SyncStep \/ MonitorStep

\* A goroutine edits no provider, group or key and no administrative call.
LEMMA CallerFrame ==
  ASSUME CallerStep
  PROVE UNCHANGED <<providers, groups, keys, op, edits, retired, raced>>
  <1> USE DEF rows
  <1>1. ASSUME NEW c \in Callers, LookupStep(c)
        PROVE UNCHANGED <<providers, groups, keys, op, edits, retired, raced>>
    BY <1>1 DEF LookupStep, LookupHit, LookupRead, LookupInstall, LookupFails
  <1>2. ASSUME NEW r \in Requests, RequestStep(r)
        PROVE UNCHANGED <<providers, groups, keys, op, edits, retired, raced>>
    BY <1>2 DEF RequestStep, authenticate, ChooseModel, Refused, ReserveRequest, FinishRequest
  <1>3. CASE SyncStep
    BY <1>3 DEF SyncStep, SyncStart, SyncNext, SyncSkip, SyncCatalog, SyncCheck, SyncInsert,
                SyncChannelDone
  <1>4. CASE MonitorStep
    BY <1>4 DEF MonitorStep, MonitorStart, MonitorProbe, MonitorProbed, MonitorSave, MonitorDone
  <1> QED BY <1>1, <1>2, <1>3, <1>4 DEF CallerStep

\* The syncer and the monitor are goroutines of their own.
LEMMA CallersAre ==
  /\ "sync" \in Callers /\ "monitor" \in Callers /\ Requests \subseteq Callers
  /\ "sync" \notin Requests /\ "monitor" \notin Requests /\ None \notin Callers
  BY RegistryAssumption DEF Callers

-----------------------------------------------------------------------------
(* Every step keeps every part.                                            *)

\* One goroutine at a time moves on, and only the holder of Registry.mu reads.
LEMMA JobsStep ==
  ASSUME Jobs, [Next]_vars PROVE Jobs'
  <1> USE CallersAre DEF Becomes, Goto, Waiting, Unlocked
  <1>1. ASSUME NEW a \in Admins, ServeHTTP(a) PROVE Jobs'
    BY <1>1, AdminFrame DEF Jobs
  <1>2. ASSUME NEW c \in Callers, LookupStep(c) PROVE Jobs'
    <2>1. CASE LookupHit(c)
      BY <2>1 DEF LookupHit, Jobs
    <2>2. CASE LookupRead(c)
      BY <2>2 DEF LookupRead, Jobs
    <2>3. CASE LookupInstall(c)
      BY <2>3 DEF LookupInstall, Jobs
    <2>4. CASE LookupFails(c)
      BY <2>4 DEF LookupFails, Jobs
    <2> QED BY <1>2, <2>1, <2>2, <2>3, <2>4 DEF LookupStep
  <1>3. ASSUME NEW r \in Requests, RequestStep(r) PROVE Jobs'
    <2>1. ASSUME NEW k \in Rowids, authenticate(r, k) PROVE Jobs'
      BY <2>1 DEF authenticate, Jobs
    <2>2. ASSUME NEW m \in Rowids, ChooseModel(r, m) PROVE Jobs'
      BY <2>2 DEF ChooseModel, Jobs
    <2>3. CASE Refused(r)
      BY <2>3 DEF Refused, Jobs
    <2>4. CASE ReserveRequest(r)
      BY <2>4 DEF ReserveRequest, Jobs
    <2>5. CASE FinishRequest(r)
      BY <2>5 DEF FinishRequest, Jobs
    <2> QED BY <1>3, <2>1, <2>2, <2>3, <2>4, <2>5 DEF RequestStep
  <1>4. CASE SyncStep
    <2>1. CASE SyncStart
      BY <2>1 DEF SyncStart, Jobs
    <2>2. CASE SyncNext
      BY <2>2 DEF SyncNext, Jobs
    <2>3. CASE SyncSkip
      BY <2>3 DEF SyncSkip, Jobs
    <2>4. ASSUME NEW items \in SUBSET Items, SyncCatalog(items) PROVE Jobs'
      BY <2>4 DEF SyncCatalog, Jobs
    <2>5. ASSUME NEW i \in Items, SyncCheck(i) PROVE Jobs'
      BY <2>5 DEF SyncCheck, Jobs
    <2>6. CASE SyncInsert
      BY <2>6 DEF SyncInsert, Jobs
    <2>7. CASE SyncChannelDone
      BY <2>7 DEF SyncChannelDone, Jobs
    <2> QED BY <1>4, <2>1, <2>2, <2>3, <2>4, <2>5, <2>6, <2>7 DEF SyncStep
  <1>5. CASE MonitorStep
    <2>1. ASSUME NEW gs, MonitorStart(gs) PROVE Jobs'
      BY <2>1 DEF MonitorStart, Jobs
    <2>2. ASSUME NEW x \in Rowids \X Rowids, MonitorProbe(x) PROVE Jobs'
      BY <2>2 DEF MonitorProbe, Jobs
    <2>3. ASSUME NEW ok \in BOOLEAN, MonitorProbed(ok) PROVE Jobs'
      BY <2>3 DEF MonitorProbed, Jobs
    <2>4. CASE MonitorSave
      BY <2>4 DEF MonitorSave, Jobs
    <2>5. CASE MonitorDone
      BY <2>5 DEF MonitorDone, Jobs
    <2> QED BY <1>5, <2>1, <2>2, <2>3, <2>4, <2>5 DEF MonitorStep
  <1>6. CASE UNCHANGED vars
    BY <1>6 DEF vars, Jobs
  <1> QED BY <1>1, <1>2, <1>3, <1>4, <1>5, <1>6 DEF Next

\* Rows are written with all of their columns.
LEMMA ProviderRowsStep ==
  ASSUME Jobs, ProviderRows, [Next]_vars PROVE ProviderRows'
  <1>1. ASSUME NEW a \in Admins, ServeHTTP(a) PROVE ProviderRows'
    <2> USE DEF ProviderRows, Credentials
    <2>0. \A b \in Admins : b # a => op'[b] = op[b]
      BY <1>1, AdminFrame
    <2>1. ASSUME NEW row \in NewProviders, CreateProvider(a, row) PROVE ProviderRows'
      BY <2>1, RegistryAssumption DEF CreateProvider, Insert
    <2>2. ASSUME NEW id \in Rowids, NEW patch, ReadRow(a, "provider", providers, id, patch)
          PROVE ProviderRows'
      BY <2>0, <2>2 DEF ReadRow, Then, Jobs, rows
    <2>3. CASE WriteProvider(a)
      BY <2>0, <2>3 DEF WriteProvider, Patched, Evicting, Idle, Then, Jobs
    <2>4. CASE EvictProvider(a)
      BY <2>0, <2>4 DEF EvictProvider, Idle, Then, Jobs, rows
    <2>5. ASSUME NEW id \in Rowids, DeleteProvider(a, id) PROVE ProviderRows'
      BY <2>0, <2>5 DEF DeleteProvider, Without, Evicting, Then, Jobs
    <2>6. CASE OtherCalls(a)
      BY <2>0, <2>6, OtherFrame
    <2> HIDE DEF ProviderRows
    <2> QED BY <1>1, <2>1, <2>2, <2>3, <2>4, <2>5, <2>6
            DEF ServeHTTP, providerCreate, providerItem, OtherCalls
  <1>2. CASE CallerStep
    BY <1>2, CallerFrame DEF ProviderRows
  <1>3. CASE UNCHANGED vars
    BY <1>3 DEF vars, rows, ProviderRows
  <1> QED BY <1>1, <1>2, <1>3 DEF Next, CallerStep

\* An eviction to come is only taken back by the call that evicts.
LEMMA ExcusedKept ==
  ASSUME NEW a \in Admins, op[a].kind # "evict", \A b \in Admins : b # a => op'[b] = op[b],
         raced \subseteq raced', NEW p, Excused(p)
  PROVE Excused(p)'
  BY DEF Excused, Evicting

\* A goroutine fetches an address and installs a client; nothing else about
\* the cache changes.
LEMMA CallerCache ==
  ASSUME Jobs, CallerStep
  PROVE \/ UNCHANGED <<clients, mu>>
        \/ mu' = Unlocked /\ UNCHANGED clients
        \/ \E c \in Callers : LookupRead(c)
        \/ \E c \in Callers : LookupInstall(c)
  <1> USE DEF rows
  <1>1. CASE \E c \in Callers : LookupStep(c)
    BY <1>1 DEF LookupStep, LookupHit, LookupFails
  <1>2. CASE \E r \in Requests : RequestStep(r)
    BY <1>2 DEF RequestStep, authenticate, ChooseModel, Refused, ReserveRequest, FinishRequest
  <1>3. CASE SyncStep
    BY <1>3 DEF SyncStep, SyncStart, SyncNext, SyncSkip, SyncCatalog, SyncCheck, SyncInsert,
                SyncChannelDone
  <1>4. CASE MonitorStep
    BY <1>4 DEF MonitorStep, MonitorStart, MonitorProbe, MonitorProbed, MonitorSave, MonitorDone
  <1> QED BY <1>1, <1>2, <1>3, <1>4 DEF CallerStep

\* An UPDATE of a provider that leaves its eviction out has the credentials of
\* the row it replaces, or is a raced one.
LEMMA WrittenProvider ==
  ASSUME Jobs, ProviderRows, NEW a \in Admins, WriteProvider(a)
  PROVE /\ DOMAIN providers' = DOMAIN providers
        /\ \A p \in DOMAIN providers :
              \/ providers'[p].url = providers[p].url /\ providers'[p].key = providers[p].key
              \/ Excused(p)'
        /\ raced \subseteq raced' /\ op[a].kind # "evict" /\ UNCHANGED <<clients, mu>>
  <1> DEFINE o == op[a]
             row == Patched(o.old, o.patch)
             taken == o.id \in DOMAIN providers
                      /\ \E p \in DOMAIN providers \ {o.id} : providers[p].name = row.name
             stale == o.id \in DOMAIN providers
                      /\ <<providers[o.id].url, providers[o.id].key>> # <<o.old.url, o.old.key>>
  <1>1. /\ o.kind = "provider"
        /\ providers' = IF o.id \in DOMAIN providers /\ ~taken
                        THEN [providers EXCEPT ![o.id] = row] ELSE providers
        /\ raced' = IF stale /\ ~taken THEN raced \cup {o.id} ELSE raced
        /\ op' = [op EXCEPT ![a] = IF ~taken /\ NeedsEvict(o) THEN Evicting(o.id) ELSE Idle]
        /\ UNCHANGED <<clients, mu>>
    BY DEF WriteProvider, Then
  <1>2. Credentials(o.old)
    BY <1>1 DEF ProviderRows
  <1> HIDE DEF taken
  <1>3. CASE taken \/ o.id \notin DOMAIN providers
    BY <1>1, <1>3
  <1>4. CASE ~taken /\ o.id \in DOMAIN providers /\ NeedsEvict(o)
    <2>1. op'[a] = Evicting(o.id)
      BY <1>1, <1>4 DEF Jobs
    <2>2. \A p : p = o.id => Excused(p)'
      BY <2>1 DEF Excused, Evicting
    <2> HIDE DEF row, o, stale
    <2>3. \A p \in DOMAIN providers : p # o.id => providers'[p] = providers[p]
      BY <1>1, <1>4
    <2> QED BY <1>1, <1>4, <2>2, <2>3 DEF o
  <1>5. CASE ~taken /\ o.id \in DOMAIN providers /\ ~NeedsEvict(o)
    <2>1. row.url = o.old.url /\ row.key = o.old.key
      BY <1>2, <1>5 DEF NeedsEvict, Patched, Credentials
    <2>2. CASE stale
      <3>1. \A p : p = o.id => Excused(p)'
        BY <1>1, <1>5, <2>2 DEF Excused
      <3> QED BY <1>1, <1>5, <3>1
    <2>3. CASE ~stale
      <3> HIDE DEF row
      <3> QED BY <1>1, <1>5, <2>1, <2>3
    <2> QED BY <2>2, <2>3
  <1> QED BY <1>3, <1>4, <1>5

\* What the holder of Registry.mu has read stays as good as a cached client.
LEMMA FetchedStep ==
  ASSUME Jobs, ProviderRows, Fetched, [Next]_vars PROVE Fetched'
  <1>1. ASSUME NEW a \in Admins, ServeHTTP(a) PROVE Fetched'
    <2>0. mu' = mu /\ \A b \in Admins : b # a => op'[b] = op[b]
      BY <1>1, AdminFrame
    <2>1. ASSUME NEW row \in NewProviders, CreateProvider(a, row) PROVE Fetched'
      BY <2>1 DEF CreateProvider, Insert, Fetched, Excused
    <2>2. ASSUME NEW id \in Rowids, NEW patch, ReadRow(a, "provider", providers, id, patch)
          PROVE Fetched'
      <3>1. op[a].kind # "evict" /\ UNCHANGED <<providers, raced>>
        BY <2>2 DEF ReadRow, Call, Idle, rows
      <3> QED BY <2>0, <3>1, ExcusedKept DEF Fetched
    <2>3. CASE WriteProvider(a)
      <3>1. Excused(mu.id) => Excused(mu.id)'
        <4> SUFFICES ASSUME NEW p, p = mu.id, Excused(p) PROVE Excused(p)'
          BY <2>0
        <4> QED BY <2>0, <2>3, WrittenProvider, ExcusedKept
      <3>2. mu.id \in DOMAIN providers => \/ providers'[mu.id].url = providers[mu.id].url
                                          \/ Excused(mu.id)'
        <4> SUFFICES ASSUME NEW p, p = mu.id, p \in DOMAIN providers
                     PROVE providers'[p].url = providers[p].url \/ Excused(p)'
          BY <2>0
        <4> QED BY <2>3, WrittenProvider
      <3> QED BY <2>0, <2>3, <3>1, <3>2, WrittenProvider DEF Fetched
    <2>4. CASE EvictProvider(a)
      BY <2>4 DEF EvictProvider, Fetched
    <2>5. ASSUME NEW id \in Rowids, DeleteProvider(a, id) PROVE Fetched'
      <3>1. op[a].kind # "evict" /\ raced' = raced /\ op'[a] = Evicting(id)
        BY <2>5 DEF DeleteProvider, Call, Idle, Then, Jobs
      <3>2. Excused(id)'
        BY <3>1 DEF Excused, Evicting
      <3>3. \A p \in DOMAIN providers : p # id => p \in DOMAIN providers' /\ providers'[p] = providers[p]
        BY <2>5 DEF DeleteProvider, Without
      <3>4. \A p : Excused(p) => Excused(p)'
        BY <2>0, <3>1, ExcusedKept
      <3> QED BY <2>0, <3>2, <3>3, <3>4 DEF Fetched
    <2>6. CASE OtherCalls(a)
      BY <2>0, <2>6, OtherFrame, ExcusedKept DEF Fetched
    <2> QED BY <1>1, <2>1, <2>2, <2>3, <2>4, <2>5, <2>6
            DEF ServeHTTP, providerCreate, providerItem, OtherCalls
  <1>2. CASE CallerStep
    <2>1. UNCHANGED <<providers, op, raced>>
      BY <1>2, CallerFrame
    <2>2. CASE \E c \in Callers : LookupRead(c)
      BY <2>1, <2>2 DEF LookupRead, Fetched
    <2>3. CASE \E c \in Callers : LookupInstall(c)
      BY <2>3 DEF LookupInstall, Unlocked, Fetched
    <2>4. CASE UNCHANGED mu
      BY <2>1, <2>4 DEF Fetched, Excused
    <2>5. CASE mu' = Unlocked
      BY <2>5 DEF Fetched, Unlocked
    <2> QED BY <1>2, <2>2, <2>3, <2>4, <2>5, CallerCache
  <1>3. CASE UNCHANGED vars
    BY <1>3 DEF vars, rows, Fetched, Excused
  <1> QED BY <1>1, <1>2, <1>3 DEF Next, CallerStep

\* A cached client is current, or has its eviction coming.
Cached(p) ==
    \/ p \in DOMAIN providers /\ clients[p] = [url |-> providers[p].url, key |-> providers[p].key]
    \/ Excused(p)

\* CacheCurrent, client by client.
LEMMA CacheIs == CacheCurrent <=> \A p \in DOMAIN clients : Cached(p)
  BY DEF CacheCurrent, Cached, Excused

\* Every step leaves every cached client current or excused.
LEMMA CacheCurrentStep ==
  ASSUME Jobs, ProviderRows, Fetched, CacheCurrent, [Next]_vars PROVE CacheCurrent'
  <1> SUFFICES ASSUME NEW p \in DOMAIN clients' PROVE Cached(p)'
    BY DEF CacheCurrent, Cached, Excused
  <1>0. \A q \in DOMAIN clients : Cached(q)
    BY CacheIs
  <1>1. ASSUME NEW a \in Admins, ServeHTTP(a) PROVE Cached(p)'
    <2>0. \A b \in Admins : b # a => op'[b] = op[b]
      BY <1>1, AdminFrame
    <2>1. ASSUME NEW row \in NewProviders, CreateProvider(a, row) PROVE Cached(p)'
      BY <1>0, <2>1 DEF CreateProvider, Insert, Cached, Excused
    <2>2. ASSUME NEW id \in Rowids, NEW patch, ReadRow(a, "provider", providers, id, patch)
          PROVE Cached(p)'
      <3>1. op[a].kind # "evict" /\ UNCHANGED <<providers, clients, raced>>
        BY <2>2 DEF ReadRow, Call, Idle, rows
      <3> QED BY <1>0, <2>0, <3>1, ExcusedKept DEF Cached
    <2>3. CASE WriteProvider(a)
      BY <1>0, <2>0, <2>3, WrittenProvider, ExcusedKept DEF Cached
    <2>4. CASE EvictProvider(a)
      <3>1. p # op[a].id /\ p \in DOMAIN clients /\ clients'[p] = clients[p] /\ providers' = providers
        BY <2>4 DEF EvictProvider, Without, rows
      <3>2. Excused(p) => Excused(p)'
        BY <2>0, <2>4, <3>1 DEF EvictProvider, Excused, Evicting
      <3> QED BY <1>0, <3>1, <3>2 DEF Cached
    <2>5. ASSUME NEW id \in Rowids, DeleteProvider(a, id) PROVE Cached(p)'
      <3>1. op[a].kind # "evict" /\ UNCHANGED <<raced, clients>> /\ op'[a] = Evicting(id)
        BY <2>5 DEF DeleteProvider, Call, Idle, Then, Jobs
      <3>2. Excused(id)'
        BY <3>1 DEF Excused, Evicting
      <3>3. p # id /\ p \in DOMAIN providers => p \in DOMAIN providers' /\ providers'[p] = providers[p]
        BY <2>5 DEF DeleteProvider, Without
      <3>4. Excused(p) => Excused(p)'
        BY <2>0, <3>1, ExcusedKept
      <3> QED BY <1>0, <3>1, <3>2, <3>3, <3>4 DEF Cached
    <2>6. CASE OtherCalls(a)
      BY <1>0, <2>0, <2>6, OtherFrame, ExcusedKept DEF Cached
    <2> QED BY <1>1, <2>1, <2>2, <2>3, <2>4, <2>5, <2>6
            DEF ServeHTTP, providerCreate, providerItem, OtherCalls
  <1>2. CASE CallerStep
    <2>1. UNCHANGED <<providers, op, raced>>
      BY <1>2, CallerFrame
    <2>2. ASSUME NEW c \in Callers, LookupInstall(c) PROVE Cached(p)'
      <3>1. mu.by # None
        BY <2>2, CallersAre DEF LookupInstall, Jobs
      <3>2. CASE p = mu.id
        BY <2>1, <2>2, <3>1, <3>2 DEF LookupInstall, Fetched, Cached, Excused
      <3>3. CASE p # mu.id
        BY <1>0, <2>1, <2>2, <3>3 DEF LookupInstall, Cached, Excused
      <3> QED BY <3>2, <3>3
    <2>3. CASE UNCHANGED clients
      BY <1>0, <2>1, <2>3 DEF Cached, Excused
    <2>4. CASE \E c \in Callers : LookupRead(c)
      BY <2>3, <2>4 DEF LookupRead
    <2> QED BY <1>2, <2>2, <2>3, <2>4, CallerCache
  <1>3. CASE UNCHANGED vars
    BY <1>0, <1>3 DEF vars, rows, Cached, Excused
  <1> QED BY <1>1, <1>2, <1>3 DEF Next, CallerStep

\* What a call does to the keys: it makes one with a new token, gives one a new
\* token, deletes one, or changes other columns.
SameTokens ==
    /\ DOMAIN keys' = DOMAIN keys /\ retired' = retired
    /\ \A k \in DOMAIN keys : "token" \in DOMAIN keys'[k] /\ keys'[k].token = keys[k].token

NewToken(id) ==
    /\ id \in DOMAIN keys' /\ edits' = edits + 1
    /\ "token" \in DOMAIN keys'[id] /\ keys'[id].token = edits + 1
    /\ \A k \in DOMAIN keys' : k # id => k \in DOMAIN keys /\ keys'[k] = keys[k]
    /\ retired' \subseteq retired \cup {keys[k].token : k \in {id} \cap DOMAIN keys}

OneDeleted(id) ==
    /\ id \in DOMAIN keys /\ id \notin DOMAIN keys' /\ DOMAIN keys' \subseteq DOMAIN keys
    /\ \A k \in DOMAIN keys' : keys'[k] = keys[k]
    /\ retired' = retired \cup {keys[id].token}

\* These are the only ways in which a call changes tokens.
LEMMA KeysFrame ==
  ASSUME Jobs, Tokens, NEW a \in Admins, ServeHTTP(a)
  PROVE \/ SameTokens \/ \E id : NewToken(id) \/ OneDeleted(id)
  <1> USE DEF Call, Tokens
  <1> DEFINE Framed == SameTokens \/ \E id : NewToken(id) \/ OneDeleted(id)
  <1> SUFFICES Framed
    OBVIOUS
  <1>0. UNCHANGED <<keys, retired>> => Framed
    BY DEF SameTokens
  <1>1. CASE providerCreate(a)
    BY <1>0, <1>1 DEF providerCreate, CreateProvider
  <1>2. ASSUME NEW kind, NEW table, NEW id, NEW patch, ReadRow(a, kind, table, id, patch)
        PROVE Framed
    BY <1>0, <1>2 DEF ReadRow, rows
  <1>3. CASE WriteProvider(a) \/ EvictProvider(a) \/ \E id \in Rowids : DeleteProvider(a, id)
    BY <1>0, <1>3 DEF WriteProvider, EvictProvider, DeleteProvider, rows
  <1>4. CASE providerImportModels(a)
    BY <1>0, <1>4 DEF providerImportModels, ReadImport, ImportItem, rows
  <1>5. CASE modelCreate(a)
    BY <1>0, <1>5 DEF modelCreate, CreateModel
  <1>6. CASE WriteModel(a) \/ \E id \in Rowids : DeleteModel(a, id)
    BY <1>0, <1>6 DEF WriteModel, DeleteModel
  <1>7. CASE groupCreate(a)
    BY <1>0, <1>7 DEF groupCreate, CreateModelGroup, FirstMembers
  <1>8. CASE WriteGroup(a) \/ \E g \in Rowids, members \in SUBSET Rowids : PutMembers(a, g, members)
    BY <1>0, <1>8 DEF WriteGroup, PutMembers
  <1>9. ASSUME NEW g \in Rowids, DeleteModelGroup(a, g) PROVE Framed
    BY <1>9 DEF DeleteModelGroup, SameTokens
  <1>10. ASSUME NEW g, CreateClientKey(a, g) PROVE Framed
    <2> DEFINE new == NextId(keys)
               row == [token |-> edits', enabled |-> TRUE, group |-> None]
    <2>1. /\ keys' = [i \in DOMAIN keys \cup {new} |-> IF i \in DOMAIN keys THEN keys[i] ELSE row]
          /\ edits' = edits + 1 /\ retired' = retired
      BY <1>10 DEF CreateClientKey, Insert
    <2>2. "token" \in DOMAIN row /\ row.token = edits'
      OBVIOUS
    <2> HIDE DEF row, new
    <2>3. CASE new \in DOMAIN keys
      BY <2>1, <2>3 DEF SameTokens
    <2>4. CASE new \notin DOMAIN keys
      BY <2>1, <2>2, <2>4 DEF NewToken
    <2> QED BY <2>3, <2>4
  <1>11. CASE FirstGroup(a)
    BY <1>11 DEF FirstGroup, SetKeyGroup, SameTokens
  <1>12. CASE WriteKey(a)
    BY <1>12 DEF WriteKey, SameTokens
  <1>13. ASSUME NEW k \in Rowids, NEW g, PutKeyGroup(a, k, g) PROVE Framed
    BY <1>13 DEF PutKeyGroup, SetKeyGroup, SameTokens
  <1>14. ASSUME NEW k \in Rowids, RotateClientKey(a, k) PROVE Framed
    <2>1. NewToken(k)
      BY <1>14 DEF RotateClientKey, NewToken
    <2> QED BY <2>1
  <1>15. ASSUME NEW k \in Rowids, DeleteClientKey(a, k) PROVE Framed
    <2>1. OneDeleted(k)
      BY <1>15 DEF DeleteClientKey, Without, OneDeleted
    <2> QED BY <2>1
  <1> HIDE DEF Framed, Call, Tokens
  <1> QED
    BY <1>1, <1>2, <1>3, <1>4, <1>5, <1>6, <1>7, <1>8, <1>9, <1>10, <1>11, <1>12, <1>13, <1>14, <1>15
    DEF ServeHTTP, providerItem, modelItem, groupItem, keyCreate, keyItem

\* Tokens are made once, and a retired one is never in a row again.
LEMMA TokensStep ==
  ASSUME Jobs, Tokens, RetiredTokensDead, [Next]_vars
  PROVE Tokens' /\ RetiredTokensDead'
  <1>1. ASSUME NEW a \in Admins, ServeHTTP(a) PROVE Tokens' /\ RetiredTokensDead'
    <2>1. edits' = edits \/ edits' = edits + 1
      BY <1>1, AdminFrame
    <2>2. CASE SameTokens
      BY <2>1, <2>2 DEF SameTokens, Tokens, RetiredTokensDead
    <2>3. ASSUME NEW id, NewToken(id) PROVE Tokens' /\ RetiredTokensDead'
      <3>1. \A t \in retired' : t \in Nat /\ t =< edits
        BY <2>3 DEF NewToken, Tokens
      <3>2. Tokens'
        BY <2>3, <3>1 DEF NewToken, Tokens
      <3>3. ASSUME NEW k \in DOMAIN keys' PROVE keys'[k].token \notin retired'
        <4>1. CASE k = id
          BY <2>3, <3>1, <4>1 DEF NewToken, Tokens
        <4>2. CASE k # id
          BY <2>3, <4>2 DEF NewToken, Tokens, RetiredTokensDead
        <4> QED BY <4>1, <4>2
      <3> QED BY <3>2, <3>3 DEF RetiredTokensDead
    <2>4. ASSUME NEW id, OneDeleted(id) PROVE Tokens' /\ RetiredTokensDead'
      <3>1. Tokens'
        BY <2>1, <2>4 DEF OneDeleted, Tokens
      <3>2. RetiredTokensDead'
        BY <2>4 DEF OneDeleted, Tokens, RetiredTokensDead
      <3> QED BY <3>1, <3>2
    <2> QED BY <1>1, <2>2, <2>3, <2>4, KeysFrame
  <1>2. CASE CallerStep
    BY <1>2, CallerFrame DEF Tokens, RetiredTokensDead
  <1>3. CASE UNCHANGED vars
    BY <1>3 DEF vars, rows, Tokens, RetiredTokensDead
  <1> QED BY <1>1, <1>2, <1>3 DEF Next, CallerStep

\* No call takes a row from a reservation under way, and it adds at most one
\* model.
RowsStay ==
    /\ \A r \in Requests : Active(r) =>
          /\ job[r].key \in DOMAIN keys => job[r].key \in DOMAIN keys'
          /\ job[r].model \in DOMAIN models => job[r].model \in DOMAIN models'
    /\ DOMAIN models' \subseteq DOMAIN models \cup {NextId(models)}

\* Deletes go through Deletable, so RowsStay holds of every call.
LEMMA RowsFrame ==
  ASSUME NEW a \in Admins, ServeHTTP(a)
  PROVE RowsStay
  <1>0. UNCHANGED <<keys, models>> => RowsStay
    BY DEF RowsStay
  <1>1. CASE providerCreate(a)
    BY <1>0, <1>1 DEF providerCreate, CreateProvider
  <1>2. ASSUME NEW kind, NEW table, NEW id, NEW patch, ReadRow(a, kind, table, id, patch)
        PROVE RowsStay
    BY <1>0, <1>2 DEF ReadRow, rows
  <1>3. CASE WriteProvider(a) \/ EvictProvider(a)
    BY <1>0, <1>3 DEF WriteProvider, EvictProvider, rows
  <1>4. ASSUME NEW id \in Rowids, DeleteProvider(a, id) PROVE RowsStay
    BY <1>4 DEF DeleteProvider, Deletable, Without, RowsStay
  <1>5. ASSUME NEW p, NEW chosen, ReadImport(a, p, chosen) PROVE RowsStay
    BY <1>0, <1>5 DEF ReadImport, rows
  <1>6. ASSUME NEW i \in Items, ImportItem(a, i) PROVE RowsStay
    BY <1>6 DEF ImportItem, Insert, RowsStay
  <1>7. ASSUME NEW row, CreateModel(a, row) PROVE RowsStay
    BY <1>7 DEF CreateModel, Insert, RowsStay
  <1>8. CASE WriteModel(a)
    BY <1>8 DEF WriteModel, RowsStay
  <1>9. ASSUME NEW id \in Rowids, DeleteModel(a, id) PROVE RowsStay
    BY <1>9 DEF DeleteModel, Deletable, Without, RowsStay
  <1>10. CASE groupCreate(a)
    BY <1>0, <1>10 DEF groupCreate, CreateModelGroup, FirstMembers
  <1>11. CASE WriteGroup(a)
    BY <1>0, <1>11 DEF WriteGroup
  <1>12. ASSUME NEW g, NEW members, PutMembers(a, g, members) PROVE RowsStay
    BY <1>0, <1>12 DEF PutMembers
  <1>13. ASSUME NEW g, DeleteModelGroup(a, g) PROVE RowsStay
    BY <1>13 DEF DeleteModelGroup, RowsStay
  <1>14. ASSUME NEW g, CreateClientKey(a, g) PROVE RowsStay
    BY <1>14 DEF CreateClientKey, Insert, RowsStay
  <1>15. CASE FirstGroup(a)
    BY <1>15 DEF FirstGroup, SetKeyGroup, RowsStay
  <1>16. CASE WriteKey(a)
    BY <1>16 DEF WriteKey, RowsStay
  <1>17. ASSUME NEW k, NEW g, PutKeyGroup(a, k, g) PROVE RowsStay
    BY <1>17 DEF PutKeyGroup, SetKeyGroup, RowsStay
  <1>18. ASSUME NEW k, RotateClientKey(a, k) PROVE RowsStay
    BY <1>18 DEF RotateClientKey, RowsStay
  <1>19. ASSUME NEW k, DeleteClientKey(a, k) PROVE RowsStay
    BY <1>19 DEF DeleteClientKey, Deletable, Without, RowsStay
  <1> QED
    BY <1>1, <1>2, <1>3, <1>4, <1>5, <1>6, <1>7, <1>8, <1>9, <1>10, <1>11, <1>12, <1>13, <1>14,
       <1>15, <1>16, <1>17, <1>18, <1>19
    DEF ServeHTTP, providerItem, providerImportModels, modelCreate, modelItem, groupItem, keyCreate,
        keyItem

\* A goroutine adds at most one model, the syncer an imported one.
LEMMA CallerModels ==
  ASSUME CallerStep
  PROVE \/ UNCHANGED models
        \/ SyncStep /\ \E p, n : models' = Insert(models, Imported(p, n))
  <1> USE DEF rows
  <1>1. ASSUME NEW c \in Callers, LookupStep(c) PROVE UNCHANGED models
    BY <1>1 DEF LookupStep, LookupHit, LookupRead, LookupInstall, LookupFails
  <1>2. ASSUME NEW r \in Requests, RequestStep(r) PROVE UNCHANGED models
    BY <1>2 DEF RequestStep, authenticate, ChooseModel, Refused, ReserveRequest, FinishRequest
  <1>3. CASE SyncInsert
    <2>1. models' = models
          \/ models' = Insert(models, Imported(job["sync"].id, <<job["sync"].name, job["sync"].item>>))
      BY <1>3 DEF SyncInsert
    <2> QED BY <1>3, <2>1 DEF SyncStep
  <1>4. CASE SyncStep /\ ~SyncInsert
    BY <1>4 DEF SyncStep, SyncStart, SyncNext, SyncSkip, SyncCatalog, SyncCheck, SyncChannelDone
  <1>5. CASE MonitorStep
    BY <1>5 DEF MonitorStep, MonitorStart, MonitorProbe, MonitorProbed, MonitorSave, MonitorDone
  <1> QED BY <1>1, <1>2, <1>3, <1>4, <1>5 DEF CallerStep

\* There are finitely many models at any time.
LEMMA FiniteModelsStep ==
  ASSUME FiniteModels, [Next]_vars PROVE FiniteModels'
  <1>1. DOMAIN models' \subseteq DOMAIN models \cup {NextId(models)}
    <2>1. CASE \E a \in Admins : ServeHTTP(a)
      BY <2>1, RowsFrame DEF RowsStay
    <2>2. CASE CallerStep
      BY <2>2, CallerModels DEF Insert
    <2>3. CASE UNCHANGED vars
      BY <2>3 DEF vars, rows
    <2> QED BY <2>1, <2>2, <2>3 DEF Next, CallerStep
  <1>2. IsFiniteSet(DOMAIN models \cup {NextId(models)})
    BY FS_AddElement DEF FiniteModels
  <1> QED BY <1>1, <1>2, FS_Subset DEF FiniteModels

\* A reservation keeps its key and its model.
LEMMA ActiveRowsKeptStep ==
  ASSUME Jobs, ActiveRowsKept, [Next]_vars PROVE ActiveRowsKept'
  <1> USE CallersAre DEF Becomes, Goto, Waiting
  <1>1. ASSUME NEW a \in Admins, ServeHTTP(a) PROVE ActiveRowsKept'
    BY <1>1, AdminFrame, RowsFrame DEF RowsStay, ActiveRowsKept, Active
  <1>2. CASE CallerStep
    <2>1. keys' = keys /\ DOMAIN models \subseteq DOMAIN models'
      BY <1>2, CallerFrame, CallerModels DEF Insert
    <2>2. ASSUME NEW r \in Requests, UNCHANGED job[r], Active(r)'
          PROVE job'[r].key \in DOMAIN keys' /\ job'[r].model \in DOMAIN models'
      BY <2>1, <2>2 DEF ActiveRowsKept, Active
    <2>3. ASSUME NEW c \in Callers, LookupStep(c) PROVE ActiveRowsKept'
      <3>1. PICK pc \in {"client", "reading", "failed"} : Goto(c, pc) /\ job[c].pc \in {"lookup", "reading"}
        BY <2>3 DEF LookupStep, LookupHit, LookupRead, LookupInstall, LookupFails
      <3>2. c \in Requests => job'[c].key = job[c].key /\ job'[c].model = job[c].model /\ Active(c)
        BY <3>1 DEF Jobs, Active
      <3>3. \A r \in Requests : r # c => UNCHANGED job[r]
        BY <3>1 DEF Jobs
      <3> QED BY <2>1, <2>2, <3>2, <3>3 DEF ActiveRowsKept
    <2>4. ASSUME NEW r \in Requests, RequestStep(r) PROVE ActiveRowsKept'
      <3>0. \A s \in Requests : s # r => UNCHANGED job[s]
        BY <2>4 DEF Jobs, RequestStep, authenticate, ChooseModel, Refused, ReserveRequest, FinishRequest
      <3>1. CASE ReserveRequest(r)
        <4>1. /\ job'[r].key = job[r].key /\ job'[r].model = job[r].model
              /\ job[r].key \in DOMAIN keys /\ job[r].model \in DOMAIN models
          BY <3>1 DEF ReserveRequest, Admits, Jobs
        <4> QED BY <2>1, <2>2, <3>0, <4>1 DEF ActiveRowsKept
      <3>2. CASE ~ReserveRequest(r)
        <4>1. ~Active(r)'
          BY <2>4, <3>2 DEF RequestStep, authenticate, ChooseModel, Refused, FinishRequest, Jobs, Active
        <4> QED BY <2>1, <2>2, <3>0, <4>1 DEF ActiveRowsKept
      <3> QED BY <3>1, <3>2
    <2>5. CASE SyncStep \/ MonitorStep
      <3>1. \A r \in Requests : UNCHANGED job[r]
        <4>1. CASE SyncStep
          BY <4>1 DEF Jobs, SyncStep, SyncStart, SyncNext, SyncSkip, SyncCatalog, SyncCheck,
                      SyncInsert, SyncChannelDone
        <4>2. CASE MonitorStep
          BY <4>2 DEF Jobs, MonitorStep, MonitorStart, MonitorProbe, MonitorProbed, MonitorSave,
                      MonitorDone
        <4> QED BY <2>5, <4>1, <4>2
      <3> QED BY <2>2, <3>1 DEF ActiveRowsKept
    <2> QED BY <1>2, <2>3, <2>4, <2>5 DEF CallerStep
  <1>3. CASE UNCHANGED vars
    BY <1>3 DEF vars, rows, ActiveRowsKept, Active
  <1> QED BY <1>1, <1>2, <1>3 DEF Next, CallerStep

-----------------------------------------------------------------------------
(* The invariant, and what follows from it.                                *)

\* The installation at the start satisfies the invariant.
LEMMA InitInv ==
  ASSUME Init PROVE Inv
  <1>1. Jobs
    BY CallersAre DEF Init, Jobs, Idle, Waiting, Unlocked
  <1>2. ProviderRows
    BY RegistryAssumption DEF Init, ProviderRows, Credentials, Idle
  <1>3. Fetched /\ CacheCurrent
    BY DEF Init, Fetched, CacheCurrent, Unlocked
  <1>4. Tokens /\ RetiredTokensDead
    BY DEF Init, Tokens, RetiredTokensDead
  <1>5. ActiveRowsKept
    BY CallersAre DEF Init, ActiveRowsKept, Active, Waiting
  <1>6. FiniteModels
    <2>1. DOMAIN models = {1}
      BY DEF Init
    <2> QED BY <2>1, FS_Singleton DEF FiniteModels
  <1> QED BY <1>1, <1>2, <1>3, <1>4, <1>5, <1>6 DEF Inv

\* Every step keeps it.
LEMMA NextInv ==
  ASSUME Inv, [Next]_vars PROVE Inv'
  BY JobsStep, ProviderRowsStep, FetchedStep, CacheCurrentStep, TokensStep, ActiveRowsKeptStep,
     FiniteModelsStep DEF Inv

\* The invariant holds in every reachable state.
THEOREM InvHolds == Spec => []Inv
  <1>1. Init => Inv
    BY InitInv
  <1>2. Inv /\ [Next]_vars => Inv'
    BY NextInv
  <1> QED BY <1>1, <1>2, PTL DEF Spec

\* The two queries agree wherever there are finitely many models.
LEMMA InvMonitorAgrees ==
  ASSUME FiniteModels PROVE MonitorAgrees
  <1> SUFFICES ASSUME NEW k \in DOMAIN keys, keys[k].group \in DOMAIN groups
               PROVE ConfigStatus(keys[k].group) # "ok" <=> Offered(k) = {}
    BY DEF MonitorAgrees
  <1> DEFINE g == keys[k].group
             priced == {m \in DOMAIN models : /\ models[m].provider \in EnabledProviders(g)
                                              /\ models[m].enabled /\ models[m].price # None}
  <1>1. IsFiniteSet(priced)
    BY FS_Subset DEF FiniteModels
  <1>2. PricedModelCount(g) = 0 <=> priced = {}
    BY <1>1, FS_EmptySet DEF PricedModelCount
  <1>3. groups[g].enabled => Offered(k) = priced
    BY DEF Offered, EnabledProviders
  <1>4. ~groups[g].enabled => Offered(k) = {}
    BY DEF Offered
  <1>5. EnabledProviders(g) = {} => priced = {}
    OBVIOUS
  <1> HIDE DEF priced
  <1> QED BY <1>2, <1>3, <1>4, <1>5 DEF ConfigStatus

\* What the tables and the cache promise, for any set of administrators and any
\* edits: a cached client has its provider's credentials (CacheCurrent), a
\* retired token never works again (RetiredTokensDead), a reservation keeps its
\* rows (ActiveRowsKept), and the monitor and /v1/models agree (MonitorAgrees).
THEOREM RegistrySafe ==
  Spec => [](CacheCurrent /\ RetiredTokensDead /\ ActiveRowsKept /\ MonitorAgrees)
  <1>1. Inv => CacheCurrent /\ RetiredTokensDead /\ ActiveRowsKept /\ MonitorAgrees
    BY InvMonitorAgrees DEF Inv
  <1> QED BY <1>1, InvHolds, PTL

-----------------------------------------------------------------------------
(* Action properties.                                                      *)

\* What the join of ReserveRequest admits is what /v1/models offers.
LEMMA AdmitsOffered ==
  ASSUME NEW k, NEW m, Admits(k, m)
  PROVE keys[k].enabled /\ m \in Offered(k)
  BY DEF Admits, Offered

\* Only ReserveRequest takes a request from its choice of a model to the way to
\* its upstream.
LEMMA OnlyReserveAdmits ==
  ASSUME Jobs, [Next]_vars, NEW r \in Requests, job[r].pc = "chosen", job'[r].pc = "lookup"
  PROVE ReserveRequest(r)
  <1> USE CallersAre DEF Becomes, Goto, Waiting, Jobs
  <1>1. ASSUME NEW a \in Admins, ServeHTTP(a) PROVE FALSE
    BY <1>1, AdminFrame
  <1>2. ASSUME NEW c \in Callers, LookupStep(c) PROVE FALSE
    BY <1>2 DEF LookupStep, LookupHit, LookupRead, LookupInstall, LookupFails
  <1>3. ASSUME NEW s \in Requests, RequestStep(s) PROVE ReserveRequest(r)
    BY <1>3 DEF RequestStep, authenticate, ChooseModel, Refused, ReserveRequest, FinishRequest
  <1>4. CASE SyncStep
    BY <1>4 DEF SyncStep, SyncStart, SyncNext, SyncSkip, SyncCatalog, SyncCheck, SyncInsert,
                SyncChannelDone
  <1>5. CASE MonitorStep
    BY <1>5 DEF MonitorStep, MonitorStart, MonitorProbe, MonitorProbed, MonitorSave, MonitorDone
  <1>6. CASE UNCHANGED vars
    BY <1>6 DEF vars
  <1> HIDE DEF Jobs
  <1> QED BY <1>1, <1>2, <1>3, <1>4, <1>5, <1>6 DEF Next

\* A request is admitted only for a model that its key is offered at that
\* moment, whatever was edited since Begin read it.
THEOREM AdmissionOffered == Spec => AdmittedIsOffered
  <1>1. Inv /\ [Next]_vars =>
          [\A r \in Requests :
             job[r].pc = "chosen" /\ job'[r].pc = "lookup" =>
                 keys[job[r].key].enabled /\ job[r].model \in Offered(job[r].key)]_vars
    BY OnlyReserveAdmits, AdmitsOffered DEF Inv, ReserveRequest
  <1> QED BY <1>1, InvHolds, PTL DEF Spec, AdmittedIsOffered

\* An imported model, disabled and without a price, is offered to nobody.
LEMMA ImportOffersNothing ==
  ASSUME NEW p, NEW n, models' = Insert(models, Imported(p, n)),
         UNCHANGED <<providers, groups, keys>>
  PROVE \A k \in DOMAIN keys' : k \in DOMAIN keys /\ Offered(k)' \subseteq Offered(k)
  BY DEF Insert, Imported, Offered

\* A call that imports goes on importing.
LEMMA OnlyImportsImport ==
  ASSUME NEW a \in Admins, ServeHTTP(a), op[a].kind = "import"
  PROVE \E i \in Items : ImportItem(a, i)
  <1>0. ~Call(a)
    BY DEF Call, Idle
  <1>1. ~providerCreate(a) /\ ~modelCreate(a)
    BY <1>0 DEF providerCreate, CreateProvider, modelCreate, CreateModel
  <1>2. ~providerItem(a)
    BY <1>0 DEF providerItem, ReadRow, WriteProvider, EvictProvider, DeleteProvider
  <1>3. ~modelItem(a)
    BY <1>0 DEF modelItem, ReadRow, WriteModel, DeleteModel
  <1>4. ~groupCreate(a) /\ ~groupItem(a)
    BY <1>0 DEF groupCreate, CreateModelGroup, FirstMembers, groupItem, ReadRow, WriteGroup,
                PutMembers, DeleteModelGroup
  <1>5. ~keyCreate(a) /\ ~keyItem(a)
    BY <1>0 DEF keyCreate, CreateClientKey, FirstGroup, keyItem, ReadRow, WriteKey, PutKeyGroup,
                RotateClientKey, DeleteClientKey
  <1>6. providerImportModels(a)
    BY <1>1, <1>2, <1>3, <1>4, <1>5 DEF ServeHTTP
  <1> QED BY <1>0, <1>6 DEF providerImportModels, ReadImport

\* Neither the syncer, the monitor, a request nor an import publishes a model.
THEOREM PublishingIsEditing == Spec => OnlyEditsPublish
  <1> DEFINE Quiet == \A k \in DOMAIN keys' : k \in DOMAIN keys /\ Offered(k)' \subseteq Offered(k)
             Watched == job' # job \/ \E a \in Admins : op[a].kind = "import" /\ op'[a] # op[a]
  <1>1. ASSUME Jobs, [Next]_vars, Watched PROVE Quiet
    <2>0. UNCHANGED <<providers, models, groups, keys>> => Quiet
      BY DEF Offered
    <2>1. CASE CallerStep
      BY <2>0, <2>1, CallerFrame, CallerModels, ImportOffersNothing
    <2>2. ASSUME NEW a \in Admins, ServeHTTP(a) PROVE Quiet
      <3>1. op[a].kind = "import"
        BY <1>1, <2>2, AdminFrame
      <3>2. PICK i \in Items : ImportItem(a, i)
        BY <2>2, <3>1, OnlyImportsImport
      <3> QED BY <2>0, <3>2, ImportOffersNothing DEF ImportItem
    <2>3. CASE UNCHANGED vars
      BY <2>0, <2>3 DEF vars, rows
    <2> QED BY <1>1, <2>1, <2>2, <2>3 DEF Next, CallerStep
  <1>2. Inv /\ [Next]_vars => [Watched => Quiet]_vars
    BY <1>1 DEF Inv
  <1> QED BY <1>2, InvHolds, PTL DEF Spec, OnlyEditsPublish
=============================================================================
