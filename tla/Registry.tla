------------------------------ MODULE Registry ------------------------------
(***************************************************************************)
(* Channels (providers), models, groups and client keys: the tables the    *)
(* administration handlers edit while requests, the model syncer and the   *)
(* group monitor read them, and the cache of upstream clients built from   *)
(* the provider rows.                                                      *)
(*                                                                         *)
(* One SQL statement or transaction is one step (SQLite serialises them),  *)
(* and so is what a goroutine does between two of them.  An edit reads the *)
(* whole row, changes it in memory and writes every column back: two       *)
(* steps, with other administrators in between.  Ids are rowids: SQLite    *)
(* hands out the largest one plus 1, and a deleted last id again.          *)
(*                                                                         *)
(* base_url and protocol are one column here, and so are a model's input   *)
(* and output price (either one NULL: not priced).                         *)
(***************************************************************************)
EXTENDS Integers, FiniteSetsExt

CONSTANTS
    Admins, Requests, None,
    Items,                       \* upstream model names
    NewProviders, NewModels,     \* rows an administrator may create
    ProviderPatches, ModelPatches, SwitchPatches,   \* the fields a PUT may carry
    FirstProvider, FirstModel,   \* rows of the installation at the start
    MaxEdits, MaxId              \* bounds: administrative calls, row ids

\* A provider row has these columns.  None is a nil pointer, no goroutine.
ASSUME RegistryAssumption ==
    /\ {"sync", "monitor", None} \cap Requests = {} /\ None \notin {"sync", "monitor"}
    /\ \A row \in NewProviders \cup {FirstProvider} :
          DOMAIN row = {"name", "url", "key", "enabled"}

VARIABLES
    providers,   \* rows: id -> [name, url, key, enabled]
    models,      \* rows: id -> [provider, public (name), price, enabled]
    groups,      \* rows: id -> [enabled, members], group_providers included
    keys,        \* rows: id -> [token, enabled, group]
    results,     \* group_monitor_results, the latest of each group
    clients,     \* Registry.clients: id -> [url, key]
    mu,          \* Registry.mu: its holder or None, and what the holder has read
    op,          \* the administrative call each administrator has under way
    job,         \* the goroutine of each request, of the syncer and the monitor
    edits,       \* number of administrative calls made
    retired,     \* history: client tokens rotated out or deleted
    raced        \* history: providers whose credentials a stale edit put back

rows == <<providers, models, groups, keys, results>>
vars == <<rows, clients, mu, op, job, edits, retired, raced>>

Callers == Requests \cup {"sync", "monitor"}
Rowids == 1 .. MaxId

\* The id SQLite gives to the next row of a table.
NextId(table) == Max(DOMAIN table \cup {0}) + 1

Insert(table, row) ==
    [i \in DOMAIN table \cup {NextId(table)} |-> IF i \in DOMAIN table THEN table[i] ELSE row]

Without(table, ids) == [i \in DOMAIN table \ ids |-> table[i]]

\* What an edit writes: the columns of the patch, and for the others the
\* values it has read.
Patched(old, patch) ==
    [c \in DOMAIN old |-> IF c \in DOMAIN patch THEN patch[c] ELSE old[c]]

-----------------------------------------------------------------------------
(* Who may use what.                                                       *)

\* authorizedModelsSelect: the one definition of what a key is offered.
Offered(k) ==
    {m \in DOMAIN models :
        /\ keys[k].group \in DOMAIN groups
        /\ groups[keys[k].group].enabled
        /\ models[m].provider \in groups[keys[k].group].members
        /\ models[m].enabled /\ models[m].price # None
        /\ providers[models[m].provider].enabled}

\* GroupMonitorTargets, EnabledProviders and PricedModelCount.
EnabledProviders(g) == {p \in groups[g].members : providers[p].enabled}

\* Mutant: models that are switched off count too.
PricedModelCountAll(g) ==
    Cardinality({m \in DOMAIN models : /\ models[m].provider \in EnabledProviders(g)
                                       /\ models[m].price # None})

PricedModelCount(g) ==
    Cardinality({m \in DOMAIN models : /\ models[m].provider \in EnabledProviders(g)
                                       /\ models[m].enabled /\ models[m].price # None})

\* Monitor.evaluate, before any probe: what it finds wrong with the rows.
ConfigStatus(g) ==
    IF ~groups[g].enabled THEN "disabled"
    ELSE IF EnabledProviders(g) = {} \/ PricedModelCount(g) = 0 THEN "config_unavailable"
    ELSE "ok"

-----------------------------------------------------------------------------
(* Reservations of requests under way, and the trigger                     *)
(* prevent_active_reservation_delete: a DELETE that would cascade to one   *)
(* of them fails as a whole.                                               *)

Active(r) == job[r].pc \in {"lookup", "reading", "client", "failed"}

\* Mutant: only the reservation's key is protected.
DeletableKeyOnly(ms, ks) == \A r \in Requests : Active(r) => job[r].key \notin ks

Deletable(ms, ks) == \A r \in Requests : Active(r) => job[r].model \notin ms /\ job[r].key \notin ks

-----------------------------------------------------------------------------
Idle == [kind |-> "idle", id |-> 0]
Waiting == [pc |-> "idle"]
Unlocked == [by |-> None]

\* An installation with one row in each table, all of them in use.
Init ==
    /\ providers = [i \in {1} |-> FirstProvider]
    /\ models = [i \in {1} |-> FirstModel]
    /\ groups = [i \in {1} |-> [enabled |-> TRUE, members |-> {1}]]
    /\ keys = [i \in {1} |-> [token |-> 0, enabled |-> TRUE, group |-> 1]]
    /\ results = [i \in {} |-> "ok"]
    /\ clients = [i \in {} |-> [url |-> FirstProvider.url, key |-> FirstProvider.key]]
    /\ mu = Unlocked
    /\ op = [a \in Admins |-> Idle]
    /\ job = [c \in Callers |-> Waiting]
    /\ edits = 0
    /\ retired = {}
    /\ raced = {}

-----------------------------------------------------------------------------
(* Administrative calls.  Call is the start of one; a call that is refused *)
(* at once changes nothing and is left out.                                *)

Call(a) ==
    /\ op[a] = Idle
    /\ edits < MaxEdits
    /\ edits' = edits + 1

Then(a, next) == op' = [op EXCEPT ![a] = next]

\* The SELECT of UpdateProvider, UpdateModel, UpdateModelGroup and
\* UpdateClientKey.
ReadRow(a, kind, table, id, patch) ==
    /\ Call(a)
    /\ id \in DOMAIN table
    /\ Then(a, [kind |-> kind, id |-> id, patch |-> patch, old |-> table[id]])
    /\ UNCHANGED <<rows, clients, mu, job, retired, raced>>

(* Providers. *)

CreateProvider(a, row) ==
    /\ Call(a)
    /\ \A p \in DOMAIN providers : providers[p].name # row.name
    /\ NextId(providers) \in Rowids
    /\ providers' = Insert(providers, [row EXCEPT !.enabled = TRUE])
    /\ UNCHANGED <<models, groups, keys, results, clients, mu, op, job, retired, raced>>

\* Mutant: only a new address evicts.
NeedsEvictAddress(o) == Patched(o.old, o.patch).url # o.old.url

\* A new key always evicts; an address only when it differs from the one read.
NeedsEvict(o) ==
    \/ "key" \in DOMAIN o.patch
    \/ Patched(o.old, o.patch).url # o.old.url

Evicting(id) == [kind |-> "evict", id |-> id]

\* The UPDATE of UpdateProvider.
WriteProvider(a) ==
    LET o == op[a]
        row == Patched(o.old, o.patch)
        taken == o.id \in DOMAIN providers
                 /\ \E p \in DOMAIN providers \ {o.id} : providers[p].name = row.name
        stale == o.id \in DOMAIN providers
                 /\ <<providers[o.id].url, providers[o.id].key>> # <<o.old.url, o.old.key>>
    IN  /\ o.kind = "provider"
        /\ providers' = IF o.id \in DOMAIN providers /\ ~taken
                        THEN [providers EXCEPT ![o.id] = row] ELSE providers
        /\ raced' = IF stale /\ ~taken THEN raced \cup {o.id} ELSE raced
        /\ Then(a, IF ~taken /\ NeedsEvict(o) THEN Evicting(o.id) ELSE Idle)
        /\ UNCHANGED <<models, groups, keys, results, clients, mu, job, edits, retired>>

EvictProvider(a) ==
    /\ op[a].kind = "evict"
    /\ mu.by = None
    /\ clients' = Without(clients, {op[a].id})
    /\ raced' = raced \ {op[a].id}
    /\ Then(a, Idle)
    /\ UNCHANGED <<rows, mu, job, edits, retired>>

\* Models and group memberships cascade; the client is dropped afterwards.
DeleteProvider(a, id) ==
    LET ms == {m \in DOMAIN models : models[m].provider = id}
    IN  /\ Call(a)
        /\ id \in DOMAIN providers
        /\ Deletable(ms, {})
        /\ providers' = Without(providers, {id})
        /\ models' = Without(models, ms)
        /\ groups' = [g \in DOMAIN groups |-> [groups[g] EXCEPT !.members = @ \ {id}]]
        /\ Then(a, Evicting(id))
        /\ UNCHANGED <<keys, results, clients, mu, job, retired, raced>>

(* Models. *)

\* What the table lets in: an existing provider, a public name of its own.
Admissible(row, others) ==
    /\ row.provider \in DOMAIN providers
    /\ \A m \in others : models[m].public # row.public

CreateModel(a, row) ==
    /\ Call(a)
    /\ Admissible(row, DOMAIN models)
    /\ NextId(models) \in Rowids
    /\ models' = Insert(models, row)
    /\ UNCHANGED <<providers, groups, keys, results, clients, mu, op, job, retired, raced>>

\* The UPDATE of UpdateModel.
WriteModel(a) ==
    LET o == op[a]
        row == Patched(o.old, o.patch)
    IN  /\ o.kind = "model"
        /\ models' = IF o.id \in DOMAIN models /\ Admissible(row, DOMAIN models \ {o.id})
                     THEN [models EXCEPT ![o.id] = row] ELSE models
        /\ Then(a, Idle)
        /\ UNCHANGED <<providers, groups, keys, results, clients, mu, job, edits, retired, raced>>

DeleteModel(a, id) ==
    /\ Call(a)
    /\ id \in DOMAIN models
    /\ Deletable({id}, {})
    /\ models' = Without(models, {id})
    /\ UNCHANGED <<providers, groups, keys, results, clients, mu, op, job, retired, raced>>

\* Mutant: imported models can be used at once.
ImportedEnabled(p, n) == [provider |-> p, public |-> n, price |-> 1, enabled |-> TRUE]

\* CreateImportedModel: disabled and without a price.
Imported(p, n) == [provider |-> p, public |-> n, price |-> None, enabled |-> FALSE]

\* Running out of ids (the bound) counts as an error of the store.
CanImport(p, n) == Admissible(Imported(p, n), DOMAIN models) /\ NextId(models) \in Rowids

\* providerImportModels: the provider's name and the known public names are
\* read once, then the models are inserted one by one.
ReadImport(a, p, chosen) ==
    /\ Call(a)
    /\ p \in DOMAIN providers
    /\ Then(a, [kind |-> "import", id |-> p, name |-> providers[p].name, todo |-> chosen,
                known |-> {models[m].public : m \in DOMAIN models}])
    /\ UNCHANGED <<rows, clients, mu, job, retired, raced>>

ImportItem(a, i) ==
    LET o == op[a]
        n == <<o.name, i>>
        rest == IF o.todo = {i} THEN Idle
                ELSE [o EXCEPT !.todo = @ \ {i}, !.known = @ \cup {n}]
    IN  /\ o.kind = "import"
        /\ i \in o.todo
        /\ IF n \in o.known THEN models' = models /\ Then(a, rest)
           ELSE IF CanImport(o.id, n)
                THEN models' = Insert(models, Imported(o.id, n)) /\ Then(a, rest)
                ELSE models' = models /\ Then(a, Idle)
        /\ UNCHANGED <<providers, groups, keys, results, clients, mu, job, edits, retired, raced>>

(* Groups. *)

CreateModelGroup(a, members) ==
    /\ Call(a)
    /\ NextId(groups) \in Rowids
    /\ groups' = Insert(groups, [enabled |-> TRUE, members |-> {}])
    /\ Then(a, [kind |-> "members", id |-> NextId(groups), members |-> members])
    /\ UNCHANGED <<providers, models, keys, results, clients, mu, job, retired, raced>>

\* The transaction, for a group just created or for an existing one: all of the
\* members or no change.
ReplaceGroupProviders(g, members) ==
    LET ok == /\ g \in DOMAIN groups /\ groups[g].enabled
              /\ \A p \in members : p \in DOMAIN providers /\ providers[p].enabled
    IN  groups' = IF ok THEN [groups EXCEPT ![g].members = members] ELSE groups

FirstMembers(a) ==
    /\ op[a].kind = "members"
    /\ ReplaceGroupProviders(op[a].id, op[a].members)
    /\ Then(a, Idle)
    /\ UNCHANGED <<providers, models, keys, results, clients, mu, job, edits, retired, raced>>

PutMembers(a, g, members) ==
    /\ Call(a)
    /\ ReplaceGroupProviders(g, members)
    /\ UNCHANGED <<providers, models, keys, results, clients, mu, op, job, retired, raced>>

\* The UPDATE of UpdateModelGroup; the members are in another table.
WriteGroup(a) ==
    LET o == op[a]
    IN  /\ o.kind = "group"
        /\ groups' = IF o.id \in DOMAIN groups
                     THEN [groups EXCEPT ![o.id].enabled = Patched(o.old, o.patch).enabled]
                     ELSE groups
        /\ Then(a, Idle)
        /\ UNCHANGED <<providers, models, keys, results, clients, mu, job, edits, retired, raced>>

\* The keys of the group stay and are bound to none.
DeleteModelGroup(a, g) ==
    /\ Call(a)
    /\ g \in DOMAIN groups
    /\ groups' = Without(groups, {g})
    /\ results' = Without(results, {g})
    /\ keys' = [k \in DOMAIN keys |->
                  IF keys[k].group = g THEN [keys[k] EXCEPT !.group = None] ELSE keys[k]]
    /\ UNCHANGED <<providers, models, clients, mu, op, job, retired, raced>>

(* Client keys.  A token is random: the number of the call that made it.   *)

CreateClientKey(a, g) ==
    /\ Call(a)
    /\ NextId(keys) \in Rowids
    /\ keys' = Insert(keys, [token |-> edits', enabled |-> TRUE, group |-> None])
    /\ Then(a, IF g = None THEN Idle ELSE [kind |-> "bind", id |-> NextId(keys), group |-> g])
    /\ UNCHANGED <<providers, models, groups, results, clients, mu, job, retired, raced>>

\* The transaction, for a key just created or for an existing one.
SetKeyGroup(k, g) ==
    LET ok == k \in DOMAIN keys /\ (g = None \/ (g \in DOMAIN groups /\ groups[g].enabled))
    IN  keys' = IF ok THEN [keys EXCEPT ![k].group = g] ELSE keys

FirstGroup(a) ==
    /\ op[a].kind = "bind"
    /\ SetKeyGroup(op[a].id, op[a].group)
    /\ Then(a, Idle)
    /\ UNCHANGED <<providers, models, groups, results, clients, mu, job, edits, retired, raced>>

PutKeyGroup(a, k, g) ==
    /\ Call(a)
    /\ SetKeyGroup(k, g)
    /\ UNCHANGED <<providers, models, groups, results, clients, mu, op, job, retired, raced>>

RotateClientKey(a, k) ==
    /\ Call(a)
    /\ k \in DOMAIN keys
    /\ keys' = [keys EXCEPT ![k].token = edits']
    /\ retired' = retired \cup {keys[k].token}
    /\ UNCHANGED <<providers, models, groups, results, clients, mu, op, job, raced>>

\* Mutant: the whole row that was read is written back.
WriteKeyWhole(a) ==
    LET o == op[a]
    IN  /\ o.kind = "key"
        /\ keys' = IF o.id \in DOMAIN keys
                   THEN [keys EXCEPT ![o.id] = Patched(o.old, o.patch)] ELSE keys
        /\ Then(a, Idle)
        /\ UNCHANGED <<providers, models, groups, results, clients, mu, job, edits, retired, raced>>

\* The UPDATE of UpdateClientKey: neither the token nor the group.
WriteKey(a) ==
    LET o == op[a]
    IN  /\ o.kind = "key"
        /\ keys' = IF o.id \in DOMAIN keys
                   THEN [keys EXCEPT ![o.id].enabled = Patched(o.old, o.patch).enabled] ELSE keys
        /\ Then(a, Idle)
        /\ UNCHANGED <<providers, models, groups, results, clients, mu, job, edits, retired, raced>>

DeleteClientKey(a, k) ==
    /\ Call(a)
    /\ k \in DOMAIN keys
    /\ Deletable({}, {k})
    /\ keys' = Without(keys, {k})
    /\ retired' = retired \cup {keys[k].token}
    /\ UNCHANGED <<providers, models, groups, results, clients, mu, op, job, raced>>

-----------------------------------------------------------------------------
(* forProvider, the way to an upstream client.  It keeps Registry.mu over  *)
(* both of its reads.                                                      *)

Becomes(c, next) == job' = [job EXCEPT ![c] = next]
Goto(c, pc) == Becomes(c, [job[c] EXCEPT !.pc = pc])

LookupHit(c) ==
    /\ job[c].pc = "lookup"
    /\ mu.by = None
    /\ job[c].id \in DOMAIN clients
    /\ Goto(c, "client")
    /\ UNCHANGED <<rows, clients, mu, op, edits, retired, raced>>

\* GetProvider.
LookupRead(c) ==
    /\ job[c].pc = "lookup"
    /\ mu.by = None
    /\ job[c].id \notin DOMAIN clients
    /\ job[c].id \in DOMAIN providers
    /\ providers[job[c].id].enabled
    /\ mu' = [by |-> c, id |-> job[c].id, url |-> providers[job[c].id].url]
    /\ Goto(c, "reading")
    /\ UNCHANGED <<rows, clients, op, edits, retired, raced>>

\* ProviderAPIKey, and the new client.
LookupInstall(c) ==
    /\ job[c].pc = "reading"
    /\ mu.id \in DOMAIN providers
    /\ clients' = [i \in DOMAIN clients \cup {mu.id} |->
                     IF i = mu.id THEN [url |-> mu.url, key |-> providers[i].key] ELSE clients[i]]
    /\ mu' = Unlocked
    /\ Goto(c, "client")
    /\ UNCHANGED <<rows, op, edits, retired, raced>>

\* The row is gone or disabled, or the store answers with an error.
LookupFails(c) ==
    /\ \/ job[c].pc = "lookup" /\ mu.by = None /\ job[c].id \notin DOMAIN clients
       \/ job[c].pc = "reading"
    /\ mu' = Unlocked
    /\ Goto(c, "failed")
    /\ UNCHANGED <<rows, clients, op, edits, retired, raced>>

-----------------------------------------------------------------------------
(* A request, from its credential to its settlement.                       *)

authenticate(r, k) ==
    /\ job[r] = Waiting
    /\ k \in DOMAIN keys /\ keys[k].enabled
    /\ Becomes(r, [pc |-> "authenticated", key |-> k])
    /\ UNCHANGED <<rows, clients, mu, op, edits, retired, raced>>

\* Service.Begin: the model and its provider are those of this read.
ChooseModel(r, m) ==
    /\ job[r].pc = "authenticated"
    /\ job[r].key \in DOMAIN keys
    /\ m \in Offered(job[r].key)
    /\ Becomes(r, [pc |-> "chosen", key |-> job[r].key, model |-> m, id |-> models[m].provider])
    /\ UNCHANGED <<rows, clients, mu, op, edits, retired, raced>>

\* Refused for any reason: not offered, a limit, an error of the store.
Refused(r) ==
    /\ job[r].pc \in {"authenticated", "chosen"}
    /\ Becomes(r, Waiting)
    /\ UNCHANGED <<rows, clients, mu, op, edits, retired, raced>>

\* Mutant: the transaction trusts the authorization that Begin has read.
AdmitsKeyOnly(k, m) == k \in DOMAIN keys /\ keys[k].enabled /\ m \in DOMAIN models

\* The join of ReserveRequest.
Admits(k, m) ==
    /\ k \in DOMAIN keys /\ keys[k].enabled
    /\ \E g \in DOMAIN groups :
          /\ g = keys[k].group /\ groups[g].enabled
          /\ m \in DOMAIN models /\ models[m].enabled /\ models[m].price # None
          /\ models[m].provider \in groups[g].members
          /\ providers[models[m].provider].enabled

\* The row names the key, the model and the provider: all three must exist.
ReserveRequest(r) ==
    /\ job[r].pc = "chosen"
    /\ Admits(job[r].key, job[r].model)
    /\ job[r].id \in DOMAIN providers
    /\ Goto(r, "lookup")
    /\ UNCHANGED <<rows, clients, mu, op, edits, retired, raced>>

\* The call, and FinishReservation.
FinishRequest(r) ==
    /\ job[r].pc \in {"client", "failed"}
    /\ Becomes(r, Waiting)
    /\ UNCHANGED <<rows, clients, mu, op, edits, retired, raced>>

-----------------------------------------------------------------------------
(* ModelSyncer.RunOnce over the providers enabled at its start, in id      *)
(* order; SyncProvider for each of them.                                   *)

SyncStart ==
    /\ job["sync"] = Waiting
    /\ Becomes("sync", [pc |-> "next",
                        todo |-> {p \in DOMAIN providers : providers[p].enabled}])
    /\ UNCHANGED <<rows, clients, mu, op, edits, retired, raced>>

SyncNext ==
    LET todo == job["sync"].todo
    IN  /\ job["sync"].pc = "next"
        /\ Becomes("sync", IF todo = {} THEN Waiting
                           ELSE [pc |-> "lookup", todo |-> todo \ {Min(todo)}, id |-> Min(todo)])
        /\ UNCHANGED <<rows, clients, mu, op, edits, retired, raced>>

\* The channel is given up for this round: no client, no usable catalogue, or
\* an error of the store.
SyncSkip ==
    /\ job["sync"].pc \in {"failed", "client"}
    /\ Becomes("sync", [pc |-> "next", todo |-> job["sync"].todo])
    /\ UNCHANGED <<rows, clients, mu, op, edits, retired, raced>>

\* The catalogue has arrived; GetProvider reads the current name.
SyncCatalog(items) ==
    LET s == job["sync"]
    IN  /\ s.pc = "client"
        /\ s.id \in DOMAIN providers
        /\ Becomes("sync", [pc |-> "import", todo |-> s.todo, id |-> s.id,
                            name |-> providers[s.id].name, items |-> items])
        /\ UNCHANGED <<rows, clients, mu, op, edits, retired, raced>>

\* GetModelByPublicName: a known model is skipped.
SyncCheck(i) ==
    LET s == job["sync"]
    IN  /\ s.pc = "import"
        /\ i \in s.items
        /\ IF \E m \in DOMAIN models : models[m].public = <<s.name, i>>
           THEN Becomes("sync", [s EXCEPT !.items = @ \ {i}])
           ELSE Becomes("sync", [pc |-> "insert", todo |-> s.todo, id |-> s.id, name |-> s.name,
                                 items |-> s.items \ {i}, item |-> i])
        /\ UNCHANGED <<rows, clients, mu, op, edits, retired, raced>>

\* CreateImportedModel; its failure ends the channel's turn.
SyncInsert ==
    LET s == job["sync"]
        n == <<s.name, s.item>>
    IN  /\ s.pc = "insert"
        /\ IF CanImport(s.id, n)
           THEN /\ models' = Insert(models, Imported(s.id, n))
                /\ Becomes("sync", [pc |-> "import", todo |-> s.todo, id |-> s.id,
                                    name |-> s.name, items |-> s.items])
           ELSE /\ models' = models
                /\ Becomes("sync", [pc |-> "next", todo |-> s.todo])
        /\ UNCHANGED <<providers, groups, keys, results, clients, mu, op, edits, retired, raced>>

SyncChannelDone ==
    /\ job["sync"].pc = "import"
    /\ job["sync"].items = {}
    /\ Becomes("sync", [pc |-> "next", todo |-> job["sync"].todo])
    /\ UNCHANGED <<rows, clients, mu, op, edits, retired, raced>>

-----------------------------------------------------------------------------
(* Monitor.RunOnce over all groups, RunGroup over one.                     *)

MonitorStart(gs) ==
    LET probes == {x \in gs \X DOMAIN providers :
                      ConfigStatus(x[1]) = "ok" /\ x[2] \in EnabledProviders(x[1])}
    IN  /\ job["monitor"] = Waiting
        /\ gs \subseteq DOMAIN groups
        /\ Becomes("monitor", [pc |-> "next", found |-> [g \in gs |-> ConfigStatus(g)],
                               probes |-> probes, todo |-> probes, bad |-> {}])
        /\ UNCHANGED <<rows, clients, mu, op, edits, retired, raced>>

\* Probes of different groups run at the same time: in any order.
MonitorProbe(x) ==
    LET m == job["monitor"]
    IN  /\ m.pc = "next"
        /\ x \in m.todo
        /\ Becomes("monitor", [pc |-> "lookup", id |-> x[2], at |-> x, found |-> m.found,
                               probes |-> m.probes, todo |-> m.todo \ {x}, bad |-> m.bad])
        /\ UNCHANGED <<rows, clients, mu, op, edits, retired, raced>>

MonitorProbed(ok) ==
    LET m == job["monitor"]
    IN  /\ m.pc = "client" \/ (m.pc = "failed" /\ ~ok)
        /\ Becomes("monitor", [pc |-> "next", found |-> m.found, probes |-> m.probes,
                               todo |-> m.todo, bad |-> IF ok THEN m.bad ELSE m.bad \cup {m.at}])
        /\ UNCHANGED <<rows, clients, mu, op, edits, retired, raced>>

\* Monitor.evaluate, after the probes.
ProbedStatus(g, m) ==
    LET probed == {x \in m.probes : x[1] = g}
        bad == {x \in m.bad : x[1] = g}
    IN  CASE m.found[g] # "ok" -> m.found[g]
          [] m.found[g] = "ok" /\ bad = {} -> "ok"
          [] m.found[g] = "ok" /\ bad = probed /\ bad # {} -> "upstream_unreachable"
          [] OTHER -> "degraded"

\* SaveGroupMonitorResult, group by group; a group that is gone ends the round.
MonitorSave ==
    LET m == job["monitor"]
        g == Min(DOMAIN m.found)
    IN  /\ m.pc = "next" /\ m.todo = {} /\ DOMAIN m.found # {}
        /\ IF g \in DOMAIN groups
           THEN /\ results' = [i \in DOMAIN results \cup {g} |->
                                 IF i = g THEN ProbedStatus(g, m) ELSE results[i]]
                /\ Becomes("monitor", [m EXCEPT !.found = Without(@, {g})])
           ELSE results' = results /\ Becomes("monitor", Waiting)
        /\ UNCHANGED <<providers, models, groups, keys, clients, mu, op, edits, retired, raced>>

MonitorDone ==
    /\ job["monitor"].pc = "next"
    /\ DOMAIN job["monitor"].found = {}
    /\ Becomes("monitor", Waiting)
    /\ UNCHANGED <<rows, clients, mu, op, edits, retired, raced>>

-----------------------------------------------------------------------------
(* The handlers of the administration, by their routes.                    *)

providerCreate(a) == \E row \in NewProviders : CreateProvider(a, row)

providerItem(a) ==
    \/ \E id \in Rowids, patch \in ProviderPatches : ReadRow(a, "provider", providers, id, patch)
    \/ WriteProvider(a)
    \/ EvictProvider(a)
    \/ \E id \in Rowids : DeleteProvider(a, id)

providerImportModels(a) ==
    \/ \E p \in Rowids, chosen \in SUBSET Items \ {{}} : ReadImport(a, p, chosen)
    \/ \E i \in Items : ImportItem(a, i)

modelCreate(a) == \E row \in NewModels : CreateModel(a, row)

modelItem(a) ==
    \/ \E id \in Rowids, patch \in ModelPatches : ReadRow(a, "model", models, id, patch)
    \/ WriteModel(a)
    \/ \E id \in Rowids : DeleteModel(a, id)

groupCreate(a) ==
    \/ \E members \in SUBSET Rowids : CreateModelGroup(a, members)
    \/ FirstMembers(a)

groupItem(a) ==
    \/ \E id \in Rowids, patch \in SwitchPatches : ReadRow(a, "group", groups, id, patch)
    \/ WriteGroup(a)
    \/ \E g \in Rowids, members \in SUBSET Rowids : PutMembers(a, g, members)
    \/ \E g \in Rowids : DeleteModelGroup(a, g)

keyCreate(a) ==
    \/ \E g \in Rowids \cup {None} : CreateClientKey(a, g)
    \/ FirstGroup(a)

keyItem(a) ==
    \/ \E id \in Rowids, patch \in SwitchPatches : ReadRow(a, "key", keys, id, patch)
    \/ WriteKey(a)
    \/ \E k \in Rowids, g \in Rowids \cup {None} : PutKeyGroup(a, k, g)
    \/ \E k \in Rowids : RotateClientKey(a, k)
    \/ \E k \in Rowids : DeleteClientKey(a, k)

ServeHTTP(a) ==
    \/ providerCreate(a) \/ providerItem(a) \/ providerImportModels(a)
    \/ modelCreate(a) \/ modelItem(a)
    \/ groupCreate(a) \/ groupItem(a)
    \/ keyCreate(a) \/ keyItem(a)

LookupStep(c) == LookupHit(c) \/ LookupRead(c) \/ LookupInstall(c) \/ LookupFails(c)

RequestStep(r) ==
    \/ \E k \in Rowids : authenticate(r, k)
    \/ \E m \in Rowids : ChooseModel(r, m)
    \/ Refused(r)
    \/ ReserveRequest(r)
    \/ FinishRequest(r)

SyncStep ==
    \/ SyncStart \/ SyncNext \/ SyncSkip
    \/ \E items \in SUBSET Items : SyncCatalog(items)
    \/ \E i \in Items : SyncCheck(i)
    \/ SyncInsert \/ SyncChannelDone

MonitorStep ==
    \/ MonitorStart(DOMAIN groups)
    \/ \E g \in Rowids : MonitorStart({g})
    \/ \E x \in Rowids \X Rowids : MonitorProbe(x)
    \/ \E ok \in BOOLEAN : MonitorProbed(ok)
    \/ MonitorSave \/ MonitorDone

Next ==
    \/ \E a \in Admins : ServeHTTP(a)
    \/ \E c \in Callers : LookupStep(c)
    \/ \E r \in Requests : RequestStep(r)
    \/ SyncStep
    \/ MonitorStep

Spec == Init /\ [][Next]_vars

-----------------------------------------------------------------------------
(* Properties.                                                             *)

(* "Otherwise the old credential and address stay in use until the process *)
(* restarts" (UpdateProvider): a cached client has the address and the key *)
(* of its provider's row, unless its eviction is still to come or an edit  *)
(* that overlapped another one put older credentials back without evicting *)
(* it.                                                                     *)
CacheCurrent ==
    \A p \in DOMAIN clients :
        \/ /\ p \in DOMAIN providers
           /\ clients[p] = [url |-> providers[p].url, key |-> providers[p].key]
        \/ \E a \in Admins : op[a] = Evicting(p)
        \/ p \in raced

(* A token that was rotated out or whose key was deleted never works again *)
(* whatever other edits of that key overlapped the rotation.               *)
RetiredTokensDead == \A k \in DOMAIN keys : keys[k].token \notin retired

(* The trigger and the cascades together: a reservation under way never    *)
(* loses the key and the model it will be settled against, whichever row   *)
(* an administrator deletes.                                               *)
ActiveRowsKept ==
    \A r \in Requests : Active(r) => job[r].key \in DOMAIN keys /\ job[r].model \in DOMAIN models

(* The transaction that admits a request and the query behind /v1/models   *)
(* are two joins: a request is only admitted for a model that the query    *)
(* offers its key at that very moment, however old the read in Begin is.   *)
AdmittedIsOffered ==
    [][\A r \in Requests :
          job[r].pc = "chosen" /\ job'[r].pc = "lookup" =>
              keys[job[r].key].enabled /\ job[r].model \in Offered(job[r].key)]_vars

(* "Discovering models, not putting them online" (ModelSyncer): neither    *)
(* the syncer, the monitor, a request nor an import ever adds to what a    *)
(* key is offered; only an administrator's own edit does.                  *)
OnlyEditsPublish ==
    [][(job' # job \/ \E a \in Admins : op[a].kind = "import" /\ op'[a] # op[a]) =>
           \A k \in DOMAIN keys' : k \in DOMAIN keys /\ Offered(k)' \subseteq Offered(k)]_vars

(* The monitor's own query and the one that authorizes agree: it reports   *)
(* a group as unusable exactly if a key of the group is offered no model.  *)
MonitorAgrees ==
    \A k \in DOMAIN keys :
        keys[k].group \in DOMAIN groups =>
            (ConfigStatus(keys[k].group) # "ok" <=> Offered(k) = {})
=============================================================================
