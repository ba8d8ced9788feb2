--------------------------- MODULE Configuration ---------------------------
(***************************************************************************)
(* relay.env, the settings parsed from it, and the start of the process.   *)
(* The file, the bootstrap file and the database are written one after the *)
(* other, and the process may stop between any two writes; a save of the   *)
(* administrator writes the file first and the running settings second.    *)
(*                                                                         *)
(* A value in the file is text, a plain number or a duration ("90s"); a    *)
(* parser returns the set of its results, which is empty if it refuses     *)
(* the value.  There is one setting for each way of parsing one: the other *)
(* settings of the file are parsed and written like one of these.          *)
(***************************************************************************)
EXTENDS Integers, FiniteSets

CONSTANTS
    None,
    Megabyte,        \* 1024*1024 in the code
    FirstFiles,      \* relay.env before the first start; Nothing: there is none
    FirstLimits,     \* the groups of the database and their daily limit
    FreshKeys,       \* administrator keys that may be generated
    Patches,         \* what an administrator may save
    HandEdits,       \* what an operator may write into a stopped relay's file
    NewGroups, Limits,
    MaxEdits         \* bound: saves, edits by hand, and edits of groups

VARIABLES
    file,        \* relay.env: setting name -> value, Nothing while there is none
    bootstrap,   \* bootstrap-admin-key.txt: None or the key in it
    limits,      \* model_groups: group -> daily limit, None for NULL
    pc,          \* how far the process is
    settings,    \* AdminHandler.settings, and while starting main's settings
    live,        \* what requests use: config.Source, and what is given at the build
    announced,   \* history: pending_restart_fields of all saves since the build
    saving,      \* a save that holds h.mu: how far it is, and its settings
    edits,
    known,       \* history: administrator keys the operator has seen or chosen
    due          \* history: the limit each group should have

vars == <<file, bootstrap, limits, pc, settings, live, announced, saving, edits, known, due>>

Text(n) == [form |-> "text", n |-> n]
Number(n) == [form |-> "number", n |-> n]
Seconds(n) == [form |-> "duration", n |-> n]

\* The texts that are treated apart: empty, "*", a log level or a list of
\* origins that is none.
Blank == Text(0)
Star == Text(1)
Malformed == Text(2)
DefaultAgent == Text(3)
INFO == Text(4)

LegacyQuota == "TOKEN_LIMIT_DAILY"

Nothing == [n \in {} |-> Blank]
Unsaved == [stage |-> "none", next |-> None]

\* Values are what a line of the file can hold.  Every file names the
\* administrator's key, and nobody writes the legacy limit back by hand.
Values == [form : {"text", "number", "duration"}, n : Int]

ASSUME ConfigurationAssumption ==
    /\ Megabyte \in Nat \ {0} /\ FreshKeys \subseteq Values
    /\ FirstLimits = [g \in DOMAIN FirstLimits |-> FirstLimits[g]]
    /\ \A f \in FirstFiles : f = Nothing \/ "ADMIN_API_KEY" \in DOMAIN f
    /\ \A f \in FirstFiles \cup Patches \cup HandEdits : \A n \in DOMAIN f : f[n] \in Values
    /\ \A patch \in HandEdits : LegacyQuota \notin DOMAIN patch

-----------------------------------------------------------------------------
(* Parsing.                                                                *)

required(values, name) ==
    {values[n] : n \in DOMAIN values \cap {name}} \ {Blank}

textDefault(values, name, fallback) ==
    IF name \in DOMAIN values THEN {values[name]} \ {Blank, Malformed} ELSE {fallback}

textOptional(values, name) ==
    IF name \in DOMAIN values THEN {values[name]} ELSE {Blank}

\* A blank user agent is not an error but the default.
agent(values, name) ==
    IF name \in DOMAIN values /\ values[name] # Blank THEN {values[name]} ELSE {DefaultAgent}

boolean(values, name, fallback) ==
    IF name \in DOMAIN values
    THEN {b \in BOOLEAN : values[name] = Number(IF b THEN 1 ELSE 0)} ELSE {fallback}

corsOrigins(values, name) ==
    IF name \in DOMAIN values /\ values[name] # Blank THEN {values[name]} \ {Malformed} ELSE {Star}

numeric(raw) == IF raw.form = "number" THEN {raw.n} ELSE {}

positiveInt(values, name, fallback) ==
    IF name \in DOMAIN values THEN {x \in numeric(values[name]) : x > 0} ELSE {fallback}

\* A plain number counts in the unit of the setting.
span(raw, unit) ==
    IF raw.form = "duration" THEN {raw.n} ELSE {x * unit : x \in numeric(raw)}

duration(values, name, fallback, unit) ==
    IF name \in DOMAIN values THEN {x \in span(values[name], unit) : x > 0} ELSE {fallback}

durationOrZero(values, name, fallback, unit) ==
    IF name \in DOMAIN values /\ values[name] \in {Number(0), Seconds(0)} THEN {0}
    ELSE duration(values, name, fallback, unit)

intervalOrZero(values, name, fallback) ==
    IF name \in DOMAIN values /\ values[name] # Blank
    THEN {x \in span(values[name], 60) : x >= 0} ELSE {fallback}

bodyBytes(values) ==
    IF "MAX_BODY_BYTES" \in DOMAIN values
    THEN {x \in numeric(values["MAX_BODY_BYTES"]) : x > 0}
    ELSE {x * Megabyte : x \in positiveInt(values, "MAX_BODY_MB", 8)}

\* One result, or none if any setting is refused.
Parse(values) ==
    [AdminAPIKey : required(values, "ADMIN_API_KEY"),
     LogLevel : textDefault(values, "LOG_LEVEL", INFO),
     ModelAutoSync : boolean(values, "MODEL_AUTO_SYNC", FALSE),
     ModelSyncInterval : duration(values, "MODEL_SYNC_INTERVAL", 1800, 60),
     GroupMonitorInterval : intervalOrZero(values, "GROUP_MONITOR_INTERVAL", 1800),
     MaxBodyBytes : bodyBytes(values),
     MaxStreamDuration : durationOrZero(values, "MAX_STREAM_DURATION", 1800, 1),
     RPMLimit : positiveInt(values, "RPM_LIMIT", 30),
     HeaderTimeout : duration(values, "UPSTREAM_HEADER_TIMEOUT", 0, 1),
     UpstreamUserAgent : agent(values, "UPSTREAM_USER_AGENT"),
     UpstreamSessionHeader : textOptional(values, "UPSTREAM_SESSION_HEADER"),
     CORSAllowedOrigins : corsOrigins(values, "CORS_ALLOWED_ORIGINS")]

Overlay(old, new) ==
    [n \in DOMAIN old \cup DOMAIN new |-> IF n \in DOMAIN new THEN new[n] ELSE old[n]]

Single(name, value) == [n \in {name} |-> value]

\* The header timeout has no text for "none"; a body limit is written in
\* megabytes if it can be.
EnvMap(s) ==
    Overlay(
        [ADMIN_API_KEY |-> s.AdminAPIKey, LOG_LEVEL |-> s.LogLevel,
         MODEL_AUTO_SYNC |-> Number(IF s.ModelAutoSync THEN 1 ELSE 0),
         MODEL_SYNC_INTERVAL |-> Seconds(s.ModelSyncInterval),
         GROUP_MONITOR_INTERVAL |-> Seconds(s.GroupMonitorInterval),
         MAX_STREAM_DURATION |-> Seconds(s.MaxStreamDuration),
         RPM_LIMIT |-> Number(s.RPMLimit), UPSTREAM_USER_AGENT |-> s.UpstreamUserAgent,
         UPSTREAM_SESSION_HEADER |-> s.UpstreamSessionHeader,
         CORS_ALLOWED_ORIGINS |-> s.CORSAllowedOrigins],
        Overlay(
            IF s.HeaderTimeout > 0
            THEN Single("UPSTREAM_HEADER_TIMEOUT", Seconds(s.HeaderTimeout)) ELSE Nothing,
            IF s.MaxBodyBytes % Megabyte = 0
            THEN Single("MAX_BODY_MB", Number(s.MaxBodyBytes \div Megabyte))
            ELSE Single("MAX_BODY_BYTES", Number(s.MaxBodyBytes))))

-----------------------------------------------------------------------------
\* What the file says of the limit that is now in the groups: a value that is
\* no number counts as 0, and 0 as none.
LegacyLimit(f) ==
    IF LegacyQuota \in DOMAIN f /\ numeric(f[LegacyQuota]) \notin {{}, {0}}
    THEN f[LegacyQuota].n ELSE None

\* A new installation, or one of before the limits moved to the groups.
Init ==
    /\ file \in FirstFiles
    /\ bootstrap = None
    /\ limits = IF file = Nothing THEN [g \in {} |-> None] ELSE FirstLimits
    /\ pc = "down"
    /\ settings = None
    /\ live = None /\ announced = {}
    /\ saving = Unsaved
    /\ edits = 0
    /\ known = IF file = Nothing THEN {} ELSE {file["ADMIN_API_KEY"]}
    /\ due = [g \in DOMAIN limits |-> IF limits[g] = None THEN LegacyLimit(file) ELSE limits[g]]

-----------------------------------------------------------------------------
(* Starting: Ensure, buildApplication, seedGroupQuotas.                    *)

\* Mutant: a lost bootstrap file is not written again.
EnsureExistingOnly ==
    /\ pc = "down"
    /\ file # Nothing
    /\ \E s \in Parse(file) : settings' = s
    /\ pc' = "ensured"
    /\ UNCHANGED <<file, bootstrap, limits, live, announced, saving, edits, known, due>>

\* relay.env is there and valid; the bootstrap file may have to be restored.
EnsureExisting ==
    /\ pc = "down"
    /\ file # Nothing
    /\ \E s \in Parse(file) : settings' = s
    /\ pc' = IF bootstrap = None THEN "bootstrap" ELSE "ensured"
    /\ UNCHANGED <<file, bootstrap, limits, live, announced, saving, edits, known, due>>

GenerateInitialSettings(key) ==
    Parse([ADMIN_API_KEY |-> key, MODEL_AUTO_SYNC |-> Number(0),
           MODEL_SYNC_INTERVAL |-> Seconds(1800), GROUP_MONITOR_INTERVAL |-> Seconds(1800),
           MAX_BODY_BYTES |-> Number(8 * Megabyte), MAX_STREAM_DURATION |-> Seconds(1800),
           RPM_LIMIT |-> Number(30), LOG_LEVEL |-> INFO,
           UPSTREAM_HEADER_TIMEOUT |-> Seconds(1800), UPSTREAM_USER_AGENT |-> DefaultAgent,
           UPSTREAM_SESSION_HEADER |-> Blank, CORS_ALLOWED_ORIGINS |-> Star])

\* There is none: it is generated and written.
EnsureFresh(key) ==
    /\ pc = "down"
    /\ file = Nothing
    /\ \E s \in GenerateInitialSettings(key) : settings' = s /\ file' = EnvMap(s)
    /\ pc' = "bootstrap"
    /\ UNCHANGED <<bootstrap, limits, live, announced, saving, edits, known, due>>

writeBootstrap ==
    /\ pc = "bootstrap"
    /\ bootstrap' = settings.AdminAPIKey
    /\ pc' = "ensured"
    /\ UNCHANGED <<file, limits, settings, live, announced, saving, edits, known, due>>

buildApplication ==
    /\ pc = "ensured"
    /\ live' = settings /\ announced' = {}
    /\ pc' = "built"
    /\ UNCHANGED <<file, bootstrap, limits, settings, saving, edits, known, due>>

\* The UPDATE over all groups: only NULL is filled, and 0 stays NULL.
SeedGroupQuotas ==
    /\ pc = "built"
    /\ LegacyQuota \in DOMAIN file
    /\ limits' = [g \in DOMAIN limits |-> IF limits[g] = None THEN LegacyLimit(file) ELSE limits[g]]
    /\ pc' = "seeded"
    /\ UNCHANGED <<file, bootstrap, settings, live, announced, saving, edits, known, due>>

\* Mutant: Write instead of WriteMapping, which keeps what the file holds.
WithoutLegacyMerged(values) == values

\* The file as it is left once the limits are in the database.
WithoutLegacy(values) == [n \in DOMAIN values \ {LegacyQuota} |-> values[n]]

RewriteFile ==
    /\ pc = "seeded"
    /\ file' = WithoutLegacy(file)
    /\ pc' = "serving"
    /\ UNCHANGED <<bootstrap, limits, settings, live, announced, saving, edits, known, due>>

NothingToSeed ==
    /\ pc = "built"
    /\ LegacyQuota \notin DOMAIN file
    /\ pc' = "serving"
    /\ UNCHANGED <<file, bootstrap, limits, settings, live, announced, saving, edits, known, due>>

\* A crash, a failing start (log.Fatal) or a shutdown.
Stop ==
    /\ pc # "down"
    /\ pc' = "down"
    /\ settings' = None /\ live' = None /\ announced' = {} /\ saving' = Unsaved
    /\ UNCHANGED <<file, bootstrap, limits, edits, known, due>>

-----------------------------------------------------------------------------
(* Saving: configSave, under h.mu from the first of its steps to the last. *)

Edit == edits < MaxEdits /\ edits' = edits + 1

\* Mutant: an empty header timeout means none, as for the other settings.
CandidateCleared(patch) ==
    LET new == Overlay(EnvMap(settings), patch)
    IN  [n \in DOMAIN new \ {x \in DOMAIN new : new[x] = Blank /\ x = "UPSTREAM_HEADER_TIMEOUT"} |-> new[n]]

\* An empty value leaves a secret and the header timeout as they are.
Candidate(patch) ==
    LET kept == {n \in DOMAIN patch : patch[n] = Blank
                                      /\ n \in {"ADMIN_API_KEY", "UPSTREAM_HEADER_TIMEOUT"}}
    IN  Overlay(EnvMap(settings), [n \in DOMAIN patch \ kept |-> patch[n]])

configSave(patch) ==
    /\ pc = "serving"
    /\ saving = Unsaved
    /\ Edit
    /\ \E s \in Parse(Candidate(patch)) : saving' = [stage |-> "checked", next |-> s]
    /\ known' = IF "ADMIN_API_KEY" \in DOMAIN patch THEN known \cup {patch["ADMIN_API_KEY"]} ELSE known
    /\ UNCHANGED <<file, bootstrap, limits, pc, settings, live, announced, due>>

\* ConfigStore.Write: the settings over what the file holds.
Write(old, s) == Overlay(old, EnvMap(s))

\* The file is replaced by renaming a complete one.
Persist ==
    /\ saving.stage = "checked"
    /\ file' = Write(file, saving.next)
    /\ saving' = [saving EXCEPT !.stage = "written"]
    /\ UNCHANGED <<bootstrap, limits, pc, settings, live, announced, edits, known, due>>

\* Writing has failed: the old settings stay.
PersistFails ==
    /\ saving.stage = "checked"
    /\ saving' = Unsaved
    /\ UNCHANGED <<file, bootstrap, limits, pc, settings, live, announced, edits, known, due>>

\* Settings that buildApplication hands on by value: to the upstream clients,
\* and the body limit to the server (the memory limit, to its guard, is like
\* it).  All others are read from config.Source.
Captured == {"HeaderTimeout", "UpstreamUserAgent", "UpstreamSessionHeader", "MaxBodyBytes"}

\* Mutant: the timeouts are listed and the headers sent upstream are not.
RestartOnlyTimeouts(s, next) == {n \in {"HeaderTimeout"} : s[n] # next[n]}

\* What the answer to a save names as waiting for a restart.
RestartOnlyChanges(s, next) ==
    {n \in {"HeaderTimeout", "UpstreamUserAgent", "UpstreamSessionHeader"} : s[n] # next[n]}

\* settings, adminKey, the listener and the answer.
Apply ==
    /\ saving.stage = "written"
    /\ settings' = saving.next
    /\ live' = [n \in DOMAIN settings |-> IF n \in Captured THEN live[n] ELSE saving.next[n]]
    /\ announced' = announced \cup RestartOnlyChanges(settings, saving.next)
    /\ saving' = Unsaved
    /\ UNCHANGED <<file, bootstrap, limits, pc, edits, known, due>>

-----------------------------------------------------------------------------
(* The administrator's groups, and the operator at the machine.            *)

CreateModelGroup(g) ==
    /\ pc = "serving" /\ g \notin DOMAIN limits
    /\ Edit
    /\ limits' = Overlay(limits, [x \in {g} |-> None])
    /\ due' = Overlay(due, [x \in {g} |-> None])
    /\ UNCHANGED <<file, bootstrap, pc, settings, live, announced, saving, known>>

UpdateModelGroup(g, limit) ==
    /\ pc = "serving" /\ g \in DOMAIN limits
    /\ Edit
    /\ limits' = [limits EXCEPT ![g] = limit]
    /\ due' = [due EXCEPT ![g] = limit]
    /\ UNCHANGED <<file, bootstrap, pc, settings, live, announced, saving, known>>

\* "Keep the key safe and delete the bootstrap file" (README).
TakeBootstrap ==
    /\ bootstrap # None
    /\ known' = known \cup {bootstrap}
    /\ bootstrap' = None
    /\ UNCHANGED <<file, limits, pc, settings, live, announced, saving, edits, due>>

EditByHand(patch) ==
    /\ pc = "down" /\ file # Nothing
    /\ Edit
    /\ file' = Overlay(file, patch)
    /\ known' = IF "ADMIN_API_KEY" \in DOMAIN patch THEN known \cup {patch["ADMIN_API_KEY"]} ELSE known
    /\ UNCHANGED <<bootstrap, limits, pc, settings, live, announced, saving, due>>

-----------------------------------------------------------------------------
Next ==
    \/ EnsureExisting
    \/ \E key \in FreshKeys : EnsureFresh(key)
    \/ writeBootstrap \/ buildApplication
    \/ SeedGroupQuotas \/ RewriteFile \/ NothingToSeed
    \/ Stop
    \/ \E patch \in Patches : configSave(patch)
    \/ Persist \/ PersistFails \/ Apply
    \/ \E g \in NewGroups : CreateModelGroup(g)
    \/ \E g \in DOMAIN limits, limit \in Limits : UpdateModelGroup(g, limit)
    \/ TakeBootstrap
    \/ \E patch \in HandEdits : EditByHand(patch)

Spec == Init /\ [][Next]_vars

-----------------------------------------------------------------------------
(* Properties.                                                             *)

(* "The settings the console saves are written back to relay.env; a        *)
(* restart does not lose them" (AdminHandler): whenever no save is half    *)
(* done, the next start would read from the file exactly the settings of   *)
(* the last save or start.  The one setting that may be lost is the body   *)
(* limit: see BodyLimitTakesEffect.                                        *)
SavedSurvivesRestart ==
    pc = "serving" /\ saving = Unsaved =>
        \E s \in Parse(file) : s = [settings EXCEPT !.MaxBodyBytes = s.MaxBodyBytes]

(* "The console would show: in force at once" (RestartOnlyChanges, of the  *)
(* settings it did not list at first): after any number of saves, a        *)
(* request uses the saved value of every setting, or a save since the      *)
(* build has named the setting as waiting for a restart.  The body limit   *)
(* is neither hot nor listed.                                              *)
AnnouncedUntilRestart ==
    pc = "serving" /\ saving = Unsaved =>
        {n \in DOMAIN settings : live[n] # settings[n]} \subseteq announced \cup {"MaxBodyBytes"}

(* What the repository says of every setting, for the body limit: once     *)
(* saved it is in force, at once ("hot applied", README) or after the next *)
(* start ("a restart does not lose it", AdminHandler).  It is not: the     *)
(* server has its limit from the build, EnvMap writes whole megabytes as   *)
(* MAX_BODY_MB, and Write keeps an older MAX_BODY_BYTES of the file, which *)
(* bodyBytes prefers.                                                      *)
BodyLimitTakesEffect ==
    pc = "serving" /\ saving = Unsaved =>
        \/ live.MaxBodyBytes = settings.MaxBodyBytes
        \/ \E s \in Parse(file) : s.MaxBodyBytes = settings.MaxBodyBytes

(* Ensure writes relay.env and the bootstrap file one after the other:     *)
(* wherever the process was stopped, a relay that serves has an            *)
(* administrator key that somebody has or can still read.                  *)
AdminKeyReachable ==
    pc = "serving" => settings.AdminAPIKey \in known \cup {bootstrap}

(* "First the database, then relay.env" (seedGroupQuotas): wherever the    *)
(* process was stopped, once it serves every group has the limit it was    *)
(* given by hand, or the old global limit if it was there at the           *)
(* migration, and no later start touches it.                               *)
LimitsMigratedOnce == pc = "serving" => limits = due
=============================================================================
