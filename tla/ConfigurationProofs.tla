------------------------ MODULE ConfigurationProofs ------------------------
(***************************************************************************)
(* Proofs about Configuration, for any files, saves, edits and groups.     *)
(***************************************************************************)
EXTENDS Configuration, TLAPS

-----------------------------------------------------------------------------
(* Parsing and writing.                                                    *)

\* A file whose lines hold values.
Sane(values) == \A n \in DOMAIN values : values[n] \in Values

\* What every parser makes sure of.
Good(s) ==
    /\ s.AdminAPIKey \in Values \ {Blank} /\ s.LogLevel \in Values \ {Blank, Malformed}
    /\ s.ModelAutoSync \in BOOLEAN
    /\ s.ModelSyncInterval \in Int /\ s.ModelSyncInterval > 0
    /\ s.GroupMonitorInterval \in Int /\ s.GroupMonitorInterval >= 0
    /\ s.MaxBodyBytes \in Int /\ s.MaxBodyBytes > 0
    /\ s.MaxStreamDuration \in Int /\ s.MaxStreamDuration >= 0
    /\ s.RPMLimit \in Int /\ s.RPMLimit > 0
    /\ s.HeaderTimeout \in Int /\ s.HeaderTimeout >= 0
    /\ s.UpstreamUserAgent \in Values \ {Blank}
    /\ s.UpstreamSessionHeader \in Values
    /\ s.CORSAllowedOrigins \in Values \ {Blank, Malformed}

\* What each setting may be read as.
Readings(values) ==
    [AdminAPIKey |-> required(values, "ADMIN_API_KEY"),
     LogLevel |-> textDefault(values, "LOG_LEVEL", INFO),
     ModelAutoSync |-> boolean(values, "MODEL_AUTO_SYNC", FALSE),
     ModelSyncInterval |-> duration(values, "MODEL_SYNC_INTERVAL", 1800, 60),
     GroupMonitorInterval |-> intervalOrZero(values, "GROUP_MONITOR_INTERVAL", 1800),
     MaxBodyBytes |-> bodyBytes(values),
     MaxStreamDuration |-> durationOrZero(values, "MAX_STREAM_DURATION", 1800, 1),
     RPMLimit |-> positiveInt(values, "RPM_LIMIT", 30),
     HeaderTimeout |-> duration(values, "UPSTREAM_HEADER_TIMEOUT", 0, 1),
     UpstreamUserAgent |-> agent(values, "UPSTREAM_USER_AGENT"),
     UpstreamSessionHeader |-> textOptional(values, "UPSTREAM_SESSION_HEADER"),
     CORSAllowedOrigins |-> corsOrigins(values, "CORS_ALLOWED_ORIGINS")]

Names == {"AdminAPIKey", "LogLevel", "ModelAutoSync",
          "ModelSyncInterval", "GroupMonitorInterval", "MaxBodyBytes",
          "MaxStreamDuration", "RPMLimit", "HeaderTimeout",
          "UpstreamUserAgent", "UpstreamSessionHeader", "CORSAllowedOrigins"}

Parts(values, s) == \A k \in Names : s[k] \in Readings(values)[k]

\* s is a record of all settings.
Whole(s) == s = [k \in Names |-> s[k]]

\* A record of sets, and the set of records it stands for.
LEMMA RecordParts ==
  ASSUME NEW s, NEW R
  PROVE s \in [AdminAPIKey : R.AdminAPIKey, LogLevel : R.LogLevel, ModelAutoSync : R.ModelAutoSync,
              ModelSyncInterval : R.ModelSyncInterval, GroupMonitorInterval : R.GroupMonitorInterval, MaxBodyBytes : R.MaxBodyBytes,
              MaxStreamDuration : R.MaxStreamDuration, RPMLimit : R.RPMLimit, HeaderTimeout : R.HeaderTimeout,
              UpstreamUserAgent : R.UpstreamUserAgent, UpstreamSessionHeader : R.UpstreamSessionHeader, CORSAllowedOrigins : R.CORSAllowedOrigins]
        <=> Whole(s) /\ \A k \in Names : s[k] \in R[k]
<1> DEFINE Fields == [AdminAPIKey |-> s.AdminAPIKey, LogLevel |-> s.LogLevel, ModelAutoSync |-> s.ModelAutoSync,
           ModelSyncInterval |-> s.ModelSyncInterval, GroupMonitorInterval |-> s.GroupMonitorInterval, MaxBodyBytes |-> s.MaxBodyBytes,
           MaxStreamDuration |-> s.MaxStreamDuration, RPMLimit |-> s.RPMLimit, HeaderTimeout |-> s.HeaderTimeout,
           UpstreamUserAgent |-> s.UpstreamUserAgent, UpstreamSessionHeader |-> s.UpstreamSessionHeader, CORSAllowedOrigins |-> s.CORSAllowedOrigins]
<1>1. Fields = [k \in Names |-> s[k]]
  BY DEF Names
<1> QED
  BY <1>1 DEF Names, Whole

\* A result of Parse has all settings, each from its own parser, and nothing
\* else has.
LEMMA ParseIs ==
  ASSUME NEW values, NEW s
  PROVE s \in Parse(values) <=> Whole(s) /\ Parts(values, s)
<1> DEFINE R == Readings(values)
           X1 == required(values, "ADMIN_API_KEY")
           X2 == textDefault(values, "LOG_LEVEL", INFO)
           X3 == boolean(values, "MODEL_AUTO_SYNC", FALSE)
           X4 == duration(values, "MODEL_SYNC_INTERVAL", 1800, 60)
           X5 == intervalOrZero(values, "GROUP_MONITOR_INTERVAL", 1800)
           X6 == bodyBytes(values)
           X7 == durationOrZero(values, "MAX_STREAM_DURATION", 1800, 1)
           X8 == positiveInt(values, "RPM_LIMIT", 30)
           X9 == duration(values, "UPSTREAM_HEADER_TIMEOUT", 0, 1)
           X10 == agent(values, "UPSTREAM_USER_AGENT")
           X11 == textOptional(values, "UPSTREAM_SESSION_HEADER")
           X12 == corsOrigins(values, "CORS_ALLOWED_ORIGINS")
<1>1. Parse(values) =
        [AdminAPIKey : X1, LogLevel : X2, ModelAutoSync : X3,
         ModelSyncInterval : X4, GroupMonitorInterval : X5, MaxBodyBytes : X6,
         MaxStreamDuration : X7, RPMLimit : X8, HeaderTimeout : X9,
         UpstreamUserAgent : X10, UpstreamSessionHeader : X11, CORSAllowedOrigins : X12]
  BY Zenon DEF Parse
<1>2. R = [AdminAPIKey |-> X1, LogLevel |-> X2, ModelAutoSync |-> X3,
         ModelSyncInterval |-> X4, GroupMonitorInterval |-> X5, MaxBodyBytes |-> X6,
         MaxStreamDuration |-> X7, RPMLimit |-> X8, HeaderTimeout |-> X9,
         UpstreamUserAgent |-> X10, UpstreamSessionHeader |-> X11, CORSAllowedOrigins |-> X12]
  BY Zenon DEF Readings
<1> HIDE DEF R, X1, X2, X3, X4, X5, X6, X7, X8, X9, X10, X11, X12
<1>3. Parse(values) = [AdminAPIKey : R.AdminAPIKey, LogLevel : R.LogLevel, ModelAutoSync : R.ModelAutoSync,
         ModelSyncInterval : R.ModelSyncInterval, GroupMonitorInterval : R.GroupMonitorInterval, MaxBodyBytes : R.MaxBodyBytes,
         MaxStreamDuration : R.MaxStreamDuration, RPMLimit : R.RPMLimit, HeaderTimeout : R.HeaderTimeout,
         UpstreamUserAgent : R.UpstreamUserAgent, UpstreamSessionHeader : R.UpstreamSessionHeader, CORSAllowedOrigins : R.CORSAllowedOrigins]
  BY <1>1, <1>2
<1>4. s \in Parse(values) <=> Whole(s) /\ \A k \in Names : s[k] \in R[k]
  BY <1>3, RecordParts
<1> QED
  BY <1>4 DEF Parts, R

\* The lines a file of settings has, and that none is the old limit.
LEMMA EnvMapLines ==
  ASSUME NEW s
  PROVE /\ "ADMIN_API_KEY" \in DOMAIN EnvMap(s)
        /\ EnvMap(s)["ADMIN_API_KEY"] = s.AdminAPIKey
        /\ LegacyQuota \notin DOMAIN EnvMap(s)
  BY DEF EnvMap, Overlay, Single, Nothing, LegacyQuota

\* The key of a result of Parse is the one in the file.
LEMMA ParseKey ==
  ASSUME NEW values, NEW s \in Parse(values)
  PROVE "ADMIN_API_KEY" \in DOMAIN values /\ s.AdminAPIKey = values["ADMIN_API_KEY"]
<1>1. Parts(values, s)
  BY ParseIs
<1>2. s.AdminAPIKey \in required(values, "ADMIN_API_KEY")
  BY <1>1 DEF Parts, Names, Readings
<1> QED
  BY <1>2 DEF required

-----------------------------------------------------------------------------
(* How far a start and a save are.                                         *)

\* A file names the administrator's key; a process that runs has a file; only
\* a process that serves saves.
Filed ==
    /\ file # Nothing => "ADMIN_API_KEY" \in DOMAIN file
    /\ pc # "down" => file # Nothing
    /\ saving = Unsaved \/ pc = "serving"
    /\ saving.stage = "none" => saving = Unsaved

\* A file that names a key is there.
LEMMA NotNothing ==
  ASSUME NEW f, "ADMIN_API_KEY" \in DOMAIN f
  PROVE f # Nothing
  BY DEF Nothing

\* The initial state is filed.
LEMMA InitFiled == Init => Filed
  BY ConfigurationAssumption DEF Init, Filed, Unsaved

\* Every step leaves it so.
LEMMA NextFiled == Filed /\ [Next]_vars => Filed'
<1> SUFFICES ASSUME Filed, [Next]_vars PROVE Filed'
  OBVIOUS
<1> USE DEF Filed
<1>1. CASE EnsureExisting
  BY <1>1 DEF EnsureExisting
<1>2. ASSUME NEW key, EnsureFresh(key) PROVE Filed'
  BY <1>2, EnvMapLines, NotNothing DEF EnsureFresh
<1>3. CASE writeBootstrap
  BY <1>3 DEF writeBootstrap, Unsaved
<1>4. CASE buildApplication
  BY <1>4 DEF buildApplication
<1>5. CASE SeedGroupQuotas
  BY <1>5 DEF SeedGroupQuotas
<1>6. CASE RewriteFile
  <2>1. "ADMIN_API_KEY" \in DOMAIN file'
    BY <1>6 DEF RewriteFile, WithoutLegacy, LegacyQuota
  <2> QED
    BY <1>6, <2>1, NotNothing DEF RewriteFile
<1>7. CASE NothingToSeed
  BY <1>7 DEF NothingToSeed
<1>8. CASE Stop
  BY <1>8 DEF Stop
<1>9. ASSUME NEW patch, configSave(patch) PROVE Filed'
  BY <1>9 DEF configSave
<1>10. CASE Persist
  <2>1. "ADMIN_API_KEY" \in DOMAIN file'
    BY <1>10, EnvMapLines DEF Persist, Write, Overlay
  <2>2. pc = "serving"
    BY <1>10 DEF Persist, Unsaved
  <2>3. saving'.stage = "written" \/ saving' = saving
    BY <1>10 DEF Persist
  <2> QED
    BY <1>10, <2>1, <2>2, <2>3, NotNothing DEF Persist, Unsaved
<1>11. CASE PersistFails
  BY <1>11 DEF PersistFails
<1>12. CASE Apply
  BY <1>12 DEF Apply
<1>13. ASSUME NEW g, CreateModelGroup(g) PROVE Filed'
  BY <1>13 DEF CreateModelGroup
<1>14. ASSUME NEW g, NEW limit, UpdateModelGroup(g, limit) PROVE Filed'
  BY <1>14 DEF UpdateModelGroup
<1>15. CASE TakeBootstrap
  BY <1>15 DEF TakeBootstrap
<1>16. ASSUME NEW patch, EditByHand(patch) PROVE Filed'
  <2>1. "ADMIN_API_KEY" \in DOMAIN file'
    BY <1>16 DEF EditByHand, Overlay
  <2> QED
    BY <1>16, <2>1, NotNothing DEF EditByHand
<1>17. CASE UNCHANGED vars
  BY <1>17 DEF vars
<1> HIDE DEF Filed
<1> QED
  BY <1>1, <1>2, <1>3, <1>4, <1>5, <1>6, <1>7, <1>8, <1>9, <1>10, <1>11, <1>12, <1>13, <1>14,
     <1>15, <1>16, <1>17 DEF Next

-----------------------------------------------------------------------------
(* The limits of the groups.                                               *)

\* The limits as a start that reads f would leave them.
Seeded(f) ==
    [g \in DOMAIN limits |-> IF limits[g] = None THEN LegacyLimit(f) ELSE limits[g]]

\* Whatever the process is doing, seeding from the file as it is now gives
\* every group the limit it should have; once seeded, it has it, and a process
\* that serves has no file to seed from.
Migrating ==
    /\ limits = [g \in DOMAIN limits |-> limits[g]]
    /\ due = Seeded(file)
    /\ pc = "seeded" => limits = due
    /\ pc = "serving" => LegacyQuota \notin DOMAIN file

\* A file without the old limit seeds nothing.
LEMMA NothingSeeded ==
  ASSUME Migrating, NEW f, LegacyQuota \notin DOMAIN f
  PROVE Seeded(f) = limits
  BY DEF Migrating, Seeded, LegacyLimit

\* The initial state is migrating.
LEMMA InitMigrating == Init => Migrating
<1> SUFFICES ASSUME Init PROVE Migrating
  OBVIOUS
<1>1. limits = [g \in DOMAIN limits |-> limits[g]]
  BY ConfigurationAssumption DEF Init
<1> QED
  BY <1>1 DEF Init, Migrating, Seeded

\* Every step leaves it so.
LEMMA NextMigrating == Filed /\ Migrating /\ [Next]_vars => Migrating'
<1> SUFFICES ASSUME Filed, Migrating, [Next]_vars PROVE Migrating'
  OBVIOUS
<1>20. ASSUME UNCHANGED <<limits, due, file>>, pc' \notin {"seeded", "serving"} PROVE Migrating'
  BY <1>20 DEF Migrating, Seeded
<1>21. ASSUME UNCHANGED <<limits, due, file, pc>> PROVE Migrating'
  BY <1>21 DEF Migrating, Seeded
<1>1. CASE EnsureExisting
  BY <1>1, <1>20 DEF EnsureExisting
<1>2. ASSUME NEW key, EnsureFresh(key) PROVE Migrating'
  <2>1. LegacyQuota \notin DOMAIN file /\ LegacyQuota \notin DOMAIN file'
    BY <1>2, EnvMapLines DEF EnsureFresh, Nothing
  <2>2. LegacyLimit(file') = LegacyLimit(file)
    BY <2>1 DEF LegacyLimit
  <2> QED
    BY <1>2, <2>2 DEF EnsureFresh, Migrating, Seeded
<1>3. CASE writeBootstrap
  BY <1>3, <1>20 DEF writeBootstrap
<1>4. CASE buildApplication
  BY <1>4, <1>20 DEF buildApplication
<1>5. CASE SeedGroupQuotas
  <2>1. limits' = due
    BY <1>5 DEF SeedGroupQuotas, Migrating, Seeded
  <2>2. due' = due /\ file' = file /\ pc' = "seeded"
    BY <1>5 DEF SeedGroupQuotas
  <2>3. \A g \in DOMAIN due : due[g] = None => LegacyLimit(file) = None
    BY DEF Migrating, Seeded
  <2>4. due = [g \in DOMAIN due |-> due[g]]
    BY DEF Migrating, Seeded
  <2>5. due = [g \in DOMAIN due |-> IF due[g] = None THEN LegacyLimit(file) ELSE due[g]]
    BY <2>3, <2>4
  <2> QED
    BY <2>1, <2>2, <2>4, <2>5 DEF Migrating, Seeded
<1>6. CASE RewriteFile
  <2>1. LegacyQuota \notin DOMAIN file'
    BY <1>6 DEF RewriteFile, WithoutLegacy
  <2>2. due = limits /\ UNCHANGED <<due, limits>> /\ pc' = "serving"
    BY <1>6 DEF RewriteFile, Migrating
  <2>3. Seeded(file') = limits
    BY <2>1, NothingSeeded
  <2> QED
    BY <2>1, <2>2, <2>3 DEF Migrating, Seeded
<1>7. CASE NothingToSeed
  BY <1>7 DEF NothingToSeed, Migrating, Seeded
<1>8. CASE Stop
  BY <1>8, <1>20 DEF Stop
<1>9. ASSUME NEW patch, configSave(patch) PROVE Migrating'
  BY <1>9, <1>21 DEF configSave
<1>10. CASE Persist
  <2>1. pc = "serving" /\ LegacyQuota \notin DOMAIN file
    BY <1>10 DEF Persist, Filed, Unsaved, Migrating
  <2>2. LegacyQuota \notin DOMAIN file'
    BY <1>10, <2>1, EnvMapLines DEF Persist, Write, Overlay
  <2>3. LegacyLimit(file') = LegacyLimit(file)
    BY <2>1, <2>2 DEF LegacyLimit
  <2> QED
    BY <1>10, <2>1, <2>2, <2>3 DEF Persist, Migrating, Seeded
<1>11. CASE PersistFails
  BY <1>11, <1>21 DEF PersistFails
<1>12. CASE Apply
  BY <1>12, <1>21 DEF Apply
<1>13. ASSUME NEW g, CreateModelGroup(g) PROVE Migrating'
  <2>1. LegacyQuota \notin DOMAIN file /\ pc = "serving" /\ UNCHANGED <<file, pc>>
    BY <1>13 DEF CreateModelGroup, Migrating
  <2>2. LegacyLimit(file) = None
    BY <2>1 DEF LegacyLimit
  <2>3. due = limits
    BY <2>1, NothingSeeded DEF Migrating
  <2>4. due' = limits' /\ limits' = [x \in DOMAIN limits' |-> limits'[x]]
    BY <1>13, <2>3 DEF CreateModelGroup, Overlay
  <2> QED
    BY <2>1, <2>2, <2>4 DEF Migrating, Seeded
<1>14. ASSUME NEW g, NEW limit, UpdateModelGroup(g, limit) PROVE Migrating'
  <2>1. LegacyQuota \notin DOMAIN file /\ pc = "serving" /\ UNCHANGED <<file, pc>>
    BY <1>14 DEF UpdateModelGroup, Migrating
  <2>2. LegacyLimit(file) = None
    BY <2>1 DEF LegacyLimit
  <2>3. due = limits
    BY <2>1, NothingSeeded DEF Migrating
  <2>4. due' = limits' /\ limits' = [x \in DOMAIN limits' |-> limits'[x]]
    BY <1>14, <2>3 DEF UpdateModelGroup
  <2> QED
    BY <2>1, <2>2, <2>4 DEF Migrating, Seeded
<1>15. CASE TakeBootstrap
  BY <1>15, <1>21 DEF TakeBootstrap
<1>16. ASSUME NEW patch \in HandEdits, EditByHand(patch) PROVE Migrating'
  <2>1. LegacyQuota \notin DOMAIN patch
    BY ConfigurationAssumption
  <2>2. file' = Overlay(file, patch) /\ UNCHANGED <<limits, due, pc>> /\ pc = "down"
    BY <1>16 DEF EditByHand
  <2>3. LegacyLimit(file') = LegacyLimit(file)
    BY <2>1, <2>2 DEF LegacyLimit, Overlay
  <2> QED
    BY <2>2, <2>3 DEF Migrating, Seeded
<1>17. CASE UNCHANGED vars
  BY <1>17, <1>21 DEF vars
<1> QED
  BY <1>1, <1>2, <1>3, <1>4, <1>5, <1>6, <1>7, <1>8, <1>9, <1>10, <1>11, <1>12, <1>13, <1>14,
     <1>15, <1>16, <1>17 DEF Next

\* The limits of a process that serves are the ones due.
LEMMA MigratedOnce == Migrating => LimitsMigratedOnce
  BY NothingSeeded DEF Migrating, LimitsMigratedOnce

-----------------------------------------------------------------------------
(* The administrator's key.                                                *)

Reach == known \cup {bootstrap}

\* A bootstrap file answers for the key in relay.env; while there is none, the
\* start that found it missing holds that very key and has yet to write it.
Reachable ==
    /\ file = Nothing => bootstrap = None
    /\ bootstrap # None => file["ADMIN_API_KEY"] \in Reach
    /\ pc = "bootstrap" => settings.AdminAPIKey = file["ADMIN_API_KEY"]
    /\ pc \in {"ensured", "built", "seeded", "serving"} => settings.AdminAPIKey \in Reach
    /\ saving # Unsaved => saving.next.AdminAPIKey \in Reach

\* The initial state is reachable.
LEMMA InitReachable == Init => Reachable
  BY DEF Init, Reachable

\* Every step leaves it so.
LEMMA NextReachable == Filed /\ Reachable /\ [Next]_vars => Reachable'
<1> SUFFICES ASSUME Filed, Reachable, [Next]_vars PROVE Reachable'
  OBVIOUS
<1> USE DEF Reachable, Reach
<1>1. CASE EnsureExisting
  <2>1. settings'.AdminAPIKey = file["ADMIN_API_KEY"]
    BY <1>1, ParseKey DEF EnsureExisting
  <2>2. saving = Unsaved
    BY <1>1 DEF EnsureExisting, Filed
  <2> QED
    BY <1>1, <2>1, <2>2 DEF EnsureExisting
<1>2. ASSUME NEW key, EnsureFresh(key) PROVE Reachable'
  <2>1. settings'.AdminAPIKey = file'["ADMIN_API_KEY"] /\ bootstrap' = None
    BY <1>2, EnvMapLines DEF EnsureFresh
  <2>2. saving = Unsaved
    BY <1>2 DEF EnsureFresh, Filed
  <2>3. UNCHANGED <<bootstrap, known, saving>> /\ pc' = "bootstrap" /\ bootstrap = None
    BY <1>2 DEF EnsureFresh
  <2> QED
    BY <2>1, <2>2, <2>3
<1>3. CASE writeBootstrap
  BY <1>3 DEF writeBootstrap, Filed
<1>4. CASE buildApplication
  BY <1>4 DEF buildApplication
<1>5. CASE SeedGroupQuotas
  BY <1>5 DEF SeedGroupQuotas
<1>6. CASE RewriteFile
  <2>1. "ADMIN_API_KEY" \in DOMAIN file /\ file # Nothing
    BY <1>6 DEF RewriteFile, Filed
  <2>2. file'["ADMIN_API_KEY"] = file["ADMIN_API_KEY"] /\ "ADMIN_API_KEY" \in DOMAIN file'
    BY <1>6, <2>1 DEF RewriteFile, WithoutLegacy, LegacyQuota
  <2> QED
    BY <1>6, <2>1, <2>2, NotNothing DEF RewriteFile
<1>7. CASE NothingToSeed
  BY <1>7 DEF NothingToSeed
<1>8. CASE Stop
  BY <1>8 DEF Stop
<1>9. ASSUME NEW patch, configSave(patch) PROVE Reachable'
  <2>1. PICK s \in Parse(Candidate(patch)) : saving' = [stage |-> "checked", next |-> s]
    BY <1>9 DEF configSave
  <2>2. s.AdminAPIKey = Candidate(patch)["ADMIN_API_KEY"]
    BY <2>1, ParseKey
  <2>3. \/ Candidate(patch)["ADMIN_API_KEY"] = settings.AdminAPIKey
        \/ /\ "ADMIN_API_KEY" \in DOMAIN patch
           /\ Candidate(patch)["ADMIN_API_KEY"] = patch["ADMIN_API_KEY"]
    BY EnvMapLines DEF Candidate, Overlay
  <2>4. s.AdminAPIKey \in Reach'
    BY <1>9, <2>2, <2>3 DEF configSave
  <2> QED
    BY <1>9, <2>1, <2>4 DEF configSave
<1>10. CASE Persist
  <2>1. pc = "serving" /\ saving # Unsaved
    BY <1>10 DEF Persist, Filed, Unsaved
  <2>2. file'["ADMIN_API_KEY"] = saving.next.AdminAPIKey /\ "ADMIN_API_KEY" \in DOMAIN file'
    BY <1>10, EnvMapLines DEF Persist, Write, Overlay
  <2>3. saving' # Unsaved => saving'.next = saving.next
    BY <1>10 DEF Persist, Unsaved
  <2> QED
    BY <1>10, <2>1, <2>2, <2>3, NotNothing DEF Persist
<1>11. CASE PersistFails
  BY <1>11 DEF PersistFails
<1>12. CASE Apply
  <2>1. pc = "serving" /\ saving # Unsaved
    BY <1>12 DEF Apply, Filed, Unsaved
  <2> QED
    BY <1>12, <2>1 DEF Apply
<1>13. ASSUME NEW g, CreateModelGroup(g) PROVE Reachable'
  BY <1>13 DEF CreateModelGroup
<1>14. ASSUME NEW g, NEW limit, UpdateModelGroup(g, limit) PROVE Reachable'
  BY <1>14 DEF UpdateModelGroup
<1>15. CASE TakeBootstrap
  BY <1>15 DEF TakeBootstrap
<1>16. ASSUME NEW patch, EditByHand(patch) PROVE Reachable'
  <2>1. "ADMIN_API_KEY" \in DOMAIN file /\ file # Nothing
    BY <1>16 DEF EditByHand, Filed
  <2>2. \/ file'["ADMIN_API_KEY"] = file["ADMIN_API_KEY"]
        \/ file'["ADMIN_API_KEY"] \in known'
    BY <1>16, <2>1 DEF EditByHand, Overlay
  <2>3. "ADMIN_API_KEY" \in DOMAIN file'
    BY <1>16, <2>1 DEF EditByHand, Overlay
  <2>4. known \subseteq known'
    BY <1>16 DEF EditByHand
  <2>5. file' # Nothing
    BY <2>3, NotNothing
  <2>6. pc' = "down" /\ saving' = Unsaved /\ bootstrap' = bootstrap
    BY <1>16 DEF EditByHand, Filed
  <2> QED
    BY <2>1, <2>2, <2>4, <2>5, <2>6
<1>17. CASE UNCHANGED vars
  BY <1>17 DEF vars
<1> HIDE DEF Reachable, Reach
<1> QED
  BY <1>1, <1>2, <1>3, <1>4, <1>5, <1>6, <1>7, <1>8, <1>9, <1>10, <1>11, <1>12, <1>13, <1>14,
     <1>15, <1>16, <1>17 DEF Next

-----------------------------------------------------------------------------
(* What is written is read again.                                          *)

\* The file holds the settings s, each as it is written.  A header timeout of
\* zero has no line; an old MAX_BODY_BYTES may be left, but one that parses.
Carries(values, s) ==
    /\ "ADMIN_API_KEY" \in DOMAIN values /\ values["ADMIN_API_KEY"] = s.AdminAPIKey
    /\ "LOG_LEVEL" \in DOMAIN values /\ values["LOG_LEVEL"] = s.LogLevel
    /\ "MODEL_AUTO_SYNC" \in DOMAIN values
    /\ values["MODEL_AUTO_SYNC"] = Number(IF s.ModelAutoSync THEN 1 ELSE 0)
    /\ "MODEL_SYNC_INTERVAL" \in DOMAIN values
    /\ values["MODEL_SYNC_INTERVAL"] = Seconds(s.ModelSyncInterval)
    /\ "GROUP_MONITOR_INTERVAL" \in DOMAIN values
    /\ values["GROUP_MONITOR_INTERVAL"] = Seconds(s.GroupMonitorInterval)
    /\ "MAX_STREAM_DURATION" \in DOMAIN values
    /\ values["MAX_STREAM_DURATION"] = Seconds(s.MaxStreamDuration)
    /\ "RPM_LIMIT" \in DOMAIN values /\ values["RPM_LIMIT"] = Number(s.RPMLimit)
    /\ "UPSTREAM_USER_AGENT" \in DOMAIN values
    /\ values["UPSTREAM_USER_AGENT"] = s.UpstreamUserAgent
    /\ "UPSTREAM_SESSION_HEADER" \in DOMAIN values
    /\ values["UPSTREAM_SESSION_HEADER"] = s.UpstreamSessionHeader
    /\ "CORS_ALLOWED_ORIGINS" \in DOMAIN values
    /\ values["CORS_ALLOWED_ORIGINS"] = s.CORSAllowedOrigins
    /\ "UPSTREAM_HEADER_TIMEOUT" \in DOMAIN values <=> s.HeaderTimeout > 0
    /\ s.HeaderTimeout > 0 => values["UPSTREAM_HEADER_TIMEOUT"] = Seconds(s.HeaderTimeout)
    /\ IF s.MaxBodyBytes % Megabyte = 0
       THEN /\ "MAX_BODY_MB" \in DOMAIN values
            /\ values["MAX_BODY_MB"] = Number(s.MaxBodyBytes \div Megabyte)
            /\ "MAX_BODY_BYTES" \in DOMAIN values => bodyBytes(values) # {}
       ELSE /\ "MAX_BODY_BYTES" \in DOMAIN values
            /\ values["MAX_BODY_BYTES"] = Number(s.MaxBodyBytes)

\* The next start would read s from the file, but for a body limit whose old
\* spelling is in the way.
Reads(values, s) ==
    \E r \in Parse(values) :
        \/ r = s
        \/ /\ "MAX_BODY_BYTES" \in DOMAIN values
           /\ s.MaxBodyBytes % Megabyte = 0
           /\ r = [s EXCEPT !.MaxBodyBytes = r.MaxBodyBytes]

PartsButBody(values, s) == \A k \in Names \ {"MaxBodyBytes"} : s[k] \in Readings(values)[k]

\* Each parser takes back what is written for its setting.
LEMMA EachReadBack ==
  ASSUME NEW values, NEW s, Good(s), Carries(values, s)
  PROVE PartsButBody(values, s)
<1>1. s.AdminAPIKey \in Readings(values).AdminAPIKey
  BY DEF Readings, Good, Carries, required
<1>2. s.LogLevel \in Readings(values).LogLevel
  BY DEF Readings, Good, Carries, textDefault
<1>3. s.ModelAutoSync \in Readings(values).ModelAutoSync
  BY DEF Readings, Good, Carries, boolean
<1>4. s.ModelSyncInterval \in Readings(values).ModelSyncInterval
  BY DEF Readings, Good, Carries, duration, span, Seconds
<1>5. s.GroupMonitorInterval \in Readings(values).GroupMonitorInterval
  BY DEF Readings, Good, Carries, intervalOrZero, span, Seconds, Blank, Text
<1>6. s.MaxStreamDuration \in Readings(values).MaxStreamDuration
  BY DEF Readings, Good, Carries, durationOrZero, duration, span, Seconds, Number
<1>7. s.RPMLimit \in Readings(values).RPMLimit
  BY DEF Readings, Good, Carries, positiveInt, numeric, Number
<1>8. s.HeaderTimeout \in Readings(values).HeaderTimeout
  BY DEF Readings, Good, Carries, duration, span, Seconds
<1>9. s.UpstreamUserAgent \in Readings(values).UpstreamUserAgent
  BY DEF Readings, Good, Carries, agent
<1>10. s.UpstreamSessionHeader \in Readings(values).UpstreamSessionHeader
  BY DEF Readings, Good, Carries, textOptional
<1>11. s.CORSAllowedOrigins \in Readings(values).CORSAllowedOrigins
  BY DEF Readings, Good, Carries, corsOrigins
<1> QED
  BY <1>1, <1>2, <1>3, <1>4, <1>5, <1>6, <1>7, <1>8, <1>9, <1>10, <1>11 DEF Names, PartsButBody

\* Whole megabytes are bytes again.
LEMMA MegabytesBack ==
  ASSUME NEW n \in Int, n > 0, n % Megabyte = 0
  PROVE /\ n \div Megabyte \in Int /\ n \div Megabyte > 0
        /\ (n \div Megabyte) * Megabyte = n
<1>1. Megabyte \in Nat /\ Megabyte > 0
  BY ConfigurationAssumption
<1>2. n = Megabyte * (n \div Megabyte) + (n % Megabyte) /\ n \div Megabyte \in Int
  BY <1>1
<1>3. (n \div Megabyte) * Megabyte = n
  BY <1>1, <1>2
<1>4. n \div Megabyte > 0
  <2> DEFINE q == n \div Megabyte
  <2>1. q \in Int /\ q * Megabyte = n
    BY <1>2, <1>3
  <2> HIDE DEF q
  <2>2. q > 0
    BY <2>1, <1>1
  <2> QED
    BY <2>2 DEF q
<1> QED
  BY <1>2, <1>3, <1>4

\* What carries s is read as s.
LEMMA CarriedIsRead ==
  ASSUME NEW values, NEW s, Whole(s), Good(s), Carries(values, s)
  PROVE Reads(values, s)
<1>1. PartsButBody(values, s)
  BY EachReadBack
<1>2. CASE s.MaxBodyBytes \in bodyBytes(values)
  <2>1. Parts(values, s)
    <3>1. Readings(values)["MaxBodyBytes"] = bodyBytes(values)
      BY DEF Readings
    <3> QED
      BY <1>1, <1>2, <3>1 DEF Parts, PartsButBody
  <2>2. s \in Parse(values)
    BY <2>1, ParseIs
  <2> QED
    BY <2>2 DEF Reads
<1>3. CASE s.MaxBodyBytes \notin bodyBytes(values)
  <2>1. s.MaxBodyBytes \in Int /\ s.MaxBodyBytes > 0
    BY DEF Good
  <2>2. s.MaxBodyBytes % Megabyte = 0
    BY <1>3, <2>1 DEF Carries, bodyBytes, numeric, Number
  <2>3. "MAX_BODY_BYTES" \in DOMAIN values
    <3> SUFFICES ASSUME "MAX_BODY_BYTES" \notin DOMAIN values PROVE FALSE
      OBVIOUS
    <3>1. s.MaxBodyBytes \div Megabyte \in positiveInt(values, "MAX_BODY_MB", 8)
      BY <2>1, <2>2, MegabytesBack DEF Carries, positiveInt, numeric, Number
    <3>2. (s.MaxBodyBytes \div Megabyte) * Megabyte \in bodyBytes(values)
      BY <3>1 DEF bodyBytes
    <3> QED
      BY <1>3, <2>1, <2>2, <3>2, MegabytesBack
  <2>4. PICK b : b \in bodyBytes(values)
    BY <2>2, <2>3 DEF Carries
  <2> DEFINE r == [s EXCEPT !.MaxBodyBytes = b]
  <2>5. Whole(r) /\ r.MaxBodyBytes = b
    BY DEF Whole
  <2>6. Parts(values, r)
    <3>1. \A k \in Names \ {"MaxBodyBytes"} : r[k] = s[k]
      BY DEF Whole
    <3>2. Readings(values)["MaxBodyBytes"] = bodyBytes(values)
      BY DEF Readings
    <3> HIDE DEF r
    <3> QED
      BY <1>1, <2>4, <2>5, <3>1, <3>2 DEF Parts, PartsButBody
  <2>7. r \in Parse(values)
    BY <2>5, <2>6, ParseIs
  <2>8. r = [s EXCEPT !.MaxBodyBytes = r.MaxBodyBytes]
    BY <2>5
  <2> QED
    BY <2>2, <2>3, <2>7, <2>8 DEF Reads
<1> QED
  BY <1>2, <1>3

\* What is read is good, and a header timeout of zero means that the file has
\* no line for it.
LEMMA ParseGood ==
  ASSUME NEW values, Sane(values), NEW s \in Parse(values)
  PROVE /\ Good(s) /\ Whole(s)
        /\ s.HeaderTimeout = 0 => "UPSTREAM_HEADER_TIMEOUT" \notin DOMAIN values
        /\ "MAX_BODY_BYTES" \in DOMAIN values => bodyBytes(values) # {}
<1> USE DEF Names
<1>1. Parts(values, s) /\ Whole(s)
  BY ParseIs
<1>2. s.AdminAPIKey \in Values \ {Blank}
  BY <1>1 DEF Parts, Readings, required, Sane
<1>3. s.LogLevel \in Values \ {Blank, Malformed}
  BY <1>1 DEF Parts, Readings, textDefault, Sane, INFO, Text, Values, Blank, Malformed
<1>4. s.ModelAutoSync \in BOOLEAN
  <2>1. boolean(values, "MODEL_AUTO_SYNC", FALSE) \subseteq BOOLEAN
    BY DEF boolean
  <2>2. Readings(values)["ModelAutoSync"] = boolean(values, "MODEL_AUTO_SYNC", FALSE)
    BY DEF Readings
  <2>3. s["ModelAutoSync"] \in Readings(values)["ModelAutoSync"]
    BY <1>1 DEF Parts
  <2> QED
    BY <2>1, <2>2, <2>3, Zenon
<1>5. s.ModelSyncInterval \in Int /\ s.ModelSyncInterval > 0
  BY <1>1 DEF Parts, Readings, duration, span, numeric, Sane, Values
<1>6. s.GroupMonitorInterval \in Int /\ s.GroupMonitorInterval >= 0
  BY <1>1 DEF Parts, Readings, intervalOrZero, span, numeric, Sane, Values
<1>7. s.MaxBodyBytes \in Int /\ s.MaxBodyBytes > 0
  <2>1. Megabyte \in Int /\ Megabyte > 0
    BY ConfigurationAssumption
  <2>2. s.MaxBodyBytes \in bodyBytes(values)
    BY <1>1 DEF Parts, Readings
  <2>3. CASE "MAX_BODY_BYTES" \in DOMAIN values
    BY <2>2, <2>3 DEF bodyBytes, numeric, Sane, Values
  <2>4. CASE "MAX_BODY_BYTES" \notin DOMAIN values
    <3>1. PICK x \in positiveInt(values, "MAX_BODY_MB", 8) : s.MaxBodyBytes = x * Megabyte
      BY <2>2, <2>4 DEF bodyBytes
    <3>2. x \in Int /\ x > 0
      BY DEF positiveInt, numeric, Sane, Values
    <3>3. x * Megabyte \in Int /\ x * Megabyte > 0
      BY <2>1, <3>2
    <3> QED
      BY <3>1, <3>3
  <2> QED
    BY <2>3, <2>4
<1>8. s.MaxStreamDuration \in Int /\ s.MaxStreamDuration >= 0
  BY <1>1 DEF Parts, Readings, durationOrZero, duration, span, numeric, Sane, Values
<1>9. s.RPMLimit \in Int /\ s.RPMLimit > 0
  BY <1>1 DEF Parts, Readings, positiveInt, numeric, Sane, Values
<1>10. /\ s.HeaderTimeout \in Int /\ s.HeaderTimeout >= 0
       /\ s.HeaderTimeout = 0 => "UPSTREAM_HEADER_TIMEOUT" \notin DOMAIN values
  BY <1>1 DEF Parts, Readings, duration, span, numeric, Sane, Values
<1>11. s.UpstreamUserAgent \in Values \ {Blank}
  BY <1>1 DEF Parts, Readings, agent, Sane, DefaultAgent, Text, Values, Blank
<1>12. s.UpstreamSessionHeader \in Values
  BY <1>1 DEF Parts, Readings, textOptional, Sane, Text, Values, Blank
<1>13. s.CORSAllowedOrigins \in Values \ {Blank, Malformed}
  BY <1>1 DEF Parts, Readings, corsOrigins, Sane, Star, Text, Values, Blank, Malformed
<1>14. "MAX_BODY_BYTES" \in DOMAIN values => bodyBytes(values) # {}
  <2>1. s.MaxBodyBytes \in bodyBytes(values)
    BY <1>1 DEF Parts, Readings
  <2> QED
    BY <2>1
<1> QED
  BY <1>1, <1>2, <1>3, <1>4, <1>5, <1>6, <1>7, <1>8, <1>9, <1>10, <1>11, <1>12, <1>13, <1>14 DEF Good

\* The lines of the file are the settings in writing.
LEMMA EnvMapCarries ==
  ASSUME NEW s, Good(s)
  PROVE /\ Carries(EnvMap(s), s) /\ Sane(EnvMap(s))
<1>1. Megabyte \in Int /\ Megabyte > 0
  BY ConfigurationAssumption
<1>2. s.HeaderTimeout \in Int /\ s.MaxBodyBytes \in Int
  BY DEF Good
<1>3. s.MaxBodyBytes \div Megabyte \in Int
  BY <1>1, <1>2
<1>4. Carries(EnvMap(s), s)
  BY <1>2 DEF Carries, EnvMap, Overlay, Single, Nothing
<1>5. Sane(EnvMap(s))
  BY <1>3 DEF Sane, Good, EnvMap, Overlay, Single, Nothing, Number, Seconds, Values
<1> QED
  BY <1>4, <1>5

\* Writing s over a file that parses carries s; a header timeout of zero has
\* to find no line to overwrite.
LEMMA WriteCarries ==
  ASSUME NEW old, NEW s, Good(s), Sane(old),
         s.HeaderTimeout = 0 => "UPSTREAM_HEADER_TIMEOUT" \notin DOMAIN old,
         "MAX_BODY_BYTES" \in DOMAIN old => bodyBytes(old) # {}
  PROVE Carries(Write(old, s), s) /\ Sane(Write(old, s))
<1> DEFINE new == EnvMap(s)
           f == Write(old, s)
<1>1. Carries(new, s) /\ Sane(new)
  BY EnvMapCarries
<1>2. /\ DOMAIN f = DOMAIN old \cup DOMAIN new
      /\ \A n \in DOMAIN new : f[n] = new[n]
      /\ \A n \in DOMAIN old \ DOMAIN new : f[n] = old[n]
  BY DEF Write, Overlay
<1>3. "UPSTREAM_HEADER_TIMEOUT" \in DOMAIN f <=> s.HeaderTimeout > 0
  BY <1>1, <1>2 DEF Carries, Good
<1>4. ASSUME s.MaxBodyBytes % Megabyte = 0, "MAX_BODY_BYTES" \in DOMAIN f
      PROVE bodyBytes(f) # {}
  <2>1. "MAX_BODY_BYTES" \notin DOMAIN new
    BY <1>4 DEF EnvMap, Overlay, Single, Nothing
  <2>2. "MAX_BODY_BYTES" \in DOMAIN old /\ f["MAX_BODY_BYTES"] = old["MAX_BODY_BYTES"]
    BY <1>2, <1>4, <2>1
  <2>3. bodyBytes(f) = bodyBytes(old)
    BY <1>4, <2>2 DEF bodyBytes
  <2> QED
    BY <2>2, <2>3
<1> HIDE DEF new, f
<1>5. Carries(f, s)
  BY <1>1, <1>2, <1>3, <1>4 DEF Carries
<1>6. Sane(f)
  BY <1>1, <1>2 DEF Sane
<1> QED
  BY <1>5, <1>6 DEF f

\* Taking out the old limit takes nothing from a start.
LEMMA ReadsWithoutLegacy ==
  ASSUME NEW values
  PROVE \A s : s \in Parse(WithoutLegacy(values)) <=> s \in Parse(values)
<1> DEFINE f == WithoutLegacy(values)
<1>1. \A n : n # LegacyQuota => /\ n \in DOMAIN f <=> n \in DOMAIN values
                                /\ n \in DOMAIN values => f[n] = values[n]
  BY DEF WithoutLegacy
<1> HIDE DEF f
<1> USE DEF LegacyQuota
<1>2. Readings(f).AdminAPIKey = Readings(values).AdminAPIKey
  BY <1>1 DEF Readings, required
<1>3. Readings(f).LogLevel = Readings(values).LogLevel
  BY <1>1 DEF Readings, textDefault
<1>4. Readings(f).ModelAutoSync = Readings(values).ModelAutoSync
  BY <1>1 DEF Readings, boolean
<1>5. Readings(f).ModelSyncInterval = Readings(values).ModelSyncInterval
  BY <1>1 DEF Readings, duration
<1>6. Readings(f).GroupMonitorInterval = Readings(values).GroupMonitorInterval
  BY <1>1 DEF Readings, intervalOrZero
<1>7. Readings(f).MaxBodyBytes = Readings(values).MaxBodyBytes
  BY <1>1 DEF Readings, bodyBytes, positiveInt
<1>8. Readings(f).MaxStreamDuration = Readings(values).MaxStreamDuration
  BY <1>1 DEF Readings, durationOrZero, duration
<1>9. Readings(f).RPMLimit = Readings(values).RPMLimit
  BY <1>1 DEF Readings, positiveInt
<1>10. Readings(f).HeaderTimeout = Readings(values).HeaderTimeout
  BY <1>1 DEF Readings, duration
<1>11. Readings(f).UpstreamUserAgent = Readings(values).UpstreamUserAgent
  BY <1>1 DEF Readings, agent
<1>12. Readings(f).UpstreamSessionHeader = Readings(values).UpstreamSessionHeader
  BY <1>1 DEF Readings, textOptional
<1>13. Readings(f).CORSAllowedOrigins = Readings(values).CORSAllowedOrigins
  BY <1>1 DEF Readings, corsOrigins
<1>14. \A k \in Names : Readings(f)[k] = Readings(values)[k]
  BY <1>2, <1>3, <1>4, <1>5, <1>6, <1>7, <1>8, <1>9, <1>10, <1>11, <1>12, <1>13 DEF Names
<1>15. \A s : Parts(f, s) <=> Parts(values, s)
  BY <1>14 DEF Parts
<1>16. \A s : s \in Parse(f) <=> s \in Parse(values)
  BY <1>15, ParseIs
<1> QED
  BY <1>16 DEF f

-----------------------------------------------------------------------------
(* The settings and the file.                                              *)

\* The settings t could be written to the file now, and the next start would
\* read them from it.
Kept(t) ==
    /\ Whole(t) /\ Good(t)
    /\ t.HeaderTimeout = 0 => "UPSTREAM_HEADER_TIMEOUT" \notin DOMAIN file
    /\ Reads(file, t)

\* What requests use and the settings of the last save differ only in what a
\* save has announced, and in the body limit.
Current ==
    \A n \in Names : live[n] # settings[n] => n \in announced \cup {"MaxBodyBytes"}

\* A save that is checked can be written; one that is written has its settings
\* in the file, and no other state of the process has others than its own.
Saved ==
    /\ Sane(file)
    /\ pc # "down" => Whole(settings)
    /\ pc # "down" /\ saving.stage # "written" => Kept(settings)
    /\ saving.stage = "checked" =>
         /\ Whole(saving.next) /\ Good(saving.next)
         /\ saving.next.HeaderTimeout = 0 => settings.HeaderTimeout = 0
    /\ saving.stage = "written" => Kept(saving.next)
    /\ saving.stage \in {"none", "checked", "written"}
    /\ pc \in {"built", "seeded", "serving"} => Current

\* A file that Parse takes has a body limit.
LEMMA ReadsBody ==
  ASSUME NEW values, Sane(values), NEW s, Reads(values, s)
  PROVE "MAX_BODY_BYTES" \in DOMAIN values => bodyBytes(values) # {}
  BY ParseGood DEF Reads

\* What a start has read is kept.
LEMMA ReadIsKept ==
  ASSUME NEW s \in Parse(file), Sane(file)
  PROVE Kept(s)
  BY ParseGood DEF Kept, Reads

\* The initial state is saved.
LEMMA InitSaved == Init => Saved
<1> SUFFICES ASSUME Init PROVE Saved
  OBVIOUS
<1>1. Sane(file)
  BY ConfigurationAssumption DEF Init, Sane
<1> QED
  BY <1>1 DEF Init, Saved, Unsaved

\* An administrator's patch leaves no header timeout of zero where there was
\* one before.
LEMMA CandidateTimeout ==
  ASSUME NEW patch \in Patches, Good(settings), NEW s \in Parse(Candidate(patch))
  PROVE /\ Whole(s) /\ Good(s)
        /\ s.HeaderTimeout = 0 => settings.HeaderTimeout = 0
<1> DEFINE f == Candidate(patch)
<1>1. Sane(EnvMap(settings)) /\ Carries(EnvMap(settings), settings)
  BY EnvMapCarries
<1>2. Sane(f)
  <2>1. \A n \in DOMAIN patch : patch[n] \in Values
    BY ConfigurationAssumption
  <2> QED
    BY <1>1, <2>1 DEF Sane, Candidate, Overlay
<1>3. Whole(s) /\ Good(s) /\ (s.HeaderTimeout = 0 => "UPSTREAM_HEADER_TIMEOUT" \notin DOMAIN f)
  BY <1>2, ParseGood
<1>4. settings.HeaderTimeout > 0 => "UPSTREAM_HEADER_TIMEOUT" \in DOMAIN f
  BY <1>1 DEF Candidate, Overlay, Carries
<1> QED
  BY <1>3, <1>4 DEF Good

\* The settings of a first start are in order.
LEMMA InitialSettings ==
  ASSUME NEW key \in FreshKeys, NEW s \in GenerateInitialSettings(key)
  PROVE Whole(s) /\ Good(s)
<1> DEFINE f == [ADMIN_API_KEY |-> key, MODEL_AUTO_SYNC |-> Number(0),
           MODEL_SYNC_INTERVAL |-> Seconds(1800), GROUP_MONITOR_INTERVAL |-> Seconds(1800),
           MAX_BODY_BYTES |-> Number(8 * Megabyte), MAX_STREAM_DURATION |-> Seconds(1800),
           RPM_LIMIT |-> Number(30), LOG_LEVEL |-> INFO,
           UPSTREAM_HEADER_TIMEOUT |-> Seconds(1800), UPSTREAM_USER_AGENT |-> DefaultAgent,
           UPSTREAM_SESSION_HEADER |-> Blank, CORS_ALLOWED_ORIGINS |-> Star]
<1>1. key \in Values /\ 8 * Megabyte \in Int
  BY ConfigurationAssumption
<1>2. Sane(f)
  BY <1>1 DEF Sane, Values, Number, Seconds, Text, INFO, DefaultAgent, Blank, Star
<1>3. s \in Parse(f)
  BY DEF GenerateInitialSettings
<1> HIDE DEF f
<1> QED
  BY <1>2, <1>3, ParseGood

\* Every step keeps what is saved.
LEMMA NextSaved == Filed /\ Saved /\ [Next]_vars => Saved'
<1> SUFFICES ASSUME Filed, Saved, [Next]_vars PROVE Saved'
  OBVIOUS
<1> USE DEF Saved
<1>18. ASSUME UNCHANGED <<file, settings, live, announced, saving, pc>> PROVE Saved'
  BY <1>18 DEF Kept, Current
<1>1. CASE EnsureExisting
  <2>1. PICK s \in Parse(file) : settings' = s
    BY <1>1 DEF EnsureExisting
  <2>2. Kept(s)
    BY <2>1, ReadIsKept
  <2>3. Kept(settings)'
    BY <1>1, <2>1, <2>2 DEF Kept, EnsureExisting
  <2>4. saving = Unsaved /\ saving' = Unsaved /\ file' = file
    BY <1>1 DEF EnsureExisting, Filed
  <2>5. pc' \in {"bootstrap", "ensured"}
    BY <1>1 DEF EnsureExisting
  <2> QED
    BY <2>3, <2>4, <2>5 DEF Unsaved, Kept
<1>2. ASSUME NEW key \in FreshKeys, EnsureFresh(key) PROVE Saved'
  <2>1. PICK s \in GenerateInitialSettings(key) : settings' = s /\ file' = EnvMap(s)
    BY <1>2 DEF EnsureFresh
  <2>2. Whole(s) /\ Good(s)
    BY <2>1, InitialSettings
  <2>3. Carries(EnvMap(s), s) /\ Sane(EnvMap(s))
    BY <2>2, EnvMapCarries
  <2>4. Reads(EnvMap(s), s)
    BY <2>2, <2>3, CarriedIsRead
  <2>5. s.HeaderTimeout = 0 => "UPSTREAM_HEADER_TIMEOUT" \notin DOMAIN EnvMap(s)
    BY <2>3 DEF Carries
  <2>6. Kept(settings)' /\ Sane(file)'
    BY <2>1, <2>2, <2>3, <2>4, <2>5 DEF Kept
  <2>7. saving = Unsaved /\ saving' = Unsaved /\ pc' = "bootstrap"
    BY <1>2 DEF EnsureFresh, Filed
  <2> QED
    BY <2>6, <2>7 DEF Unsaved, Kept
<1>3. CASE writeBootstrap
  BY <1>3 DEF writeBootstrap, Kept, Current
<1>4. CASE buildApplication
  BY <1>4 DEF buildApplication, Kept, Current
<1>5. CASE SeedGroupQuotas
  BY <1>5 DEF SeedGroupQuotas, Kept, Current
<1>6. CASE RewriteFile
  <2>1. saving = Unsaved /\ UNCHANGED <<settings, live, announced, saving>> /\ file' = WithoutLegacy(file)
    BY <1>6 DEF RewriteFile, Filed
  <2>2. Kept(settings)
    BY <1>6, <2>1 DEF RewriteFile, Unsaved
  <2>3. DOMAIN file' \subseteq DOMAIN file /\ \A n \in DOMAIN file' : file'[n] = file[n]
    BY <2>1 DEF WithoutLegacy
  <2>4. "MAX_BODY_BYTES" \in DOMAIN file => "MAX_BODY_BYTES" \in DOMAIN file'
    BY <2>1 DEF WithoutLegacy, LegacyQuota
  <2>5. Reads(file', settings)
    BY <2>1, <2>2, <2>4, ReadsWithoutLegacy DEF Kept, Reads
  <2>6. Kept(settings)'
    BY <2>1, <2>2, <2>3, <2>5 DEF Kept
  <2>7. Sane(file)'
    BY <2>3 DEF Sane
  <2> QED
    BY <1>6, <2>1, <2>6, <2>7 DEF RewriteFile, Unsaved, Current, Kept
<1>7. CASE NothingToSeed
  BY <1>7 DEF NothingToSeed, Kept, Current
<1>8. CASE Stop
  BY <1>8 DEF Stop, Unsaved
<1>9. ASSUME NEW patch \in Patches, configSave(patch) PROVE Saved'
  <2>1. PICK s \in Parse(Candidate(patch)) : saving' = [stage |-> "checked", next |-> s]
    BY <1>9 DEF configSave
  <2>2. Kept(settings) /\ UNCHANGED <<file, settings, live, announced, pc>>
    BY <1>9 DEF configSave, Unsaved
  <2>3. Whole(s) /\ Good(s) /\ (s.HeaderTimeout = 0 => settings.HeaderTimeout = 0)
    BY <2>1, <2>2, CandidateTimeout DEF Kept
  <2>4. Kept(settings)'
    BY <2>2 DEF Kept
  <2> QED
    BY <2>1, <2>2, <2>3, <2>4 DEF Current
<1>10. CASE Persist
  <2>1. pc = "serving"
    BY <1>10 DEF Persist, Filed, Unsaved
  <2> DEFINE t == saving.next
  <2>2. Kept(settings) /\ Whole(t) /\ Good(t) /\ (t.HeaderTimeout = 0 => settings.HeaderTimeout = 0)
    BY <1>10, <2>1 DEF Persist
  <2>3. file' = Write(file, t) /\ UNCHANGED <<settings, live, announced, pc>>
    BY <1>10 DEF Persist
  <2>4. saving'.next = t /\ saving'.stage = "written"
    BY <1>10 DEF Persist
  <2>5. Carries(Write(file, t), t) /\ Sane(Write(file, t))
    BY <2>2, WriteCarries, ReadsBody DEF Kept
  <2>6. Reads(Write(file, t), t)
    BY <2>2, <2>5, CarriedIsRead
  <2>7. t.HeaderTimeout = 0 => "UPSTREAM_HEADER_TIMEOUT" \notin DOMAIN Write(file, t)
    BY <2>5 DEF Carries
  <2> HIDE DEF t
  <2>8. Kept(saving.next)'
    BY <2>2, <2>3, <2>4, <2>6, <2>7 DEF Kept
  <2> QED
    BY <2>1, <2>3, <2>4, <2>5, <2>8 DEF Current
<1>11. CASE PersistFails
  BY <1>11 DEF PersistFails, Unsaved, Kept, Current
<1>12. CASE Apply
  <2>1. pc = "serving" /\ Whole(settings) /\ Current /\ Kept(saving.next)
    BY <1>12 DEF Apply, Filed, Unsaved
  <2>2. settings' = saving.next /\ saving' = Unsaved /\ UNCHANGED <<file, pc>>
    BY <1>12 DEF Apply
  <2>3. Kept(settings)' /\ Whole(settings)'
    BY <2>1, <2>2 DEF Kept
  <2>4. Current'
    <3> SUFFICES ASSUME NEW n \in Names, live'[n] # settings'[n]
                 PROVE n \in announced' \cup {"MaxBodyBytes"}
      BY DEF Current
    <3>1. DOMAIN settings = Names
      BY <2>1 DEF Whole
    <3>2. live'[n] = IF n \in Captured THEN live[n] ELSE saving.next[n]
      BY <1>12, <3>1 DEF Apply
    <3>3. n \in Captured
      BY <2>2, <3>2
    <3>4. CASE settings[n] = saving.next[n]
      <4>1. live[n] # settings[n]
        BY <2>2, <3>2, <3>3, <3>4
      <4> QED
        BY <1>12, <2>1, <4>1 DEF Apply, Current
    <3>5. CASE settings[n] # saving.next[n]
      BY <1>12, <3>3, <3>5 DEF Apply, Captured, RestartOnlyChanges
    <3> QED
      BY <3>4, <3>5
  <2> QED
    BY <2>1, <2>2, <2>3, <2>4 DEF Unsaved
<1>13. ASSUME NEW g, CreateModelGroup(g) PROVE Saved'
  BY <1>13, <1>18 DEF CreateModelGroup
<1>14. ASSUME NEW g, NEW limit, UpdateModelGroup(g, limit) PROVE Saved'
  BY <1>14, <1>18 DEF UpdateModelGroup
<1>15. CASE TakeBootstrap
  BY <1>15, <1>18 DEF TakeBootstrap
<1>16. ASSUME NEW patch \in HandEdits, EditByHand(patch) PROVE Saved'
  <2>1. Sane(file)'
    <3>1. \A n \in DOMAIN patch : patch[n] \in Values
      BY ConfigurationAssumption
    <3> QED
      BY <1>16, <3>1 DEF EditByHand, Overlay, Sane
  <2>2. saving = Unsaved /\ saving' = Unsaved /\ pc' = "down"
    BY <1>16 DEF EditByHand, Filed
  <2> QED
    BY <2>1, <2>2 DEF Unsaved
<1>17. CASE UNCHANGED vars
  BY <1>17, <1>18 DEF vars
<1> HIDE DEF Saved
<1> QED
  BY <1>1, <1>2, <1>3, <1>4, <1>5, <1>6, <1>7, <1>8, <1>9, <1>10, <1>11, <1>12, <1>13, <1>14,
     <1>15, <1>16, <1>17 DEF Next

\* A process between two saves that stops would come back with its settings.
LEMMA SavedSurvives == Saved => SavedSurvivesRestart
<1> SUFFICES ASSUME Saved, pc = "serving", saving = Unsaved
             PROVE \E s \in Parse(file) : s = [settings EXCEPT !.MaxBodyBytes = s.MaxBodyBytes]
  BY DEF SavedSurvivesRestart
<1>1. Whole(settings) /\ Reads(file, settings)
  BY DEF Saved, Kept, Unsaved
<1>2. settings = [settings EXCEPT !.MaxBodyBytes = settings.MaxBodyBytes]
  BY <1>1 DEF Whole
<1> QED
  BY <1>1, <1>2 DEF Reads

\* What is not in force has been announced.
LEMMA SavedAnnounced == Saved => AnnouncedUntilRestart
<1> SUFFICES ASSUME Saved, pc = "serving", saving = Unsaved,
                    NEW n \in DOMAIN settings, live[n] # settings[n]
             PROVE n \in announced \cup {"MaxBodyBytes"}
  BY DEF AnnouncedUntilRestart
<1>1. n \in Names
  BY DEF Saved, Whole
<1> QED
  BY <1>1 DEF Saved, Current

-----------------------------------------------------------------------------
Inv == Filed /\ Migrating /\ Reachable /\ Saved

(* The conjunction is inductive.  Filed is what the other three share: how *)
(* far the start is, and that only a serving process saves.                *)
THEOREM InvHolds == Spec => []Inv
<1>1. Init => Inv
  BY InitFiled, InitMigrating, InitReachable, InitSaved DEF Inv
<1>2. Inv /\ [Next]_vars => Inv'
  BY NextFiled, NextMigrating, NextReachable, NextSaved DEF Inv
<1> QED
  BY <1>1, <1>2, PTL DEF Spec

(* For any installation, any sequence of starts, crashes, saves and edits: *)
(* what the console saved is what the next start reads, but for the body   *)
(* limit (Persist before Apply, Write over the old file); a setting that   *)
(* requests do not use yet has been announced (RestartOnlyChanges lists    *)
(* all that the build captured, but the body limit); the key of a serving  *)
(* relay can be had (the bootstrap file is restored by Ensure); and the    *)
(* old limit was moved to the groups once (database first, then            *)
(* relay.env).                                                             *)
THEOREM ConfigurationSafe ==
  Spec => [](/\ SavedSurvivesRestart /\ AnnouncedUntilRestart
             /\ AdminKeyReachable /\ LimitsMigratedOnce)
<1>1. Inv => /\ SavedSurvivesRestart /\ AnnouncedUntilRestart
             /\ AdminKeyReachable /\ LimitsMigratedOnce
  BY SavedSurvives, SavedAnnounced, MigratedOnce DEF Inv, Reachable, Reach, AdminKeyReachable
<1> QED
  BY <1>1, InvHolds, PTL
=============================================================================
