-------------------------- MODULE MCConfiguration --------------------------
EXTENDS Configuration

CONSTANTS g1, g2, g3

\* The file of a relay of before the migration, with a global limit and without.
OldFile == [ADMIN_API_KEY |-> Text(11), TOKEN_LIMIT_DAILY |-> Number(5)]
Installations == {Nothing, OldFile, Overlay(OldFile, [TOKEN_LIMIT_DAILY |-> Number(0)])}

\* g1 has its own limit, g2 never had one.
OldLimits == [g \in {g1, g2} |-> IF g = g1 THEN 3 ELSE None]

Generated == {Text(21), Text(22)}

\* 6 bytes are no whole number of megabytes here, 8 bytes are two.
Saves == {[ADMIN_API_KEY |-> Text(12)],
          [ADMIN_API_KEY |-> Blank, RPM_LIMIT |-> Number(40)],
          [UPSTREAM_HEADER_TIMEOUT |-> Blank, MAX_BODY_MB |-> Number(4)],
          [UPSTREAM_HEADER_TIMEOUT |-> Number(20), UPSTREAM_USER_AGENT |-> Blank],
          [MAX_STREAM_DURATION |-> Number(0), MODEL_SYNC_INTERVAL |-> Number(2)],
          [GROUP_MONITOR_INTERVAL |-> Number(0), MODEL_AUTO_SYNC |-> Number(1)],
          [GROUP_MONITOR_INTERVAL |-> Blank, CORS_ALLOWED_ORIGINS |-> Blank],
          [UPSTREAM_SESSION_HEADER |-> Text(31), CORS_ALLOWED_ORIGINS |-> Text(32)],
          [LOG_LEVEL |-> Malformed], [RPM_LIMIT |-> Number(0)],
          [MAX_BODY_BYTES |-> Number(6)], [MAX_BODY_BYTES |-> Number(8)]}

ByHand == {[GROUP_MONITOR_INTERVAL |-> Number(5), ADMIN_API_KEY |-> Text(13)],
           [UPSTREAM_HEADER_TIMEOUT |-> Seconds(7), UPSTREAM_USER_AGENT |-> Blank]}
=============================================================================
