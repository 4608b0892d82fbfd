------------------------------ MODULE Database ------------------------------
(* db.rs: opening the database. Each statement of the start commits on its   *)
(* own, so a crash leaves any prefix of them; in memory mode what survives   *)
(* is the last snapshot renamed into place.                                  *)
EXTENDS Naturals, Sequences, SequencesExt

CONSTANTS
    DbChanges,      \* bound: changes of the roster
    DbFaults        \* bound: crashes and damaged snapshots

VARIABLES
    dbMode,      \* "file", "snapshots": in memory with a persist path, "volatile": without
    dbDisk,      \* the durable file, None when absent
    dbDamaged,   \* it fails quick_check
    dbMem,       \* what the open connection holds
    dbPc, dbAt,  \* "down", "script", "serving", "stopping", "exiting", "refused"; the statement it is at
    dbRestored,
    dbSnap,      \* snapshotter -> the backup it holds and has not renamed yet
    dbLeft,
    dbTaken,     \* history: backups, with what was on disk at the beginning
    dbSaved      \* history: some database has been made durable

vars == <<dbMode, dbDisk, dbDamaged, dbMem, dbPc, dbAt, dbRestored, dbSnap, dbLeft, dbTaken, dbSaved>>

-----------------------------------------------------------------------------
(* The schema *)

CoreTables == <<"interfaces", "clients", "users", "user_configs", "hooks", "general", "one_time_links">>
DnsTables == <<"dns_bundle">>
XrayTables == <<"xray_inbound", "xray_clients">>
ProxyTables == <<"proxy_settings", "qqdns_settings">>
MtproxyTables == <<"mtproxy_inbound", "mtproxy_users">>
MdnsvpnTables == <<"mdnsvpn_inbound", "mdnsvpn_clients">>
TrustTunnelTables == <<"trusttunnel_inbound", "trusttunnel_users">>

Tables == CoreTables \o DnsTables \o XrayTables \o ProxyTables \o MtproxyTables
          \o MdnsvpnTables \o TrustTunnelTables

Cb3Columns ==
    <<"header_protection_key", "content_padding_addition", "rekey_after_time", "rekey_timeout",
      "reject_after_time", "keepalive_timeout", "max_handshake_attempts", "random_trailers",
      "disable_cookies">>

AddedColumns ==
    <<<<"clients", "advanced_security">>, <<"users", "totp_last_step">>,
      <<"interfaces", "additional_config">>, <<"clients", "additional_config">>,
      <<"user_configs", "default_additional_config">>>>
    \o [i \in DOMAIN Cb3Columns |-> <<"interfaces", Cb3Columns[i]>>]

LaterColumns ==
    <<<<"interfaces", "dns_lockdown">>, <<"interfaces", "dns_lockdown_target">>,
      <<"interfaces", "dns_block_external">>, <<"xray_inbound", "transport">>,
      <<"xray_inbound", "xhttp_path">>, <<"proxy_settings", "max_sessions">>,
      <<"proxy_settings", "session_ttl">>, <<"one_time_links", "token_enc">>,
      <<"general", "private_key_retention">>, <<"general", "activity_retention_days">>>>

Columns == AddedColumns \o LaterColumns

\* The tables whose one row the server reads and updates by a fixed key.
EnsuredRows == <<"xray_inbound", "dns_bundle", "mtproxy_inbound", "trusttunnel_inbound", "mdnsvpn_inbound">>
SeededRows ==
    <<"interfaces", "general", "hooks", "user_configs", "xray_inbound", "proxy_settings",
      "qqdns_settings", "mtproxy_inbound", "mdnsvpn_inbound", "trusttunnel_inbound">>

\* create_tables with its migrations, then seed_if_empty: one statement after another.
Script ==
    [i \in DOMAIN Tables |-> [do |-> "create", what |-> Tables[i]]]
    \o [i \in DOMAIN Columns |-> [do |-> "alter", what |-> Columns[i]]]
    \o <<[do |-> "hooks", what |-> "hooks"]>>
    \o [i \in DOMAIN EnsuredRows |-> [do |-> "insert", what |-> EnsuredRows[i]]]
    \o <<[do |-> "empty?", what |-> "general"]>>
    \o [i \in DOMAIN SeededRows |-> [do |-> "insert", what |-> SeededRows[i]]]

None == [tables |-> {}, columns |-> {}, rows |-> {}, hooks |-> "none", roster |-> 0]

\* A database the program may find: none, awg-easy's, or one of a release without the
\* transports that came last.
AwgEasy ==
    [tables |-> ToSet(CoreTables), columns |-> {}, hooks |-> "iptables", roster |-> 1,
     rows |-> {"interfaces", "general", "hooks", "user_configs"}]
Earlier ==
    [tables |-> ToSet(CoreTables \o XrayTables \o MtproxyTables \o ProxyTables),
     columns |-> ToSet(AddedColumns), hooks |-> "nft", roster |-> 1,
     rows |-> ToSet(SeededRows) \ {"trusttunnel_inbound", "mdnsvpn_inbound"}]

-----------------------------------------------------------------------------
Init ==
    /\ dbMode \in {"file", "snapshots", "volatile"}
    /\ dbDisk \in {None, AwgEasy, Earlier}
    /\ dbMode = "volatile" => dbDisk = None
    /\ dbDamaged = FALSE
    /\ dbMem = None
    /\ dbPc = "down" /\ dbAt = 0 /\ dbRestored = FALSE
    /\ dbSnap = [s \in {"periodic", "final"} |-> None]
    /\ dbLeft = [change |-> DbChanges, fault |-> DbFaults]
    /\ dbTaken = {dbDisk}
    /\ dbSaved = (dbDisk # None)

Store(db) ==
    /\ dbMem' = db
    /\ dbDisk' = IF dbMode = "file" THEN db ELSE dbDisk
    /\ dbSaved' = (dbSaved \/ dbMode = "file")

Opened(db, restored) ==
    /\ dbMem' = db /\ dbRestored' = restored
    /\ dbPc' = "script" /\ dbAt' = 1
Restorable == dbMode = "snapshots" /\ dbDisk # None

\* The snapshot is given up and a first run seeded.
InitDbRegardless ==
    /\ dbPc = "down"
    /\ IF dbMode = "file" \/ (Restorable /\ ~dbDamaged) THEN Opened(dbDisk, dbMode # "file") ELSE Opened(None, FALSE)
    /\ UNCHANGED <<dbMode, dbDisk, dbDamaged, dbSnap, dbLeft, dbTaken, dbSaved>>

\* A snapshot that will not restore is a reason not to start.
InitDb ==
    /\ dbPc = "down"
    /\ \/ dbMode = "file" /\ Opened(dbDisk, FALSE)
       \/ dbMode # "file" /\ ~Restorable /\ Opened(None, FALSE)
       \/ Restorable /\ ~dbDamaged /\ Opened(dbDisk, TRUE)
       \/ Restorable /\ dbDamaged /\ dbPc' = "refused" /\ UNCHANGED <<dbMem, dbAt, dbRestored>>
    /\ UNCHANGED <<dbMode, dbDisk, dbDamaged, dbSnap, dbLeft, dbTaken, dbSaved>>

-----------------------------------------------------------------------------
\* The nine columns of one release are looked for by the first of them.
ColumnExistsOfGroup(db, c) ==
    IF c[1] = "interfaces" /\ c[2] \in ToSet(Cb3Columns)
    THEN <<"interfaces", Cb3Columns[1]>> \in db.columns ELSE c \in db.columns

ColumnExists(db, c) == c \in db.columns

CreateTable(db, t) ==
    IF t \in db.tables THEN db
    ELSE [db EXCEPT !.tables = @ \cup {t}, !.columns = @ \cup {c \in ToSet(Columns) : c[1] = t}]
AddColumn(db, c) == IF ColumnExists(db, c) THEN db ELSE [db EXCEPT !.columns = @ \cup {c}]
ReplaceHooks(db) == [db EXCEPT !.hooks = IF @ = "iptables" THEN "nft" ELSE @]
InsertOrIgnore(db, t) ==
    [db EXCEPT !.rows = @ \cup {t}, !.hooks = IF t = "hooks" /\ t \notin db.rows THEN "nft" ELSE @]

Effect(db, s) ==
    CASE s.do = "create" -> CreateTable(db, s.what)
      [] s.do = "alter" -> AddColumn(db, s.what)
      [] s.do = "hooks" -> ReplaceHooks(db)
      [] s.do = "insert" -> InsertOrIgnore(db, s.what)
      [] s.do = "empty?" -> db

Statement ==
    /\ dbPc = "script"
    /\ dbAt <= Len(Script)
    /\ Script[dbAt].do = "empty?" => ~dbRestored /\ "general" \notin dbMem.rows
    /\ Store(Effect(dbMem, Script[dbAt]))
    /\ dbAt' = dbAt + 1
    /\ UNCHANGED <<dbMode, dbDamaged, dbPc, dbRestored, dbSnap, dbLeft, dbTaken>>

\* The script has ended, or seed_if_empty found the database seeded or restored.
Ready ==
    /\ dbPc = "script"
    /\ \/ dbAt > Len(Script)
       \/ dbAt <= Len(Script) /\ Script[dbAt].do = "empty?" /\ (dbRestored \/ "general" \in dbMem.rows)
    /\ dbPc' = "serving" /\ dbAt' = 0
    /\ UNCHANGED <<dbMode, dbDisk, dbDamaged, dbMem, dbRestored, dbSnap, dbLeft, dbTaken, dbSaved>>

-----------------------------------------------------------------------------
(* Serving *)

\* Any call that changes the roster; requests drain while the server stops.
Change ==
    /\ dbPc \in {"serving", "stopping"} /\ dbSnap["final"] = None
    /\ dbLeft.change > 0
    /\ dbLeft' = [dbLeft EXCEPT !.change = @ - 1]
    /\ Store([dbMem EXCEPT !.roster = @ + 1])
    /\ UNCHANGED <<dbMode, dbDamaged, dbPc, dbAt, dbRestored, dbSnap, dbTaken>>

\* snapshot_to: the backup under the connection's lock, into a directory of its own.
Backup(s) ==
    /\ dbMode = "snapshots" /\ dbSnap[s] = None
    /\ dbPc \in (IF s = "final" THEN {"stopping"} ELSE {"serving", "stopping", "exiting"})
    /\ dbSnap' = [dbSnap EXCEPT ![s] = dbMem]
    /\ dbTaken' = dbTaken \cup {dbMem}
    /\ UNCHANGED <<dbMode, dbDisk, dbDamaged, dbMem, dbPc, dbAt, dbRestored, dbLeft, dbSaved>>

Promote(s) ==
    /\ dbSnap[s] # None
    /\ dbDisk' = dbSnap[s] /\ dbDamaged' = FALSE /\ dbSaved' = TRUE
    /\ dbSnap' = [dbSnap EXCEPT ![s] = None]
    /\ dbPc' = IF s = "final" THEN "exiting" ELSE dbPc
    /\ UNCHANGED <<dbMode, dbMem, dbAt, dbRestored, dbLeft, dbTaken>>

\* chmod or rename fails: the directory is removed and the old snapshot stays.
GiveUp(s) ==
    /\ dbSnap[s] # None /\ dbLeft.fault > 0
    /\ dbLeft' = [dbLeft EXCEPT !.fault = @ - 1]
    /\ dbSnap' = [dbSnap EXCEPT ![s] = None]
    /\ dbPc' = IF s = "final" THEN "exiting" ELSE dbPc
    /\ UNCHANGED <<dbMode, dbDisk, dbDamaged, dbMem, dbAt, dbRestored, dbTaken, dbSaved>>

Stop ==
    /\ dbPc = "serving"
    /\ dbPc' = "stopping"
    /\ UNCHANGED <<dbMode, dbDisk, dbDamaged, dbMem, dbAt, dbRestored, dbSnap, dbLeft, dbTaken, dbSaved>>

\* main returns once the final snapshot is written; the runtime waits for a periodic one.
Exit ==
    /\ dbPc = (IF dbMode = "snapshots" THEN "exiting" ELSE "stopping")
    /\ \A s \in DOMAIN dbSnap : dbSnap[s] = None
    /\ dbPc' = "down"
    /\ dbMem' = None
    /\ UNCHANGED <<dbMode, dbDisk, dbDamaged, dbAt, dbRestored, dbSnap, dbLeft, dbTaken, dbSaved>>

-----------------------------------------------------------------------------
Crash ==
    /\ dbPc \in {"script", "serving", "stopping", "exiting"} /\ dbLeft.fault > 0
    /\ dbLeft' = [dbLeft EXCEPT !.fault = @ - 1]
    /\ dbPc' = "down" /\ dbAt' = 0 /\ dbMem' = None
    /\ dbSnap' = [s \in DOMAIN dbSnap |-> None]
    /\ UNCHANGED <<dbMode, dbDisk, dbDamaged, dbRestored, dbTaken, dbSaved>>

\* The medium damages the snapshot while nothing runs.
Damage ==
    /\ dbPc = "down" /\ dbMode = "snapshots" /\ dbDisk # None /\ ~dbDamaged /\ dbLeft.fault > 0
    /\ dbLeft' = [dbLeft EXCEPT !.fault = @ - 1]
    /\ dbDamaged' = TRUE
    /\ UNCHANGED <<dbMode, dbDisk, dbMem, dbPc, dbAt, dbRestored, dbSnap, dbTaken, dbSaved>>

Next ==
    \/ InitDb \/ Statement \/ Ready \/ Change \/ Stop \/ Exit \/ Crash \/ Damage
    \/ \E s \in DOMAIN dbSnap : Backup(s) \/ Promote(s) \/ GiveUp(s)

Spec == Init /\ [][Next]_vars

-----------------------------------------------------------------------------

\* A server that serves has every table and every column this release reads, whatever release
\* wrote the file and wherever earlier starts were cut (create_tables, apply_migrations).
SchemaIsComplete ==
    dbPc \in {"serving", "stopping"} =>
        dbMem.tables = ToSet(Tables) /\ dbMem.columns = ToSet(Columns)

\* A start from memory mode serves a whole backup, and the open first-run installation only
\* while nothing was ever saved (init_in_memory_db, snapshot_to).
RestartServesABackup ==
    dbMode = "snapshots" /\ dbPc = "script" /\ dbAt = 1 =>
        IF dbSaved THEN dbMem \in dbTaken /\ dbMem # None ELSE dbMem = None
=============================================================================
