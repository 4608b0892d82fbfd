------------------------------- MODULE Secrets -------------------------------
(* db.rs and crypto.rs: credentials are encrypted on their way into a        *)
(* registered column and decrypted on their way out. Every start may come    *)
(* with a key, another key or none, and begins by encrypting what earlier    *)
(* starts left in plaintext. Columns do not interact: a behaviour follows    *)
(* one of them, in one row.                                                  *)
EXTENDS Naturals, Sequences

CONSTANTS ScStarts, ScCalls     \* bounds: starts, database calls

VARIABLES
    scCell,     \* the column: [table, column]
    scKey,      \* this start's key, NoKey without one
    scPc,       \* "down", "backfill", "serving"
    scStored,   \* what the row holds: [layers, value], None without the row
    scWritten,  \* history: the value last written
    scAnswer,   \* the last read: a value, "error", or nothing
    scLeft

vars == <<scCell, scKey, scPc, scStored, scWritten, scAnswer, scLeft>>

NoKey == 0
Keys == {NoKey, 1, 2}
Empty == [layers |-> <<>>, value |-> "empty"]
None == [layers |-> <<>>, value |-> "none"]
Plain(v) == [layers |-> <<>>, value |-> v]
\* A secret, and one that itself begins with the prefix of a ciphertext.
Values == {"a", "b", "enc$"}

-----------------------------------------------------------------------------
(* crypto.rs *)

IsEncrypted(s) == s.layers # <<>> \/ s.value = "enc$"
Encrypt(s, key) == IF key = NoKey THEN s ELSE [s EXCEPT !.layers = <<key>> \o @]
Failure == Plain("error")
Decrypt(s, key) ==
    IF ~IsEncrypted(s) THEN s
    ELSE IF key = NoKey \/ s.layers = <<>> \/ Head(s.layers) # key THEN Failure
    ELSE [s EXCEPT !.layers = Tail(@)]

Enc(s, key) == IF s = Empty \/ IsEncrypted(s) THEN s ELSE Encrypt(s, key)
Dec(s, key) == IF s = Empty THEN s ELSE Decrypt(s, key)

-----------------------------------------------------------------------------
(* What each table's row decrypts (from_row) *)

InterfaceRow == {"private_key", "header_protection_key"}
ClientRow == {"private_key", "pre_shared_key"}
UserRow == {"totp_key"}
GeneralRow == {"session_password", "metrics_password"}
OneTimeLinkRow == {"token_enc"}
XrayInboundRow == {"private_key"}
XrayClientRowForgets == {"uuid"}
XrayClientRow == {"uuid", "short_id"}
TrustTunnelInboundRow == {"tls_key_pem"}
TrustTunnelUserRow == {"password"}
MdnsvpnInboundRow == {"encryption_key", "socks5_pass"}
MdnsvpnClientRow == {"socks5_pass"}
MtproxyUserRow == {"secret_hex"}

FromRow ==
    [interfaces |-> InterfaceRow, clients |-> ClientRow, users |-> UserRow, general |-> GeneralRow,
     one_time_links |-> OneTimeLinkRow, xray_inbound |-> XrayInboundRow, xray_clients |-> XrayClientRow,
     trusttunnel_inbound |-> TrustTunnelInboundRow, trusttunnel_users |-> TrustTunnelUserRow,
     mdnsvpn_inbound |-> MdnsvpnInboundRow, mdnsvpn_clients |-> MdnsvpnClientRow,
     mtproxy_users |-> MtproxyUserRow]

EncryptedColumns ==
    {<<"interfaces", "private_key">>, <<"interfaces", "header_protection_key">>,
     <<"clients", "private_key">>, <<"clients", "pre_shared_key">>, <<"xray_inbound", "private_key">>,
     <<"xray_clients", "uuid">>, <<"xray_clients", "short_id">>, <<"mtproxy_users", "secret_hex">>,
     <<"mdnsvpn_inbound", "encryption_key">>, <<"general", "session_password">>,
     <<"users", "totp_key">>, <<"one_time_links", "token_enc">>, <<"mdnsvpn_inbound", "socks5_pass">>,
     <<"mdnsvpn_clients", "socks5_pass">>, <<"general", "metrics_password">>,
     <<"trusttunnel_inbound", "tls_key_pem">>, <<"trusttunnel_users", "password">>}

IsEncryptedColumn(c) == c \in EncryptedColumns

-----------------------------------------------------------------------------
(* Which calls write each table's secrets: an insert or a statement of its   *)
(* own encrypts or not by itself, update goes through build_update, clear    *)
(* empties the column, delete takes the row.                                 *)

Call(op, columns, encrypts) == [op |-> op, columns |-> columns, encrypts |-> encrypts]
Update(columns) == Call("update", columns, FALSE)
Delete == Call("delete", {}, FALSE)

InterfaceCalls == {Update({"private_key", "header_protection_key"})}
ClientCalls ==
    {Call("insert", {"private_key", "pre_shared_key"}, TRUE),
     Update({"private_key", "pre_shared_key"}),
     Call("replace", {"private_key"}, TRUE),
     Call("clear", {"private_key"}, FALSE),
     Delete}
UserCalls == {Call("insert", {"totp_key"}, TRUE), Update({"totp_key"})}
GeneralCalls == {Call("insert", {"session_password"}, TRUE), Update({"metrics_password"})}
OneTimeLinkCalls == {Call("insert", {"token_enc"}, TRUE), Delete}
XrayInboundCalls == {Update({"private_key"})}
XrayClientCalls == {Call("insert", {"uuid", "short_id"}, TRUE), Update({"uuid", "short_id"}), Delete}
MtproxyUserCalls == {Call("insert", {"secret_hex"}, TRUE), Update({"secret_hex"}), Delete}
MdnsvpnInboundCalls == {Update({"encryption_key", "socks5_pass"}), Call("replace", {"encryption_key"}, TRUE)}
MdnsvpnClientCalls == {Call("insert", {"socks5_pass"}, FALSE), Update({"socks5_pass"}), Delete}
TrustTunnelInboundCalls == {Update({"tls_key_pem"})}
TrustTunnelUserCalls == {Call("insert", {"password"}, TRUE), Update({"password"}), Delete}

Calls ==
    [interfaces |-> InterfaceCalls, clients |-> ClientCalls, users |-> UserCalls, general |-> GeneralCalls,
     one_time_links |-> OneTimeLinkCalls, xray_inbound |-> XrayInboundCalls,
     xray_clients |-> XrayClientCalls, trusttunnel_inbound |-> TrustTunnelInboundCalls,
     trusttunnel_users |-> TrustTunnelUserCalls, mdnsvpn_inbound |-> MdnsvpnInboundCalls,
     mdnsvpn_clients |-> MdnsvpnClientCalls, mtproxy_users |-> MtproxyUserCalls]

\* build_update encrypts the registered columns, whoever calls it.
Written(c, v) ==
    IF c.encrypts \/ (c.op = "update" /\ IsEncryptedColumn(scCell)) THEN Enc(Plain(v), scKey) ELSE Plain(v)

-----------------------------------------------------------------------------
\* The one secret that seed_if_empty generates.
Seeded == scCell[2] = "session_password"
HasRow == scCell[1] \in {"interfaces", "general", "xray_inbound", "trusttunnel_inbound", "mdnsvpn_inbound"} /\ ~Seeded

Init ==
    /\ scCell \in EncryptedColumns
    /\ scKey = NoKey /\ scPc = "down"
    /\ scStored = IF HasRow THEN Empty ELSE None
    /\ scWritten = scStored.value
    /\ scAnswer = None
    /\ scLeft = [start |-> ScStarts, call |-> ScCalls]

Start(key) ==
    /\ scPc = "down" /\ scLeft.start > 0
    /\ scLeft' = [scLeft EXCEPT !.start = @ - 1]
    /\ scKey' = key
    /\ scPc' = "backfill"
    /\ UNCHANGED <<scCell, scStored, scWritten, scAnswer>>

\* encrypt_plaintext_secrets: a value still in plaintext is read, encrypted and put back.
EncryptPlaintextSecrets ==
    /\ scPc = "backfill" /\ (Seeded => scStored # None)
    /\ scPc' = "serving"
    /\ scStored' = IF scKey # NoKey /\ scStored # None THEN Enc(scStored, scKey) ELSE scStored
    /\ UNCHANGED <<scCell, scKey, scWritten, scAnswer, scLeft>>

Spend == scLeft.call > 0 /\ scLeft' = [scLeft EXCEPT !.call = @ - 1]

Write(c, v) ==
    /\ scPc = (IF Seeded THEN "backfill" ELSE "serving") /\ Spend
    /\ scCell[2] \in c.columns /\ c.op \in {"insert", "update", "replace"}
    /\ c.op = "insert" <=> scStored = None
    /\ scStored' = Written(c, v)
    /\ scWritten' = v
    /\ scAnswer' = None
    /\ UNCHANGED <<scCell, scKey, scPc>>

Remove(c) ==
    /\ scPc = "serving" /\ Spend /\ scStored # None
    /\ \/ c.op = "delete" /\ scStored' = None
       \/ c.op = "clear" /\ scCell[2] \in c.columns /\ scStored' = Empty
    /\ scWritten' = scStored'.value
    /\ scAnswer' = None
    /\ UNCHANGED <<scCell, scKey, scPc>>

Read ==
    /\ scPc = "serving" /\ scStored # None
    /\ scAnswer' = IF scCell[2] \in FromRow[scCell[1]] THEN Dec(scStored, scKey) ELSE scStored
    /\ UNCHANGED <<scCell, scKey, scPc, scStored, scWritten, scLeft>>

Crash ==
    /\ scPc # "down"
    /\ scPc' = "down" /\ scAnswer' = None
    /\ UNCHANGED <<scCell, scKey, scStored, scWritten, scLeft>>

Next ==
    \/ \E key \in Keys : Start(key)
    \/ EncryptPlaintextSecrets \/ Read \/ Crash
    \/ \E c \in Calls[scCell[1]] : Remove(c) \/ \E v \in Values \cup {"empty"} : Write(c, v)

Spec == Init /\ [][Next]_vars

-----------------------------------------------------------------------------

\* A read returns the secret last written or fails: no change of key, no start and no second
\* encryption hands a ciphertext or an older secret to a caller (enc, dec, from_row).
ReadReturnsTheSecret ==
    scAnswer \in {None, Failure} \/ scAnswer = Plain(scWritten)
=============================================================================
