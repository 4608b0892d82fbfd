--------------------------- MODULE DatabaseProofs ---------------------------
(* Machine-checked proofs about the database's start: for any number of    *)
(* starts, cut wherever they may be, of damaged files and of snapshots.    *)
EXTENDS MCServer, SequenceTheorems, TLAPS

-----------------------------------------------------------------------------
(* The statements of create_tables and apply_migrations are concrete       *)
(* sequences; the first lemmas say what they consist of, the later ones    *)
(* what running them one by one does to a database.                        *)

(* The names of the tables.                                                *)
TableNames ==
    {"interfaces", "clients", "users", "user_configs", "hooks", "general", "one_time_links", "dns_bundle",
     "xray_inbound", "xray_clients", "proxy_settings", "qqdns_settings", "mtproxy_inbound", "mtproxy_users",
     "mdnsvpn_inbound", "mdnsvpn_clients", "trusttunnel_inbound", "trusttunnel_users"}

(* The columns the first migrations add.                                   *)
FirstColumns ==
    <<<<"clients", "advanced_security">>, <<"users", "totp_last_step">>,
      <<"interfaces", "additional_config">>, <<"clients", "additional_config">>,
      <<"user_configs", "default_additional_config">>>>

(* The columns any migration adds.                                         *)
ColumnNames ==
    DB!ToSet(FirstColumns) \cup DB!ToSet(DB!LaterColumns) \cup ({"interfaces"} \X DB!ToSet(DB!Cb3Columns))

(* The tables of this release.                                             *)
TableSet == DB!ToSet(DB!Tables)

(* The migrated columns of this release.                                   *)
ColumnSet == DB!ToSet(DB!Columns)

(* What a statement of the script may be.                                  *)
Statements == [do : {"create", "alter", "hooks", "insert", "empty?"}, what : TableNames \cup ColumnNames]

(* Sets of tables.                                                         *)
TableSets == SUBSET TableSet

(* Sets of columns.                                                        *)
ColumnSets == SUBSET ColumnSet

(* Tables that have rows.                                                  *)
RowSets == SUBSET TableNames

(* Which firewall the hooks are written for.                               *)
HookKinds == {"none", "iptables", "nft"}

(* The databases a file or the memory may hold.                            *)
Databases ==
    [tables : TableSets, columns : ColumnSets, rows : RowSets,
     hooks : HookKinds, roster : Nat]

(* The types of the databases on disk, in memory and in snapshots.         *)
DatabaseTypeOK ==
    /\ dbDisk \in Databases /\ dbMem \in Databases
    /\ dbSnap \in [{"periodic", "final"} -> Databases]
    /\ dbAt \in Nat

(* A snapshot is taken only while the server serves, and what is on disk   *)
(* is one that was taken whole; a start begins with it.                    *)
SnapshotInv ==
    /\ dbPc \in {"down", "script", "refused"} => \A s \in {"periodic", "final"} : dbSnap[s] = DB!None
    /\ dbPc = "script" => dbAt >= 1
    /\ dbMode = "snapshots" =>
        /\ dbDisk \in dbTaken
        /\ dbSaved <=> dbDisk # DB!None
        /\ \A s \in {"periodic", "final"} : dbSnap[s] = DB!None \/ dbSnap[s] \in dbTaken
        /\ dbPc = "script" /\ dbAt = 1 => dbMem = dbDisk

(* In the middle of the script, every table and every column whose         *)
(* statement has run is there; a server that serves has run them all. This *)
(* relates how far the start has come to what the file holds, and is what  *)
(* a cut start may not break.                                              *)
SchemaInv ==
    /\ dbPc = "script" =>
        /\ \A i \in 1..Len(DB!Tables) : i < dbAt => DB!Tables[i] \in dbMem.tables
        /\ \A j \in 1..Len(DB!Columns) : Len(DB!Tables) + j < dbAt => DB!Columns[j] \in dbMem.columns
    /\ dbPc \in {"serving", "stopping"} => dbMem.tables = TableSet /\ dbMem.columns = ColumnSet

(* The inductive invariant.                                                *)
DatabaseInv == DatabaseTypeOK /\ SnapshotInv /\ SchemaInv

(* The elements of a concatenation are those of its parts.                 *)
LEMMA ConcatSet ==
    ASSUME NEW S, NEW s \in Seq(S), NEW t \in Seq(S)
    PROVE  s \o t \in Seq(S) /\ DB!ToSet(s \o t) = DB!ToSet(s) \cup DB!ToSet(t)
<1>1. s \o t \in Seq(S) /\ Len(s \o t) = Len(s) + Len(t)
      /\ \A i \in 1..Len(s) + Len(t) : (s \o t)[i] = IF i <= Len(s) THEN s[i] ELSE t[i - Len(s)]
  BY ConcatProperties
<1>2. Len(s) \in Nat /\ Len(t) \in Nat /\ DOMAIN s = 1..Len(s) /\ DOMAIN t = 1..Len(t)
      /\ DOMAIN (s \o t) = 1..Len(s \o t)
  BY <1>1, LenProperties
<1>3. \A i \in 1..Len(s) : (s \o t)[i] = s[i]
  BY <1>1, <1>2
<1>4. \A i \in 1..Len(t) : Len(s) + i \in 1..Len(s) + Len(t) /\ (s \o t)[Len(s) + i] = t[i]
  BY <1>1, <1>2
<1> HIDE DEF DB!ToSet
<1>5. DB!ToSet(s) \subseteq DB!ToSet(s \o t)
  BY <1>1, <1>2, <1>3 DEF DB!ToSet
<1>6. DB!ToSet(t) \subseteq DB!ToSet(s \o t)
  <2> SUFFICES ASSUME NEW i \in 1..Len(t) PROVE t[i] \in DB!ToSet(s \o t)
    BY <1>2 DEF DB!ToSet
  <2>1. Len(s) + i \in DOMAIN (s \o t) /\ (s \o t)[Len(s) + i] = t[i]
    BY <1>1, <1>2, <1>4
  <2> QED BY <2>1 DEF DB!ToSet
<1>7. DB!ToSet(s \o t) \subseteq DB!ToSet(s) \cup DB!ToSet(t)
  BY <1>1, <1>2 DEF DB!ToSet
<1> QED BY <1>1, <1>5, <1>6, <1>7

(* Each group of tables is a sequence of table names.                      *)
LEMMA TableSequences ==
    /\ DB!CoreTables \in Seq(TableNames) /\ DB!DnsTables \in Seq(TableNames) /\ DB!XrayTables \in Seq(TableNames)
    /\ DB!ProxyTables \in Seq(TableNames) /\ DB!MtproxyTables \in Seq(TableNames)
    /\ DB!MdnsvpnTables \in Seq(TableNames) /\ DB!TrustTunnelTables \in Seq(TableNames)
    /\ DB!EnsuredRows \in Seq(TableNames) /\ DB!SeededRows \in Seq(TableNames)
<1>1. DB!CoreTables \in Seq(TableNames)
  BY DEF DB!CoreTables, TableNames
<1>2. DB!DnsTables \in Seq(TableNames) /\ DB!XrayTables \in Seq(TableNames)
  BY DEF DB!DnsTables, DB!XrayTables, TableNames
<1>3. DB!ProxyTables \in Seq(TableNames) /\ DB!MtproxyTables \in Seq(TableNames)
  BY DEF DB!ProxyTables, DB!MtproxyTables, TableNames
<1>4. DB!MdnsvpnTables \in Seq(TableNames) /\ DB!TrustTunnelTables \in Seq(TableNames)
  BY DEF DB!MdnsvpnTables, DB!TrustTunnelTables, TableNames
<1>5. DB!EnsuredRows \in Seq(TableNames)
  BY DEF DB!EnsuredRows, TableNames
<1>6. DB!SeededRows \in Seq(TableNames)
  BY DEF DB!SeededRows, TableNames
<1> QED BY <1>1, <1>2, <1>3, <1>4, <1>5, <1>6

(* So are the tables, and their set is the union of the groups.            *)
LEMMA TablesSequence ==
    /\ DB!Tables \in Seq(TableNames)
    /\ TableSet = DB!ToSet(DB!CoreTables) \cup DB!ToSet(DB!DnsTables) \cup DB!ToSet(DB!XrayTables)
                  \cup DB!ToSet(DB!ProxyTables) \cup DB!ToSet(DB!MtproxyTables) \cup DB!ToSet(DB!MdnsvpnTables)
                  \cup DB!ToSet(DB!TrustTunnelTables)
<1> DEFINE a == DB!CoreTables \o DB!DnsTables
           b == a \o DB!XrayTables
           c == b \o DB!ProxyTables
           d == c \o DB!MtproxyTables
           e == d \o DB!MdnsvpnTables
           f == e \o DB!TrustTunnelTables
<1>7. DB!Tables = f
  BY DEF DB!Tables
<1>1. a \in Seq(TableNames) /\ DB!ToSet(a) = DB!ToSet(DB!CoreTables) \cup DB!ToSet(DB!DnsTables)
  BY TableSequences, ConcatSet
<1> HIDE DEF a
<1>2. b \in Seq(TableNames) /\ DB!ToSet(b) = DB!ToSet(a) \cup DB!ToSet(DB!XrayTables)
  BY <1>1, TableSequences, ConcatSet
<1> HIDE DEF b
<1>3. c \in Seq(TableNames) /\ DB!ToSet(c) = DB!ToSet(b) \cup DB!ToSet(DB!ProxyTables)
  BY <1>2, TableSequences, ConcatSet
<1> HIDE DEF c
<1>4. d \in Seq(TableNames) /\ DB!ToSet(d) = DB!ToSet(c) \cup DB!ToSet(DB!MtproxyTables)
  BY <1>3, TableSequences, ConcatSet
<1> HIDE DEF d
<1>5. e \in Seq(TableNames) /\ DB!ToSet(e) = DB!ToSet(d) \cup DB!ToSet(DB!MdnsvpnTables)
  BY <1>4, TableSequences, ConcatSet
<1> HIDE DEF e
<1>6. f \in Seq(TableNames) /\ DB!ToSet(f) = DB!ToSet(e) \cup DB!ToSet(DB!TrustTunnelTables)
  BY <1>5, TableSequences, ConcatSet
<1> HIDE DEF f
<1> QED BY <1>1, <1>2, <1>3, <1>4, <1>5, <1>6, <1>7 DEF TableSet

(* A sequence mapped element by element has the length of the original.    *)
LEMMA MappedSequence ==
    ASSUME NEW S, NEW T, NEW s \in Seq(S), NEW f, f = [i \in DOMAIN s |-> f[i]], \A i \in 1..Len(s) : f[i] \in T
    PROVE  f \in Seq(T) /\ Len(f) = Len(s) /\ DOMAIN f = 1..Len(s)
<1>1. Len(s) \in Nat /\ DOMAIN s = 1..Len(s)
  BY LenProperties
<1>2. f \in [1..Len(s) -> T]
  BY <1>1
<1>3. f \in Seq(T)
  BY <1>1, <1>2, SeqDef
<1> QED BY <1>1, <1>2, <1>3, LenProperties

(* The columns are a sequence of column names.                             *)
LEMMA ColumnsSequence ==
    DB!Columns \in Seq(ColumnNames) /\ DB!ToSet(DB!AddedColumns) \subseteq ColumnSet
<1> DEFINE cb3 == [i \in DOMAIN DB!Cb3Columns |-> <<"interfaces", DB!Cb3Columns[i]>>]
<1>1. DB!Cb3Columns \in Seq(DB!ToSet(DB!Cb3Columns))
  BY DEF DB!Cb3Columns, DB!ToSet
<1>2. cb3 \in Seq(ColumnNames)
  <2>1. cb3 = [i \in DOMAIN DB!Cb3Columns |-> cb3[i]]
    OBVIOUS
  <2>2. ASSUME NEW i \in 1..Len(DB!Cb3Columns) PROVE cb3[i] \in ColumnNames
    <3>1. i \in DOMAIN DB!Cb3Columns
      BY <1>1, LenProperties
    <3>2. cb3[i] = <<"interfaces", DB!Cb3Columns[i]>>
      BY <3>1
    <3>3. DB!Cb3Columns[i] \in DB!ToSet(DB!Cb3Columns)
      BY <1>1, ElementOfSeq
    <3> QED BY <3>2, <3>3 DEF ColumnNames
  <2> HIDE DEF cb3
  <2> QED BY <2>1, <2>2, <1>1, MappedSequence
<1>3. FirstColumns \in Seq(ColumnNames)
  <2>1. FirstColumns \in Seq(DB!ToSet(FirstColumns))
    BY DEF FirstColumns, DB!ToSet
  <2> QED BY <2>1, SeqMonotonic DEF ColumnNames
<1>4. DB!LaterColumns \in Seq(ColumnNames)
  <2>1. DB!LaterColumns \in Seq(DB!ToSet(DB!LaterColumns))
    BY DEF DB!LaterColumns, DB!ToSet
  <2> QED BY <2>1, SeqMonotonic DEF ColumnNames
<1>5. DB!AddedColumns = FirstColumns \o cb3
  BY DEF DB!AddedColumns, FirstColumns
<1>6. DB!AddedColumns \in Seq(ColumnNames)
  <2> HIDE DEF cb3
  <2> QED BY <1>2, <1>3, <1>5, ConcatSet
<1>7. DB!Columns \in Seq(ColumnNames) /\ ColumnSet = DB!ToSet(DB!AddedColumns) \cup DB!ToSet(DB!LaterColumns)
  BY <1>4, <1>6, ConcatSet DEF DB!Columns, ColumnSet
<1> QED BY <1>7

(* A statement is made of an operation and its object.                     *)
LEMMA StatementRecord ==
    ASSUME NEW do \in {"create", "alter", "hooks", "insert", "empty?"}, NEW what \in TableNames \cup ColumnNames
    PROVE  [do |-> do, what |-> what] \in Statements
BY DEF Statements

(* The script creates the tables first, then adds the columns, and         *)
(* afterwards only fills rows and hooks.                                   *)
LEMMA ScriptOrder ==
    /\ DB!Script \in Seq(Statements)
    /\ Len(DB!Script) > Len(DB!Tables) + Len(DB!Columns)
    /\ \A i \in 1..Len(DB!Tables) : DB!Script[i] = [do |-> "create", what |-> DB!Tables[i]]
    /\ \A j \in 1..Len(DB!Columns) : DB!Script[Len(DB!Tables) + j] = [do |-> "alter", what |-> DB!Columns[j]]
    /\ \A i \in 1..Len(DB!Script) :
        i > Len(DB!Tables) + Len(DB!Columns) =>
            /\ DB!Script[i].do \in {"hooks", "insert", "empty?"}
            /\ DB!Script[i].what \in TableNames
<1> DEFINE Rest == [do : {"hooks", "insert", "empty?"}, what : TableNames]
           a == [i \in DOMAIN DB!Tables |-> [do |-> "create", what |-> DB!Tables[i]]]
           b == [i \in DOMAIN DB!Columns |-> [do |-> "alter", what |-> DB!Columns[i]]]
           c == <<[do |-> "hooks", what |-> "hooks"]>>
           d == [i \in DOMAIN DB!EnsuredRows |-> [do |-> "insert", what |-> DB!EnsuredRows[i]]]
           e == <<[do |-> "empty?", what |-> "general"]>>
           f == [i \in DOMAIN DB!SeededRows |-> [do |-> "insert", what |-> DB!SeededRows[i]]]
<1>a. a \in Seq(Statements) /\ Len(a) = Len(DB!Tables)
      /\ \A i \in 1..Len(DB!Tables) : a[i] = [do |-> "create", what |-> DB!Tables[i]]
  <2>1. a = [i \in DOMAIN DB!Tables |-> a[i]]
    OBVIOUS
  <2>2. DOMAIN DB!Tables = 1..Len(DB!Tables) /\ \A i \in 1..Len(DB!Tables) : DB!Tables[i] \in TableNames
    BY TablesSequence, LenProperties, ElementOfSeq
  <2>3. \A i \in 1..Len(DB!Tables) : a[i] = [do |-> "create", what |-> DB!Tables[i]]
    BY <2>2
  <2> HIDE DEF a
  <2>4. ASSUME NEW i \in 1..Len(DB!Tables) PROVE a[i] \in Statements
    <3>1. [do |-> "create", what |-> DB!Tables[i]] \in Statements
      BY <2>2, StatementRecord
    <3> QED BY <3>1, <2>3
  <2>5. a \in Seq(Statements) /\ Len(a) = Len(DB!Tables)
    BY <2>1, <2>4, TablesSequence, MappedSequence
  <2> QED BY <2>3, <2>5
<1>b. b \in Seq(Statements) /\ Len(b) = Len(DB!Columns)
      /\ \A i \in 1..Len(DB!Columns) : b[i] = [do |-> "alter", what |-> DB!Columns[i]]
  <2>1. b = [i \in DOMAIN DB!Columns |-> b[i]]
    OBVIOUS
  <2>2. DOMAIN DB!Columns = 1..Len(DB!Columns) /\ \A i \in 1..Len(DB!Columns) : DB!Columns[i] \in ColumnNames
    BY ColumnsSequence, LenProperties, ElementOfSeq
  <2>3. \A i \in 1..Len(DB!Columns) : b[i] = [do |-> "alter", what |-> DB!Columns[i]]
    BY <2>2
  <2> HIDE DEF b
  <2>4. ASSUME NEW i \in 1..Len(DB!Columns) PROVE b[i] \in Statements
    <3>1. [do |-> "alter", what |-> DB!Columns[i]] \in Statements
      BY <2>2, StatementRecord
    <3> QED BY <3>1, <2>3
  <2>5. b \in Seq(Statements) /\ Len(b) = Len(DB!Columns)
    BY <2>1, <2>4, ColumnsSequence, MappedSequence
  <2> QED BY <2>3, <2>5
<1>c. c \in Seq(Rest) /\ e \in Seq(Rest) /\ Len(c) = 1
  BY DEF TableNames
<1>d. d \in Seq(Rest)
  <2>1. d = [i \in DOMAIN DB!EnsuredRows |-> d[i]]
    OBVIOUS
  <2>2. DOMAIN DB!EnsuredRows = 1..Len(DB!EnsuredRows)
        /\ \A i \in 1..Len(DB!EnsuredRows) : DB!EnsuredRows[i] \in TableNames
    BY TableSequences, LenProperties, ElementOfSeq
  <2>3. \A i \in 1..Len(DB!EnsuredRows) : d[i] \in Rest
    BY <2>2
  <2> HIDE DEF d, Rest
  <2> QED BY <2>1, <2>3, TableSequences, MappedSequence
<1>f. f \in Seq(Rest)
  <2>1. f = [i \in DOMAIN DB!SeededRows |-> f[i]]
    OBVIOUS
  <2>2. DOMAIN DB!SeededRows = 1..Len(DB!SeededRows)
        /\ \A i \in 1..Len(DB!SeededRows) : DB!SeededRows[i] \in TableNames
    BY TableSequences, LenProperties, ElementOfSeq
  <2>3. \A i \in 1..Len(DB!SeededRows) : f[i] \in Rest
    BY <2>2
  <2> HIDE DEF f, Rest
  <2> QED BY <2>1, <2>3, TableSequences, MappedSequence
<1>r. Rest \subseteq Statements
  BY DEF Statements
<1>s. DB!Script = a \o b \o c \o d \o e \o f
  BY DEF DB!Script
<1>t. \A x \in Rest : x.do \in {"hooks", "insert", "empty?"} /\ x.what \in TableNames
  OBVIOUS
<1> HIDE DEF a, b, c, d, e, f, Rest
<1>1. c \in Seq(Statements) /\ d \in Seq(Statements) /\ e \in Seq(Statements) /\ f \in Seq(Statements)
  BY <1>c, <1>d, <1>f, <1>r, SeqMonotonic
<1>2. a \o b \in Seq(Statements) /\ Len(a \o b) = Len(a) + Len(b) /\ Len(a) \in Nat /\ Len(b) \in Nat
      /\ \A i \in 1..Len(a) + Len(b) : (a \o b)[i] = IF i <= Len(a) THEN a[i] ELSE b[i - Len(a)]
  <2>1. a \in Seq(Statements) /\ b \in Seq(Statements)
    BY <1>a, <1>b
  <2>2. Len(a) \in Nat /\ Len(b) \in Nat
    BY <2>1, LenProperties
  <2>3. a \o b \in Seq(Statements) /\ Len(a \o b) = Len(a) + Len(b)
      /\ \A i \in 1..Len(a) + Len(b) : (a \o b)[i] = IF i <= Len(a) THEN a[i] ELSE b[i - Len(a)]
    BY <2>1, ConcatProperties
  <2> QED BY <2>2, <2>3
<1> DEFINE g == c \o d \o e \o f
<1>3. g \in Seq(Rest) /\ Len(g) = 1 + Len(d) + Len(e) + Len(f)
      /\ Len(d) \in Nat /\ Len(e) \in Nat /\ Len(f) \in Nat
  <2>1. Len(d) \in Nat /\ Len(e) \in Nat /\ Len(f) \in Nat
    BY <1>c, <1>d, <1>f, LenProperties
  <2>2. c \o d \in Seq(Rest) /\ Len(c \o d) = 1 + Len(d)
    BY <1>c, <1>d, ConcatProperties, ZenonT(60)
  <2>3. c \o d \o e \in Seq(Rest) /\ Len(c \o d \o e) = 1 + Len(d) + Len(e)
    <3> DEFINE cd == c \o d
    <3>1. cd \in Seq(Rest) /\ Len(cd) = 1 + Len(d)
      BY <2>2
    <3> HIDE DEF cd
    <3>2. e \in Seq(Rest)
      BY <1>c
    <3>3. cd \o e \in Seq(Rest) /\ Len(cd \o e) = Len(cd) + Len(e)
      BY <3>1, <3>2, ConcatProperties
    <3> QED BY <2>1, <3>1, <3>3 DEF cd
  <2> QED BY <1>f, <2>1, <2>3, ConcatProperties
<1>4. g \in Seq(Statements)
  BY <1>3, <1>r, SeqMonotonic
<1>5. DB!Script = (a \o b) \o g
  <2>1. c \o d \in Seq(Statements) /\ c \o d \o e \in Seq(Statements)
    BY <1>1, ConcatProperties
  <2>2. \A s, t, u \in Seq(Statements) : (s \o t) \o u = s \o (t \o u)
    BY ConcatAssociative
  <2>3. ((a \o b) \o (c \o d \o e)) \o f = (a \o b) \o ((c \o d \o e) \o f)
    <3> DEFINE ab == a \o b
               cde == c \o d \o e
    <3>1. ab \in Seq(Statements) /\ cde \in Seq(Statements) /\ f \in Seq(Statements)
      BY <1>1, <1>2, <2>1
    <3> HIDE DEF ab, cde
    <3>2. (ab \o cde) \o f = ab \o (cde \o f)
      BY <2>2, <3>1
    <3> QED BY <3>2 DEF ab, cde
  <2>4. ((a \o b) \o (c \o d)) \o e = (a \o b) \o ((c \o d) \o e)
    <3> DEFINE ab == a \o b
               cd == c \o d
    <3>1. ab \in Seq(Statements) /\ cd \in Seq(Statements) /\ e \in Seq(Statements)
      BY <1>1, <1>2, <2>1
    <3> HIDE DEF ab, cd
    <3>2. (ab \o cd) \o e = ab \o (cd \o e)
      BY <2>2, <3>1
    <3> QED BY <3>2 DEF ab, cd
  <2>5. ((a \o b) \o c) \o d = (a \o b) \o (c \o d)
    BY <1>1, <1>2, <2>2, ZenonT(40)
  <2> QED BY <1>s, <2>3, <2>4, <2>5, Zenon
<1> HIDE DEF g
<1>6. DB!Script \in Seq(Statements) /\ Len(DB!Script) = Len(a) + Len(b) + Len(g)
      /\ \A i \in 1..Len(a) + Len(b) + Len(g) :
            DB!Script[i] = IF i <= Len(a) + Len(b) THEN (a \o b)[i] ELSE g[i - (Len(a) + Len(b))]
  BY <1>2, <1>4, <1>5, ConcatProperties
<1>7. Len(g) \in Nat /\ Len(g) > 0 /\ \A i \in 1..Len(g) : g[i] \in Rest
  BY <1>3, LenProperties, ElementOfSeq
<1>8. ASSUME NEW i \in 1..Len(DB!Tables) PROVE DB!Script[i] = [do |-> "create", what |-> DB!Tables[i]]
  <2>1. DB!Script[i] = (a \o b)[i] /\ (a \o b)[i] = a[i]
    BY <1>8, <1>a, <1>2, <1>6, <1>7
  <2> QED BY <2>1, <1>a
<1>9. ASSUME NEW j \in 1..Len(DB!Columns)
      PROVE DB!Script[Len(DB!Tables) + j] = [do |-> "alter", what |-> DB!Columns[j]]
  <2>1. DB!Script[Len(DB!Tables) + j] = (a \o b)[Len(DB!Tables) + j] /\ (a \o b)[Len(DB!Tables) + j] = b[j]
    BY <1>9, <1>a, <1>b, <1>2, <1>6, <1>7
  <2> QED BY <2>1, <1>b
<1>10. ASSUME NEW i \in 1..Len(DB!Script), i > Len(DB!Tables) + Len(DB!Columns)
       PROVE  DB!Script[i] \in Rest
  <2>1. DB!Script[i] = g[i - (Len(a) + Len(b))] /\ i - (Len(a) + Len(b)) \in 1..Len(g)
    BY <1>10, <1>a, <1>b, <1>2, <1>6, <1>7
  <2> QED BY <2>1, <1>7
<1>11. Len(DB!Script) > Len(DB!Tables) + Len(DB!Columns)
  BY <1>a, <1>b, <1>2, <1>6, <1>7
<1> QED BY <1>t, <1>6, <1>8, <1>9, <1>10, <1>11

(* Adding columns leaves the tables alone.                                 *)
LEMMA ColumnUpdate ==
    ASSUME NEW db \in Databases, NEW c \in ColumnSets
    PROVE  /\ [db EXCEPT !.columns = c] \in Databases
           /\ [db EXCEPT !.columns = c].tables = db.tables
           /\ [db EXCEPT !.columns = c].columns = c
<1>1. [db EXCEPT !.columns = c] \in Databases
  BY DEF Databases
<1>2. [db EXCEPT !.columns = c].tables = db.tables /\ [db EXCEPT !.columns = c].columns = c
  BY DEF Databases
<1> QED BY <1>1, <1>2

(* Rewriting the hooks leaves the schema alone.                            *)
LEMMA HookUpdate ==
    ASSUME NEW db \in Databases, NEW h \in HookKinds
    PROVE  /\ [db EXCEPT !.hooks = h] \in Databases
           /\ [db EXCEPT !.hooks = h].tables = db.tables
           /\ [db EXCEPT !.hooks = h].columns = db.columns
<1>1. [db EXCEPT !.hooks = h] \in Databases
  BY DEF Databases
<1>2. [db EXCEPT !.hooks = h].tables = db.tables /\ [db EXCEPT !.hooks = h].columns = db.columns
  BY DEF Databases
<1> QED BY <1>1, <1>2

(* A change of the roster leaves the schema alone.                         *)
LEMMA RosterUpdate ==
    ASSUME NEW db \in Databases
    PROVE  /\ [db EXCEPT !.roster = @ + 1] \in Databases
           /\ [db EXCEPT !.roster = @ + 1].tables = db.tables
           /\ [db EXCEPT !.roster = @ + 1].columns = db.columns
<1>1. [db EXCEPT !.roster = @ + 1] \in Databases
  BY DEF Databases
<1>2. [db EXCEPT !.roster = @ + 1].tables = db.tables /\ [db EXCEPT !.roster = @ + 1].columns = db.columns
  BY DEF Databases
<1> QED BY <1>1, <1>2

(* A statement never takes a table or a column away, and the one that is   *)
(* for a table or a column leaves it there, whether or not it was there    *)
(* before.                                                                 *)
LEMMA StatementEffect ==
    ASSUME NEW db \in Databases, NEW i \in 1..Len(DB!Script)
    PROVE  /\ DB!Effect(db, DB!Script[i]) \in Databases
           /\ db.tables \subseteq DB!Effect(db, DB!Script[i]).tables
           /\ db.columns \subseteq DB!Effect(db, DB!Script[i]).columns
           /\ i \in 1..Len(DB!Tables) => DB!Tables[i] \in DB!Effect(db, DB!Script[i]).tables
           /\ \A j \in 1..Len(DB!Columns) :
                i = Len(DB!Tables) + j => DB!Columns[j] \in DB!Effect(db, DB!Script[i]).columns
<1> DEFINE s == DB!Script[i]
           e == DB!Effect(db, s)
<1>0. /\ Len(DB!Tables) \in Nat /\ Len(DB!Columns) \in Nat /\ Len(DB!Script) \in Nat
      /\ \A k \in 1..Len(DB!Tables) : DB!Tables[k] \in TableSet
      /\ \A k \in 1..Len(DB!Columns) : DB!Columns[k] \in ColumnSet
  BY TablesSequence, ColumnsSequence, ScriptOrder, LenProperties DEF TableSet, ColumnSet, DB!ToSet
<1>1. db.tables \in TableSets /\ db.columns \in ColumnSets /\ db.rows \in RowSets /\ db.hooks \in HookKinds
  BY DEF Databases
<1>2. CASE i \in 1..Len(DB!Tables)
  <2> DEFINE t == DB!Tables[i]
  <2>1. s = [do |-> "create", what |-> t] /\ t \in TableSet
    BY <1>2, <1>0, ScriptOrder
  <2>2. e = DB!CreateTable(db, t)
    BY <2>1 DEF DB!Effect
  <2>3. ~\E j \in 1..Len(DB!Columns) : i = Len(DB!Tables) + j
    BY <1>0, <1>2
  <2> HIDE DEF s, e, t
  <2>4. CASE t \in db.tables
    BY <2>2, <2>3, <2>4 DEF DB!CreateTable, e, s, t
  <2>5. CASE t \notin db.tables
    <3> DEFINE ts == db.tables \cup {t}
               cs == db.columns \cup {c \in DB!ToSet(DB!Columns) : c[1] = t}
    <3>1. e = [db EXCEPT !.tables = ts, !.columns = cs]
      BY <2>2, <2>5 DEF DB!CreateTable
    <3>2. ts \in TableSets /\ cs \in ColumnSets /\ t \in ts /\ db.tables \subseteq ts
          /\ db.columns \subseteq cs
      BY <1>1, <2>1 DEF ColumnSet, TableSets, ColumnSets
    <3> HIDE DEF ts, cs
    <3>3. e \in Databases /\ e.tables = ts /\ e.columns = cs
      <4> DEFINE n == [db EXCEPT !.tables = ts, !.columns = cs]
      <4>1. n \in Databases /\ n.tables = ts /\ n.columns = cs
        <5>1. n \in Databases
          BY <3>2 DEF Databases
        <5>2. n.tables = ts /\ n.columns = cs
          BY <3>2 DEF Databases
        <5> QED BY <5>1, <5>2
      <4> HIDE DEF n
      <4> QED BY <3>1, <4>1 DEF n
    <3> QED BY <3>2, <3>3, <2>3 DEF e, s, t
  <2> QED BY <2>4, <2>5
<1>3. ASSUME NEW j \in 1..Len(DB!Columns), i = Len(DB!Tables) + j
      PROVE  /\ e \in Databases /\ db.tables \subseteq e.tables /\ db.columns \subseteq e.columns
             /\ DB!Columns[j] \in e.columns
  <2> DEFINE c == DB!Columns[j]
  <2>1. s = [do |-> "alter", what |-> c] /\ c \in ColumnSet
    BY <1>3, <1>0, ScriptOrder
  <2>2. e = DB!AddColumn(db, c)
    BY <2>1 DEF DB!Effect
  <2> HIDE DEF s, e, c
  <2>4. CASE c \in db.columns
    BY <2>2, <2>4 DEF DB!AddColumn, DB!ColumnExists, c
  <2>5. CASE c \notin db.columns
    <3> DEFINE cs == db.columns \cup {c}
    <3>1. e = [db EXCEPT !.columns = cs]
      BY <2>2, <2>5 DEF DB!AddColumn, DB!ColumnExists
    <3>2. cs \in ColumnSets /\ c \in cs /\ db.columns \subseteq cs
      BY <1>1, <2>1 DEF ColumnSets
    <3> HIDE DEF cs
    <3>3. e \in Databases /\ e.tables = db.tables /\ e.columns = cs
      BY <1>1, <3>1, <3>2, ColumnUpdate
    <3> QED BY <3>2, <3>3 DEF c
  <2> QED BY <2>4, <2>5
<1>4. CASE i > Len(DB!Tables) + Len(DB!Columns)
  <2>1. s.do \in {"hooks", "insert", "empty?"} /\ s.what \in TableNames
    BY <1>4, ScriptOrder
  <2>2. ~(i \in 1..Len(DB!Tables)) /\ \A j \in 1..Len(DB!Columns) : i # Len(DB!Tables) + j
    BY <1>0, <1>4
  <2>3. \/ e = db
        \/ \E h \in HookKinds : e = [db EXCEPT !.hooks = h]
        \/ \E r \in RowSets, h \in HookKinds : e = [db EXCEPT !.rows = r, !.hooks = h]
    <3> HIDE DEF s
    <3>1. CASE s.do = "hooks"
      <4> DEFINE h == IF db.hooks = "iptables" THEN "nft" ELSE db.hooks
      <4>1. e = [db EXCEPT !.hooks = h] /\ h \in HookKinds
        BY <3>1, <1>1 DEF HookKinds, DB!Effect, DB!ReplaceHooks
      <4> HIDE DEF h, e
      <4> QED BY <4>1
    <3>2. CASE s.do = "insert"
      <4> DEFINE r == db.rows \cup {s.what}
                 h == IF s.what = "hooks" /\ s.what \notin db.rows THEN "nft" ELSE db.hooks
      <4>1. e = [db EXCEPT !.rows = r, !.hooks = h]
        BY <3>2 DEF DB!Effect, DB!InsertOrIgnore
      <4>2. r \in RowSets /\ h \in HookKinds
        BY <1>1, <2>1 DEF HookKinds, RowSets
      <4> HIDE DEF h, r, e
      <4> QED BY <4>1, <4>2
    <3>3. CASE s.do = "empty?"
      BY <3>3 DEF DB!Effect
    <3> QED BY <2>1, <3>1, <3>2, <3>3
  <2> HIDE DEF s, e
  <2>4. e \in Databases /\ e.tables = db.tables /\ e.columns = db.columns
    <3>1. CASE e = db
      BY <3>1
    <3>2. ASSUME NEW h \in HookKinds, e = [db EXCEPT !.hooks = h]
          PROVE  e \in Databases /\ e.tables = db.tables /\ e.columns = db.columns
      BY <3>2, HookUpdate
    <3>3. ASSUME NEW r \in RowSets, NEW h \in HookKinds, e = [db EXCEPT !.rows = r, !.hooks = h]
          PROVE  e \in Databases /\ e.tables = db.tables /\ e.columns = db.columns
      <4>1. e \in Databases
        BY <3>3 DEF Databases
      <4>2. e.tables = db.tables /\ e.columns = db.columns
        BY <3>3 DEF Databases
      <4> QED BY <4>1, <4>2
    <3> QED BY <2>3, <3>1, <3>2, <3>3
  <2> QED BY <2>2, <2>4 DEF e, s
<1>5. i \in 1..Len(DB!Tables) \/ (\E j \in 1..Len(DB!Columns) : i = Len(DB!Tables) + j) \/ i > Len(DB!Tables) + Len(DB!Columns)
  <2>1. ASSUME i > Len(DB!Tables), i <= Len(DB!Tables) + Len(DB!Columns)
        PROVE  i - Len(DB!Tables) \in 1..Len(DB!Columns) /\ i = Len(DB!Tables) + (i - Len(DB!Tables))
    BY <1>0, <2>1
  <2>2. CASE i > Len(DB!Tables) /\ i <= Len(DB!Tables) + Len(DB!Columns)
    BY <2>1, <2>2
  <2>3. CASE i <= Len(DB!Tables)
    BY <1>0, <2>3
  <2> QED BY <1>0, <2>2, <2>3
<1>6. ASSUME NEW j \in 1..Len(DB!Columns), i = Len(DB!Tables) + j
      PROVE  i \notin 1..Len(DB!Tables) /\ \A k \in 1..Len(DB!Columns) : i = Len(DB!Tables) + k => k = j
  BY <1>0, <1>6
<1> QED BY <1>2, <1>3, <1>4, <1>5, <1>6

(* The files a first start may find are databases.                         *)
LEMMA FoundDatabases == DB!None \in Databases /\ DB!AwgEasy \in Databases /\ DB!Earlier \in Databases
<1>1. DB!None \in Databases
  BY DEF DB!None, Databases, TableSets, ColumnSets, RowSets, HookKinds
<1>2. DB!AwgEasy \in Databases
  <2>1. DB!ToSet(DB!CoreTables) \in TableSets
    BY TablesSequence DEF TableSets
  <2>2. {"interfaces", "general", "hooks", "user_configs"} \in RowSets
    BY DEF RowSets, TableNames
  <2>3. {} \in ColumnSets
    BY DEF ColumnSets
  <2>4. "iptables" \in HookKinds
    BY DEF HookKinds
  <2> QED BY <2>1, <2>2, <2>3, <2>4 DEF DB!AwgEasy, Databases
<1>3. DB!Earlier \in Databases
  <2> DEFINE a == DB!CoreTables \o DB!XrayTables
             b == a \o DB!MtproxyTables
             c == b \o DB!ProxyTables
  <2>1. a \in Seq(TableNames) /\ DB!ToSet(a) = DB!ToSet(DB!CoreTables) \cup DB!ToSet(DB!XrayTables)
    BY TableSequences, ConcatSet
  <2> HIDE DEF a
  <2>2. b \in Seq(TableNames) /\ DB!ToSet(b) = DB!ToSet(a) \cup DB!ToSet(DB!MtproxyTables)
    BY <2>1, TableSequences, ConcatSet
  <2> HIDE DEF b
  <2>3. DB!ToSet(c) = DB!ToSet(b) \cup DB!ToSet(DB!ProxyTables)
    BY <2>2, TableSequences, ConcatSet
  <2>4. DB!ToSet(c) \in TableSets
    BY <2>1, <2>2, <2>3, TablesSequence DEF TableSets
  <2>5. DB!ToSet(DB!CoreTables \o DB!XrayTables \o DB!MtproxyTables \o DB!ProxyTables) \in TableSets
    BY <2>4 DEF a, b
  <2>6. DB!ToSet(DB!SeededRows) \ {"trusttunnel_inbound", "mdnsvpn_inbound"} \in RowSets
    <3>1. \A i \in DOMAIN DB!SeededRows : DB!SeededRows[i] \in TableNames
      BY TableSequences, LenProperties, ElementOfSeq
    <3> QED BY <3>1 DEF DB!ToSet, RowSets
  <2>7. DB!ToSet(DB!AddedColumns) \in ColumnSets
    BY ColumnsSequence DEF ColumnSets
  <2>8. "nft" \in HookKinds
    BY DEF HookKinds
  <2> QED BY <2>5, <2>6, <2>7, <2>8 DEF DB!Earlier, Databases
<1> QED BY <1>1, <1>2, <1>3

(* A start that opens a database keeps DatabaseInv.                        *)
LEMMA OpenedFrom ==
    ASSUME DatabaseInv, NEW db \in Databases, NEW restored, DB!Opened(db, restored), dbPc = "down",
           dbMode = "snapshots" => db = dbDisk,
           UNCHANGED <<dbMode, dbDisk, dbDamaged, dbSnap, dbLeft, dbTaken, dbSaved>>
    PROVE  DatabaseInv'
<1> USE DEF DB!Opened
<1>0. Len(DB!Tables) \in Nat /\ Len(DB!Columns) \in Nat
  BY TablesSequence, ColumnsSequence, LenProperties
<1>1. DatabaseTypeOK'
  BY DEF DatabaseInv, DatabaseTypeOK
<1>2. SnapshotInv'
  BY DEF DatabaseInv, SnapshotInv
<1>3. SchemaInv'
  BY <1>0 DEF SchemaInv
<1> QED BY <1>1, <1>2, <1>3 DEF DatabaseInv

(* Every step of a start, of the server and of its snapshots keeps         *)
(* DatabaseInv.                                                            *)
LEMMA DatabaseStep ==
    ASSUME DatabaseInv, [DB!Next]_(DB!vars)
    PROVE  DatabaseInv'
<1>n. DB!None \in Databases
  BY FoundDatabases
<1>l. Len(DB!Tables) \in Nat /\ Len(DB!Columns) \in Nat /\ Len(DB!Script) \in Nat
      /\ DOMAIN DB!Tables = 1..Len(DB!Tables) /\ DOMAIN DB!Columns = 1..Len(DB!Columns)
  BY TablesSequence, ColumnsSequence, ScriptOrder, LenProperties
<1>d. DOMAIN dbSnap = {"periodic", "final"}
  BY DEF DatabaseInv, DatabaseTypeOK
<1>1. CASE DB!InitDb
  <2> USE <1>1 DEF DB!InitDb
  <2>1. CASE dbMode = "file" /\ DB!Opened(dbDisk, FALSE)
    BY <2>1, OpenedFrom DEF DatabaseInv, DatabaseTypeOK
  <2>2. CASE dbMode # "file" /\ ~DB!Restorable /\ DB!Opened(DB!None, FALSE)
    BY <2>2, <1>n, OpenedFrom DEF DB!Restorable
  <2>3. CASE DB!Restorable /\ ~dbDamaged /\ DB!Opened(dbDisk, TRUE)
    BY <2>3, OpenedFrom DEF DatabaseInv, DatabaseTypeOK
  <2>4. CASE DB!Restorable /\ dbDamaged /\ dbPc' = "refused" /\ UNCHANGED <<dbMem, dbAt, dbRestored>>
    BY <2>4 DEF DatabaseInv, DatabaseTypeOK, SnapshotInv, SchemaInv
  <2> QED BY <2>1, <2>2, <2>3, <2>4
<1>2. CASE DB!Statement
  <2> DEFINE e == DB!Effect(dbMem, DB!Script[dbAt])
  <2>1. dbAt \in 1..Len(DB!Script) /\ dbPc = "script" /\ dbPc' = "script" /\ dbAt' = dbAt + 1 /\ dbAt \in Nat
        /\ UNCHANGED <<dbMode, dbSnap, dbTaken>>
    BY <1>2, <1>l DEF DB!Statement, DatabaseInv, DatabaseTypeOK, SnapshotInv
  <2>2. dbMem' = e /\ dbDisk' = (IF dbMode = "file" THEN e ELSE dbDisk)
        /\ dbSaved' = (dbSaved \/ dbMode = "file")
    BY <1>2 DEF DB!Statement, DB!Store
  <2>3. e \in Databases /\ dbMem.tables \subseteq e.tables /\ dbMem.columns \subseteq e.columns
        /\ (dbAt \in 1..Len(DB!Tables) => DB!Tables[dbAt] \in e.tables)
        /\ \A j \in 1..Len(DB!Columns) : dbAt = Len(DB!Tables) + j => DB!Columns[j] \in e.columns
    BY <2>1, StatementEffect DEF DatabaseInv, DatabaseTypeOK
  <2> HIDE DEF e
  <2>4. DatabaseTypeOK'
    BY <2>1, <2>2, <2>3 DEF DatabaseInv, DatabaseTypeOK
  <2>5. SnapshotInv'
    <3>1. dbAt' # 1 /\ dbAt' >= 1
      BY <2>1
    <3> QED BY <3>1, <2>1, <2>2 DEF DatabaseInv, SnapshotInv
  <2>6. SchemaInv'
    <3>1. ASSUME NEW i \in 1..Len(DB!Tables), i < dbAt + 1 PROVE DB!Tables[i] \in e.tables
      BY <3>1, <2>1, <2>3, <1>l DEF DatabaseInv, SchemaInv
    <3>2. ASSUME NEW j \in 1..Len(DB!Columns), Len(DB!Tables) + j < dbAt + 1 PROVE DB!Columns[j] \in e.columns
      <4>1. CASE Len(DB!Tables) + j < dbAt
        BY <4>1, <2>1, <2>3 DEF DatabaseInv, SchemaInv
      <4>2. CASE dbAt = Len(DB!Tables) + j
        BY <4>2, <2>3
      <4> QED BY <3>2, <4>1, <4>2, <2>1, <1>l
    <3> QED BY <3>1, <3>2, <2>1, <2>2 DEF SchemaInv
  <2> QED BY <2>4, <2>5, <2>6 DEF DatabaseInv
<1>3. CASE DB!Ready
  <2>1. dbAt > Len(DB!Tables) + Len(DB!Columns) /\ dbPc = "script" /\ dbPc' = "serving" /\ dbAt' = 0
        /\ UNCHANGED <<dbMode, dbDisk, dbMem, dbSnap, dbTaken, dbSaved>>
    <3>1. dbAt \in Nat /\ dbAt >= 1
      BY <1>3 DEF DB!Ready, DatabaseInv, DatabaseTypeOK, SnapshotInv
    <3>2. CASE dbAt > Len(DB!Script)
      BY <3>1, <3>2, <1>3, <1>l, ScriptOrder DEF DB!Ready
    <3>3. CASE dbAt <= Len(DB!Script) /\ DB!Script[dbAt].do = "empty?"
      <4>1. ASSUME NEW i \in 1..Len(DB!Tables) PROVE DB!Script[i].do = "create"
        <5>1. DB!Script[i] = [do |-> "create", what |-> DB!Tables[i]]
          BY ScriptOrder
        <5> QED BY <5>1
      <4>2. ASSUME NEW j \in 1..Len(DB!Columns) PROVE DB!Script[Len(DB!Tables) + j].do = "alter"
        <5>1. DB!Script[Len(DB!Tables) + j] = [do |-> "alter", what |-> DB!Columns[j]]
          BY ScriptOrder
        <5> QED BY <5>1
      <4>3. ~(dbAt <= Len(DB!Tables))
        BY <3>1, <3>3, <4>1, <1>l
      <4>4. ~(dbAt <= Len(DB!Tables) + Len(DB!Columns))
        <5> SUFFICES ASSUME dbAt <= Len(DB!Tables) + Len(DB!Columns) PROVE FALSE
          OBVIOUS
        <5> DEFINE j == dbAt - Len(DB!Tables)
        <5>1. j \in 1..Len(DB!Columns) /\ dbAt = Len(DB!Tables) + j
          BY <3>1, <4>3, <1>l
        <5> HIDE DEF j
        <5>2. DB!Script[dbAt].do = "alter"
          BY <5>1, <4>2
        <5> QED BY <5>2, <3>3
      <4> QED BY <4>4, <3>1, <1>l, <1>3 DEF DB!Ready
    <3> QED BY <3>2, <3>3, <1>3 DEF DB!Ready
  <2>2. DatabaseTypeOK' /\ SnapshotInv'
    BY <2>1 DEF DatabaseInv, DatabaseTypeOK, SnapshotInv
  <2>3. dbMem.tables = TableSet /\ dbMem.columns = ColumnSet
    <3>1. \A i \in 1..Len(DB!Tables) : DB!Tables[i] \in dbMem.tables
      BY <2>1, <1>l DEF DatabaseInv, DatabaseTypeOK, SchemaInv
    <3>2. \A j \in 1..Len(DB!Columns) : DB!Columns[j] \in dbMem.columns
      BY <2>1, <1>l DEF DatabaseInv, DatabaseTypeOK, SchemaInv
    <3>3. dbMem.tables \subseteq TableSet /\ dbMem.columns \subseteq ColumnSet
      BY DEF DatabaseInv, DatabaseTypeOK, Databases, TableSets, ColumnSets
    <3> QED BY <3>1, <3>2, <3>3, <1>l DEF TableSet, ColumnSet, DB!ToSet
  <2> QED BY <2>1, <2>2, <2>3 DEF DatabaseInv, SchemaInv
<1>4. CASE DB!Change
  <2> DEFINE e == [dbMem EXCEPT !.roster = @ + 1]
  <2>1. dbMem' = e /\ dbDisk' = (IF dbMode = "file" THEN e ELSE dbDisk)
        /\ dbSaved' = (dbSaved \/ dbMode = "file")
        /\ dbPc \in {"serving", "stopping"} /\ UNCHANGED <<dbMode, dbPc, dbAt, dbSnap, dbTaken>>
    BY <1>4 DEF DB!Change, DB!Store
  <2>2. e \in Databases /\ e.tables = dbMem.tables /\ e.columns = dbMem.columns
    BY RosterUpdate DEF DatabaseInv, DatabaseTypeOK
  <2> HIDE DEF e
  <2>3. DatabaseTypeOK' /\ SnapshotInv'
    BY <2>1, <2>2 DEF DatabaseInv, DatabaseTypeOK, SnapshotInv
  <2>4. SchemaInv'
    BY <2>1, <2>2 DEF DatabaseInv, SchemaInv
  <2> QED BY <2>3, <2>4 DEF DatabaseInv
<1>5. CASE DB!Stop
  BY <1>5 DEF DB!Stop, DatabaseInv, DatabaseTypeOK, SnapshotInv, SchemaInv
<1>6. CASE DB!Exit
  BY <1>6, <1>n, <1>d DEF DB!Exit, DatabaseInv, DatabaseTypeOK, SnapshotInv, SchemaInv
<1>7. CASE DB!Crash
  <2>1. dbSnap' = [s \in {"periodic", "final"} |-> DB!None]
    BY <1>7, <1>d DEF DB!Crash
  <2> QED BY <2>1, <1>7, <1>n DEF DB!Crash, DatabaseInv, DatabaseTypeOK, SnapshotInv, SchemaInv
<1>8. CASE DB!Damage
  BY <1>8 DEF DB!Damage, DatabaseInv, DatabaseTypeOK, SnapshotInv, SchemaInv
<1>9. ASSUME NEW s \in DOMAIN dbSnap, DB!Backup(s) PROVE DatabaseInv'
  <2>1. DatabaseTypeOK'
    BY <1>9, <1>d DEF DB!Backup, DatabaseInv, DatabaseTypeOK
  <2>2. SnapshotInv'
    BY <1>9, <1>d DEF DB!Backup, DatabaseInv, DatabaseTypeOK, SnapshotInv
  <2>3. SchemaInv'
    BY <1>9 DEF DB!Backup, DatabaseInv, SchemaInv
  <2> QED BY <2>1, <2>2, <2>3 DEF DatabaseInv
<1>10. ASSUME NEW s \in DOMAIN dbSnap, DB!Promote(s) PROVE DatabaseInv'
  <2>1. DatabaseTypeOK'
    BY <1>10, <1>d, <1>n DEF DB!Promote, DatabaseInv, DatabaseTypeOK
  <2>2. SnapshotInv'
    BY <1>10, <1>d DEF DB!Promote, DatabaseInv, DatabaseTypeOK, SnapshotInv
  <2>3. SchemaInv'
    BY <1>10 DEF DB!Promote, DatabaseInv, SchemaInv
  <2> QED BY <2>1, <2>2, <2>3 DEF DatabaseInv
<1>11. ASSUME NEW s \in DOMAIN dbSnap, DB!GiveUp(s) PROVE DatabaseInv'
  <2>1. DatabaseTypeOK'
    BY <1>11, <1>d, <1>n DEF DB!GiveUp, DatabaseInv, DatabaseTypeOK
  <2>2. SnapshotInv'
    BY <1>11, <1>d DEF DB!GiveUp, DatabaseInv, DatabaseTypeOK, SnapshotInv
  <2>3. SchemaInv'
    BY <1>11 DEF DB!GiveUp, DatabaseInv, SchemaInv
  <2> QED BY <2>1, <2>2, <2>3 DEF DatabaseInv
<1>12. CASE UNCHANGED DB!vars
  BY <1>12 DEF DB!vars, DatabaseInv, DatabaseTypeOK, SnapshotInv, SchemaInv
<1> QED
  BY <1>1, <1>2, <1>3, <1>4, <1>5, <1>6, <1>7, <1>8, <1>9, <1>10, <1>11, <1>12 DEF DB!Next

(* DatabaseInv holds initially.                                            *)
LEMMA DatabaseInit == DB!Init => DatabaseInv
<1> SUFFICES ASSUME DB!Init PROVE DatabaseInv
  OBVIOUS
<1>1. DatabaseTypeOK
  BY FoundDatabases DEF DB!Init, DatabaseTypeOK
<1>2. SnapshotInv
  BY DEF DB!Init, SnapshotInv
<1>3. SchemaInv
  BY DEF DB!Init, SchemaInv
<1> QED BY <1>1, <1>2, <1>3 DEF DatabaseInv

(* A server that serves has every table and every column this release      *)
(* reads, whatever release wrote the file and however often earlier starts *)
(* were cut between two statements (create_tables, apply_migrations).      *)
THEOREM ServedSchemaIsWhole == DB!Spec => []SchemaIsComplete
<1>1. DatabaseInv => SchemaIsComplete
  BY DEF DatabaseInv, SchemaInv, SchemaIsComplete, DB!SchemaIsComplete, TableSet, ColumnSet
<1> QED BY <1>1, DatabaseInit, DatabaseStep, PTL DEF DB!Spec

(* A start from memory mode serves a whole backup, and the open first-run  *)
(* installation only while nothing was ever saved: the copy is renamed     *)
(* over the old one and a failed restore refuses to start                  *)
(* (init_in_memory_db, snapshot_to).                                       *)
THEOREM RestartsServeBackups == DB!Spec => []RestartServesABackup
<1>1. DatabaseInv => RestartServesABackup
  BY DEF DatabaseInv, SnapshotInv, RestartServesABackup, DB!RestartServesABackup
<1> QED BY <1>1, DatabaseInit, DatabaseStep, PTL DEF DB!Spec
=============================================================================
