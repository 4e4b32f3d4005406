-------------------------- MODULE MCConfiguration --------------------------
(***************************************************************************)
(* Bounds for Configuration: connection strings of up to two settings, two *)
(* URLs and one that is none, two data sources, and names with every       *)
(* symbol that means something in a connection string.                     *)
(***************************************************************************)
EXTENDS Configuration

Setting(key, value) == <<key, "=", value, ";">>

Settings ==
  {Setting("Server", "s1"), Setting("Port", "443"), Setting("Port", "none"),
   Setting("Proto", "http"), Setting("SSLMode", "require"), Setting("Database", "b1"),
   Setting("Url", "u1"), Setting("Url", "u2"), Setting("Url", "u3"), Setting("UID", "n1"),
   Setting("Username", "n2"), Setting("ClientName", "a1"), Setting("Compression", "0"),
   Setting("Timeout", "5"), Setting("DSN", "d1"), Setting("DSN", "d2"),
   <<" ", "Driver", "=", " ", "x">>, <<"Server", "=", " ", "{", "s2", "}">>}

\* One setting, or one beside a data source or a URL; a key given twice, a key without
\* a semicolon before it, a driver beside a data source and no setting at all are among
\* them.
Places == {Setting("DSN", "d1"), Setting("DSN", "d2"), Setting("Url", "u1"), Setting("Url", "u2")}
MCTexts ==
  {<<>>, <<"x">>} \cup Settings \cup {s \o t : s \in Places, t \in Settings}
    \cup {s \o s : s \in {<<" ", "Driver", "=", " ", "x">>, Setting("UID", "n1")}}
    \cup {Setting("UID", "n1") \o Setting("Username", "n2"),
          Setting("Port", "443") \o Setting("Proto", "http")}

Marks == {"a", "}", ";", " ", "{", ":"}
MCSymbols == Marks \cup {"d1"}
MCNames ==
  [dsn : {Null, <<"d1">>}, uid : {Null, <<"}">>},
   pwd : {<<a>> : a \in Marks} \cup {<<a, b>> : a, b \in {"a", "}", ";"}}]
  \cup [dsn : {<<";">>}, uid : {<<a>> : a \in Marks}, pwd : {Null}]

\* Without a data source of that name there are no fields.
MCSources ==
  (<<"d1">> :> ((<<"Server">> :> <<"s3">>) @@ (<<"Database">> :> <<"b3">>)
                @@ (<<"Username">> :> <<"n3">>) @@ (<<"Timeout">> :> <<"5">>))) @@
  (<<"d2">> :> ((<<"Url">> :> <<"u1">>) @@ (<<"ClientName">> :> <<"a3">>)
                @@ (<<"Port">> :> <<"80">>)))

MCUrlParts ==
  (<<"u1">> :> [scheme |-> <<"https">>, user |-> <<"n4">>, password |-> <<"p4">>,
                host |-> <<"s4">>, port |-> <<"8123">>, database |-> <<"b4">>]) @@
  (<<"u2">> :> [scheme |-> <<"http">>, user |-> <<"n5">>, password |-> Empty,
                host |-> <<"s5">>, port |-> Empty, database |-> Empty])

MCCatalogs == {<<"b2">>}
MCLimits   == {<<"9">>}
=============================================================================
