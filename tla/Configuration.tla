---------------------------- MODULE Configuration ----------------------------
(***************************************************************************)
(* The configuration of a connection over its life: src/driver/            *)
(* connection.cpp sets it anew at each connect, from the connection string,*)
(* the data source, the URL among them and defaults, and makes every       *)
(* request from it.                                                        *)
(*                                                                         *)
(* Of the options that are plain texts or flags, those stand for the       *)
(* others that the code treats in the same way: Server for Path and the    *)
(* certificate options, ClientName and Compression for all that a connect  *)
(* does not reset.                                                         *)
(***************************************************************************)
EXTENDS ConnectionString

CONSTANTS
  Texts,    \* connection strings given to SQLDriverConnect
  Symbols,  \* what the names given to SQLConnect are made of
  Names,    \* data source, user and password given to SQLConnect
  Sources,  \* the fields of each data source, by its name
  UrlParts, \* what each URL names: scheme, user, password, host, port, database
  Catalogs, \* values given to SQL_ATTR_CURRENT_CATALOG
  Limits    \* values given to SQL_ATTR_CONNECTION_TIMEOUT, other than 0

\* What is given to SQLConnect are texts, or Null; the driver speaks to no server but
\* by HTTP and HTTPS.
ASSUME NamesAssumption ==
  Names \subseteq [dsn : Seq(Symbols) \cup {Null}, uid : Seq(Symbols) \cup {Null},
                   pwd : Seq(Symbols) \cup {Null}]
ASSUME UrlPartsAssumption ==
  \A u \in DOMAIN UrlParts : UrlParts[u].scheme \in {<<"http">>, <<"https">>}

VARIABLES
  cfg,      \* configuration fields of the connection
  session,  \* settings of the HTTP session, while there is one
  asked,    \* history: the fields the last configuration was set from, and what
            \* SQLConnect was given
  limit     \* history: the value last given to SQL_ATTR_CONNECTION_TIMEOUT

vars == <<cfg, session, asked, limit>>

NoSession == [connection_timeout |-> Empty, timeout |-> Empty]

\* The order of the map, and the field each key sets.
KeyOrder == <<"ClientName", "Compression", "Database", "DSN", "Port", "Proto", "PWD",
              "Server", "SSLMode", "Timeout", "UID", "Url", "Username">>
FieldOf ==
  [ClientName |-> "client_name", Compression |-> "compression", Database |-> "database",
   DSN |-> "dsn", Port |-> "port", Proto |-> "proto", PWD |-> "password",
   Server |-> "server", SSLMode |-> "sslmode", Timeout |-> "timeout",
   UID |-> "username", Url |-> "url", Username |-> "username"]

Kept == {"client_name", "compression"}
Unset == [f \in {FieldOf[k] : k \in DOMAIN FieldOf} \cup {"connection_timeout"} |-> Empty]
Initial == [Unset EXCEPT !.compression = <<"1">>]

ForgetsTimeout(c) ==  \* mutation of Reset
  [f \in DOMAIN c |-> IF f \in Kept \cup {"connection_timeout"} THEN c[f] ELSE Empty]
Reset(c) == [f \in DOMAIN c |-> IF f \in Kept THEN c[f] ELSE Empty]

Numbers == {<<"80">>, <<"443">>, <<"8123">>, <<"8443">>, <<"5">>, <<"30">>}

\* set_config_value(): which values a key accepts.
Accepts(key, value) ==
  CASE key \in {"UID", "Username"} -> ":" \notin ToSet(value)
    [] key \in {"Port", "Timeout"} -> value \in {Empty} \cup Numbers
    [] key = "Proto"       -> value \in {Empty, <<"http">>, <<"https">>}
    [] key = "SSLMode"     -> value \in {Empty, <<"allow">>, <<"prefer">>, <<"require">>}
    [] key = "Compression" -> value \in {Empty, <<"0">>, <<"1">>}
    [] OTHER -> TRUE

\* Whether a flag is yes, else no: an empty value is no.
Stored(key, value) == IF key = "Compression" /\ value = Empty THEN <<"0">> ELSE value

\* The fields in the order of the map, up to the first bad value.
StoreAll(c, fields) ==
  LET key(k)     == <<KeyOrder[k]>>
      given      == {k \in DOMAIN KeyOrder : key(k) \in DOMAIN fields}
      bad        == {k \in given : ~Accepts(KeyOrder[k], fields[key(k)])}
      setting(f) == {k \in given : FieldOf[KeyOrder[k]] = f /\ \A b \in bad : k < b}
      value(k)   == Stored(KeyOrder[k], fields[key(k)])
  IN  [ok  |-> bad = {},
       cfg |-> [f \in DOMAIN c |-> IF setting(f) = {} THEN c[f] ELSE value(Max(setting(f)))]]

Or(value, other) == IF value = Empty THEN other ELSE value

WellKnownPort(scheme) == IF scheme = <<"https">> THEN <<"443">> ELSE <<"80">>

\* What the URL gives, for fields that have no value; but its database takes the
\* place of any other.
FromUrl(c) ==
  IF c.url = Empty THEN c
  ELSE LET u     == UrlParts[c.url]
           proto == Or(c.proto, u.scheme)
           port  == Or(u.port, WellKnownPort(u.scheme))
       IN  [c EXCEPT
             !.proto    = proto,
             !.password = IF u.password # Empty THEN Or(@, u.password) ELSE @,
             !.username = IF u.password # Empty THEN Or(@, u.user) ELSE @,
             !.server   = Or(@, u.host),
             !.port     = Or(@, IF port # WellKnownPort(proto) THEN port ELSE Empty),
             !.database = Or(u.database, @)]

\* Deductions and defaults, in the order the code makes them.
Deduced(c) ==
  LET proto   == Or(c.proto, IF c.sslmode # Empty \/ c.port \in {<<"443">>, <<"8443">>}
                             THEN <<"https">> ELSE <<"http">>)
      timeout == Or(c.timeout, <<"30">>)
  IN  [c EXCEPT
        !.dsn                = Or(@, <<"default">>),
        !.proto              = proto,
        !.username           = Or(@, <<"default">>),
        !.server             = Or(@, <<"localhost">>),
        !.port               = Or(@, IF proto = <<"https">> THEN <<"8443">> ELSE <<"8123">>),
        !.timeout            = timeout,
        !.connection_timeout = Or(@, timeout),
        !.database           = Or(@, <<"default">>)]

\* setConfiguration(): the data source first, but not for keys the string has.
SourceOverString(c, cs, dsn) ==  \* mutation of Merged
  LET first == StoreAll(Reset(c), cs)
  IN  IF first.ok THEN StoreAll(first.cfg, dsn) ELSE first
Merged(c, cs, dsn) ==
  LET hidden == [k \in DOMAIN dsn \ DOMAIN cs |-> dsn[k]]
      first  == StoreAll(Reset(c), hidden)
  IN  IF first.ok THEN StoreAll(first.cfg, cs) ELSE first

\* setConfiguration() once the fields are stored: a URL that cannot be parsed throws.
Parses(url) == url = Empty \/ url \in DOMAIN UrlParts

Completed(all) ==
  IF ~all.ok THEN all
  ELSE IF Parses(all.cfg.url) THEN [all EXCEPT !.cfg = Deduced(FromUrl(@))]
  ELSE [ok |-> FALSE, cfg |-> [all.cfg EXCEPT !.dsn = Or(@, <<"default">>)]]

\* readDSNInfo(), unless the string names a driver, without the name of a source.
Value(fields, key) == IF <<key>> \in DOMAIN fields THEN fields[<<key>>] ELSE Empty

SourceOf(cs) ==
  IF <<"Driver">> \in DOMAIN cs \/ Value(cs, "DSN") \notin DOMAIN Sources THEN NoFields
  ELSE LET fields == Sources[Value(cs, "DSN")]
       IN  [k \in DOMAIN fields \ {<<"DSN">>} |-> fields[k]]

Unsupported(cs) == {<<"FileDSN">>, <<"SaveFile">>} \cap DOMAIN cs # {}

Nothing == [dsn |-> Empty, uid |-> Empty, pwd |-> Empty]
Init ==
  /\ cfg = Initial
  /\ session = NoSession
  /\ asked = [cs |-> NoFields, dsn |-> NoFields, given |-> Nothing]
  /\ limit = Empty

-----------------------------------------------------------------------------
(***************************************************************************)
(* Actions                                                                 *)
(***************************************************************************)

\* SQLConnect: the entries of the names that are not null.
TextOf(given) ==
  LET Part(key, value) == IF value = Null THEN <<>> ELSE Entry(key, value)
  IN  Part("DSN", given.dsn) \o Part("UID", given.uid) \o Part("PWD", given.pwd)

\* What each string is read as, once for all.
Strings == Texts \cup {TextOf(n) : n \in Names}
PairsOf == [t \in Strings |-> Pairs(t)]
ReadStrings ==
  [t \in Strings |->
     [ok |-> Readable(PairsOf[t]) /\ ~Unsupported(Fields(PairsOf[t])),
      cs |-> IF Readable(PairsOf[t]) THEN Fields(PairsOf[t]) ELSE NoFields]]

\* Connection::connect(): nothing changes for a connection in use, or for a string
\* that cannot be read or asks for a file.
Connect(text, given) ==
  /\ session = NoSession /\ ReadStrings[text].ok
  /\ \E cs \in {ReadStrings[text].cs} : \E dsn \in {SourceOf(cs)} :
       \E all \in {Merged(cfg, cs, dsn)} : \E result \in {Completed(all)} :
         /\ cfg' = result.cfg
         /\ session' = IF result.ok
                         THEN [connection_timeout |-> result.cfg.connection_timeout,
                               timeout |-> result.cfg.timeout]
                         ELSE NoSession
         /\ asked' = [cs |-> cs, dsn |-> dsn, given |-> given]
  /\ UNCHANGED limit

SQLDriverConnect(text) == Connect(text, Nothing)
SQLConnect(given)      == Connect(TextOf(given), given)

SQLDisconnect == session' = NoSession /\ UNCHANGED <<cfg, asked, limit>>

SetCatalog(name) ==
  /\ cfg' = [cfg EXCEPT !.database = name]
  /\ UNCHANGED <<session, asked, limit>>

\* The value is logged and not used.
SetConnectionTimeout(value) ==
  /\ cfg' = [cfg EXCEPT !.connection_timeout = cfg.timeout]
  /\ session' = IF session = NoSession THEN session
                ELSE [session EXCEPT !.connection_timeout = cfg'.connection_timeout]
  /\ limit' = value
  /\ UNCHANGED asked

Next ==
  \/ \E text \in Texts : SQLDriverConnect(text)
  \/ \E given \in Names : SQLConnect(given)
  \/ SQLDisconnect
  \/ \E name \in Catalogs : SetCatalog(name)
  \/ \E value \in Limits : SetConnectionTimeout(value)

Spec == Init /\ [][Next]_vars

\* getUri(): every request is made to the URL with what is configured set in it, and
\* the URL's own database stays.
Uri(c) ==
  [scheme   |-> c.proto,
   host     |-> c.server,
   port     |-> c.port,
   database |-> IF c.url = Empty THEN c.database ELSE Or(UrlParts[c.url].database, c.database)]

-----------------------------------------------------------------------------
(***************************************************************************)
(* Properties                                                              *)
(***************************************************************************)

\* The value given for a key, where the connection string hides the data source.
Given(a, key) == IF <<key>> \in DOMAIN a.cs THEN Value(a.cs, key) ELSE Value(a.dsn, key)

\* Either key of the user name: the string's, then the data source's.
GivenUser(a) ==
  LET In(fields) == IF <<"Username">> \in DOMAIN fields THEN Value(fields, "Username")
                    ELSE Value(fields, "UID")
  IN  IF {<<"Username">>, <<"UID">>} \cap DOMAIN a.cs # {} THEN In(a.cs) ELSE In(a.dsn)

NoUrl == [scheme |-> Empty, user |-> Empty, password |-> Empty, host |-> Empty,
          port |-> Empty, database |-> Empty]
UrlOf(a) == IF Given(a, "Url") = Empty THEN NoUrl ELSE UrlParts[Given(a, "Url")]

FirstGiven(values) ==
  IF \E i \in DOMAIN values : values[i] # Empty
    THEN values[Min({i \in DOMAIN values : values[i] # Empty})]
    ELSE Empty

Named(a, key) == <<key>> \in DOMAIN a.cs \cup DOMAIN a.dsn

\* What the table of README.md (lines 95 to 102) and connection.h:93 say.
Expected(a) ==
  LET u      == UrlOf(a)
      secure == Given(a, "SSLMode") # Empty \/ Given(a, "Port") \in {<<"443">>, <<"8443">>}
      scheme == FirstGiven(<<Given(a, "Proto"), u.scheme,
                             IF secure THEN <<"https">> ELSE <<"http">> >>)
      usual  == IF scheme = <<"https">> THEN <<"8443">> ELSE <<"8123">>
  IN  [scheme   |-> scheme,
       host     |-> FirstGiven(<<Given(a, "Server"), u.host, <<"localhost">> >>),
       port     |-> FirstGiven(<<Given(a, "Port"), u.port, usual>>),
       database |-> FirstGiven(<<Given(a, "Database"), u.database, <<"default">> >>),
       username |-> FirstGiven(<<GivenUser(a), u.user, <<"default">> >>)]

\* Where a URL, or its being without one, says which port is meant: the TODO at
\* connection.cpp:516 excludes that it names the usual one of the protocol, and a URL
\* without a port beside another protocol than its own has the usual one of its own.
PortIsSeen(a) ==
  LET u == UrlOf(a)
  IN  \/ Given(a, "Port") # Empty \/ u = NoUrl
      \/ u.port = Empty /\ u.scheme = Expected(a).scheme
      \/ u.port # Empty /\ u.port # WellKnownPort(Expected(a).scheme)

OneDatabase(a) == Given(a, "Database") = Empty \/ UrlOf(a).database = Empty

UserIsSeen(a) == GivenUser(a) # Empty \/ UrlOf(a).user = Empty \/ UrlOf(a).password # Empty

\* Whatever connects, failed connects and attributes came before, a connection goes
\* where its own string says, else its data source, else its URL, else the default,
\* and takes from them what they name.  Left open are the cases in which the code and
\* these sources part: a database given beside the URL's, a user without a password in
\* the URL, and options that nothing names, which connection.h:90 says are reset.
ConnectStartsAfresh ==
  [][ session = NoSession /\ session' # NoSession =>
        LET address == Uri(cfg')  expected == Expected(asked')
        IN  /\ address.scheme = expected.scheme /\ address.host = expected.host
            /\ PortIsSeen(asked') => address.port = expected.port
            /\ OneDatabase(asked') => address.database = expected.database
            /\ UserIsSeen(asked') => cfg'.username = expected.username
            /\ Named(asked', "ClientName") => cfg'.client_name = Given(asked', "ClientName")
            /\ Named(asked', "Compression") =>
                 (cfg'.compression = <<"1">> <=> Given(asked', "Compression") = <<"1">>) ]_vars

\* SQLConnect writes a connection string: what it was given is read back from it as it
\* is, with whatever braces, semicolons and spaces there are in it.
GivenIsReadBack ==
  session # NoSession =>
    \A k \in {"dsn", "uid", "pwd"} :
      asked.given[k] \notin {Empty, Null} =>
        asked.given[k] = CASE k = "dsn" -> cfg.dsn
                           [] k = "uid" -> cfg.username
                           [] k = "pwd" -> cfg.password

\* A session waits for an answer as long as this connect says, whatever earlier connects
\* said, and as long for a connection, unless the attribute for that was ever set.
SessionHasItsTimeout ==
  session # NoSession =>
    /\ session.timeout = FirstGiven(<<Given(asked, "Timeout"), <<"30">> >>)
    /\ limit = Empty => session.connection_timeout = session.timeout
=============================================================================
