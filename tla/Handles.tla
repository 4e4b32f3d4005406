------------------------------ MODULE Handles ------------------------------
(***************************************************************************)
(* Handles, the objects behind them and the diagnostics they keep:         *)
(* src/driver/driver.h dispatches every call by the handle it is given,    *)
(* src/driver/object.h registers an object when it is constructed and      *)
(* unregisters it when it is destroyed, and each object owns its children  *)
(* through shared pointers in a map.                                       *)
(*                                                                         *)
(* An environment owns connections, a connection owns statements and       *)
(* descriptors, and a statement shares the implicit descriptors of its     *)
(* roles with the map of its connection.  It refers to explicit            *)
(* descriptors, which the application allocates, through weak pointers.    *)
(*                                                                         *)
(* One thread calls the driver: the registry has no lock.  Some calls make *)
(* others: SQLGetInfo(SQL_DBMS_VER) and the verification of a new          *)
(* connection work on a statement of their own, step by step.              *)
(***************************************************************************)
EXTENDS Naturals, FiniteSets

CONSTANTS
  Envs, Dbcs, Stmts, Descs,  \* what the application may allocate, and allocate again
  Roles,                     \* implicit descriptors of a statement
  Driver, None               \* the parent of environments; no object

AppRoles == Roles \cap {"ard", "apd"}

\* The implicit descriptors, by statement and role.
Implicit(s)  == {s} \X Roles
Implicits    == Stmts \X Roles
Descriptors  == Descs \cup Implicits
Objects      == Envs \cup Dbcs \cup Stmts \cup Descriptors
Owners       == {Driver} \cup Envs \cup Dbcs

ASSUME RolesAssumption == Roles \subseteq {"ard", "apd", "ird", "ipd"}
ASSUME KindsAreDistinct ==
  /\ Envs \cap (Dbcs \cup Stmts \cup Descriptors) = {}
  /\ Dbcs \cap (Stmts \cup Descriptors) = {}
  /\ Stmts \cap Descriptors = {}
  /\ Descs \cap Implicits = {}
  /\ {Driver, None} \cap Objects = {}

ReturnCodes == {"success", "info", "error", "no_data"}
Diag == [number : Nat, rc : ReturnCodes]
Clean == [number |-> 0, rc |-> "success"]

VARIABLES
  live,      \* objects that are constructed and not destroyed
  parent,    \* the reference of each object to its parent
  registry,  \* Driver::descendants
  owned,     \* the maps environments, connections, statements and descriptors
  explicit,  \* weak pointers of each statement: explicit_ard, explicit_apd
  diag,      \* header of the diagnostics of each object
  session,   \* connections with a session
  call,      \* the call that works on a statement of its own
  given,     \* history: handles the application was given and did not free
  joined,    \* history: connections the application was told are connected
  told       \* history: what the last call on the object that keeps diagnostics returned

vars == <<live, parent, registry, owned, explicit, diag, session, call, given, joined, told>>

NoCall == [op |-> "none", dbc |-> None, stmt |-> None, at |-> "idle", rc |-> "success"]
Idle   == call = NoCall

Init ==
  /\ live = {} /\ registry = {} /\ given = {} /\ session = {} /\ joined = {}
  /\ parent = [o \in Objects |-> None]
  /\ owned = [o \in Owners |-> {}]
  /\ explicit = [s \in Stmts |-> [r \in AppRoles |-> None]]
  /\ diag = [o \in Objects |-> Clean] /\ told = diag
  /\ call = NoCall

-----------------------------------------------------------------------------
(***************************************************************************)
(* Construction and destruction                                            *)
(***************************************************************************)

\* make_shared, the constructor of Child and the map of the parent.
Construct(new, p) ==
  /\ live' = live \cup new
  /\ registry' = registry \cup new
  /\ parent' = [o \in Objects |-> IF o \in new THEN p ELSE parent[o]]
  /\ owned' = [owned EXCEPT ![p] = @ \cup new]
  /\ UNCHANGED explicit

\* A statement allocates its implicit descriptors from its connection.
NewStatement(s) == {s} \cup Implicit(s)

\* What is destroyed when the map of the parent lets go of an object: the object and
\* what its own maps hold.  The implicit descriptor of a statement is not destroyed,
\* because the statement holds it too.
UnderStatement(s)  == {s} \cup Implicit(s)
UnderConnection(c) ==
  {c} \cup (UNION {UnderStatement(s) : s \in owned[c] \cap Stmts}) \cup (owned[c] \cap Descriptors)

Dies(h) ==
  CASE h \in Envs      -> {h} \cup (UNION {UnderConnection(c) : c \in owned[h]})
    [] h \in Dbcs      -> UnderConnection(h)
    [] h \in Stmts     -> UnderStatement(h)
    [] h \in Implicits -> {}
    [] OTHER           -> {h}

\* The weak pointers to a descriptor expire with it.
Expire(dead) ==
  [s \in Stmts |-> [r \in AppRoles |->
     IF s \in dead \/ explicit[s][r] \in dead THEN None ELSE explicit[s][r]]]

\* deallocateSelf(): the map of the parent lets go of the object, and each destructor
\* unregisters its object and lets the maps of the object go.
KeepsRegistered(h) == registry \ {h}  \* mutation of Unregister
Unregister(h) == registry \ Dies(h)

Deallocate(h) ==
  /\ live' = live \ Dies(h)
  /\ registry' = Unregister(h)
  /\ owned' = [o \in Owners |-> IF o \in Dies(h) THEN {} ELSE owned[o] \ (Dies(h) \cup {h})]
  /\ parent' = [o \in Objects |-> IF o \in Dies(h) THEN None ELSE parent[o]]
  /\ explicit' = Expire(Dies(h))

-----------------------------------------------------------------------------
(***************************************************************************)
(* Calls and their diagnostics                                             *)
(***************************************************************************)

\* Driver::call(): the diagnostics are reset, an exception is recorded, and the
\* return code is kept.  `f' is the diagnostics of all objects.
Post(f, o, number, rc) == [f EXCEPT ![o] = [number |-> number, rc |-> rc]]

Returns(o, number, rc) ==
  /\ diag' = Post(diag, o, number, rc)
  /\ told' = Post(told, o, number, rc)

\* The objects of `dead' have no diagnostics, and a new object starts clean.
Wipe(f, dead) == [o \in Objects |-> IF o \in dead THEN Clean ELSE f[o]]

\* A call ends normally, with an exception or with SQL_ERROR and no record.
Outcomes == {<<0, "success">>, <<1, "info">>, <<1, "error">>, <<0, "error">>}

\* Any call that changes nothing but the diagnostics, as far as this module goes.
Use(o) ==
  /\ Idle /\ o \in given
  /\ \E out \in Outcomes : Returns(o, out[1], out[2])
  /\ UNCHANGED <<live, parent, registry, owned, explicit, session, call, given, joined>>

\* SQLAllocHandle: the call is one on the parent, except for an environment.
AllocEnv(e) ==
  /\ Idle /\ e \notin live
  /\ Construct({e}, Driver)
  /\ given' = given \cup {e}
  /\ UNCHANGED <<diag, told, session, call, joined>>

Alloc(p, h, new) ==
  /\ Idle /\ p \in given /\ h \notin live
  /\ Construct(new, p)
  /\ given' = given \cup {h}
  /\ Returns(p, 0, "success")
  /\ UNCHANGED <<session, call, joined>>

AllocConnect(e, c) == Alloc(e, c, {c})
AllocStmt(c, s)    == Alloc(c, s, NewStatement(s))
AllocDesc(c, d)    == Alloc(c, d, {d})

\* SQLFreeHandle keeps no diagnostics.  Its guard never refuses an implicit
\* descriptor, because it asks whether a std::decay<..> * and not a Descriptor *
\* converts: the call takes the descriptor out of the map of its connection.
FreeHandle(h) ==
  /\ Idle /\ h \in registry
  /\ h \in given \cup Implicits
  /\ Deallocate(h)
  /\ diag' = Wipe(diag, Dies(h)) /\ told' = Wipe(told, Dies(h))
  /\ given' = given \ Dies(h)
  /\ session' = session \ Dies(h) /\ joined' = joined \ Dies(h)
  /\ UNCHANGED call

\* SQLFreeStmt(SQL_DROP) is SQLFreeHandle inside a call on the statement.  That call
\* then sets the return code of the statement it has destroyed, in memory that no
\* object of the driver has; the model takes no effect of it.
DropStmt(s) == s \in Stmts /\ s \in given /\ FreeHandle(s)

\* SQLSetStmtAttr of a descriptor: a call on the statement, with one on the
\* descriptor inside it that leaves the diagnostics of the descriptor alone and hands
\* its exception over.
IsExplicit(d) == d \in Descs

AnyOfConnection(s, d) == d # None /\ parent[d] = parent[s]  \* mutation of MayUse
OnlyExplicit(s, d) == d # None /\ IsExplicit(d)  \* mutation of MayUse
MayUse(s, d) == d # None /\ parent[d] = parent[s] /\ IsExplicit(d)

Refuse(s) == Returns(s, 1, "error")

SetDescriptor(s, r, d) ==
  /\ Idle /\ s \in given /\ r \in Roles /\ d \in (live \cap Descriptors) \cup {None}
  /\ \/ /\ r \notin AppRoles
        /\ Returns(s, 0, "error") /\ UNCHANGED explicit
     \/ /\ r \in AppRoles /\ (d = None \/ MayUse(s, d))
        /\ explicit' = [explicit EXCEPT ![s][r] = d] /\ Returns(s, 0, "success")
     \/ /\ r \in AppRoles /\ d # None /\ ~MayUse(s, d)
        /\ Refuse(s) /\ UNCHANGED explicit
  /\ UNCHANGED <<live, parent, registry, owned, session, call, given, joined>>

-----------------------------------------------------------------------------
(***************************************************************************)
(* Connections                                                             *)
(***************************************************************************)

\* SQLConnect and SQLDriverConnect: refused with a session or a bad configuration,
\* else a session is made.  SQLDriverConnect may then have to shorten the string it
\* returns.
Refused(c) ==
  /\ Returns(c, 1, "error")
  /\ UNCHANGED <<live, parent, registry, owned, explicit, session, call, joined>>

Opened(c) ==
  /\ c \notin session
  /\ session' = session \cup {c} /\ joined' = joined \cup {c}
  /\ \E out \in {<<0, "success">>, <<1, "info">>} : Returns(c, out[1], out[2])
  /\ UNCHANGED <<live, parent, registry, owned, explicit, call>>

\* Some calls allocate a statement `s' of their own on the connection.
Begin(op, c, s) ==
  /\ s \notin live
  /\ Construct(NewStatement(s), c)
  /\ diag' = Post(diag, c, 0, "success")
  /\ call' = [op |-> op, dbc |-> c, stmt |-> s, at |-> "execute", rc |-> "success"]
  /\ UNCHANGED <<told, joined>>

\* VerifyConnectionEarly: "SELECT 1" runs on the new session.
Verified(c) ==
  /\ c \notin session
  /\ session' = session \cup {c}
  /\ \E s \in Stmts : Begin("connect", c, s)

Connect(c) ==
  /\ Idle /\ c \in given
  /\ Refused(c) \/ Opened(c) \/ Verified(c)
  /\ UNCHANGED given

Disconnect(c) ==
  /\ Idle /\ c \in given
  /\ session' = session \ {c} /\ joined' = joined \ {c}
  /\ Returns(c, 0, "success")
  /\ UNCHANGED <<live, parent, registry, owned, explicit, call, given>>

GetServerVersion(c) ==
  /\ Idle /\ c \in given
  /\ \E s \in Stmts : Begin("version", c, s)
  /\ UNCHANGED <<session, given>>

\* verifyConnection(): the statement goes whatever it met, the session only on failure.
LeavesTheStatement(ok) ==  \* mutation of Finish
  IF ok THEN Deallocate(call.stmt) ELSE UNCHANGED <<live, parent, registry, owned, explicit>>
Finish(ok) == Deallocate(call.stmt)

VerifyEnds(ok) ==
  /\ call.op = "connect"
  /\ Finish(ok)
  /\ IF ok
       THEN /\ joined' = joined \cup {call.dbc} /\ UNCHANGED session
            /\ \E out \in {<<0, "success">>, <<1, "info">>} : Returns(call.dbc, out[1], out[2])
       ELSE /\ session' = session \ {call.dbc} /\ UNCHANGED joined
            /\ Returns(call.dbc, 1, "error")
  /\ call' = NoCall
  /\ UNCHANGED given

\* getServerVersion(): the query is executed, a row fetched and a value taken, each a
\* call on the statement that resets its diagnostics.  A NULL is an error that the
\* function adds to them.
Step(from, to, number, rc) ==
  /\ call.op = "version" /\ call.at = from
  /\ diag' = Post(diag, call.stmt, number, rc)
  /\ call' = [call EXCEPT !.at = to, !.rc = rc]
  /\ UNCHANGED <<live, parent, registry, owned, explicit, session, given, joined, told>>

Execute == Step("execute", "fetch", 0, "success") \/ Step("execute", "copy", 1, "error")
FetchRow ==
  \/ Step("fetch", "data", 0, "success")
  \/ Step("fetch", "copy", 1, "error")
  \/ Step("fetch", "copy", 0, "no_data")
TakeValue ==
  \/ Step("data", "copy", 0, "success")
  \/ Step("data", "copy", 1, "info")
  \/ Step("data", "copy", 1, "error")

\* copyDiagnosticsRecords().
CopiesNothing(c, s) == diag[c].number  \* mutation of Copied
Copied(c, s) == diag[c].number + diag[s].number

VersionEnds ==
  /\ call.op = "version" /\ call.at = "copy"
  /\ Deallocate(call.stmt)
  /\ diag' = Post(Wipe(diag, Dies(call.stmt)), call.dbc, Copied(call.dbc, call.stmt), call.rc)
  /\ told' = Post(told, call.dbc, IF call.rc \in {"info", "error"} THEN 1 ELSE 0, call.rc)
  /\ call' = NoCall
  /\ UNCHANGED <<session, given, joined>>

Own == VerifyEnds(TRUE) \/ VerifyEnds(FALSE) \/ Execute \/ FetchRow \/ TakeValue \/ VersionEnds

Next ==
  \/ \E o \in Objects \ Implicits : Use(o)
  \/ \E e \in Envs : AllocEnv(e)
  \/ \E e \in Envs, c \in Dbcs : AllocConnect(e, c)
  \/ \E c \in Dbcs, s \in Stmts : AllocStmt(c, s)
  \/ \E c \in Dbcs, d \in Descs : AllocDesc(c, d)
  \/ \E h \in Objects : FreeHandle(h)
  \/ \E s \in Stmts : DropStmt(s)
  \/ \E s \in Stmts, r \in Roles, d \in Descriptors \cup {None} : SetDescriptor(s, r, d)
  \/ \E c \in Dbcs : Connect(c) \/ Disconnect(c) \/ GetServerVersion(c)
  \/ Own

Spec == Init /\ [][Next]_vars

-----------------------------------------------------------------------------
(***************************************************************************)
(* Properties                                                              *)
(***************************************************************************)

\* The type of the state: what each map owns, and statements refer to descriptors that
\* the application allocated only.
TypeOK ==
  /\ live \subseteq Objects /\ registry \subseteq Objects
  /\ given \subseteq Objects \ Implicits
  /\ session \subseteq Dbcs /\ joined \subseteq Dbcs
  /\ parent \in [Objects -> Owners \cup {None}]
  /\ owned \in [Owners -> SUBSET Objects]
  /\ owned[Driver] \subseteq Envs
  /\ \A e \in Envs : owned[e] \subseteq Dbcs
  /\ \A c \in Dbcs : owned[c] \subseteq Stmts \cup Descriptors
  /\ explicit \in [Stmts -> [AppRoles -> Descs \cup {None}]]
  /\ diag \in [Objects -> Diag] /\ told \in [Objects -> Diag]
  /\ call = NoCall \/ call \in [op : {"connect", "version"}, dbc : Dbcs, stmt : Stmts,
                                at : {"execute", "fetch", "data", "copy"}, rc : ReturnCodes]

\* The registry holds references and each object refers to its parent: both must be
\* of objects that still exist, also half way through a call, or the next call follows
\* a reference into freed memory.  And no live object is missing from the registry.
RegistryIsLive ==
  /\ registry = live
  /\ \A o \in live : parent[o] \in live \cup {Driver}
  /\ Idle \/ {call.dbc, call.stmt} \subseteq live

\* Between calls nothing exists but what the application holds and the implicit
\* descriptors of its statements, and no session but those it was told of: the
\* statement a call works on is gone however the call ended, and a connect that
\* failed can be tried again.
NothingLeaks ==
  Idle =>
    /\ live = given \cup (UNION {Implicit(s) : s \in given \cap Stmts})
    /\ session = joined

\* choose(): the explicit descriptor while it lives, else the implicit one.
Effective(s, r) == IF explicit[s][r] = None THEN <<s, r>> ELSE explicit[s][r]

\* Whatever the application frees, and in whatever order, the descriptor a statement
\* works with exists and is one of its own connection.
DescriptorsAreUsable ==
  \A s \in live \cap Stmts, r \in AppRoles :
    /\ Effective(s, r) \in live
    /\ parent[Effective(s, r)] = parent[s]

\* The diagnostics of an object are those of the last call on it that keeps them: a
\* call inside a call disturbs neither those of the descriptor it looks at nor those
\* of the connection, and what a statement of the driver's own met is not lost with
\* it.
DiagnosticsTellLastCall == Idle => \A o \in live : diag[o] = told[o]
=============================================================================
