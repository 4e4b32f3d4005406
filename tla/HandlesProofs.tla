---------------------------- MODULE HandlesProofs ----------------------------
(***************************************************************************)
(* Proofs about Handles, for every set of environments, connections,       *)
(* statements and descriptors and every set of roles.                      *)
(*                                                                         *)
(* The inductive invariant says that the objects form a forest in which    *)
(* the maps of the owners and the references to the parents agree (Tree),  *)
(* what the application holds of it (Held), which sessions it knows of     *)
(* (Sessions), and how the diagnostics and the history of what was         *)
(* returned are related while a call works on a statement of its own       *)
(* (Diagnosed).                                                            *)
(***************************************************************************)
EXTENDS Handles, TLAPS

\* The kind of a parent.
ParentOf(o, p) ==
  /\ o \in Envs => p = Driver
  /\ o \in Dbcs => p \in Envs
  /\ o \in Stmts \cup Descriptors => p \in Dbcs

\* Live objects have live parents, and know them.
Rooted == \A o \in live : parent[o] \in live \cup {Driver} /\ ParentOf(o, parent[o])

\* A map holds children of its owner only, and each but for implicit descriptors,
\* which may be taken out of it while their statement lives.
MapsHoldChildren == \A p \in Owners : \A o \in owned[p] : o \in live /\ parent[o] = p
ChildrenAreHeld  == \A o \in live \ Implicits : o \in owned[parent[o]]

\* A statement and its implicit descriptors live and die together.
Paired ==
  \A s \in Stmts, r \in Roles :
    /\ s \in live <=> <<s, r>> \in live
    /\ s \in live => parent[<<s, r>>] = parent[s]

\* What a live statement refers to is a live descriptor of its connection.
Referred ==
  \A s \in Stmts, r \in AppRoles :
    explicit[s][r] # None =>
      s \in live /\ explicit[s][r] \in live /\ parent[explicit[s][r]] = parent[s]

Tree ==
  /\ registry = live
  /\ Rooted /\ MapsHoldChildren /\ ChildrenAreHeld /\ Paired /\ Referred

\* The application holds every object but implicit descriptors and the statement of
\* the call that runs.
Held ==
  /\ Idle => live \ Implicits = given
  /\ ~Idle => /\ live \ Implicits = given \cup {call.stmt}
              /\ call.stmt \notin given /\ call.dbc \in given
              /\ parent[call.stmt] = call.dbc

\* A session is new to the application while it is verified.
Sessions ==
  IF ~Idle /\ call.op = "connect"
  THEN session = joined \cup {call.dbc} /\ call.dbc \notin joined
  ELSE session = joined

\* Whoever does not live, and whoever is never called, has nothing to tell.
Silent(o) == diag[o] = Clean /\ told[o] = Clean

Failures(rc) == IF rc \in {"info", "error"} THEN 1 ELSE 0

Diagnosed ==
  /\ \A o \in (Objects \ live) \cup Implicits : Silent(o)
  /\ \A o \in live : Idle \/ o \notin {call.dbc, call.stmt} => diag[o] = told[o]
  /\ ~Idle => /\ diag[call.dbc] = Clean /\ told[call.stmt] = Clean
              /\ call.op = "connect" => diag[call.stmt] = Clean
              /\ call.at = "copy" => diag[call.stmt].number = Failures(call.rc)

IInv == TypeOK /\ Tree /\ Held /\ Sessions /\ Diagnosed

-----------------------------------------------------------------------------
(***************************************************************************)
(* What dies with an object                                                *)
(***************************************************************************)

\* A connection takes its children with it, and nothing else.
LEMMA UnderConnectionIs ==
  ASSUME TypeOK, Tree, NEW c \in Dbcs \cap live
  PROVE  UnderConnection(c) = {c} \cup {o \in live : parent[o] = c}
<1>1. ASSUME NEW o \in UnderConnection(c)
      PROVE  o = c \/ (o \in live /\ parent[o] = c)
  <2>1. CASE o \in owned[c]
    BY <2>1 DEF Tree, MapsHoldChildren, Owners
  <2>2. ASSUME NEW s \in owned[c] \cap Stmts, NEW r \in Roles, o = <<s, r>>
        PROVE  o \in live /\ parent[o] = c
    BY <2>2 DEF Tree, MapsHoldChildren, Paired, Owners
  <2> QED  BY <1>1, <2>1, <2>2 DEF UnderConnection, UnderStatement, Implicit
<1>2. ASSUME NEW o \in live, parent[o] = c
      PROVE  o \in UnderConnection(c)
  <2>1. o \in Stmts \cup Descriptors
    BY <1>2, KindsAreDistinct DEF Tree, Rooted, ParentOf, TypeOK, Objects
  <2>2. CASE o \notin Implicits
    <3>1. o \in owned[c]
      BY <1>2, <2>2 DEF Tree, ChildrenAreHeld
    <3> QED  BY <2>1, <3>1 DEF UnderConnection, UnderStatement
  <2>3. CASE o \in Implicits
    <3>1. PICK s \in Stmts, r \in Roles : o = <<s, r>>
      BY <2>3 DEF Implicits
    <3>2. s \in live /\ parent[s] = c /\ s \notin Implicits
      BY <1>2, <3>1, KindsAreDistinct DEF Tree, Paired, Descriptors
    <3>3. s \in owned[c]
      BY <3>2 DEF Tree, ChildrenAreHeld
    <3> QED  BY <3>1, <3>3 DEF UnderConnection, UnderStatement, Implicit
  <2> QED  BY <2>2, <2>3
<1>3. c \in UnderConnection(c)
  BY DEF UnderConnection
<1> QED  BY <1>1, <1>2, <1>3

\* The dead of a call that frees h: a part of the tree with everything below it,
\* which takes no statement without its implicit descriptors nor the reverse.
Uprooted(h, dead) ==
  /\ dead \subseteq live
  /\ h \notin Implicits => h \in dead
  /\ h \in Implicits => dead = {}
  /\ \A o \in live : parent[o] \in dead => o \in dead
  /\ \A s \in Stmts, r \in Roles : s \in dead <=> <<s, r>> \in dead

LEMMA EnvUproots ==
  ASSUME TypeOK, Tree, NEW h \in Envs \cap live
  PROVE  Uprooted(h, Dies(h))
<1> DEFINE below == {o \in live : parent[o] = h \/ parent[o] \in owned[h]}
<1>1. owned[h] \subseteq Dbcs \cap live
  BY DEF TypeOK, Tree, MapsHoldChildren, Owners
<1>0. h \notin Dbcs /\ h \notin Stmts /\ h \notin Implicits
  BY KindsAreDistinct DEF Descriptors
<1>2. Dies(h) = {h} \cup (UNION {UnderConnection(c) : c \in owned[h]})
  BY <1>0 DEF Dies
<1>3. ASSUME NEW o \in live, parent[o] = h
      PROVE  o \in owned[h]
  BY <1>3, KindsAreDistinct DEF Tree, Rooted, ParentOf, ChildrenAreHeld, TypeOK, Objects, Descriptors
<1>4. \A c \in owned[h] : UnderConnection(c) = {c} \cup {o \in live : parent[o] = c}
  BY <1>1, UnderConnectionIs
<1>5. Dies(h) = {h} \cup below
  <2>1. ASSUME NEW c \in owned[h]
        PROVE  c \in below
    BY <2>1 DEF Tree, MapsHoldChildren, Owners
  <2>2. ASSUME NEW o \in below
        PROVE  \E c \in owned[h] : o \in {c} \cup {q \in live : parent[q] = c}
    BY <1>3
  <2>3. ASSUME NEW c \in owned[h], NEW o \in {c} \cup {q \in live : parent[q] = c}
        PROVE  o \in below
    BY <2>1
  <2> QED  BY <1>2, <1>4, <2>2, <2>3
<1> HIDE DEF below
<1>6. below = {o \in live : parent[o] = h \/ parent[o] \in owned[h]}
  BY DEF below
<1>7. \A o \in live : parent[o] \in below => o \in below
  BY <1>1, <1>3, <1>6, KindsAreDistinct
     DEF Tree, Rooted, ParentOf, TypeOK, Objects, Descriptors
<1>8. \A s \in Stmts, r \in Roles : s \in below <=> <<s, r>> \in below
  BY <1>6 DEF Tree, Paired
<1>9. h \notin Stmts /\ h \notin Implicits
  BY KindsAreDistinct DEF Descriptors
<1>10. \A s \in Stmts, r \in Roles : s # h /\ <<s, r>> # h
  BY <1>9 DEF Implicits
<1>11. \A o \in live : parent[o] \in {h} \cup below => o \in below
  BY <1>6, <1>7
<1> QED  BY <1>5, <1>6, <1>8, <1>9, <1>10, <1>11 DEF Uprooted

LEMMA DbcUproots ==
  ASSUME TypeOK, Tree, NEW h \in Dbcs \cap live
  PROVE  Uprooted(h, Dies(h))
<1>0. h \notin Envs /\ h \notin Stmts /\ h \notin Implicits
  BY KindsAreDistinct DEF Descriptors
<1>1. Dies(h) = {h} \cup {o \in live : parent[o] = h}
  <2>1. Dies(h) = UnderConnection(h)
    BY <1>0 DEF Dies
  <2> QED  BY <2>1, UnderConnectionIs
<1>2. \A o \in live : parent[o] = h => o \in Stmts \cup Descriptors
  BY KindsAreDistinct DEF Tree, Rooted, ParentOf, TypeOK, Objects
<1>3. \A o \in live : parent[o] \notin Stmts \cup Descriptors
  BY KindsAreDistinct DEF Tree, Rooted, ParentOf, TypeOK, Objects
<1>4. \A o \in live : parent[o] \in Dies(h) => o \in Dies(h)
  BY <1>1, <1>2, <1>3
<1>5. h \notin Stmts /\ h \notin Implicits
  BY KindsAreDistinct DEF Descriptors
<1>6. \A s \in Stmts, r \in Roles : s # h /\ <<s, r>> # h
  BY <1>5 DEF Implicits
<1>7. \A s \in Stmts, r \in Roles : s \in Dies(h) <=> <<s, r>> \in Dies(h)
  BY <1>1, <1>6 DEF Tree, Paired
<1> QED  BY <1>1, <1>4, <1>5, <1>7 DEF Uprooted

LEMMA StmtUproots ==
  ASSUME TypeOK, Tree, NEW h \in Stmts \cap live
  PROVE  Uprooted(h, Dies(h))
<1>0. h \notin Envs /\ h \notin Dbcs /\ h \notin Implicits
  BY KindsAreDistinct DEF Descriptors
<1>1. Dies(h) = {h} \cup ({h} \X Roles)
  BY <1>0 DEF Dies, UnderStatement, Implicit
<1>2. Dies(h) \subseteq live
  BY <1>1 DEF Tree, Paired
<1>3. \A o \in live : parent[o] \notin Stmts \cup Descriptors
  BY KindsAreDistinct DEF Tree, Rooted, ParentOf, TypeOK, Objects
<1>4. \A o \in Dies(h) : o \in Stmts \cup Descriptors
  BY <1>1 DEF Descriptors, Implicits
<1>5. h \notin Implicits
  BY KindsAreDistinct DEF Descriptors
<1>6. \A s \in Stmts, r \in Roles : s \in Dies(h) <=> <<s, r>> \in Dies(h)
  <2>1. \A s \in Stmts, r \in Roles : <<s, r>> # h /\ s \notin {h} \X Roles
    BY KindsAreDistinct DEF Descriptors, Implicits
  <2> QED  BY <1>1, <2>1
<1> QED  BY <1>1, <1>2, <1>3, <1>4, <1>5, <1>6 DEF Uprooted

LEMMA DescUproots ==
  ASSUME TypeOK, Tree, NEW h \in Descriptors \cap live
  PROVE  Uprooted(h, Dies(h))
<1>1. h \notin Envs /\ h \notin Dbcs /\ h \notin Stmts
  BY KindsAreDistinct
<1>2. CASE h \in Implicits
  <2>1. Dies(h) = {}
    BY <1>1, <1>2 DEF Dies
  <2> QED  BY <1>2, <2>1 DEF Uprooted
<1>3. CASE h \notin Implicits
  <2>1. Dies(h) = {h}
    BY <1>1, <1>3 DEF Dies
  <2>2. \A o \in live : parent[o] \notin Descriptors
    BY KindsAreDistinct DEF Tree, Rooted, ParentOf, TypeOK, Objects
  <2>3. \A s \in Stmts, r \in Roles : s # h /\ <<s, r>> # h
    BY <1>1, <1>3 DEF Implicits
  <2> QED  BY <1>3, <2>1, <2>2, <2>3 DEF Uprooted
<1> QED  BY <1>2, <1>3

\* Whatever is freed, the dead are all that is below it.
LEMMA FreeingUproots ==
  ASSUME TypeOK, Tree, NEW h \in live
  PROVE  Uprooted(h, Dies(h))
<1>1. h \in Envs \cup Dbcs \cup Stmts \cup Descriptors
  BY DEF TypeOK, Objects
<1> QED  BY <1>1, EnvUproots, DbcUproots, StmtUproots, DescUproots

-----------------------------------------------------------------------------
(***************************************************************************)
(* The tree grows and is cut                                               *)
(***************************************************************************)

\* TypeOK as far as it speaks of the tree.
TreeTypes ==
  /\ live \subseteq Objects /\ registry \subseteq Objects
  /\ parent \in [Objects -> Owners \cup {None}]
  /\ owned \in [Owners -> SUBSET Objects]
  /\ owned[Driver] \subseteq Envs
  /\ \A e \in Envs : owned[e] \subseteq Dbcs
  /\ \A c \in Dbcs : owned[c] \subseteq Stmts \cup Descriptors
  /\ explicit \in [Stmts -> [AppRoles -> Descs \cup {None}]]

\* A new object h under p, a statement with its implicit descriptors.
Grows(h, p, new) ==
  /\ h \in (Envs \cup Dbcs \cup Stmts \cup Descs) \ live
  /\ p \in (live \cup {Driver}) /\ p \in Owners /\ ParentOf(h, p)
  /\ new = IF h \in Stmts THEN NewStatement(h) ELSE {h}

\* The kinds of objects have nothing in common.
LEMMA Kinds ==
  /\ \A o \in Envs  : o \notin Dbcs /\ o \notin Stmts /\ o \notin Descriptors /\ o # Driver /\ o # None
  /\ \A o \in Dbcs  : o \notin Envs /\ o \notin Stmts /\ o \notin Descriptors /\ o # Driver /\ o # None
  /\ \A o \in Stmts : o \notin Envs /\ o \notin Dbcs /\ o \notin Descriptors /\ o # Driver /\ o # None
  /\ \A o \in Descriptors : o \notin Envs /\ o \notin Dbcs /\ o \notin Stmts /\ o # Driver /\ o # None
  /\ \A o \in Descs : o \notin Implicits
  /\ \A s \in Stmts, r \in Roles : <<s, r>> \in Implicits
  /\ Implicits \subseteq Descriptors /\ Descs \subseteq Descriptors
BY KindsAreDistinct DEF Descriptors, Implicits, Objects

\* What a new object brings is new, of the right kind, and complete.
LEMMA NewObjects ==
  ASSUME TypeOK, Tree, NEW h, NEW p, NEW new, Grows(h, p, new)
  PROVE  /\ new \subseteq Objects /\ new \cap live = {} /\ h \in new
         /\ new \ Implicits = {h}
         /\ \A o \in new : ParentOf(o, p)
         /\ \A s \in Stmts, r \in Roles : s \in new <=> <<s, r>> \in new
<1>1. CASE h \in Stmts
  <2>1. new = {h} \cup ({h} \X Roles)
    BY <1>1 DEF Grows, NewStatement, Implicit
  <2>2. \A r \in Roles : <<h, r>> \in Implicits /\ <<h, r>> \notin live
    BY <1>1, Kinds DEF Grows, Tree, Paired
  <2>3. \A o \in new : o = h \/ \E r \in Roles : o = <<h, r>>
    BY <2>1
  <2>4. p \in Dbcs
    BY <1>1 DEF Grows, ParentOf
  <2>5. h \notin live /\ h \notin Implicits
    BY <1>1, Kinds DEF Grows
  <2>6. new \subseteq Objects
    BY <1>1, <2>2, <2>3, Kinds DEF Objects
  <2>7. \A o \in new : ParentOf(o, p)
    BY <1>1, <2>2, <2>3, <2>4, Kinds DEF ParentOf
  <2>8. \A s \in Stmts, r \in Roles : s \in new <=> <<s, r>> \in new
    <3>1. \A s \in Stmts, r \in Roles : s \in new <=> s = h
      BY <2>2, <2>3, <1>1, Kinds, <2>1
    <3>2. \A s \in Stmts, r \in Roles : <<s, r>> # h
      BY <2>5, Kinds
    <3> QED  BY <2>1, <3>1, <3>2
  <2> QED  BY <2>1, <2>2, <2>3, <2>5, <2>6, <2>7, <2>8
<1>2. CASE h \notin Stmts
  <2>1. new = {h} /\ h \notin live /\ ParentOf(h, p) /\ h \in Envs \cup Dbcs \cup Descs
    BY <1>2 DEF Grows
  <2>2. h \in Objects /\ h \notin Implicits
    BY <2>1, Kinds DEF Objects
  <2>3. \A s \in Stmts, r \in Roles : s # h /\ <<s, r>> # h
    BY <1>2, <2>2, Kinds
  <2> QED  BY <2>1, <2>2, <2>3
<1> QED  BY <1>1, <1>2

LEMMA GrowingTypes ==
  ASSUME TypeOK, Tree, NEW h, NEW p, NEW new, Grows(h, p, new), Construct(new, p)
  PROVE  TreeTypes'
<1>1. new \subseteq Objects /\ \A o \in new : ParentOf(o, p)
  BY NewObjects
<1>2. p \in Owners
  BY DEF Grows
<1>3. live' \subseteq Objects /\ registry' \subseteq Objects /\ UNCHANGED explicit
  BY <1>1 DEF Construct, TypeOK
<1>4. parent' \in [Objects -> Owners \cup {None}]
  BY <1>2 DEF Construct, TypeOK
<1>5. owned' \in [Owners -> SUBSET Objects]
  BY <1>1, <1>2 DEF Construct, TypeOK
<1>6. \A q \in Owners : owned'[q] = IF q = p THEN owned[q] \cup new ELSE owned[q]
  BY <1>2 DEF Construct, TypeOK
<1>7. Driver \in Owners /\ Envs \subseteq Owners /\ Dbcs \subseteq Owners
  BY DEF Owners
<1>8. \A o \in new : \/ o \in Envs /\ p = Driver
                     \/ o \in Dbcs /\ p \in Envs
                     \/ o \in Stmts \cup Descriptors /\ p \in Dbcs
  BY <1>1 DEF ParentOf, Objects
<1>9. owned'[Driver] \subseteq Envs
  <2>1. p = Driver => new \subseteq Envs
    BY <1>8, Kinds
  <2> QED  BY <1>6, <1>7, <2>1 DEF TypeOK
<1>10. ASSUME NEW e \in Envs PROVE owned'[e] \subseteq Dbcs
  <2>1. p = e => new \subseteq Dbcs
    BY <1>8, Kinds
  <2>2. owned[e] \subseteq Dbcs /\ e \in Owners
    BY <1>7 DEF TypeOK
  <2> QED  BY <1>6, <2>1, <2>2
<1>11. ASSUME NEW d \in Dbcs PROVE owned'[d] \subseteq Stmts \cup Descriptors
  <2>1. p = d => new \subseteq Stmts \cup Descriptors
    BY <1>8, Kinds
  <2>2. owned[d] \subseteq Stmts \cup Descriptors /\ d \in Owners
    BY <1>7 DEF TypeOK
  <2> QED  BY <1>6, <2>1, <2>2
<1> QED  BY <1>3, <1>4, <1>5, <1>9, <1>10, <1>11 DEF TreeTypes, TypeOK

LEMMA GrowingTree ==
  ASSUME TypeOK, Tree, NEW h, NEW p, NEW new, Grows(h, p, new), Construct(new, p)
  PROVE  Tree'
<1>1. /\ new \subseteq Objects /\ new \cap live = {} /\ new \ Implicits = {h}
      /\ \A o \in new : ParentOf(o, p)
      /\ \A s \in Stmts, r \in Roles : s \in new <=> <<s, r>> \in new
  BY NewObjects
<1>2. /\ live' = live \cup new /\ registry' = registry \cup new /\ UNCHANGED explicit
      /\ \A o \in Objects : parent'[o] = IF o \in new THEN p ELSE parent[o]
      /\ \A q \in Owners : owned'[q] = IF q = p THEN owned[q] \cup new ELSE owned[q]
  BY DEF Construct, TypeOK
<1>3. p \in live \cup {Driver} /\ p \in Owners
  BY DEF Grows
<1>4. live \subseteq Objects
  BY DEF TypeOK
<1>5. Rooted'
  BY <1>1, <1>2, <1>3, <1>4 DEF Tree, Rooted, ParentOf
<1>6. MapsHoldChildren'
  <2>1. ASSUME NEW q \in Owners, NEW o \in owned'[q]
        PROVE  o \in live' /\ parent'[o] = q
    <3>1. CASE o \in owned[q]
      <4>1. o \in live /\ parent[o] = q
        BY <3>1 DEF Tree, MapsHoldChildren
      <4> QED  BY <1>1, <1>2, <1>4, <4>1
    <3>2. CASE o \in new /\ q = p
      BY <1>1, <1>2, <3>2
    <3>3. o \in owned[q] \/ (o \in new /\ q = p)
      BY <1>2, <2>1
    <3> QED  BY <3>1, <3>2, <3>3
  <2> QED  BY <2>1 DEF MapsHoldChildren
<1>7. ChildrenAreHeld'
  <2>1. ASSUME NEW o \in live \ Implicits
        PROVE  o \in owned'[parent'[o]]
    <3>1. parent'[o] = parent[o] /\ o \in owned[parent[o]]
      BY <1>1, <1>2, <1>4, <2>1 DEF Tree, ChildrenAreHeld
    <3>2. parent[o] \in Owners
      BY <1>4, <2>1, Kinds DEF Tree, Rooted, ParentOf, Objects, Owners
    <3>3. owned[parent[o]] \subseteq owned'[parent[o]]
      BY <1>2, <3>2
    <3> QED  BY <3>1, <3>3
  <2>2. ASSUME NEW o \in new \ Implicits
        PROVE  o \in owned'[parent'[o]]
    <3>1. parent'[o] = p
      BY <1>1, <1>2, <2>2
    <3>2. owned'[p] = owned[p] \cup new
      BY <1>2, <1>3
    <3> QED  BY <2>2, <3>1, <3>2
  <2> QED  BY <1>2, <2>1, <2>2 DEF ChildrenAreHeld
<1>8. Paired'
  <2>1. \A s \in Stmts, r \in Roles : s \in Objects /\ <<s, r>> \in Objects
    BY Kinds DEF Objects
  <2> QED  BY <1>1, <1>2, <2>1 DEF Tree, Paired
<1>9. Referred'
  <2>1. \A s \in Stmts : s \in Objects
    BY DEF Objects
  <2> QED  BY <1>1, <1>2, <1>4, <2>1 DEF Tree, Referred
<1> QED  BY <1>2, <1>5, <1>6, <1>7, <1>8, <1>9 DEF Tree

LEMMA CuttingTypes ==
  ASSUME TypeOK, Tree, NEW h \in live, Deallocate(h)
  PROVE  TreeTypes'
<1>1. live' \subseteq Objects /\ registry' \subseteq Objects
  BY DEF Deallocate, Unregister, TypeOK
<1>2. parent' \in [Objects -> Owners \cup {None}]
  BY DEF Deallocate, TypeOK
<1>3. owned' \in [Owners -> SUBSET Objects]
  BY DEF Deallocate, TypeOK
<1>4. \A q \in Owners : owned'[q] \subseteq owned[q]
  BY DEF Deallocate
<1>5. explicit' \in [Stmts -> [AppRoles -> Descs \cup {None}]]
  BY DEF Deallocate, Expire, TypeOK
<1>6. Driver \in Owners /\ Envs \subseteq Owners /\ Dbcs \subseteq Owners
  BY DEF Owners
<1> QED  BY <1>1, <1>2, <1>3, <1>4, <1>5, <1>6 DEF TreeTypes, TypeOK

LEMMA CuttingTree ==
  ASSUME TypeOK, Tree, NEW h \in live, Deallocate(h)
  PROVE  Tree'
<1> DEFINE dead == Dies(h)
<1>1. Uprooted(h, dead)
  BY FreeingUproots
<1> HIDE DEF dead
<1>2. /\ live' = live \ dead /\ registry' = registry \ dead
      /\ \A o \in Objects : parent'[o] = IF o \in dead THEN None ELSE parent[o]
      /\ \A q \in Owners : owned'[q] = IF q \in dead THEN {} ELSE owned[q] \ (dead \cup {h})
      /\ \A s \in Stmts, r \in AppRoles :
           explicit'[s][r] = IF s \in dead \/ explicit[s][r] \in dead THEN None ELSE explicit[s][r]
  BY DEF Deallocate, Unregister, Expire, dead
<1>3. live \subseteq Objects
  BY DEF TypeOK
<1>4. \A o \in live : parent[o] \in Owners
  BY <1>3, Kinds DEF Tree, Rooted, ParentOf, Objects, Owners
<1>5. Rooted'
  BY <1>1, <1>2, <1>3 DEF Tree, Rooted, ParentOf, Uprooted
<1>6. MapsHoldChildren'
  <2>1. ASSUME NEW q \in Owners, NEW o \in owned'[q]
        PROVE  o \in live' /\ parent'[o] = q
    <3>1. o \in owned[q] /\ o \notin dead
      BY <1>2, <2>1
    <3>2. o \in live /\ parent[o] = q
      BY <3>1 DEF Tree, MapsHoldChildren
    <3> QED  BY <1>2, <1>3, <3>1, <3>2
  <2> QED  BY <2>1 DEF MapsHoldChildren
<1>7. ChildrenAreHeld'
  <2>1. ASSUME NEW o \in live' \ Implicits
        PROVE  o \in owned'[parent'[o]]
    <3>1. o \in live /\ o \notin dead /\ parent'[o] = parent[o] /\ parent[o] \notin dead
      BY <1>1, <1>2, <1>3, <2>1 DEF Uprooted
    <3>2. o \in owned[parent[o]] /\ parent[o] \in Owners
      BY <1>4, <2>1, <3>1 DEF Tree, ChildrenAreHeld
    <3>3. h \in dead \/ h \in Implicits
      BY <1>1 DEF Uprooted
    <3>4. o # h
      BY <2>1, <3>1, <3>3
    <3>5. owned'[parent[o]] = owned[parent[o]] \ (dead \cup {h})
      BY <1>2, <3>1, <3>2
    <3> QED  BY <3>1, <3>2, <3>4, <3>5
  <2> QED  BY <2>1 DEF ChildrenAreHeld
<1>8. Paired'
  <2>1. \A s \in Stmts, r \in Roles : s \in Objects /\ <<s, r>> \in Objects
    BY Kinds DEF Objects
  <2> QED  BY <1>1, <1>2, <2>1 DEF Tree, Paired, Uprooted
<1>9. Referred'
  <2>1. \A s \in Stmts : s \in Objects
    BY DEF Objects
  <2> QED  BY <1>2, <1>3, <2>1 DEF Tree, Referred
<1> QED  BY <1>2, <1>5, <1>6, <1>7, <1>8, <1>9 DEF Tree

-----------------------------------------------------------------------------
(***************************************************************************)
(* Diagnostics and calls                                                   *)
(***************************************************************************)

RestTypes ==
  /\ given \subseteq Objects \ Implicits
  /\ session \subseteq Dbcs /\ joined \subseteq Dbcs
  /\ diag \in [Objects -> Diag] /\ told \in [Objects -> Diag]
  /\ call = NoCall \/ call \in [op : {"connect", "version"}, dbc : Dbcs, stmt : Stmts,
                                at : {"execute", "fetch", "data", "copy"}, rc : ReturnCodes]

LEMMA TypesAreParts == TypeOK <=> TreeTypes /\ RestTypes
BY DEF TypeOK, TreeTypes, RestTypes

LEMMA TypesArePartsNext == TypeOK' <=> TreeTypes' /\ RestTypes'
BY DEF TypeOK, TreeTypes, RestTypes

\* Post() changes the diagnostics of one object.
LEMMA Posting ==
  ASSUME NEW f \in [Objects -> Diag], NEW o \in Objects, NEW number \in Nat, NEW rc \in ReturnCodes
  PROVE  /\ Post(f, o, number, rc) \in [Objects -> Diag]
         /\ Post(f, o, number, rc)[o] = [number |-> number, rc |-> rc]
         /\ \A q \in Objects \ {o} : Post(f, o, number, rc)[q] = f[q]
BY DEF Post, Diag

\* Wipe() cleans the diagnostics of the dead.
LEMMA Wiping ==
  ASSUME NEW f \in [Objects -> Diag], NEW dead
  PROVE  /\ Wipe(f, dead) \in [Objects -> Diag]
         /\ \A q \in Objects : Wipe(f, dead)[q] = IF q \in dead THEN Clean ELSE f[q]
BY DEF Wipe, Diag, Clean, ReturnCodes

\* While a call works, it is one of the two, on a connection and a statement that live.
LEMMA Working ==
  ASSUME IInv, ~Idle
  PROVE  /\ call \in [op : {"connect", "version"}, dbc : Dbcs, stmt : Stmts,
                      at : {"execute", "fetch", "data", "copy"}, rc : ReturnCodes]
         /\ call.dbc \in Dbcs \cap live /\ call.stmt \in Stmts \cap live
         /\ call.dbc # call.stmt
<1>1. call \in [op : {"connect", "version"}, dbc : Dbcs, stmt : Stmts,
                at : {"execute", "fetch", "data", "copy"}, rc : ReturnCodes]
  BY DEF IInv, TypeOK, Idle
<1>2. call.dbc \in live /\ call.stmt \in live
  BY DEF IInv, Held
<1> QED  BY <1>1, <1>2, Kinds

LEMMA NotIdle ==
  ASSUME call.op \in {"connect", "version"}
  PROVE  ~Idle
BY DEF Idle, NoCall

\* A statement dies with its implicit descriptors and nothing else.
LEMMA StmtDies ==
  ASSUME NEW s \in Stmts
  PROVE  Dies(s) = {s} \cup ({s} \X Roles) /\ Dies(s) \subseteq {s} \cup Implicits
<1>1. s \notin Envs /\ s \notin Dbcs /\ s \notin Implicits
  BY Kinds
<1>2. Dies(s) = {s} \cup ({s} \X Roles)
  BY <1>1 DEF Dies, UnderStatement, Implicit
<1>3. \A r \in Roles : <<s, r>> \in Implicits
  BY Kinds
<1> QED  BY <1>2, <1>3

\* Nothing but the diagnostics of o, which lives and is not busy, is changed.
LEMMA ReturnsKeep ==
  ASSUME IInv, Idle, Idle', NEW o \in live, o \notin Implicits,
         NEW number \in Nat, NEW rc \in ReturnCodes,
         Returns(o, number, rc), live \subseteq live', \A q \in live' \ live : q \in Objects
  PROVE  Diagnosed' /\ diag' \in [Objects -> Diag] /\ told' \in [Objects -> Diag]
<1>1. o \in Objects /\ diag \in [Objects -> Diag] /\ told \in [Objects -> Diag] /\ live \subseteq Objects
  BY DEF IInv, TypeOK
<1>2. /\ diag' \in [Objects -> Diag] /\ told' \in [Objects -> Diag]
      /\ diag'[o] = told'[o]
      /\ \A q \in Objects \ {o} : diag'[q] = diag[q] /\ told'[q] = told[q]
  <2>1. /\ Post(diag, o, number, rc) \in [Objects -> Diag]
        /\ Post(diag, o, number, rc)[o] = [number |-> number, rc |-> rc]
        /\ \A q \in Objects \ {o} : Post(diag, o, number, rc)[q] = diag[q]
    BY <1>1, Posting
  <2>2. /\ Post(told, o, number, rc) \in [Objects -> Diag]
        /\ Post(told, o, number, rc)[o] = [number |-> number, rc |-> rc]
        /\ \A q \in Objects \ {o} : Post(told, o, number, rc)[q] = told[q]
    BY <1>1, Posting
  <2> QED  BY <2>1, <2>2 DEF Returns
<1>3. Implicits \subseteq Objects
  BY Kinds DEF Objects
<1>4. \A q \in (Objects \ live') \cup Implicits : Silent(q)'
  BY <1>2, <1>3 DEF IInv, Diagnosed, Silent
<1>5. \A q \in live' : diag'[q] = told'[q]
  <2>1. ASSUME NEW q \in live', q # o
        PROVE  diag'[q] = told'[q]
    <3>1. q \in Objects \ {o}
      BY <1>1, <2>1
    <3>2. diag[q] = told[q]
      BY <3>1 DEF IInv, Diagnosed, Silent
    <3> QED  BY <1>2, <3>1, <3>2
  <2> QED  BY <1>2, <2>1
<1> QED  BY <1>2, <1>4, <1>5 DEF Diagnosed

\* A call that leaves the tree alone.
LEMMA SameTree ==
  ASSUME TypeOK, Tree, UNCHANGED <<live, parent, registry, owned, explicit>>
  PROVE  TreeTypes' /\ Tree'
<1>1. TreeTypes'
  BY DEF TypeOK, TreeTypes
<1>2. Tree'
  BY DEF Tree, Rooted, MapsHoldChildren, ChildrenAreHeld, Paired, Referred
<1> QED  BY <1>1, <1>2

-----------------------------------------------------------------------------
(***************************************************************************)
(* Each action keeps the invariant                                         *)
(***************************************************************************)

LEMMA UseKeeps ==
  ASSUME IInv, NEW o \in Objects, Use(o)
  PROVE  IInv'
<1>1. PICK out \in Outcomes : Returns(o, out[1], out[2])
  BY DEF Use
<1>2. /\ UNCHANGED <<live, parent, registry, owned, explicit, session, call, given, joined>>
      /\ Idle /\ Idle' /\ o \in given
  BY DEF Use, Idle
<1>3. o \in live /\ o \notin Implicits
  BY <1>2 DEF IInv, Held
<1>4. out[1] \in Nat /\ out[2] \in ReturnCodes
  BY DEF Outcomes, ReturnCodes
<1>5. Diagnosed' /\ diag' \in [Objects -> Diag] /\ told' \in [Objects -> Diag]
  BY <1>1, <1>2, <1>3, <1>4, ReturnsKeep
<1>6. TreeTypes' /\ Tree'
  BY <1>2, SameTree DEF IInv
<1>7. RestTypes'
  BY <1>2, <1>5 DEF IInv, TypeOK, RestTypes
<1>8. Held' /\ Sessions'
  BY <1>2 DEF IInv, Held, Sessions
<1> QED  BY <1>5, <1>6, <1>7, <1>8, TypesArePartsNext DEF IInv

LEMMA AllocEnvKeeps ==
  ASSUME IInv, NEW e \in Envs, AllocEnv(e)
  PROVE  IInv'
<1>1. /\ Idle /\ Idle' /\ e \notin live /\ Construct({e}, Driver) /\ given' = given \cup {e}
      /\ UNCHANGED <<diag, told, session, call, joined>>
  BY DEF AllocEnv, Idle
<1>2. Grows(e, Driver, {e})
  BY <1>1, Kinds DEF Grows, ParentOf, Owners
<1>3. TreeTypes' /\ Tree'
  BY <1>1, <1>2, GrowingTypes, GrowingTree DEF IInv
<1>4. live' = live \cup {e} /\ e \in Objects \ Implicits
  BY <1>1, Kinds DEF Construct, Objects
<1>5. RestTypes'
  BY <1>1, <1>4 DEF IInv, TypeOK, RestTypes
<1>6. Held' /\ Sessions'
  BY <1>1, <1>4 DEF IInv, Held, Sessions
<1>7. Diagnosed'
  BY <1>1, <1>4 DEF IInv, Diagnosed, Silent
<1> QED  BY <1>3, <1>5, <1>6, <1>7, TypesArePartsNext DEF IInv

LEMMA AllocKeeps ==
  ASSUME IInv, NEW p, NEW h, NEW new, Grows(h, p, new), Alloc(p, h, new)
  PROVE  IInv'
<1>1. /\ Idle /\ Idle' /\ p \in given /\ Construct(new, p) /\ given' = given \cup {h}
      /\ Returns(p, 0, "success") /\ UNCHANGED <<session, call, joined>>
  BY DEF Alloc, Idle
<1>2. TreeTypes' /\ Tree'
  BY <1>1, GrowingTypes, GrowingTree DEF IInv
<1>3. new \subseteq Objects /\ new \ Implicits = {h}
  BY NewObjects DEF IInv
<1>4. live' = live \cup new
  BY <1>1 DEF Construct
<1>5. p \in live /\ p \notin Implicits
  BY <1>1 DEF IInv, Held
<1>6. Diagnosed' /\ diag' \in [Objects -> Diag] /\ told' \in [Objects -> Diag]
  BY <1>1, <1>3, <1>4, <1>5, ReturnsKeep DEF ReturnCodes
<1>7. RestTypes'
  BY <1>1, <1>3, <1>6 DEF IInv, TypeOK, RestTypes
<1>8. Held' /\ Sessions'
  BY <1>1, <1>3, <1>4 DEF IInv, Held, Sessions
<1> QED  BY <1>2, <1>6, <1>7, <1>8, TypesArePartsNext DEF IInv

LEMMA FreeHandleKeeps ==
  ASSUME IInv, NEW h \in Objects, FreeHandle(h)
  PROVE  IInv'
<1> DEFINE dead == Dies(h)
<1>1. /\ Idle /\ Idle' /\ h \in registry /\ Deallocate(h)
      /\ diag' = Wipe(diag, dead) /\ told' = Wipe(told, dead)
      /\ given' = given \ dead /\ session' = session \ dead /\ joined' = joined \ dead
      /\ UNCHANGED call
  BY DEF FreeHandle, Idle
<1>2. h \in live
  BY <1>1 DEF IInv, Tree
<1>3. TreeTypes' /\ Tree'
  BY <1>1, <1>2, CuttingTypes, CuttingTree DEF IInv
<1>4. live' = live \ dead
  BY <1>1 DEF Deallocate
<1> HIDE DEF dead
<1>5. /\ diag' \in [Objects -> Diag] /\ told' \in [Objects -> Diag]
      /\ \A q \in Objects : diag'[q] = IF q \in dead THEN Clean ELSE diag[q]
      /\ \A q \in Objects : told'[q] = IF q \in dead THEN Clean ELSE told[q]
  BY <1>1, Wiping DEF IInv, TypeOK
<1>6. RestTypes'
  BY <1>1, <1>5 DEF IInv, TypeOK, RestTypes
<1>7. Held' /\ Sessions'
  BY <1>1, <1>4 DEF IInv, Held, Sessions
<1>8. Diagnosed'
  <2>1. Implicits \subseteq Objects /\ live \subseteq Objects
    BY Kinds DEF Objects, IInv, TypeOK
  <2> QED  BY <1>1, <1>4, <1>5, <2>1 DEF IInv, Diagnosed, Silent
<1> QED  BY <1>3, <1>6, <1>7, <1>8, TypesArePartsNext DEF IInv

LEMMA SetDescriptorKeeps ==
  ASSUME IInv, NEW s \in Stmts, NEW r \in Roles, NEW d \in Descriptors \cup {None},
         SetDescriptor(s, r, d)
  PROVE  IInv'
<1>1. /\ Idle /\ Idle' /\ s \in given /\ d \in (live \cap Descriptors) \cup {None}
      /\ UNCHANGED <<live, parent, registry, owned, session, call, given, joined>>
  BY DEF SetDescriptor, Idle
<1>2. s \in live /\ s \notin Implicits
  BY <1>1 DEF IInv, Held
<1>3. \E number \in Nat, rc \in ReturnCodes : Returns(s, number, rc)
  BY DEF SetDescriptor, Refuse, ReturnCodes
<1>4. Diagnosed' /\ diag' \in [Objects -> Diag] /\ told' \in [Objects -> Diag]
  BY <1>1, <1>2, <1>3, ReturnsKeep
<1>5. RestTypes'
  BY <1>1, <1>4 DEF IInv, TypeOK, RestTypes
<1>6. Held' /\ Sessions'
  BY <1>1 DEF IInv, Held, Sessions
<1>7. CASE explicit' = explicit
  BY <1>1, <1>4, <1>5, <1>6, <1>7, SameTree, TypesArePartsNext DEF IInv
<1>8. CASE /\ r \in AppRoles /\ (d = None \/ MayUse(s, d))
           /\ explicit' = [explicit EXCEPT ![s][r] = d]
  <2>1. d \in Descs \cup {None}
    BY <1>8 DEF MayUse, IsExplicit
  <2>2. explicit' \in [Stmts -> [AppRoles -> Descs \cup {None}]]
    BY <1>8, <2>1 DEF IInv, TypeOK
  <2>3. TreeTypes'
    BY <1>1, <2>2 DEF IInv, TypeOK, TreeTypes
  <2>4. Referred'
    <3>1. \A q \in Stmts, k \in AppRoles : explicit'[q][k] = explicit[q][k] \/ (q = s /\ explicit'[q][k] = d)
      BY <1>8 DEF IInv, TypeOK
    <3>2. d # None => d \in live /\ parent[d] = parent[s]
      BY <1>1, <1>8 DEF MayUse
    <3> QED  BY <1>1, <1>2, <3>1, <3>2 DEF IInv, Tree, Referred
  <2>5. Tree'
    BY <1>1, <2>4 DEF IInv, Tree, Rooted, MapsHoldChildren, ChildrenAreHeld, Paired
  <2> QED  BY <1>4, <1>5, <1>6, <2>3, <2>5, TypesArePartsNext DEF IInv
<1> QED  BY <1>7, <1>8 DEF SetDescriptor

\* A call that begins to work on a statement of its own.
LEMMA BeginKeeps ==
  ASSUME IInv, Idle, NEW op \in {"connect", "version"}, NEW c \in Dbcs, NEW s \in Stmts,
         c \in given, Begin(op, c, s), UNCHANGED given,
         op = "connect" => c \notin session /\ session' = session \cup {c},
         op = "version" => UNCHANGED session
  PROVE  IInv'
<1>1. /\ s \notin live /\ Construct(NewStatement(s), c)
      /\ diag' = Post(diag, c, 0, "success") /\ UNCHANGED <<told, joined>>
      /\ call' = [op |-> op, dbc |-> c, stmt |-> s, at |-> "execute", rc |-> "success"]
  BY DEF Begin
<1>2. c \in live /\ c \in Objects /\ s \in Objects /\ c # s /\ s \notin Implicits /\ c \notin Implicits
  BY Kinds DEF IInv, Held, Objects
<1>3. Grows(s, c, NewStatement(s))
  BY <1>1, <1>2, Kinds DEF Grows, ParentOf, Owners
<1>4. TreeTypes' /\ Tree'
  BY <1>1, <1>3, GrowingTypes, GrowingTree DEF IInv
<1>5. /\ NewStatement(s) \subseteq Objects /\ NewStatement(s) \ Implicits = {s}
      /\ s \in NewStatement(s)
  BY <1>3, NewObjects DEF IInv
<1>6. live' = live \cup NewStatement(s) /\ parent'[s] = c
  BY <1>1, <1>2, <1>5 DEF Construct
<1>7. /\ diag' \in [Objects -> Diag] /\ diag'[c] = Clean
      /\ \A q \in Objects \ {c} : diag'[q] = diag[q]
  <2>1. diag \in [Objects -> Diag] /\ "success" \in ReturnCodes
    BY DEF IInv, TypeOK, ReturnCodes
  <2>2. /\ Post(diag, c, 0, "success") \in [Objects -> Diag]
        /\ Post(diag, c, 0, "success")[c] = [number |-> 0, rc |-> "success"]
        /\ \A q \in Objects \ {c} : Post(diag, c, 0, "success")[q] = diag[q]
    BY <1>2, <2>1, Posting
  <2> QED  BY <1>1, <2>2 DEF Clean
<1>8. ~Idle'
  BY <1>1 DEF Idle, NoCall
<1>9. RestTypes'
  BY <1>1, <1>7 DEF IInv, TypeOK, RestTypes, ReturnCodes
<1>10. Held'
  BY <1>1, <1>2, <1>5, <1>6, <1>8 DEF IInv, Held
<1>11. Sessions'
  BY <1>1, <1>8 DEF IInv, Sessions
<1>12. Diagnosed'
  <2>1. live \subseteq Objects /\ Implicits \subseteq Objects
    BY Kinds DEF IInv, TypeOK, Objects
  <2>2. \A q \in (Objects \ live) \cup Implicits : diag[q] = Clean /\ told[q] = Clean
    BY DEF IInv, Diagnosed, Silent
  <2>3. \A q \in live : diag[q] = told[q]
    BY DEF IInv, Diagnosed
  <2>4. \A q \in (Objects \ live') \cup Implicits : Silent(q)'
    BY <1>1, <1>2, <1>6, <1>7, <2>1, <2>2 DEF Silent
  <2>5. \A q \in live' : q # c => diag'[q] = told'[q]
    BY <1>1, <1>5, <1>6, <1>7, <2>1, <2>2, <2>3
  <2>6. told'[s] = Clean /\ diag'[s] = Clean
    BY <1>1, <1>2, <1>7, <2>2
  <2>7. call'.dbc = c /\ call'.stmt = s /\ call'.at # "copy"
    BY <1>1
  <2> QED  BY <1>7, <1>8, <2>4, <2>5, <2>6, <2>7 DEF Diagnosed
<1> QED  BY <1>4, <1>9, <1>10, <1>11, <1>12, TypesArePartsNext DEF IInv

LEMMA ConnectKeeps ==
  ASSUME IInv, NEW c \in Dbcs, Connect(c)
  PROVE  IInv'
<1>1. Idle /\ c \in given /\ UNCHANGED given
  BY DEF Connect
<1>2. c \in live /\ c \notin Implicits
  BY <1>1 DEF IInv, Held
<1>3. CASE Refused(c) \/ Opened(c)
  <2>1. /\ UNCHANGED <<live, parent, registry, owned, explicit, call>> /\ Idle'
        /\ \E number \in Nat, rc \in ReturnCodes : Returns(c, number, rc)
    BY <1>1, <1>3 DEF Refused, Opened, Idle, ReturnCodes
  <2>2. Diagnosed' /\ diag' \in [Objects -> Diag] /\ told' \in [Objects -> Diag]
    BY <1>1, <1>2, <2>1, ReturnsKeep
  <2>3. TreeTypes' /\ Tree'
    BY <2>1, SameTree DEF IInv
  <2>4. \/ UNCHANGED <<session, joined>>
        \/ session' = session \cup {c} /\ joined' = joined \cup {c}
    BY <1>3 DEF Refused, Opened
  <2>5. RestTypes'
    BY <1>1, <2>1, <2>2, <2>4 DEF IInv, TypeOK, RestTypes
  <2>6. Held' /\ Sessions'
    BY <1>1, <2>1, <2>4 DEF IInv, Held, Sessions
  <2> QED  BY <2>2, <2>3, <2>5, <2>6, TypesArePartsNext DEF IInv
<1>4. CASE Verified(c)
  <2>1. PICK s \in Stmts : Begin("connect", c, s)
    BY <1>4 DEF Verified
  <2>2. c \notin session /\ session' = session \cup {c}
    BY <1>4 DEF Verified
  <2> QED  BY <1>1, <2>1, <2>2, BeginKeeps
<1> QED  BY <1>3, <1>4 DEF Connect

LEMMA DisconnectKeeps ==
  ASSUME IInv, NEW c \in Dbcs, Disconnect(c)
  PROVE  IInv'
<1>1. /\ Idle /\ Idle' /\ c \in given
      /\ session' = session \ {c} /\ joined' = joined \ {c} /\ Returns(c, 0, "success")
      /\ UNCHANGED <<live, parent, registry, owned, explicit, call, given>>
  BY DEF Disconnect, Idle
<1>2. c \in live /\ c \notin Implicits
  BY <1>1 DEF IInv, Held
<1>3. Diagnosed' /\ diag' \in [Objects -> Diag] /\ told' \in [Objects -> Diag]
  BY <1>1, <1>2, ReturnsKeep DEF ReturnCodes
<1>4. TreeTypes' /\ Tree'
  BY <1>1, SameTree DEF IInv
<1>5. RestTypes'
  BY <1>1, <1>3 DEF IInv, TypeOK, RestTypes
<1>6. Held' /\ Sessions'
  BY <1>1 DEF IInv, Held, Sessions
<1> QED  BY <1>3, <1>4, <1>5, <1>6, TypesArePartsNext DEF IInv

LEMMA GetServerVersionKeeps ==
  ASSUME IInv, NEW c \in Dbcs, GetServerVersion(c)
  PROVE  IInv'
<1>1. PICK s \in Stmts : Begin("version", c, s)
  BY DEF GetServerVersion
<1> QED  BY <1>1, BeginKeeps DEF GetServerVersion

\* The end of a call that worked on a statement: the statement is gone, and the
\* connection has the diagnostics of the call.
LEMMA EndKeeps ==
  ASSUME IInv, ~Idle, Deallocate(call.stmt), call' = NoCall, UNCHANGED given,
         NEW rc \in ReturnCodes, NEW number \in Nat, NEW dead,
         dead \subseteq Dies(call.stmt), call.op = "version" => dead = Dies(call.stmt),
         diag' = Post(Wipe(diag, dead), call.dbc, number, rc),
         told' = Post(told, call.dbc, number, rc),
         session' = joined', joined' \subseteq Dbcs
  PROVE  IInv'
<1> DEFINE s == call.stmt
           c == call.dbc
<1>1. s \in Stmts \cap live /\ c \in Dbcs \cap live /\ c # s
  BY Working
<1>2. TreeTypes' /\ Tree'
  BY <1>1, CuttingTypes, CuttingTree DEF IInv
<1>3. live' = live \ Dies(s)
  BY DEF Deallocate
<1>4. s \in Dies(s) /\ Dies(s) \subseteq {s} \cup Implicits
  BY <1>1, StmtDies
<1>5. Wipe(diag, dead) \in [Objects -> Diag]
      /\ \A q \in Objects : Wipe(diag, dead)[q] = IF q \in dead THEN Clean ELSE diag[q]
  BY Wiping DEF IInv, TypeOK
<1>6. c \in Objects
  BY <1>1 DEF Objects
<1>7. /\ diag' \in [Objects -> Diag] /\ diag'[c] = [number |-> number, rc |-> rc]
      /\ \A q \in Objects \ {c} : diag'[q] = Wipe(diag, dead)[q]
  BY <1>5, <1>6, Posting
<1>8. /\ told' \in [Objects -> Diag] /\ told'[c] = [number |-> number, rc |-> rc]
      /\ \A q \in Objects \ {c} : told'[q] = told[q]
  BY <1>6, Posting DEF IInv, TypeOK
<1>9. Idle'
  BY DEF Idle
<1>10. RestTypes'
  BY <1>7, <1>8 DEF IInv, TypeOK, RestTypes
<1>11. Held'
  <2>1. given \cap Implicits = {} /\ s \notin given /\ live \ Implicits = given \cup {s}
    BY DEF IInv, TypeOK, Held
  <2> QED  BY <1>3, <1>4, <1>9, <2>1 DEF Held
<1>12. Sessions'
  BY <1>9 DEF Sessions
<1>13. Diagnosed'
  <2>1. live \subseteq Objects /\ Implicits \subseteq Objects /\ c \notin Implicits
    BY <1>1, Kinds DEF IInv, TypeOK, Objects
  <2>2. \A q \in (Objects \ live) \cup Implicits : diag[q] = Clean /\ told[q] = Clean
    BY DEF IInv, Diagnosed, Silent
  <2>3. told[s] = Clean /\ (s \in dead \/ diag[s] = Clean)
    BY <1>4, Working DEF IInv, Diagnosed
  <2>4. \A q \in (Objects \ live') \cup Implicits : q # c
    BY <1>1, <1>3, <1>4, <2>1
  <2>5. \A q \in (Objects \ live') \cup Implicits : Silent(q)'
    BY <1>3, <1>4, <1>5, <1>7, <1>8, <2>1, <2>2, <2>3, <2>4 DEF Silent
  <2>6. \A q \in live' : diag'[q] = told'[q]
    <3>1. ASSUME NEW q \in live', q # c
          PROVE  diag'[q] = told'[q]
      <4>1. q \in live /\ q \in Objects /\ q \notin Dies(s) /\ q # s
        BY <1>3, <1>4, <2>1, <3>1
      <4>2. diag[q] = told[q]
        BY <3>1, <4>1 DEF IInv, Diagnosed
      <4> QED  BY <1>5, <1>7, <1>8, <3>1, <4>1, <4>2
    <3> QED  BY <1>7, <1>8, <3>1
  <2> QED  BY <1>9, <2>5, <2>6 DEF Diagnosed
<1> QED  BY <1>2, <1>10, <1>11, <1>12, <1>13, TypesArePartsNext DEF IInv

LEMMA VerifyEndsKeeps ==
  ASSUME IInv, NEW ok \in BOOLEAN, VerifyEnds(ok)
  PROVE  IInv'
<1>1. call.op = "connect" /\ Deallocate(call.stmt) /\ call' = NoCall /\ UNCHANGED given
  BY DEF VerifyEnds, Finish
<1>2. ~Idle
  BY <1>1, NotIdle
<1>3. PICK number \in Nat, rc \in ReturnCodes : Returns(call.dbc, number, rc)
  BY DEF VerifyEnds, ReturnCodes
<1>4. Wipe(diag, {}) = diag
  BY DEF Wipe, IInv, TypeOK
<1>5. session' = joined' /\ joined' \subseteq Dbcs
  <2>1. session = joined \cup {call.dbc} /\ call.dbc \notin joined /\ session \subseteq Dbcs
    BY <1>1, <1>2 DEF IInv, Sessions, TypeOK
  <2>2. \/ joined' = joined \cup {call.dbc} /\ session' = session
        \/ session' = session \ {call.dbc} /\ joined' = joined
    BY DEF VerifyEnds
  <2> QED  BY <2>1, <2>2
<1>6. /\ diag' = Post(Wipe(diag, {}), call.dbc, number, rc)
      /\ told' = Post(told, call.dbc, number, rc)
  BY <1>3, <1>4 DEF Returns
<1> QED  BY <1>1, <1>2, <1>5, <1>6, EndKeeps

LEMMA VersionEndsKeeps ==
  ASSUME IInv, VersionEnds
  PROVE  IInv'
<1>1. /\ call.op = "version" /\ call.at = "copy" /\ Deallocate(call.stmt) /\ call' = NoCall
      /\ UNCHANGED <<session, given, joined>>
  BY DEF VersionEnds
<1>2. ~Idle
  BY <1>1, NotIdle
<1>3. call.rc \in ReturnCodes /\ call.dbc \in Dbcs
  BY <1>2, Working
<1>4. Copied(call.dbc, call.stmt) = Failures(call.rc) /\ Failures(call.rc) \in Nat
  <2>1. diag[call.dbc].number = 0 /\ diag[call.stmt].number = Failures(call.rc)
    BY <1>1, <1>2 DEF IInv, Diagnosed, Clean
  <2> QED  BY <2>1 DEF Copied, Failures
<1>5. session' = joined' /\ joined' \subseteq Dbcs
  BY <1>1 DEF IInv, Sessions, TypeOK
<1>6. /\ diag' = Post(Wipe(diag, Dies(call.stmt)), call.dbc, Failures(call.rc), call.rc)
      /\ told' = Post(told, call.dbc, Failures(call.rc), call.rc)
  BY <1>4 DEF VersionEnds, Failures
<1> QED  BY <1>1, <1>2, <1>3, <1>4, <1>5, <1>6, EndKeeps

LEMMA StepKeeps ==
  ASSUME IInv, NEW from, NEW to \in {"fetch", "data", "copy"}, NEW number \in Nat,
         NEW rc \in ReturnCodes, to = "copy" => number = Failures(rc),
         Step(from, to, number, rc)
  PROVE  IInv'
<1>1. /\ call.op = "version"
      /\ diag' = Post(diag, call.stmt, number, rc)
      /\ call' = [call EXCEPT !.at = to, !.rc = rc]
      /\ UNCHANGED <<live, parent, registry, owned, explicit, session, given, joined, told>>
  BY DEF Step
<1>2. ~Idle
  BY <1>1, NotIdle
<1>3. /\ call \in [op : {"connect", "version"}, dbc : Dbcs, stmt : Stmts,
                   at : {"execute", "fetch", "data", "copy"}, rc : ReturnCodes]
      /\ call.dbc \in Dbcs \cap live /\ call.stmt \in Stmts \cap live /\ call.dbc # call.stmt
  BY <1>2, Working
<1>4. /\ call' \in [op : {"connect", "version"}, dbc : Dbcs, stmt : Stmts,
                    at : {"execute", "fetch", "data", "copy"}, rc : ReturnCodes]
      /\ call'.op = "version" /\ call'.dbc = call.dbc /\ call'.stmt = call.stmt
      /\ call'.at = to /\ call'.rc = rc
  BY <1>1, <1>3
<1>5. ~Idle'
  BY <1>4 DEF Idle, NoCall
<1>6. call.stmt \in Objects /\ call.stmt \notin Implicits
  BY <1>3, Kinds DEF Objects
<1>7. /\ diag' \in [Objects -> Diag]
      /\ diag'[call.stmt] = [number |-> number, rc |-> rc]
      /\ \A q \in Objects \ {call.stmt} : diag'[q] = diag[q]
  BY <1>1, <1>6, Posting DEF IInv, TypeOK
<1>8. TreeTypes' /\ Tree'
  BY <1>1, SameTree DEF IInv
<1>9. RestTypes'
  BY <1>1, <1>4, <1>7 DEF IInv, TypeOK, RestTypes
<1>10. Held' /\ Sessions'
  BY <1>1, <1>2, <1>4, <1>5 DEF IInv, Held, Sessions
<1>11. Diagnosed'
  <2>1. live \subseteq Objects /\ Implicits \subseteq Objects
    BY Kinds DEF IInv, TypeOK, Objects
  <2>2. \A q \in (Objects \ live') \cup Implicits : Silent(q)'
    BY <1>1, <1>3, <1>6, <1>7, <2>1 DEF IInv, Diagnosed, Silent
  <2>3. \A q \in live' : q \notin {call'.dbc, call'.stmt} => diag'[q] = told'[q]
    BY <1>1, <1>2, <1>4, <1>7, <2>1 DEF IInv, Diagnosed
  <2>4. diag'[call.dbc] = Clean /\ told'[call.stmt] = Clean
    BY <1>1, <1>2, <1>3, <1>7, <2>1 DEF IInv, Diagnosed
  <2>5. to = "copy" => diag'[call.stmt].number = Failures(rc)
    BY <1>7
  <2> QED  BY <1>4, <1>5, <2>2, <2>3, <2>4, <2>5 DEF Diagnosed
<1> QED  BY <1>8, <1>9, <1>10, <1>11, TypesArePartsNext DEF IInv

-----------------------------------------------------------------------------
(***************************************************************************)
(* The invariant and the properties                                        *)
(***************************************************************************)

LEMMA InitHolds ==
  ASSUME Init
  PROVE  IInv
<1>1. TypeOK
  BY DEF Init, TypeOK, Diag, Clean, ReturnCodes, Owners, AppRoles
<1>2. Tree
  BY DEF Init, Tree, Rooted, MapsHoldChildren, ChildrenAreHeld, Paired, Referred
<1>3. Held /\ Sessions /\ Diagnosed
  BY Kinds DEF Init, Held, Sessions, Diagnosed, Silent, Idle, Objects
<1> QED  BY <1>1, <1>2, <1>3 DEF IInv

LEMMA AllocationsKeep ==
  ASSUME IInv,
         \/ \E e \in Envs, c \in Dbcs : AllocConnect(e, c)
         \/ \E c \in Dbcs, s \in Stmts : AllocStmt(c, s)
         \/ \E c \in Dbcs, d \in Descs : AllocDesc(c, d)
  PROVE  IInv'
<1>1. ASSUME NEW p \in Envs \cup Dbcs, p \in given, Idle
      PROVE  p \in live /\ p \in Owners
  BY <1>1 DEF IInv, Held, Owners
<1>2. ASSUME NEW e \in Envs, NEW c \in Dbcs, AllocConnect(e, c)
      PROVE  IInv'
  <2>1. Grows(c, e, {c})
    BY <1>1, <1>2, Kinds DEF AllocConnect, Alloc, Grows, ParentOf
  <2> QED  BY <1>2, <2>1, AllocKeeps DEF AllocConnect
<1>3. ASSUME NEW c \in Dbcs, NEW s \in Stmts, AllocStmt(c, s)
      PROVE  IInv'
  <2>1. Grows(s, c, NewStatement(s))
    BY <1>1, <1>3, Kinds DEF AllocStmt, Alloc, Grows, ParentOf
  <2> QED  BY <1>3, <2>1, AllocKeeps DEF AllocStmt
<1>4. ASSUME NEW c \in Dbcs, NEW d \in Descs, AllocDesc(c, d)
      PROVE  IInv'
  <2>1. Grows(d, c, {d})
    BY <1>1, <1>4, Kinds DEF AllocDesc, Alloc, Grows, ParentOf
  <2> QED  BY <1>4, <2>1, AllocKeeps DEF AllocDesc
<1> QED  BY <1>2, <1>3, <1>4

LEMMA OwnKeeps ==
  ASSUME IInv, Own
  PROVE  IInv'
<1>1. CASE VerifyEnds(TRUE) \/ VerifyEnds(FALSE)
  BY <1>1, VerifyEndsKeeps
<1>2. CASE Execute \/ FetchRow \/ TakeValue
  <2>1. PICK from \in {"execute", "fetch", "data"}, to \in {"fetch", "data", "copy"},
             number \in {0, 1}, rc \in ReturnCodes :
          Step(from, to, number, rc) /\ (to = "copy" => number = Failures(rc))
    BY <1>2 DEF Execute, FetchRow, TakeValue, ReturnCodes, Failures
  <2> QED  BY <2>1, StepKeeps
<1>3. CASE VersionEnds
  BY <1>3, VersionEndsKeeps
<1> QED  BY <1>1, <1>2, <1>3 DEF Own

LEMMA NextKeeps ==
  ASSUME IInv, [Next]_vars
  PROVE  IInv'
<1>1. CASE \E o \in Objects \ Implicits : Use(o)
  BY <1>1, UseKeeps
<1>2. CASE \E e \in Envs : AllocEnv(e)
  BY <1>2, AllocEnvKeeps
<1>3. CASE \/ \E e \in Envs, c \in Dbcs : AllocConnect(e, c)
           \/ \E c \in Dbcs, s \in Stmts : AllocStmt(c, s)
           \/ \E c \in Dbcs, d \in Descs : AllocDesc(c, d)
  BY <1>3, AllocationsKeep
<1>4. CASE (\E h \in Objects : FreeHandle(h)) \/ (\E s \in Stmts : DropStmt(s))
  BY <1>4, FreeHandleKeeps DEF DropStmt, Objects
<1>5. CASE \E s \in Stmts, r \in Roles, d \in Descriptors \cup {None} : SetDescriptor(s, r, d)
  BY <1>5, SetDescriptorKeeps
<1>6. CASE \E c \in Dbcs : Connect(c) \/ Disconnect(c) \/ GetServerVersion(c)
  BY <1>6, ConnectKeeps, DisconnectKeeps, GetServerVersionKeeps
<1>7. CASE Own
  BY <1>7, OwnKeeps
<1>8. CASE UNCHANGED vars
  <2>1. TreeTypes' /\ Tree'
    BY <1>8, SameTree DEF IInv, vars
  <2>2. RestTypes'
    BY <1>8 DEF IInv, TypeOK, RestTypes, vars
  <2>3. Held' /\ Sessions' /\ Diagnosed'
    BY <1>8 DEF IInv, Held, Sessions, Diagnosed, Silent, Idle, vars
  <2> QED  BY <2>1, <2>2, <2>3, TypesArePartsNext DEF IInv
<1> QED  BY <1>1, <1>2, <1>3, <1>4, <1>5, <1>6, <1>7, <1>8 DEF Next

\* The invariant holds in every reachable state.
THEOREM Invariance == Spec => []IInv
<1>1. Init => IInv
  BY InitHolds
<1>2. IInv /\ [Next]_vars => IInv'
  BY NextKeeps
<1> QED  BY <1>1, <1>2, PTL DEF Spec

\* Type correctness of the handles, the maps and the diagnostics.
THEOREM HandlesTypeCorrect == Spec => []TypeOK
<1>1. IInv => TypeOK
  BY DEF IInv
<1> QED  BY <1>1, Invariance, PTL

\* The registry never holds a freed object and no object outlives its parent, however
\* the application frees them (Child::~Child, deallocateSelf).
THEOREM RegistryStaysLive == Spec => []RegistryIsLive
<1>1. IInv => RegistryIsLive
  <2> SUFFICES ASSUME IInv
               PROVE  RegistryIsLive
    OBVIOUS
  <2>1. ~Idle => call.dbc \in live /\ call.stmt \in live
    BY Working
  <2> QED  BY <2>1 DEF IInv, Tree, Rooted, RegistryIsLive
<1> QED  BY <1>1, Invariance, PTL

\* Nothing is left behind by a call, whether it succeeds or fails (verifyConnection,
\* getServerVersion, Connection::connect).
THEOREM NothingIsLeaked == Spec => []NothingLeaks
<1>1. IInv => NothingLeaks
  <2> SUFFICES ASSUME IInv, Idle
               PROVE  /\ live = given \cup (UNION {Implicit(s) : s \in given \cap Stmts})
                      /\ session = joined
    BY DEF NothingLeaks
  <2>1. session = joined
    BY DEF IInv, Sessions
  <2>2. live \ Implicits = given
    BY DEF IInv, Held
  <2>3. ASSUME NEW o \in live, o \in Implicits
        PROVE  o \in UNION {Implicit(s) : s \in given \cap Stmts}
    <3>1. PICK s \in Stmts, r \in Roles : o = <<s, r>>
      BY <2>3 DEF Implicits
    <3>2. s \in given
      BY <2>2, <2>3, <3>1, Kinds DEF IInv, Tree, Paired
    <3> QED  BY <3>1, <3>2 DEF Implicit
  <2>4. ASSUME NEW s \in given \cap Stmts, NEW r \in Roles
        PROVE  <<s, r>> \in live
    BY <2>2 DEF IInv, Tree, Paired
  <2>5. \A o \in UNION {Implicit(s) : s \in given \cap Stmts} : o \in live
    BY <2>4 DEF Implicit
  <2> QED  BY <2>1, <2>2, <2>3, <2>5
<1> QED  BY <1>1, Invariance, PTL

\* Every statement works with a live descriptor of its own connection, whatever was
\* freed, implicit descriptors included (choose, setExplicit, freeHandle).
THEOREM DescriptorsStayUsable == Spec => []DescriptorsAreUsable
<1>1. IInv => DescriptorsAreUsable
  BY DEF IInv, Tree, Paired, Referred, DescriptorsAreUsable, Effective, AppRoles
<1> QED  BY <1>1, Invariance, PTL

\* Between calls the diagnostics of every object are those of the last call on it that
\* keeps them (Driver::call, copyDiagnosticsRecords).
THEOREM DiagnosticsAreTold == Spec => []DiagnosticsTellLastCall
<1>1. IInv => DiagnosticsTellLastCall
  BY DEF IInv, Diagnosed, DiagnosticsTellLastCall
<1> QED  BY <1>1, Invariance, PTL
=============================================================================
