------------------------- MODULE ParameterBindings -------------------------
(***************************************************************************)
(* Parameters between SQLBindParameter and the request: statements of one  *)
(* connection, each with its own implementation parameter descriptor (IPD) *)
(* and an implicit application parameter descriptor (APD), and APDs that   *)
(* the application allocates and may set for several statements.           *)
(*                                                                         *)
(* A call finds the APD in effect through a weak pointer, so freeing the   *)
(* explicit one makes its statements fall back to their implicit ones.     *)
(* What is sent for a parameter is found by position from both descriptors *)
(* and the number of parameters of the query; `bindings' remembers what    *)
(* the application asked for, and the properties compare the two.          *)
(*                                                                         *)
(* Only input parameters with their data in a buffer are modelled: for any *)
(* other the request is refused.  Numbers of bytes matter only as strides. *)
(***************************************************************************)
EXTENDS DescriptorRecords, Integers

CONSTANTS Statements,       \* statements of the connection
          Explicits,        \* descriptors the application may allocate
          Buffers,          \* buffers that hold an array of values each
          Lengths,          \* values of BufferLength
          TypePairs,        \* <<ValueType, ParameterType>> of bind calls
          BindTypes,        \* SQL_DESC_BIND_TYPE: 0 by column, else the size of a row
          LastSet           \* bound on the index of a parameter set

ASSUME ExplicitsAssumption ==
    Explicits \cap Statements = {} /\ None \notin Explicits \cup Buffers
ASSUME LengthsAssumption == Lengths \subseteq Int
ASSUME BindTypesAssumption == BindTypes \subseteq Nat /\ 0 \in BindTypes
ASSUME LastSetAssumption == LastSet \in Nat

VARIABLES
    apd,          \* application parameter descriptors, the implicit ones by statement
    bindType,     \* SQL_DESC_BIND_TYPE of each
    allocated,    \* explicit descriptors that exist
    explicit_apd, \* weak pointer of each statement to one of them
    ipd,          \* implementation parameter descriptor of each statement
    parameters,   \* Statement::parameters: how many the query has
    is_prepared,
    bindings,     \* history: what the application last asked for, by APD and number
    exchanged     \* history: statements whose APD was ever set

vars == <<apd, bindType, allocated, explicit_apd, ipd, parameters, is_prepared, bindings, exchanged>>

Descriptors == Statements \cup Explicits
CTypes == {"default", "long", "char", "interval"}
SqlTypes == {"unknown", "integer", "varchar", "interval"}

ASSUME TypePairsAssumption == TypePairs \subseteq CTypes \X (SqlTypes \ {"unknown"})

AppRecords == [type : CTypes, data : Buffers \cup {None}, indicator : BOOLEAN, octets : Nat]
ImpRecords == [type : SqlTypes]
Bindings == [kind : {"none", "bound", "failed"}, data : Buffers \cup {None},
             type : CTypes, sql : SqlTypes, width : Int]
NotBound == [kind |-> "none", data |-> None, type |-> "default", sql |-> "unknown", width |-> 0]

Init ==
    /\ apd = [d \in Descriptors |-> NoRecords(FreshAppRecord)]
    /\ bindType = [d \in Descriptors |-> 0]
    /\ allocated = {}
    /\ explicit_apd = [s \in Statements |-> None]
    /\ ipd = [s \in Statements |-> NoRecords(FreshImpRecord)]
    /\ parameters = [s \in Statements |-> 0]
    /\ is_prepared = [s \in Statements |-> FALSE]
    /\ bindings = [d \in Descriptors |-> [n \in Numbers |-> NotBound]]
    /\ exchanged = {}

-----------------------------------------------------------------------------
(***************************************************************************)
(* Descriptors in effect                                                   *)
(***************************************************************************)

\* getEffectiveDescriptor(): the explicit descriptor while its weak pointer locks.
Effective(s) == IF explicit_apd[s] \in allocated THEN explicit_apd[s] ELSE s

\* A descriptor object without records: one that was created, or is gone.
Blank(d) ==
    /\ apd' = [apd EXCEPT ![d] = NoRecords(FreshAppRecord)]
    /\ bindType' = [bindType EXCEPT ![d] = 0]
    /\ bindings' = [bindings EXCEPT ![d] = [n \in Numbers |-> NotBound]]

\* SQLAllocHandle(SQL_HANDLE_DESC): a new object, which no weak pointer refers to.
AllocDescriptor(d) ==
    /\ d \notin allocated
    /\ allocated' = allocated \cup {d}
    /\ explicit_apd' = [s \in Statements |-> IF explicit_apd[s] = d THEN None ELSE explicit_apd[s]]
    /\ Blank(d)
    /\ UNCHANGED <<ipd, parameters, is_prepared, exchanged>>

\* SQLFreeHandle(SQL_HANDLE_DESC): the weak pointers of the statements expire.
FreeDescriptor(d) ==
    /\ d \in allocated
    /\ allocated' = allocated \ {d}
    /\ Blank(d)
    /\ UNCHANGED <<explicit_apd, ipd, parameters, is_prepared, exchanged>>

\* SQLSetStmtAttr(SQL_ATTR_APP_PARAM_DESC): a descriptor, or a null handle.
SetDescriptor(s) ==
    /\ \E d \in (allocated \cup {None}) \ {explicit_apd[s]} :
          explicit_apd' = [explicit_apd EXCEPT ![s] = d]
    /\ exchanged' = exchanged \cup {s}
    /\ UNCHANGED <<apd, bindType, allocated, ipd, parameters, is_prepared, bindings>>

\* SQLSetStmtAttr(SQL_ATTR_PARAM_BIND_TYPE).
SetBindType(s) ==
    /\ \E b \in BindTypes \ {bindType[Effective(s)]} :
          bindType' = [bindType EXCEPT ![Effective(s)] = b]
    /\ UNCHANGED <<apd, allocated, explicit_apd, ipd, parameters, is_prepared, bindings, exchanged>>

-----------------------------------------------------------------------------
(***************************************************************************)
(* SQLBindParameter                                                        *)
(***************************************************************************)

\* convertSQLTypeToCType().
ToCType(sql) == CASE sql = "integer" -> "long"
                  [] sql = "varchar" -> "char"
                  [] sql = "interval" -> "interval"

\* The C type of a bind call.
ValueType(pair) == IF pair[1] = "default" THEN ToCType(pair[2]) ELSE pair[1]

\* getCTypeOctetLength(), which throws for the interval types.
OctetLength(type) == 4

\* The octet length the call stores comes from the C type that suits the SQL
\* type, not from the C type of the buffer.
Octets(pair, len) == IF ToCType(pair[2]) = "char" THEN len ELSE OctetLength(ToCType(pair[2]))

AcceptsAnyLength(pair, len) ==  \* mutation of BindThrows
    ToCType(pair[2]) = "interval"
BindThrows(pair, len) ==
    \/ ToCType(pair[2]) = "char" /\ len < 0
    \/ ToCType(pair[2]) = "interval"

\* The size of an element of the application's array.
Width(pair, len) == IF ValueType(pair) = "char" THEN len ELSE OctetLength(ValueType(pair))

\* Unbinding the highest bound parameter: the count falls to the next one below.
JustOneLess(desc, num, top) ==  \* mutation of NextHighestBound
    top = Smaller(desc.count, num - 1)
NextHighestBound(desc, num, top) ==
    /\ top <= Smaller(desc.count, num - 1)
    /\ top # 0 => IsBound(desc.records[top])
    /\ \A n \in Numbers : top < n /\ n <= Smaller(desc.count, num - 1) => ~IsBound(desc.records[n])

Unbind(s, num) ==
    LET d == Effective(s) IN
    /\ \E top \in 0..MaxParameters :
          /\ NextHighestBound(apd[d], num, top)
          /\ apd' = [apd EXCEPT ![d] = SetCount(@, top)]
    /\ bindings' = [bindings EXCEPT ![d][num] = NotBound]
    /\ UNCHANGED ipd

\* Everything the try block does before a statement of it can throw.
TypesSet(s, num, pair) ==
    LET a == GetRecord(apd[Effective(s)], num, FreshAppRecord)
        i == GetRecord(ipd[s], num, FreshImpRecord)
    IN [app |-> [a EXCEPT !.records[num] = SetConciseType(@, ValueType(pair))],
        imp |-> [i EXCEPT !.records[num].type = pair[2]]]

BindSucceeds(s, num, pair, len, data, indicator) ==
    LET d == Effective(s)
        set == TypesSet(s, num, pair)
    IN /\ ~BindThrows(pair, len)
       /\ apd' = [apd EXCEPT ![d] =
                    [set.app EXCEPT !.records[num] =
                       [@ EXCEPT !.octets = Octets(pair, len),
                                 !.indicator = indicator, !.data = data]]]
       /\ ipd' = [ipd EXCEPT ![s] = set.imp]
       /\ bindings' = [bindings EXCEPT ![d][num] =
                         IF data = None /\ ~indicator THEN NotBound
                         ELSE [kind |-> "bound", data |-> data, type |-> ValueType(pair),
                               sql |-> pair[2], width |-> Width(pair, len)]]

\* The catch block restores the counts, and nothing else.
BindFails(s, num, pair, len) ==
    LET d == Effective(s)
        set == TypesSet(s, num, pair)
    IN /\ BindThrows(pair, len)
       /\ apd' = [apd EXCEPT ![d] = SetCount(set.app, @.count)]
       /\ ipd' = [ipd EXCEPT ![s] = SetCount(set.imp, @.count)]
       /\ bindings' = [bindings EXCEPT ![d][num] =
                         IF num <= apd[d].count THEN [@ EXCEPT !.kind = "failed"] ELSE @]

BindParameter(s) ==
    /\ \E num \in Numbers, pair \in TypePairs, len \in Lengths,
          data \in Buffers \cup {None}, indicator \in BOOLEAN :
          LET unbinds == data = None /\ ~indicator /\ num >= apd[Effective(s)].count IN
          \/ unbinds /\ Unbind(s, num)
          \/ ~unbinds /\ BindSucceeds(s, num, pair, len, data, indicator)
          \/ ~unbinds /\ BindFails(s, num, pair, len)
    /\ UNCHANGED <<bindType, allocated, explicit_apd, parameters, is_prepared, exchanged>>

\* SQLFreeStmt(SQL_RESET_PARAMS).
ResetParams(s) ==
    /\ apd' = [apd EXCEPT ![Effective(s)] = SetCount(@, 0)]
    /\ bindings' = [bindings EXCEPT ![Effective(s)] = [n \in Numbers |-> NotBound]]
    /\ UNCHANGED <<bindType, allocated, explicit_apd, ipd, parameters, is_prepared, exchanged>>

-----------------------------------------------------------------------------
(***************************************************************************)
(* SQLPrepare, and what is sent                                            *)
(***************************************************************************)

\* The IPD keeps the records that bind calls may have changed ...
ResetsAll(s) ==  \* mutation of KeptRecords
    SetCount(ipd[s], 0)
KeptRecords(s) == SetCount(ipd[s], Smaller(ipd[s].count, apd[Effective(s)].count))

\* ... and gets fresh ones for the other parameters of the query.
RecordsFor(s, num) ==
    IF KeptRecords(s).count < num THEN GetRecord(KeptRecords(s), num, FreshImpRecord)
    ELSE KeptRecords(s)

\* extractParametersinfo() finds `num' parameters in the query.
Prepare(s) ==
    /\ \E num \in 0..MaxParameters :
          /\ ipd' = [ipd EXCEPT ![s] = RecordsFor(s, num)]
          /\ parameters' = [parameters EXCEPT ![s] = num]
    /\ is_prepared' = [is_prepared EXCEPT ![s] = TRUE]
    /\ UNCHANGED <<apd, bindType, allocated, explicit_apd, bindings, exchanged>>

\* It throws at an '@' without a name, after `num' parameters.
PrepareFails(s) ==
    /\ ipd' = [ipd EXCEPT ![s] = KeptRecords(s)]
    /\ \E num \in 0..MaxParameters : parameters' = [parameters EXCEPT ![s] = num]
    /\ is_prepared' = [is_prepared EXCEPT ![s] = FALSE]
    /\ UNCHANGED <<apd, bindType, allocated, explicit_apd, bindings, exchanged>>

\* getParamsBindingInfo(): parameters with a record in both descriptors.
FullyBound(s) == 1..Smaller(apd[Effective(s)].count, ipd[s].count)

\* The distance between the values of two sets in a buffer.
AlwaysByColumn(d, num) ==  \* mutation of Stride
    apd[d].records[num].octets
Stride(d, num) ==
    IF bindType[d] = 0 THEN apd[d].records[num].octets ELSE bindType[d]

\* prepareHttpRequest() reads the value of parameter num for set k, if the
\* indicator does not say SQL_NULL_DATA, or sends a null.
Reads(s, num) == num \in FullyBound(s) /\ apd[Effective(s)].records[num].data # None

Value(s, num, k) ==
    LET d == Effective(s)
        rec == apd[d].records[num]
    IN [data |-> rec.data, type |-> rec.type, sql |-> ipd[s].records[num].type,
        offset |-> k * Stride(d, num)]

Next ==
    \/ \E d \in Explicits : AllocDescriptor(d) \/ FreeDescriptor(d)
    \/ \E s \in Statements :
          \/ SetDescriptor(s)
          \/ SetBindType(s)
          \/ BindParameter(s)
          \/ ResetParams(s)
          \/ Prepare(s)
          \/ PrepareFails(s)

Spec == Init /\ [][Next]_vars

-----------------------------------------------------------------------------
(***************************************************************************)
(* Properties                                                              *)
(***************************************************************************)

TypeOK ==
    /\ apd \in [Descriptors -> DescriptorsOf(AppRecords)]
    /\ bindType \in [Descriptors -> BindTypes]
    /\ allocated \subseteq Explicits
    /\ explicit_apd \in [Statements -> Explicits \cup {None}]
    /\ ipd \in [Statements -> DescriptorsOf(ImpRecords)]
    /\ parameters \in [Statements -> 0..MaxParameters]
    /\ is_prepared \in [Statements -> BOOLEAN]
    /\ exchanged \subseteq Statements
    /\ bindings \in [Descriptors -> [Numbers -> Bindings]]

\* The parameters a prepared statement would send.
Sent(s) == IF is_prepared[s] THEN 1..parameters[s] ELSE {}

\* What the application asked for in the descriptor it set and did not free.
Asked(s, num) ==
    bindings[IF explicit_apd[s] \in allocated THEN explicit_apd[s] ELSE s][num]

\* SQLBindParameter and prepareHttpRequest(): a parameter of the query is read from
\* the buffer that was last bound to it in the descriptor in effect, and a
\* parameter that is not bound, or no longer, is sent as a null: whatever was
\* bound, unbound, reset, prepared or exchanged before.
RequestCarriesBindings ==
    \A s \in Statements : \A num \in Sent(s) :
       /\ Asked(s, num).kind = "none" => ~Reads(s, num)
       /\ Asked(s, num).kind = "bound" =>
             /\ Reads(s, num) <=> Asked(s, num).data # None
             /\ Reads(s, num) => Value(s, num, 0).data = Asked(s, num).data

\* setAttr(SQL_DESC_CONCISE_TYPE) clears the data pointer: also after a bind call
\* that failed half-way, a buffer is only ever read as the C type it was bound
\* with.
BufferKeepsItsType ==
    \A s \in Statements : \A num \in Sent(s) :
       Reads(s, num) =>
          /\ Asked(s, num).kind # "none"
          /\ Value(s, num, 0).data = Asked(s, num).data
          /\ Value(s, num, 0).type = Asked(s, num).type

\* extractParametersinfo() preserves the records of the IPD that bind calls changed
\* and are still relevant: a value is sent as the SQL type it was bound with.
\* The IPD stays with the statement, so this holds until the APD is exchanged.
SqlTypeIsKept ==
    \A s \in Statements \ exchanged : \A num \in Sent(s) :
       Asked(s, num).kind = "bound" /\ Reads(s, num) =>
          Value(s, num, 0).sql = Asked(s, num).sql

\* SQLBindParameter adjusts SQL_DESC_COUNT when the highest bound parameter is
\* unbound: the last parameter it counts is bound, unless binding it failed.
CountIsHighestBound ==
    \A d \in Descriptors : apd[d].count > 0 =>
       \/ IsBound(apd[d].records[apd[d].count])
       \/ bindings[d][apd[d].count].kind = "failed"

\* getParamsBindingInfo(): set k of an array reads element k of each bound array.
\* statement_parameter_bindings_it.cpp:336 binds an array of integers with the
\* BufferLength 0 and expects element i as the result of set i.
SetReadsItsElement ==
    \A s \in Statements : \A num \in Sent(s) : \A k \in 0..LastSet :
       Asked(s, num).kind = "bound" /\ Reads(s, num) =>
          Value(s, num, k).offset =
             k * (IF bindType[Effective(s)] = 0 THEN Asked(s, num).width
                  ELSE bindType[Effective(s)])

=============================================================================
