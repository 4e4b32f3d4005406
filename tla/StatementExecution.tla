------------------------- MODULE StatementExecution -------------------------
(***************************************************************************)
(* The execution half of an ODBC statement (src/driver/statement.cpp): the *)
(* flags is_prepared / is_executed / is_forward_executed, the array of     *)
(* parameter sets that SQLExecute sends one HTTP request per set, the      *)
(* redirect loop of one set, and the response and result reader it leaves  *)
(* behind for SQLFetch and SQLMoreResults.                                 *)
(*                                                                         *)
(* A call that talks to the server is a stack frame (`call', `at' and the  *)
(* locals of executeQuery): BeginExecute, ExecDirect, NumResultCols and    *)
(* MoreResults push it, RequestPack and one action per outcome of an HTTP  *)
(* attempt advance it, Returned and Failed pop it.  A statement is used by *)
(* one thread, so the application acts only while the frame is empty.      *)
(***************************************************************************)
EXTENDS Integers, FiniteSets

CONSTANTS
  ParamsetSizes,  \* values of SQL_ATTR_PARAMSET_SIZE the application sets
  MaxSets,        \* the largest of them
  RedirectLimit,  \* Connection::redirect_limit
  MaxRuns,        \* bound: times one set may be run before the application gives up
  MaxBatches      \* bound: executions between two closings of the cursor

ASSUME MaxSetsAssumption       == MaxSets \in Nat /\ ParamsetSizes \subseteq 0 .. MaxSets
ASSUME RedirectLimitAssumption == RedirectLimit \in Nat \ {0}
ASSUME BoundsAssumption        == MaxRuns \in Nat /\ MaxBatches \in Nat

VARIABLES
  session,              \* connection.session is not null
  arraySize,            \* SQL_DESC_ARRAY_SIZE of the effective APD
  processed,            \* *SQL_DESC_ROWS_PROCESSED_PTR of the IPD
  status,               \* the array SQL_DESC_ARRAY_STATUS_PTR of the IPD points to
  is_prepared, is_executed, is_forward_executed,
  next_param_set_idx,
  response,             \* the HttpResponse object exists
  result_reader,        \* the ResultReader and the mutator it (or its result set) holds
  query_id,             \* query_id is not empty
  call,                 \* the API call on the stack
  at,                   \* where it is: before a request, or in the redirect loop
  mutator,              \* the ResultMutator travelling with the call
  limit,                \* executeQuery's param_set_array_size
  redirect_count,
  runs,                 \* history: times the server ran each set of this execution
  completed, claimed,   \* history: executions finished / reported by SQLExecute since closeCursor
  sized,                \* history: the array size this execution began with
  wanted, over          \* history: this execution began with a mutator / failed or ran out of sets

Sets     == 0 .. MaxSets - 1
Statuses == {"stale", "SQL_PARAM_UNUSED", "SQL_PARAM_SUCCESS", "SQL_PARAM_ERROR"}
Readers  == [kind : {"none", "empty", "open"}, mutator : BOOLEAN]
NoReader == [kind |-> "none", mutator |-> FALSE]
Calls    == {"execute", "forward", "more"}

flags   == <<is_prepared, is_executed, is_forward_executed>>
objects == <<response, result_reader, query_id>>
report  == <<processed, status, next_param_set_idx>>
frame   == <<call, at, mutator, limit, redirect_count>>
history == <<runs, completed, claimed, sized, wanted, over>>
vars    == <<session, arraySize, flags, objects, report, frame, history>>

HasResultSet == result_reader.kind = "open"

SetsRemainOffByOne == next_param_set_idx <= arraySize  \* mutation of SetsRemain
SetsRemain == next_param_set_idx < arraySize

Init ==
  /\ session = TRUE /\ arraySize \in ParamsetSizes
  /\ processed = 0 /\ status = [i \in Sets |-> "stale"]
  /\ is_prepared = FALSE /\ is_executed = FALSE /\ is_forward_executed = FALSE
  /\ next_param_set_idx = 0
  /\ response = FALSE /\ result_reader = NoReader /\ query_id = FALSE
  /\ call = "none" /\ at = "idle" /\ mutator = FALSE /\ limit = 0 /\ redirect_count = 0
  /\ runs = [i \in Sets |-> 0] /\ completed = 0 /\ claimed = 0
  /\ sized = 0 /\ wanted = FALSE /\ over = FALSE

(***************************************************************************)
(* Leaving a call.                                                         *)
(***************************************************************************)
PopFrame ==
  /\ call' = "none" /\ at' = "idle" /\ mutator' = FALSE
  /\ limit' = 0 /\ redirect_count' = 0

\* executeQuery falls through to is_executed = true, forwardExecuteQuery then
\* sets its own flag; SQLMoreResults sets neither.
SetExecuted ==
  /\ is_executed' = IF call = "more" THEN is_executed ELSE TRUE
  /\ is_forward_executed' = IF call = "forward" THEN TRUE ELSE is_forward_executed

Returned ==
  /\ PopFrame
  /\ SetExecuted
  /\ completed' = IF call = "more" THEN completed ELSE completed + 1
  /\ claimed' = IF call = "execute" THEN claimed + 1 ELSE claimed
  /\ UNCHANGED <<is_prepared, sized, wanted>>

\* An exception leaves requestNextPackOfResultSets: the set it was sending is
\* marked and every flag keeps the value it had before the call.
Failed ==
  /\ PopFrame
  /\ status' = [status EXCEPT ![next_param_set_idx] = "SQL_PARAM_ERROR"]
  /\ over' = TRUE
  /\ UNCHANGED <<flags, next_param_set_idx, completed, claimed, sized, wanted>>

(***************************************************************************)
(* Calls of the application.                                               *)
(***************************************************************************)
Idle == call = "none"

CloseCursorKeepsReader ==  \* mutation of CloseCursor: the reader outlives the response
  /\ response' = FALSE /\ query_id' = FALSE
  /\ is_executed' = FALSE /\ is_forward_executed' = FALSE
  /\ completed' = 0 /\ claimed' = 0
  /\ UNCHANGED result_reader

CloseCursor ==
  /\ result_reader' = NoReader /\ response' = FALSE /\ query_id' = FALSE
  /\ is_executed' = FALSE /\ is_forward_executed' = FALSE
  /\ completed' = 0 /\ claimed' = 0

\* SQLCloseCursor, SQLCancel and SQLFreeStmt(SQL_CLOSE).
Close ==
  /\ Idle
  /\ CloseCursor
  /\ UNCHANGED <<session, arraySize, is_prepared, report, frame, runs, sized, wanted, over>>

\* SQLPrepare; extractParametersinfo throws 42000 at a nameless '@' and leaves
\* the statement unprepared.
Prepare(ok) ==
  /\ Idle
  /\ CloseCursor
  /\ is_prepared' = ok
  /\ UNCHANGED <<session, arraySize, report, frame, runs, sized, wanted, over>>

ResetReportKeepsIndex ==  \* mutation of ResetReport: goes on where the last execution was
  /\ processed' = 0
  /\ status' = [i \in Sets |-> IF i < arraySize THEN "SQL_PARAM_UNUSED" ELSE status[i]]
  /\ UNCHANGED next_param_set_idx

ResetReport ==
  /\ processed' = 0
  /\ next_param_set_idx' = 0
  /\ status' = [i \in Sets |-> IF i < arraySize THEN "SQL_PARAM_UNUSED" ELSE status[i]]

\* executeQuery up to its first requestNextPackOfResultSets.
StartBatch(kind, m) ==
  /\ ResetReport
  /\ call' = kind /\ at' = "pack" /\ mutator' = m /\ limit' = arraySize /\ redirect_count' = 0
  /\ runs' = [i \in Sets |-> 0] /\ sized' = arraySize /\ wanted' = m /\ over' = FALSE
  /\ UNCHANGED <<session, arraySize>>

\* SQLExecute of a statement that was not executed ahead of time.
BeginExecute ==
  /\ Idle /\ is_prepared /\ ~(is_executed /\ is_forward_executed)
  /\ completed < MaxBatches
  /\ StartBatch("execute", FALSE)
  /\ UNCHANGED <<flags, objects, completed, claimed>>

ClearsNothing == UNCHANGED is_forward_executed  \* mutation of ClearForwarded
ClearForwarded == is_forward_executed' = FALSE

\* SQLExecute after SQLNumResultCols executed the query: it only takes over.
ClaimForwarded ==
  /\ Idle /\ is_prepared /\ is_executed /\ is_forward_executed
  /\ ClearForwarded
  /\ claimed' = claimed + 1
  /\ UNCHANGED <<session, arraySize, is_prepared, is_executed, objects, report, frame, runs,
                 completed, sized, wanted, over>>

\* SQLExecDirect and the catalog functions, which may install a mutator.
ExecDirect(m) ==
  /\ Idle
  /\ CloseCursor
  /\ is_prepared' = TRUE
  /\ StartBatch("execute", m)

\* SQLNumResultCols needs the columns, so it executes the prepared query.
NumResultCols ==
  /\ Idle /\ is_prepared /\ ~is_executed
  /\ StartBatch("forward", FALSE)
  /\ UNCHANGED <<flags, objects, completed, claimed>>

LoseMutator == mutator' = FALSE  \* mutation of HandOver
HandOver == mutator' = result_reader.mutator

\* SQLMoreResults: the formats carry one result set per response, so the
\* reader only gives its result set up and hands its mutator on.
MoreResults ==
  /\ Idle /\ is_executed
  /\ \A i \in Sets : runs[i] < MaxRuns
  /\ HandOver
  /\ result_reader' = IF result_reader = NoReader THEN NoReader
                      ELSE [kind |-> "empty", mutator |-> FALSE]
  /\ call' = "more" /\ at' = "pack"
  /\ UNCHANGED <<session, arraySize, flags, response, query_id, report, limit, redirect_count,
                 history>>

SetParamsetSize(n) ==
  /\ Idle
  /\ arraySize' = n
  /\ UNCHANGED <<session, flags, objects, report, frame, history>>

\* SQLDisconnect drops the session and nothing else; a new SQLConnect makes one.
Disconnect ==
  /\ Idle /\ session
  /\ session' = FALSE
  /\ UNCHANGED <<arraySize, flags, objects, report, frame, history>>

Connect ==
  /\ Idle /\ ~session
  /\ session' = TRUE
  /\ UNCHANGED <<arraySize, flags, objects, report, frame, history>>

(***************************************************************************)
(* requestNextPackOfResultSets and the first half of sendParamSet.         *)
(***************************************************************************)
DropReader == result_reader' = NoReader /\ query_id' = FALSE

\* Every set was sent already (or the array is empty).
NothingLeft ==
  /\ at = "pack" /\ ~SetsRemain
  /\ DropReader
  /\ Returned
  /\ over' = TRUE
  /\ UNCHANGED <<session, arraySize, response, report, runs>>

CountAfterwards == processed' = next_param_set_idx  \* mutation of CountProcessed
CountProcessed == processed' = next_param_set_idx + 1

\* SQLSTATE 08003; the old response is still there, its reader is not.
NoSession ==
  /\ at = "pack" /\ SetsRemain /\ ~session
  /\ DropReader
  /\ CountProcessed
  /\ Failed
  /\ UNCHANGED <<session, arraySize, response, runs>>

\* A bound value cannot be converted, or its parameter is not an input parameter.
BuildFails ==
  /\ at = "pack" /\ SetsRemain /\ session
  /\ DropReader /\ response' = FALSE
  /\ CountProcessed
  /\ Failed
  /\ UNCHANGED <<session, arraySize, runs>>

BuildRequest ==
  /\ at = "pack" /\ SetsRemain /\ session
  /\ DropReader /\ response' = FALSE
  /\ CountProcessed
  /\ at' = "http" /\ redirect_count' = 0
  /\ UNCHANGED <<session, arraySize, flags, status, next_param_set_idx, call, mutator, limit,
                 history>>

(***************************************************************************)
(* One attempt of the redirect loop, by what the server answers.  A query  *)
(* whose request was sent may have run whatever the driver gets to see.    *)
(***************************************************************************)
MayHaveRun == \E n \in {0, 1} : runs' = [runs EXCEPT ![next_param_set_idx] = @ + n]

\* The HttpResponse constructor throws: no connection, timeout, broken headers.
TransportFails ==
  /\ at = "http"
  /\ response' = FALSE
  /\ MayHaveRun
  /\ Failed
  /\ UNCHANGED <<session, arraySize, result_reader, query_id, processed>>

StartOver == at' = "pack" /\ redirect_count' = 0  \* mutation of NextAttempt
NextAttempt == at' = "http" /\ redirect_count' = redirect_count + 1

\* 307 or 308 to the same scheme: another attempt while the limit allows one.
Redirected ==
  /\ at = "http" /\ redirect_count + 1 < RedirectLimit
  /\ response' = TRUE
  /\ NextAttempt
  /\ UNCHANGED <<session, arraySize, flags, result_reader, query_id, report, call, mutator,
                 limit, history>>

\* 307 or 308 without a Location, or to another scheme.
RedirectRefused ==
  /\ at = "http"
  /\ response' = TRUE
  /\ Failed
  /\ UNCHANGED <<session, arraySize, result_reader, query_id, processed, runs>>

\* 307 or 308 once too often: the loop ends and its status is not 200.
RedirectLimitReached ==
  /\ at = "http" /\ redirect_count + 1 >= RedirectLimit
  /\ response' = TRUE /\ query_id' = TRUE
  /\ Failed
  /\ UNCHANGED <<session, arraySize, result_reader, processed, runs>>

\* Any other status: the body is read for the message and thrown.
ErrorStatus ==
  /\ at = "http"
  /\ response' = TRUE /\ query_id' = TRUE
  /\ MayHaveRun
  /\ Failed
  /\ UNCHANGED <<session, arraySize, result_reader, processed>>

ServerRan == runs' = [runs EXCEPT ![next_param_set_idx] = @ + 1]

\* 200, but the format is unknown or the column header cannot be read.
ReaderFails ==
  /\ at = "http"
  /\ response' = TRUE /\ query_id' = TRUE
  /\ ServerRan
  /\ Failed
  /\ UNCHANGED <<session, arraySize, result_reader, processed>>

Advance ==
  /\ next_param_set_idx' = next_param_set_idx + 1
  /\ status' = [status EXCEPT ![next_param_set_idx] = "SQL_PARAM_SUCCESS"]

SendsOneSet(rows) == FALSE  \* mutation of SendsMore

\* executeQuery goes on to the next set as long as none has produced a result set.
SendsMore(rows) == ~rows /\ call # "more" /\ next_param_set_idx + 1 < limit

\* 200 and a reader; `rows' tells whether the body is not empty.
Accepted(rows) ==
  /\ at = "http"
  /\ response' = TRUE /\ query_id' = TRUE
  /\ ServerRan
  /\ Advance
  /\ IF SendsMore(rows)
       THEN /\ result_reader' = [kind |-> "empty", mutator |-> FALSE]
            /\ at' = "pack"
            /\ UNCHANGED <<flags, call, mutator, limit, redirect_count, completed, claimed,
                           sized, wanted, over>>
       ELSE /\ result_reader' = [kind |-> IF rows THEN "open" ELSE "empty",
                                 mutator |-> mutator]
            /\ Returned
            /\ UNCHANGED over
  /\ UNCHANGED <<session, arraySize, processed>>

-----------------------------------------------------------------------------
Application ==
  \/ Close \/ BeginExecute \/ ClaimForwarded \/ NumResultCols \/ MoreResults
  \/ Disconnect \/ Connect
  \/ \E ok \in BOOLEAN : Prepare(ok)
  \/ \E m \in BOOLEAN : ExecDirect(m)
  \/ \E n \in ParamsetSizes : SetParamsetSize(n)

Driver ==
  \/ NothingLeft \/ NoSession \/ BuildFails \/ BuildRequest
  \/ TransportFails \/ Redirected \/ RedirectRefused \/ RedirectLimitReached
  \/ ErrorStatus \/ ReaderFails
  \/ \E rows \in BOOLEAN : Accepted(rows)

Next == Application \/ Driver

\* The thread inside a call keeps running and every HTTP attempt ends (the
\* transfer has a timeout), so a call on the stack is eventually advanced.
Spec == Init /\ [][Next]_vars /\ WF_vars(Driver)

-----------------------------------------------------------------------------
TypeOK ==
  /\ session \in BOOLEAN /\ arraySize \in ParamsetSizes
  /\ processed \in 0 .. MaxSets /\ status \in [Sets -> Statuses]
  /\ is_prepared \in BOOLEAN /\ is_executed \in BOOLEAN /\ is_forward_executed \in BOOLEAN
  /\ next_param_set_idx \in 0 .. MaxSets
  /\ response \in BOOLEAN /\ result_reader \in Readers /\ query_id \in BOOLEAN
  /\ call \in Calls \cup {"none"} /\ at \in {"idle", "pack", "http"}
  /\ mutator \in BOOLEAN /\ limit \in 0 .. MaxSets /\ redirect_count \in Nat
  /\ runs \in [Sets -> Nat] /\ completed \in Nat /\ claimed \in Nat
  /\ sized \in 0 .. MaxSets /\ wanted \in BOOLEAN /\ over \in BOOLEAN

\* The reader and its result set keep a reference into the HttpResponse, so
\* neither a reader nor the id of a response may be left once it is released.
ReaderBacked == result_reader # NoReader \/ query_id => response

\* No execution skips a set or runs one beyond the set it stopped at: every
\* set before next_param_set_idx was run, every set after it never was.
SetsInOrder ==
  \A i \in Sets : /\ i < next_param_set_idx => runs[i] >= 1
                  /\ i > next_param_set_idx => runs[i] = 0

\* Between calls the array of the application tells exactly what happened:
\* success up to the set the driver stopped at, that set as an error if it
\* failed, and SQL_PARAM_UNUSED for the rest of the array it began with.
ReportAgrees ==
  Idle =>
    /\ processed \in {next_param_set_idx, next_param_set_idx + 1}
    /\ \A i \in Sets :
         /\ i < next_param_set_idx => status[i] = "SQL_PARAM_SUCCESS"
         /\ i = next_param_set_idx /\ processed = i + 1 => status[i] = "SQL_PARAM_ERROR"
         /\ processed <= i /\ i < sized => status[i] = "SQL_PARAM_UNUSED"

\* Each successful SQLExecute stands for an execution of its own, and at most
\* one finished execution (the one SQLNumResultCols started) is still unclaimed.
OneExecutionPerExecute == claimed <= completed /\ completed <= claimed + 1

\* A mutator installed by SQLColumns transforms every result set of its
\* execution, whichever call asks for it, until a request fails or the sets run out.
MutatorCarried ==
  Idle /\ wanted /\ ~over /\ HasResultSet => result_reader.mutator

\* An SQLExecute that reports success has sent the whole array, unless a set
\* produced a result set, which SQLMoreResults then continues from.
ExecuteSendsWholeArray ==
  [][completed' > completed => next_param_set_idx' >= limit \/ HasResultSet']_vars
=============================================================================
