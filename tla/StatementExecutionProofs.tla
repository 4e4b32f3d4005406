---------------------- MODULE StatementExecutionProofs ----------------------
(***************************************************************************)
(* Proofs about StatementExecution for every array size, redirect limit    *)
(* and bound.  IInv is the inductive invariant; its parts say what the     *)
(* frame of a running call guarantees about the flags, the report and the  *)
(* reader in the middle of a call, where the application sees nothing.     *)
(***************************************************************************)
EXTENDS StatementRefinement, TLAPS

\* TypeOK by kind of variable: each kind needs other facts.
NumberTypes ==
  /\ arraySize \in ParamsetSizes /\ processed \in 0 .. MaxSets
  /\ next_param_set_idx \in 0 .. MaxSets /\ limit \in 0 .. MaxSets
  /\ redirect_count \in Nat /\ completed \in Nat /\ claimed \in Nat /\ sized \in 0 .. MaxSets

ArrayTypes == status \in [Sets -> Statuses] /\ runs \in [Sets -> Nat]

BooleanTypes ==
  /\ session \in BOOLEAN /\ response \in BOOLEAN /\ query_id \in BOOLEAN
  /\ is_prepared \in BOOLEAN /\ is_executed \in BOOLEAN /\ is_forward_executed \in BOOLEAN
  /\ mutator \in BOOLEAN /\ wanted \in BOOLEAN /\ over \in BOOLEAN

ControlTypes ==
  /\ result_reader \in Readers
  /\ call \in Calls \cup {"none"} /\ at \in {"idle", "pack", "http"}

\* A running call is at one of its program points, works on the array it began
\* with, and is inside the redirect loop only for a set that exists and was
\* counted.
FrameOK ==
  /\ call = "none" <=> at = "idle"
  /\ call \in {"execute", "forward"} => limit = arraySize
  /\ call = "more" => is_executed
  /\ at = "http" => next_param_set_idx < arraySize /\ processed = next_param_set_idx + 1

\* Inside the redirect loop the old reader is gone already.
ReaderOK ==
  /\ ReaderBacked
  /\ at = "http" => result_reader = NoReader /\ ~query_id

\* ReportAgrees, but for the set whose request is on its way.
ReportOK ==
  /\ processed \in {next_param_set_idx, next_param_set_idx + 1}
  /\ \A i \in Sets :
       /\ i < next_param_set_idx => status[i] = "SQL_PARAM_SUCCESS"
       /\ at # "http" /\ i = next_param_set_idx /\ processed = i + 1
            => status[i] = "SQL_PARAM_ERROR"
       /\ processed <= i /\ i < sized => status[i] = "SQL_PARAM_UNUSED"

\* is_forward_executed stands for exactly one execution no SQLExecute reported.
ForwardOK ==
  /\ is_forward_executed => is_executed
  /\ is_forward_executed => completed = claimed + 1
  /\ ~is_forward_executed => completed = claimed
  /\ call \in {"execute", "forward"} => ~is_forward_executed

\* The mutator is in the frame during a call and in the reader between calls.
MutatorOK ==
  /\ wanted /\ ~over /\ call # "none" => mutator
  /\ wanted /\ ~over /\ call = "none" /\ is_executed => result_reader.mutator
  /\ call = "none" /\ HasResultSet => is_executed

IInv == TypeOK /\ FrameOK /\ ReaderOK /\ ReportOK /\ SetsInOrder /\ ForwardOK /\ MutatorOK

-----------------------------------------------------------------------------
\* The steps, by what they do to the frame: calls that push none, calls that
\* begin an execution, and the ways a running call fails.
Administers ==
  \/ Close \/ ClaimForwarded \/ Disconnect \/ Connect
  \/ \E ok \in BOOLEAN : Prepare(ok)
  \/ \E n \in ParamsetSizes : SetParamsetSize(n)

Begins == BeginExecute \/ NumResultCols \/ \E m \in BOOLEAN : ExecDirect(m)

Fails ==
  \/ NoSession \/ BuildFails \/ TransportFails \/ RedirectRefused
  \/ RedirectLimitReached \/ ErrorStatus \/ ReaderFails

LEMMA NextCases ==
  ASSUME [Next]_vars
  PROVE  \/ Administers \/ Begins \/ MoreResults
         \/ NothingLeft \/ BuildRequest \/ Fails \/ Redirected
         \/ \E rows \in BOOLEAN : Accepted(rows)
         \/ UNCHANGED vars
BY DEF Next, Application, Driver, Administers, Begins, Fails

\* The groups of variables are expanded everywhere.
USE MaxSetsAssumption DEF vars, flags, objects, report, frame, history, Idle, Sets

\* Counters and indices keep their ranges: a set is only sent, and only counted,
\* while it is inside the array, and the array cannot change during a call.
LEMMA NumberStep ==
  ASSUME TypeOK, FrameOK, [Next]_vars
  PROVE  NumberTypes'
<1>1. CASE Administers
  BY <1>1, SMTT(60) DEF Administers, Close, CloseCursor, ClaimForwarded, ClearForwarded,
     Disconnect, Connect, Prepare, SetParamsetSize, TypeOK, FrameOK, NumberTypes
<1>2. CASE Begins
  BY <1>2 DEF Begins, BeginExecute, NumResultCols, ExecDirect, CloseCursor,
     StartBatch, ResetReport, TypeOK, FrameOK, NumberTypes
<1>3. CASE MoreResults
  BY <1>3 DEF MoreResults, HandOver, TypeOK, FrameOK, NumberTypes
<1>4. CASE NothingLeft
  BY <1>4 DEF NothingLeft, SetsRemain, DropReader, Returned, PopFrame, SetExecuted,
     TypeOK, FrameOK, NumberTypes
<1>5. CASE BuildRequest
  BY <1>5 DEF BuildRequest, SetsRemain, DropReader, CountProcessed, TypeOK, FrameOK,
     NumberTypes
<1>6. CASE Fails
  <2>1. CASE NoSession
    BY <2>1 DEF NoSession, SetsRemain, DropReader, CountProcessed, Failed, PopFrame,
       TypeOK, FrameOK, NumberTypes
  <2>2. CASE BuildFails
    BY <2>2 DEF BuildFails, SetsRemain, DropReader, CountProcessed, Failed, PopFrame,
       TypeOK, FrameOK, NumberTypes
  <2>3. CASE TransportFails
    BY <2>3 DEF TransportFails, MayHaveRun, Failed, PopFrame, TypeOK, FrameOK,
       NumberTypes
  <2>4. CASE ErrorStatus
    BY <2>4 DEF ErrorStatus, MayHaveRun, Failed, PopFrame, TypeOK, FrameOK,
       NumberTypes
  <2>5. CASE ReaderFails
    BY <2>5 DEF ReaderFails, ServerRan, Failed, PopFrame, TypeOK, FrameOK, NumberTypes
  <2>6. CASE RedirectRefused \/ RedirectLimitReached
    BY <2>6 DEF RedirectRefused, RedirectLimitReached, Failed, PopFrame, TypeOK,
       FrameOK, NumberTypes
  <2>. QED  BY <1>6, <2>1, <2>2, <2>3, <2>4, <2>5, <2>6 DEF Fails
<1>7. CASE Redirected
  BY <1>7 DEF Redirected, NextAttempt, TypeOK, FrameOK, NumberTypes
<1>8. ASSUME NEW rows \in BOOLEAN, Accepted(rows) PROVE NumberTypes'
  <2>1. CASE SendsMore(rows)
    BY <1>8, <2>1 DEF Accepted, ServerRan, Advance, Returned, PopFrame, SetExecuted,
       TypeOK, FrameOK, NumberTypes, SendsMore
  <2>2. CASE ~SendsMore(rows)
    BY <1>8, <2>2 DEF Accepted, ServerRan, Advance, Returned, PopFrame, SetExecuted,
       TypeOK, FrameOK, NumberTypes
  <2>. QED  BY <2>1, <2>2
<1>9. CASE UNCHANGED vars
  BY <1>9 DEF TypeOK, FrameOK, NumberTypes
<1>. QED  BY <1>1, <1>2, <1>3, <1>4, <1>5, <1>6, <1>7, <1>8, <1>9, NextCases

\* The application's status array and the history of runs keep their shapes.
LEMMA ArrayStep ==
  ASSUME TypeOK, FrameOK, [Next]_vars
  PROVE  ArrayTypes'
<1>1. CASE Administers
  BY <1>1 DEF Administers, Close, CloseCursor, ClaimForwarded, ClearForwarded,
     Disconnect, Connect, Prepare, SetParamsetSize, TypeOK, FrameOK, Statuses,
     ArrayTypes
<1>2. CASE Begins
  BY <1>2 DEF Begins, BeginExecute, NumResultCols, ExecDirect, CloseCursor,
     StartBatch, ResetReport, TypeOK, FrameOK, Statuses, ArrayTypes
<1>3. CASE MoreResults
  BY <1>3 DEF MoreResults, HandOver, TypeOK, FrameOK, Statuses, ArrayTypes
<1>4. CASE NothingLeft
  BY <1>4 DEF NothingLeft, SetsRemain, DropReader, Returned, PopFrame, SetExecuted,
     TypeOK, FrameOK, Statuses, ArrayTypes
<1>5. CASE BuildRequest
  BY <1>5 DEF BuildRequest, SetsRemain, DropReader, CountProcessed, TypeOK, FrameOK,
     Statuses, ArrayTypes
<1>6. CASE Fails
  <2>1. CASE NoSession
    BY <2>1 DEF NoSession, SetsRemain, DropReader, CountProcessed, Failed, PopFrame,
       TypeOK, FrameOK, Statuses, ArrayTypes
  <2>2. CASE BuildFails
    BY <2>2 DEF BuildFails, SetsRemain, DropReader, CountProcessed, Failed, PopFrame,
       TypeOK, FrameOK, Statuses, ArrayTypes
  <2>3. CASE TransportFails
    BY <2>3 DEF TransportFails, MayHaveRun, Failed, PopFrame, TypeOK, FrameOK,
       Statuses, ArrayTypes
  <2>4. CASE ErrorStatus
    BY <2>4 DEF ErrorStatus, MayHaveRun, Failed, PopFrame, TypeOK, FrameOK, Statuses,
       ArrayTypes
  <2>5. CASE ReaderFails
    BY <2>5 DEF ReaderFails, ServerRan, Failed, PopFrame, TypeOK, FrameOK, Statuses,
       ArrayTypes
  <2>6. CASE RedirectRefused \/ RedirectLimitReached
    BY <2>6 DEF RedirectRefused, RedirectLimitReached, Failed, PopFrame, TypeOK,
       FrameOK, Statuses, ArrayTypes
  <2>. QED  BY <1>6, <2>1, <2>2, <2>3, <2>4, <2>5, <2>6 DEF Fails
<1>7. CASE Redirected
  BY <1>7 DEF Redirected, NextAttempt, TypeOK, FrameOK, Statuses, ArrayTypes
<1>8. ASSUME NEW rows \in BOOLEAN, Accepted(rows) PROVE ArrayTypes'
  <2>1. CASE SendsMore(rows)
    BY <1>8, <2>1 DEF Accepted, ServerRan, Advance, Returned, PopFrame, SetExecuted,
       TypeOK, FrameOK, Statuses, ArrayTypes, SendsMore
  <2>2. CASE ~SendsMore(rows)
    BY <1>8, <2>2 DEF Accepted, ServerRan, Advance, Returned, PopFrame, SetExecuted,
       TypeOK, FrameOK, Statuses, ArrayTypes
  <2>. QED  BY <2>1, <2>2
<1>9. CASE UNCHANGED vars
  BY <1>9 DEF TypeOK, FrameOK, Statuses, ArrayTypes
<1>. QED  BY <1>1, <1>2, <1>3, <1>4, <1>5, <1>6, <1>7, <1>8, <1>9, NextCases

\* The flags stay Boolean.
LEMMA BooleanStep ==
  ASSUME TypeOK, FrameOK, [Next]_vars
  PROVE  BooleanTypes'
<1>1. CASE Administers
  BY <1>1, ZenonT(60) DEF Administers, Close, CloseCursor, ClaimForwarded, ClearForwarded,
     Disconnect, Connect, Prepare, SetParamsetSize, TypeOK, Readers, BooleanTypes
<1>2. CASE Begins
  BY <1>2 DEF Begins, BeginExecute, NumResultCols, ExecDirect, CloseCursor,
     StartBatch, ResetReport, TypeOK, Readers, BooleanTypes
<1>3. CASE MoreResults
  BY <1>3 DEF MoreResults, HandOver, TypeOK, Readers, BooleanTypes
<1>4. CASE NothingLeft
  BY <1>4 DEF NothingLeft, SetsRemain, DropReader, Returned, PopFrame, SetExecuted,
     TypeOK, Readers, BooleanTypes
<1>5. CASE BuildRequest
  BY <1>5 DEF BuildRequest, SetsRemain, DropReader, CountProcessed, TypeOK, Readers,
     BooleanTypes
<1>6. CASE Fails
  BY <1>6 DEF Fails, NoSession, BuildFails, TransportFails, RedirectRefused,
     RedirectLimitReached, ErrorStatus, ReaderFails, SetsRemain, DropReader,
     CountProcessed, MayHaveRun, ServerRan, Failed, PopFrame, TypeOK, Readers,
     BooleanTypes
<1>7. CASE Redirected
  BY <1>7 DEF Redirected, NextAttempt, TypeOK, Readers, BooleanTypes
<1>8. ASSUME NEW rows \in BOOLEAN, Accepted(rows) PROVE BooleanTypes'
  <2>1. CASE SendsMore(rows)
    BY <1>8, <2>1 DEF Accepted, ServerRan, Advance, Returned, PopFrame, SetExecuted,
       TypeOK, Readers, BooleanTypes, SendsMore
  <2>2. CASE ~SendsMore(rows)
    BY <1>8, <2>2 DEF Accepted, ServerRan, Advance, Returned, PopFrame, SetExecuted,
       TypeOK, Readers, BooleanTypes
  <2>. QED  BY <2>1, <2>2
<1>9. CASE UNCHANGED vars
  BY <1>9 DEF TypeOK, Readers, BooleanTypes
<1>. QED  BY <1>1, <1>2, <1>3, <1>4, <1>5, <1>6, <1>7, <1>8, <1>9, NextCases

\* The reader, the call and its program point keep their ranges.
LEMMA ControlStep ==
  ASSUME TypeOK, FrameOK, [Next]_vars
  PROVE  ControlTypes'
<1>1. CASE Administers
  <2>1. CASE Close
    BY <2>1 DEF Close, CloseCursor, TypeOK, Readers, NoReader, Calls, ControlTypes
  <2>2. ASSUME NEW ok \in BOOLEAN, Prepare(ok) PROVE  ControlTypes'
    BY <2>2 DEF Prepare, CloseCursor, TypeOK, Readers, NoReader, Calls, ControlTypes
  <2>3. CASE ClaimForwarded \/ Disconnect \/ Connect
    BY <2>3 DEF ClaimForwarded, Disconnect, Connect, TypeOK, Readers, NoReader, Calls,
       ControlTypes
  <2>4. ASSUME NEW n \in ParamsetSizes, SetParamsetSize(n) PROVE  ControlTypes'
    BY <2>4 DEF SetParamsetSize, TypeOK, Readers, NoReader, Calls, ControlTypes
  <2>. QED  BY <1>1, <2>1, <2>2, <2>3, <2>4 DEF Administers
<1>2. CASE Begins
  <2>1. CASE BeginExecute \/ NumResultCols
    BY <2>1 DEF BeginExecute, NumResultCols, StartBatch, TypeOK, Readers, NoReader,
       Calls, ControlTypes
  <2>2. ASSUME NEW m \in BOOLEAN, ExecDirect(m) PROVE  ControlTypes'
    BY <2>2 DEF ExecDirect, CloseCursor, StartBatch, TypeOK, Readers, NoReader, Calls,
       ControlTypes
  <2>. QED  BY <1>2, <2>1, <2>2 DEF Begins
<1>3. CASE MoreResults
  BY <1>3 DEF MoreResults, HandOver, TypeOK, Readers, NoReader, Calls, ControlTypes
<1>4. CASE NothingLeft
  BY <1>4 DEF NothingLeft, SetsRemain, DropReader, Returned, PopFrame, SetExecuted,
     TypeOK, Readers, NoReader, Calls, ControlTypes
<1>5. CASE BuildRequest
  BY <1>5 DEF BuildRequest, SetsRemain, DropReader, CountProcessed, TypeOK, Readers,
     NoReader, Calls, ControlTypes
<1>6. CASE Fails
  <2>1. CASE NoSession
    BY <2>1 DEF NoSession, SetsRemain, DropReader, CountProcessed, Failed, PopFrame,
       TypeOK, Readers, NoReader, Calls, ControlTypes
  <2>2. CASE BuildFails
    BY <2>2 DEF BuildFails, SetsRemain, DropReader, CountProcessed, Failed, PopFrame,
       TypeOK, Readers, NoReader, Calls, ControlTypes
  <2>3. CASE TransportFails
    BY <2>3 DEF TransportFails, MayHaveRun, Failed, PopFrame, TypeOK, Readers,
       NoReader, Calls, ControlTypes
  <2>4. CASE ErrorStatus
    BY <2>4 DEF ErrorStatus, MayHaveRun, Failed, PopFrame, TypeOK, Readers, NoReader,
       Calls, ControlTypes
  <2>5. CASE ReaderFails
    BY <2>5 DEF ReaderFails, ServerRan, Failed, PopFrame, TypeOK, Readers, NoReader,
       Calls, ControlTypes
  <2>6. CASE RedirectRefused \/ RedirectLimitReached
    BY <2>6 DEF RedirectRefused, RedirectLimitReached, Failed, PopFrame, TypeOK,
       Readers, NoReader, Calls, ControlTypes
  <2>. QED  BY <1>6, <2>1, <2>2, <2>3, <2>4, <2>5, <2>6 DEF Fails
<1>7. CASE Redirected
  BY <1>7 DEF Redirected, NextAttempt, TypeOK, Readers, NoReader, Calls, ControlTypes
<1>8. ASSUME NEW rows \in BOOLEAN, Accepted(rows) PROVE ControlTypes'
  <2>1. CASE SendsMore(rows)
    <3>1. result_reader' = [kind |-> "empty", mutator |-> FALSE] /\ at' = "pack" /\ call' = call
      BY <1>8, <2>1 DEF Accepted
    <3>2. call \in Calls \cup {"none"}
      BY DEF TypeOK
    <3>. QED  BY <3>1, <3>2 DEF ControlTypes, Readers
  <2>2. CASE ~SendsMore(rows)
    <3>1. CASE call = "more"
      BY <1>8, <2>2, <3>1 DEF Accepted, ServerRan, Advance, Returned, PopFrame,
         SetExecuted, TypeOK, Readers, NoReader, Calls, ControlTypes
    <3>2. CASE call = "execute"
      BY <1>8, <2>2, <3>2 DEF Accepted, ServerRan, Advance, Returned, PopFrame,
         SetExecuted, TypeOK, Readers, NoReader, Calls, ControlTypes
    <3>3. CASE call = "forward"
      BY <1>8, <2>2, <3>3 DEF Accepted, ServerRan, Advance, Returned, PopFrame,
         SetExecuted, TypeOK, Readers, NoReader, Calls, ControlTypes
    <3>. QED  BY <1>8, <3>1, <3>2, <3>3 DEF Accepted, TypeOK, FrameOK, Calls
  <2>. QED  BY <2>1, <2>2
<1>9. CASE UNCHANGED vars
  BY <1>9 DEF TypeOK, Readers, NoReader, Calls, ControlTypes
<1>. QED  BY <1>1, <1>2, <1>3, <1>4, <1>5, <1>6, <1>7, <1>8, <1>9, NextCases

\* FrameOK is preserved.
LEMMA FrameStep ==
  ASSUME TypeOK, FrameOK, [Next]_vars
  PROVE  FrameOK'
<1>1. CASE Administers
  BY <1>1 DEF Administers, Close, CloseCursor, ClaimForwarded, ClearForwarded,
     Disconnect, Connect, Prepare, SetParamsetSize, TypeOK, FrameOK, Calls
<1>2. CASE Begins
  BY <1>2 DEF Begins, BeginExecute, NumResultCols, ExecDirect, CloseCursor,
     StartBatch, ResetReport, TypeOK, FrameOK, Calls
<1>3. CASE MoreResults
  BY <1>3 DEF MoreResults, HandOver, TypeOK, FrameOK, Calls
<1>4. CASE NothingLeft
  BY <1>4 DEF NothingLeft, SetsRemain, DropReader, Returned, PopFrame, SetExecuted,
     TypeOK, FrameOK, Calls
<1>5. CASE BuildRequest
  BY <1>5 DEF BuildRequest, SetsRemain, DropReader, CountProcessed, TypeOK, FrameOK,
     Calls
<1>6. CASE Fails
  BY <1>6 DEF Fails, NoSession, BuildFails, TransportFails, RedirectRefused,
     RedirectLimitReached, ErrorStatus, ReaderFails, SetsRemain, DropReader,
     CountProcessed, MayHaveRun, ServerRan, Failed, PopFrame, TypeOK, FrameOK, Calls
<1>7. CASE Redirected
  BY <1>7 DEF Redirected, NextAttempt, TypeOK, FrameOK, Calls
<1>8. ASSUME NEW rows \in BOOLEAN, Accepted(rows) PROVE FrameOK'
  <2>1. CASE SendsMore(rows)
    BY <1>8, <2>1 DEF Accepted, ServerRan, Advance, Returned, PopFrame, SetExecuted,
       TypeOK, FrameOK, Calls, SendsMore
  <2>2. CASE ~SendsMore(rows)
    BY <1>8, <2>2 DEF Accepted, ServerRan, Advance, Returned, PopFrame, SetExecuted,
       TypeOK, FrameOK, Calls
  <2>. QED  BY <2>1, <2>2
<1>9. CASE UNCHANGED vars
  BY <1>9 DEF TypeOK, FrameOK, Calls
<1>. QED  BY <1>1, <1>2, <1>3, <1>4, <1>5, <1>6, <1>7, <1>8, <1>9, NextCases

\* ReaderOK is preserved: whatever releases the response has released the reader
\* before.
LEMMA ReaderStep ==
  ASSUME TypeOK, FrameOK, ReaderOK, [Next]_vars
  PROVE  ReaderOK'
<1>1. CASE Administers
  BY <1>1 DEF Administers, Close, CloseCursor, ClaimForwarded, ClearForwarded,
     Disconnect, Connect, Prepare, SetParamsetSize, FrameOK, ReaderOK, ReaderBacked,
     NoReader
<1>2. CASE Begins
  BY <1>2 DEF Begins, BeginExecute, NumResultCols, ExecDirect, CloseCursor,
     StartBatch, ResetReport, FrameOK, ReaderOK, ReaderBacked, NoReader
<1>3. CASE MoreResults
  BY <1>3 DEF MoreResults, HandOver, FrameOK, ReaderOK, ReaderBacked, NoReader
<1>4. CASE NothingLeft
  BY <1>4 DEF NothingLeft, SetsRemain, DropReader, Returned, PopFrame, SetExecuted,
     FrameOK, ReaderOK, ReaderBacked, NoReader
<1>5. CASE BuildRequest
  BY <1>5 DEF BuildRequest, SetsRemain, DropReader, CountProcessed, FrameOK, ReaderOK,
     ReaderBacked, NoReader
<1>6. CASE Fails
  BY <1>6 DEF Fails, NoSession, BuildFails, TransportFails, RedirectRefused,
     RedirectLimitReached, ErrorStatus, ReaderFails, SetsRemain, DropReader,
     CountProcessed, MayHaveRun, ServerRan, Failed, PopFrame, FrameOK, ReaderOK,
     ReaderBacked, NoReader
<1>7. CASE Redirected
  BY <1>7 DEF Redirected, NextAttempt, FrameOK, ReaderOK, ReaderBacked, NoReader
<1>8. ASSUME NEW rows \in BOOLEAN, Accepted(rows) PROVE ReaderOK'
  <2>1. CASE SendsMore(rows)
    BY <1>8, <2>1 DEF Accepted, ServerRan, Advance, Returned, PopFrame, SetExecuted,
       FrameOK, ReaderOK, ReaderBacked, NoReader, SendsMore
  <2>2. CASE ~SendsMore(rows)
    BY <1>8, <2>2 DEF Accepted, ServerRan, Advance, Returned, PopFrame, SetExecuted,
       FrameOK, ReaderOK, ReaderBacked, NoReader
  <2>. QED  BY <2>1, <2>2
<1>9. CASE UNCHANGED vars
  BY <1>9 DEF FrameOK, ReaderOK, ReaderBacked, NoReader
<1>. QED  BY <1>1, <1>2, <1>3, <1>4, <1>5, <1>6, <1>7, <1>8, <1>9, NextCases

\* ReportOK is preserved: a set is counted before it is sent, and marked before
\* the call goes on or ends.
LEMMA ReportStep ==
  ASSUME TypeOK, FrameOK, ReportOK, [Next]_vars
  PROVE  ReportOK'
<1>1. CASE Administers
  BY <1>1 DEF Administers, Close, CloseCursor, ClaimForwarded, ClearForwarded,
     Disconnect, Connect, Prepare, SetParamsetSize, TypeOK, FrameOK, ReportOK
<1>2. CASE Begins
  BY <1>2 DEF Begins, BeginExecute, NumResultCols, ExecDirect, CloseCursor,
     StartBatch, ResetReport, TypeOK, FrameOK, ReportOK
<1>3. CASE MoreResults
  BY <1>3 DEF MoreResults, HandOver, TypeOK, FrameOK, ReportOK
<1>4. CASE NothingLeft
  BY <1>4 DEF NothingLeft, SetsRemain, DropReader, Returned, PopFrame, SetExecuted,
     TypeOK, FrameOK, ReportOK
<1>5. CASE BuildRequest
  BY <1>5 DEF BuildRequest, SetsRemain, DropReader, CountProcessed, TypeOK, FrameOK,
     ReportOK
<1>6. CASE Fails
  <2> USE DEF SetsRemain, DropReader, CountProcessed, MayHaveRun, ServerRan, Failed, PopFrame,
              TypeOK, FrameOK, ReportOK
  <2>1. CASE NoSession
    BY <2>1 DEF NoSession
  <2>2. CASE BuildFails
    BY <2>2 DEF BuildFails
  <2>3. CASE TransportFails
    BY <2>3 DEF TransportFails
  <2>4. CASE RedirectRefused
    BY <2>4 DEF RedirectRefused
  <2>5. CASE RedirectLimitReached
    BY <2>5 DEF RedirectLimitReached
  <2>6. CASE ErrorStatus
    BY <2>6 DEF ErrorStatus
  <2>7. CASE ReaderFails
    BY <2>7 DEF ReaderFails
  <2> QED  BY <1>6, <2>1, <2>2, <2>3, <2>4, <2>5, <2>6, <2>7 DEF Fails
<1>7. CASE Redirected
  BY <1>7 DEF Redirected, NextAttempt, TypeOK, FrameOK, ReportOK
<1>8. ASSUME NEW rows \in BOOLEAN, Accepted(rows) PROVE ReportOK'
  <2>1. CASE SendsMore(rows)
    BY <1>8, <2>1 DEF Accepted, ServerRan, Advance, Returned, PopFrame, SetExecuted,
       TypeOK, FrameOK, ReportOK, SendsMore
  <2>2. CASE ~SendsMore(rows)
    BY <1>8, <2>2 DEF Accepted, ServerRan, Advance, Returned, PopFrame, SetExecuted,
       TypeOK, FrameOK, ReportOK
  <2>. QED  BY <2>1, <2>2
<1>9. CASE UNCHANGED vars
  BY <1>9 DEF TypeOK, FrameOK, ReportOK
<1>. QED  BY <1>1, <1>2, <1>3, <1>4, <1>5, <1>6, <1>7, <1>8, <1>9, NextCases

\* SetsInOrder is preserved.
LEMMA SetsStep ==
  ASSUME TypeOK, FrameOK, SetsInOrder, [Next]_vars
  PROVE  SetsInOrder'
<1>1. CASE Administers
  BY <1>1 DEF Administers, Close, CloseCursor, ClaimForwarded, ClearForwarded,
     Disconnect, Connect, Prepare, SetParamsetSize, TypeOK, FrameOK, SetsInOrder
<1>2. CASE Begins
  BY <1>2 DEF Begins, BeginExecute, NumResultCols, ExecDirect, CloseCursor,
     StartBatch, ResetReport, TypeOK, FrameOK, SetsInOrder
<1>3. CASE MoreResults
  BY <1>3 DEF MoreResults, HandOver, TypeOK, FrameOK, SetsInOrder
<1>4. CASE NothingLeft
  BY <1>4 DEF NothingLeft, SetsRemain, DropReader, Returned, PopFrame, SetExecuted,
     TypeOK, FrameOK, SetsInOrder
<1>5. CASE BuildRequest
  BY <1>5 DEF BuildRequest, SetsRemain, DropReader, CountProcessed, TypeOK, FrameOK,
     SetsInOrder
<1>6. CASE Fails
  <2>1. CASE NoSession
    BY <2>1 DEF NoSession, SetsRemain, DropReader, CountProcessed, Failed, PopFrame,
       TypeOK, FrameOK, SetsInOrder
  <2>2. CASE BuildFails
    BY <2>2 DEF BuildFails, SetsRemain, DropReader, CountProcessed, Failed, PopFrame,
       TypeOK, FrameOK, SetsInOrder
  <2>3. CASE TransportFails
    BY <2>3 DEF TransportFails, MayHaveRun, Failed, PopFrame, TypeOK, FrameOK,
       SetsInOrder
  <2>4. CASE ErrorStatus
    BY <2>4 DEF ErrorStatus, MayHaveRun, Failed, PopFrame, TypeOK, FrameOK,
       SetsInOrder
  <2>5. CASE ReaderFails
    BY <2>5 DEF ReaderFails, ServerRan, Failed, PopFrame, TypeOK, FrameOK, SetsInOrder
  <2>6. CASE RedirectRefused \/ RedirectLimitReached
    BY <2>6 DEF RedirectRefused, RedirectLimitReached, Failed, PopFrame, TypeOK,
       FrameOK, SetsInOrder
  <2>. QED  BY <1>6, <2>1, <2>2, <2>3, <2>4, <2>5, <2>6 DEF Fails
<1>7. CASE Redirected
  BY <1>7 DEF Redirected, NextAttempt, TypeOK, FrameOK, SetsInOrder
<1>8. ASSUME NEW rows \in BOOLEAN, Accepted(rows) PROVE SetsInOrder'
  <2>1. CASE SendsMore(rows)
    BY <1>8, <2>1 DEF Accepted, ServerRan, Advance, Returned, PopFrame, SetExecuted,
       TypeOK, FrameOK, SetsInOrder, SendsMore
  <2>2. CASE ~SendsMore(rows)
    BY <1>8, <2>2 DEF Accepted, ServerRan, Advance, Returned, PopFrame, SetExecuted,
       TypeOK, FrameOK, SetsInOrder
  <2>. QED  BY <2>1, <2>2
<1>9. CASE UNCHANGED vars
  BY <1>9 DEF TypeOK, FrameOK, SetsInOrder
<1>. QED  BY <1>1, <1>2, <1>3, <1>4, <1>5, <1>6, <1>7, <1>8, <1>9, NextCases

\* ForwardOK is preserved.
LEMMA ForwardStep ==
  ASSUME TypeOK, FrameOK, ForwardOK, [Next]_vars
  PROVE  ForwardOK'
<1>1. CASE Administers
  BY <1>1 DEF Administers, Close, CloseCursor, ClaimForwarded, ClearForwarded,
     Disconnect, Connect, Prepare, SetParamsetSize, TypeOK, FrameOK, ForwardOK
<1>2. CASE Begins
  BY <1>2 DEF Begins, BeginExecute, NumResultCols, ExecDirect, CloseCursor,
     StartBatch, ResetReport, TypeOK, FrameOK, ForwardOK
<1>3. CASE MoreResults
  BY <1>3 DEF MoreResults, HandOver, TypeOK, FrameOK, ForwardOK
<1>4. CASE NothingLeft
  <2>1. CASE call = "more"
    BY <1>4, <2>1 DEF NothingLeft, Returned, PopFrame, SetExecuted, TypeOK, FrameOK,
       ForwardOK
  <2>2. CASE call = "execute"
    BY <1>4, <2>2 DEF NothingLeft, Returned, PopFrame, SetExecuted, TypeOK, FrameOK,
       ForwardOK
  <2>3. CASE call = "forward"
    BY <1>4, <2>3 DEF NothingLeft, Returned, PopFrame, SetExecuted, TypeOK, FrameOK,
       ForwardOK
  <2>. QED  BY <1>4, <2>1, <2>2, <2>3 DEF NothingLeft, TypeOK, FrameOK, Calls
<1>5. CASE BuildRequest
  BY <1>5 DEF BuildRequest, SetsRemain, DropReader, CountProcessed, TypeOK, FrameOK,
     ForwardOK
<1>6. CASE Fails
  BY <1>6 DEF Fails, NoSession, BuildFails, TransportFails, RedirectRefused,
     RedirectLimitReached, ErrorStatus, ReaderFails, SetsRemain, DropReader,
     CountProcessed, MayHaveRun, ServerRan, Failed, PopFrame, TypeOK, FrameOK,
     ForwardOK
<1>7. CASE Redirected
  BY <1>7 DEF Redirected, NextAttempt, TypeOK, FrameOK, ForwardOK
<1>8. ASSUME NEW rows \in BOOLEAN, Accepted(rows) PROVE ForwardOK'
  <2>1. CASE SendsMore(rows)
    BY <1>8, <2>1 DEF Accepted, ServerRan, Advance, Returned, PopFrame, SetExecuted,
       TypeOK, FrameOK, ForwardOK, SendsMore
  <2>2. CASE ~SendsMore(rows)
    <3>1. CASE call = "more"
      BY <1>8, <2>2, <3>1 DEF Accepted, ServerRan, Advance, Returned, PopFrame,
         SetExecuted, TypeOK, FrameOK, ForwardOK
    <3>2. CASE call = "execute"
      BY <1>8, <2>2, <3>2 DEF Accepted, ServerRan, Advance, Returned, PopFrame,
         SetExecuted, TypeOK, FrameOK, ForwardOK
    <3>3. CASE call = "forward"
      BY <1>8, <2>2, <3>3 DEF Accepted, ServerRan, Advance, Returned, PopFrame,
         SetExecuted, TypeOK, FrameOK, ForwardOK
    <3>. QED  BY <1>8, <3>1, <3>2, <3>3 DEF Accepted, TypeOK, FrameOK, Calls
  <2>. QED  BY <2>1, <2>2
<1>9. CASE UNCHANGED vars
  BY <1>9 DEF TypeOK, FrameOK, ForwardOK
<1>. QED  BY <1>1, <1>2, <1>3, <1>4, <1>5, <1>6, <1>7, <1>8, <1>9, NextCases

\* MutatorOK is preserved: the mutator is handed from the frame to the reader and
\* back.
LEMMA MutatorStep ==
  ASSUME TypeOK, FrameOK, ReaderOK, ForwardOK, MutatorOK, [Next]_vars
  PROVE  MutatorOK'
<1>1. CASE Administers
  BY <1>1 DEF Administers, Close, CloseCursor, ClaimForwarded, ClearForwarded,
     Disconnect, Connect, Prepare, SetParamsetSize, TypeOK, FrameOK, ReaderOK,
     ForwardOK, MutatorOK, HasResultSet, Readers, NoReader, Calls
<1>2. CASE Begins
  BY <1>2 DEF Begins, BeginExecute, NumResultCols, ExecDirect, CloseCursor,
     StartBatch, ResetReport, TypeOK, FrameOK, ReaderOK, ForwardOK, MutatorOK,
     HasResultSet, Readers, NoReader, Calls
<1>3. CASE MoreResults
  BY <1>3 DEF MoreResults, HandOver, TypeOK, FrameOK, ReaderOK, ForwardOK, MutatorOK,
     HasResultSet, Readers, NoReader, Calls
<1>4. CASE NothingLeft
  BY <1>4 DEF NothingLeft, SetsRemain, DropReader, Returned, PopFrame, SetExecuted,
     TypeOK, FrameOK, ReaderOK, ForwardOK, MutatorOK, HasResultSet, Readers, NoReader,
     Calls
<1>5. CASE BuildRequest
  BY <1>5 DEF BuildRequest, SetsRemain, DropReader, CountProcessed, TypeOK, FrameOK,
     ReaderOK, ForwardOK, MutatorOK, HasResultSet, Readers, NoReader, Calls
<1>6. CASE Fails
  BY <1>6 DEF Fails, NoSession, BuildFails, TransportFails, RedirectRefused,
     RedirectLimitReached, ErrorStatus, ReaderFails, SetsRemain, DropReader,
     CountProcessed, MayHaveRun, ServerRan, Failed, PopFrame, TypeOK, FrameOK,
     ReaderOK, ForwardOK, MutatorOK, HasResultSet, Readers, NoReader, Calls
<1>7. CASE Redirected
  BY <1>7 DEF Redirected, NextAttempt, TypeOK, FrameOK, ReaderOK, ForwardOK,
     MutatorOK, HasResultSet, Readers, NoReader, Calls
<1>8. ASSUME NEW rows \in BOOLEAN, Accepted(rows) PROVE MutatorOK'
  <2>1. CASE SendsMore(rows)
    BY <1>8, <2>1 DEF Accepted, ServerRan, Advance, Returned, PopFrame, SetExecuted,
       TypeOK, FrameOK, ReaderOK, ForwardOK, MutatorOK, HasResultSet, Readers,
       NoReader, Calls, SendsMore
  <2>2. CASE ~SendsMore(rows)
    <3>1. CASE call = "more"
      BY <1>8, <2>2, <3>1 DEF Accepted, ServerRan, Advance, Returned, PopFrame,
         SetExecuted, TypeOK, FrameOK, ReaderOK, ForwardOK, MutatorOK, HasResultSet,
         Readers, NoReader, Calls
    <3>2. CASE call = "execute"
      BY <1>8, <2>2, <3>2 DEF Accepted, ServerRan, Advance, Returned, PopFrame,
         SetExecuted, TypeOK, FrameOK, ReaderOK, ForwardOK, MutatorOK, HasResultSet,
         Readers, NoReader, Calls
    <3>3. CASE call = "forward"
      BY <1>8, <2>2, <3>3 DEF Accepted, ServerRan, Advance, Returned, PopFrame,
         SetExecuted, TypeOK, FrameOK, ReaderOK, ForwardOK, MutatorOK, HasResultSet,
         Readers, NoReader, Calls
    <3>. QED  BY <1>8, <3>1, <3>2, <3>3 DEF Accepted, TypeOK, FrameOK, Calls
  <2>. QED  BY <2>1, <2>2
<1>9. CASE UNCHANGED vars
  BY <1>9 DEF TypeOK, FrameOK, ReaderOK, ForwardOK, MutatorOK, HasResultSet, Readers,
     NoReader, Calls
<1>. QED  BY <1>1, <1>2, <1>3, <1>4, <1>5, <1>6, <1>7, <1>8, <1>9, NextCases

-----------------------------------------------------------------------------
\* The four kinds of variables are all of them.
LEMMA TypeParts ==
  TypeOK <=> NumberTypes /\ ArrayTypes /\ BooleanTypes /\ ControlTypes
BY DEF TypeOK, NumberTypes, ArrayTypes, BooleanTypes, ControlTypes

\* A new statement satisfies the inductive invariant.
LEMMA InitIInv == Init => IInv
<1>. SUFFICES ASSUME Init PROVE IInv
  OBVIOUS
<1>1. TypeOK
  <2>. SUFFICES NumberTypes /\ ArrayTypes /\ BooleanTypes /\ ControlTypes
    BY TypeParts
  <2>1. NumberTypes
    BY DEF Init, NumberTypes
  <2>2. BooleanTypes
    BY DEF Init, BooleanTypes
  <2>3. ArrayTypes
    BY DEF Init, ArrayTypes, Statuses
  <2>4. ControlTypes
    BY DEF Init, ControlTypes, Readers, NoReader
  <2>. QED  BY <2>1, <2>2, <2>3, <2>4
<1>2. FrameOK /\ ReaderOK
  BY DEF Init, FrameOK, ReaderOK, ReaderBacked, NoReader
<1>3. ReportOK /\ SetsInOrder
  BY DEF Init, ReportOK, SetsInOrder
<1>4. ForwardOK /\ MutatorOK
  BY DEF Init, ForwardOK, MutatorOK, HasResultSet, NoReader
<1>. QED  BY <1>1, <1>2, <1>3, <1>4 DEF IInv

\* Every step of the application and of the driver preserves it.
LEMMA IInvStep == IInv /\ [Next]_vars => IInv'
<1>. SUFFICES ASSUME IInv, [Next]_vars PROVE IInv'
  OBVIOUS
<1>0. TypeOK /\ FrameOK /\ ReaderOK /\ ReportOK /\ SetsInOrder /\ ForwardOK /\ MutatorOK
  BY DEF IInv
<1>1. NumberTypes' /\ ArrayTypes' /\ BooleanTypes' /\ ControlTypes'
  BY <1>0, NumberStep, ArrayStep, BooleanStep, ControlStep
<1>2. TypeOK'
  BY <1>1 DEF TypeOK, NumberTypes, ArrayTypes, BooleanTypes, ControlTypes
<1>3. FrameOK' /\ ReaderOK' /\ ReportOK'
  BY <1>0, FrameStep, ReaderStep, ReportStep
<1>4. SetsInOrder' /\ ForwardOK' /\ MutatorOK'
  BY <1>0, SetsStep, ForwardStep, MutatorStep
<1>. QED  BY <1>2, <1>3, <1>4 DEF IInv

\* The inductive invariant holds in every reachable state (all of
\* statement.cpp's execution half).
THEOREM Invariance == Spec => []IInv
BY InitIInv, IInvStep, PTL DEF Spec

-----------------------------------------------------------------------------
\* Every variable keeps its type for every array size, redirect limit and bound.
THEOREM TypeCorrect == Spec => []TypeOK
<1>1. IInv => TypeOK
  BY DEF IInv
<1>. QED  BY <1>1, Invariance, PTL

\* A statement never holds a reader, or the id of a response, without the
\* HttpResponse the reader reads from (the order of the resets in
\* requestNextPackOfResultSets, sendParamSet and closeCursor).
THEOREM ReaderIsBacked == Spec => []ReaderBacked
<1>1. IInv => ReaderBacked
  BY DEF IInv, ReaderOK
<1>. QED  BY <1>1, Invariance, PTL

\* No execution skips a parameter set or runs one beyond the set it stopped at.
THEOREM SetsRunInOrder == Spec => []SetsInOrder
<1>1. IInv => SetsInOrder
  BY DEF IInv
<1>. QED  BY <1>1, Invariance, PTL

\* Between calls, SQL_ATTR_PARAMS_PROCESSED_PTR and SQL_ATTR_PARAM_STATUS_PTR
\* say what became of every set of the array the execution began with.
THEOREM ReportIsAccurate == Spec => []ReportAgrees
<1>1. IInv => ReportAgrees
  BY DEF IInv, ReportOK, ReportAgrees, FrameOK, Idle
<1>. QED  BY <1>1, Invariance, PTL

\* A successful SQLExecute stands for an execution of its own, whether it sent
\* the query or took over the one SQLNumResultCols had sent.
THEOREM ExecutionsAreClaimedOnce == Spec => []OneExecutionPerExecute
<1>1. IInv => OneExecutionPerExecute
  BY DEF IInv, TypeOK, ForwardOK, OneExecutionPerExecute
<1>. QED  BY <1>1, Invariance, PTL

\* The mutator of a catalog function reaches every result set of its execution
\* until a request fails or no set is left.
THEOREM MutatorIsCarried == Spec => []MutatorCarried
<1>1. IInv => MutatorCarried
  BY DEF IInv, MutatorOK, MutatorCarried, Idle
<1>. QED  BY <1>1, Invariance, PTL

-----------------------------------------------------------------------------
\* An SQLExecute that returns success has sent every set of the array, or has
\* stopped at one with a result set (the loop of executeQuery).
THEOREM WholeArrayIsSent == Spec => ExecuteSendsWholeArray
<1>1. ASSUME IInv, [Next]_vars, completed' > completed
      PROVE  next_param_set_idx' >= limit \/ HasResultSet'
  <2>0. TypeOK /\ FrameOK
    BY <1>1 DEF IInv
  <2>1. completed \in Nat /\ limit \in Nat /\ next_param_set_idx \in Nat /\ arraySize \in Nat
    BY <2>0 DEF TypeOK
  <2>2. CASE Administers
    BY <1>1, <2>1, <2>2 DEF Administers, Close, CloseCursor, ClaimForwarded, Disconnect,
       Connect, Prepare, SetParamsetSize
  <2>3. CASE Begins
    <3>1. ASSUME BeginExecute \/ NumResultCols PROVE completed' = completed
      BY <3>1 DEF BeginExecute, NumResultCols
    <3>2. ASSUME NEW m \in BOOLEAN, ExecDirect(m) PROVE completed' = 0
      BY <3>2 DEF ExecDirect, CloseCursor
    <3>. QED  BY <1>1, <2>1, <2>3, <3>1, <3>2 DEF Begins
  <2>4. CASE MoreResults \/ BuildRequest \/ Redirected \/ UNCHANGED vars
    BY <1>1, <2>1, <2>4 DEF MoreResults, BuildRequest, Redirected
  <2>5. CASE Fails
    BY <1>1, <2>1, <2>5 DEF Fails, NoSession, BuildFails, TransportFails, RedirectRefused,
       RedirectLimitReached, ErrorStatus, ReaderFails, Failed
  <2>6. CASE NothingLeft
    <3>1. call \in {"execute", "forward"} /\ ~SetsRemain
      BY <1>1, <2>0, <2>1, <2>6 DEF NothingLeft, Returned, FrameOK, TypeOK, Calls
    <3>2. next_param_set_idx' = next_param_set_idx
      BY <2>6 DEF NothingLeft
    <3>. QED  BY <2>0, <2>1, <3>1, <3>2 DEF FrameOK, SetsRemain
  <2>7. ASSUME NEW rows \in BOOLEAN, Accepted(rows)
        PROVE  next_param_set_idx' >= limit \/ HasResultSet'
    <3>1. ~SendsMore(rows) /\ call # "more"
      BY <1>1, <2>1, <2>7 DEF Accepted, Returned
    <3>2. CASE rows
      BY <2>7, <3>1, <3>2 DEF Accepted, HasResultSet
    <3>3. CASE ~rows
      BY <2>1, <2>7, <3>1, <3>3 DEF Accepted, Advance, SendsMore
    <3>. QED  BY <3>2, <3>3
  <2>. QED  BY <1>1, <2>2, <2>3, <2>4, <2>5, <2>6, <2>7, NextCases
<1>2. IInv /\ [Next]_vars
        => [completed' > completed => next_param_set_idx' >= limit \/ HasResultSet']_vars
  BY <1>1
<1>. QED  BY <1>2, Invariance, PTL DEF Spec, ExecuteSendsWholeArray

-----------------------------------------------------------------------------
\* A new statement is a new batch.
LEMMA BatchInit == Init => Batch!Init
BY DEF Init, Batch!Init

\* Every step of a statement is a step of the batch it stands for, or none.
LEMMA BatchStep == IInv /\ [Next]_vars => [Batch!Next]_(Batch!vars)
<1>. SUFFICES ASSUME IInv, [Next]_vars PROVE [Batch!Next]_(Batch!vars)
  OBVIOUS
<1>0. TypeOK /\ FrameOK
  BY DEF IInv
<1>. USE DEF Batch!Next, Batch!vars
<1>1. CASE Administers \/ Redirected \/ UNCHANGED vars
  BY <1>1 DEF Administers, Close, CloseCursor, ClaimForwarded, Disconnect, Connect,
     Prepare, SetParamsetSize, Redirected
<1>2. CASE Begins
  BY <1>2 DEF Begins, BeginExecute, NumResultCols, ExecDirect, StartBatch, ResetReport,
     Batch!Begin
<1>3. CASE MoreResults
  BY <1>3 DEF MoreResults, Batch!Resume
<1>4. CASE NothingLeft
  BY <1>0, <1>4 DEF NothingLeft, Returned, PopFrame, FrameOK, Batch!Leave
<1>5. CASE BuildRequest \/ NoSession \/ BuildFails
  <2>1. next_param_set_idx < MaxSets
    BY <1>0, <1>5 DEF TypeOK, BuildRequest, NoSession, BuildFails, SetsRemain
  <2>2. call # "none" /\ processed' = next_param_set_idx + 1
                      /\ next_param_set_idx' = next_param_set_idx
    BY <1>0, <1>5 DEF BuildRequest, NoSession, BuildFails, CountProcessed, Failed, FrameOK
  <2>. QED  BY <2>1, <2>2 DEF Batch!Try
<1>6. CASE TransportFails \/ RedirectRefused \/ RedirectLimitReached \/ ErrorStatus
           \/ ReaderFails
  BY <1>0, <1>6 DEF TransportFails, RedirectRefused, RedirectLimitReached, ErrorStatus,
     ReaderFails, Failed, PopFrame, FrameOK, Batch!Leave
<1>7. ASSUME NEW rows \in BOOLEAN, Accepted(rows) PROVE [Batch!Next]_(Batch!vars)
  BY <1>0, <1>7 DEF Accepted, Advance, FrameOK, Batch!Confirm
<1>. QED  BY <1>1, <1>2, <1>3, <1>4, <1>5, <1>6, <1>7, NextCases DEF Fails

\* The safety half of ImplementsBatch: a statement works its array off the way
\* ParameterBatch promises.  That its calls end is left to the model checker.
THEOREM StatementIsBatch == Spec => Batch!Init /\ [][Batch!Next]_(Batch!vars)
BY BatchInit, BatchStep, Invariance, PTL DEF Spec
=============================================================================
