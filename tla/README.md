# TLA+ verification of the ClickHouse ODBC driver

This directory holds TLA+ models of the driver under `src/driver`, TLC
configurations that check them on small instances, and TLAPS proofs of the
properties that should hold for every instance. `PROJECT.json` maps every
definition to the lines it models.

The driver is a shared library. An application calls its ODBC functions; the
driver turns a statement into HTTP requests to a ClickHouse server and reads the
response body as rows. It has no threads of its own: every hard behaviour comes
from *sequences* of calls that meet *partial failures* of the network, the server
or the data.

## Inventory

| Component | State | Operations | What makes it correct |
|---|---|---|---|
| Statement execution (`statement.cpp`) | `is_prepared`, `is_executed`, `is_forward_executed`, `next_param_set_idx`, the response, the reader, the application's processed counter and status array | `SQLPrepare`, `SQLExecute`, `SQLExecDirect`, `SQLNumResultCols`, `SQLMoreResults`, `SQLCloseCursor`/`SQLCancel`/`SQLFreeStmt` | sets are sent in order and reported truthfully; one execution per `SQLExecute`; no reader without its response |
| HTTP response (`http_client.cpp`) | curl transfer, `raw`/`raw_pos`, zstd decoder, window `[pos, end)`, `error`, `last_activity` | constructor, `onHeader`/`onBody`, `pump`, `fill`, `finish` | bytes in order; the server's exception text is reported and never data; a clean end is the whole body; failures stick; reads return |
| Result set (`result_set.cpp`, `format/`) | row pool, prefetched rows, row set, positions, `finished` | `fetchRowSet`, `tryPrefetchRows`, `readNextRow` of two formats | rows in order, none lost or repeated; failure is not an end |
| Row delivery (`api/impl/impl.cpp`, `utils/type_info.h`) | fetched counter, row status array, bound buffers, column offsets | `SQLFetch`, `SQLFetchScroll`, `SQLBindCol`, `SQLGetData` | what is reported fits what was written; parts of a value join up to it |
| Environment, handles, dispatch (`driver.h`, `object.h`, `environment.cpp`) | registry of handles, parent and child maps | `SQLAllocHandle`, `SQLFreeHandle`, `SQLFreeStmt(SQL_DROP)`, every call's wrapper | a handle in the registry is a live object; no child outlives its parent; nothing is left behind |
| Diagnostics (`diagnostics.cpp`) | header and status records of each object | reset, insert, copy, get | the records of an object are those of the last call on it |
| Connection, configuration (`connection.cpp`, `config/`, `odbc.cpp`) | fields of the configuration, the curl session, statements and descriptors it owns | `SQLConnect`, `SQLDriverConnect`, `SQLDisconnect`, attributes, verification | it goes where its own settings say, whatever was configured before; a failed connect leaves nothing |
| Descriptors, attributes (`descriptor.cpp`, `attributes.h`) | records, `SQL_DESC_COUNT`, attribute values | bind, set, copy | count and records agree; a request carries what was bound |
| Query text (`statement.cpp`, `escaping/`) | none | pure functions | a mark is a parameter exactly when it is not quoted; the rest is sent as written |
| Type names, conversions, character sets, logging, catalog and information functions, Windows dialog | little or none | pure functions and tables | unit-tested data matters |

How they interact: a statement owns a *response* and a *reader*; the reader's
*result set* reads from the response by reference and pulls bytes when a fetch
prefetches rows; `SQLGetData` reads from the row the fetch made current. The
statement asks its connection for the curl *session*, which the response keeps
alive. Every API call passes a wrapper that finds the object in the registry,
resets its diagnostics first and records the return code last; exceptions thrown
anywhere below are turned into diagnostics there, so **every throw leaves the
state as far as it had got**. This is the driver's main hazard and the models keep
every such point.

The hazards this code is exposed to are listed in `PROJECT.json`, each at its
line, with the properties that cover it.

## What is modelled

### `StatementExecution` - executing a statement

One action per ODBC call that can execute (`BeginExecute`, `ExecDirect`,
`NumResultCols`, `MoreResults`, `ClaimForwarded`) pushes a stack frame (`call`,
`at`, `mutator`, `limit`, `redirect_count`: the locals of `executeQuery`,
`requestNextPackOfResultSets` and `sendParamSet`). The driver's actions advance
it: `BuildRequest`, one action per way an HTTP attempt can go (`Redirected`,
`RedirectRefused`, `RedirectLimitReached`, `TransportFails`, `ErrorStatus`,
`ReaderFails`, `Accepted`), and the early failures (`NoSession`, `BuildFails`).
A statement is used by one thread, so the application acts only between calls;
between calls it may close, re-prepare, resize the array of parameter sets, and
disconnect and reconnect.

The history variables `runs`, `completed`, `claimed`, `sized`, `wanted` and
`over` record what the server did and what the application was told, so that the
properties relate the driver's state to the outside world: `SetsInOrder`,
`ReportAgrees`, `OneExecutionPerExecute`, `MutatorCarried`, `ReaderBacked`,
`ExecuteSendsWholeArray`.

A request whose answer never came may have run (`MayHaveRun` chooses), a request
answered with 200 has run.

`ParameterBatch` is the abstract specification of an array of parameter sets:
tried in order, confirmed at most once and only after being counted, and the
call that works on it ends. `StatementRefinement` maps the processed counter,
`next_param_set_idx` and "a call is on the stack" to it; `ImplementsBatch` is
checked with its liveness, so it also says that every call returns.

### `HttpResponse`, `BodyStream`, `HttpRefinement` - the body of one response

A body unit is a run of bytes named by its place, so the reader's bytes can be
compared with the server's. The server's behaviour is the constant-over-time
`script`: units of data, units of exception text, the ending (complete, broken,
silent), the encoding, where zstd frames end, a unit the decoder rejects, and
progress headers. Actions: one turn of `pump` with what libcurl does in it
(`ConstructorPumps`, `FillPumps`), the branches of `fill` (`HandRaw`, `Decode`,
`DecodeFails`, `FillThrows`, `FillBegins`), the three ends of `finish`, and the
reader's `Consume` and `Pause`. libcurl and zstd are modelled from how the
driver uses them: a decoder may hold output back (`zheld`), may consume without
producing and needs further calls at the end.

`BodyStream` is what a reader may rely on: it is given a prefix of the result
data, in order; then it is told once and for all either that the body ended, if
it ended properly and was given whole, or that it failed. `HttpRefinement` shows
that the response implements it, with the buffer, its compaction, the decoder and
the held-back tail hidden.

### `RowFetch`, `RowCursor` - from the body to the application's row set

Fields of the body are numbered, a row object shows which fields it holds (0 for
an empty field), and objects come back from the pool with what they held before.
`BeginCall` to `BindEnds` are the steps of one `SQLFetch`: taking the rows of the
last row set back, prefetching (`PrefetchRow`, `PrefetchThrows`,
`PrefetchFindsEnd`), moving the row set, and writing the bound columns and the
status array, where a conversion may throw.

`RowCursor` is what fetching promises: the rows the server sent, each once and in
order; anything else only after a failure was reported; the end only when the
result ended properly with every row given; and an answer to every fetch.

### `GetData` - values in parts

Each column's value has a kind, a length and a symbol size. One action per
outcome of `SQLGetData` (`GetPart`, `GetLast`, `GetNoData`, `GetNull`,
`GetRefused`) with the offset arithmetic of `size_t`, and `Fetch`, which moves to
another row. `received` is the history of what the application was given.

### `DescriptorRecords`, `ParameterBindings` - from `SQLBindParameter` to the request

`DescriptorRecords` is a descriptor: `SQL_DESC_COUNT`, and records that stay when
the count is lowered and are initialised when `getRecord` counts them again; and
`setAttr(SQL_DESC_CONCISE_TYPE)`, whose callback clears the data pointer, but only
when the type differs. `ParameterBindings` has one parameter descriptor per
statement (the IPD), an implicit application descriptor (APD) each, and explicit
APDs that statements refer to weakly. `BindParameter` is the whole handler:
unbinding, success, and a failure that leaves the types but restores the counts.
`Prepare` cuts and regrows the IPD; `Reads` and `Value` are what
`getParamsBindingInfo` and `prepareHttpRequest` take from both descriptors for
one parameter of one set. `bindings` remembers what the application asked for.
Only input parameters are modelled, since any other makes every request fail.

### `Handles` - objects, handles and their diagnostics

The registry, the reference of each object to its parent, the maps of the owners
and the weak pointers of statements to explicit descriptors are variables of
their own, because the code updates them in different places (constructors,
destructors, `allocateChild`, `deallocateChild`). `Construct` and `Deallocate` are
those places; `FreeHandle` is every object's `deallocateSelf`, for implicit
descriptors too, whose guard never refuses. An object and all below it are destroyed in
one step, so the order in which destructors run is not in the model, only what they
leave. Each call resets and records diagnostics; `Use` stands for all calls that do nothing else here. `Connect` with
early verification and `GetServerVersion` allocate a statement of the driver's
own, work on it in several steps and free it, with failures at every step. `given`,
`joined` and `told` are what the application knows.

### `ConnectionString`, `Configuration` - where a connection goes

`ConnectionString` reads a connection string as `readConnectionString` does
(keys, braces, doubled symbols, the first of rival keys) and writes the one
`SQLConnect` makes of its arguments. `Configuration` is one connection over time:
`Connect` resets what `resetConfiguration` resets, stores the data source and then
the string (`Merged`), takes the URL apart and fills in defaults (`Completed`), and
keeps what was stored when it throws, at a bad value or at a URL that cannot be parsed;
attributes and `SQLDisconnect` come in between. The history variables are `asked`, what the last connect was
given, and `limit`, the value last given to `SQL_ATTR_CONNECTION_TIMEOUT`. The property
`ConnectStartsAfresh` compares the URL a request is made to (`Uri`) with an independent
definition of precedence (`Expected`), which follows the table of the driver's README and
`connection.h:93`. It leaves out the cases in which the code departs from these, which
are listed below as divergences: a database given beside the URL's (`OneDatabase`), a user without a
password in the URL (`UserIsSeen`), options that no setting names, and a URL that leaves
open which port it means (`PortIsSeen`). `SessionHasItsTimeout` says nothing of the
connection timeout once the attribute for it was set.

### `QueryText` - parameters in a query

`Parameters` and `FinalQuery` follow `extractParametersinfo` and the
replacement of its placeholders symbol by symbol, written with recursive
functions; the state is one text. The properties compare them with definitions
that look at the text alone: which symbols lie inside a literal (`Around`, `Escaped`),
and what a text looks like with the first symbol of each parameter replaced where it
stands (`InPlace`) and the rest of its name left out (`Without`).

## Runs

| Run | Question | Bounds and why they suffice |
|---|---|---|
| `statement` | Are reports, flags, reader and counters right in every interleaving of calls and failures? Does the statement implement `ParameterBatch`? | Arrays of 0 to 3 sets (a first, a middle and a last one), a redirect limit of 2 (one hop and one too many), a set run at most twice, two executions between closings |
| `http` | Every split of a body of up to 3 data and 2 exception units into pieces, in every encoding and with every ending; does it implement `BodyStream`? | `Holdback` 2 is at least the longest exception text, as the driver's comment on `HOLDBACK_SIZE` requires; a timeout of 2 polls tells "waited long enough" from "just waited" |
| `fetch` | Row sets of 0 to 3 rows over bodies of up to 6 fields in 2 columns, ending or failing anywhere; does fetching implement `RowCursor`? | prefetching of 2 rows is smaller and larger than the row sets; a body of three rows ends inside a row, at a row and after a row set |
| `fetch_reuse` | finding, see below | row sets of one row |
| `getdata` | Values of up to 2 symbols, buffers of 1 to 5 bytes, both symbol sizes, NULL | buffers that hold nothing but the terminator, part of the value, exactly the value, and more; odd sizes for two-byte symbols; `SizeModulus` 16 is larger than any value and buffer together, as `size_t` is |
| `getdata_converted` | finding | one column |
| `bindings` | Does a request carry what was bound, as the type it was bound with, for every set? | 2 parameters: one below and one at the highest bound number, with a hole between; 2 buffers tell an old from a new binding; 3 sets; by column and by row; a length and a type that fail. Once an explicit descriptor was allocated or set (and it is freed and allocated again), 1 parameter bound by column; statements that share it are covered by the proof |
| `bindings_stride` | finding | 1 parameter, integer arrays bound to a string with `BufferLength` 0, by column |
| `handles` | Do the registry, the maps, the references and the diagnostics agree, whatever is allocated and freed in whatever order, and whatever fails in a call that works on a statement of its own? | two connections, so that a descriptor may be of another connection than the statement; two statements, one of which may be the driver's own; an application and an implementation role; at most two objects at a time keep diagnostics, since a call disturbs those of at most one other |
| `configuration` | Does a connect depend on its own settings only, and with which precedence? Is what `SQLConnect` was given read back? | pairs of settings (beside a data source or a URL, and rivals), two URLs (with and without user, port and database) and one that cannot be parsed, two data sources or none, names of up to two symbols with each symbol that means something in a connection string |
| `text` | Which marks are parameters, and is everything else sent as written? | every text of up to 6 symbols of 8 kinds: a literal with a doubled quote, an escape and a parameter after it fits |
| `text_quotes` | finding | 5 symbols |

Fairness: the driver's own steps are weakly fair, because the calling thread is
inside the call and every HTTP attempt ends: `curl_multi_poll` waits at most
200 ms and the inactivity timeout ends a silent transfer. Nothing makes an
application call; liveness is only claimed for calls that were made (`ReadsReturn`,
and in `ImplementsBatch` and `ImplementsRowCursor`), except in `ReadingEnds`, which
is about an application that stays on its row and keeps asking.

`CHECK_DEADLOCK FALSE` is used in `Http.cfg`, where the constructor may throw and
there is no object left, and in the two configurations of `QueryText`, whose texts
end at `MaxLength`.

## Findings

Each is a run that TLC refutes, with the line of the repository it contradicts.

* `fetch_reuse`: a row object from the pool is queued before it is read. When
  reading throws it stays queued with the values of an older row, and the next
  fetch succeeds with them, although `object_pool.h:8` promises that contents are
  not reused and `http_client.h:62` that the failure would be thrown again.
* `getdata_converted`: a value that is formatted for the call (a number read as
  text) is filled without the offset, so every part is its beginning again, where
  `column_bindings_it.cpp:22` says that each call returns a successive part.
* `bindings_stride`: the distance between the elements of an array bound by column
  comes from the C type that suits the *SQL* type, not from that of the buffer. An
  array of integers bound to a string parameter with `BufferLength` 0 is read at its
  first element for every set, where the test at
  `statement_parameter_bindings_it.cpp:336` binds an integer array with that length and
  expects the i-th set to have the i-th element. `bindings` therefore binds suiting types
  only.
* `text_quotes`: a quotation mark of the other kind inside a literal replaces the
  one the scan waits for. In `'"' ?`, whose only literal is closed, the parameter is not
  found, where `statement.cpp:299` says that all unquoted marks are replaced. The
  properties of `text` therefore speak of texts whose literals are free of the other
  quote.

### Divergences seen without a run

These came up while modelling: single statements of the code that need no run to be
seen, readings that no sentence of the repository contradicts, and what is outside a
model's reach. No property asserts what is listed here: the properties leave these cases
out, as said with each.

* `SQLGetData` with `BufferLength` 0 subtracts a terminator that was not written from the
  offset (`impl.cpp:1593`). The offset wraps to far beyond the value and the next call
  says `SQL_NO_DATA` with nothing returned, where `column_bindings_it.cpp:24` and `:26` say
  that the last part comes with `SQL_SUCCESS`, and `SQL_NO_DATA` when there is no more.
  `getdata` and the theorems on it start at one byte.
* The guard that should "refuse to manually deallocate an automatically allocated
  descriptor" (`impl.cpp:74`) asks whether a pointer to a reference type converts, and
  never refuses. The descriptor leaves its connection's map and lives on with its
  statement; `DescriptorsAreUsable` covers that and says nothing of the refusal.
* `SQL_ATTR_CONNECTION_TIMEOUT` logs the value it is given (`impl.cpp:165`) and stores the
  configured read timeout (`impl.cpp:166`). `SessionHasItsTimeout` speaks of the connection
  timeout only while the attribute was never set.
* `resetConfiguration` leaves `client_name`, `enable_http_compression`,
  `verify_connection_early`, `huge_int_as_string`, `auto_session_id` and
  `sql_compatibility_settings` as they are (the model has the first two), so a connect
  that does not name them uses those of an earlier one, also of one that failed;
  `connection.h:90` says that it resets all configuration fields. `ConnectStartsAfresh`
  speaks only of options that are named.
* The database of a URL takes the place of an explicit one (`connection.cpp:533`), and
  stays in the URL of every request, so that it makes `SQL_ATTR_CURRENT_CATALOG`
  ineffective too; `connection.h:93` says that values deduced from other fields are for
  fields without a value. `ConnectStartsAfresh` leaves the two together out (`OneDatabase`).
* Compression is on in a new connection (`connection.h:47`), where line 114 of the driver's
  README gives `off` as the default.
* The user in a URL counts only if a colon follows (`connection.cpp:504`), so
  `http://n5@s5` connects as `default`; line 95 of the driver's README says that the URL may
  include a user name. `UserIsSeen` leaves it out.
* After `SQLMoreResults` failed to send a parameter set the statement stays executed
  at that set (`statement.cpp:444`), so the next call sends it again although the
  server may have run it: `SQLExecute` (the first set has a result), `SQLMoreResults`
  (the second set runs, its answer is lost), `SQLMoreResults` (the second set runs
  again). The comment at `statement.cpp:213` explains why a call must not do that
  itself. `ReportAgrees` holds all the same: the set is confirmed once.
* A bind call that fails restores the counts of its descriptors but not the types.
  `impl.cpp:880` relies on setting a type to reset `SQL_DESC_DATA_PTR`, which happens
  only when the C type differs; otherwise the old buffer stays bound, with the new
  SQL type. `RequestCarriesBindings` says nothing of a parameter whose last bind call
  failed; `BufferKeepsItsType` holds for it too.
* `Proto=https` beside a URL `http://h` gives port 80, the usual one of the URL's own
  protocol; the `TODO` at `connection.cpp:516` knows of a like case. `PortIsSeen` leaves both
  out.
* A value that does not fit its bound buffer in a row set of several rows throws out of
  `fetchBindings` (`impl.cpp:1494`, below a `TODO`), with the fetched counter set: the call
  returns `SQL_SUCCESS_WITH_INFO`, and the rest of the row set and the status array stay
  unwritten. `SuccessDescribesRowSet` speaks of `SQL_SUCCESS` only.
* `SQLFreeStmt(SQL_DROP)` destroys the statement inside a call on it, whose wrapper
  then writes the return code into it (`odbc.cpp:82`).
* In a comment of a query, a quote opens a literal for the scan for parameters; the
  rewriting of escape sequences (`escape_sequences.cpp:510`) ignores quotes, so a brace
  in a literal counts; the lexer returns an empty token for a vertical tab; the type
  parser pops an empty stack on an unbalanced parenthesis.

## What is proved

All theorems hold for every value of the constants, but for the conditions that some
state before their `=>`. TLC checks each inductive
invariant on the instances of the runs as well. The invariants themselves are
seldom inductive: they speak of what the application sees between calls, or of the
descriptor now in effect, while a call leaves them in the middle.

**`StatementExecutionProofs`** proves each invariant of the `statement` run, the action
property `ExecuteSendsWholeArray`, and the safety half of the refinement
(`StatementIsBatch`), from `MaxSetsAssumption` alone. `IInv` adds what holds inside a
call:

* `FrameOK`: a running execution works on the array it began with, because the
  application cannot resize it then; in the redirect loop the set exists and
  was counted. This is what keeps every index inside the array.
* `ReaderOK`: in the redirect loop the old reader is gone, so replacing the
  response endangers nothing.
* `ReportOK`: `ReportAgrees` with an exception for the set whose request is on
  its way.
* `ForwardOK`: `is_forward_executed` stands for exactly one execution that no
  `SQLExecute` has reported. This is why a failed re-execution may leave the flags
  of the previous execution in place.
* `MutatorOK`: the mutator is in the frame during a call, in the reader between
  calls.

**`HttpResponseProofs`** proves type correctness, `NoExceptionTextDelivered`,
`ExceptionReported`, `TimeoutIsWaitedFor` and that the response implements
`BodyStream` (`ResponseIsStream`), from the module's assumptions: above all that no
exception text is longer than `Holdback`, which the driver says of the server. The
invariant locates every unit received: `Places` (what was delivered, what is inside
the decoder and what is in the buffer are three adjoining runs of the body, and the
window is the end of the first), `HeldBack` (nothing beyond the result data has left
the buffer, because the tail is kept until the transfer has ended), `Outcome` (a
transfer that ended well is whole), `Decoder` (where it may stand between frames),
`Answers` (what `fill` told so far and may still tell) and `Waiting` (inside a call the
inactivity timer counts only that call's waiting).

**`RowFetchProofs`** proves type correctness, `CurrentRowAgrees`,
`SuccessDescribesRowSet` and the safety half of `ImplementsRowCursor`
(`RowsAreTheServers`), for every number of columns, body, row set size and prefetch
depth. `Queued` is the key: the rows given followed by the rows prefetched are a
queue, whose elements are the server's rows up to the number of rows that can be
read whole, and a longer queue means that a failure was reported. Its steps need
arithmetic of multiples of the number of columns. `Positioned` places the row set at
the end of what was given and the position at its first row; `Filled` says how far
the running call has written the bound buffers.

**`ParameterBindingsProofs`** proves `TypeOK`, `RequestCarriesBindings` and
`BufferKeepsItsType`, for every set of statements, explicit descriptors, buffers and
parameters, so also for statements that share a descriptor which is exchanged,
rebound and freed under them. Descriptors come into effect later, so the inductive
invariant says of *every* descriptor how a record stands to what was asked at its
number (`RecordsAgree`: bound records are counted and equal, what was unbound is empty
as far as it is counted, a failed one is empty or old), and of every prepared
statement that its IPD counts all its parameters (`ImpRecordsSuffice`). It assumes that
the bind calls' types are known ones and that explicit descriptors are none of the
implicit ones.

The same module proves the run's other three properties, with an invariant for
each beside the one above: `TopsAreBound` (in every descriptor), `SqlTypesAgree` (the
IPD record of a bound parameter is counted and has its SQL type, as long as the
statement's APD was never set; `extractParametersinfo` keeps it because a bound
parameter is counted by both descriptors), and `StridesAgree`. The last holds only if
the C type of every bind call suits its SQL type, which the theorem
`SetsReadTheirElements` assumes (`TypesSuit`); `bindings_stride` shows what happens
otherwise.

**`GetDataProofs`** proves `TypeOK`, `PartsAreSuccessive`, `EndMeansAll` and
`LastIsOnce` for every number of columns, length of value and set of buffer sizes.
The invariant says which of three stages the one offset of a column stands for:
`Reading` (it is the length of what was returned, and something is left), `Returned`
(it is one symbol beyond the end, so the next call says `SQL_NO_DATA`) and `Over` (back
at the start). The theorems assume `TextOnly`: no value is converted for the call, where
`getdata_converted` shows the opposite, and that no buffer has the size 0, where the
offset wraps.

**`HandlesProofs`** proves every property of the `handles` run for every set of
environments, connections, statements, descriptors and roles, from the assumption
that objects of different kinds differ. `Tree`: the maps and the references to parents
are one forest of live objects, but for implicit descriptors that were taken out of
their map, and a statement and its implicit descriptors live and die together.
`Held`: what lives is what the application holds, and during a call the statement of
that call. `Sessions` and `Diagnosed` relate sessions and records to what the
application was told while a call is half way. The lemmas about what dies with an
object (`Uprooted`) carry the case of freeing.

**`ConfigurationProofs`** begins with the round trip that `SQLConnect` relies on: three
names, of any length and of whatever symbols, the ones that mean something in a connection
string among them, are written as entries (`Entry`) and read back as they were
(`NamesAreReadBack`). `ConnectionString` is made of recursive functions. That such a
function exists, and with it its recursive equation, is `Recursion`: it takes a set of
step functions instead of an operator, because the library's theorems on recursion cannot
be cited with one, and rests on the least element of a set of numbers (`LeastOf`). On
top of that, `EscapedLaid` says where in the escaped text the symbols of the name are,
`ReadBraced` that reading from there ends at the closing brace with the name,
`EntryRead` what one entry is read as, and `FieldsAreGathered` that the fields of
different keys are all kept.

On top of that the module proves every property of the `configuration` run, for every
connection string, data source, name and URL. `StoreAllIs` to `ConfiguredIs` compute what
one connect leaves in each field: `Reached`, which says of every case what the code does,
also where that is not what is expected. `ReachedIsExpected` then compares it with
`Expected` under the conditions of the property. Since the old value of
a field occurs nowhere but in the two that are kept, `ConnectIsAfresh` needs no more of the
history than that the fields are those of the map. `TimeoutsAgree` is the invariant
behind `SessionTimeoutIsItsOwn`: the session's timeouts are the configuration's read
timeout, which no attribute changes. `GivenIsUsed` combines the round trip with them: a
name that was given hides the one of the data source, the URL's and the default. Assumed
are that URLs which can be parsed are of the schemes `http` and `https`, and that a name
is a sequence of symbols or not given.

**`QueryTextProofs`** proves both properties of the `text` run for texts of every length
over any symbols. A scan that reads on from `i` with a quote in effect is compared with
the text from the end backwards (`ScanListsMarks`): if the symbol at `i` is not escaped
and the quote in effect is the one around it (`Synced`), then what is still found is what
`UnquotedMarks` has from `i` on. `StepKeepsSynced`
is the step of that induction; it has one case per branch of the loop, and the one for a
name (`PlainRun`) is that letters and digits neither escape nor quote anything. What is
sent is then computed parameter by parameter: `ListIsLaidOut` says that each parameter
begins after the name of the one before, and `ReplacedIs`, by induction over the
parameters, that the text put together so far is the part of `InPlace` without
`NameSymbols` up to there (`WithoutIs`, `KeptRun`, `DroppedRun`). The assumption on texts,
`Unmixed`, is the one of the properties; `text_quotes` shows what happens without it.
`LeastOf`, `Induction` and `Recursion` are stated and proved in this module and in
`ConfigurationProofs`, which have no module in common.

Model-checked only: liveness (`ReadsReturn`, `ReadingEnds`, and the fairness of the
abstract specifications `ParameterBatch`, `BodyStream` and `RowCursor`), which is outside
the prover's reach here. Every invariant and action property of a passing run is stated
by a theorem.

## Not modelled

* Conversions between value types and character sets: a data matter of templates and
  ICU calls, without state. `GetData` models how much of a value fits and what is
  returned.
* Decoding of single values in both formats, catalog and information functions, type
  names, the table of escape functions: text and tables, for unit tests.
* The order of destructors when an object is freed with all below it (`object.h:49`): in
  one thread nothing comes between them, so `Handles` has only their result.
* Calls by several threads: the driver has no lock, so any two calls on one
  environment are a data race whatever their steps are; the models are of one thread.
* Which kept-alive connection a request uses is decided inside libcurl; statements of
  one connection meet in the driver only through the session they share, which
  `StatementExecution` sees as present or gone.
* `SQLSetDescField`, `SQLSetDescRec` and `SQLCopyDesc`, whose change callbacks may throw
  half way.
* The Windows dialog, packaging, tests, and everything under `contrib` (Poco, and
  the build glue of curl, ICU, OpenSSL, unixODBC and zstd), which is most of the repository's
  lines and none of the driver's own logic. libcurl and zstd appear as external
  definitions, as the driver uses them.

`PROJECT.json` lists every component with its status.

## How the modules depend on each other

| Abstract | Detailed | Instances and proofs |
|---|---|---|
| `ParameterBatch` | `StatementExecution` | `StatementRefinement`, `MCStatementExecution`, `StatementExecutionProofs` |
| `BodyStream` | `HttpResponse` | `HttpRefinement`, `MCHttpResponse`, `HttpResponseProofs` |
| `RowCursor` | `RowFetch` (instantiates it) | `RowFetchProofs` |
| | `GetData` | `GetDataProofs` |
| | `DescriptorRecords`, `ParameterBindings` | `MCParameterBindings`, `ParameterBindingsProofs` |
| | `Handles` | `MCHandles`, `HandlesProofs` |
| | `ConnectionString`, `Configuration` | `MCConfiguration`, `ConfigurationProofs` |
| | `QueryText` | `QueryTextProofs` |

The seams: the reader of `HttpResponse` is the `readNextRow` of `RowFetch`, whose
`script` (whole fields, then an end or a lasting failure) is what `BodyStream` leaves a
reader to see; `ReaderFails` and `Accepted` of `StatementExecution` stand for a
response whose header was read; the row `GetData` reads is the one `CurrentRowAgrees`
names.

## Plan

What could follow, in order of importance:

1. `SQLSetDescField`, `SQLSetDescRec` and `SQLCopyDesc` on `DescriptorRecords`, with
   change callbacks that throw, and `SQLBindCol` on the same records.
2. The decoding of variable-length values (ULEB128 sizes) on top of `BodyStream`.
3. The nesting of escape sequences and of type names.
