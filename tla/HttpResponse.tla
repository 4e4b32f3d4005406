---------------------------- MODULE HttpResponse ----------------------------
(***************************************************************************)
(* One HttpResponse (src/driver/http_client.cpp): the transfer that pump() *)
(* drives, the buffer onBody() fills, and fill(), which hands the body to  *)
(* the reader through the window [pos, end) while it holds back the bytes  *)
(* that may turn out to be the text of a mid-stream exception.             *)
(*                                                                         *)
(* A body unit stands for a run of bytes and is named by its place, so     *)
(* what the reader gets can be compared with what the server sent; in a    *)
(* zstd body a unit is compressed data that decodes to one unit.           *)
(* The server's part of the transfer is fixed by `script':                 *)
(*   data, exc   units of result data, then units of exception text        *)
(*   ending      what follows them: the proper end of the HTTP message, a  *)
(*               broken transfer, or silence                               *)
(*   encoding    of the body; frames: the units after which a zstd frame   *)
(*               is complete; corrupt: the unit zstd fails on (0: none)    *)
(*   progress    interim responses and progress headers sent at will       *)
(***************************************************************************)
EXTENDS Integers, Sequences, FiniteSets

CONSTANTS
  Scripts,   \* the transfers considered
  Holdback,  \* HOLDBACK_SIZE in units
  Timeout    \* settings.timeout, in polls

ScriptSet ==
  [data : Nat, exc : Nat, ending : {"complete", "broken", "silent"},
   encoding : {"identity", "zstd", "unsupported"}, frames : SUBSET Nat, corrupt : Nat,
   progress : Nat]

ASSUME TimeoutAssumption  == Timeout \in Nat \ {0}
ASSUME HoldbackAssumption == Holdback \in Nat
\* The server truncates the exception text to less than HOLDBACK_SIZE and never
\* finishes the chunked encoding after it.
ASSUME ScriptsAssumption ==
  /\ Scripts \subseteq ScriptSet
  /\ \A s \in Scripts : s.exc <= Holdback /\ (s.exc > 0 => s.ending # "complete")

VARIABLES
  script,
  connected,        \* CURLINFO_PRETRANSFER_TIME is not 0
  progress,         \* interim responses and progress headers still to come
  headers_complete,
  raw_total,        \* body units received
  done, result,     \* the transfer ended, and how
  raw, raw_pos,     \* received units, and how many of them were handed over
  taken,            \* history: units handed over in all
  zheld,            \* units the decoder has consumed but not written out
  zstd_frame_complete,
  window,           \* [pos, end)
  error,            \* what fill() throws from now on
  quiet,            \* time since last_activity, in polls
  at,               \* who runs: the constructor, fill(), or the reader
  waited,           \* history: the part of it spent waiting in this call
  verdict,          \* how the last call of fill() ended
  delivered         \* history: every unit the reader was given

net     == <<script, connected, progress, headers_complete, raw_total, done, result, quiet, waited>>
buffer  == <<raw, raw_pos, taken, zheld, zstd_frame_complete>>
vars    == <<net, buffer, window, error, at, verdict, delivered>>

Errors   == {"clickhouse", "transport", "timeout", "truncated", "corrupt", "encoding"}
Total    == script.data + script.exc
Units(m, n) == [i \in 1 .. n - m |-> m + i]  \* the units after m, up to n

Init ==
  /\ script \in Scripts
  /\ connected = FALSE /\ progress = script.progress /\ headers_complete = FALSE
  /\ raw_total = 0 /\ done = FALSE /\ result = "none" /\ quiet = 0 /\ waited = 0
  /\ raw = <<>> /\ raw_pos = 0 /\ taken = 0 /\ zheld = <<>> /\ zstd_frame_complete = FALSE
  /\ window = <<>> /\ error = "none" /\ at = "construct" /\ verdict = "none"
  /\ delivered = <<>>

(***************************************************************************)
(* pump(): what one curl_multi_perform brings.                             *)
(***************************************************************************)
\* Any progress restarts the inactivity timer.
Receive(hdr, n) ==
  /\ connected' = TRUE
  /\ headers_complete' = (headers_complete \/ hdr)
  /\ raw_total' = raw_total + n
  /\ raw' = raw \o Units(raw_total, raw_total + n)

Activity ==
  \E hdr \in BOOLEAN, n \in 0 .. Total - raw_total :
    /\ n > 0 => headers_complete \/ hdr
    /\ hdr => ~headers_complete
    /\ hdr \/ n > 0
    /\ Receive(hdr, n)
    /\ quiet' = 0 /\ waited' = 0
    /\ \/ UNCHANGED <<done, result>>
       \/ /\ script.ending = "complete" /\ raw_total' = Total
          /\ done' = TRUE /\ result' = "ok"
    /\ UNCHANGED progress

\* Interim responses and X-ClickHouse-Progress headers count as progress too.
ProgressHeader ==
  /\ progress > 0 /\ progress' = progress - 1
  /\ connected' = TRUE /\ quiet' = 0 /\ waited' = 0
  /\ UNCHANGED <<headers_complete, raw_total, raw, done, result>>

\* curl reports the end of the transfer: properly, or because it broke.  A
\* connection that was never established is given up by CURLOPT_CONNECTTIMEOUT.
TransferEnds ==
  /\ \/ script.ending = "complete" /\ headers_complete /\ raw_total = Total /\ result' = "ok"
     \/ script.ending = "broken" /\ result' = "error"
     \/ ~connected /\ result' = "error"
  /\ done' = TRUE
  /\ UNCHANGED <<connected, progress, headers_complete, raw_total, raw, quiet, waited>>

\* Time is counted up to the point where the timeout has expired.
Longer(t) == IF t < Timeout THEN t + 1 ELSE t

PollIsActivity == quiet' = 0  \* mutation of CountPoll
CountPoll == quiet' = Longer(quiet)

\* A poll without any progress.
Quiet ==
  /\ connected
  /\ CountPoll /\ waited' = Longer(waited)
  /\ IF quiet' = Timeout THEN done' = TRUE /\ result' = "timeout" ELSE UNCHANGED <<done, result>>
  /\ UNCHANGED <<connected, progress, headers_complete, raw_total, raw>>

Pump ==
  /\ ~done
  /\ Activity \/ ProgressHeader \/ TransferEnds \/ Quiet
  /\ UNCHANGED <<script, raw_pos, taken, zheld, zstd_frame_complete>>

(***************************************************************************)
(* The constructor: pump() until the final headers are there.              *)
(***************************************************************************)
ConstructorPumps ==
  /\ at = "construct" /\ ~headers_complete /\ ~done
  /\ Pump
  /\ UNCHANGED <<window, error, at, verdict, delivered>>

ConstructorEnds ==
  /\ at = "construct" /\ (headers_complete \/ done)
  /\ at' = IF headers_complete THEN "reader" ELSE "destroyed"
  /\ UNCHANGED <<net, buffer, window, error, verdict, delivered>>

(***************************************************************************)
(* The reader: eof(), get(), read() and readSlow() take units from the     *)
(* window and call fill() when it is empty.                                *)
(***************************************************************************)
Consume ==
  /\ at = "reader" /\ window # <<>>
  /\ \E k \in 1 .. Len(window) : window' = SubSeq(window, k + 1, Len(window))
  /\ UNCHANGED <<net, buffer, error, at, verdict, delivered>>

\* The application lets time pass between two reads.
Pause ==
  /\ at = "reader" /\ quiet' = Longer(quiet)
  /\ UNCHANGED <<script, connected, progress, headers_complete, raw_total, done, result, waited>>
  /\ UNCHANGED <<buffer, window, error, at, verdict, delivered>>

\* The failure of the body is kept and thrown again by every later call.
Throws(e) == /\ error' = e /\ verdict' = "throw" /\ at' = "reader"

FillThrows ==
  /\ at = "reader" /\ window = <<>>
  /\ \/ error # "none" /\ Throws(error)
     \/ error = "none" /\ script.encoding = "unsupported" /\ Throws("encoding")
  /\ UNCHANGED <<net, buffer, window, delivered>>

CompactKeepsPosition == raw' = SubSeq(raw, raw_pos + 1, Len(raw)) /\ raw_pos' = raw_pos  \* mutation of Compact
Compact == raw' = SubSeq(raw, raw_pos + 1, Len(raw)) /\ raw_pos' = 0

KeepTimer == quiet' = quiet  \* mutation of RestartTimer
RestartTimer == quiet' = 0

BodyReadable == error = "none" /\ script.encoding # "unsupported"

\* Only the time spent waiting here counts towards the inactivity timeout.
FillBegins ==
  /\ at = "reader" /\ window = <<>> /\ BodyReadable
  /\ Compact
  /\ RestartTimer /\ waited' = 0
  /\ at' = "fill"
  /\ UNCHANGED <<script, connected, progress, headers_complete, raw_total, done, result, taken,
                 zheld, zstd_frame_complete, window, error, verdict, delivered>>

(***************************************************************************)
(* fill(), one round of its loop per action.                               *)
(***************************************************************************)
Available == Len(raw) - raw_pos

NothingHeldBack == Available  \* mutation of Allowed
HoldsBackLess ==  \* mutation of Allowed
  IF done THEN Available ELSE IF Available >= Holdback THEN Available - Holdback + 1 ELSE 0
Allowed ==
  IF done THEN Available ELSE IF Available > Holdback THEN Available - Holdback ELSE 0

Readable == ~done \/ result = "ok"
Zstd     == script.encoding = "zstd"

Hand(units) ==
  /\ window' = units /\ delivered' = delivered \o units
  /\ at' = "reader" /\ verdict' = "data"

Take(n) == raw_pos' = raw_pos + n /\ taken' = taken + n

HandRaw ==
  /\ at = "fill" /\ Readable /\ ~Zstd /\ Allowed > 0
  /\ Hand(SubSeq(raw, raw_pos + 1, raw_pos + Allowed))
  /\ Take(Allowed)
  /\ UNCHANGED <<net, raw, zheld, zstd_frame_complete, error>>

\* ZSTD_decompressStream may read without writing and write what it read
\* before, but it stops at the end of a frame and it never stands still while
\* there is input, or output it owes for a frame that is complete.
DecoderMoves(c, e) ==
  /\ c <= Allowed /\ e <= Len(zheld) + c
  /\ \A f \in script.frames : ~(taken < f /\ f < taken + c)
  /\ script.corrupt \notin taken + 1 .. taken + c
  /\ c + e > 0

FrameDone(c, left) == taken + c \in script.frames /\ left = <<>>

\* A round of the loop that the decoder makes progress in; without output the
\* loop goes on.
Decode ==
  /\ at = "fill" /\ Readable /\ Zstd /\ (Allowed > 0 \/ done)
  /\ \E c \in 0 .. Allowed, e \in 0 .. Len(zheld) + Allowed :
       LET input == zheld \o SubSeq(raw, raw_pos + 1, raw_pos + c)
           left  == SubSeq(input, e + 1, Len(input))
       IN /\ DecoderMoves(c, e)
          /\ Take(c)
          /\ zheld' = left
          /\ zstd_frame_complete' = FrameDone(c, left)
          /\ IF e > 0 THEN Hand(SubSeq(input, 1, e))
                      ELSE UNCHANGED <<window, delivered, at, verdict>>
  /\ UNCHANGED <<net, raw, error>>

DecodeFails ==
  /\ at = "fill" /\ Readable /\ Zstd
  /\ script.corrupt \in taken + 1 .. taken + Allowed
  /\ Throws("corrupt")
  /\ UNCHANGED <<net, buffer, window, delivered>>

\* The decoder cannot give anything now: it has no input it may use, and what
\* it holds back belongs to a block whose end it has not seen.
DecoderStuck == Allowed = 0 /\ (zheld = <<>> \/ taken \notin script.frames)

NothingNow == ~Readable \/ IF Zstd THEN DecoderStuck \/ (~done /\ Allowed = 0) ELSE Allowed = 0

FillPumps ==
  /\ at = "fill" /\ ~done /\ NothingNow
  /\ Pump
  /\ UNCHANGED <<window, error, at, verdict, delivered>>

(***************************************************************************)
(* finish(): the transfer is over and nothing more can be handed out.      *)
(***************************************************************************)
\* decodeRemaining(): what was received but not handed over.
FailedTail == zheld \o SubSeq(raw, raw_pos + 1, Len(raw))

InTail(units) == \A u \in units : \E i \in DOMAIN FailedTail : FailedTail[i] = u

\* findClickHouseExceptionMessage() recognises the complete text; of a partial
\* one older servers' marker may be all there is, and that is enough for it.
ExceptionUnits == script.data + 1 .. Total
ReportedErrors ==
  IF script.exc = 0 THEN {}
  ELSE IF script.corrupt = 0 /\ InTail(ExceptionUnits) THEN {"clickhouse"}
  ELSE IF \E u \in ExceptionUnits : InTail({u}) THEN {"clickhouse", "plain"} ELSE {}

PlainError == IF result = "timeout" THEN "timeout" ELSE "transport"

FinishFailed ==
  /\ at = "fill" /\ done /\ result # "ok"
  /\ \/ "clickhouse" \in ReportedErrors /\ Throws("clickhouse")
     \/ ReportedErrors # {"clickhouse"} /\ Throws(PlainError)
  /\ UNCHANGED <<net, buffer, window, delivered>>

NoTruncation == FALSE  \* mutation of Truncated
Truncated == Zstd /\ raw_total > 0 /\ ~zstd_frame_complete

FinishTruncated ==
  /\ at = "fill" /\ done /\ result = "ok" /\ NothingNow /\ Truncated
  /\ Throws("truncated")
  /\ UNCHANGED <<net, buffer, window, delivered>>

\* fill() returns false; the reader may call it again.
FinishCleanly ==
  /\ at = "fill" /\ done /\ result = "ok" /\ NothingNow /\ ~Truncated
  /\ at' = "reader" /\ verdict' = "end"
  /\ UNCHANGED <<net, buffer, window, error, delivered>>

-----------------------------------------------------------------------------
Constructor == ConstructorPumps \/ ConstructorEnds
Fill ==
  \/ HandRaw \/ Decode \/ DecodeFails \/ FillPumps
  \/ FinishFailed \/ FinishTruncated \/ FinishCleanly
Reader == Consume \/ Pause \/ FillThrows \/ FillBegins

Next == Constructor \/ Fill \/ Reader

\* The thread inside the constructor or fill() keeps running: curl_multi_poll
\* waits at most 200 ms.  Nothing makes the reader call.
Spec == Init /\ [][Next]_vars /\ WF_vars(Constructor) /\ WF_vars(Fill)

-----------------------------------------------------------------------------
TypeOK ==
  /\ script \in Scripts
  /\ connected \in BOOLEAN /\ progress \in Nat /\ headers_complete \in BOOLEAN
  /\ raw_total \in 0 .. Total /\ done \in BOOLEAN
  /\ result \in {"none", "ok", "error", "timeout"}
  /\ raw \in Seq(1 .. Total) /\ raw_pos \in 0 .. Len(raw) /\ taken \in 0 .. Total
  /\ zheld \in Seq(1 .. Total) /\ zstd_frame_complete \in BOOLEAN
  /\ window \in Seq(1 .. Total) /\ error \in Errors \cup {"none"}
  /\ quiet \in 0 .. Timeout /\ waited \in 0 .. Timeout
  /\ at \in {"construct", "reader", "fill", "destroyed"}
  /\ verdict \in {"none", "data", "end", "throw"}
  /\ delivered \in Seq(1 .. Total)

\* No part of the text of a mid-stream exception ever reaches the reader as data.
NoExceptionTextDelivered == Len(delivered) <= script.data

\* When the whole exception text arrived before the transfer failed (even by
\* the timeout) and can be decoded, the reader is told the ClickHouse exception.
ExceptionReported ==
  error \in {"transport", "timeout"} =>
    script.exc = 0 \/ raw_total < Total \/ script.corrupt # 0

\* The inactivity timeout is never charged with time the application let pass
\* between two reads.
TimeoutIsWaitedFor ==
  [][result' = "timeout" /\ result # "timeout" => waited' = Timeout]_vars

\* Whatever the server does or leaves undone, a read that waits gets an answer.
ReadsReturn == at \in {"construct", "fill"} ~> at \in {"reader", "destroyed"}
=============================================================================
