-------------------------- MODULE HttpResponseProofs --------------------------
(***************************************************************************)
(* Proofs about HttpResponse, for every set of transfers, holdback and     *)
(* timeout: what is delivered is a prefix of the result data, however the  *)
(* body arrives, and the response implements BodyStream.                   *)
(*                                                                         *)
(* The inductive invariant locates every unit the client has received: it  *)
(* is delivered, inside the decoder or in the buffer (Places); it bounds   *)
(* what was taken from the buffer by the result data (HeldBack); and it    *)
(* relates the outcome of the transfer to what the calls of fill() told.   *)
(***************************************************************************)
EXTENDS HttpRefinement, SequenceTheorems, TLAPS

given    == Len(delivered)
consumed == given - Len(window)  \* by the reader
dropped  == taken - raw_pos      \* from the front of the buffer

\* What was received is delivered, then inside the decoder, then in the buffer, whose
\* first raw_pos units were handed over; the window is the end of what was delivered.
Places ==
  /\ given <= taken /\ raw_pos <= taken /\ taken <= raw_total
  /\ Len(window) <= given
  /\ delivered = Units(0, given)
  /\ zheld = Units(given, taken)
  /\ raw = Units(dropped, raw_total)
  /\ window = Units(consumed, given)

\* No unit of an exception's text leaves the buffer.
HeldBack == taken <= script.data

Outcome ==
  /\ done <=> result # "none"
  /\ result = "ok" => raw_total = Total /\ script.ending = "complete"

Decoder ==
  /\ zstd_frame_complete => Zstd /\ zheld = <<>> /\ taken \in script.frames
  /\ ~Zstd => zheld = <<>>

\* What the calls of fill() said, and what they may say from now on.
Answers ==
  /\ at = "fill" => BodyReadable
  /\ error # "none" <=> verdict = "throw"
  /\ error \in {"transport", "timeout"} => done
  /\ verdict = "end" => /\ BodyReadable /\ result = "ok" /\ taken = raw_total
                        /\ zheld = <<>> /\ ~Truncated

\* Inside a call the inactivity timer counts what was waited in that call.
Waiting == at \in {"construct", "fill"} => quiet = waited

IInv ==
  /\ TypeOK /\ Places /\ HeldBack /\ Outcome /\ Decoder /\ Answers /\ Waiting
  /\ ExceptionReported

-----------------------------------------------------------------------------
(***************************************************************************)
(* Runs of units                                                           *)
(***************************************************************************)

\* The units after m, up to n.
LEMMA UnitsAre ==
  ASSUME NEW m \in Nat, NEW n \in Nat, NEW t \in Nat, m <= n, n <= t
  PROVE  /\ Units(m, n) \in Seq(1 .. t)
         /\ Len(Units(m, n)) = n - m
         /\ \A i \in 1 .. n - m : Units(m, n)[i] = m + i
BY DEF Units

\* A part of a run is a run.
IsPart(m, n, a, b) == SubSeq(Units(m, n), a + 1, b) = Units(m + a, m + b)

LEMMA PartOfUnits ==
  ASSUME NEW m \in Nat, NEW n \in Nat, m <= n, NEW a \in Nat, NEW b \in Nat, a <= b, b <= n - m
  PROVE  IsPart(m, n, a, b)
<1> DEFINE part == SubSeq(Units(m, n), a + 1, b)
<1>1. \A i \in a + 1 .. b : Units(m, n)[i] = m + i /\ Units(m, n)[i] \in 1 .. n
  BY DEF Units
<1>2. /\ part \in Seq(1 .. n)
      /\ Len(part) = b - a
      /\ \A i \in 1 .. b - a : part[i] = Units(m, n)[a + 1 + i - 1]
  BY <1>1, SubSeqProperties, SMTT(30)
<1>3. /\ Units(m + a, m + b) \in Seq(1 .. n)
      /\ Len(Units(m + a, m + b)) = b - a
      /\ \A i \in 1 .. b - a : Units(m + a, m + b)[i] = m + a + i
  BY UnitsAre, m + a \in Nat, m + b \in Nat, m + a <= m + b, m + b <= n, (m + b) - (m + a) = b - a
<1>4. \A i \in 1 .. b - a : part[i] = m + a + i
  BY <1>1, <1>2
<1> HIDE DEF part
<1>5. part = Units(m + a, m + b)
  <2> DEFINE run == Units(m + a, m + b)
  <2>1. part \in Seq(1 .. n) /\ run \in Seq(1 .. n) /\ Len(part) = Len(run)
    BY <1>2, <1>3, Zenon
  <2>2. \A i \in 1 .. Len(part) : part[i] = run[i]
    BY <1>2, <1>3, <1>4, Zenon
  <2> HIDE DEF run
  <2>3. part = run
    BY <2>1, <2>2, SeqEqual, Zenon
  <2> QED  BY <2>3 DEF run
<1> QED  BY <1>5 DEF part, IsPart

\* The first k units of a run.
LEMMA FirstUnits ==
  ASSUME NEW m \in Nat, NEW n \in Nat, NEW k \in Nat, m + k <= n
  PROVE  SubSeq(Units(m, n), 1, k) = Units(m, m + k)
<1> DEFINE part == SubSeq(Units(m, n), 1, k)
<1>1. \A i \in 1 .. k : Units(m, n)[i] = m + i /\ Units(m, n)[i] \in 1 .. n
  BY DEF Units
<1>2. /\ part \in Seq(1 .. n)
      /\ Len(part) = k
      /\ \A i \in 1 .. k : part[i] = Units(m, n)[1 + i - 1]
  BY <1>1, SubSeqProperties, SMTT(30)
<1>3. /\ Units(m, m + k) \in Seq(1 .. n)
      /\ Len(Units(m, m + k)) = k
      /\ \A i \in 1 .. k : Units(m, m + k)[i] = m + i
  BY UnitsAre, m + k \in Nat, m <= m + k, (m + k) - m = k
<1>4. \A i \in 1 .. k : part[i] = m + i
  BY <1>1, <1>2
<1> HIDE DEF part
<1> QED  BY <1>2, <1>3, <1>4, SeqEqual DEF part

\* All but the first k units of a run.
LEMMA LaterUnits ==
  ASSUME NEW m \in Nat, NEW n \in Nat, NEW k \in Nat, m + k <= n
  PROVE  SubSeq(Units(m, n), k + 1, Len(Units(m, n))) = Units(m + k, n)
<1> DEFINE l == Len(Units(m, n))  part == SubSeq(Units(m, n), k + 1, l)
<1>1. l \in Nat /\ l = n - m
  BY m <= n, UnitsAre
<1> HIDE DEF l
<1>2. \A i \in k + 1 .. l : Units(m, n)[i] = m + i /\ Units(m, n)[i] \in 1 .. n
  BY <1>1 DEF Units
<1>3. /\ part \in Seq(1 .. n)
      /\ Len(part) = l - k
      /\ \A i \in 1 .. l - k : part[i] = Units(m, n)[k + 1 + i - 1]
  BY <1>1, <1>2, SubSeqProperties, SMTT(30)
<1>4. /\ Units(m + k, n) \in Seq(1 .. n)
      /\ Len(Units(m + k, n)) = l - k
      /\ \A i \in 1 .. l - k : Units(m + k, n)[i] = m + k + i
  BY <1>1, UnitsAre, m + k \in Nat, n - (m + k) = l - k
<1>5. \A i \in 1 .. l - k : part[i] = m + k + i
  BY <1>1, <1>2, <1>3
<1> HIDE DEF part
<1> QED  BY <1>3, <1>4, <1>5, SeqEqual, ZenonT(60) DEF part, l

\* Two runs that meet make one.
LEMMA UnitsMeet ==
  ASSUME NEW m \in Nat, NEW k \in Nat, NEW n \in Nat, m <= k, k <= n
  PROVE  Units(m, k) \o Units(k, n) = Units(m, n)
<1> DEFINE a == Units(m, k)  b == Units(k, n)  c == Units(m, n)
<1>1. /\ a \in Seq(1 .. n) /\ Len(a) = k - m
      /\ \A i \in 1 .. k - m : a[i] = m + i
  BY UnitsAre
<1>2. /\ b \in Seq(1 .. n) /\ Len(b) = n - k
      /\ \A i \in 1 .. n - k : b[i] = k + i
  BY UnitsAre
<1>3. m <= n
  OBVIOUS
<1>4. /\ c \in Seq(1 .. n) /\ Len(c) = n - m
      /\ \A i \in 1 .. n - m : c[i] = m + i
  BY UnitsAre, <1>3
<1> HIDE DEF a, b, c
<1>5. /\ a \o b \in Seq(1 .. n)
      /\ Len(a \o b) = Len(a) + Len(b)
      /\ \A i \in 1 .. Len(a) + Len(b) : (a \o b)[i] = IF i <= Len(a) THEN a[i] ELSE b[i - Len(a)]
  BY <1>1, <1>2, ConcatProperties, Zenon
<1>6. Len(a) + Len(b) = n - m
  BY <1>1, <1>2
<1>7. ASSUME NEW i \in 1 .. n - m
      PROVE  (a \o b)[i] = c[i]
  <2>1. (a \o b)[i] = IF i <= k - m THEN a[i] ELSE b[i - (k - m)]
    BY <1>1, <1>5, <1>6
  <2>2. CASE i <= k - m
    <3>1. i \in 1 .. k - m
      BY <2>2
    <3> QED  BY <1>1, <1>4, <2>1, <2>2, <3>1
  <2>3. CASE ~(i <= k - m)
    <3>1. i - (k - m) \in 1 .. n - k
      BY <2>3
    <3>2. b[i - (k - m)] = k + (i - (k - m))
      BY <1>2, <3>1
    <3> QED  BY <1>4, <2>1, <2>3, <3>2
  <2> QED  BY <2>2, <2>3
<1>8. Len(a \o b) = Len(c)
  BY <1>4, <1>5, <1>6
<1>9. a \o b = c
  BY <1>4, <1>5, <1>6, <1>7, <1>8, SeqEqual
<1> QED  BY <1>9 DEF a, b, c

LEMMA NoUnits ==
  ASSUME NEW n \in Nat
  PROVE  Units(n, n) = <<>>
<1>1. Units(n, n) \in Seq(1 .. n) /\ Len(Units(n, n)) = 0
  BY UnitsAre
<1> QED  BY <1>1, EmptySeq

-----------------------------------------------------------------------------
(***************************************************************************)
(* The invariant                                                           *)
(***************************************************************************)

\* What the server does is a script.
LEMMA ScriptIs ==
  ASSUME TypeOK
  PROVE  /\ script.data \in Nat /\ script.exc \in Nat /\ Total \in Nat
         /\ script.exc <= Holdback
         /\ script.ending = "complete" => script.exc = 0
         /\ script.frames \subseteq Nat /\ script.corrupt \in Nat
         /\ script.ending \in {"complete", "broken", "silent"}
<1>1. script \in ScriptSet /\ script \in Scripts
  BY ScriptsAssumption DEF TypeOK
<1>2. /\ script.data \in Nat /\ script.exc \in Nat /\ script.frames \subseteq Nat
      /\ script.corrupt \in Nat /\ script.ending \in {"complete", "broken", "silent"}
  BY <1>1 DEF ScriptSet
<1>3. script.exc <= Holdback /\ (script.exc > 0 => script.ending # "complete")
  BY <1>1, ScriptsAssumption
<1> QED  BY <1>2, <1>3 DEF Total

\* The counts of the invariant, and the lengths that follow from them.
LEMMA CountsAre ==
  ASSUME TypeOK, Places
  PROVE  /\ given \in Nat /\ taken \in Nat /\ raw_pos \in Nat /\ raw_total \in Nat
         /\ raw_total <= Total
         /\ dropped \in Nat /\ dropped <= taken /\ dropped + raw_pos = taken /\ dropped + raw_pos <= raw_total
         /\ consumed \in Nat /\ consumed <= given
         /\ Len(zheld) = taken - given
         /\ Len(raw) = raw_total - dropped
         /\ Available = raw_total - taken
         /\ Available \in Nat
<1>1. given \in Nat /\ taken \in Nat /\ raw_pos \in Nat /\ raw_total \in Nat /\ raw_total <= Total
  BY ScriptIs DEF TypeOK, given
<1>2. Len(zheld) = taken - given
  BY <1>1, UnitsAre DEF Places
<1>3. consumed \in Nat /\ consumed <= given
  <2>1. Len(window) \in Nat
    BY DEF TypeOK
  <2> QED  BY <1>1, <2>1 DEF Places, consumed
<1>4. /\ dropped \in Nat /\ dropped <= taken
      /\ dropped + raw_pos = taken /\ dropped + raw_pos <= raw_total
  BY <1>1 DEF Places, dropped
<1>5. Len(raw) = raw_total - dropped
  <2>1. dropped <= raw_total
    BY <1>1, <1>4 DEF Places
  <2>2. Len(Units(dropped, raw_total)) = raw_total - dropped
    BY <1>1, <1>4, <2>1, UnitsAre
  <2> QED  BY <2>2 DEF Places
<1> QED  BY <1>1, <1>2, <1>3, <1>4, <1>5 DEF Available, Places

\* Whatever pump() brings, the buffer grows at its end only and the reader's part of
\* the response is left alone.
LEMMA PumpKeeps ==
  ASSUME IInv, Pump, at \in {"construct", "fill"},
         UNCHANGED <<window, error, at, verdict, delivered>>
  PROVE  IInv'
<1> USE DEF IInv
<1>0. UNCHANGED <<script, raw_pos, taken, zheld, zstd_frame_complete>> /\ done = FALSE
  BY DEF Pump, TypeOK
<1>1. Total' = Total /\ given' = given /\ Zstd' = Zstd /\ dropped' = dropped /\ consumed' = consumed
  BY <1>0 DEF Total, given, Zstd, dropped, consumed
<1>2. /\ connected' \in BOOLEAN /\ progress' \in Nat /\ headers_complete' \in BOOLEAN
      /\ raw_total' \in 0 .. Total /\ raw_total <= raw_total'
      /\ done' \in BOOLEAN /\ result' \in {"none", "ok", "error", "timeout"}
      /\ quiet' \in 0 .. Timeout /\ waited' = quiet'
      /\ raw' = Units(dropped, raw_total')
      /\ done' <=> result' # "none"
      /\ result' = "ok" => raw_total' = Total /\ script.ending = "complete"
  <2>1. raw_total \in Nat /\ Total \in Nat /\ quiet \in 0 .. Timeout /\ quiet = waited
    BY ScriptIs DEF TypeOK, Waiting
  <2>2. raw_total \in 0 .. Total /\ result = "none"
    BY <1>0 DEF TypeOK, Outcome
  <2>3. CASE Activity
    <3>1. PICK hdr \in BOOLEAN, n \in 0 .. Total - raw_total :
            /\ Receive(hdr, n) /\ quiet' = 0 /\ waited' = 0 /\ UNCHANGED progress
            /\ \/ UNCHANGED <<done, result>>
               \/ /\ script.ending = "complete" /\ raw_total' = Total
                  /\ done' = TRUE /\ result' = "ok"
      BY <2>3 DEF Activity
    <3>2. /\ connected' = TRUE /\ headers_complete' = (headers_complete \/ hdr)
          /\ raw_total' = raw_total + n
          /\ raw' = raw \o Units(raw_total, raw_total')
      BY <3>1 DEF Receive
    <3>3. raw_total' \in 0 .. Total /\ raw_total <= raw_total'
      BY <2>1, <2>2, <3>2
    <3>4. raw' = Units(dropped, raw_total')
      <4>1. dropped \in Nat /\ dropped <= raw_total /\ raw_total' \in Nat
        BY <2>1, <3>3, CountsAre DEF Places
      <4>2. Units(dropped, raw_total) \o Units(raw_total, raw_total') = Units(dropped, raw_total')
        BY <2>1, <3>3, <4>1, UnitsMeet
      <4> QED  BY <3>2, <4>2 DEF Places
    <3>5. 0 \in 0 .. Timeout /\ quiet' = 0 /\ waited' = 0
      BY <3>1, TimeoutAssumption
    <3>6. headers_complete' \in BOOLEAN /\ connected' \in BOOLEAN /\ progress' \in Nat
      BY <3>1, <3>2 DEF TypeOK
    <3>7. /\ done' \in BOOLEAN /\ result' \in {"none", "ok", "error", "timeout"}
          /\ done' <=> result' # "none"
          /\ result' = "ok" => raw_total' = Total /\ script.ending = "complete"
      BY <1>0, <2>2, <3>1
    <3> QED  BY <3>3, <3>4, <3>5, <3>6, <3>7
  <2>4. CASE ProgressHeader
    <3>1. raw' = Units(dropped, raw_total')
      BY <2>4 DEF ProgressHeader, Places
    <3> QED  BY <1>0, <2>1, <2>2, <2>4, <3>1, TimeoutAssumption DEF ProgressHeader, TypeOK
  <2>5. CASE TransferEnds
    <3>1. raw' = Units(dropped, raw_total')
      BY <2>5 DEF TransferEnds, Places
    <3> QED  BY <1>0, <2>1, <2>2, <2>5, <3>1 DEF TransferEnds, TypeOK
  <2>6. CASE Quiet
    <3>1. raw' = Units(dropped, raw_total')
      BY <2>6 DEF Quiet, Places
    <3>2. quiet' = Longer(quiet) /\ waited' = Longer(quiet)
      BY <2>1, <2>6 DEF Quiet, CountPoll
    <3>3. Longer(quiet) \in 0 .. Timeout
      BY <2>1, TimeoutAssumption DEF Longer
    <3>4. /\ done' \in BOOLEAN /\ result' \in {"none", "timeout"}
          /\ done' <=> result' # "none"
      BY <1>0, <2>2, <2>6 DEF Quiet
    <3> QED  BY <2>1, <2>2, <2>6, <3>1, <3>2, <3>3, <3>4 DEF Quiet, TypeOK
  <2> QED  BY <2>3, <2>4, <2>5, <2>6 DEF Pump
<1>3. Places'
  <2>1. taken <= raw_total'
    BY <1>2, CountsAre, ScriptIs DEF Places
  <2> QED  BY <1>0, <1>1, <1>2, <2>1 DEF Places
<1>4. TypeOK'
  <2>1. dropped \in Nat /\ dropped <= raw_total' /\ raw_total' \in Nat /\ raw_total' <= Total
    BY <1>2, CountsAre, ScriptIs DEF Places
  <2>2. raw' \in Seq(1 .. Total) /\ Len(raw') = raw_total' - dropped
    BY <1>2, <2>1, ScriptIs, UnitsAre
  <2>3. raw_pos \in 0 .. Len(raw')
    <3>1. raw_pos \in Nat /\ dropped + raw_pos <= raw_total /\ raw_total \in Nat
      BY CountsAre
    <3>2. \A n \in Nat : raw_total <= n => raw_pos \in 0 .. n - dropped
      BY <2>1, <3>1
    <3> QED  BY <1>2, <2>1, <2>2, <3>2, Zenon
  <2> QED  BY <1>0, <1>1, <1>2, <2>2, <2>3 DEF TypeOK
<1>5. HeldBack' /\ Decoder' /\ Outcome' /\ Waiting'
  BY <1>0, <1>1, <1>2 DEF HeldBack, Decoder, Outcome, Waiting
<1>6. Answers' /\ ExceptionReported'
  <2>1. error \notin {"transport", "timeout"} /\ verdict # "end"
    BY <1>0 DEF Answers, Outcome
  <2> QED  BY <1>0, <2>1 DEF Answers, ExceptionReported, BodyReadable
<1> QED  BY <1>3, <1>4, <1>5, <1>6

\* The holdback keeps the exception text in the buffer, and only a body that ended
\* properly, which has none, is taken to its end.
LEMMA AllowedIsData ==
  ASSUME IInv, Readable
  PROVE  Allowed \in Nat /\ Allowed <= Available /\ taken + Allowed <= script.data
<1> USE DEF IInv
<1>1. /\ taken \in Nat /\ raw_total \in Nat /\ raw_total <= Total /\ taken <= script.data
      /\ Available \in Nat /\ Available = raw_total - taken
  BY CountsAre DEF HeldBack
<1>2. /\ script.data \in Nat /\ script.exc \in Nat /\ script.exc <= Holdback
      /\ script.ending = "complete" => script.exc = 0
  BY ScriptIs
<1>3. CASE done
  <2>1. script.exc = 0 /\ Allowed = Available
    BY <1>2, <1>3 DEF Readable, Outcome, Allowed
  <2> QED  BY <1>1, <1>2, <2>1 DEF Total
<1>4. CASE ~done
  <2>1. CASE Available > Holdback
    <3>1. Allowed = Available - Holdback
      BY <1>4, <2>1 DEF Allowed
    <3> QED  BY <1>1, <1>2, <2>1, <3>1, HoldbackAssumption DEF Total
  <2>2. CASE ~(Available > Holdback)
    <3>1. Allowed = 0
      BY <1>4, <2>2 DEF Allowed
    <3> QED  BY <1>1, <3>1
  <2> QED  BY <2>1, <2>2
<1> QED  BY <1>3, <1>4

\* What the decoder works on: the next c units of the buffer.
LEMMA NextInBuffer ==
  ASSUME TypeOK, Places, NEW c \in Nat, c <= Available
  PROVE  SubSeq(raw, raw_pos + 1, raw_pos + c) = Units(taken, taken + c)
<1>1. /\ dropped \in Nat /\ raw_pos \in Nat /\ raw_total \in Nat /\ dropped + raw_pos = taken
      /\ dropped <= raw_total /\ raw = Units(dropped, raw_total)
      /\ raw_pos + c <= raw_total - dropped
  BY CountsAre DEF Places
<1>2. PICK m \in Nat : m = dropped
  BY <1>1
<1>3. PICK b \in Nat : b = raw_pos + c
  BY <1>1
<1>4. raw_pos <= b /\ b <= raw_total - m /\ m <= raw_total
  BY <1>1, <1>2, <1>3
<1>5. SubSeq(Units(m, raw_total), raw_pos + 1, b) = Units(m + raw_pos, m + b)
  <2> HIDE DEF Places, TypeOK
  <2>1. IsPart(m, raw_total, raw_pos, b)
    BY <1>1, <1>4, PartOfUnits
  <2> QED  BY <2>1 DEF IsPart
<1>6. m + raw_pos = taken /\ m + b = taken + c
  BY <1>1, <1>2, <1>3
<1> QED  BY <1>1, <1>2, <1>3, <1>5, <1>6

\* All of the buffer that was not handed over.
LEMMA RestOfBuffer ==
  ASSUME TypeOK, Places
  PROVE  SubSeq(raw, raw_pos + 1, Len(raw)) = Units(taken, raw_total)
<1>1. Available \in Nat /\ Len(raw) = raw_pos + Available /\ taken + Available = raw_total
  <2>1. /\ taken \in Nat /\ raw_pos \in Nat /\ raw_total \in Nat /\ dropped \in Nat
        /\ dropped + raw_pos = taken /\ Available = raw_total - taken
        /\ Len(raw) = raw_total - dropped
    BY CountsAre
  <2>2. raw_total - dropped = raw_pos + (raw_total - (dropped + raw_pos))
    BY <2>1
  <2>3. Available \in Nat
    BY CountsAre
  <2> QED  BY <2>1, <2>2, <2>3
<1> QED  BY <1>1, NextInBuffer

\* c more units leave the buffer for the decoder and e units leave it for the reader.
Moves(c, e) ==
  /\ c <= Available /\ taken + c <= script.data /\ given + e <= taken + c /\ c + e > 0
  /\ UNCHANGED <<net, raw, error>> /\ Take(c)
  /\ zheld' = Units(given + e, taken + c) /\ zstd_frame_complete' \in BOOLEAN
  /\ \/ /\ e > 0
        /\ window' = Units(given, given + e) /\ delivered' = delivered \o window'
        /\ at' = "reader" /\ verdict' = "data"
     \/ e = 0 /\ UNCHANGED <<window, delivered, at, verdict>>

LEMMA GivenOn ==
  ASSUME IInv, at = "fill", NEW c \in Nat, NEW e \in Nat, Moves(c, e)
  PROVE  TypeOK' /\ Places' /\ HeldBack' /\ given' = given + e /\ taken' = taken + c
<1> USE DEF IInv
<1>0. /\ given \in Nat /\ taken \in Nat /\ raw_pos \in Nat /\ raw_total \in Nat /\ raw_total <= Total
      /\ dropped \in Nat /\ dropped + raw_pos = taken
      /\ consumed \in Nat /\ consumed <= given
      /\ Len(raw) = raw_total - dropped
      /\ Available = raw_total - taken
      /\ Total \in Nat
      /\ c <= Available /\ given + e <= taken + c
  BY CountsAre, ScriptIs DEF Moves
<1> DEFINE g == given + e  t == taken + c
<1>1. /\ g \in Nat /\ t \in Nat /\ g <= t /\ t <= raw_total /\ t <= Total /\ given <= g /\ taken <= t
      /\ g = given + e /\ t = taken + c
      /\ zheld' = Units(g, t)
  BY <1>0 DEF Moves
<1>2. taken' = t /\ raw_pos' = raw_pos + c /\ raw' = raw /\ raw_total' = raw_total
      /\ Total' = Total /\ script' = script /\ error' = error /\ net' = net
      /\ zstd_frame_complete' \in BOOLEAN
      /\ at' \in {"reader", "fill"} /\ verdict' \in {"none", "data", "end", "throw"}
  BY DEF Moves, Take, net, Total, TypeOK
<1>3. dropped' = dropped
  <2>1. t - (raw_pos + c) = taken - raw_pos
    BY <1>0
  <2> QED  BY <1>2, <2>1 DEF dropped
<1> HIDE DEF g, t
<1>4. /\ delivered' = Units(0, g) /\ given' = g
      /\ window' = Units(consumed', g) /\ Len(window') \in Nat /\ Len(window') <= g
      /\ window' \in Seq(1 .. Total)
  <2>1. CASE e = 0
    <3>1. window' = window /\ delivered' = delivered /\ g = given
      BY <1>0, <1>1, <2>1 DEF Moves
    <3>2. given' = given /\ consumed' = consumed
      BY <3>1 DEF given, consumed
    <3> QED  BY <3>1, <3>2 DEF Places, TypeOK
  <2>2. CASE e > 0
    <3>1. window' = Units(given, g) /\ delivered' = delivered \o Units(given, g)
      BY <1>1, <2>2 DEF Moves
    <3>2. Units(0, given) \o Units(given, g) = Units(0, g)
      <4>1. given \in Nat /\ g \in Nat /\ 0 <= given /\ given <= g
        BY <1>0, <1>1
      <4> QED  BY <4>1, UnitsMeet
    <3>3. delivered' = Units(0, g)
      BY <3>1, <3>2 DEF Places
    <3>4. g <= Total /\ Len(Units(0, g)) = g
      <4>1. g \in Nat /\ 0 <= g /\ g <= Total /\ g - 0 = g
        BY <1>0, <1>1
      <4> QED  BY <1>0, <4>1, UnitsAre
    <3>5. given' = g
      BY <1>1, <3>3, <3>4 DEF given
    <3>6. Len(window') = g - given /\ window' \in Seq(1 .. Total)
      BY <1>0, <1>1, <3>1, <3>4, UnitsAre
    <3>7. g - (g - given) = given
      BY <1>0, <1>1
    <3>8. consumed' = given
      BY <3>5, <3>6, <3>7 DEF consumed
    <3> QED  BY <1>0, <1>1, <3>1, <3>3, <3>5, <3>6, <3>8, SMTT(30)
  <2> QED  BY <2>1, <2>2
<1>5. Places'
  <2>1. raw_pos' <= taken'
    <3>1. raw_pos + c <= t
      BY <1>0, <1>1
    <3> QED  BY <1>2, <3>1
  <2> QED  BY <1>1, <1>2, <1>3, <1>4, <2>1 DEF Places
<1>6. TypeOK'
  <2>1. delivered' \in Seq(1 .. Total) /\ zheld' \in Seq(1 .. Total)
    <3>1. 0 <= g /\ g <= Total
      BY <1>0, <1>1
    <3>2. Units(0, g) \in Seq(1 .. Total) /\ Units(g, t) \in Seq(1 .. Total)
      BY <1>0, <1>1, <3>1, UnitsAre
    <3> QED  BY <1>1, <1>4, <3>2
  <2>2. taken' \in 0 .. Total
    BY <1>0, <1>1, <1>2
  <2>3. raw_pos' \in 0 .. Len(raw')
    BY <1>0, <1>1, <1>2
  <2> QED  BY <1>2, <1>4, <2>1, <2>2, <2>3 DEF TypeOK, net
<1>7. HeldBack'
  BY <1>1, <1>2 DEF HeldBack, Moves
<1> QED  BY <1>1, <1>2, <1>4, <1>5, <1>6, <1>7

\* A step that only ends a call.
LEMMA OnlyAnswers ==
  ASSUME IInv, UNCHANGED <<net, buffer, window, delivered>>, at' \in {"reader", "destroyed"},
         error' \in Errors \cup {"none"}, verdict' \in {"none", "data", "end", "throw"}
  PROVE  /\ TypeOK' /\ Places' /\ HeldBack' /\ Outcome' /\ Decoder' /\ Waiting'
         /\ Truncated' = Truncated /\ Total' = Total /\ Zstd' = Zstd
<1> USE DEF IInv
<1>0. /\ UNCHANGED <<script, connected, progress, headers_complete, raw_total, done, result>>
      /\ UNCHANGED <<quiet, waited, raw, raw_pos, taken, zheld, zstd_frame_complete>>
      /\ UNCHANGED <<window, delivered>>
  BY DEF net, buffer
<1>1. Total' = Total /\ given' = given /\ Zstd' = Zstd /\ dropped' = dropped /\ consumed' = consumed
  BY <1>0 DEF Total, given, Zstd, dropped, consumed
<1>2. TypeOK'
  BY <1>0, <1>1 DEF TypeOK
<1>3. Places' /\ HeldBack' /\ Outcome' /\ Decoder' /\ Waiting' /\ Truncated' = Truncated
  BY <1>0, <1>1 DEF Places, HeldBack, Outcome, Decoder, Waiting, Truncated
<1> QED  BY <1>1, <1>2, <1>3

LEMMA ConstructorEndsKeeps == ASSUME IInv, ConstructorEnds PROVE IInv'
<1> USE DEF IInv
<1>1. /\ UNCHANGED <<net, buffer, window, error, verdict, delivered>>
      /\ at = "construct" /\ at' \in {"reader", "destroyed"}
  BY DEF ConstructorEnds
<1>2. /\ TypeOK' /\ Places' /\ HeldBack' /\ Outcome' /\ Decoder' /\ Waiting'
      /\ Truncated' = Truncated /\ Total' = Total /\ Zstd' = Zstd
  BY <1>1, OnlyAnswers DEF TypeOK
<1>3. Answers' /\ ExceptionReported'
  BY <1>1, <1>2 DEF Answers, ExceptionReported, BodyReadable, net, buffer
<1> QED  BY <1>2, <1>3

LEMMA FillThrowsKeeps == ASSUME IInv, FillThrows PROVE IInv'
<1> USE DEF IInv
<1>1. /\ UNCHANGED <<net, buffer, window, delivered>>
      /\ at' = "reader" /\ verdict' = "throw"
      /\ error' # "none" /\ error' \in Errors
      /\ error' = error \/ error' = "encoding"
  BY DEF FillThrows, Throws, TypeOK, Errors
<1>2. /\ TypeOK' /\ Places' /\ HeldBack' /\ Outcome' /\ Decoder' /\ Waiting'
      /\ Truncated' = Truncated /\ Total' = Total /\ Zstd' = Zstd
  BY <1>1, OnlyAnswers
<1>3. Answers' /\ ExceptionReported'
  BY <1>1, <1>2 DEF Answers, ExceptionReported, net
<1> QED  BY <1>2, <1>3

LEMMA DecodeFailsKeeps == ASSUME IInv, DecodeFails PROVE IInv'
<1> USE DEF IInv
<1>1. /\ UNCHANGED <<net, buffer, window, delivered>>
      /\ at' = "reader" /\ verdict' = "throw" /\ error' = "corrupt"
  BY DEF DecodeFails, Throws
<1>2. /\ TypeOK' /\ Places' /\ HeldBack' /\ Outcome' /\ Decoder' /\ Waiting'
      /\ Truncated' = Truncated /\ Total' = Total /\ Zstd' = Zstd
  BY <1>1, OnlyAnswers DEF Errors
<1>3. Answers' /\ ExceptionReported'
  BY <1>1, <1>2 DEF Answers, ExceptionReported
<1> QED  BY <1>2, <1>3

LEMMA FinishTruncatedKeeps == ASSUME IInv, FinishTruncated PROVE IInv'
<1> USE DEF IInv
<1>1. /\ UNCHANGED <<net, buffer, window, delivered>>
      /\ at' = "reader" /\ verdict' = "throw" /\ error' = "truncated"
  BY DEF FinishTruncated, Throws
<1>2. /\ TypeOK' /\ Places' /\ HeldBack' /\ Outcome' /\ Decoder' /\ Waiting'
      /\ Truncated' = Truncated /\ Total' = Total /\ Zstd' = Zstd
  BY <1>1, OnlyAnswers DEF Errors
<1>3. Answers' /\ ExceptionReported'
  BY <1>1, <1>2 DEF Answers, ExceptionReported
<1> QED  BY <1>2, <1>3

\* The whole exception text, once received, is in the part that was not handed out.
LEMMA ExceptionIsInTail ==
  ASSUME IInv, script.exc > 0, raw_total = Total, script.corrupt = 0
  PROVE  ReportedErrors = {"clickhouse"}
<1> USE DEF IInv
<1>1. /\ given \in Nat /\ taken \in Nat /\ raw_total \in Nat /\ given <= taken /\ taken <= raw_total
      /\ given <= script.data /\ script.data \in Nat /\ script.exc \in Nat
  <2>1. /\ given \in Nat /\ taken \in Nat /\ raw_total \in Nat
        /\ given <= taken /\ taken <= raw_total
    BY CountsAre DEF Places, HeldBack
  <2>2. taken <= script.data /\ script.data \in Nat /\ script.exc \in Nat
    BY ScriptIs DEF HeldBack
  <2> QED  BY <2>1, <2>2
<1>2. FailedTail = Units(given, raw_total)
  <2>1. Units(given, taken) \o Units(taken, raw_total) = Units(given, raw_total)
    BY <1>1, UnitsMeet
  <2> QED  BY <2>1, RestOfBuffer DEF FailedTail, Places
<1>3. /\ DOMAIN Units(given, raw_total) = 1 .. raw_total - given
      /\ \A i \in 1 .. raw_total - given : Units(given, raw_total)[i] = given + i
  BY DEF Units
<1>4. ASSUME NEW u \in ExceptionUnits
      PROVE  \E i \in DOMAIN FailedTail : FailedTail[i] = u
  <2>1. u - given \in 1 .. raw_total - given /\ given + (u - given) = u
    BY <1>1 DEF ExceptionUnits, Total
  <2>2. Units(given, raw_total)[u - given] = u
    BY <1>3, <2>1
  <2> QED  BY <1>2, <1>3, <2>1, <2>2
<1>5. InTail(ExceptionUnits)
  BY <1>4 DEF InTail
<1> QED  BY <1>1, <1>5 DEF ReportedErrors

LEMMA FinishFailedKeeps == ASSUME IInv, FinishFailed PROVE IInv'
<1> USE DEF IInv
<1>1. /\ UNCHANGED <<net, buffer, window, delivered>>
      /\ at' = "reader" /\ verdict' = "throw" /\ error' \in Errors /\ error' # "none"
      /\ done /\ error' \in {"transport", "timeout"} => ReportedErrors # {"clickhouse"}
  BY DEF FinishFailed, Throws, PlainError, Errors
<1>2. /\ TypeOK' /\ Places' /\ HeldBack' /\ Outcome' /\ Decoder' /\ Waiting'
      /\ Truncated' = Truncated /\ Total' = Total /\ Zstd' = Zstd
  BY <1>1, OnlyAnswers
<1>3. done /\ done' = done
  BY <1>1 DEF FinishFailed, net
<1>4. Answers'
  BY <1>1, <1>3 DEF Answers
<1>5. ExceptionReported'
  <2>1. script' = script /\ raw_total' = raw_total
    BY <1>1 DEF net
  <2>2. ReportedErrors # {"clickhouse"} =>
          script.exc = 0 \/ raw_total < Total \/ script.corrupt # 0
    <3>1. raw_total \in Nat /\ raw_total <= Total /\ Total \in Nat /\ script.exc \in Nat
      BY CountsAre, ScriptIs
    <3> QED  BY <3>1, ExceptionIsInTail
  <2> QED  BY <1>1, <1>2, <1>3, <2>1, <2>2 DEF ExceptionReported
<1> QED  BY <1>2, <1>4, <1>5

\* What is left when nothing more can be given and the transfer ended properly.
LEMMA CleanEndIs ==
  ASSUME IInv, at = "fill", done, result = "ok", NothingNow, ~Truncated
  PROVE  taken = raw_total /\ zheld = <<>> /\ given = taken
<1> USE DEF IInv
<1>1. /\ given \in Nat /\ taken \in Nat /\ raw_total \in Nat /\ given <= taken /\ taken <= raw_total
      /\ Len(zheld) = taken - given /\ Available = raw_total - taken
  BY CountsAre DEF Places
<1>2. Allowed = Available /\ Readable
  BY DEF Allowed, Readable
<1>3. Available = 0
  BY <1>2 DEF NothingNow, DecoderStuck
<1>4. taken = raw_total
  BY <1>1, <1>3
<1>5. zheld = <<>>
  <2>1. CASE ~Zstd
    BY <2>1 DEF Decoder
  <2>2. CASE Zstd /\ zstd_frame_complete
    BY <2>2 DEF Decoder
  <2>3. CASE Zstd /\ ~zstd_frame_complete
    <3>1. raw_total = 0
      BY <1>1, <2>3 DEF Truncated
    <3>2. given = 0 /\ taken = 0
      BY <1>1, <3>1
    <3> QED  BY <3>2, NoUnits DEF Places
  <2> QED  BY <2>1, <2>2, <2>3
<1>6. Len(<<>>) = 0
  OBVIOUS
<1> QED  BY <1>1, <1>4, <1>5, <1>6

LEMMA FinishCleanlyKeeps == ASSUME IInv, FinishCleanly PROVE IInv'
<1> USE DEF IInv
<1>1. /\ UNCHANGED <<net, buffer, window, error, delivered>>
      /\ at' = "reader" /\ verdict' = "end"
  BY DEF FinishCleanly
<1>2. /\ TypeOK' /\ Places' /\ HeldBack' /\ Outcome' /\ Decoder' /\ Waiting'
      /\ Truncated' = Truncated /\ Total' = Total /\ Zstd' = Zstd
  BY <1>1, OnlyAnswers DEF TypeOK
<1>3. taken = raw_total /\ zheld = <<>> /\ BodyReadable /\ result = "ok" /\ ~Truncated
  BY CleanEndIs DEF FinishCleanly, Answers
<1>4. Answers' /\ ExceptionReported'
  BY <1>1, <1>2, <1>3 DEF Answers, ExceptionReported, BodyReadable, net, buffer
<1> QED  BY <1>2, <1>4

LEMMA PauseKeeps == ASSUME IInv, Pause PROVE IInv'
<1> USE DEF IInv
<1>1. /\ UNCHANGED <<script, connected, progress, headers_complete, raw_total, done, result, waited>>
      /\ UNCHANGED <<raw, raw_pos, taken, zheld, zstd_frame_complete>>
      /\ UNCHANGED <<window, error, at, verdict, delivered>>
      /\ at = "reader" /\ quiet' = Longer(quiet)
  BY DEF Pause, buffer
<1>2. Total' = Total /\ given' = given /\ Zstd' = Zstd /\ dropped' = dropped /\ consumed' = consumed
  BY <1>1 DEF Total, given, Zstd, dropped, consumed
<1>3. quiet' \in 0 .. Timeout
  BY <1>1, TimeoutAssumption DEF Longer, TypeOK
<1>4. TypeOK' /\ Places' /\ HeldBack' /\ Outcome' /\ Decoder' /\ Waiting'
  BY <1>1, <1>2, <1>3 DEF TypeOK, Places, HeldBack, Outcome, Decoder, Waiting
<1>5. Answers' /\ ExceptionReported'
  BY <1>1, <1>2 DEF Answers, ExceptionReported, BodyReadable, Truncated
<1> QED  BY <1>4, <1>5

LEMMA ConsumeKeeps == ASSUME IInv, Consume PROVE IInv'
<1> USE DEF IInv
<1>1. PICK k \in 1 .. Len(window) : window' = SubSeq(window, k + 1, Len(window))
  BY DEF Consume
<1>2. /\ UNCHANGED <<script, connected, progress, headers_complete, raw_total, done, result>>
      /\ UNCHANGED <<quiet, waited, raw, raw_pos, taken, zheld, zstd_frame_complete>>
      /\ UNCHANGED <<error, at, verdict, delivered>>
  BY DEF Consume, net, buffer
<1>3. Total' = Total /\ given' = given /\ Zstd' = Zstd /\ dropped' = dropped
  BY <1>2 DEF Total, given, Zstd, dropped
<1>4. /\ window' = Units(consumed', given) /\ Len(window') \in Nat /\ Len(window') <= given
      /\ window' \in Seq(1 .. Total)
  <2>1. /\ given \in Nat /\ consumed \in Nat /\ consumed <= given /\ given <= Total /\ Total \in Nat
        /\ window = Units(consumed, given) /\ Len(window) = given - consumed
    <3>1. given \in Nat /\ consumed \in Nat /\ consumed <= given /\ given <= Total /\ Total \in Nat
      <4>1. /\ given \in Nat /\ taken \in Nat /\ raw_total \in Nat
            /\ given <= taken /\ taken <= raw_total
            /\ raw_total <= Total /\ consumed \in Nat /\ consumed <= given
        BY CountsAre DEF Places
      <4> QED  BY <4>1, ScriptIs
    <3> QED  BY <3>1, UnitsAre DEF Places
  <2> DEFINE m == consumed + k
  <2>2. k \in Nat /\ k <= given - consumed /\ m \in Nat /\ m <= given /\ given - (given - m) = m
    BY <1>1, <2>1
  <2>3. consumed + k <= given
    BY <2>1, <2>2
  <2>4. SubSeq(Units(consumed, given), k + 1, Len(Units(consumed, given))) = Units(consumed + k, given)
    BY <2>1, <2>2, <2>3, LaterUnits, Zenon
  <2>5. window' = Units(m, given)
    BY <1>1, <2>1, <2>4, Zenon
  <2> HIDE DEF m
  <2>6. Len(window') = given - m /\ window' \in Seq(1 .. Total)
    BY <2>1, <2>2, <2>5, UnitsAre
  <2>7. consumed' = m
    BY <1>3, <2>2, <2>6 DEF consumed
  <2> QED  BY <2>1, <2>2, <2>5, <2>6, <2>7
<1>5. TypeOK' /\ Places' /\ HeldBack' /\ Outcome' /\ Decoder' /\ Waiting'
  BY <1>2, <1>3, <1>4 DEF TypeOK, Places, HeldBack, Outcome, Decoder, Waiting
<1>6. Answers' /\ ExceptionReported'
  BY <1>2, <1>3 DEF Answers, ExceptionReported, BodyReadable, Truncated
<1> QED  BY <1>5, <1>6

LEMMA FillBeginsKeeps == ASSUME IInv, FillBegins PROVE IInv'
<1> USE DEF IInv
<1>1. /\ UNCHANGED <<script, connected, progress, headers_complete, raw_total, done, result>>
      /\ UNCHANGED <<taken, zheld, zstd_frame_complete, window, error, verdict, delivered>>
      /\ raw' = SubSeq(raw, raw_pos + 1, Len(raw)) /\ raw_pos' = 0
      /\ quiet' = 0 /\ waited' = 0 /\ at' = "fill" /\ BodyReadable
  BY DEF FillBegins, Compact, RestartTimer
<1>2. Total' = Total /\ given' = given /\ Zstd' = Zstd /\ consumed' = consumed
  BY <1>1 DEF Total, given, Zstd, consumed
<1>3. /\ taken \in Nat /\ raw_total \in Nat /\ taken <= raw_total /\ raw_total <= Total /\ Total \in Nat
  BY CountsAre, ScriptIs DEF Places
<1>4. raw' = Units(taken, raw_total) /\ raw' \in Seq(1 .. Total)
  BY <1>1, <1>3, RestOfBuffer, UnitsAre
<1>5. dropped' = taken
  BY <1>1, <1>3 DEF dropped
<1>6. Places'
  BY <1>1, <1>2, <1>3, <1>4, <1>5 DEF Places
<1>7. TypeOK'
  <2>1. raw_pos' \in 0 .. Len(raw')
    BY <1>1, <1>4
  <2>2. 0 \in 0 .. Timeout
    BY TimeoutAssumption
  <2> QED  BY <1>1, <1>2, <1>4, <2>1, <2>2 DEF TypeOK
<1>8. HeldBack' /\ Outcome' /\ Decoder' /\ Waiting'
  BY <1>1, <1>2 DEF HeldBack, Outcome, Decoder, Waiting
<1>9. Answers' /\ ExceptionReported'
  BY <1>1, <1>2 DEF Answers, ExceptionReported, BodyReadable, Truncated
<1> QED  BY <1>6, <1>7, <1>8, <1>9

\* A plain body goes through, a compressed one through the decoder.
LEMMA HandRawMoves ==
  ASSUME IInv, HandRaw
  PROVE  \E n \in Nat : Moves(n, n)
<1> USE DEF IInv
<1> DEFINE n == Allowed
<1>1. /\ UNCHANGED <<net, raw, zheld, zstd_frame_complete, error>> /\ Take(n)
      /\ window' = SubSeq(raw, raw_pos + 1, raw_pos + n) /\ delivered' = delivered \o window'
      /\ at' = "reader" /\ verdict' = "data" /\ ~Zstd
      /\ n > 0 /\ n \in Nat /\ n <= Available /\ taken + n <= script.data
  BY AllowedIsData DEF HandRaw, Hand
<1> HIDE DEF n
<1>2. zheld = <<>> /\ given = taken /\ given \in Nat /\ taken \in Nat
  <2>1. given \in Nat /\ taken \in Nat /\ Len(zheld) = taken - given /\ zheld = <<>>
    BY <1>1, CountsAre DEF Decoder
  <2>2. Len(<<>>) = 0
    OBVIOUS
  <2> QED  BY <2>1, <2>2
<1>3. window' = Units(given, given + n)
  BY <1>1, <1>2, NextInBuffer
<1>4. zheld' = Units(given + n, taken + n)
  <2>1. given + n \in Nat
    BY <1>1, <1>2
  <2> QED  BY <1>1, <1>2, <2>1, NoUnits
<1>5. given + n <= taken + n /\ n + n > 0
  BY <1>1, <1>2
<1>6. zstd_frame_complete' \in BOOLEAN
  BY <1>1 DEF TypeOK
<1>7. Moves(n, n)
  BY <1>1, <1>3, <1>4, <1>5, <1>6 DEF Moves
<1> QED  BY <1>1, <1>7

LEMMA DecodeMoves ==
  ASSUME IInv, Decode
  PROVE  \E c, e \in Nat : Moves(c, e) /\ zstd_frame_complete' = FrameDone(c, zheld')
<1> USE DEF IInv
<1>0. /\ given \in Nat /\ taken \in Nat /\ given <= taken /\ Len(zheld) = taken - given
      /\ zheld = Units(given, taken)
      /\ Allowed \in Nat /\ Allowed <= Available /\ Available \in Nat
      /\ UNCHANGED <<net, raw, error>>
  BY CountsAre, AllowedIsData DEF Decode, Places
<1>1. PICK c \in 0 .. Allowed, e \in 0 .. Len(zheld) + Allowed :
         LET input == zheld \o SubSeq(raw, raw_pos + 1, raw_pos + c)
             left  == SubSeq(input, e + 1, Len(input))
         IN /\ DecoderMoves(c, e)
            /\ Take(c)
            /\ zheld' = left
            /\ zstd_frame_complete' = FrameDone(c, left)
            /\ IF e > 0 THEN Hand(SubSeq(input, 1, e))
                        ELSE UNCHANGED <<window, delivered, at, verdict>>
  BY DEF Decode
<1> DEFINE input == zheld \o SubSeq(raw, raw_pos + 1, raw_pos + c)
           left  == SubSeq(input, e + 1, Len(input))
<1>2. /\ c \in Nat /\ e \in Nat /\ c <= Allowed /\ c <= Available
      /\ e <= Len(zheld) + c /\ c + e > 0
      /\ Take(c) /\ zheld' = left /\ zstd_frame_complete' = FrameDone(c, left)
      /\ \/ e > 0 /\ Hand(SubSeq(input, 1, e))
         \/ e = 0 /\ UNCHANGED <<window, delivered, at, verdict>>
  BY <1>0, <1>1 DEF DecoderMoves
<1> DEFINE t == taken + c
<1>3. t \in Nat /\ t = taken + c /\ given <= t /\ taken <= t /\ given + e <= t
  BY <1>0, <1>2
<1>4. input = Units(given, t)
  <2>1. SubSeq(raw, raw_pos + 1, raw_pos + c) = Units(taken, t)
    BY <1>2, NextInBuffer
  <2>2. Units(given, taken) \o Units(taken, t) = Units(given, t)
    BY <1>0, <1>3, UnitsMeet
  <2> QED  BY <1>0, <2>1, <2>2
<1>5. taken + c <= script.data
  <2>1. /\ taken + Allowed <= script.data /\ script.data \in Nat
    BY AllowedIsData, ScriptIs DEF Decode
  <2> QED  BY <1>0, <1>2, <2>1
<1> HIDE DEF input, t
<1>6. /\ SubSeq(input, 1, e) = Units(given, given + e)
      /\ left = Units(given + e, t)
  <2>1. given \in Nat /\ t \in Nat /\ e \in Nat /\ given + e <= t
    BY <1>0, <1>2, <1>3
  <2>2. /\ SubSeq(Units(given, t), 1, e) = Units(given, given + e)
        /\ SubSeq(Units(given, t), e + 1, Len(Units(given, t))) = Units(given + e, t)
    BY <2>1, FirstUnits, LaterUnits, Zenon
  <2> QED  BY <1>4, <2>2, Zenon
<1>7. /\ zheld' = Units(given + e, taken + c)
      /\ given + e <= taken + c
      /\ zstd_frame_complete' \in BOOLEAN
  BY <1>2, <1>3, <1>6 DEF FrameDone
<1>8. \/ /\ e > 0 /\ window' = Units(given, given + e) /\ delivered' = delivered \o window'
         /\ at' = "reader" /\ verdict' = "data"
      \/ e = 0 /\ UNCHANGED <<window, delivered, at, verdict>>
  BY <1>2, <1>6 DEF Hand
<1>9. Moves(c, e)
  BY <1>0, <1>2, <1>5, <1>7, <1>8 DEF Moves
<1> QED  BY <1>2, <1>9

\* After a clean end there is nothing left to move.
LEMMA NothingMovesAfterEnd ==
  ASSUME IInv, NEW c \in Nat, NEW e \in Nat, Moves(c, e)
  PROVE  verdict # "end"
<1>1. SUFFICES ASSUME verdict = "end" PROVE FALSE
  OBVIOUS
<1>2. given \in Nat /\ taken \in Nat /\ Len(zheld) = taken - given /\ Available = 0 /\ zheld = <<>>
  BY <1>1, CountsAre DEF IInv, Answers
<1>3. given = taken
  <2>1. Len(<<>>) = 0
    OBVIOUS
  <2> QED  BY <1>2, <2>1
<1> QED  BY <1>2, <1>3 DEF Moves

\* What both have in common for the rest of the invariant.
LEMMA MovesKeeps ==
  ASSUME IInv, at = "fill", NEW c \in Nat, NEW e \in Nat, Moves(c, e), Decoder'
  PROVE  IInv'
<1> USE DEF IInv
<1>1. TypeOK' /\ Places' /\ HeldBack'
  BY GivenOn
<1>2. UNCHANGED <<script, done, result, raw_total, quiet, waited, error>>
  BY DEF Moves, net
<1>3. at' \in {"reader", "fill"} /\ (at' = "fill" => at = "fill") /\ verdict' \in {"data", verdict}
  BY DEF Moves
<1>4. Outcome' /\ Waiting'
  BY <1>2, <1>3 DEF Outcome, Waiting, Total
<1>5. Answers' /\ ExceptionReported'
  BY <1>2, <1>3, NothingMovesAfterEnd DEF Answers, ExceptionReported, BodyReadable, Total
<1> QED  BY <1>1, <1>4, <1>5

LEMMA HandRawKeeps == ASSUME IInv, HandRaw PROVE IInv'
<1>1. PICK n \in Nat : Moves(n, n)
  BY HandRawMoves
<1>2. Decoder'
  BY DEF IInv, Decoder, HandRaw, Zstd, net
<1> QED  BY <1>1, <1>2, MovesKeeps DEF HandRaw

LEMMA DecodeKeeps == ASSUME IInv, Decode PROVE IInv'
<1>1. PICK c, e \in Nat : Moves(c, e) /\ zstd_frame_complete' = FrameDone(c, zheld')
  BY DecodeMoves
<1>2. Decoder'
  BY <1>1 DEF Decoder, FrameDone, Decode, Moves, Take, Zstd, net
<1> QED  BY <1>1, <1>2, MovesKeeps DEF Decode

LEMMA InitHolds == ASSUME Init PROVE IInv
<1>1. script \in Scripts /\ script \in ScriptSet
  BY ScriptsAssumption DEF Init
<1>2. Total \in Nat /\ script.data \in Nat /\ script.progress \in Nat
  BY <1>1 DEF ScriptSet, Total
<1>3. 0 \in 0 .. Timeout
  BY TimeoutAssumption
<1>4. <<>> \in Seq(1 .. Total) /\ Len(<<>>) = 0
  OBVIOUS
<1>5. TypeOK
  <2>1. 0 \in 0 .. Total /\ 0 \in 0 .. Len(<<>>)
    BY <1>2, <1>4
  <2> QED  BY <1>1, <1>2, <1>3, <1>4, <2>1 DEF Init, TypeOK
<1>6. given = 0 /\ consumed = 0 /\ dropped = 0
  BY <1>4 DEF Init, given, consumed, dropped
<1>7. Places
  BY <1>4, <1>6, NoUnits DEF Init, Places
<1>8. HeldBack /\ Outcome /\ Decoder /\ Answers /\ Waiting /\ ExceptionReported
  BY <1>2 DEF Init, HeldBack, Outcome, Decoder, Answers, Waiting, ExceptionReported
<1> QED  BY <1>5, <1>7, <1>8 DEF IInv

LEMMA StutterKeeps == ASSUME IInv, UNCHANGED vars PROVE IInv'
<1>1. /\ UNCHANGED <<script, connected, progress, headers_complete, raw_total, done, result>>
      /\ UNCHANGED <<quiet, waited, raw, raw_pos, taken, zheld, zstd_frame_complete>>
      /\ UNCHANGED <<window, error, at, verdict, delivered>>
  BY DEF vars, net, buffer
<1>2. Total' = Total /\ given' = given /\ Zstd' = Zstd /\ dropped' = dropped /\ consumed' = consumed
  BY <1>1 DEF Total, given, Zstd, dropped, consumed
<1> QED
  BY <1>1, <1>2 DEF IInv, TypeOK, Places, HeldBack, Outcome, Decoder, Answers, Waiting,
                    ExceptionReported, BodyReadable, Truncated

LEMMA NextKeeps == ASSUME IInv, Next PROVE IInv'
<1>1. CASE ConstructorPumps
  BY <1>1, PumpKeeps DEF ConstructorPumps
<1>2. CASE ConstructorEnds
  BY <1>2, ConstructorEndsKeeps
<1>3. CASE Consume
  BY <1>3, ConsumeKeeps
<1>4. CASE Pause
  BY <1>4, PauseKeeps
<1>5. CASE FillThrows
  BY <1>5, FillThrowsKeeps
<1>6. CASE FillBegins
  BY <1>6, FillBeginsKeeps
<1>7. CASE HandRaw
  BY <1>7, HandRawKeeps
<1>8. CASE Decode
  BY <1>8, DecodeKeeps
<1>9. CASE DecodeFails
  BY <1>9, DecodeFailsKeeps
<1>10. CASE FillPumps
  BY <1>10, PumpKeeps DEF FillPumps
<1>11. CASE FinishFailed
  BY <1>11, FinishFailedKeeps
<1>12. CASE FinishTruncated
  BY <1>12, FinishTruncatedKeeps
<1>13. CASE FinishCleanly
  BY <1>13, FinishCleanlyKeeps
<1> QED
  BY <1>1, <1>2, <1>3, <1>4, <1>5, <1>6, <1>7, <1>8, <1>9, <1>10, <1>11, <1>12, <1>13
     DEF Next, Constructor, Fill, Reader

\* The inductive invariant holds in every behaviour of a response.
THEOREM ResponseInvariance == Spec => []IInv
<1>1. Init => IInv
  BY InitHolds
<1>2. IInv /\ [Next]_vars => IInv'
  BY NextKeeps, StutterKeeps
<1> QED  BY <1>1, <1>2, PTL DEF Spec

-----------------------------------------------------------------------------
(***************************************************************************)
(* What a response guarantees                                              *)
(***************************************************************************)

\* Every variable of a response keeps its type; the position never leaves the buffer,
\* however often it is compacted (fill).
THEOREM ResponseTypeCorrect == Spec => []TypeOK
<1>1. IInv => TypeOK
  BY DEF IInv
<1> QED  BY <1>1, ResponseInvariance, PTL

\* No unit of exception text is handed to the reader as data (the holdback of fill).
THEOREM ExceptionTextIsHeldBack == Spec => []NoExceptionTextDelivered
<1>1. IInv => NoExceptionTextDelivered
  BY CountsAre, ScriptIs, SMTT(30) DEF IInv, Places, HeldBack, NoExceptionTextDelivered, given
<1> QED  BY <1>1, ResponseInvariance, PTL

\* A complete exception text is reported as such and not as a broken transfer or a
\* timeout (finish, decodeRemaining).
THEOREM ExceptionIsReported == Spec => []ExceptionReported
<1>1. IInv => ExceptionReported
  BY DEF IInv
<1> QED  BY <1>1, ResponseInvariance, PTL

\* The timeout expires only after it was waited for inside one call (fill, pump).
THEOREM TimeoutIsNeverCharged == Spec => TimeoutIsWaitedFor
<1> DEFINE Expires == result' = "timeout" /\ result # "timeout"
<1>1. IInv /\ [Next]_vars => [Expires => waited' = Timeout]_vars
  <2> SUFFICES ASSUME IInv, Next, Expires
               PROVE  waited' = Timeout
    OBVIOUS
  <2>1. CASE Pump /\ at \in {"construct", "fill"}
    <3>1. Quiet
      BY <2>1 DEF Pump, Activity, ProgressHeader, TransferEnds
    <3>2. quiet = waited
      BY <2>1 DEF IInv, Waiting
    <3> QED  BY <3>1, <3>2 DEF Quiet, CountPoll, Expires
  <2>2. CASE ~Pump
    BY <2>2 DEF Next, Constructor, Fill, Reader, ConstructorPumps, ConstructorEnds, Consume, Pause,
                FillThrows, FillBegins, HandRaw, Decode, DecodeFails, FillPumps, FinishFailed,
                FinishTruncated, FinishCleanly, net, Expires
  <2>3. CASE at \notin {"construct", "fill"}
    BY <2>3 DEF Next, Constructor, Fill, Reader, ConstructorPumps, ConstructorEnds, Consume, Pause,
                FillThrows, FillBegins, HandRaw, Decode, DecodeFails, FillPumps, FinishFailed,
                FinishTruncated, FinishCleanly, net, Expires
  <2> QED  BY <2>1, <2>2, <2>3
<1> QED  BY <1>1, ResponseInvariance, PTL DEF Spec, TimeoutIsWaitedFor

-----------------------------------------------------------------------------
(***************************************************************************)
(* A response is a body stream                                             *)
(***************************************************************************)

LEMMA StreamInit == ASSUME Init PROVE Stream!Init
<1>1. script.data \in Nat
  BY ScriptsAssumption DEF Init, ScriptSet
<1>2. Whole \in BOOLEAN
  BY DEF Whole
<1> QED  BY <1>1, <1>2 DEF Init, Stream!Init, Told

\* What the server sends is settled.
LEMMA StreamIsFixed ==
  ASSUME script' = script
  PROVE  script'.data = script.data /\ Whole' = Whole
BY DEF Whole, Zstd, Total

\* Steps the reader cannot see.
LEMMA StreamStutters ==
  ASSUME UNCHANGED <<script, delivered, error, verdict>>
  PROVE  [Stream!Next]_(Stream!vars)
BY StreamIsFixed DEF Stream!vars, Told

LEMMA StreamFails ==
  ASSUME IInv, error = "none", verdict # "end", NEW e \in Errors, Throws(e),
         UNCHANGED <<script, delivered>>
  PROVE  [Stream!Next]_(Stream!vars)
<1>1. Told \in {"nothing", "data"} /\ Told' = "throw"
  BY DEF IInv, TypeOK, Answers, Told, Throws
<1>2. Stream!Fail(e)
  BY <1>1, StreamIsFixed DEF Stream!Fail, Stream!Open, Throws
<1> QED  BY <1>2 DEF Stream!Next

\* What fill() hands out continues what was given before.
LEMMA StreamGives ==
  ASSUME IInv, at = "fill", NEW c \in Nat, NEW e \in Nat, Moves(c, e)
  PROVE  [Stream!Next]_(Stream!vars)
<1>1. script' = script /\ error' = error /\ error = "none"
  BY DEF Moves, net, IInv, Answers, BodyReadable
<1>2. CASE e = 0
  <2>1. UNCHANGED <<delivered, verdict>>
    BY <1>2 DEF Moves
  <2> QED  BY <1>1, <2>1, StreamStutters
<1>3. CASE e > 0
  <2>1. delivered' = delivered \o Units(given, given + e) /\ verdict' = "data"
    BY <1>3 DEF Moves
  <2>2. given \in Nat /\ given + e <= script.data
    <3>1. given \in Nat /\ taken \in Nat /\ script.data \in Nat
      BY CountsAre, ScriptIs DEF IInv
    <3> QED  BY <3>1 DEF Moves
  <2>3. Units(given, given + e) = [i \in 1 .. e |-> given + i]
    <3>1. (given + e) - given = e
      BY <2>2
    <3>2. Units(given, given + e) = [i \in 1 .. (given + e) - given |-> given + i]
      BY DEF Units
    <3> QED  BY <3>1, <3>2, Zenon
  <2>4. Told \in {"nothing", "data"} /\ Told' = "data"
    BY <1>1, <2>1, NothingMovesAfterEnd DEF IInv, TypeOK, Answers, Told
  <2>5. Stream!Give(e)
    BY <1>1, <2>1, <2>2, <2>3, <2>4, StreamIsFixed DEF Stream!Give, Stream!Open, given
  <2>6. e \in 1 .. script.data - given
    BY <1>3, <2>2, ScriptIs DEF IInv
  <2>7. Stream!Next
    BY <2>5, <2>6 DEF Stream!Next, given
  <2> QED  BY <2>7
<1> QED  BY <1>2, <1>3

\* A clean end comes after all of a whole body.
LEMMA StreamEnds == ASSUME IInv, FinishCleanly PROVE [Stream!Next]_(Stream!vars)
<1> USE DEF IInv
<1>1. script' = script /\ error' = error /\ error = "none" /\ delivered' = delivered /\ verdict' = "end"
  BY DEF FinishCleanly, net, Answers, BodyReadable
<1>2. CASE verdict = "end"
  BY <1>1, <1>2, StreamStutters
<1>3. CASE verdict # "end"
  <2>1. Told \in {"nothing", "data"} /\ Told' = "end"
    BY <1>1, <1>3 DEF TypeOK, Answers, Told
  <2>2. /\ taken = raw_total /\ given = taken /\ zheld = <<>>
        /\ raw_total = Total /\ script.ending = "complete" /\ ~Truncated
    BY CleanEndIs DEF FinishCleanly, Outcome
  <2>3. given = script.data
    <3>1. script.exc = 0 /\ script.data \in Nat
      BY <2>2, ScriptIs
    <3> QED  BY <2>2, <3>1 DEF Total
  <2>4. Whole
    <3>1. ASSUME Zstd, Total > 0
          PROVE  Total \in script.frames
      BY <2>2, <3>1 DEF Truncated, Decoder
    <3> QED  BY <2>2, <3>1 DEF Whole
  <2>5. Stream!End
    BY <1>1, <2>1, <2>3, <2>4, StreamIsFixed DEF Stream!End, Stream!Open, given
  <2> QED  BY <2>5 DEF Stream!Next
<1> QED  BY <1>2, <1>3

LEMMA StreamStep == ASSUME IInv, [Next]_vars PROVE [Stream!Next]_(Stream!vars)
<1>1. CASE Constructor \/ Consume \/ Pause \/ FillBegins \/ FillPumps \/ UNCHANGED vars
  BY <1>1, StreamStutters
     DEF Constructor, ConstructorPumps, ConstructorEnds, Consume, Pause, FillBegins, FillPumps, Pump,
         net, vars
<1>2. CASE FillThrows
  <2>1. UNCHANGED <<script, delivered>>
    BY <1>2 DEF FillThrows, net
  <2>2. CASE error # "none"
    <3>1. UNCHANGED <<error, verdict>>
      BY <1>2, <2>2 DEF FillThrows, Throws, IInv, Answers
    <3> QED  BY <2>1, <3>1, StreamStutters
  <2>3. CASE error = "none"
    <3>1. Throws("encoding") /\ verdict # "end"
      BY <1>2, <2>3 DEF FillThrows, IInv, Answers, BodyReadable
    <3> QED  BY <2>1, <2>3, <3>1, StreamFails DEF Errors
  <2> QED  BY <2>2, <2>3
<1>3. CASE HandRaw
  BY <1>3, HandRawMoves, StreamGives DEF HandRaw
<1>4. CASE Decode
  BY <1>4, DecodeMoves, StreamGives DEF Decode
<1>5. CASE DecodeFails
  <2>1. error = "none" /\ Throws("corrupt") /\ UNCHANGED <<script, delivered>>
    BY <1>5 DEF DecodeFails, IInv, Answers, BodyReadable, net
  <2>2. verdict # "end"
    <3>1. SUFFICES ASSUME verdict = "end" PROVE FALSE
      OBVIOUS
    <3>2. Allowed \in Nat /\ Allowed <= Available
      BY <1>5, AllowedIsData DEF DecodeFails
    <3>3. Available = 0 /\ taken \in Nat
      BY <3>1, CountsAre DEF IInv, Answers
    <3>4. script.corrupt \in taken + 1 .. taken + Allowed
      BY <1>5 DEF DecodeFails
    <3> QED  BY <3>2, <3>3, <3>4
  <2> QED  BY <2>1, <2>2, StreamFails DEF Errors
<1>6. CASE FinishFailed
  <2>1. /\ error = "none" /\ UNCHANGED <<script, delivered>> /\ verdict # "end"
        /\ \E e \in Errors : Throws(e)
    BY <1>6 DEF FinishFailed, PlainError, Errors, IInv, Answers, BodyReadable, net
  <2> QED  BY <2>1, StreamFails
<1>7. CASE FinishTruncated
  <2>1. /\ error = "none" /\ UNCHANGED <<script, delivered>> /\ verdict # "end"
        /\ Throws("truncated")
    BY <1>7 DEF FinishTruncated, IInv, Answers, BodyReadable, net
  <2> QED  BY <2>1, StreamFails DEF Errors
<1>8. CASE FinishCleanly
  BY <1>8, StreamEnds
<1> QED  BY <1>1, <1>2, <1>3, <1>4, <1>5, <1>6, <1>7, <1>8 DEF Next, Fill, Reader

\* The reader of a response sees a body stream: the data in order, then a clean end of
\* a whole body or one lasting failure (fill, finish, error).
THEOREM ResponseIsStream == Spec => ImplementsBodyStream
<1>1. Init => Stream!Init
  BY StreamInit
<1>2. IInv /\ [Next]_vars => [Stream!Next]_(Stream!vars)
  BY StreamStep
<1> QED  BY <1>1, <1>2, ResponseInvariance, PTL DEF Spec, ImplementsBodyStream, Stream!Spec
=============================================================================
