--------------------------- MODULE HttpRefinement ---------------------------
(***************************************************************************)
(* HttpResponse implements BodyStream.  The server completes a body that   *)
(* ends properly, with the end of a frame if it is compressed.             *)
(***************************************************************************)
EXTENDS HttpResponse

Whole == script.ending = "complete" /\ (Zstd /\ Total > 0 => Total \in script.frames)

Told == IF verdict = "none" THEN "nothing" ELSE verdict

Stream == INSTANCE BodyStream
            WITH None <- "none", data <- script.data, whole <- Whole,
                 given <- delivered, told <- Told

\* The reader gets the result data in order, without a gap, a repetition or a part of
\* the text of an exception, although the buffer is compacted, the decoder lags behind
\* and the end is held back (fill, finish); a clean end means that the whole body was
\* given; and the first failure is final, thrown again by every later call.
ImplementsBodyStream == Stream!Spec
=============================================================================
