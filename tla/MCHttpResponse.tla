--------------------------- MODULE MCHttpResponse ---------------------------
(* The transfers TLC considers: every ending of a short body in each encoding, *)
(* with exception text shorter than and as long as the part held back.         *)
EXTENDS HttpRefinement

CONSTANTS MaxData, MaxExc, MaxProgress

Endings(exc) == {"broken", "silent"} \cup IF exc = 0 THEN {"complete"} ELSE {}

PlainScripts ==
  UNION {[data : {d}, exc : {x}, ending : Endings(x), encoding : {"identity", "unsupported"},
          frames : {{}}, corrupt : {0}, progress : 0 .. MaxProgress] :
           d \in 0 .. MaxData, x \in 0 .. MaxExc}

\* Frames may end anywhere in the data; a properly ended body whose last unit is
\* not the end of a frame is a truncated one.
ZstdScripts ==
  UNION {[data : {d}, exc : {x}, ending : Endings(x), encoding : {"zstd"},
          frames : SUBSET (1 .. d), corrupt : {0, d}, progress : {0}] :
           d \in 0 .. MaxData, x \in 0 .. MaxExc}

MCScripts == PlainScripts \cup ZstdScripts
=============================================================================
