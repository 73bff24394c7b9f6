------------------------------- MODULE MCRunner -------------------------------
(***************************************************************************)
(* Small instances of Runner and of what Report shows of its final states. *)
(* The results each layer may return are cut to one per status and, where  *)
(* statistics matter, a few durations, in half milliseconds.               *)
(***************************************************************************)
EXTENDS Report

R(status, code, dur) ==
  [status |-> status, code |-> code, dur |-> dur, obs |-> "typed"]

(* Every status each layer's contract allows, for single runs and pairs.   *)
AllOutcomes ==
  [dns          |-> {R("ok", NoError, 3), R("fail", "DNS_NXDOMAIN", 1)},
   reachability |-> {R("ok", NoError, 1), R("skip", NoError, 0),
                     R("fail", "REACHABILITY_TIMEOUT", 1)},
   tcp          |-> {R("ok", NoError, 2), R("fail", "TCP_REFUSED", 1)},
   tls          |-> {R("ok", NoError, 5), R("fail", "TLS_CERT_EXPIRED", 1),
                     R("warn", "TLS_CERT_EXPIRING_SOON", 9)},
   http         |-> {R("ok", NoError, 7), R("fail", "HTTP_503", 1)}]

(* Series of a tcp target's attempts, for the statistics.                  *)
TimedOutcomes ==
  [dns          |-> {R("ok", NoError, 1)},
   reachability |-> {R("skip", NoError, 2)},
   tcp          |-> {R("ok", NoError, 1), R("ok", NoError, 3), R("ok", NoError, 4),
                     R("fail", "TCP_REFUSED", 3)},
   tls          |-> {},
   http         |-> {}]

(* Series long enough for the 95th percentile to differ from the maximum:  *)
(* steps of a fixed size around a circle of 23 durations, so that they are *)
(* sorted, reversed, shuffled, constant and with repetitions.              *)
LongSeries ==
  {[k \in 1 .. n |-> ((k - 1) * stride) % 23] :
     n \in {1, 2, 3, 19, 20, 21, 39, 40, 41}, stride \in {0, 1, 2, 7, 11, 22}}

(* docs/schema.md, p95_ms and p50_ms: the 95th percentile is the least     *)
(* duration that 95 in a hundred of the successful attempts did not        *)
(* exceed, at every length, the multiples of 20 included where 0.95 n is   *)
(* an integer.  The median prefers neither side: turned upside down, a     *)
(* series has the median of the original turned likewise.  (It is about    *)
(* RunCount's percentile alone, and looked at before the first step.)      *)
PercentilesAreRanks ==
  pc = "begin" /\ attempts = <<>> =>
    \A d \in LongSeries :
      LET Values == {d[k] : k \in DOMAIN d}
          AtMost(v) == Cardinality({k \in DOMAIN d : d[k] <= v})
          enough == {v \in Values : 100 * AtMost(v) >= 95 * Len(d)}
      IN  /\ P95(d) \in enough /\ \A v \in enough : P95(d) <= v
          /\ P50Doubled([k \in DOMAIN d |-> -d[k]]) = -P50Doubled(d)
          /\ P50Doubled(d) <= 2 * P95(d)
==============================================================================
