-------------------------------- MODULE Report --------------------------------
(***************************************************************************)
(* What a reader is shown of a finished run: internal/render/table draws   *)
(* the results a second time, from the raw records, and MarshalJSON writes *)
(* them in an order of its own.  Neither looks at how the runner came to   *)
(* its exit code, so that the two accounts could disagree.                 *)
(*                                                                         *)
(* A rendering is a function of the final state of Runner; this module     *)
(* adds no action to it.  Marks stand for the ASCII and the Unicode symbol *)
(* alike, and a line keeps of its description only whether it is the error *)
(* message.  Colours, column widths and wording are left out.              *)
(*                                                                         *)
(* Durations are floating-point milliseconds in the code.  Here they count *)
(* half milliseconds, so that rounding has ties to break.                  *)
(***************************************************************************)
EXTENDS Runner, SequencesExt

(* The loop over LayerOrder that looks up each name and passes over those  *)
(* that are not in the map.                                                *)
InLayerOrder(present) ==
  LET upTo[k \in 0 .. Len(LayerOrder)] ==
        IF k = 0 THEN <<>>
        ELSE IF LayerOrder[k] \in present THEN Append(upTo[k - 1], LayerOrder[k])
        ELSE upTo[k - 1]
  IN  upTo[Len(LayerOrder)]

Present(ls) == InLayerOrder({l \in LayerNames : ls[l] # Absent})

(* statusSymbol.                                                           *)
StatusSymbol == [ok |-> "[ok]", warn |-> "[!!]", fail |-> "[FAIL]", skip |-> "[skip]"]

(* math.Round: halves are rounded away from zero.                          *)
FormatDuration(d) == (d + 1) \div 2

(* %.0f of x/unit: halves are rounded to the even neighbour.               *)
FormatFloat(x, unit) ==
  LET floor == x \div unit
      rest == 2 * (x % unit)
  IN  IF rest > unit \/ (rest = unit /\ floor % 2 = 1) THEN floor + 1 ELSE floor

(* layerDescription and the description of each layer: the error message   *)
(* for a failure, nothing for a layer that was skipped (or the reason, if  *)
(* it skipped itself), and otherwise the layer's own observations.         *)
LayerDescription(l, r) ==
  CASE r.status = "fail" /\ r.code # NoError -> <<"error", r.code>>
    [] r.status = "skip" ->
         <<IF l = "reachability" /\ r.obs = "typed" THEN "reason" ELSE "nothing", NoError>>
    [] OTHER -> <<"observations", NoError>>

(* renderLayerLine.                                                        *)
LayerLine(l, r) ==
  [name |-> l, mark |-> StatusSymbol[r.status], shown |-> FormatDuration(r.dur),
   description |-> LayerDescription(l, r)]

LayerLines(ls) ==
  LET names == Present(ls)
  IN  [k \in DOMAIN names |-> LayerLine(names[k], ls[names[k]])]

(* A mistake the checks must notice: a warning passes for "all ok".        *)
FormatSummaryByFailures(first, exit) ==
  IF exit < 10 THEN [text |-> "all ok", layer |-> "", exit |-> 0]
  ELSE [text |-> "first issue", layer |-> first, exit |-> exit]

(* formatSummary: the exit code is shown when there is an issue to name.   *)
FormatSummary(first, exit) ==
  IF first = "" THEN [text |-> "all ok", layer |-> "", exit |-> 0]
  ELSE [text |-> "first issue", layer |-> first, exit |-> exit]

(* Render: one line per layer, and the summary.                            *)
Render == [lines |-> LayerLines(layers), summary |-> FormatSummary(firstNonOK, exitCode)]

(* A mistake the checks must notice: percentiles that are nil print as 0.  *)
StatisticsLineNilAsZero(s) ==
  [p50  |-> IF s.p50 = {} THEN {0} ELSE {FormatFloat(v, 4) : v \in s.p50},
   p95  |-> IF s.p95 = {} THEN {0} ELSE {FormatFloat(v, 2) : v \in s.p95},
   loss |-> FormatFloat(1000 * s.loss[1], s.loss[2])]

(* One line of RenderCount's statistics: "-" is the empty set, the loss is *)
(* in tenths of a percent (a tie there, which takes 16 samples, falls as   *)
(* the binary fraction does; no property depends on it).                   *)
StatisticsLine(s) ==
  [p50  |-> {FormatFloat(v, 4) : v \in s.p50},
   p95  |-> {FormatFloat(v, 2) : v \in s.p95},
   loss |-> FormatFloat(1000 * s.loss[1], s.loss[2])]

(* RenderCount: every attempt, the statistics of the layers that have any, *)
(* and the exit code.                                                      *)
RenderCount ==
  [attempts   |-> [k \in DOMAIN attempts |-> LayerLines(attempts[k].layers)],
   statistics |-> [l \in DOMAIN report.statistics |-> StatisticsLine(report.statistics[l])],
   exit       |-> report.exit]

------------------------------------------------------------------------------
(* MarshalJSON.                                                            *)

(* A mistake the checks must notice: Go's own order of a map's keys.       *)
WriteOrderedMapAlphabetically(present) ==
  SelectSeq(<<"dns", "http", "reachability", "tcp", "tls">>, LAMBDA l : l \in present)

(* writeOrderedMap: the keys that are present, in the order of LayerOrder. *)
WriteOrderedMap(present) == InLayerOrder(present)

LayersKeys(ls) == WriteOrderedMap({l \in LayerNames : ls[l] # Absent})

(* Result, AttemptResult and CountResult: the keys of every map written.   *)
JSONKeys ==
  IF count = 0
  THEN {LayersKeys(layers)}
  ELSE {LayersKeys(attempts[k].layers) : k \in DOMAIN attempts}
         \cup {WriteOrderedMap(DOMAIN report.statistics)}

------------------------------------------------------------------------------
(* Properties.                                                             *)

Marked(lines, mark) == {k \in DOMAIN lines : lines[k].mark = mark}

(* The exit code a reader of the lines alone would expect, from the help   *)
(* text's table of exit codes: the lowest failure's, else 2 for a warning. *)
ReadOff(lines) ==
  LET failing == Marked(lines, "[FAIL]")
  IN  CASE failing # {} -> LayerCodes[lines[Min(failing)].name]
        [] failing = {} /\ Marked(lines, "[!!]") # {} -> 2
        [] OTHER -> 0

(* The table and the exit code tell the same story, although the marks,    *)
(* the summary line and the process's exit code come from three different  *)
(* places: reading the marks gives the exit code, "all ok" stands under a  *)
(* table without warnings and failures and "first issue" names its first   *)
(* one, and every failure shows an error message of its own layer.         *)
TableTellsExitCode ==
  pc = "done" =>
    /\ count = 0 =>
         LET lines == Render.lines
             summary == Render.summary
             marked == Marked(lines, "[FAIL]") \cup Marked(lines, "[!!]")
         IN  /\ report.exit = ReadOff(lines)
             /\ summary.exit = report.exit
             /\ summary.layer = IF marked = {} THEN "" ELSE lines[Min(marked)].name
             /\ \A k \in Marked(lines, "[FAIL]") :
                  /\ lines[k].description[1] = "error"
                  /\ <<"fail", lines[k].description[2]>> \in Conclusions[lines[k].name]
    /\ count > 0 =>
         RenderCount.exit =
           Max({ReadOff(RenderCount.attempts[k]) : k \in DOMAIN RenderCount.attempts})

(* The statistics under a --count table can be checked against the lines   *)
(* above them: a layer has percentiles exactly when some attempt marks it  *)
(* ok or warning, they are in order after rounding, and the 95th is within *)
(* one millisecond of a duration shown (the two are rounded differently);  *)
(* it lost nothing when no attempt failed, everything when every sample    *)
(* did, and is said to have done so otherwise only when fewer than one     *)
(* sample in 2000 makes the difference, which is what a tenth of a percent *)
(* can show.                                                               *)
StatisticsReadAsAttempts ==
  pc = "done" /\ count > 0 =>
    \A l \in LayerNames :
      LET table == RenderCount
          LineOf(k) == CHOOSE line \in ToSet(table.attempts[k]) : line.name = l
          Attempted(mark) == {k \in DOMAIN table.attempts : LineOf(k).mark = mark}
          passed == Attempted("[ok]") \cup Attempted("[!!]")
          kept == Cardinality(passed)
          lost == Cardinality(Attempted("[FAIL]"))
          s == table.statistics[l]
      IN  /\ s.p50 # {} <=> passed # {}
          /\ \A p \in s.p50 : \A q \in s.p95 : p <= q
          /\ s.p95 # {} <=> passed # {}
          /\ \A q \in s.p95 : \E k \in passed :
               LineOf(k).shown - q \in {0, 1}
          /\ lost = 0 \/ 2000 * lost < kept + lost => s.loss = 0
          /\ s.loss = 0 => 2000 * lost <= kept + lost
          /\ lost > 0 /\ (kept = 0 \/ 2000 * kept < kept + lost) => s.loss = 1000
          /\ s.loss = 1000 => lost > 0 /\ 2000 * kept <= kept + lost

(* types.go, LayerOrder: "JSON output must always follow this order".      *)
(* Whatever was skipped, cut short or not needed by the target, each map   *)
(* keyed by layer is written complete and in that order, in every attempt. *)
KeysFollowLayerOrder == pc = "done" => JSONKeys = {LayerOrder}
==============================================================================
