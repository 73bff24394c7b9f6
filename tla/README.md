# A TLA+ model of stackdiag

stackdiag diagnoses one network target from the bottom of the stack to the top:
name resolution, ICMP reachability, TCP, TLS, HTTP. It executes these layers one
after the other, stops at the first that fails, reports every layer in one
document and condenses the whole into an exit code. With `--count n` it repeats
the diagnosis and adds statistics.

The program is small, but its promises are about orders nobody scripts in a test:
a deadline that falls between two probes, a signal between two attempts, a socket
closed under a blocked read, a clock read three times in one verdict, a late
reply to an earlier echo request, a header map walked in any order, an argument
list read three times by three parsers. This directory models those parts, checks
them with TLC on small instances and proves with TLAPS, for every value of their
constants, the safety of the runner and of what is shown of a run, of the process, of
the five layers, of the target and of the command line, and that every loop but that of the
reachability layer is over after a bounded number of steps.

All paths below are relative to `src/`.

## 1. The system

| component | source | state | operations | modelled |
|---|---|---|---|---|
| results, layer order | `internal/core/types.go`, `marshal.go` | a result per layer: status, duration, observations, error | `ShouldContinue`, `MarshalJSON` | StackCore, Report |
| target | `internal/core/target.go` | scheme, host, port, path, the original to show | `ParseTarget`, `NeedsTLS`, `NeedsHTTP` | Target, StackCore |
| exit codes | `internal/exitcode` | none | `FromResult`, `WorstExitCode` | StackCore |
| runner | `internal/runner` | the result map, `stopped`, `firstNonOK`; per count run the attempts, tallies, durations | `RunOnce`, `RunCount`, `percentile` | Runner, Percentile |
| process | `cmd/stackdiag/main.go` | the signal context, the attempt's context, the output | `main`, `buildLayers`, the context factory, `renderAndExit`, `exitToolError` | Stdiag, Runner |
| dns layer | `internal/layers/dns` | the resolver and the address its Dial hook last saw | `Probe`, `classifyDNSError` | DNSProbe |
| reachability layer | `internal/layers/reachability` | a raw socket, its deadline, the watcher goroutine, the done channel | `Ping`, `Probe` | Ping |
| tcp layer | `internal/layers/tcp` | none | `Probe`, `classifyTCPError` | TCPProbe, HTTPStack |
| tls layer | `internal/layers/tls` | the observations under construction | `Probe`, `performTLSScan` | TLSProbe |
| http layer | `internal/layers/http` | the client, the request's headers | `Probe`, `buildURL`, `classifyStatusCode` | HTTPProbe, HTTPStack, Target |
| command line, auth | `internal/cli` | `Config` | `ParseArgs`, `HasJSONFlag`, `ResolveAuth` | CliArgs |
| table renderer | `internal/render/table` | none | `Render`, `RenderCount` | Report, TLSProbe (the scan's line), in part |
| json renderer | `internal/render/json` | none | `Render`, `RenderCount`, `RenderToolError` | Report, Stdiag, in part |
| fakes, schema, benchmark | `internal/testkit`, `schema`, `bench` | | | no |

**How they interact.** `main` parses the arguments, builds the layer stack the
target's scheme needs, makes a context that SIGINT and SIGTERM cancel and, as its
child, one with a deadline for each attempt. The runner calls the `Probe` of each
layer in turn, synchronously. A layer sees the runner only through that call: the
context going in, a result coming out. Nothing is persisted, so there is no
recovery; the concurrency is between the program's single diagnosing thread, the
timers, the signal, the goroutines of the reachability layer and of Go's resolver,
and the network.

**What is hard, and what makes each component correct.**

* *Runner.* The context is consulted between two layers only. Correct means:
  nothing is executed above a failure or a cut; the report holds all five layers;
  the exit code (recomputed from the map) and `first_non_ok_layer` (tracked in the
  loop) describe the same run; a signal ends a `--count` run's probing; the tallies
  are those of the attempts; the program ends although no probe need return before
  its context is done.
* *Reachability.* Two timers set to one instant, a goroutine that closes the
  socket under a blocked read, raw sockets that see every packet of the host.
  Correct means: it returns when its context is done, reports reachable only for
  an answer to a request of its own, reports a timeout as a timeout, and leaves
  neither goroutine nor socket behind.
* *TLS.* The handshake verifies nothing; verification, the validity check, the
  `--insecure` exceptions and the scan are separate code with several returns, and
  the clock is read at each. Correct means: nothing unverified passes, the days
  shown agree with the status, `--insecure` forgives certificates only, the scan
  can worsen ok to warn and do nothing else.
* *DNS.* The Dial hook runs in the two query goroutines of a lookup, which write one
  address that also outlives the attempt; the lookup waits for both, whether its context
  is done or not. Correct means: the verdict is that of this attempt's own queries, the
  reported server is an eligible one that was dialed, and the lookup returns although no
  server answers.
* *TCP and HTTP.* Header names differing only in case are separate keys of a Go map;
  which one is sent is a matter of map order. Redirects and timeouts are classified by
  error, by two layers under one context. Correct means: a sensitive value never
  appears while redaction is on and no other value is hidden, one request is made and
  its response is the one reported, a timeout is called one exactly when a time limit
  ended the dial, and both calls return once the context is done.
* *Target.* The argument is parsed, kept in decoded parts, written out as a URL and
  parsed again. Correct means: what is accepted can be used, the second parse finds
  what the first one meant, and the target a report shows can be typed again.
* *Command line.* `ParseArgs` separates positional arguments before the flag package
  parses the rest, and `HasJSONFlag` scans the raw list when either fails. Correct
  means: the three agree on what each argument is.
* *Process.* Signals fall before and after they are caught, also while the report is
  being written, and the error of the write is dropped. Correct means: exactly one
  thing is said in one place, the exit code says which, no caught signal costs the
  reader the report, and the process ends.
* *Report.* The lines, the summary, the statistics and the exit code are computed in
  four places, two of which round differently. Correct means: they agree.

The complete list of hazards, each with its line and the properties that cover it,
is in `PROJECT.json`.

## 2. The modules

```
StackCore ─┬─ Runner ──── Report ─── MCRunner       Pipeline   (implemented by Runner)
           │   │                     └─ RunnerProofs
           │   Percentile
           ├─ Ping ────── PingProofs                LayerProbe (implemented by Ping,
           ├─ TLSProbe ─┬─ MCTLSProbe                           TLSProbe, DNSProbe,
           │            └─ TLSProofs                            HTTPProbe and TCPProbe)
           ├─ DNSProbe ─┬─ MCDNSProbe
           │            └─ DNSProofs
           ├─ HTTPProbe ─ HTTPStack ─┬─ MCHTTPStack
           ├─ TCPProbe ───┘          └─ HTTPStackProofs
           ├─ Target ──── TargetProofs
           └─ Stdiag ──── StdiagProofs
CliArgs ─┬─ MCCliArgs
         └─ CliArgsProofs
```

**StackCore** is the shared vocabulary: layer order, statuses, results,
`buildLayers`, and `FromResult` and `WorstExitCode`. `Conclusions` lists, for each
layer, the pairs of status and error code its `Probe` can return, read off its
return statements and its classifier; it is the contract between the layers and
the runner. Only tls warns and only reachability skips by itself.

**Pipeline** is the promise of one diagnosis in terms a user would recognise:
layers decided bottom up, cut off for good after a failure, then one exit code
that names the layer that failed. It knows nothing of contexts, loops or tallies.
It is also where the code's freedom shows: a layer may be cut off at any moment,
not only after a failure.

**Runner** is `RunOnce` and `RunCount`, one action per step of the loop:

| action | code |
|---|---|
| `Begin` | the factory's context and the top of `RunOnce` |
| `SkipLayer` | the branch for `stopped \|\| Err() != nil` |
| `CallProbe`, `ProbeReturns(r)` | `layer.Probe(pctx)` and what follows it in the loop body |
| `Summarize` | the completion of the map and the summary |
| `Collect` | the rest of one pass of `RunCount`'s loop |
| `Report` | the statistics, or the single result, handed to the renderer |
| `DeadlineFires`, `Signal` | the attempt's timer; SIGINT or SIGTERM |

A probe is two steps because the deadline and the signal fall while it runs. What
it returns is any member of `Outcomes[l]`, a constant that must respect the
contract (`OutcomesAssumption`): a probe may return ok although its context is
already done. Statistics are kept as exact fractions; the median is doubled where
the code halves a sum. `ceil(0.95 n)` is computed in integers; the floating-point
product never exceeds an integer that 0.95 n equals, so the two agree.

**LayerProbe** is what the runner relies on when it calls a layer: one conclusion
out of the contract, and a return once the context is done. The module of each of
the five layers is shown to implement it, which is what entitles Runner to assume it.

**Ping** is `icmpPinger.Ping` with its environment over several attempts of one
process. The thread's program counter follows dial, write, read and the mapping of
the read error; the watcher of each attempt is a small machine of its own (waiting,
closing, gone), so the close may come arbitrarily late after the context is done.
The socket's deadline (`expired`) and the context's (`ctxErr`) are two timers.
A packet is the attempt whose request it answers, or `Stranger` for everything
that is not an echo reply with the process's identifier; a socket buffer is a
sequence of packets, and an arriving packet goes to every open socket, as the
kernel does with raw sockets. Requests and replies may be delayed for ever, which
is loss. Lengths, checksums and IP headers are below this abstraction.

**TLSProbe** is one `Probe` of the tls layer: the first handshake, verification,
the validity check, the scan of four versions, with the clock and the context
advancing between any two of them. A server is a certificate and a set of protocol
versions; a certificate is its period, whether it carries the target's name, and
what becomes of the chain above the leaf. A handshake may always fail, and can
succeed only while the context is not done and a version is shared. The branch
`TLS_NO_CERTIFICATES` has no action: the only handshaker the program is built
with does not complete a handshake with a server that shows no certificate. The
wall clock is taken to be monotone.

**DNSProbe** is the dns layer over several attempts of one process, which share one
`trackingResolver`. Each lookup is two query goroutines (A and AAAA), a server index
each, that call the Dial hook for every server they try; the hook refuses link-local
servers, redirects to the server of `--dns-server` and writes the shared `address`.
`LookupHost` ends when both queries are in, in the order of their arrival (`lane`); it does
not ask its context. The context is asked by what the goroutines do next: a dial that
comes too late has its address recorded and fails (`DialTooLate`), and an exchange under
way ends by its own time limit. Reading the address is a step of its own. The resolver
itself is Go's (`net.Resolver` with `PreferGo`): two goroutines, servers in turn and in two
rounds (which `Nameservers` spells out), the first error to arrive, and the wait for both
are modelled as that library does them and are external to this repository.

**Percentile** holds `percentile`'s two results as operators, apart from the runner
because they are also checked on series far longer than a run of the model.

**Report** is what the renderers make of the runner's final state: `Render` and
`RenderCount` of the table as one line per layer (name, mark, rounded duration,
whether the error message or observations are shown), the summary and the statistics,
and the order of the keys of every map `MarshalJSON` writes. Both walk `LayerOrder` and
pass over what is absent (`InLayerOrder`). It has no action. Two
roundings are modelled by what they do: `math.Round` (half away from zero) on the
lines, `%.0f` (half to even) in the statistics. Durations count half milliseconds, so
that there are ties.

**TCPProbe** is one dial of the first resolved address. A dial error is the context's
(deadline or cancellation) or carries an errno; `ETIMEDOUT` is a timeout of the kernel.

**HTTPProbe** is one `Probe` of the http layer. The user's headers are a set of keys, each
a canonical name and the way it was written; `SetHeader` takes any pending key, as Go's
map iteration does, and a later key of the same name overwrites an earlier one. Replies
are a final status, a set of names of response headers and a Location that is absent,
valid or no URL (among these one whose text quotes "context deadline exceeded"). Names
include `Host` and a framing header, which net/http does not write as given. The client's
order is that of net/http (external): Location is parsed before `CheckRedirect` is asked;
the transport has no `Proxy`, so `Route` is the target whatever the environment says. `Do`
may fail at any time and is only known to end when its context is done.

**HTTPStack** composes the two: `RunOnce` calls one after the other under one context,
whose end may fall before, between or during the calls.

**Target** takes an argument apart. What follows the authority is a sequence of tokens
(text, `?`, `#`, `://`, the escapes `%3F`, `%23`, `%25` and a percent sign that starts
none), which is all the data the double parse can tell apart. `Parse` is `ParseTarget`;
`NewRequest` is `buildURL` and the parse of its text by net/http. `Original` is the
target as reports show it.

**CliArgs** reads an argument list as `ParseArgs` does (`SplitFlag`, `SplitPositional`,
`Separated`), then as Go's flag package does (`FlagError`, `HelpRequested`, `BoolFlag`,
`ValueFlag`, `FlagsParsed`; external but for the definition of the flags), then
`Validate` and `ResolveAuth`; `Scan` is the third reading, of `HasJSONFlag` and
`HasJSONPrettyFlag`. Flags of each kind are represented by one or two.

**Stdiag** is `main` from its arguments to the exit status. What the other modules
decide is an input here. A write to stdout takes two steps, so that a signal can fall
into it, and meets a reader that takes everything, a part (a full disk) or nothing (a
closed pipe, which ends a Go process by SIGPIPE).

In the modules that are checked, an operator headed *A mistake the checks must
notice* is a plausible bug: a definition with a guard dropped, a boundary moved or
a reset forgotten. Nothing uses them; `PROJECT.json` pairs each with the property
that refutes it, so every property is known to be able to fail.

## 3. What the runs check

| run | module, cfg | instance | shows |
|---|---|---|---|
| runner_all | MCRunner, Runner_all | three schemes; single runs and two attempts; one result per status a layer can have; a signal | type, walk, exit code, signal, tallies; table and JSON agree with them; refinement of Pipeline; termination |
| runner_stats | MCRunner, Runner_stats | tcp target; one, three and four attempts; three durations and a failure; series of up to 41 durations | statistics and worst exit code, as computed and as printed; percentiles against their definition |
| ping | Ping, Ping | two attempts, one foreign packet | every verdict has its reason; closed reads reported as the context's error; nothing leaks; implements LayerProbe |
| tls_probe | MCTLSProbe, TLSProbe | 56 certificates, three servers, four settings, a clock of four instants | verification, days against status, `--insecure`, the scan and its line in the table; implements LayerProbe |
| dns | MCDNSProbe, DNSProbe | two resolutions; three nameservers, the first link-local; `--dns-server` absent, ordinary or link-local; a literal, an absent and an IPv4-only name | the address reported was eligible; verdicts are of their own attempt; implements LayerProbe |
| http | MCHTTPStack, HTTPStack | two addresses; seven header maps; 32 replies, one at each side of every boundary; with and without redaction, a proxy in the environment, a URL that parses | redaction, one response, timeouts; both calls implement LayerProbe under one context |
| target | Target, Target | every argument of three kinds of host, five schemes, six ports and up to three tokens; three kinds of resolved address | what is accepted can be used and shown; what is requested is what was named |
| cli_args | MCCliArgs, CliArgs | every list of up to four of 18 arguments | the readings of the list agree; one Authorization is sent |
| stdiag | Stdiag, Stdiag | every combination of inputs; signals at every point | output and exit code; signals; the process ends |
| runner_zero, ping_stale, tls_scan | | | the first three disagreements of section 5 |

**Why the bounds suffice.** Two attempts are enough for every property that relates
one attempt to the next (carry-over of tallies, a signal between attempts, a late
reply), and the runner's are in addition proved for any number. Results are
compared by status and by whether the code is a tool error, so one result per
status distinguishes all the runner does. Four attempts give an even and, after a
failure, an odd number of durations, in every order. A second foreign packet
could only repeat what the first does. In TLSProbe a day is two units of the clock
(`UnitsPerDay`) and the threshold one day (`ThresholdDays`, 30 in the code), so
that "just under", "at" and "just over" the threshold and both ends of the period
are distinct instants, and `Horizon` lets the clock cross each of them while the
probe is under way. `percentile`'s indices change where 0.95 n or n / 2 passes an
integer: `LongSeries` has the lengths on both sides of 20 and 40, and of 2, each sorted,
reversed, shuffled, constant and with repetitions. Three tokens after an authority give a path and a
query with one token each, or an escape on either side of a delimiter. Four arguments
let a flag take its value across a third argument that could be taken for either, with
one more before or after them. The http layer makes one request, so that nothing of it
repeats; a map of two keys has both orders.

`CHECK_DEADLOCK FALSE` is set throughout: the program ends.

**Fairness.** The runner's own steps are straight-line code (weak fairness). The
deadline is a timer (weak fairness). A probe is trusted to return *only once its
context is done*; before that a black-holed connection may hang. That is exactly
what `LayerProbe` states, and Ping, TLSProbe and DNSProbe establish it from
assumptions about their own parts: in Ping the thread and the goroutines are scheduled and a blocked read
returns when its socket is closed or expired, while nothing at all is assumed of
timers, network and signal; in TLSProbe the straight-line parts run and a handshake
ends once its context is done; in DNSProbe the thread and the query goroutines are
scheduled and an exchange ends by its own time limit (no later than the context's
deadline), but nothing is assumed of the nameservers, and of an exchange with a link-local
one not even an end, because Go's resolver may hang there (`internal/layers/dns/dns.go:64`);
in HTTPStack the
straight-line parts run, and a dial and `Do` end once the context is done. In Stdiag
the steps of `main` run, the deadline is a timer, and the runner ends once its
context is done, which is what Runner's `Terminates` shows; whatever reads stdout is
trusted to take or refuse what is written (a reader that does neither blocks the process).

## 4. What is proved

Every theorem holds for runs of any length and for every value of the constants that its
module's named assumptions allow. The assumptions say what the constants are and no
more, and TLC evaluates them on the instances of section 3:

| module | assumptions | so that it holds for |
|---|---|---|
| Runner, Report | `SchemesAssumption`, `CountsAssumption`, `InterruptsAssumption`, `OutcomesAssumption` | any schemes and counts, all results the layers' contracts allow, with signals or without |
| Ping | `AttemptsAssumption`, `StrangersAssumption` | any number of attempts and of foreign packets |
| TLSProbe | `ThresholdAssumption`, `HorizonAssumption`, `ServersAssumption`, `CertificatesAssumption` | any threshold and length of a day, any certificates and servers, a clock that runs as long as one likes |
| DNSProbe | `AttemptsAssumption`, `ServersAssumption`, `DomainsAssumption` | any number of attempts, any list of nameservers, any names |
| HTTPStack | `HeaderMapsAssumption`, `RepliesAssumption` | any header maps, replies and addresses |
| Target | `TargetAssumption` | arguments of any length, any ports |
| CliArgs | `ArgumentsAssumption` | argument lists of any length |
| Stdiag | none | all inputs |

| theorem | statement |
|---|---|
| `RunnerProofs!TypeCorrect` | `Spec => []TypeOK` |
| `RunnerProofs!NoProbeAboveFailure` | `Spec => []NothingAboveAFailure` |
| `RunnerProofs!ExitCodeCorrect` | `Spec => []ExitCodeNamesTheFailure` |
| `RunnerProofs!TalliesCorrect` | `Spec => []TalliesMatchAttempts` |
| `RunnerProofs!SignalStopsProbing` | `Spec => []NoProbeAfterSignal` |
| `RunnerProofs!P95IsNearestRank` | `P95(d)` is the least value of `d` that 95 in a hundred do not exceed, for every series |
| `RunnerProofs!P50IsMedian` | half of `d` is not above `P50Doubled(d)` / 2 and half not below, and it is one of `d` or half the sum of two neighbours |
| `RunnerProofs!PercentilesAreFair` | the same of `P95`, and that the median of `-d` is that of `d` mirrored and is not above `P95(d)`, for every series |
| `RunnerProofs!PercentilesCorrect` | `Spec => []PercentilesAreRanks` |
| `RunnerProofs!ReportIsSound` | `Spec => []ReportSound` |
| `RunnerProofs!RunnerKeepsPromise` | `Spec => ImplementsPipeline` |
| `RunnerProofs!KeysInOrder` | `Spec => []KeysFollowLayerOrder` |
| `RunnerProofs!TableAgrees` | `Spec => []TableTellsExitCode` |
| `RunnerProofs!StatisticsAgree` | `Spec => []StatisticsReadAsAttempts` |
| `RunnerProofs!RunIsBounded` | every step takes from `StepsLeft`, which starts at no more than 14 for each attempt and three |
| `RunnerProofs!FromResultIsExact` | for every map of results: what each value of `FromResult` says of it, as an equivalence |
| `RunnerProofs!WorstIsExact` | for every series of codes: what the loop of `WorstExitCode` returns is one of them (0 of none) and none of them exceeds it |
| `RunnerProofs!RunIsNoToolError` | `Spec => [](pc = "done" => report.exit \in ExitCodes \ {1})` |
| `RunnerProofs!ExitZeroInTime` | `Spec => []FinishedInTime`: exit code 0 with a live context means that every layer needed was executed |
| `PingProofs!PingTypeCorrect` | `Spec => []TypeOK` |
| `PingProofs!VerdictExplained` | `Spec => []VerdictIsExplained` |
| `PingProofs!ClosedReadMapped` | `Spec => ClosedReadIsContextError`, an action property |
| `PingProofs!PingKeepsContract` | `Spec => Contract!Init /\ [][Contract!Next]_(Contract!vars)` |
| `PingProofs!NothingHeldBack` | `Spec => []NothingHeld`: a Probe that has returned has no open socket, nothing queued, and a watcher only if its done channel is closed |
| `PingProofs!RepliesCountOnce` | `Spec => []EachReplyCountsOnce`: no reply is taken by two attempts, and the first takes its own |
| `TLSProofs!TLSTypeCorrect` | `Spec => []TypeOK` |
| `TLSProofs!UnverifiedFails` | `Spec => []NothingUnverifiedPasses` |
| `TLSProofs!DaysAgree` | `Spec => []DaysAgreeWithStatus` |
| `TLSProofs!InsecureForgives` | `Spec => []InsecureForgivesCertificates` |
| `TLSProofs!ScanWarnsOnly` | `Spec => ScanOnlyWarns`, an action property |
| `TLSProofs!ScanLineExplains` | `Spec => []ScanLineExplainsStatus` |
| `TLSProofs!TLSKeepsContract` | `Spec => Contract!Init /\ [][Contract!Next]_(Contract!vars)` |
| `TLSProofs!ScanIsComplete` | a scan that is reported has each version once, in order |
| `TLSProofs!ScanLeftOutOnlyForDates` | a scan asked for and not there means one of the three codes about the dates of a certificate |
| `TLSProofs!ProbeIsBounded` | every step but the clock's takes from `StepsLeft`, at most 10 |
| `DNSProofs!DNSTypeCorrect` | `Spec => []TypeOK` |
| `DNSProofs!ReportedEligible` | `Spec => []ReportedWasEligible` |
| `DNSProofs!VerdictIsOwn` | `Spec => []VerdictIsOfThisAttempt` |
| `DNSProofs!DNSKeepsContract` | `Spec => Contract!Init /\ [][Contract!Next]_(Contract!vars)` |
| `DNSProofs!LookupEndsOnBoth` | a lookup has both results exactly when both queries have ended, and no query runs once it has returned; `DNS_ERROR` only of a query that went through the whole list |
| `DNSProofs!ResolutionsAreBounded` | every step takes from the finite set `Todo`: no query is twice at one place of the list of nameservers |
| `HTTPStackProofs!StackTypeCorrect` | `StackSpec => []StackTypeOK` |
| `HTTPStackProofs!RedactionExact` | `StackSpec => []RedactionIsExact` |
| `HTTPStackProofs!OneResponse` | `StackSpec => []FirstResponseReported` |
| `HTTPStackProofs!TimeoutsNamed` | `StackSpec => []TimeoutsAreNamed` |
| `HTTPStackProofs!HTTPKeepsContract` | `StackSpec => Contract!Init /\ [][Contract!Next]_(Contract!vars)` |
| `HTTPStackProofs!TCPKeepsContract` | the same of `TCP!Contract` |
| `HTTPStackProofs!CallsAreBounded` | every step of the two calls takes from the finite set `Todo` |
| `TargetProofs!AcceptedUsableAgain` | `Spec => []AcceptedTargetsAreUsable` |
| `TargetProofs!PlainRequested` | `Spec => []PlainTargetsAreRequested` |
| `CliArgsProofs!ReadOnce` | `Spec => []ReadAsOneList` |
| `CliArgsProofs!ScanSees` | `Spec => []ScanAgrees` |
| `CliArgsProofs!AuthorizationSent` | `Spec => []AuthorizationIsUnambiguous` |
| `CliArgsProofs!ReadingIsBounded` | every step takes from `StepsLeft`, which starts at two for each argument and four |
| `StdiagProofs!ExitCodeHonest` | `Spec => []ExitCodeTellsOutput` |
| `StdiagProofs!ShutdownGraceful` | `Spec => []SignalLeavesReportWhole` |
| `StdiagProofs!MainIsBounded` | every step takes from `StepsLeft`, which starts at 8 |

Taken together: each layer returns nothing but what its contract allows, the runner
makes of such returns what Pipeline promises, and the table, the JSON keys and the exit
code say the same of the outcome.

### The runner

**Types.** `TypeOK` alone is not inductive: after the loop the map must be complete
for `Collect` to record only real results. `TypeInv` adds that.

**The walk.** `NothingAboveAFailure` says nothing of the loop's position, so it
cannot show that the next probe is allowed. `WalkInv` adds what the loop knows at
its head: only layers below `pos` have been executed; and while the loop is free to
probe, or is probing, all of them were executed and none failed. `WriteKeepsWalk` is
the one lemma about adding a result to a proper walk; every action but
`ProbeReturns`, `SkipLayer`, `Summarize` and `Collect` leaves the map alone.

**The exit code.** `ExitInv` adds the loop's invariant of `firstNonOK` (everything
below it is quiet, and if it is empty everything is) and that each entry of the map
is absent, skipped by the runner or within its layer's contract. `OneFailure` uses
the walk: at most one layer fails, since nothing is executed above a failure. With
it `WalkAgrees` shows that `FromResult`'s recount and the tracked name agree.

**The tallies.** `TalliesMatchAttempts` is inductive together with the types;
`CollectCounts` computes how the cardinality of the attempts with a given status
changes when one is appended.

**The signal.** `SignalInv` numbers the attempt under way (one more than those
recorded) and says that one which began after the signal has a done context, is not
probing and has executed nothing.

**The percentiles.** What looks like induction over the series is had from least elements.
The k-th smallest value is the least one that k of the durations do not exceed
(`KthExists`), it grows with k (`KthMonotone`), and the indices the code computes are
ranks of the series, so that the clamp never bites (`Ranks`). `MedianMirrored` turns the
series round: the k-th smallest of the negated durations is the k-th greatest negated, so
that the code's even and odd cases favour neither half. With it `PercentilesAreRanks`
holds of every series and not only of those of the run. `ReportInv` says how far the
series has come and that the exit codes and tallies belong to the recorded attempts;
`MeasurementSound` reads `ReportSound` off a finished one.

**The exit codes by themselves.** `FromResultIsExact` and `WorstIsExact` speak of the
operators, for any map and any list, and so do not depend on what a run can reach. The
second is about the loop of `WorstExitCode`, a recursive function of the passes made:
`PassesExist` shows by a least counterexample that the loop has a value after each pass,
and the theorem, in the same way, that what it holds then is one of the codes seen and
none of them exceeds it. `RunIsNoToolError` is what `Stdiag` takes for granted of the exit
code of a run. `ExitZeroInTime` says how far the first disagreement of section 5 goes. Its `InTimeInv`
adds that the loop is stopped by a failed layer only, which an exit code of 0 excludes, so
that a layer that was needed and not executed was skipped for the context.

**The promise.** `RunnerKeepsPromise` is the whole refinement, since Pipeline states no
fairness. `FilledInv` says that a layer the loop has passed is decided and none ahead of
it is; `PromiseStep` maps each step of the runner to a step of Pipeline or to none, and
`ExitOfVerdicts` shows that the code computed from the results is the one the verdicts
call for.

**What is shown.** All five layers are in a finished result (`AllInOrder`), so that each
line stands at its layer's place and the marks are the statuses. `RenderInv` adds what
only a reader needs: results keep to their contract after the loop too, a single run
reports its own code, and each duration kept for the statistics belongs to an attempt
that is shown as passed. `PrintedMedian`, `PrintedTwice` and `PrintedLoss` are the
arithmetic of the two roundings. The last one decides what `StatisticsReadAsAttempts` may say of the loss:
with 2001 samples or more, which no instance of section 3 comes near, one failure is shown
as 0.0%, so that the property speaks of either side of one in 2000.

### The layers

**Ping.** `PacketInv`: nothing is answered or queued that was not asked for. `WatcherInv`:
a watcher closes only a socket whose context is done, and until Probe returns nobody else
closes it. `ErrorInv`: an error that is held has its reason. `ConclusionInv` carries the
verdicts of past attempts along. The two timers never need to be related: an i/o timeout
is a reason in itself, which is why it may be classified as an error. `SocketInv` says
where sockets and watchers are: none ahead of the attempt under way, none open behind it,
packets only in an open one. `PlaceInv` follows each reply: it is in one place at a time,
on its way out or back, once in the queue of one socket, or taken by one attempt. Late
replies can be taken by the wrong attempt (section 5), but each counts once.

**TLS.** `VerifiedInv` says that no way to a good result passes verification by and that
what was verified stays true as the clock advances. `DaysInv` compares the days shown with
the clock of the verdict, which is later: `DaysMonotone` is the lemma. `ProgressInv` and
`ScanInv` say when results and scanned versions exist and that a verdict about a
deprecated version is the scan's own. `OrderInv` numbers the scan's entries, and says
which verdicts are returned without one.

**DNS.** `FreshInv` says that an attempt not begun has asked nothing, `QueryInv` that a
query in the lane has ended and a failed one has an error, `AddressInv` that whatever any
goroutine of any attempt wrote may be dialed, `VerdictInv` that a verdict on a name has a
query of its own attempt as a reason. `LookupEndsWithReason` is the step where an attempt
ends. `LaneInv` says that the lane holds the ended queries, each once, and `ExhaustInv`
that a query fails with a server's answer or after the last server. `OutlivesStep` uses
the lane: the thread leaves a lookup when both queries have ended, so that none is left to
write the address after Probe has read it.

**TCP and HTTP.** `RedactionIsExact` compares what was sent with what is shown, and the
two are computed from different things: the header under construction and the user's
map. `HeadersInv` relates them while the map is walked: each key visited has left a
value under its name, each value is that of a key of its name, and the observations are
empty or built from the whole map. `BuiltIsRedacted` is the lemma about the latter.
`ResponseInv` says that no response exists before the one that ends `Do`; `DialInv` that a
cause exists only once the dial has failed.

**The contracts.** Each of the five maps every step to one of LayerProbe or to none that
it sees, from its own invariant; what is left of `ImplementsProbe` is fairness.
`StatusCodesDocumented` is why the code http makes up from a status is in the contract: the
generic fall-through of `classifyStatusCode` cannot be reached from 400 up.

### The target, the command line and the process

**Target.** `TargetInv` only says what each of the two steps has left behind: the work
is about the text. `IndexFacts`, `BeforeFacts` and `AfterFacts` say what a cut at the first
delimiter leaves on either side, `Reparse` that a text which is written as a path, a
delimiter and the rest is cut there again.

**Command line.** `Role` is the reading of the list from left to right, a recursive
function of the position; `ReadingExists` shows by a least counterexample that there is
one. `SplitInv` says that the loop of `ParseArgs` stands where the reading begins something
new and has gathered in order (`Gathers`) what it would have told apart, `FlagsInv` the same
of the flag package in the list it was handed (`ReadTo`), `ParsedInv` what both have left.

**The process.** `ExitCodeTellsOutput` speaks of the end. `OutputInv` says at each
point of `main` what has been decided and what has been said so far, `Fits` that the
document and the exit code decided on go together, and `SignalInv` that signals are
caught from before the run on.

### The end of it

That something comes to an end is liveness. Half of it is safety: that there is only so
much to do. Six theorems count it (`RunIsBounded`, `ReadingIsBounded`, `ProbeIsBounded`,
`MainIsBounded`, `ResolutionsAreBounded`, `CallsAreBounded`). Where the code is
sequential, `StepsLeft` is a number that every step lowers: the runner's adds the attempts
to come to what is left of the one under way, its deadline and the signal included; the
command line's sees that splitting takes two off for an argument and puts one back for
each that the flag package still has to read; those of the tls layer and of `main` follow
the program counter. Where steps come in no fixed order (those of the goroutines of
DNSProbe, the header keys of HTTPStack) `Todo` is the set of what is left, finite, and a
step takes some out and puts none back. `NothingHeldBack` is the same half of
`NothingLeaks`: everything a returned Probe was holding has been let go, or is about to be
on a channel that is closed. What remains to TLC is that the steps are taken. Ping has no
bound of this kind: its read loop passes over foreign packets for as long as they come and
the deadline has not fired. In the model `MaxStrangers` ends it, which is a bound of the
model and not of the code.

### Only model-checked

* `Terminates`, `Ends`, `NothingLeaks`, and the fairness part of `ImplementsProbe` and
  `ImplementProbes`: liveness, which the prover does not reach. Their safety halves are
  proved, as said above.
* The three disagreements of section 5 that are runs are counterexamples, not theorems. How
  far each goes is one: `ExitZeroInTime`, `RepliesCountOnce` and `ScanLeftOutOnlyForDates`.

## 5. Where code and documents disagree

* **runner_zero.** The help text says of exit code 0 "All layers passed"
  (`internal/cli/cli.go:71`). When the deadline or a signal falls between two
  probes the remaining layers are recorded as skipped, which is not an issue for
  `FromResult`; the program ends with 0 and an empty `first_non_ok_layer`. It takes a
  context that has ended: `ExitZeroInTime`.
* **ping_stale.** A comment says stale replies of earlier attempts "cannot arrive
  on a new raw socket" (`internal/layers/reachability/reachability.go:166`). Raw
  sockets receive every ICMP packet, and identifier and sequence number are the
  same in each attempt: a late reply to the first ping is taken for the second's. It is
  taken once, so that no more attempts succeed than were answered: `RepliesCountOnce`.
* **tls_scan.** `docs/schema.md:313` says the observations include `tls_scan` when
  the scan was asked for. Probe returns before the scan for a certificate about to
  expire, and with `--insecure` for one expired or not yet valid. There is no other
  reason: `ScanLeftOutOnlyForDates`.

The following are not runs of their own. Each is an exact exception written into a
property that holds, so that the run shows how far the document's statement is true:

* `docs/schema.md:174` reserves `REACHABILITY_TIMEOUT` for no response, but the socket
  deadline may be seen before the context's, and the read (or write) then fails with a
  plain i/o timeout classified `REACHABILITY_ERROR` (`VerdictIsExplained`).
* `docs/schema.md:86` calls `resolver_address` the address "used for the query". Every
  dial of either query overwrites it, so it can be a server that sent none of the
  records, also one that was dialed too late to be asked (`ReportedWasEligible`).
  (The same line says `null` for the system's resolver, which reports an address as
  well.)
* `docs/schema.md:164` says of `DNS_NXDOMAIN` "Domain does not exist". Go calls a name
  without address records "not found" as well, and the first of the two queries to
  fail decides (`VerdictIsOfThisAttempt`).
* `docs/schema.md:135` calls `request_headers` the headers sent. A `Host` key and those of
  the framing headers (`Content-Length`, `Transfer-Encoding`, `Trailer`) are shown but not
  sent as given, and of two spellings of one name both are shown and one is sent
  (`RedactionIsExact`).
* `docs/schema.md:268` says of redirects that they are reported and not followed. One with
  a Location that is no URL is an error of the client, `HTTP_ERROR` (or `HTTP_TIMEOUT`, if
  its text quotes an expired deadline), and its status is not reported
  (`FirstResponseReported`). `docs/schema.md:302` says that a request is routed through a
  proxy set in the environment; the transport is built without one.
* `internal/core/target_test.go:82` says that a query is preserved. The path is kept
  decoded and parsed again, so that an escaped `#` or `?` in it becomes a delimiter
  (`PlainTargetsAreRequested`).
* `internal/core/target.go:28` gives a target without a scheme the default `https`; one
  with `://` further on is refused instead (`AcceptedTargetsAreUsable`).
* `docs/schema.md:397` says that errors are structured with `--json`. A later argument
  that looks like `--json=false` and is a value hides it from the scan (`ScanAgrees`).
* A comment at `cmd/stackdiag/main.go:130` says that the report is written atomically.
  The error of the write is not looked at: a part may arrive and the exit code is that
  of the diagnosis (`ExitCodeTellsOutput`).
* `docs/schema.md:336` says whether a version is supported. A handshake of the scan
  that fails for want of time counts as refused (`ScanLineExplainsStatus`).

`docs/schema.md:286` calls `--timeout` global; with `--count` each attempt has one of
its own (`Begin` in Runner).

## 6. What is not modelled

* Wording and layout: help and error texts, column widths, colours, the descriptions of
  the table's lines beyond which kind they are, the list of response headers.
* The fields of the observations beyond those a property speaks of; they are plain
  structures that are filled and encoded without control. `RenderCount` prints no scan
  line. No value of a report fails to encode, so the renderers' error path has no action.
* Request methods (one that is not a token makes the request fail as a bad URL does),
  HTTP/2, informational responses, which the transport keeps to itself but for 101.
* The kernel beyond what Ping states of raw sockets, Go's resolver beyond what DNSProbe
  states (no search domains, no `single-request`), `crypto/tls` and `x509` beyond the
  outcomes `TLSProbe` names, net/url beyond Target's tokens; a zone in an address only
  as a reason to refuse it.
* A reader of stdout that neither takes nor refuses what is written.
* Test fakes, the JSON schema (its statements are quoted where they are checked), the
  benchmark's scripts.

## 7. What could still be done

1. The steps of `RunOnce` within `main`: that what Stdiag takes for the runner is what
   Runner does. That a run's exit code is one Stdiag allows is proved (`RunIsNoToolError`);
   the rest needs the two modules composed, with the signal context they share.
2. Type correctness of Stdiag, CliArgs and Target as theorems of their own. The invariants of
   their proofs contain it, and no run checks it by itself.
3. A bound for Ping that does not lean on `MaxStrangers`: that what it does between two
   packets is bounded.
