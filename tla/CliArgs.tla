--------------------------------- MODULE CliArgs ---------------------------------
(***************************************************************************)
(* internal/cli: from the argument list to a Config, or to an error and    *)
(* the form it is printed in.                                              *)
(*                                                                         *)
(* The arguments are read three times.  ParseArgs first separates what is  *)
(* positional from flags and their values; Go's flag package then parses   *)
(* the flags; and if anything is wrong main scans the raw list once more   *)
(* to see whether JSON was asked for.  All three have to agree on what     *)
(* each argument is.                                                       *)
(*                                                                         *)
(* An argument is its number of leading dashes, its name and what follows  *)
(* an "=".  The flags of each kind (boolean, number, text, header) are     *)
(* represented by one or two.                                              *)
(***************************************************************************)
EXTENDS Integers, Sequences, FiniteSets, FiniteSetsExt

CONSTANTS
  Arguments,        \* the arguments a list may be made of
  MaxArgs           \* bound on its length

BoolFlags == {"json", "json-pretty", "version"}

ValueFlags == {"timeout", "header", "bearer-env", "basic-env"}

HelpFlags == {"help", "h"}

(* Texts as the checks below tell them apart.  "-text" is an argument with *)
(* dashes that is taken as a value.                                        *)
AuthHeaders == {"Authorization: x", "authorization: x"}

Texts == {"url", "VAR", "0", "10", "-text", "true", "false", "tRUE"} \cup AuthHeaders

NoValue == "none"

Argument ==
  [dashes : 0 .. 3, name : BoolFlags \cup ValueFlags \cup HelpFlags \cup Texts \cup {"", "bogus"},
   value : Texts \cup {NoValue}]

ASSUME ArgumentsAssumption == Arguments \subseteq Argument /\ MaxArgs \in Nat

VARIABLES
  args,         \* os.Args[1:]
  pc,           \* "split", "flags", "validate", "auth" or "done"
  i,            \* the loop of ParseArgs over args
  flagArgs,     \* what is handed to the flag package and not yet parsed
  positional,
  cfg,          \* the Config
  headers,      \* cfg.Headers: from keys as written to where the value is from
  outcome,      \* "config", "help", "version", "error" (INVALID_ARGS) or "none"
  form          \* the form an error is printed in

vars == <<args, pc, i, flagArgs, positional, cfg, headers, outcome, form>>

Unset == ""

Empty == [k \in {} |-> "given"]

Init ==
  /\ args \in UNION {[1 .. n -> Arguments] : n \in 0 .. MaxArgs}
  /\ pc = "split"
  /\ i = 1
  /\ flagArgs = <<>>
  /\ positional = <<>>
  /\ cfg = [json |-> FALSE, pretty |-> FALSE, version |-> FALSE, timeout |-> "10",
            header |-> <<>>, bearer |-> Unset, basic |-> Unset, target |-> Unset]
  /\ headers = Empty
  /\ outcome = "none"
  /\ form = "none"

------------------------------------------------------------------------------
(* helpers.go: the scan of the raw list.                                   *)

Terminator(a) == a.dashes = 2 /\ a.name = "" /\ a.value = NoValue

(* ParseBoolValue                                                          *)
Truthy(v) == v \in {"true", "tRUE"}

Mentions(name) ==
  {k \in DOMAIN args : args[k].dashes = 2 /\ args[k].name = name}

(* A mistake the checks must notice: the first mention counts.             *)
ScanFirstWins(name) ==
  Mentions(name) # {} /\
    LET a == args[Min(Mentions(name))] IN a.value = NoValue \/ Truthy(a.value)

(* The last mention counts.                                                *)
Scan(name) ==
  Mentions(name) # {} /\
    LET a == args[Max(Mentions(name))] IN a.value = NoValue \/ Truthy(a.value)

HasJSONPrettyFlag == Scan("json-pretty")

HasJSONFlag == Scan("json") \/ Scan("json-pretty")

(* main, for an error of ParseArgs.                                        *)
ScannedForm ==
  CASE HasJSONPrettyFlag -> "pretty"
    [] ~HasJSONPrettyFlag /\ HasJSONFlag -> "json"
    [] OTHER -> "plain"

(* exitToolError, for an error found later.                                *)
ConfiguredForm ==
  CASE cfg.pretty -> "pretty" [] ~cfg.pretty /\ cfg.json -> "json" [] OTHER -> "plain"

Ends(with, how) ==
  /\ pc' = "done"
  /\ outcome' = with
  /\ form' = how

------------------------------------------------------------------------------
(* ParseArgs: separate the positional arguments.                           *)

(* Like a flag: something follows the dashes, be it an "=" only, which the *)
(* flag package refuses.                                                   *)
Looks(a) == a.dashes > 0 /\ (a.name # "" \/ a.value # NoValue)

(* A mistake the checks must notice: a boolean flag taken for one that     *)
(* needs a value.                                                          *)
NeedsValueAll(a) == a.value = NoValue /\ a.name \in ValueFlags \cup {"json"}

NeedsValue(a) == a.value = NoValue /\ a.name \in ValueFlags

SplitFlag ==
  /\ pc = "split"
  /\ i <= Len(args)
  /\ Looks(args[i])
  /\ LET n == IF NeedsValue(args[i]) /\ i < Len(args) THEN 2 ELSE 1
     IN  /\ flagArgs' = flagArgs \o SubSeq(args, i, i + n - 1)
         /\ i' = i + n
  /\ UNCHANGED <<args, pc, positional, cfg, headers, outcome, form>>

SplitPositional ==
  /\ pc = "split"
  /\ i <= Len(args)
  /\ ~Looks(args[i])
  /\ \/ /\ Terminator(args[i])
        /\ positional' = positional \o SubSeq(args, i + 1, Len(args))
        /\ i' = Len(args) + 1
     \/ /\ ~Terminator(args[i])
        /\ positional' = Append(positional, args[i])
        /\ i' = i + 1
  /\ UNCHANGED <<args, pc, flagArgs, cfg, headers, outcome, form>>

Separated ==
  /\ pc = "split"
  /\ i > Len(args)
  /\ pc' = "flags"
  /\ UNCHANGED <<args, i, flagArgs, positional, cfg, headers, outcome, form>>

------------------------------------------------------------------------------
(* fs.Parse(flagArgs), as the flag package of Go's library does it.        *)

TextOf(a) == IF a.dashes = 0 THEN a.name ELSE "-text"

(* The value of a text flag, in place or in the argument after it.         *)
ValueOf(a, more) == IF a.value # NoValue THEN a.value ELSE TextOf(Head(more))

Numbers == {"0", "10"}

Malformed(a, more) ==
  \/ a.dashes = 3
  \/ a.name \notin BoolFlags \cup ValueFlags \cup HelpFlags
  \/ a.name \in BoolFlags /\ a.value \notin {NoValue, "true", "false"}
  \/ a.name \in ValueFlags /\ a.value = NoValue /\ more = <<>>
  \/ a.name = "timeout" /\ (a.value # NoValue \/ more # <<>>) /\ ValueOf(a, more) \notin Numbers

(* The flag package stops at the first argument that is no flag.           *)
AtFlag == flagArgs # <<>> /\ Looks(Head(flagArgs))

FlagError ==
  /\ pc = "flags"
  /\ AtFlag
  /\ Malformed(Head(flagArgs), Tail(flagArgs))
  /\ Ends("error", ScannedForm)
  /\ UNCHANGED <<args, i, flagArgs, positional, cfg, headers>>

HelpRequested ==
  /\ pc = "flags"
  /\ AtFlag
  /\ ~Malformed(Head(flagArgs), Tail(flagArgs))
  /\ Head(flagArgs).name \in HelpFlags
  /\ Ends("help", "none")
  /\ UNCHANGED <<args, i, flagArgs, positional, cfg, headers>>

SetBool(name, on) ==
  CASE name = "json"        -> [cfg EXCEPT !.json = on]
    [] name = "json-pretty" -> [cfg EXCEPT !.pretty = on]
    [] name = "version"     -> [cfg EXCEPT !.version = on]

BoolFlag ==
  /\ pc = "flags"
  /\ AtFlag
  /\ LET a == Head(flagArgs)
     IN  /\ ~Malformed(a, Tail(flagArgs))
         /\ a.name \in BoolFlags
         /\ cfg' = SetBool(a.name, a.value # "false")
  /\ flagArgs' = Tail(flagArgs)
  /\ UNCHANGED <<args, pc, i, positional, headers, outcome, form>>

SetText(name, text) ==
  CASE name = "timeout"    -> [cfg EXCEPT !.timeout = text]
    [] name = "header"     -> [cfg EXCEPT !.header = Append(@, text)]
    [] name = "bearer-env" -> [cfg EXCEPT !.bearer = text]
    [] name = "basic-env"  -> [cfg EXCEPT !.basic = text]

ValueFlag ==
  /\ pc = "flags"
  /\ AtFlag
  /\ LET a == Head(flagArgs)
     IN  /\ ~Malformed(a, Tail(flagArgs))
         /\ a.name \in ValueFlags
         /\ cfg' = SetText(a.name, ValueOf(a, Tail(flagArgs)))
         /\ flagArgs' = IF a.value # NoValue THEN Tail(flagArgs) ELSE Tail(Tail(flagArgs))
  /\ UNCHANGED <<args, pc, i, positional, headers, outcome, form>>

FlagsParsed ==
  /\ pc = "flags"
  /\ ~AtFlag
  /\ pc' = IF cfg.version THEN "done" ELSE "validate"
  /\ outcome' = IF cfg.version THEN "version" ELSE outcome
  /\ cfg' = [cfg EXCEPT !.json = @ \/ cfg.pretty]
  /\ UNCHANGED <<args, i, flagArgs, positional, headers, form>>

------------------------------------------------------------------------------
(* The rest of ParseArgs, and ResolveAuth.                                 *)

(* A mistake the checks must notice: header names compared as written.     *)
AuthConflictAsWritten ==
  \/ cfg.bearer # Unset /\ cfg.basic # Unset
  \/ {cfg.bearer, cfg.basic} # {Unset} /\ \E k \in DOMAIN cfg.header : cfg.header[k] = "Authorization: x"

AuthConflict ==
  \/ cfg.bearer # Unset /\ cfg.basic # Unset
  \/ {cfg.bearer, cfg.basic} # {Unset} /\ \E k \in DOMAIN cfg.header : cfg.header[k] \in AuthHeaders

Invalid ==
  \/ cfg.timeout = "0"
  \/ \E k \in DOMAIN cfg.header : cfg.header[k] \notin AuthHeaders
  \/ AuthConflict
  \/ Len(positional) # 1

HeaderKey(text) == IF text = "Authorization: x" THEN "Authorization" ELSE "authorization"

Validate ==
  /\ pc = "validate"
  /\ \/ /\ Invalid
        /\ Ends("error", ScannedForm)
        /\ UNCHANGED <<cfg, headers>>
     \/ /\ ~Invalid
        /\ pc' = "auth"
        /\ headers' = [h \in {HeaderKey(cfg.header[k]) : k \in DOMAIN cfg.header} |-> "given"]
        /\ cfg' = [cfg EXCEPT !.target = TextOf(positional[1])]
        /\ UNCHANGED <<outcome, form>>
  /\ UNCHANGED <<args, i, flagArgs, positional>>

(* What lookupEnv may find under a name; only VAR can be set.              *)
EnvValues(name) == {"unset"} \cup (IF name = "VAR" THEN {"blank", "token", "user:pass"} ELSE {})

AuthFails(value) ==
  \/ cfg.bearer # Unset /\ value \in {"unset", "blank"}
  \/ cfg.basic # Unset /\ value # "user:pass"

ResolveAuth ==
  /\ pc = "auth"
  /\ \E value \in EnvValues(IF cfg.bearer # Unset THEN cfg.bearer ELSE cfg.basic) :
     \/ /\ AuthFails(value)
        /\ Ends("error", ConfiguredForm)
        /\ UNCHANGED headers
     \/ /\ ~AuthFails(value)
        /\ Ends("config", "none")
        /\ headers' = IF {cfg.bearer, cfg.basic} = {Unset} THEN headers
                      ELSE [h \in DOMAIN headers \cup {"Authorization"} |->
                              IF h = "Authorization" THEN "env" ELSE headers[h]]
  /\ UNCHANGED <<args, i, flagArgs, positional, cfg>>

Next ==
  \/ SplitFlag \/ SplitPositional \/ Separated
  \/ FlagError \/ HelpRequested \/ BoolFlag \/ ValueFlag \/ FlagsParsed
  \/ Validate \/ ResolveAuth

Spec == Init /\ [][Next]_vars

------------------------------------------------------------------------------
(* The list read once, from left to right, as the help text describes it:  *)
(* flags anywhere, each with its value, until "--".                        *)
ByItself(a) ==
  CASE Terminator(a) -> "end"
    [] Looks(a)      -> "flag"
    [] OTHER         -> "word"

TakesNext(a) == a.name \in ValueFlags /\ a.value = NoValue

Role[k \in 0 .. Len(args)] ==
  IF k = 0 THEN "none"
  ELSE IF Role[k - 1] \in {"end", "rest"} THEN "rest"
  ELSE IF Role[k - 1] = "flag" /\ TakesNext(args[k - 1]) THEN "value"
  ELSE ByItself(args[k])

Having(roles) == {k \in DOMAIN args : Role[k] \in roles}

(* The last flag of a name decides.                                        *)
Asked(name) ==
  LET said == {k \in Having({"flag"}) : args[k].name = name}
  IN  said # {} /\ args[Max(said)].value # "false"

(* Splitting the list and parsing the flags apart from it comes to the     *)
(* same as reading it once: no flag is left unread, the target is the one  *)
(* argument that is neither flag nor value, and the last --json counts.    *)
ReadAsOneList ==
  pc \in {"validate", "auth"} =>
    /\ flagArgs = <<>>
    /\ Len(positional) = Cardinality(Having({"word", "rest"}))
    /\ \A k \in DOMAIN positional : \E n \in Having({"word", "rest"}) : positional[k] = args[n]
    /\ cfg.json <=> Asked("json") \/ Asked("json-pretty")
    /\ cfg.pretty <=> Asked("json-pretty")

(* Where no value and nothing after "--" looks like a --json flag, and     *)
(* those there are have two dashes, the scan of the raw list sees the form *)
(* that ParseArgs has understood.  (Elsewhere it need not: with a later    *)
(* "--json=false" that is a value, an error is plain text although --json  *)
(* was given, of which docs/schema.md:397 says it is structured.)          *)
ScanAgrees ==
  LET forms == {k \in DOMAIN args : args[k].name \in {"json", "json-pretty"}}
  IN  pc \in {"validate", "auth"} /\ (\A k \in forms : Role[k] = "flag" /\ args[k].dashes = 2)
        => ScannedForm = ConfiguredForm

(* With --bearer-env or --basic-env the request has one Authorization      *)
(* header, and it is the one from the environment: no other spelling of it *)
(* is left beside it for the order of the map to choose.                   *)
AuthorizationIsUnambiguous ==
  outcome = "config" /\ {cfg.bearer, cfg.basic} # {Unset} =>
    /\ DOMAIN headers \cap {"Authorization", "authorization"} = {"Authorization"}
    /\ headers["Authorization"] = "env"

==============================================================================
