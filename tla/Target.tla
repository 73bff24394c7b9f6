--------------------------------- MODULE Target ---------------------------------
(***************************************************************************)
(* internal/core/target.go and buildURL of internal/layers/http: what the  *)
(* user typed becomes a Target, the Target becomes the text of a URL, and  *)
(* net/http parses that text again.                                        *)
(*                                                                         *)
(* A typed target is a record of its parts.  What follows the authority is *)
(* a sequence of tokens: plain text, the two characters that end a path    *)
(* and a query, the three escapes whose meaning a second parse can change, *)
(* a percent sign that starts no escape, and "://".  The text after a      *)
(* percent sign is never a pair of hexadecimal digits.                     *)
(***************************************************************************)
EXTENDS StackCore

CONSTANTS
  MaxTokens,        \* bound on the tokens after the authority
  Ports             \* the port numbers that may be typed

ASSUME TargetAssumption == MaxTokens \in Nat /\ Ports \subseteq Int

NoPort == -1

Escapes == {"%3F", "%23", "%25"}

Tokens == {"/x", "?", "#", "%", "://"} \cup Escapes

(* Nothing but these can follow an authority.                              *)
Tails ==
  {<<>>} \cup UNION {{t \in [1 .. n -> Tokens] : t[1] \in {"/x", "?", "#"}} : n \in 1 .. MaxTokens}

RawTargets ==
  [scheme : AllSchemes \cup {"ftp", "none"}, user : BOOLEAN,
   host : {"name", "v6", "missing"}, port : Ports \cup {NoPort}, tail : Tails]

(* What DNS may resolve a host to: an address of either family, or one of  *)
(* a link with its zone.                                                   *)
Addresses == {"v4", "v6", "zoned"}

Nothing == [accepted |-> FALSE]

VARIABLES
  raw,      \* the argument
  address,  \* pctx.ResolvedIPs[0]
  pc,       \* "typed", "parsed", "rejected", "requested" or "refused"
  target,   \* the Target
  request   \* the resource the request asks for

vars == <<raw, address, pc, target, request>>

Init ==
  /\ raw \in RawTargets
  /\ address \in Addresses
  /\ pc = "typed"
  /\ target = Nothing
  /\ request = Nothing

------------------------------------------------------------------------------
(* net/url                                                                 *)

IndexOf(t, c) == IF \E k \in DOMAIN t : t[k] = c THEN Min({k \in DOMAIN t : t[k] = c})
                                                 ELSE Len(t) + 1

Before(t, c) == SubSeq(t, 1, IndexOf(t, c) - 1)

After(t, c) == SubSeq(t, IndexOf(t, c) + 1, Len(t))

Decoded(c) ==
  CASE c = "%3F" -> "?" [] c = "%23" -> "#" [] c = "%25" -> "%" [] OTHER -> c

(* Split at the first "#", then at the first "?"; the path and the         *)
(* fragment are unescaped, the query is kept as it is.                     *)
ParsePath(t) == Before(Before(t, "#"), "?")

ParseQuery(t) == After(Before(t, "#"), "?")

ParseFragment(t) == After(t, "#")

Unescapes(t) == \A k \in DOMAIN t : t[k] # "%"

Parses(t) == Unescapes(ParsePath(t)) /\ Unescapes(ParseFragment(t))

Unescape(t) == [k \in DOMAIN t |-> Decoded(t[k])]

(* The resource a URL's tail asks for, once parsed.                        *)
Resource(t) ==
  [accepted |-> TRUE, path |-> Unescape(ParsePath(t)), query |-> ParseQuery(t)]

------------------------------------------------------------------------------
(* ParseTarget                                                             *)

Holds(t, c) == \E k \in DOMAIN t : t[k] = c

HadScheme(r) == r.scheme # "none" \/ Holds(r.tail, "://")

(* normalized is the argument, with https:// before it unless HadScheme.   *)
Scheme(r) == IF HadScheme(r) THEN r.scheme ELSE "https"

DefaultPort == [https |-> 443, http |-> 80]

(* The ports resolvePort accepts.                                          *)
ValidPorts == 1 .. 65535

(* resolvePort; a set, empty where it is an error.                         *)
ResolvePort(r, scheme) ==
  CASE r.port # NoPort                   -> {r.port} \cap ValidPorts
    [] r.port = NoPort /\ scheme = "tcp" -> {}
    [] OTHER                             -> {DefaultPort[scheme]}

(* A mistake the checks must notice: the query is left behind.             *)
TargetPathNoQuery(r) ==
  LET path == Unescape(ParsePath(r.tail))
  IN  IF path = <<>> /\ Scheme(r) # "tcp" THEN <<"/">> ELSE path

TargetPath(r) ==
  LET query == ParseQuery(r.tail)
      path  == Unescape(ParsePath(r.tail)) \o (IF query # <<>> THEN <<"?">> \o query ELSE <<>>)
  IN  IF path = <<>> /\ Scheme(r) # "tcp" THEN <<"/">> ELSE path

(* A mistake the checks must notice: the argument is reported as typed.    *)
OriginalAsTyped(r) == r

(* u.User removed, and the prefix that was added removed again.            *)
Original(r) == [r EXCEPT !.user = FALSE]

Accepts(r) ==
  /\ Parses(r.tail)
  /\ Scheme(r) \in AllSchemes
  /\ r.host # "missing"
  /\ ResolvePort(r, Scheme(r)) # {}
  /\ Scheme(r) = "tcp" => /\ ParsePath(r.tail) = <<>>
                          /\ ParseQuery(r.tail) = <<>>
                          /\ ParseFragment(r.tail) = <<>>

Parsed(r) ==
  [accepted |-> TRUE, original |-> Original(r), scheme |-> Scheme(r), host |-> r.host,
   port |-> (CHOOSE p \in ResolvePort(r, Scheme(r)) : TRUE), path |-> TargetPath(r)]

ParseTarget(r) == IF Accepts(r) THEN Parsed(r) ELSE Nothing

------------------------------------------------------------------------------
(* buildURL, and http.NewRequest's parse of what it built.                 *)

(* With a default port an IPv6 address is put in brackets only if ParseIP  *)
(* knows it, which it does not with a zone; with any other port the zone   *)
(* is not escaped.  Either way the text does not parse.                    *)
HostPortParses(a) == a # "zoned"

Requestable(t, a) == HostPortParses(a) /\ Parses(t.path)

Parse ==
  /\ pc = "typed"
  /\ target' = ParseTarget(raw)
  /\ pc' = IF Accepts(raw) THEN "parsed" ELSE "rejected"
  /\ UNCHANGED <<raw, address, request>>

NewRequest ==
  /\ pc = "parsed"
  /\ NeedsHTTP(target.scheme)
  /\ \/ Requestable(target, address) /\ request' = Resource(target.path) /\ pc' = "requested"
     \/ ~Requestable(target, address) /\ pc' = "refused" /\ UNCHANGED request
  /\ UNCHANGED <<raw, address, target>>

Next == Parse \/ NewRequest

Spec == Init /\ [][Next]_vars

------------------------------------------------------------------------------
(* What the layers above rely on, a host, a port that exists, no path with *)
(* tcp and a path or query otherwise, holds of every target accepted.  The *)
(* target a report names carries no userinfo, and typed again it is the    *)
(* same target: a report can be acted on.  Without a scheme a target is    *)
(* treated as the same one with https:// before it, target.go:28, unless   *)
(* "://" occurs further on.                                                *)
AcceptedTargetsAreUsable ==
  /\ target.accepted =>
       /\ target.scheme \in AllSchemes /\ target.host \in {"name", "v6"}
       /\ target.port \in ValidPorts
       /\ (target.path = <<>>) <=> (target.scheme = "tcp")
       /\ ~target.original.user /\ ParseTarget(target.original) = target
  /\ pc # "typed" /\ raw.scheme = "none" =>
       IF Holds(raw.tail, "://") THEN ~target.accepted
       ELSE target.accepted <=> Accepts([raw EXCEPT !.scheme = "https"])

(* What the target itself, read as a URL, asks for.                        *)
Named(r) == Resource(r.tail)

SameResource(a, b) ==
  /\ a.query = b.query
  /\ a.path = b.path \/ {a.path, b.path} \subseteq {<<>>, <<"/">>}

(* A target without escapes survives the second parse, whatever else is in *)
(* it, "#" and "?" in its query included; only a zone refuses it.  (With   *)
(* an escaped "#" or "?" in its path it asks for something else, although  *)
(* target_test.go:82 says that the query is preserved.)                    *)
PlainTargetsAreRequested ==
  (\A c \in Escapes : ~Holds(ParsePath(raw.tail), c)) =>
    /\ pc = "refused" => address = "zoned"
    /\ pc = "requested" => SameResource(request, Named(raw))

==============================================================================
