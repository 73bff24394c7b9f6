------------------------------ MODULE MCHTTPStack ------------------------------
(***************************************************************************)
(* A small instance of HTTPStack: header maps with and without sensitive   *)
(* names, in both spellings and in two spellings at once; a status at each *)
(* side of every boundary of the classification; redirects with a valid,   *)
(* an invalid and no Location, and one that quotes an expired deadline.    *)
(***************************************************************************)
EXTENDS HTTPStack

Key(n, w) == [name |-> n, written |-> w]

SomeHeaders ==
  {{}, {Key("accept", "lower")}, {Key("host", "canonical")}, {Key("content-length", "lower")},
   {Key("authorization", "canonical"), Key("authorization", "lower")},
   {Key("accept", "canonical"), Key("accept", "lower")},
   {Key("cookie", "lower"), Key("accept", "canonical")}}

Plain(s) == [status |-> s, names |-> {"server", "set-cookie"}, location |-> "none"]

Moved(s, l) == [status |-> s, names |-> {"set-cookie"}, location |-> l]

SomeReplies ==
  {Plain(s) : s \in {42, 101, 200, 304, 399, 400, 401, 403, 404, 405, 429, 499,
                     500, 501, 502, 503, 504, 505, 599, 600}}
    \cup {Moved(s, l) : s \in {201, 301, 308}, l \in {"none", "valid", "invalid", "quoting"}}
==============================================================================
