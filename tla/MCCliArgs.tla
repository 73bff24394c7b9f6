------------------------------ MODULE MCCliArgs ------------------------------
(***************************************************************************)
(* A small instance of CliArgs: every kind of argument, flags written with *)
(* one, two and three dashes, with their value in place or after them, and *)
(* one with a value and no name (--=url).                                  *)
(***************************************************************************)
EXTENDS CliArgs

Word(w) == [dashes |-> 0, name |-> w, value |-> NoValue]

Flag(n) == [dashes |-> 2, name |-> n, value |-> NoValue]

FlagWith(n, v) == [dashes |-> 2, name |-> n, value |-> v]

SomeArguments ==
  {Word("url"), Word("authorization: x"), Flag(""), Flag("json"), Flag("header"),
   FlagWith("json", "false"), FlagWith("json", "tRUE"), Flag("json-pretty"),
   Flag("timeout"), FlagWith("timeout", "0"), Flag("version"), Flag("help"),
   FlagWith("bearer-env", "VAR"), FlagWith("basic-env", "VAR"),
   FlagWith("header", "Authorization: x"), FlagWith("", "url"),
   [Flag("json") EXCEPT !.dashes = 1], [Flag("json") EXCEPT !.dashes = 3]}
==============================================================================
