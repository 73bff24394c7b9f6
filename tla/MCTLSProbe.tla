------------------------------ MODULE MCTLSProbe ------------------------------
(***************************************************************************)
(* A small instance of TLSProbe: a day is two units of the clock and the   *)
(* threshold one day; certificates not yet valid, expired, about to expire *)
(* and good, with every combination of name and chain; servers that speak  *)
(* only modern, only deprecated and both kinds of versions.                *)
(***************************************************************************)
EXTENDS TLSProbe

SomeServers == {{"TLSv1.3"}, {"TLSv1.0"}, {"TLSv1.1", "TLSv1.2"}}

SomeCertificates ==
  {c \in [notBefore : {-2, 1}, notAfter : {-1, 1, 3, 5},
          hostMatch : BOOLEAN, chain : Chains] : c.notBefore <= c.notAfter}
==============================================================================
