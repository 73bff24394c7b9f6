------------------------------ MODULE MCDNSProbe ------------------------------
(***************************************************************************)
(* A small instance of DNSProbe: a link-local nameserver before others,    *)
(* and --dns-server given with an ordinary or a link-local address; a name *)
(* with no records, one with records of one type, and an address literal.  *)
(***************************************************************************)
EXTENDS DNSProbe

SomeNameservers == <<"fe80::1", "ns1", "ns2">>

NoRecords == [local |-> FALSE, records |-> {}]

WithRecords(rs) == [local |-> FALSE, records |-> rs]

Literal == [local |-> TRUE, records |-> {}]

SomeDomains == {Literal, NoRecords, WithRecords({"A"})}
==============================================================================
