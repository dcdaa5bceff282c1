--------------------------- MODULE MCChildTeardown ---------------------------
(* A tunnel to a listed host, a long plain request to a subdomain of one,   *)
(* a request to another host, and one that cannot be parsed.                *)
EXTENDS ChildTeardown

MCRequest(m, ok, h, l) == [method |-> m, wellFormed |-> ok, host |-> h, long |-> l]
MCRequests ==
  {MCRequest("CONNECT", TRUE, "a.com", FALSE), MCRequest("GET", TRUE, "x.b.com", TRUE),
   MCRequest("GET", TRUE, "a.com", FALSE),
   MCRequest("CONNECT", TRUE, "c.com", FALSE), MCRequest("GET", FALSE, "", FALSE)}
MCAllowed == {[wildcard |-> FALSE, name |-> "a.com"], [wildcard |-> TRUE, name |-> "b.com"]}
MCEndsWith == {<<"x.b.com", "b.com">>, <<"b.com", "b.com">>}
=============================================================================
