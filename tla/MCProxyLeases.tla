---------------------------- MODULE MCProxyLeases ----------------------------
(* The parser's process makes run r1, the pipeline's process the other ones. *)
EXTENDS ProxyLeases
CONSTANTS parser, pdf, r1, host

MCProcOf == [h \in Holder |-> IF h = r1 THEN parser ELSE pdf]
MCRoleOf == [h \in Holder |-> IF h = r1 THEN "parser" ELSE "pdf"]
MCHostOf == [p \in Proc |-> host]
=============================================================================
