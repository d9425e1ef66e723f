--------------------------- MODULE MCNetController ---------------------------
(***************************************************************************)
(* Small instances of NetController: two LAN addresses and one file of     *)
(* each kind the helpers, the installer or an editor leave behind.         *)
(***************************************************************************)
EXTENDS NetController

CONSTANTS a1, a2

MCAddr == {a1, a2}

Valid(mode, forward, targets) ==
  [cfg |-> [mode |-> mode, forward |-> forward, targets |-> targets], valid |-> TRUE]

Link(targets) == Valid("arp_assisted", TRUE, targets)
DnsOnlyFile == Valid("dns_only", FALSE, {})
Broken == [cfg |-> DnsOnly, valid |-> FALSE]

\* What the Link button, the reconciler and the emergency script write.
LinkWants == {DnsOnlyFile, Link({a1}), Link({a1, a2})}

\* Also the gateway modes, a file without targets and one load_settings refuses.
AllWants == LinkWants \cup
  {Link({}), Broken, Valid("inline_gateway", FALSE, {}), Valid("router_integrated", FALSE, {})}
=============================================================================
