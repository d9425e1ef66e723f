----------------------------- MODULE MCPiholeSync ---------------------------
(***************************************************************************)
(* Small instances of PiholeSync: a domain both lists name, which is only *)
(* denied in strict mode, and a bootstrap name the shield does not know.   *)
(***************************************************************************)
EXTENDS PiholeSync

CONSTANTS google, pki, r1, r2

MCSafe == {}
MCStrict == {google}
MCBootstrap == {google, pki}
MCRequests == {r1, r2}
MCFiles == {f \in [shield : BOOLEAN, strict : BOOLEAN, ipv4 : BOOLEAN, piDns : BOOLEAN] :
              f.shield /\ f.strict}
=============================================================================
