---------------------------- MODULE MCDomainWatch ----------------------------
(* Instances of DomainWatch for TLC.                                        *)
EXTENDS DomainWatch

CONSTANTS s1, s2, t1, t2

\* A domain that moves to other nameservers while its registration nears its end.
Steady == [expiry |-> 3, rdapExpiry |-> TRUE, tls |-> 2, dnssec |-> TRUE, ns |-> {"ns1"}, caa |-> {}]
Moved  == [Steady EXCEPT !.ns = {"ns2"}, !.expiry = 1]
Quiet  == [Steady EXCEPT !.ns = {}]     \* a site there is nothing to tell of

MCZone0   == s1 :> Steady @@ s2 :> Quiet
MCWorlds  == s1 :> {Steady, Moved} @@ s2 :> {Quiet}
MCOutages == {{"ns"}}
=============================================================================
