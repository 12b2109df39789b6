-------------------------- MODULE MCDeviceArrival ---------------------------
(***************************************************************************)
(* A QLX-D receiver heard through mDNS, and a SLX-D receiver heard through *)
(* the Shure protocol, whose web server shows in mDNS under a name that is *)
(* ignored.                                                                *)
(***************************************************************************)
EXTENDS NcpSearch

Record(ip, port, model) == [ip |-> ip, port |-> port, model |-> model]

MCMdns == {Record(1, 2202, "QLXD"), Record(2, 80, "OTHER")}
MCSlp == {Record(2, 2202, "SLXD4")}
MCAddrs == {<<1, 2202>>, <<2, 80>>, <<2, 2202>>}
=============================================================================
