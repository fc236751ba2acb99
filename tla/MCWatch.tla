------------------------------ MODULE MCWatch -------------------------------
(* Watch with two prefixes, one of them a prefix of the other, and a key of  *)
(* another database that both would match.                                   *)
EXTENDS Watch

MCDbKeys == {<<1, <<1, 2>>>>}
MCDbPrefixes == {<<0, <<1>>>>, <<0, <<1, 2>>>>}
=============================================================================
