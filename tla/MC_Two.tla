-------------------------------- MODULE MC_Two --------------------------------
(* The two-client scripts with Alice and Bob as model values.            *)
EXTENDS KickTwo, E2EE

CONSTANTS Alice, Bob

MCClients == {Alice, Bob}
MCOrder == <<Alice, Bob>>
=============================================================================
