------------------------------- MODULE MC_Three -------------------------------
(* The three-client scripts with Alice, Bob and Charlie as model values.  *)
EXTENDS KickThree, ThreeMembers, Permissions

CONSTANTS Alice, Bob, Charlie

MCClients == {Alice, Bob, Charlie}
MCOrder == <<Alice, Bob, Charlie>>
=============================================================================
