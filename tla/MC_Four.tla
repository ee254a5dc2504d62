------------------------------- MODULE MC_Four -------------------------------
(* The four-client kick script with Alice, Bob, Charlie and Dave.         *)
EXTENDS KickFour

CONSTANTS Alice, Bob, Charlie, Dave

MCClients == {Alice, Bob, Charlie, Dave}
MCOrder == <<Alice, Bob, Charlie, Dave>>
=============================================================================
