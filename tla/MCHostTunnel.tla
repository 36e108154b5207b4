----------------------------- MODULE MCHostTunnel -----------------------------
EXTENDS HostTunnel

CONSTANTS c1, c2, c3, alice, bob

MCUserOf(c) == IF c = c3 THEN bob ELSE alice
=============================================================================
