---------------------------- MODULE MCRunnerTunnel ----------------------------
EXTENDS RunnerTunnel
=============================================================================
