----------------------------- MODULE MCPumpWake -----------------------------
EXTENDS PumpWake, TLC

PublisherSymmetry == Permutations(Hosts) \cup Permutations(Workers)

=============================================================================
