----------------------- MODULE MCConnectorCredentials ----------------------
EXTENDS ConnectorCredentials, TLC
CONSTANTS d1, d2, s1, s2
DaemonSymmetry == Permutations(Daemon)
=============================================================================
