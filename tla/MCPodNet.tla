------------------------------ MODULE MCPodNet ------------------------------
EXTENDS PodNet, TLC

=============================================================================
