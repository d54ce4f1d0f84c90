------------------------------ MODULE MCPedersen ------------------------------
EXTENDS Pedersen
=============================================================================
