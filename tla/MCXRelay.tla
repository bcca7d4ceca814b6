------------------------------ MODULE MCXRelay ------------------------------
EXTENDS XRelay, TLC

CONSTANTS w1, w2

=============================================================================
