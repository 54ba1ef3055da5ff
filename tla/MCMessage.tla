------------------------------ MODULE MCMessage ------------------------------
EXTENDS Message

Sizes == {1, 3}
Start == {2}
Kinds == {option \in [order : BOOLEAN, ttl : BOOLEAN] : option.order \/ option.ttl}
=============================================================================
