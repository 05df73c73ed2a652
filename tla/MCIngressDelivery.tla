------------------------- MODULE MCIngressDelivery -------------------------
\* IngressDelivery for TLC.  Roomy ends a behaviour with its last letter, so
\* that MaxLetters never keeps an actor from saving one.
EXTENDS IngressDelivery
Roomy == \A e \in Event : \E l \in Letter : letters[e][l] = "none"
=============================================================================
