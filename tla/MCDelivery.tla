------------------------------ MODULE MCDelivery ------------------------------
\* Delivery for TLC: interchangeable subscription slots.
EXTENDS Delivery, TLC
=============================================================================
