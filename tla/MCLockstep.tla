----------------------------- MODULE MCLockstep -----------------------------
EXTENDS Lockstep, MCCore
=============================================================================
