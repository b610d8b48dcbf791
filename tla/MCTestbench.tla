---------------------------- MODULE MCTestbench -----------------------------
EXTENDS Testbench, MCCore
=============================================================================
