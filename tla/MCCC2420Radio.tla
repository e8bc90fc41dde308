---------------------------- MODULE MCCC2420Radio ----------------------------
EXTENDS CC2420Radio
=============================================================================
