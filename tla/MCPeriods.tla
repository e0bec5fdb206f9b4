----------------------------- MODULE MCPeriods -----------------------------
\* A small instance of Periods.
EXTENDS Periods
=============================================================================
