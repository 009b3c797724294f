------------------------------ MODULE MCPolling ------------------------------
\* Polling for TLC.
EXTENDS Polling
=============================================================================
