------------------------------- MODULE MCPages -------------------------------
\* Pages for TLC.
EXTENDS Pages
=============================================================================
