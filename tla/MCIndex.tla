------------------------------- MODULE MCIndex -------------------------------
EXTENDS IndexSearch
=============================================================================
