---- MODULE MCSystem ----
EXTENDS CoordinatorRefinement
====
