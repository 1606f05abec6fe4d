------------------------------ MODULE MCParser ------------------------------
EXTENDS Parser

\* An empty day first, one with more pages than are read, two empty days.
Listings == <<0, 3, 0, 0, 2>>
=============================================================================
