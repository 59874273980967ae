---------------------------- MODULE MCStoreSessions ----------------------------
\* One person, a customer of two stores, with one browser.
EXTENDS StoreSessions
MCHome == [c \in Customers |-> IF c = "ann at A" THEN "A" ELSE "B"]
===========================================================================
