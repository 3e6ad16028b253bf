------------------------------ MODULE MCBoxPages ------------------------------
(* BoxPages with small constants: see BoxPages.cfg.                        *)
EXTENDS BoxPages

\* A share that is open, with every sensor in a category.
OpenShare == {[on |-> TRUE, rows |-> [s \in Sensors |-> c], cats |-> {c}] : c \in Cats}
=============================================================================
