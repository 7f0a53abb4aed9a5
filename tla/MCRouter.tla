------------------------------ MODULE MCRouter ------------------------------
EXTENDS Router

\* Routes to the hosts right, wrong or missing, so that loops arise; routers
\* are reached over interface 0.
MCTables ==
  {[r \in Routers |-> [a \in Addresses |-> IF a = Host(0) THEN to0[r]
                                           ELSE IF a = Host(1) THEN to1[r] ELSE 0]] :
     <<to0, to1>> \in [Routers -> {0, 1}] \X [Routers -> {0, 1, NULL}]}

=============================================================================
