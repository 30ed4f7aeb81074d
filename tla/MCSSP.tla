------------------------------- MODULE MCSSP -------------------------------
EXTENDS SSP
CONSTANTS c1, c2, a1, a2, b1, s1, s2, r1, r2

TwoThreads == (a1 :> c1) @@ (a2 :> c1) @@ (b1 :> c2)
OneEach    == (a1 :> c1) @@ (b1 :> c2)
TwoLocal   == (a1 :> c1) @@ (a2 :> c1)
OneServer  == [r \in Rows |-> s1]
TwoServers == (r1 :> s1) @@ (r2 :> s2)

=============================================================================
