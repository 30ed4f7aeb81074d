---------------------------- MODULE MCLifecycle ----------------------------
EXTENDS Lifecycle, TLC
CONSTANTS c1, c2, a1, a2, b1, h, g, t1, t2

OneEach    == (a1 :> c1) @@ (b1 :> c2)
TwoAndOne  == (a1 :> c1) @@ (a2 :> c1) @@ (b1 :> c2)
FirstInits == (c1 :> a1) @@ (c2 :> b1)

=============================================================================
