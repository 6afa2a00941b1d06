-------------------------- MODULE MCGattsRegistry --------------------------
(* TLC instances of the attribute registry.                                *)
EXTENDS GattsRegistry

Service(u, chrs) == [uuid |-> u, chrs |-> chrs]

\* Services without, with one and with several characteristics and
\* descriptors, in requests of up to three.
MCRequests ==
  { << >>,
    <<Service("a", <<0>>)>>,
    <<Service("a", << >>)>>,
    <<Service("b", <<1, 1>>)>>,
    <<Service("a", <<0>>), Service("b", <<2>>)>>,
    <<Service("a", <<1>>), Service("b", << >>), Service("c", <<0>>)>> }
=============================================================================
