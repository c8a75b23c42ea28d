---------------------------- MODULE MCPostStack ----------------------------
(* A small instance of PostStack for TLC: a pass with parameters, the    *)
(* multi-pass bloom and the LUT.                                         *)
EXTENDS PostStack

MCCanonical == <<"SSAO", "Bloom", "LUT">>

MCRenderOrders == {<<"Bloom", "SSAO">>, <<"LUT", "SSAO">>, <<"LUT">>}

MCOverrides == {{"SSAO", "Bloom", "LUT"}}

=============================================================================
