----------------------------- MODULE MCPemCapture -----------------------------
(* Two blocks with the wanted label, one with another, one that is too      *)
(* large.                                                                   *)
EXTENDS PemCapture

MCEols == {<<"cr">>, <<"lf">>, <<"cr", "lf">>}
MCBlocks == {<<"BEGIN", "x", "END">>, <<"BEGIN", "y", "END">>,
             <<"OTHER", "x", "END">>, <<"BEGIN", "x", "y", "x", "y", "END">>}
=============================================================================
