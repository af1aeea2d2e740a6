------------------------------ MODULE MCDesktop ------------------------------
(* Two desktop tasks of two commands or more, one with a visual click.     *)
EXTENDS DesktopControl

MCPlan == {<<"mouse", "keys">>, <<"pause", "visual">>,
           <<"tab">>, <<"navigate">>, <<"browser">>}
=============================================================================
