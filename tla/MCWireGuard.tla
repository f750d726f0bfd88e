----------------------------- MODULE MCWireGuard -----------------------------
(* Names below, at and above the limit; the last two are cut to one.        *)
EXTENDS WireGuard

MCOverlays == {<<1>>, <<1, 1>>, <<1, 1, 2>>}
=============================================================================
