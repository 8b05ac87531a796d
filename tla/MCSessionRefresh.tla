--------------------------- MODULE MCSessionRefresh ---------------------------
(* Model-checking instance of SessionRefresh: two tabs, two calls at a     *)
(* time in the first and one in the second.                                *)
EXTENDS SessionRefresh

CONSTANTS t1, t2

MCTabs  == {t1, t2}
MCCalls == {<<t1, 1>>, <<t1, 2>>, <<t2, 1>>}
==============================================================================
