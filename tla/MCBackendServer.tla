-------------------------- MODULE MCBackendServer --------------------------
EXTENDS BackendServer

CONSTANTS s1, s2

\* A line alone, and a second one that is handled after a stop or a loss.
TwoLines == {<<"arm", "disconnect">>, <<"other", "connect">>}
=============================================================================
