--------------------------- MODULE MCWinMessages ----------------------------
EXTENDS WinMessages

\* No bounds, one message, and two in either order.
SomeFilters == {<<0, 0>>, <<1, 1>>, <<1, 2>>, <<2, 1>>}
=============================================================================
