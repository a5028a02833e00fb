------------------------------ MODULE MCScopes ------------------------------
EXTENDS Scopes

CONSTANTS T, F, x, HomeDb, OtherDb

MCNames == {T, F}
MCFunctions == {<<HomeDb, F>>, <<OtherDb, F>>}
=============================================================================
