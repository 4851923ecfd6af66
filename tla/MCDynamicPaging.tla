--------------------------- MODULE MCDynamicPaging ---------------------------
EXTENDS DynamicPaging

CONSTANTS FirstPage, LastPage, FirstAux

MCPages == FirstPage..LastPage
MCAuxPages == FirstAux..LastPage
=============================================================================
