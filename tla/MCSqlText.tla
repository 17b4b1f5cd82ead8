------------------------------ MODULE MCSqlText ------------------------------
EXTENDS SqlText
=============================================================================
