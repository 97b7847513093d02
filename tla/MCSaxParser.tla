----------------------------- MODULE MCSaxParser -----------------------------
EXTENDS SaxParser
=============================================================================
