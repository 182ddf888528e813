----------------------------- MODULE MCTextIndex -----------------------------
\* The instances of the text index that TLC checks.
EXTENDS TextIndex
=============================================================================
