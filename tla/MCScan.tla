------------------------------- MODULE MCScan -------------------------------
\* Five rows in pages of two, two edits anywhere between the pages.
EXTENDS Scan

MCLocated == {1, 2, 4}
=============================================================================
