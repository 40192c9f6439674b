--------------------------- MODULE MCExportDownload ---------------------------
\* Two calls with one destination, one of which waits first: a deadline at 4,
\* sleeps of 2 and polls of up to 2, so that a sleep and a poll can each cross
\* the deadline; an export of two chunks and one crash.
EXTENDS ExportDownload
=============================================================================
