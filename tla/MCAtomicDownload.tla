--------------------------- MODULE MCAtomicDownload ---------------------------
\* Two concurrent calls, an export of two chunks.
EXTENDS AtomicDownload
=============================================================================
