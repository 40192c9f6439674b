----------------------------- MODULE MCUploadRerun ----------------------------
\* Two calls, a file of two parts that is replaced once; every call may create a
\* job and every job may be lost to the hold.
EXTENDS UploadRerun
=============================================================================
