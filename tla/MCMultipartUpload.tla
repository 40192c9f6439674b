-------------------------- MODULE MCMultipartUpload --------------------------
\* The instances of MultipartUpload: a file of 5 units in parts of 2, 2 and 1.
EXTENDS MultipartUpload
=============================================================================
