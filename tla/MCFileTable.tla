---------------------------- MODULE MCFileTable ----------------------------
EXTENDS FileTable

\* A write longer than the pipe.
OneWrite == {<<1, 0, 0, 1>>}
=============================================================================
