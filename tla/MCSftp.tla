------------------------------- MODULE MCSftp -------------------------------
(* A small instance of SftpWatcher for TLC.                                *)
EXTENDS SftpWatcher

CONSTANTS i1, i2, a, b, k1, k2
=============================================================================
