----------------------------- MODULE MCStreams -----------------------------
(* Three connections on two or three descriptors.                          *)
EXTENDS Streams

CONSTANTS s1, s2, s3

MCSocks == {s1, s2, s3}
MCOldest == <<s1, s2>>
MCFds == 0 .. 1
MCNoFd == -1
=============================================================================
