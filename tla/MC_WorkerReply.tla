---------------------------- MODULE MC_WorkerReply ----------------------------
(* Model-checking instance of WorkerReply.  Three replies: a short one; a  *)
(* long one of 65536 - 4096 bytes, the longest a read of at most 4096      *)
(* bytes can append to the buffer without its size - 2 passing 65535; and  *)
(* one of 4094 bytes, so that a full read can follow the long one.  A read *)
(* finds one byte (a length split between two reads) or 4096 bytes (two   *)
(* replies, and the head of a third, in one read).  The cfg reads two      *)
(* bytes inside a reply as the length 1.                                   *)
EXTENDS WorkerReply

MCFrames == <<12, 61440, 4094>>
MCChunks == {1, 4096}
=============================================================================
