-------------------------- MODULE MCRaftFileStore ---------------------------
(***************************************************************************)
(* RaftFileStore for TLC: the RaftStore*.cfg files give the constants.      *)
(* Three entries in segments of two need a rotation, two terms let an index *)
(* be truncated and written again, two crashes let recovery be interrupted  *)
(* by a second one.                                                         *)
(***************************************************************************)
EXTENDS RaftFileStore
=============================================================================
