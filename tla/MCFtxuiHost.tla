---------------------------- MODULE MCFtxuiHost ----------------------------
(* A small instance of FtxuiHost for TLC: one bounce, a deque of two lines. *)
EXTENDS FtxuiHost

Milliseconds == {5}
CloseAndTap == {CloseRequest, [op |-> "CloseForMs", ms |-> 5]}
=============================================================================
