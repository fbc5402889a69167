----------------------------- MODULE MCSocketMgr -----------------------------
(* Small instances of SocketMgr for TLC. *)
EXTENDS SocketMgr, TLC

(* Connections are interchangeable; used for safety only. *)
ConnSymmetry == Permutations(Conns)
===============================================================================
