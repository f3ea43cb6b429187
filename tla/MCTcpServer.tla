----------------------------- MODULE MCTcpServer -----------------------------
(* Two workers and three connections over two or three descriptors, so that  *)
(* a descriptor closed by one worker is accepted again for the other.        *)
EXTENDS TcpServer
CONSTANT none
MCFds == {3, 4, 5}
=============================================================================
