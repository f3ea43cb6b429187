---------------------------- MODULE MCTcpClient ----------------------------
(***************************************************************************)
(* Frames of three bytes, longer than the send buffer of two; the          *)
(* output buffer holds two requests.                                       *)
(***************************************************************************)
EXTENDS TcpClient
=============================================================================
