----------------------------- MODULE MCTcpConn -----------------------------
(***************************************************************************)
(* Headers of two bytes; buffers of eight and of sixteen.                  *)
(***************************************************************************)
EXTENDS TcpConn

MCCaps == {8, 16}

Known(n, at) == [len |-> n, known |-> TRUE, at |-> at]
Unknown(n, at) == [len |-> n, known |-> FALSE, at |-> at]

\* Short requests, one of them not registered; one that outgrows the small
\* buffer; one that fills the large buffer, so that two frames read at once do
\* not fit; one longer than the limit.
MCRequests ==
  {<<Known(1, 0), Unknown(2, 3), Known(2, 7)>>, <<Known(7, 0), Known(1, 9)>>,
   <<Known(14, 0), Known(1, 16)>>, <<Known(1, 0), Known(15, 3)>>}

\* A request with a short body.
MCOneRequest == {<<Known(1, 0)>>}
=============================================================================
