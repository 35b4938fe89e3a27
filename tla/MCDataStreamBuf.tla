---------------------------- MODULE MCDataStreamBuf ----------------------------
(***************************************************************************)
(* The instance of DataStreamBuf that TLC checks: headers of two bytes and *)
(* packets of two and three, so that any bytes are a stream.               *)
(***************************************************************************)
EXTENDS DataStreamBuf
=============================================================================
