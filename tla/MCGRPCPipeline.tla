-------------------------- MODULE MCGRPCPipeline --------------------------
(* The instance of GRPCPipeline that TLC checks. *)
EXTENDS GRPCPipeline

OneBucket == <<1>>
===========================================================================
