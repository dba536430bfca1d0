----------------------------- MODULE OcpStreamMC -----------------------------
(* OcpStream with three workers beside the main goroutine, one of which streams two artifacts. *)
EXTENDS OcpStream

MCCount == [w \in Workers |-> IF w = "lane0" THEN 2 ELSE 1]
=============================================================================
