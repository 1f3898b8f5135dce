-------------------------- MODULE MCRequestHandler --------------------------
(* TLC instance of RequestHandler: three requests, so that the scan of       *)
(* execute() can find flags before, at and behind its position, and enough   *)
(* frames for every request to go round twice.                               *)
EXTENDS RequestHandler
=============================================================================
