--------------------------- MODULE MCRetryingClient ---------------------------
(* The delays of http_client.py, for TLC. *)
EXTENDS RetryingClient
Delays == <<2, 5>>
===============================================================================
