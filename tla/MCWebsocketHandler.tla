-------------------------- MODULE MCWebsocketHandler --------------------------
(***************************************************************************)
(* A small instance of WebsocketHandler for TLC.                           *)
(***************************************************************************)
EXTENDS WebsocketHandler

CONSTANTS field, other

OneField == {field}
TwoFields == {field, other}

================================================================================
