------------------------------ MODULE MCWebsocket ------------------------------
(***************************************************************************)
(* A small instance of WebsocketClient for TLC.                            *)
(***************************************************************************)
EXTENDS WebsocketClient

CONSTANTS field, other, p1, p2

OneField == {field}
TwoFields == {field, other}
OnePut == <<p1>>

================================================================================
