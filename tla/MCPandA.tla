-------------------------------- MODULE MCPandA --------------------------------
(***************************************************************************)
(* A small instance of PandAManager for TLC.                               *)
(***************************************************************************)
EXTENDS PandAManager

CONSTANTS bit, table, user

OneBit == {bit}
OneTable == {table}
OneUser == {user}
UserAndManager == {user, Manager}

================================================================================
