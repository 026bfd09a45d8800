------------------------- MODULE MCTelegramControl --------------------------
(***************************************************************************)
(* Instance of TelegramControl: one HTTP request at a time, one chat, an   *)
(* owner and an operator.                                                  *)
(***************************************************************************)
EXTENDS TelegramControl, TLC

CONSTANTS r1, c1, ana, bia

RoleOf == ana :> "OWNER" @@ bia :> "OPERATOR"
=============================================================================
