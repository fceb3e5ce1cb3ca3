----------------------------- MODULE MCHandoff -----------------------------
(***************************************************************************)
(* Instances of ConversationHandoff for TLC: one provider that stores its  *)
(* session before the prompt is sent and one that stores it afterwards.    *)
(***************************************************************************)
EXTENDS ConversationHandoff

CONSTANTS t1, cursor, claude
=============================================================================
