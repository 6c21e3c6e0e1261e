--------------------------- MODULE MCConversation ---------------------------
(* The window of the code, answers that plan four calls (or one), and enough  *)
(* steps for a history that no longer fits the window.                        *)
EXTENDS Conversation
=============================================================================
