---------------------------- MODULE MCChatPage ----------------------------
(***************************************************************************)
(* Two peers; the chat with "a" has two pages of messages.                 *)
(***************************************************************************)
EXTENDS ChatPage, TLC

CONSTANTS a, b

ChatsOfOld == <<a, a>>
Symmetry == Permutations(Calls)
=============================================================================
