---------------------------- MODULE ChatRequestsMC ----------------------------
(***************************************************************************)
(* The requests and chats TLC checks ChatRequests with: r1 is the request  *)
(* whose flow returns only when it is aborted.                             *)
(***************************************************************************)
EXTENDS ChatRequests

CONSTANTS r1, r2, r3, k1, k2

Requests == {r1, r2, r3}

\* All of one chat, two beside one, either way round: up to the names of the
\* chats and of r2 and r3 these are all ways to have at most two chats.
OneChatOrTwo ==
  {[r \in Requests |-> IF r \in others THEN k2 ELSE k1] : others \in {{}, {r2, r3}, {r3}}}
=============================================================================
