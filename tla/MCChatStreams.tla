---------------------------- MODULE MCChatStreams ----------------------------
(***************************************************************************)
(* Model-checking instance of ChatStreams: request r1 asks for replies,    *)
(* streamed or not, while r2 sends, renames and deletes around it.         *)
(***************************************************************************)
EXTENDS ChatStreamsInvariant

CONSTANTS r1, r2

MCRequests == {r1, r2}

MCOperations ==
  [r \in MCRequests |->
     IF r = r1 THEN {"createStream", "stream"}
     ELSE {"send", "update", "delete", "deleteMessage"}]
=============================================================================
