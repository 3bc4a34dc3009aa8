------------------------ MODULE MCConversationReuse ------------------------
(* Instance of ConversationReuse for TLC: two clients that never write the same
   message.  p continues its chat, turns back to an earlier point, or sends the same
   two messages in the other order; q sends one message or another twice,
   two histories with the same fingerprint. *)
EXTENDS ConversationReuse

CONSTANTS a, b, c, x, y, p, q

MCHistories ==
  (p :> {<<a>>, <<a, b>>, <<a, b, c>>, <<b, a>>}) @@ (q :> {<<x>>, <<x, y>>, <<x, x>>, <<y, y>>})
=============================================================================
