------------------------- MODULE MCOpenRouterCalls -------------------------
(***************************************************************************)
(* Two calls share a limiter of one slot and one start per window: the      *)
(* smallest instance where an attempt waits for another call's attempt, one *)
(* sleeps for its slot and may be cancelled there, and a backoff lets the   *)
(* other one in.  Timeouts, answers with status 408 and broken streams are  *)
(* retried, a 429 and a 409 are not.                                        *)
(***************************************************************************)
EXTENDS OpenRouterCalls

MCReply == {"ok", "bad_tool_call", "timeout", "late", "stream", "rate_limit", "conflict"}
MCCodes == {408}
=============================================================================
