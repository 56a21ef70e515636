-------------------------- MODULE MCForwardPass --------------------------
(* A small instance of ForwardPass: prompts of no, one and two tokens.     *)
EXTENDS ForwardPass

MCPrompts == {<<>>} \cup {<<s>> : s \in Token} \cup (Token \X Token)
=============================================================================
