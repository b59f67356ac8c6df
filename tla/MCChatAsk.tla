------------------------------ MODULE MCChatAsk ------------------------------
(* Instances of ChatAsk for TLC. *)
EXTENDS ChatAsk, TLC

CONSTANTS u1, u2, r1, r2, r3

MCUserOf == (r1 :> u1) @@ (r2 :> u1) @@ (r3 :> u2)

\* The two posts of the first user are interchangeable.
MCPosts == Permutations({r1, r2})
==============================================================================
