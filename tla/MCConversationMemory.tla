------------------------ MODULE MCConversationMemory ------------------------
(* Values for the constants of ConversationMemory that a cfg cannot write. *)
EXTENDS ConversationMemory

CONSTANTS short, long, alice, system

MCTokensIn == [c \in Contents |-> IF c = long THEN 2 ELSE 1]
=============================================================================
