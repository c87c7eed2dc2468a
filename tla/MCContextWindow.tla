--------------------------- MODULE MCContextWindow ---------------------------
(* Histories of up to MaxLength messages of every sort, short and long.     *)
EXTENDS ContextWindow

MCMessages ==
    [role : {"user", "tool"}, calls : {FALSE}, tokens : {1, 3}] \cup
    [role : {"assistant"}, calls : BOOLEAN, tokens : {1, 2}] \cup
    [role : {"system"}, calls : {FALSE}, tokens : {1}]
=============================================================================
