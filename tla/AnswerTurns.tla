---------------------------- MODULE AnswerTurns -----------------------------
(***************************************************************************)
(* What answering one message promises, with no provider, tools or stream: *)
(* a bounded number of turns, every turn paid for before anything is made  *)
(* of it, an answer stored once and after the last of them, and nothing    *)
(* after a failure.                                                        *)
(***************************************************************************)
EXTENDS Naturals

CONSTANT MaxTurns \* the turns a message may take

VARIABLES
    phase,  \* "asking" | "owing" | "answering" | "answered" | "failed"
    turns   \* the turns the provider took

turnVars == <<phase, turns>>

TurnsInit == /\ phase = "asking"
             /\ turns = 0

\* The provider has taken a turn, which is owed for.
TakeTurn ==
    /\ phase = "asking"
    /\ turns < MaxTurns
    /\ phase' = "owing"
    /\ turns' = turns + 1

\* The turn is paid for; there is an answer, or another turn is asked for.
PayTurn ==
    /\ phase = "owing"
    /\ phase' \in {"asking", "answering"}
    /\ UNCHANGED turns

StoreAnswer ==
    /\ phase = "answering"
    /\ phase' = "answered"
    /\ UNCHANGED turns

GiveUp ==
    /\ phase \in {"asking", "owing", "answering"}
    /\ phase' = "failed"
    /\ UNCHANGED turns

TurnsNext == TakeTurn \/ PayTurn \/ StoreAnswer \/ GiveUp

TurnsSpec == TurnsInit /\ [][TurnsNext]_turnVars
=============================================================================
