-------------------------- MODULE MCUsageLifecycle --------------------------
(***************************************************************************)
(* Instances of UsageLifecycle for TLC.  A request costs 1 or 2 tokens of  *)
(* input and up to 2 of output, and a token half a cost unit, so that the  *)
(* cut to an integer is seen; the daily limits hold about two requests.    *)
(***************************************************************************)
EXTENDS UsageLifecycle, TLC

CONSTANTS c1, c2, c3

Chats2 == c1 :> "chat" @@ c2 :> "chat"
Streams2 == c1 :> "stream" @@ c2 :> "stream"
StreamAndChat == c1 :> "stream" @@ c2 :> "chat"
Mixed3 == c1 :> "stream" @@ c2 :> "chat" @@ c3 :> "summary"
Summaries2 == c1 :> "summary" @@ c2 :> "summary"

Symmetry == Permutations(Calls)

\* Usage under the reservation and, the output limit not being sent to the
\* provider, above it.
SomeUsages == { [input |-> 1, output |-> 1], [input |-> 2, output |-> 3] }

NoFaults == [s \in FaultSorts |-> 0]
Lossy == [NoFaults EXCEPT !["store"] = 1, !["crash"] = 1, !["disconnect"] = 1]
Resending == [NoFaults EXCEPT !["resend"] = 1]
Leaving == [NoFaults EXCEPT !["disconnect"] = 1]
=============================================================================
