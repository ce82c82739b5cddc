-------------------------------- MODULE Mail --------------------------------
(***************************************************************************)
(* The mentions of a coral session (packages/agent-runtime/src/coral).  An *)
(* agent's unread mentions wait at the server, in order.  The answer to    *)
(* wait_for_mention lists the unread ones, of which parseMention keeps the *)
(* first: the others of the batch are lost.  The server is not part of the *)
(* repository; a wait may also be answered again with a mention that was   *)
(* already handled, which the agents are written to withstand (selectBids  *)
(* keeps one bid per seller, a seller deletes what it served).             *)
(***************************************************************************)
EXTENDS Integers, Sequences

CONSTANTS MaxBatch,   \* mentions one wait may be answered with
          MaxRepeats  \* times a mention is answered again

VARIABLES mail,       \* mail[agent]: unread mentions
          repeats     \* mentions answered again so far

\* Send m to every agent of `to`, after the mentions that box leaves unread.
Post(box, to, m) == [a \in DOMAIN box |-> IF a \in to THEN Append(box[a], m) ELSE box[a]]

\* The number of mentions a wait of agent a consumes; 0 when it is repeated.
Batches(a) == {k \in 0..MaxBatch : k <= Len(mail[a])}

Unread(a, k) == [mail EXCEPT ![a] = SubSeq(@, k + 1, Len(@))]

\* A wait that returns the first unread mention and consumes k of them.
Wait(a, k) == /\ mail[a] # <<>>
              /\ k = 0 => repeats < MaxRepeats
              /\ repeats' = IF k = 0 THEN repeats + 1 ELSE repeats
=============================================================================
