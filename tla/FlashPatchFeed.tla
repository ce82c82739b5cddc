--------------------------- MODULE FlashPatchFeed ---------------------------
(***************************************************************************)
(* The FlashPatch feed (examples/flashpatch/feed): once a second it fetches*)
(* the messages of the session, folds them into one state and keeps that   *)
(* for the dashboard.  Polls overlap, an answer may come late, the feed may*)
(* be restarted.  The detector opens a thread for every emergency and the  *)
(* agents answer in the thread they are asked in: thread n is round n, and *)
(* the coral server lists the threads in the order they were opened.       *)
(*                                                                         *)
(* One state stands for all emergencies, so what matters of a value is the *)
(* emergency it is about: a field holds the round of the message it was    *)
(* taken from.  SANDBOX_RESULT and PATCH_SUBMITTED are sent by no agent,   *)
(* and verificationResults is empty throughout.                            *)
(***************************************************************************)
EXTENDS Integers, Sequences, FiniteSets

CONSTANTS Agents,        \* patch agents
          Threshold,     \* THRESHOLD
          MaxPolls, MaxRound, MaxMessages, MaxBids, \* bounds
          None           \* null

ASSUME FlashPatchFeedAssumption == MaxRound \in Nat /\ None \notin Nat /\ Threshold \in Nat

VARIABLES threads,       \* threads[n]: the messages of emergency n
          answers,       \* polls under way: how many messages of each thread they brought
          shown,         \* currentState, given by the answer it was built from
          key            \* what the coral server calls the text of a message it lists

vars == <<threads, answers, shown, key>>
-----------------------------------------------------------------------------
(* buildState. *)

\* emptyState
EmptyState == [phase |-> "IDLE", round |-> None, bids |-> [a \in Agents |-> None],
               winner |-> None, deposit |-> None, count |-> 0, counted |-> None,
               deployedPatch |-> None, release |-> None, elapsed |-> None]

\* Mutant: the reply of an agent that was late moves the phase back.
PatchingAlways(phase) == "PATCHING"

\* A bid starts the patching.
Patching(phase) == IF phase = "EXPLOIT_DETECTED" THEN "PATCHING" ELSE phase

\* VERIFIED: the count is that of the results, of which there are none.
Verdict(s, m) == [s EXCEPT !.count = 0, !.counted = m.round,
                           !.phase = IF @ = "PATCHING" THEN "VERIFIED" ELSE @]

\* Mutant: the time of a deployment is kept once it is there.
ElapsedOnce(s, m) ==
    [s EXCEPT !.deployedPatch = m.round, !.phase = "DEPLOYED",
              !.elapsed = IF @ = None THEN m.round ELSE @]

Deployed(s, m) ==
    [s EXCEPT !.deployedPatch = m.round, !.phase = "DEPLOYED", !.elapsed = m.round]

\* What one message makes of the state.  A new alert keeps all that it does not set.
Told(s, m) ==
    CASE m.verb = "EXPLOIT_DETECTED" -> [s EXCEPT !.round = m.round, !.phase = m.verb]
      [] m.verb = "BID" -> [s EXCEPT !.bids[m.by] = m.round, !.phase = Patching(@)]
      [] m.verb = "AWARD" -> [s EXCEPT !.winner = m.round]
      [] m.verb = "DEPOSITED" -> [s EXCEPT !.deposit = m.round]
      [] m.verb = "VERIFIED" -> Verdict(s, m)
      [] m.verb = "THRESHOLD_STATUS" -> [s EXCEPT !.count = m.received, !.counted = m.round]
      [] m.verb = "PATCH_DEPLOYED" -> Deployed(s, m)
      [] m.verb = "ARBITER_RELEASED" ->
           [s EXCEPT !.release = m.round, !.phase = "RELEASED",
                     !.elapsed = IF @ = None THEN s.round ELSE @]

\* fetchSessionMessages: thread after thread.
ByThread(k) ==
    LET upto[n \in 0..Len(k)] ==
          IF n = 0 THEN <<>> ELSE upto[n - 1] \o SubSeq(threads[n], 1, k[n])
    IN  upto[Len(k)]

\* The feed reads the text of a message as its content, and skips what has none.  What
\* marketplace/feed/src/coralState.ts:6 reads of the same server calls it text.
Readable == key = "content"

Texts(k) == IF Readable THEN ByThread(k) ELSE <<>>

BuildState(k) ==
    LET messages == Texts(k)
        state[i \in 0..Len(messages)] ==
          IF i = 0 THEN EmptyState ELSE Told(state[i - 1], messages[i])
    IN  state[Len(messages)]

\* What the dashboard is answered.
State == BuildState(shown)
-----------------------------------------------------------------------------
(* The session: who may say what next.  The detector speaks of its present emergency,
   which ends at any time; the others may be late. *)

Present == Len(threads)
Said(n, v) == \E i \in DOMAIN threads[n] : threads[n][i].verb = v
Passed(n) == \E i \in DOMAIN threads[n] :
                threads[n][i].verb = "VERIFIED" /\ threads[n][i].verdict = "pass"

\* An agent bids for every WANT it is shown, in repeated mentions, too.
Bids == LET by(n) == {i \in DOMAIN threads[n] : threads[n][i].verb = "BID"}
        IN  Cardinality(UNION {{n} \X by(n) : n \in DOMAIN threads})

Say(m) == threads' = [threads EXCEPT ![m.round] = Append(@, m)]

DetectorSays ==
    \/ /\ Present < MaxRound
       /\ threads' = Append(threads, <<[verb |-> "EXPLOIT_DETECTED", round |-> Present + 1]>>)
    \/ LET n == Present IN
         /\ n > 0
         /\ \/ /\ Said(n, "BID") /\ ~Said(n, "AWARD")
               /\ Say([verb |-> "AWARD", round |-> n])
            \/ /\ Said(n, "AWARD") /\ ~Said(n, "DEPOSITED")
               /\ Say([verb |-> "DEPOSITED", round |-> n])
            \/ /\ Passed(n) /\ ~Said(n, "ARBITER_RELEASED")
               /\ Say([verb |-> "ARBITER_RELEASED", round |-> n])

AgentsSay ==
    \E n \in 1..Present :
       \/ /\ Bids < MaxBids
          /\ \E a \in Agents : Say([verb |-> "BID", round |-> n, by |-> a])
       \/ /\ Said(n, "DEPOSITED") /\ ~Said(n, "VERIFIED")
          /\ \E v \in {"pass", "fail"} : Say([verb |-> "VERIFIED", round |-> n, verdict |-> v])
       \/ /\ Passed(n) /\ ~Said(n, "THRESHOLD_STATUS")
          /\ Say([verb |-> "THRESHOLD_STATUS", round |-> n, received |-> Threshold])
       \/ /\ Said(n, "THRESHOLD_STATUS") /\ ~Said(n, "PATCH_DEPLOYED")
          /\ Say([verb |-> "PATCH_DEPLOYED", round |-> n])

Messages == [n \in DOMAIN threads |-> Len(threads[n])]

SessionGoesOn == /\ Len(ByThread(Messages)) < MaxMessages
                 /\ DetectorSays \/ AgentsSay
                 /\ UNCHANGED <<answers, shown, key>>
-----------------------------------------------------------------------------
(* The feed. *)

Init == threads = <<>> /\ answers = {} /\ shown = <<>> /\ key \in {"content", "text"}

\* Mutant: a feed that has shown a release polls no more.
FetchUntilReleased ==
    /\ State.phase # "RELEASED" /\ Cardinality(answers) < MaxPolls
    /\ answers' = answers \cup {Messages}
    /\ UNCHANGED <<threads, shown, key>>

\* setInterval polls, whether or not the last poll is through; the coral server answers
\* with the messages there are by then.
Fetch ==
    /\ Cardinality(answers) < MaxPolls
    /\ answers' = answers \cup {Messages}
    /\ UNCHANGED <<threads, shown, key>>

\* An answer is handled, in whatever order they come; without messages the state is kept.
Handle(k) ==
    /\ shown' = IF k = <<>> THEN shown ELSE k
    /\ answers' = answers \ {k}
    /\ UNCHANGED <<threads, key>>

\* A fetch that throws, or finds no session (404), changes nothing.
Fails(k) ==
    /\ answers' = answers \ {k}
    /\ UNCHANGED <<threads, shown, key>>

\* The state is in memory only.
Restart ==
    /\ shown' = <<>> /\ answers' = {}
    /\ UNCHANGED <<threads, key>>

Next == SessionGoesOn \/ Restart \/ Fetch \/ \E k \in answers : Handle(k) \/ Fails(k)

\* setInterval polls for ever, and not every poll fails.
Spec == Init /\ [][Next]_vars
             /\ WF_vars(Fetch) /\ SF_vars(\E k \in answers : Handle(k))
-----------------------------------------------------------------------------
\* What the dashboard has been told of emergency n.
Shown(n, v) == \E i \in 1..shown[n] : threads[n][i].verb = v

\* One state is shown for all emergencies: of the last one when the texts are readable,
\* and nothing at all when they are not.  Its phase is one that emergency has reached
\* itself, whatever comes late in an earlier one's thread; and what it has said is shown
\* of it, what it has not said yet may be shown of an earlier one.
ShowsLastEmergency ==
    LET s == State
        own(v) == s.round # None /\ Shown(s.round, v)
    IN  /\ s.round = IF Readable /\ shown # <<>> THEN Len(shown) ELSE None
        /\ s.round = None => s = EmptyState
        /\ s.phase = "PATCHING" => own("BID")
        /\ s.phase = "VERIFIED" => own("VERIFIED")
        /\ s.phase = "DEPLOYED" => own("PATCH_DEPLOYED")
        /\ s.phase = "RELEASED" => own("ARBITER_RELEASED")
        /\ own("AWARD") => s.winner = s.round
        /\ own("DEPOSITED") => s.deposit = s.round
        /\ own("VERIFIED") => s.counted = s.round
        /\ own("PATCH_DEPLOYED") => s.deployedPatch = s.round /\ s.elapsed = s.round
        /\ own("ARBITER_RELEASED") => s.release = s.round

\* App.tsx:26-34, the order of the phases.
Rank(phase) ==
    CHOOSE i \in 1..6 :
       phase = <<"IDLE", "EXPLOIT_DETECTED", "PATCHING", "VERIFIED", "DEPLOYED", "RELEASED">>[i]

\* As messages come in, an emergency is shown to go forward only, or a later one is
\* shown; but a deployment that is reported after the release moves a released one back.
GoesForward ==
    [][(\A n \in DOMAIN shown : n \in DOMAIN shown' /\ shown[n] <= shown'[n]) =>
         LET old == State
             new == BuildState(shown')
         IN  old.round = new.round =>
                \/ Rank(old.phase) <= Rank(new.phase)
                \/ old.phase = "RELEASED" /\ new.phase = "DEPLOYED"]_vars

\* An older answer that is handled last is shown, but not for good: neither that, nor
\* restarts, nor failing polls keep the feed from showing what the whole session makes
\* of it again, which is the present emergency if its texts are readable.
CatchesUp ==
    []<>(/\ State = BuildState(Messages)
         /\ State.round = IF Readable /\ Present > 0 THEN Present ELSE None)
=============================================================================
