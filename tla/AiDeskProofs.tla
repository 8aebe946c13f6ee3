----------------------------- MODULE AiDeskProofs -----------------------------
(***************************************************************************)
(* Theorems about AiDesk for every value of its constants: what the AI     *)
(* does rests on a proposal that is not stale, and every HTTP attempt is   *)
(* in the budget's record of the day it began on.                          *)
(*                                                                         *)
(* The budget: an attempt is counted in memory first and written later, so *)
(* what memory, a queued write and the record of a day say differ by the   *)
(* writes of that day still queued behind, and by what was lost.           *)
(***************************************************************************)
EXTENDS AiDesk, FiniteSetTheorems, SequenceTheorems, TLAPS

-----------------------------------------------------------------------------
(* Proposals of the AI.                                                    *)

\* Of a proposal, researched, ready or applied: when its snapshot was taken and until when it counts.
Timed(p) == p.since \in Nat /\ p.expires \in Nat /\ p.since <= clock

Stages  == {"queued", "jev", "history", "refused"}
Flights == [since : Nat, expires : Nat, deadline : Int, stage : Stages, aborted : BOOLEAN]

\* What EXCEPT needs to know of the proposal that is applied.
Applied(p) == p = [since |-> p.since, expires |-> p.expires, actions |-> p.actions, step |-> p.step]

ProposalsTimed ==
    /\ clock \in Nat
    /\ flight # NoFlight => flight \in Flights /\ Timed(flight)
    /\ ready # NoProposal => Timed(ready)
    /\ applying # NoProposal => Timed(applying) /\ Applied(applying)

ProposalsInv == ProposalsTimed /\ NoStaleProposal

-----------------------------------------------------------------------------
\* The research of a proposal and the end of it.
LEMMA SettledTimed ==
    ASSUME ProposalsInv, flight # NoFlight, NEW actions, Settled(actions), clock' = clock
    PROVE  /\ flight' = NoFlight
           /\ ready' # NoProposal => Timed(ready)' /\ (ready' = ready \/ phase = "up")
<1>1. CASE ready' = ready
  BY <1>1 DEF Settled, ProposalsInv, ProposalsTimed, Timed
<1>2. CASE /\ phase = "up"
           /\ ready' = [since |-> flight.since, expires |-> flight.expires, actions |-> actions]
  BY <1>2 DEF Settled, ProposalsInv, ProposalsTimed, Timed
<1>3. QED
  BY <1>1, <1>2 DEF Settled

\* A step that changes neither clock, phase, what is applied nor what was done.
LEMMA ResearchSuffices ==
    ASSUME ProposalsInv, UNCHANGED <<clock, phase, applying, acted>>,
           flight' # NoFlight => flight' \in Flights /\ flight'.since \in Nat /\ flight'.expires \in Nat /\ flight'.since <= clock,
           ready' # NoProposal => Timed(ready)' /\ (ready' = ready \/ phase = "up")
    PROVE  ProposalsInv'
<1>1. ProposalsTimed'
  BY DEF ProposalsInv, ProposalsTimed, Timed, Applied
<1>2. NoStaleProposal'
  BY DEF ProposalsInv, NoStaleProposal
<1>3. QED
  BY <1>1, <1>2 DEF ProposalsInv

\* What a step of the research must keep of the flight and of what is ready.
FlightTimed == flight' # NoFlight => /\ flight' \in Flights
                                     /\ flight'.since \in Nat /\ flight'.expires \in Nat
                                     /\ flight'.since <= clock
ReadyTimed  == ready' # NoProposal => Timed(ready)' /\ (ready' = ready \/ phase = "up")

LEMMA FlightGoesOn ==
    ASSUME ProposalsInv, clock' = clock, flight # NoFlight, ready' = ready,
           \/ flight' = flight
           \/ flight' = [flight EXCEPT !.aborted = TRUE]
           \/ \E s \in Stages : flight' = [flight EXCEPT !.stage = s]
    PROVE  FlightTimed /\ ReadyTimed
<1>1. ReadyTimed
  BY DEF ReadyTimed, ProposalsInv, ProposalsTimed, Timed
<1>2. /\ flight \in Flights /\ flight.since \in Nat /\ flight.expires \in Nat
      /\ flight.since <= clock /\ clock \in Nat
  BY DEF ProposalsInv, ProposalsTimed, Timed
<1>3. CASE flight' = flight
  BY <1>1, <1>2, <1>3 DEF FlightTimed
<1>4. CASE flight' = [flight EXCEPT !.aborted = TRUE]
  <2>1. flight' \in Flights /\ flight'.since = flight.since /\ flight'.expires = flight.expires
    BY <1>2, <1>4 DEF Flights
  <2>2. QED
    BY <1>1, <1>2, <2>1 DEF FlightTimed
<1>5. ASSUME NEW s \in Stages, flight' = [flight EXCEPT !.stage = s]
      PROVE  FlightTimed
  <2>1. flight' \in Flights /\ flight'.since = flight.since /\ flight'.expires = flight.expires
    BY <1>2, <1>5 DEF Flights
  <2>2. QED
    BY <1>2, <2>1 DEF FlightTimed
<1>6. QED
  BY <1>1, <1>3, <1>4, <1>5

LEMMA FlightSettles ==
    ASSUME ProposalsInv, clock' = clock, flight # NoFlight, NEW actions, Settled(actions)
    PROVE  FlightTimed /\ ReadyTimed
BY SettledTimed DEF FlightTimed, ReadyTimed

LEMMA ChatOpens ==
    ASSUME ProposalsInv, clock' = clock, flight # NoFlight, ready' = ready,
           NEW c, NEW timeout, NEW s \in Stages, OpenChat(c, timeout, s)
    PROVE  FlightTimed /\ ReadyTimed
<1>1. flight' = flight \/ flight' = [flight EXCEPT !.stage = s]
  BY DEF OpenChat
<1>2. QED
  BY <1>1, FlightGoesOn

LEMMA ResearchKept ==
    ASSUME ProposalsInv, Research
    PROVE  ProposalsInv'
<1>1. UNCHANGED <<clock, phase, applying, acted>>
  BY DEF Research, Start, TimerAborts, JevReview, JevReviewed, Operation, ClosedTrades, Proposed, journal
<1>2. ASSUME Start
      PROVE  FlightTimed /\ ReadyTimed
  <2>1. clock \in Nat /\ AiCycle \in Nat /\ AiTimeout \in Nat
    BY AiDeskAssumption DEF ProposalsInv, ProposalsTimed
  <2>2. flight' = [since |-> clock, expires |-> clock + AiCycle,
                   deadline |-> clock + Earlier(AiTimeout, AiCycle),
                   stage |-> "queued", aborted |-> FALSE]
    BY <1>2 DEF Start
  <2>3. clock + Earlier(AiTimeout, AiCycle) \in Int /\ clock + AiCycle \in Nat
    BY <2>1 DEF Earlier
  <2>4. FlightTimed
    BY <2>1, <2>2, <2>3 DEF Flights, Stages, FlightTimed
  <2>5. ready' = NoProposal
    BY <1>2 DEF Start
  <2>6. QED
    BY <2>4, <2>5 DEF ReadyTimed
<1>3. ASSUME TimerAborts
      PROVE  FlightTimed /\ ReadyTimed
  BY <1>1, <1>3, FlightGoesOn DEF TimerAborts
<1>4. ASSUME NEW b \in BOOLEAN, Operation(b)
      PROVE  FlightTimed /\ ReadyTimed
  <2>1. flight # NoFlight
    BY <1>4 DEF Operation
  <2>2. CASE Settled(<<>>)
    BY <1>1, <2>1, <2>2, FlightSettles
  <2>3. CASE flight' = [flight EXCEPT !.stage = IF b THEN "jev" ELSE "history"] /\ ready' = ready
    <3>1. \E s \in Stages : flight' = [flight EXCEPT !.stage = s]
      BY <2>3 DEF Stages
    <3>2. QED
      BY <1>1, <2>1, <2>3, <3>1, FlightGoesOn
  <2>4. QED
    BY <1>4, <2>2, <2>3 DEF Operation
<1>5. ASSUME JevReview
      PROVE  FlightTimed /\ ReadyTimed
  <2>1. flight # NoFlight /\ OpenChat("jev", JevTimeout, "history") /\ ready' = ready
    BY <1>5 DEF JevReview
  <2>2. "history" \in Stages
    BY DEF Stages
  <2>3. QED
    BY <1>1, <2>1, <2>2, ChatOpens
<1>6. ASSUME JevReviewed
      PROVE  FlightTimed /\ ReadyTimed
  <2>1. flight # NoFlight
    BY <1>6 DEF JevReviewed
  <2>2. CASE Settled(<<>>)
    BY <1>1, <2>1, <2>2, FlightSettles
  <2>3. CASE flight' = [flight EXCEPT !.stage = "history"] /\ ready' = ready
    <3>1. \E s \in Stages : flight' = [flight EXCEPT !.stage = s]
      BY <2>3 DEF Stages
    <3>2. QED
      BY <1>1, <2>1, <2>3, <3>1, FlightGoesOn
  <2>4. QED
    BY <1>6, <2>2, <2>3 DEF JevReviewed
<1>7. ASSUME NEW b \in BOOLEAN, ClosedTrades(b)
      PROVE  FlightTimed /\ ReadyTimed
  <2>1. flight # NoFlight
    BY <1>7 DEF ClosedTrades
  <2>2. CASE Settled(<<>>)
    BY <1>1, <2>1, <2>2, FlightSettles
  <2>3. CASE OpenChat("trader", AiTimeout, "refused") /\ ready' = ready
    <3>1. "refused" \in Stages
      BY DEF Stages
    <3>2. QED
      BY <1>1, <2>1, <2>3, <3>1, ChatOpens
  <2>4. QED
    BY <1>7, <2>2, <2>3 DEF ClosedTrades
<1>8. ASSUME NEW reply \in RawReplies, Proposed(reply)
      PROVE  FlightTimed /\ ReadyTimed
  BY <1>1, <1>8, FlightSettles DEF Proposed
<1>9. FlightTimed /\ ReadyTimed
  BY <1>2, <1>3, <1>4, <1>5, <1>6, <1>7, <1>8 DEF Research
<1>10. QED
  BY <1>1, <1>9, ResearchSuffices DEF FlightTimed, ReadyTimed

-----------------------------------------------------------------------------
(***************************************************************************)
(* The application of a proposal: its next action may take any number of   *)
(* steps, and acts only while the proposal counts and nothing is halted.   *)
(***************************************************************************)
LEMMA StepTimed ==
    ASSUME ProposalsInv, applying # NoProposal, clock' = clock, NEW s, Step(s)
    PROVE  Timed(applying)' /\ Applied(applying)'
<1>1. applying = [since |-> applying.since, expires |-> applying.expires,
                  actions |-> applying.actions, step |-> applying.step]
  BY DEF ProposalsInv, ProposalsTimed, Applied
<1>2. applying' = [since |-> applying.since, expires |-> applying.expires,
                   actions |-> applying.actions, step |-> s]
  BY <1>1 DEF Step
<1>3. QED
  BY <1>2 DEF ProposalsInv, ProposalsTimed, Timed, Applied

LEMMA NextTimed ==
    ASSUME ProposalsInv, applying # NoProposal, clock' = clock, NextAction
    PROVE  applying' # NoProposal => Timed(applying)' /\ Applied(applying)'
<1>1. applying = [since |-> applying.since, expires |-> applying.expires,
                  actions |-> applying.actions, step |-> applying.step]
  BY DEF ProposalsInv, ProposalsTimed, Applied
<1>2. CASE applying' = [since |-> applying.since, expires |-> applying.expires,
                        actions |-> Tail(applying.actions), step |-> "next"]
  BY <1>2 DEF ProposalsInv, ProposalsTimed, Timed, Applied
<1>3. QED
  BY <1>1, <1>2 DEF NextAction

LEMMA ActsInTime ==
    ASSUME ProposalsInv, applying # NoProposal, ~ Expired, ~ Halted, Act
    PROVE  acted'.allowed /\ acted'.since <= acted'.at /\ acted'.at < acted'.expires
<1>1. /\ applying.since \in Nat /\ applying.expires \in Nat /\ clock \in Nat
      /\ applying.since <= clock
  BY DEF ProposalsInv, ProposalsTimed, Timed
<1>2. acted' = [since |-> applying.since, expires |-> applying.expires, at |-> clock, allowed |-> ~Halted]
  BY DEF Act
<1>3. acted'.since = applying.since /\ acted'.expires = applying.expires /\ acted'.at = clock
  BY <1>2
<1>4. acted'.allowed = ~Halted
  BY <1>2, Zenon
<1>5. clock < applying.expires
  BY <1>1 DEF Expired
<1>6. QED
  BY <1>1, <1>3, <1>4, <1>5

\* What a step of the application must keep.
ApplyingTimed == applying' # NoProposal => Timed(applying)' /\ Applied(applying)'
ActedInTime   == acted' # NoProposal => acted'.allowed /\ acted'.since <= acted'.at /\ acted'.at < acted'.expires

LEMMA ApplicationSuffices ==
    ASSUME ProposalsInv, UNCHANGED <<clock, phase, flight>>, ready' \in {ready, NoProposal},
           ApplyingTimed, ActedInTime
    PROVE  ProposalsInv'
<1>1. ProposalsTimed'
  BY DEF ProposalsInv, ProposalsTimed, Timed, ApplyingTimed
<1>2. NoStaleProposal'
  BY DEF ProposalsInv, NoStaleProposal, ActedInTime
<1>3. QED
  BY <1>1, <1>2 DEF ProposalsInv

\* An action goes on, is skipped, or acts: the three ways of every step below.
LEMMA ActionSteps ==
    ASSUME ProposalsInv, applying # NoProposal, clock' = clock,
           \/ /\ acted' = acted
              /\ \/ applying' \in {NoProposal, applying} \/ NextAction
                 \/ \E s \in {"observe", "review", "commit", "journaled"} : Step(s)
           \/ ~ Expired /\ ~ Halted /\ Act /\ NextAction
    PROVE  ApplyingTimed /\ ActedInTime
<1>1. acted' = acted => ActedInTime
  BY DEF ProposalsInv, NoStaleProposal, ActedInTime
<1>2. ApplyingTimed
  <2>1. applying' = applying => ApplyingTimed
    BY DEF ProposalsInv, ProposalsTimed, Timed, Applied, ApplyingTimed
  <2>2. QED
    BY <2>1, NextTimed, StepTimed DEF ApplyingTimed
<1>3. ~ Expired /\ ~ Halted /\ Act => ActedInTime
  BY ActsInTime DEF ActedInTime
<1>4. QED
  BY <1>1, <1>2, <1>3

LEMMA ApplicationKept ==
    ASSUME ProposalsInv, Application
    PROVE  ProposalsInv'
<1>1. UNCHANGED <<clock, phase, flight>>
  BY DEF Application, TakeReady, BeginAction, Observed, Review, Reviewed, Commit, runner
<1>2. ready' \in {ready, NoProposal}
  BY DEF Application, TakeReady, BeginAction, Observed, Review, Reviewed, Commit, runner
<1>3. ASSUME TakeReady
      PROVE  ApplyingTimed /\ ActedInTime
  <2>1. acted' = acted /\ Timed(ready)
    BY <1>3 DEF TakeReady, ProposalsInv, ProposalsTimed
  <2>2. \/ applying' = NoProposal
        \/ applying' = [since |-> ready.since, expires |-> ready.expires, actions |-> ready.actions, step |-> "next"]
    BY <1>3 DEF TakeReady
  <2>3. ApplyingTimed
    BY <1>1, <2>1, <2>2 DEF ApplyingTimed, Timed, Applied
  <2>4. ActedInTime
    BY <2>1 DEF ProposalsInv, NoStaleProposal, ActedInTime
  <2>5. QED
    BY <2>3, <2>4
<1>4. ASSUME NEW b \in BOOLEAN, BeginAction(b)
      PROVE  ApplyingTimed /\ ActedInTime
  <2>1. applying # NoProposal
    BY <1>4 DEF BeginAction
  <2>2. \/ applying' = NoProposal /\ acted' = acted
        \/ NextAction /\ acted' = acted
        \/ ~ Expired /\ ~ Halted /\ Act /\ NextAction
        \/ Step("observe") /\ acted' = acted
    BY <1>4 DEF BeginAction
  <2>3. QED
    BY <1>1, <2>1, <2>2, ActionSteps
<1>5. ASSUME NEW b \in BOOLEAN, Observed(b)
      PROVE  ApplyingTimed /\ ActedInTime
  <2>1. applying # NoProposal
    BY <1>5 DEF Observed
  <2>2. \/ NextAction /\ acted' = acted
        \/ ~ Expired /\ ~ Halted /\ Act /\ NextAction
        \/ Step("review") /\ acted' = acted
    BY <1>5 DEF Observed
  <2>3. QED
    BY <1>1, <2>1, <2>2, ActionSteps
<1>6. ASSUME Review
      PROVE  ApplyingTimed /\ ActedInTime
  <2>1. applying # NoProposal /\ acted' = acted
    BY <1>6 DEF Review
  <2>2. NextAction \/ Step("commit") \/ applying' = applying
    BY <1>6 DEF Review
  <2>3. QED
    BY <1>1, <2>1, <2>2, ActionSteps
<1>7. ASSUME Reviewed
      PROVE  ApplyingTimed /\ ActedInTime
  <2>1. acted' = acted
    BY <1>7 DEF Reviewed
  <2>2. CASE applying = NoProposal
    <3>1. applying' = NoProposal
      BY <1>7, <2>2 DEF Reviewed
    <3>2. QED
      BY <2>1, <3>1 DEF ProposalsInv, NoStaleProposal, ApplyingTimed, ActedInTime
  <2>3. CASE applying # NoProposal
    <3>1. NextAction \/ Step("commit")
      BY <1>7, <2>3 DEF Reviewed
    <3>2. QED
      BY <1>1, <2>1, <2>3, <3>1, ActionSteps
  <2>4. QED
    BY <2>2, <2>3
<1>8. ASSUME NEW b \in BOOLEAN, Commit(b)
      PROVE  ApplyingTimed /\ ActedInTime
  <2>1. applying # NoProposal
    BY <1>8 DEF Commit
  <2>2. \/ NextAction /\ acted' = acted
        \/ ~ Expired /\ ~ Halted /\ Act /\ NextAction
        \/ Step("journaled") /\ acted' = acted
    BY <1>8 DEF Commit
  <2>3. QED
    BY <1>1, <2>1, <2>2, ActionSteps
<1>9. ApplyingTimed /\ ActedInTime
  BY <1>3, <1>4, <1>5, <1>6, <1>7, <1>8 DEF Application
<1>10. QED
  BY <1>1, <1>2, <1>9, ApplicationSuffices

-----------------------------------------------------------------------------
(***************************************************************************)
(* Everything else leaves proposals alone, or drops them.                  *)
(***************************************************************************)
LEMMA RestSuffices ==
    ASSUME ProposalsInv, UNCHANGED <<clock, acted>>,
           flight' \in {flight, NoFlight} \/ (flight # NoFlight /\ flight' = [flight EXCEPT !.aborted = TRUE]),
           ready' = NoProposal \/ (ready' = ready /\ phase' = phase),
           applying' \in {applying, NoProposal}
    PROVE  ProposalsInv'
<1>1. flight' # NoFlight => flight' \in Flights /\ Timed(flight)'
  <2>1. CASE flight' \in {flight, NoFlight}
    BY <2>1 DEF ProposalsInv, ProposalsTimed, Timed
  <2>2. CASE flight # NoFlight /\ flight' = [flight EXCEPT !.aborted = TRUE]
    <3>1. flight \in Flights /\ flight.since \in Nat /\ flight.expires \in Nat
          /\ flight.since <= clock /\ clock \in Nat
      BY <2>2 DEF ProposalsInv, ProposalsTimed, Timed
    <3>2. flight' \in Flights /\ flight'.since = flight.since /\ flight'.expires = flight.expires
      BY <2>2, <3>1 DEF Flights
    <3>3. QED
      BY <3>1, <3>2 DEF Timed
  <2>3. QED
    BY <2>1, <2>2
<1>2. ready' # NoProposal => Timed(ready)'
  BY DEF ProposalsInv, ProposalsTimed, Timed
<1>3. applying' # NoProposal => Timed(applying)' /\ Applied(applying)'
  BY DEF ProposalsInv, ProposalsTimed, Timed, Applied
<1>4. NoStaleProposal'
  BY DEF ProposalsInv, NoStaleProposal
<1>5. QED
  BY <1>1, <1>2, <1>3, <1>4 DEF ProposalsInv, ProposalsTimed

LEMMA ConversationsKept ==
    ASSUME ProposalsInv, Conversations
    PROVE  ProposalsInv'
<1>1. UNCHANGED <<clock, acted, flight, ready, phase, applying>>
  BY DEF Conversations, Ask, ChatTimesOut, RequestFails, Answered, runner, journal
<1>2. QED
  BY <1>1, RestSuffices

LEMMA ProcessKept ==
    ASSUME ProposalsInv, Process
    PROVE  ProposalsInv'
<1>1. phase # "up" => ready = NoProposal
  BY DEF ProposalsInv, NoStaleProposal
<1>2. ASSUME Boot \/ \E readable \in BOOLEAN : Restore(readable)
      PROVE  ProposalsInv'
  <2>1. UNCHANGED <<clock, acted, flight, ready, applying>> /\ phase # "up"
    BY <1>2 DEF Boot, Restore, runner
  <2>2. QED
    BY <1>1, <2>1, RestSuffices
<1>3. ASSUME Stop
      PROVE  ProposalsInv'
  <2>1. UNCHANGED <<clock, acted, applying>> /\ ready' = NoProposal
    BY <1>3 DEF Stop
  <2>2. flight' = flight \/ (flight # NoFlight /\ flight' = [flight EXCEPT !.aborted = TRUE])
    BY <1>3 DEF Stop
  <2>3. QED
    BY <2>1, <2>2, RestSuffices
<1>4. ASSUME Exited \/ Crash
      PROVE  ProposalsInv'
  <2>1. UNCHANGED <<clock, acted>> /\ ready' = NoProposal /\ applying' = NoProposal /\ flight' = NoFlight
    BY <1>4 DEF Exited, Crash, Gone, journal
  <2>2. QED
    BY <2>1, RestSuffices
<1>5. QED
  BY <1>2, <1>3, <1>4 DEF Process

LEMMA RestKept ==
    ASSUME ProposalsInv,
           \/ \E call \in calls : LateAnswer(call)
           \/ ReviewOfEnsemble \/ VerdictAges \/ BudgetViewed \/ WriteDone \/ WriteFails \/ KillSwitch
           \/ UNCHANGED aiVars
    PROVE  ProposalsInv'
<1>1. UNCHANGED <<clock, acted, flight, ready, phase, applying>>
  BY DEF LateAnswer, ReviewOfEnsemble, VerdictAges, BudgetViewed, WriteDone, WriteFails, KillSwitch,
         aiVars, runner, journal
<1>2. QED
  BY <1>1, RestSuffices

LEMMA TickKept ==
    ASSUME ProposalsInv, Tick
    PROVE  ProposalsInv'
<1>1. clock \in Nat /\ clock' = clock + 1
  BY DEF Tick, ProposalsInv, ProposalsTimed
<1>2. UNCHANGED <<acted, flight, ready, phase, applying>>
  BY DEF Tick, runner
<1>3. ProposalsTimed'
  BY <1>1, <1>2 DEF ProposalsInv, ProposalsTimed, Timed, Applied
<1>4. NoStaleProposal'
  BY <1>2 DEF ProposalsInv, NoStaleProposal
<1>5. QED
  BY <1>3, <1>4 DEF ProposalsInv

(***************************************************************************)
(* The AI acts only on a proposal whose snapshot is no older than a cycle, *)
(* never with the kill switch on or once the process is stopping, and a    *)
(* runner that was disposed of offers nothing: for any timeouts, replies,  *)
(* budget, crashes and order in which the answers come.                    *)
(***************************************************************************)
THEOREM ProposalsAreCurrent == AiSpec => []NoStaleProposal
<1>1. AiInit => ProposalsInv
  BY DEF AiInit, ProposalsInv, ProposalsTimed, NoStaleProposal
<1>2. ProposalsInv /\ [AiNext]_aiVars => ProposalsInv'
  BY ResearchKept, ApplicationKept, ConversationsKept, ProcessKept, RestKept, TickKept DEF AiNext
<1>3. ProposalsInv => NoStaleProposal
  BY DEF ProposalsInv
<1>4. QED
  BY <1>1, <1>2, <1>3, PTL DEF AiSpec

-----------------------------------------------------------------------------
(* The budget of the AI.                                                   *)


Spend  == [calls : Nat, incomplete : Nat, spent : Nat]
Queued == [day : Days, usage : Spend]
Saves  == [calls : Nat, incomplete : Nat, spent : Nat, covered : BOOLEAN]

Balanced(s) == s.calls = s.spent + s.incomplete

\* The writes of day d behind the i-th of q.
After(q, i, d) == {j \in 1 .. Len(q) : i < j /\ q[j].day = d}
Lag(q, i, d)   == Cardinality(After(q, i, d))

OfDay(cs, d) == {call \in cs : call.day = d}

\* What is true of a day in memory, of a queued write of it and of its record in the journal.
DayOK(cs, u, m, d) ==
    u[d] # NoUsage =>
        /\ Balanced(u[d])
        /\ Cardinality(OfDay(cs, d)) <= u[d].incomplete
        /\ Covered(d) => m[d] <= u[d].calls + slips

WriteOK(q, m, i) ==
    /\ Balanced(q[i].usage)
    /\ Covered(q[i].day) => m[q[i].day] <= q[i].usage.calls + slips + Lag(q, i, q[i].day)

RecordOK(q, m, d) ==
    saved[d] # NoUsage =>
        /\ Balanced(saved[d])
        /\ saved[d].covered => m[d] <= saved[d].calls + slips + Lag(q, 0, d)

CallsOK(cs, u, t) ==
    IsFiniteSet(cs) /\ \A call \in cs : call.day \in Days /\ call.day <= t /\ u[call.day] # NoUsage

\* What the queue and the journal say of the days together.
Journaled(q, m) ==
    /\ q \in Seq(Queued) /\ m \in [Days -> Nat]
    /\ \A d \in Days : RecordOK(q, m, d)
    /\ \A i \in 1 .. Len(q) : WriteOK(q, m, i)

Counts(cs, u, q, m, t) ==
    /\ u \in [Days -> Spend \cup {NoUsage}]
    /\ t \in Days /\ t <= Day(clock)
    /\ CallsOK(cs, u, t)
    /\ Journaled(q, m)
    /\ \A d \in Days : (d > t => m[d] = 0) /\ DayOK(cs, u, m, d)

JournalTyped ==
    /\ clock \in 0 .. MaxClock /\ slips \in Nat
    /\ saved \in [Days -> Saves \cup {NoUsage}]
    /\ coverage \in [Days -> {"unset", "complete", "partial"}]
    /\ boot \in [day : Days, restoreIssue : BOOLEAN, persistIssue : BOOLEAN, count : Nat]

PhaseInv ==
    /\ phase \in {"down", "booting", "up", "stopping"}
    /\ phase \in {"down", "booting"} => calls = {} /\ writes = <<>>
    /\ phase = "booting" =>
          /\ boot.day = today
          /\ usage = [d \in Days |-> IF d = today THEN NewDay ELSE NoUsage]
          /\ coverage = [d \in Days |-> "unset"]
    /\ phase # "down" => usage[today] # NoUsage

BudgetInv == JournalTyped /\ PhaseInv /\ Counts(calls, usage, writes, made, today)
-----------------------------------------------------------------------------
(* Days.                                                                   *)
LEMMA DivMonotone ==
  ASSUME NEW a \in Nat, NEW b \in Nat, a <= b, NEW n \in Nat \ {0}
  PROVE  a \div n \in Nat /\ b \div n \in Nat /\ a \div n <= b \div n
  <1>1. PICK x \in Nat, y \in Nat : x = a \div n /\ y = b \div n /\ n * x <= a /\ b < n * y + n
    <2>1. \A c \in Nat : c \div n \in Nat /\ n * (c \div n) <= c /\ c < n * (c \div n) + n
      OBVIOUS
    <2> QED
      BY <2>1
  <1>2. x <= y
    <2>1. CASE y + 1 <= x
      <3>1. n * (y + 1) <= n * x
        BY <2>1
      <3>2. n * (y + 1) = n * y + n
        OBVIOUS
      <3>3. n * x \in Nat /\ n * y \in Nat
        OBVIOUS
      <3> QED
        BY <1>1, <3>1, <3>2, <3>3
    <2> QED
      BY <2>1
  <1> QED
    BY <1>1, <1>2

LEMMA DaysTyped ==
  ASSUME NEW t \in 0 .. MaxClock
  PROVE  Day(t) \in Days /\ Day(t) \in Nat /\ Days \subseteq Nat
  <1>1. t \in Nat /\ MaxClock \in Nat /\ t <= MaxClock /\ DayLength \in Nat \ {0}
    BY AiDeskAssumption
  <1>2. Day(t) \in Nat /\ MaxClock \div DayLength \in Nat /\ Day(t) <= MaxClock \div DayLength
    BY <1>1, DivMonotone DEF Day
  <1> QED
    BY <1>2 DEF Days

-----------------------------------------------------------------------------
(* How many writes of a day are queued.                                    *)
LEMMA LagNat ==
  ASSUME NEW q, Len(q) \in Nat, NEW i, NEW d
  PROVE  /\ IsFiniteSet(After(q, i, d))
         /\ Lag(q, i, d) \in Nat /\ Lag(q, i, d) <= Len(q)
  <1> DEFINE S == After(q, i, d)
  <1>1. IsFiniteSet(1 .. Len(q)) /\ Cardinality(1 .. Len(q)) = Len(q)
    <2>1. 1 \in Int /\ Len(q) \in Int
      OBVIOUS
    <2>2. Cardinality(1 .. Len(q)) = IF 1 > Len(q) THEN 0 ELSE Len(q) - 1 + 1
      BY <2>1, FS_Interval, Zenon
    <2>3. IsFiniteSet(1 .. Len(q))
      BY <2>1, FS_Interval, Zenon
    <2> QED
      BY <2>2, <2>3
  <1>2. S \in SUBSET (1 .. Len(q))
    BY DEF After
  <1>3. IsFiniteSet(S) /\ Cardinality(S) \in Nat /\ Cardinality(S) <= Len(q)
    <2> HIDE DEF S
    <2> QED
      BY <1>1, <1>2, FS_Subset, FS_CardinalityType
  <1> QED
    BY <1>3 DEF Lag

LEMMA LagAppends ==
  ASSUME NEW q \in Seq(Queued), NEW w \in Queued, NEW i \in 0 .. Len(q), NEW d
  PROVE  Lag(Append(q, w), i, d) = IF w.day = d THEN Lag(q, i, d) + 1 ELSE Lag(q, i, d)
  <1>0. PICK r : r = Append(q, w)
    OBVIOUS
  <1>1. PICK n \in Nat : n = Len(q) /\ r = Append(q, w)
    <2>1. Len(q) \in Nat
      OBVIOUS
    <2> QED
      BY <1>0, <2>1
  <1>2. Len(r) = n + 1 /\ r[n + 1] = w /\ \A j \in 1 .. n : r[j] = q[j]
    BY <1>1
  <1>3. \A j : j \in After(r, i, d) <=> j \in After(q, i, d) \/ (j = n + 1 /\ w.day = d)
    <2>1. \A j \in After(r, i, d) : j \in 1 .. n + 1 /\ i < j /\ r[j].day = d
      BY <1>2 DEF After
    <2>2. \A j \in 1 .. n + 1 : j \in 1 .. n \/ j = n + 1
      OBVIOUS
    <2>3. \A j \in After(q, i, d) : j \in 1 .. n /\ i < j /\ q[j].day = d /\ j \in 1 .. n + 1
      BY <1>1 DEF After
    <2>4. n + 1 \in 1 .. n + 1 /\ i < n + 1
      BY <1>1
    <2> QED
      BY <1>1, <1>2, <2>1, <2>2, <2>3, <2>4, Zenon DEF After
  <1>4. After(r, i, d) = IF w.day = d THEN After(q, i, d) \cup {n + 1} ELSE After(q, i, d)
    BY <1>3
  <1>5. IsFiniteSet(After(q, i, d)) /\ Lag(q, i, d) \in Nat
    BY <1>1, LagNat
  <1>6. n + 1 \notin After(q, i, d)
    BY <1>1 DEF After
  <1>7. Cardinality(After(q, i, d) \cup {n + 1}) = Cardinality(After(q, i, d)) + 1
    BY <1>5, <1>6, FS_AddElement
  <1> QED
    BY <1>1, <1>4, <1>7 DEF Lag

LEMMA LagTail ==
  ASSUME NEW q \in Seq(Queued), q # <<>>, NEW i \in Nat, NEW d
  PROVE  Lag(Tail(q), i, d) = Lag(q, i + 1, d)
  <1>0. PICK r : r = Tail(q)
    OBVIOUS
  <1>1. PICK n \in Nat : n = Len(r) /\ r = Tail(q)
    <2>1. Len(Tail(q)) \in Nat
      OBVIOUS
    <2> QED
      BY <1>0, <2>1
  <1>2. Len(q) = n + 1 /\ \A j \in 1 .. n : r[j] = q[j + 1]
    BY <1>1
  <1> DEFINE S == After(r, i, d)
             T == After(q, i + 1, d)
             f == [j \in S |-> j + 1]
  <1>3. ASSUME NEW j \in S PROVE j \in Int /\ j + 1 \in T
    <2>1. j \in 1 .. n /\ i < j /\ r[j].day = d /\ r[j] = q[j + 1]
      BY <1>1, <1>2 DEF After
    <2>2. j + 1 \in 1 .. n + 1 /\ i + 1 < j + 1
      BY <2>1
    <2> QED
      BY <1>2, <2>1, <2>2 DEF After
  <1>4. ASSUME NEW k \in T PROVE k - 1 \in S /\ (k - 1) + 1 = k
    <2>1. k \in 1 .. n + 1 /\ i + 1 < k /\ q[k].day = d
      BY <1>2 DEF After
    <2>2. k - 1 \in 1 .. n /\ i < k - 1 /\ (k - 1) + 1 = k
      BY <2>1
    <2>3. r[k - 1] = q[(k - 1) + 1]
      BY <1>2, <2>2
    <2> QED
      BY <1>1, <2>1, <2>2, <2>3 DEF After
  <1>5. f \in Bijection(S, T)
    <2> HIDE DEF S, T
    <2>1. f \in [S -> T]
      BY <1>3
    <2>2. \A a, b \in S : f[a] = f[b] => a = b
      BY <1>3
    <2>3. \A k \in T : \E j \in S : f[j] = k
      BY <1>4
    <2> QED
      BY <2>1, <2>2, <2>3 DEF Bijection, Injection, Surjection, IsInjective
  <1>6. IsFiniteSet(S)
    BY <1>1, LagNat
  <1>7. Cardinality(S) = Cardinality(T)
    <2> HIDE DEF S, T, f
    <2> QED
      BY <1>5, <1>6, FS_Bijection DEF ExistsBijection
  <1> QED
    BY <1>1, <1>7 DEF Lag

LEMMA LagTail0 ==
  ASSUME NEW q \in Seq(Queued), q # <<>>, NEW d
  PROVE  Lag(Tail(q), 0, d) = Lag(q, 1, d)
  <1>1. 0 \in Nat /\ 0 + 1 = 1
    OBVIOUS
  <1>2. Lag(Tail(q), 0, d) = Lag(q, 0 + 1, d)
    BY <1>1, LagTail
  <1> QED
    BY <1>1, <1>2

LEMMA LagHead ==
  ASSUME NEW q \in Seq(Queued), q # <<>>, NEW d
  PROVE  Lag(q, 0, d) = IF Head(q).day = d THEN Lag(q, 1, d) + 1 ELSE Lag(q, 1, d)
  <1>1. PICK n \in Nat : n = Len(q) /\ n >= 1 /\ Head(q) = q[1]
    OBVIOUS
  <1>2. After(q, 0, d) = IF Head(q).day = d THEN After(q, 1, d) \cup {1} ELSE After(q, 1, d)
    <2>1. ASSUME NEW j PROVE j \in After(q, 0, d) <=> j \in After(q, 1, d) \/ (j = 1 /\ Head(q).day = d)
      BY <1>1 DEF After
    <2> QED
      BY <2>1
  <1>3. IsFiniteSet(After(q, 1, d)) /\ 1 \notin After(q, 1, d)
    <2>1. IsFiniteSet(After(q, 1, d))
      BY <1>1, LagNat
    <2>2. 1 \notin After(q, 1, d)
      BY DEF After
    <2> QED
      BY <2>1, <2>2
  <1>4. Cardinality(After(q, 1, d) \cup {1}) = Cardinality(After(q, 1, d)) + 1
    BY <1>3, FS_AddElement
  <1> QED
    BY <1>2, <1>4 DEF Lag

-----------------------------------------------------------------------------
(* The record of a day, and one more write of it.                          *)

LEMMA SpendFields ==
  ASSUME NEW s \in Spend
  PROVE  /\ s.calls \in Nat /\ s.incomplete \in Nat /\ s.spent \in Nat /\ s # NoUsage
         /\ s = [calls |-> s.calls, incomplete |-> s.incomplete, spent |-> s.spent]
  BY DEF Spend, NoUsage

LEMMA UsageTyped ==
  ASSUME NEW u \in [Days -> Spend \cup {NoUsage}], NEW d \in Days, u[d] # NoUsage
  PROVE  u[d] \in Spend
  OBVIOUS

\* m2 is m with at most one more request, of the given day.
OneMore(m, m2, day) == \A d \in Days : m2[d] <= m[d] + (IF day = d THEN 1 ELSE 0)

\* A write of a day that covers it does not lack more than was lost; nor do those before it,
\* which are one more behind.
LEMMA QueueGrows ==
  ASSUME JournalTyped, NEW q, NEW m, Journaled(q, m), NEW m2 \in [Days -> Nat],
         NEW w \in Queued, Balanced(w.usage), Covered(w.day) => m2[w.day] <= w.usage.calls + slips,
         OneMore(m, m2, w.day)
  PROVE  Journaled(Append(q, w), m2)
  <1>1. slips \in Nat /\ q \in Seq(Queued) /\ m \in [Days -> Nat]
    BY DEF JournalTyped, Journaled
  <1>0. PICK r : r = Append(q, w)
    OBVIOUS
  <1>2. PICK n \in Nat : n = Len(q) /\ r = Append(q, w)
    <2>1. Len(q) \in Nat
      BY <1>1
    <2> QED
      BY <1>0, <2>1
  <1>3. r \in Seq(Queued) /\ Len(r) = n + 1 /\ r[n + 1] = w /\ \A i \in 1 .. n : r[i] = q[i]
    BY <1>1, <1>2
  <1>4. ASSUME NEW i \in 0 .. n, NEW d \in Days
        PROVE  \E a \in Nat, b \in Nat, e \in Nat :
                  a = Lag(q, i, d) /\ b = Lag(r, i, d) /\ b = a + e /\ m2[d] <= m[d] + e
    <2>1. Lag(q, i, d) \in Nat
      BY <1>2, LagNat
    <2>2. Lag(r, i, d) = IF w.day = d THEN Lag(q, i, d) + 1 ELSE Lag(q, i, d)
      BY <1>1, <1>2, LagAppends
    <2>3. m2[d] <= m[d] + (IF w.day = d THEN 1 ELSE 0)
      BY DEF OneMore
    <2> QED
      BY <2>1, <2>2, <2>3
  <1>5. ASSUME NEW d \in Days PROVE RecordOK(r, m2, d)
    <2>1. RecordOK(q, m, d) /\ m[d] \in Nat /\ m2[d] \in Nat
      BY <1>1 DEF Journaled
    <2>2. CASE saved[d] # NoUsage /\ saved[d].covered
      <3>1. saved[d].calls \in Nat
        BY <2>2 DEF JournalTyped, Saves
      <3>2. PICK a \in Nat, b \in Nat, e \in Nat :
                a = Lag(q, 0, d) /\ b = Lag(r, 0, d) /\ b = a + e /\ m2[d] <= m[d] + e
        <4>1. 0 \in 0 .. n
          BY <1>2
        <4> QED
          BY <1>4, <4>1
      <3>3. m[d] <= saved[d].calls + slips + a /\ Balanced(saved[d])
        BY <2>1, <2>2, <3>2 DEF RecordOK
      <3>4. m2[d] <= saved[d].calls + slips + b
        <4>1. PICK x \in Nat, y \in Nat, c \in Nat, s \in Nat :
                  x = m[d] /\ y = m2[d] /\ c = saved[d].calls /\ s = slips
          BY <1>1, <2>1, <3>1
        <4>2. y <= x + e /\ x <= c + s + a
          BY <3>2, <3>3, <4>1
        <4> QED
          BY <3>2, <4>1, <4>2
      <3> QED
        BY <3>2, <3>3, <3>4 DEF RecordOK
    <2> QED
      BY <2>1, <2>2 DEF RecordOK
  <1>6. ASSUME NEW i \in 1 .. n PROVE WriteOK(r, m2, i)
    <2>1. WriteOK(q, m, i) /\ r[i] = q[i] /\ q[i] \in Queued
      <3>1. i \in 1 .. Len(q)
        BY <1>2
      <3>2. WriteOK(q, m, i)
        BY <3>1 DEF Journaled
      <3>3. q[i] \in Queued
        <4> HIDE DEF Queued
        <4> QED
          BY <1>1, <3>1
      <3> QED
        BY <1>3, <3>2, <3>3
    <2>2. q[i].day \in Days /\ q[i].usage \in Spend
      BY <2>1 DEF Queued
    <2>3. PICK d \in Days, c \in Nat : d = q[i].day /\ c = q[i].usage.calls /\ m[d] \in Nat /\ m2[d] \in Nat
      BY <1>1, <2>2, SpendFields
    <2>4. PICK a \in Nat, b \in Nat, e \in Nat :
              a = Lag(q, i, d) /\ b = Lag(r, i, d) /\ b = a + e /\ m2[d] <= m[d] + e
      <3>1. i \in 0 .. n
        BY <1>2
      <3> QED
        BY <1>4, <3>1
    <2>5. Balanced(q[i].usage) /\ (Covered(d) => m[d] <= c + slips + a)
      BY <2>1, <2>3, <2>4 DEF WriteOK
    <2>6. Covered(d) => m2[d] <= c + slips + b
      <3>1. PICK x \in Nat, y \in Nat, s \in Nat : x = m[d] /\ y = m2[d] /\ s = slips
        BY <1>1, <2>3
      <3>2. y <= x + e /\ (Covered(d) => x <= c + s + a)
        BY <2>4, <2>5, <3>1
      <3> QED
        BY <2>4, <3>1, <3>2
    <2> QED
      BY <2>1, <2>3, <2>4, <2>5, <2>6 DEF WriteOK
  <1>7. WriteOK(r, m2, n + 1)
    <2>1. PICK b \in Nat : b = Lag(r, n + 1, w.day)
      BY <1>3, LagNat
    <2>2. w.day \in Days /\ w.usage \in Spend
      BY DEF Queued
    <2>3. PICK d \in Days, c \in Nat : d = w.day /\ c = w.usage.calls /\ m2[d] \in Nat
      BY <2>2, SpendFields
    <2>4. Covered(d) => m2[d] <= c + slips + b
      <3>1. \A x, y \in Nat : x <= y => x <= y + b
        OBVIOUS
      <3>2. c + slips \in Nat
        BY <1>1
      <3> QED
        BY <2>3, <3>1, <3>2
    <2> QED
      BY <1>3, <2>1, <2>3, <2>4 DEF WriteOK
  <1>8. \A i \in 1 .. Len(r) : WriteOK(r, m2, i)
    <2>1. \A i \in 1 .. n + 1 : i \in 1 .. n \/ i = n + 1
      OBVIOUS
    <2> QED
      BY <1>3, <1>6, <1>7, <2>1
  <1> QED
    BY <1>2, <1>3, <1>5, <1>8 DEF Journaled

LEMMA CountAppends ==
  ASSUME NEW cs, NEW u, NEW q, NEW m, NEW t, Counts(cs, u, q, m, t), JournalTyped,
         NEW w \in Queued, Balanced(w.usage), Covered(w.day) => m[w.day] <= w.usage.calls + slips
  PROVE  Counts(cs, u, Append(q, w), m, t)
  <1>1. Journaled(q, m) /\ m \in [Days -> Nat]
    BY DEF Counts, Journaled
  <1>2. OneMore(m, m, w.day)
    BY <1>1 DEF OneMore
  <1>3. Journaled(Append(q, w), m)
    BY <1>1, <1>2, QueueGrows
  <1> QED
    BY <1>3 DEF Counts

LEMMA AppendTwice ==
  ASSUME NEW S, NEW q \in Seq(S), NEW x \in S, NEW y \in S
  PROVE  q \o <<x, y>> = Append(Append(q, x), y)
  <1>1. PICK z, n, a : z = <<x, y>> /\ n = Len(q) /\ a = Append(q, x)
    OBVIOUS
  <1>2. PICK c, b : c = q \o z /\ b = Append(a, y)
    OBVIOUS
  <1>3. z \in Seq(S) /\ Len(z) = 2 /\ z[1] = x /\ z[2] = y
    BY <1>1
  <1>4. n \in Nat
    BY <1>1
  <1>5. c \in Seq(S) /\ Len(c) = n + 2 /\ \A i \in 1 .. n + 2 : c[i] = IF i <= n THEN q[i] ELSE z[i - n]
    BY <1>1, <1>2, <1>3, ConcatProperties
  <1>6. a \in Seq(S) /\ Len(a) = n + 1 /\ a[n + 1] = x /\ \A i \in 1 .. n : a[i] = q[i]
    BY <1>1
  <1>7. b \in Seq(S) /\ Len(b) = n + 2 /\ b[n + 2] = y /\ \A i \in 1 .. n + 1 : b[i] = a[i]
    <2>1. Len(b) = (n + 1) + 1 /\ b[(n + 1) + 1] = y /\ b \in Seq(S) /\ \A i \in 1 .. n + 1 : b[i] = a[i]
      <3>0. a \in Seq(S)
        BY <1>6
      <3>1. /\ Append(a, y) \in Seq(S) /\ Len(Append(a, y)) = Len(a) + 1 /\ Append(a, y)[Len(a) + 1] = y
            /\ \A i \in 1 .. Len(a) : Append(a, y)[i] = a[i]
        BY <3>0
      <3> QED
        BY <1>2, <1>6, <3>1, Zenon
    <2>2. (n + 1) + 1 = n + 2
      BY <1>4
    <2> QED
      BY <2>1, <2>2
  <1>8. ASSUME NEW i \in 1 .. n + 2 PROVE c[i] = b[i]
    <2>1. CASE i \in 1 .. n
      <3>1. i <= n /\ i \in 1 .. n + 1
        BY <1>4, <2>1
      <3> QED
        BY <1>5, <1>6, <1>7, <2>1, <3>1
    <2>2. CASE i = n + 1
      <3>1. i - n = 1 /\ ~(i <= n) /\ i \in 1 .. n + 1
        BY <1>4, <2>2
      <3> QED
        BY <1>3, <1>5, <1>6, <1>7, <2>2, <3>1
    <2>3. CASE i = n + 2
      <3>1. i - n = 2 /\ ~(i <= n)
        BY <1>4, <2>3
      <3> QED
        BY <1>3, <1>5, <1>7, <2>3, <3>1
    <2>4. i \in 1 .. n \/ i = n + 1 \/ i = n + 2
      BY <1>4
    <2> QED
      BY <2>1, <2>2, <2>3, <2>4
  <1>9. c = b
    BY <1>5, <1>7, <1>8, SeqEqual
  <1> QED
    BY <1>1, <1>2, <1>9

LEMMA NewDayTyped ==
  NewDay \in Spend /\ Balanced(NewDay) /\ NewDay # NoUsage /\ NewDay.incomplete = 0 /\ NewDay.calls = 0
  BY DEF NewDay, Spend, Balanced, NoUsage

\* rollDay.
LEMMA CountRolls ==
  ASSUME JournalTyped, Counts(calls, usage, writes, made, today), usage[today] # NoUsage
  PROVE  /\ Counts(calls, RolledUsage, RolledWrites, made, Day(clock))
         /\ RolledUsage[Day(clock)] # NoUsage
  <1>1. Day(clock) \in Days /\ Days \subseteq Nat /\ today \in Days /\ today <= Day(clock)
    BY DaysTyped DEF Counts, JournalTyped
  <1>2. CASE today = Day(clock)
    BY <1>2 DEF RolledUsage, RolledWrites
  <1>3. CASE today # Day(clock)
    <2>1. PICK day \in Days : day = Day(clock)
      BY <1>1
    <2>w. PICK first, second : first = Write(today, usage[today]) /\ second = Write(day, NewDay)
      OBVIOUS
    <2>2. usage[today] \in Spend /\ NewDay \in Spend /\ Balanced(NewDay) /\ NewDay # NoUsage /\ NewDay.incomplete = 0
          /\ NewDay.calls = 0
      <3>1. usage \in [Days -> Spend \cup {NoUsage}]
        BY DEF Counts
      <3>2. usage[today] \in Spend
        BY <1>1, <3>1, UsageTyped
      <3> QED
        BY <3>2, NewDayTyped
    <2>3. first \in Queued /\ second \in Queued /\ first.day = today /\ first.usage = usage[today]
          /\ second.day = day /\ second.usage = NewDay
      BY <1>1, <2>2, <2>w DEF Write, Queued
    <2>4. made[day] = 0 /\ slips \in Nat
      BY <1>1, <1>3, <2>1 DEF Counts, JournalTyped
    <2>5. DayOK(calls, usage, made, today)
      BY <1>1 DEF Counts
    <2>6. Counts(calls, usage, Append(writes, first), made, today)
      BY <2>3, <2>5, CountAppends DEF DayOK
    <2>7. Counts(calls, usage, Append(Append(writes, first), second), made, today)
      BY <2>2, <2>3, <2>4, <2>6, CountAppends
    <2>8. RolledWrites = Append(Append(writes, first), second)
      <3>1. RolledWrites = writes \o <<first, second>>
        BY <1>3, <2>1, <2>w DEF RolledWrites
      <3>2. writes \in Seq(Queued)
        BY DEF Counts, Journaled
      <3> QED
        BY <2>3, <3>1, <3>2, AppendTwice
    <2>9. PICK u : u = RolledUsage
      OBVIOUS
    <2>10. u = [usage EXCEPT ![day] = NewDay]
      BY <1>3, <2>1, <2>9 DEF RolledUsage
    <2>11. u \in [Days -> Spend \cup {NoUsage}] /\ u[day] = NewDay /\ \A d \in Days : d # day => u[d] = usage[d]
      BY <1>1, <2>1, <2>2, <2>10 DEF Counts
    <2>12. CallsOK(calls, u, day)
      <3>1. CallsOK(calls, usage, today)
        BY DEF Counts
      <3>2. ASSUME NEW call \in calls PROVE call.day \in Days /\ call.day <= day /\ u[call.day] # NoUsage
        <4>1. call.day \in Days /\ call.day <= today /\ usage[call.day] # NoUsage
          BY <3>1 DEF CallsOK
        <4>2. call.day <= day
          <5>1. PICK a \in Nat, b \in Nat, c \in Nat : a = call.day /\ b = today /\ c = day
            BY <1>1, <2>1, <4>1
          <5>2. a <= b /\ b <= c
            BY <1>1, <2>1, <4>1, <5>1
          <5> QED
            BY <5>1, <5>2
        <4> QED
          BY <2>2, <2>11, <4>1, <4>2
      <3> QED
        BY <3>1, <3>2 DEF CallsOK
    <2>13. DayOK(calls, u, made, day)
      <3>1. OfDay(calls, day) = {}
        BY <1>1, <1>3, <2>1 DEF Counts, CallsOK, OfDay
      <3>2. Cardinality(OfDay(calls, day)) = 0
        BY <3>1, FS_EmptySet
      <3> QED
        BY <2>2, <2>4, <2>11, <3>2 DEF DayOK
    <2>14. ASSUME NEW d \in Days PROVE (d > day => made[d] = 0) /\ DayOK(calls, u, made, d)
      <3>1. d > day => d > today
        BY <1>1, <2>1
      <3>2. CASE d = day
        BY <1>1, <2>1, <2>13, <3>2
      <3>3. CASE d # day
        BY <2>11, <3>1, <3>3 DEF Counts, DayOK
      <3> QED
        BY <3>2, <3>3
    <2>15. Counts(calls, u, Append(Append(writes, first), second), made, day)
      <3>1. day <= Day(clock)
        BY <1>1, <2>1
      <3> QED
        BY <2>7, <2>11, <2>12, <2>14, <3>1 DEF Counts
    <2> QED
      BY <2>1, <2>2, <2>8, <2>9, <2>11, <2>15
  <1> QED
    BY <1>2, <1>3
-----------------------------------------------------------------------------
(* A step of the process that leaves the journal alone.                    *)
LEMMA OfDayFinite ==
  ASSUME NEW cs, IsFiniteSet(cs), NEW d
  PROVE  IsFiniteSet(OfDay(cs, d)) /\ Cardinality(OfDay(cs, d)) \in Nat
  <1>1. OfDay(cs, d) \in SUBSET cs
    BY DEF OfDay
  <1> QED
    BY <1>1, FS_Subset, FS_CardinalityType

LEMMA CountsMoves ==
  ASSUME JournalTyped, Alive, UNCHANGED <<clock, phase, saved, coverage, boot, slips>>,
         Counts(calls', usage', writes', made', today'), usage'[today'] # NoUsage
  PROVE  BudgetInv'
  BY DEF BudgetInv, JournalTyped, PhaseInv, Alive, Counts, Journaled, CallsOK, DayOK, RecordOK, WriteOK, Covered

LEMMA NothingCounted ==
  ASSUME BudgetInv, UNCHANGED <<clock, phase, budget, saved, coverage, boot, slips>>
  PROVE  BudgetInv'
  BY DEF budget, BudgetInv, JournalTyped, PhaseInv, Counts, Journaled, CallsOK, DayOK, RecordOK, WriteOK, Covered

LEMMA DayRolls ==
  ASSUME BudgetInv, Alive, RollDay, UNCHANGED <<clock, phase, saved, coverage, boot, slips>>
  PROVE  BudgetInv'
  <1>1. JournalTyped /\ Counts(calls, usage, writes, made, today) /\ usage[today] # NoUsage
    BY DEF BudgetInv, PhaseInv, Alive
  <1>2. Counts(calls, RolledUsage, RolledWrites, made, Day(clock)) /\ RolledUsage[Day(clock)] # NoUsage
    BY <1>1, CountRolls
  <1>3. Counts(calls', usage', writes', made', today') /\ usage'[today'] # NoUsage
    BY <1>2 DEF RollDay
  <1> QED
    BY <1>1, <1>3, CountsMoves

Counted(u, t) == [u EXCEPT ![t].calls = @ + 1, ![t].incomplete = @ + 1]
Made(m, t)    == [m EXCEPT ![t] = @ + 1]

\* One more request out and one more incomplete.
LEMMA CountBegins ==
  ASSUME JournalTyped, NEW cs, NEW u, NEW q, NEW m, NEW t, Counts(cs, u, q, m, t), u[t] # NoUsage,
         NEW call, call.day = t,
         NEW u2, u2 = Counted(u, t), NEW m2, m2 = Made(m, t)
  PROVE  Counts(cs \cup {call}, u2, Append(q, Write(t, u2[t])), m2, t) /\ u2[t] # NoUsage
  <1>1. /\ u \in [Days -> Spend \cup {NoUsage}] /\ t \in Days /\ Days \subseteq Nat /\ t <= Day(clock)
        /\ m \in [Days -> Nat] /\ slips \in Nat /\ Journaled(q, m) /\ CallsOK(cs, u, t)
    BY DaysTyped DEF Counts, Journaled, JournalTyped
  <1>2. PICK c \in Nat, n \in Nat, k \in Nat : u[t] = [calls |-> c, incomplete |-> n, spent |-> k]
    BY <1>1, UsageTyped, SpendFields
  <1>3. /\ u2 \in [Days -> Spend \cup {NoUsage}]
        /\ u2[t] = [calls |-> c + 1, incomplete |-> n + 1, spent |-> k]
        /\ u2[t] \in Spend /\ u2[t] # NoUsage
        /\ \A d \in Days : d # t => u2[d] = u[d]
    <2>1. [calls |-> c + 1, incomplete |-> n + 1, spent |-> k] \in Spend
      BY DEF Spend
    <2>2. u2[t] = [calls |-> c + 1, incomplete |-> n + 1, spent |-> k]
      BY <1>1, <1>2 DEF Counted
    <2>3. \A d \in Days : d # t => u2[d] = u[d]
      BY <1>1 DEF Counted
    <2>4. u2 \in [Days -> Spend \cup {NoUsage}]
      BY <1>1, <2>1, <2>2, <2>3 DEF Counted
    <2> QED
      BY <2>1, <2>2, <2>3, <2>4, SpendFields
  <1>4. m2 \in [Days -> Nat] /\ m2[t] = m[t] + 1 /\ m[t] \in Nat /\ \A d \in Days : d # t => m2[d] = m[d]
    BY <1>1 DEF Made
  <1>5. DayOK(cs, u, m, t) /\ IsFiniteSet(cs)
    BY <1>1 DEF Counts, CallsOK
  <1>6. c = k + n /\ Cardinality(OfDay(cs, t)) <= n /\ (Covered(t) => m[t] <= c + slips)
    BY <1>2, <1>5, <1>1 DEF DayOK, Balanced
  <1>7. Covered(t) => m2[t] <= (c + 1) + slips
    <2>1. PICK x \in Nat, s \in Nat : x = m[t] /\ s = slips
      BY <1>1, <1>4
    <2> QED
      BY <1>4, <1>6, <2>1
  <1>8. Balanced(u2[t]) /\ u2[t].calls = c + 1 /\ u2[t].incomplete = n + 1
    <2>1. u2[t].calls = c + 1 /\ u2[t].incomplete = n + 1 /\ u2[t].spent = k
      BY <1>3
    <2>2. c + 1 = k + (n + 1)
      BY <1>6
    <2> QED
      BY <2>1, <2>2 DEF Balanced
  <1>9. Journaled(Append(q, Write(t, u2[t])), m2)
    <2>1. PICK w : w = Write(t, u2[t]) /\ w.day = t /\ w.usage = u2[t] /\ w \in Queued
      <3>1. Write(t, u2[t]) \in Queued
        BY <1>1, <1>3 DEF Write, Queued
      <3>2. Write(t, u2[t]).day = t /\ Write(t, u2[t]).usage = u2[t]
        BY DEF Write
      <3> QED
        BY <3>1, <3>2
    <2>2. OneMore(m, m2, t)
      <3>1. ASSUME NEW d \in Days PROVE m2[d] <= m[d] + (IF t = d THEN 1 ELSE 0)
        <4>1. PICK x \in Nat, y \in Nat : x = m[d] /\ y = m2[d] /\ (IF d = t THEN y = x + 1 ELSE y = x)
          BY <1>1, <1>4
        <4> QED
          BY <4>1
      <3> QED
        BY <3>1 DEF OneMore
    <2>3. Balanced(w.usage) /\ (Covered(w.day) => m2[w.day] <= w.usage.calls + slips)
      BY <1>7, <1>8, <2>1
    <2> QED
      BY <1>1, <1>4, <2>1, <2>2, <2>3, QueueGrows
  <1>10. CallsOK(cs \cup {call}, u2, t)
    <2>1. IsFiniteSet(cs \cup {call})
      BY <1>5, FS_AddElement
    <2>2. ASSUME NEW x \in cs \cup {call} PROVE x.day \in Days /\ x.day <= t /\ u2[x.day] # NoUsage
      <3>1. CASE x = call
        <4>1. t <= t
          BY <1>1
        <4> QED
          BY <1>1, <1>3, <3>1, <4>1
      <3>2. CASE x \in cs
        BY <1>1, <1>3, <3>2 DEF CallsOK
      <3> QED
        BY <3>1, <3>2
    <2> QED
      BY <2>1, <2>2 DEF CallsOK
  <1>11. DayOK(cs \cup {call}, u2, m2, t)
    <2>1. OfDay(cs \cup {call}, t) = OfDay(cs, t) \cup {call}
      BY DEF OfDay
    <2>2. Cardinality(OfDay(cs, t) \cup {call}) <= n + 1
      <3>1. PICK x \in Nat : x = Cardinality(OfDay(cs, t)) /\ x <= n /\ IsFiniteSet(OfDay(cs, t))
        BY <1>5, <1>6, OfDayFinite
      <3>2. Cardinality(OfDay(cs, t) \cup {call}) = IF call \in OfDay(cs, t) THEN x ELSE x + 1
        BY <3>1, FS_AddElement
      <3> QED
        BY <3>1, <3>2
    <2> QED
      BY <1>7, <1>8, <2>1, <2>2 DEF DayOK
  <1>12. ASSUME NEW d \in Days PROVE (d > t => m2[d] = 0) /\ DayOK(cs \cup {call}, u2, m2, d)
    <2>1. CASE d = t
      BY <1>1, <1>11, <2>1
    <2>2. CASE d # t
      <3>1. OfDay(cs \cup {call}, d) = OfDay(cs, d)
        BY <2>2 DEF OfDay
      <3>2. (d > t => m[d] = 0) /\ DayOK(cs, u, m, d)
        BY DEF Counts
      <3> QED
        BY <1>3, <1>4, <2>2, <3>1, <3>2 DEF DayOK
    <2> QED
      BY <2>1, <2>2
  <1> QED
    BY <1>1, <1>3, <1>9, <1>10, <1>12 DEF Counts

LEMMA RequestBegins ==
  ASSUME BudgetInv, Alive, NEW id, BeginRequest(id), UNCHANGED <<clock, phase, saved, coverage, boot, slips>>
  PROVE  BudgetInv'
  <1>1. JournalTyped /\ Counts(calls, usage, writes, made, today) /\ usage[today] # NoUsage
    BY DEF BudgetInv, PhaseInv, Alive
  <1>2. Counts(calls, RolledUsage, RolledWrites, made, Day(clock)) /\ RolledUsage[Day(clock)] # NoUsage
    BY <1>1, CountRolls
  <1>3. PICK day, call, u, m : /\ day = Day(clock) /\ call = [id |-> id, day |-> day]
                               /\ u = usage' /\ m = made'
    OBVIOUS
  <1>4. /\ usage' = [RolledUsage EXCEPT ![day].calls = @ + 1, ![day].incomplete = @ + 1]
        /\ writes' = Append(RolledWrites, Write(day, usage'[day]))
        /\ calls' = calls \cup {call} /\ made' = [made EXCEPT ![day] = @ + 1] /\ today' = day
    BY <1>3 DEF BeginRequest
  <1>5. Counts(calls', usage', writes', made', today') /\ usage'[today'] # NoUsage
    <2>1. call.day = day
      BY <1>3
    <2>2. Counts(calls \cup {call}, u, Append(RolledWrites, Write(day, u[day])), m, day) /\ u[day] # NoUsage
      <3>1. PICK ru, rw : ru = RolledUsage /\ rw = RolledWrites
        OBVIOUS
      <3>2. u = Counted(ru, day) /\ m = Made(made, day)
        BY <1>3, <1>4, <3>1, Zenon DEF Counted, Made
      <3>3. Counts(calls, ru, rw, made, day) /\ ru[day] # NoUsage
        BY <1>2, <1>3, <3>1
      <3>4. Counts(calls \cup {call}, u, Append(rw, Write(day, u[day])), m, day) /\ u[day] # NoUsage
        BY <1>1, <2>1, <3>2, <3>3, CountBegins
      <3> QED
        BY <3>1, <3>4
    <2> QED
      BY <1>3, <1>4, <2>2
  <1> QED
    BY <1>1, <1>5, CountsMoves

Elsewhere(u, u2, day) == \A d \in Days : d # day => u2[d] = u[d]

\* One request less out and at most one less incomplete; the sums of the day stay as they are.
LEMMA CountSettles ==
  ASSUME JournalTyped, NEW cs, NEW u, NEW q, NEW m, NEW t, Counts(cs, u, q, m, t),
         NEW call \in cs, NEW u2 \in [Days -> Spend \cup {NoUsage}],
         u2[call.day] \in Spend, Balanced(u2[call.day]), u2[call.day].calls = u[call.day].calls,
         u[call.day].incomplete <= u2[call.day].incomplete + 1,
         Elsewhere(u, u2, call.day)
  PROVE  Counts(cs \ {call}, u2, q, m, t)
  <1>1. /\ u \in [Days -> Spend \cup {NoUsage}] /\ CallsOK(cs, u, t) /\ IsFiniteSet(cs)
        /\ call.day \in Days /\ u[call.day] # NoUsage /\ DayOK(cs, u, m, call.day)
    BY DEF Counts, CallsOK
  <1>2. PICK d \in Days : d = call.day
    BY <1>1
  <1>3. PICK x \in Nat, n \in Nat, n2 \in Nat :
            x = Cardinality(OfDay(cs, d)) /\ n = u[d].incomplete /\ n2 = u2[d].incomplete
    BY <1>1, <1>2, OfDayFinite, UsageTyped, SpendFields
  <1>4. x <= n /\ n <= n2 + 1 /\ (Covered(d) => m[d] <= u2[d].calls + slips)
    BY <1>1, <1>2, <1>3 DEF DayOK
  <1>5. Cardinality(OfDay(cs \ {call}, d)) <= n2
    <2>1. OfDay(cs \ {call}, d) = OfDay(cs, d) \ {call} /\ call \in OfDay(cs, d) /\ IsFiniteSet(OfDay(cs, d))
      <3>1. IsFiniteSet(OfDay(cs, d))
        BY <1>1, OfDayFinite
      <3> QED
        BY <1>2, <3>1 DEF OfDay
    <2>2. Cardinality(OfDay(cs, d) \ {call}) = x - 1
      BY <1>3, <2>1, FS_RemoveElement
    <2>3. \A a, b, c \in Nat : a <= b /\ b <= c + 1 => a - 1 <= c
      OBVIOUS
    <2>4. x - 1 <= n2
      BY <1>3, <1>4, <2>3, Zenon
    <2> QED
      BY <2>1, <2>2, <2>4, Zenon
  <1>6. DayOK(cs \ {call}, u2, m, d)
    BY <1>2, <1>3, <1>4, <1>5 DEF DayOK
  <1>7. ASSUME NEW e \in Days PROVE DayOK(cs \ {call}, u2, m, e)
    <2>1. CASE e = d
      BY <1>6, <2>1
    <2>2. CASE e # d
      <3>1. OfDay(cs \ {call}, e) = OfDay(cs, e)
        BY <1>2, <2>2 DEF OfDay
      <3> QED
        BY <1>2, <2>2, <3>1 DEF Counts, DayOK, Elsewhere
    <2> QED
      BY <2>1, <2>2
  <1>8. CallsOK(cs \ {call}, u2, t)
    <2>1. IsFiniteSet(cs \ {call})
      BY <1>1, FS_RemoveElement
    <2>2. ASSUME NEW c \in cs \ {call} PROVE c.day \in Days /\ c.day <= t /\ u2[c.day] # NoUsage
      <3>1. c.day \in Days /\ c.day <= t /\ u[c.day] # NoUsage
        BY <1>1 DEF CallsOK
      <3>2. c.day # call.day => u2[c.day] = u[c.day]
        BY <1>1 DEF CallsOK, Elsewhere
      <3> QED
        BY <3>1, <3>2, SpendFields
    <2> QED
      BY <2>1, <2>2 DEF CallsOK
  <1> QED
    BY <1>7, <1>8 DEF Counts

LEMMA UsageAcknowledged ==
  ASSUME BudgetInv, Alive, NEW call \in calls, NEW counted \in BOOLEAN, Acknowledge(call, counted),
         UNCHANGED <<clock, phase, saved, coverage, boot, slips>>
  PROVE  BudgetInv'
  <1>1. JournalTyped /\ Counts(calls, usage, writes, made, today) /\ usage[today] # NoUsage
    BY DEF BudgetInv, PhaseInv, Alive
  <1>2. PICK u, d : u = usage' /\ d = call.day
    OBVIOUS
  <1>3. /\ usage \in [Days -> Spend \cup {NoUsage}] /\ d \in Days /\ usage[d] # NoUsage
        /\ IsFiniteSet(calls) /\ DayOK(calls, usage, made, d) /\ today \in Days
    BY <1>1, <1>2 DEF Counts, CallsOK
  <1>4. PICK c \in Nat, n \in Nat, k \in Nat : usage[d] = [calls |-> c, incomplete |-> n, spent |-> k]
    BY <1>3, UsageTyped, SpendFields
  <1>5. n >= 1 /\ c = k + n
    <2>1. PICK x \in Nat : x = Cardinality(OfDay(calls, d)) /\ x <= n
      BY <1>3, <1>4, OfDayFinite DEF DayOK
    <2>2. OfDay(calls, d) # {} /\ IsFiniteSet(OfDay(calls, d))
      <3>1. IsFiniteSet(OfDay(calls, d))
        BY <1>3, OfDayFinite
      <3> QED
        BY <1>2, <3>1 DEF OfDay
    <2>3. x # 0
      BY <2>1, <2>2, FS_EmptySet
    <2>4. c = k + n
      BY <1>3, <1>4 DEF DayOK, Balanced
    <2> QED
      BY <2>1, <2>3, <2>4
  <1>6. PICK n2 \in Nat, k2 \in Nat : /\ u = [usage EXCEPT ![d] = [calls |-> c, incomplete |-> n2, spent |-> k2]]
                                      /\ n <= n2 + 1 /\ c = k2 + n2
    <2>1. CASE counted
      <3>1. u = [usage EXCEPT ![d].incomplete = @ - 1, ![d].spent = @ + 1]
        BY <1>2, <2>1 DEF Acknowledge
      <3>2. u = [usage EXCEPT ![d] = [calls |-> c, incomplete |-> n - 1, spent |-> k + 1]]
        BY <1>3, <1>4, <3>1
      <3>3. n - 1 \in Nat /\ k + 1 \in Nat /\ n <= (n - 1) + 1 /\ c = (k + 1) + (n - 1)
        BY <1>5
      <3> QED
        BY <3>2, <3>3
    <2>2. CASE ~counted
      <3>1. u = usage
        BY <1>2, <2>2 DEF Acknowledge
      <3>2. u = [usage EXCEPT ![d] = [calls |-> c, incomplete |-> n, spent |-> k]]
        BY <1>3, <1>4, <3>1
      <3>3. n <= n + 1
        OBVIOUS
      <3> QED
        BY <1>5, <3>2, <3>3
    <2> QED
      BY <2>1, <2>2
  <1>7. PICK v \in Spend : v = [calls |-> c, incomplete |-> n2, spent |-> k2]
    BY DEF Spend
  <1>8. Balanced(v) /\ v # NoUsage /\ v.calls = c /\ v.incomplete = n2
    BY <1>6, <1>7, SpendFields DEF Balanced
  <1>9. /\ u \in [Days -> Spend \cup {NoUsage}] /\ u[d] = v
        /\ \A e \in Days : e # d => u[e] = usage[e]
    <2>1. u = [usage EXCEPT ![d] = v]
      BY <1>6, <1>7
    <2> QED
      BY <1>3, <2>1
  <1>10. usage[d].calls = c /\ usage[d].incomplete = n
    BY <1>4
  <1>11. Counts(calls \ {call}, u, writes, made, today)
    <2>1. Elsewhere(usage, u, call.day)
      BY <1>2, <1>9 DEF Elsewhere
    <2>2. u[call.day] \in Spend /\ Balanced(u[call.day]) /\ u[call.day].calls = usage[call.day].calls
      BY <1>2, <1>7, <1>8, <1>9, <1>10
    <2>3. usage[call.day].incomplete <= u[call.day].incomplete + 1
      BY <1>2, <1>6, <1>8, <1>9, <1>10
    <2>4. u \in [Days -> Spend \cup {NoUsage}]
      BY <1>9
    <2> QED
      BY <1>1, <2>1, <2>2, <2>3, <2>4, CountSettles
  <1>12. PICK w \in Queued : w = Write(d, v) /\ w.day = d /\ w.usage = v
    <2>1. Write(d, v) \in Queued
      BY <1>3, <1>7 DEF Write, Queued
    <2>2. Write(d, v).day = d /\ Write(d, v).usage = v
      BY DEF Write
    <2> QED
      BY <2>1, <2>2
  <1>13. Counts(calls \ {call}, u, Append(writes, w), made, today)
    <2>1. Covered(d) => made[d] <= v.calls + slips
      BY <1>3, <1>8, <1>10 DEF DayOK
    <2> QED
      BY <1>1, <1>8, <1>11, <1>12, <2>1, CountAppends
  <1>14. /\ calls' = calls \ {call} /\ writes' = Append(writes, w) /\ made' = made /\ today' = today
    <2>1. /\ calls' = calls \ {call} /\ writes' = Append(writes, Write(call.day, usage'[call.day]))
          /\ made' = made /\ today' = today
      BY DEF Acknowledge
    <2>2. usage'[call.day] = v
      BY <1>2, <1>9
    <2> QED
      BY <1>2, <1>12, <2>1, <2>2
  <1>15. u[today] # NoUsage
    BY <1>1, <1>3, <1>8, <1>9
  <1> QED
    BY <1>1, <1>2, <1>13, <1>14, <1>15, CountsMoves

-----------------------------------------------------------------------------
(* The journal and the process.                                            *)
LEMMA RecordWritten ==
  ASSUME BudgetInv, WriteDone
  PROVE  BudgetInv'
  <1>1. /\ JournalTyped /\ Journaled(writes, made) /\ writes \in Seq(Queued) /\ writes # <<>>
        /\ made \in [Days -> Nat] /\ slips \in Nat
    BY DEF BudgetInv, Counts, Journaled, WriteDone, JournalTyped
  <1>w. writes \in Seq(Queued) /\ writes # <<>>
    BY <1>1
  <1>0. PICK q : q = Tail(writes)
    OBVIOUS
  <1>2. PICK n \in Nat : n = Len(q) /\ q = Tail(writes) /\ Len(writes) = n + 1 /\ q \in Seq(Queued)
    <2>1. PICK m \in Nat : /\ m = Len(writes) /\ m # 0 /\ q = Tail(writes)
                           /\ Len(q) = m - 1 /\ q \in Seq(Queued)
      <3>1. Len(writes) \in Nat /\ Len(writes) # 0 /\ Len(Tail(writes)) = Len(writes) - 1
            /\ Tail(writes) \in Seq(Queued)
        BY <1>1
      <3> QED
        BY <1>0, <3>1
    <2>2. m - 1 \in Nat /\ m = (m - 1) + 1
      BY <2>1
    <2> QED
      BY <2>1, <2>2
  <1>3. \A i \in 1 .. n : q[i] = writes[i + 1]
    BY <1>1, <1>2
  <1>4. PICK w \in Queued : w = Head(writes) /\ w = writes[1]
    <2> HIDE DEF Queued
    <2> QED
      BY <1>1, <1>2
  <1>5. PICK d \in Days, v \in Spend : d = w.day /\ v = w.usage
    BY DEF Queued
  <1>6. PICK r : r = [calls |-> v.calls, incomplete |-> v.incomplete, spent |-> v.spent, covered |-> Covered(d)]
    OBVIOUS
  <1>7. r \in Saves /\ r.calls = v.calls /\ r.covered = Covered(d) /\ Balanced(r) = Balanced(v)
    <2>1. Covered(d) \in BOOLEAN
      <3>1. boot.day \in Nat /\ d \in Nat
        BY <1>1, DaysTyped DEF JournalTyped
      <3>2. CASE coverage[d] = "unset"
        BY <3>1, <3>2 DEF Covered
      <3>3. CASE coverage[d] # "unset"
        BY <3>3 DEF Covered
      <3> QED
        BY <3>2, <3>3
    <2> QED
      BY <1>6, <2>1, SpendFields DEF Saves, Balanced
  <1>8. saved' = [saved EXCEPT ![d] = r] /\ writes' = q
    BY <1>2, <1>4, <1>5, <1>6 DEF WriteDone
  <1>9. saved' \in [Days -> Saves \cup {NoUsage}] /\ saved'[d] = r /\ \A e \in Days : e # d => saved'[e] = saved[e]
    BY <1>1, <1>7, <1>8 DEF JournalTyped
  <1>10. UNCHANGED <<clock, phase, calls, usage, today, made, coverage, slips>>
         /\ boot' = [boot EXCEPT !.persistIssue = FALSE]
    BY DEF WriteDone
  <1>11. boot'.day = boot.day /\ JournalTyped'
    BY <1>1, <1>9, <1>10 DEF JournalTyped
  <1>12. \A e : Covered(e)' = Covered(e)
    BY <1>10, <1>11 DEF Covered
  <1>13. ASSUME NEW e \in Days PROVE RecordOK(q, made, e)'
    <2>1. PICK b \in Nat : b = Lag(q, 0, e) /\ b = Lag(writes, 1, e)
      <3>1. Lag(q, 0, e) \in Nat
        BY <1>2, LagNat
      <3>2. Lag(q, 0, e) = Lag(writes, 1, e)
        BY <1>0, <1>w, LagTail0
      <3> QED
        BY <3>1, <3>2
    <2>2. CASE e = d
      <3>1. WriteOK(writes, made, 1)
        <4>1. 1 \in 1 .. Len(writes)
          BY <1>2
        <4> QED
          BY <1>1, <4>1 DEF Journaled
      <3>2. Balanced(v) /\ (Covered(d) => made[d] <= v.calls + slips + b)
        BY <1>4, <1>5, <2>1, <2>2, <3>1 DEF WriteOK
      <3> QED
        BY <1>7, <1>9, <1>10, <2>1, <2>2, <3>2 DEF RecordOK
    <2>3. CASE e # d
      <3>1. Lag(writes, 0, e) = b
        BY <1>1, <1>4, <1>5, <2>1, <2>3, LagHead
      <3>2. RecordOK(writes, made, e)
        BY <1>1 DEF Journaled
      <3> QED
        BY <1>9, <1>10, <2>1, <2>3, <3>1, <3>2 DEF RecordOK
    <2> QED
      BY <2>2, <2>3
  <1>14. ASSUME NEW i \in 1 .. n PROVE WriteOK(q, made, i)'
    <2>1. i \in Nat /\ i + 1 \in 1 .. Len(writes)
      BY <1>2
    <2>2. WriteOK(writes, made, i + 1) /\ q[i] = writes[i + 1]
      BY <1>1, <1>3, <2>1 DEF Journaled
    <2>3. Lag(q, i, q[i].day) = Lag(writes, i + 1, q[i].day)
      <3>1. PICK e : e = q[i].day
        OBVIOUS
      <3>2. Lag(q, i, e) = Lag(writes, i + 1, e)
        BY <1>0, <1>w, <2>1, LagTail
      <3> QED
        BY <3>1, <3>2
    <2> QED
      BY <1>10, <1>12, <2>2, <2>3 DEF WriteOK
  <1>15. Journaled(q, made)'
    BY <1>1, <1>2, <1>10, <1>13, <1>14 DEF Journaled
  <1>16. Counts(calls, usage, writes, made, today)'
    BY <1>8, <1>10, <1>12, <1>15 DEF BudgetInv, Counts, CallsOK, DayOK
  <1> QED
    BY <1>10, <1>11, <1>16 DEF BudgetInv, PhaseInv, WriteDone, Alive

\* What is lost with the queue, or with its first write, is counted as lost.
LEMMA RecordLost ==
  ASSUME BudgetInv, WriteFails
  PROVE  BudgetInv'
  <1>1. /\ JournalTyped /\ Journaled(writes, made) /\ writes \in Seq(Queued) /\ writes # <<>>
        /\ made \in [Days -> Nat] /\ slips \in Nat
    BY DEF BudgetInv, Counts, Journaled, WriteFails, JournalTyped
  <1>w. writes \in Seq(Queued) /\ writes # <<>>
    BY <1>1
  <1>q. PICK q : q = Tail(writes)
    OBVIOUS
  <1>2. PICK n \in Nat : n = Len(q) /\ q = Tail(writes) /\ Len(writes) = n + 1 /\ q \in Seq(Queued)
    <2>1. PICK m \in Nat : /\ m = Len(writes) /\ m # 0 /\ q = Tail(writes)
                           /\ Len(q) = m - 1 /\ q \in Seq(Queued)
      <3>1. Len(writes) \in Nat /\ Len(writes) # 0 /\ Len(Tail(writes)) = Len(writes) - 1
            /\ Tail(writes) \in Seq(Queued)
        BY <1>1
      <3> QED
        BY <1>q, <3>1
    <2>2. m - 1 \in Nat /\ m = (m - 1) + 1
      BY <2>1
    <2> QED
      BY <2>1, <2>2
  <1>3. \A i \in 1 .. n : q[i] = writes[i + 1]
    BY <1>1, <1>2
  <1>4. UNCHANGED <<clock, phase, calls, usage, today, made, saved, coverage>> /\ writes' = q
        /\ slips' = slips + 1 /\ boot' = [boot EXCEPT !.persistIssue = TRUE]
    BY <1>2 DEF WriteFails
  <1>5. boot'.day = boot.day /\ JournalTyped'
    <2>1. slips' \in Nat
      BY <1>1, <1>4
    <2>2. boot'.day = boot.day /\ boot' \in [day : Days, restoreIssue : BOOLEAN, persistIssue : BOOLEAN, count : Nat]
      BY <1>1, <1>4 DEF JournalTyped
    <2> QED
      BY <1>1, <1>4, <2>1, <2>2 DEF JournalTyped
  <1>6. \A e : Covered(e)' = Covered(e)
    BY <1>4, <1>5 DEF Covered
  <1>7. ASSUME NEW e \in Days PROVE RecordOK(q, made, e)'
    <2>1. PICK a \in Nat, b \in Nat : b = Lag(q, 0, e) /\ a = Lag(writes, 0, e) /\ a <= b + 1
      <3>1. Lag(q, 0, e) \in Nat
        BY <1>2, LagNat
      <3>2. Lag(q, 0, e) = Lag(writes, 1, e)
        BY <1>w, <1>q, LagTail0
      <3>3. Lag(writes, 0, e) = IF Head(writes).day = e THEN Lag(writes, 1, e) + 1 ELSE Lag(writes, 1, e)
        BY <1>1, LagHead
      <3> QED
        BY <3>1, <3>2, <3>3
    <2>2. RecordOK(writes, made, e)
      BY <1>1 DEF Journaled
    <2>3. CASE saved[e] # NoUsage /\ saved[e].covered
      <3>1. PICK x \in Nat, c \in Nat, s \in Nat : x = made[e] /\ c = saved[e].calls /\ s = slips
        BY <1>1, <2>3 DEF JournalTyped, Saves
      <3>2. x <= c + s + a
        BY <2>1, <2>2, <2>3, <3>1 DEF RecordOK
      <3>3. x <= c + (s + 1) + b
        BY <2>1, <3>2
      <3> QED
        BY <1>4, <2>1, <2>2, <2>3, <3>1, <3>3 DEF RecordOK
    <2> QED
      BY <1>4, <2>2, <2>3 DEF RecordOK
  <1>8. ASSUME NEW i \in 1 .. n PROVE WriteOK(q, made, i)'
    <2>1. i \in Nat /\ i + 1 \in 1 .. Len(writes) /\ i \in 1 .. Len(q)
      BY <1>2
    <2>2. WriteOK(writes, made, i + 1) /\ q[i] = writes[i + 1]
      BY <1>1, <1>3, <2>1 DEF Journaled
    <2>3. q[i] \in Queued
      <3> HIDE DEF Queued
      <3> QED
        BY <1>2, <2>1
    <2>4. PICK e \in Days, v \in Spend : e = q[i].day /\ v = q[i].usage
      BY <2>3 DEF Queued
    <2>5. PICK b \in Nat : b = Lag(q, i, e) /\ b = Lag(writes, i + 1, e)
      <3>1. Lag(q, i, e) \in Nat
        BY <1>2, LagNat
      <3>2. Lag(q, i, e) = Lag(writes, i + 1, e)
        BY <1>w, <1>q, <2>1, LagTail
      <3> QED
        BY <3>1, <3>2
    <2>6. PICK x \in Nat, c \in Nat, s \in Nat : x = made[e] /\ c = v.calls /\ s = slips
      BY <1>1, SpendFields
    <2>7. Balanced(v) /\ (Covered(e) => x <= c + s + b)
      BY <2>2, <2>4, <2>5, <2>6 DEF WriteOK
    <2>8. Covered(e) => x <= c + (s + 1) + b
      BY <2>7
    <2> QED
      BY <1>4, <1>6, <2>4, <2>5, <2>6, <2>7, <2>8 DEF WriteOK
  <1>9. Journaled(q, made)'
    BY <1>1, <1>2, <1>4, <1>7, <1>8 DEF Journaled
  <1>10. ASSUME NEW e \in Days PROVE DayOK(calls, usage, made, e)'
    <2>1. DayOK(calls, usage, made, e) /\ usage \in [Days -> Spend \cup {NoUsage}]
      BY DEF BudgetInv, Counts
    <2>2. CASE usage[e] # NoUsage
      <3>1. PICK x \in Nat, c \in Nat, s \in Nat : x = made[e] /\ c = usage[e].calls /\ s = slips
        BY <1>1, <2>1, <2>2, UsageTyped, SpendFields
      <3>2. (Covered(e) => x <= c + s)
        BY <2>1, <2>2, <3>1 DEF DayOK
      <3>3. (Covered(e) => x <= c + (s + 1))
        BY <3>2
      <3> QED
        BY <1>4, <1>6, <2>1, <3>1, <3>3 DEF DayOK
    <2> QED
      BY <1>4, <2>2 DEF DayOK
  <1>11. Counts(calls, usage, writes, made, today)'
    BY <1>4, <1>9, <1>10 DEF BudgetInv, Counts, CallsOK
  <1> QED
    BY <1>4, <1>5, <1>11 DEF BudgetInv, PhaseInv, WriteFails, Alive

LEMMA NothingQueued ==
  /\ <<>> \in Seq(Queued) /\ Len(<<>>) = 0
  /\ \A d : Lag(<<>>, 0, d) = 0
  <1>1. Len(<<>>) = 0 /\ <<>> \in Seq(Queued)
    BY EmptySeq
  <1>2. ASSUME NEW d PROVE Lag(<<>>, 0, d) = 0
    <2>1. After(<<>>, 0, d) = {}
      BY <1>1 DEF After
    <2> QED
      BY <2>1, FS_EmptySet DEF Lag
  <1> QED
    BY <1>1, <1>2

LEMMA MoreLost ==
  /\ \A x, c, s, n \in Nat : x <= c + s => x <= c + (s + n)
  /\ \A x, c, s, a, n \in Nat : x <= c + s + a /\ a <= n => x <= c + (s + n) + 0
  OBVIOUS

\* The process ends, with what was queued; it may be nothing.
LEMMA ProcessGone ==
  ASSUME BudgetInv, Gone, slips' = slips + Len(writes),
         UNCHANGED <<clock, usage, today, made, saved, coverage, boot>>
  PROVE  BudgetInv'
  <1>1. /\ JournalTyped /\ Journaled(writes, made) /\ made \in [Days -> Nat] /\ slips \in Nat
        /\ usage \in [Days -> Spend \cup {NoUsage}] /\ writes \in Seq(Queued)
    BY DEF BudgetInv, Counts, Journaled, JournalTyped
  <1>0. PICK q : q = <<>>
    OBVIOUS
  <1>2. PICK n \in Nat : n = Len(writes) /\ q = <<>> /\ q \in Seq(Queued) /\ Len(q) = 0 /\ \A d : Lag(q, 0, d) = 0
    <2>1. Len(writes) \in Nat
      BY <1>1
    <2> QED
      BY <1>0, <2>1, NothingQueued
  <1>3. calls' = {} /\ writes' = q /\ slips' = slips + n /\ phase' = "down"
    BY <1>2 DEF Gone
  <1>4. JournalTyped'
    BY <1>1, <1>2, <1>3 DEF JournalTyped
  <1>5. \A e : Covered(e)' = Covered(e)
    BY DEF Covered
  <1>6. ASSUME NEW e \in Days PROVE RecordOK(q, made, e)'
    <2>1. PICK a \in Nat : a = Lag(writes, 0, e) /\ a <= n
      BY <1>2, LagNat
    <2>2. RecordOK(writes, made, e)
      BY <1>1 DEF Journaled
    <2>3. CASE saved[e] # NoUsage /\ saved[e].covered
      <3>1. PICK x \in Nat, c \in Nat, s \in Nat : x = made[e] /\ c = saved[e].calls /\ s = slips
        BY <1>1, <2>3 DEF JournalTyped, Saves
      <3>2. x <= c + s + a
        BY <2>1, <2>2, <2>3, <3>1 DEF RecordOK
      <3>3. x <= c + (s + n) + 0
        BY <2>1, <3>1, <3>2, MoreLost, Zenon
      <3> QED
        BY <1>2, <1>3, <2>2, <2>3, <3>1, <3>3 DEF RecordOK
    <2> QED
      BY <2>2, <2>3 DEF RecordOK
  <1>7. Journaled(q, made)'
    BY <1>1, <1>2, <1>3, <1>6 DEF Journaled
  <1>8. ASSUME NEW e \in Days PROVE DayOK({}, usage, made, e)'
    <2>1. DayOK(calls, usage, made, e)
      BY DEF BudgetInv, Counts
    <2>2. CASE usage[e] # NoUsage
      <3>1. PICK x \in Nat, c \in Nat, s \in Nat, k \in Nat :
                x = made[e] /\ c = usage[e].calls /\ s = slips /\ k = usage[e].incomplete
        BY <1>1, <2>2, UsageTyped, SpendFields
      <3>2. (Covered(e) => x <= c + s)
        BY <2>1, <2>2, <3>1 DEF DayOK
      <3>3. (Covered(e) => x <= c + (s + n))
        BY <1>2, <3>1, <3>2, MoreLost, Zenon
      <3>4. Cardinality(OfDay({}, e)) = 0
        <4>1. OfDay({}, e) = {}
          BY DEF OfDay
        <4> QED
          BY <4>1, FS_EmptySet
      <3>5. Cardinality(OfDay({}, e)) <= k
        BY <3>4
      <3> QED
        BY <1>3, <1>5, <2>1, <3>1, <3>3, <3>5 DEF DayOK
    <2> QED
      BY <2>2 DEF DayOK
  <1>9. Counts({}, usage, q, made, today)'
    BY <1>7, <1>8, FS_EmptySet DEF BudgetInv, Counts, CallsOK
  <1> QED
    BY <1>2, <1>3, <1>4, <1>9 DEF BudgetInv, PhaseInv

\* A day that was begun, or found in the journal, with nothing out and nothing queued.
LEMMA DayBegun ==
  ASSUME NEW d PROVE OfDay({}, d) = {} /\ Cardinality(OfDay({}, d)) = 0
  <1>1. OfDay({}, d) = {}
    BY DEF OfDay
  <1> QED
    BY <1>1, FS_EmptySet

LEMMA Booted ==
  ASSUME BudgetInv, Boot
  PROVE  BudgetInv'
  <1>1. /\ JournalTyped /\ Journaled(writes, made) /\ calls = {} /\ writes = <<>>
        /\ today \in Days /\ today <= Day(clock) /\ Day(clock) \in Days /\ Days \subseteq Nat
    BY DaysTyped DEF BudgetInv, PhaseInv, Counts, Boot, JournalTyped
  <1>2. PICK d \in Days : d = Day(clock)
    BY <1>1
  <1>3. /\ UNCHANGED <<clock, calls, writes, made, saved, slips>> /\ phase' = "booting" /\ today' = d
        /\ boot' = [day |-> d, restoreIssue |-> FALSE, persistIssue |-> FALSE, count |-> boot.count + 1]
        /\ coverage' = [e \in Days |-> "unset"]
        /\ usage' = [e \in Days |-> IF e = d THEN NewDay ELSE NoUsage]
    BY <1>2 DEF Boot
  <1>4. JournalTyped' /\ boot'.day = d
    BY <1>1, <1>3 DEF JournalTyped
  <1>5. ASSUME NEW e \in Days PROVE (e > d => made[e] = 0) /\ DayOK(calls, usage, made, e)'
    <2>1. e > d => made[e] = 0
      <3>1. e > d => e > today
        BY <1>1, <1>2
      <3> QED
        BY <3>1 DEF BudgetInv, Counts
    <2>2. CASE e = d
      <3>1. usage'[e] = NewDay /\ ~(e > d)
        BY <1>1, <1>3, <2>2
      <3>2. ~Covered(e)'
        BY <1>3, <1>4, <3>1 DEF Covered
      <3>3. Cardinality(OfDay({}, e)) <= NewDay.incomplete
        BY DayBegun, NewDayTyped
      <3> QED
        BY <1>1, <1>3, <2>1, <3>1, <3>2, <3>3, NewDayTyped DEF DayOK
    <2>3. CASE e # d
      <3>1. usage'[e] = NoUsage
        BY <1>3, <2>3
      <3> QED
        BY <2>1, <3>1 DEF DayOK
    <2> QED
      BY <2>2, <2>3
  <1>6. Journaled(writes, made)'
    <2>1. \A e \in Days : RecordOK(writes, made, e)'
      BY <1>1, <1>3 DEF Journaled, RecordOK
    <2>2. \A i \in 1 .. Len(writes') : FALSE
      BY <1>1, <1>3, NothingQueued
    <2> QED
      BY <1>1, <1>3, <2>1, <2>2 DEF Journaled
  <1>7. usage' \in [Days -> Spend \cup {NoUsage}]
    BY <1>3, NewDayTyped
  <1>8. CallsOK(calls, usage, today)'
    BY <1>1, <1>3, FS_EmptySet DEF CallsOK
  <1>9. d <= d
    BY <1>1
  <1>10. Counts(calls, usage, writes, made, today)'
    BY <1>2, <1>3, <1>5, <1>6, <1>7, <1>8, <1>9 DEF Counts
  <1>11. PhaseInv'
    <2>1. usage'[d] # NoUsage
      BY <1>3, NewDayTyped
    <2> QED
      BY <1>1, <1>3, <1>4, <2>1 DEF PhaseInv
  <1> QED
    BY <1>4, <1>10, <1>11 DEF BudgetInv

LEMMA Restored ==
  ASSUME BudgetInv, NEW readable \in BOOLEAN, Restore(readable)
  PROVE  BudgetInv'
  <1> DEFINE found    == readable /\ saved[boot.day] # NoUsage
             imported == found /\ boot.day = Day(clock)
  <1>1. /\ JournalTyped /\ Counts(calls, usage, writes, made, today) /\ calls = {} /\ writes = <<>>
        /\ boot.day = today /\ today \in Days /\ usage[today] # NoUsage
        /\ usage = [d \in Days |-> IF d = today THEN NewDay ELSE NoUsage]
        /\ coverage = [d \in Days |-> "unset"] /\ usage \in [Days -> Spend \cup {NoUsage}]
        /\ Journaled(writes, made)
    BY NewDayTyped DEF BudgetInv, PhaseInv, Counts, Restore
  <1>2. /\ UNCHANGED <<clock, calls, made, saved, slips>> /\ phase' = "up"
        /\ boot' = [boot EXCEPT !.restoreIssue = ~readable \/ (found /\ ~imported)]
    BY DEF Restore
  <1>3. boot' \in [day : Days, restoreIssue : BOOLEAN, persistIssue : BOOLEAN, count : Nat] /\ boot'.day = boot.day
    BY <1>1, <1>2 DEF JournalTyped
  <1>4. CASE ~found
    <2>1. UNCHANGED <<today, writes, usage, coverage>>
      BY <1>4 DEF Restore
    <2>2. \A e : Covered(e)' = Covered(e)
      BY <1>3, <2>1 DEF Covered
    <2>3. Counts(calls, usage, writes, made, today)'
      BY <1>1, <1>2, <2>1, <2>2 DEF Counts, Journaled, CallsOK, DayOK, RecordOK, WriteOK
    <2> QED
      BY <1>1, <1>2, <1>3, <2>1, <2>3 DEF BudgetInv, JournalTyped, PhaseInv
  <1>5. CASE found /\ ~imported
    <2>1. today' = Day(clock) /\ writes' = RolledWrites /\ usage' = RolledUsage /\ UNCHANGED coverage
      BY <1>5 DEF Restore
    <2>2. \A e : Covered(e)' = Covered(e)
      BY <1>3, <2>1 DEF Covered
    <2>3. PICK u, w : u = RolledUsage /\ w = RolledWrites
      OBVIOUS
    <2>4. Counts(calls, u, w, made, Day(clock)) /\ u[Day(clock)] # NoUsage
      BY <1>1, <2>3, CountRolls
    <2>5. Counts(calls, usage, writes, made, today)' /\ usage'[today'] # NoUsage
      BY <1>2, <2>1, <2>2, <2>3, <2>4 DEF Counts, Journaled, CallsOK, DayOK, RecordOK, WriteOK
    <2> QED
      BY <1>1, <1>2, <1>3, <2>1, <2>5 DEF BudgetInv, JournalTyped, PhaseInv
  <1>6. CASE imported
    <2>1. PICK d \in Days, r \in Saves : d = today /\ r = saved[d] /\ r # NoUsage /\ d = Day(clock) /\ boot.day = d
      BY <1>1, <1>6 DEF JournalTyped
    <2>2. r \in Saves
      OBVIOUS
    <2>3. PICK v \in Spend : v = [calls |-> r.calls, incomplete |-> r.incomplete, spent |-> r.spent]
      BY <2>2 DEF Saves, Spend
    <2>4. v.calls = r.calls /\ v.incomplete = r.incomplete /\ v.spent = r.spent /\ v # NoUsage /\ v.incomplete \in Nat
      BY <2>3, SpendFields
    <2>5. /\ today' = d /\ writes' = writes /\ usage' = [usage EXCEPT ![d] = v]
          /\ coverage' = [coverage EXCEPT ![d] = IF r.covered THEN "complete" ELSE "partial"]
      <3>1. today' = Day(clock) /\ writes' = RolledWrites
        BY <1>6 DEF Restore
      <3>2. writes' = writes
        BY <2>1, <3>1 DEF RolledWrites
      <3>3. /\ usage' = [usage EXCEPT ![boot.day] = [calls |-> saved[boot.day].calls, incomplete |-> saved[boot.day].incomplete,
                                                    spent |-> saved[boot.day].spent]]
            /\ coverage' = [coverage EXCEPT ![boot.day] = IF saved[boot.day].covered THEN "complete" ELSE "partial"]
        BY <1>6 DEF Restore
      <3> QED
        BY <2>1, <2>3, <3>1, <3>2, <3>3
    <2>6. /\ usage' \in [Days -> Spend \cup {NoUsage}] /\ usage'[d] = v
          /\ \A e \in Days : e # d => usage'[e] = NoUsage
      BY <1>1, <2>1, <2>5
    <2>7. /\ coverage' \in [Days -> {"unset", "complete", "partial"}]
          /\ coverage'[d] = IF r.covered THEN "complete" ELSE "partial"
      BY <1>1, <2>5
    <2>8. Covered(d)' => r.covered
      BY <2>7 DEF Covered
    <2>9. DayOK(calls, usage, made, d)'
      <3>1. RecordOK(writes, made, d) /\ slips \in Nat
        BY <1>1 DEF Journaled, JournalTyped
      <3>2. Balanced(r) /\ (r.covered => made[d] <= r.calls + slips + 0)
        BY <1>1, <2>1, <3>1, NothingQueued DEF RecordOK
      <3>3. Balanced(v)
        BY <2>4, <3>2 DEF Balanced
      <3>4. r.calls \in Nat
        BY <2>2 DEF Saves
      <3>5. r.covered => made[d] <= v.calls + slips
        <4>1. r.calls + slips + 0 = v.calls + slips
          BY <2>4, <3>1, <3>4
        <4> QED
          BY <3>2, <4>1
      <3>6. Cardinality(OfDay({}, d)) <= v.incomplete
        BY <2>4, DayBegun
      <3> QED
        BY <1>1, <1>2, <2>6, <2>8, <3>3, <3>5, <3>6 DEF DayOK
    <2>10. ASSUME NEW e \in Days PROVE (e > d => made[e] = 0) /\ DayOK(calls, usage, made, e)'
      <3>1. e > d => made[e] = 0
        BY <1>1, <2>1 DEF Counts
      <3>2. e # d => DayOK(calls, usage, made, e)'
        BY <2>6 DEF DayOK
      <3> QED
        BY <2>9, <3>1, <3>2
    <2>11. Journaled(writes, made)'
      <3>1. \A e \in Days : RecordOK(writes, made, e)'
        BY <1>1, <1>2, <2>5 DEF Journaled, RecordOK
      <3>2. \A i \in 1 .. Len(writes') : FALSE
        BY <1>1, <2>5, NothingQueued
      <3> QED
        BY <1>1, <1>2, <2>5, <3>1, <3>2 DEF Journaled
    <2>12. CallsOK(calls, usage, today)'
      BY <1>1, <1>2, FS_EmptySet DEF CallsOK
    <2>13. Counts(calls, usage, writes, made, today)'
      <3>1. d <= Day(clock)
        BY <1>1, <2>1 DEF Counts
      <3> QED
        BY <1>2, <2>5, <2>6, <2>10, <2>11, <2>12, <3>1 DEF Counts
    <2> QED
      BY <1>1, <1>2, <1>3, <2>4, <2>5, <2>6, <2>7, <2>13 DEF BudgetInv, JournalTyped, PhaseInv
  <1> QED
    BY <1>4, <1>5, <1>6

LEMMA ClockTicks ==
  ASSUME BudgetInv, Tick
  PROVE  BudgetInv'
  <1>1. JournalTyped /\ Counts(calls, usage, writes, made, today) /\ today \in Days /\ today <= Day(clock)
    BY DEF BudgetInv, Counts
  <1>2. clock' = clock + 1 /\ clock' \in 0 .. MaxClock /\ clock \in Nat /\ clock' \in Nat /\ clock <= clock'
        /\ DayLength \in Nat \ {0}
    BY <1>1, AiDeskAssumption DEF Tick, JournalTyped
  <1>3. today <= Day(clock')
    <2>1. PICK a \in Nat, b \in Nat : a = Day(clock) /\ b = Day(clock') /\ a <= b
      BY <1>2, DivMonotone DEF Day
    <2>2. today \in Nat
      BY <1>1, <1>2, DaysTyped
    <2> QED
      BY <1>1, <2>1, <2>2
  <1>4. UNCHANGED <<phase, calls, usage, today, writes, made, saved, coverage, boot, slips>>
    BY DEF Tick, budget, journal
  <1>5. JournalTyped' /\ PhaseInv'
    BY <1>1, <1>2, <1>4 DEF BudgetInv, JournalTyped, PhaseInv
  <1>6. Journaled(writes, made)' /\ \A d \in Days : DayOK(calls, usage, made, d)'
    BY <1>1, <1>4 DEF Counts, Journaled, DayOK, RecordOK, WriteOK, Covered
  <1>7. today' <= Day(clock)'
    BY <1>3, <1>4 DEF Day
  <1>8. Counts(calls, usage, writes, made, today)'
    BY <1>1, <1>4, <1>6, <1>7 DEF Counts, CallsOK
  <1> QED
    BY <1>5, <1>8 DEF BudgetInv

LEMMA ProcessStops ==
  ASSUME BudgetInv, Stop
  PROVE  BudgetInv'
  <1>1. UNCHANGED <<clock, calls, usage, today, writes, made, saved, coverage, boot, slips>>
        /\ phase = "up" /\ phase' = "stopping"
    BY DEF Stop, budget
  <1> QED
    BY <1>1 DEF BudgetInv, JournalTyped, PhaseInv, Counts, Journaled, CallsOK, DayOK, RecordOK, WriteOK, Covered

-----------------------------------------------------------------------------
LEMMA BudgetInits == AiInit => BudgetInv
  <1> SUFFICES ASSUME AiInit PROVE BudgetInv
    OBVIOUS
  <1>0. MaxClock \div DayLength \in Nat
    <2>1. MaxClock \in Nat /\ DayLength \in Nat \ {0}
      BY AiDeskAssumption
    <2> QED
      BY <2>1, DivMonotone
  <1>1. 0 \in 0 .. MaxClock /\ 0 \in Days /\ Day(0) \in Days /\ Day(0) \in Nat
    <2>1. 0 \in 0 .. MaxClock
      BY AiDeskAssumption
    <2>2. Day(0) \in Days /\ Day(0) \in Nat
      BY <2>1, DaysTyped
    <2> QED
      BY <2>1, <2>2, <1>0 DEF Days
  <1>2. JournalTyped
    BY <1>1 DEF AiInit, JournalTyped
  <1>3. PhaseInv
    BY DEF AiInit, PhaseInv
  <1>4. Journaled(writes, made)
    BY NothingQueued DEF AiInit, Journaled, RecordOK
  <1>5. Counts(calls, usage, writes, made, today)
    BY <1>1, <1>4, FS_EmptySet DEF AiInit, Counts, CallsOK, DayOK
  <1> QED
    BY <1>2, <1>3, <1>5 DEF BudgetInv

LEMMA BudgetOfChat ==
  ASSUME BudgetInv, Alive, NEW c, NEW timeout, NEW stage, OpenChat(c, timeout, stage),
         UNCHANGED <<clock, phase, journal>>
  PROVE  BudgetInv'
  <1>1. RollDay /\ UNCHANGED <<saved, coverage, boot, slips>>
    BY DEF OpenChat, journal
  <1> QED
    BY <1>1, DayRolls

LEMMA BudgetStep == BudgetInv /\ [AiNext]_aiVars => BudgetInv'
  <1> SUFFICES ASSUME BudgetInv, [AiNext]_aiVars PROVE BudgetInv'
    OBVIOUS
  <1>1. CASE UNCHANGED aiVars
    BY <1>1, NothingCounted DEF aiVars, journal
  <1>2. CASE Conversations
    <2> PICK c \in Clients : \/ Ask(c) \/ ChatTimesOut(c)
                             \/ \E transient \in BOOLEAN : RequestFails(c, transient)
                             \/ \E word \in {"APPROVE", "REJECT"}, tools \in BOOLEAN, counted \in BOOLEAN :
                                   Answered(c, word, tools, counted)
      BY <1>2 DEF Conversations
    <2>1. CASE Ask(c)
      <3>1. Alive /\ UNCHANGED <<clock, phase, saved, coverage, boot, slips>>
        BY <2>1 DEF Ask, journal
      <3>2. RollDay \/ BeginRequest(MadeSoFar)
        BY <2>1 DEF Ask
      <3> QED
        BY <3>1, <3>2, DayRolls, RequestBegins
    <2>2. CASE ChatTimesOut(c)
      BY <2>2, NothingCounted DEF ChatTimesOut, journal
    <2>3. ASSUME NEW transient \in BOOLEAN, RequestFails(c, transient) PROVE BudgetInv'
      BY <2>3, NothingCounted DEF RequestFails, journal
    <2>4. ASSUME NEW word, NEW tools, NEW counted \in BOOLEAN, Answered(c, word, tools, counted) PROVE BudgetInv'
      <3>1. Alive /\ UNCHANGED <<clock, phase, saved, coverage, boot, slips>>
            /\ \E call \in calls : Acknowledge(call, counted)
        BY <2>4 DEF Answered, OfChat, journal
      <3> QED
        BY <3>1, UsageAcknowledged
    <2> QED
      BY <2>1, <2>2, <2>3, <2>4
  <1>3. CASE Research
    <2>1. CASE Start \/ TimerAborts \/ JevReviewed \/ (\E b \in BOOLEAN : Operation(b))
               \/ \E reply \in RawReplies : Proposed(reply)
      BY <2>1, NothingCounted DEF Start, TimerAborts, JevReviewed, Operation, Proposed, journal
    <2>2. CASE JevReview
      BY <2>2, BudgetOfChat DEF JevReview
    <2>3. ASSUME NEW b \in BOOLEAN, ClosedTrades(b) PROVE BudgetInv'
      <3>1. Alive /\ UNCHANGED <<clock, phase, journal>>
            /\ (UNCHANGED budget \/ OpenChat("trader", AiTimeout, "refused"))
        BY <2>3 DEF ClosedTrades
      <3> QED
        BY <3>1, NothingCounted, BudgetOfChat DEF journal
    <2> QED
      BY <1>3, <2>1, <2>2, <2>3 DEF Research
  <1>4. CASE Application
    <2>1. CASE TakeReady \/ Reviewed \/ \E b \in BOOLEAN : BeginAction(b) \/ Observed(b) \/ Commit(b)
      BY <2>1, NothingCounted DEF TakeReady, Reviewed, BeginAction, Observed, Commit, journal
    <2>2. CASE Review
      <3>1. Alive /\ UNCHANGED <<clock, phase, saved, coverage, boot, slips>> /\ (RollDay \/ UNCHANGED budget)
        BY <2>2 DEF Review, journal
      <3> QED
        BY <3>1, NothingCounted, DayRolls
    <2> QED
      BY <1>4, <2>1, <2>2 DEF Application
  <1>5. CASE Process
    <2>1. CASE Boot
      BY <2>1, Booted
    <2>2. ASSUME NEW readable \in BOOLEAN, Restore(readable) PROVE BudgetInv'
      BY <2>2, Restored
    <2>3. CASE Stop
      BY <2>3, ProcessStops
    <2>4. CASE Exited
      <3>1. Gone /\ writes = <<>> /\ UNCHANGED <<clock, usage, today, made, saved, coverage, boot, slips>>
        BY <2>4 DEF Exited, journal
      <3>2. slips' = slips + Len(writes)
        BY <3>1, NothingQueued DEF BudgetInv, JournalTyped
      <3> QED
        BY <3>1, <3>2, ProcessGone
    <2>5. CASE Crash
      BY <2>5, ProcessGone DEF Crash
    <2> QED
      BY <1>5, <2>1, <2>2, <2>3, <2>4, <2>5 DEF Process
  <1>6. CASE \E call \in calls : LateAnswer(call)
    <2>1. PICK call \in calls : LateAnswer(call)
      BY <1>6
    <2>2. Alive /\ Acknowledge(call, TRUE) /\ UNCHANGED <<clock, phase, saved, coverage, boot, slips>>
      BY <2>1 DEF LateAnswer, journal
    <2> QED
      BY <2>2, UsageAcknowledged
  <1>7. CASE ReviewOfEnsemble \/ BudgetViewed
    <2>1. Alive /\ RollDay /\ UNCHANGED <<clock, phase, saved, coverage, boot, slips>>
      BY <1>7 DEF ReviewOfEnsemble, BudgetViewed, Alive, journal
    <2> QED
      BY <2>1, DayRolls
  <1>8. CASE WriteDone
    BY <1>8, RecordWritten
  <1>9. CASE WriteFails
    BY <1>9, RecordLost
  <1>10. CASE VerdictAges \/ KillSwitch
    BY <1>10, NothingCounted DEF VerdictAges, KillSwitch, journal
  <1>11. CASE Tick
    BY <1>11, ClockTicks
  <1> QED
    BY <1>1, <1>2, <1>3, <1>4, <1>5, <1>6, <1>7, <1>8, <1>9, <1>10, <1>11 DEF AiNext

LEMMA BudgetSound == BudgetInv => CallsAccounted
  BY DEF BudgetInv, PhaseInv, Counts, DayOK, Balanced, OfDay, CallsAccounted

(***************************************************************************)
(* Every HTTP attempt is in the record of the day it began on, however     *)
(* answers come late, requests fail, midnight passes, writes of the        *)
(* journal queue up or fail and the process crashes, stops and starts: a   *)
(* day that claims to be covered lacks no more attempts than the writes    *)
(* that were lost, and what may still be answered is held as incomplete.   *)
(***************************************************************************)
THEOREM AttemptsAccounted == AiSpec => []CallsAccounted
  <1>1. AiSpec => []BudgetInv
    BY BudgetInits, BudgetStep, PTL DEF AiSpec
  <1> QED
    BY <1>1, BudgetSound, PTL
=============================================================================
