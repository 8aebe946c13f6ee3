-------------------------------- MODULE AiDesk --------------------------------
(***************************************************************************)
(* The AI's side of the desk: one proposal researched at a time while the  *)
(* decision cycle goes on (AiProposalRunner), the conversations it is made *)
(* of (the classifier, the trader, the veto), the day's budget every one   *)
(* of their HTTP attempts is counted in, and the cycle that applies a      *)
(* proposal, action by action, while the clock, the kill switch, a crash   *)
(* or a shutdown run against it.                                           *)
(*                                                                         *)
(* Time is a small clock; a day is DayLength of it.  It does not go back.  *)
(* Abstracted: what is said, prices of tokens (an answered request costs   *)
(* one unit), backoff delays, one token, whose verdict the veto caches.    *)
(***************************************************************************)
EXTENDS Integers, FiniteSets, SequencesExt

CONSTANTS AiCycle,      \* config.ai.cycleSec: also how old a proposal may get
          AiTimeout,    \* config.ai.timeoutMs
          JevTimeout,   \* config.ai.jevTimeoutMs
          VetoReview,   \* AI_VETO_REVIEW_MS
          ToolRounds,   \* MAX_TOOL_ROUNDS
          CostCap,      \* config.ai.maxCostPerDayUsd
          MaxActions,   \* config.ai.maxActionsPerCycle
          RawReplies,   \* sequences of the actions a model may reply with, well-formed or not
          DayLength,
          MaxClock,     \* bound: the clock
          MaxMade,      \* bound: HTTP attempts
          MaxQueue,     \* bound: writes of the budget queued when a request begins
          MaxFaults,    \* bound: crashes, shutdowns, failed reads and failed writes of the journal
          MaxBoots      \* bound: starts of the process

ASSUME AiDeskAssumption ==
    /\ {AiCycle, AiTimeout, JevTimeout, VetoReview, DayLength} \subseteq Nat \ {0}
    /\ {ToolRounds, CostCap, MaxActions, MaxClock, MaxMade, MaxQueue, MaxFaults, MaxBoots} \subseteq Nat

VARIABLES
    clock,
    autonomy,   \* config.ai.autonomy: "auto", the AI trades; "veto", it only reviews
    phase,      \* of the process: "down", "booting", "up", "stopping"
    killed,     \* emergency.isKillSwitchActive()
    flight,     \* the proposal being researched, or NoFlight: [since, expires, deadline, stage, aborted]
    ready,      \* the proposal to take, or NoProposal: [since, expires, actions]
    applying,   \* the proposal being applied, or NoProposal, with the step of its first action
    nextAi,     \* nextAiAt
    chats,      \* for each client its conversation, or NoChat: [deadline, round, attempt, call, verdict]
    cached,     \* the veto's cached verdict: "none" when there is none or it is too old
    calls,      \* HTTP attempts no usage was acknowledged for: [id, day]
    usage,      \* for each day its DaySpend in memory, or NoUsage: [calls, incomplete, spent]
    today,      \* current.day of the budget
    writes,     \* queued writes of the budget, in order: [day, usage]
    saved,      \* ai:budget:<day> in the journal, or NoUsage: [calls, incomplete, spent, covered]
    coverage,   \* budgetCoverage: for each day what was restored, or "unset"
    boot,       \* [day |-> budgetBootDay, restoreIssue, persistIssue, count]
    made,       \* history: HTTP attempts made on each day
    slips,      \* history: writes of the budget that a crash or the journal lost
    faults,
    acted       \* history: the last action the AI took, or NoProposal: [since, expires, at, allowed]

runner  == <<flight, ready, nextAi>>
budget  == <<calls, usage, today, writes, made>>
journal == <<saved, coverage, boot, slips, faults>>
aiVars  == <<clock, autonomy, phase, killed, runner, applying, chats, cached, budget, journal, acted>>

NoFlight   == [since |-> -1]
NoProposal == [since |-> -1]
NoChat     == [deadline |-> -1]
NoUsage    == [calls |-> -1]
Clients    == {"jev", "trader", "veto"}
Days       == 0 .. MaxClock \div DayLength
Day(t)     == t \div DayLength
Earlier(s, t) == IF s < t THEN s ELSE t

Alive == phase \in {"up", "stopping"}

(***************************************************************************)
(* AiBudget.  A request is counted before it is made, as incomplete, in    *)
(* the day it begins on; its usage, when it arrives, is acknowledged once  *)
(* and in that same day.  Every change queues a write of the whole day.    *)
(***************************************************************************)
NewDay == [calls |-> 0, incomplete |-> 0, spent |-> 0]

Write(day, spend) == [day |-> day, usage |-> spend]

\* rollDay, and the count of one more request when there is one.
RolledUsage == IF today = Day(clock) THEN usage ELSE [usage EXCEPT ![Day(clock)] = NewDay]

RolledWrites ==
    IF today = Day(clock) THEN writes
    ELSE writes \o <<Write(today, usage[today]), Write(Day(clock), NewDay)>>

RollDay == /\ today' = Day(clock)
           /\ usage' = RolledUsage /\ writes' = RolledWrites
           /\ UNCHANGED <<calls, made>>

\* A report or a health check looks at the budget.
BudgetViewed ==
    /\ Alive /\ today # Day(clock) /\ RollDay
    /\ UNCHANGED <<clock, autonomy, phase, killed, runner, applying, chats, cached, journal, acted>>

MadeSoFar == FoldFunctionOnSet(LAMBDA x, y : x + y, 0, made, Days)

\* Mutant of BeginRequest: a request is counted when its answer arrives.
BeginUncounted(id) ==
    LET day == Day(clock) IN
    /\ MadeSoFar < MaxMade /\ Len(writes) < MaxQueue
    /\ today' = day
    /\ usage' = RolledUsage
    /\ writes' = Append(RolledWrites, Write(day, usage'[day]))
    /\ calls' = calls \cup {[id |-> id, day |-> day]}
    /\ made' = [made EXCEPT ![day] = @ + 1]

BeginRequest(id) ==
    LET day == Day(clock) IN
    /\ MadeSoFar < MaxMade /\ Len(writes) < MaxQueue
    /\ today' = day
    /\ usage' = [RolledUsage EXCEPT ![day].calls = @ + 1, ![day].incomplete = @ + 1]
    /\ writes' = Append(RolledWrites, Write(day, usage'[day]))
    /\ calls' = calls \cup {[id |-> id, day |-> day]}
    /\ made' = [made EXCEPT ![day] = @ + 1]

\* A usage without token counts stays incomplete, and no other will be accepted.
Acknowledge(call, counted) ==
    /\ usage' = IF counted THEN [usage EXCEPT ![call.day].incomplete = @ - 1, ![call.day].spent = @ + 1]
                ELSE usage
    /\ writes' = Append(writes, Write(call.day, usage'[call.day]))
    /\ calls' = calls \ {call}
    /\ UNCHANGED <<today, made>>

\* overCostCap; the step that asks it rolls the day too.
OverCap == RolledUsage[Day(clock)].spent >= CostCap

(***************************************************************************)
(* A conversation: rounds of requests, the tools in between, one retry of  *)
(* a request that failed for a passing reason, and one deadline for all of *)
(* it, which ends the conversation but not the request that is out.        *)
(***************************************************************************)
NoCall == -1
Opened(deadline)   == [deadline |-> deadline, round |-> 0, attempt |-> 0, call |-> NoCall, verdict |-> "none"]
Talking(c)         == chats[c] # NoChat /\ chats[c].verdict = "none"
Concluded(c, word) == chats' = [chats EXCEPT ![c].verdict = word]
Over(c)            == clock >= chats[c].deadline \/ (c # "veto" /\ flight.aborted)

\* check() and the cap before each round; only the retry skips the cap.
Ask(c) ==
    /\ Alive /\ Talking(c) /\ chats[c].call = NoCall /\ ~Over(c)
    /\ IF chats[c].attempt = 0 /\ OverCap
       THEN Concluded(c, "UNKNOWN") /\ RollDay
       ELSE /\ BeginRequest(MadeSoFar)
            /\ chats' = [chats EXCEPT ![c].call = MadeSoFar]
    /\ UNCHANGED <<clock, autonomy, phase, killed, runner, applying, cached, journal, acted>>

OfChat(c) == {call \in calls : call.id = chats[c].call}

\* The classifier asks once; the other two give up at the second failure.
RequestFails(c, transient) ==
    /\ Alive /\ Talking(c) /\ chats[c].call # NoCall
    /\ IF transient /\ c # "jev" /\ chats[c].attempt = 0
       THEN chats' = [chats EXCEPT ![c].attempt = 1, ![c].call = NoCall]
       ELSE Concluded(c, "UNKNOWN")
    /\ UNCHANGED <<clock, autonomy, phase, killed, runner, applying, cached, budget, journal, acted>>

\* tools asks for another round, which the last one cannot have.
Answered(c, word, tools, counted) ==
    /\ Alive /\ Talking(c) /\ chats[c].call # NoCall
    /\ \E call \in OfChat(c) : Acknowledge(call, counted)
    /\ chats' = IF tools /\ c # "jev" /\ chats[c].round < ToolRounds
                THEN [chats EXCEPT ![c].round = @ + 1, ![c].attempt = 0, ![c].call = NoCall]
                ELSE [chats EXCEPT ![c].verdict = IF Over(c) THEN "UNKNOWN" ELSE word]
    /\ UNCHANGED <<clock, autonomy, phase, killed, runner, applying, cached, journal, acted>>

\* The race is lost to the deadline; the request may still be answered.
ChatTimesOut(c) ==
    /\ Alive /\ Talking(c) /\ Over(c)
    /\ Concluded(c, "UNKNOWN")
    /\ UNCHANGED <<clock, autonomy, phase, killed, runner, applying, cached, budget, journal, acted>>

LateAnswer(call) ==
    /\ Alive
    /\ \A c \in Clients : Talking(c) => chats[c].call # call.id
    /\ Acknowledge(call, TRUE)
    /\ UNCHANGED <<clock, autonomy, phase, killed, runner, applying, chats, cached, journal, acted>>

(***************************************************************************)
(* AiProposalRunner and the research it runs: the classifier first, then   *)
(* the closed trades from the journal, then the trader.                    *)
(***************************************************************************)
\* The end of a tick: no issue with the budget, the last proposal consumed.
Start ==
    /\ autonomy = "auto" /\ phase = "up" /\ applying = NoProposal
    /\ ~boot.restoreIssue /\ ~boot.persistIssue /\ clock >= nextAi
    /\ flight = NoFlight
    /\ ready # NoProposal => clock >= ready.expires
    /\ ready' = NoProposal
    /\ flight' = [since |-> clock, expires |-> clock + AiCycle,
                  deadline |-> clock + Earlier(AiTimeout, AiCycle),
                  stage |-> "queued", aborted |-> FALSE]
    /\ nextAi' = clock + AiCycle
    /\ UNCHANGED <<clock, autonomy, phase, killed, applying, chats, cached, budget, journal, acted>>

\* setTimeout's abort, whenever the event loop gets to it.
TimerAborts ==
    /\ Alive /\ flight # NoFlight /\ ~flight.aborted /\ clock >= flight.deadline
    /\ flight' = [flight EXCEPT !.aborted = TRUE]
    /\ UNCHANGED <<clock, autonomy, phase, killed, ready, nextAi, applying, chats, cached, budget, journal, acted>>

\* withAiDeadline refuses to begin when there is no time left.
OpenChat(c, timeout, stage) ==
    LET deadline == Earlier(clock + timeout, flight.deadline) IN
    /\ RollDay
    /\ IF OverCap \/ deadline <= clock
       THEN /\ flight' = [flight EXCEPT !.stage = stage] /\ UNCHANGED chats
       ELSE /\ chats' = [chats EXCEPT ![c] = Opened(deadline)] /\ UNCHANGED flight

\* A late, aborted or disposed flight offers nothing; a failed one nothing to do.
Settled(actions) ==
    /\ flight' = NoFlight
    /\ ready' = IF phase = "up" /\ ~flight.aborted /\ clock < flight.deadline
                THEN [since |-> flight.since, expires |-> flight.expires, actions |-> actions]
                ELSE ready

\* Without a classifier, or a candidate to ask it of, the research goes on at once.
Operation(classified) ==
    /\ Alive /\ flight # NoFlight /\ flight.stage = "queued"
    /\ IF flight.aborted \/ clock >= flight.deadline \/ phase = "stopping" THEN Settled(<<>>)
       ELSE flight' = [flight EXCEPT !.stage = IF classified THEN "jev" ELSE "history"] /\ UNCHANGED ready
    /\ UNCHANGED <<clock, autonomy, phase, killed, nextAi, applying, chats, cached, budget, journal, acted>>

\* A dead classifier lets every candidate pass.
JevReview ==
    /\ Alive /\ flight # NoFlight /\ flight.stage = "jev" /\ chats["jev"] = NoChat
    /\ OpenChat("jev", JevTimeout, "history")
    /\ UNCHANGED <<clock, autonomy, phase, killed, ready, nextAi, applying, cached, journal, acted>>

JevReviewed ==
    /\ Alive /\ flight # NoFlight /\ chats["jev"] # NoChat /\ ~Talking("jev")
    /\ chats' = [chats EXCEPT !["jev"] = NoChat]
    /\ IF flight.aborted THEN Settled(<<>>) ELSE flight' = [flight EXCEPT !.stage = "history"] /\ UNCHANGED ready
    /\ UNCHANGED <<clock, autonomy, phase, killed, nextAi, applying, cached, budget, journal, acted>>

\* The journal answers, or fails, in its own time.
ClosedTrades(answered) ==
    /\ Alive /\ flight # NoFlight /\ flight.stage = "history" /\ chats["trader"] = NoChat
    /\ IF flight.aborted \/ ~answered THEN Settled(<<>>) /\ UNCHANGED <<chats, budget>>
       ELSE OpenChat("trader", AiTimeout, "refused") /\ UNCHANGED ready
    /\ UNCHANGED <<clock, autonomy, phase, killed, nextAi, applying, cached, journal, acted>>

(***************************************************************************)
(* parse and parseAction: what is not an action is dropped, the rest is    *)
(* clamped, and no more than MaxActions are taken.                         *)
(***************************************************************************)
Clamped(x, lo, hi) == IF x < lo THEN lo ELSE IF x > hi THEN hi ELSE x

WellFormed(raw) == raw.type \in {"ENTER", "EXIT", "TIGHTEN"} /\ raw.token /\ raw.chain

ParsedAction(raw) ==
    [type      |-> raw.type,
     rationale |-> raw.rationale,
     stop      |-> IF raw.type = "EXIT" THEN 0 ELSE Clamped(raw.stop, 1, 50)]

ParsedReply(reply) ==
    LET valid   == SelectSeq(reply, WellFormed)
        actions == [i \in DOMAIN valid |-> ParsedAction(valid[i])]
    IN  SubSeq(actions, 1, Earlier(MaxActions, Len(actions)))

Proposed(reply) ==
    /\ Alive /\ flight # NoFlight
    /\ \/ flight.stage = "refused"
       \/ chats["trader"] # NoChat /\ ~Talking("trader")
    /\ Settled(IF chats["trader"] # NoChat /\ chats["trader"].verdict = "APPROVE" THEN ParsedReply(reply) ELSE <<>>)
    /\ chats' = [chats EXCEPT !["trader"] = NoChat]
    /\ UNCHANGED <<clock, autonomy, phase, killed, nextAi, applying, cached, budget, journal, acted>>

(***************************************************************************)
(* applyReadyAiProposal and runAiAction, inside the decision cycle.        *)
(***************************************************************************)
Halted == phase # "up" \/ killed

TakeReady ==
    /\ Alive /\ applying = NoProposal /\ ready # NoProposal
    /\ ready' = NoProposal
    /\ applying' = IF phase # "up" \/ clock < ready.since \/ clock >= ready.expires \/ killed \/ ready.actions = <<>>
                   THEN NoProposal
                   ELSE [since |-> ready.since, expires |-> ready.expires, actions |-> ready.actions, step |-> "next"]
    /\ UNCHANGED <<clock, autonomy, phase, killed, flight, nextAi, chats, cached, budget, journal, acted>>

Expired == clock >= applying.expires
Step(s) == applying' = [applying EXCEPT !.step = s]
Action  == Head(applying.actions)

NextAction ==
    applying' = IF Len(applying.actions) = 1 THEN NoProposal
                ELSE [applying EXCEPT !.actions = Tail(@), !.step = "next"]

Act == acted' = [since |-> applying.since, expires |-> applying.expires, at |-> clock, allowed |-> ~Halted]

\* The first checks of an action; the rest of them may skip it too.  A TIGHTEN acts at once.
BeginAction(skipped) ==
    /\ Alive /\ applying # NoProposal /\ applying.step = "next"
    /\ IF Expired \/ Halted THEN applying' = NoProposal /\ UNCHANGED acted
       ELSE IF skipped \/ (Action.type = "ENTER" /\ ~Action.rationale) THEN NextAction /\ UNCHANGED acted
       ELSE IF Action.type = "TIGHTEN" THEN Act /\ NextAction
       ELSE Step("observe") /\ UNCHANGED acted
    /\ UNCHANGED <<clock, autonomy, phase, killed, runner, chats, cached, budget, journal>>

\* Fresh data arrived, or did not: an EXIT acts on it, an ENTER goes to the veto.
Observed(fresh) ==
    /\ Alive /\ applying # NoProposal /\ applying.step = "observe"
    /\ IF ~fresh \/ Expired \/ (Action.type = "EXIT" /\ Halted) THEN NextAction /\ UNCHANGED acted
       ELSE IF Action.type = "EXIT" THEN Act /\ NextAction
       ELSE Step("review") /\ UNCHANGED acted
    /\ UNCHANGED <<clock, autonomy, phase, killed, runner, chats, cached, budget, journal>>

(***************************************************************************)
(* AiVetoAgent.veto: a verdict not older than CACHE_TTL_MS is reused, one  *)
(* that is only UNKNOWN too.  Only REJECT stops an entry.                  *)
(***************************************************************************)
VetoDeadline == Earlier(clock + VetoReview, applying.expires)

Review ==
    /\ Alive /\ applying # NoProposal /\ applying.step = "review" /\ chats["veto"] = NoChat
    /\ IF ~Expired /\ cached = "none"
       THEN /\ RollDay
            /\ IF OverCap THEN cached' = "UNKNOWN" /\ Step("commit") /\ UNCHANGED chats
               ELSE /\ chats' = [chats EXCEPT !["veto"] = Opened(Earlier(clock + AiTimeout, VetoDeadline))]
                    /\ UNCHANGED <<applying, cached>>
       ELSE /\ IF ~Expired /\ cached = "REJECT" THEN NextAction ELSE Step("commit")
            /\ UNCHANGED <<chats, cached, budget>>
    /\ UNCHANGED <<clock, autonomy, phase, killed, runner, journal, acted>>

\* In the veto mode the reviews are those of the ensemble's own entries.
ReviewOfEnsemble ==
    /\ autonomy = "veto" /\ phase = "up" /\ chats["veto"] = NoChat /\ cached = "none"
    /\ RollDay
    /\ IF OverCap THEN cached' = "UNKNOWN" /\ UNCHANGED chats
       ELSE chats' = [chats EXCEPT !["veto"] = Opened(clock + AiTimeout)] /\ UNCHANGED cached
    /\ UNCHANGED <<clock, autonomy, phase, killed, runner, applying, journal, acted>>

Reviewed ==
    /\ Alive /\ chats["veto"] # NoChat /\ ~Talking("veto")
    /\ cached' = chats["veto"].verdict
    /\ chats' = [chats EXCEPT !["veto"] = NoChat]
    /\ IF applying = NoProposal THEN UNCHANGED applying
       ELSE IF chats["veto"].verdict = "REJECT" THEN NextAction
       ELSE Step("commit")
    /\ UNCHANGED <<clock, autonomy, phase, killed, runner, budget, journal, acted>>

\* Bound: what ages in a process that is stopping is of no interest.
VerdictAges ==
    /\ cached # "none" /\ phase = "up" /\ cached' = "none"
    /\ UNCHANGED <<clock, autonomy, phase, killed, runner, applying, chats, budget, journal, acted>>

\* Mutant of Commit: the clock is not asked again after the journal was written.
CommitUnasked(refused) ==
    /\ Alive /\ applying # NoProposal /\ applying.step \in {"commit", "journaled"}
    /\ IF refused \/ Halted THEN NextAction /\ UNCHANGED acted
       ELSE IF applying.step = "commit"
            THEN (IF Expired THEN NextAction ELSE Step("journaled")) /\ UNCHANGED acted
            ELSE Act /\ NextAction
    /\ UNCHANGED <<clock, autonomy, phase, killed, runner, chats, cached, budget, journal>>

\* executeEntry: the intent and the risk decision are journaled before the order, and the clock asked on both sides.
Commit(refused) ==
    /\ Alive /\ applying # NoProposal /\ applying.step \in {"commit", "journaled"}
    /\ IF refused \/ Expired THEN NextAction /\ UNCHANGED acted
       ELSE IF applying.step = "commit" THEN Step("journaled") /\ UNCHANGED acted
       ELSE (IF Halted THEN UNCHANGED acted ELSE Act) /\ NextAction
    /\ UNCHANGED <<clock, autonomy, phase, killed, runner, chats, cached, budget, journal>>

(***************************************************************************)
(* The journal of the budget, the process and its environment.             *)
(***************************************************************************)
\* What the record of a day says of itself: no call of the whole day is missing.
Covered(day) == IF coverage[day] # "unset" THEN coverage[day] = "complete" ELSE day > boot.day

WriteDone ==
    /\ Alive /\ writes # <<>>
    /\ LET w == Head(writes) IN
       saved' = [saved EXCEPT ![w.day] = [calls |-> w.usage.calls, incomplete |-> w.usage.incomplete,
                                          spent |-> w.usage.spent, covered |-> Covered(w.day)]]
    /\ writes' = Tail(writes)
    /\ boot' = [boot EXCEPT !.persistIssue = FALSE]
    /\ UNCHANGED <<clock, autonomy, phase, killed, runner, applying, chats, cached, calls, usage, today, made, coverage, slips, faults, acted>>

WriteFails ==
    /\ Alive /\ writes # <<>> /\ faults < MaxFaults
    /\ writes' = Tail(writes)
    /\ boot' = [boot EXCEPT !.persistIssue = TRUE]
    /\ faults' = faults + 1 /\ slips' = slips + 1
    /\ UNCHANGED <<clock, autonomy, phase, killed, runner, applying, chats, cached, calls, usage, today, made, saved, coverage, acted>>

Gone ==
    /\ phase' = "down"
    /\ flight' = NoFlight /\ ready' = NoProposal /\ applying' = NoProposal
    /\ chats' = [c \in Clients |-> NoChat] /\ cached' = "none"
    /\ calls' = {} /\ writes' = <<>>

Crash ==
    /\ phase # "down" /\ faults < MaxFaults
    /\ Gone
    /\ faults' = faults + 1 /\ slips' = slips + Len(writes)
    /\ UNCHANGED <<clock, autonomy, killed, nextAi, usage, today, made, saved, coverage, boot, acted>>

\* shutdown: the runner is disposed of; the cycle and the writes are waited for.
Stop ==
    /\ phase = "up" /\ faults < MaxFaults /\ phase' = "stopping"
    /\ ready' = NoProposal
    /\ flight' = IF flight = NoFlight THEN flight ELSE [flight EXCEPT !.aborted = TRUE]
    /\ faults' = faults + 1
    /\ UNCHANGED <<clock, autonomy, killed, nextAi, applying, chats, cached, budget, saved, coverage, boot, slips, acted>>

Exited ==
    /\ phase = "stopping" /\ applying = NoProposal /\ chats["veto"] = NoChat /\ writes = <<>>
    /\ Gone
    /\ UNCHANGED <<clock, autonomy, killed, nextAi, usage, today, made, journal, acted>>

\* The day is read off the clock before the journal is asked for its record.
Boot ==
    /\ phase = "down" /\ boot.count < MaxBoots
    /\ phase' = "booting"
    /\ boot' = [day |-> Day(clock), restoreIssue |-> FALSE, persistIssue |-> FALSE, count |-> boot.count + 1]
    /\ coverage' = [d \in Days |-> "unset"]
    /\ usage' = [d \in Days |-> IF d = Day(clock) THEN NewDay ELSE NoUsage]
    /\ today' = Day(clock)
    /\ UNCHANGED <<clock, autonomy, killed, runner, applying, chats, cached, calls, writes, made, saved, slips, faults, acted>>

\* importState: of the same day only, and rollDay may just have left it.
Restore(readable) ==
    /\ phase = "booting" /\ phase' = "up"
    /\ readable \/ faults < MaxFaults
    /\ LET found    == readable /\ saved[boot.day] # NoUsage
           record   == saved[boot.day]
           imported == found /\ boot.day = Day(clock)
       IN  /\ IF found THEN today' = Day(clock) /\ writes' = RolledWrites ELSE UNCHANGED <<today, writes>>
           /\ usage' = IF imported
                       THEN [usage EXCEPT ![boot.day] = [calls |-> record.calls, incomplete |-> record.incomplete,
                                                         spent |-> record.spent]]
                       ELSE IF found THEN RolledUsage ELSE usage
           /\ coverage' = IF imported
                          THEN [coverage EXCEPT ![boot.day] = IF record.covered THEN "complete" ELSE "partial"]
                          ELSE coverage
           /\ boot' = [boot EXCEPT !.restoreIssue = ~readable \/ (found /\ ~imported)]
    /\ faults' = IF readable THEN faults ELSE faults + 1
    /\ nextAi' = clock + AiCycle
    /\ UNCHANGED <<clock, autonomy, killed, flight, ready, applying, chats, cached, calls, made, saved, slips, acted>>

\* While a proposal is applied; before, it only keeps it from being taken.
KillSwitch ==
    /\ ~killed /\ applying # NoProposal
    /\ killed' = TRUE
    /\ UNCHANGED <<clock, autonomy, phase, runner, applying, chats, cached, budget, journal, acted>>

Tick ==
    /\ clock < MaxClock /\ clock' = clock + 1
    /\ UNCHANGED <<autonomy, phase, killed, runner, applying, chats, cached, budget, journal, acted>>

AiInit ==
    /\ clock = 0 /\ autonomy \in {"auto", "veto"} /\ phase = "down" /\ killed = FALSE
    /\ flight = NoFlight /\ ready = NoProposal /\ nextAi = 0 /\ applying = NoProposal
    /\ chats = [c \in Clients |-> NoChat] /\ cached = "none"
    /\ calls = {} /\ usage = [d \in Days |-> NoUsage] /\ today = 0 /\ writes = <<>>
    /\ saved = [d \in Days |-> NoUsage] /\ coverage = [d \in Days |-> "unset"]
    /\ boot = [day |-> 0, restoreIssue |-> FALSE, persistIssue |-> FALSE, count |-> 0]
    /\ made = [d \in Days |-> 0] /\ slips = 0 /\ faults = 0 /\ acted = NoProposal

\* What a verdict says in the veto mode is the business of the ensemble's own entry.
Conversations ==
    \E c \in Clients :
       \/ Ask(c) \/ ChatTimesOut(c)
       \/ \E transient \in BOOLEAN : RequestFails(c, transient)
       \/ \E word \in {"APPROVE", "REJECT"}, tools \in BOOLEAN, counted \in BOOLEAN :
             (word = "REJECT" => c = "veto" /\ autonomy = "auto") /\ Answered(c, word, tools, counted)

Research ==
    \/ Start \/ TimerAborts \/ JevReview \/ JevReviewed
    \/ \E b \in BOOLEAN : Operation(b) \/ ClosedTrades(b)
    \/ \E reply \in RawReplies : Proposed(reply)

Application ==
    \/ TakeReady \/ Review \/ Reviewed
    \/ \E b \in BOOLEAN : BeginAction(b) \/ Observed(b) \/ Commit(b)

Process == Boot \/ (\E readable \in BOOLEAN : Restore(readable)) \/ Stop \/ Exited \/ Crash

AiNext ==
    \/ Conversations \/ Research \/ Application \/ Process
    \/ \E call \in calls : LateAnswer(call)
    \/ ReviewOfEnsemble \/ VerdictAges \/ BudgetViewed \/ WriteDone \/ WriteFails
    \/ KillSwitch \/ Tick

AiSpec == AiInit /\ [][AiNext]_aiVars

(***************************************************************************)
(* What the AI does rests on a snapshot no older than a cycle, however     *)
(* long the data, the veto or the journal took, and never happens with the *)
(* kill switch on or once the process is stopping; a runner that was       *)
(* disposed of offers nothing, whenever its operation settles.             *)
(***************************************************************************)
NoStaleProposal ==
    /\ acted # NoProposal => acted.allowed /\ acted.since <= acted.at /\ acted.at < acted.expires
    /\ ready # NoProposal => phase = "up"

(***************************************************************************)
(* Every HTTP attempt is in the record of the day it began on, answered,   *)
(* late, failed or still out, across midnight and restarts: the record of  *)
(* a day that claims to cover it lacks no more attempts than the writes a  *)
(* crash or the journal lost, and an attempt that may still be answered is *)
(* held as incomplete.                                                     *)
(***************************************************************************)
CallsAccounted ==
    phase \in {"up", "stopping"} =>
       \A d \in Days : usage[d] # NoUsage =>
          /\ usage[d].calls = usage[d].spent + usage[d].incomplete
          /\ Cardinality({call \in calls : call.day = d}) <= usage[d].incomplete
          /\ Covered(d) => made[d] <= usage[d].calls + slips
=============================================================================
