--------------------------- MODULE EmergencyControl ---------------------------
(***************************************************************************)
(* The kill switch and the stop-entries flag: EmergencyController, its     *)
(* persistence in the system_state table, the three HTTP requests that     *)
(* change it, the automatic stop at the daily loss limit, and what the     *)
(* decision cycle does under each flag.                                    *)
(*                                                                         *)
(* A change of the flags is immediate in memory and is then saved key by   *)
(* key, each key with its own awaited statement, from the values the flags *)
(* had when the save began.  Two saves can be under way at once: HTTP      *)
(* requests are served while a cycle runs.  On SQLite the statements of a  *)
(* process run in the order they were issued; the PostgreSQL pool gives    *)
(* each its own connection and promises no order.                          *)
(*                                                                         *)
(* Abstracted: prices (Signal is any reason for an exit, a sale may or may *)
(* not reach the loss limit), the PAPER accounting (PaperLedger), the keys *)
(* no request changes and close_all_positions, which nothing reads: of its *)
(* save in a resume only the keys above are kept.                          *)
(***************************************************************************)
EXTENDS Integers, Sequences

CONSTANTS Pos,          \* position slots
          Req,          \* HTTP requests that may be under way at once
          Fifo,         \* TRUE: SQLite's queue; FALSE: PostgreSQL's pool
          MaxCommands,  \* bound: HTTP requests
          MaxFaults,    \* bound: statements that fail
          MaxCrashes    \* bound: crashes

ASSUME FifoAssumption == Fifo \in BOOLEAN
ASSUME RequestAssumption == Req \cap {"cycle", "none", "done", "lost"} = {}
ASSUME EmergencyBounds == MaxCommands \in Nat /\ MaxFaults \in Nat /\ MaxCrashes \in Nat

VARIABLES
    flags,      \* EmergencyController.state
    table,      \* system_state
    saving,     \* per caller: the persist() it awaits
    ahead,      \* per caller: the saves under way that began before its own
    phase,      \* the decision cycle
    todo,       \* open positions this cycle has still to monitor
    pos,        \* each slot: free, held, or held with a reason to exit
    dailyLoss,  \* the day's loss has reached the limit
    up,         \* the process runs
    command,    \* observer: the caller of the kill that stands; none after a resume
    told,       \* observer: that kill was answered with 200
    late,       \* observer: entries filled since then
    latest,     \* observer: the caller of the save begun last, or how that save ended
    commands, faults, crashes

control == <<flags, table, saving, ahead>>
cycle   == <<phase, todo, pos, dailyLoss>>
watch   == <<command, told, late, latest>>
bounds  == <<commands, faults, crashes>>
vars    == <<control, cycle, up, watch, bounds>>

Keys    == <<"kill", "stop">>
Flags   == [kill : BOOLEAN, stop : BOOLEAN]
Callers == Req \cup {"cycle"}
Ops     == {"none", "kill", "resume1", "resume2", "resume3", "stop"}
Saves   == [op : Ops, snap : Flags, key : 1..Len(Keys) + 1]

Clear     == [kill |-> FALSE, stop |-> FALSE]
NotSaving == [op |-> "none", snap |-> Clear, key |-> 1]

IsKillSwitchActive == flags.kill
IsStopNewEntries == flags.kill \/ flags.stop

Init ==
    /\ flags = Clear /\ table = Clear
    /\ saving = [c \in Callers |-> NotSaving] /\ ahead = [c \in Callers |-> {}]
    /\ phase = "idle" /\ todo = {} /\ pos = [p \in Pos |-> "free"]
    /\ dailyLoss = FALSE /\ up = TRUE
    /\ command = "none" /\ told = FALSE /\ late = 0 /\ latest = "done"
    /\ commands = 0 /\ faults = 0 /\ crashes = 0
-----------------------------------------------------------------------------
(* EmergencyController and PgEmergencyPersistence.                         *)

Saving(c) == saving[c].op # "none"

\* The saves ahead of each when c's begins, behind every other that is under way.
Begun(c) == [d \in Callers |-> IF d = c THEN {e \in Callers \ {c} : Saving(e)} ELSE ahead[d] \ {c}]

\* The saves ahead of each when c's has ended.
Ended(c) == [d \in Callers |-> IF d = c THEN {} ELSE ahead[d] \ {c}]

\* Mutant of Change: persist() reads the flags before the change.
ChangeLate(c, op, new) ==
    /\ flags' = new
    /\ ahead' = Begun(c) /\ latest' = c
    /\ saving' = [saving EXCEPT ![c] = [op |-> op, snap |-> flags, key |-> 1]]

\* A caller's change of the flags, up to the first statement of its persist().
Change(c, op, new) ==
    /\ flags' = new
    /\ ahead' = Begun(c) /\ latest' = c
    /\ saving' = [saving EXCEPT ![c] = [op |-> op, snap |-> new, key |-> 1]]

\* Mutant of InOrder: the statements of two saves are not kept in order.
NoOrder(c) == TRUE

\* SQLite's queue: a later save never writes a key before an earlier one has.
InOrder(c) == Fifo => \A d \in ahead[c] : saving[d].key > saving[c].key

\* One INSERT ... ON CONFLICT DO UPDATE.
Written(c) == [table EXCEPT ![Keys[saving[c].key]] = saving[c].snap[Keys[saving[c].key]]]

Writing(c) ==
    /\ up /\ Saving(c) /\ saving[c].key <= Len(Keys)
    /\ InOrder(c)

WriteKey(c) ==
    /\ Writing(c)
    /\ table' = Written(c)
    /\ saving' = [saving EXCEPT ![c].key = @ + 1]
    /\ UNCHANGED <<flags, ahead, cycle, up, watch, bounds>>

\* A statement throws, applied or not: the rest of the save and of the request is
\* skipped, and the flags in memory stay changed.
WriteFails(c) ==
    /\ Writing(c)
    /\ faults < MaxFaults /\ faults' = faults + 1
    /\ table' \in {table, Written(c)}
    /\ saving' = [saving EXCEPT ![c] = NotSaving] /\ ahead' = Ended(c)
    /\ latest' = IF latest = c THEN "lost" ELSE latest
    /\ UNCHANGED <<flags, cycle, up, command, told, late, commands, crashes>>

\* persist() has written every key: the request is answered.
SaveDone(c) ==
    /\ up /\ saving[c].op \in {"kill", "resume3", "stop"} /\ saving[c].key > Len(Keys)
    /\ saving' = [saving EXCEPT ![c] = NotSaving] /\ ahead' = Ended(c)
    /\ latest' = IF latest = c THEN "done" ELSE latest
    /\ told' = (told \/ command = c)
    /\ UNCHANGED <<flags, table, cycle, up, command, late, bounds>>

\* The second and the third call of a resume; the third clears close_all_positions.
ResumeGoesOn(c) ==
    /\ up /\ saving[c].key > Len(Keys)
    /\ \/ saving[c].op = "resume1" /\ Change(c, "resume2", [flags EXCEPT !.stop = FALSE])
       \/ saving[c].op = "resume2" /\ Change(c, "resume3", flags)
    /\ UNCHANGED <<table, cycle, up, command, told, late, bounds>>
-----------------------------------------------------------------------------
(* The HTTP requests.                                                      *)

Request(c) ==
    /\ up /\ ~Saving(c)
    /\ commands < MaxCommands /\ commands' = commands + 1
    /\ UNCHANGED <<table, cycle, up, faults, crashes>>

\* POST /emergency/kill
Kill(c) ==
    /\ Request(c)
    /\ Change(c, "kill", [kill |-> TRUE, stop |-> TRUE])
    /\ command' = c
    /\ UNCHANGED <<told, late>>

\* POST /emergency/resume?confirm=yes
Resume(c) ==
    /\ Request(c)
    /\ Change(c, "resume1", [flags EXCEPT !.kill = FALSE])
    /\ command' = "none" /\ told' = FALSE /\ late' = 0

\* POST /emergency/stop-entries
StopEntries(c) ==
    /\ Request(c)
    /\ Change(c, "stop", [flags EXCEPT !.stop = TRUE])
    /\ command' = IF command = c THEN "none" ELSE command
    /\ UNCHANGED <<told, late>>
-----------------------------------------------------------------------------
(* The decision cycle.                                                     *)

Held == {p \in Pos : pos[p] # "free"}
CycleRuns == up /\ ~Saving("cycle")

\* Mutant of StartCycle: the head of the cycle asks for the other flag.
StartCycleUnlessStopped ==
    /\ CycleRuns /\ phase = "idle" /\ ~IsStopNewEntries
    /\ phase' = "monitor" /\ todo' = Held
    /\ UNCHANGED <<control, pos, dailyLoss, up, watch, bounds>>

\* decisionCycleAllInner returns at once under the kill switch.
StartCycle ==
    /\ CycleRuns /\ phase = "idle" /\ ~IsKillSwitchActive
    /\ phase' = "monitor" /\ todo' = Held
    /\ UNCHANGED <<control, pos, dailyLoss, up, watch, bounds>>

Hold ==
    /\ CycleRuns /\ phase = "monitor"
    /\ \E p \in todo : pos[p] = "held" /\ todo' = todo \ {p}
    /\ UNCHANGED <<control, phase, pos, dailyLoss, up, watch, bounds>>

\* A sale; if it takes the day's loss to its limit, entries are stopped.
Exit ==
    /\ CycleRuns /\ phase = "monitor"
    /\ \E p \in todo : pos[p] = "signal" /\ todo' = todo \ {p} /\ pos' = [pos EXCEPT ![p] = "free"]
    /\ \E loss \in BOOLEAN : dailyLoss' = (dailyLoss \/ loss)
    /\ IF dailyLoss' /\ ~IsStopNewEntries
       THEN Change("cycle", "stop", [flags EXCEPT !.stop = TRUE])
       ELSE UNCHANGED <<flags, saving, ahead, latest>>
    /\ UNCHANGED <<table, phase, up, command, told, late, bounds>>

\* decisionCycle's gate between monitoring and entries.
MonitorDone ==
    /\ CycleRuns /\ phase = "monitor" /\ todo = {}
    /\ phase' = IF IsStopNewEntries THEN "idle" ELSE "entry"
    /\ UNCHANGED <<control, todo, pos, dailyLoss, up, watch, bounds>>

\* Mutant of EntryAllowed: only the gate at the head of the entry loop remains.
EntryAllowedOnce == TRUE

\* RiskEngine.evaluate and the last check of executeEntry, before the order.
EntryAllowed == ~IsStopNewEntries /\ ~dailyLoss

\* Mutant of BeginEntry: the position limit is not asked about.
BeginEntryUnlimited ==
    /\ CycleRuns /\ phase = "entry" /\ EntryAllowed
    /\ phase' = "order"
    /\ UNCHANGED <<control, todo, pos, dailyLoss, up, watch, bounds>>

BeginEntry ==
    /\ CycleRuns /\ phase = "entry" /\ EntryAllowed
    /\ Held # Pos
    /\ phase' = "order"
    /\ UNCHANGED <<control, todo, pos, dailyLoss, up, watch, bounds>>

\* The router answers; nothing asks again about the flags.
EntryFilled ==
    /\ CycleRuns /\ phase = "order"
    /\ \E p \in Pos \ Held : pos' = [pos EXCEPT ![p] = "held"]
    /\ phase' = "entry"
    /\ late' = IF told THEN late + 1 ELSE late
    /\ UNCHANGED <<control, todo, dailyLoss, up, command, told, latest, bounds>>

CycleDone ==
    /\ CycleRuns /\ phase = "entry"
    /\ phase' = "idle"
    /\ UNCHANGED <<control, todo, pos, dailyLoss, up, watch, bounds>>

\* The market gives a held position a reason to exit.
Signal ==
    /\ \E p \in Pos : pos[p] = "held" /\ pos' = [pos EXCEPT ![p] = "signal"]
    /\ UNCHANGED <<control, phase, todo, dailyLoss, up, watch, bounds>>

\* The book sums the fills of the current UTC day: at midnight it starts from zero.
NewDay ==
    /\ dailyLoss /\ dailyLoss' = FALSE
    /\ UNCHANGED <<control, phase, todo, pos, up, watch, bounds>>
-----------------------------------------------------------------------------
Crash ==
    /\ up /\ crashes < MaxCrashes /\ crashes' = crashes + 1
    /\ up' = FALSE /\ phase' = "idle" /\ todo' = {}
    /\ flags' = Clear /\ saving' = [c \in Callers |-> NotSaving] /\ ahead' = [c \in Callers |-> {}]
    /\ command' = "none" /\ latest' = "lost"
    /\ UNCHANGED <<table, pos, dailyLoss, told, late, commands, faults>>

\* emergency.initialize(): the stored keys replace the defaults.
Restart ==
    /\ ~up /\ up' = TRUE
    /\ flags' = table
    /\ UNCHANGED <<table, saving, ahead, cycle, watch, bounds>>

Http == \E c \in Req : Kill(c) \/ Resume(c) \/ StopEntries(c)
Save(c) == WriteKey(c) \/ SaveDone(c) \/ ResumeGoesOn(c)
CycleStep == StartCycle \/ Hold \/ Exit \/ MonitorDone \/ BeginEntry \/ EntryFilled \/ CycleDone

Next == \/ Http
        \/ \E c \in Callers : Save(c) \/ WriteFails(c)
        \/ CycleStep \/ Signal \/ NewDay \/ Crash \/ Restart

Spec == Init /\ [][Next]_vars

\* The timer starts a cycle every CYCLE_INTERVAL_MS and a cycle runs on to its end; the
\* database answers; the daemon restarts the process.
FairSpec ==
    /\ Spec
    /\ WF_vars(StartCycle) /\ WF_vars(Hold) /\ WF_vars(Exit) /\ WF_vars(MonitorDone)
    /\ WF_vars(EntryFilled) /\ WF_vars(CycleDone) /\ WF_vars(Restart)
    /\ \A c \in Callers : WF_vars(Save(c))
-----------------------------------------------------------------------------
(* Properties.                                                             *)

\* Every variable keeps its type; a cycle monitors held positions and orders only
\* into a free slot (the risk engine's position limit).
TypeOK ==
    /\ flags \in Flags /\ table \in Flags
    /\ saving \in [Callers -> Saves] /\ ahead \in [Callers -> SUBSET Callers]
    /\ phase \in {"idle", "monitor", "entry", "order"}
    /\ todo \subseteq Held /\ pos \in [Pos -> {"free", "held", "signal"}]
    /\ phase = "order" => Held # Pos
    /\ dailyLoss \in BOOLEAN /\ up \in BOOLEAN /\ told \in BOOLEAN
    /\ command \in Req \cup {"none"} /\ latest \in Callers \cup {"done", "lost"} /\ late \in Nat
    /\ commands \in Nat /\ faults \in Nat /\ crashes \in Nat

\* A kill the operator saw confirmed stands until a resume: through other saves that
\* were under way, failing statements, a crash and the restart that reads the table.
KillSurvives == told /\ up => IsKillSwitchActive

\* Once the save begun last has been answered, the table holds what memory holds, and
\* no earlier save that is still under way writes one of its older values over it.
SettledPersisted == up /\ latest = "done" => table = flags

\* After a confirmed kill at most the one order that had passed the last check is still
\* filled: the checks inside executeEntry stop the rest of the entry loop.
OneLateEntry == late <= 1

\* Liveness: with entries stopped, a position with a reason to exit is still exited,
\* unless the kill switch is on.
StopKeepsExits ==
    \A p \in Pos : (pos[p] = "signal" /\ flags.stop) ~> (pos[p] = "free" \/ flags.kill)

\* What the documentation says of the kill switch: it blocks entries only, exits are
\* always allowed.  A position with a reason to exit is exited under it too.
KillKeepsExits ==
    \A p \in Pos : (pos[p] = "signal" /\ flags.kill) ~> (pos[p] = "free" \/ ~flags.kill)
=============================================================================
