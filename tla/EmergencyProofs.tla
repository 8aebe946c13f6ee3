--------------------------- MODULE EmergencyProofs ---------------------------
(***************************************************************************)
(* The kill switch is never lost and the table ends as memory is, for any  *)
(* number of positions, requests, failing statements and crashes, where    *)
(* the database keeps the order of the statements (Fifo).                  *)
(***************************************************************************)
EXTENDS EmergencyControl, TLAPS

USE RequestAssumption, EmergencyBounds

-----------------------------------------------------------------------------
(***************************************************************************)
(* The inductive invariant.  A kill that stands is set in memory; once its *)
(* first key has been written, or it was confirmed, the table has it too   *)
(* and no save that has still to write that key would clear it.  Until     *)
(* then only a save that began before the kill's could, and the order of   *)
(* the statements makes it write first.                                    *)
(***************************************************************************)
Standing == told \/ command # "none"

KillRecorded == told \/ (command # "none" /\ saving[command].op = "kill" /\ saving[command].key > 1)

WouldClear(d) == Saving(d) /\ saving[d].key = 1 /\ ~saving[d].snap.kill

KillInv ==
    /\ up /\ Standing => flags.kill
    /\ command # "none" => up /\ saving[command].op \in {"none", "kill"}
    /\ ~up => \A c \in Callers : ~Saving(c)
    /\ KillRecorded => table.kill /\ \A d \in Callers : ~WouldClear(d)
    /\ command # "none" /\ saving[command].op = "kill"
          => \A d \in Callers : WouldClear(d) => d \in ahead[command]

(***************************************************************************)
(* The save begun last carries the flags of memory; the keys it has        *)
(* written are right, and no other save under way has them still to write. *)
(***************************************************************************)
Settled(i) ==
    /\ table[Keys[i]] = flags[Keys[i]]
    /\ \A d \in Callers : Saving(d) /\ d # latest => saving[d].key > i

SettledInv ==
    /\ latest \in Callers =>
          /\ up /\ Saving(latest) /\ saving[latest].snap = flags
          /\ \A d \in Callers \ {latest} : Saving(d) => d \in ahead[latest]
          /\ \A i \in 1..Len(Keys) : saving[latest].key > i => Settled(i)
    /\ latest = "done" => up /\ \A i \in 1..Len(Keys) : Settled(i)

(***************************************************************************)
(* The one late entry is the order that was out when the kill was          *)
(* confirmed.                                                              *)
(***************************************************************************)
LateInv == late # 0 => late = 1 /\ told /\ phase # "order"

LEMMA KeyNames == Len(Keys) = 2 /\ Keys[1] = "kill" /\ Keys[2] = "stop"
  BY DEF Keys

LEMMA FlagsEqual ==
  ASSUME NEW f \in Flags, NEW g \in Flags, \A i \in 1..Len(Keys) : f[Keys[i]] = g[Keys[i]]
  PROVE  f = g
  <1>1. f.kill = g.kill /\ f.stop = g.stop
    BY KeyNames
  <1> QED
    BY <1>1 DEF Flags

LEMMA SavesTyped ==
  ASSUME TypeOK, NEW c \in Callers
  PROVE  /\ saving[c].op \in Ops /\ saving[c].snap \in Flags
         /\ saving[c].key \in 1..3 /\ saving[c].snap.kill \in BOOLEAN /\ saving[c].snap.stop \in BOOLEAN
  BY KeyNames DEF TypeOK, Saves, Flags

LEMMA WrittenTyped ==
  ASSUME TypeOK, NEW c \in Callers, saving[c].key <= Len(Keys)
  PROVE  Written(c) \in Flags
  <1>1. saving[c].key \in 1..2 /\ saving[c].snap \in Flags /\ table \in Flags
    BY KeyNames, SavesTyped DEF TypeOK
  <1>2. CASE saving[c].key = 1
    BY <1>1, <1>2, KeyNames DEF Written, Flags
  <1>3. CASE saving[c].key = 2
    BY <1>1, <1>3, KeyNames DEF Written, Flags
  <1> QED
    BY <1>1, <1>2, <1>3

\* A key is written from its save and the other key stays.
LEMMA WrittenKeys ==
  ASSUME TypeOK, NEW c \in Callers, saving[c].key <= Len(Keys), NEW i \in 1..Len(Keys)
  PROVE  Written(c)[Keys[i]] = IF saving[c].key = i THEN saving[c].snap[Keys[i]] ELSE table[Keys[i]]
  <1>1. saving[c].key \in 1..2 /\ table \in Flags
    BY KeyNames, SavesTyped DEF TypeOK
  <1>2. i \in 1..2
    BY KeyNames
  <1> QED
    BY <1>1, <1>2, KeyNames DEF Written, Flags

LEMMA ChangeTyped ==
  ASSUME TypeOK, NEW c \in Callers, NEW op \in Ops, NEW new \in Flags, Change(c, op, new)
  PROVE  /\ flags' \in Flags /\ saving' \in [Callers -> Saves]
         /\ ahead' \in [Callers -> SUBSET Callers] /\ latest' \in Callers \cup {"done", "lost"}
  <1>1. [op |-> op, snap |-> new, key |-> 1] \in Saves
    BY KeyNames DEF Saves
  <1>2. saving' \in [Callers -> Saves]
    BY <1>1 DEF Change, TypeOK
  <1>3. Begun(c) \in [Callers -> SUBSET Callers]
    BY DEF Begun, TypeOK
  <1> QED
    BY <1>2, <1>3 DEF Change

LEMMA EndTyped ==
  ASSUME TypeOK, NEW c \in Callers
  PROVE  /\ [saving EXCEPT ![c] = NotSaving] \in [Callers -> Saves]
         /\ Ended(c) \in [Callers -> SUBSET Callers]
  <1>1. NotSaving \in Saves
    BY KeyNames DEF NotSaving, Saves, Clear, Flags, Ops
  <1> QED
    BY <1>1 DEF Ended, TypeOK

-----------------------------------------------------------------------------
(* Type correctness.                                                       *)

LEMMA FlagsTyped ==
  ASSUME TypeOK
  PROVE  /\ [kill |-> TRUE, stop |-> TRUE] \in Flags /\ Clear \in Flags
         /\ \A b \in BOOLEAN : [flags EXCEPT !.kill = b] \in Flags /\ [flags EXCEPT !.stop = b] \in Flags
  BY DEF TypeOK, Flags, Clear

LEMMA NothingSavingTyped ==
  /\ [c \in Callers |-> NotSaving] \in [Callers -> Saves]
  /\ [c \in Callers |-> {}] \in [Callers -> SUBSET Callers]
  <1>1. NotSaving \in Saves
    BY KeyNames DEF NotSaving, Saves, Clear, Flags, Ops
  <1> QED
    BY <1>1

LEMMA TypeInit == Init => TypeOK
  <1> SUFFICES ASSUME Init PROVE TypeOK
    OBVIOUS
  <1>1. flags \in Flags /\ table \in Flags
    BY DEF Init, Clear, Flags
  <1>2. saving \in [Callers -> Saves] /\ ahead \in [Callers -> SUBSET Callers]
    BY NothingSavingTyped DEF Init
  <1>3. phase = "idle" /\ todo = {} /\ pos \in [Pos -> {"free", "held", "signal"}]
    BY DEF Init
  <1> QED
    BY <1>1, <1>2, <1>3 DEF Init, TypeOK

LEMMA TypeStep == TypeOK /\ [Next]_vars => TypeOK'
  <1> SUFFICES ASSUME TypeOK, [Next]_vars PROVE TypeOK'
    OBVIOUS
  <1> USE DEF bounds, cycle, watch, control
  <1>1. ASSUME NEW c \in Req, Kill(c) PROVE TypeOK'
    <2>1. c \in Callers /\ "kill" \in Ops
      BY DEF Callers, Ops
    <2>2. Change(c, "kill", [kill |-> TRUE, stop |-> TRUE])
      BY <1>1 DEF Kill
    <2> QED
      BY <1>1, <2>1, <2>2, FlagsTyped, ChangeTyped DEF Kill, Request, TypeOK, Held
  <1>2. ASSUME NEW c \in Req, Resume(c) PROVE TypeOK'
    <2>1. c \in Callers /\ "resume1" \in Ops
      BY DEF Callers, Ops
    <2>2. Change(c, "resume1", [flags EXCEPT !.kill = FALSE])
      BY <1>2 DEF Resume
    <2>3. /\ flags' \in Flags /\ saving' \in [Callers -> Saves]
          /\ ahead' \in [Callers -> SUBSET Callers] /\ latest' \in Callers \cup {"done", "lost"}
      BY <2>1, <2>2, FlagsTyped, ChangeTyped
    <2>4. told' \in BOOLEAN /\ late' \in Nat /\ command' \in Req \cup {"none"}
      BY <1>2 DEF Resume
    <2> QED
      BY <1>2, <2>3, <2>4 DEF Resume, Request, TypeOK, Held
  <1>3. ASSUME NEW c \in Req, StopEntries(c) PROVE TypeOK'
    <2>1. c \in Callers /\ "stop" \in Ops
      BY DEF Callers, Ops
    <2>2. Change(c, "stop", [flags EXCEPT !.stop = TRUE])
      BY <1>3 DEF StopEntries
    <2>3. /\ flags' \in Flags /\ saving' \in [Callers -> Saves]
          /\ ahead' \in [Callers -> SUBSET Callers] /\ latest' \in Callers \cup {"done", "lost"}
      BY <2>1, <2>2, FlagsTyped, ChangeTyped
    <2> QED
      BY <1>3, <2>3 DEF StopEntries, Request, TypeOK, Held
  <1>4. ASSUME NEW c \in Callers, WriteKey(c) PROVE TypeOK'
    <2>1. saving[c].key + 1 \in 1..Len(Keys) + 1 /\ saving[c] \in Saves
      BY <1>4, KeyNames, SavesTyped DEF WriteKey, Writing, TypeOK
    <2>2. [saving[c] EXCEPT !.key = @ + 1] \in Saves
      BY <2>1 DEF Saves
    <2>3. saving' \in [Callers -> Saves]
      BY <1>4, <2>2 DEF WriteKey, TypeOK
    <2>4. table' \in Flags
      BY <1>4, WrittenTyped DEF WriteKey, Writing
    <2> QED
      BY <1>4, <2>3, <2>4 DEF WriteKey, TypeOK, Held
  <1>5. ASSUME NEW c \in Callers, WriteFails(c) PROVE TypeOK'
    <2>1. table' \in Flags
      BY <1>5, WrittenTyped DEF WriteFails, Writing, TypeOK
    <2> QED
      BY <1>5, <2>1, EndTyped DEF WriteFails, TypeOK, Held
  <1>6. ASSUME NEW c \in Callers, SaveDone(c) PROVE TypeOK'
    <2>1. told' \in BOOLEAN
      BY <1>6 DEF SaveDone, TypeOK
    <2> QED
      BY <1>6, <2>1, EndTyped DEF SaveDone, TypeOK, Held
  <1>7. ASSUME NEW c \in Callers, ResumeGoesOn(c) PROVE TypeOK'
    <2>1. PICK op \in Ops, new \in Flags : Change(c, op, new)
      BY <1>7, FlagsTyped DEF ResumeGoesOn, Ops, TypeOK
    <2> QED
      BY <1>7, <2>1, ChangeTyped DEF ResumeGoesOn, TypeOK, Held
  <1>8. CASE StartCycle \/ Hold \/ MonitorDone \/ CycleDone
    BY <1>8 DEF StartCycle, Hold, MonitorDone, CycleDone, TypeOK, Held
  <1>9. CASE Exit
    <2>1. "cycle" \in Callers /\ "stop" \in Ops
      BY DEF Callers, Ops
    <2>2. /\ flags' \in Flags /\ saving' \in [Callers -> Saves]
          /\ ahead' \in [Callers -> SUBSET Callers] /\ latest' \in Callers \cup {"done", "lost"}
      <3>1. CASE Change("cycle", "stop", [flags EXCEPT !.stop = TRUE])
        BY <2>1, <3>1, FlagsTyped, ChangeTyped
      <3>2. CASE UNCHANGED <<flags, saving, ahead, latest>>
        BY <3>2 DEF TypeOK
      <3> QED
        BY <1>9, <3>1, <3>2 DEF Exit
    <2>3. PICK p \in todo : todo' = todo \ {p} /\ pos' = [pos EXCEPT ![p] = "free"]
      BY <1>9 DEF Exit
    <2>4. pos' \in [Pos -> {"free", "held", "signal"}] /\ todo' \subseteq Held'
      BY <2>3 DEF TypeOK, Held
    <2>5. phase = "monitor" /\ dailyLoss' \in BOOLEAN
      BY <1>9 DEF Exit, TypeOK
    <2> QED
      BY <1>9, <2>2, <2>4, <2>5 DEF Exit, TypeOK
  <1>10. CASE BeginEntry
    BY <1>10 DEF BeginEntry, TypeOK, Held
  <1>11. CASE EntryFilled
    <2>1. pos' \in [Pos -> {"free", "held", "signal"}] /\ Held \subseteq Held'
      BY <1>11 DEF EntryFilled, TypeOK, Held
    <2> QED
      BY <1>11, <2>1 DEF EntryFilled, TypeOK
  <1>12. CASE Signal
    <2>1. pos' \in [Pos -> {"free", "held", "signal"}] /\ Held' = Held
      BY <1>12 DEF Signal, TypeOK, Held
    <2> QED
      BY <1>12, <2>1 DEF Signal, TypeOK
  <1>13. CASE NewDay
    BY <1>13 DEF NewDay, TypeOK, Held
  <1>14. CASE Crash
    <2>1. flags' \in Flags /\ saving' \in [Callers -> Saves] /\ ahead' \in [Callers -> SUBSET Callers]
      BY <1>14, NothingSavingTyped, FlagsTyped DEF Crash
    <2>2. up' \in BOOLEAN /\ todo' \subseteq Held' /\ phase' = "idle"
      BY <1>14 DEF Crash
    <2> QED
      BY <1>14, <2>1, <2>2 DEF Crash, TypeOK, Held
  <1>15. CASE Restart \/ UNCHANGED vars
    BY <1>15 DEF Restart, vars, TypeOK, Held
  <1> QED
    BY <1>1, <1>2, <1>3, <1>4, <1>5, <1>6, <1>7, <1>8, <1>9, <1>10, <1>11, <1>12, <1>13, <1>14, <1>15
       DEF Next, Http, Save, CycleStep

\* Type correctness of the emergency flags, their saves and the cycle under them.
THEOREM TypeCorrect == Spec => []TypeOK
  BY TypeInit, TypeStep, PTL DEF Spec
-----------------------------------------------------------------------------
(* The kill switch.                                                        *)

LEMMA ChangeSaves ==
  ASSUME TypeOK, NEW c \in Callers, NEW op \in Ops, NEW new \in Flags, Change(c, op, new)
  PROVE  /\ flags' = new /\ latest' = c
         /\ saving'[c].op = op /\ saving'[c].snap = new /\ saving'[c].key = 1
         /\ \A d \in Callers \ {c} : saving'[d] = saving[d] /\ ahead'[d] = ahead[d] \ {c}
         /\ ahead'[c] = {e \in Callers \ {c} : Saving(e)}
  BY DEF Change, Begun, TypeOK

LEMMA EndSaves ==
  ASSUME TypeOK, NEW c \in Callers, saving' = [saving EXCEPT ![c] = NotSaving], ahead' = Ended(c)
  PROVE  /\ saving'[c].op = "none" /\ saving'[c].key = 1
         /\ \A d \in Callers \ {c} : saving'[d] = saving[d] /\ ahead'[d] = ahead[d] \ {c}
  BY DEF Ended, NotSaving, TypeOK

\* A change of the flags that does not clear a kill that stands after it.
LEMMA ChangeKeepsKill ==
  ASSUME TypeOK, KillInv, up, NEW c \in Callers, NEW op \in Ops \ {"none"}, NEW new \in Flags,
         Change(c, op, new), table' = table, up' = up,
         Standing' => new.kill, told' => told,
         command' = c => op = "kill",
         command' # c => command' \in {command, "none"},
         command' \in Callers \cup {"none"}
  PROVE  KillInv'
  <1>1. /\ flags' = new /\ saving'[c].op = op /\ saving'[c].snap = new /\ saving'[c].key = 1
        /\ \A d \in Callers \ {c} : saving'[d] = saving[d] /\ ahead'[d] = ahead[d] \ {c}
        /\ ahead'[c] = {e \in Callers \ {c} : Saving(e)}
    BY ChangeSaves
  <1>2. \A d \in Callers \ {c} : WouldClear(d)' <=> WouldClear(d)
    BY <1>1 DEF WouldClear, Saving
  <1>3. Standing' => ~WouldClear(c)'
    BY <1>1 DEF WouldClear
  <1>4. KillRecorded' => KillRecorded /\ Standing'
    BY <1>1 DEF KillRecorded, Standing
  <1>5. (up /\ Standing => flags.kill)' /\ (command # "none" => up /\ saving[command].op \in {"none", "kill"})'
    BY <1>1 DEF KillInv
  <1>6. (KillRecorded => table.kill /\ \A d \in Callers : ~WouldClear(d))'
    BY <1>2, <1>3, <1>4 DEF KillInv
  <1>7. ASSUME command' # "none", saving'[command'].op = "kill", NEW d \in Callers, WouldClear(d)'
        PROVE  d \in ahead'[command']
    <2>1. d # c
      BY <1>3, <1>7 DEF Standing
    <2>2. WouldClear(d) /\ Saving(d)
      BY <1>2, <1>7, <2>1 DEF WouldClear
    <2>3. CASE command' = c
      BY <1>1, <2>1, <2>2, <2>3
    <2>4. CASE command' # c
      <3>1. command' = command /\ command \in Callers \ {c}
        BY <1>7, <2>4
      <3>2. saving[command].op = "kill"
        BY <1>1, <1>7, <3>1
      <3>3. d \in ahead[command]
        BY <1>7, <2>2, <3>1, <3>2 DEF KillInv
      <3> QED
        BY <1>1, <2>1, <3>1, <3>3
    <2> QED
      BY <2>3, <2>4
  <1> QED
    BY <1>5, <1>6, <1>7 DEF KillInv

\* A save that ends, answered or not.
LEMMA EndKeepsKill ==
  ASSUME TypeOK, KillInv, up, NEW c \in Callers,
         saving' = [saving EXCEPT ![c] = NotSaving], ahead' = Ended(c),
         UNCHANGED <<flags, up, command>>,
         told' => KillRecorded,
         KillRecorded => table'.kill
  PROVE  KillInv'
  <1>1. /\ saving'[c].op = "none"
        /\ \A d \in Callers \ {c} : saving'[d] = saving[d] /\ ahead'[d] = ahead[d] \ {c}
    BY EndSaves
  <1>2. command \in Callers \cup {"none"} /\ "none" \notin Callers
    BY DEF TypeOK, Callers
  <1>3. \A d \in Callers : WouldClear(d)' => d # c /\ WouldClear(d)
    BY <1>1 DEF WouldClear, Saving
  <1>4. KillRecorded' => KillRecorded
    BY <1>1, <1>2 DEF KillRecorded
  <1>5. Standing' => Standing
    BY DEF Standing, KillRecorded
  <1>6. (up /\ Standing => flags.kill)' /\ (command # "none" => up /\ saving[command].op \in {"none", "kill"})'
    BY <1>1, <1>2, <1>5 DEF KillInv
  <1>7. (KillRecorded => table.kill /\ \A d \in Callers : ~WouldClear(d))'
    BY <1>3, <1>4 DEF KillInv
  <1>8. ASSUME command' # "none", saving'[command'].op = "kill", NEW d \in Callers, WouldClear(d)'
        PROVE  d \in ahead'[command']
    <2>1. command \in Callers \ {c} /\ saving[command].op = "kill"
      BY <1>1, <1>2, <1>8
    <2>2. d # c /\ d \in ahead[command]
      BY <1>3, <1>8, <2>1 DEF KillInv
    <2> QED
      BY <1>1, <2>1, <2>2
  <1> QED
    BY <1>6, <1>7, <1>8 DEF KillInv

\* No statement clears the key of a kill the table has.
LEMMA WrittenKill ==
  ASSUME TypeOK, KillInv, NEW c \in Callers, Writing(c), KillRecorded
  PROVE  Written(c).kill /\ table.kill
  <1>1. table.kill /\ ~WouldClear(c)
    BY DEF KillInv
  <1>2. Written(c)[Keys[1]] = IF saving[c].key = 1 THEN saving[c].snap[Keys[1]] ELSE table[Keys[1]]
    BY KeyNames, WrittenKeys DEF Writing
  <1> QED
    BY <1>1, <1>2, KeyNames DEF WouldClear, Writing

LEMMA WriteKeepsKill ==
  ASSUME Fifo, TypeOK, KillInv, NEW c \in Callers, WriteKey(c)
  PROVE  KillInv'
  <1>1. /\ saving'[c].key = saving[c].key + 1 /\ saving'[c].op = saving[c].op /\ saving'[c].snap = saving[c].snap
        /\ \A d \in Callers \ {c} : saving'[d] = saving[d]
        /\ saving[c].key \in 1..2 /\ Saving(c) /\ up
    <2>1. saving[c] \in Saves /\ saving[c].key \in 1..2
      BY KeyNames, SavesTyped DEF WriteKey, Writing, TypeOK
    <2>2. saving' = [saving EXCEPT ![c].key = saving[c].key + 1]
      BY DEF WriteKey
    <2> QED
      BY <2>1, <2>2 DEF WriteKey, Writing, TypeOK, Saves
  <1>2. UNCHANGED <<flags, ahead, up, command, told>>
    BY DEF WriteKey, watch
  <1>3. \A d \in Callers : WouldClear(d)' => d # c /\ WouldClear(d)
    BY <1>1 DEF WouldClear, Saving
  <1>4. (KillRecorded => table.kill /\ \A d \in Callers : ~WouldClear(d))'
    <2>1. CASE KillRecorded
      <3>1. table'.kill
        BY <2>1, WrittenKill DEF WriteKey
      <3> QED
        BY <1>3, <2>1, <3>1 DEF KillInv
    <2>2. CASE ~KillRecorded /\ KillRecorded'
      <3>1. command = c /\ saving[c].op = "kill" /\ saving[c].key = 1
        BY <1>1, <1>2, <2>2 DEF KillRecorded, TypeOK, Callers
      <3>2. \A d \in ahead[c] : saving[d].key > 1
        BY <3>1 DEF WriteKey, Writing, InOrder
      <3>3. \A d \in Callers : ~WouldClear(d)
        <4> SUFFICES ASSUME NEW d \in Callers, WouldClear(d) PROVE FALSE
          OBVIOUS
        <4>1. c # "none" /\ d \in ahead[c]
          BY <3>1 DEF KillInv, TypeOK, Callers
        <4> QED
          BY <3>2, <4>1 DEF WouldClear
      <3>4. saving[c].snap.kill
        BY <3>1, <3>3, <1>1 DEF WouldClear, Saving
      <3>5. table' = Written(c)
        BY DEF WriteKey
      <3>6. Written(c)[Keys[1]] = saving[c].snap[Keys[1]]
        BY <3>1, KeyNames, WrittenKeys
      <3>7. table'.kill
        BY <3>4, <3>5, <3>6, KeyNames
      <3> QED
        BY <1>3, <3>3, <3>7
    <2> QED
      BY <2>1, <2>2
  <1>5. (up /\ Standing => flags.kill)'
    BY <1>2 DEF KillInv, Standing
  <1>6. (command # "none" => up /\ saving[command].op \in {"none", "kill"})'
    BY <1>1, <1>2 DEF KillInv, TypeOK, Callers
  <1>7. (command # "none" /\ saving[command].op = "kill"
            => \A d \in Callers : WouldClear(d) => d \in ahead[command])'
    BY <1>1, <1>2, <1>3 DEF KillInv, TypeOK, Callers
  <1> QED
    BY <1>1, <1>2, <1>4, <1>5, <1>6, <1>7 DEF KillInv

\* Steps that leave the flags, the saves and the observers alone.
LEMMA QuietKeepsKill ==
  ASSUME KillInv, UNCHANGED <<flags, table, saving, ahead, up, command, told>>
  PROVE  KillInv'
  BY DEF KillInv, Standing, KillRecorded, WouldClear, Saving

LEMMA KillStep == Fifo /\ TypeOK /\ KillInv /\ [Next]_vars => KillInv'
  <1> SUFFICES ASSUME Fifo, TypeOK, KillInv, [Next]_vars PROVE KillInv'
    OBVIOUS
  <1> USE DEF bounds, cycle, watch, control
  <1>1. ASSUME NEW c \in Req, Kill(c) PROVE KillInv'
    <2>1. c \in Callers /\ "kill" \in Ops \ {"none"} /\ [kill |-> TRUE, stop |-> TRUE] \in Flags
      BY FlagsTyped DEF Callers, Ops
    <2>2. /\ Change(c, "kill", [kill |-> TRUE, stop |-> TRUE]) /\ command' = c
          /\ up /\ UNCHANGED <<table, up, told>>
      BY <1>1 DEF Kill, Request
    <2> QED
      BY <2>1, <2>2, ChangeKeepsKill
  <1>2. ASSUME NEW c \in Req, Resume(c) PROVE KillInv'
    <2>1. c \in Callers /\ "resume1" \in Ops \ {"none"} /\ [flags EXCEPT !.kill = FALSE] \in Flags
      BY FlagsTyped DEF Callers, Ops
    <2>2. /\ Change(c, "resume1", [flags EXCEPT !.kill = FALSE]) /\ command' = "none" /\ told' = FALSE
          /\ up /\ UNCHANGED <<table, up>>
      BY <1>2 DEF Resume, Request
    <2>3. c # "none" /\ ~Standing'
      BY <2>2 DEF Standing
    <2> QED
      BY <2>1, <2>2, <2>3, ChangeKeepsKill
  <1>3. ASSUME NEW c \in Req, StopEntries(c) PROVE KillInv'
    <2>1. c \in Callers /\ "stop" \in Ops \ {"none"} /\ [flags EXCEPT !.stop = TRUE] \in Flags
      BY FlagsTyped DEF Callers, Ops
    <2>2. /\ Change(c, "stop", [flags EXCEPT !.stop = TRUE])
          /\ command' = IF command = c THEN "none" ELSE command
          /\ up /\ UNCHANGED <<table, up, told>>
      BY <1>3 DEF StopEntries, Request
    <2>3. c # "none" /\ command' # c /\ command' \in {command, "none"} /\ command' \in Callers \cup {"none"}
      BY <2>2 DEF TypeOK, Callers
    <2>4. Standing' => [flags EXCEPT !.stop = TRUE].kill
      <3>1. Standing' => flags.kill
        BY <2>2, <2>3 DEF Standing, KillInv
      <3> QED
        BY <3>1 DEF TypeOK, Flags
    <2> QED
      BY <2>1, <2>2, <2>3, <2>4, ChangeKeepsKill
  <1>4. ASSUME NEW c \in Callers, WriteKey(c) PROVE KillInv'
    BY <1>4, WriteKeepsKill
  <1>5. ASSUME NEW c \in Callers, WriteFails(c) PROVE KillInv'
    <2>1. /\ saving' = [saving EXCEPT ![c] = NotSaving] /\ ahead' = Ended(c) /\ up
          /\ UNCHANGED <<flags, up, command, told>> /\ Writing(c) /\ table' \in {table, Written(c)}
      BY <1>5 DEF WriteFails, Writing
    <2>2. KillRecorded => table'.kill
      BY <2>1, WrittenKill
    <2>3. told' => KillRecorded
      BY <2>1 DEF KillRecorded
    <2> QED
      BY <2>1, <2>2, <2>3, EndKeepsKill
  <1>6. ASSUME NEW c \in Callers, SaveDone(c) PROVE KillInv'
    <2>1. /\ saving' = [saving EXCEPT ![c] = NotSaving] /\ ahead' = Ended(c) /\ up
          /\ UNCHANGED <<flags, table, up, command>> /\ told' = (told \/ command = c)
          /\ saving[c].op # "none" /\ saving[c].key > 1
      BY <1>6, KeyNames, SavesTyped DEF SaveDone
    <2>2. command = c => KillRecorded
      BY <2>1 DEF KillInv, KillRecorded, Callers
    <2>3. told' => KillRecorded
      BY <2>1, <2>2 DEF KillRecorded
    <2>4. KillRecorded => table'.kill
      BY <2>1 DEF KillInv
    <2> QED
      BY <2>1, <2>3, <2>4, EndKeepsKill
  <1>7. ASSUME NEW c \in Callers, ResumeGoesOn(c) PROVE KillInv'
    <2>1. PICK op \in Ops \ {"none"}, new \in Flags : Change(c, op, new) /\ new.kill = flags.kill
      <3>1. flags \in Flags /\ [flags EXCEPT !.stop = FALSE] \in Flags
        BY FlagsTyped DEF TypeOK
      <3>2. [flags EXCEPT !.stop = FALSE].kill = flags.kill
        BY <3>1 DEF Flags
      <3>3. \/ Change(c, "resume2", [flags EXCEPT !.stop = FALSE])
            \/ Change(c, "resume3", flags)
        BY <1>7 DEF ResumeGoesOn
      <3> QED
        BY <3>1, <3>2, <3>3, Zenon DEF Ops
    <2>2. up /\ UNCHANGED <<table, up, told, command>>
      BY <1>7 DEF ResumeGoesOn
    <2>3. command' # c /\ command' \in Callers \cup {"none"}
      BY <1>7, <2>2 DEF ResumeGoesOn, KillInv, TypeOK, Callers
    <2>4. Standing' => new.kill
      BY <2>1, <2>2 DEF Standing, KillInv
    <2> QED
      BY <2>1, <2>2, <2>3, <2>4, ChangeKeepsKill
  <1>8. CASE Exit
    <2>1. "cycle" \in Callers /\ "stop" \in Ops \ {"none"} /\ [flags EXCEPT !.stop = TRUE] \in Flags
      BY FlagsTyped DEF Callers, Ops
    <2>2. up /\ UNCHANGED <<table, up, told, command>>
      BY <1>8 DEF Exit, CycleRuns
    <2>3. command' # "cycle" /\ command' \in Callers \cup {"none"}
      BY <2>2 DEF TypeOK, Callers
    <2>4. Standing' => [flags EXCEPT !.stop = TRUE].kill
      <3>1. Standing' => flags.kill
        BY <2>2 DEF Standing, KillInv
      <3> QED
        BY <3>1 DEF TypeOK, Flags
    <2>5. CASE Change("cycle", "stop", [flags EXCEPT !.stop = TRUE])
      BY <2>1, <2>2, <2>3, <2>4, <2>5, ChangeKeepsKill
    <2>6. CASE UNCHANGED <<flags, saving, ahead, latest>>
      BY <2>2, <2>6, QuietKeepsKill
    <2> QED
      BY <1>8, <2>5, <2>6 DEF Exit
  <1>9. CASE Crash
    <2>1. up' = FALSE /\ command' = "none" /\ table' = table /\ told' = told /\ \A c \in Callers : ~Saving(c)'
      BY <1>9 DEF Crash, Saving, NotSaving
    <2>2. KillRecorded' => KillRecorded
      BY <2>1 DEF KillRecorded
    <2>3. \A c \in Callers : ~WouldClear(c)'
      BY <2>1 DEF WouldClear
    <2> QED
      BY <2>1, <2>2, <2>3 DEF KillInv
  <1>10. CASE Restart
    <2>1. flags' = table /\ ~up /\ up' /\ UNCHANGED <<table, saving, ahead, command, told>>
      BY <1>10 DEF Restart
    <2>2. command = "none" /\ \A c \in Callers : ~Saving(c) /\ ~Saving(c)'
      BY <2>1 DEF KillInv, Saving
    <2>3. Standing' => table.kill
      BY <2>1, <2>2 DEF Standing, KillInv, KillRecorded
    <2> QED
      BY <2>1, <2>2, <2>3 DEF KillInv, KillRecorded, WouldClear, Saving
  <1>11. CASE \/ StartCycle \/ Hold \/ MonitorDone \/ BeginEntry \/ EntryFilled \/ CycleDone
              \/ Signal \/ NewDay \/ UNCHANGED vars
    BY <1>11, QuietKeepsKill
       DEF StartCycle, Hold, MonitorDone, BeginEntry, EntryFilled, CycleDone, Signal, NewDay, vars
  <1> QED
    BY <1>1, <1>2, <1>3, <1>4, <1>5, <1>6, <1>7, <1>8, <1>9, <1>10, <1>11
       DEF Next, Http, Save, CycleStep
-----------------------------------------------------------------------------
(* The table.                                                              *)

LEMMA LatestNames == "done" \notin Callers /\ "lost" \notin Callers
  BY DEF Callers

LEMMA ChangeKeepsSettled ==
  ASSUME TypeOK, up', NEW c \in Callers, NEW op \in Ops \ {"none"}, NEW new \in Flags, Change(c, op, new)
  PROVE  SettledInv'
  <1>1. /\ flags' = new /\ latest' = c /\ saving'[c].op = op /\ saving'[c].snap = new /\ saving'[c].key = 1
        /\ \A d \in Callers \ {c} : saving'[d] = saving[d]
        /\ ahead'[c] = {e \in Callers \ {c} : Saving(e)}
    BY ChangeSaves
  <1>2. Saving(c)' /\ \A d \in Callers \ {c} : Saving(d)' => d \in ahead'[c]
    BY <1>1 DEF Saving
  <1>3. \A i \in 1..Len(Keys) : ~(saving'[c].key > i)
    BY <1>1, KeyNames
  <1> QED
    BY <1>1, <1>2, <1>3, LatestNames DEF SettledInv

\* Another save than the last has nothing left to write that the last has written.
LEMMA OthersKeepSettled ==
  ASSUME TypeOK, NEW c \in Callers, c # latest, Writing(c), NEW i \in 1..Len(Keys), Settled(i)
  PROVE  Written(c)[Keys[i]] = table[Keys[i]] /\ saving[c].key > i
  <1>1. saving[c].key > i /\ saving[c].key <= Len(Keys)
    BY DEF Settled, Writing
  <1> QED
    BY <1>1, WrittenKeys

LEMMA WriteKeepsSettled ==
  ASSUME Fifo, TypeOK, SettledInv, NEW c \in Callers, WriteKey(c)
  PROVE  SettledInv'
  <1>1. /\ saving'[c].key = saving[c].key + 1 /\ saving'[c].op = saving[c].op /\ saving'[c].snap = saving[c].snap
        /\ \A d \in Callers \ {c} : saving'[d] = saving[d]
        /\ saving[c].key \in 1..2 /\ Saving(c) /\ up /\ table' = Written(c)
    <2>1. saving[c] \in Saves /\ saving[c].key \in 1..2
      BY KeyNames, SavesTyped DEF WriteKey, Writing, TypeOK
    <2>2. saving' = [saving EXCEPT ![c].key = saving[c].key + 1]
      BY DEF WriteKey
    <2> QED
      BY <2>1, <2>2 DEF WriteKey, Writing, TypeOK, Saves
  <1>2. UNCHANGED <<flags, ahead, up, latest>> /\ Writing(c) /\ saving[c].key <= Len(Keys)
    BY DEF WriteKey, watch, Writing
  <1>3. \A d \in Callers : Saving(d)' <=> Saving(d)
    BY <1>1 DEF Saving
  <1>4. \A d \in Callers, i \in 1..Len(Keys) : saving[d].key > i => saving'[d].key > i
    BY <1>1, KeyNames
  <1>5. ASSUME NEW i \in 1..Len(Keys), Settled(i), c # latest \/ saving[c].key > i PROVE Settled(i)'
    <2>1. table'[Keys[i]] = table[Keys[i]]
      <3>1. CASE c # latest
        BY <1>1, <1>2, <1>5, <3>1, OthersKeepSettled
      <3>2. CASE saving[c].key > i
        BY <1>1, <1>2, <3>2, WrittenKeys
      <3> QED
        BY <1>5, <3>1, <3>2
    <2> QED
      BY <1>2, <1>3, <1>4, <1>5, <2>1 DEF Settled
  <1>6. latest = "done" => (up /\ \A i \in 1..Len(Keys) : Settled(i))'
    BY <1>2, <1>5, LatestNames DEF SettledInv
  <1>7. ASSUME latest \in Callers, NEW i \in 1..Len(Keys), saving'[latest].key > i PROVE Settled(i)'
    <2>1. CASE saving[latest].key > i
      BY <1>5, <1>7, <2>1 DEF SettledInv
    <2>2. CASE ~(saving[latest].key > i)
      <3>1. c = latest /\ saving[c].key = i
        BY <1>1, <1>7, <2>2, KeyNames
      <3>2. table'[Keys[i]] = flags[Keys[i]]
        BY <1>1, <1>2, <3>1, WrittenKeys DEF SettledInv
      <3>3. \A d \in Callers : Saving(d) /\ d # c => saving[d].key > i
        BY <3>1, <1>7 DEF SettledInv, WriteKey, Writing, InOrder
      <3> QED
        BY <1>1, <1>2, <1>3, <3>1, <3>2, <3>3 DEF Settled
    <2> QED
      BY <2>1, <2>2
  <1>8. ASSUME latest \in Callers
        PROVE  /\ up' /\ Saving(latest)' /\ saving'[latest].snap = flags'
               /\ \A d \in Callers \ {latest} : Saving(d)' => d \in ahead'[latest]
    BY <1>1, <1>2, <1>3, <1>8 DEF SettledInv
  <1> QED
    BY <1>2, <1>6, <1>7, <1>8 DEF SettledInv

\* A save that ends: if it was the last it was answered with every key written, or lost.
LEMMA EndKeepsSettled ==
  ASSUME TypeOK, SettledInv, up, NEW c \in Callers, Saving(c),
         saving' = [saving EXCEPT ![c] = NotSaving], ahead' = Ended(c), UNCHANGED <<flags, up>>,
         \A i \in 1..Len(Keys) : Settled(i) /\ c # latest => table'[Keys[i]] = table[Keys[i]],
         \/ latest' = latest /\ c # latest
         \/ latest' = "lost"
         \/ latest' = "done" /\ c = latest /\ saving[c].key > Len(Keys) /\ table' = table
  PROVE  SettledInv'
  <1>1. /\ saving'[c].op = "none"
        /\ \A d \in Callers \ {c} : saving'[d] = saving[d] /\ ahead'[d] = ahead[d] \ {c}
    BY EndSaves
  <1>2. \A d \in Callers : Saving(d)' => d # c /\ Saving(d)
    BY <1>1 DEF Saving
  <1>3. CASE latest' = latest /\ c # latest
    <2>1. \A i \in 1..Len(Keys) : Settled(i) => Settled(i)'
      BY <1>1, <1>2, <1>3 DEF Settled
    <2>2. ASSUME latest \in Callers
          PROVE  /\ up' /\ Saving(latest)' /\ saving'[latest].snap = flags'
                 /\ \A d \in Callers \ {latest} : Saving(d)' => d \in ahead'[latest]
                 /\ \A i \in 1..Len(Keys) : saving'[latest].key > i => Settled(i)'
      BY <1>1, <1>2, <1>3, <2>1, <2>2 DEF SettledInv, Saving
    <2>3. latest = "done" => (up /\ \A i \in 1..Len(Keys) : Settled(i))'
      BY <2>1 DEF SettledInv
    <2> QED
      BY <1>3, <2>2, <2>3 DEF SettledInv
  <1>4. CASE latest' = "lost"
    BY <1>4, LatestNames DEF SettledInv
  <1>5. CASE latest' = "done" /\ c = latest /\ saving[c].key > Len(Keys) /\ table' = table
    <2>1. ASSUME NEW i \in 1..Len(Keys) PROVE Settled(i)'
      <3>1. Settled(i)
        BY <1>5, KeyNames, SavesTyped DEF SettledInv
      <3> QED
        BY <1>1, <1>2, <1>5, <3>1 DEF Settled
    <2> QED
      BY <1>5, <2>1, LatestNames DEF SettledInv
  <1> QED
    BY <1>3, <1>4, <1>5

LEMMA QuietKeepsSettled ==
  ASSUME SettledInv, UNCHANGED <<flags, table, saving, ahead, up, latest>>
  PROVE  SettledInv'
  BY DEF SettledInv, Settled, Saving

LEMMA SettledStep == Fifo /\ TypeOK /\ SettledInv /\ [Next]_vars => SettledInv'
  <1> SUFFICES ASSUME Fifo, TypeOK, SettledInv, [Next]_vars PROVE SettledInv'
    OBVIOUS
  <1> USE DEF bounds, cycle, watch, control
  <1>1. ASSUME NEW c \in Req, Kill(c) \/ Resume(c) \/ StopEntries(c) PROVE SettledInv'
    <2>1. c \in Callers /\ {"kill", "resume1", "stop"} \subseteq Ops \ {"none"} /\ up'
      BY <1>1 DEF Callers, Ops, Kill, Resume, StopEntries, Request
    <2>2. PICK op \in {"kill", "resume1", "stop"}, new \in Flags : Change(c, op, new)
      BY <1>1, FlagsTyped DEF Kill, Resume, StopEntries
    <2> QED
      BY <2>1, <2>2, ChangeKeepsSettled
  <1>2. ASSUME NEW c \in Callers, WriteKey(c) PROVE SettledInv'
    BY <1>2, WriteKeepsSettled
  <1>3. ASSUME NEW c \in Callers, WriteFails(c) PROVE SettledInv'
    <2>1. /\ saving' = [saving EXCEPT ![c] = NotSaving] /\ ahead' = Ended(c) /\ up /\ Saving(c)
          /\ UNCHANGED <<flags, up>> /\ Writing(c) /\ table' \in {table, Written(c)}
          /\ latest' = IF latest = c THEN "lost" ELSE latest
      BY <1>3 DEF WriteFails, Writing
    <2>2. \A i \in 1..Len(Keys) : Settled(i) /\ c # latest => table'[Keys[i]] = table[Keys[i]]
      BY <2>1, OthersKeepSettled
    <2> QED
      BY <2>1, <2>2, EndKeepsSettled
  <1>4. ASSUME NEW c \in Callers, SaveDone(c) PROVE SettledInv'
    <2>1. /\ saving' = [saving EXCEPT ![c] = NotSaving] /\ ahead' = Ended(c) /\ up /\ Saving(c)
          /\ UNCHANGED <<flags, table, up>> /\ saving[c].key > Len(Keys)
          /\ latest' = IF latest = c THEN "done" ELSE latest
      BY <1>4 DEF SaveDone, Saving
    <2> QED
      BY <2>1, EndKeepsSettled
  <1>5. ASSUME NEW c \in Callers, ResumeGoesOn(c) PROVE SettledInv'
    <2>1. PICK op \in Ops \ {"none"}, new \in Flags : up' /\ Change(c, op, new)
      BY <1>5, FlagsTyped DEF ResumeGoesOn, Ops, TypeOK
    <2> QED
      BY <2>1, ChangeKeepsSettled
  <1>6. CASE Exit
    <2>1. "cycle" \in Callers /\ "stop" \in Ops \ {"none"} /\ up' /\ table' = table /\ up' = up
      BY <1>6 DEF Callers, Ops, Exit, CycleRuns
    <2>2. CASE Change("cycle", "stop", [flags EXCEPT !.stop = TRUE])
      BY <2>1, <2>2, FlagsTyped, ChangeKeepsSettled
    <2>3. CASE UNCHANGED <<flags, saving, ahead, latest>>
      BY <2>1, <2>3, QuietKeepsSettled
    <2> QED
      BY <1>6, <2>2, <2>3 DEF Exit
  <1>7. CASE Crash
    BY <1>7, LatestNames DEF Crash, SettledInv
  <1>8. CASE Restart
    <2>1. latest' = latest /\ latest \notin Callers /\ latest # "done"
      BY <1>8 DEF Restart, SettledInv
    <2> QED
      BY <2>1 DEF SettledInv
  <1>9. CASE \/ StartCycle \/ Hold \/ MonitorDone \/ BeginEntry \/ EntryFilled \/ CycleDone
             \/ Signal \/ NewDay \/ UNCHANGED vars
    BY <1>9, QuietKeepsSettled
       DEF StartCycle, Hold, MonitorDone, BeginEntry, EntryFilled, CycleDone, Signal, NewDay, vars
  <1> QED
    BY <1>1, <1>2, <1>3, <1>4, <1>5, <1>6, <1>7, <1>8, <1>9 DEF Next, Http, Save, CycleStep
-----------------------------------------------------------------------------
(* The entry that was out when the kill was confirmed.                     *)

LEMMA LateStep == TypeOK /\ KillInv /\ LateInv /\ [Next]_vars => LateInv'
  <1> SUFFICES ASSUME TypeOK, KillInv, LateInv, [Next]_vars PROVE LateInv'
    OBVIOUS
  <1> USE DEF bounds, cycle, watch, control
  <1>1. CASE EntryFilled
    <2>1. late' = (IF told THEN late + 1 ELSE late) /\ late = 0 /\ phase' = "entry" /\ told' = told
      BY <1>1 DEF EntryFilled, LateInv
    <2> QED
      BY <2>1 DEF LateInv
  <1>2. CASE BeginEntry
    <2>1. ~flags.kill /\ up /\ late' = late
      BY <1>2 DEF BeginEntry, EntryAllowed, IsStopNewEntries, CycleRuns
    <2>2. late = 0
      BY <2>1 DEF LateInv, KillInv, Standing
    <2> QED
      BY <2>1, <2>2 DEF LateInv
  <1>3. ASSUME NEW c \in Req, Resume(c) PROVE LateInv'
    BY <1>3 DEF Resume, LateInv
  <1>4. ASSUME NEW c \in Callers, SaveDone(c) PROVE LateInv'
    BY <1>4 DEF SaveDone, LateInv
  <1>5. ASSUME NEW c \in Req, Kill(c) \/ StopEntries(c) PROVE LateInv'
    BY <1>5 DEF Kill, StopEntries, Request, LateInv
  <1>6. ASSUME NEW c \in Callers, WriteKey(c) \/ WriteFails(c) \/ ResumeGoesOn(c) PROVE LateInv'
    BY <1>6 DEF WriteKey, WriteFails, ResumeGoesOn, LateInv
  <1>7. CASE StartCycle \/ Hold \/ Exit \/ MonitorDone \/ CycleDone
    BY <1>7 DEF StartCycle, Hold, Exit, MonitorDone, CycleDone, LateInv
  <1>8. CASE Signal \/ NewDay \/ Crash \/ Restart \/ UNCHANGED vars
    BY <1>8 DEF Signal, NewDay, Crash, Restart, vars, LateInv
  <1> QED
    BY <1>1, <1>2, <1>3, <1>4, <1>5, <1>6, <1>7, <1>8 DEF Next, Http, Save, CycleStep
-----------------------------------------------------------------------------
(* The theorems.                                                           *)

EmergencyInv == TypeOK /\ KillInv /\ SettledInv /\ LateInv

LEMMA EmergencyInit == Init => EmergencyInv
  <1> SUFFICES ASSUME Init PROVE KillInv /\ SettledInv /\ LateInv
    BY TypeInit DEF EmergencyInv
  <1>1. \A c \in Callers : ~Saving(c)
    BY DEF Init, Saving, NotSaving
  <1>2. KillInv
    BY <1>1 DEF Init, KillInv, Standing, KillRecorded
  <1>3. SettledInv
    BY <1>1, LatestNames DEF Init, SettledInv, Settled
  <1> QED
    BY <1>2, <1>3 DEF Init, LateInv

\* Where the database runs the statements in order, the whole inductive invariant holds.
THEOREM EmergencyCorrect ==
  ASSUME Fifo
  PROVE  Spec => []EmergencyInv
  <1>1. Init => EmergencyInv
    BY EmergencyInit
  <1>2. EmergencyInv /\ [Next]_vars => EmergencyInv'
    BY TypeStep, KillStep, SettledStep, LateStep DEF EmergencyInv
  <1> QED
    BY <1>1, <1>2, PTL DEF Spec

\* A kill the operator saw confirmed is in force until a resume, whatever other requests,
\* failing statements and restarts come after it.
THEOREM KillSurvivesAlways ==
  ASSUME Fifo
  PROVE  Spec => []KillSurvives
  <1>1. EmergencyInv => KillSurvives
    BY DEF EmergencyInv, KillInv, Standing, KillSurvives, IsKillSwitchActive
  <1> QED
    BY <1>1, EmergencyCorrect, PTL

\* Once the save begun last was answered, a restart reads back the flags of memory.
THEOREM SettledPersistedAlways ==
  ASSUME Fifo
  PROVE  Spec => []SettledPersisted
  <1>1. EmergencyInv => SettledPersisted
    <2> SUFFICES ASSUME TypeOK, SettledInv, latest = "done" PROVE table = flags
      BY DEF EmergencyInv, SettledPersisted
    <2>1. \A i \in 1..Len(Keys) : table[Keys[i]] = flags[Keys[i]]
      BY DEF SettledInv, Settled
    <2> QED
      BY <2>1, FlagsEqual DEF TypeOK
  <1> QED
    BY <1>1, EmergencyCorrect, PTL

\* At most the one order that was out is filled after a confirmed kill.
THEOREM OneLateEntryAlways ==
  ASSUME Fifo
  PROVE  Spec => []OneLateEntry
  <1>1. EmergencyInv => OneLateEntry
    BY DEF EmergencyInv, TypeOK, LateInv, OneLateEntry
  <1> QED
    BY <1>1, EmergencyCorrect, PTL
=============================================================================
