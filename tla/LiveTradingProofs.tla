-------------------------- MODULE LiveTradingProofs --------------------------
(***************************************************************************)
(* LIVE positions and their transactions, for any number of positions,     *)
(* transactions, failing statements and crashes: an unresolved sale is     *)
(* never executable again, what is sold is what was bought, and a row that *)
(* is final stays so.                                                      *)
(***************************************************************************)
EXTENDS LiveTrading, FiniteSetTheorems, TLAPS

USE LiveAssumption

-----------------------------------------------------------------------------
(***************************************************************************)
(* The inductive invariant.                                                *)
(*                                                                         *)
(* TxInv: what is true of the transactions by themselves.  ControlInv: what*)
(* the cycle is waiting for in each of its phases.                         *)
(***************************************************************************)
Exists(s) == s.status # "NONE"

TxInv ==
    /\ IsFiniteSet(txs)
    /\ \A x \in txs :
          /\ x.id \in 1..Cardinality(txs) /\ x.boot <= crashes
          /\ phase = "down" => x.boot < crashes
          /\ x.fate = "pending" => ~x.known
          /\ x.side = "BUY" => x.qty = Size
    /\ \A x, y \in txs : x.id = y.id => x = y

Awaits(side) ==
    \E x \in Active : x.pos = cur /\ x.side = side /\ x.boot = crashes /\ ~x.known

ControlInv ==
    /\ phase \in {"buying", "insert", "exit", "selling", "record", "closing"} => cur \in Pos
    /\ phase = "down" => \A p \in Pos : mem[p].status = "NONE"
    /\ phase = "buying" =>
          /\ Awaits("BUY")
          /\ mem[cur].status = "NONE" /\ row[cur].status = "NONE" /\ \A w \in late : w.pos # cur
    /\ phase = "selling" =>
          /\ Awaits("SELL")
          /\ mem[cur].status \in OpenStatuses
          /\ fraction = "half" => mem[cur].status = "OPEN"
    /\ phase \in {"insert", "record", "closing"} => Exists(mem[cur])
    /\ \A w \in late : Exists(w.snap)

(***************************************************************************)
(* The versions of a position: the one in memory, the row, and the ones    *)
(* that may still reach the row.  No other is later than the one in        *)
(* memory; one that is unresolved is later than all that are not, and then *)
(* memory is unresolved too.                                               *)
(***************************************************************************)
Versions(p) == {mem[p], row[p]} \cup {w.snap : w \in {v \in late : v.pos = p}}

VersionsOrdered(p) ==
    \A s \in Versions(p) : Exists(s) =>
        /\ Exists(mem[p]) => s.updatedAt <= mem[p].updatedAt
        /\ s.status = "CLOSING" =>
              /\ Running => mem[p].status = "CLOSING"
              /\ \A t \in Versions(p) :
                    Exists(t) /\ t.status # "CLOSING" => t.updatedAt < s.updatedAt

(***************************************************************************)
(* Tokens.  With one BUY for the position, the wallet never holds more     *)
(* than any version of it says: a version is written when its sales were   *)
(* answered, and a sale that was not only takes more out of the wallet.    *)
(***************************************************************************)
OneBuy(p) == \A x, y \in Of(p, "BUY") : x = y

Bought(p) == \E x \in Of(p, "BUY") : x.fate = "landed"

VersionsBacked(p) ==
    \A s \in Versions(p) : Exists(s) =>
        /\ Of(p, "BUY") # {}
        /\ s.status = "CLOSED" => s.tokens = 0
        /\ OneBuy(p) => Bought(p) /\ held[p] <= s.tokens

HoldingsBacked(p) ==
    /\ held[p] > 0 => Bought(p)
    /\ OneBuy(p) => held[p] <= Size
    /\ phase = "selling" /\ cur = p /\ OneBuy(p)
          => \A x \in Active : x.fate = "landed" => held[p] + x.qty <= mem[p].tokens

(***************************************************************************)
(* Sales of this run of the program: the one awaited is the only one open  *)
(* to doubt in a position that is executable, and the ones answered are    *)
(* what its tokens leave out.                                              *)
(***************************************************************************)
SalesResolved(p) ==
    Running => \A x \in Of(p, "SELL") : x.boot = crashes =>
        /\ Exists(mem[p])
        /\ ~x.known /\ mem[p].status \in OpenStatuses => phase = "selling" /\ cur = p /\ x \in Active

Sold(p) == {x \in Of(p, "SELL") : x.fate = "landed" /\ x.known}

OfThisBoot(p) == \A x \in txs : x.pos = p => x.boot = crashes

Accounted(p) ==
    OfThisBoot(p) =>
        /\ mem[p].status = "OPEN" => Sold(p) = {} /\ mem[p].tokens = Size
        /\ mem[p].status = "PARTIAL_EXIT" =>
              \E x \in Sold(p) : Sold(p) = {x} /\ mem[p].tokens = Size - x.qty

PositionInv(p) ==
    /\ VersionsOrdered(p) /\ VersionsBacked(p)
    /\ HoldingsBacked(p) /\ SalesResolved(p) /\ Accounted(p)

LiveInv == TypeOK /\ TxInv /\ ControlInv /\ \A p \in Pos : PositionInv(p)
-----------------------------------------------------------------------------
(* Transactions.                                                           *)

LEMMA BoundsTyped ==
  /\ Size \in Nat /\ Size > 1 /\ NoPos \notin Pos
  /\ MaxTx \in Nat /\ MaxTightens \in Nat /\ MaxFaults \in Nat /\ MaxCrashes \in Nat /\ MaxLate \in Nat
  OBVIOUS

LEMMA PositionFields ==
  ASSUME NEW s \in Position
  PROVE  s.status \in Statuses /\ s.tokens \in Nat /\ s.updatedAt \in Nat
  BY DEF Position

LEMMA PositionRecord ==
  ASSUME NEW status \in Statuses, NEW tokens \in Nat, NEW updatedAt \in Nat
  PROVE  [status |-> status, tokens |-> tokens, updatedAt |-> updatedAt] \in Position
  BY DEF Position

LEMMA TxFields ==
  ASSUME NEW x \in Tx
  PROVE  /\ x.id \in 1..MaxTx /\ x.pos \in Pos /\ x.side \in {"BUY", "SELL"} /\ x.qty \in 1..Size
         /\ x.fate \in {"pending", "landed", "failed"} /\ x.known \in BOOLEAN /\ x.boot \in 0..MaxCrashes
         /\ x.id \in Nat /\ x.qty \in Nat /\ x.boot \in Nat
  BY BoundsTyped DEF Tx

LEMMA OneMore ==
  ASSUME NEW S, IsFiniteSet(S), NEW x, x \notin S
  PROVE  IsFiniteSet(S \cup {x}) /\ Cardinality(S \cup {x}) = Cardinality(S) + 1 /\ Cardinality(S) \in Nat
  BY FS_AddElement, FS_CardinalityType

LEMMA OneReplaced ==
  ASSUME NEW S, IsFiniteSet(S), NEW x \in S, NEW y, y \notin S \ {x}
  PROVE  IsFiniteSet((S \ {x}) \cup {y}) /\ Cardinality((S \ {x}) \cup {y}) = Cardinality(S)
  <1>1. IsFiniteSet(S \ {x}) /\ Cardinality(S \ {x}) = Cardinality(S) - 1 /\ Cardinality(S) \in Nat
    BY FS_RemoveElement, FS_CardinalityType
  <1>2. IsFiniteSet((S \ {x}) \cup {y}) /\ Cardinality((S \ {x}) \cup {y}) = Cardinality(S \ {x}) + 1
    BY <1>1, OneMore
  <1> QED
    BY <1>1, <1>2

Tradable(side, qty) == side \in {"BUY", "SELL"} /\ qty \in 1..Size /\ (side = "BUY" => qty = Size)

Submitted(new, p, side, qty) ==
    /\ new.pos = p /\ new.side = side /\ new.qty = qty /\ new.fate = "pending"
    /\ new.known = FALSE /\ new.boot = crashes
    /\ txs' = txs \cup {new} /\ Active' = {new} /\ new \notin txs
    /\ txs' \subseteq Tx /\ TxInv'

\* A submission: the new transaction is the one being monitored.
LEMMA SubmitAdds ==
  ASSUME TypeOK, TxInv, NEW p \in Pos, NEW side, NEW qty, Tradable(side, qty),
         Submit(p, side, qty), phase' # "down", crashes' = crashes
  PROVE  \E new \in Tx : Submitted(new, p, side, qty)
  <1> DEFINE new == [id |-> Cardinality(txs) + 1, pos |-> p, side |-> side, qty |-> qty,
                     fate |-> "pending", known |-> FALSE, boot |-> crashes]
  <1>1. Cardinality(txs) \in Nat /\ Cardinality(txs) < MaxTx /\ txs' = txs \cup {new}
    BY FS_CardinalityType DEF Submit, TxInv
  <1>2. new \in Tx
    BY <1>1, BoundsTyped DEF Tx, TypeOK, Tradable
  <1>3. \A x \in txs : x.id \in 1..Cardinality(txs) /\ x.id # new.id
    BY <1>1 DEF TxInv
  <1>4. new \notin txs
    BY <1>3
  <1>5. /\ new.id = Cardinality(txs) + 1 /\ new.pos = p /\ new.side = side /\ new.qty = qty
        /\ new.fate = "pending" /\ new.known = FALSE /\ new.boot = crashes
    OBVIOUS
  <1> HIDE DEF new
  <1>6. IsFiniteSet(txs') /\ Cardinality(txs') = Cardinality(txs) + 1
    BY <1>1, <1>4, OneMore DEF TxInv
  <1>7. Active' = {new}
    BY <1>1, <1>3, <1>5, <1>6 DEF Active
  <1>8. txs' \subseteq Tx
    BY <1>1, <1>2 DEF TypeOK
  <1>9. TxInv'
    <2>1. \A x, y \in txs' : x.id = y.id => x = y
      BY <1>1, <1>3 DEF TxInv
    <2>2. crashes \in Nat
      BY BoundsTyped DEF TypeOK
    <2>3. ASSUME NEW x \in txs'
          PROVE  /\ x.id \in 1..Cardinality(txs') /\ x.boot <= crashes'
                 /\ x.fate = "pending" => ~x.known
                 /\ x.side = "BUY" => x.qty = Size
      <3>1. CASE x \in txs
        BY <1>1, <1>3, <1>6, <3>1 DEF TxInv
      <3>2. CASE x = new
        BY <1>1, <1>5, <1>6, <2>2, <3>2 DEF Tradable
      <3> QED
        BY <1>1, <3>1, <3>2
    <2> QED
      BY <1>6, <2>1, <2>3 DEF TxInv
  <1> QED
    BY <1>1, <1>2, <1>4, <1>5, <1>7, <1>8, <1>9 DEF Submitted

\* The same transaction, with another fate or known.
SameTx(x, y) ==
    /\ y \in Tx /\ y.id = x.id /\ y.pos = x.pos /\ y.side = x.side /\ y.qty = x.qty /\ y.boot = x.boot
    /\ y.fate = "pending" => ~y.known

LEMMA TxReplaced ==
  ASSUME TypeOK, TxInv, NEW x \in txs, NEW y, SameTx(x, y), txs' = (txs \ {x}) \cup {y},
         phase' = "down" => phase = "down", crashes' = crashes
  PROVE  /\ TxInv' /\ txs' \subseteq Tx
         /\ Cardinality(txs') = Cardinality(txs)
         /\ Active' = IF x \in Active THEN {y} ELSE Active
         /\ \A p \in Pos : OneBuy(p)' <=> OneBuy(p)
         /\ \A p \in Pos : OfThisBoot(p)' <=> OfThisBoot(p)
         /\ \A p \in Pos, side \in {"BUY", "SELL"} :
               Of(p, side)' = IF x \in Of(p, side) THEN (Of(p, side) \ {x}) \cup {y} ELSE Of(p, side)
  <1>1. /\ y \in Tx /\ y.id = x.id /\ y.pos = x.pos /\ y.side = x.side /\ y.qty = x.qty /\ y.boot = x.boot
        /\ y.fate = "pending" => ~y.known
    BY DEF SameTx
  <1>2. \A z \in txs \ {x} : z.id # x.id
    BY DEF TxInv
  <1>3. y \notin txs \ {x}
    BY <1>1, <1>2
  <1>4. IsFiniteSet(txs') /\ Cardinality(txs') = Cardinality(txs)
    BY <1>3, OneReplaced DEF TxInv
  <1>5. txs' \subseteq Tx
    BY <1>1 DEF TypeOK
  <1>6. TxInv'
    <2>1. \A u, v \in txs' : u.id = v.id => u = v
      BY <1>1, <1>2 DEF TxInv
    <2>2. ASSUME NEW z \in txs'
          PROVE  /\ z.id \in 1..Cardinality(txs') /\ z.boot <= crashes'
                 /\ phase' = "down" => z.boot < crashes'
                 /\ z.fate = "pending" => ~z.known
                 /\ z.side = "BUY" => z.qty = Size
      BY <1>1, <1>4, <2>2 DEF TxInv
    <2> QED
      BY <1>4, <2>1, <2>2 DEF TxInv
  <1>7. Active' = IF x \in Active THEN {y} ELSE Active
    <2>1. \A z \in txs' : z \in Active' <=> z.id = Cardinality(txs)
      BY <1>4 DEF Active
    <2>2. x \in Active => Active = {x}
      BY DEF Active, TxInv
    <2>3. CASE x \in Active
      BY <1>1, <1>2, <1>4, <2>1, <2>3 DEF Active
    <2>4. CASE x \notin Active
      BY <1>1, <1>2, <1>4, <2>1, <2>4 DEF Active
    <2> QED
      BY <2>3, <2>4
  <1>8. \A p \in Pos, side \in {"BUY", "SELL"} :
           Of(p, side)' = IF x \in Of(p, side) THEN (Of(p, side) \ {x}) \cup {y} ELSE Of(p, side)
    BY <1>1 DEF Of
  <1>9. \A p \in Pos : OneBuy(p)' <=> OneBuy(p)
    BY <1>8, <1>3 DEF OneBuy, Of
  <1>10. \A p \in Pos : OfThisBoot(p)' <=> OfThisBoot(p)
    BY <1>1 DEF OfThisBoot
  <1> QED
    BY <1>4, <1>5, <1>6, <1>7, <1>8, <1>9, <1>10

LEMMA ToldReplaces ==
  ASSUME TypeOK, TxInv, NEW fate \in {"landed", "failed"}, Told(fate)
  PROVE  \E x \in txs, y \in Tx :
            /\ x \in Active /\ x.fate = fate /\ SameTx(x, y) /\ y.fate = fate /\ y.known
            /\ txs' = (txs \ {x}) \cup {y}
  <1>1. PICK x \in Active : x.fate = fate /\ txs' = (txs \ {x}) \cup {[x EXCEPT !.known = TRUE]}
    BY DEF Told
  <1>2. x \in txs /\ x \in Tx
    BY DEF Active, TypeOK
  <1>3. [x EXCEPT !.known = TRUE] \in Tx
    BY <1>2 DEF Tx
  <1> QED
    BY <1>1, <1>2, <1>3 DEF SameTx, Tx
-----------------------------------------------------------------------------
(* The journal: a write changes a row only into a version there already is.*)

JournalTyped == row \in [Pos -> Position] /\ late \subseteq Write

FaultTyped == faults \in 0..MaxFaults

LEMMA RowTyped ==
  ASSUME TypeOK, NEW p \in Pos, NEW s \in Position
  PROVE  Updated(p, s) \in [Pos -> Position] /\ Inserted(p, s) \in [Pos -> Position]
  BY DEF Updated, Inserted, TypeOK

LEMMA RowVersions ==
  ASSUME TypeOK, NEW p \in Pos, NEW s \in Position, NEW q \in Pos
  PROVE  /\ Updated(p, s)[q] = row[q] \/ (q = p /\ Updated(p, s)[q] = s)
         /\ Inserted(p, s)[q] = row[q] \/ (q = p /\ Inserted(p, s)[q] = s)
  BY DEF Updated, Inserted, TypeOK

\* What a write of the journal does to the rows and to the versions.
Journaled ==
    /\ JournalTyped' /\ FaultTyped'
    /\ \A q \in Pos : row'[q] \in Versions(q) /\ {w.snap : w \in {v \in late' : v.pos = q}} \subseteq Versions(q)

LEMMA WriteFailsJournals ==
  ASSUME TypeOK, NEW p \in Pos, NEW op \in {"INSERT", "UPDATE"}, WriteFails(op, p)
  PROVE  Journaled
  <1>1. row' = row /\ faults' \in 0..MaxFaults
    BY BoundsTyped DEF WriteFails, Fault, TypeOK
  <1>2. PICK w \in Write : /\ w.pos = p /\ w.snap = mem[p]
                           /\ late' = late \/ late' = late \cup {w}
    <2>1. [op |-> op, pos |-> p, snap |-> mem[p]] \in Write
      BY DEF Write, TypeOK
    <2> QED
      BY <2>1 DEF WriteFails
  <1>3. late' \subseteq Write
    BY <1>2 DEF TypeOK
  <1>4. \A q \in Pos : {v.snap : v \in {u \in late' : u.pos = q}} \subseteq Versions(q)
    BY <1>2 DEF Versions
  <1> QED
    BY <1>1, <1>3, <1>4 DEF Journaled, JournalTyped, FaultTyped, Versions, TypeOK

LEMMA UpdateJournals ==
  ASSUME TypeOK, NEW p \in Pos, UpdatePosition(p)
  PROVE  Journaled
  <1>1. CASE row' = Updated(p, mem[p]) /\ UNCHANGED <<late, faults>>
    <2>1. mem[p] \in Position
      BY DEF TypeOK
    <2>2. \A q \in Pos : row'[q] \in Versions(q)
      BY <1>1, <2>1, RowVersions DEF Versions
    <2>3. row' \in [Pos -> Position]
      BY <1>1, <2>1, RowTyped
    <2> QED
      BY <1>1, <2>2, <2>3 DEF Journaled, JournalTyped, FaultTyped, Versions, TypeOK
  <1> QED
    BY <1>1, WriteFailsJournals DEF UpdatePosition

LEMMA InsertJournals ==
  ASSUME TypeOK, NEW p \in Pos, row' = Inserted(p, mem[p]), UNCHANGED <<late, faults>>
  PROVE  Journaled
  <1>1. mem[p] \in Position
    BY DEF TypeOK
  <1>2. \A q \in Pos : row'[q] \in Versions(q)
    BY <1>1, RowVersions DEF Versions
  <1>3. row' \in [Pos -> Position]
    BY <1>1, RowTyped
  <1> QED
    BY <1>2, <1>3 DEF Journaled, JournalTyped, FaultTyped, Versions, TypeOK

LEMMA LandJournals ==
  ASSUME TypeOK, Land
  PROVE  /\ Journaled
         /\ \E w \in late : \A q \in Pos \ {w.pos} : row'[q] = row[q]
         /\ late' \subseteq late
  <1>1. PICK w \in late : /\ row' = IF w.op = "INSERT" THEN Inserted(w.pos, w.snap) ELSE Updated(w.pos, w.snap)
                          /\ late' = late \ {w}
    BY DEF Land
  <1>2. w.pos \in Pos /\ w.snap \in Position /\ faults' = faults
    BY DEF TypeOK, Write, Land
  <1>3. \A q \in Pos : row'[q] = row[q] \/ (q = w.pos /\ row'[q] = w.snap)
    BY <1>1, <1>2, RowVersions
  <1>4. \A q \in Pos : row'[q] \in Versions(q)
    BY <1>3 DEF Versions
  <1>5. row' \in [Pos -> Position]
    BY <1>1, <1>2, RowTyped
  <1>6. late' \subseteq late
    BY <1>1
  <1>7. Journaled
    BY <1>2, <1>4, <1>5, <1>6 DEF Journaled, JournalTyped, FaultTyped, Versions, TypeOK
  <1> QED
    BY <1>3, <1>6, <1>7

LEMMA QuietJournals ==
  ASSUME TypeOK, UNCHANGED durable, FaultTyped'
  PROVE  Journaled
  BY DEF Journaled, JournalTyped, durable, Versions, TypeOK
-----------------------------------------------------------------------------
(* Type correctness.                                                       *)

Phases == {"idle", "buying", "insert", "exit", "selling", "record", "closing", "down"}

ProcessTyped ==
    /\ mem \in [Pos -> Position] /\ phase \in Phases
    /\ cur \in Pos \cup {NoPos} /\ fraction \in {"half", "all"}

LEMMA ExposedTyped ==
  ASSUME NEW s \in Position
  PROVE  /\ Exposed(s) \in Position /\ Exposed(s).status = "CLOSING" /\ Exposed(s).tokens = s.tokens
         /\ Exposed(s).updatedAt = s.updatedAt + 1
  <1>1. /\ s = [status |-> s.status, tokens |-> s.tokens, updatedAt |-> s.updatedAt]
        /\ s.tokens \in Nat /\ s.updatedAt \in Nat
    BY DEF Position
  <1>2. Exposed(s) = [status |-> "CLOSING", tokens |-> s.tokens, updatedAt |-> s.updatedAt + 1]
    <2>1. Exposed(s) = [[s EXCEPT !.status = "CLOSING"] EXCEPT !.updatedAt = s.updatedAt + 1]
      BY Zenon DEF Exposed
    <2>2. [s EXCEPT !.status = "CLOSING"] = [status |-> "CLOSING", tokens |-> s.tokens, updatedAt |-> s.updatedAt]
      BY <1>1
    <2> QED
      BY <2>1, <2>2
  <1> QED
    BY <1>1, <1>2 DEF Position, Statuses

LEMMA TypeSplit ==
  TypeOK <=> /\ ProcessTyped /\ JournalTyped /\ FaultTyped /\ crashes \in 0..MaxCrashes
             /\ txs \subseteq Tx /\ held \in [Pos -> Nat]
  BY DEF TypeOK, ProcessTyped, JournalTyped, FaultTyped, Phases

\* A sale that ran, quantities matching: what is left of the position.
LEMMA RemainderTyped ==
  ASSUME NEW s \in Position, NEW q \in Nat, QuantityMatches(s, q), fraction \in {"half", "all"},
         NEW m, m = [status |-> IF fraction = "all" THEN "CLOSED" ELSE "PARTIAL_EXIT",
                     tokens |-> s.tokens - q, updatedAt |-> s.updatedAt + 1]
  PROVE  /\ m \in Position /\ m.updatedAt = s.updatedAt + 1 /\ m.tokens = s.tokens - q
         /\ m.status = IF fraction = "all" THEN "CLOSED" ELSE "PARTIAL_EXIT"
         /\ fraction = "all" => m.tokens = 0
  <1>1. s.tokens \in Nat /\ s.updatedAt \in Nat
    BY PositionFields
  <1>2. s.tokens - q \in Nat /\ (fraction = "all" => s.tokens - q = 0)
    BY <1>1 DEF QuantityMatches
  <1>3. (IF fraction = "all" THEN "CLOSED" ELSE "PARTIAL_EXIT") \in Statuses /\ s.updatedAt + 1 \in Nat
    BY <1>1 DEF Statuses, OpenStatuses
  <1> QED
    BY <1>2, <1>3, PositionRecord

LEMMA SaleConfirmedMem ==
  ASSUME TypeOK, TxInv, ControlInv, SaleConfirmed
  PROVE  \E x \in Active, m \in Position :
            /\ x \in txs /\ x.pos = cur /\ x.side = "SELL" /\ x.boot = crashes /\ Active = {x}
            /\ x.fate = "landed" /\ cur \in Pos /\ mem' = [mem EXCEPT ![cur] = m]
            /\ m.updatedAt = mem[cur].updatedAt + 1
            /\ \/ m.status = "CLOSING" /\ m.tokens = mem[cur].tokens /\ phase' = "closing"
               \/ /\ phase' = "record" /\ m.tokens = mem[cur].tokens - x.qty
                  /\ \/ fraction = "all" /\ m.status = "CLOSED" /\ m.tokens = 0
                     \/ fraction = "half" /\ m.status = "PARTIAL_EXIT"
  <1>1. phase = "selling" /\ cur \in Pos /\ Awaits("SELL") /\ mem[cur] \in Position /\ fraction \in {"half", "all"}
    BY DEF SaleConfirmed, ControlInv, TypeOK
  <1>2. PICK x \in Active : x.pos = cur /\ x.side = "SELL" /\ x.boot = crashes
    BY <1>1 DEF Awaits
  <1>3. Active = {x} /\ x \in txs /\ x \in Tx /\ x.qty \in Nat
    BY <1>2, TxFields DEF Active, TxInv, TypeOK
  <1>4. x.fate = "landed"
    BY <1>3 DEF SaleConfirmed, Told
  <1>5. CASE QuantityMatches(mem[cur], x.qty)
    <2> DEFINE m == [status |-> IF fraction = "all" THEN "CLOSED" ELSE "PARTIAL_EXIT",
                     tokens |-> mem[cur].tokens - x.qty, updatedAt |-> mem[cur].updatedAt + 1]
    <2>1. mem' = [mem EXCEPT ![cur] = m] /\ phase' = "record"
      BY <1>3, <1>5 DEF SaleConfirmed
    <2>2. /\ m \in Position /\ m.updatedAt = mem[cur].updatedAt + 1 /\ m.tokens = mem[cur].tokens - x.qty
          /\ m.status = IF fraction = "all" THEN "CLOSED" ELSE "PARTIAL_EXIT"
          /\ fraction = "all" => m.tokens = 0
      BY <1>1, <1>3, <1>5, RemainderTyped
    <2> HIDE DEF m
    <2> QED
      BY <1>1, <1>2, <1>3, <1>4, <2>1, <2>2
  <1>6. CASE ~QuantityMatches(mem[cur], x.qty)
    <2>1. mem' = [mem EXCEPT ![cur] = Exposed(mem[cur])] /\ phase' = "closing"
      BY <1>3, <1>6 DEF SaleConfirmed
    <2> QED
      BY <1>1, <1>2, <1>3, <1>4, <2>1, ExposedTyped
  <1> QED
    BY <1>5, <1>6

LEMMA TypeInit == Init => TypeOK
  <1> SUFFICES ASSUME Init PROVE TypeOK
    OBVIOUS
  <1>1. Nothing \in Position
    BY DEF Nothing, Position, Statuses
  <1> QED
    BY <1>1, BoundsTyped DEF Init, TypeOK
-----------------------------------------------------------------------------
(* What the steps of each kind keep.                                       *)

LiveTyped == TypeOK /\ TxInv /\ ControlInv

\* Steps on which only the journal and the phase change.
LEMMA JournalKeeps ==
  ASSUME LiveInv, Journaled, UNCHANGED <<mem, fraction, txs, held, crashes>>,
         phase' \in Phases, cur' \in Pos \cup {NoPos},
         \/ phase' = phase /\ cur' = cur
         \/ /\ phase \notin {"selling", "down"} /\ phase' \notin {"selling", "down"}
  PROVE  TypeOK' /\ TxInv' /\ \A q \in Pos : PositionInv(q)'
  <1>1. TypeOK'
    BY TypeSplit DEF LiveInv, TypeOK, Journaled, JournalTyped, FaultTyped, Phases
  <1>2. TxInv'
    BY DEF LiveInv, TxInv
  <1>3. Running' <=> Running
    BY DEF Running
  <1>4. ASSUME NEW q \in Pos PROVE PositionInv(q)'
    <2>1. PositionInv(q)
      BY DEF LiveInv
    <2>2. mem[q] \in Versions(q) /\ Versions(q)' \subseteq Versions(q)
      BY DEF Versions, Journaled
    <2>3. VersionsOrdered(q)'
      BY <1>3, <2>1, <2>2 DEF PositionInv, VersionsOrdered
    <2>4. /\ OneBuy(q)' <=> OneBuy(q)
          /\ Bought(q)' <=> Bought(q)
          /\ Of(q, "BUY")' = Of(q, "BUY") /\ Of(q, "SELL")' = Of(q, "SELL") /\ Active' = Active
      BY DEF OneBuy, Bought, Of, Active
    <2>5. VersionsBacked(q)'
      BY <2>1, <2>2, <2>4 DEF PositionInv, VersionsBacked
    <2>6. HoldingsBacked(q)'
      BY <2>1, <2>4 DEF PositionInv, HoldingsBacked
    <2>7. SalesResolved(q)'
      BY <1>3, <2>1, <2>4 DEF PositionInv, SalesResolved
    <2>8. Accounted(q)'
      BY <2>1 DEF PositionInv, Accounted, OfThisBoot, Sold, Of
    <2> QED
      BY <2>3, <2>5, <2>6, <2>7, <2>8 DEF PositionInv
  <1> QED
    BY <1>1, <1>2, <1>4

\* A position the step is not about.
LEMMA OthersKept ==
  ASSUME LiveInv, NEW q \in Pos, mem'[q] = mem[q], UNCHANGED <<row, late>>, held'[q] = held[q], crashes' = crashes,
         Running, Running',
         Of(q, "BUY")' = Of(q, "BUY"), Of(q, "SELL")' = Of(q, "SELL"),
         OfThisBoot(q)' <=> OfThisBoot(q),
         ~(phase = "selling" /\ cur = q), ~(phase' = "selling" /\ cur' = q)
  PROVE  PositionInv(q)'
  <1>1. PositionInv(q)
    BY DEF LiveInv
  <1>2. Versions(q)' = Versions(q)
    BY DEF Versions
  <1>3. VersionsOrdered(q)'
    BY <1>1, <1>2 DEF PositionInv, VersionsOrdered
  <1>4. (OneBuy(q)' <=> OneBuy(q)) /\ (Bought(q)' <=> Bought(q)) /\ Sold(q)' = Sold(q)
    BY DEF OneBuy, Bought, Sold
  <1>5. VersionsBacked(q)'
    BY <1>1, <1>2, <1>4 DEF PositionInv, VersionsBacked
  <1>6. HoldingsBacked(q)'
    BY <1>1, <1>4 DEF PositionInv, HoldingsBacked
  <1>7. SalesResolved(q)'
    BY <1>1 DEF PositionInv, SalesResolved
  <1>8. Accounted(q)'
    BY <1>1, <1>4 DEF PositionInv, Accounted
  <1> QED
    BY <1>3, <1>5, <1>6, <1>7, <1>8 DEF PositionInv

\* The answer of the chain to the transaction of cur, or none.
LEMMA AnswerKeeps ==
  ASSUME TypeOK, TxInv, NEW side \in {"BUY", "SELL"}, Awaits(side), cur \in Pos,
         UNCHANGED txs \/ \E fate \in {"landed", "failed"} : Told(fate),
         phase' # "down", crashes' = crashes
  PROVE  /\ TxInv' /\ txs' \subseteq Tx
         /\ \A q \in Pos : /\ OneBuy(q)' <=> OneBuy(q)
                           /\ OfThisBoot(q)' <=> OfThisBoot(q)
                           /\ Bought(q)' <=> Bought(q)
                           /\ Of(q, "BUY")' = {} <=> Of(q, "BUY") = {}
         /\ \A q \in Pos \ {cur} : Of(q, "BUY")' = Of(q, "BUY") /\ Of(q, "SELL")' = Of(q, "SELL")
         /\ side = "BUY" => \A q \in Pos : Of(q, "SELL")' = Of(q, "SELL")
  <1>1. CASE UNCHANGED txs
    <2>1. TxInv' /\ txs' \subseteq Tx
      BY <1>1 DEF TxInv, TypeOK
    <2>2. \A q \in Pos : Of(q, "BUY")' = Of(q, "BUY") /\ Of(q, "SELL")' = Of(q, "SELL")
      BY <1>1 DEF Of
    <2>3. \A q \in Pos : (OneBuy(q)' <=> OneBuy(q)) /\ (Bought(q)' <=> Bought(q))
      BY <2>2 DEF OneBuy, Bought
    <2>4. \A q \in Pos : OfThisBoot(q)' <=> OfThisBoot(q)
      BY <1>1 DEF OfThisBoot
    <2> QED
      BY <2>1, <2>2, <2>3, <2>4
  <1>2. ASSUME NEW fate \in {"landed", "failed"}, Told(fate)
        PROVE  /\ TxInv' /\ txs' \subseteq Tx
               /\ \A q \in Pos : /\ OneBuy(q)' <=> OneBuy(q)
                                 /\ OfThisBoot(q)' <=> OfThisBoot(q)
                                 /\ Bought(q)' <=> Bought(q)
                                 /\ Of(q, "BUY")' = {} <=> Of(q, "BUY") = {}
               /\ \A q \in Pos \ {cur} : Of(q, "BUY")' = Of(q, "BUY") /\ Of(q, "SELL")' = Of(q, "SELL")
               /\ side = "BUY" => \A q \in Pos : Of(q, "SELL")' = Of(q, "SELL")
    <2>1. PICK x \in txs, y \in Tx : /\ x \in Active /\ x.fate = fate /\ SameTx(x, y) /\ y.fate = fate
                                     /\ txs' = (txs \ {x}) \cup {y}
      BY <1>2, ToldReplaces
    <2>2. x.pos = cur /\ x.side = side
      BY <2>1 DEF Awaits, Active, TxInv
    <2>3. y.pos = x.pos /\ y.side = x.side
      BY <2>1 DEF SameTx
    <2>4. /\ TxInv' /\ txs' \subseteq Tx
          /\ \A p \in Pos : OneBuy(p)' <=> OneBuy(p)
          /\ \A p \in Pos : OfThisBoot(p)' <=> OfThisBoot(p)
          /\ \A p \in Pos, sd \in {"BUY", "SELL"} :
                Of(p, sd)' = IF x \in Of(p, sd) THEN (Of(p, sd) \ {x}) \cup {y} ELSE Of(p, sd)
      BY <2>1, TxReplaced
    <2>5. \A q \in Pos, sd \in {"BUY", "SELL"} : x \in Of(q, sd) <=> q = cur /\ sd = side
      BY <2>2 DEF Of
    <2>6. ASSUME NEW q \in Pos PROVE (Bought(q)' <=> Bought(q)) /\ (Of(q, "BUY")' = {} <=> Of(q, "BUY") = {})
      <3>1. CASE x \in Of(q, "BUY")
        BY <2>1, <2>4, <3>1 DEF Bought
      <3>2. CASE x \notin Of(q, "BUY")
        BY <2>4, <3>2 DEF Bought
      <3> QED
        BY <3>1, <3>2
    <2>7. \A q \in Pos \ {cur} : Of(q, "BUY")' = Of(q, "BUY") /\ Of(q, "SELL")' = Of(q, "SELL")
      <3> SUFFICES ASSUME NEW q \in Pos \ {cur}, NEW sd \in {"BUY", "SELL"} PROVE Of(q, sd)' = Of(q, sd)
        OBVIOUS
      <3> QED
        BY <2>4, <2>5
    <2>8. ASSUME side = "BUY", NEW q \in Pos PROVE Of(q, "SELL")' = Of(q, "SELL")
      <3>1. x \notin Of(q, "SELL")
        BY <2>5, <2>8
      <3> QED
        BY <2>4, <3>1
    <2> QED
      BY <2>4, <2>6, <2>7, <2>8
  <1> QED
    BY <1>1, <1>2

\* A new version in memory of an executable position.
LEMMA Advances ==
  ASSUME LiveInv, NEW p \in Pos, NEW m \in Position, Running, Running',
         mem[p].status \in OpenStatuses, mem' = [mem EXCEPT ![p] = m], UNCHANGED <<row, late>>,
         m.updatedAt = mem[p].updatedAt + 1, Exists(m)
  PROVE  VersionsOrdered(p)'
  <1>1. mem'[p] = m /\ mem[p] \in Position
    BY DEF LiveInv, TypeOK
  <1>2. \A s \in Versions(p)' : s = m \/ s \in Versions(p)
    BY <1>1 DEF Versions
  <1>3. \A s \in Versions(p) : s \in Position
    BY DEF Versions, LiveInv, TypeOK, Write
  <1>4. Exists(mem[p]) /\ mem[p].status # "CLOSING" /\ VersionsOrdered(p)
    BY DEF Exists, OpenStatuses, LiveInv, PositionInv
  <1>5. \A s \in Versions(p) : Exists(s) => s.updatedAt <= mem[p].updatedAt /\ s.status # "CLOSING"
    BY <1>4 DEF VersionsOrdered
  <1>6. \A s \in Versions(p) : Exists(s) => s.updatedAt < m.updatedAt
    BY <1>1, <1>3, <1>5, PositionFields
  <1>7. m.updatedAt \in Nat
    BY PositionFields
  <1> QED
    BY <1>1, <1>2, <1>3, <1>5, <1>6, <1>7, PositionFields DEF VersionsOrdered
-----------------------------------------------------------------------------
(* The steps.                                                              *)

USE DEF process, durable

\* Every statement that may still land is of a position that exists.
LEMMA LateExists ==
  ASSUME LiveInv, NEW op, NEW p \in Pos, WriteFails(op, p), Exists(mem[p])
  PROVE  \A w \in late' : Exists(w.snap)
  BY DEF WriteFails, LiveInv, ControlInv

LEMMA JournalSteps ==
  ASSUME LiveInv, \/ InsertPosition \/ InsertFails \/ Persist \/ AiExit \/ Hold
                  \/ RecordFails \/ WriteStatus \/ Land
  PROVE  LiveInv'
  <1>0. TypeOK /\ ControlInv /\ cur \in Pos \cup {NoPos} /\ phase \in Phases
    BY DEF LiveInv, TypeOK, Phases
  <1>1. CASE InsertPosition
    <2>1. /\ phase = "insert" /\ phase' = "idle" /\ cur' = NoPos /\ cur \in Pos
          /\ row' = Inserted(cur, mem[cur]) /\ UNCHANGED <<mem, fraction, late, txs, held, faults, crashes>>
      BY <1>0, <1>1 DEF InsertPosition, ControlInv
    <2>2. Journaled
      BY <1>0, <2>1, InsertJournals
    <2>3. ControlInv'
      BY <1>0, <2>1 DEF ControlInv
    <2> QED
      BY <2>1, <2>2, <2>3, JournalKeeps DEF LiveInv, Phases
  <1>2. CASE InsertFails
    <2>1. /\ phase = "insert" /\ phase' = "idle" /\ cur' = NoPos /\ cur \in Pos /\ Exists(mem[cur])
          /\ WriteFails("INSERT", cur) /\ UNCHANGED <<mem, fraction, txs, held, crashes>>
      BY <1>0, <1>2 DEF InsertFails, ControlInv
    <2>2. Journaled
      BY <1>0, <2>1, WriteFailsJournals
    <2>3. \A w \in late' : Exists(w.snap)
      BY <2>1, LateExists
    <2>4. ControlInv'
      BY <1>0, <2>1, <2>3 DEF ControlInv
    <2> QED
      BY <2>1, <2>2, <2>4, JournalKeeps DEF LiveInv, Phases
  <1>3. CASE Persist
    <2>1. PICK p \in Pos : mem[p].status \in OpenStatuses /\ cur' = p /\ UpdatePosition(p)
      BY <1>3 DEF Persist
    <2>2. phase = "idle" /\ phase' = "exit" /\ UNCHANGED <<mem, fraction, txs, held, crashes>>
      BY <1>3 DEF Persist
    <2>3. Journaled
      BY <1>0, <2>1, UpdateJournals
    <2>4. \A w \in late' : Exists(w.snap)
      BY <1>0, <2>1, LateExists DEF UpdatePosition, ControlInv, Exists, OpenStatuses
    <2>5. ControlInv'
      BY <1>0, <2>1, <2>2, <2>4 DEF ControlInv
    <2> QED
      BY <2>1, <2>2, <2>3, <2>5, JournalKeeps DEF LiveInv, Phases
  <1>4. CASE AiExit
    <2>1. phase = "idle" /\ phase' = "exit" /\ cur' \in Pos /\ UNCHANGED <<mem, fraction, row, late, txs, held, faults, crashes>>
      BY <1>4 DEF AiExit
    <2>2. Journaled
      BY <1>0, <2>1, QuietJournals DEF FaultTyped, TypeOK
    <2>3. ControlInv'
      BY <1>0, <2>1 DEF ControlInv
    <2> QED
      BY <2>1, <2>2, <2>3, JournalKeeps DEF LiveInv, Phases
  <1>5. CASE Hold
    <2>1. phase = "exit" /\ phase' = "idle" /\ cur' = NoPos /\ UNCHANGED <<mem, fraction, row, late, txs, held, faults, crashes>>
      BY <1>5 DEF Hold
    <2>2. Journaled
      BY <1>0, <2>1, QuietJournals DEF FaultTyped, TypeOK
    <2>3. ControlInv'
      BY <1>0, <2>1 DEF ControlInv
    <2> QED
      BY <2>1, <2>2, <2>3, JournalKeeps DEF LiveInv, Phases
  <1>6. CASE RecordFails
    <2>1. phase = "record" /\ phase' = "idle" /\ cur' = NoPos /\ UNCHANGED <<mem, fraction, row, late, txs, held, crashes>>
      BY <1>6 DEF RecordFails
    <2>2. faults' \in 0..MaxFaults
      BY <1>0, <1>6, BoundsTyped DEF RecordFails, Fault, TypeOK
    <2>3. Journaled
      BY <1>0, <2>1, <2>2, QuietJournals DEF FaultTyped
    <2>4. ControlInv'
      BY <1>0, <2>1 DEF ControlInv
    <2> QED
      BY <2>1, <2>3, <2>4, JournalKeeps DEF LiveInv, Phases
  <1>7. CASE WriteStatus
    <2>1. /\ phase \in {"record", "closing"} /\ phase' = "idle" /\ cur' = NoPos /\ UpdatePosition(cur)
          /\ cur \in Pos /\ Exists(mem[cur]) /\ UNCHANGED <<mem, fraction, txs, held, crashes>>
      BY <1>0, <1>7 DEF WriteStatus, ControlInv
    <2>2. Journaled
      BY <1>0, <2>1, UpdateJournals
    <2>3. \A w \in late' : Exists(w.snap)
      BY <1>0, <2>1, LateExists DEF UpdatePosition, ControlInv
    <2>4. ControlInv'
      BY <1>0, <2>1, <2>3 DEF ControlInv
    <2> QED
      BY <2>1, <2>2, <2>4, JournalKeeps DEF LiveInv, Phases
  <1>8. CASE Land
    <2>1. UNCHANGED <<mem, phase, cur, fraction, txs, held, faults, crashes>>
      BY <1>8 DEF Land
    <2>2. PICK w \in late : \A q \in Pos \ {w.pos} : row'[q] = row[q]
      BY <1>0, <1>8, LandJournals
    <2>3. Journaled /\ late' \subseteq late
      BY <1>0, <1>8, LandJournals
    <2>4. phase = "buying" => row'[cur].status = "NONE"
      BY <1>0, <2>2 DEF ControlInv
    <2>5. ControlInv'
      BY <1>0, <2>1, <2>3, <2>4 DEF ControlInv, Awaits, Active
    <2> QED
      BY <1>0, <2>1, <2>3, <2>5, JournalKeeps DEF LiveInv
  <1> QED
    BY <1>1, <1>2, <1>3, <1>4, <1>5, <1>6, <1>7, <1>8

LEMMA SubmitBuyKeeps ==
  ASSUME LiveInv, SubmitBuy
  PROVE  LiveInv'
  <1>0. TypeOK /\ TxInv /\ ControlInv
    BY DEF LiveInv
  <1>1. PICK p \in Pos : /\ mem[p].status = "NONE" /\ row[p].status = "NONE" /\ \A w \in late : w.pos # p
                         /\ Submit(p, "BUY", Size) /\ cur' = p
    BY DEF SubmitBuy
  <1>2. phase = "idle" /\ phase' = "buying" /\ UNCHANGED <<mem, fraction, row, late, held, faults, crashes>> /\ Running /\ Running'
    BY DEF SubmitBuy, Running
  <1>3. PICK new \in Tx : Submitted(new, p, "BUY", Size)
    <2>1. Tradable("BUY", Size) /\ crashes' = crashes /\ phase' # "down"
      BY <1>2, BoundsTyped DEF Tradable
    <2>2. Submit(p, "BUY", Size)
      BY <1>1, <1>2
    <2> QED
      BY <1>0, <2>1, <2>2, SubmitAdds
  <1> USE DEF Submitted
  <1>4. TypeOK'
    BY <1>0, <1>1, <1>2, <1>3 DEF TypeOK
  <1>5. ControlInv'
    BY <1>0, <1>1, <1>2, <1>3 DEF ControlInv, Awaits
  <1>6. Of(p, "BUY")' = Of(p, "BUY") \cup {new} /\ Of(p, "SELL")' = Of(p, "SELL")
    BY <1>3 DEF Of
  <1>7. PositionInv(p)'
    <2>1. PositionInv(p)
      BY DEF LiveInv
    <2>2. \A s \in Versions(p)' : ~Exists(s)
      BY <1>1, <1>2 DEF Versions, Exists
    <2>3. VersionsOrdered(p)' /\ VersionsBacked(p)'
      BY <2>2 DEF VersionsOrdered, VersionsBacked
    <2>4. HoldingsBacked(p)'
      <3>1. Bought(p) => Bought(p)'
        BY <1>6 DEF Bought
      <3>2. OneBuy(p)' => ~Bought(p)
        BY <1>3, <1>6 DEF OneBuy, Bought, Of
      <3>3. held[p] \in Nat /\ held'[p] = held[p]
        BY <1>0, <1>2 DEF TypeOK
      <3> QED
        BY <1>2, <2>1, <3>1, <3>2, <3>3, BoundsTyped DEF PositionInv, HoldingsBacked
    <2>5. SalesResolved(p)'
      BY <1>1, <1>2, <1>6, <2>1 DEF PositionInv, SalesResolved, Exists
    <2>6. Accounted(p)'
      BY <1>1, <1>2 DEF Accounted
    <2> QED
      BY <2>3, <2>4, <2>5, <2>6 DEF PositionInv
  <1>8. ASSUME NEW q \in Pos, q # p PROVE PositionInv(q)'
    <2>1. Of(q, "BUY")' = Of(q, "BUY") /\ Of(q, "SELL")' = Of(q, "SELL") /\ (OfThisBoot(q)' <=> OfThisBoot(q))
      BY <1>2, <1>3, <1>8 DEF Of, OfThisBoot
    <2> QED
      BY <1>1, <1>2, <1>8, <2>1, OthersKept
  <1> QED
    BY <1>3, <1>4, <1>5, <1>7, <1>8 DEF LiveInv

LEMMA SubmitSaleKeeps ==
  ASSUME LiveInv, SubmitSale
  PROVE  LiveInv'
  <1>0. TypeOK /\ TxInv /\ ControlInv
    BY DEF LiveInv
  <1>1. PICK p \in Pos : p = cur /\ cur' = p /\ mem[p].status \in OpenStatuses
    BY <1>0 DEF SubmitSale, ControlInv
  <1>2. /\ phase = "exit" /\ phase' = "selling" /\ UNCHANGED <<mem, row, late, held, faults, crashes>>
        /\ Running /\ Running'
    BY DEF SubmitSale, Running
  <1>3. PICK f \in {"half", "all"}, q \in 1..Size :
           /\ f = "half" => mem[p].status = "OPEN"
           /\ fraction' = f /\ Submit(p, "SELL", q)
    BY <1>1 DEF SubmitSale
  <1>4. PICK new \in Tx : Submitted(new, p, "SELL", q)
    <2>1. Tradable("SELL", q) /\ crashes' = crashes /\ phase' # "down"
      BY <1>2 DEF Tradable
    <2>2. Submit(p, "SELL", q)
      BY <1>2, <1>3
    <2> QED
      BY <1>0, <2>1, <2>2, SubmitAdds
  <1> USE DEF Submitted
  <1>5. TypeOK'
    BY <1>0, <1>1, <1>2, <1>3, <1>4 DEF TypeOK
  <1>6. ControlInv'
    BY <1>0, <1>1, <1>2, <1>3, <1>4 DEF ControlInv, Awaits
  <1>7. Of(p, "SELL")' = Of(p, "SELL") \cup {new} /\ Of(p, "BUY")' = Of(p, "BUY")
    BY <1>4 DEF Of
  <1>8. PositionInv(p)'
    <2>1. PositionInv(p)
      BY DEF LiveInv
    <2>2. Versions(p)' = Versions(p) /\ (OneBuy(p)' <=> OneBuy(p)) /\ (Bought(p)' <=> Bought(p))
      BY <1>2, <1>7 DEF Versions, OneBuy, Bought
    <2>3. VersionsOrdered(p)' /\ VersionsBacked(p)'
      BY <1>2, <1>7, <2>1, <2>2 DEF PositionInv, VersionsOrdered, VersionsBacked
    <2>4. HoldingsBacked(p)'
      BY <1>2, <1>4, <2>1, <2>2 DEF PositionInv, HoldingsBacked
    <2>5. SalesResolved(p)'
      BY <1>1, <1>2, <1>4, <1>7, <2>1 DEF PositionInv, SalesResolved, Exists, OpenStatuses
    <2>6. Accounted(p)'
      <3>1. Sold(p)' = Sold(p)
        BY <1>4, <1>7 DEF Sold
      <3>2. OfThisBoot(p)' => OfThisBoot(p)
        BY <1>2, <1>4 DEF OfThisBoot
      <3> QED
        BY <1>2, <2>1, <3>1, <3>2 DEF PositionInv, Accounted
    <2> QED
      BY <2>3, <2>4, <2>5, <2>6 DEF PositionInv
  <1>9. ASSUME NEW other \in Pos, other # p PROVE PositionInv(other)'
    <2>1. Of(other, "BUY")' = Of(other, "BUY") /\ Of(other, "SELL")' = Of(other, "SELL") /\ (OfThisBoot(other)' <=> OfThisBoot(other))
      BY <1>2, <1>4, <1>9 DEF Of, OfThisBoot
    <2> QED
      BY <1>1, <1>2, <1>9, <2>1, OthersKept
  <1> QED
    BY <1>4, <1>5, <1>6, <1>8, <1>9 DEF LiveInv

LEMMA BuyFailsKeeps ==
  ASSUME LiveInv, BuyFails
  PROVE  LiveInv'
  <1>0. TypeOK /\ TxInv /\ ControlInv
    BY DEF LiveInv
  <1>1. PICK p \in Pos : p = cur /\ mem[p].status = "NONE" /\ Awaits("BUY")
    BY <1>0 DEF BuyFails, ControlInv
  <1>2. /\ phase = "buying" /\ phase' = "idle" /\ cur' = NoPos /\ UNCHANGED <<mem, fraction, row, late, held, faults, crashes>>
        /\ Running /\ Running' /\ (Told("failed") \/ UNCHANGED txs)
    BY DEF BuyFails, Running
  <1>3. /\ TxInv' /\ txs' \subseteq Tx
        /\ \A q \in Pos : /\ OneBuy(q)' <=> OneBuy(q)
                          /\ OfThisBoot(q)' <=> OfThisBoot(q)
                          /\ Bought(q)' <=> Bought(q)
        /\ \A q \in Pos \ {p} : Of(q, "BUY")' = Of(q, "BUY") /\ Of(q, "SELL")' = Of(q, "SELL")
        /\ \A q \in Pos : Of(q, "SELL")' = Of(q, "SELL")
    BY <1>0, <1>1, <1>2, AnswerKeeps
  <1>4. TypeOK'
    BY <1>0, <1>2, <1>3 DEF TypeOK
  <1>5. ControlInv'
    BY <1>0, <1>2 DEF ControlInv
  <1>6. PositionInv(p)'
    <2>1. PositionInv(p)
      BY DEF LiveInv
    <2>2. \A s \in Versions(p)' : ~Exists(s)
      BY <1>0, <1>1, <1>2 DEF Versions, Exists, ControlInv
    <2>3. VersionsOrdered(p)' /\ VersionsBacked(p)'
      BY <2>2 DEF VersionsOrdered, VersionsBacked
    <2>4. HoldingsBacked(p)'
      BY <1>2, <1>3, <2>1 DEF PositionInv, HoldingsBacked
    <2>5. SalesResolved(p)'
      BY <1>1, <1>2, <1>3, <2>1 DEF PositionInv, SalesResolved, Exists
    <2>6. Accounted(p)'
      BY <1>1, <1>2 DEF Accounted
    <2> QED
      BY <2>3, <2>4, <2>5, <2>6 DEF PositionInv
  <1>7. ASSUME NEW q \in Pos, q # p PROVE PositionInv(q)'
    BY <1>1, <1>2, <1>3, <1>7, OthersKept
  <1> QED
    BY <1>3, <1>4, <1>5, <1>6, <1>7 DEF LiveInv

LEMMA BuyConfirmedKeeps ==
  ASSUME LiveInv, BuyConfirmed
  PROVE  LiveInv'
  <1> DEFINE new == [status |-> "OPEN", tokens |-> Size, updatedAt |-> 1]
  <1>0. TypeOK /\ TxInv /\ ControlInv
    BY DEF LiveInv
  <1>1. PICK p \in Pos : p = cur /\ cur' = p /\ mem[p].status = "NONE" /\ Awaits("BUY")
    BY <1>0 DEF BuyConfirmed, ControlInv
  <1>2. /\ phase = "buying" /\ phase' = "insert" /\ UNCHANGED <<fraction, row, late, held, faults, crashes>>
        /\ Running /\ Running' /\ Told("landed") /\ mem' = [mem EXCEPT ![p] = new]
    BY <1>1 DEF BuyConfirmed, Running
  <1>3. /\ TxInv' /\ txs' \subseteq Tx
        /\ \A q \in Pos : /\ OneBuy(q)' <=> OneBuy(q)
                          /\ OfThisBoot(q)' <=> OfThisBoot(q)
                          /\ Bought(q)' <=> Bought(q)
                          /\ Of(q, "BUY")' = {} <=> Of(q, "BUY") = {}
        /\ \A q \in Pos \ {p} : Of(q, "BUY")' = Of(q, "BUY") /\ Of(q, "SELL")' = Of(q, "SELL")
        /\ \A q \in Pos : Of(q, "SELL")' = Of(q, "SELL")
    BY <1>0, <1>1, <1>2, AnswerKeeps
  <1>4. new \in Position /\ new.status = "OPEN" /\ new.tokens = Size /\ new.updatedAt = 1
    BY BoundsTyped DEF Position, Statuses, OpenStatuses
  <1> HIDE DEF new
  <1>5. mem'[p] = new /\ \A q \in Pos \ {p} : mem'[q] = mem[q]
    BY <1>0, <1>2 DEF TypeOK
  <1>6. TypeOK'
    BY <1>0, <1>1, <1>2, <1>3, <1>4 DEF TypeOK
  <1>7. ControlInv'
    BY <1>0, <1>1, <1>2, <1>4, <1>5 DEF ControlInv, Exists
  <1>8. PositionInv(p)'
    <2>1. PositionInv(p)
      BY DEF LiveInv
    <2>2. \A s \in Versions(p)' : Exists(s) => s = new
      BY <1>0, <1>1, <1>2, <1>5 DEF Versions, Exists, ControlInv
    <2>3. VersionsOrdered(p)'
      BY <1>4, <1>5, <2>2 DEF VersionsOrdered
    <2>4. PICK x \in Active : x.pos = p /\ x.side = "BUY" /\ x \in txs
      BY <1>1 DEF Awaits, Active
    <2>5. x.fate = "landed"
      BY <1>0, <1>2, <2>4 DEF Told, Active, TxInv
    <2>6. Bought(p)' /\ Of(p, "BUY")' # {}
      BY <1>3, <2>4, <2>5 DEF Bought, Of
    <2>7. OneBuy(p) => held[p] <= Size
      BY <2>1 DEF PositionInv, HoldingsBacked
    <2>8. VersionsBacked(p)'
      BY <1>2, <1>3, <1>4, <2>2, <2>6, <2>7 DEF VersionsBacked
    <2>9. HoldingsBacked(p)'
      BY <1>2, <2>6, <1>3, <2>7 DEF HoldingsBacked
    <2>10. \A s \in Of(p, "SELL") : s.boot # crashes
      BY <1>1, <1>2, <2>1 DEF PositionInv, SalesResolved, Exists
    <2>11. SalesResolved(p)'
      BY <1>2, <1>3, <2>10 DEF SalesResolved
    <2>12. Accounted(p)'
      <3>1. OfThisBoot(p) => Of(p, "SELL") = {}
        BY <2>10 DEF OfThisBoot, Of
      <3> QED
        BY <1>3, <1>4, <1>5, <3>1 DEF Accounted, Sold
    <2> QED
      BY <2>3, <2>8, <2>9, <2>11, <2>12 DEF PositionInv
  <1>9. ASSUME NEW q \in Pos, q # p PROVE PositionInv(q)'
    BY <1>1, <1>2, <1>3, <1>5, <1>9, OthersKept
  <1> QED
    BY <1>3, <1>6, <1>7, <1>8, <1>9 DEF LiveInv

LEMMA TightenKeeps ==
  ASSUME LiveInv, Tighten
  PROVE  LiveInv'
  <1>0. TypeOK /\ TxInv /\ ControlInv
    BY DEF LiveInv
  <1>1. PICK p \in Pos : mem[p].status \in OpenStatuses /\ cur' = p /\ mem' = [mem EXCEPT ![p].updatedAt = @ + 1]
    BY DEF Tighten
  <1>2. /\ phase = "idle" /\ phase' = "record" /\ UNCHANGED <<fraction, row, late, txs, held, faults, crashes>>
        /\ Running /\ Running'
    BY DEF Tighten, Running
  <1>3. PICK m \in Position : /\ m.updatedAt = mem[p].updatedAt + 1 /\ m.status = mem[p].status
                              /\ m.tokens = mem[p].tokens /\ mem' = [mem EXCEPT ![p] = m]
    <2>1. mem[p] \in Position
      BY <1>0 DEF TypeOK
    <2>2. [mem[p] EXCEPT !.updatedAt = @ + 1] \in Position
      BY <2>1 DEF Position
    <2> QED
      BY <1>1, <2>1, <2>2 DEF Position
  <1>4. mem'[p] = m /\ \A q \in Pos \ {p} : mem'[q] = mem[q]
    BY <1>0, <1>3 DEF TypeOK
  <1>5. TxInv' /\ txs' \subseteq Tx
    BY <1>0, <1>2 DEF TypeOK, TxInv
  <1>6. TypeOK'
    BY <1>0, <1>1, <1>2, <1>3, <1>5 DEF TypeOK
  <1>7. ControlInv'
    BY <1>0, <1>1, <1>2, <1>3, <1>4 DEF ControlInv, Exists, OpenStatuses
  <1>8. /\ \A q \in Pos, side \in {"BUY", "SELL"} : Of(q, side)' = Of(q, side)
        /\ \A q \in Pos : OfThisBoot(q)' <=> OfThisBoot(q)
    BY <1>2 DEF Of, OfThisBoot
  <1>9. PositionInv(p)'
    <2>1. PositionInv(p) /\ mem[p] \in Versions(p) /\ Exists(mem[p]) /\ m.status # "CLOSED"
      BY <1>1, <1>3 DEF LiveInv, Versions, Exists, OpenStatuses
    <2>2. VersionsOrdered(p)'
      BY <1>1, <1>2, <1>3, <2>1, Advances DEF Exists
    <2>3. \A s \in Versions(p)' : s \in Versions(p) \/ s = m
      BY <1>2, <1>4 DEF Versions
    <2>4. (OneBuy(p)' <=> OneBuy(p)) /\ (Bought(p)' <=> Bought(p)) /\ Sold(p)' = Sold(p)
      BY <1>8 DEF OneBuy, Bought, Sold
    <2>5. VersionsBacked(p)'
      BY <1>2, <1>3, <1>8, <2>1, <2>3, <2>4 DEF PositionInv, VersionsBacked
    <2>6. HoldingsBacked(p)'
      BY <1>2, <2>1, <2>4 DEF PositionInv, HoldingsBacked
    <2>7. SalesResolved(p)'
      BY <1>1, <1>2, <1>3, <1>4, <1>8, <2>1 DEF PositionInv, SalesResolved, Exists
    <2>8. Accounted(p)'
      BY <1>3, <1>4, <1>8, <2>1, <2>4 DEF PositionInv, Accounted
    <2> QED
      BY <2>2, <2>5, <2>6, <2>7, <2>8 DEF PositionInv
  <1>10. ASSUME NEW q \in Pos, q # p PROVE PositionInv(q)'
    BY <1>1, <1>2, <1>4, <1>8, <1>10, OthersKept
  <1> QED
    BY <1>5, <1>6, <1>7, <1>9, <1>10 DEF LiveInv

\* A position whose sale is not confirmed becomes exposure.
LEMMA ExposureKeeps ==
  ASSUME LiveInv, NEW p \in Pos, NEW m \in Position, Running, Running',
         mem[p].status \in OpenStatuses, mem' = [mem EXCEPT ![p] = m], UNCHANGED <<row, late, held, crashes>>,
         m.updatedAt = mem[p].updatedAt + 1, m.status = "CLOSING", m.tokens = mem[p].tokens,
         phase' # "selling",
         OneBuy(p)' <=> OneBuy(p), Bought(p)' <=> Bought(p), Of(p, "BUY")' = {} <=> Of(p, "BUY") = {}
  PROVE  PositionInv(p)'
  <1>1. PositionInv(p) /\ mem[p] \in Versions(p) /\ Exists(mem[p]) /\ mem'[p] = m
    BY DEF LiveInv, Versions, Exists, OpenStatuses, TypeOK
  <1>2. Exists(m) /\ m.status \notin OpenStatuses
    BY DEF Exists, OpenStatuses
  <1>3. VersionsOrdered(p)'
    BY <1>2, Advances
  <1>4. \A s \in Versions(p)' : s \in Versions(p) \/ s = m
    BY <1>1 DEF Versions
  <1>5. VersionsBacked(p)'
    BY <1>1, <1>4 DEF PositionInv, VersionsBacked
  <1>6. HoldingsBacked(p)'
    BY <1>1 DEF PositionInv, HoldingsBacked
  <1>7. SalesResolved(p)'
    BY <1>1, <1>2 DEF SalesResolved
  <1>8. Accounted(p)'
    BY <1>1 DEF Accounted
  <1> QED
    BY <1>3, <1>5, <1>6, <1>7, <1>8 DEF PositionInv

LEMMA SaleRefusedKeeps ==
  ASSUME LiveInv, SaleRefused
  PROVE  LiveInv'
  <1>0. TypeOK /\ TxInv /\ ControlInv
    BY DEF LiveInv
  <1>1. PICK p \in Pos : p = cur /\ cur' = p /\ mem[p].status \in OpenStatuses
    BY <1>0 DEF SaleRefused, ControlInv
  <1>2. /\ phase = "exit" /\ phase' = "closing" /\ UNCHANGED <<fraction, row, late, txs, held, faults, crashes>>
        /\ Running /\ Running'
    BY DEF SaleRefused, Running
  <1>3. PICK m \in Position : /\ m.updatedAt = mem[p].updatedAt + 1 /\ m.status = "CLOSING"
                              /\ m.tokens = mem[p].tokens /\ mem' = [mem EXCEPT ![p] = m]
    <2>1. mem[p] \in Position
      BY <1>0 DEF TypeOK
    <2> QED
      BY <1>1, <2>1, ExposedTyped DEF SaleRefused
  <1>4. mem'[p] = m /\ \A q \in Pos \ {p} : mem'[q] = mem[q]
    BY <1>0, <1>3 DEF TypeOK
  <1>5. TxInv' /\ txs' \subseteq Tx
    BY <1>0, <1>2 DEF TypeOK, TxInv
  <1>6. TypeOK'
    BY <1>0, <1>1, <1>2, <1>3, <1>5 DEF TypeOK
  <1>7. ControlInv'
    BY <1>0, <1>1, <1>2, <1>3, <1>4 DEF ControlInv, Exists
  <1>8. /\ \A q \in Pos, side \in {"BUY", "SELL"} : Of(q, side)' = Of(q, side)
        /\ \A q \in Pos : OfThisBoot(q)' <=> OfThisBoot(q)
    BY <1>2 DEF Of, OfThisBoot
  <1>9. PositionInv(p)'
    <2>1. (OneBuy(p)' <=> OneBuy(p)) /\ (Bought(p)' <=> Bought(p))
      BY <1>8 DEF OneBuy, Bought
    <2> QED
      BY <1>1, <1>2, <1>3, <1>8, <2>1, ExposureKeeps
  <1>10. ASSUME NEW q \in Pos, q # p PROVE PositionInv(q)'
    BY <1>1, <1>2, <1>4, <1>8, <1>10, OthersKept
  <1> QED
    BY <1>5, <1>6, <1>7, <1>9, <1>10 DEF LiveInv

LEMMA SaleFailsKeeps ==
  ASSUME LiveInv, SaleFails
  PROVE  LiveInv'
  <1>0. TypeOK /\ TxInv /\ ControlInv
    BY DEF LiveInv
  <1>1. PICK p \in Pos : p = cur /\ cur' = p /\ mem[p].status \in OpenStatuses /\ Awaits("SELL")
    BY <1>0 DEF SaleFails, ControlInv
  <1>2. /\ phase = "selling" /\ phase' = "closing" /\ UNCHANGED <<fraction, row, late, held, faults, crashes>>
        /\ Running /\ Running' /\ (Told("failed") \/ UNCHANGED txs)
    BY DEF SaleFails, Running
  <1>3. PICK m \in Position : /\ m.updatedAt = mem[p].updatedAt + 1 /\ m.status = "CLOSING"
                              /\ m.tokens = mem[p].tokens /\ mem' = [mem EXCEPT ![p] = m]
    <2>1. mem[p] \in Position
      BY <1>0 DEF TypeOK
    <2> QED
      BY <1>1, <2>1, ExposedTyped DEF SaleFails
  <1>4. mem'[p] = m /\ \A q \in Pos \ {p} : mem'[q] = mem[q]
    BY <1>0, <1>3 DEF TypeOK
  <1>5. /\ TxInv' /\ txs' \subseteq Tx
        /\ \A q \in Pos : /\ OneBuy(q)' <=> OneBuy(q)
                          /\ OfThisBoot(q)' <=> OfThisBoot(q)
                          /\ Bought(q)' <=> Bought(q)
                          /\ Of(q, "BUY")' = {} <=> Of(q, "BUY") = {}
        /\ \A q \in Pos \ {p} : Of(q, "BUY")' = Of(q, "BUY") /\ Of(q, "SELL")' = Of(q, "SELL")
    BY <1>0, <1>1, <1>2, AnswerKeeps
  <1>6. TypeOK'
    BY <1>0, <1>1, <1>2, <1>3, <1>5 DEF TypeOK
  <1>7. ControlInv'
    BY <1>0, <1>1, <1>2, <1>3, <1>4 DEF ControlInv, Exists
  <1>8. PositionInv(p)'
    BY <1>1, <1>2, <1>3, <1>5, ExposureKeeps
  <1>9. ASSUME NEW q \in Pos, q # p PROVE PositionInv(q)'
    BY <1>1, <1>2, <1>4, <1>5, <1>9, OthersKept
  <1> QED
    BY <1>5, <1>6, <1>7, <1>8, <1>9 DEF LiveInv

LEMMA SaleConfirmedKeeps ==
  ASSUME LiveInv, SaleConfirmed
  PROVE  LiveInv'
  <1>0. TypeOK /\ TxInv /\ ControlInv
    BY DEF LiveInv
  <1>1. PICK p \in Pos : p = cur /\ cur' = p /\ mem[p].status \in OpenStatuses /\ Awaits("SELL")
                         /\ (fraction = "half" => mem[p].status = "OPEN")
    BY <1>0 DEF SaleConfirmed, ControlInv
  <1>2. /\ phase = "selling" /\ phase' \in {"closing", "record"} /\ UNCHANGED <<fraction, row, late, held, faults, crashes>>
        /\ Running /\ Running' /\ Told("landed")
    BY DEF SaleConfirmed, Running
  <1>3. PICK x \in Active, m \in Position :
            /\ x \in txs /\ x.pos = p /\ x.side = "SELL" /\ x.boot = crashes /\ Active = {x}
            /\ x.fate = "landed" /\ mem' = [mem EXCEPT ![p] = m]
            /\ m.updatedAt = mem[p].updatedAt + 1
            /\ \/ m.status = "CLOSING" /\ m.tokens = mem[p].tokens
               \/ /\ m.tokens = mem[p].tokens - x.qty
                  /\ \/ fraction = "all" /\ m.status = "CLOSED" /\ m.tokens = 0
                     \/ fraction = "half" /\ m.status = "PARTIAL_EXIT"
    BY <1>0, <1>1, SaleConfirmedMem
  <1>4. mem'[p] = m /\ (\A q \in Pos \ {p} : mem'[q] = mem[q]) /\ Exists(m)
    BY <1>0, <1>3 DEF TypeOK, Exists
  <1>5. /\ TxInv' /\ txs' \subseteq Tx
        /\ \A q \in Pos : /\ OneBuy(q)' <=> OneBuy(q)
                          /\ OfThisBoot(q)' <=> OfThisBoot(q)
                          /\ Bought(q)' <=> Bought(q)
                          /\ Of(q, "BUY")' = {} <=> Of(q, "BUY") = {}
        /\ \A q \in Pos \ {p} : Of(q, "BUY")' = Of(q, "BUY") /\ Of(q, "SELL")' = Of(q, "SELL")
    BY <1>0, <1>1, <1>2, AnswerKeeps
  <1>6. TypeOK'
    BY <1>0, <1>1, <1>2, <1>3, <1>5 DEF TypeOK, SaleConfirmed
  <1>7. ControlInv'
    BY <1>0, <1>1, <1>2, <1>4 DEF ControlInv
  <1>8. PositionInv(p)'
    <2>1. CASE m.status = "CLOSING"
      BY <1>1, <1>2, <1>3, <1>5, <2>1, ExposureKeeps
    <2>2. CASE m.status # "CLOSING"
      <3>1. /\ m.tokens = mem[p].tokens - x.qty
            /\ \/ fraction = "all" /\ m.status = "CLOSED" /\ m.tokens = 0
               \/ fraction = "half" /\ m.status = "PARTIAL_EXIT"
        BY <1>3, <2>2
      <3>2. PositionInv(p) /\ mem[p] \in Versions(p) /\ Exists(mem[p])
        BY <1>1 DEF LiveInv, Versions, Exists, OpenStatuses
      <3>3. \A s \in Versions(p)' : s \in Versions(p) \/ s = m
        BY <1>2, <1>4 DEF Versions
      <3>4. PICK y \in Tx : SameTx(x, y) /\ y.fate = "landed" /\ y.known /\ txs' = (txs \ {x}) \cup {y}
        BY <1>0, <1>2, <1>3, ToldReplaces
      <3>5. y.pos = p /\ y.side = "SELL" /\ y.boot = crashes /\ y.qty = x.qty /\ x.qty \in Nat /\ held[p] \in Nat
            /\ mem[p].tokens \in Nat
        BY <1>0, <1>3, <3>4, TxFields, PositionFields DEF SameTx, TypeOK
      <3>6. x \in Of(p, "SELL") /\ Of(p, "SELL")' = (Of(p, "SELL") \ {x}) \cup {y}
        BY <1>3, <3>4, <3>5 DEF Of
      <3>7. VersionsOrdered(p)'
        BY <1>1, <1>2, <1>3, <1>4, Advances
      <3>8. VersionsBacked(p)'
        <4>1. OneBuy(p) => Bought(p) /\ held[p] + x.qty <= mem[p].tokens
          BY <1>1, <1>2, <1>3, <3>2 DEF PositionInv, HoldingsBacked, VersionsBacked
        <4>2. OneBuy(p) => Bought(p) /\ held[p] <= m.tokens
          BY <3>1, <3>5, <4>1
        <4> QED
          BY <1>2, <1>5, <3>1, <3>2, <3>3, <4>2 DEF PositionInv, VersionsBacked
      <3>9. HoldingsBacked(p)'
        BY <1>2, <1>5, <3>2 DEF PositionInv, HoldingsBacked
      <3>10. SalesResolved(p)'
        BY <1>1, <1>2, <1>3, <1>4, <3>2, <3>4, <3>6 DEF PositionInv, SalesResolved
      <3>11. Accounted(p)'
        <4>1. CASE fraction = "half" /\ m.status = "PARTIAL_EXIT"
          <5>1. OfThisBoot(p) => Sold(p) = {} /\ mem[p].tokens = Size
            BY <1>1, <3>2, <4>1 DEF PositionInv, Accounted
          <5>2. OfThisBoot(p) => Sold(p)' = {y}
            BY <3>4, <3>6, <5>1 DEF Sold
          <5> QED
            BY <1>4, <1>5, <3>1, <3>5, <4>1, <5>1, <5>2 DEF Accounted
        <4>2. CASE m.status = "CLOSED"
          BY <1>4, <4>2 DEF Accounted
        <4> QED
          BY <3>1, <4>1, <4>2
      <3> QED
        BY <3>7, <3>8, <3>9, <3>10, <3>11 DEF PositionInv
    <2> QED
      BY <2>1, <2>2
  <1>9. ASSUME NEW q \in Pos, q # p PROVE PositionInv(q)'
    BY <1>1, <1>2, <1>4, <1>5, <1>9, OthersKept
  <1> QED
    BY <1>5, <1>6, <1>7, <1>8, <1>9 DEF LiveInv

\* What the chain does to a transaction nobody was told about.
LEMMA ChainReplaces ==
  ASSUME TypeOK, TxInv, Chain
  PROVE  \E x \in txs, y \in Tx :
            /\ x.fate = "pending" /\ ~x.known /\ ~y.known /\ y.fate \in {"landed", "failed"}
            /\ SameTx(x, y) /\ txs' = (txs \ {x}) \cup {y}
            /\ \/ y.fate = "failed" /\ held' = held
               \/ /\ y.fate = "landed" /\ x.side = "BUY"
                  /\ \E n \in {Size - 1, Size} : held' = [held EXCEPT ![x.pos] = @ + n]
               \/ /\ y.fate = "landed" /\ x.side = "SELL" /\ x.qty <= held[x.pos]
                  /\ held' = [held EXCEPT ![x.pos] = @ - x.qty]
  <1>1. PICK x \in txs, fate \in {"landed", "failed"} :
          /\ x.fate = "pending"
          /\ txs' = (txs \ {x}) \cup {[x EXCEPT !.fate = fate]}
          /\ CASE fate = "failed" -> held' = held
               [] fate = "landed" /\ x.side = "BUY" ->
                    \E n \in {x.qty - 1, x.qty} : held' = [held EXCEPT ![x.pos] = @ + n]
               [] OTHER -> /\ x.qty <= held[x.pos]
                           /\ held' = [held EXCEPT ![x.pos] = @ - x.qty]
    BY DEF Chain
  <1>2. x \in Tx /\ ~x.known /\ (x.side = "BUY" => x.qty = Size) /\ x.side \in {"BUY", "SELL"}
    BY <1>1, TxFields DEF TypeOK, TxInv
  <1> DEFINE y == [x EXCEPT !.fate = fate]
  <1>3. y \in Tx /\ y.fate = fate /\ ~y.known /\ SameTx(x, y)
    BY <1>1, <1>2 DEF Tx, SameTx
  <1>4. CASE fate = "failed"
    BY <1>1, <1>2, <1>3, <1>4
  <1>5. CASE fate = "landed" /\ x.side = "BUY"
    BY <1>1, <1>2, <1>3, <1>5
  <1>6. CASE fate = "landed" /\ x.side = "SELL"
    BY <1>1, <1>2, <1>3, <1>6
  <1> QED
    BY <1>2, <1>4, <1>5, <1>6

\* A position the chain's decision is not about.
LEMMA BystanderKept ==
  ASSUME LiveInv, NEW q \in Pos, UNCHANGED <<mem, row, late, phase, cur, crashes>>, held'[q] = held[q],
         Of(q, "BUY")' = Of(q, "BUY"), Of(q, "SELL")' = Of(q, "SELL"), OfThisBoot(q)' <=> OfThisBoot(q),
         phase = "selling" /\ cur = q => Active' = Active
  PROVE  PositionInv(q)'
  <1>1. PositionInv(q)
    BY DEF LiveInv
  <1>2. Versions(q)' = Versions(q) /\ (Running' <=> Running)
    BY DEF Versions, Running
  <1>3. VersionsOrdered(q)'
    BY <1>1, <1>2 DEF PositionInv, VersionsOrdered
  <1>4. (OneBuy(q)' <=> OneBuy(q)) /\ (Bought(q)' <=> Bought(q)) /\ Sold(q)' = Sold(q)
    BY DEF OneBuy, Bought, Sold
  <1>5. VersionsBacked(q)'
    BY <1>1, <1>2, <1>4 DEF PositionInv, VersionsBacked
  <1>6. HoldingsBacked(q)'
    BY <1>1, <1>4 DEF PositionInv, HoldingsBacked
  <1>7. SalesResolved(q)'
    BY <1>1, <1>2 DEF PositionInv, SalesResolved
  <1>8. Accounted(q)'
    BY <1>1, <1>4 DEF PositionInv, Accounted
  <1> QED
    BY <1>3, <1>5, <1>6, <1>7, <1>8 DEF PositionInv

LEMMA ChainKeeps ==
  ASSUME LiveInv, Chain
  PROVE  LiveInv'
  <1>0. TypeOK /\ TxInv /\ ControlInv
    BY DEF LiveInv
  <1>1. UNCHANGED <<mem, phase, cur, fraction, row, late, faults, crashes>> /\ (Running' <=> Running)
    BY DEF Chain, Running
  <1>2. PICK x \in txs, y \in Tx :
            /\ x.fate = "pending" /\ ~x.known /\ ~y.known /\ y.fate \in {"landed", "failed"}
            /\ SameTx(x, y) /\ txs' = (txs \ {x}) \cup {y}
            /\ \/ y.fate = "failed" /\ held' = held
               \/ /\ y.fate = "landed" /\ x.side = "BUY"
                  /\ \E n \in {Size - 1, Size} : held' = [held EXCEPT ![x.pos] = @ + n]
               \/ /\ y.fate = "landed" /\ x.side = "SELL" /\ x.qty <= held[x.pos]
                  /\ held' = [held EXCEPT ![x.pos] = @ - x.qty]
    BY <1>0, ChainReplaces
  <1>3. PICK p \in Pos : p = x.pos
    BY <1>0, TxFields DEF TypeOK
  <1>4. /\ y.pos = p /\ y.side = x.side /\ y.boot = x.boot /\ y.qty = x.qty
        /\ x.qty \in Nat /\ held[p] \in Nat /\ x.side \in {"BUY", "SELL"}
    BY <1>0, <1>2, <1>3, TxFields DEF SameTx, TypeOK
  <1>5. /\ TxInv' /\ txs' \subseteq Tx
        /\ Active' = IF x \in Active THEN {y} ELSE Active
        /\ \A q \in Pos : OneBuy(q)' <=> OneBuy(q)
        /\ \A q \in Pos : OfThisBoot(q)' <=> OfThisBoot(q)
        /\ \A q \in Pos, side \in {"BUY", "SELL"} :
              Of(q, side)' = IF x \in Of(q, side) THEN (Of(q, side) \ {x}) \cup {y} ELSE Of(q, side)
    BY <1>0, <1>1, <1>2, TxReplaced
  <1>6. \A q \in Pos, side \in {"BUY", "SELL"} : x \in Of(q, side) <=> q = p /\ side = x.side
    BY <1>3 DEF Of
  <1>7. /\ \A q \in Pos \ {p} : held'[q] = held[q]
        /\ \/ y.fate = "failed" /\ held'[p] = held[p]
           \/ y.fate = "landed" /\ x.side = "BUY" /\ held'[p] \in {held[p] + Size - 1, held[p] + Size}
           \/ y.fate = "landed" /\ x.side = "SELL" /\ x.qty <= held[p] /\ held'[p] = held[p] - x.qty
        /\ held' \in [Pos -> Nat]
    BY <1>0, <1>2, <1>3, <1>4, BoundsTyped DEF TypeOK
  <1>8. TypeOK'
    BY <1>0, <1>1, <1>5, <1>7 DEF TypeOK
  <1>9. ASSUME NEW side \in {"BUY", "SELL"}, Awaits(side) PROVE Awaits(side)'
    <2>1. CASE x \in Active
      BY <1>0, <1>1, <1>2, <1>4, <1>5, <1>9, <2>1 DEF Awaits, Active, TxInv, SameTx
    <2>2. CASE x \notin Active
      BY <1>1, <1>5, <1>9, <2>2 DEF Awaits
    <2> QED
      BY <2>1, <2>2
  <1>10. ControlInv'
    BY <1>0, <1>1, <1>9 DEF ControlInv
  <1>11. ASSUME NEW q \in Pos, q # p PROVE PositionInv(q)'
    <2>1. Of(q, "BUY")' = Of(q, "BUY") /\ Of(q, "SELL")' = Of(q, "SELL")
      BY <1>5, <1>6, <1>11
    <2>2. phase = "selling" /\ cur = q => x \notin Active
      BY <1>0, <1>3, <1>11 DEF ControlInv, Awaits, Active, TxInv
    <2>3. phase = "selling" /\ cur = q => Active' = Active
      BY <1>5, <2>2
    <2> QED
      BY <1>1, <1>5, <1>7, <1>11, <2>1, <2>3, BystanderKept
  <1>12. PositionInv(p)'
    <2>1. PositionInv(p) /\ Versions(p)' = Versions(p) /\ mem[p] \in Versions(p)
      BY <1>1 DEF LiveInv, Versions
    <2>2. VersionsOrdered(p)'
      BY <1>1, <2>1 DEF PositionInv, VersionsOrdered
    <2>3. ASSUME x.side = "BUY", OneBuy(p) PROVE ~Bought(p) /\ held[p] = 0 /\ \A s \in Versions(p) : ~Exists(s)
      <3>1. ~Bought(p)
        BY <1>2, <1>6, <2>3 DEF OneBuy, Bought
      <3> QED
        BY <1>4, <2>1, <2>3, <3>1 DEF PositionInv, VersionsBacked, HoldingsBacked
    <2>4. /\ (x.side = "SELL" => Of(p, "BUY")' = Of(p, "BUY"))
          /\ (Of(p, "BUY") # {} => Of(p, "BUY")' # {})
          /\ (Bought(p) => Bought(p)')
      <3>1. CASE x.side = "SELL"
        BY <1>5, <1>6, <3>1 DEF Bought
      <3>2. CASE x.side = "BUY"
        <4>1. Of(p, "BUY")' = (Of(p, "BUY") \ {x}) \cup {y}
          BY <1>5, <1>6, <3>2
        <4> QED
          BY <1>2, <3>2, <4>1 DEF Bought
      <3> QED
        BY <1>4, <3>1, <3>2
    <2>5. x.side = "SELL" => held'[p] <= held[p]
      BY <1>4, <1>7
    <2>6. VersionsBacked(p)'
      <3>1. CASE x.side = "BUY"
        BY <1>5, <2>1, <2>3, <2>4, <3>1 DEF PositionInv, VersionsBacked
      <3>2. CASE x.side = "SELL"
        <4>1. \A s \in Versions(p) : s.tokens \in Nat
          BY <1>0, PositionFields DEF Versions, TypeOK, Write
        <4>2. held'[p] \in Nat
          BY <1>7
        <4> QED
          BY <1>4, <1>5, <2>1, <2>4, <2>5, <3>2, <4>1, <4>2 DEF PositionInv, VersionsBacked
      <3> QED
        BY <1>4, <3>1, <3>2
    <2>7. HoldingsBacked(p)'
      <3>1. held'[p] > 0 => Bought(p)'
        <4>1. CASE y.fate = "landed" /\ x.side = "BUY"
          <5>1. y \in Of(p, "BUY")'
            BY <1>5, <1>6, <4>1
          <5> QED
            BY <4>1, <5>1 DEF Bought
        <4>2. CASE ~(y.fate = "landed" /\ x.side = "BUY")
          BY <1>4, <1>7, <2>1, <2>4, <4>2 DEF PositionInv, HoldingsBacked
        <4> QED
          BY <4>1, <4>2
      <3>2. OneBuy(p)' => held'[p] <= Size
        BY <1>4, <1>5, <1>7, <2>1, <2>3, BoundsTyped DEF PositionInv, HoldingsBacked
      <3>3. ASSUME phase' = "selling", cur' = p, OneBuy(p)', NEW a \in Active', a.fate = "landed"
            PROVE  held'[p] + a.qty <= mem'[p].tokens
        <4>1. phase = "selling" /\ cur = p /\ OneBuy(p) /\ mem[p].status \in OpenStatuses
          BY <1>0, <1>1, <1>5, <3>3 DEF ControlInv
        <4>2. held[p] <= mem[p].tokens /\ Exists(mem[p]) /\ mem[p].tokens \in Nat
          BY <1>0, <2>1, <4>1, PositionFields DEF PositionInv, VersionsBacked, Exists, OpenStatuses, TypeOK
        <4>3. x.side = "SELL"
          BY <1>4, <2>1, <2>3, <4>1, <4>2
        <4>4. CASE x \in Active
          <5>1. a = y
            BY <1>5, <3>3, <4>4
          <5> QED
            BY <1>1, <1>4, <1>7, <3>3, <4>2, <4>3, <5>1
        <4>5. CASE x \notin Active
          <5>1. a \in Active /\ a \in Tx
            BY <1>0, <1>5, <3>3, <4>5 DEF Active, TypeOK
          <5>2. held[p] + a.qty <= mem[p].tokens /\ a.qty \in Nat
            BY <2>1, <3>3, <4>1, <5>1, TxFields DEF PositionInv, HoldingsBacked
          <5> QED
            BY <1>1, <1>4, <1>7, <2>5, <4>2, <4>3, <5>2
        <4> QED
          BY <4>4, <4>5
      <3> QED
        BY <3>1, <3>2, <3>3 DEF HoldingsBacked
    <2>8. SalesResolved(p)'
      <3> SUFFICES ASSUME Running', NEW z \in Of(p, "SELL")', z.boot = crashes
                   PROVE  /\ Exists(mem[p])
                          /\ ~z.known /\ mem[p].status \in OpenStatuses
                                => phase = "selling" /\ cur = p /\ z \in Active'
        BY <1>1 DEF SalesResolved
      <3>1. CASE z = y
        <4>1. x \in Of(p, "SELL") /\ x.boot = crashes
          BY <1>3, <1>4, <3>1 DEF Of
        <4> QED
          BY <1>1, <1>2, <1>5, <2>1, <3>1, <4>1 DEF PositionInv, SalesResolved
      <3>2. CASE z # y
        <4>1. z \in Of(p, "SELL") /\ z # x
          BY <1>2, <1>5, <1>6, <3>2, <1>4
        <4>2. z \in Active => z \in Active'
          BY <1>0, <1>5, <4>1 DEF Active, TxInv
        <4> QED
          BY <1>1, <2>1, <4>1, <4>2 DEF PositionInv, SalesResolved
      <3> QED
        BY <3>1, <3>2
    <2>9. Accounted(p)'
      <3>1. Sold(p)' = Sold(p)
        BY <1>2, <1>4, <1>5, <1>6 DEF Sold
      <3> QED
        BY <1>1, <1>5, <2>1, <3>1 DEF PositionInv, Accounted
    <2> QED
      BY <2>2, <2>6, <2>7, <2>8, <2>9 DEF PositionInv
  <1> QED
    BY <1>5, <1>8, <1>10, <1>11, <1>12 DEF LiveInv

LEMMA CrashKeeps ==
  ASSUME LiveInv, Crash
  PROVE  LiveInv'
  <1>0. TypeOK /\ TxInv /\ ControlInv
    BY DEF LiveInv
  <1>1. /\ Running /\ ~Running' /\ phase' = "down" /\ cur' = NoPos /\ crashes' = crashes + 1
        /\ crashes < MaxCrashes /\ mem' = [p \in Pos |-> Nothing]
        /\ UNCHANGED <<fraction, row, late, txs, held, faults>>
    BY DEF Crash, Running
  <1>2. Nothing \in Position /\ Nothing.status = "NONE" /\ crashes \in Nat
    BY <1>0, BoundsTyped DEF Nothing, Position, Statuses, TypeOK
  <1>3. TypeOK'
    BY <1>0, <1>1, <1>2, BoundsTyped DEF TypeOK
  <1>4. \A x \in txs : x.boot \in Nat
    BY <1>0, TxFields DEF TypeOK
  <1>5. TxInv'
    <2>1. \A x \in txs : x.boot <= crashes' /\ x.boot < crashes'
      BY <1>0, <1>1, <1>2, <1>4 DEF TxInv
    <2> QED
      BY <1>0, <1>1, <2>1 DEF TxInv
  <1>6. ControlInv'
    BY <1>0, <1>1, <1>2 DEF ControlInv
  <1>7. ASSUME NEW p \in Pos PROVE PositionInv(p)'
    <2>1. PositionInv(p) /\ ~Exists(mem'[p]) /\ mem'[p].status = "NONE"
      BY <1>1, <1>2 DEF LiveInv, Exists
    <2>2. \A s \in Versions(p)' : Exists(s) => s \in Versions(p)
      BY <1>1, <2>1 DEF Versions
    <2>3. (OneBuy(p)' <=> OneBuy(p)) /\ (Bought(p)' <=> Bought(p)) /\ Of(p, "BUY")' = Of(p, "BUY")
      BY <1>1 DEF OneBuy, Bought, Of
    <2>4. VersionsOrdered(p)'
      BY <1>1, <2>1, <2>2 DEF PositionInv, VersionsOrdered
    <2>5. VersionsBacked(p)'
      BY <1>1, <2>1, <2>2, <2>3 DEF PositionInv, VersionsBacked
    <2>6. HoldingsBacked(p)'
      BY <1>1, <2>1, <2>3 DEF PositionInv, HoldingsBacked
    <2>7. SalesResolved(p)' /\ Accounted(p)'
      BY <1>1, <2>1 DEF SalesResolved, Accounted
    <2> QED
      BY <2>4, <2>5, <2>6, <2>7 DEF PositionInv
  <1> QED
    BY <1>3, <1>5, <1>6, <1>7 DEF LiveInv

LEMMA RestartKeeps ==
  ASSUME LiveInv, Restart
  PROVE  LiveInv'
  <1>0. TypeOK /\ TxInv /\ ControlInv
    BY DEF LiveInv
  <1>1. /\ phase = "down" /\ phase' = "idle" /\ Running' /\ late = {} /\ mem' = [p \in Pos |-> Restored(row[p])]
        /\ UNCHANGED <<cur, fraction, row, late, txs, held, faults, crashes>>
    BY DEF Restart, Running
  <1>2. \A p \in Pos : \/ mem'[p] = row[p] /\ row[p].status # "CLOSED"
                       \/ mem'[p] = Nothing /\ row[p].status = "CLOSED"
    BY <1>1 DEF Restored
  <1>3. Nothing \in Position /\ ~Exists(Nothing)
    BY DEF Nothing, Position, Statuses, Exists
  <1>4. mem' \in [Pos -> Position]
    BY <1>0, <1>1, <1>3 DEF TypeOK, Restored
  <1>5. TypeOK'
    BY <1>0, <1>1, <1>4 DEF TypeOK
  <1>6. TxInv'
    BY <1>0, <1>1 DEF TxInv
  <1>7. ControlInv'
    BY <1>0, <1>1 DEF ControlInv
  <1>8. \A x \in txs : x.boot # crashes
    <2>1. crashes \in Nat /\ \A x \in txs : x.boot \in Nat /\ x.boot < crashes
      BY <1>0, <1>1, TxFields, BoundsTyped DEF TypeOK, TxInv
    <2> QED
      BY <2>1
  <1>9. ASSUME NEW p \in Pos PROVE PositionInv(p)'
    <2>1. PositionInv(p) /\ row[p] \in Versions(p) /\ row[p] \in Position
      BY <1>0 DEF LiveInv, Versions, TypeOK
    <2>2. \A s \in Versions(p)' : Exists(s) => s = row[p]
      BY <1>1, <1>2, <1>3 DEF Versions
    <2>3. (OneBuy(p)' <=> OneBuy(p)) /\ (Bought(p)' <=> Bought(p)) /\ Of(p, "BUY")' = Of(p, "BUY")
      BY <1>1 DEF OneBuy, Bought, Of
    <2>4. VersionsOrdered(p)'
      BY <1>2, <1>3, <2>1, <2>2, PositionFields DEF VersionsOrdered
    <2>5. VersionsBacked(p)'
      BY <1>1, <2>1, <2>2, <2>3 DEF PositionInv, VersionsBacked
    <2>6. HoldingsBacked(p)'
      BY <1>1, <2>1, <2>3 DEF PositionInv, HoldingsBacked
    <2>7. SalesResolved(p)'
      BY <1>1, <1>8 DEF SalesResolved, Of
    <2>8. Accounted(p)'
      <3>1. Exists(mem'[p]) => \E x \in txs : x.pos = p
        BY <1>2, <1>3, <2>1 DEF PositionInv, VersionsBacked, Of
      <3>2. OfThisBoot(p)' => ~Exists(mem'[p])
        BY <1>1, <1>8, <3>1 DEF OfThisBoot
      <3> QED
        BY <3>2 DEF Accounted, Exists
    <2> QED
      BY <2>4, <2>5, <2>6, <2>7, <2>8 DEF PositionInv
  <1> QED
    BY <1>5, <1>6, <1>7, <1>9 DEF LiveInv

LEMMA StutterKeeps ==
  ASSUME LiveInv, UNCHANGED vars
  PROVE  LiveInv'
  <1>1. UNCHANGED <<mem, fraction, txs, held, crashes, phase, cur, row, late, faults>>
    BY DEF vars
  <1>2. TypeOK /\ FaultTyped' /\ cur \in Pos \cup {NoPos} /\ phase \in Phases
    BY <1>1 DEF LiveInv, TypeOK, FaultTyped, Phases
  <1>3. Journaled
    BY <1>1, <1>2, QuietJournals
  <1>4. ControlInv'
    BY <1>1 DEF LiveInv, ControlInv, Awaits, Active
  <1> QED
    BY <1>1, <1>2, <1>3, <1>4, JournalKeeps DEF LiveInv
-----------------------------------------------------------------------------
(* The theorems.                                                           *)

LEMMA LiveInit == Init => LiveInv
  <1> SUFFICES ASSUME Init PROVE LiveInv
    OBVIOUS
  <1>1. TypeOK
    BY TypeInit
  <1>2. /\ txs = {} /\ late = {} /\ phase = "idle" /\ crashes = 0
        /\ \A p \in Pos : mem[p] = Nothing /\ row[p] = Nothing /\ held[p] = 0
    BY DEF Init
  <1>3. TxInv
    BY <1>2, FS_EmptySet DEF TxInv
  <1>4. ControlInv
    BY <1>2 DEF ControlInv
  <1>5. ASSUME NEW p \in Pos PROVE PositionInv(p)
    <2>1. \A s \in Versions(p) : ~Exists(s)
      BY <1>2 DEF Versions, Exists, Nothing
    <2>2. VersionsOrdered(p) /\ VersionsBacked(p)
      BY <2>1 DEF VersionsOrdered, VersionsBacked
    <2>3. HoldingsBacked(p)
      BY <1>2, BoundsTyped DEF HoldingsBacked
    <2>4. SalesResolved(p)
      BY <1>2 DEF SalesResolved, Of
    <2>5. Accounted(p)
      BY <1>2 DEF Accounted, Nothing
    <2> QED
      BY <2>2, <2>3, <2>4, <2>5 DEF PositionInv
  <1> QED
    BY <1>1, <1>3, <1>4, <1>5 DEF LiveInv

LEMMA LiveStep == LiveInv /\ [Next]_vars => LiveInv'
  <1> SUFFICES ASSUME LiveInv, [Next]_vars PROVE LiveInv'
    OBVIOUS
  <1>1. CASE Buy
    BY <1>1, SubmitBuyKeeps, BuyConfirmedKeeps, BuyFailsKeeps, JournalSteps DEF Buy
  <1>2. CASE Sell
    BY <1>2, TightenKeeps, SubmitSaleKeeps, SaleRefusedKeeps, SaleConfirmedKeeps, SaleFailsKeeps, JournalSteps DEF Sell
  <1>3. CASE Land \/ Chain \/ Crash \/ Restart
    BY <1>3, JournalSteps, ChainKeeps, CrashKeeps, RestartKeeps
  <1>4. CASE UNCHANGED vars
    BY <1>4, StutterKeeps
  <1> QED
    BY <1>1, <1>2, <1>3, <1>4 DEF Next

\* The inductive invariant holds in every state of the LIVE cycle.
THEOREM LiveCorrect == Spec => []LiveInv
  BY LiveInit, LiveStep, PTL DEF Spec

\* Every position, row, statement and transaction has its type.
THEOREM TypeCorrect == Spec => []TypeOK
  <1>1. LiveInv => TypeOK
    BY DEF LiveInv
  <1> QED
    BY <1>1, LiveCorrect, PTL

\* A position one of whose sales this run of the program submitted and was never told
\* about is not executable, and neither is one whose row says CLOSING.
THEOREM UnresolvedNotExecutableAlways == Spec => []UnresolvedNotExecutable
  <1>1. LiveInv => UnresolvedNotExecutable
    <2> SUFFICES ASSUME LiveInv, NEW p \in Pos
                 PROVE  /\ Running /\ row[p].status = "CLOSING" => mem[p].status \notin OpenStatuses
                        /\ phase # "selling" =>
                              \A x \in Unresolved(p, "SELL") :
                                  x.boot = crashes /\ Running => mem[p].status \notin OpenStatuses
      BY DEF UnresolvedNotExecutable
    <2>1. PositionInv(p) /\ row[p] \in Versions(p)
      BY DEF LiveInv, Versions
    <2>2. Running /\ row[p].status = "CLOSING" => mem[p].status \notin OpenStatuses
      BY <2>1 DEF PositionInv, VersionsOrdered, Exists, OpenStatuses
    <2>3. phase # "selling" =>
              \A x \in Unresolved(p, "SELL") : x.boot = crashes /\ Running => mem[p].status \notin OpenStatuses
      BY <2>1 DEF PositionInv, SalesResolved, Unresolved
    <2> QED
      BY <2>2, <2>3
  <1> QED
    BY <1>1, LiveCorrect, PTL

\* What an executable position says it holds is what its answered transactions bought
\* less what they sold.
THEOREM TokensAccountedAlways == Spec => []TokensAccounted
  <1>1. LiveInv => TokensAccounted
    <2> SUFFICES ASSUME LiveInv, NEW p \in Pos, mem[p].status \in OpenStatuses,
                        \A x \in txs : x.pos = p => x.known /\ x.boot = crashes
                 PROVE  LET sold == {x \in Of(p, "SELL") : x.fate = "landed"}
                        IN  \/ sold = {} /\ mem[p].tokens = Size
                            \/ \E x \in sold : sold = {x} /\ mem[p].tokens = Size - x.qty
      BY DEF TokensAccounted
    <2>1. Sold(p) = {x \in Of(p, "SELL") : x.fate = "landed"}
      BY DEF Sold, Of
    <2>2. OfThisBoot(p) /\ Accounted(p)
      BY DEF OfThisBoot, LiveInv, PositionInv
    <2> QED
      BY <2>1, <2>2 DEF Accounted, OpenStatuses
  <1> QED
    BY <1>1, LiveCorrect, PTL

\* A row is CLOSED only when the wallet has nothing left of what was bought for it.
THEOREM ClosedSoldAlways == Spec => []ClosedSold
  <1>1. LiveInv => ClosedSold
    <2> SUFFICES ASSUME LiveInv, NEW p \in Pos, row[p].status = "CLOSED", Cardinality(Of(p, "BUY")) = 1
                 PROVE  held[p] = 0 /\ row[p].tokens = 0
      BY DEF ClosedSold
    <2>1. IsFiniteSet(Of(p, "BUY"))
      <3>1. IsFiniteSet(txs) /\ Of(p, "BUY") \subseteq txs
        BY DEF LiveInv, TxInv, Of
      <3> QED
        BY <3>1, FS_Subset
    <2>2. OneBuy(p)
      <3>1. PICK b : Of(p, "BUY") = {b}
        BY <2>1, FS_Singleton
      <3> QED
        BY <3>1 DEF OneBuy
    <2>3. PositionInv(p) /\ row[p] \in Versions(p) /\ Exists(row[p]) /\ held[p] \in Nat
      BY DEF LiveInv, TypeOK, Versions, Exists
    <2> QED
      BY <2>2, <2>3 DEF PositionInv, VersionsBacked
  <1> QED
    BY <1>1, LiveCorrect, PTL

\* A version that exists does not replace a row that is CLOSING or CLOSED by one that is not.
LEMMA FinalKept ==
  ASSUME LiveInv, NEW p \in Pos, NEW s \in Versions(p), Exists(s), NEW q \in Pos,
         row[q].status \in {"CLOSING", "CLOSED"}, row' = Updated(p, s) \/ row' = Inserted(p, s)
  PROVE  row'[q].status = row[q].status
  <1>1. TypeOK /\ VersionsOrdered(p) /\ row[p] \in Versions(p)
    BY DEF LiveInv, PositionInv, Versions
  <1>2. s \in Position /\ row[p] \in Position
    BY <1>1 DEF Versions, TypeOK, Write
  <1>3. row[p].status = "CLOSING" /\ RowAccepts(row[p], s) => s.status = "CLOSING"
    BY <1>1, <1>2, PositionFields DEF VersionsOrdered, RowAccepts, Exists
  <1>4. CASE row' = row
    BY <1>4
  <1>5. CASE RowAccepts(row[p], s) /\ row' = [row EXCEPT ![p] = s]
    BY <1>1, <1>3, <1>5 DEF RowAccepts, TypeOK
  <1>6. CASE row[p].status = "NONE" /\ row' = [row EXCEPT ![p] = s]
    BY <1>1, <1>6 DEF TypeOK
  <1> QED
    BY <1>4, <1>5, <1>6 DEF Updated, Inserted

\* The row of an unresolved or closed position is final, also for a statement that lands late.
THEOREM RowFinalAlways == Spec => RowFinal
  <1>1. LiveInv /\ [Next]_vars => [\A p \in Pos : row[p].status \in {"CLOSING", "CLOSED"} =>
                                       row'[p].status = row[p].status]_vars
    <2> SUFFICES ASSUME LiveInv, [Next]_vars, NEW q \in Pos, row[q].status \in {"CLOSING", "CLOSED"}
                 PROVE  row'[q].status = row[q].status
      OBVIOUS
    <2>1. \A p \in Pos : mem[p] \in Versions(p)
      BY DEF Versions
    <2>2. CASE row' = row
      BY <2>2
    <2>3. CASE InsertPosition \/ InsertFails
      BY <2>1, <2>2, <2>3, FinalKept DEF InsertPosition, InsertFails, WriteFails, LiveInv, ControlInv
    <2>4. CASE Persist
      <3>1. PICK p \in Pos : Exists(mem[p]) /\ UpdatePosition(p)
        BY <2>4 DEF Persist, Exists, OpenStatuses
      <3> QED
        BY <2>1, <2>2, <3>1, FinalKept DEF UpdatePosition, WriteFails
    <2>5. CASE WriteStatus
      BY <2>1, <2>2, <2>5, FinalKept DEF WriteStatus, UpdatePosition, WriteFails, LiveInv, ControlInv
    <2>6. CASE Land
      <3>1. PICK w \in late : row' = IF w.op = "INSERT" THEN Inserted(w.pos, w.snap) ELSE Updated(w.pos, w.snap)
        BY <2>6 DEF Land
      <3>2. w.pos \in Pos /\ w.snap \in Versions(w.pos) /\ Exists(w.snap)
        BY DEF LiveInv, ControlInv, TypeOK, Write, Versions
      <3> QED
        BY <3>1, <3>2, FinalKept
    <2>7. CASE \/ SubmitBuy \/ BuyConfirmed \/ BuyFails \/ AiExit \/ Tighten \/ Hold \/ SubmitSale \/ SaleRefused
               \/ SaleConfirmed \/ SaleFails \/ RecordFails \/ Chain \/ Crash \/ Restart \/ UNCHANGED vars
      BY <2>2, <2>7 DEF SubmitBuy, BuyConfirmed, BuyFails, AiExit, Tighten, Hold, SubmitSale, SaleRefused,
                        SaleConfirmed, SaleFails, RecordFails, Chain, Crash, Restart, vars
    <2> QED
      BY <2>3, <2>4, <2>5, <2>6, <2>7 DEF Next, Buy, Sell
  <1> QED
    BY <1>1, LiveCorrect, PTL DEF Spec, RowFinal
=============================================================================
