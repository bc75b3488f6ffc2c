---------------------------- MODULE BtcSenderProofs ----------------------------
(***************************************************************************)
(* The address a call of Send pays from behaves as one balance, whatever   *)
(* the calls that pay from it do at once.                                  *)
(*                                                                         *)
(* An output is named once and keeps its amount while it is unspent        *)
(* (NodeInv), so the inputs a call chose are, when the node still takes    *)
(* them, worth what they were when they were listed (TxInv): the node's    *)
(* check of the inputs is all that keeps two calls apart.                  *)
(***************************************************************************)
EXTENDS BtcSender, SumProofs, TLAPS

-----------------------------------------------------------------------------
(* collectInputs and floorFloat. *)

\* A set of numbers that is not empty has a smallest one.
LEMMA SmallestNumber ==
    ASSUME NEW S \in SUBSET Nat, S # {}
    PROVE  Min(S) \in S /\ \A n \in S : Min(S) <= n
  <1>1. \E n \in S : \A m \in S : n <= m
    <2>1. IsWellFoundedOn(OpToRel(<, Nat), Nat)
      BY NatLessThanWellFounded
    <2>2. PICK n \in S : \A m \in S : ~ (<<m, n>> \in OpToRel(<, Nat))
      <3> HIDE DEF OpToRel
      <3> QED
        BY <2>1, WFMin
    <2>3. \A m \in S : ~ (m < n)
      BY <2>2 DEF OpToRel
    <2> QED
      BY <2>3
  <1> QED
    BY <1>1 DEF Min

\* What the rounding of the change leaves over is less than a Grain.
LEMMA FloorFacts ==
    ASSUME NEW x \in Nat
    PROVE  /\ floorFloat(x) \in Nat /\ floorFloat(x) <= x
           /\ x - floorFloat(x) \in 0..(Grain - 1)
  <1>1. Grain \in Nat \ {0}
    BY SenderAssumption
  <1>2. /\ x \div Grain \in Int /\ x % Grain \in 0..(Grain - 1)
        /\ x = (Grain * (x \div Grain)) + (x % Grain)
    <2>1. x \div Grain \in Int
      BY <1>1
    <2>2. x % Grain \in 0..(Grain - 1)
      BY <1>1
    <2>3. x = (Grain * (x \div Grain)) + (x % Grain)
      BY <1>1
    <2> QED
      BY <2>1, <2>2, <2>3
  <1> DEFINE q == x \div Grain
             m == x % Grain
  <1>3. q \in Int /\ m \in 0..(Grain - 1) /\ x = (Grain * q) + m
    BY <1>2
  <1> HIDE DEF q, m
  <1>4. q * Grain = x - m /\ q >= 0
    <2>1. q * Grain = x - m
      BY <1>1, <1>3
    <2>2. ASSUME q < 0 PROVE FALSE
      <3>1. q * Grain <= - Grain
        BY <1>1, <1>3, <2>2
      <3> QED
        BY <1>1, <1>3, <2>1, <3>1
    <2> QED
      BY <1>3, <2>1, <2>2
  <1>5. floorFloat(x) = q * Grain
    BY DEF floorFloat, q
  <1>6. q * Grain \in Nat
    BY <1>1, <1>3, <1>4
  <1> QED
    BY <1>1, <1>3, <1>4, <1>5, <1>6

\* The first elements of a sequence.
LEMMA RangeOfPart ==
    ASSUME NEW S, NEW s \in Seq(S), NEW n \in 0..Len(s)
    PROVE  /\ SubSeq(s, 1, n) \in Seq(S) /\ Len(SubSeq(s, 1, n)) = n
           /\ Range(SubSeq(s, 1, n)) \subseteq S
           /\ \A k \in 0..n : SubSeq(SubSeq(s, 1, n), 1, k) = SubSeq(s, 1, k)
  <1>1. SubSeq(s, 1, n) \in Seq(S) /\ Len(SubSeq(s, 1, n)) = n
    OBVIOUS
  <1>2. Range(SubSeq(s, 1, n)) \subseteq S
    BY <1>1 DEF Range
  <1>3. ASSUME NEW k \in 0..n
        PROVE  SubSeq(SubSeq(s, 1, n), 1, k) = SubSeq(s, 1, k)
    OBVIOUS
  <1> QED
    BY <1>1, <1>2, <1>3

\* float64 misses the difference by less than a Grain.
LEMMA DifferenceFacts ==
    ASSUME NEW utxos, NEW target \in Int, Worth(Range(utxos)) \in Int
    PROVE  /\ FloatDifference(utxos, target) \in Int
           /\ FloatDifference(utxos, target) - (Worth(Range(utxos)) - target)
                \in (1 - Grain)..(Grain - 1)
  <1> DEFINE pair == <<[i \in DOMAIN utxos |-> unspent[utxos[i]]], target>>
             r == IF pair \in DOMAIN Rounding THEN Rounding[pair] ELSE 0
             W == Worth(Range(utxos))
  <1>1. FloatDifference(utxos, target) = W - target + r
    BY DEF FloatDifference
  <1>2. Grain \in Nat \ {0} /\ Rounding \in [DOMAIN Rounding -> (1 - Grain)..(Grain - 1)]
    BY SenderAssumption
  <1> HIDE DEF pair
  <1>3. r \in (1 - Grain)..(Grain - 1)
    BY <1>2
  <1>4. W \in Int
    OBVIOUS
  <1> HIDE DEF r, W
  <1>5. r \in Int
    BY <1>2, <1>3
  <1>6. (W - target + r) - (W - target) = r
    BY <1>4, <1>5
  <1>7. W - target + r \in Int
    BY <1>4, <1>5
  <1> QED
    BY <1>1, <1>3, <1>6, <1>7 DEF W

\* The loop takes what it needs, and not one output more, as float64 counts.
LEMMA Collected ==
    ASSUME NEW S, IsFiniteSet(S), \A o \in S : unspent[o] \in Nat,
           NEW utxos \in Seq(S), NEW target \in Int, target > 0,
           enough(utxos, target) # {}
    PROVE  /\ collectInputs(utxos, target) \in Seq(S)
           /\ Range(collectInputs(utxos, target)) \subseteq S
           /\ FloatDifference(collectInputs(utxos, target), target) \in Nat
           /\ Worth(Range(collectInputs(utxos, target))) \in Int
           /\ Worth(Range(collectInputs(utxos, target))) > target - Grain
           /\ Worth(Range(Front(collectInputs(utxos, target)))) < target + Grain
  <1> DEFINE E == enough(utxos, target)
             k == Min(E)
             taken == SubSeq(utxos, 1, k)
             most == SubSeq(utxos, 1, k - 1)
  <1>g. Grain \in Nat \ {0}
    BY SenderAssumption
  <1>1. k \in E /\ \A n \in E : k <= n
    <2>1. E \in SUBSET Nat
      BY DEF enough
    <2> HIDE DEF E
    <2> QED
      BY <2>1, SmallestNumber DEF E
  <1>2. k \in 1..Len(utxos) /\ FloatDifference(taken, target) >= 0
    BY <1>1 DEF enough
  <1>3. collectInputs(utxos, target) = taken
    BY DEF collectInputs
  <1>4. k \in 1..Len(utxos) => (k - 1 \in 1..Len(utxos) /\ k - 1 \notin E) \/ k = 1
    BY <1>1 DEF enough
  <1>5. k # 1 => ~ (FloatDifference(most, target) >= 0)
    BY <1>2, <1>4 DEF enough
  <1> HIDE DEF E, k
  <1>6. /\ taken \in Seq(S) /\ Len(taken) = k /\ Range(taken) \subseteq S
        /\ SubSeq(taken, 1, k - 1) = most
    <2>1. k \in 0..Len(utxos) /\ k - 1 \in 0..k
      BY <1>2
    <2> QED
      BY <2>1, RangeOfPart
  <1>7. Front(taken) = most
    BY <1>6 DEF Front
  <1>8. Range(most) \subseteq S
    <2>1. k - 1 \in 0..Len(utxos)
      BY <1>2
    <2> QED
      BY <2>1, RangeOfPart
  <1>9. k = 1 => Range(most) = {}
    BY DEF Range
  <1> HIDE DEF taken, most
  <1>10. Worth(Range(taken)) \in Int /\ Worth(Range(most)) \in Int
    <2>1. ASSUME NEW R, R \subseteq S PROVE Worth(R) \in Int
      <3>1. IsFiniteSet(R) /\ \A o \in R : unspent[o] \in Int
        BY <2>1, FS_Subset
      <3> QED
        BY <3>1, SumType DEF Worth
    <2> QED
      BY <1>6, <1>8, <2>1
  <1>11. FloatDifference(taken, target) \in Nat /\ Worth(Range(taken)) > target - Grain
    <2>1. /\ FloatDifference(taken, target) \in Int
          /\ FloatDifference(taken, target) - (Worth(Range(taken)) - target)
                \in (1 - Grain)..(Grain - 1)
      BY <1>10, DifferenceFacts
    <2> QED
      BY <1>g, <1>2, <1>10, <2>1
  <1>12. Worth(Range(most)) < target + Grain
    <2>1. CASE k = 1
      <3>1. Worth(Range(most)) = 0
        BY <1>9, <2>1, SumOfNone DEF Worth
      <3> QED
        BY <1>g, <3>1
    <2>2. CASE k # 1
      <3>1. /\ FloatDifference(most, target) \in Int
            /\ FloatDifference(most, target) - (Worth(Range(most)) - target)
                  \in (1 - Grain)..(Grain - 1)
        BY <1>10, DifferenceFacts
      <3>2. FloatDifference(most, target) < 0
        BY <1>5, <2>2, <3>1
      <3> QED
        BY <1>g, <1>10, <3>1, <3>2
    <2> QED
      BY <2>1, <2>2
  <1> QED
    BY <1>3, <1>6, <1>7, <1>10, <1>11, <1>12

\* What the rounding of a difference and of the change leave over.
LEMMA ChangeFacts ==
    ASSUME NEW inputs, NEW p, p.total \in Int, Worth(Range(inputs)) \in Int,
           FloatDifference(inputs, p.total) \in Nat
    PROVE  /\ changeAmount(inputs, p) \in Nat
           /\ (Worth(Range(inputs)) - p.total) - changeAmount(inputs, p)
                \in (1 - Grain)..(2 * Grain - 2)
  <1> DEFINE D == FloatDifference(inputs, p.total)
             x == Worth(Range(inputs)) - p.total
             v == changeAmount(inputs, p)
  <1>1. Grain \in Nat \ {0} /\ D \in Nat /\ x \in Int
    BY SenderAssumption
  <1>2. D - x \in (1 - Grain)..(Grain - 1)
    BY DifferenceFacts
  <1>3. v = floorFloat(D)
    BY DEF changeAmount
  <1>4. v \in Nat /\ D - v \in 0..(Grain - 1)
    <2> HIDE DEF D, v
    <2> QED
      BY <1>1, <1>3, FloorFacts
  <1> HIDE DEF D, x, v
  <1>5. x - v \in (1 - Grain)..(2 * Grain - 2)
    BY <1>1, <1>2, <1>4
  <1> QED
    BY <1>4, <1>5 DEF x, v

-----------------------------------------------------------------------------
(* The node and the calls. *)

\* The names of outputs there have been.
Issued == {<<n, 1>> : n \in 1..accepted} \cup {<<-i, 0>> : i \in deposited}

NodeInv ==
    /\ unspent = [o \in DOMAIN unspent |-> unspent[o]]
    /\ IsFiniteSet(DOMAIN unspent) /\ DOMAIN unspent \subseteq Issued
    /\ \A o \in DOMAIN unspent : unspent[o] \in Nat \ {0} /\ Whole(unspent[o])
    /\ accepted \in Nat /\ deposited \subseteq DOMAIN Deposits
    /\ delivered \in Int /\ fees \in Int

TxRow == [inputs: Seq(Int \X {0, 1}), change: Nat]

CallTypes ==
    /\ pc \in [Calls -> Steps]
    /\ payment \in [Calls -> Payments \cup {NoPayment}]
    /\ tx \in [Calls -> TxRow]
    /\ faults \in 0..MaxFaults
    /\ \A c \in Calls : pc[c] # "idle" => payment[c] \in Payments
    /\ \A c \in Calls : pc[c] \notin {"idle", "refused"} => validated(payment[c])

Done == {c \in Calls : pc[c] = "done"}

\* A transaction was accepted for a call that is done, or its answer was lost.
AcceptedInv == accepted <= Cardinality(Done) + faults

\* The inputs of t, at the amounts of u, cover the total, and the change is what is
\* left of them.
Covered(u, t, total) ==
    /\ SumFunctionOnSet(u, Range(t.inputs)) > total - Grain
    /\ SumFunctionOnSet(u, Range(Front(t.inputs))) < total + Grain
    /\ (SumFunctionOnSet(u, Range(t.inputs)) - total) - t.change
            \in (1 - Grain)..(2 * Grain - 2)

TxInv ==
    \A c \in Calls :
        pc[c] \in {"create", "sign", "broadcast"} =>
            /\ Range(tx[c].inputs) \subseteq Issued
            /\ InputsUnspent(c) => Covered(unspent, tx[c], payment[c].total)

\* A transaction the node has made has amounts the node reads.
MadeInv == \A c \in Calls : pc[c] \in {"sign", "broadcast"} => Readable(c)

SenderIInv == NodeInv /\ CallTypes /\ AcceptedInv /\ TxInv /\ MadeInv

\* The assumptions on the constants, as facts.
LEMMA SenderBounds ==
    /\ IsFiniteSet(Calls) /\ Amounts \subseteq Int /\ Grain \in Nat \ {0}
    /\ Satoshi \in Nat \ {0} /\ 2 * Grain <= Satoshi /\ MaxFaults \in Nat
    /\ \A p \in Payments : p.total \in Amounts /\ p.arrived \in Amounts
    /\ \A i \in DOMAIN Deposits : /\ Deposits[i] \in Amounts /\ Deposits[i] \in Nat \ {0}
                                   /\ Whole(Deposits[i])
    /\ DOMAIN Deposits = 1..Len(Deposits) /\ Len(Deposits) \in Nat
  <1>1. Grain \in Nat \ {0} /\ Satoshi \in Nat \ {0} /\ 2 * Grain <= Satoshi
    BY SenderAssumption
  <1>2. \A p \in Payments : p.total \in Amounts /\ p.arrived \in Amounts
    BY SenderAssumption
  <1> QED
    BY <1>1, <1>2, SenderAssumption

\* The calls that are done are finitely many.
LEMMA DoneFinite == IsFiniteSet(Done) /\ Cardinality(Done) \in 0..Cardinality(Calls)
  <1>1. Done \in SUBSET Calls /\ IsFiniteSet(Calls)
    BY SenderBounds DEF Done
  <1>2. /\ IsFiniteSet(Done) /\ Cardinality(Done) <= Cardinality(Calls)
        /\ Cardinality(Calls) \in Nat
    BY <1>1, FS_Subset, FS_CardinalityType
  <1>3. Cardinality(Done) \in Nat
    BY <1>2, FS_CardinalityType
  <1> QED
    BY <1>2, <1>3

\* A name is given once: the next transaction and the next deposit have new ones.
LEMMA IssuedNames ==
    ASSUME NodeInv
    PROVE  /\ Issued \subseteq (-Len(Deposits)..accepted) \X {0, 1}
           /\ Issued \subseteq Int \X {0, 1}
           /\ <<accepted + 1, 1>> \notin Issued
           /\ \A i \in DOMAIN Deposits : i \notin deposited => <<-i, 0>> \notin Issued
  <1>1. /\ accepted \in Nat /\ deposited \subseteq 1..Len(Deposits)
        /\ Len(Deposits) \in Nat
    BY SenderBounds DEF NodeInv
  <1>2. ASSUME NEW n \in 1..accepted
        PROVE  /\ <<n, 1>> \in (-Len(Deposits)..accepted) \X {0, 1}
               /\ <<n, 1>> # <<accepted + 1, 1>>
    BY <1>1
  <1>3. ASSUME NEW i \in deposited
        PROVE  /\ <<-i, 0>> \in (-Len(Deposits)..accepted) \X {0, 1}
               /\ <<-i, 0>> # <<accepted + 1, 1>>
    BY <1>1
  <1>4. ASSUME NEW i \in DOMAIN Deposits, i \notin deposited
        PROVE  <<-i, 0>> \notin Issued
    BY <1>1, <1>4, SenderBounds DEF Issued
  <1>5. Issued \subseteq (-Len(Deposits)..accepted) \X {0, 1}
    BY <1>2, <1>3 DEF Issued
  <1>6. <<accepted + 1, 1>> \notin Issued
    BY <1>2, <1>3 DEF Issued
  <1> QED
    BY <1>1, <1>4, <1>5, <1>6

\* The inductive invariant gives the one the run checks.
LEMMA SenderInvFollows == SenderIInv => SenderInv
  <1> SUFFICES ASSUME SenderIInv PROVE SenderInv
    OBVIOUS
  <1>1. accepted \in 0..(Cardinality(Calls) + MaxFaults)
    <2>1. /\ Cardinality(Done) \in 0..Cardinality(Calls) /\ Cardinality(Calls) \in Nat
          /\ MaxFaults \in Nat
      BY DoneFinite, SenderBounds, FS_CardinalityType
    <2>2. /\ accepted \in Nat /\ accepted <= Cardinality(Done) + faults
          /\ faults \in 0..MaxFaults
      BY DEF SenderIInv, NodeInv, AcceptedInv, CallTypes
    <2> QED
      BY <2>1, <2>2
  <1>2. TypeOK
    BY <1>1, IssuedNames
    DEF TypeOK, SenderIInv, NodeInv, CallTypes, TxRow
  <1>3. InputsAreEnough
    BY DEF InputsAreEnough, SenderIInv, TxInv, Covered, Worth
  <1> QED
    BY <1>2, <1>3 DEF SenderInv

\* The inductive invariant holds at the start.
LEMMA SenderStarts == Init => SenderIInv
  <1> SUFFICES ASSUME Init PROVE SenderIInv
    OBVIOUS
  <1>1. /\ accepted = 0 /\ deposited = {} /\ delivered = 0 /\ fees = 0 /\ faults = 0
        /\ pc = [c \in Calls |-> "idle"] /\ payment = [c \in Calls |-> NoPayment]
        /\ tx = [c \in Calls |-> NoTx] /\ unspent = [o \in {} |-> 0]
    BY DEF Init
  <1>2. NodeInv
    BY <1>1, FS_EmptySet DEF NodeInv
  <1>3. NoTx \in TxRow
    BY DEF NoTx, TxRow
  <1>4. CallTypes
    BY <1>1, <1>3, SenderBounds DEF CallTypes, Steps
  <1>5. AcceptedInv
    BY <1>1, DoneFinite DEF AcceptedInv
  <1>6. TxInv /\ MadeInv
    BY <1>1 DEF TxInv, MadeInv
  <1> QED
    BY <1>2, <1>4, <1>5, <1>6 DEF SenderIInv

-----------------------------------------------------------------------------
(* What a step keeps. *)

\* A part of a sequence has some of its elements.
LEMMA FrontRange ==
    ASSUME NEW t \in TxRow
    PROVE  Range(Front(t.inputs)) \subseteq Range(t.inputs)
  <1> DEFINE s == t.inputs
  <1>1. s \in Seq(Int \X {0, 1})
    BY DEF TxRow
  <1> HIDE DEF s
  <1>2. CASE s = <<>>
    <2>1. Range(Front(s)) = {}
      BY <1>2 DEF Front, Range
    <2> QED
      BY <2>1 DEF s
  <1>3. CASE s # <<>>
    <2>1. Len(s) \in Nat /\ Len(s) - 1 \in 0..Len(s) /\ DOMAIN s = 1..Len(s)
      BY <1>1, <1>3
    <2>2. /\ Front(s) \in Seq(Int \X {0, 1}) /\ Len(Front(s)) = Len(s) - 1
          /\ \A i \in 1..(Len(s) - 1) : Front(s)[i] = s[i]
      BY <1>1, <2>1 DEF Front
    <2>3. DOMAIN Front(s) = 1..(Len(s) - 1)
      BY <2>1, <2>2
    <2>4. ASSUME NEW i \in DOMAIN Front(s)
          PROVE  i \in DOMAIN s /\ Front(s)[i] = s[i]
      <3>1. i \in 1..(Len(s) - 1)
        BY <2>3
      <3>2. i \in 1..Len(s)
        BY <2>1, <3>1
      <3> QED
        BY <2>1, <2>2, <3>1, <3>2
    <2>5. Range(Front(s)) \subseteq Range(s)
      BY <2>4 DEF Range
    <2> QED
      BY <2>5 DEF s
  <1> QED
    BY <1>2, <1>3

\* Inputs that are as they were cover the total as they did.
LEMMA StillCovered ==
    ASSUME NEW u, NEW v, NEW t \in TxRow, NEW total,
           IsFiniteSet(Range(t.inputs)),
           \A o \in Range(t.inputs) : u[o] = v[o],
           Covered(u, t, total)
    PROVE  Covered(v, t, total)
  <1> DEFINE all == Range(t.inputs)
             most == Range(Front(t.inputs))
  <1>1. most \in SUBSET all /\ IsFiniteSet(all) /\ \A o \in all : u[o] = v[o]
    BY FrontRange
  <1>2. /\ SumFunctionOnSet(u, all) > total - Grain
        /\ SumFunctionOnSet(u, most) < total + Grain
        /\ (SumFunctionOnSet(u, all) - total) - t.change
                \in (1 - Grain)..(2 * Grain - 2)
    BY DEF Covered
  <1> HIDE DEF all, most
  <1>3. IsFiniteSet(most) /\ \A o \in most : u[o] = v[o]
    BY <1>1, FS_Subset
  <1>4. /\ SumFunctionOnSet(u, all) = SumFunctionOnSet(v, all)
        /\ SumFunctionOnSet(u, most) = SumFunctionOnSet(v, most)
    BY <1>1, <1>3, SumOfSame
  <1> QED
    BY <1>2, <1>4 DEF Covered, all, most

\* An output that has a name already is no new output, and keeps its amount.
NamesKept ==
    /\ Issued \subseteq Issued'
    /\ \A o \in Issued :
        o \in DOMAIN unspent' => o \in DOMAIN unspent /\ unspent'[o] = unspent[o]

\* The transaction of a call the step leaves alone stays as good as it was.
LEMMA OtherCalls ==
    ASSUME SenderIInv, NamesKept, NEW d \in Calls,
           pc'[d] = pc[d], tx'[d] = tx[d], payment'[d] = payment[d],
           pc[d] \in {"create", "sign", "broadcast"}
    PROVE  /\ Range(tx'[d].inputs) \subseteq Issued'
           /\ InputsUnspent(d)' => Covered(unspent', tx'[d], payment'[d].total)
  <1>1. Range(tx[d].inputs) \subseteq Issued /\ tx[d] \in TxRow
    BY DEF SenderIInv, TxInv, CallTypes
  <1>2. Range(tx'[d].inputs) \subseteq Issued'
    BY <1>1 DEF NamesKept
  <1>3. ASSUME InputsUnspent(d)'
        PROVE  Covered(unspent', tx'[d], payment'[d].total)
    <2>1. Range(tx[d].inputs) \subseteq DOMAIN unspent'
      BY <1>3 DEF InputsUnspent
    <2>2. \A o \in Range(tx[d].inputs) :
            o \in DOMAIN unspent /\ unspent[o] = unspent'[o]
      BY <1>1, <2>1 DEF NamesKept
    <2>3. InputsUnspent(d) /\ IsFiniteSet(Range(tx[d].inputs))
      BY <2>2, FS_Subset DEF InputsUnspent, SenderIInv, NodeInv
    <2>4. Covered(unspent, tx[d], payment[d].total)
      BY <2>3 DEF SenderIInv, TxInv
    <2>5. Covered(unspent', tx[d], payment[d].total)
      BY <1>1, <2>2, <2>3, <2>4, StillCovered
    <2> QED
      BY <2>5
  <1> QED
    BY <1>2, <1>3

\* A step of a call that neither gets an answer to its transaction nor begins.
LEMMA NotDone ==
    ASSUME SenderIInv, NEW c \in Calls, pc[c] # "done",
           NEW to \in Steps \ {"done"}, Goto(c, to),
           accepted' = accepted, faults' \in 0..MaxFaults, faults' >= faults
    PROVE  AcceptedInv'
  <1>1. Done' = Done
    BY DEF Done, Goto, SenderIInv, CallTypes
  <1>2. accepted <= Cardinality(Done) + faults
    BY DEF SenderIInv, AcceptedInv
  <1>3. Cardinality(Done) \in Nat /\ accepted \in Nat /\ faults \in Nat
        /\ faults' \in Nat
    BY DoneFinite DEF SenderIInv, NodeInv, CallTypes
  <1>4. accepted' <= Cardinality(Done) + faults'
    BY <1>2, <1>3
  <1> QED
    BY <1>1, <1>4 DEF AcceptedInv

\* A step that leaves the node alone keeps all that is known of it.
LEMMA SameNode ==
    ASSUME NodeInv, UNCHANGED nodeVars
    PROVE  NodeInv' /\ NamesKept /\ Issued' = Issued
  <1>1. /\ unspent' = unspent /\ accepted' = accepted /\ deposited' = deposited
        /\ delivered' = delivered /\ fees' = fees
    BY DEF nodeVars
  <1>2. Issued' = Issued
    BY <1>1 DEF Issued
  <1>3. NodeInv'
    BY <1>1, <1>2 DEF NodeInv
  <1>4. NamesKept
    BY <1>1, <1>2 DEF NamesKept
  <1> QED
    BY <1>2, <1>3, <1>4

\* A step that leaves the node alone keeps the transactions of the calls, when
\* the call that takes it has none afterwards, or the one it had.
LEMMA SameTransactions ==
    ASSUME SenderIInv, UNCHANGED nodeVars, NEW c \in Calls,
           \A d \in Calls : d # c => /\ pc'[d] = pc[d] /\ tx'[d] = tx[d]
                                     /\ payment'[d] = payment[d],
           \/ pc'[c] \notin {"create", "sign", "broadcast"}
           \/ /\ pc[c] \in {"create", "sign", "broadcast"}
              /\ tx'[c] = tx[c] /\ payment'[c] = payment[c]
    PROVE  TxInv'
  <1>1. NamesKept /\ Issued' = Issued /\ unspent' = unspent
    BY SameNode DEF SenderIInv, nodeVars
  <1> SUFFICES ASSUME NEW d \in Calls, pc'[d] \in {"create", "sign", "broadcast"}
               PROVE  /\ Range(tx'[d].inputs) \subseteq Issued'
                      /\ InputsUnspent(d)'
                            => Covered(unspent', tx'[d], payment'[d].total)
    BY DEF TxInv
  <1>2. CASE d # c
    BY <1>1, <1>2, OtherCalls
  <1>3. CASE d = c
    <2>1. /\ pc[d] \in {"create", "sign", "broadcast"}
          /\ tx'[d] = tx[d] /\ payment'[d] = payment[d]
      BY <1>3
    <2>2. /\ Range(tx[d].inputs) \subseteq Issued
          /\ InputsUnspent(d) => Covered(unspent, tx[d], payment[d].total)
      BY <2>1 DEF SenderIInv, TxInv
    <2>3. InputsUnspent(d)' <=> InputsUnspent(d)
      BY <1>1, <2>1 DEF InputsUnspent
    <2> QED
      BY <1>1, <2>1, <2>2, <2>3
  <1> QED
    BY <1>2, <1>3

\* A step after which a call has no made transaction that it had not before.
LEMMA MadeKept ==
    ASSUME SenderIInv,
           \A d \in Calls : pc'[d] \in {"sign", "broadcast"} =>
               \/ /\ pc[d] \in {"sign", "broadcast"}
                  /\ tx'[d] = tx[d] /\ payment'[d] = payment[d]
               \/ Whole(payment'[d].arrived) /\ Whole(tx'[d].change)
    PROVE  MadeInv'
  BY DEF SenderIInv, MadeInv, Readable

-----------------------------------------------------------------------------
(* The steps of a call that leave the node alone. *)

\* What Goto does, call by call.
LEMMA GotoFacts ==
    ASSUME CallTypes, NEW c \in Calls, NEW to \in Steps, Goto(c, to)
    PROVE  /\ pc' \in [Calls -> Steps] /\ pc'[c] = to
           /\ \A d \in Calls : d # c => pc'[d] = pc[d]
  BY DEF CallTypes, Goto

\* A step that changes no more than where a call is, and how many failed.
LEMMA MovesOn ==
    ASSUME SenderIInv, NEW c \in Calls, pc[c] \notin {"idle", "refused", "done"},
           NEW to \in Steps \ {"idle", "refused", "done"}, Goto(c, to),
           UNCHANGED <<nodeVars, payment, tx>>,
           faults' \in 0..MaxFaults, faults' >= faults,
           to \in {"create", "sign", "broadcast"}
                => pc[c] \in {"create", "sign", "broadcast"},
           to \in {"sign", "broadcast"} => pc[c] \in {"sign", "broadcast"} \/ Readable(c)
    PROVE  SenderIInv'
  <1>1. NodeInv' /\ accepted' = accepted /\ payment' = payment /\ tx' = tx
    BY SameNode DEF SenderIInv, nodeVars
  <1>2. /\ pc' \in [Calls -> Steps] /\ pc'[c] = to
        /\ \A d \in Calls : d # c => pc'[d] = pc[d]
    BY GotoFacts DEF SenderIInv
  <1>3. CallTypes'
    <2>1. ASSUME NEW d \in Calls
          PROVE  /\ pc'[d] # "idle" => payment[d] \in Payments
                 /\ pc'[d] \notin {"idle", "refused"} => validated(payment[d])
      BY <1>2 DEF SenderIInv, CallTypes
    <2>2. payment \in [Calls -> Payments \cup {NoPayment}] /\ tx \in [Calls -> TxRow]
      BY DEF SenderIInv, CallTypes
    <2> QED
      BY <1>1, <1>2, <2>1, <2>2 DEF CallTypes
  <1>4. AcceptedInv'
    BY <1>1, NotDone
  <1>5. TxInv'
    BY <1>1, <1>2, SameTransactions
  <1>6. MadeInv'
    BY <1>1, <1>2, MadeKept DEF Readable
  <1> QED
    BY <1>1, <1>3, <1>4, <1>5, <1>6 DEF SenderIInv

\* A call that begins keeps the invariant.
LEMMA SendKeeps ==
    ASSUME SenderIInv, NEW c \in Calls, NEW p \in Payments, Send(c, p)
    PROVE  SenderIInv'
  <1> DEFINE to == IF validated(p) THEN "list" ELSE "refused"
  <1>1. /\ to \in Steps \ {"done"} /\ to \in {"list", "refused"} /\ Goto(c, to)
        /\ pc[c] = "idle" /\ payment' = [payment EXCEPT ![c] = p]
        /\ UNCHANGED nodeVars /\ tx' = tx /\ faults' = faults
        /\ (to = "list" => validated(p))
    BY DEF Send, Steps
  <1> HIDE DEF to
  <1>2. NodeInv' /\ accepted' = accepted
    BY <1>1, SameNode DEF SenderIInv, nodeVars
  <1>3. /\ pc' \in [Calls -> Steps] /\ pc'[c] = to
        /\ \A d \in Calls : d # c => pc'[d] = pc[d]
    BY <1>1, GotoFacts DEF SenderIInv
  <1>4. /\ payment' \in [Calls -> Payments \cup {NoPayment}] /\ payment'[c] = p
        /\ \A d \in Calls : d # c => payment'[d] = payment[d]
    BY <1>1 DEF SenderIInv, CallTypes
  <1>5. CallTypes'
    <2>1. ASSUME NEW d \in Calls
          PROVE  /\ pc'[d] # "idle" => payment'[d] \in Payments
                 /\ pc'[d] \notin {"idle", "refused"} => validated(payment'[d])
      BY <1>1, <1>3, <1>4 DEF SenderIInv, CallTypes
    <2>2. tx' \in [Calls -> TxRow] /\ faults' \in 0..MaxFaults
      BY <1>1 DEF SenderIInv, CallTypes
    <2> QED
      BY <1>3, <1>4, <2>1, <2>2 DEF CallTypes
  <1>6. AcceptedInv'
    <2>1. faults' \in 0..MaxFaults /\ faults' >= faults
      BY <1>1, SenderBounds DEF SenderIInv, CallTypes
    <2> QED
      BY <1>1, <1>2, <2>1, NotDone
  <1>7. TxInv'
    BY <1>1, <1>3, <1>4, SameTransactions
  <1>8. MadeInv'
    BY <1>1, <1>3, <1>4, MadeKept
  <1> QED
    BY <1>2, <1>5, <1>6, <1>7, <1>8 DEF SenderIInv

\* A call that begins again keeps the invariant.
LEMMA RetryKeeps ==
    ASSUME SenderIInv, NEW c \in Calls, Retry(c)
    PROVE  SenderIInv'
  <1>1. /\ "list" \in Steps \ {"done"} /\ Goto(c, "list") /\ pc[c] = "failed"
        /\ tx' = [tx EXCEPT ![c] = NoTx]
        /\ UNCHANGED nodeVars /\ payment' = payment /\ faults' = faults
    BY DEF Retry, Steps
  <1>2. NodeInv' /\ accepted' = accepted
    BY <1>1, SameNode DEF SenderIInv, nodeVars
  <1>3. /\ pc' \in [Calls -> Steps] /\ pc'[c] = "list"
        /\ \A d \in Calls : d # c => pc'[d] = pc[d]
    BY <1>1, GotoFacts DEF SenderIInv
  <1>4. tx' \in [Calls -> TxRow] /\ \A d \in Calls : d # c => tx'[d] = tx[d]
    <2>1. NoTx \in TxRow
      BY DEF NoTx, TxRow
    <2> QED
      BY <1>1, <2>1 DEF SenderIInv, CallTypes
  <1>5. CallTypes'
    <2>1. ASSUME NEW d \in Calls
          PROVE  /\ pc'[d] # "idle" => payment'[d] \in Payments
                 /\ pc'[d] \notin {"idle", "refused"} => validated(payment'[d])
      BY <1>1, <1>3 DEF SenderIInv, CallTypes
    <2>2. /\ payment' \in [Calls -> Payments \cup {NoPayment}]
          /\ faults' \in 0..MaxFaults
      BY <1>1 DEF SenderIInv, CallTypes
    <2> QED
      BY <1>3, <1>4, <2>1, <2>2 DEF CallTypes
  <1>6. AcceptedInv'
    <2>1. faults' \in 0..MaxFaults /\ faults' >= faults
      BY <1>1, SenderBounds DEF SenderIInv, CallTypes
    <2> QED
      BY <1>1, <1>2, <2>1, NotDone
  <1>7. TxInv'
    BY <1>1, <1>3, <1>4, SameTransactions
  <1>8. MadeInv'
    BY <1>1, <1>3, <1>4, MadeKept
  <1> QED
    BY <1>2, <1>5, <1>6, <1>7, <1>8 DEF SenderIInv

\* The inputs are chosen from a list of the outputs that are unspent now.
LEMMA ListUnspentKeeps ==
    ASSUME SenderIInv, NEW c \in Calls, ListUnspent(c)
    PROVE  SenderIInv'
  <1> DEFINE total == payment[c].total
             S == DOMAIN unspent
             inputs(utxos) == collectInputs(utxos, total)
             worth(utxos) == Worth(Range(inputs(utxos)))
             row(utxos) == [inputs |-> inputs(utxos),
                            change |-> changeAmount(inputs(utxos), payment[c])]
  <1>1. /\ pc[c] = "list" /\ UNCHANGED nodeVars
        /\ payment' = payment /\ faults' = faults
    BY DEF ListUnspent
  <1>2. PICK utxos \in SetToSeqs(S) :
          \/ enough(utxos, total) = {} /\ Goto(c, "failed") /\ tx' = tx
          \/ /\ enough(utxos, total) # {} /\ Goto(c, "create")
             /\ tx' = [tx EXCEPT ![c] = row(utxos)]
    BY DEF ListUnspent
  <1>3. CASE enough(utxos, total) = {} /\ Goto(c, "failed") /\ tx' = tx
    <2>1. "failed" \in Steps \ {"idle", "refused", "done"}
      BY DEF Steps
    <2>2. faults' \in 0..MaxFaults /\ faults' >= faults
      BY <1>1, SenderBounds DEF SenderIInv, CallTypes
    <2> QED
      BY <1>1, <1>3, <2>1, <2>2, MovesOn
  <1>4. CASE /\ enough(utxos, total) # {} /\ Goto(c, "create")
             /\ tx' = [tx EXCEPT ![c] = row(utxos)]
    <2>1. /\ IsFiniteSet(S) /\ \A o \in S : unspent[o] \in Nat
          /\ S \subseteq Issued /\ S \subseteq Int \X {0, 1}
      BY IssuedNames DEF SenderIInv, NodeInv
    <2>2. utxos \in Seq(S)
      <3>1. utxos \in [1..Cardinality(S) -> S]
        BY DEF SetToSeqs
      <3>2. Cardinality(S) \in Nat
        BY <2>1, FS_CardinalityType
      <3> QED
        BY <3>1, <3>2
    <2>3. total \in Int /\ total > 0
      BY <1>1, SenderBounds DEF SenderIInv, CallTypes, validated
    <2> HIDE DEF S
    <2>4. /\ inputs(utxos) \in Seq(S) /\ Range(inputs(utxos)) \subseteq S
          /\ worth(utxos) > total - Grain
          /\ Worth(Range(Front(inputs(utxos)))) < total + Grain
          /\ worth(utxos) \in Int /\ FloatDifference(inputs(utxos), total) \in Nat
      <3> HIDE DEF total
      <3> QED
        BY <1>4, <2>1, <2>2, <2>3, Collected
    <2> HIDE DEF inputs
    <2>6. /\ changeAmount(inputs(utxos), payment[c]) \in Nat
          /\ (worth(utxos) - total) - changeAmount(inputs(utxos), payment[c])
                \in (1 - Grain)..(2 * Grain - 2)
      BY <2>3, <2>4, ChangeFacts
    <2> HIDE DEF worth, total
    <2>7. row(utxos) \in TxRow
      BY <2>1, <2>4, <2>6 DEF TxRow
    <2>8. /\ row(utxos).inputs = inputs(utxos)
          /\ row(utxos).change = changeAmount(inputs(utxos), payment[c])
      OBVIOUS
    <2> HIDE DEF row, inputs
    <2>9. NodeInv' /\ accepted' = accepted /\ Issued' = Issued /\ NamesKept
          /\ unspent' = unspent
      BY <1>1, SameNode DEF SenderIInv, nodeVars
    <2>10. /\ pc' \in [Calls -> Steps] /\ pc'[c] = "create"
           /\ \A d \in Calls : d # c => pc'[d] = pc[d]
      BY <1>4, GotoFacts DEF SenderIInv, Steps
    <2>11. /\ tx' \in [Calls -> TxRow] /\ tx'[c] = row(utxos)
           /\ \A d \in Calls : d # c => tx'[d] = tx[d]
      BY <1>4, <2>7 DEF SenderIInv, CallTypes
    <2>12. CallTypes'
      <3>1. ASSUME NEW d \in Calls
            PROVE  /\ pc'[d] # "idle" => payment'[d] \in Payments
                   /\ pc'[d] \notin {"idle", "refused"} => validated(payment'[d])
        BY <1>1, <2>10 DEF SenderIInv, CallTypes
      <3>2. /\ payment' \in [Calls -> Payments \cup {NoPayment}]
            /\ faults' \in 0..MaxFaults
        BY <1>1 DEF SenderIInv, CallTypes
      <3> QED
        BY <2>10, <2>11, <3>1, <3>2 DEF CallTypes
    <2>13. AcceptedInv'
      <3>1. faults' \in 0..MaxFaults /\ faults' >= faults
        BY <1>1, SenderBounds DEF SenderIInv, CallTypes
      <3>2. "create" \in Steps \ {"done"} /\ pc[c] # "done"
        BY <1>1 DEF Steps
      <3> QED
        BY <1>4, <2>9, <3>1, <3>2, NotDone
    <2>14. Covered(unspent', tx'[c], payment'[c].total)
      BY <1>1, <2>4, <2>6, <2>8, <2>9, <2>11 DEF Covered, worth, Worth, total
    <2>15. TxInv'
      <3> SUFFICES ASSUME NEW d \in Calls,
                          pc'[d] \in {"create", "sign", "broadcast"}
                   PROVE  /\ Range(tx'[d].inputs) \subseteq Issued'
                          /\ InputsUnspent(d)'
                                => Covered(unspent', tx'[d], payment'[d].total)
        BY DEF TxInv
      <3>1. CASE d # c
        BY <1>1, <2>9, <2>10, <2>11, <3>1, OtherCalls
      <3>2. CASE d = c
        BY <2>1, <2>4, <2>8, <2>9, <2>11, <2>14, <3>2
      <3> QED
        BY <3>1, <3>2
    <2>16. MadeInv'
      BY <1>1, <2>10, <2>11, MadeKept
    <2> QED
      BY <2>9, <2>12, <2>13, <2>15, <2>16 DEF SenderIInv
  <1> QED
    BY <1>2, <1>3, <1>4

-----------------------------------------------------------------------------
(* The steps of the node. *)

\* The transaction of a call that the node takes: its inputs are worth what they
\* were when they were listed.
LEMMA TransactionFacts ==
    ASSUME SenderIInv, NEW c \in Calls, pc[c] = "broadcast", InputsUnspent(c)
    PROVE  /\ Range(tx[c].inputs) \in SUBSET DOMAIN unspent
           /\ payment[c] \in Payments
           /\ payment[c].total \in Amounts /\ payment[c].arrived \in Amounts
           /\ validated(payment[c]) /\ Amounts \subseteq Int
           /\ Worth(Range(tx[c].inputs)) \in Int /\ Whole(Worth(Range(tx[c].inputs)))
           /\ tx[c].change \in Nat /\ Whole(tx[c].change)
           /\ (Worth(Range(tx[c].inputs)) - payment[c].total) - tx[c].change
                \in (1 - Grain)..(2 * Grain - 2)
  <1> DEFINE R == Range(tx[c].inputs)
             total == payment[c].total
  <1>1. R \in SUBSET DOMAIN unspent
    BY DEF InputsUnspent
  <1>2. /\ payment[c] \in Payments /\ validated(payment[c]) /\ tx[c].change \in Nat
        /\ Covered(unspent, tx[c], total) /\ Amounts \subseteq Int
    BY SenderBounds DEF SenderIInv, CallTypes, TxInv, TxRow
  <1>3. total \in Amounts /\ payment[c].arrived \in Amounts
    BY <1>2, SenderBounds
  <1>4. (Worth(R) - total) - tx[c].change \in (1 - Grain)..(2 * Grain - 2)
    BY <1>2 DEF Covered, Worth
  <1>5. Worth(R) \in Int /\ Whole(Worth(R))
    <2> HIDE DEF R
    <2>1. /\ IsFiniteSet(R)
          /\ \A o \in R : unspent[o] \in Int /\ unspent[o] % Satoshi = 0
      BY <1>1, FS_Subset DEF SenderIInv, NodeInv, Whole
    <2>2. Satoshi \in Nat \ {0}
      BY SenderBounds
    <2>3. SumFunctionOnSet(unspent, R) % Satoshi = 0
      BY <2>1, <2>2, SumOfMultiples
    <2> QED
      BY <2>1, <2>3, SumType DEF Worth, Whole
  <1>6. Whole(tx[c].change)
    BY DEF SenderIInv, MadeInv, Readable
  <1> QED
    BY <1>1, <1>2, <1>3, <1>4, <1>5, <1>6

\* What the node spends, and makes.
Left(c) == DOMAIN unspent \ Range(tx[c].inputs)

Change(c) == IF tx[c].change > 0 THEN {<<accepted + 1, 1>>} ELSE {}

\* What the node does with a transaction.
LEMMA AcceptFacts ==
    ASSUME SenderIInv, NEW c \in Calls, pc[c] = "broadcast", Accept(c)
    PROVE  /\ DOMAIN unspent' = Left(c) \cup Change(c)
           /\ Left(c) \cap Change(c) = {}
           /\ \A o \in Left(c) : unspent'[o] = unspent[o]
           /\ \A o \in Change(c) : unspent'[o] = tx[c].change
           /\ accepted' = accepted + 1 /\ NodeInv' /\ NamesKept
  <1> DEFINE v == tx[c].change
  <1>1. /\ InputsUnspent(c) /\ accepted' = accepted + 1 /\ deposited' = deposited
        /\ unspent' = [o \in Left(c) \cup Change(c) |->
                        IF o \in Change(c) THEN v ELSE unspent[o]]
        /\ delivered' = delivered + payment[c].arrived
        /\ fees' = fees + Worth(Range(tx[c].inputs)) - payment[c].arrived - v
    BY DEF Accept, Left, Change
  <1>2. /\ v \in Nat /\ payment[c].arrived \in Int /\ Whole(v)
        /\ Worth(Range(tx[c].inputs)) \in Int
    BY <1>1, TransactionFacts
  <1>3. /\ accepted \in Nat /\ delivered \in Int /\ fees \in Int
        /\ deposited \subseteq DOMAIN Deposits /\ IsFiniteSet(DOMAIN unspent)
        /\ DOMAIN unspent \subseteq Issued
        /\ \A o \in DOMAIN unspent : unspent[o] \in Nat \ {0} /\ Whole(unspent[o])
        /\ <<accepted + 1, 1>> \notin Issued
    BY IssuedNames DEF SenderIInv, NodeInv
  <1>4. /\ Left(c) \in SUBSET DOMAIN unspent
        /\ Change(c) \subseteq {<<accepted + 1, 1>>}
        /\ (Change(c) # {} => v > 0)
    BY DEF Left, Change
  <1> HIDE DEF v
  <1>5. Issued' = Issued \cup {<<accepted + 1, 1>>}
    <2>1. 1..(accepted + 1) = (1..accepted) \cup {accepted + 1}
      BY <1>3
    <2>2. Issued' = {<<n, 1>> : n \in 1..(accepted + 1)}
                        \cup {<<-i, 0>> : i \in deposited}
      BY <1>1 DEF Issued
    <2>3. {<<n, 1>> : n \in 1..(accepted + 1)}
            = {<<n, 1>> : n \in 1..accepted} \cup {<<accepted + 1, 1>>}
      BY <2>1
    <2> QED
      BY <2>2, <2>3 DEF Issued
  <1>6. Left(c) \cap Change(c) = {}
    BY <1>3, <1>4
  <1>7. /\ DOMAIN unspent' = Left(c) \cup Change(c)
        /\ unspent' = [o \in DOMAIN unspent' |-> unspent'[o]]
        /\ \A o \in Left(c) : unspent'[o] = unspent[o]
        /\ \A o \in Change(c) : unspent'[o] = v
    BY <1>1, <1>6
  <1>8. NodeInv'
    <2>1. IsFiniteSet(DOMAIN unspent')
      <3>1. IsFiniteSet(Left(c)) /\ IsFiniteSet({<<accepted + 1, 1>>})
        BY <1>3, <1>4, FS_Subset, FS_Singleton
      <3>2. IsFiniteSet(Change(c))
        BY <1>4, <3>1, FS_Subset
      <3> QED
        BY <1>7, <3>1, <3>2, FS_Union
    <2>2. DOMAIN unspent' \subseteq Issued'
      BY <1>3, <1>4, <1>5, <1>7
    <2>3. \A o \in DOMAIN unspent' : unspent'[o] \in Nat \ {0} /\ Whole(unspent'[o])
      <3>1. ASSUME NEW o \in Left(c)
            PROVE  unspent'[o] \in Nat \ {0} /\ Whole(unspent'[o])
        BY <1>3, <1>4, <1>7
      <3>2. ASSUME NEW o \in Change(c)
            PROVE  unspent'[o] \in Nat \ {0} /\ Whole(unspent'[o])
        BY <1>2, <1>4, <1>7
      <3> QED
        BY <1>7, <3>1, <3>2
    <2>4. accepted' \in Nat /\ delivered' \in Int /\ fees' \in Int
      BY <1>1, <1>2, <1>3
    <2>5. deposited' \subseteq DOMAIN Deposits
      BY <1>1, <1>3
    <2> QED
      BY <1>7, <2>1, <2>2, <2>3, <2>4, <2>5 DEF NodeInv
  <1>9. NamesKept
    <2>1. Issued \subseteq Issued'
      BY <1>5
    <2>2. ASSUME NEW o \in Issued, o \in DOMAIN unspent'
          PROVE  o \in DOMAIN unspent /\ unspent'[o] = unspent[o]
      BY <1>3, <1>4, <1>7, <2>2
    <2> QED
      BY <2>1, <2>2 DEF NamesKept
  <1> QED
    BY <1>1, <1>6, <1>7, <1>8, <1>9 DEF v

\* A call whose transaction the node took either is told so, or counts a fault.
LEMMA AcceptKeeps ==
    ASSUME SenderIInv, NEW c \in Calls, pc[c] = "broadcast", Accept(c),
           UNCHANGED <<payment, tx>>,
           \/ Goto(c, "done") /\ faults' = faults
           \/ Goto(c, "failed") /\ Fault
    PROVE  SenderIInv'
  <1>1. /\ accepted' = accepted + 1 /\ NodeInv' /\ NamesKept
        /\ payment' = payment /\ tx' = tx
    BY AcceptFacts
  <1>2. PICK to \in {"done", "failed"} :
          Goto(c, to) /\ (to = "done" => faults' = faults)
                      /\ (to = "failed" => Fault)
    OBVIOUS
  <1>3. /\ pc' \in [Calls -> Steps] /\ pc'[c] = to
        /\ \A d \in Calls : d # c => pc'[d] = pc[d]
    BY <1>2, GotoFacts DEF SenderIInv, Steps
  <1>4. /\ faults' \in 0..MaxFaults
        /\ (to = "failed" => faults' = faults + 1)
        /\ (to = "done" => faults' = faults)
    BY <1>2, SenderBounds DEF Fault, SenderIInv, CallTypes
  <1>5. CallTypes'
    <2>1. ASSUME NEW d \in Calls
          PROVE  /\ pc'[d] # "idle" => payment[d] \in Payments
                 /\ pc'[d] \notin {"idle", "refused"} => validated(payment[d])
      BY <1>3 DEF SenderIInv, CallTypes
    <2>2. payment \in [Calls -> Payments \cup {NoPayment}] /\ tx \in [Calls -> TxRow]
      BY DEF SenderIInv, CallTypes
    <2> QED
      BY <1>1, <1>3, <1>4, <2>1, <2>2 DEF CallTypes
  <1>6. AcceptedInv'
    <2>1. /\ accepted <= Cardinality(Done) + faults /\ accepted \in Nat
          /\ faults \in Nat /\ IsFiniteSet(Done) /\ Cardinality(Done) \in Nat
      BY DoneFinite DEF SenderIInv, AcceptedInv, NodeInv, CallTypes
    <2>2. CASE to = "failed"
      <3>1. Done' = Done
        BY <1>3, <2>2 DEF Done
      <3>2. accepted' <= Cardinality(Done) + faults'
        BY <1>1, <1>4, <2>1, <2>2
      <3> QED
        BY <3>1, <3>2 DEF AcceptedInv
    <2>3. CASE to = "done"
      <3>1. Done' = Done \cup {c} /\ c \notin Done
        BY <1>3, <2>3 DEF Done
      <3>2. Cardinality(Done \cup {c}) = Cardinality(Done) + 1
        BY <2>1, <3>1, FS_AddElement
      <3>3. accepted' <= Cardinality(Done \cup {c}) + faults'
        BY <1>1, <1>4, <2>1, <2>3, <3>2
      <3> QED
        BY <3>1, <3>3 DEF AcceptedInv
    <2> QED
      BY <2>2, <2>3
  <1>7. TxInv'
    <2> SUFFICES ASSUME NEW d \in Calls, pc'[d] \in {"create", "sign", "broadcast"}
                 PROVE  /\ Range(tx'[d].inputs) \subseteq Issued'
                        /\ InputsUnspent(d)'
                              => Covered(unspent', tx'[d], payment'[d].total)
      BY DEF TxInv
    <2>1. d # c /\ pc'[d] = pc[d]
      BY <1>3
    <2> QED
      BY <1>1, <2>1, OtherCalls
  <1>8. MadeInv'
    BY <1>1, <1>3, MadeKept
  <1> QED
    BY <1>1, <1>5, <1>6, <1>7, <1>8 DEF SenderIInv

\* What a deposit does.
LEMMA DepositFacts ==
    ASSUME SenderIInv, NEW i \in DOMAIN Deposits, Deposit(i)
    PROVE  /\ <<-i, 0>> \notin DOMAIN unspent
           /\ DOMAIN unspent' = DOMAIN unspent \cup {<<-i, 0>>}
           /\ \A o \in DOMAIN unspent : unspent'[o] = unspent[o]
           /\ unspent'[<<-i, 0>>] = Deposits[i]
           /\ NodeInv' /\ NamesKept
  <1> DEFINE e == <<-i, 0>>
  <1>1. /\ i \notin deposited /\ deposited' = deposited \cup {i}
        /\ unspent' = [o \in DOMAIN unspent \cup {e} |->
                        IF o = e THEN Deposits[i] ELSE unspent[o]]
        /\ accepted' = accepted /\ delivered' = delivered /\ fees' = fees
    BY DEF Deposit
  <1>2. /\ accepted \in Nat /\ delivered \in Int /\ fees \in Int
        /\ deposited \subseteq DOMAIN Deposits /\ IsFiniteSet(DOMAIN unspent)
        /\ DOMAIN unspent \subseteq Issued
        /\ \A o \in DOMAIN unspent : unspent[o] \in Nat \ {0} /\ Whole(unspent[o])
        /\ Deposits[i] \in Nat \ {0} /\ Whole(Deposits[i]) /\ e \notin Issued
    BY <1>1, IssuedNames, SenderBounds DEF SenderIInv, NodeInv
  <1>3. Issued' = Issued \cup {e}
    BY <1>1 DEF Issued
  <1> HIDE DEF e
  <1>4. /\ DOMAIN unspent' = DOMAIN unspent \cup {e}
        /\ unspent' = [o \in DOMAIN unspent' |-> unspent'[o]]
        /\ \A o \in DOMAIN unspent : unspent'[o] = unspent[o]
        /\ unspent'[e] = Deposits[i]
    BY <1>1, <1>2
  <1>5. NodeInv'
    <2>1. IsFiniteSet(DOMAIN unspent')
      BY <1>2, <1>4, FS_AddElement
    <2>2. /\ DOMAIN unspent' \subseteq Issued'
          /\ \A o \in DOMAIN unspent' : unspent'[o] \in Nat \ {0} /\ Whole(unspent'[o])
      BY <1>2, <1>3, <1>4
    <2>3. /\ accepted' \in Nat /\ delivered' \in Int /\ fees' \in Int
          /\ deposited' \subseteq DOMAIN Deposits
      BY <1>1, <1>2
    <2> QED
      BY <1>4, <2>1, <2>2, <2>3 DEF NodeInv
  <1>6. NamesKept
    BY <1>2, <1>3, <1>4 DEF NamesKept
  <1> QED
    BY <1>2, <1>4, <1>5, <1>6 DEF e

\* A deposit keeps the invariant.
LEMMA DepositKeeps ==
    ASSUME SenderIInv, NEW i \in DOMAIN Deposits, Deposit(i)
    PROVE  SenderIInv'
  <1>1. /\ accepted' = accepted /\ pc' = pc /\ payment' = payment /\ tx' = tx
        /\ faults' = faults
    BY DEF Deposit
  <1>2. NodeInv' /\ NamesKept
    BY DepositFacts
  <1>3. CallTypes'
    BY <1>1 DEF SenderIInv, CallTypes
  <1>4. AcceptedInv'
    BY <1>1 DEF SenderIInv, AcceptedInv, Done
  <1>5. TxInv'
    BY <1>1, <1>2, OtherCalls DEF TxInv
  <1>6. MadeInv'
    BY <1>1, MadeKept
  <1> QED
    BY <1>2, <1>3, <1>4, <1>5, <1>6 DEF SenderIInv

\* Every step keeps the invariant.
LEMMA SenderSteps == SenderIInv /\ [Next]_vars => SenderIInv'
  <1> SUFFICES ASSUME SenderIInv, [Next]_vars PROVE SenderIInv'
    OBVIOUS
  <1>1. ASSUME NEW c \in Calls, NEW p \in Payments, Send(c, p) PROVE SenderIInv'
    BY <1>1, SendKeeps
  <1>2. ASSUME NEW c \in Calls, ListUnspent(c) PROVE SenderIInv'
    BY <1>2, ListUnspentKeeps
  <1>3. faults \in Nat /\ MaxFaults \in Nat /\ faults \in 0..MaxFaults
    BY SenderBounds DEF SenderIInv, CallTypes
  <1>4. ASSUME NEW c \in Calls, CreateRawTransaction(c) PROVE SenderIInv'
    <2>1. PICK to \in {"sign", "failed"} :
            /\ pc[c] = "create" /\ Goto(c, to) /\ (to = "sign" => Readable(c))
            /\ faults' = faults /\ UNCHANGED <<nodeVars, payment, tx>>
      BY <1>4 DEF CreateRawTransaction
    <2>2. to \in Steps \ {"idle", "refused", "done"}
      BY DEF Steps
    <2> QED
      BY <1>3, <2>1, <2>2, MovesOn
  <1>5. ASSUME NEW c \in Calls, SignRawTransactionWithWallet(c) PROVE SenderIInv'
    <2>1. PICK to \in {"broadcast", "failed"} :
            /\ pc[c] = "sign" /\ Goto(c, to) /\ faults' = faults
            /\ UNCHANGED <<nodeVars, payment, tx>>
      BY <1>5 DEF SignRawTransactionWithWallet
    <2>2. to \in Steps \ {"idle", "refused", "done"}
      BY DEF Steps
    <2> QED
      BY <1>3, <2>1, <2>2, MovesOn
  <1>6. ASSUME NEW c \in Calls, SendRawTransaction(c) PROVE SenderIInv'
    BY <1>6, AcceptKeeps DEF SendRawTransaction
  <1>7. ASSUME NEW c \in Calls, SendConflicts(c) PROVE SenderIInv'
    <2>1. /\ pc[c] = "broadcast" /\ Goto(c, "failed") /\ faults' = faults
          /\ UNCHANGED <<nodeVars, payment, tx>>
      BY <1>7 DEF SendConflicts
    <2>2. "failed" \in Steps \ {"idle", "refused", "done"}
      BY DEF Steps
    <2> QED
      BY <1>3, <2>1, <2>2, MovesOn
  <1>8. ASSUME NEW c \in Calls, SendUnanswered(c) PROVE SenderIInv'
    BY <1>8, AcceptKeeps DEF SendUnanswered
  <1>9. ASSUME NEW c \in Calls, CallFails(c) PROVE SenderIInv'
    <2>1. /\ pc[c] \in {"list", "create", "sign", "broadcast"} /\ Goto(c, "failed")
          /\ UNCHANGED <<nodeVars, payment, tx>>
      BY <1>9 DEF CallFails
    <2>2. "failed" \in Steps \ {"idle", "refused", "done"}
      BY DEF Steps
    <2>3. faults' \in 0..MaxFaults /\ faults' >= faults
      BY <1>3, <1>9 DEF CallFails, Fault
    <2> QED
      BY <2>1, <2>2, <2>3, MovesOn
  <1>10. ASSUME NEW c \in Calls, Retry(c) PROVE SenderIInv'
    BY <1>10, RetryKeeps
  <1>11. ASSUME NEW i \in DOMAIN Deposits, Deposit(i) PROVE SenderIInv'
    BY <1>11, DepositKeeps
  <1>12. ASSUME UNCHANGED vars PROVE SenderIInv'
    <2>1. /\ UNCHANGED nodeVars /\ pc' = pc /\ payment' = payment /\ tx' = tx
          /\ faults' = faults
      BY <1>12 DEF vars
    <2>2. NodeInv' /\ NamesKept /\ accepted' = accepted
      BY <2>1, SameNode DEF SenderIInv, nodeVars
    <2>3. CallTypes'
      BY <2>1 DEF SenderIInv, CallTypes
    <2>4. AcceptedInv'
      BY <2>1, <2>2 DEF SenderIInv, AcceptedInv, Done
    <2>5. TxInv'
      BY <2>1, <2>2, OtherCalls DEF TxInv
    <2>6. MadeInv'
      BY <2>1, MadeKept
    <2> QED
      BY <2>2, <2>3, <2>4, <2>5, <2>6 DEF SenderIInv
  <1> QED
    BY <1>1, <1>2, <1>4, <1>5, <1>6, <1>7, <1>8, <1>9, <1>10, <1>11, <1>12
    DEF Next, Progress

\* However the calls interleave, and whichever answers are lost, the amounts of
\* change are not negative, an unspent output keeps its name to itself, and the
\* inputs of a transaction the node still takes cover the payment, with not one
\* output more than it needs: to less than a Grain, whatever float64 makes of sums.
THEOREM SenderIsSound == Spec => []SenderInv
  <1>1. Spec => []SenderIInv
    BY SenderStarts, SenderSteps, PTL DEF Spec
  <1> QED
    BY <1>1, SenderInvFollows, PTL

-----------------------------------------------------------------------------
(* The address as one balance. *)

\* The balance after a transaction: less its inputs, and its change.
LEMMA BalanceOfAccept ==
    ASSUME SenderIInv, NEW c \in Calls, pc[c] = "broadcast", Accept(c)
    PROVE  /\ Balance \in Int /\ Worth(Range(tx[c].inputs)) <= Balance
           /\ Balance' = (Balance - Worth(Range(tx[c].inputs))) + tx[c].change
  <1> DEFINE S == DOMAIN unspent
             R == Range(tx[c].inputs)
             v == tx[c].change
             K == Left(c)
             N == Change(c)
  <1>1. R \in SUBSET S /\ v \in Nat
    BY TransactionFacts DEF Accept
  <1>2. IsFiniteSet(S) /\ \A o \in S : unspent[o] \in Nat
    BY DEF SenderIInv, NodeInv
  <1>3. /\ DOMAIN unspent' = K \cup N /\ K \cap N = {}
        /\ \A o \in K : unspent'[o] = unspent[o]
        /\ \A o \in N : unspent'[o] = v
    BY AcceptFacts
  <1>4. K = S \ R /\ N = IF v > 0 THEN {<<accepted + 1, 1>>} ELSE {}
    BY DEF Left, Change
  <1> HIDE DEF S, R, v, K, N
  <1>5. /\ \A o \in S : unspent[o] \in Int
        /\ IsFiniteSet(K) /\ K \in SUBSET S /\ IsFiniteSet(R)
    BY <1>1, <1>2, <1>4, FS_Subset
  <1>6. SumFunctionOnSet(unspent, S)
          = SumFunctionOnSet(unspent, R) + SumFunctionOnSet(unspent, K)
    BY <1>1, <1>2, <1>4, <1>5, SumOfSplit
  <1>7. /\ SumFunctionOnSet(unspent, S) \in Int
        /\ SumFunctionOnSet(unspent, R) \in Int
        /\ SumFunctionOnSet(unspent, K) \in Int
        /\ SumFunctionOnSet(unspent, R) <= SumFunctionOnSet(unspent, S)
    BY <1>1, <1>2, <1>5, SumType, SumOfSubset
  <1>8. SumFunctionOnSet(unspent', K) = SumFunctionOnSet(unspent, K)
    BY <1>3, <1>5, SumOfSame
  <1>9. SumFunctionOnSet(unspent', K \cup N)
          = SumFunctionOnSet(unspent', K) + v
    <2>1. CASE v > 0
      <3> DEFINE e == <<accepted + 1, 1>>
      <3>1. N = {e}
        BY <1>4, <2>1
      <3> HIDE DEF e
      <3>2. e \notin K /\ unspent'[e] = v /\ \A o \in K : unspent'[o] \in Int
        BY <1>1, <1>3, <1>5, <3>1
      <3> QED
        BY <1>1, <1>5, <3>1, <3>2, SumOfMore
    <2>2. CASE ~ (v > 0)
      <3>1. v = 0 /\ N = {} /\ K \cup N = K
        BY <1>1, <1>4, <2>2
      <3> QED
        BY <1>7, <1>8, <3>1
    <2> QED
      BY <2>1, <2>2
  <1>10. Balance = SumFunctionOnSet(unspent, S)
    BY DEF Balance, Worth, S
  <1>11. Balance' = SumFunctionOnSet(unspent', K \cup N)
    BY <1>3 DEF Balance, Worth
  <1>12. Balance' = (SumFunctionOnSet(unspent, S) - SumFunctionOnSet(unspent, R)) + v
    BY <1>1, <1>6, <1>7, <1>8, <1>9, <1>11
  <1> QED
    BY <1>7, <1>10, <1>12 DEF Worth, R, v

\* A transaction is a payment of the ledger, rounding included.
LEMMA AcceptPays ==
    ASSUME SenderIInv, NEW c \in Calls, pc[c] = "broadcast", Accept(c)
    PROVE  L!Next
  <1> DEFINE total == payment[c].total
             arrived == payment[c].arrived
             W == Worth(Range(tx[c].inputs))
             v == tx[c].change
             rest == (W - total) - v
  <1>1. /\ payment[c] \in Payments /\ total \in Int /\ arrived \in Int
        /\ 0 < arrived /\ arrived <= total
        /\ W \in Int /\ Whole(W) /\ v \in Nat /\ Whole(v)
        /\ rest \in (1 - Grain)..(2 * Grain - 2)
    BY TransactionFacts DEF Accept, validated
  <1>2. /\ Balance \in Int /\ W <= Balance /\ Balance' = (Balance - W) + v
    BY BalanceOfAccept
  <1>3. /\ delivered' = delivered + arrived
        /\ fees' = fees + W - arrived - v
    BY DEF Accept
  <1>4. fees \in Int /\ delivered \in Int
    BY DEF SenderIInv, NodeInv
  <1>5. rest = (W - total) - v
    OBVIOUS
  <1>6. /\ Grain \in Nat \ {0} /\ Satoshi \in Nat \ {0} /\ 2 * Grain <= Satoshi
    BY SenderBounds
  <1> HIDE DEF arrived, W, v, rest
  <1>7. rest \in Int /\ -Satoshi < rest /\ rest < Satoshi
    BY <1>1, <1>6
  <1>8. rest \in L!Rests(total)
    <2> HIDE DEF total
    <2>1. CASE total % Satoshi = 0
      <3> DEFINE more == W - total
      <3>1. W % Satoshi = 0 /\ v % Satoshi = 0 /\ v \in Int
        BY <1>1 DEF Whole
      <3>2. more % Satoshi = 0
        BY <1>1, <1>6, <2>1, <3>1, MultiplesAdd, Zenon
      <3>3. more \in Int /\ rest = more - v
        BY <1>1, <1>5
      <3> HIDE DEF more
      <3>4. (more - v) % Satoshi = 0
        BY <1>6, <3>1, <3>2, <3>3, MultiplesAdd, Zenon
      <3>5. rest % Satoshi = 0
        BY <3>3, <3>4
      <3>6. rest = 0
        BY <1>6, <1>7, <3>5, NoSmallMultiple
      <3> QED
        BY <2>1, <3>6 DEF L!Rests
    <2>2. CASE total % Satoshi # 0
      BY <1>1, <2>2 DEF L!Rests
    <2> QED
      BY <2>1, <2>2
  <1>9. L!Pay(total, arrived)
    <2> HIDE DEF total
    <2>1. /\ Balance >= total + rest
          /\ Balance' = Balance - total - rest
          /\ fees' = fees + total - arrived + rest
      BY <1>1, <1>2, <1>3, <1>4, <1>5, <1>7
    <2> QED
      BY <1>1, <1>3, <1>8, <2>1 DEF L!Pay
  <1> QED
    BY <1>1, <1>9 DEF L!Next, arrived

\* A deposit is a deposit of the ledger.
LEMMA DepositCredits ==
    ASSUME SenderIInv, NEW i \in DOMAIN Deposits, Deposit(i)
    PROVE  L!Next
  <1> DEFINE S == DOMAIN unspent
             e == <<-i, 0>>
             d == Deposits[i]
  <1>1. /\ e \notin S /\ DOMAIN unspent' = S \cup {e}
        /\ \A o \in S : unspent'[o] = unspent[o]
        /\ unspent'[e] = d
    BY DepositFacts
  <1>2. d \in Amounts /\ d \in Int
    BY SenderBounds
  <1>3. IsFiniteSet(S) /\ \A o \in S : unspent[o] \in Int
    BY DEF SenderIInv, NodeInv
  <1>4. Balance = SumFunctionOnSet(unspent, S)
    BY DEF Balance, Worth
  <1> HIDE DEF S, e, d
  <1>5. SumFunctionOnSet(unspent', S \cup {e}) = SumFunctionOnSet(unspent', S) + d
    <2>1. \A o \in S : unspent'[o] \in Int
      BY <1>1, <1>3
    <2> QED
      BY <1>1, <1>2, <1>3, <2>1, SumOfMore
  <1>6. SumFunctionOnSet(unspent', S) = SumFunctionOnSet(unspent, S)
    BY <1>1, <1>3, SumOfSame
  <1>7. Balance' = Balance + d
    BY <1>1, <1>4, <1>5, <1>6 DEF Balance, Worth
  <1>8. delivered' = delivered /\ fees' = fees
    BY DEF Deposit
  <1>9. L!Deposit(d)
    BY <1>7, <1>8 DEF L!Deposit
  <1> QED
    BY <1>2, <1>9 DEF L!Next

\* Every step is a step of the ledger, or changes nothing it sees.
LEMMA LedgerSteps == SenderIInv /\ [Next]_vars => [L!Next]_(L!vars)
  <1> SUFFICES ASSUME SenderIInv, [Next]_vars PROVE [L!Next]_(L!vars)
    OBVIOUS
  <1>1. ASSUME UNCHANGED nodeVars PROVE UNCHANGED L!vars
    <2>1. unspent' = unspent /\ delivered' = delivered /\ fees' = fees
      BY <1>1 DEF nodeVars
    <2>2. Balance' = Balance
      BY <2>1 DEF Balance, Worth
    <2> QED
      BY <2>1, <2>2 DEF L!vars
  <1>2. ASSUME NEW c \in Calls, SendRawTransaction(c) \/ SendUnanswered(c)
        PROVE  L!Next
    BY <1>2, AcceptPays DEF SendRawTransaction, SendUnanswered
  <1>3. ASSUME NEW i \in DOMAIN Deposits, Deposit(i) PROVE L!Next
    BY <1>3, DepositCredits
  <1>4. ASSUME NEW c \in Calls,
               \/ \E p \in Payments : Send(c, p)
               \/ ListUnspent(c) \/ CreateRawTransaction(c)
               \/ SignRawTransactionWithWallet(c) \/ SendConflicts(c)
               \/ CallFails(c) \/ Retry(c)
        PROVE  UNCHANGED nodeVars
    BY <1>4 DEF Send, ListUnspent, CreateRawTransaction,
                SignRawTransactionWithWallet, SendConflicts, CallFails, Retry
  <1>5. ASSUME UNCHANGED vars PROVE UNCHANGED nodeVars
    BY <1>5 DEF vars
  <1> QED
    BY <1>1, <1>2, <1>3, <1>4, <1>5 DEF Next, Progress

\* However the calls interleave, and whichever answers are lost, the address pays
\* as one balance: a transaction takes the total amount from it, exactly when that
\* is of whole satoshis, whatever float64 makes of the sums.
THEOREM SenderImplementsLedger == Spec => ImplementsLedger
  <1>1. Spec => []SenderIInv
    BY SenderStarts, SenderSteps, PTL DEF Spec
  <1>2. Init => L!Init
    <2> SUFFICES ASSUME Init PROVE L!Init
      OBVIOUS
    <2>1. DOMAIN unspent = {} /\ delivered = 0 /\ fees = 0
      BY DEF Init
    <2>2. Balance = 0
      BY <2>1, SumOfNone DEF Balance, Worth
    <2> QED
      BY <2>1, <2>2 DEF L!Init
  <1> QED
    BY <1>1, <1>2, LedgerSteps, PTL DEF Spec, ImplementsLedger, L!Spec
=============================================================================
